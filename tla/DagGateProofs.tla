---------------------------- MODULE DagGateProofs ----------------------------
(***************************************************************************)
(* Theorems about DagGate, from the search for cycles to the verdict, and   *)
(* about what DagRecovery derives from the result, for any finite plan.     *)
(*                                                                          *)
(* The gate reads the set of invalid units while it is still growing.  The  *)
(* invariant says why that is enough: what a unit depends on stands before  *)
(* it in the order, so that its reasons no longer change once it has been   *)
(* evaluated.  The order is the canonical one because the least of the      *)
(* ready units was taken at each place.  SearchInv follows the stack of     *)
(* diagnoseDagDependenciesV2 and what its low links mean; from it follows   *)
(* that the diagnosis is complete, and from that that no order fails.  Of a *)
(* recovery, RecoveryInv follows which units are changed and which carried  *)
(* up to the second gate, and TraceInv the paths to the affected units.     *)
(***************************************************************************)
EXTENDS DagRecovery, NumberFacts

\* The units at the first n places of the order.
Placed(n) == {order[i] : i \in 1..n}

\* Each unit of the order stands there once, after its dependencies, and before
\* every other that could have stood there.
OrderInv ==
    /\ deps \in Plans
    /\ order \in Seq(Units)
    /\ \A i, j \in DOMAIN order : order[i] = order[j] => i = j
    /\ \A i \in DOMAIN order : deps[order[i]] \subseteq Placed(i - 1)
    /\ \A i \in DOMAIN order : \A u \in Units \ Placed(i - 1) :
          deps[u] \subseteq Placed(i - 1) => order[i] <= u

Semantic == pc = "evaluating" \/ Decided

\* The units evaluated so far have their final reasons, and every set that
\* contains the failing units, or the cut, with its dependants holds the invalid.
EvaluationInv ==
    /\ at \in 1..(Len(order) + 1)
    /\ Placed(Len(order)) = Units
    /\ DOMAIN reasons = Units
    /\ invalid \subseteq Placed(at - 1)
    /\ \A u \in Placed(at - 1) :
          /\ reasons[u] = UnitReasons(u)
          /\ u \in invalid <=> UnitReasons(u) # {}
    /\ \A T \in SUBSET Units :
          (Failing \subseteq T /\ ClosedUnderDependants(deps, T)) => invalid \subseteq T
    /\ \A T \in SUBSET Units :
          (AffectedCut \subseteq T /\ ClosedUnderDependants(deps, T)) => invalid \subseteq T

Untouched == at = 1 /\ invalid = {} /\ reasons = NoReasons

GateInv ==
    /\ OrderInv
    /\ pc \in {"searching", "ordering", "binding", "ancestry"} => Untouched
    /\ pc \in {"binding", "ancestry"} => Placed(Len(order)) = Units
    /\ Semantic => EvaluationInv
    /\ Decided => at = Len(order) + 1 /\ cut = AffectedCut

-----------------------------------------------------------------------------
\* Of some WorkUnit ids one comes first: Array.sort()[0] is the least of them.
LEMMA LeastUnit ==
    ASSUME NEW S \in SUBSET Units, S # {}
    PROVE  Min(S) \in S /\ \A y \in S : Min(S) <= y
<1>1. \E x \in S : \A y \in S : x <= y
  BY PlansAssumption, LeastNumber
<1>2. QED
  BY <1>1 DEF Min

\* The order is built by appending a ready unit not yet placed.
LEMMA OrderStep ==
    ASSUME GateInv, [Next]_vars
    PROVE  OrderInv'
<1>1. CASE OrderNext
  <2>1. CASE Ready = {}
    BY <1>1, <2>1 DEF OrderNext, GateInv, OrderInv, Placed, searchVars
  <2>2. CASE Ready # {}
    <3> DEFINE u == Min(Ready)
    <3>1. u \in Ready
      BY <2>2, LeastUnit DEF Ready, Unordered
    <3>2. u \in Units /\ u \notin ToSet(order) /\ deps[u] \subseteq ToSet(order)
      BY <3>1 DEF Ready, Unordered
    <3>3. order' = Append(order, u) /\ deps' = deps
      BY <1>1, <2>2 DEF OrderNext, searchVars
    <3>4. order \in Seq(Units)
      BY DEF GateInv, OrderInv
    <3> HIDE DEF u
    <3>5. /\ order' \in Seq(Units)
          /\ Len(order') = Len(order) + 1
          /\ DOMAIN order = 1..Len(order)
          /\ DOMAIN order' = 1..(Len(order) + 1)
          /\ \A i \in 1..Len(order) : order'[i] = order[i]
          /\ order'[Len(order) + 1] = u
      BY <3>2, <3>3, <3>4
    <3>6. ToSet(order) = Placed(Len(order))
      BY <3>5 DEF ToSet, Placed
    <3>7. ASSUME NEW i \in DOMAIN order'
          PROVE  deps'[order'[i]] \subseteq Placed(i - 1)'
      <4>1. CASE i = Len(order) + 1
        BY <3>2, <3>3, <3>4, <3>5, <3>6, <4>1 DEF Placed
      <4>2. CASE i \in 1..Len(order)
        <5>1. deps[order[i]] \subseteq Placed(i - 1)
          BY <3>5, <4>2 DEF GateInv, OrderInv
        <5>2. \A j \in 1..(i - 1) : order'[j] = order[j]
          BY <3>4, <3>5, <4>2
        <5>3. QED
          BY <3>3, <3>5, <4>2, <5>1, <5>2 DEF Placed
      <4>3. QED
        BY <3>5, <3>4, <4>1, <4>2
    <3>8. ASSUME NEW i \in DOMAIN order', NEW j \in DOMAIN order', order'[i] = order'[j]
          PROVE  i = j
      <4>1. \A k \in 1..Len(order) : order[k] # u
        BY <3>2, <3>5 DEF ToSet
      <4>2. QED
        BY <3>4, <3>5, <3>8, <4>1 DEF GateInv, OrderInv
    <3>9. ASSUME NEW i \in DOMAIN order', NEW v \in Units \ Placed(i - 1)',
                 deps'[v] \subseteq Placed(i - 1)'
          PROVE  order'[i] <= v
      <4>1. Placed(i - 1)' = Placed(i - 1)
        <5>1. \A j \in 1..(i - 1) : order'[j] = order[j]
          BY <3>4, <3>5
        <5>2. QED
          BY <5>1 DEF Placed
      <4>2. CASE i = Len(order) + 1
        <5>1. v \in Ready
          BY <3>3, <3>4, <3>5, <3>6, <3>9, <4>1, <4>2 DEF Ready, Unordered
        <5>2. Ready \in SUBSET Units
          BY DEF Ready, Unordered
        <5>3. u <= v
          BY <2>2, <5>1, <5>2, LeastUnit DEF u
        <5>4. QED
          BY <3>5, <4>2, <5>3
      <4>3. CASE i \in 1..Len(order)
        BY <3>3, <3>5, <3>9, <4>1, <4>3 DEF GateInv, OrderInv
      <4>4. QED
        BY <3>4, <3>5, <4>2, <4>3
    <3>10. QED
      BY <3>3, <3>5, <3>7, <3>8, <3>9 DEF GateInv, OrderInv
  <2>3. QED
    BY <2>1, <2>2
<1>2. CASE UNCHANGED <<deps, order>>
  BY <1>2 DEF GateInv, OrderInv, Placed
<1>3. QED
  BY <1>1, <1>2 DEF Next, Step, RunEnded, Search, SearchStep, VisitRoot,
     FollowDependency, PassMissing, PassComplete, Descend, BackEdge, Visit,
     Return, DiagnosePlan, EmitStructuralError, OrderComplete, Bind,
     CommitOutsidePlan, CheckAncestry, EvaluateUnit, Decide, Emit, HeadMoved,
     vars, gateVars, searchVars

\* The step of EvaluateUnit: the unit's dependencies have been evaluated, and
\* no unit evaluated before depends on it.
LEMMA EvaluationStep ==
    ASSUME OrderInv, EvaluationInv, EvaluateUnit
    PROVE  EvaluationInv'
<1> DEFINE u == order[at]
<1>1. /\ order \in Seq(Units) /\ at \in Nat /\ at >= 1 /\ at <= Len(order)
      /\ u \in Units
      /\ at \in DOMAIN order
  BY DEF OrderInv, EvaluationInv, EvaluateUnit
<1>2. /\ reasons' = [reasons EXCEPT ![u] = UnitReasons(u)]
      /\ invalid' = IF UnitReasons(u) = {} THEN invalid ELSE invalid \cup {u}
      /\ at' = at + 1
      /\ UNCHANGED <<deps, order, own>>
  BY DEF EvaluateUnit, searchVars
<1>3. deps[u] \subseteq Placed(at - 1)
  BY <1>1 DEF OrderInv
<1>4. u \notin Placed(at - 1)
  BY <1>1 DEF OrderInv, Placed
<1>5. \A v \in Placed(at - 1) : deps[v] \subseteq Placed(at - 1)
  <2> SUFFICES ASSUME NEW i \in 1..(at - 1) PROVE deps[order[i]] \subseteq Placed(at - 1)
    BY DEF Placed
  <2>1. deps[order[i]] \subseteq Placed(i - 1)
    BY <1>1 DEF OrderInv
  <2>2. 1..(i - 1) \subseteq 1..(at - 1)
    BY <1>1
  <2>3. QED
    BY <2>1, <2>2 DEF Placed
<1>6. Placed(at - 1)' = Placed(at - 1) \cup {u}
  <2>1. 1..(at' - 1) = 1..(at - 1) \cup {at}
    BY <1>1, <1>2
  <2>2. QED
    BY <1>2, <2>1 DEF Placed
<1> HIDE DEF u
<1>7. invalid \subseteq Placed(at - 1)
  BY DEF EvaluationInv
<1>8. \A v \in Placed(at - 1) \cup {u} : deps[v] \cap invalid' = deps[v] \cap invalid
  BY <1>2, <1>3, <1>4, <1>5
<1>9. \A v \in Placed(at - 1) \cup {u} : UnitReasons(v)' = UnitReasons(v)
  BY <1>2, <1>8 DEF UnitReasons
<1>10. at' \in 1..(Len(order') + 1) /\ Placed(Len(order))' = Units /\ DOMAIN reasons' = Units
  BY <1>1, <1>2 DEF EvaluationInv, Placed
<1>11. invalid' \subseteq Placed(at - 1)'
  BY <1>2, <1>6, <1>7
<1>12. ASSUME NEW v \in Placed(at - 1)'
       PROVE  /\ reasons'[v] = UnitReasons(v)'
              /\ v \in invalid' <=> UnitReasons(v)' # {}
  <2>1. CASE v = u
    BY <1>1, <1>2, <1>4, <1>7, <1>9, <2>1 DEF EvaluationInv
  <2>2. CASE v # u
    BY <1>2, <1>6, <1>9, <1>12, <2>2 DEF EvaluationInv
  <2>3. QED
    BY <2>1, <2>2
<1>13. u \in invalid' => own[u] # {} \/ deps[u] \cap invalid # {}
  BY <1>2, <1>4, <1>7 DEF UnitReasons
<1>14. ASSUME NEW T \in SUBSET Units, Failing' \subseteq T,
              ClosedUnderDependants(deps', T)
       PROVE  invalid' \subseteq T
  <2>1. invalid \subseteq T
    BY <1>2, <1>14 DEF EvaluationInv, Failing
  <2>2. u \in invalid' => u \in T
    BY <1>1, <1>2, <1>13, <1>14, <2>1 DEF Failing, ClosedUnderDependants
  <2>3. QED
    BY <1>2, <2>1, <2>2
<1>15. ASSUME NEW T \in SUBSET Units, AffectedCut' \subseteq T,
              ClosedUnderDependants(deps', T)
       PROVE  invalid' \subseteq T
  <2>1. AffectedCut \subseteq AffectedCut'
    BY <1>2, <1>7, <1>8 DEF AffectedCut
  <2>2. invalid \subseteq T
    BY <1>2, <1>15, <2>1 DEF EvaluationInv
  <2>3. u \in invalid' => u \in T
    BY <1>1, <1>2, <1>8, <1>15, <2>2 DEF AffectedCut, ClosedUnderDependants
  <2>4. QED
    BY <1>2, <2>2, <2>3
<1>16. QED
  BY <1>10, <1>11, <1>12, <1>14, <1>15 DEF EvaluationInv

\* What leaves the result and the order alone leaves the invariant alone.
LEMMA EvaluationKept ==
    ASSUME EvaluationInv, UNCHANGED <<deps, order, own, at, reasons, invalid>>
    PROVE  EvaluationInv'
<1>1. \A n : Placed(n)' = Placed(n)
  BY DEF Placed
<1>2. \A u : UnitReasons(u)' = UnitReasons(u)
  BY DEF UnitReasons
<1>3. Failing' = Failing /\ AffectedCut' = AffectedCut
  BY DEF Failing, AffectedCut
<1>4. QED
  BY <1>1, <1>2, <1>3 DEF EvaluationInv

\* With the ancestry in place the evaluation starts from nothing.
LEMMA EvaluationStarts ==
    ASSUME Untouched, Placed(Len(order)) = Units, order \in Seq(Units),
           UNCHANGED <<deps, order, at, reasons, invalid>>
    PROVE  EvaluationInv'
<1>1. Placed(at - 1)' = {}
  BY DEF Untouched, Placed
<1>2. at' \in 1..(Len(order') + 1)
  BY DEF Untouched
<1>3. QED
  BY <1>1, <1>2 DEF Untouched, NoReasons, EvaluationInv, Placed

\* A structural error has verdict "error" and claims nothing about evaluation.
LEMMA StructuralIsNotSemantic ==
    ASSUME NEW diags, NEW oid, EmitStructuralError(diags, oid)
    PROVE  ~Semantic' /\ ~Decided' /\ pc' \in {"emitting", "failed"}
BY DEF EmitStructuralError, Semantic, Decided

\* Each stage of createDagSemanticGate leaves the invariant behind.
LEMMA GateStep ==
    ASSUME GateInv, [Next]_vars
    PROVE  GateInv'
<1>1. OrderInv /\ OrderInv'
  BY OrderStep DEF GateInv
<1>2. CASE Search
  BY <1>1, <1>2 DEF Search, gateVars, GateInv, Semantic, Decided, Untouched
<1>3. CASE DiagnosePlan
  BY <1>1, <1>3, StructuralIsNotSemantic
     DEF DiagnosePlan, GateInv, Semantic, Decided, Untouched
<1>4. CASE OrderNext
  BY <1>1, <1>4 DEF OrderNext, GateInv, Semantic, Decided, Untouched
<1>5. CASE OrderComplete
  <2>1. Placed(Len(order)) = ToSet(order)
    BY <1>1 DEF OrderInv, Placed, ToSet
  <2>2. ToSet(order) \subseteq Units
    BY <1>1 DEF OrderInv, ToSet
  <2>3. QED
    BY <1>1, <1>5, <2>1, <2>2
       DEF OrderComplete, Unordered, GateInv, Semantic, Decided, Untouched, Placed
<1>6. CASE Bind
  <2>1. PICK commits \in [Units -> {"none", "one", "many"}] :
           \/ EmitStructuralError(BindingDiagnostics(commits), NamesOnly)
           \/ /\ pc' = "ancestry"
              /\ UNCHANGED <<diagnostics, order, own, at, reasons, invalid, cut, verdict>>
    BY <1>6 DEF Bind
  <2>2. QED
    BY <1>1, <1>6, <2>1, StructuralIsNotSemantic
       DEF Bind, GateInv, Semantic, Decided, Untouched, Placed
<1>7. CASE CommitOutsidePlan
  BY <1>1, <1>7 DEF CommitOutsidePlan, GateInv, Semantic, Decided
<1>8. CASE CheckAncestry
  <2>1. CASE \E found, oid : EmitStructuralError(found, oid)
    BY <1>1, <2>1, StructuralIsNotSemantic DEF GateInv
  <2>2. CASE /\ pc' = "evaluating"
             /\ UNCHANGED <<deps, order, at, reasons, invalid>>
    <3>1. EvaluationInv'
      BY <1>1, <1>8, <2>2, EvaluationStarts DEF CheckAncestry, GateInv, OrderInv
    <3>2. QED
      BY <1>1, <2>2, <3>1 DEF GateInv, Semantic, Decided
  <2>3. QED
    BY <1>8, <2>1, <2>2 DEF CheckAncestry
<1>9. CASE EvaluateUnit
  <2>1. EvaluationInv'
    BY <1>1, <1>9, EvaluationStep DEF EvaluateUnit, GateInv, Semantic
  <2>2. QED
    BY <1>1, <1>9, <2>1 DEF EvaluateUnit, GateInv, Semantic, Decided
<1>10. CASE Decide
  <2>1. EvaluationInv /\ at = Len(order) + 1
    BY <1>1, <1>10 DEF Decide, GateInv, Semantic, EvaluationInv, OrderInv
  <2>2. EvaluationInv' /\ cut' = AffectedCut' /\ at' = Len(order') + 1
    BY <1>10, <2>1, EvaluationKept DEF Decide, searchVars, AffectedCut
  <2>3. QED
    BY <1>1, <1>10, <2>2 DEF Decide, GateInv, Semantic
<1>11. CASE Emit
  <2>1. Decided' => Decided
    BY <1>11 DEF Emit, Decided
  <2>2. Decided => EvaluationInv' /\ cut' = AffectedCut' /\ at' = Len(order') + 1
    BY <1>11, EvaluationKept DEF Emit, searchVars, AffectedCut, GateInv, Semantic
  <2>3. QED
    BY <1>1, <1>11, <2>1, <2>2 DEF Emit, GateInv, Semantic
<1>12. CASE HeadMoved
  BY <1>1, <1>12 DEF HeadMoved, GateInv, Semantic, Decided
<1>13. CASE RunEnded \/ UNCHANGED vars
  <2>1. UNCHANGED <<deps, pc, order, own, at, reasons, invalid, cut, verdict>>
    BY <1>13 DEF RunEnded, vars
  <2>2. Semantic => EvaluationInv'
    BY <2>1, EvaluationKept DEF GateInv
  <2>3. AffectedCut' = AffectedCut /\ Placed(Len(order))' = Placed(Len(order))
    BY <2>1 DEF AffectedCut, Placed
  <2>4. QED
    BY <1>1, <2>1, <2>2, <2>3 DEF GateInv, Semantic, Decided, Untouched
<1>14. QED
  BY <1>2, <1>3, <1>4, <1>5, <1>6, <1>7, <1>8, <1>9, <1>10, <1>11, <1>12, <1>13
     DEF Next, Step

\* A run starts with an empty order and nothing evaluated.
LEMMA GateStarts == Init => GateInv
BY DEF Init, SearchInit, GateInv, OrderInv, Untouched, Semantic, Decided

-----------------------------------------------------------------------------
\* In any plan, however the search, the binding and the checks end, the order is
\* one that respects the dependencies and the evaluation is final as it goes.
THEOREM GateInvariant == Spec => []GateInv
<1>1. QED
  BY GateStarts, GateStep, PTL DEF Spec

\* The reasons computeDagGateV2 gives a unit when its turn comes are the reasons
\* it would give it with the complete set of invalid units.
THEOREM ReasonsStayRight == Spec => []ReasonsAreFinal
<1>1. ASSUME GateInv PROVE ReasonsAreFinal
  <2> SUFFICES ASSUME Decided
               PROVE  /\ \A u \in Units : reasons[u] = UnitReasons(u)
                      /\ invalid = {u \in Units : reasons[u] # {}}
    BY DEF ReasonsAreFinal
  <2>1. EvaluationInv /\ Placed(at - 1) = Units
    BY <1>1 DEF GateInv, Semantic, EvaluationInv, OrderInv
  <2>2. QED
    BY <2>1 DEF EvaluationInv
<1>2. QED
  BY <1>1, GateInvariant, PTL

\* The invalid units of a result are the failing units and all that depends on
\* them, and no other, in every plan without structural defects.
THEOREM InvalidAreConsequences == Spec => []InvalidIsConsequence
<1>1. ASSUME GateInv PROVE InvalidIsConsequence
  <2> SUFFICES ASSUME Decided PROVE IsConsequenceOf(deps, invalid, Failing)
    BY DEF InvalidIsConsequence
  <2>1. EvaluationInv /\ Placed(at - 1) = Units
    BY <1>1 DEF GateInv, Semantic, EvaluationInv, OrderInv
  <2>2. \A u \in Units : u \in invalid <=> own[u] # {} \/ deps[u] \cap invalid # {}
    BY <2>1 DEF EvaluationInv, UnitReasons
  <2>3. Failing \subseteq invalid /\ ClosedUnderDependants(deps, invalid)
    BY <2>2 DEF Failing, ClosedUnderDependants
  <2>4. QED
    BY <2>1, <2>3 DEF EvaluationInv, IsConsequenceOf
<1>2. QED
  BY <1>1, GateInvariant, PTL

\* minimalAffectedCut explains every invalid unit, by units that fail by their
\* own evidence, and no unit of the cut can be left out.
THEOREM CutExplains == Spec => []CutExplainsInvalid
<1>1. ASSUME GateInv PROVE CutExplainsInvalid
  <2> SUFFICES ASSUME Decided
               PROVE  /\ IsConsequenceOf(deps, invalid, cut)
                      /\ cut \subseteq Failing
                      /\ \A c \in cut : \E T \in SUBSET Units :
                            /\ cut \ {c} \subseteq T
                            /\ ClosedUnderDependants(deps, T)
                            /\ c \notin T
    BY DEF CutExplainsInvalid
  <2>1. EvaluationInv /\ Placed(at - 1) = Units /\ cut = AffectedCut
    BY <1>1 DEF GateInv, Semantic, EvaluationInv, OrderInv
  <2>2. \A u \in Units : u \in invalid <=> own[u] # {} \/ deps[u] \cap invalid # {}
    BY <2>1 DEF EvaluationInv, UnitReasons
  <2>3. invalid \subseteq Units
    BY <2>1 DEF EvaluationInv
  <2>4. cut \subseteq invalid /\ ClosedUnderDependants(deps, invalid)
    BY <2>1, <2>2 DEF AffectedCut, ClosedUnderDependants
  <2>5. IsConsequenceOf(deps, invalid, cut)
    BY <2>1, <2>4 DEF EvaluationInv, IsConsequenceOf
  <2>6. cut \subseteq Failing
    BY <2>1, <2>2, <2>3 DEF AffectedCut, Failing
  <2>7. ASSUME NEW c \in cut
        PROVE  \E T \in SUBSET Units :
                  cut \ {c} \subseteq T /\ ClosedUnderDependants(deps, T) /\ c \notin T
    <3>1. c \in invalid /\ deps[c] \cap invalid = {}
      BY <2>1, <2>7 DEF AffectedCut
    <3>2. ClosedUnderDependants(deps, invalid \ {c})
      BY <2>4, <3>1 DEF ClosedUnderDependants
    <3>3. cut \ {c} \subseteq invalid \ {c} /\ invalid \ {c} \in SUBSET Units
      BY <2>3, <2>4
    <3>4. QED
      BY <3>2, <3>3
  <2>8. QED
    BY <2>5, <2>6, <2>7
<1>2. QED
  BY <1>1, GateInvariant, PTL

\* The canonical order is the first of all that respect the dependencies: where another
\* first differs, its unit was ready too, and the least of the ready ones was taken.
LEMMA OrderIsFirst == Spec => []FirstOrder
<1>1. ASSUME GateInv PROVE FirstOrder
  <2> SUFFICES ASSUME pc = "binding"
               PROVE  /\ order \in Orders
                      /\ \A f \in Orders \ {order} :
                            \E i \in DOMAIN f :
                                /\ order[i] < f[i]
                                /\ \A j \in 1..(i - 1) : order[j] = f[j]
    BY DEF FirstOrder
  <2> DEFINE N == Cardinality(Units)
  <2>1. /\ order \in Seq(Units) /\ Len(order) \in Nat /\ DOMAIN order = 1..Len(order)
        /\ \A i, j \in DOMAIN order : order[i] = order[j] => i = j
        /\ \A i \in DOMAIN order : deps[order[i]] \subseteq Placed(i - 1)
        /\ Placed(Len(order)) = Units
    BY <1>1 DEF GateInv, OrderInv
  <2>2. Units \subseteq Nat /\ IsFiniteSet(Units) /\ N \in Nat
    BY PlansAssumption, FS_CardinalityType
  <2>3. order \in [1..Len(order) -> Units]
    BY <2>1
  <2>4. order \in Bijection(1..Len(order), Units)
    <3>1. \A u \in Units : \E i \in 1..Len(order) : order[i] = u
      BY <2>1 DEF Placed
    <3>2. order \in Injection(1..Len(order), Units)
      BY <2>1, <2>3 DEF Injection, IsInjective
    <3>3. order \in Surjection(1..Len(order), Units)
      BY <2>3, <3>1 DEF Surjection
    <3>4. QED
      BY <3>2, <3>3 DEF Bijection
  <2>5. N = Len(order)
    <3>1. ExistsBijection(1..Len(order), Units)
      BY <2>4 DEF ExistsBijection
    <3>2. IsFiniteSet(1..Len(order)) /\ Cardinality(1..Len(order)) = Len(order)
      <4>1. \A n \in Nat : IsFiniteSet(1..n) /\ Cardinality(1..n) = n
        BY FS_Interval
      <4>2. Len(order) \in Nat
        BY <2>1
      <4>3. QED
        BY <4>1, <4>2, Zenon
    <3>3. QED
      BY <3>1, <3>2, FS_Bijection
  <2> HIDE DEF N
  <2>6. order \in Orders
    BY <2>1, <2>3, <2>5 DEF Orders, IsInjective, Placed, N
  <2>7. ASSUME NEW f \in Orders, f # order
        PROVE  \E i \in DOMAIN f :
                  order[i] < f[i] /\ \A j \in 1..(i - 1) : order[j] = f[j]
    <3>1. /\ f \in [1..N -> Units] /\ \A i, j \in 1..N : f[i] = f[j] => i = j
          /\ \A i \in 1..N : deps[f[i]] \subseteq {f[j] : j \in 1..(i - 1)}
      BY DEF Orders, IsInjective, N
    <3> DEFINE D == {i \in 1..N : order[i] # f[i]}
    <3>2. D # {} /\ D \subseteq Nat
      BY <2>3, <2>5, <2>7, <3>1
    <3>3. PICK i \in D : \A j \in D : i <= j
      BY <3>2, LeastNumber
    <3>4. /\ i \in 1..N /\ i \in Nat /\ order[i] # f[i]
          /\ \A j \in 1..(i - 1) : j \in 1..N /\ order[j] = f[j]
      BY <2>2, <3>3
    <3>5. Placed(i - 1) = {f[j] : j \in 1..(i - 1)}
      BY <3>4 DEF Placed
    <3>6. f[i] \in Units \ Placed(i - 1) /\ deps[f[i]] \subseteq Placed(i - 1)
      <4>1. \A j \in 1..(i - 1) : f[j] # f[i]
        BY <3>1, <3>4
      <4>2. QED
        BY <3>1, <3>4, <3>5, <4>1
    <3>7. order[i] <= f[i] /\ order[i] \in Nat /\ f[i] \in Nat
      BY <1>1, <2>1, <2>2, <2>3, <2>5, <3>1, <3>4, <3>6 DEF GateInv, OrderInv
    <3>8. order[i] < f[i] /\ i \in DOMAIN f
      BY <3>1, <3>4, <3>7
    <3>9. QED
      BY <3>4, <3>8
  <2>8. QED
    BY <2>6, <2>7
<1>2. QED
  BY <1>1, GateInvariant, PTL

-----------------------------------------------------------------------------
(* The search for cycles *)

\* In the plan v is u, or u depends on it.
Reaches(plan, u, v) == v = u \/ v \in Needs(plan, u)

\* The component of u.
Component(plan, u) == {v \in Units : Reaches(plan, u, v) /\ Reaches(plan, v, u)}

\* The units on the stack and the calls stand in the order of discovery; what is
\* visited and no longer on the stack is in a component.
StackInv ==
    /\ Visited \subseteq Units
    /\ index \in [Visited -> Nat] /\ low \in [Visited -> Nat]
    /\ \A u \in Visited : index[u] < Cardinality(Visited)
    /\ stack \in Seq(Visited)
    /\ \A i, j \in DOMAIN stack : i < j => index[stack[i]] < index[stack[j]]
    /\ UNION components = Visited \ ToSet(stack)

Frames == [unit : Units, todo : SUBSET (Units \cup Ghosts)]

CallsInv ==
    /\ calls \in Seq(Frames)
    /\ \A i \in DOMAIN calls :
          calls[i].unit \in ToSet(stack) /\ calls[i].todo \subseteq deps[calls[i].unit]
    /\ \A i, j \in DOMAIN calls : i < j => index[calls[i].unit] < index[calls[j].unit]

\* All that a unit depends on is visited, but for what its call has still to do.
VisitedInv ==
    \A u \in Visited : \A d \in deps[u] \cap Units :
        d \in Visited \/ \E i \in DOMAIN calls : calls[i].unit = u /\ d \in calls[i].todo

\* What is on the stack is reached by each call before it, and reaches one of them.
ReachInv ==
    /\ \A i \in DOMAIN calls : \A x \in ToSet(stack) :
          index[calls[i].unit] <= index[x] => Reaches(deps, calls[i].unit, x)
    /\ \A x \in ToSet(stack) : \E i \in DOMAIN calls :
          index[calls[i].unit] <= index[x] /\ Reaches(deps, x, calls[i].unit)

\* x is on the stack since the call at i and since none after it.
BelongsTo(x, i) ==
    /\ x \in ToSet(stack)
    /\ index[calls[i].unit] <= index[x]
    /\ i < Len(calls) => index[x] < index[calls[i + 1].unit]

\* The low link of a call is the index of a unit on the stack that it reaches, and no
\* dependency followed for it has a lower one.
LowInv ==
    \A i \in DOMAIN calls :
        LET u == calls[i].unit
        IN /\ low[u] <= index[u]
           /\ \E w \in ToSet(stack) : index[w] = low[u] /\ Reaches(deps, u, w)
           /\ \A x \in ToSet(stack) : \A d \in deps[x] \cap ToSet(stack) :
                 BelongsTo(x, i) =>
                    (x = u /\ d \in calls[i].todo) \/ low[u] <= index[d]

\* The components found are complete and depend on each other only.
ComponentsInv ==
    /\ Closed(deps, UNION components)
    /\ \A C \in components : C # {} /\ \A c \in C : C = Component(deps, c)

SearchInv ==
    /\ StackInv /\ CallsInv /\ VisitedInv /\ ReachInv /\ LowInv /\ ComponentsInv

\* What a unit names as a dependency it reaches.
LEMMA ReachesOne ==
    ASSUME NEW plan \in Plans, NEW u \in Units, NEW d \in plan[u] \cap Units
    PROVE  Reaches(plan, u, d)
BY DEF Reaches, Needs

\* What holds u and is closed holds all that u reaches.
LEMMA ReachedInside ==
    ASSUME NEW plan \in Plans, NEW S \in SUBSET Units, Closed(plan, S), NEW u \in S,
           NEW v, Reaches(plan, u, v)
    PROVE  v \in S
<1>1. plan[u] \cap Units \subseteq S
  BY DEF Closed
<1>2. QED
  BY <1>1 DEF Reaches, Needs

\* What u depends on, with u or without it, is closed.
LEMMA NeedsClosed ==
    ASSUME NEW plan \in Plans, NEW u \in Units
    PROVE  /\ Needs(plan, u) \subseteq Units
           /\ plan[u] \cap Units \subseteq Needs(plan, u)
           /\ Closed(plan, Needs(plan, u))
           /\ Closed(plan, {u} \cup Needs(plan, u))
<1>1. Needs(plan, u) \subseteq Units /\ plan[u] \cap Units \subseteq Needs(plan, u)
  BY DEF Needs
<1>2. ASSUME NEW v \in Needs(plan, u), NEW d \in plan[v] \cap Units
      PROVE  d \in Needs(plan, u)
  <2>1. ASSUME NEW S \in SUBSET Units, plan[u] \cap Units \subseteq S, Closed(plan, S)
        PROVE  d \in S
    <3>1. v \in S
      BY <1>2, <2>1 DEF Needs
    <3>2. QED
      BY <1>2, <2>1, <3>1 DEF Closed
  <2>2. QED
    BY <1>2, <2>1 DEF Needs
<1>3. QED
  BY <1>1, <1>2 DEF Closed

\* Reaching is transitive.
LEMMA ReachesFurther ==
    ASSUME NEW plan \in Plans, NEW u \in Units, NEW v \in Units, NEW w,
           Reaches(plan, u, v), Reaches(plan, v, w)
    PROVE  Reaches(plan, u, w)
<1> DEFINE S == {u} \cup Needs(plan, u)
<1>1. S \in SUBSET Units /\ Closed(plan, S) /\ v \in S
  BY NeedsClosed DEF Reaches
<1> HIDE DEF S
<1>2. w \in S
  BY <1>1, ReachedInside
<1>3. QED
  BY <1>2 DEF S, Reaches

\* A unit that reaches another that reaches it is one of what it depends on itself.
LEMMA NeedsBack ==
    ASSUME NEW plan \in Plans, NEW u \in Units, NEW v \in Needs(plan, u),
           Reaches(plan, v, u)
    PROVE  u \in Needs(plan, u)
<1>1. Needs(plan, u) \in SUBSET Units /\ Closed(plan, Needs(plan, u))
  BY NeedsClosed
<1>2. QED
  BY <1>1, ReachedInside

\* The units of a component are those of one cycle with its unit.
LEMMA ComponentSharesCycle ==
    ASSUME NEW plan \in Plans, NEW u \in Units
    PROVE  Component(plan, u) =
             {v \in Units : SameCycle([w \in Units |-> Needs(plan, w)], u, v)}
BY DEF Component, Reaches, SameCycle

\* A component is a cycle when its unit depends on itself, through others or not.
LEMMA ComponentIsCycle ==
    ASSUME NEW u \in Units, deps \in Plans
    PROVE  IsCycle(Component(deps, u)) <=> u \in Needs(deps, u)
<1> DEFINE C == Component(deps, u)
<1>1. u \in C /\ C \subseteq Units
  BY DEF Component, Reaches
<1>2. ASSUME u \notin Needs(deps, u)
      PROVE  ~IsCycle(C)
  <2>1. ASSUME NEW v \in C, v # u PROVE FALSE
    <3>1. v \in Needs(deps, u) /\ Reaches(deps, v, u)
      BY <2>1 DEF Component, Reaches
    <3>2. QED
      BY <1>2, <3>1, NeedsBack
  <2>2. C = {u}
    BY <1>1, <2>1
  <2>3. Cardinality(C) = 1
    BY <2>2, FS_Singleton
  <2>4. u \notin deps[u]
    BY <1>2, NeedsClosed
  <2>5. QED
    BY <2>2, <2>3, <2>4 DEF IsCycle
<1>3. ASSUME u \in Needs(deps, u), ~IsCycle(C)
      PROVE  FALSE
  <2>1. Cardinality(C) = 1 /\ \A v \in C : v \notin deps[v]
    BY <1>3 DEF IsCycle
  <2>2. IsFiniteSet(C)
    BY <1>1, PlansAssumption, FS_Subset
  <2>3. C = {u}
    BY <1>1, <2>1, <2>2, FS_Singleton
  <2> DEFINE S == Needs(deps, u) \ {u}
  <2>4. S \in SUBSET Units /\ deps[u] \cap Units \subseteq S
    BY <1>1, <2>1, NeedsClosed
  <2>5. ASSUME NEW v \in S, NEW d \in deps[v] \cap Units
        PROVE  d \in S
    <3>1. v \in Units /\ v # u /\ Reaches(deps, u, v) /\ Reaches(deps, v, d)
      BY <2>4, ReachesOne DEF Reaches
    <3>2. d \in Needs(deps, u)
      BY NeedsClosed DEF Closed
    <3>3. d # u
      BY <2>3, <3>1 DEF Component
    <3>4. QED
      BY <3>2, <3>3
  <2>6. Closed(deps, S)
    BY <2>5 DEF Closed
  <2>7. QED
    BY <1>3, <2>4, <2>6 DEF Needs
<1>4. QED
  BY <1>2, <1>3

\* Math.min of two numbers.
LEMMA LeastOfTwo ==
    ASSUME NEW a \in Nat, NEW b \in Nat
    PROVE  Min({a, b}) \in {a, b} /\ Min({a, b}) <= a /\ Min({a, b}) <= b
<1>1. \E x \in {a, b} : \A y \in {a, b} : x <= y
  OBVIOUS
<1>2. QED
  BY <1>1 DEF Min

\* What a call's removal of d from what it has to do leaves of the calls.
Passed(callers, d) ==
    /\ callers \in Seq(Frames)
    /\ Len(callers) = Len(calls)
    /\ \A i \in DOMAIN calls :
          /\ callers[i].unit = calls[i].unit
          /\ callers[i].todo = IF i = Len(calls) THEN calls[i].todo \ {d} ELSE calls[i].todo

\* The call on top has one dependency less to follow, the others are as they were.
LEMMA AdvancedPasses ==
    ASSUME CallsInv, calls # <<>>, NEW d
    PROVE  Passed(Advanced(d), d)
<1> DEFINE n == Len(calls)
           top == [calls[n] EXCEPT !.todo = @ \ {d}]
<1>1. calls \in Seq(Frames) /\ n \in Nat /\ DOMAIN calls = 1..n /\ n \in DOMAIN calls
  BY DEF CallsInv
<1>2. \A i \in DOMAIN calls : calls[i] \in Frames
  BY <1>1
<1>3. /\ top \in Frames /\ top.unit = calls[n].unit
      /\ top.todo = calls[n].todo \ {d}
  BY <1>1, <1>2 DEF Frames
<1>4. Advanced(d) = [i \in DOMAIN calls |-> IF i = n THEN top ELSE calls[i]]
  BY <1>1 DEF Advanced
<1> HIDE DEF top
<1>5. Advanced(d) \in Seq(Frames) /\ Len(Advanced(d)) = n
  BY <1>1, <1>2, <1>3, <1>4
<1>6. QED
  BY <1>1, <1>3, <1>4, <1>5 DEF Passed

\* Each turn of the loop that only follows a dependency: it is missing, or complete, or
\* on the stack, and then the low link takes its index in.
LEMMA PassKeeps ==
    ASSUME SearchInv, deps \in Plans, calls # <<>>, NEW d \in Top.todo,
           UNCHANGED <<deps, index, stack, components>>, calls' = Advanced(d),
           d \in Units => d \in Visited,
           \/ low' = low /\ d \notin ToSet(stack)
           \/ low' = Lowered(Top.unit, index[d]) /\ d \in ToSet(stack)
    PROVE  SearchInv'
<1> DEFINE n == Len(calls)
           t == calls[n].unit
<1>1. /\ n \in Nat /\ n \in DOMAIN calls /\ DOMAIN calls = 1..n
      /\ t \in Units /\ t \in ToSet(stack) /\ t \in Visited
      /\ Top.unit = t /\ Top.todo = calls[n].todo /\ d \in deps[t]
  <2>1. n \in Nat /\ n \in DOMAIN calls /\ DOMAIN calls = 1..n /\ Top = calls[n]
    BY DEF SearchInv, CallsInv, Last, Top
  <2>2. stack \in Seq(Visited) /\ Visited \subseteq Units
    BY DEF SearchInv, StackInv
  <2>3. ToSet(stack) \subseteq Visited
    BY <2>2 DEF ToSet
  <2>4. QED
    BY <2>1, <2>2, <2>3 DEF SearchInv, CallsInv
<1>2. /\ calls' \in Seq(Frames)
      /\ Len(calls') = n /\ DOMAIN calls' = DOMAIN calls
      /\ \A i \in DOMAIN calls :
            /\ calls'[i].unit = calls[i].unit
            /\ calls'[i].todo = IF i = n THEN calls[i].todo \ {d} ELSE calls[i].todo
  <2>1. Passed(calls', d)
    BY AdvancedPasses DEF SearchInv
  <2>2. DOMAIN calls' = 1..Len(calls')
    BY <2>1 DEF Passed
  <2>3. QED
    BY <1>1, <2>1, <2>2 DEF Passed
<1> HIDE DEF n, t
<1>3. /\ low' \in [Visited -> Nat]
      /\ \A v \in Visited : low'[v] <= low[v] /\ (v # t => low'[v] = low[v])
      /\ low'[t] = low[t] \/ (d \in ToSet(stack) /\ low'[t] = index[d])
      /\ d \in ToSet(stack) => low'[t] <= index[d]
  <2>1. low \in [Visited -> Nat] /\ index \in [Visited -> Nat]
        /\ (d \in ToSet(stack) => d \in Visited)
    BY DEF SearchInv, StackInv, ToSet
  <2>2. CASE low' = low /\ d \notin ToSet(stack)
    <3>1. \A v \in Visited : low[v] <= low[v]
      BY <2>1
    <3>2. QED
      BY ONLY <2>1, <2>2, <3>1
  <2>3. CASE low' = Lowered(t, index[d]) /\ d \in ToSet(stack)
    <3> DEFINE m == Min({low[t], index[d]})
    <3>1. low[t] \in Nat /\ index[d] \in Nat
      BY <1>1, <2>1, <2>3
    <3>2. m \in {low[t], index[d]} /\ m <= low[t] /\ m <= index[d]
      BY <3>1, LeastOfTwo
    <3>3. low' = [low EXCEPT ![t] = m]
      BY <2>3 DEF Lowered
    <3> HIDE DEF m
    <3>4. \A v \in Visited : low[v] <= low[v]
      BY <2>1
    <3>5. low'[t] = m /\ \A v \in Visited : v # t => low'[v] = low[v]
      BY <1>1, <2>1, <3>3
    <3>6. low' \in [Visited -> Nat]
      BY <2>1, <3>1, <3>2, <3>3
    <3>7. QED
      BY ONLY <1>1, <2>1, <2>3, <3>1, <3>2, <3>4, <3>5, <3>6
  <2>4. QED
    BY <1>1, <2>2, <2>3
<1>4. StackInv'
  BY <1>3 DEF SearchInv, StackInv, Visited
<1>5. CallsInv'
  <2>1. \A i \in DOMAIN calls : calls'[i].todo \subseteq calls[i].todo
    BY <1>2
  <2>2. QED
    BY <1>2, <2>1 DEF SearchInv, CallsInv
<1>6. VisitedInv'
  <2> SUFFICES ASSUME NEW v \in Visited, NEW e \in deps[v] \cap Units, e \notin Visited
               PROVE  \E i \in DOMAIN calls' : calls'[i].unit = v /\ e \in calls'[i].todo
    BY DEF VisitedInv, Visited
  <2>1. PICK i \in DOMAIN calls : calls[i].unit = v /\ e \in calls[i].todo
    BY DEF SearchInv, VisitedInv
  <2>2. QED
    BY <1>2, <2>1
<1>7. ReachInv'
  BY <1>2 DEF SearchInv, ReachInv
<1>8. ComponentsInv'
  BY DEF SearchInv, ComponentsInv
<1>9. ASSUME NEW i \in DOMAIN calls
      PROVE  LET u == calls[i].unit
             IN /\ low'[u] <= index[u]
                /\ \E w \in ToSet(stack) : index[w] = low'[u] /\ Reaches(deps, u, w)
                /\ \A x \in ToSet(stack) : \A e \in deps[x] \cap ToSet(stack) :
                      BelongsTo(x, i) =>
                         (x = u /\ e \in calls'[i].todo) \/ low'[u] <= index[e]
  <2> DEFINE u == calls[i].unit
  <2>0. /\ \A x \in ToSet(stack) : x \in Visited /\ x \in Units /\ index[x] \in Nat
        /\ \A v \in Visited : low[v] \in Nat /\ low'[v] \in Nat
    BY <1>3 DEF SearchInv, StackInv, ToSet
  <2>1. /\ u \in ToSet(stack) /\ u \in Visited
        /\ low[u] <= index[u]
        /\ \E w \in ToSet(stack) : index[w] = low[u] /\ Reaches(deps, u, w)
        /\ \A x \in ToSet(stack) : \A e \in deps[x] \cap ToSet(stack) :
              BelongsTo(x, i) => (x = u /\ e \in calls[i].todo) \/ low[u] <= index[e]
    BY <2>0 DEF SearchInv, LowInv, CallsInv
  <2>2. low'[u] <= index[u]
    BY <1>3, <2>0, <2>1
  <2>3. \E w \in ToSet(stack) : index[w] = low'[u] /\ Reaches(deps, u, w)
    <3>1. CASE low'[u] = low[u]
      BY <2>1, <3>1
    <3>2. CASE low'[u] # low[u]
      <4>1. u = t /\ d \in ToSet(stack) /\ low'[t] = index[d]
        BY <1>3, <2>1, <3>2
      <4>2. Reaches(deps, t, d)
        BY <1>1, <2>0, <4>1, ReachesOne
      <4>3. QED
        BY <4>1, <4>2
    <3>3. QED
      BY <3>1, <3>2
  <2>4. ASSUME NEW x \in ToSet(stack), NEW e \in deps[x] \cap ToSet(stack), BelongsTo(x, i)
        PROVE  (x = u /\ e \in calls'[i].todo) \/ low'[u] <= index[e]
    <3>1. CASE low[u] <= index[e]
      BY <1>3, <2>0, <2>1, <3>1
    <3>2. CASE x = u /\ e \in calls[i].todo /\ e \notin calls'[i].todo
      <4>1. i = n /\ e = d
        BY <1>2, <3>2
      <4>2. u = t
        BY <4>1 DEF t, n
      <4>3. QED
        BY <1>3, <4>1, <4>2
    <3>3. QED
      BY <2>1, <2>4, <3>1, <3>2
  <2>5. QED
    BY <2>2, <2>3, <2>4
<1>10. \A x, i : i \in DOMAIN calls => (BelongsTo(x, i)' <=> BelongsTo(x, i))
  <2> SUFFICES ASSUME NEW x, NEW i \in DOMAIN calls PROVE BelongsTo(x, i)' <=> BelongsTo(x, i)
    OBVIOUS
  <2>1. i < n => i + 1 \in DOMAIN calls
    BY <1>1
  <2>2. QED
    BY <1>2, <2>1 DEF BelongsTo, n
<1>11. LowInv'
  <2>1. ASSUME NEW i \in DOMAIN calls'
        PROVE  LET u == calls'[i].unit
               IN /\ low'[u] <= index'[u]
                  /\ \E w \in ToSet(stack') : index'[w] = low'[u] /\ Reaches(deps', u, w)
                  /\ \A x \in ToSet(stack') : \A e \in deps'[x] \cap ToSet(stack') :
                        BelongsTo(x, i)' =>
                           (x = u /\ e \in calls'[i].todo) \/ low'[u] <= index'[e]
    <3>1. i \in DOMAIN calls /\ calls'[i].unit = calls[i].unit
      BY <1>2
    <3>2. \A x : BelongsTo(x, i)' <=> BelongsTo(x, i)
      BY <1>10, <3>1
    <3>3. QED
      BY <1>9, <3>1, <3>2
  <2>2. QED
    BY <2>1 DEF LowInv
<1>12. QED
  BY <1>4, <1>5, <1>6, <1>7, <1>8, <1>11 DEF SearchInv

\* The first lines of visit, for a unit not yet visited that its caller depends on.
LEMMA VisitKeeps ==
    ASSUME SearchInv, deps \in Plans, NEW u \in Units \ Visited, NEW callers,
           Passed(callers, u), Visit(u, callers),
           calls # <<>> => u \in deps[Top.unit]
    PROVE  SearchInv'
<1> DEFINE N == Cardinality(Visited)
           n == Len(calls)
<1>1. /\ Visited \subseteq Units /\ index \in [Visited -> Nat] /\ low \in [Visited -> Nat]
      /\ N \in Nat /\ \A v \in Visited : index[v] < N
      /\ stack \in Seq(Visited) /\ ToSet(stack) \subseteq Visited
  <2>1. IsFiniteSet(Visited)
    BY PlansAssumption, FS_Subset DEF SearchInv, StackInv
  <2>2. QED
    BY <2>1, FS_CardinalityType DEF SearchInv, StackInv, ToSet
<1>2. Visited' = Visited \cup {u} /\ Cardinality(Visited') = N + 1
  <2>1. IsFiniteSet(Visited)
    BY PlansAssumption, FS_Subset DEF SearchInv, StackInv
  <2>2. Cardinality(Visited \cup {u}) = N + 1
    BY <2>1, FS_AddElement
  <2>3. Visited' = Visited \cup {u}
    BY DEF Visit, Visited
  <2>4. QED
    BY <2>2, <2>3
<1> HIDE DEF N
<1>3. /\ index' \in [Visited \cup {u} -> Nat] /\ index'[u] = N
      /\ \A v \in Visited : v # u /\ index'[v] = index[v]
      /\ low' \in [Visited \cup {u} -> Nat] /\ low'[u] = N
      /\ \A v \in Visited : low'[v] = low[v]
  BY <1>1 DEF Visit, N
<1>4. UNCHANGED <<deps, components>>
  BY DEF Visit
<1>5. /\ stack' \in Seq(Visited \cup {u}) /\ Len(stack) \in Nat
      /\ DOMAIN stack = 1..Len(stack) /\ DOMAIN stack' = 1..(Len(stack) + 1)
      /\ \A i \in 1..Len(stack) : stack'[i] = stack[i]
      /\ stack'[Len(stack) + 1] = u
  <2>1. stack' = Append(stack, u)
    BY DEF Visit
  <2>2. QED
    BY <1>1, <2>1
<1>6. ToSet(stack') = ToSet(stack) \cup {u}
  BY <1>5 DEF ToSet
<1>7. /\ calls \in Seq(Frames) /\ n \in Nat /\ DOMAIN calls = 1..n
      /\ \A i \in 1..n : calls[i].unit \in ToSet(stack) /\ calls[i].unit \in Visited
  BY <1>1 DEF SearchInv, CallsInv
<1>8. /\ calls' \in Seq(Frames) /\ Len(calls') = n + 1 /\ DOMAIN calls' = 1..(n + 1)
      /\ \A i \in 1..n :
            /\ calls'[i].unit = calls[i].unit
            /\ calls'[i].todo = IF i = n THEN calls[i].todo \ {u} ELSE calls[i].todo
      /\ calls'[n + 1].unit = u /\ calls'[n + 1].todo = deps[u]
  <2> DEFINE frame == [unit |-> u, todo |-> deps[u]]
  <2>1. calls' = Append(callers, frame)
    BY DEF Visit
  <2>2. frame \in Frames /\ frame.unit = u /\ frame.todo = deps[u]
    BY PlansAssumption DEF Frames
  <2> HIDE DEF frame
  <2>3. callers \in Seq(Frames) /\ Len(callers) = n
    BY DEF Passed
  <2>4. /\ calls' \in Seq(Frames) /\ Len(calls') = n + 1 /\ DOMAIN calls' = 1..(n + 1)
        /\ \A i \in 1..n : calls'[i] = callers[i]
        /\ calls'[n + 1] = frame
    BY <1>7, <2>1, <2>2, <2>3
  <2>5. \A i \in 1..n :
           /\ callers[i].unit = calls[i].unit
           /\ callers[i].todo = IF i = n THEN calls[i].todo \ {u} ELSE calls[i].todo
    BY <1>7 DEF Passed
  <2>6. QED
    BY <2>2, <2>4, <2>5
<1> HIDE DEF n
<1>0. /\ \A i \in 1..n : /\ i \in 1..(n + 1)
                        /\ index'[calls'[i].unit] = index[calls[i].unit]
                        /\ index[calls[i].unit] \in Nat /\ index[calls[i].unit] < N
      /\ index'[calls'[n + 1].unit] = N
      /\ \A i \in 1..n : i = n \/ (i < n /\ i + 1 \in 1..n)
  <2>1. \A i \in 1..n : i \in 1..(n + 1) /\ (i = n \/ (i < n /\ i + 1 \in 1..n))
    BY <1>7
  <2>2. \A v \in Visited : index'[v] = index[v] /\ index[v] \in Nat /\ index[v] < N
    BY <1>1, <1>3
  <2>3. QED
    BY <1>3, <1>7, <1>8, <2>1, <2>2
<1>9. \A i \in 1..n : Reaches(deps, calls[i].unit, u)
  <2> SUFFICES ASSUME NEW i \in 1..n PROVE Reaches(deps, calls[i].unit, u)
    OBVIOUS
  <2> DEFINE t == calls[n].unit
             v == calls[i].unit
  <2>1. n \in 1..n /\ calls # <<>> /\ u \in deps[t]
    BY <1>7 DEF Top, Last, n
  <2>2. t \in Units /\ v \in Units /\ t \in ToSet(stack) /\ t \in Visited /\ v \in Visited
    BY <1>1, <1>7, <2>1
  <2>3. index[v] <= index[t]
    <3>1. i < n \/ i = n
      BY <1>0
    <3>2. i < n => index[v] < index[t]
      BY <1>7, <2>1 DEF SearchInv, CallsInv
    <3>3. index[v] \in Nat /\ index[t] \in Nat
      BY <1>1, <2>2
    <3>4. QED
      BY <3>1, <3>2, <3>3
  <2>4. Reaches(deps, v, t)
    BY <1>7, <2>2, <2>3 DEF SearchInv, ReachInv
  <2>5. Reaches(deps, t, u)
    BY <2>1, <2>2, ReachesOne
  <2> HIDE DEF t, v
  <2>6. QED
    BY <2>2, <2>4, <2>5, ReachesFurther DEF v
<1>10. StackInv'
  <2>1. \A v \in Visited \cup {u} : index'[v] < N + 1
    BY <1>1, <1>3
  <2>2. ASSUME NEW i \in DOMAIN stack', NEW j \in DOMAIN stack', i < j
        PROVE  index'[stack'[i]] < index'[stack'[j]]
    <3>1. i \in 1..Len(stack) /\ stack[i] \in Visited
      BY <1>1, <1>5, <2>2
    <3>2. CASE j = Len(stack) + 1
      BY <1>1, <1>3, <1>5, <3>1, <3>2
    <3>3. CASE j \in 1..Len(stack)
      <4>1. index[stack[i]] < index[stack[j]] /\ stack[j] \in Visited
        BY <1>1, <1>5, <2>2, <3>1, <3>3 DEF SearchInv, StackInv
      <4>2. QED
        BY <1>3, <1>5, <3>1, <3>3, <4>1
    <3>4. QED
      BY <1>5, <3>2, <3>3
  <2>3. UNION components = (Visited \cup {u}) \ (ToSet(stack) \cup {u})
    <3>1. UNION components = Visited \ ToSet(stack)
      BY DEF SearchInv, StackInv
    <3>2. QED
      BY <3>1
  <2>4. QED
    BY <1>1, <1>2, <1>3, <1>4, <1>5, <1>6, <2>1, <2>2, <2>3 DEF StackInv
<1>11. CallsInv'
  <2>1. ASSUME NEW i \in 1..(n + 1)
        PROVE  /\ calls'[i].unit \in ToSet(stack')
               /\ calls'[i].todo \subseteq deps'[calls'[i].unit]
    <3>1. CASE i = n + 1
      BY <1>4, <1>6, <1>8, <3>1
    <3>2. CASE i \in 1..n
      BY <1>4, <1>6, <1>7, <1>8, <3>2 DEF SearchInv, CallsInv
    <3>3. QED
      BY <1>7, <3>1, <3>2
  <2>2. ASSUME NEW i \in 1..(n + 1), NEW j \in 1..(n + 1), i < j
        PROVE  index'[calls'[i].unit] < index'[calls'[j].unit]
    <3>1. i \in 1..n
      BY <1>7, <2>2
    <3>2. CASE j = n + 1
      BY <1>0, <3>1, <3>2
    <3>3. CASE j \in 1..n
      <4>1. index[calls[i].unit] < index[calls[j].unit]
        BY <1>7, <2>2, <3>1, <3>3 DEF SearchInv, CallsInv
      <4>2. /\ index'[calls'[i].unit] = index[calls[i].unit]
            /\ index'[calls'[j].unit] = index[calls[j].unit]
        BY <1>0, <3>1, <3>3
      <4>3. QED
        BY <4>1, <4>2
    <3>4. QED
      BY <1>7, <3>2, <3>3
  <2>3. QED
    BY <1>8, <2>1, <2>2 DEF CallsInv
<1>12. VisitedInv'
  <2> SUFFICES ASSUME NEW v \in Visited \cup {u}, NEW e \in deps[v] \cap Units,
                      e \notin Visited \cup {u}
               PROVE  \E i \in 1..(n + 1) : calls'[i].unit = v /\ e \in calls'[i].todo
    BY <1>2, <1>4, <1>8 DEF VisitedInv
  <2>1. CASE v = u
    BY <1>7, <1>8, <2>1
  <2>2. CASE v \in Visited
    <3>1. PICK i \in 1..n : calls[i].unit = v /\ e \in calls[i].todo
      BY <1>7, <2>2 DEF SearchInv, VisitedInv
    <3>2. i \in 1..(n + 1) /\ calls'[i].unit = v
      BY <1>0, <1>8, <3>1
    <3>3. e # u
      OBVIOUS
    <3>4. e \in calls'[i].todo
      BY <1>8, <3>1, <3>3
    <3>5. QED
      BY <3>2, <3>4
  <2>3. QED
    BY <2>1, <2>2
<1>13. ReachInv'
  <2>1. ASSUME NEW i \in 1..(n + 1), NEW x \in ToSet(stack) \cup {u},
               index'[calls'[i].unit] <= index'[x]
        PROVE  Reaches(deps, calls'[i].unit, x)
    <3>1. CASE x = u
      <4>1. CASE i = n + 1
        BY <1>8, <3>1, <4>1 DEF Reaches
      <4>2. CASE i \in 1..n
        BY <1>8, <1>9, <3>1, <4>2
      <4>3. QED
        BY <1>7, <4>1, <4>2
    <3>2. CASE x \in ToSet(stack)
      <4>1. x \in Visited /\ index'[x] = index[x] /\ index[x] < N /\ index[x] \in Nat
        BY <1>1, <1>3, <3>2
      <4>2. i \in 1..n
        BY <1>1, <1>3, <1>7, <1>8, <2>1, <4>1
      <4>3. index[calls[i].unit] <= index[x]
        BY <1>3, <1>7, <1>8, <2>1, <4>1, <4>2
      <4>4. QED
        BY <1>7, <1>8, <3>2, <4>2, <4>3 DEF SearchInv, ReachInv
    <3>3. QED
      BY <3>1, <3>2
  <2>2. ASSUME NEW x \in ToSet(stack) \cup {u}
        PROVE  \E i \in 1..(n + 1) :
                  index'[calls'[i].unit] <= index'[x] /\ Reaches(deps, x, calls'[i].unit)
    <3>1. CASE x = u
      <4>1. n + 1 \in 1..(n + 1) /\ index'[u] <= index'[u]
        BY <1>1, <1>3, <1>7
      <4>2. QED
        BY <1>8, <3>1, <4>1 DEF Reaches
    <3>2. CASE x \in ToSet(stack)
      <4>1. PICK i \in 1..n : index[calls[i].unit] <= index[x] /\ Reaches(deps, x, calls[i].unit)
        BY <1>7, <3>2 DEF SearchInv, ReachInv
      <4>2. QED
        BY <1>0, <1>1, <1>3, <1>8, <3>2, <4>1
    <3>3. QED
      BY <3>1, <3>2
  <2>3. QED
    BY <1>4, <1>6, <1>8, <2>1, <2>2 DEF ReachInv
<1>14. LowInv'
  <2> SUFFICES ASSUME NEW i \in 1..(n + 1)
               PROVE  LET v == calls'[i].unit
                      IN /\ low'[v] <= index'[v]
                         /\ \E w \in ToSet(stack') : index'[w] = low'[v] /\ Reaches(deps', v, w)
                         /\ \A x \in ToSet(stack') : \A e \in deps'[x] \cap ToSet(stack') :
                               BelongsTo(x, i)' =>
                                  (x = v /\ e \in calls'[i].todo) \/ low'[v] <= index'[e]
    BY <1>8 DEF LowInv
  <2>1. CASE i = n + 1
    <3>1. low'[u] <= index'[u] /\ index'[u] = low'[u] /\ Reaches(deps, u, u) /\ u \in ToSet(stack')
      BY <1>1, <1>3, <1>6 DEF Reaches
    <3>2. ASSUME NEW x \in ToSet(stack'), BelongsTo(x, i)'
          PROVE  x = u
      <4>1. N <= index'[x]
        BY <1>3, <1>8, <2>1, <3>2 DEF BelongsTo
      <4>2. QED
        BY <1>1, <1>3, <1>6, <4>1
    <3>3. QED
      BY <1>4, <1>8, <2>1, <3>1, <3>2
  <2>2. CASE i \in 1..n
    <3> DEFINE v == calls[i].unit
    <3>1. /\ v \in Visited /\ low[v] <= index[v]
          /\ \E w \in ToSet(stack) : index[w] = low[v] /\ Reaches(deps, v, w)
          /\ \A x \in ToSet(stack) : \A e \in deps[x] \cap ToSet(stack) :
                BelongsTo(x, i) => (x = v /\ e \in calls[i].todo) \/ low[v] <= index[e]
      BY <1>7, <2>2 DEF SearchInv, LowInv
    <3>2. calls'[i].unit = v /\ index'[v] = index[v] /\ low'[v] = low[v] /\ low[v] \in Nat
          /\ index[v] \in Nat
      BY <1>1, <1>3, <1>8, <2>2, <3>1
    <3>3. \E w \in ToSet(stack') : index'[w] = low'[v] /\ Reaches(deps', v, w)
      BY <1>1, <1>3, <1>4, <1>6, <3>1, <3>2
    <3>4. ASSUME NEW x \in ToSet(stack'), NEW e \in deps[x] \cap ToSet(stack'), BelongsTo(x, i)'
          PROVE  (x = v /\ e \in calls'[i].todo) \/ low[v] <= index'[e]
      <4>1. CASE e = u
        BY <1>1, <1>3, <3>1, <3>2, <4>1
      <4>2. CASE e # u
        <5>1. e \in ToSet(stack) /\ index'[e] = index[e]
          BY <1>1, <1>3, <1>6, <4>2
        <5>2. index[v] <= index'[x] /\ index'[x] < index'[calls'[i + 1].unit]
          BY <1>7, <1>8, <2>2, <3>2, <3>4 DEF BelongsTo
        <5>3. x \in ToSet(stack) /\ index'[x] = index[x]
          <6>1. index'[calls'[i + 1].unit] <= N /\ index'[calls'[i + 1].unit] \in Nat
            <7>1. CASE i = n
              BY <1>0, <1>1, <7>1
            <7>2. CASE i + 1 \in 1..n
              <8>1. ASSUME NEW j \in 1..n
                    PROVE  index'[calls'[j].unit] <= N /\ index'[calls'[j].unit] \in Nat
                <9>1. /\ index'[calls'[j].unit] = index[calls[j].unit]
                      /\ index[calls[j].unit] \in Nat /\ index[calls[j].unit] < N
                  BY <1>0
                <9>2. QED
                  BY <1>1, <9>1
              <8>2. QED
                BY <7>2, <8>1
            <7>3. QED
              BY <1>0, <2>2, <7>1, <7>2
          <6>2. x # u
            BY <1>1, <1>3, <5>2, <6>1
          <6>3. QED
            BY <1>1, <1>3, <1>6, <6>2
        <5>4. i < n => index[x] < index[calls[i + 1].unit]
          BY <1>0, <2>2, <5>2, <5>3
        <5>5. BelongsTo(x, i)
          BY <5>2, <5>3, <5>4 DEF BelongsTo, n
        <5>6. (x = v /\ e \in calls[i].todo) \/ low[v] <= index[e]
          BY <3>1, <5>1, <5>3, <5>5
        <5>7. QED
          BY <1>8, <2>2, <4>2, <5>1, <5>6
      <4>3. QED
        BY <4>1, <4>2
    <3>5. QED
      BY <1>4, <3>1, <3>2, <3>3, <3>4
  <2>3. QED
    BY <1>7, <2>1, <2>2
<1>15. ComponentsInv'
  BY <1>4 DEF SearchInv, ComponentsInv
<1>16. QED
  BY <1>10, <1>11, <1>12, <1>13, <1>14, <1>15 DEF SearchInv

\* The call in progress is that of the unit last discovered that is called at all.
LEMMA TopFrame ==
    ASSUME SearchInv, calls # <<>>
    PROVE  /\ Len(calls) \in Nat /\ Len(calls) >= 1
           /\ DOMAIN calls = 1..Len(calls) /\ Top = calls[Len(calls)]
           /\ Top.unit \in ToSet(stack)
           /\ \A x \in ToSet(stack) : /\ x \in Visited /\ x \in Units
                                      /\ index[x] \in Nat /\ low[x] \in Nat
           /\ \A i \in 1..Len(calls) : /\ calls[i].unit \in ToSet(stack)
                                       /\ index[calls[i].unit] <= index[Top.unit]
                                       /\ i < Len(calls) =>
                                             index[calls[i].unit] < index[Top.unit]
<1> DEFINE n == Len(calls)
<1>1. n \in Nat /\ n >= 1 /\ DOMAIN calls = 1..n /\ Top = calls[n] /\ n \in 1..n
  BY DEF SearchInv, CallsInv, Last, Top
<1> HIDE DEF n
<1>2. \A x \in ToSet(stack) : x \in Visited /\ x \in Units /\ index[x] \in Nat /\ low[x] \in Nat
  BY DEF SearchInv, StackInv, ToSet
<1>3. \A i \in 1..n : calls[i].unit \in ToSet(stack)
  BY <1>1 DEF SearchInv, CallsInv
<1>4. ASSUME NEW i \in 1..n
      PROVE  /\ index[calls[i].unit] <= index[Top.unit]
             /\ i < n => index[calls[i].unit] < index[Top.unit]
  <2>1. i < n => index[calls[i].unit] < index[calls[n].unit]
    BY <1>1 DEF SearchInv, CallsInv
  <2>2. i < n \/ i = n
    BY <1>1
  <2>3. index[calls[i].unit] \in Nat /\ index[Top.unit] \in Nat
    BY <1>1, <1>2, <1>3
  <2>4. QED
    BY <1>1, <2>1, <2>2, <2>3
<1>5. QED
  BY <1>1, <1>2, <1>3, <1>4 DEF n

\* What a component takes off the stack is what was discovered since its root.
LEMMA Popped ==
    ASSUME SearchInv, NEW u \in ToSet(stack)
    PROVE  /\ {stack[i] : i \in Place(u)..Len(stack)}
                = {x \in ToSet(stack) : index[u] <= index[x]}
           /\ SubSeq(stack, 1, Place(u) - 1) \in Seq(Visited)
           /\ ToSet(SubSeq(stack, 1, Place(u) - 1))
                = {x \in ToSet(stack) : index[x] < index[u]}
           /\ Len(SubSeq(stack, 1, Place(u) - 1)) <= Len(stack)
           /\ \A i \in DOMAIN SubSeq(stack, 1, Place(u) - 1) :
                i \in DOMAIN stack /\ SubSeq(stack, 1, Place(u) - 1)[i] = stack[i]
<1> DEFINE k == Place(u)
           m == Len(stack)
           s == SubSeq(stack, 1, k - 1)
<1>1. k \in DOMAIN stack /\ stack[k] = u
  BY DEF Place, ToSet
<1>2. /\ stack \in Seq(Visited) /\ m \in Nat /\ DOMAIN stack = 1..m /\ k \in Nat
      /\ k >= 1 /\ k <= m
      /\ \A i \in 1..m : stack[i] \in ToSet(stack) /\ index[stack[i]] \in Nat
  BY <1>1 DEF SearchInv, StackInv, ToSet
<1>3. /\ s \in Seq(Visited) /\ Len(s) = k - 1 /\ DOMAIN s = 1..(k - 1)
      /\ \A i \in 1..(k - 1) : s[i] = stack[i]
  BY <1>2
<1> HIDE DEF k, s, m
<1>4. \A i, j \in 1..m : i < j => index[stack[i]] < index[stack[j]]
  BY <1>2 DEF SearchInv, StackInv
<1>5. \A i \in 1..m : index[u] <= index[stack[i]] <=> k <= i
  BY <1>1, <1>2, <1>4
<1>6. ToSet(stack) = {stack[i] : i \in 1..m} /\ ToSet(s) = {s[i] : i \in 1..(k - 1)}
  BY <1>2, <1>3 DEF ToSet
<1>7. {stack[i] : i \in k..m} = {x \in ToSet(stack) : index[u] <= index[x]}
  <2>1. \A i \in 1..m : i \in k..m <=> index[u] <= index[stack[i]]
    BY <1>2, <1>5
  <2>2. k..m \subseteq 1..m
    BY <1>2
  <2>3. QED
    BY <1>6, <2>1, <2>2
<1>8. ToSet(s) = {x \in ToSet(stack) : index[x] < index[u]}
  <2>1. \A i \in 1..m : index[stack[i]] < index[u] <=> i \in 1..(k - 1)
    BY <1>1, <1>2, <1>5
  <2>2. 1..(k - 1) \subseteq 1..m
    BY <1>2
  <2>3. QED
    BY <1>3, <1>6, <2>1, <2>2
<1>9. Len(s) <= m /\ \A i \in DOMAIN s : i \in DOMAIN stack /\ s[i] = stack[i]
  BY <1>2, <1>3
<1>10. QED
  BY <1>3, <1>7, <1>8, <1>9 DEF k, s, m

\* The unit of a call that is done and whose low link is its own index is the root of a
\* component: all that was discovered since and is not complete.
LEMMA RootOfComponent ==
    ASSUME SearchInv, deps \in Plans, calls # <<>>, Top.todo = {},
           low[Top.unit] = index[Top.unit], NEW C,
           C = {x \in ToSet(stack) : index[Top.unit] <= index[x]}
    PROVE  /\ Closed(deps, C \cup (UNION components))
           /\ \A c \in C : C = Component(deps, c)
<1> DEFINE u == Top.unit
           n == Len(calls)
           D == UNION components
<1>1. /\ n \in Nat /\ n >= 1 /\ DOMAIN calls = 1..n /\ Top = calls[n] /\ n \in 1..n
      /\ u \in ToSet(stack) /\ u \in Units /\ index[u] \in Nat
  BY TopFrame
<1>2. \A x \in ToSet(stack) : x \in Visited /\ x \in Units /\ index[x] \in Nat
  BY TopFrame
<1>3. \A i \in 1..n : calls[i].unit \in ToSet(stack) /\ index[calls[i].unit] <= index[u]
                      /\ (i < n => index[calls[i].unit] < index[u])
  BY TopFrame
<1>4. D = Visited \ ToSet(stack) /\ Closed(deps, D) /\ D \subseteq Units
  BY DEF SearchInv, StackInv, ComponentsInv
<1>5. C \subseteq Units /\ u \in C /\ \A c \in C : c \in ToSet(stack) /\ index[u] <= index[c]
  BY <1>1, <1>2
<1> HIDE DEF D, n
<1>6. \A x \in ToSet(stack) \ {u} : \A e \in deps[x] \cap ToSet(stack) :
         x \in C => e \in C
  <2> SUFFICES ASSUME NEW x \in ToSet(stack), NEW e \in deps[x] \cap ToSet(stack), x \in C
               PROVE  index[u] <= index[e]
    OBVIOUS
  <2>1. BelongsTo(x, n)
    BY <1>1, <1>5 DEF BelongsTo, n
  <2>2. (x = u /\ e \in calls[n].todo) \/ low[u] <= index[e]
    BY <1>1, <2>1 DEF SearchInv, LowInv
  <2>3. QED
    BY <1>1, <2>2
<1>7. \A e \in deps[u] \cap ToSet(stack) : e \in C
  <2> SUFFICES ASSUME NEW e \in deps[u] \cap ToSet(stack)
               PROVE  index[u] <= index[e]
    OBVIOUS
  <2>1. BelongsTo(u, n)
    BY <1>1, <1>5 DEF BelongsTo, n
  <2>2. e \in calls[n].todo \/ low[u] <= index[e]
    BY <1>1, <2>1 DEF SearchInv, LowInv
  <2>3. QED
    BY <1>1, <2>2
<1>8. ASSUME NEW x \in C, NEW e \in deps[x] \cap Units
      PROVE  e \in Visited
  <2>1. SUFFICES ASSUME e \notin Visited PROVE FALSE
    OBVIOUS
  <2>2. PICK i \in 1..n : calls[i].unit = x /\ e \in calls[i].todo
    BY <1>1, <1>2, <1>5, <2>1 DEF SearchInv, VisitedInv
  <2>3. i = n
    <3>1. index[u] <= index[calls[i].unit]
      BY <1>5, <2>2
    <3>2. index[calls[i].unit] \in Nat
      BY <1>2, <1>3
    <3>3. ~(i < n)
      BY <1>1, <1>3, <3>1, <3>2
    <3>4. QED
      BY <1>1, <3>3
  <2>4. QED
    BY <1>1, <2>2, <2>3
<1>9. Closed(deps, C \cup D)
  <2> SUFFICES ASSUME NEW x \in C, NEW e \in deps[x] \cap Units PROVE e \in C \cup D
    BY <1>4 DEF Closed
  <2>1. e \in D \/ e \in ToSet(stack)
    BY <1>4, <1>8
  <2>2. QED
    BY <1>5, <1>6, <1>7, <2>1
<1>10. ASSUME NEW c \in C
       PROVE  Reaches(deps, u, c) /\ Reaches(deps, c, u)
  <2>1. c \in ToSet(stack) /\ c \in Units
    BY <1>5
  <2>2. Reaches(deps, u, c)
    BY <1>1, <1>5 DEF SearchInv, ReachInv
  <2>3. PICK i \in 1..n : Reaches(deps, c, calls[i].unit)
    BY <1>1, <2>1 DEF SearchInv, ReachInv
  <2>4. Reaches(deps, calls[i].unit, u)
    BY <1>1, <1>3 DEF SearchInv, ReachInv
  <2>5. calls[i].unit \in Units
    BY <1>2, <1>3
  <2>6. Reaches(deps, c, u)
    BY <2>1, <2>3, <2>4, <2>5, ReachesFurther
  <2>7. QED
    BY <2>2, <2>6
<1>11. ASSUME NEW c \in C
       PROVE  C = Component(deps, c)
  <2>1. C \subseteq Component(deps, c)
    <3> SUFFICES ASSUME NEW v \in C PROVE v \in Component(deps, c)
      OBVIOUS
    <3>1. v \in Units /\ c \in Units /\ u \in Units
      BY <1>5
    <3>2. Reaches(deps, c, u) /\ Reaches(deps, u, c) /\ Reaches(deps, v, u) /\ Reaches(deps, u, v)
      BY <1>10
    <3>3. Reaches(deps, c, v) /\ Reaches(deps, v, c)
      BY <3>1, <3>2, ReachesFurther
    <3>4. QED
      BY <3>1, <3>3 DEF Component
  <2>2. ASSUME NEW v \in Component(deps, c)
        PROVE  v \in C
    <3>1. Reaches(deps, c, v) /\ Reaches(deps, v, c)
      BY DEF Component
    <3>2. v \in C \cup D
      <4> DEFINE S == C \cup D
      <4>1. S \in SUBSET Units /\ Closed(deps, S) /\ c \in S
        BY <1>4, <1>5, <1>9
      <4> HIDE DEF S
      <4>2. v \in S
        BY <3>1, <4>1, ReachedInside
      <4>3. QED
        BY <4>2 DEF S
    <3>3. v \notin D
      <4>1. SUFFICES ASSUME v \in D PROVE FALSE
        OBVIOUS
      <4>2. c \in D
        BY <1>4, <3>1, <4>1, ReachedInside
      <4>3. QED
        BY <1>4, <1>5, <4>2
    <3>4. QED
      BY <3>2, <3>3
  <2>3. QED
    BY <2>1, <2>2
<1>12. QED
  BY <1>9, <1>11 DEF D

\* What the end of a call leaves of the stack: all of it, or what was discovered before
\* the root of the component found.
LEMMA ReturnedStack ==
    ASSUME SearchInv, deps \in Plans, Return
    PROVE  /\ StackInv' /\ ComponentsInv'
           /\ \/ low[Top.unit] # index[Top.unit] /\ stack' = stack
              \/ /\ low[Top.unit] = index[Top.unit]
                 /\ ToSet(stack') = {x \in ToSet(stack) : index[x] < index[Top.unit]}
<1> DEFINE u == Top.unit
           C == {stack[i] : i \in Place(u)..Len(stack)}
<1>1. calls # <<>> /\ Top.todo = {} /\ UNCHANGED <<deps, index>> /\ Visited' = Visited
  BY DEF Return, Visited
<1>2. /\ u \in ToSet(stack) /\ index[u] \in Nat /\ low[u] \in Nat
      /\ \A x \in ToSet(stack) : x \in Visited /\ x \in Units /\ index[x] \in Nat
  BY <1>1, TopFrame
<1>3. low' \in [Visited -> Nat]
  <2>1. low \in [Visited -> Nat]
    BY DEF SearchInv, StackInv
  <2>2. CASE low' = low
    BY <2>1, <2>2
  <2>3. CASE \E c : low' = Lowered(c, low[u])
    <3>1. PICK c : low' = [low EXCEPT ![c] = Min({@, low[u]})]
      BY <2>3 DEF Lowered
    <3>2. c \in Visited => Min({low[c], low[u]}) \in Nat
      BY <1>2, <2>1, LeastOfTwo
    <3>3. QED
      BY <2>1, <3>1, <3>2
  <2>4. QED
    BY <2>2, <2>3 DEF Return
<1>4. CASE low[u] # index[u]
  <2>1. UNCHANGED <<components, stack>>
    BY <1>4 DEF Return
  <2>2. StackInv'
    BY <1>1, <1>3, <2>1 DEF SearchInv, StackInv, Visited
  <2>3. ComponentsInv'
    BY <1>1, <2>1 DEF SearchInv, ComponentsInv
  <2>4. QED
    BY <1>4, <2>1, <2>2, <2>3
<1>5. CASE low[u] = index[u]
  <2> DEFINE s == SubSeq(stack, 1, Place(u) - 1)
  <2>1. components' = components \cup {C} /\ stack' = s
    BY <1>5 DEF Return
  <2>2. /\ C = {x \in ToSet(stack) : index[u] <= index[x]}
        /\ s \in Seq(Visited)
        /\ ToSet(s) = {x \in ToSet(stack) : index[x] < index[u]}
        /\ \A i \in DOMAIN s : i \in DOMAIN stack /\ s[i] = stack[i]
    BY <1>2, Popped
  <2> HIDE DEF s, C
  <2>3. /\ Closed(deps, C \cup (UNION components))
        /\ \A c \in C : C = Component(deps, c)
    <3> HIDE DEF u
    <3>1. C = {x \in ToSet(stack) : index[Top.unit] <= index[x]}
      BY <2>2 DEF u
    <3>2. low[Top.unit] = index[Top.unit]
      BY <1>5 DEF u
    <3>3. QED
      BY <1>1, <3>1, <3>2, RootOfComponent
  <2>4. u \in C
    BY <1>2, <2>2
  <2>5. UNION components' = C \cup (UNION components)
    BY <2>1
  <2>6. UNION components = Visited \ ToSet(stack)
    BY DEF SearchInv, StackInv
  <2>7. UNION components' = Visited \ ToSet(s)
    BY <1>2, <2>2, <2>5, <2>6
  <2>8. \A i, j \in DOMAIN s : i < j => index[s[i]] < index[s[j]]
    BY <2>2 DEF SearchInv, StackInv
  <2>9. StackInv'
    BY <1>1, <1>3, <2>1, <2>2, <2>7, <2>8 DEF SearchInv, StackInv
  <2>10. ComponentsInv'
    <3>1. Closed(deps', UNION components')
      BY <1>1, <2>3, <2>5
    <3>2. C # {} /\ \A c \in C : C = Component(deps', c)
      BY <1>1, <2>3, <2>4
    <3>3. \A D \in components : D # {} /\ \A c \in D : D = Component(deps', c)
      BY <1>1 DEF SearchInv, ComponentsInv
    <3>4. \A D \in components' : D # {} /\ \A c \in D : D = Component(deps', c)
      BY <2>1, <3>2, <3>3
    <3>5. QED
      BY <3>1, <3>4 DEF ComponentsInv
  <2>11. QED
    BY <1>5, <2>1, <2>2, <2>9, <2>10
<1>6. QED
  BY <1>4, <1>5

\* The end of visit: the caller takes the low link over.
LEMMA ReturnKeeps ==
    ASSUME SearchInv, deps \in Plans, Return
    PROVE  SearchInv'
<1> DEFINE u == Top.unit
           n == Len(calls)
           P == ToSet(stack')
<1>1. calls # <<>> /\ Top.todo = {} /\ UNCHANGED <<deps, index>> /\ Visited' = Visited
      /\ calls' = Front(calls)
  BY DEF Return, Visited
<1>2. /\ n \in Nat /\ n >= 1 /\ DOMAIN calls = 1..n /\ u = calls[n].unit /\ n \in 1..n
      /\ calls[n].todo = {}
      /\ u \in ToSet(stack) /\ u \in Units /\ index[u] \in Nat /\ low[u] \in Nat
  BY <1>1, TopFrame
<1>3. \A x \in ToSet(stack) : x \in Visited /\ x \in Units /\ index[x] \in Nat /\ low[x] \in Nat
  BY <1>1, TopFrame
<1>4. \A i \in 1..n : /\ calls[i].unit \in ToSet(stack) /\ index[calls[i].unit] <= index[u]
                      /\ i < n => index[calls[i].unit] < index[u]
  BY <1>1, TopFrame
<1>5. /\ calls' \in Seq(Frames) /\ Len(calls') = n - 1 /\ DOMAIN calls' = 1..(n - 1)
      /\ \A i \in 1..(n - 1) : /\ calls'[i] = calls[i]
                               /\ i \in 1..n /\ i < n
                               /\ index[calls[i].unit] < index[u]
  <2>1. calls \in Seq(Frames) /\ calls' = SubSeq(calls, 1, n - 1)
    BY <1>1 DEF SearchInv, CallsInv, Front
  <2>2. /\ calls' \in Seq(Frames) /\ Len(calls') = n - 1 /\ DOMAIN calls' = 1..(n - 1)
        /\ \A i \in 1..(n - 1) : calls'[i] = calls[i] /\ i \in 1..n /\ i < n
    BY <1>2, <2>1
  <2>3. QED
    BY <1>4, <2>2
<1>6. /\ StackInv' /\ ComponentsInv'
      /\ \/ low[u] # index[u] /\ P = ToSet(stack)
         \/ low[u] = index[u] /\ P = {x \in ToSet(stack) : index[x] < index[u]}
  BY ReturnedStack
<1>7. P \subseteq ToSet(stack)
  BY <1>6
<1>8. /\ \A v \in Visited : low'[v] \in Nat /\ low'[v] <= low[v]
      /\ \A i \in 1..(n - 1) :
            low'[calls[i].unit] = low[calls[i].unit] \/ low'[calls[i].unit] = low[u]
      /\ n > 1 => low'[calls[n - 1].unit] <= low[u]
  <2>1. low \in [Visited -> Nat]
    BY DEF SearchInv, StackInv
  <2>2. CASE n = 1
    BY <1>2, <2>1, <2>2 DEF Return
  <2>3. CASE n > 1
    <3> DEFINE c == calls[n - 1].unit
               m == Min({low[c], low[u]})
    <3>1. n - 1 \in 1..n
      BY <1>2, <2>3
    <3>2. c \in Visited /\ low[c] \in Nat
      BY <1>3, <1>4, <3>1
    <3>3. m \in {low[c], low[u]} /\ m <= low[c] /\ m <= low[u]
      BY <1>2, <3>2, LeastOfTwo
    <3>4. low' = [low EXCEPT ![c] = m]
      BY <2>3 DEF Return, Lowered
    <3> HIDE DEF c, m
    <3>5. low'[c] = m /\ \A v \in Visited : v # c => low'[v] = low[v]
      BY <2>1, <3>2, <3>4
    <3>6. \A v \in Visited : low[v] \in Nat
      BY <2>1
    <3>7. \A v \in Visited : low'[v] \in Nat /\ low'[v] <= low[v]
      BY <1>2, <3>2, <3>3, <3>5, <3>6
    <3>8. \A i \in 1..(n - 1) : calls[i].unit \in Visited
      BY <1>3, <1>4, <1>5
    <3>9. low'[c] <= low[u] /\ (low'[c] = low[c] \/ low'[c] = low[u])
      BY <3>3, <3>5
    <3>10. \A i \in 1..(n - 1) :
              low'[calls[i].unit] = low[calls[i].unit] \/ low'[calls[i].unit] = low[u]
      BY <3>5, <3>8, <3>9
    <3>11. QED
      BY <3>7, <3>9, <3>10 DEF c
  <2>4. QED
    BY <1>2, <2>2, <2>3
<1> HIDE DEF n, u, P
<1>9. \A x \in P : x \in ToSet(stack) /\ (low[u] = index[u] => index[x] < index[u])
  BY <1>6, <1>7
<1>10. \A x \in ToSet(stack) : index[x] < index[u] => x \in P
  BY <1>6
<1>11. CallsInv'
  <2>1. ASSUME NEW i \in 1..(n - 1)
        PROVE  calls'[i].unit \in P /\ calls'[i].todo \subseteq deps'[calls'[i].unit]
    BY <1>1, <1>2, <1>4, <1>5, <1>10 DEF SearchInv, CallsInv
  <2>2. \A i, j \in 1..(n - 1) :
           i < j => index'[calls'[i].unit] < index'[calls'[j].unit]
    BY <1>1, <1>2, <1>5 DEF SearchInv, CallsInv
  <2>3. QED
    BY <1>5, <2>1, <2>2 DEF CallsInv, P
<1>12. VisitedInv'
  <2> SUFFICES ASSUME NEW v \in Visited, NEW e \in deps[v] \cap Units, e \notin Visited
               PROVE  \E i \in 1..(n - 1) : calls'[i].unit = v /\ e \in calls'[i].todo
    BY <1>1, <1>5 DEF VisitedInv
  <2>1. PICK i \in 1..n : calls[i].unit = v /\ e \in calls[i].todo
    BY <1>2 DEF SearchInv, VisitedInv
  <2>2. i \in 1..(n - 1)
    BY <1>2, <2>1
  <2>3. QED
    BY <1>5, <2>1, <2>2
<1>13. ReachInv'
  <2>1. ASSUME NEW i \in 1..(n - 1), NEW x \in P, index[calls[i].unit] <= index[x]
        PROVE  Reaches(deps, calls[i].unit, x)
    BY <1>2, <1>5, <1>7, <2>1 DEF SearchInv, ReachInv
  <2>2. ASSUME NEW x \in P
        PROVE  \E i \in 1..(n - 1) :
                  index[calls[i].unit] <= index[x] /\ Reaches(deps, x, calls[i].unit)
    <3>1. x \in ToSet(stack) /\ x \in Units /\ index[x] \in Nat
      BY <1>3, <1>7
    <3>2. PICK i \in 1..n : index[calls[i].unit] <= index[x] /\ Reaches(deps, x, calls[i].unit)
      BY <1>2, <3>1 DEF SearchInv, ReachInv
    <3>3. CASE i = n
      <4>1. index[u] <= index[x] /\ Reaches(deps, x, u)
        BY <1>2, <3>2, <3>3
      <4>2. low[u] # index[u]
        BY <1>2, <1>9, <3>1, <4>1
      <4>3. /\ low[u] <= index[u]
            /\ \E w \in ToSet(stack) : index[w] = low[u] /\ Reaches(deps, u, w)
        BY <1>2 DEF SearchInv, LowInv
      <4>4. PICK w \in ToSet(stack) : index[w] = low[u] /\ Reaches(deps, u, w)
        BY <4>3
      <4>5. index[w] < index[u] /\ w \in Units /\ index[w] \in Nat
        BY <1>2, <1>3, <4>2, <4>3, <4>4
      <4>6. PICK k \in 1..n : index[calls[k].unit] <= index[w] /\ Reaches(deps, w, calls[k].unit)
        BY <1>2 DEF SearchInv, ReachInv
      <4>7. calls[k].unit \in Units /\ index[calls[k].unit] \in Nat
        BY <1>3, <1>4
      <4>8. k # n
        BY <1>2, <4>5, <4>6, <4>7
      <4>9. k \in 1..(n - 1) /\ index[calls[k].unit] <= index[x]
        BY <1>2, <3>1, <4>1, <4>5, <4>6, <4>7, <4>8
      <4>10. Reaches(deps, x, w)
        BY <1>2, <3>1, <4>1, <4>4, ReachesFurther
      <4>11. Reaches(deps, x, calls[k].unit)
        BY <3>1, <4>5, <4>6, <4>10, ReachesFurther
      <4>12. QED
        BY <4>9, <4>11
    <3>4. CASE i # n
      BY <1>2, <3>2, <3>4
    <3>5. QED
      BY <3>3, <3>4
  <2>3. QED
    BY <1>1, <1>5, <2>1, <2>2 DEF ReachInv, P
<1>14. LowInv'
  <2> SUFFICES ASSUME NEW i \in 1..(n - 1)
               PROVE  LET v == calls'[i].unit
                      IN /\ low'[v] <= index'[v]
                         /\ \E w \in ToSet(stack') : index'[w] = low'[v] /\ Reaches(deps', v, w)
                         /\ \A x \in ToSet(stack') : \A e \in deps'[x] \cap ToSet(stack') :
                               BelongsTo(x, i)' =>
                                  (x = v /\ e \in calls'[i].todo) \/ low'[v] <= index'[e]
    BY <1>5 DEF LowInv
  <2> DEFINE v == calls[i].unit
  <2>1. /\ i \in 1..n /\ i < n /\ calls'[i].unit = v /\ calls'[i].todo = calls[i].todo
        /\ v \in ToSet(stack) /\ v \in Visited /\ v \in Units
        /\ index[v] \in Nat /\ low[v] \in Nat /\ index[v] < index[u]
        /\ low'[v] \in Nat /\ low'[v] <= low[v]
    BY <1>3, <1>4, <1>5, <1>8
  <2>2. /\ low[v] <= index[v]
        /\ \E w \in ToSet(stack) : index[w] = low[v] /\ Reaches(deps, v, w)
        /\ \A x \in ToSet(stack) : \A e \in deps[x] \cap ToSet(stack) :
              BelongsTo(x, i) => (x = v /\ e \in calls[i].todo) \/ low[v] <= index[e]
    BY <1>2, <2>1 DEF SearchInv, LowInv
  <2>3. /\ low[u] <= index[u]
        /\ \E w \in ToSet(stack) : index[w] = low[u] /\ Reaches(deps, u, w)
        /\ \A x \in ToSet(stack) : \A e \in deps[x] \cap ToSet(stack) :
              BelongsTo(x, n) => low[u] <= index[e]
    BY <1>2 DEF SearchInv, LowInv
  <2>4. low'[v] = low[v] \/ low'[v] = low[u]
    BY <1>8
  <2>5. low'[v] <= index[v]
    BY <2>1, <2>2
  <2>6. Reaches(deps, v, u)
    BY <1>2, <2>1 DEF SearchInv, ReachInv
  <2> HIDE DEF v
  <2>7. \E w \in P : index[w] = low'[v] /\ Reaches(deps, v, w)
    <3>1. \E w \in ToSet(stack) : index[w] = low'[v] /\ Reaches(deps, v, w)
      <4>1. CASE low'[v] = low[v]
        BY <2>2, <4>1
      <4>2. CASE low'[v] = low[u]
        <5>1. PICK w \in ToSet(stack) : index[w] = low[u] /\ Reaches(deps, u, w)
          BY <2>3
        <5>2. Reaches(deps, v, w)
          BY <1>2, <2>1, <2>6, <5>1, ReachesFurther
        <5>3. QED
          BY <4>2, <5>1, <5>2
      <4>3. QED
        BY <2>4, <4>1, <4>2
    <3>2. PICK w \in ToSet(stack) : index[w] = low'[v] /\ Reaches(deps, v, w)
      BY <3>1
    <3>3. index[w] < index[u]
      BY <1>2, <1>3, <2>1, <2>5, <3>2
    <3>4. QED
      BY <1>10, <3>2, <3>3
  <2>8. ASSUME NEW x \in P, NEW e \in deps[x] \cap P, BelongsTo(x, i)'
        PROVE  (x = v /\ e \in calls[i].todo) \/ low'[v] <= index[e]
    <3>1. x \in ToSet(stack) /\ index[x] \in Nat /\ e \in ToSet(stack) /\ index[e] \in Nat
      BY <1>3, <1>7
    <3>2. /\ index[v] <= index[x]
          /\ i < n - 1 => index[x] < index[calls[i + 1].unit]
      <4>1. i < n - 1 => i + 1 \in 1..(n - 1)
        BY <1>2, <2>1
      <4>2. i < n - 1 => calls'[i + 1] = calls[i + 1]
        BY <1>5, <4>1
      <4>3. QED
        BY <1>1, <1>5, <2>1, <2>8, <4>2 DEF BelongsTo
    <3>3. CASE BelongsTo(x, i)
      <4>1. (x = v /\ e \in calls[i].todo) \/ low[v] <= index[e]
        BY <2>2, <3>1, <3>3
      <4>2. QED
        BY <2>1, <3>1, <4>1
    <3>4. CASE ~BelongsTo(x, i)
      <4>1. i = n - 1 /\ n > 1 /\ index[u] <= index[x]
        <5>1. ~(i < n - 1) /\ ~(index[x] < index[calls[i + 1].unit])
          BY <2>1, <3>1, <3>2, <3>4, <1>2 DEF BelongsTo, v, n
        <5>2. i = n - 1 /\ n > 1
          BY <1>2, <2>1, <5>1
        <5>3. i + 1 = n
          BY <1>2, <5>2
        <5>4. QED
          BY <1>2, <3>1, <5>1, <5>2, <5>3
      <4>2. BelongsTo(x, n)
        BY <1>2, <3>1, <4>1 DEF BelongsTo, n
      <4>3. low[u] <= index[e]
        BY <2>3, <3>1, <4>2
      <4>4. low'[v] <= low[u]
        BY <1>8, <4>1 DEF v
      <4>5. QED
        BY <1>2, <2>1, <3>1, <4>3, <4>4
    <3>5. QED
      BY <3>3, <3>4
  <2>9. QED
    BY <1>1, <2>1, <2>5, <2>7, <2>8 DEF P
<1>15. QED
  BY <1>6, <1>11, <1>12, <1>13, <1>14 DEF SearchInv

\* The dependency that the loop takes up next is one of those left.
LEMMA FollowsOne ==
    ASSUME SearchInv, deps \in Plans, FollowDependency
    PROVE  /\ calls # <<>>
           /\ \E d \in Top.todo : PassMissing(d) \/ PassComplete(d) \/ Descend(d) \/ BackEdge(d)
<1>1. PICK d : d = Min(Top.todo)
  OBVIOUS
<1>2. /\ calls # <<>> /\ Top.todo # {}
      /\ PassMissing(d) \/ PassComplete(d) \/ Descend(d) \/ BackEdge(d)
  BY <1>1 DEF FollowDependency
<1>3. Top.unit \in Units /\ Top.todo \subseteq deps[Top.unit]
  <2>1. Len(calls) \in DOMAIN calls /\ Top = calls[Len(calls)] /\ Top.unit \in Units
    BY <1>2, TopFrame
  <2>2. QED
    BY <2>1 DEF SearchInv, CallsInv
<1>4. Top.todo \in SUBSET Nat
  BY <1>3, PlansAssumption
<1>5. \E x \in Top.todo : \A y \in Top.todo : x <= y
  BY <1>2, <1>4, LeastNumber
<1>6. d \in Top.todo
  BY <1>1, <1>5 DEF Min
<1>7. QED
  BY <1>2, <1>6

\* Every turn of the search.
LEMMA SearchKeeps ==
    ASSUME SearchInv, deps \in Plans, SearchStep
    PROVE  SearchInv'
<1>1. CASE VisitRoot
  <2>1. PICK u : u = Min(Units \ Visited)
    OBVIOUS
  <2>2. u \in Units \ Visited /\ calls = <<>> /\ Visit(u, <<>>)
    BY <1>1, <2>1, LeastUnit DEF VisitRoot
  <2>3. Passed(<<>>, u)
    BY <2>2 DEF Passed
  <2>4. QED
    BY <2>2, <2>3, VisitKeeps
<1>2. CASE FollowDependency
  <2>1. calls # <<>>
    BY <1>2, FollowsOne
  <2>2. PICK d \in Top.todo :
           PassMissing(d) \/ PassComplete(d) \/ Descend(d) \/ BackEdge(d)
    BY <1>2, FollowsOne
  <2>3. Top.unit \in Units /\ Top.todo \subseteq deps[Top.unit]
    <3>1. Len(calls) \in DOMAIN calls /\ Top = calls[Len(calls)] /\ Top.unit \in Units
      BY <2>1, TopFrame
    <3>2. QED
      BY <3>1 DEF SearchInv, CallsInv
  <2>4. d \in Top.todo
    OBVIOUS
  <2>5. CASE PassMissing(d)
    <3>1. d \notin ToSet(stack)
      BY <2>1, <2>5, TopFrame DEF PassMissing
    <3>2. QED
      BY <2>1, <2>4, <2>5, <3>1, PassKeeps DEF PassMissing
  <2>6. CASE PassComplete(d)
    BY <2>1, <2>4, <2>6, PassKeeps DEF PassComplete
  <2>7. CASE BackEdge(d)
    <3>1. d \in ToSet(stack) /\ d \in Visited
      BY <2>1, <2>7, TopFrame DEF BackEdge
    <3>2. QED
      BY <2>1, <2>4, <2>7, <3>1, PassKeeps DEF BackEdge
  <2>8. CASE Descend(d)
    <3>1. d \in Units \ Visited /\ Visit(d, Advanced(d)) /\ d \in deps[Top.unit]
      BY <2>3, <2>4, <2>8 DEF Descend
    <3>2. Passed(Advanced(d), d)
      BY <2>1, AdvancedPasses DEF SearchInv
    <3>3. QED
      BY <3>1, <3>2, VisitKeeps
  <2>9. QED
    BY <2>2, <2>5, <2>6, <2>7, <2>8
<1>3. CASE Return
  BY <1>3, ReturnKeeps
<1>4. QED
  BY <1>1, <1>2, <1>3 DEF SearchStep

\* Before anything is visited.
LEMMA SearchStarts == SearchInit => SearchInv
<1> SUFFICES ASSUME SearchInit PROVE SearchInv
  OBVIOUS
<1>1. /\ index = <<>> /\ low = <<>> /\ stack = <<>> /\ calls = <<>> /\ components = {}
  BY DEF SearchInit
<1>2. Visited = {} /\ ToSet(stack) = {} /\ UNION components = {} /\ DOMAIN calls = {}
  BY <1>1 DEF Visited, ToSet
<1>3. StackInv
  BY <1>1, <1>2 DEF StackInv
<1>4. CallsInv /\ VisitedInv /\ ReachInv /\ LowInv
  BY <1>1, <1>2 DEF CallsInv, VisitedInv, ReachInv, LowInv
<1>5. ComponentsInv
  BY <1>1, <1>2 DEF ComponentsInv, Closed
<1>6. QED
  BY <1>3, <1>4, <1>5 DEF SearchInv

\* With the last call the stack is empty, and the components are those of the plan.
LEMMA SearchFindsAll ==
    ASSUME SearchInv, deps \in Plans, SearchEnded
    PROVE  components = {Component(deps, u) : u \in Units}
<1>1. ToSet(stack) = {}
  BY DEF SearchEnded, SearchInv, ReachInv
<1>2. UNION components = Units
  BY <1>1 DEF SearchEnded, SearchInv, StackInv
<1>3. \A C \in components : C # {} /\ \A c \in C : C = Component(deps, c)
  BY DEF SearchInv, ComponentsInv
<1>4. \A C \in components : \E u \in Units : C = Component(deps, u)
  BY <1>2, <1>3
<1>5. \A u \in Units : Component(deps, u) \in components
  BY <1>2, <1>3
<1>6. QED
  BY <1>4, <1>5

\* Components that are cycles give the cyclic dependencies of the plan.
LEMMA CyclesAreDefects ==
    ASSUME deps \in Plans, components = {Component(deps, u) : u \in Units}
    PROVE  MissingDiagnostics \cup CycleDiagnostics = PlanDefects
<1> DEFINE needs == [u \in Units |-> Needs(deps, u)]
           diagnostic(u, C) == [unit |-> u, code |-> "DEPENDENCY_CYCLE", related |-> C]
           Cycles == {diagnostic(u, {v \in Units : SameCycle(needs, u, v)}) :
                         u \in {v \in Units : v \in needs[v]}}
<1>1. PlanDefects = MissingDiagnostics \cup Cycles
  BY DEF PlanDefects
<1>2. \A u \in Units : Component(deps, u) = {v \in Units : SameCycle(needs, u, v)}
  BY ComponentSharesCycle
<1>3. \A u \in Units : IsCycle(Component(deps, u)) <=> u \in needs[u]
  BY ComponentIsCycle
<1>4. \A u \in Units : u \in Component(deps, u) /\ Component(deps, u) \subseteq Units
  BY DEF Component, Reaches
<1>5. \A u \in Units : \A v \in Component(deps, u) : Component(deps, v) = Component(deps, u)
  <2> SUFFICES ASSUME NEW u \in Units, NEW v \in Component(deps, u), NEW w \in Units
               PROVE  w \in Component(deps, v) <=> w \in Component(deps, u)
    BY DEF Component
  <2>1. v \in Units /\ Reaches(deps, u, v) /\ Reaches(deps, v, u)
    BY DEF Component
  <2>2. Reaches(deps, v, w) <=> Reaches(deps, u, w)
    BY <2>1, ReachesFurther
  <2>3. Reaches(deps, w, v) <=> Reaches(deps, w, u)
    BY <2>1, ReachesFurther
  <2>4. QED
    BY <2>2, <2>3 DEF Component
<1> HIDE DEF needs
<1>6. CycleDiagnostics = {diagnostic(u, Component(deps, u)) :
                            u \in {v \in Units : IsCycle(Component(deps, v))}}
  <2>1. CycleDiagnostics =
          UNION {{diagnostic(u, C) : u \in C} : C \in {D \in components : IsCycle(D)}}
    BY DEF CycleDiagnostics
  <2> HIDE DEF diagnostic
  <2>2. ASSUME NEW C \in components, IsCycle(C), NEW u \in C
        PROVE  u \in Units /\ C = Component(deps, u)
    BY <1>4, <1>5
  <2>3. \A u \in Units : Component(deps, u) \in components /\ u \in Component(deps, u)
    BY <1>4
  <2>4. QED
    BY <2>1, <2>2, <2>3
<1>7. {v \in Units : IsCycle(Component(deps, v))} = {v \in Units : v \in needs[v]}
  BY <1>3
<1>8. CycleDiagnostics = Cycles
  <2> HIDE DEF diagnostic
  <2>1. CycleDiagnostics = {diagnostic(u, Component(deps, u)) :
                               u \in {v \in Units : v \in needs[v]}}
    BY <1>6, <1>7
  <2>2. QED
    BY <1>2, <2>1
<1>9. QED
  BY <1>1, <1>8

\* While the plan is searched there is no diagnosis, and after it the search is over.
DiagnosisInv == pc = "searching" => SearchInv /\ diagnostics = {}

\* The search keeps its invariant, from its first call to its diagnosis.
LEMMA DiagnosisStep ==
    ASSUME GateInv, DiagnosisInv, [Next]_vars
    PROVE  /\ DiagnosisInv'
           /\ pc = "searching" /\ pc' # "searching" => diagnostics' = PlanDefects
<1>1. CASE pc # "searching"
  BY <1>1 DEF DiagnosisInv, Next, Step, RunEnded, Search, DiagnosePlan, OrderNext, OrderComplete,
     Bind, EmitStructuralError, CommitOutsidePlan, CheckAncestry, EvaluateUnit, Decide, Emit,
     HeadMoved, vars
<1>2. CASE pc = "searching"
  <2>1. SearchInv /\ diagnostics = {} /\ deps \in Plans
    BY <1>2 DEF DiagnosisInv, GateInv, OrderInv
  <2>2. CASE Search
    <3>1. SearchInv' /\ pc' = pc
      BY <2>1, <2>2, SearchKeeps DEF Search, gateVars
    <3>2. diagnostics' = diagnostics
      BY <2>2 DEF Search, SearchStep, VisitRoot, FollowDependency, PassMissing, PassComplete,
         Descend, BackEdge, Visit, Return
    <3>3. QED
      BY <1>2, <2>1, <3>1, <3>2 DEF DiagnosisInv
  <2>3. CASE DiagnosePlan
    <3>1. MissingDiagnostics \cup CycleDiagnostics = PlanDefects
      BY <2>1, <2>3, SearchFindsAll, CyclesAreDefects DEF DiagnosePlan
    <3>2. diagnostics' = PlanDefects /\ pc' # "searching"
      BY <2>1, <2>3, <3>1 DEF DiagnosePlan, EmitStructuralError
    <3>3. QED
      BY <3>2 DEF DiagnosisInv
  <2>4. CASE UNCHANGED vars
    <3>1. UNCHANGED <<deps, index, low, stack, calls, components, diagnostics, pc>>
      BY <2>4 DEF vars
    <3>2. SearchInv'
      BY <2>1, <3>1 DEF SearchInv, StackInv, CallsInv, VisitedInv, ReachInv, LowInv, BelongsTo,
         ComponentsInv, Visited
    <3>3. QED
      BY <1>2, <2>1, <3>1, <3>2 DEF DiagnosisInv
  <2>5. QED
    BY <1>2, <2>2, <2>3, <2>4 DEF Next, Step, RunEnded, Ended, OrderNext, OrderComplete, Bind,
       CommitOutsidePlan, CheckAncestry, EvaluateUnit, Decide, Emit, HeadMoved
<1>3. QED
  BY <1>1, <1>2

\* In any plan, diagnoseDagDependenciesV2 reports the missing dependencies and, with
\* the units it shares a cycle with, every unit on a cycle, and nothing else.
THEOREM SearchDiagnosesPlan == Spec => DiagnosesPlan
<1>1. Init => DiagnosisInv
  BY SearchStarts DEF Init, SearchInit, DiagnosisInv
<1>2. GateInv /\ DiagnosisInv /\ [Next]_vars =>
        /\ DiagnosisInv'
        /\ [(pc = "searching" /\ pc' # "searching") => diagnostics' = PlanDefects]_vars
  BY DiagnosisStep
<1>3. QED
  BY <1>1, <1>2, GateInvariant, PTL DEF Spec, DiagnosesPlan

-----------------------------------------------------------------------------
(* The order after a clean diagnosis *)

\* Without a cycle, some unit of any group depends on no unit of that group: one of
\* those that need the fewest units.
LEMMA SomeUnitStandsFree ==
    ASSUME NEW plan \in Plans, \A u \in Units : u \notin Needs(plan, u),
           NEW S \in SUBSET Units, S # {}
    PROVE  \E u \in S : plan[u] \cap S = {}
<1> DEFINE need(u) == Cardinality(Needs(plan, u))
<1>1. ASSUME NEW u \in Units
      PROVE  /\ Needs(plan, u) \in SUBSET Units /\ IsFiniteSet(Needs(plan, u))
             /\ need(u) \in Nat
  <2>1. Needs(plan, u) \in SUBSET Units
    BY NeedsClosed
  <2>2. IsFiniteSet(Needs(plan, u))
    BY <2>1, PlansAssumption, FS_Subset
  <2>3. QED
    BY <2>1, <2>2, FS_CardinalityType
<1>2. PICK m \in {need(u) : u \in S} : \A k \in {need(u) : u \in S} : m <= k
  <2>1. {need(u) : u \in S} \in SUBSET Nat /\ {need(u) : u \in S} # {}
    BY <1>1
  <2> HIDE DEF need
  <2>2. QED
    BY <2>1, LeastNumber
<1>3. PICK u \in S : m = need(u)
  BY <1>2
<1>4. ASSUME NEW d \in plan[u] \cap S
      PROVE  FALSE
  <2>1. /\ d \in Needs(plan, u) /\ Closed(plan, Needs(plan, u))
        /\ Needs(plan, u) \in SUBSET Units
    BY <1>4, NeedsClosed
  <2>2. Needs(plan, d) \subseteq Needs(plan, u)
    BY <2>1 DEF Needs, Closed
  <2>3. d \notin Needs(plan, d)
    BY <1>4
  <2>4. IsFiniteSet(Needs(plan, u)) /\ need(u) \in Nat /\ need(d) \in Nat
    BY <1>1
  <2>5. need(d) <= need(u) /\ need(d) # need(u)
    BY <2>1, <2>2, <2>3, <2>4, FS_Subset
  <2>6. need(u) <= need(d)
    BY <1>2, <1>3
  <2>7. QED
    BY <2>4, <2>5, <2>6
<1>5. QED
  BY <1>4

\* A plan without defects names no missing dependency and has no unit on a cycle.
LEMMA NothingToReport ==
    ASSUME deps \in Plans, PlanDefects = {}
    PROVE  /\ \A u \in Units : deps[u] \subseteq Units
           /\ \A u \in Units : u \notin Needs(deps, u)
<1> DEFINE needs == [u \in Units |-> Needs(deps, u)]
<1>1. \A u \in Units : deps[u] \ Units = {}
  BY DEF PlanDefects, MissingDiagnostics
<1>2. \A u \in Units : u \notin needs[u]
  BY DEF PlanDefects
<1>3. QED
  BY <1>1, <1>2

\* What is ordered is a plan without defects.
SoundInv == pc = "ordering" => PlanDefects = {}

\* A sound plan with units left to order has one that is ready.
LEMMA SomeUnitIsReady ==
    ASSUME deps \in Plans, PlanDefects = {}, Unordered # {}
    PROVE  Ready # {}
<1>1. PICK u \in Unordered : deps[u] \cap Unordered = {}
  BY NothingToReport, SomeUnitStandsFree DEF Unordered
<1>2. deps[u] \subseteq Units
  BY NothingToReport DEF Unordered
<1>3. deps[u] \subseteq ToSet(order)
  BY <1>1, <1>2 DEF Unordered
<1>4. QED
  BY <1>1, <1>3 DEF Ready

\* The gate orders what the diagnosis has found sound.
LEMMA SoundStep ==
    ASSUME GateInv, DiagnosisInv, SoundInv, [Next]_vars
    PROVE  SoundInv'
<1>1. deps' = deps
  BY DEF Next, Step, RunEnded, Search, SearchStep, VisitRoot, FollowDependency, PassMissing,
     PassComplete, Descend, BackEdge, Visit, Return, DiagnosePlan, OrderNext, OrderComplete,
     Bind, CommitOutsidePlan, CheckAncestry, EvaluateUnit, Decide, Emit, HeadMoved, vars,
     searchVars
<1>2. PlanDefects' = PlanDefects
  BY <1>1 DEF PlanDefects, MissingDiagnostics
<1>3. CASE pc = "searching"
  <2>1. ASSUME pc' = "ordering"
        PROVE  diagnostics' = diagnostics
    BY <1>3, <2>1 DEF Next, Step, RunEnded, Search, DiagnosePlan, EmitStructuralError, OrderNext,
       OrderComplete, Bind, CommitOutsidePlan, CheckAncestry, EvaluateUnit, Decide, Emit,
       HeadMoved, vars, gateVars
  <2>2. QED
    BY <1>2, <1>3, <2>1, DiagnosisStep DEF DiagnosisInv, SoundInv
<1>4. CASE pc = "ordering"
  BY <1>2, <1>4 DEF SoundInv
<1>5. CASE pc \notin {"searching", "ordering"}
  BY <1>5 DEF SoundInv, Next, Step, RunEnded, Search, DiagnosePlan, EmitStructuralError,
     OrderNext, OrderComplete, Bind, CommitOutsidePlan, CheckAncestry, EvaluateUnit, Decide,
     Emit, HeadMoved, vars
<1>6. QED
  BY <1>3, <1>4, <1>5

\* In any plan, canonicalWorkUnitOrder finds a ready unit each time, for the diagnosis
\* before it has left it no plan on which it would throw, and the order it makes is the
\* first of those that respect the dependencies.
THEOREM OrderIsCanonical == Spec => []CanonicalOrder
<1>1. Init => DiagnosisInv /\ SoundInv
  BY SearchStarts DEF Init, SearchInit, DiagnosisInv, SoundInv
<1>2. GateInv /\ DiagnosisInv /\ SoundInv /\ [Next]_vars => DiagnosisInv' /\ SoundInv'
  BY DiagnosisStep, SoundStep
<1>3. GateInv /\ SoundInv => SoundPlansAreOrdered
  BY SomeUnitIsReady DEF GateInv, OrderInv, SoundInv, SoundPlansAreOrdered
<1>4. GateInv /\ SoundInv /\ FirstOrder => CanonicalOrder
  BY <1>3 DEF CanonicalOrder
<1>5. QED
  BY <1>1, <1>2, <1>4, OrderIsFirst, GateInvariant, PTL DEF Spec

-----------------------------------------------------------------------------
(* The end of the gate *)

\* The stages still to come.
Stages ==
    CASE pc = "searching" -> 6 [] pc = "ordering" -> 5 [] pc = "binding" -> 4
      [] pc = "ancestry" -> 3 [] pc = "evaluating" -> 2 [] pc = "emitting" -> 1
      [] OTHER -> 0

\* The units still to visit, to order or to evaluate.
UnitsLeft ==
    CASE pc = "searching" -> Cardinality(Units \ Visited)
      [] pc = "ordering" -> Cardinality(Unordered)
      [] pc = "evaluating" -> Len(order) + 1 - at
      [] OTHER -> 0

\* The dependencies that calls in progress have still to follow.
Following(frames) ==
    {p \in (DOMAIN frames) \X (Units \cup Ghosts) : p[2] \in frames[p[1]].todo}

\* Those, and the calls themselves.
Pending(frames) == Cardinality(Following(frames)) + Len(frames)

CallsLeft == IF pc = "searching" THEN Pending(calls) ELSE 0

\* Of these three numbers the first that changes becomes smaller.
MovesOn ==
    /\ {Stages, UnitsLeft, CallsLeft} \subseteq Nat
    /\ \/ Stages' < Stages
       \/ Stages' = Stages /\ UnitsLeft' < UnitsLeft
       \/ Stages' = Stages /\ UnitsLeft' = UnitsLeft /\ CallsLeft' < CallsLeft

\* Each step of the gate takes away some of what is left to do.
GateMovesOn == [][Step => MovesOn]_vars

\* There are finitely many dependencies to follow.
LEMMA FollowingIsFinite ==
    ASSUME NEW frames \in Seq(Frames)
    PROVE  /\ Len(frames) \in Nat /\ DOMAIN frames = 1..Len(frames)
           /\ IsFiniteSet(Following(frames)) /\ Cardinality(Following(frames)) \in Nat
           /\ Pending(frames) \in Nat
<1>1. Len(frames) \in Nat /\ DOMAIN frames = 1..Len(frames)
  OBVIOUS
<1>2. IsFiniteSet(1..Len(frames))
  BY <1>1, FS_Interval
<1>3. IsFiniteSet(Units \cup Ghosts)
  BY PlansAssumption, FS_Union
<1>4. IsFiniteSet((1..Len(frames)) \X (Units \cup Ghosts))
  BY <1>2, <1>3, FS_Product
<1>5. Following(frames) \in SUBSET ((1..Len(frames)) \X (Units \cup Ghosts))
  BY <1>1 DEF Following
<1>6. IsFiniteSet(Following(frames)) /\ Cardinality(Following(frames)) \in Nat
  BY <1>4, <1>5, FS_Subset, FS_CardinalityType
<1>7. QED
  BY <1>1, <1>6 DEF Pending

\* A dependency that is passed over is one less to follow.
LEMMA PassingMovesOn ==
    ASSUME CallsInv, calls # <<>>, NEW d \in Top.todo, calls' = Advanced(d)
    PROVE  Pending(calls') < Pending(calls)
<1> DEFINE n == Len(calls)
           pair == <<n, d>>
<1>1. /\ calls' \in Seq(Frames) /\ Len(calls') = n
      /\ \A i \in DOMAIN calls :
            calls'[i].todo = IF i = n THEN calls[i].todo \ {d} ELSE calls[i].todo
  BY AdvancedPasses DEF Passed
<1>2. /\ calls \in Seq(Frames) /\ n \in Nat
      /\ DOMAIN calls = 1..n /\ DOMAIN calls' = 1..n /\ n \in 1..n /\ Top = calls[n]
  BY <1>1 DEF CallsInv, Top, Last
<1> HIDE DEF n
<1>3. d \in Units \cup Ghosts
  <2>1. calls[n] \in Frames /\ d \in calls[n].todo
    BY <1>2
  <2>2. QED
    BY <2>1 DEF Frames
<1>4. pair \in Following(calls)
  BY <1>2, <1>3 DEF Following
<1>5. Following(calls') = Following(calls) \ {pair}
  <2>1. ASSUME NEW i \in 1..n, NEW e \in Units \cup Ghosts
        PROVE  e \in calls'[i].todo <=> e \in calls[i].todo /\ <<i, e>> # pair
    BY <1>1, <1>2
  <2>2. QED
    BY <1>2, <2>1 DEF Following
<1>6. IsFiniteSet(Following(calls)) /\ Cardinality(Following(calls)) \in Nat
  BY <1>2, FollowingIsFinite
<1> HIDE DEF pair
<1>7. Cardinality(Following(calls) \ {pair}) = Cardinality(Following(calls)) - 1
  BY <1>4, <1>6, FS_RemoveElement, Zenon
<1>8. Len(calls) \in Nat /\ Len(calls') = Len(calls)
  BY <1>1, <1>2 DEF n
<1>9. QED
  BY <1>5, <1>6, <1>7, <1>8 DEF Pending

\* A call that returns is one less.
LEMMA ReturningMovesOn ==
    ASSUME CallsInv, calls # <<>>, calls' = Front(calls)
    PROVE  Pending(calls') < Pending(calls)
<1> DEFINE n == Len(calls)
<1>1. /\ n \in Nat /\ n >= 1 /\ DOMAIN calls = 1..n
      /\ calls' = SubSeq(calls, 1, n - 1)
  BY DEF CallsInv, Front
<1>2. /\ Len(calls') = n - 1 /\ DOMAIN calls' = 1..(n - 1)
      /\ \A i \in 1..(n - 1) : i \in 1..n /\ calls'[i] = calls[i]
  BY <1>1 DEF CallsInv
<1>3. Following(calls') \in SUBSET Following(calls)
  BY <1>1, <1>2 DEF Following
<1>4. IsFiniteSet(Following(calls)) /\ Cardinality(Following(calls)) \in Nat
  BY FollowingIsFinite DEF CallsInv
<1>5. /\ Cardinality(Following(calls')) <= Cardinality(Following(calls))
      /\ Cardinality(Following(calls')) \in Nat
  BY <1>3, <1>4, FS_Subset, FS_CardinalityType
<1>6. QED
  BY <1>1, <1>2, <1>4, <1>5 DEF Pending

\* Of the units left to visit, order or evaluate there is one less.
LEMMA OneLess ==
    ASSUME NEW S \in SUBSET Units, NEW u \in S
    PROVE  /\ Cardinality(S) \in Nat /\ Cardinality(S \ {u}) \in Nat
           /\ Cardinality(S \ {u}) < Cardinality(S)
<1>1. IsFiniteSet(S) /\ IsFiniteSet(S \ {u})
  BY PlansAssumption, FS_Subset
<1>2. Cardinality(S \ {u}) = Cardinality(S) - 1
  BY <1>1, FS_RemoveElement
<1>3. QED
  BY <1>1, <1>2, FS_CardinalityType

\* A visit leaves one unit less to visit.
LEMMA VisitMovesOn ==
    ASSUME SearchInv, NEW u \in Units \ Visited, NEW callers, Visit(u, callers)
    PROVE  Cardinality(Units \ Visited') < Cardinality(Units \ Visited)
<1>1. Visited' = Visited \cup {u}
  BY DEF Visit, Visited
<1>2. Units \ Visited' = (Units \ Visited) \ {u}
  BY <1>1
<1>3. QED
  BY <1>2, OneLess

\* Each step of the search visits a unit, or leaves less to follow.
LEMMA SearchMovesOn ==
    ASSUME SearchInv, deps \in Plans, SearchStep
    PROVE  \/ Cardinality(Units \ Visited') < Cardinality(Units \ Visited)
           \/ Visited' = Visited /\ Pending(calls') < Pending(calls)
<1>1. CASE VisitRoot
  <2>1. Min(Units \ Visited) \in Units \ Visited
    BY <1>1, LeastUnit DEF VisitRoot
  <2>2. QED
    BY <1>1, <2>1, VisitMovesOn DEF VisitRoot
<1>2. CASE FollowDependency
  <2>1. calls # <<>>
    BY <1>2, FollowsOne
  <2>2. PICK d \in Top.todo : PassMissing(d) \/ PassComplete(d) \/ Descend(d) \/ BackEdge(d)
    BY <1>2, FollowsOne
  <2>3. CASE Descend(d)
    BY <2>3, VisitMovesOn DEF Descend
  <2>4. CASE PassMissing(d) \/ PassComplete(d) \/ BackEdge(d)
    <3>1. calls' = Advanced(d) /\ Visited' = Visited
      BY <2>4 DEF PassMissing, PassComplete, BackEdge, Visited
    <3>2. QED
      BY <2>1, <3>1, PassingMovesOn DEF SearchInv
  <2>5. QED
    BY <2>2, <2>3, <2>4
<1>3. CASE Return
  <2>1. calls # <<>> /\ calls' = Front(calls) /\ Visited' = Visited
    BY <1>3 DEF Return, Visited
  <2>2. QED
    BY <2>1, ReturningMovesOn DEF SearchInv
<1>4. QED
  BY <1>1, <1>2, <1>3 DEF SearchStep

\* What is left is counted by natural numbers.
LEMMA NumbersLeft ==
    ASSUME GateInv, DiagnosisInv
    PROVE  Stages \in Nat /\ UnitsLeft \in Nat /\ CallsLeft \in Nat
<1>1. Stages \in Nat
  BY DEF Stages
<1>2. Cardinality(Units \ Visited) \in Nat /\ Cardinality(Unordered) \in Nat
  BY PlansAssumption, FS_Subset, FS_CardinalityType DEF Unordered
<1>3. pc = "evaluating" => Len(order) + 1 - at \in Nat
  BY DEF GateInv, OrderInv, EvaluationInv, Semantic
<1>4. pc = "searching" => Pending(calls) \in Nat
  BY FollowingIsFinite DEF DiagnosisInv, SearchInv, CallsInv
<1>5. UnitsLeft \in Nat
  BY <1>2, <1>3 DEF UnitsLeft
<1>6. CallsLeft \in Nat
  BY <1>4 DEF CallsLeft
<1>7. QED
  BY <1>1, <1>5, <1>6

\* Of the units to order there is one less after each turn.
LEMMA OrderingMovesOn ==
    ASSUME OrderInv, OrderNext, Ready # {}
    PROVE  Cardinality(Unordered') < Cardinality(Unordered)
<1> DEFINE u == Min(Ready)
<1>1. Ready \in SUBSET Units /\ Ready \subseteq Unordered /\ Unordered \in SUBSET Units
  BY DEF Ready, Unordered
<1>2. u \in Unordered /\ u \in Units
  BY <1>1, LeastUnit
<1>3. order' = Append(order, u) /\ order \in Seq(Units)
  BY DEF OrderNext, OrderInv
<1> HIDE DEF u
<1>4. ToSet(order') = ToSet(order) \cup {u}
  <2>1. /\ DOMAIN order = 1..Len(order) /\ DOMAIN order' = 1..(Len(order) + 1)
        /\ \A i \in 1..Len(order) : order'[i] = order[i]
        /\ order'[Len(order) + 1] = u /\ Len(order) \in Nat
    BY <1>2, <1>3
  <2>2. QED
    BY <2>1 DEF ToSet
<1>5. Unordered' = Unordered \ {u}
  BY <1>4 DEF Unordered
<1>6. QED
  BY <1>1, <1>2, <1>5, OneLess

\* Each step of the gate leaves less to do.
LEMMA GateStepMovesOn ==
    ASSUME GateInv, DiagnosisInv, Step
    PROVE  MovesOn
<1>1. {Stages, UnitsLeft, CallsLeft} \subseteq Nat
  BY NumbersLeft
<1>2. CASE Search
  <2>1. pc = "searching" /\ pc' = "searching" /\ SearchStep
    BY <1>2 DEF Search, gateVars
  <2>2. \/ Cardinality(Units \ Visited') < Cardinality(Units \ Visited)
        \/ Visited' = Visited /\ Pending(calls') < Pending(calls)
    BY <2>1, SearchMovesOn DEF DiagnosisInv, GateInv, OrderInv
  <2>3. /\ UnitsLeft = Cardinality(Units \ Visited) /\ CallsLeft = Pending(calls)
        /\ UnitsLeft' = Cardinality(Units \ Visited') /\ CallsLeft' = Pending(calls')
        /\ Stages' = Stages
    BY <2>1 DEF UnitsLeft, CallsLeft, Stages
  <2>4. QED
    BY <1>1, <2>2, <2>3 DEF MovesOn
<1>3. CASE OrderNext
  <2>1. CASE Ready = {}
    <3>1. Stages = 5 /\ Stages' = 0
      BY <1>3, <2>1 DEF OrderNext, Stages
    <3>2. QED
      BY <1>1, <3>1 DEF MovesOn
  <2>2. CASE Ready # {}
    <3>1. pc = "ordering" /\ pc' = "ordering"
      BY <1>3, <2>2 DEF OrderNext
    <3>2. /\ UnitsLeft = Cardinality(Unordered) /\ UnitsLeft' = Cardinality(Unordered')
          /\ Stages' = Stages
      BY <3>1 DEF UnitsLeft, Stages
    <3>3. QED
      BY <1>1, <1>3, <2>2, <3>2, OrderingMovesOn DEF MovesOn, GateInv
  <2>3. QED
    BY <2>1, <2>2
<1>4. CASE EvaluateUnit
  <2>1. pc = "evaluating" /\ pc' = "evaluating" /\ at' = at + 1 /\ order' = order
    BY <1>4 DEF EvaluateUnit
  <2>2. at \in Nat /\ Len(order) \in Nat
    BY <2>1 DEF GateInv, OrderInv, EvaluationInv, Semantic
  <2>3. /\ UnitsLeft = Len(order) + 1 - at /\ UnitsLeft' = Len(order) + 1 - (at + 1)
        /\ Stages' = Stages
    BY <2>1 DEF UnitsLeft, Stages
  <2>4. QED
    BY <1>1, <2>2, <2>3 DEF MovesOn
<1>5. CASE DiagnosePlan
  <2>1. pc = "searching" /\ pc' \in {"emitting", "failed", "ordering"}
    BY <1>5 DEF DiagnosePlan, EmitStructuralError
  <2>2. QED
    BY <1>1, <2>1 DEF MovesOn, Stages
<1>6. CASE Bind
  <2>1. pc = "binding" /\ pc' \in {"emitting", "failed", "ancestry"}
    BY <1>6 DEF Bind, EmitStructuralError
  <2>2. QED
    BY <1>1, <2>1 DEF MovesOn, Stages
<1>7. CASE CheckAncestry
  <2>1. pc = "ancestry" /\ pc' \in {"emitting", "failed", "evaluating"}
    BY <1>7 DEF CheckAncestry, EmitStructuralError
  <2>2. QED
    BY <1>1, <2>1 DEF MovesOn, Stages
<1>8. CASE OrderComplete \/ CommitOutsidePlan \/ Decide \/ Emit \/ HeadMoved
  <2>1. \/ pc = "ordering" /\ pc' = "binding"
        \/ pc = "binding" /\ pc' = "failed"
        \/ pc = "evaluating" /\ pc' = "emitting"
        \/ pc = "emitting" /\ pc' \in {"done", "failed"}
    BY <1>8 DEF OrderComplete, CommitOutsidePlan, Decide, Emit, HeadMoved
  <2>2. QED
    BY <1>1, <2>1 DEF MovesOn, Stages
<1>9. QED
  BY <1>2, <1>3, <1>4, <1>5, <1>6, <1>7, <1>8 DEF Step

\* For any plan, whatever its shape, the gate cannot go on for ever: of what is left to do
\* each step, of the recursion in diagnoseDagDependenciesV2 or of the loops after it, takes
\* away some.
THEOREM GateCannotGoOn == Spec => GateMovesOn
<1>1. Init => DiagnosisInv
  BY SearchStarts DEF Init, SearchInit, DiagnosisInv
<1>2. GateInv /\ DiagnosisInv /\ [Next]_vars => DiagnosisInv' /\ [Step => MovesOn]_vars
  BY DiagnosisStep, GateStepMovesOn
<1>3. QED
  BY <1>1, <1>2, GateInvariant, PTL DEF Spec, GateMovesOn

-----------------------------------------------------------------------------
(* canonicalOrder in the recovery's own plan *)

\* The turns of canonicalOrder are well defined.
LEMMA TurnsExist ==
    ASSUME NEW plan, NEW N \in Nat
    PROVE  \E f : f = [n \in 0..N |-> IF n = 0 THEN <<>> ELSE Extended(plan, f[n - 1])]
<1> DEFINE Turns(k, f) == f = [n \in 0..k |-> IF n = 0 THEN <<>> ELSE Extended(plan, f[n - 1])]
           S == {k \in Nat : \E f : Turns(k, f)}
<1>1. 0 \in S
  <2> DEFINE f == [n \in 0..0 |-> <<>>]
  <2>1. Turns(0, f)
    OBVIOUS
  <2> HIDE DEF f, Turns
  <2>2. QED
    BY <2>1
<1>2. ASSUME NEW k \in Nat, k \in S
      PROVE  k + 1 \in S
  <2>1. PICK f : Turns(k, f)
    BY <1>2
  <2> DEFINE g == [n \in 0..(k + 1) |-> IF n = k + 1 THEN Extended(plan, f[k]) ELSE f[n]]
  <2>2. \A n \in 0..k : f[n] = IF n = 0 THEN <<>> ELSE Extended(plan, f[n - 1])
    BY <2>1
  <2>3. \A n \in 0..(k + 1) : g[n] = IF n = 0 THEN <<>> ELSE Extended(plan, g[n - 1])
    BY <2>2
  <2>4. Turns(k + 1, g)
    BY <2>3
  <2> HIDE DEF g, Turns
  <2>5. QED
    BY <2>4
<1> HIDE DEF Turns
<1>3. Nat \subseteq S
  <2> HIDE DEF S
  <2>1. QED
    BY <1>1, <1>2, AllNumbers
<1>4. \E f : Turns(N, f)
  BY <1>3
<1>5. QED
  BY <1>4 DEF Turns

\* What a turn of canonicalOrder keeps: each unit once and after its dependencies.
InOrder(plan, s) ==
    /\ s \in Seq(Units)
    /\ \A i, j \in DOMAIN s : s[i] = s[j] => i = j
    /\ \A i \in DOMAIN s : plan[s[i]] \subseteq {s[j] : j \in 1..(i - 1)}

LEMMA ExtendedInOrder ==
    ASSUME NEW plan, NEW s, InOrder(plan, s)
    PROVE  InOrder(plan, Extended(plan, s))
<1> DEFINE ready == {u \in Units \ ToSet(s) : plan[u] \subseteq ToSet(s)}
           u == Min(ready)
           t == Append(s, u)
<1>1. CASE ready = {}
  BY <1>1 DEF Extended
<1>2. CASE ready # {}
  <2>1. u \in ready
    BY <1>2, LeastUnit
  <2>2. u \in Units /\ u \notin ToSet(s) /\ plan[u] \subseteq ToSet(s)
    BY <2>1
  <2>3. Extended(plan, s) = t
    BY <1>2 DEF Extended
  <2> HIDE DEF u, ready
  <2>4. s \in Seq(Units) /\ Len(s) \in Nat /\ DOMAIN s = 1..Len(s)
    BY DEF InOrder
  <2>5. /\ t \in Seq(Units) /\ DOMAIN t = 1..(Len(s) + 1)
        /\ \A i \in 1..Len(s) : t[i] = s[i]
        /\ t[Len(s) + 1] = u
    BY <2>2, <2>4
  <2> HIDE DEF t
  <2>6. ToSet(s) = {s[j] : j \in 1..Len(s)}
    BY <2>4 DEF ToSet
  <2>7. ASSUME NEW i \in DOMAIN t
        PROVE  plan[t[i]] \subseteq {t[j] : j \in 1..(i - 1)}
    <3>1. CASE i = Len(s) + 1
      <4>1. {t[j] : j \in 1..(i - 1)} = ToSet(s)
        BY <2>4, <2>5, <2>6, <3>1
      <4>2. QED
        BY <2>2, <2>5, <3>1, <4>1
    <3>2. CASE i \in 1..Len(s)
      <4>1. \A j \in 1..(i - 1) : t[j] = s[j]
        BY <2>4, <2>5, <3>2
      <4>2. plan[s[i]] \subseteq {s[j] : j \in 1..(i - 1)}
        BY <2>4, <3>2 DEF InOrder
      <4>3. QED
        BY <2>5, <3>2, <4>1, <4>2
    <3>3. QED
      BY <2>4, <2>5, <3>1, <3>2
  <2>8. ASSUME NEW i \in DOMAIN t, NEW j \in DOMAIN t, t[i] = t[j]
        PROVE  i = j
    <3>1. \A k \in 1..Len(s) : s[k] # u
      BY <2>2, <2>6
    <3>2. QED
      BY <2>4, <2>5, <2>8, <3>1 DEF InOrder
  <2>9. InOrder(plan, t)
    BY <2>5, <2>7, <2>8 DEF InOrder
  <2>10. QED
    BY <2>3, <2>9, Zenon
<1>3. QED
  BY <1>1, <1>2

LEMMA OrderOfInOrder ==
    ASSUME NEW plan
    PROVE  InOrder(plan, OrderOf(plan))
<1> DEFINE N == Cardinality(Units)
           Turns(f) == f = [n \in 0..N |-> IF n = 0 THEN <<>> ELSE Extended(plan, f[n - 1])]
           F == CHOOSE f : Turns(f)
<1>1. N \in Nat
  BY PlansAssumption, FS_CardinalityType
<1>2. OrderOf(plan) = F[N]
  BY DEF OrderOf
<1> HIDE DEF N
<1>3. \E f : Turns(f)
  BY <1>1, TurnsExist
<1>4. Turns(F)
  BY <1>3
<1> HIDE DEF F
<1>5. /\ F[0] = <<>>
      /\ \A n \in Nat : n + 1 <= N => F[n + 1] = Extended(plan, F[n])
  BY <1>1, <1>4
<1> HIDE DEF Turns
<1> DEFINE S == {n \in Nat : n <= N => InOrder(plan, F[n])}
<1>6. 0 \in S
  <2>1. <<>> \in Seq(Units) /\ DOMAIN <<>> = {}
    OBVIOUS
  <2>2. InOrder(plan, <<>>)
    BY <2>1 DEF InOrder
  <2>3. QED
    BY <1>5, <2>2
<1>7. ASSUME NEW n \in Nat, n \in S
      PROVE  n + 1 \in S
  <2> SUFFICES ASSUME n + 1 <= N PROVE InOrder(plan, F[n + 1])
    OBVIOUS
  <2>1. InOrder(plan, F[n])
    BY <1>1, <1>7
  <2>2. InOrder(plan, Extended(plan, F[n]))
    BY <2>1, ExtendedInOrder
  <2>3. QED
    BY <1>5, <2>2
<1>8. Nat \subseteq S
  <2> HIDE DEF S
  <2>1. QED
    BY <1>6, <1>7, AllNumbers
<1>9. QED
  BY <1>1, <1>2, <1>8

\* An order as long as the plan holds all of it.
LEMMA OrderableIsComplete ==
    ASSUME NEW plan, Orderable(plan)
    PROVE  /\ InOrder(plan, OrderOf(plan))
           /\ \A u \in Units : \E i \in DOMAIN OrderOf(plan) : OrderOf(plan)[i] = u
<1> DEFINE s == OrderOf(plan)
           N == Cardinality(Units)
<1>1. InOrder(plan, s) /\ Len(s) = N
  BY OrderOfInOrder DEF Orderable
<1>2. IsFiniteSet(Units) /\ N \in Nat
  BY PlansAssumption, FS_CardinalityType
<1> HIDE DEF s, N
<1>3. /\ s \in [1..N -> Units] /\ DOMAIN s = 1..N
      /\ \A i, j \in 1..N : s[i] = s[j] => i = j
  BY <1>1 DEF InOrder
<1>4. s \in Injection(1..N, Units)
  BY <1>3 DEF Injection, IsInjective
<1>5. Cardinality(1..N) = Cardinality(Units)
  <2>1. \A n \in Nat : Cardinality(1..n) = n
    BY FS_Interval
  <2>2. QED
    BY <1>2, <2>1, Zenon DEF N
<1>6. s \in Surjection(1..N, Units)
  BY <1>2, <1>4, <1>5, FS_Injection
<1>7. \A u \in Units : \E i \in 1..N : s[i] = u
  BY <1>6 DEF Surjection
<1>8. QED
  BY <1>1, <1>3, <1>7 DEF s

-----------------------------------------------------------------------------
(* After the gate: rollbacks and replacements *)

RecoveryInv ==
    /\ stage \in {"none", "tracing", "accepted", "refused", "judged", "sealed"}
    /\ stage # "none" => pc = "done" /\ verdict \in {"pass", "blocked"}
    /\ stage \in {"none", "tracing", "accepted"} => outcome.result = "none"
    /\ stage = "tracing" => route = "rollback"
    /\ stage = "accepted" =>
          /\ postDeps \in PlansChanging(changed)
          /\ route \in {"rollback", "replacement"}
          /\ route = "rollback" => Orderable(postDeps)
    /\ CarriedStandOnCarried

\* A new plan differs from the source plan in the units it changes.
LEMMA PlanChanging ==
    ASSUME NEW C, NEW plan \in PlansChanging(C), NEW u \in Units
    PROVE  /\ u \notin C => plan[u] = deps[u]
           /\ plan[u] \subseteq deps[u] \cup Units
<1>1. PICK edges \in UNION {kSubset(k, C \X Units) : k \in 0..MaxRewired} :
        plan = [v \in Units |-> SymDiff(deps[v], {e[2] : e \in {f \in edges : f[1] = v}})]
  BY DEF PlansChanging
<1>2. edges \subseteq C \X Units
  BY <1>1 DEF kSubset
<1> DEFINE D == {e[2] : e \in {f \in edges : f[1] = u}}
<1>3. D \subseteq Units /\ (u \notin C => D = {})
  BY <1>2
<1>4. plan[u] = SymDiff(deps[u], D)
  BY <1>1
<1> HIDE DEF D
<1>5. QED
  BY <1>3, <1>4 DEF SymDiff

\* What a result without structural error says of the plan.
LEMMA ResultIsSound ==
    ASSUME GateInv, pc = "done", verdict \in {"pass", "blocked"}
    PROVE  /\ \A u \in Units : deps[u] \subseteq Units
           /\ ClosedUnderDependants(deps, invalid)
<1>1. Decided /\ EvaluationInv /\ Placed(at - 1) = Units /\ Placed(Len(order)) = Units
  BY DEF GateInv, Semantic, Decided, EvaluationInv, OrderInv
<1>2. ASSUME NEW u \in Units
      PROVE  deps[u] \subseteq Units
  <2>1. PICK i \in 1..Len(order) : order[i] = u
    BY <1>1 DEF Placed
  <2>2. deps[u] \subseteq Placed(i - 1) /\ i \in 1..Len(order) /\ Len(order) \in Nat
    BY <2>1 DEF GateInv, OrderInv
  <2>3. Placed(i - 1) \subseteq Placed(Len(order))
    <3>1. 1..(i - 1) \subseteq 1..Len(order)
      BY <2>2
    <3>2. QED
      BY <3>1 DEF Placed
  <2>4. QED
    BY <1>1, <2>2, <2>3
<1>3. \A u \in Units : u \in invalid <=> own[u] # {} \/ deps[u] \cap invalid # {}
  BY <1>1 DEF EvaluationInv, UnitReasons
<1>4. QED
  BY <1>2, <1>3 DEF ClosedUnderDependants

\* The second gate finds every carried unit that depends on a changed one, and of the
\* carried units no other.
LEMMA CarriedDiagnosed ==
    ASSUME NEW plan \in PlansChanging(changed), postDeps = plan,
           \A u \in Units : deps[u] \subseteq Units, NEW newer
    PROVE  Diagnosed(newer) \cap Carried = {u \in Carried : plan[u] \cap changed # {}}
<1>1. ASSUME NEW u \in Carried
      PROVE  (\E d \in plan[u] : ~Descends(u, d, newer)) <=> plan[u] \cap changed # {}
  <2>1. u \in Units /\ u \notin changed /\ plan[u] = deps[u] /\ deps[u] \subseteq Units
    BY PlanChanging DEF Carried
  <2>2. QED
    BY <2>1 DEF Descends, Carried
<1>2. QED
  BY <1>1 DEF Diagnosed, Carried

\* The recovery branch puts the changed units on all that is carried and on the
\* changed units that they depend on.
LEMMA ChangedNotDiagnosed ==
    ASSUME postDeps \in PlansChanging(changed), Orderable(postDeps),
           \A u \in Units : deps[u] \subseteq Units
    PROVE  Diagnosed(BranchOrder) \subseteq Carried
<1> SUFFICES ASSUME NEW u \in Units, u \in changed, NEW d \in postDeps[u]
             PROVE  <<u, d>> \in BranchOrder
  BY DEF Diagnosed, Descends, Carried
<1>1. d \in Units
  BY PlanChanging
<1>2. CASE d \notin changed
  BY <1>1, <1>2 DEF BranchOrder, Carried
<1>3. CASE d \in changed
  <2> DEFINE s == OrderOf(postDeps)
  <2>1. InOrder(postDeps, s) /\ \E i \in DOMAIN s : s[i] = u
    BY OrderableIsComplete
  <2> HIDE DEF s
  <2>2. PICK i \in DOMAIN s : s[i] = u
    BY <2>1
  <2>3. DOMAIN s = 1..Len(s) /\ Len(s) \in Nat
    BY <2>1 DEF InOrder
  <2>4. PICK j \in 1..(i - 1) : s[j] = d
    BY <2>1, <2>2 DEF InOrder
  <2>5. i \in DOMAIN s /\ j \in DOMAIN s /\ j < i
    BY <2>2, <2>3, <2>4
  <2>6. <<i, j>> \in {q \in (DOMAIN s) \X (DOMAIN s) : q[2] < q[1]}
    BY <2>5
  <2>7. <<u, d>> \in PairsInOrder(s)
    BY <2>2, <2>4, <2>6 DEF PairsInOrder
  <2>8. QED
    BY <1>3, <2>7 DEF BranchOrder, ExecutionOrder, s
<1>4. QED
  BY <1>2, <1>3

\* A judgement of either route.
LEMMA JudgedKeeps ==
    ASSUME GateInv, RecoveryInv, JudgeRollback \/ JudgeReplacement
    PROVE  CarriedStandOnCarried'
<1>1. /\ \A u \in Units : deps[u] \subseteq Units
      /\ ClosedUnderDependants(deps, invalid)
      /\ postDeps \in PlansChanging(changed) /\ stage = "accepted"
      /\ UNCHANGED <<vars, route, changed, postDeps>>
  BY ResultIsSound DEF JudgeRollback, JudgeReplacement, RecoveryInv
<1>2. UNCHANGED <<deps, invalid>>
  BY <1>1 DEF vars
<1> DEFINE orphans == {u \in Carried : postDeps[u] \cap changed # {}}
<1>3. \A newer : Diagnosed(newer) \cap Carried = orphans
  BY <1>1, CarriedDiagnosed
<1>4. changed = invalid => orphans = {}
  <2> SUFFICES ASSUME NEW u \in Carried, changed = invalid, postDeps[u] \cap changed # {}
               PROVE  FALSE
    OBVIOUS
  <2>1. u \in Units /\ u \notin invalid /\ postDeps[u] = deps[u]
    BY <1>1, PlanChanging DEF Carried
  <2>2. QED
    BY <1>1, <2>1 DEF ClosedUnderDependants
<1>5. orphans' = orphans /\ Carried' = Carried /\ Orderable(postDeps)' = Orderable(postDeps)
  BY <1>1 DEF Carried
<1> HIDE DEF orphans
<1>6. CASE JudgeRollback
  <2>1. /\ route = "rollback" /\ Orderable(postDeps)
        /\ outcome'.diagnosed = Diagnosed(BranchOrder)
    BY <1>6 DEF JudgeRollback, RecoveryInv
  <2>2. outcome'.diagnosed = orphans
    BY <1>1, <1>3, <2>1, ChangedNotDiagnosed
  <2>3. QED
    BY <1>1, <1>5, <2>1, <2>2, <1>3 DEF CarriedStandOnCarried, orphans
<1>7. CASE JudgeReplacement
  <2>1. route = "replacement"
    BY <1>7 DEF JudgeReplacement
  <2>2. Orderable(postDeps) => \E newer : outcome'.diagnosed = Diagnosed(newer)
    BY <1>7 DEF JudgeReplacement
  <2>3. QED
    BY <1>1, <1>2, <1>3, <1>4, <1>5, <2>1, <2>2 DEF CarriedStandOnCarried, orphans
<1>8. QED
  BY <1>6, <1>7

LEMMA RecoveryStep ==
    ASSUME GateInv, RecoveryInv, [GateAndRecover]_allVars
    PROVE  RecoveryInv'
<1>1. CASE UNCHANGED allVars
  <2>1. UNCHANGED <<deps, pc, verdict, invalid, stage, route, changed, postDeps, outcome>>
    BY <1>1 DEF allVars, vars, recoveryVars
  <2>2. /\ PlansChanging(changed)' = PlansChanging(changed)
        /\ Orderable(postDeps)' = Orderable(postDeps)
    BY <2>1 DEF PlansChanging, Orderable, OrderOf
  <2>3. CarriedStandOnCarried' = CarriedStandOnCarried
    BY <2>1, <2>2 DEF CarriedStandOnCarried, Carried
  <2>4. QED
    BY <2>1, <2>2, <2>3 DEF RecoveryInv
<1>2. CASE Next /\ UNCHANGED recoveryVars
  <2>1. UNCHANGED <<stage, route, changed, postDeps, outcome>>
    BY <1>2 DEF recoveryVars
  <2>2. CASE stage = "none"
    BY <2>1, <2>2 DEF RecoveryInv, CarriedStandOnCarried
  <2>3. CASE stage # "none"
    <3>1. pc = "done"
      BY <2>3 DEF RecoveryInv
    <3>2. UNCHANGED vars
      BY <1>2, <3>1 DEF Next, Step, RunEnded, Search, DiagnosePlan, OrderNext, OrderComplete,
         Bind, CommitOutsidePlan, CheckAncestry, EvaluateUnit, Decide, Emit, HeadMoved
    <3>3. QED
      BY <1>1, <1>2, <3>2 DEF allVars
  <2>4. QED
    BY <2>2, <2>3
<1>3. CASE JudgeRollback \/ JudgeReplacement
  <2>1. CarriedStandOnCarried' /\ stage = "accepted" /\ UNCHANGED vars
    BY <1>3, JudgedKeeps DEF JudgeRollback, JudgeReplacement
  <2>2. stage' \in {"refused", "judged"}
    BY <1>3 DEF JudgeRollback, JudgeReplacement
  <2>3. pc' = "done" /\ verdict' \in {"pass", "blocked"}
    BY <2>1 DEF RecoveryInv, vars
  <2>4. QED
    BY <2>1, <2>2, <2>3 DEF RecoveryInv
<1>4. CASE BeginRollback \/ NextRoot \/ VisitPath \/ RefuseProposal
  <2>1. /\ stage \in {"none", "tracing"} /\ UNCHANGED <<vars, changed, postDeps, outcome>>
        /\ stage' \in {"tracing", "refused"} /\ route' = "rollback"
        /\ pc = "done" /\ verdict \in {"pass", "blocked"}
    BY <1>4, RolledBackAssumption
       DEF BeginRollback, NextRoot, VisitPath, RefuseProposal, RecoveryInv
  <2>2. pc' = pc /\ verdict' = verdict /\ outcome'.result = "none"
    BY <2>1 DEF vars, RecoveryInv
  <2>3. QED
    BY <2>1, <2>2 DEF RecoveryInv, CarriedStandOnCarried
<1>5. CASE AcceptPlan
  <2>1. /\ stage = "tracing" /\ UNCHANGED <<vars, route, outcome>> /\ stage' = "accepted"
        /\ postDeps' \in PlansChanging(changed') /\ Orderable(postDeps)'
    BY <1>5 DEF AcceptPlan
  <2>2. UNCHANGED <<pc, verdict, deps>>
    BY <2>1 DEF vars
  <2>3. PlansChanging(changed)' = PlansChanging(changed')
    BY <2>2 DEF PlansChanging
  <2>4. QED
    BY <2>1, <2>2, <2>3 DEF RecoveryInv, CarriedStandOnCarried
<1>6. CASE BeginReplacement
  <2>1. /\ stage = "none" /\ UNCHANGED <<vars, outcome>> /\ stage' = "accepted"
        /\ pc = "done" /\ verdict = "blocked" /\ route' = "replacement"
        /\ postDeps' \in PlansChanging(changed')
    BY <1>6 DEF BeginReplacement
  <2>2. UNCHANGED <<pc, verdict, deps>>
    BY <2>1 DEF vars
  <2>3. PlansChanging(changed)' = PlansChanging(changed')
    BY <2>2 DEF PlansChanging
  <2>4. QED
    BY <2>1, <2>2, <2>3 DEF RecoveryInv, CarriedStandOnCarried
<1>7. CASE RefuseProjection \/ Seal
  <2>1. /\ stage # "none" /\ stage' \in {"refused", "sealed"}
        /\ UNCHANGED <<vars, route, changed, postDeps, outcome>>
    BY <1>7 DEF RefuseProjection, Seal
  <2>2. UNCHANGED <<pc, verdict, deps, invalid>>
    BY <2>1 DEF vars
  <2>3. QED
    BY <2>1, <2>2 DEF RecoveryInv, CarriedStandOnCarried, Carried
<1>8. QED
  BY <1>1, <1>2, <1>3, <1>4, <1>5, <1>6, <1>7 DEF GateAndRecover, Recover

\* What the gate guarantees it guarantees with a recovery after it.
LEMMA RecoveryKeepsGate == RecoverySpec => Spec
<1>1. RecoveryInit => Init
  BY DEF RecoveryInit
<1>2. [GateAndRecover]_allVars => [Next]_vars
  BY DEF GateAndRecover, Recover, allVars, BeginRollback, NextRoot, VisitPath, AcceptPlan,
         RefuseProposal, JudgeRollback, BeginReplacement, RefuseProjection, JudgeReplacement, Seal
<1>3. QED
  BY <1>1, <1>2, PTL DEF RecoverySpec, Spec

\* How far a recovery has come, in any plan.
LEMMA RecoveryInvariant == RecoverySpec => []RecoveryInv
<1>1. RecoveryInit => RecoveryInv
  BY DEF RecoveryInit, RecoveryInv, NoOutcome, CarriedStandOnCarried
<1>2. GateInv /\ RecoveryInv /\ [GateAndRecover]_allVars => RecoveryInv'
  BY RecoveryStep
<1>3. QED
  BY <1>1, <1>2, RecoveryKeepsGate, GateInvariant, PTL DEF RecoverySpec

\* In any plan, the second gate refuses of the carried units those that depend on a
\* changed one, a rollback's own commits never, and in a replacement of all that was
\* found invalid no carried unit.
THEOREM CarriedUnitsStand == RecoverySpec => []CarriedStandOnCarried
<1>1. RecoveryInv => CarriedStandOnCarried
  BY DEF RecoveryInv
<1>2. QED
  BY <1>1, RecoveryInvariant, PTL

-----------------------------------------------------------------------------
(* The trace of the impact *)

\* A path along which units depend on its first, one on the other.
Trace(plan, p) ==
    /\ p \in Seq(Units)
    /\ p # <<>>
    /\ \A i \in 2..Len(p) : p[i - 1] \in plan[p[i]]

\* The targets that the trace has begun with.
Begun ==
    {u \in Units : <<u>> \in ToSet(queue) \/ (u \in DOMAIN witness /\ witness[u] = <<u>>)}

\* Of a path found, the units before place n have a witness not longer than it is there.
WitnessedBefore(p, n) ==
    \A k \in 1..(n - 1) : p[k] \in DOMAIN witness /\ Len(witness[p[k]]) <= k

\* A unit that depends on a witnessed one has a witness at least as good as the path
\* through it, unless that path is still to be visited.
FollowedInv ==
    \A u \in DOMAIN witness : \A v \in Units : u \in deps[v] =>
        \/ v \in DOMAIN witness /\ NoBetter(Append(witness[u], v), witness[v])
        \/ Append(witness[u], v) \in ToSet(queue)

TraceInv ==
    /\ roots \in Seq(Units)
    /\ queue \in Seq(Seq(Units))
    /\ DOMAIN witness \subseteq Units
    /\ \A p \in ToSet(queue) :
          Trace(deps, p) /\ p[1] \in Begun /\ WitnessedBefore(p, Len(p))
    /\ \A u \in DOMAIN witness :
          /\ Trace(deps, witness[u]) /\ Last(witness[u]) = u /\ witness[u][1] \in Begun
          /\ WitnessedBefore(witness[u], Len(witness[u]))
    /\ FollowedInv

ImpactInv ==
    /\ stage = "none" => roots = <<>> /\ queue = <<>> /\ witness = <<>>
    /\ stage = "tracing" => TraceInv

\* The ids of a finite set can be put in the order of names.
LEMMA SortedExists ==
    ASSUME NEW S \in SUBSET Units
    PROVE  \E f \in [1..Cardinality(S) -> S] :
              \A i, j \in 1..Cardinality(S) : i < j => f[i] < f[j]
<1> DEFINE Sorts(f, T) == /\ f \in [1..Cardinality(T) -> T]
                          /\ \A i, j \in 1..Cardinality(T) : i < j => f[i] < f[j]
           W == {T \in SUBSET Units : \E f : Sorts(f, T)}
<1>1. IsFiniteSet(S) /\ S \subseteq Nat
  BY PlansAssumption, FS_Subset
<1>2. ASSUME NEW T \in SUBSET S, \A x \in T : T \ {x} \in W
      PROVE  T \in W
  <2>1. IsFiniteSet(T) /\ T \subseteq Nat /\ T \subseteq Units
    BY <1>1, FS_Subset
  <2>2. CASE T = {}
    <3>1. Cardinality(T) = 0
      BY <2>2, FS_EmptySet
    <3>2. Sorts(<<>>, T)
      BY <3>1, <2>2
    <3>3. QED
      BY <2>1, <3>2
  <2>3. CASE T # {}
    <3> DEFINE m == Min(T)
               n == Cardinality(T \ {m})
    <3>1. m \in T /\ \A y \in T : m <= y
      BY <2>1, <2>3, LeastUnit
    <3>2. Cardinality(T) = n + 1 /\ n \in Nat
      <4> HIDE DEF m
      <4>1. IsFiniteSet(T \ {m}) /\ Cardinality(T \ {m}) = Cardinality(T) - 1
        BY <2>1, <3>1, FS_RemoveElement, Zenon
      <4>2. n \in Nat /\ Cardinality(T) \in Nat
        BY <2>1, <4>1, FS_CardinalityType
      <4>3. QED
        BY <4>1, <4>2
    <3>3. T \ {m} \in W
      BY <1>2, <3>1
    <3>4. PICK f : Sorts(f, T \ {m})
      BY <3>3
    <3> DEFINE g == [i \in 1..(n + 1) |-> IF i = 1 THEN m ELSE f[i - 1]]
    <3> HIDE DEF m, n
    <3>5. /\ f \in [1..n -> T \ {m}]
          /\ \A i, j \in 1..n : i < j => f[i] < f[j]
      BY <3>4 DEF n
    <3>6. \A i \in 2..(n + 1) : /\ i - 1 \in 1..n /\ g[i] = f[i - 1] /\ f[i - 1] \in T \ {m}
                                /\ i \in 1..(n + 1) /\ i \in Nat
      BY <3>2, <3>5
    <3>7. g[1] = m /\ g \in [1..(n + 1) -> T]
      <4>1. \A i \in 1..(n + 1) : i = 1 \/ i \in 2..(n + 1)
        BY <3>2
      <4>2. 1 \in 1..(n + 1)
        BY <3>2
      <4>3. \A i \in 1..(n + 1) : g[i] \in T
        BY <3>1, <3>6, <4>1
      <4>4. QED
        BY <4>2, <4>3
    <3> HIDE DEF g
    <3>8. ASSUME NEW i \in 1..(n + 1), NEW j \in 1..(n + 1), i < j
          PROVE  g[i] < g[j]
      <4>1. j \in 2..(n + 1)
        BY <3>2, <3>8
      <4>2. CASE i = 1
        <5>1. g[j] \in T /\ g[j] # m
          BY <3>6, <4>1
        <5>2. m <= g[j] /\ m \in Nat /\ g[j] \in Nat
          BY <2>1, <3>1, <5>1
        <5>3. QED
          BY <3>7, <4>2, <5>1, <5>2
      <4>3. CASE i \in 2..(n + 1)
        BY <3>5, <3>6, <3>8, <4>1, <4>3
      <4>4. QED
        BY <3>2, <4>2, <4>3
    <3>9. Sorts(g, T)
      BY <3>2, <3>7, <3>8
    <3>10. QED
      BY <2>1, <3>9
  <2>4. QED
    BY <2>2, <2>3
<1>3. S \in W
  <2> HIDE DEF W
  <2>1. QED
    BY <1>1, <1>2, FiniteSubset
<1>4. QED
  BY <1>3

\* Sorting keeps the ids and adds none.
LEMMA SortedIsSet ==
    ASSUME NEW S \in SUBSET Units
    PROVE  /\ Sorted(S) \in Seq(Units)
           /\ ToSet(Sorted(S)) = S
<1> DEFINE N == Cardinality(S)
           f == Sorted(S)
<1>1. IsFiniteSet(S) /\ S \subseteq Nat /\ N \in Nat
  BY PlansAssumption, FS_Subset, FS_CardinalityType
<1>2. \E g \in [1..N -> S] : \A i, j \in DOMAIN g : i < j => g[i] < g[j]
  BY SortedExists
<1>3. f \in [1..N -> S] /\ \A i, j \in DOMAIN f : i < j => f[i] < f[j]
  BY <1>2 DEF Sorted
<1> HIDE DEF f
<1>4. f \in Injection(1..N, S)
  <2>0. DOMAIN f = 1..N /\ \A i \in 1..N : f[i] \in Nat
    BY <1>1, <1>3
  <2>1. ASSUME NEW i \in 1..N, NEW j \in 1..N, f[i] = f[j]
        PROVE  i = j
    <3>1. ~(i < j) /\ ~(j < i)
      BY <1>3, <2>0, <2>1
    <3>2. QED
      BY <1>1, <3>1
  <2>2. QED
    BY <1>3, <2>1 DEF Injection, IsInjective
<1>5. Cardinality(1..N) = Cardinality(S)
  <2> HIDE DEF N
  <2>1. \A n \in Nat : Cardinality(1..n) = n
    BY FS_Interval
  <2>2. QED
    BY <1>1, <2>1, Zenon DEF N
<1>6. f \in Surjection(1..N, S)
  <2>1. IsFiniteSet(1..N)
    BY <1>1, FS_Interval
  <2>2. QED
    BY <1>1, <1>4, <1>5, <2>1, FS_Injection
<1> HIDE DEF N
<1>7. \A u \in S : \E i \in 1..N : f[i] = u
  BY <1>6 DEF Surjection
<1>8. f \in Seq(Units) /\ DOMAIN f = 1..N
  <2>1. f \in [1..N -> Units]
    BY <1>3
  <2>2. QED
    BY <1>1, <2>1
<1>9. ToSet(f) = S
  BY <1>3, <1>7, <1>8 DEF ToSet
<1>10. QED
  BY <1>8, <1>9 DEF f

-----------------------------------------------------------------------------
(* The order of paths *)

\* Of two different paths of one length one is before the other.
LEMMA PathsAreOrdered ==
    ASSUME NEW p \in Seq(Units), NEW q \in Seq(Units), Len(p) = Len(q), p # q
    PROVE  PathBefore(p, q) \/ PathBefore(q, p)
<1> DEFINE D == {i \in 1..Len(p) : p[i] # q[i]}
<1>1. DOMAIN p = 1..Len(p) /\ DOMAIN q = 1..Len(p) /\ Len(p) \in Nat
  OBVIOUS
<1>2. D # {} /\ D \in SUBSET Nat
  BY <1>1
<1>3. PICK i \in D : \A j \in D : i <= j
  BY <1>2, LeastNumber
<1>4. i \in 1..Len(p) /\ p[i] # q[i] /\ p[i] \in Nat /\ q[i] \in Nat
  <2>1. i \in 1..Len(p) /\ p[i] # q[i]
    BY <1>3
  <2>2. p[i] \in Units /\ q[i] \in Units
    BY <1>1, <2>1
  <2>3. QED
    BY <2>1, <2>2, PlansAssumption
<1>5. \A j \in 1..(i - 1) : p[j] = q[j]
  BY <1>1, <1>3, <1>4
<1>6. p[i] < q[i] \/ q[i] < p[i]
  BY <1>4
<1>7. QED
  BY <1>1, <1>4, <1>5, <1>6 DEF PathBefore

\* And then the other is not before it.
LEMMA PathBeforeIsStrict ==
    ASSUME NEW p \in Seq(Units), NEW q \in Seq(Units), Len(p) = Len(q), PathBefore(p, q)
    PROVE  p # q /\ ~PathBefore(q, p)
<1>1. DOMAIN p = 1..Len(p) /\ DOMAIN q = 1..Len(p) /\ Len(p) \in Nat
      /\ \A k \in 1..Len(p) : p[k] \in Nat /\ q[k] \in Nat
  <2>1. DOMAIN p = 1..Len(p) /\ DOMAIN q = 1..Len(p) /\ Len(p) \in Nat
    OBVIOUS
  <2>2. \A k \in 1..Len(p) : p[k] \in Units /\ q[k] \in Units
    OBVIOUS
  <2>3. QED
    BY <2>1, <2>2, PlansAssumption
<1>2. PICK i \in 1..Len(p) : p[i] < q[i] /\ \A j \in 1..(i - 1) : p[j] = q[j]
  BY <1>1 DEF PathBefore
<1>3. p # q
  BY <1>1, <1>2
<1>4. ASSUME PathBefore(q, p) PROVE FALSE
  <2>1. PICK k \in 1..Len(p) : q[k] < p[k] /\ \A j \in 1..(k - 1) : p[j] = q[j]
    BY <1>1, <1>4 DEF PathBefore
  <2>2. CASE k < i
    BY <1>1, <1>2, <2>1, <2>2
  <2>3. CASE i < k
    BY <1>1, <1>2, <2>1, <2>3
  <2>4. CASE i = k
    BY <1>1, <1>2, <2>1, <2>4
  <2>5. QED
    BY <1>1, <2>2, <2>3, <2>4
<1>5. QED
  BY <1>3, <1>4

\* And the order is transitive.
LEMMA PathBeforeGoesOn ==
    ASSUME NEW p \in Seq(Units), NEW q \in Seq(Units), NEW r \in Seq(Units),
           Len(p) = Len(q), Len(q) = Len(r), PathBefore(p, q), PathBefore(q, r)
    PROVE  PathBefore(p, r)
<1>1. DOMAIN p = 1..Len(p) /\ DOMAIN q = 1..Len(p) /\ DOMAIN r = 1..Len(p) /\ Len(p) \in Nat
      /\ \A k \in 1..Len(p) : p[k] \in Nat /\ q[k] \in Nat /\ r[k] \in Nat
  <2>1. /\ DOMAIN p = 1..Len(p) /\ DOMAIN q = 1..Len(p) /\ DOMAIN r = 1..Len(p)
        /\ Len(p) \in Nat
    OBVIOUS
  <2>2. \A k \in 1..Len(p) : p[k] \in Units /\ q[k] \in Units /\ r[k] \in Units
    OBVIOUS
  <2>3. QED
    BY <2>1, <2>2, PlansAssumption
<1>2. PICK i \in 1..Len(p) : p[i] < q[i] /\ \A j \in 1..(i - 1) : p[j] = q[j]
  BY <1>1 DEF PathBefore
<1>3. PICK k \in 1..Len(p) : q[k] < r[k] /\ \A j \in 1..(k - 1) : q[j] = r[j]
  BY <1>1 DEF PathBefore
<1>4. CASE i <= k
  <2>1. p[i] < r[i]
    BY <1>1, <1>2, <1>3, <1>4
  <2>2. \A j \in 1..(i - 1) : p[j] = r[j]
    BY <1>1, <1>2, <1>3, <1>4
  <2>3. QED
    BY <1>1, <2>1, <2>2 DEF PathBefore
<1>5. CASE k < i
  <2>1. p[k] < r[k]
    BY <1>1, <1>2, <1>3, <1>5
  <2>2. \A j \in 1..(k - 1) : p[j] = r[j]
    BY <1>1, <1>2, <1>3, <1>5
  <2>3. QED
    BY <1>1, <2>1, <2>2 DEF PathBefore
<1>6. QED
  BY <1>1, <1>4, <1>5

\* As good as is transitive,
LEMMA NoBetterGoesOn ==
    ASSUME NEW p \in Seq(Units), NEW q \in Seq(Units), NEW r \in Seq(Units),
           NoBetter(p, q), NoBetter(q, r)
    PROVE  NoBetter(p, r)
<1>1. Len(p) \in Nat /\ Len(q) \in Nat /\ Len(r) \in Nat
  OBVIOUS
<1>2. CASE Len(q) < Len(p) \/ Len(r) < Len(q)
  BY <1>1, <1>2 DEF NoBetter
<1>3. CASE Len(p) = Len(q) /\ Len(q) = Len(r)
  <2>1. (q = p \/ PathBefore(q, p)) /\ (r = q \/ PathBefore(r, q))
    BY <1>1, <1>3 DEF NoBetter
  <2>2. r = p \/ PathBefore(r, p)
    BY <1>3, <2>1, PathBeforeGoesOn
  <2>3. QED
    BY <1>3, <2>2 DEF NoBetter
<1>4. QED
  BY <1>1, <1>2, <1>3 DEF NoBetter

\* and of two paths one is as good as the other.
LEMMA NoBetterIsTotal ==
    ASSUME NEW p \in Seq(Units), NEW q \in Seq(Units), ~NoBetter(p, q)
    PROVE  NoBetter(q, p)
<1>1. Len(p) \in Nat /\ Len(q) \in Nat
  OBVIOUS
<1>2. CASE Len(p) = Len(q)
  <2>1. p # q /\ ~PathBefore(q, p)
    BY <1>2 DEF NoBetter
  <2>2. PathBefore(p, q)
    BY <1>2, <2>1, PathsAreOrdered
  <2>3. QED
    BY <1>2, <2>2 DEF NoBetter
<1>3. QED
  BY <1>1, <1>2 DEF NoBetter

\* A path is no better for going on in the same way.
LEMMA NoBetterFurther ==
    ASSUME NEW p \in Seq(Units), NEW q \in Seq(Units), NoBetter(p, q), NEW v \in Units
    PROVE  NoBetter(Append(p, v), Append(q, v))
<1> DEFINE P == Append(p, v)
           Q == Append(q, v)
<1>1. /\ Len(p) \in Nat /\ Len(q) \in Nat /\ Len(P) = Len(p) + 1 /\ Len(Q) = Len(q) + 1
      /\ DOMAIN q = 1..Len(q) /\ DOMAIN Q = 1..(Len(q) + 1)
      /\ \A i \in 1..Len(p) : P[i] = p[i]
      /\ \A i \in 1..Len(q) : Q[i] = q[i]
  OBVIOUS
<1>2. CASE Len(q) < Len(p)
  BY <1>1, <1>2 DEF NoBetter
<1>3. CASE Len(q) = Len(p) /\ PathBefore(q, p)
  <2>1. PICK i \in 1..Len(q) : q[i] < p[i] /\ \A j \in 1..(i - 1) : q[j] = p[j]
    BY <1>1, <1>3 DEF PathBefore
  <2> HIDE DEF P, Q
  <2>2. i \in DOMAIN Q /\ Q[i] < P[i]
    BY <1>1, <1>3, <2>1
  <2>3. \A j \in 1..(i - 1) : Q[j] = P[j]
    BY <1>1, <1>3, <2>1
  <2>4. PathBefore(Q, P)
    BY <2>2, <2>3 DEF PathBefore
  <2>5. QED
    BY <1>1, <1>3, <2>4 DEF NoBetter, P, Q
<1>4. CASE p = q
  BY <1>4 DEF NoBetter
<1>5. QED
  BY <1>2, <1>3, <1>4 DEF NoBetter

-----------------------------------------------------------------------------
(* The steps of the trace *)

\* A sequence holds its first and the rest.
LEMMA HeadAndTail ==
    ASSUME NEW S, NEW s \in Seq(S), s # <<>>
    PROVE  /\ Head(s) \in S /\ Tail(s) \in Seq(S)
           /\ ToSet(s) = {Head(s)} \cup ToSet(Tail(s))
<1> DEFINE n == Len(s)
           t == Tail(s)
<1>1. /\ n \in Nat /\ n >= 1 /\ DOMAIN s = 1..n /\ Head(s) = s[1] /\ Head(s) \in S
      /\ t \in Seq(S) /\ DOMAIN t = 1..(n - 1)
      /\ \A i \in 1..(n - 1) : t[i] = s[i + 1]
  OBVIOUS
<1>2. ToSet(s) = {s[i] : i \in 1..n} /\ ToSet(t) = {t[i] : i \in 1..(n - 1)}
  BY <1>1 DEF ToSet
<1> HIDE DEF n, t
<1>3. \A i \in 1..n : i = 1 \/ (i - 1 \in 1..(n - 1) /\ s[i] = t[i - 1])
  BY <1>1
<1>4. \A i \in 1..(n - 1) : i + 1 \in 1..n
  BY <1>1
<1>5. ToSet(s) \subseteq {Head(s)} \cup ToSet(t)
  BY <1>1, <1>2, <1>3
<1>6. {Head(s)} \cup ToSet(t) \subseteq ToSet(s)
  BY <1>1, <1>2, <1>4
<1>7. QED
  BY <1>1, <1>5, <1>6 DEF t

\* And two of them, one after the other, what both hold.
LEMMA ConcatSet ==
    ASSUME NEW S, NEW s \in Seq(S), NEW t \in Seq(S)
    PROVE  s \o t \in Seq(S) /\ ToSet(s \o t) = ToSet(s) \cup ToSet(t)
<1> DEFINE n == Len(s)
           m == Len(t)
           r == s \o t
<1>1. /\ n \in Nat /\ m \in Nat /\ DOMAIN s = 1..n /\ DOMAIN t = 1..m
      /\ r \in Seq(S) /\ DOMAIN r = 1..(n + m)
      /\ \A i \in 1..(n + m) : r[i] = IF i <= n THEN s[i] ELSE t[i - n]
  OBVIOUS
<1>2. /\ ToSet(s) = {s[i] : i \in 1..n} /\ ToSet(t) = {t[i] : i \in 1..m}
      /\ ToSet(r) = {r[i] : i \in 1..(n + m)}
  BY <1>1 DEF ToSet
<1> HIDE DEF n, m, r
<1>3. \A i \in 1..(n + m) : (i \in 1..n /\ r[i] = s[i]) \/ (i - n \in 1..m /\ r[i] = t[i - n])
  BY <1>1
<1>4. \A i \in 1..n : i \in 1..(n + m) /\ r[i] = s[i]
  BY <1>1
<1>5. \A i \in 1..m : n + i \in 1..(n + m) /\ r[n + i] = t[i]
  <2> SUFFICES ASSUME NEW i \in 1..m PROVE n + i \in 1..(n + m) /\ r[n + i] = t[i]
    OBVIOUS
  <2>1. n + i \in 1..(n + m) /\ ~(n + i <= n) /\ (n + i) - n = i
    BY <1>1
  <2>2. r[n + i] = t[(n + i) - n]
    BY <1>1, <2>1
  <2>3. QED
    BY <2>1, <2>2
<1>6. ToSet(r) \subseteq ToSet(s) \cup ToSet(t)
  BY <1>2, <1>3
<1>7. ToSet(s) \cup ToSet(t) \subseteq ToSet(r)
  BY <1>2, <1>4, <1>5
<1>8. QED
  BY <1>1, <1>6, <1>7 DEF r

\* A path is extended by each unit that depends on its last and is not on it.
LEMMA ExtensionsAreAll ==
    ASSUME NEW p \in Seq(Units)
    PROVE  /\ Extensions(p) \in Seq(Seq(Units))
           /\ ToSet(Extensions(p)) =
                {Append(p, v) : v \in {u \in Units : Last(p) \in deps[u]} \ ToSet(p)}
<1> DEFINE S == {u \in Units : Last(p) \in deps[u]} \ ToSet(p)
           next == Sorted(S)
<1>1. next \in Seq(Units) /\ ToSet(next) = S
  BY SortedIsSet
<1>2. Extensions(p) = [i \in DOMAIN next |-> Append(p, next[i])]
  BY DEF Extensions
<1> HIDE DEF next, S
<1>3. DOMAIN next = 1..Len(next) /\ Len(next) \in Nat /\ \A i \in DOMAIN next : next[i] \in Units
  BY <1>1
<1>4. \A i \in DOMAIN next : Append(p, next[i]) \in Seq(Units)
  BY <1>3
<1>5. Extensions(p) \in Seq(Seq(Units)) /\ DOMAIN Extensions(p) = DOMAIN next
  BY <1>2, <1>3, <1>4
<1>6. ToSet(Extensions(p)) = {Append(p, v) : v \in ToSet(next)}
  BY <1>2, <1>5 DEF ToSet
<1>7. QED
  BY <1>1, <1>5, <1>6 DEF S

\* A path that goes on to a unit that depends on its last.
LEMMA TraceFurther ==
    ASSUME NEW plan \in Plans, NEW p, Trace(plan, p), NEW v \in Units, Last(p) \in plan[v]
    PROVE  /\ Trace(plan, Append(p, v))
           /\ Last(Append(p, v)) = v /\ Append(p, v)[1] = p[1]
           /\ Len(Append(p, v)) = Len(p) + 1
           /\ \A k \in 1..Len(p) : Append(p, v)[k] = p[k]
<1> DEFINE q == Append(p, v)
           n == Len(p)
<1>1. p \in Seq(Units) /\ n \in Nat /\ n >= 1 /\ Last(p) = p[n]
  BY DEF Trace, Last
<1>2. /\ q \in Seq(Units) /\ q # <<>> /\ Len(q) = n + 1 /\ q[n + 1] = v
      /\ \A k \in 1..n : q[k] = p[k]
  BY <1>1
<1> HIDE DEF q
<1>3. ASSUME NEW i \in 2..(n + 1)
      PROVE  q[i - 1] \in plan[q[i]]
  <2>1. CASE i = n + 1
    BY <1>1, <1>2, <2>1
  <2>2. CASE i \in 2..n
    <3>1. p[i - 1] \in plan[p[i]]
      BY <2>2 DEF Trace
    <3>2. QED
      BY <1>1, <1>2, <2>2, <3>1
  <2>3. QED
    BY <1>1, <2>1, <2>2
<1>4. Last(q) = v /\ q[1] = p[1]
  BY <1>1, <1>2 DEF Last
<1>5. Trace(plan, q)
  BY <1>2, <1>3 DEF Trace
<1>6. QED
  BY <1>2, <1>4, <1>5 DEF q

\* Facts about the paths on record.
LEMMA TraceFacts ==
    ASSUME NEW plan, NEW p, Trace(plan, p)
    PROVE  /\ p \in Seq(Units) /\ Len(p) \in Nat /\ Len(p) >= 1 /\ Last(p) = p[Len(p)]
           /\ Last(p) \in Units /\ p[1] \in Units
           /\ Len(p) = 1 => p = <<Last(p)>>
<1>1. p \in Seq(Units) /\ p # <<>>
  BY DEF Trace
<1>2. Len(p) \in Nat /\ Len(p) >= 1 /\ p[Len(p)] \in Units /\ p[1] \in Units
  BY <1>1
<1>3. Last(p) = p[Len(p)]
  BY DEF Last
<1>4. Len(p) = 1 => p = <<p[1]>>
  BY <1>1
<1>5. QED
  BY <1>1, <1>2, <1>3, <1>4

\* What a path found says of its units stays true when witnesses only get shorter.
LEMMA WitnessedStays ==
    ASSUME NEW p, NEW n \in Nat, WitnessedBefore(p, n),
           \A u \in DOMAIN witness :
              /\ u \in DOMAIN witness'
              /\ Len(witness'[u]) \in Nat /\ Len(witness[u]) \in Nat
              /\ Len(witness'[u]) <= Len(witness[u])
    PROVE  WitnessedBefore(p, n)'
BY DEF WitnessedBefore

\* The trace of the next target begins.
LEMMA NextRootKeeps ==
    ASSUME TraceInv, deps \in Plans, NextRoot
    PROVE  TraceInv'
<1> DEFINE r == Head(roots)
<1>1. /\ queue = <<>> /\ roots # <<>> /\ queue' = <<<<r>>>> /\ roots' = Tail(roots)
      /\ witness' = witness /\ deps' = deps
  BY DEF NextRoot, vars
<1>2. r \in Units /\ Tail(roots) \in Seq(Units)
  BY <1>1, HeadAndTail DEF TraceInv
<1>3. ToSet(queue) = {} /\ ToSet(queue') = {<<r>>} /\ queue' \in Seq(Seq(Units))
  BY <1>1, <1>2 DEF ToSet
<1> HIDE DEF r
<1>4. Begun \subseteq Begun' /\ r \in Begun'
  BY <1>1, <1>2, <1>3 DEF Begun
<1>5. Trace(deps, <<r>>) /\ <<r>>[1] = r /\ Len(<<r>>) = 1
  BY <1>2 DEF Trace
<1>6. ASSUME NEW u \in DOMAIN witness
      PROVE  /\ Trace(deps, witness[u]) /\ Last(witness[u]) = u /\ witness[u][1] \in Begun'
             /\ WitnessedBefore(witness[u], Len(witness[u]))'
  BY <1>1, <1>4 DEF TraceInv, WitnessedBefore
<1>7. FollowedInv'
  BY <1>1, <1>3 DEF TraceInv, FollowedInv
<1>8. \A p \in ToSet(queue') : Trace(deps', p) /\ p[1] \in Begun' /\ WitnessedBefore(p, Len(p))'
  <2> SUFFICES ASSUME NEW p, p = <<r>>
               PROVE  Trace(deps', p) /\ p[1] \in Begun' /\ WitnessedBefore(p, Len(p))'
    BY <1>3
  <2>1. WitnessedBefore(p, Len(p))'
    BY <1>5 DEF WitnessedBefore
  <2>2. QED
    BY <1>1, <1>4, <1>5, <2>1
<1>9. ASSUME NEW u \in DOMAIN witness'
       PROVE  /\ Trace(deps', witness'[u]) /\ Last(witness'[u]) = u /\ witness'[u][1] \in Begun'
              /\ WitnessedBefore(witness[u], Len(witness[u]))'
  BY <1>1, <1>6 DEF WitnessedBefore
<1>10. QED
  BY <1>1, <1>2, <1>3, <1>7, <1>8, <1>9 DEF TraceInv

\* A path that is no better than the witness of its last unit is dropped.
LEMMA DropKeeps ==
    ASSUME TraceInv, deps \in Plans, queue # <<>>,
           LET p == Head(queue)
           IN Last(p) \in DOMAIN witness /\ NoBetter(p, witness[Last(p)]),
           queue' = Tail(queue), UNCHANGED <<deps, roots, witness>>
    PROVE  TraceInv'
<1> DEFINE p == Head(queue)
           u == Last(p)
<1>1. /\ p \in ToSet(queue) /\ ToSet(queue) = {p} \cup ToSet(queue')
      /\ queue' \in Seq(Seq(Units))
  BY HeadAndTail DEF TraceInv
<1>2. /\ u \in DOMAIN witness /\ NoBetter(p, witness[u])
      /\ Trace(deps, p) /\ Trace(deps, witness[u]) /\ Last(witness[u]) = u
  BY <1>1 DEF TraceInv
<1>3. /\ Len(p) \in Nat /\ Len(witness[u]) \in Nat /\ Len(witness[u]) >= 1
      /\ Len(witness[u]) = 1 => witness[u] = <<u>>
  BY <1>2, TraceFacts
<1>4. UNCHANGED <<deps, roots, witness>>
  OBVIOUS
<1> HIDE DEF p
<1>5. Begun \subseteq Begun'
  <2> SUFFICES ASSUME NEW v \in Units, <<v>> = p PROVE witness[v] = <<v>> /\ v \in DOMAIN witness
    BY <1>1, <1>4 DEF Begun
  <2>1. Len(p) = 1 /\ u = v
    BY DEF Last
  <2>2. Len(witness[u]) = 1
    BY <1>2, <1>3, <2>1 DEF NoBetter
  <2>3. QED
    BY <1>2, <1>3, <2>1, <2>2
<1>6. FollowedInv'
  <2> SUFFICES ASSUME NEW a \in DOMAIN witness, NEW v \in Units, a \in deps[v],
                      Append(witness[a], v) \notin ToSet(queue')
               PROVE  v \in DOMAIN witness /\ NoBetter(Append(witness[a], v), witness[v])
    BY <1>4 DEF FollowedInv
  <2>1. \/ v \in DOMAIN witness /\ NoBetter(Append(witness[a], v), witness[v])
        \/ Append(witness[a], v) = p
    BY <1>1 DEF TraceInv, FollowedInv
  <2>2. CASE Append(witness[a], v) = p
    <3>1. Trace(deps, witness[a]) /\ Last(witness[a]) = a
      BY DEF TraceInv
    <3>2. Last(Append(witness[a], v)) = v
      BY <3>1, TraceFurther
    <3>3. QED
      BY <1>2, <2>2, <3>2
  <2>3. QED
    BY <2>1, <2>2
<1>7. ASSUME NEW q \in ToSet(queue')
      PROVE  Trace(deps, q) /\ q[1] \in Begun' /\ WitnessedBefore(q, Len(q))'
  BY <1>1, <1>4, <1>5 DEF TraceInv, WitnessedBefore
<1>8. ASSUME NEW v \in DOMAIN witness
      PROVE  /\ Trace(deps, witness[v]) /\ Last(witness[v]) = v /\ witness[v][1] \in Begun'
             /\ WitnessedBefore(witness[v], Len(witness[v]))'
  BY <1>4, <1>5 DEF TraceInv, WitnessedBefore
<1>9. ASSUME NEW v \in DOMAIN witness'
      PROVE  /\ Trace(deps', witness'[v]) /\ Last(witness'[v]) = v /\ witness'[v][1] \in Begun'
             /\ WitnessedBefore(witness[v], Len(witness[v]))'
  BY <1>4, <1>8 DEF WitnessedBefore
<1>10. QED
  BY <1>1, <1>4, <1>6, <1>7, <1>9 DEF TraceInv

\* A better path becomes the witness of its last unit, and is followed.
LEMMA TakeKeeps ==
    ASSUME TraceInv, deps \in Plans, queue # <<>>,
           LET p == Head(queue)
               u == Last(p)
           IN /\ ~(u \in DOMAIN witness /\ NoBetter(p, witness[u]))
              /\ queue' = Tail(queue) \o Extensions(p)
              /\ witness' = [v \in DOMAIN witness \cup {u} |-> IF v = u THEN p ELSE witness[v]],
           UNCHANGED <<deps, roots>>
    PROVE  TraceInv'
<1>0. PICK p : p = Head(queue)
  OBVIOUS
<1> DEFINE u == Last(p)
           n == Len(p)
           New == {Append(p, v) : v \in {w \in Units : u \in deps[w]} \ ToSet(p)}
<1>1. /\ p \in ToSet(queue) /\ p \in Seq(Units)
      /\ ToSet(queue) = {p} \cup ToSet(Tail(queue)) /\ Tail(queue) \in Seq(Seq(Units))
  BY <1>0, HeadAndTail DEF TraceInv
<1>2. queue' \in Seq(Seq(Units)) /\ ToSet(queue') = ToSet(Tail(queue)) \cup New
  <2>1. Extensions(p) \in Seq(Seq(Units)) /\ ToSet(Extensions(p)) = New
    BY <1>1, ExtensionsAreAll
  <2>2. queue' = Tail(queue) \o Extensions(p)
    BY <1>0
  <2> HIDE DEF New
  <2>3. PICK s, t, Paths : s = Tail(queue) /\ t = Extensions(p) /\ Paths = Seq(Units)
    OBVIOUS
  <2>4. s \in Seq(Paths) /\ t \in Seq(Paths) /\ queue' = s \o t
    BY <1>1, <2>1, <2>2, <2>3
  <2>5. s \o t \in Seq(Paths) /\ ToSet(s \o t) = ToSet(s) \cup ToSet(t)
    BY ONLY <2>4, ConcatSet
  <2>6. QED
    BY <2>1, <2>3, <2>4, <2>5
<1>3. Trace(deps, p) /\ p[1] \in Begun /\ WitnessedBefore(p, n)
  BY <1>1 DEF TraceInv
<1>4. /\ n \in Nat /\ n >= 1 /\ u = p[n] /\ u \in Units
      /\ n = 1 => p = <<u>>
  BY <1>3, TraceFacts
<1>5. /\ DOMAIN witness' = DOMAIN witness \cup {u} /\ witness'[u] = p
      /\ \A v \in DOMAIN witness : v # u => witness'[v] = witness[v]
  BY <1>0
<1>6. \A v \in DOMAIN witness : /\ Trace(deps, witness[v]) /\ Last(witness[v]) = v
                                /\ witness[v] \in Seq(Units)
                                /\ Len(witness[v]) \in Nat /\ Len(witness[v]) >= 1
                                /\ witness[v][1] \in Begun
                                /\ WitnessedBefore(witness[v], Len(witness[v]))
  BY TraceFacts DEF TraceInv
<1>7. u \in DOMAIN witness => ~NoBetter(p, witness[u])
  BY <1>0
<1>8. UNCHANGED <<deps, roots>>
  OBVIOUS
<1>9. roots \in Seq(Units) /\ DOMAIN witness \subseteq Units
  BY DEF TraceInv
<1> HIDE DEF u, n
<1>10. u \in DOMAIN witness => n <= Len(witness[u])
  BY <1>4, <1>6, <1>7 DEF NoBetter, n
<1>11. \A v \in DOMAIN witness :
          /\ v \in DOMAIN witness'
          /\ Len(witness'[v]) \in Nat /\ Len(witness[v]) \in Nat
          /\ Len(witness'[v]) <= Len(witness[v])
  BY <1>4, <1>5, <1>6, <1>10 DEF n
<1>12. Begun \subseteq Begun'
  <2> SUFFICES ASSUME NEW v \in Begun
               PROVE  \/ <<v>> \in ToSet(queue')
                      \/ v \in DOMAIN witness' /\ witness'[v] = <<v>>
    BY DEF Begun
  <2>1. CASE <<v>> \in ToSet(Tail(queue))
    BY <1>2, <2>1
  <2>2. CASE <<v>> = p
    <3>1. v = u
      BY <1>4, <2>2 DEF u, Last
    <3>2. QED
      BY <1>5, <2>2, <3>1
  <2>3. CASE v \in DOMAIN witness /\ witness[v] = <<v>>
    <3>1. v = u => n = 1
      <4>1. Len(<<v>>) = 1
        OBVIOUS
      <4>2. v = u => n <= 1
        BY <1>10, <2>3, <4>1
      <4>3. QED
        BY <1>4, <4>2
    <3>2. QED
      BY <1>4, <1>5, <2>3, <3>1
  <2>4. QED
    BY <1>1, <2>1, <2>2, <2>3 DEF Begun
<1>13. WitnessedBefore(p, n)'
  BY <1>3, <1>4, <1>11, WitnessedStays
<1>14. \A v \in ToSet(p) : v \in DOMAIN witness' /\ Len(witness'[v]) <= n
  <2> SUFFICES ASSUME NEW k \in 1..n PROVE p[k] \in DOMAIN witness' /\ Len(witness'[p[k]]) <= n
    <3>1. DOMAIN p = 1..n
      BY <1>1 DEF n
    <3>2. QED
      BY <3>1 DEF ToSet
  <2>1. CASE k = n
    BY <1>4, <1>5, <2>1 DEF n
  <2>2. CASE k \in 1..(n - 1)
    <3>1. p[k] \in DOMAIN witness /\ Len(witness[p[k]]) <= k
      BY <1>3, <2>2 DEF WitnessedBefore
    <3>2. QED
      BY <1>4, <1>11, <2>2, <3>1
  <2>3. QED
    BY <1>4, <2>1, <2>2
<1>15. ASSUME NEW q \in ToSet(queue')
       PROVE  Trace(deps, q) /\ q[1] \in Begun' /\ WitnessedBefore(q, Len(q))'
  <2>1. CASE q \in ToSet(Tail(queue))
    <3>1. Trace(deps, q) /\ q[1] \in Begun /\ WitnessedBefore(q, Len(q))
      BY <1>1, <2>1 DEF TraceInv
    <3>2. Len(q) \in Nat
      BY <3>1, TraceFacts
    <3>3. WitnessedBefore(q, Len(q))'
      BY <1>11, <3>1, <3>2, WitnessedStays
    <3>4. QED
      BY <1>12, <3>1, <3>3
  <2>2. CASE q \in New
    <3>1. PICK v \in Units : u \in deps[v] /\ q = Append(p, v)
      BY <2>2
    <3>2. /\ Trace(deps, q) /\ q[1] = p[1] /\ Len(q) = n + 1
          /\ \A k \in 1..n : q[k] = p[k]
      BY <1>3, <3>1, TraceFurther DEF u, n
    <3>3. ASSUME NEW k \in 1..n
          PROVE  q[k] \in DOMAIN witness' /\ Len(witness'[q[k]]) <= k
      <4>1. CASE k = n
        BY <1>4, <1>5, <3>2, <4>1 DEF n
      <4>2. CASE k \in 1..(n - 1)
        <5>1. q[k] = p[k]
          BY <1>4, <3>2, <4>2
        <5>2. QED
          BY <1>13, <4>2, <5>1 DEF WitnessedBefore
      <4>3. QED
        BY <1>4, <4>1, <4>2
    <3>4. WitnessedBefore(q, Len(q))'
      <4>1. Len(q) - 1 = n
        BY <1>4, <3>2
      <4>2. QED
        BY <3>3, <4>1 DEF WitnessedBefore
    <3>5. QED
      BY <1>3, <1>12, <3>2, <3>4
  <2>3. QED
    BY <1>2, <2>1, <2>2
<1>16. ASSUME NEW v \in DOMAIN witness'
       PROVE  /\ Trace(deps', witness'[v]) /\ Last(witness'[v]) = v /\ witness'[v][1] \in Begun'
              /\ WitnessedBefore(witness[v], Len(witness[v]))'
  <2>1. CASE v = u
    <3>1. Trace(deps', p) /\ Last(p) = u /\ p[1] \in Begun'
      BY <1>3, <1>8, <1>12 DEF u
    <3>2. WitnessedBefore(witness[v], Len(witness[v]))'
      BY <1>5, <1>13, <2>1 DEF WitnessedBefore, n
    <3>3. QED
      BY <1>5, <2>1, <3>1, <3>2
  <2>2. CASE v \in DOMAIN witness /\ v # u
    <3> DEFINE q == witness[v]
    <3>1. /\ Trace(deps, q) /\ Last(q) = v /\ q[1] \in Begun
          /\ WitnessedBefore(q, Len(q)) /\ Len(q) \in Nat /\ witness'[v] = q
      BY <1>5, <1>6, <2>2
    <3>2. PICK r : r = q
      OBVIOUS
    <3>3. WitnessedBefore(r, Len(r))'
      BY <1>11, <3>1, <3>2, WitnessedStays
    <3>4. WitnessedBefore(witness[v], Len(witness[v]))'
      BY <3>1, <3>2, <3>3 DEF WitnessedBefore
    <3>5. QED
      BY <1>8, <1>12, <3>1, <3>4
  <2>3. QED
    BY <1>5, <2>1, <2>2
<1>17. FollowedInv'
  <2> SUFFICES ASSUME NEW a \in DOMAIN witness', NEW v \in Units, a \in deps[v],
                      Append(witness'[a], v) \notin ToSet(queue')
               PROVE  v \in DOMAIN witness' /\ NoBetter(Append(witness'[a], v), witness'[v])
    BY <1>8 DEF FollowedInv
  <2>1. CASE a = u
    <3>1. witness'[a] = p
      BY <1>5, <2>1
    <3>2. v \in ToSet(p)
      BY <1>2, <2>1, <3>1
    <3>3. v \in DOMAIN witness' /\ Len(witness'[v]) <= n
      BY <1>14, <3>2
    <3>4. Len(Append(p, v)) = n + 1
      BY <1>1 DEF n
    <3>5. Len(witness'[v]) \in Nat
      BY <1>4, <1>5, <1>11, <3>3 DEF n
    <3>6. QED
      BY <1>4, <3>1, <3>3, <3>4, <3>5 DEF NoBetter
  <2>2. CASE a # u
    <3> DEFINE q == Append(witness[a], v)
    <3>1. a \in DOMAIN witness /\ witness'[a] = witness[a] /\ q \notin ToSet(Tail(queue))
      BY <1>2, <1>5, <2>2
    <3>2. q \in Seq(Units) /\ Last(q) = v
      BY <1>6, <3>1, TraceFurther
    <3>3. \/ v \in DOMAIN witness /\ NoBetter(q, witness[v])
          \/ q = p
      BY <1>1, <3>1 DEF TraceInv, FollowedInv
    <3> HIDE DEF q
    <3>4. CASE q = p
      <4>1. v = u
        BY <3>2, <3>4 DEF u
      <4>2. NoBetter(q, p)
        BY <3>4 DEF NoBetter
      <4>3. QED
        BY <1>5, <3>1, <4>1, <4>2 DEF q
    <3>5. CASE v \in DOMAIN witness /\ NoBetter(q, witness[v])
      <4>1. CASE v = u
        <5>1. NoBetter(witness[u], p)
          BY <1>1, <1>6, <1>7, <3>5, <4>1, NoBetterIsTotal
        <5>2. NoBetter(q, p)
          BY <1>1, <1>6, <3>2, <3>5, <4>1, <5>1, NoBetterGoesOn
        <5>3. QED
          BY <1>5, <3>1, <4>1, <5>2 DEF q
      <4>2. CASE v # u
        BY <1>5, <3>1, <3>5, <4>2 DEF q
      <4>3. QED
        BY <4>1, <4>2
    <3>6. QED
      BY <3>3, <3>4, <3>5
  <2>3. QED
    BY <2>1, <2>2
<1>18. DOMAIN witness' \subseteq Units
  BY <1>4, <1>5, <1>9
<1>19. QED
  BY <1>2, <1>8, <1>9, <1>15, <1>16, <1>17, <1>18 DEF TraceInv

-----------------------------------------------------------------------------
(* The traced impact *)

\* With nothing left to visit, the affected units are all that depend on a target.
LEMMA AffectedAreConsequences ==
    ASSUME TraceInv, deps \in Plans, queue = <<>>, NEW targets,
           targets = {u \in Affected : witness[u] = <<u>>}
    PROVE  IsConsequenceOf(deps, Affected, targets)
<1>1. ToSet(queue) = {} /\ Affected \subseteq Units
  BY DEF ToSet, TraceInv, Affected
<1>2. Begun = targets
  BY <1>1 DEF Begun, Affected
<1>3. ClosedUnderDependants(deps, Affected)
  BY <1>1 DEF TraceInv, FollowedInv, ClosedUnderDependants, Affected
<1>4. ASSUME NEW T \in SUBSET Units, targets \subseteq T, ClosedUnderDependants(deps, T),
             NEW u \in Affected
      PROVE  u \in T
  <2> DEFINE w == witness[u]
             S == {k \in Nat : k \in 1..Len(w) => w[k] \in T}
  <2>1. Trace(deps, w) /\ Last(w) = u /\ w[1] \in targets
    BY <1>2 DEF TraceInv, Affected
  <2>2. w \in Seq(Units) /\ Len(w) \in Nat /\ Len(w) >= 1 /\ Last(w) = w[Len(w)]
    BY <2>1, TraceFacts
  <2> HIDE DEF w
  <2>3. 0 \in S
    OBVIOUS
  <2>4. ASSUME NEW k \in Nat, k \in S
        PROVE  k + 1 \in S
    <3> SUFFICES ASSUME k + 1 \in 1..Len(w) PROVE w[k + 1] \in T
      OBVIOUS
    <3>1. CASE k = 0
      BY <1>4, <2>1, <3>1
    <3>2. CASE k # 0
      <4>1. k \in 1..Len(w) /\ k + 1 \in 2..Len(w) /\ w[k + 1] \in Units
        BY <2>2, <3>2
      <4>2. w[k] \in T
        BY <2>4, <4>1
      <4>3. w[(k + 1) - 1] \in deps[w[k + 1]]
        BY <2>1, <4>1 DEF Trace
      <4>4. w[k] \in deps[w[k + 1]]
        BY <4>3
      <4>5. QED
        BY <1>4, <4>1, <4>2, <4>4 DEF ClosedUnderDependants
    <3>3. QED
      BY <3>1, <3>2
  <2>5. Nat \subseteq S
    <3> HIDE DEF S
    <3>1. QED
      BY <2>3, <2>4, AllNumbers
  <2>6. QED
    BY <2>1, <2>2, <2>5
<1>5. QED
  BY <1>3, <1>4 DEF IsConsequenceOf

\* And no path from a target is better than the witness of its last unit.
LEMMA WitnessesAreBest ==
    ASSUME TraceInv, deps \in Plans, queue = <<>>, NEW targets,
           targets = {u \in Affected : witness[u] = <<u>>},
           NEW p \in PathsFrom(targets)
    PROVE  /\ p \in Seq(Units) /\ Last(p) \in Affected
           /\ witness[Last(p)] \in Seq(Units)
           /\ NoBetter(p, witness[Last(p)])
<1>1. PICK n \in 1..Cardinality(Units) : p \in [1..n -> Units]
  BY DEF PathsFrom
<1>2. n \in Nat /\ n >= 1
  BY <1>1, PlansAssumption, FS_CardinalityType
<1>3. p \in Seq(Units) /\ Len(p) = n /\ Last(p) = p[n] /\ p[1] \in targets
      /\ \A i \in 2..n : p[i - 1] \in deps[p[i]]
  <2>1. p \in Seq(Units) /\ Len(p) = n
    BY <1>1, <1>2
  <2>2. p[1] \in targets /\ \A i \in 2..Len(p) : p[i - 1] \in deps[p[i]]
    BY DEF PathsFrom
  <2>3. QED
    BY <2>1, <2>2 DEF Last
<1>4. ToSet(queue) = {} /\ Affected \subseteq Units
      /\ \A u \in Affected : witness[u] \in Seq(Units)
  BY DEF ToSet, TraceInv, Affected, Trace
<1> DEFINE Pre(k) == [i \in 1..k |-> p[i]]
           Good(k) == p[k] \in Affected /\ NoBetter(Pre(k), witness[p[k]])
           S == {k \in Nat : k \in 1..n => Good(k)}
<1>5. \A k \in 1..n : Pre(k) \in Seq(Units) /\ Len(Pre(k)) = k /\ p[k] \in Units
  BY <1>1, <1>2
<1>6. 0 \in S
  OBVIOUS
<1>7. ASSUME NEW k \in Nat, k \in S
      PROVE  k + 1 \in S
  <2> SUFFICES ASSUME k + 1 \in 1..n PROVE Good(k + 1)
    OBVIOUS
  <2>1. CASE k = 0
    <3>1. p[1] \in Affected /\ witness[p[1]] = <<p[1]>>
      BY <1>3
    <3>2. Pre(1) = <<p[1]>>
      BY <1>1
    <3>3. NoBetter(Pre(1), witness[p[1]])
      BY <3>1, <3>2 DEF NoBetter
    <3>4. QED
      BY <2>1, <3>1, <3>3
  <2>2. CASE k # 0
    <3> DEFINE u == p[k]
               v == p[k + 1]
    <3>1. k \in 1..n /\ k + 1 \in 2..n
      BY <1>2, <2>2
    <3>2. u \in Affected /\ NoBetter(Pre(k), witness[u])
      BY <1>7, <3>1
    <3>3. p[(k + 1) - 1] \in deps[p[k + 1]]
      BY <1>3, <3>1
    <3>4. u \in deps[v] /\ v \in Units
      BY <1>5, <3>3
    <3>5. Pre(k + 1) = Append(Pre(k), v) /\ Pre(k) \in Seq(Units) /\ Pre(k + 1) \in Seq(Units)
      <4>1. Pre(k) \in Seq(Units) /\ Len(Pre(k)) = k
        BY <1>5, <3>1
      <4>2. Pre(k + 1) = Append(Pre(k), v)
        BY <4>1
      <4>3. QED
        BY <1>5, <4>1, <4>2
    <3> HIDE DEF u, v, Pre
    <3>6. v \in Affected /\ NoBetter(Append(witness[u], v), witness[v])
      BY <1>4, <3>2, <3>4 DEF TraceInv, FollowedInv, Affected
    <3>7. witness[u] \in Seq(Units) /\ witness[v] \in Seq(Units)
      BY <1>4, <3>2, <3>6
    <3>8. NoBetter(Append(Pre(k), v), Append(witness[u], v))
      BY <3>2, <3>4, <3>5, <3>7, NoBetterFurther
    <3>9. Append(witness[u], v) \in Seq(Units)
      BY <3>4, <3>7
    <3>10. NoBetter(Pre(k + 1), witness[v])
      BY <3>5, <3>6, <3>7, <3>8, <3>9, NoBetterGoesOn
    <3>11. QED
      BY <3>6, <3>10 DEF v
  <2>3. QED
    BY <2>1, <2>2
<1>8. Nat \subseteq S
  <2> HIDE DEF S
  <2>1. QED
    BY <1>6, <1>7, AllNumbers
<1>9. Good(n)
  BY <1>2, <1>8
<1>10. Pre(n) = p
  BY <1>1
<1>11. QED
  BY <1>3, <1>4, <1>9, <1>10

\* Before a rollback nothing is traced.
LEMMA ImpactStarts == RecoveryInit => ImpactInv
BY DEF RecoveryInit, ImpactInv

\* The steps of a recovery, and those of the gate before it.
LEMMA ImpactStep ==
    ASSUME GateInv, RecoveryInv, ImpactInv, [GateAndRecover]_allVars
    PROVE  ImpactInv'
<1>0. deps \in Plans /\ order \in Seq(Units)
  BY DEF GateInv, OrderInv
<1>1. CASE UNCHANGED <<deps, stage, roots, queue, witness>>
  BY <1>1 DEF ImpactInv, TraceInv, FollowedInv, Begun, WitnessedBefore
<1>2. CASE Next /\ UNCHANGED recoveryVars
  <2>1. UNCHANGED <<stage, roots, queue, witness>>
    BY <1>2 DEF recoveryVars
  <2>2. CASE stage = "none"
    BY <2>1, <2>2 DEF ImpactInv
  <2>3. CASE stage # "none"
    <3>1. pc = "done"
      BY <2>3 DEF RecoveryInv
    <3>2. UNCHANGED deps
      BY <1>2, <3>1 DEF Next, Step, RunEnded, Search, DiagnosePlan, OrderNext, OrderComplete,
         Bind, CommitOutsidePlan, CheckAncestry, EvaluateUnit, Decide, Emit, HeadMoved, vars
    <3>3. QED
      BY <1>1, <2>1, <3>2
  <2>4. QED
    BY <2>2, <2>3
<1>3. CASE BeginRollback
  <2>1. /\ stage = "none" /\ stage' = "tracing" /\ UNCHANGED <<deps, queue, witness>>
        /\ \/ roots' = order
           \/ \E targets \in SUBSET Units : roots' = Sorted(targets)
    BY <1>3 DEF BeginRollback, vars
  <2>2. roots' \in Seq(Units)
    BY <1>0, <2>1, SortedIsSet
  <2>3. queue' = <<>> /\ witness' = <<>> /\ queue' \in Seq(Seq(Units))
    BY <2>1 DEF ImpactInv
  <2>4. ToSet(queue') = {} /\ DOMAIN witness' = {}
    BY <2>3 DEF ToSet
  <2>5. TraceInv'
    BY <2>2, <2>3, <2>4 DEF TraceInv, FollowedInv
  <2>6. QED
    BY <2>1, <2>5 DEF ImpactInv
<1>4. CASE NextRoot
  <2>1. stage = "tracing" /\ UNCHANGED stage
    BY <1>4 DEF NextRoot
  <2>2. TraceInv'
    BY <1>0, <1>4, <2>1, NextRootKeeps DEF ImpactInv
  <2>3. QED
    BY <2>1, <2>2 DEF ImpactInv
<1>5. CASE VisitPath
  <2>1. stage = "tracing" /\ UNCHANGED <<stage, deps, roots>> /\ queue # <<>> /\ TraceInv
    BY <1>5 DEF VisitPath, vars, ImpactInv
  <2>2. CASE LET p == Head(queue)
             IN Last(p) \in DOMAIN witness /\ NoBetter(p, witness[Last(p)])
    <3>1. queue' = Tail(queue) /\ UNCHANGED witness
      BY <1>5, <2>2 DEF VisitPath
    <3>2. QED
      BY <1>0, <2>1, <2>2, <3>1, DropKeeps DEF ImpactInv
  <2>3. CASE ~LET p == Head(queue)
              IN Last(p) \in DOMAIN witness /\ NoBetter(p, witness[Last(p)])
    <3>1. LET p == Head(queue)
              u == Last(p)
          IN /\ ~(u \in DOMAIN witness /\ NoBetter(p, witness[u]))
             /\ queue' = Tail(queue) \o Extensions(p)
             /\ witness' = [v \in DOMAIN witness \cup {u} |-> IF v = u THEN p ELSE witness[v]]
      BY <1>5, <2>3 DEF VisitPath
    <3>2. QED
      BY <1>0, <2>1, <3>1, TakeKeeps DEF ImpactInv
  <2>4. QED
    BY <2>2, <2>3
<1>6. CASE stage # "none" /\ stage' \notin {"none", "tracing"}
  BY <1>6 DEF ImpactInv
<1>7. CASE BeginReplacement
  BY <1>7 DEF BeginReplacement, ImpactInv
<1>8. AcceptPlan \/ RefuseProposal \/ JudgeRollback \/ RefuseProjection \/ JudgeReplacement \/ Seal
      => stage # "none" /\ stage' \notin {"none", "tracing"}
  BY DEF AcceptPlan, RefuseProposal, JudgeRollback, RefuseProjection, JudgeReplacement, Seal
<1>9. UNCHANGED allVars => UNCHANGED <<deps, stage, roots, queue, witness>>
  BY DEF allVars, vars, recoveryVars
<1>10. QED
  BY <1>1, <1>2, <1>3, <1>4, <1>5, <1>6, <1>7, <1>8, <1>9 DEF GateAndRecover, Recover

\* In any plan, whatever the order in which the targets are traced, the impact of a
\* rollback is all that depends on them, and its witness for a unit the first, in the
\* order of names, of the shortest paths from any target.
THEOREM ImpactIsFunctionOfTargets == RecoverySpec => []ImpactIsCanonical
<1>1. ASSUME GateInv, ImpactInv PROVE ImpactIsCanonical
  <2> SUFFICES ASSUME stage = "tracing", roots = <<>>, queue = <<>>, NEW targets,
                      targets = {u \in Affected : witness[u] = <<u>>}
               PROVE  /\ IsConsequenceOf(deps, Affected, targets)
                      /\ \A p \in PathsFrom(targets) :
                           LET w == witness[Last(p)]
                           IN Len(w) <= Len(p) /\ (Len(w) = Len(p) => ~PathBefore(p, w))
    BY DEF ImpactIsCanonical
  <2>1. TraceInv /\ deps \in Plans
    BY <1>1 DEF ImpactInv, GateInv, OrderInv
  <2>2. IsConsequenceOf(deps, Affected, targets)
    BY <2>1, AffectedAreConsequences
  <2>3. ASSUME NEW p \in PathsFrom(targets), NEW w, w = witness[Last(p)]
        PROVE  Len(w) <= Len(p) /\ (Len(w) = Len(p) => ~PathBefore(p, w))
    <3>1. p \in Seq(Units) /\ w \in Seq(Units) /\ NoBetter(p, w)
      BY <2>1, <2>3, WitnessesAreBest
    <3>2. Len(p) \in Nat /\ Len(w) \in Nat
      BY <3>1
    <3>3. Len(w) <= Len(p) /\ (Len(w) = Len(p) => w = p \/ PathBefore(w, p))
      BY <3>1, <3>2 DEF NoBetter
    <3>4. QED
      BY <3>1, <3>3, PathBeforeIsStrict
  <2>4. QED
    BY <2>2, <2>3
<1>2. GateInv /\ RecoveryInv /\ ImpactInv /\ [GateAndRecover]_allVars => ImpactInv'
  BY ImpactStep
<1>3. QED
  BY <1>1, <1>2, ImpactStarts, RecoveryInvariant, RecoveryKeepsGate, GateInvariant, PTL
     DEF RecoverySpec

-----------------------------------------------------------------------------
(* The end of the trace *)

\* No unit is twice on a path that the trace has still to visit.
PathsAreSimple ==
    stage = "tracing" =>
        \A p \in ToSet(queue) : \A i, j \in DOMAIN p : p[i] = p[j] => i = j

\* The sequences of at most n units.
PathsUpTo(n) == {p \in Seq(Units) : Len(p) <= n}

\* The paths that would still become a witness.
Candidates ==
    {p \in PathsUpTo(Cardinality(Units)) :
        p # <<>> /\ ~(Last(p) \in DOMAIN witness /\ NoBetter(p, witness[Last(p)]))}

\* Of targets not begun, candidates and paths in the queue, the first number that
\* changes becomes smaller.
TraceMovesOn ==
    /\ {Len(roots), Cardinality(Candidates), Len(queue)} \subseteq Nat
    /\ \/ Len(roots') < Len(roots)
       \/ /\ Len(roots') = Len(roots)
          /\ Cardinality(Candidates') < Cardinality(Candidates)
       \/ /\ Len(roots') = Len(roots) /\ Candidates' = Candidates
          /\ Len(queue') < Len(queue)

\* Each turn of the trace takes away some of what is left to do.
ImpactTraceMovesOn == [][NextRoot \/ VisitPath => TraceMovesOn]_allVars

\* There are finitely many paths up to a length.
LEMMA PathsAreFinite ==
    ASSUME NEW n \in Nat
    PROVE  IsFiniteSet(PathsUpTo(n))
<1> DEFINE W == {m \in Nat : IsFiniteSet(PathsUpTo(m))}
<1>1. 0 \in W
  <2>1. PathsUpTo(0) \subseteq {<<>>}
    BY DEF PathsUpTo
  <2>2. IsFiniteSet({<<>>})
    BY FS_Singleton
  <2>3. QED
    BY <2>1, <2>2, FS_Subset
<1>2. ASSUME NEW m \in Nat, m \in W
      PROVE  m + 1 \in W
  <2> DEFINE L == PathsUpTo(m + 1) \ {<<>>}
             P == PathsUpTo(m) \X Units
             f == [p \in L |-> <<SubSeq(p, 1, Len(p) - 1), p[Len(p)]>>]
  <2>1. ASSUME NEW p \in L
        PROVE  /\ p \in Seq(Units) /\ Len(p) \in Nat /\ Len(p) >= 1 /\ p[Len(p)] \in Units
               /\ SubSeq(p, 1, Len(p) - 1) \in PathsUpTo(m)
               /\ Len(SubSeq(p, 1, Len(p) - 1)) = Len(p) - 1
               /\ \A i \in 1..(Len(p) - 1) : SubSeq(p, 1, Len(p) - 1)[i] = p[i]
    <3>1. p \in Seq(Units) /\ Len(p) \in Nat /\ Len(p) >= 1 /\ Len(p) <= m + 1
      BY DEF PathsUpTo
    <3>2. PICK k : k = Len(p) - 1
      OBVIOUS
    <3>3. k \in Nat /\ k <= Len(p) /\ k + 1 = Len(p) /\ k <= m
      BY <3>1, <3>2
    <3>4. /\ SubSeq(p, 1, k) \in Seq(Units) /\ Len(SubSeq(p, 1, k)) = k
          /\ \A i \in 1..k : SubSeq(p, 1, k)[i] = p[i]
      BY <3>1, <3>3
    <3>5. p[Len(p)] \in Units
      BY <3>1
    <3>6. QED
      BY <3>1, <3>2, <3>3, <3>4, <3>5 DEF PathsUpTo
  <2>2. ASSUME NEW p \in L, NEW q \in L, f[p] = f[q]
        PROVE  p = q
    <3>1. p[Len(p)] = q[Len(q)] /\ SubSeq(p, 1, Len(p) - 1) = SubSeq(q, 1, Len(q) - 1)
      BY <2>2
    <3>2. Len(p) = Len(q)
      BY <2>1, <3>1
    <3>3. \A i \in 1..(Len(p) - 1) : p[i] = q[i]
      BY <2>1, <3>1, <3>2
    <3>4. \A i \in 1..Len(p) : p[i] = q[i]
      BY <2>1, <3>1, <3>2, <3>3
    <3>5. p \in [1..Len(p) -> Units] /\ q \in [1..Len(p) -> Units]
      BY <2>1, <3>2
    <3>6. QED
      BY ONLY <3>4, <3>5
  <2>3. f \in [L -> P]
    BY <2>1
  <2> HIDE DEF f, P, L
  <2>4. f \in Injection(L, P)
    BY <2>2, <2>3 DEF Injection, IsInjective
  <2>5. IsFiniteSet(P)
    BY <1>2, PlansAssumption, FS_Product DEF P
  <2>6. IsFiniteSet(L)
    BY <2>4, <2>5, FS_Injection
  <2>7. IsFiniteSet(L \cup {<<>>})
    BY <2>6, FS_AddElement
  <2>8. PathsUpTo(m + 1) \subseteq L \cup {<<>>}
    BY DEF L
  <2>9. QED
    BY <2>7, <2>8, FS_Subset
<1> HIDE DEF W
<1>3. Nat \subseteq W
  BY <1>1, <1>2, AllNumbers
<1>4. QED
  BY <1>3 DEF W

\* And finitely many candidates.
LEMMA CandidatesAreFinite == IsFiniteSet(Candidates) /\ Cardinality(Candidates) \in Nat
<1>1. Cardinality(Units) \in Nat
  BY PlansAssumption, FS_CardinalityType
<1>2. IsFiniteSet(PathsUpTo(Cardinality(Units)))
  BY <1>1, PathsAreFinite
<1>3. Candidates \in SUBSET PathsUpTo(Cardinality(Units))
  BY DEF Candidates
<1>4. QED
  BY <1>2, <1>3, FS_Subset, FS_CardinalityType

\* A path without repetition is no longer than there are units.
LEMMA SimplePathIsShort ==
    ASSUME NEW p \in Seq(Units), \A i, j \in DOMAIN p : p[i] = p[j] => i = j
    PROVE  p \in PathsUpTo(Cardinality(Units))
<1>1. PICK n \in Nat : n = Len(p)
  OBVIOUS
<1>2. p \in Injection(1..n, Units)
  BY <1>1 DEF Injection, IsInjective
<1>3. Cardinality(1..n) <= Cardinality(Units)
  BY <1>2, PlansAssumption, FS_Injection
<1>4. \A m \in Nat : Cardinality(1..m) = m
  BY FS_Interval
<1>5. QED
  BY <1>1, <1>3, <1>4 DEF PathsUpTo

\* A path that becomes a witness was a candidate, is none any more, and makes none.
LEMMA WitnessIsNoCandidate ==
    ASSUME TraceInv, NEW p \in PathsUpTo(Cardinality(Units)), p # <<>>,
           ~(Last(p) \in DOMAIN witness /\ NoBetter(p, witness[Last(p)])),
           witness' = [v \in DOMAIN witness \cup {Last(p)} |->
                          IF v = Last(p) THEN p ELSE witness[v]]
    PROVE  Cardinality(Candidates') < Cardinality(Candidates)
<1> DEFINE u == Last(p)
<1>1. p \in Candidates /\ p \in Seq(Units)
  BY DEF Candidates, PathsUpTo
<1>2. DOMAIN witness' = DOMAIN witness \cup {u} /\ witness'[u] = p
      /\ \A v \in DOMAIN witness : v # u => witness'[v] = witness[v]
  OBVIOUS
<1>3. \A v \in DOMAIN witness : witness[v] \in Seq(Units)
  BY DEF TraceInv, Trace
<1> HIDE DEF u
<1>4. ASSUME NEW q \in Candidates'
      PROVE  q \in Candidates /\ q # p
  <2>1. /\ q \in PathsUpTo(Cardinality(Units)) /\ q # <<>> /\ q \in Seq(Units)
        /\ ~(Last(q) \in DOMAIN witness' /\ NoBetter(q, witness'[Last(q)]))
    BY <1>4 DEF Candidates, PathsUpTo
  <2>2. CASE Last(q) # u
    BY <1>2, <2>1, <2>2 DEF Candidates, u
  <2>3. CASE Last(q) = u
    <3>1. ~NoBetter(q, p)
      BY <1>2, <2>1, <2>3
    <3>2. q # p
      BY <1>1, <3>1 DEF NoBetter
    <3>3. ASSUME u \in DOMAIN witness, NoBetter(q, witness[u])
          PROVE  FALSE
      <4>1. ~NoBetter(p, witness[u]) /\ witness[u] \in Seq(Units)
        BY <1>3, <3>3 DEF u
      <4>2. NoBetter(witness[u], p)
        BY <1>1, <4>1, NoBetterIsTotal
      <4>3. NoBetter(q, p)
        BY <1>1, <2>1, <3>3, <4>1, <4>2, NoBetterGoesOn
      <4>4. QED
        BY <3>1, <4>3
    <3>4. QED
      BY <2>1, <2>3, <3>2, <3>3 DEF Candidates
  <2>4. QED
    BY <2>2, <2>3
<1>5. Candidates' \in SUBSET (Candidates \ {p})
  BY <1>4
<1>6. IsFiniteSet(Candidates) /\ Cardinality(Candidates) \in Nat
  BY CandidatesAreFinite
<1>7. /\ IsFiniteSet(Candidates \ {p})
      /\ Cardinality(Candidates \ {p}) = Cardinality(Candidates) - 1
  BY <1>1, <1>6, FS_RemoveElement, Zenon
<1>8. Cardinality(Candidates') <= Cardinality(Candidates \ {p})
  BY <1>5, <1>7, FS_Subset
<1>9. Cardinality(Candidates') \in Nat
  BY <1>5, <1>7, FS_Subset, FS_CardinalityType
<1>10. QED
  BY <1>6, <1>7, <1>8, <1>9

\* Each turn of the loops of computeRecoveryImpactV1 leaves less to trace.
LEMMA TraceStepMovesOn ==
    ASSUME ImpactInv, PathsAreSimple, NextRoot \/ VisitPath
    PROVE  TraceMovesOn
<1>1. stage = "tracing" /\ TraceInv
  BY DEF NextRoot, VisitPath, ImpactInv
<1>2. roots \in Seq(Units) /\ queue \in Seq(Seq(Units))
  BY <1>1 DEF TraceInv
<1>3. {Len(roots), Cardinality(Candidates), Len(queue)} \subseteq Nat
  BY <1>2, CandidatesAreFinite
<1>4. CASE NextRoot
  <2>1. Len(roots') < Len(roots)
    BY <1>2, <1>4 DEF NextRoot
  <2>2. QED
    BY <1>3, <2>1 DEF TraceMovesOn
<1>5. CASE VisitPath
  <2>1. PICK p : p = Head(queue)
    OBVIOUS
  <2>2. queue # <<>> /\ roots' = roots
    BY <1>5 DEF VisitPath
  <2>3. p \in ToSet(queue) /\ p \in Seq(Units)
    BY <1>2, <2>1, <2>2, HeadAndTail
  <2>4. p # <<>>
    BY <1>1, <2>3 DEF TraceInv, Trace
  <2>5. p \in PathsUpTo(Cardinality(Units))
    BY <1>1, <2>3, SimplePathIsShort DEF PathsAreSimple
  <2>6. CASE Last(p) \in DOMAIN witness /\ NoBetter(p, witness[Last(p)])
    <3>1. queue' = Tail(queue) /\ witness' = witness
      BY <1>5, <2>1, <2>6 DEF VisitPath
    <3>2. Len(queue') < Len(queue)
      BY <1>2, <2>2, <3>1
    <3>3. Candidates' = Candidates
      BY <3>1 DEF Candidates
    <3>4. QED
      BY <1>3, <2>2, <3>2, <3>3 DEF TraceMovesOn
  <2>7. CASE ~(Last(p) \in DOMAIN witness /\ NoBetter(p, witness[Last(p)]))
    <3>1. witness' = [v \in DOMAIN witness \cup {Last(p)} |->
                         IF v = Last(p) THEN p ELSE witness[v]]
      BY <1>5, <2>1, <2>7 DEF VisitPath
    <3>2. Cardinality(Candidates') < Cardinality(Candidates)
      BY <1>1, <2>4, <2>5, <2>7, <3>1, WitnessIsNoCandidate
    <3>3. QED
      BY <1>3, <2>2, <3>2 DEF TraceMovesOn
  <2>8. QED
    BY <2>6, <2>7
<1>6. QED
  BY <1>4, <1>5

\* A path is extended by units that are not on it.
LEMMA ExtendingKeepsSimple ==
    ASSUME NEW p \in Seq(Units), \A i, j \in DOMAIN p : p[i] = p[j] => i = j,
           NEW q \in ToSet(Extensions(p))
    PROVE  \A i, j \in DOMAIN q : q[i] = q[j] => i = j
<1>1. PICK v \in Units : v \notin ToSet(p) /\ q = Append(p, v)
  BY ExtensionsAreAll
<1> DEFINE n == Len(p)
<1>2. /\ n \in Nat /\ DOMAIN p = 1..n /\ DOMAIN q = 1..(n + 1)
      /\ \A i \in 1..n : q[i] = p[i] /\ q[i] # v
      /\ q[n + 1] = v
  BY <1>1 DEF ToSet
<1> HIDE DEF n
<1>3. ASSUME NEW i \in 1..(n + 1), NEW j \in 1..(n + 1), q[i] = q[j]
      PROVE  i = j
  <2>1. (i \in 1..n \/ i = n + 1) /\ (j \in 1..n \/ j = n + 1)
    BY <1>2
  <2>2. QED
    BY <1>2, <1>3, <2>1
<1>4. QED
  BY <1>2, <1>3

\* The paths in the queue stay simple.
LEMMA SimpleStep ==
    ASSUME ImpactInv, PathsAreSimple, [GateAndRecover]_allVars
    PROVE  PathsAreSimple'
<1>1. CASE UNCHANGED <<stage, queue>>
  BY <1>1 DEF PathsAreSimple
<1>2. CASE BeginRollback \/ BeginReplacement
  <2>1. queue' = <<>> \/ stage' # "tracing"
    BY <1>2 DEF BeginRollback, BeginReplacement, ImpactInv
  <2>2. ToSet(<<>>) = {}
    BY DEF ToSet
  <2>3. QED
    BY <2>1, <2>2 DEF PathsAreSimple
<1>3. CASE NextRoot
  <2>1. PICK r : queue' = <<<<r>>>>
    BY <1>3 DEF NextRoot
  <2>2. ToSet(queue') = {<<r>>}
    BY <2>1 DEF ToSet
  <2>3. \A i, j \in DOMAIN <<r>> : i = j
    OBVIOUS
  <2>4. QED
    BY <2>2, <2>3 DEF PathsAreSimple
<1>4. CASE VisitPath
  <2>1. PICK p : p = Head(queue)
    OBVIOUS
  <2>2. /\ stage = "tracing" /\ queue # <<>> /\ queue \in Seq(Seq(Units))
        /\ queue' = Tail(queue) \/ queue' = Tail(queue) \o Extensions(p)
    BY <1>4, <2>1 DEF VisitPath, ImpactInv, TraceInv
  <2>3. /\ p \in ToSet(queue) /\ ToSet(Tail(queue)) \subseteq ToSet(queue)
        /\ p \in Seq(Units) /\ Tail(queue) \in Seq(Seq(Units))
    BY <2>1, <2>2, HeadAndTail
  <2>4. Extensions(p) \in Seq(Seq(Units))
    BY <2>3, ExtensionsAreAll
  <2>5. PICK s, t, Paths : s = Tail(queue) /\ t = Extensions(p) /\ Paths = Seq(Units)
    OBVIOUS
  <2>6. s \in Seq(Paths) /\ t \in Seq(Paths)
    BY <2>3, <2>4, <2>5
  <2>7. ToSet(s \o t) = ToSet(s) \cup ToSet(t)
    BY ONLY <2>6, ConcatSet
  <2>8. ToSet(queue') \subseteq ToSet(queue) \cup ToSet(Extensions(p))
    BY <2>2, <2>3, <2>5, <2>7
  <2>9. \A q \in ToSet(Extensions(p)) : \A i, j \in DOMAIN q : q[i] = q[j] => i = j
    BY <2>2, <2>3, ExtendingKeepsSimple DEF PathsAreSimple
  <2>10. QED
    BY <2>2, <2>8, <2>9 DEF PathsAreSimple
<1>5. CASE AcceptPlan \/ RefuseProposal \/ JudgeRollback \/ RefuseProjection
              \/ JudgeReplacement \/ Seal
  <2>1. stage' # "tracing"
    BY <1>5 DEF AcceptPlan, RefuseProposal, JudgeRollback, RefuseProjection, JudgeReplacement, Seal
  <2>2. QED
    BY <2>1 DEF PathsAreSimple
<1>6. (Next /\ UNCHANGED recoveryVars) \/ UNCHANGED allVars => UNCHANGED <<stage, queue>>
  BY DEF allVars, recoveryVars
<1>7. QED
  BY <1>1, <1>2, <1>3, <1>4, <1>5, <1>6 DEF GateAndRecover, Recover

\* In any plan, cyclic or not, the trace of an impact cannot go on for ever: a path found
\* is dropped, or becomes the witness of its unit and leaves fewer that could.
THEOREM TraceCannotGoOn == RecoverySpec => ImpactTraceMovesOn
<1>1. RecoveryInit => PathsAreSimple
  BY DEF RecoveryInit, PathsAreSimple
<1>2. GateInv /\ RecoveryInv /\ ImpactInv /\ [GateAndRecover]_allVars => ImpactInv'
  BY ImpactStep
<1>3. ImpactInv /\ PathsAreSimple /\ [GateAndRecover]_allVars =>
        PathsAreSimple' /\ [NextRoot \/ VisitPath => TraceMovesOn]_allVars
  BY SimpleStep, TraceStepMovesOn
<1>4. QED
  BY <1>1, <1>2, <1>3, ImpactStarts, RecoveryInvariant, RecoveryKeepsGate, GateInvariant, PTL
     DEF RecoverySpec, ImpactTraceMovesOn
=============================================================================
