-------------------------- MODULE LinearPlanProofs --------------------------
(***************************************************************************)
(* Theorems about LinearPlan for any units, dependencies, claims and       *)
(* blueprints, and any number of mishaps: what a replacement preserves was *)
(* judged valid, a pass is earned by the history, and it is final.         *)
(*                                                                         *)
(* An answer outlives the state it was given in, so the invariant says of  *)
(* every answer what is true at the commit it was given for, as long as    *)
(* that commit is in the history.  It stays true because a commit is never *)
(* changed: whatever the developer does keeps the commits up to some place *)
(* and gives new identities to those above it (Kept).  PlanInv says this   *)
(* of the commits and the files, and FinalInv of the evidence.             *)
(***************************************************************************)
EXTENDS LinearPlan, NumberFacts

Files == [policy : {None, Torn, 1, 2},
          plans : [Plans -> PlanFiles \cup {None, Torn}],
          replans : [Plans -> ReplanFiles \cup {None, Torn}]]

Commits == [id : Nat, tree : Files, trailers : Seq(Unit),
            patch : {None} \cup (Unit \X Nat),
            flaw : {"none", "source", "stray", "merge"}, blueprint : Blueprints]

Jobs == [at : {"policy", "plan", "replan"}, plan : Plans, policy : {1, 2},
         content : PlanFiles, replan : ReplanFiles \cup {None}]

TypeOK ==
    /\ history \in Seq(Commits) /\ commits \in Nat
    /\ tree \in Files
    /\ job \in Jobs \cup {Idle}

\* Later commits have greater identities.
IdsInv ==
    /\ \A i \in 1..Len0 : history[i].id \in 1..commits
    /\ \A i, j \in 1..Len0 : i < j => history[i].id < history[j].id

\* A commit of foreign sources names no unit.
SourcesInv == \A i \in 1..Len0 : history[i].flaw = "source" => history[i].trailers = <<>>

Answered(replan, base) ==
    \E a \in answers : a.plan = replan.source /\ a.head = base /\ a.invalid = replan.invalid

\* A replacement's plan was there before it, and its source had the answer it says.
Coherent(files) ==
    \A p \in Plans : Readable(files.replans[p]) =>
        Readable(files.plans[p]) /\ Answered(files.replans[p], files.plans[p].base)

FilesInv == Coherent(tree) /\ \A i \in 1..Len0 : Coherent(history[i].tree)

\* What an acceptance has written and what it still meets.
JobInv ==
    job # Idle =>
        /\ job.at = "replan" => job.replan # None /\ tree.plans[job.plan] = job.content
        /\ Free(tree.plans[job.plan], job.content)
        /\ job.replan # None =>
              /\ Free(tree.replans[job.plan], job.replan)
              /\ Answered(job.replan, job.content.base)

\* The commit at n that speaks for u: no later one names u.
LastAt(n, u) ==
    {i \in 1..n : /\ u \in ToSet(history[i].trailers)
                  /\ \A j \in i + 1..n : u \notin ToSet(history[j].trailers)}

\* PassIsEarned at n.
EarnedAt(a, n) ==
    \A u \in Unit : \E i \in LastAt(n, u) :
        /\ history[i].trailers = <<u>> /\ history[i].flaw = "none"
        /\ Evaluation(history[i].blueprint, ClaimOf[u]) = "satisfied"
        /\ \A d \in PlanAt(n, a.plan).units[u].needs : \E j \in LastAt(n, d) : j < i
        /\ a.exit = 0

\* A unit with an invalid dependency is invalid.
ClosedAt(a, n) ==
    \A u \in Unit \ a.invalid : PlanAt(n, a.plan).units[u].needs \cap a.invalid = {}

AnswersInv ==
    \A a \in answers :
        /\ a.head \in 0..commits
        /\ \A n \in Positions : IdAt(n) = a.head =>
              ClosedAt(a, n) /\ (a.verdict = "pass" => EarnedAt(a, n))

PlanInv == TypeOK /\ IdsInv /\ SourcesInv /\ FilesInv /\ JobInv /\ AnswersInv

(* A pass is final because the evidence at its commit cannot become stale: *)
(* a plan is bound at one commit of a history at most, and once a bundle of *)
(* that commit is kept, the bundle most like it is a bundle of that commit. *)

\* A plan keeps its base, and a replacement never changes.
Grows(old, new) ==
    \A p \in Plans :
        /\ old.plans[p] # None => new.plans[p] # None
        /\ Readable(old.plans[p]) => Readable(new.plans[p]) /\ new.plans[p].base = old.plans[p].base
        /\ old.replans[p] # None => new.replans[p] = old.replans[p]

GrowInv ==
    \A i \in Positions :
        /\ Grows(TreeAt(i), tree)
        /\ \A j \in Positions : i <= j => Grows(TreeAt(i), TreeAt(j))

\* No commit has a plan that is based on it or on a later one.
Older(files, id) == \A p \in Plans : Readable(files.plans[p]) => files.plans[p].base <= id

BasesInv ==
    /\ Older(tree, commits)
    /\ job # Idle => job.content.base <= commits
    /\ \A i \in 1..Len0 : Older(history[i].tree, history[i].id - 1)

\* A bundle bound the plan at its head, and witnessed the plan's claims.
BundleAt(g, n) ==
    /\ Bound(n, g.plan) # None /\ g.bindings = Bound(n, g.plan)
    /\ \A u \in DOMAIN g.records : g.records[u].witness = PlanAt(n, g.plan).units[u].ver

\* Its head is the last commit that it bound.
HeadBound(g) ==
    /\ \A u \in Unit : g.bindings[u].id \in 0..g.head
    /\ Unit # {} => \E u \in Unit : g.bindings[u].id = g.head

GatesInv ==
    /\ gates \in Seq(ToSet(gates))
    /\ \A g \in ToSet(gates) :
        /\ g.plan \in Plans /\ g.head \in 0..commits /\ HeadBound(g)
        /\ \A n \in Positions : IdAt(n) = g.head => BundleAt(g, n)

\* The evidence before bundles of plan p at n is not stale.
Settled(p, n) ==
    LET bound == Bound(n, p)
    IN /\ bound # None
       /\ \A u \in Unit : ~Stale(Prior(p, bound), bound, PlanAt(n, p).units, u)

PassesInv ==
    \A a \in answers : a.verdict = "pass" =>
        /\ a.plan \in Plans
        /\ \A n \in Positions : IdAt(n) = a.head => Settled(a.plan, n)

FinalInv == GrowInv /\ BasesInv /\ GatesInv /\ PassesInv

-----------------------------------------------------------------------------
(* The files and the identities of the history *)

LEMMA NoFilesType ==
    /\ NoFiles \in Files
    /\ \A p \in Plans : NoFiles.plans[p] = None /\ NoFiles.replans[p] = None
BY DEF NoFiles, Files

LEMMA CommitAt ==
    ASSUME TypeOK, NEW i \in 1..Len0
    PROVE  history[i] \in Commits
BY DEF TypeOK, Len0

LEMMA FilesAt ==
    ASSUME TypeOK, NEW n \in Positions
    PROVE  /\ TreeAt(n) \in Files
           /\ IdAt(n) \in Nat
           /\ \A p \in Plans : /\ PlanAt(n, p) \in PlanFiles \cup {None, Torn}
                               /\ ReplanAt(n, p) \in ReplanFiles \cup {None, Torn}
<1>1. Len0 \in Nat
  BY DEF TypeOK, Len0
<1>2. TreeAt(n) \in Files /\ IdAt(n) \in Nat
  <2>1. CASE n = 0
    BY <2>1, NoFilesType DEF TreeAt, IdAt
  <2>2. CASE n # 0
    <3>1. history[n] \in Commits
      BY <1>1, <2>2, CommitAt DEF Positions
    <3>2. QED
      BY <2>2, <3>1 DEF TreeAt, IdAt, Commits
  <2>3. QED
    BY <2>1, <2>2
<1>3. QED
  BY <1>2 DEF PlanAt, ReplanAt, Files

\* A plan or a replacement that can be read is what such a file holds.
LEMMA ReadablePlan ==
    ASSUME NEW file \in PlanFiles \cup {None, Torn}
    PROVE  Readable(file) <=> file \in PlanFiles
BY FilesAssumption DEF Readable

LEMMA ReadableReplan ==
    ASSUME NEW file \in ReplanFiles \cup {None, Torn}
    PROVE  Readable(file) <=> file \in ReplanFiles
BY FilesAssumption DEF Readable

\* Identities tell positions apart.
LEMMA IdsGrow ==
    ASSUME TypeOK, IdsInv
    PROVE  /\ \A n \in Positions : IdAt(n) \in 0..commits
           /\ \A m, n \in Positions : m < n => IdAt(m) < IdAt(n)
           /\ \A m, n \in Positions : IdAt(m) = IdAt(n) => m = n
<1>1. Len0 \in Nat /\ commits \in Nat
  BY DEF TypeOK, Len0
<1>2. \A n \in Positions : IdAt(n) \in 0..commits
  BY <1>1 DEF Positions, IdAt, IdsInv
<1>3. ASSUME NEW m \in Positions, NEW n \in Positions, m < n
      PROVE  IdAt(m) < IdAt(n)
  <2>1. n \in 1..Len0 /\ history[n].id \in 1..commits
    BY <1>1, <1>3 DEF Positions, IdsInv
  <2>2. CASE m = 0
    BY <1>1, <2>1, <2>2 DEF IdAt
  <2>3. CASE m # 0
    BY <1>1, <1>3, <2>1, <2>3 DEF Positions, IdAt, IdsInv
  <2>4. QED
    BY <2>2, <2>3
<1>4. ASSUME NEW m \in Positions, NEW n \in Positions, IdAt(m) = IdAt(n)
      PROVE  m = n
  <2>1. m \in Int /\ n \in Int /\ IdAt(m) \in Int /\ IdAt(n) \in Int
    BY <1>1, <1>2 DEF Positions
  <2>2. ~(m < n) /\ ~(n < m)
    BY <1>3, <1>4, <2>1
  <2>3. QED
    BY <2>1, <2>2
<1>5. QED
  BY <1>2, <1>3, <1>4

\* The place of an identity in the first n commits.
LEMMA AtFacts ==
    ASSUME TypeOK, IdsInv, NEW n \in Positions, NEW id
    PROVE  /\ At(id, n) \in 0..n \cup {-1}
           /\ At(id, n) # -1 => IdAt(At(id, n)) = id
           /\ \A i \in 0..n : IdAt(i) = id => At(id, n) = i
<1>1. Len0 \in Nat /\ n \in Nat /\ 0..n \subseteq Positions
  BY DEF TypeOK, Len0, Positions
<1>2. CASE \E i \in 0..n : IdAt(i) = id
  <2>1. At(id, n) \in 0..n /\ IdAt(At(id, n)) = id
    BY <1>2 DEF At
  <2>2. QED
    BY <1>1, <2>1, IdsGrow
<1>3. CASE ~\E i \in 0..n : IdAt(i) = id
  BY <1>3 DEF At
<1>4. QED
  BY <1>2, <1>3

-----------------------------------------------------------------------------
(* Steps of the history *)

\* The first k commits stay, and the others are new.
Kept(k) ==
    /\ k \in 0..Len0 /\ k <= Len0' /\ commits <= commits'
    /\ \A i \in 1..k : history'[i] = history[i]
    /\ \A i \in k + 1..Len0' : history'[i].id \in commits + 1..commits'

\* The new ones are what commits are.
Sound(k) ==
    /\ \A i, j \in k + 1..Len0' : i < j => history'[i].id < history'[j].id
    /\ \A i \in k + 1..Len0' :
        /\ history'[i].flaw = "source" => history'[i].trailers = <<>>
        /\ Coherent(history'[i].tree)

\* Below k nothing has changed, and no other commit has an old identity.
LEMMA KeptBelow ==
    ASSUME TypeOK, TypeOK', IdsInv, NEW k, Kept(k)
    PROVE  /\ 0..k \subseteq Positions /\ 0..k \subseteq Positions'
           /\ \A i \in 0..k : /\ TreeAt(i)' = TreeAt(i) /\ IdAt(i)' = IdAt(i)
                              /\ \A p \in Plans : /\ PlanAt(i, p)' = PlanAt(i, p)
                                                  /\ ReplanAt(i, p)' = ReplanAt(i, p)
           /\ \A n \in Positions' : IdAt(n)' \in 0..commits => n \in 0..k
<1>1. /\ Len0 \in Nat /\ (Len0)' \in Nat /\ commits \in Nat /\ commits' \in Nat
      /\ k \in Nat /\ k <= Len0 /\ k <= (Len0)'
  BY DEF TypeOK, Len0, Kept
<1>2. 0..k \subseteq Positions /\ 0..k \subseteq Positions'
  BY <1>1 DEF Positions
<1>3. \A i \in 0..k : TreeAt(i)' = TreeAt(i) /\ IdAt(i)' = IdAt(i)
  BY <1>1 DEF TreeAt, IdAt, Kept
<1>4. \A i \in 0..k, p \in Plans : PlanAt(i, p)' = PlanAt(i, p) /\ ReplanAt(i, p)' = ReplanAt(i, p)
  BY <1>3 DEF PlanAt, ReplanAt
<1>5. ASSUME NEW n \in Positions', IdAt(n)' \in 0..commits
      PROVE  n \in 0..k
  <2>1. n \in 0..(Len0)'
    BY DEF Positions
  <2>2. ~(n \in k + 1..(Len0)')
    BY <1>1, <1>5 DEF IdAt, Kept
  <2>3. QED
    BY <1>1, <2>1, <2>2
<1>6. QED
  BY <1>2, <1>3, <1>4, <1>5

\* What an answer says of its commit remains true.
LEMMA KeptAnswer ==
    ASSUME PlanInv, TypeOK', NEW k, Kept(k), NEW a \in answers
    PROVE  /\ a.head \in 0..commits'
           /\ \A n \in Positions' : IdAt(n)' = a.head =>
                ClosedAt(a, n)' /\ (a.verdict = "pass" => EarnedAt(a, n)')
<1>1. a.head \in 0..commits /\ commits \in Nat /\ commits' \in Nat /\ commits <= commits'
  BY DEF PlanInv, AnswersInv, TypeOK, Kept
<1>2. a.head \in 0..commits'
  BY <1>1
<1>3. ASSUME NEW n \in Positions', IdAt(n)' = a.head
      PROVE  ClosedAt(a, n)' /\ (a.verdict = "pass" => EarnedAt(a, n)')
  <2>1. n \in 0..k /\ n \in Positions
    BY <1>1, <1>3, KeptBelow DEF PlanInv
  <2>2. IdAt(n) = a.head
    BY <1>3, <2>1, KeptBelow DEF PlanInv
  <2>3. ClosedAt(a, n) /\ (a.verdict = "pass" => EarnedAt(a, n))
    BY <2>1, <2>2 DEF PlanInv, AnswersInv
  <2>4. TreeAt(n)' = TreeAt(n)
    BY <2>1, KeptBelow DEF PlanInv
  <2>5. ClosedAt(a, n)'
    BY <2>3, <2>4 DEF ClosedAt, PlanAt
  <2>6. \A i \in 1..n : history'[i] = history[i]
    <3>1. k \in Nat /\ n \in Nat /\ n <= k
      BY <2>1 DEF PlanInv, TypeOK, Len0, Kept
    <3>2. QED
      BY <3>1 DEF Kept
  <2>7. \A u : LastAt(n, u)' = LastAt(n, u)
    <3>1. TAKE u
    <3>2. ASSUME NEW i \in 1..n
          PROVE  (\A j \in i + 1..n : u \notin ToSet(history[j].trailers))'
                    <=> (\A j \in i + 1..n : u \notin ToSet(history[j].trailers))
      <4>1. \A j \in i + 1..n : j \in 1..n
        BY <2>1
      <4>2. QED
        BY <2>6, <4>1
    <3>3. QED
      BY <2>6, <3>2 DEF LastAt
  <2>8. \A u : LastAt(n, u) \subseteq 1..n
    BY DEF LastAt
  <2>9. ASSUME EarnedAt(a, n) PROVE EarnedAt(a, n)'
    <3> SUFFICES ASSUME NEW u \in Unit
                 PROVE  \E i \in LastAt(n, u)' :
                    /\ history'[i].trailers = <<u>> /\ history'[i].flaw = "none"
                    /\ Evaluation(history'[i].blueprint, ClaimOf[u]) = "satisfied"
                    /\ \A d \in PlanAt(n, a.plan)'.units[u].needs : \E j \in LastAt(n, d)' : j < i
                    /\ a.exit = 0
      BY DEF EarnedAt
    <3>1. PICK i \in LastAt(n, u) :
                    /\ history[i].trailers = <<u>> /\ history[i].flaw = "none"
                    /\ Evaluation(history[i].blueprint, ClaimOf[u]) = "satisfied"
                    /\ \A d \in PlanAt(n, a.plan).units[u].needs : \E j \in LastAt(n, d) : j < i
                    /\ a.exit = 0
      BY <2>9 DEF EarnedAt
    <3>2. history'[i] = history[i]
      BY <2>6, <2>8, <3>1
    <3>3. PlanAt(n, a.plan)' = PlanAt(n, a.plan)
      BY <2>4 DEF PlanAt
    <3>4. QED
      BY <2>7, <3>1, <3>2, <3>3
  <2>10. QED
    BY <2>3, <2>5, <2>9
<1>4. QED
  BY <1>2, <1>3

\* When the history changes, and neither the files nor the answers do.
LEMMA HistoryStep ==
    ASSUME PlanInv, TypeOK', NEW k, Kept(k), Sound(k), UNCHANGED answers
    PROVE  /\ IdsInv' /\ SourcesInv' /\ AnswersInv'
           /\ (\A i \in 1..Len0 : Coherent(history[i].tree))'
           /\ \A files : Coherent(files)' <=> Coherent(files)
<1>1. /\ Len0 \in Nat /\ (Len0)' \in Nat /\ commits \in Nat /\ commits' \in Nat
      /\ k \in Nat /\ k <= Len0 /\ k <= (Len0)' /\ commits <= commits'
  BY DEF PlanInv, TypeOK, Len0, Kept
<1>2. \A i \in 1..(Len0)' : i \in 1..k \/ i \in k + 1..(Len0)'
  BY <1>1
<1>3. \A i \in 1..k : i \in 1..Len0 /\ history'[i] = history[i]
  BY <1>1 DEF Kept
<1>4. IdsInv'
  <2>1. ASSUME NEW i \in 1..(Len0)' PROVE history'[i].id \in 1..commits'
    <3>1. CASE i \in 1..k
      BY <1>1, <1>3, <3>1 DEF PlanInv, IdsInv
    <3>2. CASE i \in k + 1..(Len0)'
      BY <1>1, <3>2 DEF Kept
    <3>3. QED
      BY <1>2, <3>1, <3>2
  <2>2. ASSUME NEW i \in 1..(Len0)', NEW j \in 1..(Len0)', i < j
        PROVE  history'[i].id < history'[j].id
    <3>1. CASE j \in 1..k
      <4>1. i \in 1..k
        BY <1>1, <2>2, <3>1
      <4>2. QED
        BY <1>3, <2>2, <3>1, <4>1 DEF PlanInv, IdsInv
    <3>2. CASE i \in 1..k /\ j \in k + 1..(Len0)'
      <4>1. history'[i].id \in 1..commits /\ history'[j].id \in commits + 1..commits'
        BY <1>3, <3>2 DEF PlanInv, IdsInv, Kept
      <4>2. QED
        BY <1>1, <4>1
    <3>3. CASE i \in k + 1..(Len0)' /\ j \in k + 1..(Len0)'
      BY <2>2, <3>3 DEF Sound
    <3>4. QED
      BY <1>1, <1>2, <2>2, <3>1, <3>2, <3>3
  <2>3. QED
    BY <2>1, <2>2 DEF IdsInv
<1>5. SourcesInv'
  BY <1>2, <1>3 DEF PlanInv, SourcesInv, Sound
<1>6. AnswersInv'
  BY KeptAnswer DEF AnswersInv
<1>7. \A files : Coherent(files)' <=> Coherent(files)
  BY DEF Coherent, Answered
<1>8. ASSUME NEW i \in 1..(Len0)', NEW files, files = history'[i].tree
      PROVE  Coherent(files)'
  <2>1. Coherent(files)
    BY <1>2, <1>3, <1>8 DEF PlanInv, FilesInv, Sound
  <2>2. QED
    BY <1>7, <2>1
<1>9. (\A i \in 1..Len0 : Coherent(history[i].tree))'
  BY <1>8 DEF Coherent, Answered
<1>10. QED
  BY <1>4, <1>5, <1>6, <1>7, <1>9
\* A commit leaves the others as they are.
LEMMA PushFacts ==
    ASSUME PlanInv, NEW trailers \in Seq(Unit), NEW patch \in {None} \cup (Unit \X Nat),
           NEW flaw \in {"none", "source", "stray", "merge"}, NEW blueprint \in Blueprints,
           flaw = "source" => trailers = <<>>,
           Push(Commit(trailers, patch, flaw, blueprint))
    PROVE  /\ TypeOK' /\ Kept(Len0) /\ Sound(Len0) /\ UNCHANGED <<tree, job, answers>>
           /\ (Len0)' = Len0 + 1 /\ history'[Len0 + 1].tree = tree
           /\ UNCHANGED <<gates, spoiled>>
<1> DEFINE c == Commit(trailers, patch, flaw, blueprint)
<1>1. /\ history \in Seq(Commits) /\ Len0 \in Nat /\ commits \in Nat /\ tree \in Files
      /\ job \in Jobs \cup {Idle} /\ Coherent(tree) /\ JobInv
  BY DEF PlanInv, TypeOK, FilesInv, Len0
<1>2. /\ history' = Append(history, c) /\ commits' = commits + 1
      /\ tree' = tree /\ job' = job /\ answers' = answers
  BY DEF Push, evidence
<1>3. /\ c \in Commits /\ c.id = commits + 1 /\ c.tree = tree
      /\ c.flaw = "source" => c.trailers = <<>>
  BY <1>1 DEF Commit, Commits
<1> HIDE DEF c
<1>4. /\ history' \in Seq(Commits) /\ (Len0)' = Len0 + 1 /\ history'[Len0 + 1] = c
      /\ \A i \in 1..Len0 : history'[i] = history[i]
  BY <1>1, <1>2, <1>3 DEF Len0
<1>5. TypeOK'
  BY <1>1, <1>2, <1>4 DEF TypeOK
<1>6. \A i \in Len0 + 1..(Len0)' : i = Len0 + 1 /\ history'[i] = c
  BY <1>1, <1>4
<1>7. Kept(Len0)
  <2>1. Len0 \in 0..Len0 /\ Len0 <= (Len0)' /\ commits <= commits'
    BY <1>1, <1>2, <1>4
  <2>a. commits + 1 \in commits + 1..commits'
    BY <1>1, <1>2
  <2>2. \A i \in Len0 + 1..(Len0)' : history'[i].id \in commits + 1..commits'
    BY <1>3, <1>6, <2>a
  <2>3. QED
    BY <1>4, <2>1, <2>2 DEF Kept
<1>8. Sound(Len0)
  BY <1>1, <1>3, <1>6 DEF Sound
<1>9. UNCHANGED <<gates, spoiled>>
  BY DEF Push, evidence
<1>10. QED
  BY <1>2, <1>3, <1>4, <1>5, <1>7, <1>8, <1>9

LEMMA PushStep ==
    ASSUME PlanInv, NEW trailers \in Seq(Unit), NEW patch \in {None} \cup (Unit \X Nat),
           NEW flaw \in {"none", "source", "stray", "merge"}, NEW blueprint \in Blueprints,
           flaw = "source" => trailers = <<>>,
           Push(Commit(trailers, patch, flaw, blueprint))
    PROVE  PlanInv'
<1>1. TypeOK' /\ Kept(Len0) /\ Sound(Len0) /\ UNCHANGED <<tree, job, answers>>
  BY PushFacts
<1>2. Coherent(tree) /\ JobInv
  BY DEF PlanInv, FilesInv
<1>3. /\ IdsInv' /\ SourcesInv' /\ AnswersInv'
      /\ (\A i \in 1..Len0 : Coherent(history[i].tree))'
      /\ \A files : Coherent(files)' <=> Coherent(files)
  BY <1>1, HistoryStep
<1>4. FilesInv'
  BY <1>1, <1>2, <1>3 DEF FilesInv, Coherent, Answered
<1>5. JobInv'
  BY <1>1, <1>2 DEF JobInv, Answered
<1>6. QED
  BY <1>1, <1>3, <1>4, <1>5 DEF PlanInv

\* A reset keeps the commits up to some place.
LEMMA ResetFacts ==
    ASSUME PlanInv, Reset
    PROVE  /\ TypeOK' /\ job = Idle /\ UNCHANGED <<job, answers, gates, spoiled>>
           /\ \E n \in 0..Len0 : Kept(n) /\ Sound(n) /\ (Len0)' = n /\ tree' = TreeAt(n)
<1>1. /\ history \in Seq(Commits) /\ Len0 \in Nat /\ commits \in Nat
      /\ job = Idle /\ UNCHANGED <<commits, job, answers, gates, spoiled>>
  BY DEF PlanInv, TypeOK, Len0, Reset, evidence, Idle, Jobs
<1>2. PICK n \in 0..Len0 : history' = SubSeq(history, 1, n) /\ tree' = TreeAt(n)
  BY DEF Reset
<1>3. /\ history' \in Seq(Commits) /\ (Len0)' = n
      /\ \A i \in 1..n : history'[i] = history[i]
  BY <1>1, <1>2 DEF Len0
<1>4. n \in Positions /\ TreeAt(n) \in Files
  BY <1>2, FilesAt DEF PlanInv, Positions
<1>5. TypeOK'
  BY <1>1, <1>2, <1>3, <1>4 DEF TypeOK, Idle
<1>6. Kept(n) /\ Sound(n)
  BY <1>1, <1>2, <1>3 DEF Kept, Sound
<1>7. QED
  BY <1>1, <1>2, <1>3, <1>5, <1>6

LEMMA ResetStep ==
    ASSUME PlanInv, Reset
    PROVE  PlanInv'
<1>1. TypeOK' /\ job = Idle /\ UNCHANGED <<job, answers>>
  BY ResetFacts
<1>2. PICK n \in 0..Len0 : Kept(n) /\ Sound(n) /\ tree' = TreeAt(n)
  BY ResetFacts
<1>3. /\ IdsInv' /\ SourcesInv' /\ AnswersInv'
      /\ (\A i \in 1..Len0 : Coherent(history[i].tree))'
      /\ \A files : Coherent(files)' <=> Coherent(files)
  BY <1>1, <1>2, HistoryStep
<1>4. Coherent(TreeAt(n))
  <2>1. CASE n = 0
    BY <2>1, NoFilesType DEF TreeAt, Coherent, Readable
  <2>2. CASE n # 0
    BY <1>2, <2>2 DEF TreeAt, PlanInv, FilesInv, TypeOK, Len0
  <2>3. QED
    BY <2>1, <2>2
<1>5. FilesInv'
  BY <1>2, <1>3, <1>4 DEF FilesInv, Coherent, Answered
<1>6. JobInv'
  BY <1>1 DEF JobInv
<1>7. QED
  BY <1>1, <1>3, <1>5, <1>6 DEF PlanInv

\* A rebase keeps the commits up to some place, and repeats the others above a
\* new one.
LEMMA RebaseFacts ==
    ASSUME PlanInv, Rebase
    PROVE  /\ TypeOK' /\ job = Idle /\ UNCHANGED <<tree, job, answers, gates, spoiled>>
           /\ (Len0)' = Len0 + 1
           /\ \E n \in 0..Len0 :
                /\ Kept(n) /\ Sound(n)
                /\ history'[n + 1].tree = TreeAt(n)
                /\ \A i \in 1..Len0 - n : history'[n + 1 + i].tree = history[n + i].tree
<1>1. /\ history \in Seq(Commits) /\ Len0 \in Nat /\ commits \in Nat /\ tree \in Files
      /\ JobInv /\ job = Idle /\ job' = job /\ tree' = tree /\ answers' = answers
      /\ Coherent(tree)
  <2>1. job.at = "idle" /\ job' = job /\ tree' = tree /\ answers' = answers
    BY DEF Rebase, evidence
  <2>2. QED
    BY <2>1 DEF PlanInv, TypeOK, FilesInv, Len0, Idle, Jobs
<1> DEFINE foreign(n, b) == [id |-> commits + 1, tree |-> TreeAt(n), trailers |-> <<>>,
                             patch |-> None, flaw |-> "source", blueprint |-> b]
           again(n, b, i) == [history[n + i] EXCEPT !.id = commits + 1 + i,
                                !.blueprint = IF b = Healthy THEN @ ELSE b]
           moved(n, b) == [i \in 1..Len0 - n |-> again(n, b, i)]
<1>2. PICK n \in 0..Len0 - 1, b \in Blueprints :
        /\ history' = Append(SubSeq(history, 1, n), foreign(n, b)) \o moved(n, b)
        /\ commits' = commits + 1 + (Len0 - n)
  BY DEF Rebase
<1>n. n \in Nat /\ n <= Len0 /\ n \in Positions
  <2> HIDE DEF foreign, moved
  <2>1. n \in 0..Len0 - 1
    BY <1>2
  <2>2. QED
    BY <1>1, <2>1 DEF Positions
<1> DEFINE kept == SubSeq(history, 1, n)
           c == foreign(n, b)
           m == moved(n, b)
<1>3. /\ n \in Nat /\ n <= Len0 /\ n \in Positions /\ TreeAt(n) \in Files /\ Coherent(TreeAt(n))
  <2>1. n \in Nat /\ n <= Len0 /\ n \in Positions
    BY <1>n
  <2>2. TreeAt(n) \in Files
    BY <2>1, FilesAt DEF PlanInv
  <2>3. CASE n = 0
    BY <2>1, <2>2, <2>3, NoFilesType DEF TreeAt, Coherent, Readable
  <2>4. CASE n # 0
    BY <1>1, <2>1, <2>2, <2>4 DEF TreeAt, PlanInv, FilesInv
  <2>5. QED
    BY <2>1, <2>2, <2>3, <2>4
<1>4. /\ c \in Commits /\ c.id = commits + 1 /\ c.tree = TreeAt(n) /\ c.trailers = <<>>
  BY <1>1, <1>3 DEF Commits
<1>5. ASSUME NEW i \in 1..Len0 - n
      PROVE  /\ n + i \in 1..Len0 /\ again(n, b, i) \in Commits
             /\ again(n, b, i).id = commits + 1 + i
             /\ again(n, b, i).tree = history[n + i].tree
             /\ again(n, b, i).flaw = history[n + i].flaw
             /\ again(n, b, i).trailers = history[n + i].trailers
  <2>1. n + i \in 1..Len0 /\ commits + 1 + i \in Nat
    BY <1>1, <1>3
  <2>2. history[n + i] \in Commits
    BY <2>1, CommitAt DEF PlanInv
  <2>3. QED
    BY <1>2, <2>1, <2>2 DEF Commits
<1> HIDE DEF again, foreign
<1>6. m \in Seq(Commits) /\ Len(m) = Len0 - n /\ \A i \in 1..Len0 - n : m[i] = again(n, b, i)
  <2>1. Len0 - n \in Nat
    BY <1>1, <1>3
  <2>2. m \in [1..Len0 - n -> Commits]
    BY <1>5
  <2>3. QED
    BY <2>1, <2>2
<1>7. kept \in Seq(Commits) /\ Len(kept) = n /\ \A i \in 1..n : kept[i] = history[i]
  BY <1>1, <1>3 DEF Len0
<1> HIDE DEF kept, m, c
<1>8. /\ history' \in Seq(Commits) /\ (Len0)' = Len0 + 1
      /\ \A i \in 1..n : history'[i] = history[i]
      /\ history'[n + 1] = c
      /\ \A i \in 1..Len0 - n : history'[n + 1 + i] = m[i]
  <2>1. history' = Append(kept, c) \o m
    BY <1>2 DEF kept, c, m
  <2>2. /\ Append(kept, c) \in Seq(Commits) /\ Len(Append(kept, c)) = n + 1
        /\ Append(kept, c)[n + 1] = c /\ \A i \in 1..n : Append(kept, c)[i] = kept[i]
    BY <1>3, <1>4, <1>7
  <2> DEFINE h == Append(kept, c)
  <2> HIDE DEF h
  <2>3. h \in Seq(Commits) /\ Len(h) = n + 1 /\ h[n + 1] = c /\ \A i \in 1..n : h[i] = history[i]
    BY <1>7, <2>2 DEF h
  <2>4. history' = h \o m
    BY <2>1 DEF h
  <2>5. h \o m \in Seq(Commits) /\ Len(h \o m) = (n + 1) + (Len0 - n)
    BY <1>6, <2>3
  <2>6. \A i \in 1..n + 1 : (h \o m)[i] = h[i]
    BY <1>6, <1>n, <2>3
  <2>7. \A i \in 1..Len0 - n : (h \o m)[n + 1 + i] = m[i]
    <3>1. TAKE i \in 1..Len0 - n
    <3>2. n + 1 + i \in n + 1 + 1..(n + 1) + (Len0 - n) /\ (n + 1 + i) - (n + 1) = i
      BY <1>1, <1>n
    <3>3. \A j \in Len(h) + 1..Len(h) + Len(m) : (h \o m)[j] = m[j - Len(h)]
      BY <1>6, <2>3
    <3>4. Len(h) = n + 1 /\ Len(m) = Len0 - n
      BY <1>6, <2>3
    <3>5. (h \o m)[n + 1 + i] = m[(n + 1 + i) - (n + 1)]
      BY <3>2, <3>3, <3>4
    <3>6. QED
      BY <3>2, <3>5
  <2>8. (n + 1) + (Len0 - n) = Len0 + 1
    BY <1>1, <1>n
  <2>9. history' \in Seq(Commits) /\ (Len0)' = Len0 + 1
    BY <2>4, <2>5, <2>8 DEF Len0
  <2>10. \A i \in 1..n : history'[i] = history[i]
    BY <1>n, <2>3, <2>4, <2>6
  <2>11. history'[n + 1] = c
    BY <1>n, <2>3, <2>4, <2>6
  <2>12. QED
    BY <2>4, <2>7, <2>9, <2>10, <2>11
<1>9. TypeOK'
  BY <1>1, <1>2, <1>3, <1>8 DEF TypeOK, Idle
<1>10. ASSUME NEW j \in n + 1..(Len0)'
       PROVE  j = n + 1 \/ (j - (n + 1) \in 1..Len0 - n /\ history'[j] = again(n, b, j - (n + 1)))
  <2>1. CASE j # n + 1
    <3>1. j - (n + 1) \in 1..Len0 - n /\ j = n + 1 + (j - (n + 1))
      BY <1>1, <1>3, <1>8, <2>1
    <3>2. QED
      BY <1>6, <1>8, <3>1
  <2>2. QED
    BY <2>1
<1>11. ASSUME NEW j \in n + 1..(Len0)'
       PROVE  history'[j].id = commits + (j - n)
  <2>1. CASE j = n + 1
    <3>1. commits + (j - n) = commits + 1
      BY <1>1, <1>n, <2>1
    <3>2. QED
      BY <1>4, <1>8, <2>1, <3>1
  <2>2. CASE j # n + 1
    <3>1. j - (n + 1) \in 1..Len0 - n /\ history'[j] = again(n, b, j - (n + 1))
      BY <1>10, <2>2
    <3>2. history'[j].id = commits + 1 + (j - (n + 1))
      BY <1>5, <3>1
    <3>3. commits + 1 + (j - (n + 1)) = commits + (j - n)
      BY <1>1, <1>n, <1>8
    <3>4. QED
      BY <3>2, <3>3
  <2>3. QED
    BY <2>1, <2>2
<1>12. Kept(n)
  <2>1. n \in 0..Len0 /\ n <= (Len0)' /\ commits <= commits'
    BY <1>1, <1>2, <1>n, <1>8
  <2>2. \A j \in n + 1..(Len0)' : commits + (j - n) \in commits + 1..commits'
    BY <1>1, <1>2, <1>n, <1>8
  <2>3. QED
    BY <1>8, <1>11, <2>1, <2>2 DEF Kept
<1>13. Sound(n)
  <2>1. \A i, j \in n + 1..(Len0)' : i < j => history'[i].id < history'[j].id
    BY <1>1, <1>3, <1>8, <1>11
  <2>2. ASSUME NEW j \in n + 1..(Len0)'
        PROVE  /\ history'[j].flaw = "source" => history'[j].trailers = <<>>
               /\ Coherent(history'[j].tree)
    <3>1. CASE j = n + 1
      BY <1>3, <1>4, <1>8, <3>1
    <3>2. CASE j # n + 1
      <4>1. PICK i \in 1..Len0 - n : history'[j] = again(n, b, i)
        BY <1>10, <3>2
      <4>2. n + i \in 1..Len0 /\ history'[j].tree = history[n + i].tree
            /\ history'[j].flaw = history[n + i].flaw /\ history'[j].trailers = history[n + i].trailers
        BY <1>5, <4>1
      <4>3. QED
        BY <4>2 DEF PlanInv, SourcesInv, FilesInv
    <3>3. QED
      BY <3>1, <3>2
  <2>3. QED
    BY <2>1, <2>2 DEF Sound
<1>14. UNCHANGED <<gates, spoiled>>
  BY DEF Rebase, evidence
<1>15. \A i \in 1..Len0 - n : history'[n + 1 + i].tree = history[n + i].tree
  BY <1>5, <1>6, <1>8
<1>16. n \in 0..Len0
  BY <1>1, <1>n
<1>17. history'[n + 1].tree = TreeAt(n)
  BY <1>4, <1>8
<1>18. QED
  BY <1>1, <1>8, <1>9, <1>12, <1>13, <1>14, <1>15, <1>16, <1>17

LEMMA RebaseStep ==
    ASSUME PlanInv, Rebase
    PROVE  PlanInv'
<1>1. /\ TypeOK' /\ job = Idle /\ UNCHANGED <<tree, job, answers>>
      /\ \E n \in 0..Len0 : Kept(n) /\ Sound(n)
  BY RebaseFacts
<1>2. Coherent(tree) /\ JobInv
  BY DEF PlanInv, FilesInv
<1>3. /\ IdsInv' /\ SourcesInv' /\ AnswersInv'
      /\ (\A i \in 1..Len0 : Coherent(history[i].tree))'
      /\ \A files : Coherent(files)' <=> Coherent(files)
  BY <1>1, HistoryStep
<1>4. FilesInv'
  BY <1>1, <1>2, <1>3 DEF FilesInv, Coherent, Answered
<1>5. JobInv'
  BY <1>1 DEF JobInv
<1>6. QED
  BY <1>1, <1>3, <1>4, <1>5 DEF PlanInv

-----------------------------------------------------------------------------
(* Steps of the files *)

LEMMA FilesStep ==
    ASSUME PlanInv, UNCHANGED <<history, commits, answers>>, TypeOK', Coherent(tree)', JobInv'
    PROVE  PlanInv'
<1>1. Len0' = Len0 /\ IdsInv' /\ SourcesInv'
  BY DEF PlanInv, IdsInv, SourcesInv, Len0
<1>2. FilesInv'
  BY <1>1 DEF PlanInv, FilesInv, Coherent, Answered
<1>3. \A n : TreeAt(n)' = TreeAt(n) /\ IdAt(n)' = IdAt(n)
  BY DEF TreeAt, IdAt
<1>4. \A a, n : ClosedAt(a, n)' <=> ClosedAt(a, n)
  BY <1>3 DEF ClosedAt, PlanAt
<1>5. \A n, u : LastAt(n, u)' = LastAt(n, u)
  BY DEF LastAt
<1>6. \A a, n : EarnedAt(a, n)' <=> EarnedAt(a, n)
  BY <1>3, <1>5, ZenonT(40) DEF EarnedAt, PlanAt
<1>7. AnswersInv'
  BY <1>1, <1>3, <1>4, <1>6 DEF PlanInv, AnswersInv, Positions
<1>8. QED
  BY <1>1, <1>2, <1>7 DEF PlanInv

\* What the writing of a value into a plan or a replacement changes.
LEMMA PlanWritten ==
    ASSUME tree \in Files, NEW p \in Plans, NEW value \in PlanFiles \cup {Torn},
           tree' = [tree EXCEPT !.plans[p] = value]
    PROVE  /\ tree' \in Files /\ tree'.policy = tree.policy /\ tree'.replans = tree.replans
           /\ tree'.plans[p] = value
           /\ \A q \in Plans : q # p => tree'.plans[q] = tree.plans[q]
BY DEF Files

LEMMA ReplanWritten ==
    ASSUME tree \in Files, NEW p \in Plans, NEW value \in ReplanFiles \cup {Torn},
           tree' = [tree EXCEPT !.replans[p] = value]
    PROVE  /\ tree' \in Files /\ tree'.policy = tree.policy /\ tree'.plans = tree.plans
           /\ tree'.replans[p] = value
           /\ \A q \in Plans : q # p => tree'.replans[q] = tree.replans[q]
BY DEF Files

LEMMA PlanEdited ==
    ASSUME tree \in Files, NEW p \in Plans, NEW u \in Unit, tree.plans[p] \notin {None, Torn},
           tree' = [tree EXCEPT !.plans[p].units[u].ver = 2]
    PROVE  \E plan \in PlanFiles : /\ Readable(plan) /\ Readable(tree.plans[p])
                                   /\ plan.base = tree.plans[p].base
                                   /\ tree' = [tree EXCEPT !.plans[p] = plan]
<1> DEFINE plan == [tree.plans[p] EXCEPT !.units[u].ver = 2]
<1>1. tree.plans[p] \in PlanFiles
  BY DEF Files
<1>2. plan \in PlanFiles /\ plan.base = tree.plans[p].base
  <2> DEFINE units == tree.plans[p].units
             edited == [units EXCEPT ![u] = [units[u] EXCEPT !.ver = 2]]
  <2>1. units \in [Unit -> [ver : {1, 2}, needs : SUBSET Unit]]
    BY <1>1 DEF PlanFiles
  <2>2. [units[u] EXCEPT !.ver = 2] \in [ver : {1, 2}, needs : SUBSET Unit]
    BY <2>1
  <2>3. edited \in [Unit -> [ver : {1, 2}, needs : SUBSET Unit]]
    BY <2>1, <2>2
  <2>4. plan = [tree.plans[p] EXCEPT !.units = edited]
    BY <1>1 DEF PlanFiles
  <2> HIDE DEF edited, plan
  <2>5. QED
    BY <1>1, <2>3, <2>4 DEF PlanFiles
<1>3. tree' = [tree EXCEPT !.plans[p] = plan]
  BY <1>1 DEF Files, PlanFiles
<1> HIDE DEF plan
<1>4. Readable(plan) /\ Readable(tree.plans[p])
  BY <1>1, <1>2, ReadablePlan
<1>5. QED
  BY <1>2, <1>3, <1>4

LEMMA EditStep ==
    ASSUME PlanInv, EditFile
    PROVE  PlanInv'
<1>1. /\ job.at = "idle" /\ job' = job /\ UNCHANGED <<history, commits, answers>>
      /\ tree \in Files /\ Coherent(tree) /\ job \in Jobs \cup {Idle} /\ TypeOK
  BY DEF EditFile, evidence, PlanInv, TypeOK, FilesInv
<1>2. job = Idle
  BY <1>1 DEF Jobs, Idle
<1>3. tree' \in Files /\ Coherent(tree)'
  <2>1. CASE tree.policy = 1 /\ tree' = [tree EXCEPT !.policy = 2]
    BY <1>1, <2>1 DEF Files, Coherent, Answered
  <2>2. ASSUME NEW p \in Plans, NEW u \in Unit, tree.plans[p] \notin {None, Torn},
               tree' = [tree EXCEPT !.plans[p].units[u].ver = 2]
        PROVE  tree' \in Files /\ Coherent(tree)'
    <3>1. PICK plan \in PlanFiles : /\ Readable(plan) /\ plan.base = tree.plans[p].base
                                    /\ tree' = [tree EXCEPT !.plans[p] = plan]
      BY <1>1, <2>2, PlanEdited
    <3>2. /\ tree' \in Files /\ tree'.replans = tree.replans /\ tree'.plans[p] = plan
          /\ \A q \in Plans : q # p => tree'.plans[q] = tree.plans[q]
      BY <1>1, <3>1, PlanWritten
    <3>3. \A q \in Plans : Readable(tree.plans[q]) =>
            Readable(tree'.plans[q]) /\ tree'.plans[q].base = tree.plans[q].base
      BY <3>1, <3>2
    <3>4. Coherent(tree)'
      BY <1>1, <3>2, <3>3 DEF Coherent, Answered
    <3>5. QED
      BY <3>2, <3>4
  <2>3. QED
    BY <2>1, <2>2 DEF EditFile
<1>4. TypeOK'
  BY <1>1, <1>3 DEF TypeOK
<1>5. JobInv'
  BY <1>1, <1>2 DEF JobInv
<1>6. QED
  BY <1>1, <1>3, <1>4, <1>5, FilesStep

\* A started acceptance.
LEMMA StartStep ==
    ASSUME PlanInv, NEW p \in Plans, NEW policy \in {1, 2}, NEW plan \in PlanFiles,
           NEW replan \in ReplanFiles \cup {None},
           StartAccept(p, policy, plan, replan), UNCHANGED <<tree, history, commits>>,
           answers \subseteq answers',
           (replan # None => Answered(replan, plan.base))'
    PROVE  TypeOK' /\ Coherent(tree)' /\ JobInv'
<1>1. /\ job' = [at |-> "policy", plan |-> p, policy |-> policy, content |-> plan, replan |-> replan]
      /\ Free(tree.plans[p], plan)
      /\ replan # None => Free(tree.replans[p], replan)
  BY DEF StartAccept, MayWrite
<1>2. job' \in Jobs
  BY <1>1 DEF Jobs
<1>3. TypeOK'
  BY <1>2 DEF PlanInv, TypeOK
<1>4. Coherent(tree)'
  BY DEF PlanInv, FilesInv, Coherent, Answered
<1>5. JobInv'
  <2>1. /\ job'.at = "policy" /\ job'.plan = p /\ job'.content = plan /\ job'.replan = replan
        /\ tree' = tree
    BY <1>1
  <2>2. QED
    BY <1>1, <2>1 DEF JobInv, Free, Answered
<1>6. QED
  BY <1>3, <1>4, <1>5

LEMMA CreateStep ==
    ASSUME PlanInv, CreatePlan
    PROVE  PlanInv'
<1>1. PICK ver \in 1..(IF mishaps = 0 THEN 1 ELSE 2) :
        StartAccept(Source, 1, [base |-> Head0, policy |-> 1,
                                units |-> [u \in Unit |-> [ver |-> ver, needs |-> Deps[u]]]], None)
  BY DEF CreatePlan
<1> DEFINE plan == [base |-> Head0, policy |-> 1,
                    units |-> [u \in Unit |-> [ver |-> ver, needs |-> Deps[u]]]]
<1>2. UNCHANGED <<tree, history, commits, answers>>
  BY DEF CreatePlan, repository, evidence
<1>3. plan \in PlanFiles
  <2>1. Head0 \in Nat
    <3>1. Len0 \in Positions
      BY DEF Positions, PlanInv, TypeOK, Len0
    <3>2. QED
      BY <3>1, FilesAt DEF PlanInv, Head0
  <2>2. ver \in {1, 2}
    BY <1>1
  <2>3. QED
    BY <2>1, <2>2, UnitsAssumption DEF PlanFiles
<1> HIDE DEF plan
<1>4. TypeOK' /\ Coherent(tree)' /\ JobInv'
  BY <1>1, <1>2, <1>3, StartStep DEF plan, Plans
<1>5. QED
  BY <1>2, <1>4, FilesStep

LEMMA WriteStep ==
    ASSUME PlanInv, WriteAccepted
    PROVE  PlanInv'
<1>1. /\ UNCHANGED <<history, commits, answers>> /\ job # Idle /\ job \in Jobs
      /\ tree \in Files /\ Coherent(tree) /\ TypeOK
      /\ tree' = Stored(Wanted) /\ job' = AfterWrite
  BY DEF WriteAccepted, evidence, PlanInv, TypeOK, FilesInv, Idle
<1>2. /\ job.at \in {"policy", "plan", "replan"} /\ job.plan \in Plans /\ job.policy \in {1, 2}
      /\ job.content \in PlanFiles /\ job.replan \in ReplanFiles \cup {None}
  BY <1>1 DEF Jobs
<1>3. /\ job.at = "replan" => job.replan # None /\ tree.plans[job.plan] = job.content
      /\ Free(tree.plans[job.plan], job.content)
      /\ job.replan # None => Free(tree.replans[job.plan], job.replan)
                              /\ Answered(job.replan, job.content.base)
  BY <1>1 DEF PlanInv, JobInv
<1>4. \A r, b : Answered(r, b)' <=> Answered(r, b)
  BY <1>1 DEF Answered
<1>5. CASE job.at = "policy"
  <2>1. tree' = [tree EXCEPT !.policy = job.policy] /\ job' = [job EXCEPT !.at = "plan"]
    BY <1>1, <1>5 DEF Stored, Wanted, AfterWrite
  <2>2. tree' \in Files /\ tree'.plans = tree.plans /\ tree'.replans = tree.replans /\ job' \in Jobs
        /\ job'.at = "plan" /\ job'.plan = job.plan /\ job'.content = job.content /\ job'.replan = job.replan
    BY <1>1, <1>2, <2>1 DEF Files, Jobs
  <2>3. TypeOK'
    BY <1>1, <2>2 DEF TypeOK
  <2>4. Coherent(tree)'
    BY <1>1, <1>4, <2>2 DEF Coherent
  <2>5. JobInv'
    BY <1>3, <1>4, <2>2 DEF JobInv
  <2>6. QED
    BY <1>1, <2>3, <2>4, <2>5, FilesStep
<1>6. CASE job.at = "plan"
  <2>1. tree' = [tree EXCEPT !.plans[job.plan] = job.content]
        /\ job' = IF job.replan = None THEN Idle ELSE [job EXCEPT !.at = "replan"]
    BY <1>1, <1>6 DEF Stored, Wanted, AfterWrite
  <2>2. /\ tree' \in Files /\ tree'.replans = tree.replans /\ tree'.plans[job.plan] = job.content
        /\ \A q \in Plans : q # job.plan => tree'.plans[q] = tree.plans[q]
    BY <1>1, <1>2, <2>1, PlanWritten
  <2>3. job' \in Jobs \cup {Idle}
    BY <1>1, <2>1 DEF Jobs
  <2>4. TypeOK'
    BY <1>1, <2>2, <2>3 DEF TypeOK
  <2>5. ASSUME NEW q \in Plans, Readable(tree.replans[q])
        PROVE  tree'.plans[q] = tree.plans[q]
    <3>1. Readable(tree.plans[q])
      BY <1>1, <2>5 DEF Coherent
    <3>2. CASE q = job.plan
      BY <1>3, <2>2, <3>1, <3>2 DEF Free, Readable
    <3>3. QED
      BY <2>2, <3>2
  <2>6. Coherent(tree)'
    BY <1>1, <1>4, <2>2, <2>5 DEF Coherent
  <2>7. JobInv'
    <3>1. CASE job.replan = None
      BY <2>1, <3>1 DEF JobInv
    <3>2. CASE job.replan # None
      <4>1. /\ job'.at = "replan" /\ job'.plan = job.plan /\ job'.content = job.content
            /\ job'.replan = job.replan
        BY <1>1, <2>1, <3>2 DEF Jobs
      <4>2. QED
        BY <1>3, <1>4, <2>2, <3>2, <4>1 DEF JobInv, Free
    <3>3. QED
      BY <3>1, <3>2
  <2>8. QED
    BY <1>1, <2>4, <2>6, <2>7, FilesStep
<1>7. CASE job.at = "replan"
  <2>1. tree' = [tree EXCEPT !.replans[job.plan] = job.replan] /\ job' = Idle
    BY <1>1, <1>7 DEF Stored, Wanted, AfterWrite
  <2>2. job.replan \in ReplanFiles
    BY <1>2, <1>3, <1>7
  <2>3. /\ tree' \in Files /\ tree'.plans = tree.plans /\ tree'.replans[job.plan] = job.replan
        /\ \A q \in Plans : q # job.plan => tree'.replans[q] = tree.replans[q]
    BY <1>1, <1>2, <2>1, <2>2, ReplanWritten
  <2>4. TypeOK'
    BY <1>1, <2>1, <2>3 DEF TypeOK
  <2>5. Readable(job.content)
    BY <1>2, ReadablePlan
  <2>6. Coherent(tree)'
    BY <1>1, <1>3, <1>4, <1>7, <2>3, <2>5 DEF Coherent
  <2>7. JobInv'
    BY <2>1 DEF JobInv
  <2>8. QED
    BY <1>1, <2>4, <2>6, <2>7, FilesStep
<1>8. QED
  BY <1>2, <1>5, <1>6, <1>7

LEMMA DieStep ==
    ASSUME PlanInv, DieAccepting
    PROVE  PlanInv'
<1>1. /\ UNCHANGED <<history, commits, answers>> /\ job # Idle /\ job \in Jobs
      /\ tree \in Files /\ Coherent(tree) /\ TypeOK /\ job' = Idle
      /\ tree' = tree \/ (tree' = Stored(Torn) /\ tree # Stored(Wanted))
  BY DEF DieAccepting, evidence, PlanInv, TypeOK, FilesInv, Idle
<1>2. job.at \in {"policy", "plan", "replan"} /\ job.plan \in Plans /\ job.content \in PlanFiles
  BY <1>1 DEF Jobs
<1>3. \A r, b : Answered(r, b)' <=> Answered(r, b)
  BY <1>1 DEF Answered
<1>4. tree' \in Files /\ Coherent(tree)'
  <2>1. CASE tree' = tree
    BY <1>1, <1>3, <2>1 DEF Coherent
  <2>2. CASE job.at = "policy" /\ tree' = Stored(Torn)
    BY <1>1, <1>3, <2>2 DEF Coherent, Stored, Files
  <2>3. CASE job.at = "plan" /\ tree' = Stored(Torn) /\ tree # Stored(Wanted)
    <3>1. tree' = [tree EXCEPT !.plans[job.plan] = Torn] /\ tree # [tree EXCEPT !.plans[job.plan] = job.content]
      BY <2>3 DEF Stored, Wanted
    <3>2. tree.plans[job.plan] # job.content
      BY <1>1, <3>1 DEF Files
    <3>3. tree.plans[job.plan] = None
      BY <1>1, <3>2 DEF PlanInv, JobInv, Free
    <3>4. /\ tree' \in Files /\ tree'.replans = tree.replans
          /\ \A q \in Plans : q # job.plan => tree'.plans[q] = tree.plans[q]
      BY <1>1, <1>2, <3>1, PlanWritten
    <3>5. ~Readable(tree.replans[job.plan])
      BY <1>1, <1>2, <3>3 DEF Coherent, Readable
    <3>6. QED
      BY <1>1, <1>3, <3>4, <3>5 DEF Coherent
  <2>4. CASE job.at = "replan" /\ tree' = Stored(Torn)
    <3>1. tree' = [tree EXCEPT !.replans[job.plan] = Torn]
      BY <2>4 DEF Stored
    <3>2. /\ tree' \in Files /\ tree'.plans = tree.plans /\ tree'.replans[job.plan] = Torn
          /\ \A q \in Plans : q # job.plan => tree'.replans[q] = tree.replans[q]
      BY <1>1, <1>2, <3>1, ReplanWritten
    <3>3. ~Readable(Torn)
      BY DEF Readable
    <3>4. QED
      BY <1>1, <1>3, <3>2, <3>3 DEF Coherent
  <2>5. QED
    BY <1>1, <1>2, <2>1, <2>2, <2>3, <2>4
<1>5. TypeOK'
  BY <1>1, <1>4 DEF TypeOK
<1>6. JobInv'
  BY <1>1 DEF JobInv
<1>7. QED
  BY <1>1, <1>4, <1>5, <1>6, FilesStep
-----------------------------------------------------------------------------
(* The recursion over the bases of replacements *)

\* What Bindings are at n when f are those below n.
KeptFrom(f, n, p) ==
    IF ReplanAt(n, p) = None THEN {}
    ELSE {b \in f[At(PlanAt(n, p).base, n)][ReplanAt(n, p).source] : b.unit \notin Fresh(n, p)}

BindingsFrom(f, n) ==
    [p \in Plans |-> IF ~Fits(n, p) THEN {}
                     ELSE IF Complete(Own(n, p) \cup KeptFrom(f, n, p))
                          THEN Own(n, p) \cup KeptFrom(f, n, p) ELSE {}]

LEMMA BindingsBelow ==
    ASSUME NEW n \in Nat, NEW f, NEW g, \A m \in 0..n - 1 : f[m] = g[m]
    PROVE  BindingsFrom(f, n) = BindingsFrom(g, n)
<1>1. ASSUME NEW p \in Plans, Fits(n, p)
      PROVE  KeptFrom(f, n, p) = KeptFrom(g, n, p)
  <2>1. At(PlanAt(n, p).base, n) \in 0..n - 1
    BY <1>1 DEF Fits, Stands
  <2>2. f[At(PlanAt(n, p).base, n)] = g[At(PlanAt(n, p).base, n)]
    BY <2>1
  <2>3. QED
    BY <2>2, Zenon DEF KeptFrom
<1>2. QED
  BY <1>1 DEF BindingsFrom

\* The recursion has a solution.
LEMMA BindingsExist ==
    ASSUME TypeOK
    PROVE  \E f : f = [n \in Positions |-> BindingsFrom(f, n)]
<1> DEFINE Solves(k, f) == f = [n \in 0..k |-> BindingsFrom(f, n)]
           S == {k \in Nat : \E f : Solves(k, f)}
<1>1. 0 \in S
  <2> DEFINE f == [n \in 0..0 |-> BindingsFrom(<<>>, n)]
  <2>1. \A n \in 0..0 : f[n] = BindingsFrom(f, n)
    <3>1. TAKE n \in 0..0
    <3>2. n = 0 /\ f[n] = BindingsFrom(<<>>, n)
      OBVIOUS
    <3> HIDE DEF f
    <3>3. BindingsFrom(<<>>, n) = BindingsFrom(f, n)
      <4>1. n \in Nat /\ \A m \in 0..n - 1 : FALSE
        BY <3>2
      <4>2. QED
        BY <4>1, BindingsBelow
    <3>4. QED
      BY <3>2, <3>3
  <2>2. f = [n \in 0..0 |-> BindingsFrom(f, n)]
    BY <2>1
  <2> HIDE DEF f
  <2>3. QED
    BY <2>2
<1>2. ASSUME NEW k \in Nat, k \in S
      PROVE  k + 1 \in S
  <2>1. PICK f : Solves(k, f)
    BY <1>2
  <2> DEFINE g == [n \in 0..k + 1 |-> BindingsFrom(f, n)]
  <2>2. \A n \in 0..k : f[n] = BindingsFrom(f, n)
    BY <2>1
  <2>3. \A n \in 0..k : g[n] = f[n]
    BY <2>2
  <2>4. \A n \in 0..k + 1 : g[n] = BindingsFrom(g, n)
    <3>1. TAKE n \in 0..k + 1
    <3>2. g[n] = BindingsFrom(f, n)
      OBVIOUS
    <3> HIDE DEF g
    <3>3. n \in Nat /\ \A m \in 0..n - 1 : f[m] = g[m]
      BY <2>3
    <3>4. QED
      BY <3>2, <3>3, BindingsBelow
  <2>5. Solves(k + 1, g)
    BY <2>4
  <2> HIDE DEF g, Solves
  <2>6. QED
    BY <2>5
<1>3. Nat \subseteq S
  <2> HIDE DEF S
  <2>1. QED
    BY <1>1, <1>2, AllNumbers
<1>4. Len0 \in S
  BY <1>3 DEF TypeOK, Len0
<1>5. QED
  BY <1>4 DEF Positions

LEMMA BindingsAre ==
    ASSUME TypeOK
    PROVE  /\ Bindings = [n \in Positions |-> BindingsFrom(Bindings, n)]
           /\ \A n \in Positions, p \in Plans :
                Bindings[n][p] = IF ~Fits(n, p) THEN {}
                                 ELSE IF Complete(Own(n, p) \cup KeptFrom(Bindings, n, p))
                                      THEN Own(n, p) \cup KeptFrom(Bindings, n, p) ELSE {}
<1>1. Bindings = CHOOSE f : f = [n \in Positions |-> BindingsFrom(f, n)]
  BY Zenon DEF Bindings, BindingsFrom, KeptFrom
<1> HIDE DEF Bindings
<1>2. Bindings = [n \in Positions |-> BindingsFrom(Bindings, n)]
  BY <1>1, BindingsExist
<1>3. \A n \in Positions : Bindings[n] = BindingsFrom(Bindings, n)
  BY <1>2
<1>4. QED
  BY <1>2, <1>3 DEF BindingsFrom
-----------------------------------------------------------------------------
(* What the bindings of a plan are *)

Coherence == \A n \in Positions : Coherent(TreeAt(n))

LEMMA FilesAreCoherent ==
    ASSUME TypeOK, FilesInv
    PROVE  Coherence
<1>1. Len0 \in Nat
  BY DEF TypeOK, Len0
<1> SUFFICES ASSUME NEW n \in Positions PROVE Coherent(TreeAt(n))
  BY DEF Coherence
<1>2. CASE n = 0
  BY <1>2, NoFilesType DEF TreeAt, Coherent, Readable
<1>3. CASE n # 0
  <2>1. n \in 1..Len0
    BY <1>1, <1>3 DEF Positions
  <2>2. QED
    BY <1>3, <2>1 DEF TreeAt, FilesInv
<1>4. QED
  BY <1>2, <1>3

\* The files and the base of a plan that stands.
LEMMA StandingFiles ==
    ASSUME TypeOK, IdsInv, NEW n \in Positions, NEW p \in Plans, Stands(n, p)
    PROVE  LET plan == PlanAt(n, p)
               base == At(plan.base, n)
           IN /\ plan \in PlanFiles
              /\ n \in Nat /\ base \in 0..n - 1 /\ base \in Positions /\ IdAt(base) = plan.base
              /\ ReplanAt(n, p) # None => ReplanAt(n, p) \in ReplanFiles
              /\ \A i \in base + 1..n : history[i].flaw # "merge"
<1> DEFINE plan == PlanAt(n, p)
           base == At(plan.base, n)
<1>1. n \in Nat /\ Len0 \in Nat /\ n <= Len0
  BY DEF TypeOK, Len0, Positions
<1>2. /\ plan \in PlanFiles \cup {None, Torn} /\ Readable(plan)
      /\ ReplanAt(n, p) \in ReplanFiles \cup {None, Torn} /\ ReplanAt(n, p) # Torn
      /\ base \in 0..n - 1 /\ \A i \in base + 1..n : history[i].flaw # "merge"
  BY FilesAt DEF Stands
<1>3. plan \in PlanFiles
  BY <1>2, ReadablePlan
<1>4. base \in Positions /\ base # -1
  BY <1>1, <1>2 DEF Positions
<1>5. IdAt(base) = plan.base
  BY <1>4, AtFacts
<1>6. QED
  BY <1>1, <1>2, <1>3, <1>4, <1>5

LEMMA FittingFiles ==
    ASSUME TypeOK, IdsInv, NEW n \in Positions, NEW p \in Plans, Fits(n, p)
    PROVE  LET plan == PlanAt(n, p)
               base == At(plan.base, n)
           IN /\ plan \in PlanFiles
              /\ n \in Nat /\ base \in 0..n - 1 /\ base \in Positions /\ IdAt(base) = plan.base
              /\ ReplanAt(n, p) # None => ReplanAt(n, p) \in ReplanFiles
              /\ \A i \in base + 1..n : history[i].flaw # "merge"
<1>1. Stands(n, p)
  BY DEF Fits
<1>2. QED
  BY <1>1, StandingFiles

\* The acceptance is the first commit from the base on that has the plan.
LEMMA AcceptedFirst ==
    ASSUME TypeOK, IdsInv, NEW n \in Positions, NEW p \in Plans, Stands(n, p)
    PROVE  LET base == At(PlanAt(n, p).base, n)
               at == AcceptedAt(n, p)
           IN /\ at \in base..n
              /\ PlanAt(at, p) # None
              /\ \A j \in base..at - 1 : PlanAt(j, p) = None
              /\ \A i \in base..n : PlanAt(i, p) # None /\ (\A j \in base..i - 1 : PlanAt(j, p) = None)
                    => i = at
<1> DEFINE base == At(PlanAt(n, p).base, n)
           at == AcceptedAt(n, p)
           S == {i \in base..n : PlanAt(i, p) # None}
<1>1. n \in Nat /\ base \in 0..n - 1 /\ PlanAt(n, p) \in PlanFiles
  BY StandingFiles
<1> HIDE DEF base
<1>2. n \in S /\ S \in SUBSET Nat
  BY <1>1, FilesAssumption
<1>3. PICK i \in S : \A j \in S : i <= j
  BY <1>2, LeastNumber
<1>4. /\ i \in base..n /\ PlanAt(i, p) # None
      /\ \A j \in base..i - 1 : PlanAt(j, p) = None
  BY <1>1, <1>3
<1>5. at \in base..n /\ PlanAt(at, p) # None /\ \A j \in base..at - 1 : PlanAt(j, p) = None
  BY <1>4 DEF AcceptedAt, base
<1> HIDE DEF at
<1>6. ASSUME NEW k \in base..n, PlanAt(k, p) # None, \A j \in base..k - 1 : PlanAt(j, p) = None
      PROVE  k = at
  <2>1. ~(k \in base..at - 1) /\ ~(at \in base..k - 1)
    BY <1>5, <1>6
  <2>2. QED
    BY <1>1, <1>5, <2>1
<1>7. QED
  BY <1>5, <1>6 DEF at, base

\* Between the base and the acceptance no commit names a unit.
LEMMA AcceptedFacts ==
    ASSUME TypeOK, IdsInv, NEW n \in Positions, NEW p \in Plans, Fits(n, p)
    PROVE  LET base == At(PlanAt(n, p).base, n)
               at == AcceptedAt(n, p)
           IN /\ at \in base..n
              /\ PlanAt(at, p) # None
              /\ \A j \in base..at - 1 : PlanAt(j, p) = None
              /\ \A i \in base + 1..at : history[i].trailers = <<>>
<1> DEFINE base == At(PlanAt(n, p).base, n)
           at == AcceptedAt(n, p)
<1>1. Stands(n, p)
  BY DEF Fits
<1>2. n \in Nat /\ base \in 0..n - 1
  BY FittingFiles
<1>3. at \in base..n /\ PlanAt(at, p) # None /\ \A j \in base..at - 1 : PlanAt(j, p) = None
  BY <1>1, AcceptedFirst
<1> HIDE DEF base, at
<1>4. at > base => \A j \in base + 1..at : history[j].trailers = <<>>
  BY DEF Fits, AcceptedAlone, at, base
<1>5. \A j \in base + 1..at : at > base
  BY <1>2, <1>3
<1>6. QED
  BY <1>3, <1>4, <1>5 DEF at, base

\* Each commit above the acceptance names one fresh unit, which no earlier one
\* names, and what it needs is preserved or named below it.
LEMMA ImplementsFacts ==
    ASSUME TypeOK, IdsInv, NEW n \in Positions, NEW p \in Plans, Fits(n, p)
    PROVE  LET at == AcceptedAt(n, p)
               unit(i) == history[i].trailers[1]
           IN \A i \in at + 1..n :
                /\ i \in 1..Len0
                /\ history[i].trailers = <<unit(i)>> /\ unit(i) \in Unit
                /\ ToSet(history[i].trailers) = {unit(i)}
                /\ unit(i) \in Fresh(n, p)
                /\ \A j \in at + 1..n : unit(i) = unit(j) => i = j
                /\ \A d \in PlanAt(n, p).units[unit(i)].needs :
                      \/ d \in Unit \ Fresh(n, p)
                      \/ \E j \in at + 1..i - 1 : unit(j) = d
<1> DEFINE at == AcceptedAt(n, p)
           unit(i) == history[i].trailers[1]
           named == [i \in at + 1..n |-> history[i].trailers]
           seen(i) == (Unit \ Fresh(n, p)) \cup UNION {ToSet(named[j]) : j \in at + 1..i - 1}
<1>1. at \in 0..n /\ n \in Nat /\ n <= Len0 /\ Len0 \in Nat
  <2>1. At(PlanAt(n, p).base, n) \in 0..n - 1 /\ n \in Nat
    BY FittingFiles
  <2>2. at \in At(PlanAt(n, p).base, n)..n
    BY AcceptedFacts
  <2>3. QED
    BY <2>1, <2>2 DEF TypeOK, Len0, Positions
<1>2. \A i \in at + 1..n :
        /\ Len(named[i]) = 1
        /\ named[i][1] \in Fresh(n, p) \ seen(i)
        /\ PlanAt(n, p).units[named[i][1]].needs \subseteq seen(i)
  BY DEF Fits, Implements
<1> HIDE DEF at
<1>3. \A i \in at + 1..n : named[i] = history[i].trailers
  OBVIOUS
<1> HIDE DEF named
<1>4. ASSUME NEW i \in at + 1..n
      PROVE  /\ i \in 1..Len0 /\ i \in Nat
             /\ history[i].trailers = <<unit(i)>> /\ unit(i) \in Unit
             /\ ToSet(history[i].trailers) = {unit(i)}
  <2>1. i \in 1..Len0 /\ i \in Nat
    BY <1>1
  <2>2. history[i].trailers \in Seq(Unit) /\ Len(history[i].trailers) = 1
    BY <1>2, <1>3, <2>1, CommitAt DEF Commits
  <2>3. QED
    BY <2>1, <2>2 DEF ToSet
<1>5. ASSUME NEW i \in at + 1..n, NEW d \in seen(i)
      PROVE  d \in Unit \ Fresh(n, p) \/ \E j \in at + 1..i - 1 : unit(j) = d
  <2>1. \A j \in at + 1..i - 1 : j \in at + 1..n
    BY <1>1
  <2>2. \A j \in at + 1..i - 1 : ToSet(named[j]) = {unit(j)}
    BY <1>3, <1>4, <2>1
  <2>3. QED
    BY <2>2
<1>6. ASSUME NEW i \in at + 1..n, NEW j \in at + 1..i - 1
      PROVE  unit(j) \in seen(i)
  <2>1. j \in at + 1..n
    BY <1>1
  <2>2. ToSet(named[j]) = {unit(j)}
    BY <1>3, <1>4, <2>1
  <2>3. QED
    BY <2>2
<1>7. ASSUME NEW i \in at + 1..n, NEW j \in at + 1..n, j < i
      PROVE  unit(i) # unit(j)
  <2>1. j \in at + 1..i - 1
    BY <1>1, <1>7
  <2>2. unit(i) \notin seen(i) /\ unit(j) \in seen(i)
    BY <1>2, <1>3, <1>6, <2>1
  <2>3. QED
    BY <2>2
<1> HIDE DEF seen
<1>8. \A i, j \in at + 1..n : unit(i) = unit(j) => i = j
  <2> SUFFICES ASSUME NEW i \in at + 1..n, NEW j \in at + 1..n, unit(i) = unit(j) PROVE i = j
    OBVIOUS
  <2>1. ~(i < j) /\ ~(j < i)
    BY <1>7
  <2>2. i \in Nat /\ j \in Nat
    BY <1>4
  <2>3. QED
    BY <2>1, <2>2
<1>9. \A i \in at + 1..n : unit(i) \in Fresh(n, p) /\ PlanAt(n, p).units[unit(i)].needs \subseteq seen(i)
  BY <1>2, <1>3
<1>10. QED
  BY <1>4, <1>5, <1>8, <1>9 DEF at
\* What a set of bindings of plan p at n is: one for each unit, at the last
\* commit that names the unit and nothing else, after those it needs.
BoundWell(n, p, all) ==
    /\ \A b \in all : /\ b.unit \in Unit /\ b.at \in LastAt(n, b.unit)
                      /\ history[b.at].trailers = <<b.unit>>
                      /\ history[b.at].flaw \notin {"merge", "source"}
    /\ {b.unit : b \in all} = Unit
    /\ \A b, c \in all : b.unit = c.unit => b = c
    /\ \A b, c \in all : c.unit \in PlanAt(n, p).units[b.unit].needs => c.at < b.at

\* No preserved unit needs a fresh one, for the answer that its replacement
\* carries out found all that depend on an invalid unit invalid.
LEMMA PreservedClosed ==
    ASSUME PlanInv, NEW n \in Positions, NEW p \in Plans, Fits(n, p), ReplanAt(n, p) # None
    PROVE  /\ ReplanAt(n, p).source \in Plans
           /\ \A u \in Unit \ Fresh(n, p) :
                LET base == At(PlanAt(n, p).base, n)
                IN /\ PlanAt(base, ReplanAt(n, p).source).units[u] = PlanAt(n, p).units[u]
                   /\ PlanAt(n, p).units[u].needs \cap Fresh(n, p) = {}
<1> DEFINE base == At(PlanAt(n, p).base, n)
           replan == ReplanAt(n, p)
<1>1. /\ PlanAt(n, p) \in PlanFiles /\ base \in Positions /\ IdAt(base) = PlanAt(n, p).base
      /\ replan \in ReplanFiles
  BY FittingFiles DEF PlanInv
<1>2. Readable(replan)
  BY <1>1, ReadableReplan
<1> HIDE DEF base
<1>3. Fresh(n, p) = replan.invalid /\ replan.source \in Plans
  BY <1>1 DEF Fresh, ReplanFiles
<1>4. \A u \in Unit \ Fresh(n, p) : PlanAt(base, replan.source).units[u] = PlanAt(n, p).units[u]
  BY DEF Fits, ReplanFits, base
<1>5. Coherent(TreeAt(n))
  BY FilesAreCoherent DEF PlanInv, Coherence
<1>6. PICK a \in answers : /\ a.plan = replan.source /\ a.head = PlanAt(n, p).base
                           /\ a.invalid = replan.invalid
  BY <1>2, <1>5 DEF Coherent, Answered, ReplanAt, PlanAt
<1>7. ClosedAt(a, base)
  BY <1>1, <1>6 DEF PlanInv, AnswersInv
<1>8. \A u \in Unit \ Fresh(n, p) :
        PlanAt(base, replan.source).units[u].needs \cap Fresh(n, p) = {}
  BY <1>3, <1>6, <1>7 DEF ClosedAt
<1>9. QED
  BY <1>3, <1>4, <1>8 DEF base

LEMMA BoundBySource ==
    ASSUME PlanInv, NEW n \in Positions, NEW p \in Plans, Fits(n, p),
           NEW m, m = At(PlanAt(n, p).base, n),
           \A q \in Plans : Bindings[m][q] # {} => BoundWell(m, q, Bindings[m][q])
    PROVE  \A b \in KeptFrom(Bindings, n, p) :
              /\ b.unit \in Unit \ Fresh(n, p) /\ b.at \in LastAt(n, b.unit) /\ b.at <= m
              /\ history[b.at].trailers = <<b.unit>>
              /\ history[b.at].flaw \notin {"merge", "source"}
              /\ PlanAt(n, p).units[b.unit].needs \cap Fresh(n, p) = {}
              /\ \A c \in KeptFrom(Bindings, n, p) :
                    /\ b.unit = c.unit => b = c
                    /\ c.unit \in PlanAt(n, p).units[b.unit].needs => c.at < b.at
<1> DEFINE source == ReplanAt(n, p).source
           at == AcceptedAt(n, p)
<1>1. CASE ReplanAt(n, p) = None
  BY <1>1 DEF KeptFrom
<1>2. CASE ReplanAt(n, p) # None
  <2>1. KeptFrom(Bindings, n, p) = {b \in Bindings[m][source] : b.unit \notin Fresh(n, p)}
    BY <1>2 DEF KeptFrom
  <2>2. source \in Plans /\ \A u \in Unit \ Fresh(n, p) :
            /\ PlanAt(m, source).units[u] = PlanAt(n, p).units[u]
            /\ PlanAt(n, p).units[u].needs \cap Fresh(n, p) = {}
    BY <1>2, PreservedClosed
  <2>3. m \in 0..n - 1 /\ n \in Nat /\ at \in m..n /\ \A i \in m + 1..at : history[i].trailers = <<>>
    BY FittingFiles, AcceptedFacts DEF PlanInv
  <2>4. \A i \in at + 1..n : /\ ToSet(history[i].trailers) = {history[i].trailers[1]}
                             /\ history[i].trailers[1] \in Fresh(n, p)
    BY ImplementsFacts DEF PlanInv
  <2> HIDE DEF at, source
  <2>5. ASSUME NEW b \in KeptFrom(Bindings, n, p)
        PROVE  /\ b.unit \in Unit \ Fresh(n, p) /\ b.at \in LastAt(n, b.unit) /\ b.at <= m
               /\ history[b.at].trailers = <<b.unit>>
               /\ history[b.at].flaw \notin {"merge", "source"}
    <3>1. /\ b.unit \in Unit \ Fresh(n, p) /\ b.at \in LastAt(m, b.unit)
          /\ history[b.at].trailers = <<b.unit>>
          /\ history[b.at].flaw \notin {"merge", "source"}
      BY <2>1, <2>2 DEF BoundWell
    <3>2. b.at \in 1..m /\ b.unit \in ToSet(history[b.at].trailers)
          /\ \A j \in b.at + 1..m : b.unit \notin ToSet(history[j].trailers)
      BY <3>1 DEF LastAt
    <3>3. ASSUME NEW j \in b.at + 1..n
          PROVE  b.unit \notin ToSet(history[j].trailers)
      <4>1. CASE j \in b.at + 1..m
        BY <3>2, <4>1
      <4>2. CASE j \in m + 1..at
        BY <2>3, <4>2 DEF ToSet
      <4>3. CASE j \in at + 1..n
        BY <2>4, <3>1, <4>3
      <4>4. QED
        BY <2>3, <3>2, <4>1, <4>2, <4>3
    <3>4. b.at \in 1..n /\ b.at <= m
      BY <2>3, <3>2
    <3>5. b.at \in LastAt(n, b.unit)
      BY <3>2, <3>3, <3>4 DEF LastAt
    <3>6. QED
      BY <3>1, <3>4, <3>5
  <2>6. ASSUME NEW b \in KeptFrom(Bindings, n, p), NEW c \in KeptFrom(Bindings, n, p)
        PROVE  /\ b.unit = c.unit => b = c
               /\ c.unit \in PlanAt(n, p).units[b.unit].needs => c.at < b.at
    <3>1. /\ b \in Bindings[m][source] /\ c \in Bindings[m][source] /\ BoundWell(m, source, Bindings[m][source])
      BY <2>1, <2>2
    <3>2. PlanAt(m, source).units[b.unit] = PlanAt(n, p).units[b.unit]
      BY <2>2, <2>5
    <3>3. QED
      BY <3>1, <3>2 DEF BoundWell
  <2>7. QED
    BY <2>2, <2>5, <2>6
<1>3. QED
  BY <1>1, <1>2

LEMMA BoundHere ==
    ASSUME PlanInv, NEW n \in Positions, NEW p \in Plans, Fits(n, p)
    PROVE  \A b \in Own(n, p) :
              /\ b.unit \in Unit \cap Fresh(n, p) /\ b.at \in LastAt(n, b.unit)
              /\ b.at > AcceptedAt(n, p)
              /\ history[b.at].trailers = <<b.unit>>
              /\ history[b.at].flaw \notin {"merge", "source"}
              /\ \A c \in Own(n, p) :
                    /\ b.unit = c.unit => b = c
                    /\ c.unit \in PlanAt(n, p).units[b.unit].needs => c.at < b.at
<1> DEFINE at == AcceptedAt(n, p)
           base == At(PlanAt(n, p).base, n)
           unit(i) == history[i].trailers[1]
<1>1. /\ n \in Nat /\ base \in 0..n - 1 /\ at \in base..n
      /\ \A i \in base + 1..n : history[i].flaw # "merge"
  BY FittingFiles, AcceptedFacts DEF PlanInv
<1>2. \A i \in at + 1..n :
        /\ i \in 1..Len0
        /\ history[i].trailers = <<unit(i)>> /\ unit(i) \in Unit
        /\ ToSet(history[i].trailers) = {unit(i)}
        /\ unit(i) \in Fresh(n, p)
        /\ \A j \in at + 1..n : unit(i) = unit(j) => i = j
        /\ \A d \in PlanAt(n, p).units[unit(i)].needs :
              d \in Unit \ Fresh(n, p) \/ \E j \in at + 1..i - 1 : unit(j) = d
  BY ImplementsFacts DEF PlanInv
<1>3. Own(n, p) = {[unit |-> unit(i), at |-> i] : i \in at + 1..n}
  BY DEF Own
<1> HIDE DEF at, base
<1>4. \A b \in Own(n, p) : b.at \in at + 1..n /\ b.unit = unit(b.at) /\ b = [unit |-> b.unit, at |-> b.at]
  BY <1>3
<1>5. ASSUME NEW i \in at + 1..n
      PROVE  /\ i \in LastAt(n, unit(i)) /\ history[i].flaw \notin {"merge", "source"}
  <2>1. i \in base + 1..n /\ i \in 1..n
    BY <1>1
  <2>2. history[i].trailers # <<>>
    BY <1>2
  <2>3. history[i].flaw \notin {"merge", "source"}
    BY <1>1, <1>2, <2>1, <2>2 DEF PlanInv, SourcesInv
  <2>4. ASSUME NEW j \in i + 1..n
        PROVE  unit(i) \notin ToSet(history[j].trailers)
    <3>1. j \in at + 1..n /\ i # j
      BY <1>1
    <3>2. QED
      BY <1>2, <3>1
  <2>5. unit(i) \in ToSet(history[i].trailers)
    BY <1>2
  <2>6. QED
    BY <2>1, <2>3, <2>4, <2>5 DEF LastAt
<1>6. ASSUME NEW b \in Own(n, p), NEW c \in Own(n, p)
      PROVE  /\ b.unit = c.unit => b = c
             /\ c.unit \in PlanAt(n, p).units[b.unit].needs => c.at < b.at
  <2>1. ASSUME b.unit = c.unit PROVE b.at = c.at
    BY <1>2, <1>4, <2>1
  <2>2. ASSUME c.unit \in PlanAt(n, p).units[b.unit].needs
        PROVE  c.at < b.at
    <3>1. PICK j \in at + 1..b.at - 1 : unit(j) = c.unit
      BY <1>2, <1>4, <2>2
    <3>2. j \in at + 1..n /\ j < b.at
      BY <1>1, <1>4
    <3>3. j = c.at
      BY <1>2, <1>4, <3>1, <3>2
    <3>4. QED
      BY <3>2, <3>3
  <2>3. QED
    BY <1>4, <2>1, <2>2
<1>7. \A i \in at + 1..n : i > at
  BY <1>1
<1>8. QED
  BY <1>2, <1>4, <1>5, <1>6, <1>7 DEF at
\* By the least position whose bindings would not be.
LEMMA BoundSound ==
    ASSUME PlanInv
    PROVE  \A n \in Positions, p \in Plans :
              Bindings[n][p] # {} => BoundWell(n, p, Bindings[n][p]) /\ Fits(n, p)
<1> DEFINE Bad == {n \in Positions : \E p \in Plans :
                      Bindings[n][p] # {} /\ ~BoundWell(n, p, Bindings[n][p])}
<1>1. TypeOK /\ IdsInv /\ Positions \subseteq Nat
  BY DEF PlanInv, Positions, TypeOK, Len0
<1>2. \A n \in Positions, p \in Plans : Bindings[n][p] # {} =>
        /\ Fits(n, p)
        /\ Bindings[n][p] = Own(n, p) \cup KeptFrom(Bindings, n, p)
        /\ Complete(Bindings[n][p])
  <2>1. \A n \in Positions, p \in Plans :
            Bindings[n][p] = IF ~Fits(n, p) THEN {}
                             ELSE IF Complete(Own(n, p) \cup KeptFrom(Bindings, n, p))
                                  THEN Own(n, p) \cup KeptFrom(Bindings, n, p) ELSE {}
    BY <1>1, BindingsAre
  <2>2. QED
    BY <2>1, Zenon
<1>3. ASSUME Bad # {} PROVE FALSE
  <2>1. PICK n \in Bad : \A m \in Bad : n <= m
    <3>1. Bad \in SUBSET Nat
      BY <1>1
    <3> HIDE DEF Bad
    <3>2. QED
      BY <1>3, <3>1, LeastNumber
  <2>2. n \in Positions
    BY <2>1
  <2>3. PICK p \in Plans : Bindings[n][p] # {} /\ ~BoundWell(n, p, Bindings[n][p])
    BY <2>1
  <2> DEFINE m == At(PlanAt(n, p).base, n)
             at == AcceptedAt(n, p)
             all == Bindings[n][p]
             own == Own(n, p)
             kept == KeptFrom(Bindings, n, p)
  <2>4. Fits(n, p) /\ all = own \cup kept /\ Complete(all)
    BY <1>2, <2>2, <2>3
  <2>5. n \in Nat /\ m \in 0..n - 1 /\ m \in Positions /\ at \in m..n
    BY <1>1, <2>2, <2>4, FittingFiles, AcceptedFacts
  <2>6. m \notin Bad
    <3>1. ~(n <= m)
      BY <2>5
    <3>2. QED
      BY <2>1, <3>1
  <2>7. \A q \in Plans : Bindings[m][q] # {} => BoundWell(m, q, Bindings[m][q])
    BY <2>5, <2>6
  <2> HIDE DEF Bad
  <2>8. \A b \in kept :
              /\ b.unit \in Unit \ Fresh(n, p) /\ b.at \in LastAt(n, b.unit) /\ b.at <= m
              /\ history[b.at].trailers = <<b.unit>>
              /\ history[b.at].flaw \notin {"merge", "source"}
              /\ PlanAt(n, p).units[b.unit].needs \cap Fresh(n, p) = {}
              /\ \A c \in kept :
                    /\ b.unit = c.unit => b = c
                    /\ c.unit \in PlanAt(n, p).units[b.unit].needs => c.at < b.at
    BY <2>2, <2>4, <2>7, BoundBySource
  <2>9. \A b \in own :
              /\ b.unit \in Unit \cap Fresh(n, p) /\ b.at \in LastAt(n, b.unit)
              /\ b.at > at
              /\ history[b.at].trailers = <<b.unit>>
              /\ history[b.at].flaw \notin {"merge", "source"}
              /\ \A c \in own :
                    /\ b.unit = c.unit => b = c
                    /\ c.unit \in PlanAt(n, p).units[b.unit].needs => c.at < b.at
    BY <2>2, <2>4, BoundHere
  <2>10. \A b \in own, c \in kept : c.at < b.at
    <3>1. TAKE b \in own, c \in kept
    <3>2. b.at \in 1..n /\ c.at \in 1..n
      BY <2>8, <2>9 DEF LastAt
    <3>3. QED
      BY <2>5, <2>8, <2>9, <3>2
  <2>11. {b.unit : b \in all} = Unit
    BY <2>4 DEF Complete
  <2> HIDE DEF own, kept, all, m, at
  <2>12. \A b \in all : /\ b.unit \in Unit /\ b.at \in LastAt(n, b.unit)
                        /\ history[b.at].trailers = <<b.unit>>
                        /\ history[b.at].flaw \notin {"merge", "source"}
    BY <2>4, <2>8, <2>9
  <2>13. \A b, c \in all : b.unit = c.unit => b = c
    BY <2>4, <2>8, <2>9
  <2>14. \A b, c \in all : c.unit \in PlanAt(n, p).units[b.unit].needs => c.at < b.at
    BY <2>4, <2>8, <2>9, <2>10
  <2>15. BoundWell(n, p, all)
    BY <2>11, <2>12, <2>13, <2>14 DEF BoundWell
  <2>16. QED
    BY <2>3, <2>15 DEF all
<1>4. QED
  BY <1>2, <1>3
\* The gate's view of the bindings.
LEMMA BoundFacts ==
    ASSUME PlanInv, NEW n \in Positions, NEW p \in Plans, Bound(n, p) # None
    PROVE  LET bound == Bound(n, p)
           IN /\ Fits(n, p)
              /\ \A u \in Unit : /\ bound[u].at \in LastAt(n, u)
                                 /\ history[bound[u].at].trailers = <<u>>
                                 /\ history[bound[u].at].flaw \notin {"merge", "source"}
                                 /\ bound[u].id = IdAt(bound[u].at)
                                 /\ bound[u].patch = history[bound[u].at].patch
              /\ \A u, d \in Unit : d \in PlanAt(n, p).units[u].needs => bound[d].at < bound[u].at
<1> DEFINE all == Bindings[n][p]
           of(u) == CHOOSE b \in all : b.unit = u
           bound == Bound(n, p)
<1>1. all # {} /\ bound = [u \in Unit |-> [at |-> of(u).at, id |-> IdAt(of(u).at),
                                           patch |-> history[of(u).at].patch]]
  BY DEF Bound
<1>2. Fits(n, p) /\ BoundWell(n, p, all)
  BY <1>1, BoundSound
<1> HIDE DEF all, bound
<1>3. \A u \in Unit : \E b \in all : b.unit = u
  BY <1>2 DEF BoundWell
<1>4. \A u \in Unit : of(u) \in all /\ of(u).unit = u
  BY <1>3
<1> HIDE DEF of
<1>5. \A u \in Unit : /\ of(u).at \in LastAt(n, u)
                      /\ history[of(u).at].trailers = <<u>>
                      /\ history[of(u).at].flaw \notin {"merge", "source"}
  BY <1>2, <1>4 DEF BoundWell
<1>6. \A u, d \in Unit : d \in PlanAt(n, p).units[u].needs => of(d).at < of(u).at
  BY <1>2, <1>4 DEF BoundWell
<1>7. \A u \in Unit : /\ bound[u].at = of(u).at /\ bound[u].id = IdAt(of(u).at)
                      /\ bound[u].patch = history[of(u).at].patch
  BY <1>1
<1>8. QED
  BY <1>2, <1>5, <1>6, <1>7 DEF bound
-----------------------------------------------------------------------------
(* The recursion over the units *)

LEMMA Places ==
    /\ Len(Units) \in Nat /\ DOMAIN Units = 1..Len(Units)
    /\ \A i \in DOMAIN Units : Units[i] \in Unit
    /\ \A u \in Unit : Place(u) \in DOMAIN Units /\ Units[Place(u)] = u
    /\ \A i \in DOMAIN Units : Place(Units[i]) = i
<1>1. Units \in Seq(Unit)
  BY UnitsAssumption
<1>2. Len(Units) \in Nat /\ DOMAIN Units = 1..Len(Units) /\ \A i \in DOMAIN Units : Units[i] \in Unit
  BY <1>1
<1>3. ASSUME NEW u \in Unit PROVE Place(u) \in DOMAIN Units /\ Units[Place(u)] = u
  <2>1. \E i \in DOMAIN Units : Units[i] = u
    BY DEF Unit, ToSet
  <2>2. QED
    BY <2>1 DEF Place
<1>4. ASSUME NEW i \in DOMAIN Units PROVE Place(Units[i]) = i
  BY <1>2, <1>3, UnitsAssumption DEF IsInjective
<1>5. QED
  BY <1>2, <1>3, <1>4

\* What the reasons of unit i are when f are those of the units before it.
Against(f, i) == {Units[j] : j \in {k \in 1..i - 1 : f[k] # {}}}
ReasonsFrom(f, i, prior, bound, units, exit) ==
    ReasonsOf(prior, bound, units, exit, Units[i], Against(f, i))

LEMMA ReasonsBelow ==
    ASSUME NEW i \in Nat, NEW f, NEW g, \A k \in 1..i - 1 : f[k] = g[k]
    PROVE  Against(f, i) = Against(g, i)
BY DEF Against

LEMMA ReasonsExist ==
    ASSUME NEW prior, NEW bound, NEW units, NEW exit
    PROVE  \E f : f = [i \in DOMAIN Units |-> ReasonsFrom(f, i, prior, bound, units, exit)]
<1> DEFINE R(f, i) == ReasonsFrom(f, i, prior, bound, units, exit)
           Solves(n, f) == f = [i \in 1..n |-> R(f, i)]
           S == {n \in Nat : \E f : Solves(n, f)}
<1>1. 0 \in S
  <2> DEFINE f == [i \in 1..0 |-> {}]
  <2>1. f = [i \in 1..0 |-> R(f, i)]
    <3>1. \A i \in 1..0 : FALSE
      OBVIOUS
    <3>2. QED
      BY <3>1
  <2> HIDE DEF f, R
  <2>2. QED
    BY <2>1
<1>2. ASSUME NEW n \in Nat, n \in S
      PROVE  n + 1 \in S
  <2>1. PICK f : Solves(n, f)
    BY <1>2
  <2> DEFINE g == [i \in 1..n + 1 |-> R(f, i)]
  <2>2. \A i \in 1..n : f[i] = R(f, i)
    BY <2>1
  <2> HIDE DEF R
  <2>3. \A i \in 1..n : g[i] = f[i]
    BY <2>2
  <2>4. \A i \in 1..n + 1 : g[i] = R(g, i)
    <3>1. TAKE i \in 1..n + 1
    <3>2. g[i] = R(f, i)
      OBVIOUS
    <3> HIDE DEF g
    <3>3. i \in Nat /\ \A k \in 1..i - 1 : f[k] = g[k]
      BY <2>3
    <3>4. Against(f, i) = Against(g, i)
      BY <3>3, ReasonsBelow
    <3>5. QED
      BY <3>2, <3>4 DEF R, ReasonsFrom
  <2>5. g = [i \in 1..n + 1 |-> R(g, i)]
    BY <2>4
  <2> HIDE DEF g
  <2>6. QED
    BY <2>5
<1>3. Nat \subseteq S
  <2> HIDE DEF S
  <2>1. QED
    BY <1>1, <1>2, AllNumbers
<1>4. Len(Units) \in S
  BY <1>3, Places
<1>5. PICK f : Solves(Len(Units), f)
  BY <1>4
<1>6. QED
  BY <1>5, Places

\* The reasons of a unit follow from those of the units before it.
LEMMA ReasonsAre ==
    ASSUME NEW prior, NEW bound, NEW units, NEW exit
    PROVE  \E f : /\ Reasons(prior, bound, units, exit) = [u \in Unit |-> f[Place(u)]]
                  /\ \A i \in DOMAIN Units : f[i] = ReasonsFrom(f, i, prior, bound, units, exit)
<1> DEFINE of == CHOOSE f : f = [i \in DOMAIN Units |-> ReasonsFrom(f, i, prior, bound, units, exit)]
<1>1. of = [i \in DOMAIN Units |-> ReasonsFrom(of, i, prior, bound, units, exit)]
  BY ReasonsExist
<1>2. Reasons(prior, bound, units, exit) = [u \in Unit |-> of[Place(u)]]
  BY Zenon DEF Reasons, ReasonsFrom, Against
<1> HIDE DEF of
<1>3. \A i \in DOMAIN Units : of[i] = ReasonsFrom(of, i, prior, bound, units, exit)
  BY <1>1
<1>4. QED
  BY <1>2, <1>3

\* There is nothing against a unit only when there is nothing against those it
\* needs, its commit is in scope and satisfies its claim, and the check passed.
LEMMA NoReasons ==
    ASSUME NEW prior, NEW bound, NEW units, NEW exit, Admitted(units), NEW u \in Unit,
           Reasons(prior, bound, units, exit)[u] = {}
    PROVE  /\ \A d \in units[u].needs : Reasons(prior, bound, units, exit)[d] = {}
           /\ history[bound[u].at].flaw # "stray"
           /\ Evaluation(history[bound[u].at].blueprint, ClaimOf[u]) = "satisfied"
           /\ exit = 0 /\ ~Stale(prior, bound, units, u)
<1>1. PICK f : /\ Reasons(prior, bound, units, exit) = [v \in Unit |-> f[Place(v)]]
               /\ \A i \in DOMAIN Units : f[i] = ReasonsFrom(f, i, prior, bound, units, exit)
  BY ReasonsAre
<1>2. \A v \in Unit : Reasons(prior, bound, units, exit)[v] = f[Place(v)]
  BY <1>1
<1>3. Place(u) \in DOMAIN Units /\ Units[Place(u)] = u
  BY Places
<1> DEFINE invalid == Against(f, Place(u))
<1>4. ReasonsOf(prior, bound, units, exit, u, invalid) = {}
  <2>1. f[Place(u)] = ReasonsOf(prior, bound, units, exit, Units[Place(u)], invalid)
    BY <1>1, <1>3 DEF ReasonsFrom
  <2>2. QED
    BY <1>2, <1>3, <2>1
<1> HIDE DEF invalid
<1>5. /\ units[u].needs \cap invalid = {}
      /\ history[bound[u].at].flaw # "stray"
      /\ ClaimReason(bound, u) = {}
      /\ exit = 0 /\ ~Stale(prior, bound, units, u)
  BY <1>4, Zenon DEF ReasonsOf
<1>6. Evaluation(history[bound[u].at].blueprint, ClaimOf[u]) = "satisfied"
  BY <1>5 DEF ClaimReason
<1>7. ASSUME NEW d \in units[u].needs PROVE Reasons(prior, bound, units, exit)[d] = {}
  <2>1. d \in Unit /\ Place(d) < Place(u)
    BY <1>7 DEF Admitted
  <2>2. Place(d) \in DOMAIN Units /\ Units[Place(d)] = d
    BY <2>1, Places
  <2>3. Place(d) \in 1..Place(u) - 1
    BY <1>3, <2>1, <2>2, Places
  <2>4. f[Place(d)] = {}
    BY <1>5, <1>7, <2>2, <2>3 DEF invalid, Against
  <2>5. QED
    BY <1>2, <2>1, <2>4
<1>8. QED
  BY <1>5, <1>6, <1>7
-----------------------------------------------------------------------------
(* The gate *)

AnswerOf(g) ==
    [plan |-> g.plan, head |-> g.head, exit |-> g.exit, verdict |-> g.verdict,
     invalid |-> {u \in Unit : g.reasons[u] # {}}]

\* What the gate at the head comes to holds at the head.
LEMMA JudgementFacts ==
    ASSUME PlanInv, NEW p \in Plans, NEW g \in Judgements(p)
    PROVE  /\ g.plan = p /\ g.head = Head0
           /\ PlanAt(Len0, p) \in PlanFiles /\ Readable(TreeAt(Len0).policy)
           /\ ClosedAt(AnswerOf(g), Len0)
           /\ g.verdict = "pass" => EarnedAt(AnswerOf(g), Len0)
<1> DEFINE bound == Bound(Len0, p)
           units == PlanAt(Len0, p).units
           prior == Prior(p, bound)
<1>1. bound # None
  BY DEF Judgements
<1>2. PICK exit : g = Bundle(p, prior, bound, units, exit)
  BY DEF Judgements
<1> DEFINE R == Reasons(prior, bound, units, exit)
           a == AnswerOf(g)
<1>3. Len0 \in Positions /\ Len0 \in Nat
  BY DEF PlanInv, TypeOK, Len0, Positions
<1>4. /\ Fits(Len0, p)
      /\ \A u \in Unit : /\ bound[u].at \in LastAt(Len0, u)
                         /\ history[bound[u].at].trailers = <<u>>
                         /\ history[bound[u].at].flaw \notin {"merge", "source"}
      /\ \A u, d \in Unit : d \in units[u].needs => bound[d].at < bound[u].at
  BY <1>1, <1>3, BoundFacts
<1>5. /\ g.plan = p /\ g.head = Head0 /\ g.exit = exit /\ g.reasons = R /\ g.verdict = VerdictOf(R)
  BY <1>2 DEF Bundle
<1>6. Admitted(units) /\ PlanAt(Len0, p) \in PlanFiles /\ Readable(TreeAt(Len0).policy)
  BY <1>3, <1>4, FittingFiles DEF Fits, Stands, PlanInv
<1> HIDE DEF bound, units, prior
<1>7. \A u \in Unit : R[u] = {} =>
        /\ \A d \in units[u].needs : R[d] = {}
        /\ history[bound[u].at].flaw # "stray"
        /\ Evaluation(history[bound[u].at].blueprint, ClaimOf[u]) = "satisfied"
        /\ exit = 0
  BY <1>6, NoReasons
<1> HIDE DEF R
<1>8. a.plan = p /\ a.exit = exit /\ a.invalid = {u \in Unit : R[u] # {}} /\ a.verdict = g.verdict
  BY <1>5 DEF AnswerOf
<1> HIDE DEF a
<1>9. ClosedAt(a, Len0)
  BY <1>7, <1>8 DEF ClosedAt, units
<1>10. ASSUME g.verdict = "pass"
       PROVE  EarnedAt(a, Len0)
  <2>1. \A u \in Unit : R[u] = {}
    <3>1. UNION {R[u] : u \in Unit} = {}
      BY <1>5, <1>10 DEF VerdictOf
    <3>2. QED
      BY <3>1
  <2>2. ASSUME NEW u \in Unit
        PROVE  \E i \in LastAt(Len0, u) :
                  /\ history[i].trailers = <<u>> /\ history[i].flaw = "none"
                  /\ Evaluation(history[i].blueprint, ClaimOf[u]) = "satisfied"
                  /\ \A d \in PlanAt(Len0, a.plan).units[u].needs : \E j \in LastAt(Len0, d) : j < i
                  /\ a.exit = 0
    <3>1. bound[u].at \in LastAt(Len0, u) /\ bound[u].at \in 1..Len0
      BY <1>4 DEF LastAt
    <3>2. history[bound[u].at].flaw \in {"none", "source", "stray", "merge"}
      BY <3>1, CommitAt DEF PlanInv, Commits
    <3>3. history[bound[u].at].flaw = "none"
      BY <1>4, <1>7, <2>1, <3>2
    <3>4. \A d \in units[u].needs : d \in Unit
      BY <1>6 DEF Admitted
    <3>5. \A d \in units[u].needs : bound[d].at \in LastAt(Len0, d) /\ bound[d].at < bound[u].at
      BY <1>4, <3>4
    <3>6. \A d \in PlanAt(Len0, a.plan).units[u].needs : \E j \in LastAt(Len0, d) : j < bound[u].at
      BY <1>8, <3>5 DEF units
    <3>7. history[bound[u].at].trailers = <<u>>
      BY <1>4
    <3>8. Evaluation(history[bound[u].at].blueprint, ClaimOf[u]) = "satisfied" /\ a.exit = 0
      BY <1>7, <1>8, <2>1
    <3>9. QED
      BY <3>1, <3>3, <3>6, <3>7, <3>8
  <2>3. QED
    BY <2>2 DEF EarnedAt
<1>11. QED
  BY <1>5, <1>6, <1>9, <1>10 DEF a

\* A new answer at the head, while the history stands.
LEMMA SettleStep ==
    ASSUME PlanInv, NEW p \in Plans, NEW g \in Judgements(p), Settle(g)
    PROVE  /\ UNCHANGED <<history, commits, tree>> /\ job = Idle
           /\ answers' = answers \cup {AnswerOf(g)}
           /\ IdsInv' /\ SourcesInv' /\ FilesInv' /\ AnswersInv'
<1>1. /\ UNCHANGED <<history, commits, tree>> /\ job = Idle
      /\ answers' = answers \cup {AnswerOf(g)}
  BY DEF Settle, repository, Answer, AnswerOf, PlanInv, TypeOK, Jobs, Idle
<1>2. Len0' = Len0 /\ IdsInv' /\ SourcesInv'
  BY <1>1 DEF PlanInv, IdsInv, SourcesInv, Len0
<1>3. FilesInv'
  BY <1>1, <1>2 DEF PlanInv, FilesInv, Coherent, Answered
<1>4. \A n : TreeAt(n)' = TreeAt(n) /\ IdAt(n)' = IdAt(n)
  BY <1>1 DEF TreeAt, IdAt
<1>5. \A a, n : ClosedAt(a, n)' <=> ClosedAt(a, n)
  BY <1>4 DEF ClosedAt, PlanAt
<1>6. \A n, u : LastAt(n, u)' = LastAt(n, u)
  BY <1>1 DEF LastAt
<1>7. \A a, n : EarnedAt(a, n)' <=> EarnedAt(a, n)
  BY <1>1, <1>4, <1>6, ZenonT(40) DEF EarnedAt, PlanAt
<1>8. Len0 \in Positions /\ Head0 \in 0..commits /\ \A n \in Positions : IdAt(n) = Head0 => n = Len0
  <2>1. Len0 \in Positions
    BY DEF PlanInv, TypeOK, Len0, Positions
  <2>2. QED
    BY <2>1, IdsGrow DEF PlanInv, Head0
<1>9. /\ g.head = Head0 /\ ClosedAt(AnswerOf(g), Len0)
      /\ g.verdict = "pass" => EarnedAt(AnswerOf(g), Len0)
  BY JudgementFacts
<1>10. AnswerOf(g).head = g.head /\ AnswerOf(g).verdict = g.verdict
  BY DEF AnswerOf
<1>11. ASSUME NEW a \in answers'
       PROVE  /\ a.head \in 0..commits
              /\ \A n \in Positions : IdAt(n) = a.head =>
                    ClosedAt(a, n) /\ (a.verdict = "pass" => EarnedAt(a, n))
  <2>1. CASE a \in answers
    BY <2>1 DEF PlanInv, AnswersInv
  <2>2. CASE a = AnswerOf(g)
    BY <1>8, <1>9, <1>10, <2>2
  <2>3. QED
    BY <1>1, <2>1, <2>2
<1>12. AnswersInv'
  BY <1>1, <1>2, <1>4, <1>5, <1>7, <1>11 DEF AnswersInv, Positions
<1>13. QED
  BY <1>1, <1>2, <1>3, <1>12

LEMMA GateStep ==
    ASSUME PlanInv, Gate \/ Export
    PROVE  PlanInv'
<1>1. PICK p \in Plans : \E g \in Judgements(p) : Settle(g)
  BY DEF Gate, Export
<1>2. PICK g \in Judgements(p) : Settle(g)
  BY <1>1
<1>3. /\ UNCHANGED <<history, commits, tree>> /\ job = Idle
      /\ IdsInv' /\ SourcesInv' /\ FilesInv' /\ AnswersInv'
  BY <1>2, SettleStep
<1>4. job' = job
  BY DEF Gate, Export
<1>5. QED
  BY <1>3, <1>4 DEF PlanInv, TypeOK, JobInv

LEMMA ReplanStep ==
    ASSUME PlanInv, Replan
    PROVE  PlanInv'
<1>1. PICK g \in Judgements(Source) :
        /\ Settle(g)
        /\ \/ Invalid(g) = {} /\ UNCHANGED job
           \/ /\ Invalid(g) # {}
              /\ \E new \in [Invalid(g) -> [ver : {2}, needs : SUBSET Unit]] :
                   LET units == [u \in Unit |-> IF u \in Invalid(g) THEN new[u]
                                               ELSE PlanAt(Len0, Source).units[u]]
                   IN /\ Admitted(units)
                      /\ StartAccept(Other, TreeAt(Len0).policy,
                            [base |-> Head0, policy |-> TreeAt(Len0).policy, units |-> units],
                            [source |-> Source, invalid |-> Invalid(g)])
  BY DEF Replan
<1>2. Source \in Plans /\ Other \in Plans
  BY DEF Plans
<1>3. /\ UNCHANGED <<history, commits, tree>> /\ job = Idle
      /\ answers' = answers \cup {AnswerOf(g)}
      /\ IdsInv' /\ SourcesInv' /\ FilesInv' /\ AnswersInv'
  BY <1>1, <1>2, SettleStep
<1>4. CASE UNCHANGED job
  BY <1>3, <1>4 DEF PlanInv, TypeOK, JobInv
<1>5. ASSUME NEW new \in [Invalid(g) -> [ver : {2}, needs : SUBSET Unit]],
             Invalid(g) # {},
             NEW units, units = [u \in Unit |-> IF u \in Invalid(g) THEN new[u]
                                                 ELSE PlanAt(Len0, Source).units[u]],
             StartAccept(Other, TreeAt(Len0).policy,
                         [base |-> Head0, policy |-> TreeAt(Len0).policy, units |-> units],
                         [source |-> Source, invalid |-> Invalid(g)])
      PROVE  PlanInv'
  <2>p. PICK plan : plan = [base |-> Head0, policy |-> TreeAt(Len0).policy, units |-> units]
    OBVIOUS
  <2>r. PICK replan : replan = [source |-> Source, invalid |-> Invalid(g)]
    OBVIOUS
  <2>1. /\ g.plan = Source /\ g.head = Head0
        /\ PlanAt(Len0, Source) \in PlanFiles /\ Readable(TreeAt(Len0).policy)
    BY <1>2, JudgementFacts
  <2>2. Len0 \in Positions
    BY DEF PlanInv, TypeOK, Len0, Positions
  <2>3. TreeAt(Len0).policy \in {1, 2} /\ Head0 \in Nat
    BY <2>1, <2>2, FilesAt DEF PlanInv, Files, Readable, Head0
  <2>4. units \in [Unit -> [ver : {1, 2}, needs : SUBSET Unit]]
    <3>1. PlanAt(Len0, Source).units \in [Unit -> [ver : {1, 2}, needs : SUBSET Unit]]
      BY <2>1 DEF PlanFiles
    <3>2. \A u \in Unit : (IF u \in Invalid(g) THEN new[u] ELSE PlanAt(Len0, Source).units[u])
                            \in [ver : {1, 2}, needs : SUBSET Unit]
      BY <1>5, <3>1
    <3>3. QED
      BY <1>5, <3>2
  <2>5. plan \in PlanFiles /\ plan.base = Head0
    BY <2>3, <2>4, <2>p DEF PlanFiles
  <2>6. replan \in ReplanFiles /\ replan.source = Source /\ replan.invalid = Invalid(g)
    <3>1. Invalid(g) \in (SUBSET Unit) \ {{}}
      BY <1>5 DEF Invalid
    <3>2. QED
      BY <1>2, <2>r, <3>1 DEF ReplanFiles
  <2>7. (Answered(replan, plan.base))'
    <3>1. /\ AnswerOf(g) \in answers' /\ AnswerOf(g).plan = Source /\ AnswerOf(g).head = Head0
          /\ AnswerOf(g).invalid = Invalid(g)
      BY <1>3, <2>1 DEF AnswerOf, Invalid
    <3>2. PICK a \in answers' : a.plan = Source /\ a.head = Head0 /\ a.invalid = Invalid(g)
      BY <3>1
    <3>3. QED
      BY <2>5, <2>6, <3>2 DEF Answered
  <2>8. StartAccept(Other, TreeAt(Len0).policy, plan, replan)
    BY <1>5, <2>p, <2>r
  <2>9. TypeOK' /\ Coherent(tree)' /\ JobInv'
    BY <1>2, <1>3, <2>3, <2>5, <2>6, <2>7, <2>8, StartStep
  <2>10. QED
    BY <1>3, <2>9 DEF PlanInv
<1>6. QED
  BY <1>1, <1>4, <1>5

\* A death during a gate and a new sandbox change neither files nor answers.
LEMMA OtherStep ==
    ASSUME PlanInv, DieJudging \/ ToggleSandbox \/ UNCHANGED vars
    PROVE  PlanInv'
<1>1. UNCHANGED <<history, commits, tree, job, answers>>
  BY DEF DieJudging, ToggleSandbox, vars, repository, evidence
<1>2. TypeOK' /\ Coherent(tree)' /\ JobInv'
  BY <1>1 DEF PlanInv, TypeOK, FilesInv, Coherent, Answered, JobInv
<1>3. QED
  BY <1>1, <1>2, FilesStep

\* A commit of work, with or without a flaw.
LEMMA CommitFacts ==
    ASSUME PlanInv, CommitAccepted \/ CommitWork \/ CommitOther
    PROVE  \E trailers \in Seq(Unit), patch \in {None} \cup (Unit \X Nat),
              flaw \in {"none", "source", "stray", "merge"}, blueprint \in Blueprints :
                /\ flaw = "source" => trailers = <<>>
                /\ Push(Commit(trailers, patch, flaw, blueprint))
<1> DEFINE Trailers == Seq(Unit)
           Patches == {None} \cup (Unit \X Nat)
<1>1. Healthy \in Blueprints
  BY UnitsAssumption
<1>2. CASE CommitAccepted \/ CommitOther
  <2>1. <<>> \in Trailers /\ None \in Patches
    OBVIOUS
  <2>2. \E flaw \in {"none", "source"} : Push(Commit(<<>>, None, flaw, Healthy))
    BY <1>2 DEF CommitAccepted, CommitOther
  <2>3. QED
    BY <1>1, <2>1, <2>2
<1>3. CASE CommitWork
  <2>1. \A u \in Unit : NextPatch(u) \in Patches
    <3>1. TAKE u \in Unit
    <3> DEFINE named == {i \in 1..Len0 : u \in ToSet(history[i].trailers)}
    <3>2. IsFiniteSet(1..Len0)
      BY FS_Interval DEF PlanInv, TypeOK, Len0
    <3>3. IsFiniteSet(named)
      BY <3>2, FS_Subset
    <3>4. Cardinality(named) \in Nat
      BY <3>3, FS_CardinalityType
    <3>5. QED
      BY <3>4 DEF NextPatch
  <2>2. \A u \in Unit : <<>> \in Trailers /\ <<u>> \in Trailers /\ <<u, u>> \in Trailers
    OBVIOUS
  <2>3. \A u, v \in Unit : <<v, 0>> \in Patches /\ <<u, MaxLength>> \in Patches
    BY BoundsAssumption
  <2>4. PICK u \in Unit :
        \/ Push(Commit(<<u>>, NextPatch(u), "none", Healthy))
        \/ \E names \in {<<>>, <<u, u>>} : Push(Commit(names, NextPatch(u), "none", Healthy))
        \/ \E v \in Unit \ {u} : Push(Commit(<<u>>, <<v, 0>>, "none", Healthy))
        \/ Push(Commit(<<u>>, <<u, MaxLength>>, "none", Healthy))
        \/ Push(Commit(<<u>>, NextPatch(u), "stray", Healthy))
        \/ Push(Commit(<<u>>, NextPatch(u), "merge", Healthy))
        \/ \E b \in Blueprints \ {Healthy} : Push(Commit(<<u>>, NextPatch(u), "none", b))
    BY <1>3 DEF CommitWork
  <2>5. \E trailers \in Trailers, patch \in Patches, flaw \in {"none", "stray", "merge"},
           blueprint \in Blueprints : Push(Commit(trailers, patch, flaw, blueprint))
    <3> HIDE DEF Trailers, Patches
    <3>1. QED
      BY <1>1, <2>1, <2>2, <2>3, <2>4
  <2>6. QED
    BY <2>5
<1>4. QED
  BY <1>2, <1>3

LEMMA CommitStep ==
    ASSUME PlanInv, CommitAccepted \/ CommitWork \/ CommitOther
    PROVE  PlanInv'
BY CommitFacts, PushStep

-----------------------------------------------------------------------------
(* The theorems *)

LEMMA PlanInit ==
    ASSUME Init
    PROVE  PlanInv
<1>1. history = <<>> /\ Len0 = 0 /\ commits = 0 /\ tree = NoFiles /\ job = Idle /\ answers = {}
  BY DEF Init, Len0
<1>2. TypeOK
  BY <1>1, NoFilesType DEF TypeOK
<1>3. IdsInv /\ SourcesInv
  BY <1>1 DEF IdsInv, SourcesInv
<1>4. FilesInv
  BY <1>1, NoFilesType DEF FilesInv, Coherent, Readable
<1>5. JobInv /\ AnswersInv
  BY <1>1 DEF JobInv, AnswersInv
<1>6. QED
  BY <1>2, <1>3, <1>4, <1>5 DEF PlanInv

LEMMA PlanStep ==
    ASSUME PlanInv, [Next]_vars
    PROVE  PlanInv'
<1>1. CASE CreatePlan
  BY <1>1, CreateStep
<1>2. CASE WriteAccepted
  BY <1>2, WriteStep
<1>3. CASE DieAccepting
  BY <1>3, DieStep
<1>4. CASE CommitAccepted \/ CommitWork \/ CommitOther
  BY <1>4, CommitStep
<1>5. CASE EditFile
  BY <1>5, EditStep
<1>6. CASE Reset
  BY <1>6, ResetStep
<1>7. CASE Rebase
  BY <1>7, RebaseStep
<1>8. CASE Gate \/ Export
  BY <1>8, GateStep
<1>9. CASE Replan
  BY <1>9, ReplanStep
<1>10. CASE DieJudging \/ ToggleSandbox \/ UNCHANGED vars
  BY <1>10, OtherStep
<1>11. QED
  BY <1>1, <1>2, <1>3, <1>4, <1>5, <1>6, <1>7, <1>8, <1>9, <1>10 DEF Next

\* Whatever is accepted, committed, edited, reset, rebased, judged and replanned,
\* in any order and with deaths in between, an answer stays true of the commit
\* it was given for, and a replacement carries out an answer that was given.
THEOREM PlanInvariant == Spec => []PlanInv
<1>1. Init => PlanInv
  BY PlanInit
<1>2. PlanInv /\ [Next]_vars => PlanInv'
  BY PlanStep
<1>3. QED
  BY <1>1, <1>2, PTL DEF Spec

\* A pass that was given for the head is earned by the commits below it: the
\* last commit of every unit names it alone, is in scope and satisfies the
\* unit's claim, and follows those of the units it needs.
THEOREM PassesAreEarned == Spec => []PassIsEarned
<1>1. PlanInv => PassIsEarned
  <2> SUFFICES ASSUME PlanInv, NEW a \in answers, a.verdict = "pass", a.head = Head0,
                      NEW u \in Unit
               PROVE  \E i \in {i \in 1..Len0 :
                                  /\ u \in ToSet(history[i].trailers)
                                  /\ \A j \in i + 1..Len0 : u \notin ToSet(history[j].trailers)} :
                        /\ history[i].trailers = <<u>> /\ history[i].flaw = "none"
                        /\ Evaluation(history[i].blueprint, ClaimOf[u]) = "satisfied"
                        /\ \A d \in PlanAt(Len0, a.plan).units[u].needs :
                             \E j \in {j \in 1..Len0 :
                                  /\ d \in ToSet(history[j].trailers)
                                  /\ \A k \in j + 1..Len0 : d \notin ToSet(history[k].trailers)} : j < i
                        /\ a.exit = 0
    BY DEF PassIsEarned
  <2>1. Len0 \in Positions
    BY DEF PlanInv, TypeOK, Len0, Positions
  <2>2. EarnedAt(a, Len0)
    BY <2>1 DEF PlanInv, AnswersInv, Head0
  <2>3. QED
    BY <2>2 DEF EarnedAt, LastAt
<1>2. QED
  BY <1>1, PlanInvariant, PTL

\* The units that a replacement preserves are those that an answer for its base
\* found valid, even when its files were written by several commands that died.
THEOREM PreservedWereValid == Spec => []PreservedWasValid
<1>1. PlanInv => PreservedWasValid
  <2> SUFFICES ASSUME PlanInv, NEW n \in Positions, NEW p \in Plans,
                      ReplanAt(n, p) \notin {None, Torn}
               PROVE  \E a \in answers : /\ a.plan = ReplanAt(n, p).source
                                         /\ a.head = PlanAt(n, p).base
                                         /\ a.invalid = ReplanAt(n, p).invalid
    BY DEF PreservedWasValid
  <2>1. Coherent(TreeAt(n)) /\ Readable(ReplanAt(n, p))
    BY FilesAreCoherent DEF PlanInv, Coherence, Readable
  <2>2. QED
    BY <2>1 DEF Coherent, Answered, ReplanAt, PlanAt
<1>2. QED
  BY <1>1, PlanInvariant, PTL
-----------------------------------------------------------------------------
(* A pass is final *)

\* Nothing changes up to n.
Same(n) ==
    /\ n \in Positions /\ n \in Positions'
    /\ \A i \in 1..n : history'[i] = history[i]
    /\ \A i \in 0..n : /\ TreeAt(i)' = TreeAt(i) /\ IdAt(i)' = IdAt(i)
                       /\ \A p : PlanAt(i, p)' = PlanAt(i, p) /\ ReplanAt(i, p)' = ReplanAt(i, p)
    /\ \A id : At(id, n)' = At(id, n)

LEMMA SameBelow ==
    ASSUME TypeOK, TypeOK', IdsInv, IdsInv', NEW k, Kept(k), NEW n \in 0..k
    PROVE  Same(n)
<1>1. k \in Nat /\ n \in Nat /\ n <= k
  BY DEF TypeOK, Len0, Kept
<1>2. n \in Positions /\ n \in Positions'
  BY KeptBelow
<1>3. \A i \in 1..n : history'[i] = history[i]
  BY <1>1 DEF Kept
<1>4. \A i \in 0..n : i \in 0..k
  BY <1>1
<1>5. \A i \in 0..n : TreeAt(i)' = TreeAt(i) /\ IdAt(i)' = IdAt(i)
  BY <1>4, KeptBelow
<1>6. \A i \in 0..n : \A p : PlanAt(i, p)' = PlanAt(i, p) /\ ReplanAt(i, p)' = ReplanAt(i, p)
  BY <1>5 DEF PlanAt, ReplanAt
<1>7. ASSUME NEW id PROVE At(id, n)' = At(id, n)
  <2>1. /\ At(id, n) \in 0..n \cup {-1}
        /\ At(id, n) # -1 => IdAt(At(id, n)) = id
        /\ \A i \in 0..n : IdAt(i) = id => At(id, n) = i
    BY <1>2, AtFacts
  <2>2. PICK at : at = At(id, n)'
    OBVIOUS
  <2>3. IF \E i \in 0..n : IdAt(i)' = id THEN at \in 0..n /\ IdAt(at)' = id ELSE at = -1
    BY <2>2 DEF At
  <2>4. QED
    BY <1>1, <1>5, <2>1, <2>2, <2>3
<1>8. QED
  BY <1>2, <1>3, <1>5, <1>6, <1>7 DEF Same

LEMMA StandsSame ==
    ASSUME TypeOK, IdsInv, TypeOK', IdsInv', NEW n, Same(n), NEW p \in Plans
    PROVE  /\ Stands(n, p)' <=> Stands(n, p)
           /\ Stands(n, p) => AcceptedAt(n, p)' = AcceptedAt(n, p)
<1>1. n \in Nat /\ n \in Positions /\ n \in Positions'
  BY DEF Same, Positions, TypeOK, Len0
<1>2. PICK plan, base : plan = PlanAt(n, p) /\ base = At(plan.base, n)
  OBVIOUS
<1>3. /\ PlanAt(n, p)' = plan /\ ReplanAt(n, p)' = ReplanAt(n, p) /\ TreeAt(n)' = TreeAt(n)
      /\ At(plan.base, n)' = base
  BY <1>1, <1>2 DEF Same
<1>4. ASSUME base \in 0..n - 1, NEW i \in base + 1..n
      PROVE  history'[i] = history[i]
  BY <1>1, <1>4 DEF Same
<1>5. Stands(n, p)' <=> Stands(n, p)
  BY <1>2, <1>3, <1>4 DEF Stands, Readable
<1>6. ASSUME Stands(n, p)
      PROVE  AcceptedAt(n, p)' = AcceptedAt(n, p)
  <2>1. base \in 0..n - 1
    BY <1>2, <1>6 DEF Stands
  <2>2. \A i \in base..n : PlanAt(i, p) # None /\ (\A j \in base..i - 1 : PlanAt(j, p) = None)
                    => i = AcceptedAt(n, p)
    BY <1>1, <1>2, <1>6, AcceptedFirst
  <2>3. PICK at : at = AcceptedAt(n, p)'
    OBVIOUS
  <2>4. at \in base..n /\ PlanAt(at, p)' # None /\ \A j \in base..at - 1 : PlanAt(j, p)' = None
    <3>1. PICK i : /\ i \in base..n /\ PlanAt(i, p) # None
                   /\ \A j \in base..i - 1 : PlanAt(j, p) = None
      BY <1>1, <1>2, <1>6, AcceptedFirst
    <3>2. \A j \in base..n : j \in 0..n
      BY <1>1, <2>1
    <3>3. \A j \in base..i - 1 : j \in base..n
      BY <1>1, <2>1, <3>1
    <3>4. PlanAt(i, p)' # None /\ \A j \in base..i - 1 : PlanAt(j, p)' = None
      BY <3>1, <3>2, <3>3 DEF Same
    <3>5. QED
      BY <1>2, <1>3, <2>3, <3>1, <3>4 DEF AcceptedAt
  <2>5. PlanAt(at, p) # None /\ \A j \in base..at - 1 : PlanAt(j, p) = None
    <3>1. \A j \in base..at : j \in 0..n
      BY <1>1, <2>1, <2>4
    <3>2. at \in base..at /\ \A j \in base..at - 1 : j \in base..at
      BY <1>1, <2>1, <2>4
    <3>3. \A j \in 0..n : PlanAt(j, p)' = PlanAt(j, p)
      BY DEF Same
    <3>4. QED
      BY <2>4, <3>1, <3>2, <3>3
  <2>6. QED
    BY <2>2, <2>3, <2>4, <2>5
<1>7. QED
  BY <1>5, <1>6

\* The units that the commits above the acceptance have named before i.
Seen(at, fresh, i) == (Unit \ fresh) \cup UNION {ToSet(history[j].trailers) : j \in at + 1..i - 1}

\* Implements without its local definitions; as a formula, so that it can be primed.
ImplementsPlainly ==
    \A n, at \in Nat : \A p, fresh : at = AcceptedAt(n, p) /\ fresh = Fresh(n, p) =>
        (Implements(n, p) <=>
              /\ n - at = Cardinality(fresh)
              /\ \A i \in at + 1..n :
                    /\ Len(history[i].trailers) = 1
                    /\ history[i].trailers[1] \in fresh \ Seen(at, fresh, i)
                    /\ PlanAt(n, p).units[history[i].trailers[1]].needs \subseteq Seen(at, fresh, i))

LEMMA ImplementsAre == ImplementsPlainly
<1> SUFFICES ASSUME NEW n \in Nat, NEW p, NEW at \in Nat, at = AcceptedAt(n, p),
                    NEW fresh, fresh = Fresh(n, p)
             PROVE  Implements(n, p) <=>
              /\ n - at = Cardinality(fresh)
              /\ \A i \in at + 1..n :
                    /\ Len(history[i].trailers) = 1
                    /\ history[i].trailers[1] \in fresh \ Seen(at, fresh, i)
                    /\ PlanAt(n, p).units[history[i].trailers[1]].needs \subseteq Seen(at, fresh, i)
  BY DEF ImplementsPlainly
<1> DEFINE named == [i \in at + 1..n |-> history[i].trailers]
           seen(i) == (Unit \ fresh) \cup UNION {ToSet(named[j]) : j \in at + 1..i - 1}
<1>1. Implements(n, p) <=>
        /\ n - at = Cardinality(fresh)
        /\ \A i \in at + 1..n :
            /\ Len(named[i]) = 1
            /\ named[i][1] \in fresh \ seen(i)
            /\ PlanAt(n, p).units[named[i][1]].needs \subseteq seen(i)
  BY DEF Implements
<1>2. \A i \in at + 1..n : named[i] = history[i].trailers
  OBVIOUS
<1>3. \A i \in at + 1..n : seen(i) = Seen(at, fresh, i)
  <2>1. TAKE i \in at + 1..n
  <2>2. \A j \in at + 1..i - 1 : named[j] = history[j].trailers
    BY <1>2
  <2> HIDE DEF named
  <2>3. {ToSet(named[j]) : j \in at + 1..i - 1} = {ToSet(history[j].trailers) : j \in at + 1..i - 1}
    BY <2>2
  <2>4. QED
    BY <2>3 DEF Seen
<1> HIDE DEF named, seen
<1>4. QED
  BY <1>1, <1>2, <1>3

LEMMA ImplementsAreNext == ImplementsPlainly'
BY ImplementsAre, PTL

LEMMA FitsSame ==
    ASSUME TypeOK, IdsInv, TypeOK', IdsInv', NEW n, Same(n), NEW p \in Plans
    PROVE  /\ Fits(n, p)' <=> Fits(n, p)
           /\ Fits(n, p) => Fresh(n, p)' = Fresh(n, p) /\ Own(n, p)' = Own(n, p)
<1>1. n \in Nat /\ n \in Positions /\ n \in Positions'
  BY DEF Same, Positions, TypeOK, Len0
<1>2. /\ Stands(n, p)' <=> Stands(n, p)
      /\ Stands(n, p) => AcceptedAt(n, p)' = AcceptedAt(n, p)
  BY StandsSame
<1>3. Fits(n, p) => Stands(n, p)
  BY DEF Fits
<1>4. Fits(n, p)' => Stands(n, p)
  BY <1>2 DEF Fits
<1>5. ASSUME Stands(n, p)
      PROVE  /\ Fits(n, p)' <=> Fits(n, p)
             /\ Fresh(n, p)' = Fresh(n, p) /\ Own(n, p)' = Own(n, p)
  <2>1. PICK plan, base, at, fresh :
          /\ plan = PlanAt(n, p) /\ base = At(plan.base, n) /\ at = AcceptedAt(n, p)
          /\ fresh = Fresh(n, p)
    OBVIOUS
  <2>2. /\ PlanAt(n, p)' = plan /\ ReplanAt(n, p)' = ReplanAt(n, p) /\ TreeAt(n)' = TreeAt(n)
        /\ At(plan.base, n)' = base /\ AcceptedAt(n, p)' = at
    BY <1>1, <1>2, <1>5, <2>1 DEF Same
  <2>3. Fresh(n, p)' = fresh
    BY <2>1, <2>2 DEF Fresh
  <2>4. base \in 0..n - 1 /\ at \in base..n
    BY <1>1, <1>5, <2>1, StandingFiles, AcceptedFirst
  <2>5. \A i \in 0..n : /\ TreeAt(i)' = TreeAt(i)
                        /\ \A q : PlanAt(i, q)' = PlanAt(i, q) /\ ReplanAt(i, q)' = ReplanAt(i, q)
    BY DEF Same
  <2>6. \A i \in 1..n : history'[i] = history[i]
    BY DEF Same
  <2>7. /\ at \in 0..n /\ base \in 0..n /\ at \in Nat /\ base \in Nat
        /\ at > base => at \in 1..n /\ at - 1 \in 0..n
        /\ \A i \in base + 1..at : i \in 1..n
        /\ \A i \in at + 1..n : i \in 1..n /\ \A j \in at + 1..i - 1 : j \in 1..n
    BY <1>1, <2>4
  <2>8. AcceptedAlone(n, p)' <=> AcceptedAlone(n, p)
    <3>1. PICK replan, policy : replan = ReplanAt(n, p) /\ policy = TreeAt(n).policy
      OBVIOUS
    <3>2. AcceptedAlone(n, p) <=>
            /\ PlanAt(at, p) = plan
            /\ at > base =>
                /\ TreeAt(at).policy = policy
                /\ replan # None => ReplanAt(at, p) = replan
                /\ history[at].flaw # "source"
                /\ \A i \in base + 1..at : history[i].trailers = <<>>
                /\ \A q \in Plans \ {p} : /\ PlanAt(at, q) = PlanAt(at - 1, q)
                                          /\ ReplanAt(at, q) = ReplanAt(at - 1, q)
      BY <2>1, <3>1 DEF AcceptedAlone
    <3>3. AcceptedAlone(n, p)' <=>
            /\ PlanAt(at, p)' = plan
            /\ at > base =>
                /\ TreeAt(at)'.policy = policy
                /\ replan # None => ReplanAt(at, p)' = replan
                /\ history'[at].flaw # "source"
                /\ \A i \in base + 1..at : history'[i].trailers = <<>>
                /\ \A q \in Plans \ {p} : /\ PlanAt(at, q)' = PlanAt(at - 1, q)'
                                          /\ ReplanAt(at, q)' = ReplanAt(at - 1, q)'
      BY <2>1, <2>2, <3>1 DEF AcceptedAlone
    <3>4. QED
      BY <2>5, <2>6, <2>7, <3>2, <3>3
  <2>9. Implements(n, p)' <=> Implements(n, p)
    <3>1. Implements(n, p) <=>
              /\ n - at = Cardinality(fresh)
              /\ \A i \in at + 1..n :
                    /\ Len(history[i].trailers) = 1
                    /\ history[i].trailers[1] \in fresh \ Seen(at, fresh, i)
                    /\ plan.units[history[i].trailers[1]].needs \subseteq Seen(at, fresh, i)
      BY <1>1, <2>1, <2>7, ImplementsAre DEF ImplementsPlainly
    <3>2. Implements(n, p)' <=>
              /\ n - at = Cardinality(fresh)
              /\ \A i \in at + 1..n :
                    /\ Len(history'[i].trailers) = 1
                    /\ history'[i].trailers[1] \in fresh \ Seen(at, fresh, i)'
                    /\ plan.units[history'[i].trailers[1]].needs \subseteq Seen(at, fresh, i)'
      BY <1>1, <2>2, <2>3, <2>7, ImplementsAreNext, SMTT(30) DEF ImplementsPlainly
    <3>3. ASSUME NEW i \in at + 1..n
          PROVE  history'[i] = history[i] /\ Seen(at, fresh, i)' = Seen(at, fresh, i)
      <4>1. \A j \in at + 1..i - 1 : history'[j] = history[j]
        BY <2>6, <2>7
      <4>2. {ToSet(history'[j].trailers) : j \in at + 1..i - 1}
              = {ToSet(history[j].trailers) : j \in at + 1..i - 1}
        BY <4>1
      <4>3. QED
        BY <2>6, <2>7, <4>2 DEF Seen
    <3>4. QED
      BY <3>1, <3>2, <3>3
  <2>10. ReplanFits(n, p)' <=> ReplanFits(n, p)
    <3>1. \A q : PlanAt(base, q)' = PlanAt(base, q)
      BY <2>5, <2>7
    <3>2. PICK replan : replan = ReplanAt(n, p)
      OBVIOUS
    <3>3. ReplanFits(n, p) <=> (replan # None =>
            /\ replan.source # p /\ Readable(PlanAt(base, replan.source))
            /\ \A u \in Unit \ fresh : PlanAt(base, replan.source).units[u] = plan.units[u])
      BY <2>1, <3>2 DEF ReplanFits
    <3>4. ReplanFits(n, p)' <=> (replan # None =>
            /\ replan.source # p /\ Readable(PlanAt(base, replan.source)')
            /\ \A u \in Unit \ fresh : PlanAt(base, replan.source)'.units[u] = plan.units[u])
      BY <2>2, <2>3, <3>2 DEF ReplanFits, Readable
    <3>5. QED
      BY <3>1, <3>3, <3>4
  <2>11. Own(n, p)' = Own(n, p)
    <3>1. Own(n, p) = {[unit |-> history[i].trailers[1], at |-> i] : i \in at + 1..n}
      BY <2>1 DEF Own
    <3>2. Own(n, p)' = {[unit |-> history'[i].trailers[1], at |-> i] : i \in at + 1..n}
      BY <2>2 DEF Own
    <3>3. QED
      BY <2>6, <2>7, <3>1, <3>2
  <2>12. QED
    BY <1>2, <2>1, <2>2, <2>3, <2>8, <2>9, <2>10, <2>11 DEF Fits, Admitted
<1>6. QED
  BY <1>3, <1>4, <1>5

BindingsPlainly ==
    TypeOK => \A n \in Positions, p \in Plans :
        Bindings[n][p] = IF ~Fits(n, p) THEN {}
                         ELSE IF Complete(Own(n, p) \cup KeptFrom(Bindings, n, p))
                              THEN Own(n, p) \cup KeptFrom(Bindings, n, p) ELSE {}

LEMMA BindingsArePlainly == BindingsPlainly
BY BindingsAre DEF BindingsPlainly

LEMMA BindingsAreNext == BindingsPlainly'
BY BindingsArePlainly, PTL

\* What the gate sees of a plan at n depends on the commits up to n alone.
LEMMA BoundSame ==
    ASSUME PlanInv, TypeOK', IdsInv', NEW k, Kept(k)
    PROVE  \A n \in 0..k, p \in Plans : Bound(n, p)' = Bound(n, p)
<1>1. TypeOK /\ IdsInv /\ k \in Nat
  BY DEF PlanInv, Kept, TypeOK, Len0
<1>2. \A n \in 0..k : Same(n)
  BY <1>1, SameBelow
<1>3. ASSUME NEW n \in 0..k, NEW p \in Plans,
             \A m \in 0..n - 1, q \in Plans : Bindings[m][q]' = Bindings[m][q]
      PROVE  Bindings[n][p]' = Bindings[n][p]
  <2>1. n \in Nat /\ n \in Positions /\ n \in Positions' /\ Same(n)
    BY <1>1, <1>2 DEF Same
  <2>2. Fits(n, p)' <=> Fits(n, p)
    BY <1>1, <2>1, FitsSame
  <2>3. PICK all : all = Own(n, p) \cup KeptFrom(Bindings, n, p)
    OBVIOUS
  <2>4. Bindings[n][p] = IF ~Fits(n, p) THEN {} ELSE IF Complete(all) THEN all ELSE {}
    BY <1>1, <2>1, <2>3, BindingsArePlainly DEF BindingsPlainly
  <2>5. CASE ~Fits(n, p)
    <3>1. Bindings[n][p]' = {}
      BY <2>1, <2>2, <2>5, BindingsAreNext DEF BindingsPlainly
    <3>2. QED
      BY <2>4, <2>5, <3>1
  <2>6. CASE Fits(n, p)
    <3>1. Fresh(n, p)' = Fresh(n, p) /\ Own(n, p)' = Own(n, p)
      BY <1>1, <2>1, <2>6, FitsSame
    <3>2. PICK base, replan, fresh :
             base = At(PlanAt(n, p).base, n) /\ replan = ReplanAt(n, p) /\ fresh = Fresh(n, p)
      OBVIOUS
    <3>3. base \in 0..n - 1 /\ base \in Positions /\ (replan # None => replan.source \in Plans)
      BY <1>1, <2>1, <2>6, <3>2, FittingFiles DEF ReplanFiles
    <3>4. At(PlanAt(n, p).base, n)' = base /\ ReplanAt(n, p)' = replan
      <4>1. PICK id : id = PlanAt(n, p).base
        OBVIOUS
      <4>2. PlanAt(n, p)' = PlanAt(n, p) /\ ReplanAt(n, p)' = ReplanAt(n, p) /\ At(id, n)' = At(id, n)
        BY <2>1 DEF Same
      <4>3. QED
        BY <3>2, <4>1, <4>2
    <3>5. KeptFrom(Bindings, n, p)' = KeptFrom(Bindings, n, p)
      <4>1. CASE replan = None
        BY <3>2, <3>4, <4>1 DEF KeptFrom
      <4>2. CASE replan # None
        <5>1. PICK before : before = Bindings[base][replan.source]
          OBVIOUS
        <5>2. Bindings[base][replan.source]' = before
          BY <1>3, <3>3, <4>2, <5>1
        <5>3. KeptFrom(Bindings, n, p) = {b \in before : b.unit \notin fresh}
          BY <3>2, <4>2, <5>1 DEF KeptFrom
        <5>4. KeptFrom(Bindings, n, p)' = {b \in before : b.unit \notin fresh}
          BY <3>1, <3>2, <3>4, <4>2, <5>2 DEF KeptFrom
        <5>5. QED
          BY <5>3, <5>4
      <4>3. QED
        BY <4>1, <4>2
    <3>6. (Own(n, p) \cup KeptFrom(Bindings, n, p))' = all
      BY <2>3, <3>1, <3>5
    <3>7. \A b \in all : b.at \in 1..n
      <4>1. \A b \in Own(n, p) : b.at \in 1..n
        BY <2>1, <2>6, BoundHere DEF LastAt
      <4>2. \A q \in Plans : Bindings[base][q] # {} => BoundWell(base, q, Bindings[base][q])
        BY <3>3, BoundSound
      <4>3. \A b \in KeptFrom(Bindings, n, p) : b.at \in 1..n
        BY <2>1, <2>6, <3>2, <4>2, BoundBySource DEF LastAt
      <4>4. QED
        BY <2>3, <4>1, <4>3
    <3>8. Complete(all)' <=> Complete(all)
      <4>1. \A b \in all : history'[b.at] = history[b.at]
        BY <2>1, <3>7 DEF Same
      <4>2. QED
        BY <4>1 DEF Complete
    <3>9. Bindings[n][p]' = IF Complete(all)' THEN all ELSE {}
      BY <2>1, <2>2, <2>6, <3>6, BindingsAreNext DEF BindingsPlainly
    <3>10. QED
      BY <2>4, <2>6, <3>8, <3>9
  <2>7. QED
    BY <2>5, <2>6
<1> DEFINE Bad == {n \in 0..k : \E p \in Plans : Bindings[n][p]' # Bindings[n][p]}
<1>4. Bad = {}
  <2> SUFFICES ASSUME Bad # {} PROVE FALSE
    OBVIOUS
  <2>1. Bad \in SUBSET Nat
    BY <1>1
  <2> HIDE DEF Bad
  <2>2. PICK n \in Bad : \A m \in Bad : n <= m
    BY <2>1, LeastNumber
  <2> USE DEF Bad
  <2>3. n \in 0..k /\ n \in Nat
    BY <1>1, <2>2
  <2>4. \A m \in 0..n - 1 : m \notin Bad /\ m \in 0..k
    <3>1. TAKE m \in 0..n - 1
    <3>2. m \in 0..k /\ ~(n <= m)
      BY <1>1, <2>3
    <3> HIDE DEF Bad
    <3>3. QED
      BY <2>2, <3>2
  <2>5. \A m \in 0..n - 1, q \in Plans : Bindings[m][q]' = Bindings[m][q]
    BY <2>4
  <2>6. \A p \in Plans : Bindings[n][p]' = Bindings[n][p]
    BY <1>3, <2>3, <2>5
  <2>7. QED
    BY <2>2, <2>6
<1>5. ASSUME NEW n \in 0..k, NEW p \in Plans
      PROVE  Bound(n, p)' = Bound(n, p)
  <2>1. n \in Positions /\ Same(n)
    BY <1>2 DEF Same
  <2>2. PICK all : all = Bindings[n][p]
    OBVIOUS
  <2>3. Bindings[n][p]' = all
    BY <1>4, <2>2
  <2> DEFINE of(u) == CHOOSE b \in all : b.unit = u
  <2>4. Bound(n, p) = IF all = {} THEN None
          ELSE [u \in Unit |-> [at |-> of(u).at, id |-> IdAt(of(u).at), patch |-> history[of(u).at].patch]]
    BY <2>2 DEF Bound
  <2>5. Bound(n, p)' = IF all = {} THEN None
          ELSE [u \in Unit |-> [at |-> of(u).at, id |-> IdAt(of(u).at)', patch |-> history'[of(u).at].patch]]
    BY <2>3 DEF Bound
  <2> HIDE DEF of
  <2>6. CASE all # {}
    <3>1. BoundWell(n, p, all)
      BY <2>1, <2>2, <2>6, BoundSound
    <3>2. \A u \in Unit : of(u) \in all
      <4>1. \A u \in Unit : \E b \in all : b.unit = u
        BY <3>1 DEF BoundWell
      <4>2. QED
        BY <4>1 DEF of
    <3>3. \A b \in all : b.at \in 1..n
      BY <3>1 DEF BoundWell, LastAt
    <3>4. \A i \in 1..n : history'[i] = history[i] /\ IdAt(i)' = IdAt(i)
      BY <1>1, <2>1 DEF Same
    <3>5. \A u \in Unit : IdAt(of(u).at)' = IdAt(of(u).at) /\ history'[of(u).at] = history[of(u).at]
      BY <3>2, <3>3, <3>4
    <3>6. QED
      BY <2>4, <2>5, <3>5
  <2>7. QED
    BY <2>4, <2>5, <2>6
<1>6. QED
  BY <1>5

-----------------------------------------------------------------------------
(* The files along the history *)

LEMMA GrowsOn ==
    ASSUME NEW x, NEW y, NEW z, Grows(x, y), Grows(y, z)
    PROVE  Grows(x, z) /\ Grows(x, x)
BY DEF Grows

LEMMA OlderMore ==
    ASSUME NEW files \in Files, NEW x \in Int, NEW y \in Int, x <= y, Older(files, x)
    PROVE  Older(files, y)
<1> SUFFICES ASSUME NEW p \in Plans, Readable(files.plans[p])
             PROVE  files.plans[p].base <= y
  BY DEF Older
<1>1. files.plans[p] \in PlanFiles
  BY ReadablePlan DEF Files
<1>2. files.plans[p].base \in Nat /\ files.plans[p].base <= x
  BY <1>1 DEF Older, PlanFiles
<1>3. QED
  BY <1>2

\* The states of the files, from the root to the working tree.
FilesOf(m) == IF m = Len0 + 1 THEN tree ELSE TreeAt(m)

LEMMA FilesOfFacts ==
    ASSUME PlanInv, GrowInv, BasesInv
    PROVE  /\ \A m \in 0..Len0 + 1 : FilesOf(m) \in Files /\ Older(FilesOf(m), commits)
           /\ \A m, l \in 0..Len0 + 1 : m <= l => Grows(FilesOf(m), FilesOf(l))
<1>1. Len0 \in Nat /\ commits \in Nat /\ tree \in Files /\ TypeOK /\ IdsInv
  BY DEF PlanInv, TypeOK, Len0
<1>2. \A m \in 0..Len0 + 1 : m = Len0 + 1 \/ (m \in Positions /\ m # Len0 + 1)
  BY <1>1 DEF Positions
<1>3. ASSUME NEW m \in Positions PROVE TreeAt(m) \in Files /\ Older(TreeAt(m), commits)
  <2>1. TreeAt(m) \in Files
    BY <1>1, FilesAt
  <2>2. CASE m = 0
    BY <2>1, <2>2, NoFilesType DEF TreeAt, Older, Readable
  <2>3. CASE m # 0
    <3>1. m \in 1..Len0
      BY <1>1, <2>3 DEF Positions
    <3>2. TreeAt(m) = history[m].tree /\ history[m].id \in 1..commits
      BY <1>1, <2>3, <3>1 DEF TreeAt, IdsInv
    <3>3. Older(TreeAt(m), history[m].id - 1)
      BY <3>1, <3>2 DEF BasesInv
    <3>4. history[m].id - 1 \in Int /\ commits \in Int /\ history[m].id - 1 <= commits
      BY <1>1, <3>2
    <3>5. QED
      BY <2>1, <3>3, <3>4, OlderMore
  <2>4. QED
    BY <2>1, <2>2, <2>3
<1>4. \A m \in 0..Len0 + 1 : FilesOf(m) \in Files /\ Older(FilesOf(m), commits)
  BY <1>1, <1>2, <1>3 DEF FilesOf, BasesInv
<1>5. Grows(tree, tree)
  BY DEF Grows
<1>6. \A m, l \in 0..Len0 + 1 : m <= l => Grows(FilesOf(m), FilesOf(l))
  <2> SUFFICES ASSUME NEW m \in 0..Len0 + 1, NEW l \in 0..Len0 + 1, m <= l
               PROVE  Grows(FilesOf(m), FilesOf(l))
    OBVIOUS
  <2>1. CASE m = Len0 + 1
    <3>1. l = Len0 + 1
      BY <1>1, <2>1
    <3>2. QED
      BY <1>5, <2>1, <3>1 DEF FilesOf
  <2>2. CASE m # Len0 + 1 /\ l = Len0 + 1
    <3>1. m \in Positions
      BY <1>2, <2>2
    <3>2. QED
      BY <2>2, <3>1 DEF FilesOf, GrowInv
  <2>3. CASE m # Len0 + 1 /\ l # Len0 + 1
    <3>1. m \in Positions /\ l \in Positions
      BY <1>2, <2>3
    <3>2. QED
      BY <2>3, <3>1 DEF FilesOf, GrowInv
  <2>4. QED
    BY <2>1, <2>2, <2>3
<1>7. QED
  BY <1>4, <1>6

\* A new history whose files are those of the old one, in the same order.
LEMMA GrowHistory ==
    ASSUME PlanInv, GrowInv, BasesInv, TypeOK', UNCHANGED job, NEW k, Kept(k),
           NEW f \in [Positions' -> 0..Len0 + 1], NEW t \in 0..Len0 + 1,
           \A i, j \in Positions' : i <= j => f[i] <= f[j],
           \A i \in Positions' : f[i] <= t /\ TreeAt(i)' = FilesOf(f[i]),
           tree' = FilesOf(t)
    PROVE  GrowInv' /\ BasesInv'
<1>1. /\ \A m \in 0..Len0 + 1 : FilesOf(m) \in Files /\ Older(FilesOf(m), commits)
      /\ \A m, l \in 0..Len0 + 1 : m <= l => Grows(FilesOf(m), FilesOf(l))
  BY FilesOfFacts
<1>2. /\ commits \in Nat /\ commits' \in Nat /\ commits <= commits' /\ Len0 \in Nat /\ (Len0)' \in Nat
      /\ k \in Nat /\ k <= (Len0)' /\ k <= Len0
  BY DEF PlanInv, TypeOK, Kept, Len0
<1>3. GrowInv'
  BY <1>1 DEF GrowInv, Grows
<1>4. \A files : Older(files, commits)' <=> Older(files, commits')
  BY DEF Older, Readable
<1>5. Older(tree', commits')
  <2>1. FilesOf(t) \in Files /\ Older(FilesOf(t), commits)
    BY <1>1
  <2>2. QED
    BY <1>2, <2>1, OlderMore
<1>6. (job # Idle => job.content.base <= commits)'
  <2>1. CASE job = Idle
    BY <2>1 DEF Idle
  <2>2. CASE job # Idle
    <3>1. job.content.base <= commits /\ job.content.base \in Nat
      BY <2>2 DEF BasesInv, PlanInv, TypeOK, Jobs, PlanFiles
    <3>2. job.content.base <= commits'
      BY <1>2, <3>1
    <3>3. QED
      BY <3>2
  <2>3. QED
    BY <2>1, <2>2
<1>7. ASSUME NEW i \in 1..(Len0)'
      PROVE  Older(history'[i].tree, history'[i].id - 1)
  <2>1. CASE i \in 1..k
    <3>1. history'[i] = history[i] /\ i \in 1..Len0
      BY <1>2, <2>1 DEF Kept
    <3>2. QED
      BY <3>1 DEF BasesInv
  <2>2. CASE i \in k + 1..(Len0)'
    <3>1. i \in Positions' /\ history'[i].tree = TreeAt(i)'
      BY <1>2 DEF Positions, TreeAt
    <3>2. history'[i].tree \in Files /\ Older(history'[i].tree, commits)
      BY <1>1, <3>1
    <3>3. history'[i].id \in commits + 1..commits'
      BY <2>2 DEF Kept
    <3>4. commits <= history'[i].id - 1 /\ history'[i].id - 1 \in Int
      BY <1>2, <3>3
    <3>5. QED
      BY <1>2, <3>2, <3>4, OlderMore
  <2>3. QED
    BY <1>2, <2>1, <2>2
<1>8. QED
  BY <1>3, <1>5, <1>6, <1>7 DEF BasesInv, Older, Readable

LEMMA GrowPush ==
    ASSUME PlanInv, GrowInv, BasesInv, CommitAccepted \/ CommitWork \/ CommitOther
    PROVE  GrowInv' /\ BasesInv'
<1>1. /\ TypeOK' /\ Kept(Len0) /\ UNCHANGED <<tree, job>>
      /\ (Len0)' = Len0 + 1 /\ history'[Len0 + 1].tree = tree
  BY CommitFacts, PushFacts
<1>2. TypeOK /\ IdsInv /\ Len0 \in Nat
  BY DEF PlanInv, TypeOK, Len0
<1>3. PICK n : n = Len0
  OBVIOUS
<1>4. n \in Nat /\ Positions' = 0..n + 1 /\ Kept(n) /\ (Len0)' = n + 1 /\ history'[n + 1].tree = tree
  BY <1>1, <1>2, <1>3 DEF Positions
<1> DEFINE f == [i \in 0..n + 1 |-> i]
<1>5. /\ f \in [Positions' -> 0..Len0 + 1] /\ \A i \in Positions' : f[i] = i /\ f[i] <= n + 1
      /\ \A i, j \in Positions' : i <= j => f[i] <= f[j]
  BY <1>3, <1>4
<1>6. ASSUME NEW i \in Positions' PROVE TreeAt(i)' = FilesOf(i)
  <2>1. CASE i = n + 1
    BY <1>1, <1>3, <1>4, <2>1 DEF FilesOf, TreeAt
  <2>2. CASE i # n + 1
    <3>1. i \in 0..n
      BY <1>4, <2>2
    <3>2. QED
      BY <1>1, <1>2, <1>3, <1>4, <2>2, <3>1, KeptBelow DEF FilesOf
  <2>3. QED
    BY <2>1, <2>2
<1>7. tree' = FilesOf(n + 1) /\ n + 1 \in 0..Len0 + 1
  BY <1>1, <1>3, <1>4 DEF FilesOf
<1> HIDE DEF f
<1>8. QED
  BY <1>1, <1>4, <1>5, <1>6, <1>7, GrowHistory

LEMMA GrowReset ==
    ASSUME PlanInv, GrowInv, BasesInv, Reset
    PROVE  GrowInv' /\ BasesInv'
<1>1. TypeOK' /\ UNCHANGED job
  BY ResetFacts
<1>2. PICK n \in 0..Len0 : Kept(n) /\ (Len0)' = n /\ tree' = TreeAt(n)
  BY ResetFacts
<1>3. TypeOK /\ IdsInv /\ Len0 \in Nat /\ n \in Nat /\ n <= Len0
  BY <1>2 DEF PlanInv, TypeOK, Len0
<1>4. Positions' = 0..n
  BY <1>2 DEF Positions
<1> DEFINE f == [i \in 0..n |-> i]
<1>5. /\ f \in [Positions' -> 0..Len0 + 1] /\ \A i \in Positions' : f[i] = i /\ f[i] <= n
      /\ \A i, j \in Positions' : i <= j => f[i] <= f[j]
  BY <1>3, <1>4
<1>6. ASSUME NEW i \in Positions' PROVE TreeAt(i)' = FilesOf(i)
  <2>1. i \in 0..n /\ i # Len0 + 1
    BY <1>3, <1>4
  <2>2. QED
    BY <1>1, <1>2, <1>3, <2>1, KeptBelow DEF FilesOf
<1>7. tree' = FilesOf(n) /\ n \in 0..Len0 + 1
  BY <1>2, <1>3 DEF FilesOf
<1> HIDE DEF f
<1>8. QED
  BY <1>1, <1>2, <1>5, <1>6, <1>7, GrowHistory

LEMMA GrowRebase ==
    ASSUME PlanInv, GrowInv, BasesInv, Rebase
    PROVE  GrowInv' /\ BasesInv'
<1>1. TypeOK' /\ UNCHANGED <<tree, job>> /\ (Len0)' = Len0 + 1
  BY RebaseFacts
<1>2. PICK n \in 0..Len0 :
        /\ Kept(n) /\ history'[n + 1].tree = TreeAt(n)
        /\ \A i \in 1..Len0 - n : history'[n + 1 + i].tree = history[n + i].tree
  BY RebaseFacts
<1>3. PICK l : l = Len0
  OBVIOUS
<1>4. /\ TypeOK /\ IdsInv /\ l \in Nat /\ n \in Nat /\ n <= l
      /\ Positions' = 0..l + 1
  BY <1>1, <1>2, <1>3 DEF PlanInv, TypeOK, Len0, Positions
<1> DEFINE f == [i \in 0..l + 1 |-> IF i <= n THEN i ELSE i - 1]
<1>5. /\ f \in [Positions' -> 0..Len0 + 1]
      /\ \A i \in Positions' : f[i] = (IF i <= n THEN i ELSE i - 1) /\ f[i] <= l + 1
      /\ \A i, j \in Positions' : i <= j => f[i] <= f[j]
  BY <1>3, <1>4
<1>6. ASSUME NEW i \in Positions' PROVE TreeAt(i)' = FilesOf(IF i <= n THEN i ELSE i - 1)
  <2>1. CASE i <= n
    <3>1. i \in 0..n /\ i # Len0 + 1
      BY <1>3, <1>4, <2>1
    <3>2. QED
      BY <1>1, <1>2, <1>4, <2>1, <3>1, KeptBelow DEF FilesOf
  <2>2. CASE i = n + 1
    <3>1. i - 1 = n /\ n # Len0 + 1 /\ i # 0 /\ ~(i <= n)
      BY <1>3, <1>4, <2>2
    <3>2. TreeAt(i)' = TreeAt(n)
      BY <1>2, <2>2, <3>1 DEF TreeAt
    <3>3. QED
      BY <3>1, <3>2 DEF FilesOf
  <2>3. CASE i > n + 1
    <3>1. PICK j : j = i - 1 - n
      OBVIOUS
    <3>2. /\ j \in 1..Len0 - n /\ i = n + 1 + j /\ n + j = i - 1 /\ i # 0 /\ ~(i <= n)
          /\ i - 1 # 0 /\ i - 1 # Len0 + 1
      BY <1>3, <1>4, <2>3, <3>1
    <3>3. TreeAt(i)' = TreeAt(i - 1)
      BY <1>2, <3>2 DEF TreeAt
    <3>4. QED
      BY <3>2, <3>3 DEF FilesOf
  <2>4. QED
    BY <1>4, <2>1, <2>2, <2>3
<1>7. tree' = FilesOf(l + 1) /\ l + 1 \in 0..Len0 + 1
  BY <1>1, <1>3, <1>4 DEF FilesOf
<1> HIDE DEF f
<1>8. \A i \in Positions' : f[i] <= l + 1 /\ TreeAt(i)' = FilesOf(f[i])
  BY <1>5, <1>6
<1>9. QED
  BY <1>1, <1>2, <1>5, <1>7, <1>8, GrowHistory

\* What an acceptance or an edit may do to a file.
LEMMA FilesGrow ==
    ASSUME PlanInv, WriteAccepted \/ DieAccepting \/ EditFile
    PROVE  /\ Grows(tree, tree')
           /\ \A p \in Plans : Readable(tree'.plans[p]) =>
                \/ tree'.plans[p].base = tree.plans[p].base /\ Readable(tree.plans[p])
                \/ job # Idle /\ tree'.plans[p].base = job.content.base
<1>1. tree \in Files /\ job \in Jobs \cup {Idle} /\ tree' \in Files
  <2>1. TypeOK'
    BY WriteStep, DieStep, EditStep DEF PlanInv
  <2>2. QED
    BY <2>1 DEF PlanInv, TypeOK
<1>2. CASE tree' = tree
  BY <1>2 DEF Grows
<1>3. ASSUME NEW value, tree' = [tree EXCEPT !.policy = value]
      PROVE  tree'.plans = tree.plans /\ tree'.replans = tree.replans
  BY <1>1, <1>3 DEF Files
<1>4. CASE \E value : tree' = [tree EXCEPT !.policy = value]
  BY <1>3, <1>4 DEF Grows
<1>5. ASSUME NEW value \in PlanFiles \cup {Torn}, NEW p \in Plans,
             tree' = [tree EXCEPT !.plans[p] = value],
             \/ tree.plans[p] \in {None, value}
             \/ Readable(tree.plans[p]) /\ Readable(value) /\ tree.plans[p].base = value.base,
             Readable(value) => \/ job # Idle /\ value = job.content
                                \/ Readable(tree.plans[p]) /\ value.base = tree.plans[p].base
      PROVE  /\ Grows(tree, tree')
             /\ \A q \in Plans : Readable(tree'.plans[q]) =>
                \/ tree'.plans[q].base = tree.plans[q].base /\ Readable(tree.plans[q])
                \/ job # Idle /\ tree'.plans[q].base = job.content.base
  <2>1. /\ tree'.replans = tree.replans /\ tree'.plans[p] = value
        /\ \A q \in Plans : q # p => tree'.plans[q] = tree.plans[q]
    BY <1>1, <1>5, PlanWritten
  <2>2. ~Readable(None) /\ value # None
    BY <1>5, FilesAssumption DEF Readable
  <2>3. Grows(tree, tree')
    BY <1>5, <2>1, <2>2 DEF Grows
  <2>4. QED
    BY <1>5, <2>1, <2>3
<1>6. ASSUME NEW value \in ReplanFiles \cup {Torn}, NEW p \in Plans,
             tree' = [tree EXCEPT !.replans[p] = value], tree.replans[p] \in {None, value}
      PROVE  Grows(tree, tree') /\ tree'.plans = tree.plans
  <2>1. /\ tree'.plans = tree.plans /\ tree'.replans[p] = value
        /\ \A q \in Plans : q # p => tree'.replans[q] = tree.replans[q]
    BY <1>1, <1>6, ReplanWritten
  <2>2. QED
    BY <1>6, <2>1 DEF Grows
<1>7. CASE EditFile
  <2>1. CASE \E p \in Plans, u \in Unit :
               /\ tree.plans[p] \notin {None, Torn}
               /\ tree' = [tree EXCEPT !.plans[p].units[u].ver = 2]
    <3>1. PICK p \in Plans : \E plan \in PlanFiles :
            /\ Readable(plan) /\ Readable(tree.plans[p]) /\ plan.base = tree.plans[p].base
            /\ tree' = [tree EXCEPT !.plans[p] = plan]
      BY <1>1, <2>1, PlanEdited
    <3>2. QED
      BY <1>5, <3>1
  <2>2. QED
    BY <1>4, <1>3, <1>7, <2>1 DEF EditFile, Grows
<1>8. CASE WriteAccepted \/ DieAccepting
  <2>1. /\ job # Idle /\ job \in Jobs
        /\ \/ tree' = Stored(Wanted) \/ tree' = tree
           \/ tree' = Stored(Torn) /\ tree # Stored(Wanted)
    BY <1>1, <1>8 DEF WriteAccepted, DieAccepting, Idle
  <2>2. /\ job.at \in {"policy", "plan", "replan"} /\ job.plan \in Plans
        /\ job.content \in PlanFiles /\ job.replan \in ReplanFiles \cup {None}
    BY <2>1 DEF Jobs
  <2>3. /\ job.at = "replan" => job.replan # None
        /\ tree.plans[job.plan] \in {None, job.content}
        /\ job.replan # None => tree.replans[job.plan] \in {None, job.replan}
    BY <2>1 DEF PlanInv, JobInv, Free
  <2>4. CASE job.at = "policy"
    BY <1>2, <1>4, <2>1, <2>4 DEF Stored, Wanted
  <2>5. CASE job.at = "plan"
    <3>1. \/ tree' = tree \/ tree' = [tree EXCEPT !.plans[job.plan] = job.content]
          \/ /\ tree' = [tree EXCEPT !.plans[job.plan] = Torn]
             /\ tree # [tree EXCEPT !.plans[job.plan] = job.content]
      BY <2>1, <2>5 DEF Stored, Wanted
    <3>2. tree # [tree EXCEPT !.plans[job.plan] = job.content] => tree.plans[job.plan] # job.content
      BY <1>1 DEF Files
    <3>3. ~Readable(Torn)
      BY DEF Readable
    <3>4. CASE tree' = [tree EXCEPT !.plans[job.plan] = job.content]
      BY <1>5, <2>1, <2>2, <2>3, <3>4
    <3>5. CASE tree' = [tree EXCEPT !.plans[job.plan] = Torn] /\ tree.plans[job.plan] = None
      BY <1>5, <2>2, <3>3, <3>5
    <3>6. QED
      BY <1>2, <2>3, <3>1, <3>2, <3>4, <3>5
  <2>6. CASE job.at = "replan"
    <3>1. \/ tree' = tree \/ tree' = [tree EXCEPT !.replans[job.plan] = job.replan]
          \/ /\ tree' = [tree EXCEPT !.replans[job.plan] = Torn]
             /\ tree # [tree EXCEPT !.replans[job.plan] = job.replan]
      BY <2>1, <2>6 DEF Stored, Wanted
    <3>2. tree # [tree EXCEPT !.replans[job.plan] = job.replan] => tree.replans[job.plan] # job.replan
      BY <1>1 DEF Files
    <3>3. CASE tree' = [tree EXCEPT !.replans[job.plan] = job.replan]
      BY <1>6, <2>2, <2>3, <2>6, <3>3
    <3>4. CASE tree' = [tree EXCEPT !.replans[job.plan] = Torn] /\ tree.replans[job.plan] = None
      BY <1>6, <2>2, <3>4
    <3>5. QED
      BY <1>2, <2>3, <2>6, <3>1, <3>2, <3>3, <3>4
  <2>7. QED
    BY <2>2, <2>4, <2>5, <2>6
<1>9. QED
  BY <1>7, <1>8

LEMMA GrowTree ==
    ASSUME GrowInv, BasesInv, UNCHANGED <<history, commits>>, Grows(tree, tree'),
           Older(tree', commits), (job # Idle => job.content.base <= commits)'
    PROVE  GrowInv' /\ BasesInv'
<1>1. Positions' = Positions /\ Len0' = Len0 /\ \A i : TreeAt(i)' = TreeAt(i)
  BY DEF Positions, Len0, TreeAt
<1>2. \A i \in Positions : Grows(TreeAt(i), tree')
  BY GrowsOn DEF GrowInv
<1>3. GrowInv'
  BY <1>1, <1>2 DEF GrowInv, Grows
<1>4. BasesInv'
  BY <1>1 DEF BasesInv, Older, Readable
<1>5. QED
  BY <1>3, <1>4

LEMMA GrowFiles ==
    ASSUME PlanInv, GrowInv, BasesInv, WriteAccepted \/ DieAccepting \/ EditFile
    PROVE  GrowInv' /\ BasesInv'
<1>1. /\ UNCHANGED <<history, commits>>
      /\ job' = Idle \/ (job # Idle /\ job'.content = job.content) \/ job' = job
  BY DEF WriteAccepted, DieAccepting, EditFile, AfterWrite, PlanInv, TypeOK, Jobs, Idle
<1>2. (job # Idle => job.content.base <= commits)'
  BY <1>1 DEF BasesInv, Idle
<1>3. Older(tree', commits)
  BY FilesGrow DEF BasesInv, Older
<1>4. Grows(tree, tree')
  BY FilesGrow
<1>5. QED
  BY <1>1, <1>2, <1>3, <1>4, GrowTree

\* Steps that write no file: what they start is based on the head.
LEMMA GrowJob ==
    ASSUME PlanInv, GrowInv, BasesInv, UNCHANGED <<history, commits, tree>>,
           \/ UNCHANGED job
           \/ \E p, policy, plan, replan : plan.base = Head0 /\ StartAccept(p, policy, plan, replan)
    PROVE  GrowInv' /\ BasesInv'
<1>1. Head0 <= commits
  <2>1. Len0 \in Positions /\ commits \in Nat
    BY DEF PlanInv, TypeOK, Len0, Positions
  <2>2. IdAt(Len0) \in 0..commits
    BY <2>1, IdsGrow DEF PlanInv
  <2>3. QED
    BY <2>1, <2>2 DEF Head0
<1>2. (job # Idle => job.content.base <= commits)'
  <2>1. CASE UNCHANGED job
    BY <2>1 DEF BasesInv, Idle
  <2>2. CASE \E p, policy, plan, replan : plan.base = Head0 /\ StartAccept(p, policy, plan, replan)
    BY <1>1, <2>2 DEF StartAccept
  <2>3. QED
    BY <2>1, <2>2
<1>3. Grows(tree, tree') /\ Older(tree', commits)
  BY DEF Grows, BasesInv, Older
<1>4. QED
  BY <1>2, <1>3, GrowTree

LEMMA GrowStep ==
    ASSUME PlanInv, GrowInv, BasesInv, [Next]_vars
    PROVE  GrowInv' /\ BasesInv'
<1>1. CASE CreatePlan
  <2>1. UNCHANGED <<history, commits, tree>>
    BY <1>1 DEF CreatePlan, repository
  <2>2. \E p, policy, plan, replan : plan.base = Head0 /\ StartAccept(p, policy, plan, replan)
    BY <1>1 DEF CreatePlan
  <2>3. QED
    BY <2>1, <2>2, GrowJob
<1>2. CASE WriteAccepted \/ DieAccepting \/ EditFile
  BY <1>2, GrowFiles
<1>3. CASE CommitAccepted \/ CommitWork \/ CommitOther
  BY <1>3, GrowPush
<1>4. CASE Reset
  BY <1>4, GrowReset
<1>5. CASE Rebase
  BY <1>5, GrowRebase
<1>6. CASE Gate \/ Export \/ DieJudging \/ ToggleSandbox \/ UNCHANGED vars
  <2>1. UNCHANGED <<history, commits, tree, job>>
    BY <1>6 DEF Gate, Export, DieJudging, ToggleSandbox, Settle, repository, vars
  <2>2. QED
    BY <2>1, GrowJob
<1>7. CASE Replan
  <2>1. UNCHANGED <<history, commits, tree>>
    BY <1>7 DEF Replan, Settle, repository
  <2>2. \/ UNCHANGED job
        \/ \E p, policy, plan, replan : plan.base = Head0 /\ StartAccept(p, policy, plan, replan)
    BY <1>7 DEF Replan
  <2>3. QED
    BY <2>1, <2>2, GrowJob
<1>8. QED
  BY <1>1, <1>2, <1>3, <1>4, <1>5, <1>6, <1>7 DEF Next

\* A plan is bound at one place of a history at most.
LEMMA OneHead ==
    ASSUME PlanInv, GrowInv, BasesInv, NEW p \in Plans,
           NEW m \in Positions, NEW n \in Positions, Fits(m, p), Fits(n, p), m <= n
    PROVE  m = n
<1>1. TypeOK /\ IdsInv /\ Len0 \in Nat /\ m \in Nat /\ n \in Nat /\ Positions = 0..Len0
  BY DEF PlanInv, TypeOK, Len0, Positions
<1>2. Stands(m, p) /\ Stands(n, p)
  BY DEF Fits
<1> DEFINE base(i) == At(PlanAt(i, p).base, i)
           at(i) == AcceptedAt(i, p)
<1>3. /\ PlanAt(m, p) \in PlanFiles /\ base(m) \in 0..m - 1 /\ base(m) \in Positions
      /\ IdAt(base(m)) = PlanAt(m, p).base
      /\ ReplanAt(m, p) # None => ReplanAt(m, p) \in ReplanFiles
  BY <1>1, FittingFiles
<1>4. /\ PlanAt(n, p) \in PlanFiles /\ base(n) \in 0..n - 1 /\ base(n) \in Positions
      /\ IdAt(base(n)) = PlanAt(n, p).base
      /\ ReplanAt(n, p) # None => ReplanAt(n, p) \in ReplanFiles
  BY <1>1, FittingFiles
<1>5. /\ at(m) \in base(m)..m /\ PlanAt(at(m), p) # None
      /\ \A j \in base(m)..at(m) - 1 : PlanAt(j, p) = None
  BY <1>1, <1>2, AcceptedFirst
<1>6. /\ at(n) \in base(n)..n /\ PlanAt(at(n), p) # None
      /\ \A j \in base(n)..at(n) - 1 : PlanAt(j, p) = None
      /\ \A i \in base(n)..n : PlanAt(i, p) # None /\ (\A j \in base(n)..i - 1 : PlanAt(j, p) = None)
            => i = at(n)
  BY <1>1, <1>2, AcceptedFirst
<1>7. n - at(n) = Cardinality(Fresh(n, p)) /\ m - at(m) = Cardinality(Fresh(m, p))
  BY DEF Fits, Implements
<1>8. PlanAt(at(n), p) = PlanAt(n, p) /\ (at(n) > base(n) /\ ReplanAt(n, p) # None
                                            => ReplanAt(at(n), p) = ReplanAt(n, p))
  BY DEF Fits, AcceptedAlone
<1> HIDE DEF base, at
<1>9. \A i, j \in Positions : i <= j =>
        /\ PlanAt(i, p) # None => PlanAt(j, p) # None
        /\ Readable(PlanAt(i, p)) => PlanAt(j, p).base = PlanAt(i, p).base
        /\ ReplanAt(i, p) # None => ReplanAt(j, p) = ReplanAt(i, p)
  BY DEF GrowInv, Grows, PlanAt, ReplanAt
<1>10. PlanAt(n, p).base = PlanAt(m, p).base
  <2>1. Readable(PlanAt(m, p))
    BY <1>3, ReadablePlan
  <2>2. QED
    BY <1>9, <2>1
<1>11. base(n) = base(m)
  BY <1>1, <1>3, <1>4, <1>10, IdsGrow
<1>12. at(m) = at(n)
  BY <1>1, <1>3, <1>5, <1>6, <1>11
\* The base itself does not have the plan, as the plan is newer.
<1>13. at(n) > base(n)
  <2> SUFFICES ASSUME at(n) = base(n) PROVE FALSE
    BY <1>1, <1>4, <1>6
  <2>1. PlanAt(base(n), p) = PlanAt(n, p) /\ Readable(PlanAt(n, p))
    BY <1>4, <1>8, ReadablePlan
  <2>2. CASE base(n) = 0
    BY <2>1, <2>2, NoFilesType DEF PlanAt, TreeAt, Readable
  <2>3. CASE base(n) # 0
    <3>1. base(n) \in 1..Len0
      BY <1>1, <1>4, <2>3
    <3>2. TreeAt(base(n)) = history[base(n)].tree /\ IdAt(base(n)) = history[base(n)].id
      BY <2>3 DEF TreeAt, IdAt
    <3>3. Older(history[base(n)].tree, history[base(n)].id - 1)
      BY <3>1 DEF BasesInv
    <3>4. PlanAt(n, p).base <= history[base(n)].id - 1
      BY <2>1, <3>2, <3>3 DEF Older, PlanAt
    <3>5. PlanAt(n, p).base = history[base(n)].id /\ PlanAt(n, p).base \in Nat
      BY <1>4, <3>2 DEF PlanFiles
    <3>6. QED
      BY <3>4, <3>5
  <2>4. QED
    BY <2>2, <2>3
<1>14. ReplanAt(n, p) = ReplanAt(m, p)
  <2>1. at(n) \in Positions /\ at(n) <= m
    BY <1>1, <1>3, <1>4, <1>5, <1>12
  <2>2. CASE ReplanAt(n, p) # None
    BY <1>8, <1>9, <1>13, <2>1, <2>2
  <2>3. CASE ReplanAt(m, p) # None
    BY <1>9, <2>3
  <2>4. QED
    BY <2>2, <2>3
<1>15. Fresh(n, p) = Fresh(m, p)
  BY <1>14 DEF Fresh
<1>16. at(n) \in Nat
  BY <1>1, <1>4, <1>6
<1>17. QED
  BY <1>1, <1>7, <1>12, <1>15, <1>16

-----------------------------------------------------------------------------
(* The evidence of earlier gates *)

LEMMA UnitsFinite == IsFiniteSet(Unit)
<1>1. Len(Units) \in Nat /\ DOMAIN Units = 1..Len(Units) /\ \A i \in DOMAIN Units : Units[i] \in Unit
  BY Places
<1>2. Units \in Surjection(1..Len(Units), Unit)
  BY <1>1, UnitsAssumption DEF Surjection, Unit, ToSet
<1>3. IsFiniteSet(1..Len(Units))
  BY <1>1, FS_Interval
<1>4. QED
  BY <1>2, <1>3, FS_Surjection

\* The head of a bound plan is bound to one of its units.
LEMMA HeadIsBound ==
    ASSUME PlanInv, NEW n \in Positions, NEW p \in Plans, Bound(n, p) # None
    PROVE  /\ \A u \in Unit : Bound(n, p)[u].id \in 0..IdAt(n)
           /\ Unit # {} => \E u \in Unit : Bound(n, p)[u].id = IdAt(n)
<1> DEFINE bound == Bound(n, p)
           at == AcceptedAt(n, p)
<1>1. TypeOK /\ IdsInv /\ Len0 \in Nat /\ n \in Nat /\ Positions = 0..Len0
  BY DEF PlanInv, TypeOK, Len0, Positions
<1>2. /\ Fits(n, p)
      /\ \A u \in Unit : bound[u].at \in LastAt(n, u) /\ bound[u].id = IdAt(bound[u].at)
  BY BoundFacts
<1>3. at \in 0..n
  <2>1. At(PlanAt(n, p).base, n) \in 0..n - 1 /\ at \in At(PlanAt(n, p).base, n)..n
    BY <1>1, <1>2, FittingFiles, AcceptedFacts
  <2>2. QED
    BY <1>1, <2>1
<1> HIDE DEF bound
<1>4. ASSUME NEW u \in Unit PROVE bound[u].id \in 0..IdAt(n)
  <2>1. bound[u].at \in 1..n
    BY <1>2 DEF LastAt
  <2>2. bound[u].at \in Positions /\ (bound[u].at < n \/ bound[u].at = n)
    BY <1>1, <2>1
  <2>3. IdAt(bound[u].at) \in 0..commits /\ IdAt(n) \in 0..commits
        /\ (bound[u].at < n => IdAt(bound[u].at) < IdAt(n))
    BY <1>1, <2>2, IdsGrow
  <2>4. QED
    BY <1>2, <2>2, <2>3
<1>5. ASSUME Unit # {}
      PROVE  \E u \in Unit : bound[u].id = IdAt(n)
  <2>1. Fresh(n, p) # {} /\ Fresh(n, p) \subseteq Unit
    BY <1>1, <1>2, <1>5, FittingFiles DEF Fresh, ReplanFiles
  <2>2. IsFiniteSet(Fresh(n, p))
    BY <2>1, UnitsFinite, FS_Subset
  <2>3. Cardinality(Fresh(n, p)) \in Nat /\ Cardinality(Fresh(n, p)) # 0
    BY <2>1, <2>2, FS_EmptySet, FS_CardinalityType
  <2>4. n - at = Cardinality(Fresh(n, p))
    BY <1>2 DEF Fits, Implements
  <2> HIDE DEF at
  <2>5. n \in at + 1..n
    BY <1>1, <1>3, <2>3, <2>4
  <2>6. PICK u \in Unit : u \in ToSet(history[n].trailers)
    <3>1. \A i \in at + 1..n : /\ history[i].trailers[1] \in Unit
                               /\ ToSet(history[i].trailers) = {history[i].trailers[1]}
      BY <1>1, <1>2, ImplementsFacts DEF at
    <3>2. QED
      BY <2>5, <3>1
  <2>7. bound[u].at = n
    <3>1. bound[u].at \in 1..n /\ \A j \in bound[u].at + 1..n : u \notin ToSet(history[j].trailers)
      BY <1>2 DEF LastAt
    <3>2. ~(n \in bound[u].at + 1..n)
      BY <2>6, <3>1
    <3>3. QED
      BY <1>1, <3>1, <3>2
  <2>8. QED
    BY <1>2, <2>7
<1>6. QED
  BY <1>4, <1>5 DEF bound

\* What the gate comes to is a bundle of the head; a pass found nothing stale.
LEMMA BundleFacts ==
    ASSUME PlanInv, NEW p \in Plans, NEW g \in Judgements(p)
    PROVE  /\ g.plan = p /\ g.head = Head0 /\ Bound(Len0, p) # None
           /\ BundleAt(g, Len0) /\ HeadBound(g)
           /\ g.verdict = "pass" => Settled(p, Len0)
<1> DEFINE bound == Bound(Len0, p)
           units == PlanAt(Len0, p).units
           prior == Prior(p, bound)
<1>1. bound # None
  BY DEF Judgements
<1>2. PICK exit : g = Bundle(p, prior, bound, units, exit)
  BY DEF Judgements
<1> DEFINE R == Reasons(prior, bound, units, exit)
<1>3. Len0 \in Positions
  BY DEF PlanInv, TypeOK, Len0, Positions
<1>4. /\ g.plan = p /\ g.head = Head0 /\ g.bindings = bound /\ g.verdict = VerdictOf(R)
      /\ g.records = [u \in {v \in Unit : R[v] = {}} |->
            [commit |-> bound[u].id, witness |-> units[u].ver, from |-> RebindFrom(prior, bound, u)]]
  BY <1>2 DEF Bundle
<1>5. BundleAt(g, Len0)
  BY <1>1, <1>4 DEF BundleAt
<1>6. HeadBound(g)
  BY <1>1, <1>3, <1>4, HeadIsBound DEF HeadBound, Head0
<1>7. Admitted(units)
  BY <1>1, <1>3, BoundFacts DEF Fits
<1>8. ASSUME g.verdict = "pass" PROVE Settled(p, Len0)
  <2> HIDE DEF bound, units, prior, R
  <2>1. \A u \in Unit : R[u] = {}
    <3>1. UNION {R[u] : u \in Unit} = {}
      BY <1>4, <1>8 DEF VerdictOf
    <3>2. QED
      BY <3>1
  <2>2. \A u \in Unit : ~Stale(prior, bound, units, u)
    BY <1>7, <2>1, NoReasons DEF R
  <2>3. QED
    BY <1>1, <2>2 DEF Settled, prior, bound, units
<1>9. QED
  BY <1>1, <1>4, <1>5, <1>6, <1>8

\* The first of some of the bundles in the order of names is one of them.
LEMMA FirstIs ==
    ASSUME gates \in Seq(ToSet(gates)), NEW best, best \cap ToSet(gates) # {}
    PROVE  \E x \in 1..Len(gates) : /\ First(best) = gates[x] /\ gates[x] \in best
                                    /\ \A j \in 1..x - 1 : gates[j] \notin best
<1> DEFINE S == {i \in 1..Len(gates) : gates[i] \in best}
<1>1. Len(gates) \in Nat /\ DOMAIN gates = 1..Len(gates)
  OBVIOUS
<1>2. S # {} /\ S \in SUBSET Nat
  BY <1>1 DEF ToSet
<1>3. PICK x \in S : \A y \in S : x <= y
  <2> HIDE DEF S
  <2>1. QED
    BY <1>2, LeastNumber
<1>4. x \in DOMAIN gates /\ gates[x] \in best /\ \A j \in 1..x - 1 : gates[j] \notin best
  <2>1. ASSUME NEW j \in 1..x - 1 PROVE j \notin S /\ j \in 1..Len(gates)
    BY <1>1, <1>3
  <2>2. QED
    BY <1>1, <1>3, <2>1
<1> DEFINE y == CHOOSE i \in DOMAIN gates : gates[i] \in best /\ \A j \in 1..i - 1 : gates[j] \notin best
<1>5. y \in DOMAIN gates /\ gates[y] \in best /\ \A j \in 1..y - 1 : gates[j] \notin best
  BY <1>4
<1>6. First(best) = gates[y]
  BY DEF First
<1> HIDE DEF y
<1>7. QED
  BY <1>1, <1>5, <1>6

LEMMA PriorIs ==
    ASSUME gates \in Seq(ToSet(gates)), NEW p, NEW bound
    PROVE  Prior(p, bound) = None \/ (/\ Prior(p, bound) \in Nearest(p, bound)
                                      /\ Prior(p, bound) \in ToSet(gates)
                                      /\ Prior(p, bound).plan = p)
<1>1. Nearest(p, bound) \subseteq {g \in ToSet(gates) : g.plan = p}
  BY DEF Nearest
<1>2. CASE Nearest(p, bound) = {}
  BY <1>2 DEF Prior
<1>3. CASE Nearest(p, bound) # {}
  <2>1. First(Nearest(p, bound)) \in Nearest(p, bound)
    <3>1. Nearest(p, bound) \cap ToSet(gates) # {}
      BY <1>1, <1>3
    <3>2. QED
      BY <3>1, FirstIs
  <2>2. QED
    BY <1>1, <2>1 DEF Prior
<1>4. QED
  BY <1>2, <1>3

\* Once a bundle of the head itself is kept, the evidence is a bundle of the
\* head: it is the only one that has all its commits.
SettledByBundle ==
    PlanInv /\ GatesInv =>
        \A g \in ToSet(gates), n \in Positions : g.head = IdAt(n) => Settled(g.plan, n)

LEMMA BundleSettles == SettledByBundle
<1> SUFFICES ASSUME PlanInv, GatesInv, NEW g \in ToSet(gates), NEW n \in Positions, g.head = IdAt(n)
             PROVE  Settled(g.plan, n)
  BY DEF SettledByBundle
<1> DEFINE p == g.plan
           bound == Bound(n, p)
           prior == Prior(p, bound)
<1>1. bound # None /\ g.bindings = bound /\ HeadBound(g)
  BY DEF GatesInv, BundleAt
<1>2. gates \in Seq(ToSet(gates))
  BY DEF GatesInv
<1> HIDE DEF bound, p
<1>3. CASE prior = None
  BY <1>1, <1>3 DEF Settled, Stale, HasRecord, bound, p
<1>4. CASE prior # None
  <2>1. prior \in Nearest(p, bound) /\ prior \in ToSet(gates) /\ prior.plan = p
    BY <1>2, <1>4, PriorIs
  <2>2. Exact(g, bound) <= Exact(prior, bound)
    BY <2>1 DEF Nearest, p
  <2> HIDE DEF prior
  <2> DEFINE same == {u \in Unit : prior.bindings[u].id = bound[u].id}
  <2>3. Exact(g, bound) = Cardinality(Unit) /\ Exact(prior, bound) = Cardinality(same)
    <3>1. {u \in Unit : g.bindings[u].id = bound[u].id} = Unit
      BY <1>1
    <3>2. QED
      BY <3>1 DEF Exact
  <2>4. same = Unit
    <3>1. IsFiniteSet(Unit) /\ same \in SUBSET Unit
      BY UnitsFinite
    <3> HIDE DEF same
    <3>2. IsFiniteSet(same) /\ Cardinality(same) <= Cardinality(Unit)
          /\ (Cardinality(Unit) = Cardinality(same) => Unit = same)
      BY <3>1, FS_Subset
    <3>3. Cardinality(same) \in Nat /\ Cardinality(Unit) \in Nat
      BY <3>1, <3>2, FS_CardinalityType
    <3>4. QED
      BY <2>2, <2>3, <3>2, <3>3
  <2>5. \A u \in Unit : prior.bindings[u].id = bound[u].id
    BY <2>4
  <2>6. ASSUME NEW u \in Unit PROVE ~Stale(prior, bound, PlanAt(n, p).units, u)
    <3>1. HeadBound(prior) /\ prior.head \in 0..commits /\ g.head \in 0..commits
      BY <2>1 DEF GatesInv
    <3>2. /\ \A v \in Unit : bound[v].id \in 0..g.head /\ bound[v].id \in 0..prior.head
          /\ \E v \in Unit : bound[v].id = g.head
          /\ \E v \in Unit : bound[v].id = prior.head
      BY <1>1, <2>5, <3>1 DEF HeadBound
    <3>3. prior.head = g.head
      <4>1. g.head \in 0..prior.head /\ prior.head \in 0..g.head
        BY <3>2
      <4>2. QED
        BY <3>1, <4>1
    <3>4. BundleAt(prior, n)
      BY <2>1, <3>3 DEF GatesInv
    <3>5. QED
      BY <2>1, <3>4 DEF BundleAt, Stale, HasRecord
  <2>7. QED
    BY <1>1, <2>6 DEF Settled, bound, prior, p
<1>5. QED
  BY <1>3, <1>4

LEMMA BundleSettlesNext == SettledByBundle'
BY BundleSettles, PTL

LEMMA ConcatFacts ==
    ASSUME NEW T, NEW h \in Seq(T), NEW m \in Seq(T)
    PROVE  /\ h \o m \in Seq(T) /\ Len(h \o m) = Len(h) + Len(m)
           /\ \A j \in 1..Len(h) : (h \o m)[j] = h[j]
           /\ \A j \in Len(h) + 1..Len(h) + Len(m) : (h \o m)[j] = m[j - Len(h)]
OBVIOUS

\* t is s with e inserted at i.
Inserted(t, s, S, i, e) ==
    /\ t \in Seq(S \cup {e}) /\ Len(t) = Len(s) + 1 /\ t[i] = e
    /\ \A j \in 1..i - 1 : t[j] = s[j]
    /\ \A j \in i..Len(s) : t[j + 1] = s[j]

LEMMA InsertFacts ==
    ASSUME NEW S, NEW s \in Seq(S), NEW e, NEW i \in Nat, i \in 1..Len(s) + 1,
           NEW t, t = InsertAt(s, i, e)
    PROVE  Inserted(t, s, S, i, e)
<1> DEFINE T == S \cup {e}
           front == SubSeq(s, 1, i - 1)
           back == SubSeq(s, i, Len(s))
           h == Append(front, e)
<1>1. PICK n : n = Len(s)
  OBVIOUS
<1>2. n \in Nat /\ i \in 1..n + 1 /\ i \in Nat
  BY <1>1
<1>3. front \in Seq(T) /\ Len(front) = i - 1 /\ \A j \in 1..i - 1 : front[j] = s[j]
  <2>1. \A j \in 1..i - 1 : j \in 1..n
    BY <1>2
  <2>2. s \in Seq(T)
    OBVIOUS
  <2>3. i - 1 \in 0..n
    BY <1>2
  <2>4. QED
    BY <1>1, <1>2, <2>1, <2>2, <2>3
<1>4. back \in Seq(T) /\ Len(back) = n - i + 1 /\ \A j \in 1..n - i + 1 : back[j] = s[j + i - 1]
  <2>1. s \in Seq(T) /\ \A j \in i..n : s[j] \in T
    BY <1>1, <1>2
  <2>2. QED
    BY <1>1, <1>2, <2>1
<1> HIDE DEF front, back
<1>5. h \in Seq(T) /\ Len(h) = i /\ h[i] = e /\ \A j \in 1..i - 1 : h[j] = s[j]
  <2>1. Len(h) = (i - 1) + 1
    BY <1>3
  <2>2. QED
    BY <1>2, <1>3, <2>1
<1>6. t = h \o back
  <2>1. t = front \o <<e>> \o back
    BY <1>1 DEF InsertAt, front, back
  <2>2. front \o <<e>> = h
    BY <1>3
  <2>3. QED
    BY <2>1, <2>2
<1> HIDE DEF h, T
<1>7. h \o back \in Seq(T) /\ Len(h \o back) = i + (n - i + 1)
  <2>1. h \o back \in Seq(T) /\ Len(h \o back) = Len(h) + Len(back)
    BY <1>4, <1>5, ConcatFacts
  <2>2. QED
    BY <1>4, <1>5, <2>1
<1>8. \A j \in 1..i : (h \o back)[j] = h[j]
  BY <1>4, <1>5
<1>9. \A j \in i + 1..i + (n - i + 1) : (h \o back)[j] = back[j - i]
  <2>1. h \in Seq(T) /\ back \in Seq(T)
    BY <1>4, <1>5
  <2>2. \A j \in Len(h) + 1..Len(h) + Len(back) : (h \o back)[j] = back[j - Len(h)]
    BY ONLY <2>1, ConcatFacts
  <2>3. QED
    BY <1>4, <1>5, <2>2
<1>10. ASSUME NEW j \in i..n PROVE (h \o back)[j + 1] = s[j]
  <2>1. j + 1 \in i + 1..i + (n - i + 1) /\ (j + 1) - i \in 1..n - i + 1 /\ ((j + 1) - i) + i - 1 = j
    BY <1>2
  <2>2. QED
    BY <1>4, <1>9, <2>1
<1>11. i + (n - i + 1) = n + 1
  BY <1>2
<1>12. \A j \in 1..i - 1 : j \in 1..i
  BY <1>2
<1>13. i \in 1..i
  BY <1>2
<1>14. QED
  BY <1>1, <1>5, <1>6, <1>7, <1>8, <1>10, <1>11, <1>12, <1>13 DEF T, Inserted

FirstPlainly ==
    gates \in Seq(ToSet(gates)) =>
        \A best : best \cap ToSet(gates) # {} =>
            \E x \in 1..Len(gates) : /\ First(best) = gates[x] /\ gates[x] \in best
                                     /\ \A j \in 1..x - 1 : gates[j] \notin best

LEMMA FirstIsPlainly == FirstPlainly
BY FirstIs DEF FirstPlainly

LEMMA FirstIsNext == FirstPlainly'
BY FirstIsPlainly, PTL

\* What a new bundle adds, wherever its name comes.
LEMMA InsertedBundle ==
    ASSUME gates \in Seq(ToSet(gates)), NEW i \in 1..Len(gates) + 1, NEW g,
           gates' = InsertAt(gates, i, g)
    PROVE  /\ ToSet(gates') = ToSet(gates) \cup {g} /\ gates' \in Seq(ToSet(gates'))
           /\ \A best : g \notin best /\ best \cap ToSet(gates) # {} => First(best)' = First(best)
<1>1. PICK n : n = Len(gates)
  OBVIOUS
<1>2. n \in Nat /\ DOMAIN gates = 1..n /\ i \in 1..n + 1
  BY <1>1
<1>3. /\ gates' \in Seq(ToSet(gates) \cup {g}) /\ Len(gates') = n + 1 /\ gates'[i] = g
      /\ \A j \in 1..i - 1 : gates'[j] = gates[j]
      /\ \A j \in i..n : gates'[j + 1] = gates[j]
  <2>1. PICK S, s, t : S = ToSet(gates) /\ s = gates /\ t = gates'
    OBVIOUS
  <2>2. s \in Seq(S) /\ i \in Nat /\ i \in 1..Len(s) + 1 /\ t = InsertAt(s, i, g)
    BY <1>2, <2>1
  <2>3. /\ t \in Seq(S \cup {g}) /\ Len(t) = Len(s) + 1 /\ t[i] = g
        /\ \A j \in 1..i - 1 : t[j] = s[j]
        /\ \A j \in i..Len(s) : t[j + 1] = s[j]
    <3>1. Inserted(t, s, S, i, g)
      BY <2>2, InsertFacts, Zenon
    <3>2. QED
      BY <3>1 DEF Inserted
  <2>4. QED
    BY <1>1, <2>1, <2>3
<1>4. DOMAIN gates' = 1..n + 1
  BY <1>2, <1>3
<1>5. ASSUME NEW j \in 1..n PROVE \E l \in 1..n + 1 : gates'[l] = gates[j]
  BY <1>2, <1>3
<1>6. ASSUME NEW l \in 1..n + 1
      PROVE  \/ l < i /\ l \in 1..n /\ gates'[l] = gates[l]
             \/ l = i /\ gates'[l] = g
             \/ l > i /\ l - 1 \in 1..n /\ gates'[l] = gates[l - 1]
  <2>1. CASE l < i
    BY <1>2, <1>3, <2>1
  <2>2. CASE l > i
    <3>1. l - 1 \in i..n /\ l = (l - 1) + 1
      BY <1>2, <2>2
    <3>2. gates'[(l - 1) + 1] = gates[l - 1]
      BY <1>3, <3>1
    <3>3. QED
      BY <1>2, <2>2, <3>1, <3>2
  <2>3. QED
    BY <1>2, <1>3, <2>1, <2>2
<1>7. ToSet(gates') = ToSet(gates) \cup {g}
  <2>1. ToSet(gates') \subseteq ToSet(gates) \cup {g}
    BY <1>2, <1>4, <1>6 DEF ToSet
  <2>2. ToSet(gates) \subseteq ToSet(gates')
    BY <1>2, <1>4, <1>5 DEF ToSet
  <2>3. g \in ToSet(gates')
    BY <1>2, <1>3, <1>4 DEF ToSet
  <2>4. QED
    BY <2>1, <2>2, <2>3
<1>8. gates' \in Seq(ToSet(gates'))
  BY <1>3, <1>7
<1>9. ASSUME NEW best, g \notin best, best \cap ToSet(gates) # {}
      PROVE  First(best)' = First(best)
  <2>1. PICK x \in 1..n : /\ First(best) = gates[x] /\ gates[x] \in best
                          /\ \A j \in 1..x - 1 : gates[j] \notin best
    BY <1>1, <1>9, FirstIsPlainly DEF FirstPlainly
  <2>2. PICK y \in 1..n + 1 : /\ First(best)' = gates'[y] /\ gates'[y] \in best
                              /\ \A j \in 1..y - 1 : gates'[j] \notin best
    <3>1. best \cap ToSet(gates') # {}
      BY <1>7, <1>9
    <3>2. QED
      BY <1>3, <1>8, <3>1, FirstIsNext DEF FirstPlainly
  <2>3. CASE y < i
    <3>1. gates'[y] = gates[y] /\ y \in 1..n
      BY <1>6, <2>3
    <3>2. ~(y \in 1..x - 1)
      BY <2>1, <2>2, <3>1
    <3>3. x = y \/ x < y
      BY <1>2, <3>1, <3>2
    <3>4. CASE x < y
      <4>1. x \in 1..y - 1 /\ x \in 1..i - 1
        BY <1>2, <2>3, <3>4
      <4>2. QED
        BY <1>3, <2>1, <2>2, <4>1
    <3>5. QED
      BY <2>1, <2>2, <3>1, <3>3, <3>4
  <2>4. CASE y = i
    BY <1>3, <1>9, <2>2, <2>4
  <2>5. CASE y > i
    <3>1. gates'[y] = gates[y - 1] /\ y - 1 \in 1..n /\ y - 1 \in Nat
      BY <1>2, <1>6, <2>5
    <3>2. ~(y - 1 \in 1..x - 1)
      BY <2>1, <2>2, <3>1
    <3>3. x <= y - 1
      BY <1>2, <3>1, <3>2
    <3>4. CASE x < i
      <4>1. x \in 1..y - 1 /\ x \in 1..i - 1
        BY <1>2, <3>3, <3>4
      <4>2. QED
        BY <1>3, <2>1, <2>2, <4>1
    <3>5. CASE x >= i
      <4>1. x \in i..n /\ gates'[x + 1] = gates[x]
        BY <1>2, <1>3, <3>5
      <4>2. ~(x + 1 \in 1..y - 1)
        BY <2>1, <2>2, <4>1
      <4>3. x = y - 1
        BY <1>2, <3>1, <3>3, <4>2
      <4>4. QED
        BY <2>1, <2>2, <3>1, <4>3
    <3>6. QED
      BY <1>2, <3>4, <3>5
  <2>6. QED
    BY <1>2, <2>3, <2>4, <2>5
<1>10. QED
  BY <1>7, <1>8, <1>9

NearestOf(known, bound) ==
    LET near == {g \in known : \A h \in known : Exact(h, bound) <= Exact(g, bound)}
    IN {g \in near : \A h \in near : Score(h, bound) <= Score(g, bound)}

\* A bundle of another plan is no evidence.
LEMMA PriorKept ==
    ASSUME gates \in Seq(ToSet(gates)), NEW i \in 1..Len(gates) + 1, NEW g,
           gates' = InsertAt(gates, i, g), NEW p, g.plan # p, NEW bound
    PROVE  Prior(p, bound)' = Prior(p, bound)
<1>1. ToSet(gates') = ToSet(gates) \cup {g}
  BY InsertedBundle
<1>2. {h \in ToSet(gates') : h.plan = p} = {h \in ToSet(gates) : h.plan = p}
  BY <1>1
<1>3. PICK best : best = Nearest(p, bound)
  OBVIOUS
<1>4. Nearest(p, bound)' = best
  <2>1. Nearest(p, bound) = NearestOf({h \in ToSet(gates) : h.plan = p}, bound)
    BY DEF Nearest, NearestOf
  <2>2. Nearest(p, bound)' = NearestOf({h \in ToSet(gates') : h.plan = p}, bound)
    BY DEF Nearest, NearestOf, Exact, Score
  <2>3. QED
    BY <1>2, <1>3, <2>1, <2>2
<1>5. best \subseteq {h \in ToSet(gates) : h.plan = p}
  BY <1>3 DEF Nearest
<1>6. Prior(p, bound) = IF \E h \in best : Score(h, bound) > 0 THEN First(best) ELSE None
  BY <1>3 DEF Prior
<1>7. Prior(p, bound)' = IF \E h \in best : Score(h, bound) > 0 THEN First(best)' ELSE None
  BY <1>4 DEF Prior, Score
<1>8. CASE best = {}
  BY <1>6, <1>7, <1>8
<1>9. CASE best # {}
  <2>1. g \notin best /\ best \cap ToSet(gates) # {}
    BY <1>5, <1>9
  <2>2. First(best)' = First(best)
    BY <2>1, InsertedBundle
  <2>3. QED
    BY <1>6, <1>7, <2>2
<1>10. QED
  BY <1>8, <1>9

LEMMA NewAnswer ==
    ASSUME NEW g, Settle(g)
    PROVE  /\ UNCHANGED <<history, commits, tree>>
           /\ answers' = answers \cup {AnswerOf(g)}
           /\ \/ UNCHANGED gates
              \/ \E i \in 1..Len(gates) + 1 : gates' = InsertAt(gates, i, g)
BY DEF Settle, repository, Answer, AnswerOf, Keep

\* A step gives an answer for the head, or keeps the commits up to some place
\* and gives none.
LEMMA StepKind ==
    ASSUME PlanInv, [Next]_vars
    PROVE  \/ \E p \in Plans : \E g \in Judgements(p) : Settle(g)
           \/ (\E k : Kept(k)) /\ UNCHANGED <<gates, answers>>
<1>1. CASE Gate \/ Export \/ Replan
  BY <1>1 DEF Gate, Export, Replan, Plans
<1>2. CASE \/ CreatePlan \/ WriteAccepted \/ DieAccepting \/ EditFile
           \/ DieJudging \/ ToggleSandbox \/ UNCHANGED vars
  <2>1. UNCHANGED <<history, commits, gates, answers>>
    BY <1>2 DEF CreatePlan, WriteAccepted, DieAccepting, EditFile, DieJudging, ToggleSandbox,
                vars, repository, evidence
  <2>2. Len0 \in Nat /\ commits \in Nat /\ (Len0)' = Len0
    BY <2>1 DEF PlanInv, TypeOK, Len0
  <2>3. Kept(Len0)
    <3>1. \A i : ~(i \in Len0 + 1..(Len0)')
      BY <2>2
    <3>2. QED
      BY <2>1, <2>2, <3>1 DEF Kept
  <2>4. QED
    BY <2>1, <2>3
<1>3. CASE CommitAccepted \/ CommitWork \/ CommitOther
  BY <1>3, CommitFacts, PushFacts
<1>4. CASE Reset
  BY <1>4, ResetFacts
<1>5. CASE Rebase
  BY <1>5, RebaseFacts
<1>6. QED
  BY <1>1, <1>2, <1>3, <1>4, <1>5 DEF Next

\* What holds of bundles and answers of the kept commits goes on to hold when
\* the evidence does not change.
LEMMA KeptFinal ==
    ASSUME PlanInv, TypeOK', IdsInv', GatesInv, PassesInv, NEW k, Kept(k),
           UNCHANGED <<gates, answers>>
    PROVE  GatesInv' /\ PassesInv'
<1>1. TypeOK /\ IdsInv /\ commits \in Nat /\ commits' \in Nat /\ commits <= commits'
  BY DEF PlanInv, TypeOK, Kept
<1>2. \A n \in 0..k, p \in Plans : Bound(n, p)' = Bound(n, p)
  BY BoundSame
<1>3. ASSUME NEW n \in Positions', IdAt(n)' \in 0..commits
      PROVE  /\ n \in 0..k /\ n \in Positions /\ IdAt(n)' = IdAt(n)
             /\ \A p \in Plans : PlanAt(n, p)' = PlanAt(n, p)
  BY <1>1, <1>3, KeptBelow
<1>4. \A p, bound : Prior(p, bound)' = Prior(p, bound)
  BY DEF Prior, Nearest, First, Exact, Score
<1>5. ASSUME NEW g \in ToSet(gates)
      PROVE  /\ g.plan \in Plans /\ g.head \in 0..commits' /\ HeadBound(g)
             /\ \A n \in Positions' : IdAt(n)' = g.head => BundleAt(g, n)'
  <2>1. g.plan \in Plans /\ g.head \in 0..commits /\ HeadBound(g)
    BY DEF GatesInv
  <2>2. ASSUME NEW n \in Positions', IdAt(n)' = g.head PROVE BundleAt(g, n)'
    <3>1. n \in 0..k /\ n \in Positions /\ IdAt(n) = g.head /\ PlanAt(n, g.plan)' = PlanAt(n, g.plan)
      BY <1>3, <2>1, <2>2
    <3>2. BundleAt(g, n) /\ Bound(n, g.plan)' = Bound(n, g.plan)
      BY <1>2, <2>1, <3>1 DEF GatesInv
    <3>3. QED
      BY <3>1, <3>2 DEF BundleAt
  <2>3. g.head \in 0..commits'
    BY <1>1, <2>1
  <2>4. QED
    BY <2>1, <2>2, <2>3
<1>6. GatesInv'
  BY <1>5 DEF GatesInv, HeadBound
<1>7. ASSUME NEW a \in answers, a.verdict = "pass"
      PROVE  a.plan \in Plans /\ \A n \in Positions' : IdAt(n)' = a.head => Settled(a.plan, n)'
  <2>1. a.plan \in Plans /\ a.head \in 0..commits
    BY <1>7 DEF PassesInv, PlanInv, AnswersInv
  <2>2. ASSUME NEW n \in Positions', IdAt(n)' = a.head PROVE Settled(a.plan, n)'
    <3>1. n \in 0..k /\ n \in Positions /\ IdAt(n) = a.head /\ PlanAt(n, a.plan)' = PlanAt(n, a.plan)
      BY <1>3, <2>1, <2>2
    <3>2. Settled(a.plan, n) /\ Bound(n, a.plan)' = Bound(n, a.plan)
      BY <1>2, <1>7, <2>1, <3>1 DEF PassesInv
    <3>3. QED
      BY <1>4, <3>1, <3>2 DEF Settled, Stale, HasRecord
  <2>3. QED
    BY <2>1, <2>2
<1>8. PassesInv'
  BY <1>7 DEF PassesInv
<1>9. QED
  BY <1>6, <1>8

\* An answer for the head, and its bundle wherever its name comes, settle the
\* head and unsettle nothing.
LEMMA SettleFinal ==
    ASSUME PlanInv, PlanInv', FinalInv, NEW p \in Plans, NEW g \in Judgements(p), Settle(g)
    PROVE  GatesInv' /\ PassesInv'
<1>1. /\ UNCHANGED <<history, commits, tree>> /\ answers' = answers \cup {AnswerOf(g)}
      /\ \/ UNCHANGED gates
         \/ \E i \in 1..Len(gates) + 1 : gates' = InsertAt(gates, i, g)
  BY NewAnswer
<1>2. /\ TypeOK /\ IdsInv /\ TypeOK' /\ IdsInv' /\ GrowInv /\ BasesInv /\ GatesInv /\ PassesInv
      /\ Len0 \in Nat /\ commits \in Nat /\ Len0 \in Positions /\ Positions = 0..Len0
  BY DEF PlanInv, FinalInv, TypeOK, Len0, Positions
<1>3. /\ (Len0)' = Len0 /\ Positions' = Positions /\ (Head0)' = Head0
      /\ \A n : /\ IdAt(n)' = IdAt(n)
                /\ \A q : PlanAt(n, q)' = PlanAt(n, q)
  BY <1>1 DEF Len0, Positions, Head0, IdAt, PlanAt, TreeAt
<1>4. \A n \in Positions, q \in Plans : Bound(n, q)' = Bound(n, q)
  <2>1. Kept(Len0)
    <3>1. \A i : ~(i \in Len0 + 1..(Len0)')
      BY <1>2, <1>3
    <3>2. QED
      BY <1>1, <1>2, <1>3, <3>1 DEF Kept
  <2>2. QED
    BY <1>2, <2>1, BoundSame
<1>5. ASSUME NEW h, h.plan \in Plans, NEW n \in Positions
      PROVE  BundleAt(h, n)' <=> BundleAt(h, n)
  BY <1>3, <1>4, <1>5 DEF BundleAt
<1>6. \A n \in Positions : IdAt(n) = Head0 => n = Len0
  BY <1>2, IdsGrow DEF Head0
<1>7. /\ g.plan = p /\ g.head = Head0 /\ Bound(Len0, p) # None
      /\ BundleAt(g, Len0) /\ HeadBound(g)
      /\ g.verdict = "pass" => Settled(p, Len0)
  BY BundleFacts
<1>8. Head0 \in 0..commits
  BY <1>2, IdsGrow DEF Head0
<1>9. /\ gates \in Seq(ToSet(gates))
      /\ \A h \in ToSet(gates) :
          /\ h.plan \in Plans /\ h.head \in 0..commits /\ HeadBound(h)
          /\ \A n \in Positions : IdAt(n) = h.head => BundleAt(h, n)
  BY <1>2 DEF GatesInv
\* Every bundle is of the head that it names.
<1>10. GatesInv'
  <2>1. ToSet(gates') \subseteq ToSet(gates) \cup {g} /\ gates' \in Seq(ToSet(gates'))
    BY <1>1, <1>9, InsertedBundle
  <2>2. ASSUME NEW h \in ToSet(gates')
        PROVE  /\ h.plan \in Plans /\ h.head \in 0..commits /\ HeadBound(h)
               /\ \A n \in Positions : IdAt(n) = h.head => BundleAt(h, n)
    BY <1>6, <1>7, <1>8, <1>9, <2>1
  <2>3. \A h \in ToSet(gates') : \A n \in Positions' : IdAt(n)' = h.head => BundleAt(h, n)'
    BY <1>3, <1>5, <2>2
  <2>4. QED
    BY <1>1, <2>1, <2>2, <2>3 DEF GatesInv, HeadBound
\* A pass found its head settled.
<1>11. ASSUME NEW a \in answers', a.verdict = "pass"
       PROVE  a.plan \in Plans /\ \A n \in Positions : IdAt(n) = a.head => Settled(a.plan, n)
  <2>1. CASE a \in answers
    BY <1>2, <1>11, <2>1 DEF PassesInv
  <2>2. CASE a = AnswerOf(g)
    BY <1>6, <1>7, <1>11, <2>2 DEF AnswerOf
  <2>3. QED
    BY <1>1, <2>1, <2>2
<1>12. ASSUME NEW q \in Plans, NEW n \in Positions, Settled(q, n)
       PROVE  Settled(q, n)'
  <2>1. Bound(n, q) # None /\ Bound(n, q)' = Bound(n, q) /\ PlanAt(n, q)' = PlanAt(n, q)
    BY <1>3, <1>4, <1>12 DEF Settled
  <2>2. ASSUME \A bound : Prior(q, bound)' = Prior(q, bound) PROVE Settled(q, n)'
    BY <1>12, <2>1, <2>2 DEF Settled, Stale, HasRecord
  <2>3. CASE UNCHANGED gates
    <3>1. \A bound : Prior(q, bound)' = Prior(q, bound)
      BY <2>3 DEF Prior, Nearest, First, Exact, Score
    <3>2. QED
      BY <2>2, <3>1
  <2>4. CASE \E i \in 1..Len(gates) + 1 : gates' = InsertAt(gates, i, g)
    <3>1. PICK i \in 1..Len(gates) + 1 : gates' = InsertAt(gates, i, g)
      BY <2>4
    <3>2. CASE q # p
      <4>1. \A bound : Prior(q, bound)' = Prior(q, bound)
        BY <1>7, <1>9, <3>1, <3>2, PriorKept
      <4>2. QED
        BY <2>2, <4>1
    <3>3. CASE q = p
      <4>1. n = Len0
        <5>1. Fits(n, p) /\ Fits(Len0, p) /\ n <= Len0
          BY <1>2, <1>7, <2>1, <3>3, BoundFacts
        <5>2. QED
          BY <1>2, <5>1, OneHead
      <4>2. g \in ToSet(gates') /\ g.head = IdAt(n)'
        BY <1>3, <1>7, <1>9, <3>1, <4>1, InsertedBundle DEF Head0
      <4>3. QED
        BY <1>3, <1>7, <1>10, <3>3, <4>2, BundleSettlesNext DEF SettledByBundle
    <3>4. QED
      BY <3>2, <3>3
  <2>5. QED
    BY <1>1, <2>3, <2>4
<1>13. PassesInv'
  BY <1>3, <1>11, <1>12 DEF PassesInv
<1>14. QED
  BY <1>10, <1>13

\* Nothing is against any unit when nothing of its own is.
Blameless(prior, bound, units, exit) ==
    \A u \in Unit : /\ history[bound[u].at].flaw # "stray"
                    /\ Evaluation(history[bound[u].at].blueprint, ClaimOf[u]) = "satisfied"
                    /\ exit = 0 /\ ~Stale(prior, bound, units, u)

LEMMA NothingAgainst ==
    ASSUME NEW prior, NEW bound, NEW units, NEW exit, Blameless(prior, bound, units, exit)
    PROVE  \A u \in Unit : Reasons(prior, bound, units, exit)[u] = {}
<1>1. PICK f : /\ Reasons(prior, bound, units, exit) = [v \in Unit |-> f[Place(v)]]
               /\ \A i \in DOMAIN Units : f[i] = ReasonsFrom(f, i, prior, bound, units, exit)
  BY ReasonsAre
<1> DEFINE S == {i \in DOMAIN Units : f[i] # {}}
<1>2. S = {}
  <2> SUFFICES ASSUME S # {} PROVE FALSE
    OBVIOUS
  <2>1. S \in SUBSET Nat
    BY Places
  <2>2. PICK i \in S : \A j \in S : i <= j
    <3> HIDE DEF S
    <3>1. QED
      BY <2>1, LeastNumber
  <2>3. i \in DOMAIN Units /\ f[i] # {} /\ Units[i] \in Unit
    BY <2>2, Places
  <2>4. Against(f, i) = {}
    <3>1. ASSUME NEW j \in 1..i - 1 PROVE f[j] = {}
      <4>1. j \in DOMAIN Units /\ j < i
        BY <2>3, Places
      <4>2. ~(i <= j)
        BY <2>3, <4>1, Places
      <4>3. QED
        BY <2>2, <4>1, <4>2
    <3>2. QED
      BY <3>1 DEF Against
  <2>5. f[i] = ReasonsOf(prior, bound, units, exit, Units[i], {})
    BY <1>1, <2>3, <2>4 DEF ReasonsFrom
  <2>6. ClaimReason(bound, Units[i]) = {}
    BY <2>3 DEF ClaimReason, Blameless
  <2>7. ReasonsOf(prior, bound, units, exit, Units[i], {}) = {}
    BY <2>3, <2>6 DEF ReasonsOf, Blameless
  <2>8. QED
    BY <2>3, <2>5, <2>7
<1>3. QED
  BY <1>1, <1>2, Places

\* A gate of the same head and check says again what a pass said.
LEMMA PassAgain ==
    ASSUME PlanInv, NEW p \in Plans, NEW g \in Judgements(p), NEW a,
           EarnedAt(a, Len0), a.plan = p, a.exit = g.exit, Settled(p, Len0)
    PROVE  g.verdict = "pass"
<1> DEFINE bound == Bound(Len0, p)
           units == PlanAt(Len0, p).units
           prior == Prior(p, bound)
<1>1. bound # None
  BY DEF Judgements
<1>2. PICK exit : g = Bundle(p, prior, bound, units, exit)
  BY DEF Judgements
<1> DEFINE R == Reasons(prior, bound, units, exit)
<1>3. g.exit = exit /\ g.verdict = VerdictOf(R)
  BY <1>2 DEF Bundle
<1>4. Len0 \in Nat /\ Len0 \in Positions
  BY DEF PlanInv, TypeOK, Len0, Positions
<1>5. \A u \in Unit : bound[u].at \in LastAt(Len0, u)
  BY <1>1, <1>4, BoundFacts
<1>6. \A u \in Unit : ~Stale(prior, bound, units, u)
  BY DEF Settled
<1> HIDE DEF bound, units, prior
<1>7. ASSUME NEW u \in Unit
      PROVE  /\ history[bound[u].at].flaw # "stray"
             /\ Evaluation(history[bound[u].at].blueprint, ClaimOf[u]) = "satisfied"
             /\ exit = 0 /\ ~Stale(prior, bound, units, u)
  <2>1. PICK i \in LastAt(Len0, u) :
            /\ history[i].flaw = "none" /\ a.exit = 0
            /\ Evaluation(history[i].blueprint, ClaimOf[u]) = "satisfied"
    BY DEF EarnedAt
  <2>2. bound[u].at = i
    <3>1. /\ i \in 1..Len0 /\ u \in ToSet(history[i].trailers)
          /\ \A j \in i + 1..Len0 : u \notin ToSet(history[j].trailers)
      BY DEF LastAt
    <3>2. PICK k : k = bound[u].at
      OBVIOUS
    <3>3. /\ k \in 1..Len0 /\ u \in ToSet(history[k].trailers)
          /\ \A j \in k + 1..Len0 : u \notin ToSet(history[j].trailers)
      BY <1>5, <3>2 DEF LastAt
    <3>4. ~(k \in i + 1..Len0) /\ ~(i \in k + 1..Len0)
      BY <3>1, <3>3
    <3>5. QED
      BY <1>4, <3>1, <3>2, <3>3, <3>4
  <2>3. QED
    BY <1>3, <1>6, <2>1, <2>2
<1>8. \A u \in Unit : R[u] = {}
  <2>1. Blameless(prior, bound, units, exit)
    BY <1>7 DEF Blameless
  <2>2. QED
    BY <2>1, NothingAgainst
<1> HIDE DEF R
<1>9. UNION {R[u] : u \in Unit} = {}
  BY <1>8
<1>10. QED
  BY <1>3, <1>9 DEF VerdictOf

LEMMA FinalInit ==
    ASSUME Init
    PROVE  FinalInv
<1>1. /\ history = <<>> /\ Len0 = 0 /\ commits = 0 /\ tree = NoFiles /\ job = Idle
      /\ gates = <<>> /\ answers = {}
  BY DEF Init, Len0
<1>2. GrowInv
  <2>1. Positions = {0} /\ TreeAt(0) = NoFiles
    BY <1>1 DEF Positions, TreeAt
  <2>2. Grows(NoFiles, NoFiles)
    BY NoFilesType DEF Grows, Readable
  <2>3. QED
    BY <1>1, <2>1, <2>2 DEF GrowInv
<1>3. BasesInv
  BY <1>1, NoFilesType DEF BasesInv, Older, Readable
<1>4. GatesInv
  <2>1. ToSet(gates) = {} /\ gates \in Seq(ToSet(gates))
    BY <1>1 DEF ToSet
  <2>2. QED
    BY <2>1 DEF GatesInv
<1>5. PassesInv
  BY <1>1 DEF PassesInv
<1>6. QED
  BY <1>2, <1>3, <1>4, <1>5 DEF FinalInv

LEMMA FinalStep ==
    ASSUME PlanInv, FinalInv, [Next]_vars
    PROVE  FinalInv'
<1>1. PlanInv' /\ GrowInv' /\ BasesInv'
  BY PlanStep, GrowStep DEF FinalInv
<1>2. CASE \E p \in Plans : \E g \in Judgements(p) : Settle(g)
  BY <1>1, <1>2, SettleFinal DEF FinalInv
<1>3. CASE (\E k : Kept(k)) /\ UNCHANGED <<gates, answers>>
  <2>1. TypeOK' /\ IdsInv'
    BY <1>1 DEF PlanInv
  <2>2. QED
    BY <1>1, <1>3, <2>1, KeptFinal DEF FinalInv
<1>4. QED
  BY <1>2, <1>3, StepKind

\* At a commit that a pass was given for, no evidence is stale, whatever bundles
\* come, in whatever order of names, and whatever the developer does.
THEOREM FinalInvariant == Spec => []FinalInv
<1>1. Init => FinalInv
  BY FinalInit
<1>2. PlanInv /\ FinalInv /\ [Next]_vars => FinalInv'
  BY FinalStep
<1>3. QED
  BY <1>1, <1>2, PlanInvariant, PTL DEF Spec

LEMMA PassStep ==
    ASSUME PlanInv, FinalInv, [Next]_vars, NEW a \in answers, NEW b \in answers',
           a.plan = b.plan, a.head = b.head, a.exit = b.exit, a.verdict = "pass", b \notin answers
    PROVE  b.verdict = "pass"
<1>1. PICK p \in Plans : \E h \in Judgements(p) : Settle(h)
  <2>1. ~UNCHANGED answers
    OBVIOUS
  <2>2. QED
    BY <2>1, StepKind
<1> PICK g \in Judgements(p) : Settle(g)
  BY <1>1
<1>2. b = AnswerOf(g)
  BY NewAnswer
<1>3. g.plan = p /\ g.head = Head0 /\ Len0 \in Positions
  BY BundleFacts DEF PlanInv, TypeOK, Len0, Positions
<1>4. a.plan = p /\ a.exit = g.exit /\ a.head = Head0
  BY <1>2, <1>3 DEF AnswerOf
<1>5. EarnedAt(a, Len0) /\ Settled(p, Len0)
  BY <1>3, <1>4 DEF PlanInv, AnswersInv, FinalInv, PassesInv, Head0
<1>6. g.verdict = "pass"
  BY <1>4, <1>5, PassAgain
<1>7. QED
  BY <1>2, <1>6 DEF AnswerOf

\* The verdict of a head under a check turns to a pass and not back, although
\* every gate leaves a bundle that the next one compares itself with.
THEOREM PassesAreFinal == Spec => PassIsFinal
<1>1. PlanInv /\ FinalInv /\ [Next]_vars =>
        [\A a \in answers, b \in answers' :
            /\ a.plan = b.plan /\ a.head = b.head /\ a.exit = b.exit
            /\ a.verdict = "pass"
            => b.verdict = "pass" \/ b \in answers]_vars
  BY PassStep
<1>2. QED
  BY <1>1, PlanInvariant, FinalInvariant, PTL DEF Spec, PassIsFinal
=============================================================================
