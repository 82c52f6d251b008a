----------------------------- MODULE LinearPlan -----------------------------
(***************************************************************************)
(* The version 1 pipeline of a linear repository: a plan is accepted into  *)
(* files of the working tree, its work units are implemented by commits    *)
(* that name them in a trailer, the commits are bound to the units, the    *)
(* gate judges the units against earlier evidence kept beside the          *)
(* repository, and a selective replan replaces the invalid ones.           *)
(*                                                                         *)
(* A commit is known by a number of its own, as by its object id.  A file  *)
(* is None, Torn (a death in the middle of its write) or its content.      *)
(***************************************************************************)
EXTENDS Integers, Sequences, FiniteSets, SequencesExt

CONSTANTS
    Units,          \* the work units, in the order of the plan
    Deps,           \* Deps[u]: the dependencies the first plan gives to u
    Source, Other,  \* the identifiers of the plan and of its replacement
    ClaimOf,        \* ClaimOf[u]: the predicate that u claims
    Evaluation(_, _), \* what a blueprint is found to say of a predicate
    Blueprints,     \* the blueprints a commit may evaluate to
    Healthy,        \* the blueprint that satisfies every claim
    Mishaps,        \* what may go wrong, once per unit of the budget
    MaxMishaps, MaxCommits, MaxLength,
    None, Torn      \* a file that is not there, and one that cannot be read

Unit == ToSet(Units)
Plans == {Source, Other}
Place(u) == CHOOSE i \in DOMAIN Units : Units[i] = u

ASSUME UnitsAssumption ==
    /\ Units \in Seq(Unit) /\ IsInjective(Units)
    /\ Source # Other
    /\ Deps \in [Unit -> SUBSET Unit]
    /\ \A u \in Unit : \A d \in Deps[u] : Place(d) < Place(u)
    /\ Healthy \in Blueprints
    /\ \A u \in Unit : Evaluation(Healthy, ClaimOf[u]) = "satisfied"

\* What the files of plans, replacements and policies hold.
PlanFiles == [base : Nat, policy : {1, 2},
              units : [Unit -> [ver : {1, 2}, needs : SUBSET Unit]]]
ReplanFiles == [source : Plans, invalid : (SUBSET Unit) \ {{}}]

ASSUME FilesAssumption ==
    /\ None # Torn
    /\ {None, Torn} \cap (PlanFiles \cup ReplanFiles \cup {1, 2}) = {}

ASSUME BoundsAssumption == MaxMishaps \in Nat /\ MaxCommits \in Nat /\ MaxLength \in Nat

VARIABLES
    history,    \* the first-parent chain above the root
    commits,    \* how many commits have ever been made
    tree,       \* the accepted files of the working tree
    job,        \* the acceptance that a command is writing
    gates,      \* the whole gate bundles kept, in the order of their names
    spoiled,    \* the gate bundles whose file is torn
    checks,     \* the cached exit code of the policy's check
    sandbox,    \* whether the network sandbox is installed
    export,     \* the exported bundle
    answers,    \* the verdicts that were given (not read by the program)
    mishaps

vars == <<history, commits, tree, job, gates, spoiled, checks, sandbox,
          export, answers, mishaps>>
evidence == <<gates, spoiled, checks, export, answers>>
repository == <<history, commits, tree>>

NoFiles == [policy |-> None, plans |-> [p \in Plans |-> None],
            replans |-> [p \in Plans |-> None]]
TreeAt(n) == IF n = 0 THEN NoFiles ELSE history[n].tree
IdAt(n) == IF n = 0 THEN 0 ELSE history[n].id
Len0 == Len(history)
Head0 == IdAt(Len0)
Positions == 0 .. Len0

May(what) == what \in Mishaps /\ mishaps < MaxMishaps
Spend == mishaps' = mishaps + 1
Careful == UNCHANGED mishaps

-----------------------------------------------------------------------------
(* Proposals and acceptance. *)

\* A unit says the version of its claims and the units it needs; those must be
\* units that the proposal lists earlier.
Admitted(units) ==
    \A u \in Unit : \A d \in units[u].needs : d \in Unit /\ Place(d) < Place(u)

\* A file stands in the way of an acceptance unless it is absent or equal.
Free(file, value) == file = None \/ file = value

\* The acceptance is refused before its first write when a file differs.
MayWrite(p, policy, plan, replan) ==
    /\ Free(tree.policy, policy)
    /\ Free(tree.plans[p], plan)
    /\ replan # None => Free(tree.replans[p], replan)

Idle == [at |-> "idle"]

StartAccept(p, policy, plan, replan) ==
    /\ MayWrite(p, policy, plan, replan)
    /\ job' = [at |-> "policy", plan |-> p, policy |-> policy,
               content |-> plan, replan |-> replan]

\* The files that the stages of an acceptance write, one after the other.
Stored(value) ==
    CASE job.at = "policy" -> [tree EXCEPT !.policy = value]
      [] job.at = "plan"   -> [tree EXCEPT !.plans[job.plan] = value]
      [] job.at = "replan" -> [tree EXCEPT !.replans[job.plan] = value]

Wanted ==
    CASE job.at = "policy" -> job.policy
      [] job.at = "plan"   -> job.content
      [] job.at = "replan" -> job.replan

AfterWrite ==
    CASE job.at = "policy" -> [job EXCEPT !.at = "plan"]
      [] job.at = "plan"   -> IF job.replan = None THEN Idle
                              ELSE [job EXCEPT !.at = "replan"]
      [] job.at = "replan" -> Idle

WriteAccepted ==
    /\ job.at # "idle"
    /\ tree' = Stored(Wanted)
    /\ job' = AfterWrite
    /\ Careful
    /\ UNCHANGED <<history, commits, evidence, sandbox>>

\* The process dies before the write, or in the middle of a new file.
DieAccepting ==
    /\ job.at # "idle"
    /\ May("crash") /\ Spend
    /\ \/ tree' = tree
       \/ tree' = Stored(Torn) /\ tree # Stored(Wanted)
    /\ job' = Idle
    /\ UNCHANGED <<history, commits, evidence, sandbox>>

\* A plan is drafted at the head and accepted.
CreatePlan ==
    /\ job.at = "idle"
    /\ \E ver \in 1 .. (IF mishaps = 0 THEN 1 ELSE 2) :
        LET units == [u \in Unit |-> [ver |-> ver, needs |-> Deps[u]]]
        IN /\ Admitted(units)
           /\ StartAccept(Source, 1, [base |-> Head0, policy |-> 1, units |-> units], None)
    /\ Careful
    /\ UNCHANGED <<repository, evidence, sandbox>>

-----------------------------------------------------------------------------
(* Commits, and the history that a developer rewrites. *)

\* A commit records the whole tree; a flaw is how it departs from good work.
Commit(trailers, patch, flaw, blueprint) ==
    [id |-> commits + 1, tree |-> tree, trailers |-> trailers, patch |-> patch,
     flaw |-> flaw, blueprint |-> blueprint]

Push(commit) ==
    /\ Len0 < MaxLength /\ commits < MaxCommits
    /\ history' = Append(history, commit)
    /\ commits' = commits + 1
    /\ UNCHANGED <<tree, job, evidence, sandbox>>

CommitAccepted ==
    /\ job.at = "idle"
    /\ tree # TreeAt(Len0)
    /\ \/ Careful /\ Push(Commit(<<>>, None, "none", Healthy))
       \/ May("mixed") /\ Spend /\ Push(Commit(<<>>, None, "source", Healthy))

\* The patch of a unit's next commit is one that the history does not have.
NextPatch(u) == <<u, Cardinality({i \in 1 .. Len0 : u \in ToSet(history[i].trailers)})>>

CommitWork ==
    /\ job.at = "idle"
    /\ tree = TreeAt(Len0)
    /\ tree # NoFiles
    /\ \E u \in Unit :
        \/ Careful /\ Push(Commit(<<u>>, NextPatch(u), "none", Healthy))
        \/ /\ May("trailer") /\ Spend
           /\ \E names \in {<<>>, <<u, u>>} : Push(Commit(names, NextPatch(u), "none", Healthy))
        \/ /\ May("copy") /\ Spend
           /\ \E v \in Unit \ {u} : Push(Commit(<<u>>, <<v, 0>>, "none", Healthy))
        \/ /\ May("rewrite") /\ Spend
           /\ Push(Commit(<<u>>, <<u, MaxLength>>, "none", Healthy))
        \/ /\ May("scope") /\ Spend
           /\ Push(Commit(<<u>>, NextPatch(u), "stray", Healthy))
        \/ /\ May("merge") /\ Spend
           /\ Push(Commit(<<u>>, NextPatch(u), "merge", Healthy))
        \/ /\ May("blueprint") /\ Spend
           /\ \E b \in Blueprints \ {Healthy} : Push(Commit(<<u>>, NextPatch(u), "none", b))

\* A commit of somebody else's that no plan knows.
CommitOther ==
    /\ job.at = "idle"
    /\ May("other") /\ Spend
    /\ Push(Commit(<<>>, None, "source", Healthy))

\* A file that was accepted is edited by hand.
EditFile ==
    /\ job.at = "idle"
    /\ May("edit") /\ Spend
    /\ \/ tree.policy = 1 /\ tree' = [tree EXCEPT !.policy = 2]
       \/ \E p \in Plans, u \in Unit :
            /\ tree.plans[p] \notin {None, Torn}
            /\ tree.plans[p].units[u].ver = 1
            /\ tree' = [tree EXCEPT !.plans[p].units[u].ver = 2]
    /\ UNCHANGED <<history, commits, job, evidence, sandbox>>

\* The branch and the tree go back to an earlier commit.
Reset ==
    /\ job.at = "idle"
    /\ May("reset") /\ Spend
    /\ \E n \in 0 .. Len0 :
        /\ n < Len0 \/ tree # TreeAt(Len0)
        /\ history' = SubSeq(history, 1, n)
        /\ tree' = TreeAt(n)
    /\ UNCHANGED <<commits, job, evidence, sandbox>>

\* The commits above n are replayed on a commit of somebody else's; each of
\* them gets a new identity and keeps its patch.
Rebase ==
    /\ job.at = "idle"
    /\ tree = TreeAt(Len0)
    /\ May("rebase") /\ Spend
    /\ \E n \in 0 .. Len0 - 1, b \in Blueprints :
        /\ Len0 < MaxLength
        /\ commits + 1 + (Len0 - n) <= MaxCommits
        /\ LET base == [id |-> commits + 1, tree |-> TreeAt(n), trailers |-> <<>>,
                        patch |-> None, flaw |-> "source", blueprint |-> b]
               moved == [i \in 1 .. Len0 - n |->
                            [history[n + i] EXCEPT !.id = commits + 1 + i,
                                !.blueprint = IF b = Healthy THEN @ ELSE b]]
           IN history' = Append(SubSeq(history, 1, n), base) \o moved
        /\ commits' = commits + 1 + (Len0 - n)
    /\ UNCHANGED <<tree, job, evidence, sandbox>>

-----------------------------------------------------------------------------
(* Binding the commits to the units of a plan. *)

Readable(file) == file \notin {None, Torn}

\* The position of a commit in the first n, or -1 when it is not below them.
At(id, n) == IF \E i \in 0 .. n : IdAt(i) = id THEN CHOOSE i \in 0 .. n : IdAt(i) = id ELSE -1

PlanAt(n, p) == TreeAt(n).plans[p]
ReplanAt(n, p) == TreeAt(n).replans[p]

\* The files at the head are whole and agree, and the base precedes it.
Stands(n, p) ==
    /\ Readable(PlanAt(n, p)) /\ Readable(TreeAt(n).policy)
    /\ ReplanAt(n, p) # Torn
    /\ PlanAt(n, p).policy = TreeAt(n).policy
    /\ At(PlanAt(n, p).base, n) \in 0 .. n - 1
    /\ \A i \in At(PlanAt(n, p).base, n) + 1 .. n : history[i].flaw # "merge"

\* The first commit after the base that has the plan, or the base itself.
AcceptedAt(n, p) ==
    CHOOSE i \in At(PlanAt(n, p).base, n) .. n :
        /\ PlanAt(i, p) # None
        /\ \A j \in At(PlanAt(n, p).base, n) .. i - 1 : PlanAt(j, p) = None

\* The commit of the acceptance changes nothing else, and what it accepted is
\* what the head has.
AcceptedAlone(n, p) ==
    LET base == At(PlanAt(n, p).base, n)
        at == AcceptedAt(n, p)
    IN /\ PlanAt(at, p) = PlanAt(n, p)
       /\ at > base =>
            /\ TreeAt(at).policy = TreeAt(n).policy
            /\ ReplanAt(n, p) # None => ReplanAt(at, p) = ReplanAt(n, p)
            /\ history[at].flaw # "source"
            /\ \A i \in base + 1 .. at : history[i].trailers = <<>>
            /\ \A q \in Plans \ {p} : /\ PlanAt(at, q) = PlanAt(at - 1, q)
                                      /\ ReplanAt(at, q) = ReplanAt(at - 1, q)

\* The units that need a commit of their own.
Fresh(n, p) == IF ReplanAt(n, p) = None THEN Unit ELSE ReplanAt(n, p).invalid

\* The commits after the acceptance name the fresh units, each once and after
\* its dependencies.
\* Seeded fault: the commits may come in any order.
ImplementsUnordered(n, p) ==
    LET at == AcceptedAt(n, p)
        named == [i \in at + 1 .. n |-> history[i].trailers]
        seen(i) == (Unit \ Fresh(n, p)) \cup UNION {ToSet(named[j]) : j \in at + 1 .. i - 1}
    IN /\ n - at = Cardinality(Fresh(n, p))
       /\ \A i \in at + 1 .. n : Len(named[i]) = 1 /\ named[i][1] \in Fresh(n, p) \ seen(i)
Implements(n, p) ==
    LET at == AcceptedAt(n, p)
        named == [i \in at + 1 .. n |-> history[i].trailers]
        seen(i) == (Unit \ Fresh(n, p)) \cup UNION {ToSet(named[j]) : j \in at + 1 .. i - 1}
    IN /\ n - at = Cardinality(Fresh(n, p))
       /\ \A i \in at + 1 .. n :
            /\ Len(named[i]) = 1
            /\ named[i][1] \in Fresh(n, p) \ seen(i)
            /\ PlanAt(n, p).units[named[i][1]].needs \subseteq seen(i)

\* A replacement keeps the preserved units of a plan that is at its base.
ReplanFits(n, p) ==
    ReplanAt(n, p) # None =>
        LET source == ReplanAt(n, p).source
            base == At(PlanAt(n, p).base, n)
        IN /\ source # p
           /\ Readable(PlanAt(base, source))
           /\ \A u \in Unit \ Fresh(n, p) :
                PlanAt(base, source).units[u] = PlanAt(n, p).units[u]

\* What the files and the commits must be for the plan to be bound at all.
Fits(n, p) ==
    /\ Stands(n, p) /\ Admitted(PlanAt(n, p).units)
    /\ AcceptedAlone(n, p) /\ Implements(n, p) /\ ReplanFits(n, p)

Own(n, p) == {[unit |-> history[i].trailers[1], at |-> i] : i \in AcceptedAt(n, p) + 1 .. n}

\* Every unit is bound, and no patch occurs twice.
Complete(all) ==
    /\ {b.unit : b \in all} = Unit
    /\ \A b, c \in all : history[b.at].patch = history[c.at].patch => b = c

\* The commit of every unit of plan p at position n; nothing when refused.
Bindings[n \in Positions] == [p \in Plans |->
    IF ~Fits(n, p) THEN {}
    ELSE LET kept == IF ReplanAt(n, p) = None THEN {}
                     ELSE {b \in Bindings[At(PlanAt(n, p).base, n)][ReplanAt(n, p).source] :
                              b.unit \notin Fresh(n, p)}
             all == Own(n, p) \cup kept
         IN IF Complete(all) THEN all ELSE {}]

-----------------------------------------------------------------------------
(* The policy's check, cached by the head and the environment. *)

CheckKey(n) == <<IdAt(n), sandbox>>

\* A cached result is final, a torn one an error; without a sandbox the check
\* is not run and counts as failed.
CheckOutcomes(n) ==
    IF CheckKey(n) \in DOMAIN checks THEN {checks[CheckKey(n)]} \ {Torn}
    ELSE IF sandbox THEN {0, 1} ELSE {255}

Cached(n, exit) == checks' = (CheckKey(n) :> exit) @@ checks

-----------------------------------------------------------------------------
(* The gate. *)

\* Of every unit's bound commit: its place, identity and patch.
Bound(n, p) ==
    LET all == Bindings[n][p]
    IN IF all = {} THEN None
       ELSE [u \in Unit |-> LET i == (CHOOSE b \in all : b.unit = u).at
                            IN [at |-> i, id |-> IdAt(i), patch |-> history[i].patch]]

\* Earlier evidence: the bundle with the most equal commits, then with the
\* most equal patches; the first name decides between the rest.
Exact(g, bound) == Cardinality({u \in Unit : g.bindings[u].id = bound[u].id})
Score(g, bound) == Cardinality({u \in Unit : g.bindings[u].patch = bound[u].patch})
Nearest(p, bound) ==
    LET known == {g \in ToSet(gates) : g.plan = p}
        near == {g \in known : \A h \in known : Exact(h, bound) <= Exact(g, bound)}
    IN {g \in near : \A h \in near : Score(h, bound) <= Score(g, bound)}
First(best) == gates[CHOOSE i \in DOMAIN gates :
                        gates[i] \in best /\ \A j \in 1 .. i - 1 : gates[j] \notin best]
Prior(p, bound) ==
    IF \E g \in Nearest(p, bound) : Score(g, bound) > 0
    THEN First(Nearest(p, bound)) ELSE None

HasRecord(prior, u) == prior # None /\ u \in DOMAIN prior.records

\* The prior record of an unchanged patch witnessed other claims.
\* Seeded fault: a prior bundle without a record of the unit makes it stale.
StaleUnrecorded(prior, bound, units, u) ==
    /\ prior # None
    /\ prior.bindings[u].patch = bound[u].patch
    /\ HasRecord(prior, u) => prior.records[u].witness # units[u].ver
Stale(prior, bound, units, u) ==
    /\ HasRecord(prior, u)
    /\ prior.bindings[u].patch = bound[u].patch
    /\ prior.records[u].witness # units[u].ver

ClaimReason(bound, u) == {Evaluation(history[bound[u].at].blueprint, ClaimOf[u])} \ {"satisfied"}

\* The reasons against a unit when those against its dependencies are known:
\* one outside its scope or with an invalid dependency is not looked into.
ReasonsOf(prior, bound, units, exit, u, invalid) ==
    LET dependency == IF units[u].needs \cap invalid = {} THEN {} ELSE {"DEPENDENCY_INVALID"}
        scope == IF history[bound[u].at].flaw = "stray" THEN {"SOURCE_SCOPE_VIOLATION"} ELSE {}
        claims == ClaimReason(bound, u)
        stale == IF claims = {} /\ Stale(prior, bound, units, u)
                 THEN {"BLUEPRINT_WITNESS_STALE"} ELSE {}
        check == IF exit = 0 THEN {} ELSE {"REQUIRED_CHECK_FAILED"}
    IN IF dependency \cup scope # {} THEN dependency \cup scope ELSE claims \cup stale \cup check

\* The reasons of all units, in the order of the plan.
Reasons(prior, bound, units, exit) ==
    LET of[i \in DOMAIN Units] ==
            ReasonsOf(prior, bound, units, exit, Units[i],
                      {Units[j] : j \in {k \in 1 .. i - 1 : of[k] # {}}})
    IN [u \in Unit |-> of[Place(u)]]

\* A record of a unit that moved names the record it is rebound from.
RebindFrom(prior, bound, u) ==
    IF ~HasRecord(prior, u) THEN None
    ELSE IF prior.bindings[u].id = bound[u].id THEN prior.records[u].from
    ELSE prior.records[u]

VerdictOf(reasons) ==
    LET all == UNION {reasons[u] : u \in Unit}
    IN IF all = {} THEN "pass"
       ELSE IF all \cap {"ambiguous", "unsupported"} # {} THEN "error" ELSE "blocked"

Bundle(p, prior, bound, units, exit) ==
    LET reasons == Reasons(prior, bound, units, exit)
    IN [plan |-> p, head |-> Head0, exit |-> exit, bindings |-> bound,
        records |-> [u \in {v \in Unit : reasons[v] = {}} |->
            [commit |-> bound[u].id, witness |-> units[u].ver, from |-> RebindFrom(prior, bound, u)]],
        reasons |-> reasons, verdict |-> VerdictOf(reasons)]

\* The bundles that a gate at the head may come to.
Judgements(p) ==
    LET bound == Bound(Len0, p)
    IN IF bound = None THEN {}
       ELSE {Bundle(p, Prior(p, bound), bound, PlanAt(Len0, p).units, exit) :
                exit \in CheckOutcomes(Len0)}

\* A bundle is stored under its digest, which may come anywhere in the order of
\* names; a torn file keeps its name for ever.
Keep(g) ==
    IF g \in spoiled \cup ToSet(gates) THEN UNCHANGED gates
    ELSE \E i \in 1 .. Len(gates) + 1 : gates' = InsertAt(gates, i, g)

Answer(g) ==
    answers' = answers \cup
        {[plan |-> g.plan, head |-> g.head, exit |-> g.exit, verdict |-> g.verdict,
          invalid |-> {u \in Unit : g.reasons[u] # {}}]}

\* The gate at the head comes to bundle g; export and replan go on with it.
Settle(g) ==
    /\ job.at = "idle"
    /\ Cached(Len0, g.exit)
    /\ Keep(g)
    /\ Answer(g)
    /\ UNCHANGED <<spoiled, repository, sandbox>>

Gate ==
    /\ Careful
    /\ \E p \in Plans : \E g \in Judgements(p) : Settle(g)
    /\ UNCHANGED <<job, export>>

\* An export is written once; another content needs another file.
Export ==
    /\ Careful
    /\ \E p \in Plans : \E g \in Judgements(p) :
        Settle(g) /\ export' = IF export = None THEN g ELSE export
    /\ UNCHANGED job

\* Seeded fault: a unit that only depends on an invalid one is preserved.
InvalidItself(g) == {u \in Unit : g.reasons[u] \ {"DEPENDENCY_INVALID"} # {}}
Invalid(g) == {u \in Unit : g.reasons[u] # {}}

\* A replacement for exactly the invalid units, on the head that was judged.
Replan ==
    /\ Careful
    /\ \E g \in Judgements(Source) :
        /\ Settle(g)
        /\ \/ Invalid(g) = {} /\ UNCHANGED job
           \/ /\ Invalid(g) # {}
              /\ \E new \in [Invalid(g) -> [ver : {2}, needs : SUBSET Unit]] :
                   LET units == [u \in Unit |-> IF u \in Invalid(g) THEN new[u]
                                               ELSE PlanAt(Len0, Source).units[u]]
                   IN /\ Admitted(units)
                      /\ StartAccept(Other, TreeAt(Len0).policy,
                            [base |-> Head0, policy |-> TreeAt(Len0).policy, units |-> units],
                            [source |-> Source, invalid |-> Invalid(g)])
    /\ UNCHANGED export

\* The process dies while it writes the cache or the bundle.
DieJudging ==
    /\ job.at = "idle"
    /\ May("crash") /\ Spend
    /\ \E p \in Plans : \E g \in Judgements(p) :
        \/ /\ CheckKey(Len0) \notin DOMAIN checks
           /\ Cached(Len0, Torn)
           /\ UNCHANGED spoiled
        \/ /\ g \notin ToSet(gates)
           /\ Cached(Len0, g.exit)
           /\ spoiled' = spoiled \cup {g}
    /\ UNCHANGED gates
    /\ UNCHANGED <<repository, job, export, answers, sandbox>>

ToggleSandbox ==
    /\ May("sandbox") /\ Spend
    /\ sandbox' = ~sandbox
    /\ UNCHANGED <<repository, job, evidence>>

Init ==
    /\ history = <<>> /\ commits = 0 /\ tree = NoFiles /\ job = Idle
    /\ gates = <<>> /\ spoiled = {} /\ checks = << >> /\ sandbox = TRUE
    /\ export = None /\ answers = {} /\ mishaps = 0

Next ==
    \/ CreatePlan \/ WriteAccepted \/ DieAccepting
    \/ CommitAccepted \/ CommitWork \/ CommitOther \/ EditFile \/ Reset \/ Rebase
    \/ Gate \/ Export \/ Replan \/ DieJudging \/ ToggleSandbox

Spec == Init /\ [][Next]_vars

-----------------------------------------------------------------------------
(* Properties. *)

\* A pass at the head is earned by the history alone: every unit has a last
\* commit that names it and nothing else, is in scope and satisfies its claim,
\* and no unit's commit precedes one it depends on (semantic-repository.ts
\* 541-792 and 1308-1507, whichever chain of plans led there).
PassIsEarned ==
    \A a \in answers : a.verdict = "pass" /\ a.head = Head0 =>
        LET last(u) == {i \in 1 .. Len0 : /\ u \in ToSet(history[i].trailers)
                                           /\ \A j \in i + 1 .. Len0 : u \notin ToSet(history[j].trailers)}
        IN \A u \in Unit : \E i \in last(u) :
            /\ history[i].trailers = <<u>> /\ history[i].flaw = "none"
            /\ Evaluation(history[i].blueprint, ClaimOf[u]) = "satisfied"
            /\ \A d \in PlanAt(Len0, a.plan).units[u].needs : \E j \in last(d) : j < i
            /\ a.exit = 0

\* What a replacement preserves was judged valid at its base (replanSemanticPlan,
\* semantic-repository.ts 1544-1718), even if the replacement's files were
\* written by several commands that died.
PreservedWasValid ==
    \A n \in Positions : \A p \in Plans :
        ReplanAt(n, p) \notin {None, Torn} /\ Bindings[n][p] # {} =>
            \E a \in answers :
                /\ a.plan = ReplanAt(n, p).source
                /\ a.head = PlanAt(n, p).base
                /\ a.invalid = ReplanAt(n, p).invalid

\* A verdict may turn from blocked to pass on the same head and the same check,
\* because a blocked bundle becomes the evidence of the next gate, but a pass is
\* final: no later gate, crash or bundle of another plan takes it back
\* (createSemanticGate, semantic-repository.ts 1404-1445).
PassIsFinal ==
    [][\A a \in answers, b \in answers' :
          /\ a.plan = b.plan /\ a.head = b.head /\ a.exit = b.exit
          /\ a.verdict = "pass"
          => b.verdict = "pass" \/ b \in answers]_vars
=============================================================================
