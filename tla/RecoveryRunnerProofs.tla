------------------------ MODULE RecoveryRunnerProofs ------------------------
(***************************************************************************)
(* Theorems about RecoveryRunner for any plan, any number of commands and  *)
(* any limit: first those that hold whatever runs at once, then those of   *)
(* commands that run one after the other.                                  *)
(***************************************************************************)
EXTENDS RecoveryRunner, FiniteSetTheorems, TLAPS

Attempt == [status : Statuses, unit : Units \cup {NoUnit},
            before : Nat, after : Nat, failure : Failures]

-----------------------------------------------------------------------------
(* Counting. *)

LEMMA CountType ==
    ASSUME NEW h, NEW i \in Nat, NEW status
    PROVE  /\ IsFiniteSet({j \in 1..(i - 1) : h[j].status = status})
           /\ CountBefore(h, i, status) \in Nat
<1>1. IsFiniteSet(1..(i - 1))
  BY FS_Interval
<1>2. IsFiniteSet({j \in 1..(i - 1) : h[j].status = status})
  BY <1>1, FS_Subset
<1>3. QED
  BY <1>2, FS_CardinalityType DEF CountBefore

\* What was counted stays counted, and the new attempt is counted last.
LEMMA CountAppended ==
    ASSUME NEW h \in Seq(Attempt), NEW e \in Attempt, NEW status
    PROVE  /\ \A i \in 1..(Len(h) + 1) :
                CountBefore(Append(h, e), i, status) = CountBefore(h, i, status)
           /\ Count(Append(h, e), status) =
                IF e.status = status THEN Count(h, status) + 1 ELSE Count(h, status)
<1> DEFINE g == Append(h, e)
           S(i) == {j \in 1..(i - 1) : h[j].status = status}
           T(i) == {j \in 1..(i - 1) : g[j].status = status}
           n == Len(h) + 1
<1>1. /\ Len(h) \in Nat /\ Len(g) = n /\ g[n] = e
      /\ \A j \in 1..Len(h) : g[j] = h[j]
  OBVIOUS
<1> HIDE DEF g
<1>2. ASSUME NEW i \in 1..n
      PROVE  T(i) = S(i)
  BY <1>1
<1>3. T(n + 1) = IF e.status = status THEN S(n) \cup {n} ELSE S(n)
  BY <1>1
<1>4. n \notin S(n) /\ IsFiniteSet(S(n))
  <2>1. n \in Nat
    BY <1>1
  <2>2. \A i \in Nat : IsFiniteSet(S(i))
    <3>1. TAKE i \in Nat
    <3>2. IsFiniteSet(1..(i - 1))
      BY FS_Interval
    <3>3. QED
      BY <3>2, FS_Subset
  <2>3. IsFiniteSet(S(n))
    <3> HIDE DEF S, n
    <3>1. QED
      BY <2>1, <2>2, Zenon
  <2>4. QED
    BY <1>1, <2>3
<1>5. Cardinality(S(n) \cup {n}) = Cardinality(S(n)) + 1
  BY <1>4, FS_AddElement
<1>6. Count(g, status) = Cardinality(T(n + 1)) /\ Count(h, status) = Cardinality(S(n))
  BY <1>1 DEF Count, CountBefore
<1>7. ASSUME NEW i \in 1..n
      PROVE  CountBefore(g, i, status) = CountBefore(h, i, status)
  BY <1>2 DEF CountBefore
<1>8. QED
  BY <1>3, <1>5, <1>6, <1>7 DEF g

-----------------------------------------------------------------------------
(* Histories. *)

\* A history that every reader accepts and that has done no more than the plan.
Good(h) ==
    /\ h \in Seq(Attempt)
    /\ ChainOk(h)
    /\ Count(h, "step-retained") <= Len(Retained)
    /\ Count(h, "step-applied") <= Len(Order)

\* An attempt that may follow a history which has not ended.
Fits(h, e) ==
    /\ e \in Attempt
    /\ e.before = HeadOf(h)
    /\ (e.status \in StepStatuses) = (e.unit # NoUnit)
    /\ (e.status = "step-failed") = (e.failure # "none")
    /\ (e.status \in Mutations) = (e.before # e.after)
    /\ e.status # "branch-created"
    /\ e.status = "plan-accepted" => ~PlanAccepted(h)
    /\ e.status \notin {"plan-accepted", "aborted"} => PlanAccepted(h)
    /\ e.status = "step-retained" => IsNext(Retained, Count(h, "step-retained") + 1, e.unit)
    /\ e.status \in ExecutionStatuses => Count(h, "step-retained") = Len(Retained)
    /\ e.status \in {"step-applied", "step-failed"} =>
           IsNext(Order, Count(h, "step-applied") + 1, e.unit)
    /\ e.status = "completed" => Count(h, "step-applied") = Len(Order)

LEMMA GoodType ==
    ASSUME NEW h, Good(h)
    PROVE  /\ h \in Seq(Attempt) /\ h # <<>> /\ Len(h) \in Nat /\ Len(h) >= 1
           /\ h[Len(h)] \in Attempt /\ HeadOf(h) \in Nat
<1>1. h \in Seq(Attempt) /\ h # <<>>
  BY DEF Good, ChainOk
<1>2. Len(h) \in Nat /\ Len(h) >= 1 /\ Len(h) \in 1..Len(h)
  BY <1>1
<1>3. h[Len(h)] \in Attempt
  BY <1>1, <1>2
<1>4. QED
  BY <1>1, <1>2, <1>3 DEF HeadOf, Attempt

\* The first attempt of a recovery.
First == Entry("branch-created", NoUnit, 0, 0, "none")

LEMMA HeadAppended ==
    ASSUME NEW h \in Seq(Attempt), NEW e \in Attempt
    PROVE  /\ Append(h, e) \in Seq(Attempt) /\ Append(h, e) # <<>>
           /\ Len(Append(h, e)) = Len(h) + 1
           /\ Append(h, e)[Len(Append(h, e))] = e
           /\ HeadOf(Append(h, e)) = e.after
BY DEF HeadOf

LEMMA FirstIsGood ==
    /\ First \in Attempt /\ First.after = 0 /\ First.status = "branch-created"
    /\ Good(Append(<<>>, First)) /\ ~Terminal(Append(<<>>, First))
<1> DEFINE h == Append(<<>>, First)
<1>1. First \in Attempt
  BY DEF First, Entry, Attempt, Statuses, Failures
<1>2. /\ First.status = "branch-created" /\ First.unit = NoUnit
      /\ First.before = 0 /\ First.after = 0 /\ First.failure = "none"
  BY DEF First, Entry
<1>3. h \in Seq(Attempt) /\ Len(h) = 1 /\ h[1] = First
  BY <1>1
<1>4. \A s : s # "branch-created" => Count(h, s) = 0
  <2> SUFFICES ASSUME NEW s, s # "branch-created"
               PROVE  Count(h, s) = 0
    OBVIOUS
  <2>1. {j \in 1..(Len(h) + 1 - 1) : h[j].status = s} = {}
    BY <1>2, <1>3
  <2>2. QED
    BY <2>1, FS_EmptySet DEF Count, CountBefore
<1> HIDE DEF h
<1>5. Linked(h) /\ Receipts(h) /\ Opening(h) /\ EndsOnce(h) /\ ~Terminal(h)
  BY <1>2, <1>3 DEF Linked, Receipts, Opening, EndsOnce, Terminal, StepStatuses, Mutations,
                    TerminalStatuses
<1>6. StepsInOrder(h)
  BY <1>2, <1>3 DEF StepsInOrder, ExecutionStatuses
<1>7. Len(Retained) \in Nat /\ Len(Order) \in Nat
  BY PlanAssumption
<1>8. QED
  BY <1>1, <1>2, <1>3, <1>4, <1>5, <1>6, <1>7 DEF Good, ChainOk, h

\* Until it ends, a history without the acceptance of the plan has only its first attempt.
LEMMA AcceptedOrFirst ==
    ASSUME NEW h, Good(h), ~Terminal(h)
    PROVE  /\ Count(h, "plan-accepted") \in {0, 1}
           /\ ~PlanAccepted(h) => Len(h) = 1
<1>1. h \in Seq(Attempt) /\ Len(h) \in Nat /\ Len(h) >= 1 /\ Opening(h)
  BY DEF Good, ChainOk
<1>2. CASE \A i \in 2..Len(h) : h[i].status = "aborted"
  <2>1. Len(h) >= 2 => 2 \in 1..Len(h) /\ 2 \in 2..Len(h)
    BY <1>1
  <2>2. Len(h) = 1
    <3> SUFFICES ASSUME Len(h) # 1 PROVE FALSE
      OBVIOUS
    <3>1. Len(h) >= 2
      <4>1. Len(h) \in Nat /\ Len(h) >= 1
        BY <1>1
      <4>2. QED
        BY <4>1
    <3>2. h[2].status = "aborted" /\ "aborted" \in TerminalStatuses
      BY <1>2, <2>1, <3>1 DEF TerminalStatuses
    <3>3. QED
      BY <2>1, <3>1, <3>2 DEF Terminal
  <2>3. {j \in 1..(Len(h) + 1 - 1) : h[j].status = "plan-accepted"} = {}
    BY <1>1, <2>2 DEF Opening
  <2>4. QED
    BY <2>2, <2>3, FS_EmptySet DEF Count, CountBefore
<1>3. QED
  BY <1>1, <1>2 DEF Opening, PlanAccepted

\* An attempt that fits is accepted.
LEMMA FittingIsGood ==
    ASSUME NEW h, Good(h), ~Terminal(h), NEW e, Fits(h, e)
    PROVE  /\ Good(Append(h, e))
           /\ e.status \notin TerminalStatuses => ~Terminal(Append(h, e))
<1> DEFINE g == Append(h, e)
           n == Len(h)
<1>1. /\ h \in Seq(Attempt) /\ e \in Attempt /\ n \in Nat /\ n >= 1
      /\ Linked(h) /\ Receipts(h) /\ Opening(h) /\ StepsInOrder(h) /\ EndsOnce(h)
  BY DEF Good, ChainOk, Fits
<1>2. /\ g \in Seq(Attempt) /\ Len(g) = n + 1 /\ g[n + 1] = e /\ g # <<>>
      /\ \A i \in 1..n : g[i] = h[i]
  BY <1>1
<1>3. /\ \A i \in 1..(n + 1) : \A s : CountBefore(g, i, s) = CountBefore(h, i, s)
      /\ \A s : Count(g, s) = IF e.status = s THEN Count(h, s) + 1 ELSE Count(h, s)
  BY <1>1, CountAppended
<1>4. \A s : CountBefore(h, n + 1, s) = Count(h, s) /\ Count(h, s) \in Nat
  <2>1. n + 1 \in Nat
    BY <1>1
  <2>2. \A s : CountBefore(h, n + 1, s) \in Nat
    BY <2>1, CountType, Zenon
  <2>3. QED
    BY <2>2, Zenon DEF Count
<1> HIDE DEF g
<1>5. Linked(g)
  BY <1>1, <1>2 DEF Linked, Fits, HeadOf
<1>6. Receipts(g)
  BY <1>1, <1>2 DEF Receipts, Fits
<1>7. EndsOnce(g) /\ (e.status \notin TerminalStatuses => ~Terminal(g))
  BY <1>1, <1>2 DEF EndsOnce, Terminal
<1>8. Opening(g)
  <2>1. /\ g[1].status = "branch-created" /\ g[1].before = 0 /\ g[1].after = 0
        /\ \A i \in 2..Len(g) : g[i].status # "branch-created"
    BY <1>1, <1>2 DEF Opening, Fits
  <2>2. \A i \in 2..Len(g) : g[i].status = "plan-accepted" => i = 2
    BY <1>1, <1>2, AcceptedOrFirst DEF Opening, Fits
  <2>3. \/ Count(g, "plan-accepted") = 1
        \/ \A i \in 2..Len(g) : g[i].status = "aborted"
    BY <1>1, <1>2, <1>3, <1>4, AcceptedOrFirst DEF Fits, PlanAccepted
  <2>4. QED
    BY <2>1, <2>2, <2>3 DEF Opening
<1>9. StepsInOrder(g)
  <2> SUFFICES ASSUME NEW i \in 1..Len(g)
               PROVE  /\ g[i].status = "step-retained" =>
                            IsNext(Retained, CountBefore(g, i, "step-retained") + 1, g[i].unit)
                      /\ g[i].status \in ExecutionStatuses =>
                            CountBefore(g, i, "step-retained") = Len(Retained)
                      /\ g[i].status \in {"step-applied", "step-failed"} =>
                            IsNext(Order, CountBefore(g, i, "step-applied") + 1, g[i].unit)
                      /\ g[i].status = "completed" =>
                            CountBefore(g, i, "step-applied") = Len(Order)
    BY DEF StepsInOrder
  <2>1. CASE i \in 1..n
    BY <1>1, <1>2, <1>3, <2>1 DEF StepsInOrder
  <2>2. CASE i = n + 1
    BY <1>2, <1>3, <1>4, <2>2 DEF Fits
  <2>3. QED
    BY <1>1, <1>2, <2>1, <2>2
<1>10. /\ Count(g, "step-retained") <= Len(Retained)
       /\ Count(g, "step-applied") <= Len(Order)
  <2>1. Len(Retained) \in Nat /\ Len(Order) \in Nat
    BY PlanAssumption
  <2>2. QED
    BY <1>3, <1>4, <2>1 DEF Good, Fits, IsNext
<1>11. QED
  BY <1>2, <1>5, <1>6, <1>7, <1>8, <1>9, <1>10 DEF Good, ChainOk, g

-----------------------------------------------------------------------------
(* The invariant, whatever runs at once. *)

Command == [pc : Running \cup Ended, kind : {"apply", "resume", "abort"}, limited : BOOLEAN,
            history : Seq(Attempt), entry : Attempt, applied : Nat]

Filing == {"creatingFile", "fillingFile"}
Starting == {"reading", "creating"}
Going == {"matching", "checking", "working"}
Closing == {"confirming", "persisting", "fillingResult"}

RunnerTypeOK ==
    /\ ref \in Commit \cup {Absent, Foreign}
    /\ cmd \in [Commands -> {Idle} \cup Command]

\* Every file ends a good history, and the branch has every commit that it records.
FilesAreGood ==
    /\ \A h \in files : Good(h) /\ (ref \in Commit => HeadOf(h) <= ref)
    /\ ref = Absent => files = {}

\* What a command holds it has read or written, and it goes on with a history that has
\* not ended; the attempt it is about to write follows that history and is on the branch.
Holds(c) ==
    /\ cmd[c].history # <<>> => cmd[c].history \in files
    /\ cmd[c].pc \in Starting => cmd[c].history = <<>>
    /\ cmd[c].pc \in Going \cup Closing => cmd[c].history # <<>>
    /\ cmd[c].pc \in Going => ~Terminal(cmd[c].history)
    /\ cmd[c].pc \in Filing =>
        /\ ref # Absent
        /\ ref \in Commit => cmd[c].entry.after <= ref
        /\ IF cmd[c].history = <<>> THEN cmd[c].entry = First
           ELSE ~Terminal(cmd[c].history) /\ Fits(cmd[c].history, cmd[c].entry)

\* The branch is at most one commit ahead of the files.
BranchFollows == ref \in Commit /\ ref > 0 => \E h \in files : ref - 1 <= HeadOf(h)

RunnerInv ==
    /\ RunnerTypeOK
    /\ FilesAreGood
    /\ \A c \in Commands : cmd[c] # Idle => Holds(c)
    /\ BranchFollows

\* No run of the branch goes back: it is created, grows, or is somebody else's for good.
Onward == \/ ref' = ref
          \/ ref' = Foreign
          \/ ref = Absent /\ ref' = 0
          \/ ref \in Commit /\ ref' = ref + 1

LEMMA CommandType ==
    ASSUME RunnerTypeOK, NEW c \in Commands, cmd[c] # Idle
    PROVE  /\ cmd[c] \in Command
           /\ cmd[c].history \in Seq(Attempt) /\ cmd[c].entry \in Attempt
           /\ cmd[c].applied \in Nat
BY DEF RunnerTypeOK, Command

\* One field of one command changes.
LEMMA GoToFacts ==
    ASSUME RunnerTypeOK, NEW c \in Commands, cmd[c] # Idle,
           NEW state \in Running \cup Ended, GoTo(c, state)
    PROVE  /\ cmd' \in [Commands -> {Idle} \cup Command]
           /\ cmd'[c] # Idle /\ cmd'[c].pc = state
           /\ cmd'[c].history = cmd[c].history /\ cmd'[c].entry = cmd[c].entry
           /\ cmd'[c].kind = cmd[c].kind
           /\ \A d \in Commands \ {c} : cmd'[d] = cmd[d]
<1> DEFINE y == [cmd[c] EXCEPT !.pc = state]
<1>1. cmd[c] \in Command
  BY CommandType
<1>2. /\ y \in Command /\ y.pc = state /\ y.history = cmd[c].history
      /\ y.entry = cmd[c].entry /\ y.kind = cmd[c].kind
  BY <1>1 DEF Command
<1>3. y # Idle
  BY <1>2 DEF Idle, Running, Ended
<1>4. cmd' = [cmd EXCEPT ![c] = y]
  BY DEF GoTo
<1> HIDE DEF y
<1>5. QED
  BY <1>2, <1>3, <1>4 DEF RunnerTypeOK

LEMMA ToAppendFacts ==
    ASSUME RunnerTypeOK, NEW c \in Commands, cmd[c] # Idle, NEW e \in Attempt, ToAppend(c, e)
    PROVE  /\ cmd' \in [Commands -> {Idle} \cup Command]
           /\ cmd'[c] # Idle /\ cmd'[c].pc = "creatingFile"
           /\ cmd'[c].history = cmd[c].history /\ cmd'[c].entry = e
           /\ cmd'[c].kind = cmd[c].kind
           /\ \A d \in Commands \ {c} : cmd'[d] = cmd[d]
<1> DEFINE y == [cmd[c] EXCEPT !.pc = "creatingFile", !.entry = e]
<1>1. cmd[c] \in Command
  BY CommandType
<1>2. /\ y \in Command /\ y.pc = "creatingFile" /\ y.history = cmd[c].history
      /\ y.entry = e /\ y.kind = cmd[c].kind
  BY <1>1 DEF Command, Running
<1>3. y # Idle
  BY <1>2 DEF Idle
<1>4. cmd' = [cmd EXCEPT ![c] = y]
  BY DEF ToAppend
<1> HIDE DEF y
<1>5. QED
  BY <1>2, <1>3, <1>4 DEF RunnerTypeOK

LEMMA AfterAppendFacts ==
    ASSUME NEW status \in Statuses
    PROVE  /\ AfterAppend(status) \in {"matching", "working", "partial", "confirming", "aborted"}
           /\ AfterAppend(status) \in {"matching", "working"} =>
                status \in {"branch-created", "plan-accepted", "step-retained", "step-applied"}
           /\ AfterAppend(status) = "confirming" <=> status = "completed"
           /\ AfterAppend(status) = "aborted" <=> status = "aborted"
           /\ AfterAppend(status) = "partial" <=> status \in {"partial", "step-failed"}
           /\ AfterAppend(status) = "matching" <=> status = "branch-created"
BY DEF AfterAppend, Statuses, StepStatuses, ExecutionStatuses, TerminalStatuses

LEMMA RememberFacts ==
    ASSUME RunnerTypeOK, NEW c \in Commands, cmd[c] # Idle, Remember(c)
    PROVE  /\ cmd' \in [Commands -> {Idle} \cup Command]
           /\ cmd'[c] # Idle /\ cmd'[c].pc = AfterAppend(cmd[c].entry.status)
           /\ cmd'[c].history = Appended(c)
           /\ cmd'[c].entry = cmd[c].entry /\ cmd'[c].kind = cmd[c].kind
           /\ \A d \in Commands \ {c} : cmd'[d] = cmd[d]
<1> DEFINE n == IF cmd[c].entry.status = "step-applied" THEN cmd[c].applied + 1 ELSE cmd[c].applied
           pc == AfterAppend(cmd[c].entry.status)
           y == [cmd[c] EXCEPT !.pc = pc, !.history = Appended(c), !.applied = n]
<1>1. /\ cmd[c] \in Command /\ cmd[c].entry \in Attempt /\ cmd[c].applied \in Nat
      /\ Appended(c) \in Seq(Attempt)
  BY CommandType, HeadAppended DEF Appended
<1>2. pc \in Running \cup Ended /\ n \in Nat
  BY <1>1, AfterAppendFacts DEF Attempt, Running, Ended
<1> HIDE DEF pc, n
<1>3. /\ y \in Command /\ y.pc = pc
      /\ y.history = Appended(c)
      /\ y.entry = cmd[c].entry /\ y.kind = cmd[c].kind
  BY <1>1, <1>2 DEF Command
<1>4. y # Idle
  BY <1>2, <1>3 DEF Idle, Running, Ended
<1>5. cmd' = [cmd EXCEPT ![c] = y]
  BY DEF Remember, pc, n
<1> HIDE DEF y
<1>6. QED
  BY <1>3, <1>4, <1>5 DEF RunnerTypeOK, pc

\* What the others hold is not disturbed.
LEMMA FrameHolds ==
    ASSUME RunnerInv, Onward, files \subseteq files',
           NEW d \in Commands, cmd'[d] = cmd[d], cmd[d] # Idle
    PROVE  Holds(d)'
<1>1. Holds(d)
  BY DEF RunnerInv
<1>2. ref # Absent => ref' # Absent
  BY DEF Onward, RunnerInv, RunnerTypeOK, Commit, Absent, Foreign
<1>3. ASSUME cmd[d].pc \in Filing, ref' \in Commit
      PROVE  cmd[d].entry.after <= ref'
  <2>1. cmd[d].entry.after \in Nat /\ ref # Absent
    BY <1>1, <1>3, CommandType DEF RunnerInv, Attempt, Holds
  <2>2. ref \in Commit => cmd[d].entry.after <= ref
    BY <1>1, <1>3 DEF Holds
  <2>3. QED
    BY <1>3, <2>1, <2>2 DEF Onward, Commit, Absent, Foreign
<1>4. QED
  BY <1>1, <1>2, <1>3 DEF Holds

\* A step that records nothing keeps what is recorded; a new commit must be witnessed.
LEMMA QuietStep ==
    ASSUME RunnerInv, Onward, UNCHANGED files,
           ref' = ref \/ ref' \in {0, Foreign} \/ \E h \in files : ref <= HeadOf(h),
           NEW c \in Commands, cmd' \in [Commands -> {Idle} \cup Command],
           \A d \in Commands \ {c} : cmd'[d] = cmd[d],
           cmd'[c] # Idle => Holds(c)'
    PROVE  RunnerInv'
<1>1. ref' \in Commit \cup {Absent, Foreign}
  BY DEF Onward, RunnerInv, RunnerTypeOK, Commit
<1>2. \A h \in files : HeadOf(h) \in Int /\ (ref' \in Commit => HeadOf(h) <= ref')
  <2> SUFFICES ASSUME NEW h \in files
               PROVE  HeadOf(h) \in Int /\ (ref' \in Commit => HeadOf(h) <= ref')
    OBVIOUS
  <2>1. HeadOf(h) \in Nat
    BY GoodType DEF RunnerInv, FilesAreGood
  <2>2. ref # Absent /\ (ref \in Commit => HeadOf(h) <= ref)
    BY DEF RunnerInv, FilesAreGood
  <2>3. QED
    BY <2>1, <2>2 DEF Onward, Commit, Foreign, Absent
<1>3. FilesAreGood'
  BY <1>2 DEF FilesAreGood, RunnerInv, Onward, Absent, Foreign, RunnerTypeOK, Commit
<1>4. BranchFollows'
  BY <1>1, <1>2 DEF BranchFollows, RunnerInv, Onward, Commit, Foreign, Absent
<1>5. \A d \in Commands : cmd'[d] # Idle => Holds(d)'
  BY FrameHolds
<1>6. QED
  BY <1>1, <1>3, <1>4, <1>5 DEF RunnerInv, RunnerTypeOK

\* A command stops, or goes from one stage to the next with what it holds.
LEMMA GoKeeps ==
    ASSUME RunnerInv, NEW c \in Commands, cmd[c] # Idle, NEW state, GoTo(c, state),
           \/ state \in Ended
           \/ cmd[c].pc = "matching" /\ state = "working"
           \/ cmd[c].pc = "confirming" /\ state = "persisting"
           \/ cmd[c].pc = "persisting" /\ state = "fillingResult"
           \/ cmd[c].pc = "creatingFile" /\ state = "fillingFile"
           \/ cmd[c].pc = "reading" /\ state = "creating",
           UNCHANGED <<ref, files>>
    PROVE  RunnerInv'
<1>1. RunnerTypeOK /\ Holds(c) /\ state \in Running \cup Ended
  BY DEF RunnerInv, Running
<1>2. /\ cmd' \in [Commands -> {Idle} \cup Command]
      /\ cmd'[c].pc = state
      /\ cmd'[c].history = cmd[c].history /\ cmd'[c].entry = cmd[c].entry
      /\ \A d \in Commands \ {c} : cmd'[d] = cmd[d]
  BY <1>1, GoToFacts
<1>3. Holds(c)'
  BY <1>1, <1>2 DEF Holds, Ended, Starting, Going, Closing, Filing
<1>4. QED
  BY <1>2, <1>3, QuietStep DEF Onward

\* A command is about to write an attempt that fits; the branch has moved to it, or not.
LEMMA AppendKeeps ==
    ASSUME RunnerInv, NEW c \in Commands, cmd[c] # Idle, cmd[c].history # <<>>,
           ~Terminal(cmd[c].history), NEW e, Fits(cmd[c].history, e), ToAppend(c, e),
           \/ ref' = ref /\ (ref \in Commit => e.after <= ref)
           \/ ref = HeadOf(cmd[c].history) /\ ref' = ref + 1 /\ e.after = ref + 1,
           UNCHANGED files
    PROVE  RunnerInv'
<1> DEFINE h == cmd[c].history
<1>1. RunnerTypeOK /\ Holds(c) /\ e \in Attempt
  BY DEF RunnerInv, Fits
<1>2. h \in files /\ HeadOf(h) \in Nat /\ ref # Absent
  BY <1>1, GoodType DEF Holds, RunnerInv, FilesAreGood
<1>3. /\ cmd' \in [Commands -> {Idle} \cup Command]
      /\ cmd'[c].pc = "creatingFile" /\ cmd'[c].history = h /\ cmd'[c].entry = e
      /\ \A d \in Commands \ {c} : cmd'[d] = cmd[d]
  BY <1>1, ToAppendFacts
<1> HIDE DEF h
<1>4. Onward /\ ref' # Absent /\ (ref' \in Commit => e.after <= ref')
  BY <1>2 DEF Onward, Commit, Absent, h
<1>5. Holds(c)'
  BY <1>2, <1>3, <1>4 DEF Holds, Starting, Going, Closing, Filing, h
<1>6. ref' = ref \/ \E g \in files : ref <= HeadOf(g)
  BY <1>2 DEF h
<1>7. QED
  BY <1>3, <1>4, <1>5, <1>6, QuietStep

\* What a command is about to write is good.
LEMMA AppendedIsGood ==
    ASSUME RunnerInv, NEW c \in Commands, cmd[c] # Idle, cmd[c].pc \in Filing
    PROVE  /\ Good(Appended(c))
           /\ HeadOf(Appended(c)) = cmd[c].entry.after
           /\ cmd[c].entry.status \notin TerminalStatuses => ~Terminal(Appended(c))
           /\ Appended(c) # <<>>
           /\ ref # Absent
           /\ ref \in Commit => cmd[c].entry.after <= ref
<1>1. Holds(c) /\ cmd[c].history \in Seq(Attempt) /\ cmd[c].entry \in Attempt
  BY CommandType DEF RunnerInv
<1>2. HeadOf(Appended(c)) = cmd[c].entry.after /\ Appended(c) # <<>>
  BY <1>1, HeadAppended DEF Appended
<1>3. CASE cmd[c].history = <<>>
  BY <1>1, <1>2, <1>3, FirstIsGood DEF Holds, Appended
<1>4. CASE cmd[c].history # <<>>
  <2>1. Good(cmd[c].history) /\ ~Terminal(cmd[c].history) /\ Fits(cmd[c].history, cmd[c].entry)
    BY <1>1, <1>4 DEF Holds, RunnerInv, FilesAreGood
  <2>2. QED
    BY <1>1, <1>2, <2>1, FittingIsGood DEF Holds, Appended
<1>5. QED
  BY <1>3, <1>4

\* The attempt is in its file, and the command goes on with the longer history.
LEMMA RememberKeeps ==
    ASSUME RunnerInv, NEW c \in Commands, cmd[c] # Idle, cmd[c].pc \in Filing, Remember(c),
           files' = files \cup {Appended(c)}, UNCHANGED ref
    PROVE  RunnerInv'
<1> DEFINE g == Appended(c)
<1>1. RunnerTypeOK /\ cmd[c].entry \in Attempt
  BY CommandType DEF RunnerInv
<1>2. /\ Good(g) /\ HeadOf(g) = cmd[c].entry.after /\ g # <<>>
      /\ cmd[c].entry.status \notin TerminalStatuses => ~Terminal(g)
      /\ ref # Absent /\ (ref \in Commit => HeadOf(g) <= ref)
  BY AppendedIsGood
<1>3. /\ cmd' \in [Commands -> {Idle} \cup Command]
      /\ cmd'[c] # Idle /\ cmd'[c].pc = AfterAppend(cmd[c].entry.status)
      /\ cmd'[c].history = g
      /\ \A d \in Commands \ {c} : cmd'[d] = cmd[d]
  BY <1>1, RememberFacts
<1> HIDE DEF g
<1>4. cmd[c].entry.status \in Statuses
  BY <1>1 DEF Attempt
<1>5. Holds(c)'
  <2>1. /\ cmd'[c].pc \notin Starting \cup Filing \cup {"checking"}
        /\ cmd'[c].pc \in Going => cmd[c].entry.status \notin TerminalStatuses
    BY <1>3, <1>4, AfterAppendFacts DEF Starting, Filing, Going, TerminalStatuses
  <2>2. QED
    BY <1>2, <1>3, <2>1 DEF Holds, g
<1>6. \A d \in Commands \ {c} : cmd'[d] # Idle => Holds(d)'
  BY <1>3, FrameHolds DEF Onward
<1>7. FilesAreGood' /\ BranchFollows'
  BY <1>2 DEF FilesAreGood, BranchFollows, RunnerInv, g
<1>8. QED
  BY <1>1, <1>3, <1>5, <1>6, <1>7 DEF RunnerInv, RunnerTypeOK

\* A failure while a step is recorded becomes an attempt of its own.
LEMMA ThrowKeeps ==
    ASSUME RunnerInv, NEW c \in Commands, cmd[c] # Idle, cmd[c].pc \in Filing,
           NEW failure \in Failures \ {"none"}, Throw(c, failure), UNCHANGED <<ref, files>>
    PROVE  RunnerInv'
<1> DEFINE entry == cmd[c].entry
           e == Entry("step-failed", entry.unit, entry.before, entry.before, failure)
<1>1. Holds(c) /\ entry \in Attempt
  BY CommandType DEF RunnerInv
<1>2. CASE entry.status = "step-applied"
  <2>1. /\ cmd[c].history # <<>> /\ ~Terminal(cmd[c].history) /\ Fits(cmd[c].history, entry)
        /\ ref \in Commit => entry.after <= ref
    BY <1>1, <1>2, FirstIsGood DEF Holds
  <2>2. Good(cmd[c].history)
    BY <1>1, <2>1 DEF Holds, RunnerInv, FilesAreGood
  <2>3. /\ e \in Attempt /\ e.status = "step-failed" /\ e.unit = entry.unit
        /\ e.before = entry.before /\ e.after = entry.before /\ e.failure = failure
    BY <1>1 DEF Entry, Attempt, Statuses, StepStatuses
  <2>4. ToAppend(c, e)
    BY <1>2 DEF Throw
  <2> HIDE DEF e
  <2>5. Fits(cmd[c].history, e)
    BY <1>2, <2>1, <2>3 DEF Fits, StepStatuses, Mutations, ExecutionStatuses
  <2>6. ref \in Commit => e.after <= ref
    BY <1>1, <2>1, <2>2, <2>3 DEF Holds, RunnerInv, FilesAreGood, Fits
  <2>7. QED
    BY <2>1, <2>4, <2>5, <2>6, AppendKeeps
<1>3. CASE entry.status # "step-applied"
  BY <1>3, GoKeeps DEF Throw, Ended
<1>4. QED
  BY <1>2, <1>3

-----------------------------------------------------------------------------
(* What the loop records fits. *)

LEMMA CountIsNat ==
    ASSUME NEW h, Good(h), NEW status
    PROVE  Count(h, status) \in Nat
<1>1. Len(h) + 1 \in Nat
  BY GoodType
<1>2. QED
  BY <1>1, CountType, Zenon DEF Count

\* A unit of the plan that is the next to be done.
LEMMA NextInList ==
    ASSUME NEW list \in Seq(Units), NEW n \in Nat, n <= Len(list), n # Len(list)
    PROVE  IsNext(list, n + 1, list[n + 1]) /\ list[n + 1] \in Units /\ list[n + 1] # NoUnit
BY PlanAssumption DEF IsNext

LEMMA NextUnitFits ==
    ASSUME NEW h, Good(h), RetainsDone(h), ~StepsDone(h)
    PROVE  /\ IsNext(Order, Count(h, "step-applied") + 1, NextUnit(h))
           /\ NextUnit(h) \in Units /\ NextUnit(h) # NoUnit
           /\ Count(h, "step-retained") = Len(Retained) /\ PlanAccepted(h)
<1>1. /\ Count(h, "step-applied") \in Nat /\ Count(h, "step-applied") <= Len(Order)
      /\ Count(h, "step-applied") # Len(Order)
  BY CountIsNat DEF Good, StepsDone
<1>2. QED
  BY <1>1, NextInList, PlanAssumption DEF NextUnit, RetainsDone

\* An attempt of the loop that moves the branch, and one that does not.
LEMMA MoveFits ==
    ASSUME NEW h, Good(h), NEW status \in Mutations, NEW unit,
           status = "plan-accepted" => ~PlanAccepted(h) /\ unit = NoUnit,
           status = "step-applied" => RetainsDone(h) /\ ~StepsDone(h) /\ unit = NextUnit(h)
    PROVE  LET e == Entry(status, unit, HeadOf(h), HeadOf(h) + 1, "none")
           IN  Fits(h, e) /\ e.status = status /\ e.before = HeadOf(h) /\ e.after = HeadOf(h) + 1
<1> DEFINE e == Entry(status, unit, HeadOf(h), HeadOf(h) + 1, "none")
<1>1. HeadOf(h) \in Nat /\ HeadOf(h) # HeadOf(h) + 1
  BY GoodType
<1>2. unit \in Units \cup {NoUnit}
  BY NextUnitFits DEF Mutations
<1>3. /\ e \in Attempt /\ e.status = status /\ e.unit = unit
      /\ e.before = HeadOf(h) /\ e.after = HeadOf(h) + 1 /\ e.failure = "none"
  BY <1>1, <1>2 DEF Entry, Attempt, Mutations, Statuses, StepStatuses, Failures
<1> HIDE DEF e
<1>4. /\ (e.status \in Mutations) = (e.before # e.after)
      /\ (e.status = "step-failed") = (e.failure # "none")
      /\ e.status # "branch-created"
  BY <1>1, <1>3 DEF Mutations
<1>5. ASSUME status = "plan-accepted" PROVE Fits(h, e)
  <2>1. /\ ~PlanAccepted(h) /\ unit = NoUnit /\ status \notin StepStatuses \cup ExecutionStatuses
        /\ status \notin {"step-applied", "step-failed", "step-retained", "completed"}
    BY <1>5 DEF StepStatuses, ExecutionStatuses
  <2>2. QED
    BY <1>3, <1>4, <1>5, <2>1 DEF Fits
<1>6. ASSUME status = "step-applied" PROVE Fits(h, e)
  <2>1. RetainsDone(h) /\ ~StepsDone(h) /\ unit = NextUnit(h)
    BY <1>6
  <2>2. /\ IsNext(Order, Count(h, "step-applied") + 1, unit) /\ unit # NoUnit
        /\ Count(h, "step-retained") = Len(Retained) /\ PlanAccepted(h)
    BY <2>1, NextUnitFits
  <2>3. /\ status \in StepStatuses
        /\ status \notin {"plan-accepted", "aborted", "step-retained", "completed"}
    BY <1>6 DEF StepStatuses
  <2>4. QED
    BY <1>3, <1>4, <2>2, <2>3 DEF Fits
<1>7. QED
  BY <1>3, <1>5, <1>6 DEF Mutations, e

LEMMA NoteFits ==
    ASSUME NEW h, Good(h), NEW status \in Statuses \ (Mutations \cup {"branch-created"}),
           NEW unit, NEW failure \in Failures,
           (status = "step-failed") = (failure # "none"),
           status = "aborted" \/ PlanAccepted(h),
           status \notin {"step-retained", "step-failed"} => unit = NoUnit,
           status = "step-retained" =>
               ~RetainsDone(h) /\ unit = Retained[Count(h, "step-retained") + 1],
           status \in ExecutionStatuses => RetainsDone(h),
           status = "step-failed" => ~StepsDone(h) /\ unit = NextUnit(h),
           status = "completed" => StepsDone(h)
    PROVE  /\ Fits(h, Note(h, status, unit, failure))
           /\ Note(h, status, unit, failure).after = HeadOf(h)
           /\ Note(h, status, unit, failure).status = status
<1> DEFINE e == Note(h, status, unit, failure)
<1>1. HeadOf(h) \in Nat
  BY GoodType
<1>2. status = "step-retained" =>
        /\ IsNext(Retained, Count(h, "step-retained") + 1, unit) /\ unit \in Units /\ unit # NoUnit
  <2> SUFFICES ASSUME status = "step-retained"
               PROVE  /\ IsNext(Retained, Count(h, "step-retained") + 1, unit)
                      /\ unit \in Units /\ unit # NoUnit
    OBVIOUS
  <2>1. PlanAccepted(h) /\ ~RetainsDone(h) /\ unit = Retained[Count(h, "step-retained") + 1]
    OBVIOUS
  <2>2. /\ Count(h, "step-retained") \in Nat /\ Count(h, "step-retained") <= Len(Retained)
        /\ Count(h, "step-retained") # Len(Retained)
    BY <2>1, CountIsNat DEF Good, RetainsDone
  <2>3. QED
    BY <2>1, <2>2, NextInList, PlanAssumption
<1>3. status = "step-failed" =>
        IsNext(Order, Count(h, "step-applied") + 1, unit) /\ unit \in Units /\ unit # NoUnit
  <2> SUFFICES ASSUME status = "step-failed"
               PROVE  /\ IsNext(Order, Count(h, "step-applied") + 1, unit)
                      /\ unit \in Units /\ unit # NoUnit
    OBVIOUS
  <2>1. RetainsDone(h) /\ ~StepsDone(h) /\ unit = NextUnit(h)
    BY DEF ExecutionStatuses
  <2>2. QED
    BY <2>1, NextUnitFits
<1>4. status \in ExecutionStatuses => Count(h, "step-retained") = Len(Retained)
  BY DEF RetainsDone
<1>5. status = "completed" => Count(h, "step-applied") = Len(Order)
  BY DEF StepsDone
<1>6. /\ status # "plan-accepted" /\ status # "step-applied" /\ status # "branch-created"
      /\ status \in Statuses /\ status \notin Mutations
  BY DEF Mutations
<1>7. /\ e \in Attempt /\ e.status = status /\ e.unit = unit
      /\ e.before = HeadOf(h) /\ e.after = HeadOf(h) /\ e.failure = failure
  BY <1>1, <1>2, <1>3, <1>6 DEF Note, Entry, Attempt
<1> HIDE DEF e
<1>8. (e.status \in StepStatuses) = (e.unit # NoUnit)
  BY <1>2, <1>3, <1>6, <1>7 DEF StepStatuses
<1>9. Fits(h, e)
  BY <1>2, <1>3, <1>4, <1>5, <1>6, <1>7, <1>8 DEF Fits
<1>10. QED
  BY <1>7, <1>9 DEF e

-----------------------------------------------------------------------------
(* The steps. *)

LEMMA StartKeeps ==
    ASSUME RunnerInv, NEW c \in Commands, NEW kind \in {"apply", "resume", "abort"},
           NEW limited \in BOOLEAN, Start(c, kind, limited)
    PROVE  RunnerInv'
<1>1. PICK state \in {"reading", "failed"} :
        cmd' = [cmd EXCEPT ![c] = [pc |-> state, kind |-> kind, limited |-> limited,
                                   history |-> <<>>, entry |-> NoEntry, applied |-> 0]]
  BY DEF Start
<1> DEFINE y == [pc |-> state, kind |-> kind, limited |-> limited,
                 history |-> <<>>, entry |-> NoEntry, applied |-> 0]
<1>2. NoEntry \in Attempt
  BY DEF NoEntry, Attempt, Statuses, Failures
<1>3. y \in Command /\ y.pc = state /\ y.history = <<>>
  BY <1>2 DEF Command, Running, Ended
<1>4. cmd' = [cmd EXCEPT ![c] = y]
  BY <1>1
<1> HIDE DEF y
<1>5. /\ cmd' \in [Commands -> {Idle} \cup Command] /\ cmd'[c] = y
      /\ \A d \in Commands \ {c} : cmd'[d] = cmd[d]
  BY <1>3, <1>4 DEF RunnerInv, RunnerTypeOK
<1>6. Holds(c)'
  BY <1>3, <1>5 DEF Holds, Starting, Going, Closing, Filing
<1>7. UNCHANGED <<ref, files>>
  BY DEF Start
<1>8. QED
  BY <1>5, <1>6, <1>7, QuietStep DEF Onward

\* A command reads a history that has not ended.
LEMMA ReadKeeps ==
    ASSUME RunnerInv, NEW c \in Commands, ReadToApply(c) \/ ReadChain(c)
    PROVE  RunnerInv'
<1>1. /\ cmd[c].pc = "reading" /\ cmd[c] # Idle /\ UNCHANGED <<ref, files>>
      /\ cmd[c] \in Command /\ RunnerTypeOK
  BY CommandType DEF ReadToApply, ReadChain, Idle, RunnerInv
<1>2. CASE \E state \in {"creating", "failed"} : GoTo(c, state)
  BY <1>1, <1>2, GoKeeps DEF Ended
<1>3. CASE ReadChain(c) /\ ~GoTo(c, "failed")
  <2>1. PICK h \in Ends :
          /\ ~EndRecorded /\ IsChain(h)
          /\ cmd' = [cmd EXCEPT ![c].pc = IF cmd[c].kind = "resume"
                                           THEN "matching" ELSE "checking",
                                ![c].history = h]
    BY <1>3 DEF ReadChain
  <2>2. /\ h \in files /\ Good(h) /\ h # <<>> /\ h \in Seq(Attempt)
        /\ Len(h) \in Nat /\ Len(h) >= 1
    BY GoodType DEF Ends, RunnerInv, FilesAreGood
  <2>3. ~Terminal(h)
    <3>1. h[Len(h)].status \notin TerminalStatuses
      BY <2>1, <2>2 DEF EndRecorded
    <3>2. EndsOnce(h)
      BY <2>2 DEF Good, ChainOk
    <3>3. QED
      BY <2>2, <3>1, <3>2 DEF EndsOnce, Terminal
  <2> DEFINE pc == IF cmd[c].kind = "resume" THEN "matching" ELSE "checking"
             y == [cmd[c] EXCEPT !.pc = pc, !.history = h]
  <2>4. pc \in {"matching", "checking"}
    OBVIOUS
  <2>5. cmd' = [cmd EXCEPT ![c] = y]
    BY <2>1
  <2> HIDE DEF pc
  <2>6. y \in Command /\ y.pc = pc /\ y.history = h
    BY <1>1, <2>2, <2>4 DEF Command, Running
  <2> HIDE DEF y
  <2>7. /\ cmd' \in [Commands -> {Idle} \cup Command] /\ cmd'[c] = y
        /\ \A d \in Commands \ {c} : cmd'[d] = cmd[d]
    BY <1>1, <2>5, <2>6 DEF RunnerTypeOK
  <2>8. Holds(c)'
    BY <1>1, <2>2, <2>3, <2>4, <2>6, <2>7 DEF Holds, Starting, Going, Closing, Filing
  <2>9. QED
    BY <1>1, <2>7, <2>8, QuietStep DEF Onward
<1>4. QED
  BY <1>2, <1>3 DEF ReadToApply, ReadChain

LEMMA CreateRefKeeps ==
    ASSUME RunnerInv, NEW c \in Commands, CreateRef(c)
    PROVE  RunnerInv'
<1>1. /\ cmd[c].pc = "creating" /\ cmd[c] # Idle /\ UNCHANGED files
      /\ RunnerTypeOK /\ Holds(c)
  BY DEF CreateRef, Idle, RunnerInv
<1>2. CASE ref # Absent
  BY <1>1, <1>2, GoKeeps DEF CreateRef, Ended
<1>3. CASE ref = Absent
  <2>1. ref' = 0 /\ ToAppend(c, First)
    BY <1>3 DEF CreateRef, First
  <2>2. /\ cmd' \in [Commands -> {Idle} \cup Command]
        /\ cmd'[c].pc = "creatingFile" /\ cmd'[c].history = <<>> /\ cmd'[c].entry = First
        /\ \A d \in Commands \ {c} : cmd'[d] = cmd[d]
    BY <1>1, <2>1, ToAppendFacts, FirstIsGood DEF Holds, Starting
  <2>3. Holds(c)'
    BY <2>1, <2>2, FirstIsGood DEF Holds, Starting, Going, Closing, Filing, Absent, Commit
  <2>4. QED
    BY <1>1, <1>3, <2>1, <2>2, <2>3, QuietStep DEF Onward
<1>4. QED
  BY <1>2, <1>3

LEMMA FileKeeps ==
    ASSUME RunnerInv, NEW c \in Commands, CreateFile(c) \/ FillFile(c) \/ DiskFull(c)
    PROVE  RunnerInv'
<1>1. /\ cmd[c].pc \in Filing /\ cmd[c] # Idle /\ UNCHANGED ref
  BY DEF CreateFile, FillFile, DiskFull, Recording, Idle, Filing
<1>2. CASE Throw(c, "store") /\ UNCHANGED files
  BY <1>1, <1>2, ThrowKeeps DEF Failures
<1>3. CASE /\ Remember(c)
           /\ (UNCHANGED files /\ Appended(c) \in files) \/ files' = files \cup {Appended(c)}
  BY <1>1, <1>3, RememberKeeps
<1>4. CASE cmd[c].pc = "creatingFile" /\ GoTo(c, "fillingFile") /\ UNCHANGED files
  BY <1>1, <1>4, GoKeeps
<1>5. QED
  BY <1>2, <1>3, <1>4 DEF CreateFile, FillFile, DiskFull

\* The duties of the loop, and the end of a command.
LEMMA WorkKeeps ==
    ASSUME RunnerInv, NEW c \in Commands,
           \/ AcceptPlan(c) \/ Retain(c) \/ Pause(c) \/ ApplyStep(c) \/ PatchFails(c)
           \/ Complete(c) \/ EvidenceFails(c)
    PROVE  RunnerInv'
<1> DEFINE h == cmd[c].history
<1>1. /\ cmd[c].pc = "working" /\ cmd[c] # Idle /\ UNCHANGED files
  BY DEF AcceptPlan, Retain, Pause, ApplyStep, PatchFails, Complete, EvidenceFails, Working, Idle
<1>2. h \in files /\ Good(h) /\ h # <<>> /\ ~Terminal(h) /\ HeadOf(h) \in Nat
  BY <1>1, GoodType DEF RunnerInv, FilesAreGood, Holds, Going
<1>3. ref \in Commit => HeadOf(h) <= ref
  BY <1>2 DEF RunnerInv, FilesAreGood
<1>4. ASSUME NEW status \in Statuses \ (Mutations \cup {"branch-created"}), NEW unit,
             NEW failure \in Failures,
             Fits(h, Note(h, status, unit, failure)),
             Note(h, status, unit, failure).after = HeadOf(h),
             ToAppend(c, Note(h, status, unit, failure)), UNCHANGED ref
      PROVE  RunnerInv'
  BY <1>1, <1>2, <1>3, <1>4, AppendKeeps
<1>5. CASE UNCHANGED ref /\ GoTo(c, "failed")
  BY <1>1, <1>5, GoKeeps DEF Ended
<1>6. CASE AcceptPlan(c)
  <2>1. CASE ref = HeadOf(h)
    <3>1. /\ ~PlanAccepted(h) /\ ref' = ref + 1
          /\ ToAppend(c, Entry("plan-accepted", NoUnit, HeadOf(h), HeadOf(h) + 1, "none"))
      BY <1>6, <2>1 DEF AcceptPlan, Swap
    <3> DEFINE e == Entry("plan-accepted", NoUnit, HeadOf(h), HeadOf(h) + 1, "none")
    <3>2. Fits(h, e) /\ e.after = HeadOf(h) + 1
      BY <1>2, <3>1, MoveFits DEF Mutations
    <3> HIDE DEF e
    <3>3. QED
      BY <1>1, <1>2, <2>1, <3>1, <3>2, AppendKeeps DEF e
  <2>2. CASE ref # HeadOf(h)
    <3>1. ref' = ref /\ GoTo(c, "failed")
      BY <1>6, <2>2 DEF AcceptPlan, Swap
    <3>2. QED
      BY <1>5, <3>1
  <2>3. QED
    BY <2>1, <2>2
<1>7. CASE ApplyStep(c)
  <2>1. CASE ref = HeadOf(h)
    <3>1. /\ RetainsDone(h) /\ ~StepsDone(h) /\ ref' = ref + 1
          /\ ToAppend(c, Entry("step-applied", NextUnit(h), HeadOf(h), HeadOf(h) + 1, "none"))
      BY <1>7, <2>1 DEF ApplyStep, Swap
    <3> DEFINE e == Entry("step-applied", NextUnit(h), HeadOf(h), HeadOf(h) + 1, "none")
    <3>2. Fits(h, e) /\ e.after = HeadOf(h) + 1
      BY <1>2, <3>1, MoveFits DEF Mutations
    <3> HIDE DEF e
    <3>3. QED
      BY <1>1, <1>2, <2>1, <3>1, <3>2, AppendKeeps DEF e
  <2>2. CASE ref # HeadOf(h)
    <3>1. /\ RetainsDone(h) /\ ~StepsDone(h) /\ ref' = ref /\ PlanAccepted(h)
          /\ ToAppend(c, Note(h, "step-failed", NextUnit(h), "conflict"))
      BY <1>7, <2>2 DEF ApplyStep, Swap, RetainsDone
    <3>2. /\ "step-failed" \in Statuses \ (Mutations \cup {"branch-created"})
          /\ "conflict" \in Failures
      BY DEF Statuses, StepStatuses, Mutations, Failures
    <3>3. QED
      BY <1>2, <1>4, <3>1, <3>2, NoteFits
  <2>3. QED
    BY <2>1, <2>2
<1>8. CASE PatchFails(c)
  <2>1. /\ RetainsDone(h) /\ ~StepsDone(h) /\ ref' = ref /\ PlanAccepted(h)
        /\ ToAppend(c, Note(h, "step-failed", NextUnit(h), "patch"))
    BY <1>8 DEF PatchFails, RetainsDone
  <2>2. /\ "step-failed" \in Statuses \ (Mutations \cup {"branch-created"})
        /\ "patch" \in Failures
    BY DEF Statuses, StepStatuses, Mutations, Failures
  <2>3. QED
    BY <1>2, <1>4, <2>1, <2>2, NoteFits
<1>9. CASE Retain(c)
  <2>1. /\ PlanAccepted(h) /\ ~RetainsDone(h) /\ ref' = ref
        /\ ToAppend(c, Note(h, "step-retained", Retained[Count(h, "step-retained") + 1], "none"))
    BY <1>9 DEF Retain
  <2>2. /\ "step-retained" \in Statuses \ (Mutations \cup {"branch-created"})
        /\ "step-retained" \notin ExecutionStatuses
        /\ "none" \in Failures
    BY DEF Statuses, StepStatuses, ExecutionStatuses, Mutations, Failures
  <2>3. QED
    BY <1>2, <1>4, <2>1, <2>2, NoteFits
<1>10. CASE Pause(c)
  <2>1. /\ RetainsDone(h) /\ PlanAccepted(h) /\ ref' = ref
        /\ ToAppend(c, Note(h, "partial", NoUnit, "none"))
    BY <1>10 DEF Pause, RetainsDone
  <2>2. /\ "partial" \in Statuses \ (Mutations \cup {"branch-created"})
        /\ "none" \in Failures
    BY DEF Statuses, ExecutionStatuses, Mutations, Failures
  <2>3. QED
    BY <1>2, <1>4, <2>1, <2>2, NoteFits
<1>11. CASE Complete(c)
  <2>1. /\ RetainsDone(h) /\ PlanAccepted(h) /\ StepsDone(h) /\ ref' = ref
        /\ ToAppend(c, Note(h, "completed", NoUnit, "none"))
    BY <1>11 DEF Complete, StepsDone, RetainsDone
  <2>2. /\ "completed" \in Statuses \ (Mutations \cup {"branch-created"})
        /\ "none" \in Failures
    BY DEF Statuses, ExecutionStatuses, Mutations, Failures
  <2>3. QED
    BY <1>2, <1>4, <2>1, <2>2, NoteFits
<1>12. CASE EvidenceFails(c)
  <2>1. UNCHANGED ref /\ GoTo(c, "failed")
    BY <1>12 DEF EvidenceFails
  <2>2. QED
    BY <1>5, <2>1
<1>13. QED
  BY <1>6, <1>7, <1>8, <1>9, <1>10, <1>11, <1>12

LEMMA EndKeeps ==
    ASSUME RunnerInv, NEW c \in Commands,
           \/ MatchRef(c) \/ ConfirmRef(c) \/ PersistResult(c) \/ FillResult(c)
           \/ ResultFails(c) \/ CheckRef(c) \/ Crash(c)
    PROVE  RunnerInv'
<1>1. cmd[c] # Idle /\ UNCHANGED <<ref, files>>
  <2>1. UNCHANGED <<ref, files>>
    BY DEF MatchRef, ConfirmRef, PersistResult, FillResult, ResultFails, CheckRef, Crash
  <2>2. Active(c)
    <3>1. CASE PersistResult(c) \/ FillResult(c) \/ ResultFails(c)
      BY <3>1 DEF PersistResult, FillResult, ResultFails, Active, Running
    <3>2. CASE MatchRef(c) \/ ConfirmRef(c) \/ CheckRef(c) \/ Crash(c)
      BY <3>2 DEF MatchRef, ConfirmRef, CheckRef, Crash, Active, Running
    <3>3. QED
      BY <3>1, <3>2
  <2>3. QED
    BY <2>1, <2>2 DEF Active, Running, Idle
<1>2. CASE \/ MatchRef(c) \/ ConfirmRef(c) \/ PersistResult(c) \/ FillResult(c)
           \/ ResultFails(c) \/ Crash(c)
  <2>1. PICK state : /\ GoTo(c, state)
                     /\ \/ state \in Ended
                        \/ cmd[c].pc = "matching" /\ state = "working"
                        \/ cmd[c].pc = "confirming" /\ state = "persisting"
                        \/ cmd[c].pc = "persisting" /\ state = "fillingResult"
    BY <1>2 DEF MatchRef, ConfirmRef, PersistResult, FillResult, ResultFails, Crash, Ended
  <2>2. QED
    BY <1>1, <2>1, GoKeeps
<1>3. CASE CheckRef(c)
  <2>1. CASE GoTo(c, "failed")
    BY <1>1, <2>1, GoKeeps DEF Ended
  <2>2. CASE ~GoTo(c, "failed")
    <3> DEFINE h == cmd[c].history
    <3>1. /\ cmd[c].pc = "checking" /\ ref = HeadOf(h)
          /\ ToAppend(c, Note(h, "aborted", NoUnit, "none"))
      BY <1>3, <2>2 DEF CheckRef
    <3>2. h # <<>> /\ Good(h) /\ ~Terminal(h) /\ HeadOf(h) \in Nat
      BY <1>1, <3>1, GoodType DEF RunnerInv, FilesAreGood, Holds, Going
    <3>3. /\ "aborted" \in Statuses \ (Mutations \cup {"branch-created"})
          /\ "aborted" \notin ExecutionStatuses
          /\ "none" \in Failures
      BY DEF Statuses, TerminalStatuses, ExecutionStatuses, Mutations, Failures
    <3>4. /\ Fits(h, Note(h, "aborted", NoUnit, "none"))
          /\ Note(h, "aborted", NoUnit, "none").after = HeadOf(h)
      BY <3>2, <3>3, NoteFits
    <3>5. QED
      BY <1>1, <3>1, <3>2, <3>4, AppendKeeps
  <2>3. QED
    BY <2>1, <2>2
<1>4. QED
  BY <1>2, <1>3

LEMMA ForeignKeeps ==
    ASSUME RunnerInv, ForeignUpdate
    PROVE  RunnerInv'
<1>1. ref' = Foreign /\ ref \in Commit /\ UNCHANGED <<files, cmd>>
  BY DEF ForeignUpdate
<1>2. \A d \in Commands : cmd'[d] # Idle => Holds(d)'
  BY <1>1, FrameHolds DEF Onward
<1>3. FilesAreGood' /\ BranchFollows' /\ RunnerTypeOK'
  BY <1>1 DEF FilesAreGood, BranchFollows, RunnerTypeOK, RunnerInv, Foreign, Absent, Commit
<1>4. QED
  BY <1>2, <1>3 DEF RunnerInv

-----------------------------------------------------------------------------
(* The theorems that hold whatever runs at once. *)

\* The invariant, for any plan, any commands at once and any of the faults.
THEOREM RunnerInvariant == Spec => []RunnerInv
<1>1. Init => RunnerInv
  BY DEF Init, RunnerInv, RunnerTypeOK, FilesAreGood, BranchFollows, Commit, Absent, Foreign
<1>2. RunnerInv /\ [Next]_vars => RunnerInv'
  <2> SUFFICES ASSUME RunnerInv, [Next]_vars PROVE RunnerInv'
    OBVIOUS
  <2>1. ASSUME NEW c \in Commands,
               \E kind \in {"apply", "resume", "abort"}, limited \in BOOLEAN : Start(c, kind, limited)
        PROVE  RunnerInv'
    BY <2>1, StartKeeps
  <2>2. ASSUME NEW c \in Commands, Step(c) \/ Fault(c)
        PROVE  RunnerInv'
    BY <2>2, ReadKeeps, CreateRefKeeps, FileKeeps, WorkKeeps, EndKeeps DEF Step, Fault
  <2>3. CASE ForeignUpdate
    BY <2>3, ForeignKeeps
  <2>4. CASE UNCHANGED vars
    <3>1. UNCHANGED <<ref, files, cmd>>
      BY <2>4 DEF vars
    <3>2. QED
      BY <3>1 DEF RunnerInv, RunnerTypeOK, FilesAreGood, Holds, BranchFollows
  <2>5. QED
    BY <2>1, <2>2, <2>3, <2>4 DEF Next
<1>3. QED
  BY <1>1, <1>2, PTL DEF Spec

\* Every history on disk is one that the readers accept, whatever ran at once and failed.
THEOREM HistoriesAreAccepted == Spec => []WritersSatisfyVerifier
<1>1. RunnerInv => WritersSatisfyVerifier
  BY DEF RunnerInv, FilesAreGood, Good, WritersSatisfyVerifier
<1>2. QED
  BY <1>1, RunnerInvariant, PTL

\* The branch is never behind a recorded commit and at most one ahead of them.
THEOREM BranchStaysWitnessed == Spec => []BranchIsWitnessed
<1>1. RunnerInv => BranchIsWitnessed
  BY DEF RunnerInv, FilesAreGood, BranchFollows, BranchIsWitnessed
<1>2. QED
  BY <1>1, RunnerInvariant, PTL

-----------------------------------------------------------------------------
(* Commands that run one after the other: the files are one history, which    *)
(* the running command holds. *)

Prefixes(h) == {SubSeq(h, 1, i) : i \in 1..Len(h)}

\* The longest history, which the refinement takes for the ledger.
Tip == IF files = {} THEN <<>> ELSE CHOOSE h \in Ends : TRUE

OneHistory == files = Prefixes(Tip) /\ (files # {} => Tip \in files)

OneAtATime == \A c, d \in Commands : Active(c) /\ Active(d) => c = d

\* What the running command holds is all of the recovery; an attempt that claims a new
\* commit finds it on the branch, unless somebody else has moved that.
HoldsTip(c) ==
    /\ cmd[c].pc \notin Starting => cmd[c].history = Tip
    /\ cmd[c].pc = "fillingFile" => Appended(c) \in torn
    /\ cmd[c].pc \notin Filing => cmd[c].entry.failure # "store"
    /\ cmd[c].pc \in Filing =>
        /\ cmd[c].entry.after \in {cmd[c].entry.before, cmd[c].entry.before + 1}
        /\ cmd[c].history = <<>> \/ cmd[c].entry.before # cmd[c].entry.after =>
               ref \in {Foreign, cmd[c].entry.after}

\* Nobody else moved the branch, and no command left a move of it unrecorded.
Orderly ==
    /\ ref # Foreign
    /\ \A c \in Commands : ~Unwitnessed(c)

Settled == IF files = {} THEN ref = Absent ELSE ref = HeadOf(Tip)

\* The branch is where the attempts say, or where the attempt being written will say.
InStep ==
    \/ \E c \in Commands : cmd[c].pc \in Filing /\ ref = cmd[c].entry.after
    \/ (\A c \in Commands : cmd[c].pc \notin Filing) /\ Settled

\* A torn file is being written, or is an attempt that was not recorded.
TornFollows ==
    torn # {} => \E c \in Commands :
        Unrecorded(c) \/ (cmd[c].pc = "fillingFile" /\ torn = {Appended(c)})

\* A completed history has its result, or its command is about to persist it, or failed.
ResultsFollow ==
    \A h \in files : h[Len(h)].status = "completed" =>
        \/ Persisted(h)
        \/ \E c \in Commands : /\ cmd[c].pc \in Closing \cup {"failed", "crashed"}
                               /\ cmd[c].history = h

\* The commands that will record nothing any more.
Spent == {c \in Commands : cmd[c].pc # "idle" /\ cmd[c].pc \notin Running \ Closing}

LengthFollows == Cardinality(Closings(Tip)) <= Cardinality(Spent)

SequentialInv ==
    /\ RunnerInv
    /\ OneAtATime
    /\ OneHistory
    /\ \A c \in Commands : Active(c) => HoldsTip(c)
    /\ Orderly => InStep
    /\ TornFollows
    /\ ResultsFollow
    /\ LengthFollows

LEMMA PrefixFacts ==
    ASSUME NEW h \in Seq(Attempt), h # <<>>
    PROVE  /\ h \in Prefixes(h)
           /\ \A g \in Prefixes(h) : Len(g) \in Nat /\ Len(g) <= Len(h) /\ (Len(g) = Len(h) => g = h)
<1>1. Len(h) \in Nat /\ Len(h) >= 1
  OBVIOUS
<1>2. SubSeq(h, 1, Len(h)) = h
  OBVIOUS
<1>3. \A i \in 1..Len(h) : Len(SubSeq(h, 1, i)) = i
  OBVIOUS
<1>4. h \in Prefixes(h)
  <2>1. Len(h) \in 1..Len(h)
    BY <1>1
  <2>2. QED
    BY <1>2, <2>1, Zenon DEF Prefixes
<1>5. ASSUME NEW g \in Prefixes(h)
      PROVE  Len(g) \in Nat /\ Len(g) <= Len(h) /\ (Len(g) = Len(h) => g = h)
  <2>1. PICK i \in 1..Len(h) : g = SubSeq(h, 1, i)
    BY DEF Prefixes
  <2>2. Len(g) = i
    BY <1>3, <2>1
  <2>3. i \in Nat /\ i <= Len(h)
    BY <1>1
  <2>4. QED
    BY <1>2, <2>1, <2>2, <2>3
<1>6. QED
  BY <1>4, <1>5

LEMMA PrefixesAppended ==
    ASSUME NEW h \in Seq(Attempt), NEW e \in Attempt
    PROVE  /\ Prefixes(Append(h, e)) = Prefixes(h) \cup {Append(h, e)}
           /\ Append(h, e) \notin Prefixes(h)
<1> DEFINE g == Append(h, e)
<1>1. /\ Len(h) \in Nat /\ Len(g) = Len(h) + 1 /\ g \in Seq(Attempt)
      /\ SubSeq(g, 1, Len(h) + 1) = g
  OBVIOUS
<1>2. \A i \in 1..Len(h) : SubSeq(g, 1, i) = SubSeq(h, 1, i)
  OBVIOUS
<1>3. \A i \in 1..Len(h) : Len(SubSeq(h, 1, i)) = i
  OBVIOUS
<1> HIDE DEF g
<1>4. 1..(Len(h) + 1) = 1..Len(h) \cup {Len(h) + 1}
  BY <1>1
<1>5. Prefixes(g) = Prefixes(h) \cup {g}
  BY <1>1, <1>2, <1>4 DEF Prefixes
<1>6. g \notin Prefixes(h)
  BY <1>1, <1>3 DEF Prefixes
<1>7. QED
  BY <1>5, <1>6 DEF g

\* Files that are the prefixes of one history have it as their only end.
LEMMA OnlyEnd ==
    ASSUME NEW h \in Seq(Attempt), h # <<>>, NEW F, F = Prefixes(h)
    PROVE  /\ h \in F /\ F # {}
           /\ {x \in F : \A g \in F : Len(g) <= Len(x)} = {h}
           /\ (CHOOSE x \in {x \in F : \A g \in F : Len(g) <= Len(x)} : TRUE) = h
<1>1. h \in F /\ \A g \in F : Len(g) \in Nat /\ Len(g) <= Len(h) /\ (Len(g) = Len(h) => g = h)
  BY PrefixFacts, Zenon
<1>2. {x \in F : \A g \in F : Len(g) <= Len(x)} = {h}
  BY <1>1
<1>3. (CHOOSE x \in {h} : TRUE) = h
  OBVIOUS
<1>4. QED
  BY <1>1, <1>2, <1>3

LEMMA TipFacts ==
    ASSUME RunnerInv, OneHistory
    PROVE  /\ Tip \in Seq(Attempt)
           /\ (files = {}) = (Tip = <<>>)
           /\ files # {} => Good(Tip) /\ Tip \in files /\ Ends = {Tip} /\ IsChain(Tip)
<1>1. CASE files = {}
  BY <1>1 DEF Tip
<1>2. CASE files # {}
  <2>1. Good(Tip) /\ Tip \in files /\ Tip # <<>> /\ Tip \in Seq(Attempt)
    BY <1>2, GoodType DEF OneHistory, RunnerInv, FilesAreGood
  <2>2. Ends = {Tip}
    BY <2>1, OnlyEnd DEF OneHistory, Ends
  <2>3. IsChain(Tip)
    BY <2>1 DEF IsChain, OneHistory, Prefixes, Good
  <2>4. QED
    BY <1>2, <2>1, <2>2, <2>3
<1>3. QED
  BY <1>1, <1>2

-----------------------------------------------------------------------------
(* The steps of the one command that runs. *)

\* Beside the command that runs, no other does.
LEMMA Alone ==
    ASSUME SequentialInv, NEW c \in Commands, Active(c), NEW d \in Commands, d # c
    PROVE  ~Active(d) /\ cmd[d].pc \notin Filing /\ cmd[d].pc \notin Closing
BY DEF SequentialInv, OneAtATime, Active, Running, Filing, Closing

\* What holds of all commands holds of the one that runs.
LEMMA ByOne ==
    ASSUME SequentialInv, NEW c \in Commands, Active(c)
    PROVE  /\ Orderly =>
                /\ ref # Foreign
                /\ cmd[c].pc \in Filing => ref = cmd[c].entry.after
                /\ cmd[c].pc \notin Filing => Settled
           /\ cmd[c].pc \notin Filing => ~Unrecorded(c)
           /\ cmd[c].history = <<>> \/ cmd[c].history \in files
           /\ cmd[c] # Idle
<1>1. \A d \in Commands : d # c => cmd[d].pc \notin Filing
  BY Alone
<1>2. Orderly => ref # Foreign /\ InStep
  BY DEF SequentialInv, Orderly
<1>3. cmd[c] # Idle
  BY DEF Active, Running, Idle
<1>4. cmd[c].history = <<>> \/ cmd[c].history \in files
  BY <1>3 DEF SequentialInv, RunnerInv, Holds
<1>5. cmd[c].pc \notin Filing => ~Unrecorded(c)
  BY DEF SequentialInv, HoldsTip, Unrecorded, Active, Running
<1>6. QED
  BY <1>1, <1>2, <1>3, <1>4, <1>5 DEF InStep

\* And the other way round, after a step of the only command.
LEMMA FromOne ==
    ASSUME SequentialInv, RunnerInv', NEW c \in Commands, Active(c),
           \A d \in Commands \ {c} : cmd'[d] = cmd[d],
           OneHistory',
           Active(c)' => HoldsTip(c)',
           Orderly' => /\ cmd'[c].pc \in Filing => ref' = cmd'[c].entry.after
                       /\ cmd'[c].pc \notin Filing => Settled',
           TornFollows', ResultsFollow', LengthFollows'
    PROVE  SequentialInv'
<1>1. \A d \in Commands : d # c => ~Active(d)' /\ cmd'[d].pc \notin Filing
  BY Alone DEF Active
<1>2. OneAtATime'
  BY <1>1 DEF OneAtATime
<1>3. \A d \in Commands : Active(d)' => HoldsTip(d)'
  BY <1>1
<1>4. Orderly' => InStep'
  BY <1>1 DEF InStep
<1>5. QED
  BY <1>2, <1>3, <1>4 DEF SequentialInv

LEMMA SameFiles ==
    ASSUME SequentialInv, UNCHANGED files
    PROVE  /\ Tip' = Tip /\ OneHistory'
           /\ UNCHANGED ref => Settled' = Settled
<1>1. Tip' = Tip
  BY DEF Tip, Ends
<1>2. OneHistory'
  BY <1>1 DEF OneHistory, SequentialInv
<1>3. UNCHANGED ref => Settled' = Settled
  BY <1>1 DEF Settled
<1>4. QED
  BY <1>1, <1>2, <1>3

\* An attempt that was not recorded stays so: order once lost is not found again.
LEMMA OrderlyBefore ==
    ASSUME NEW c \in Commands, Unwitnessed(c) => Unwitnessed(c)',
           \A d \in Commands \ {c} : cmd'[d] = cmd[d],
           ref' = ref \/ ref # Foreign
    PROVE  Orderly' => Orderly
<1>1. ASSUME NEW d \in Commands, Unwitnessed(d) PROVE Unwitnessed(d)'
  BY <1>1 DEF Unwitnessed, Unrecorded
<1>2. QED
  BY <1>1 DEF Orderly

LEMMA TornBefore ==
    ASSUME SequentialInv, NEW c \in Commands, Active(c), cmd[c].pc # "fillingFile",
           Unrecorded(c) => Unrecorded(c)',
           \A d \in Commands \ {c} : cmd'[d] = cmd[d],
           torn # {}
    PROVE  (\E d \in Commands : Unrecorded(d)) /\ (\E d \in Commands : Unrecorded(d)')
<1>1. PICK d \in Commands :
        Unrecorded(d) \/ (cmd[d].pc = "fillingFile" /\ torn = {Appended(d)})
  BY DEF SequentialInv, TornFollows
<1>2. Unrecorded(d)
  BY <1>1, Alone DEF Filing
<1>3. Unrecorded(d)'
  BY <1>2 DEF Unrecorded
<1>4. QED
  BY <1>2, <1>3

\* Who recorded nothing before may do so; who is through stays so.
LEMMA SpentGrows ==
    ASSUME NEW c \in Commands, \A d \in Commands \ {c} : cmd'[d] = cmd[d],
           c \in Spent => c \in Spent'
    PROVE  /\ Cardinality(Spent) \in Nat /\ Cardinality(Spent') \in Nat
           /\ Cardinality(Spent) <= Cardinality(Spent')
           /\ c \in Spent' \ Spent => Cardinality(Spent) + 1 <= Cardinality(Spent')
<1>1. IsFiniteSet(Spent) /\ IsFiniteSet(Spent')
  BY RunnerAssumption, FS_Subset DEF Spent
<1>2. Spent \subseteq Spent'
  BY DEF Spent
<1>3. Cardinality(Spent) \in Nat /\ Cardinality(Spent') \in Nat
  BY <1>1, FS_CardinalityType
<1>4. Cardinality(Spent) <= Cardinality(Spent')
  BY <1>1, <1>2, FS_Subset
<1>5. ASSUME c \in Spent' \ Spent
      PROVE  Cardinality(Spent) + 1 <= Cardinality(Spent')
  <2>1. IsFiniteSet(Spent \cup {c}) /\ Cardinality(Spent \cup {c}) = Cardinality(Spent) + 1
    BY <1>1, <1>5, FS_AddElement
  <2>2. Spent \cup {c} \subseteq Spent'
    BY <1>2, <1>5
  <2>3. Cardinality(Spent \cup {c}) <= Cardinality(Spent')
    BY <1>1, <2>2, FS_Subset
  <2>4. QED
    BY <2>1, <2>3
<1>6. QED
  BY <1>3, <1>4, <1>5

LEMMA ClosingsCount ==
    ASSUME NEW h \in Seq(Attempt)
    PROVE  IsFiniteSet(Closings(h)) /\ Cardinality(Closings(h)) \in Nat
<1>1. IsFiniteSet(1..Len(h))
  BY FS_Interval
<1>2. IsFiniteSet(Closings(h))
  BY <1>1, FS_Subset DEF Closings
<1>3. QED
  BY <1>2, FS_CardinalityType

LEMMA LengthKeeps ==
    ASSUME SequentialInv, NEW c \in Commands, \A d \in Commands \ {c} : cmd'[d] = cmd[d],
           c \in Spent => c \in Spent', UNCHANGED files
    PROVE  LengthFollows'
<1>1. Tip' = Tip /\ Tip \in Seq(Attempt)
  BY SameFiles, TipFacts DEF SequentialInv
<1>2. /\ Cardinality(Spent) \in Nat /\ Cardinality(Spent') \in Nat
      /\ Cardinality(Spent) <= Cardinality(Spent')
  BY SpentGrows
<1>3. Cardinality(Closings(Tip)) \in Nat /\ Cardinality(Closings(Tip)) <= Cardinality(Spent)
  BY <1>1, ClosingsCount DEF SequentialInv, LengthFollows
<1>4. Cardinality(Closings(Tip)) <= Cardinality(Spent')
  BY <1>2, <1>3
<1>5. QED
  BY <1>1, <1>4 DEF LengthFollows

\* A step that touches no file, of a command that is neither recording nor closing.
LEMMA RestKeeps ==
    ASSUME SequentialInv, NEW c \in Commands, Active(c),
           cmd[c].pc \notin Filing \cup Closing,
           \A d \in Commands \ {c} : cmd'[d] = cmd[d], UNCHANGED <<files, torn, results>>
    PROVE  TornFollows' /\ ResultsFollow' /\ LengthFollows'
<1>1. ~Unrecorded(c) /\ cmd[c].pc # "fillingFile"
  BY ByOne DEF Filing
<1>2. TornFollows'
  BY <1>1, TornBefore DEF TornFollows
<1>3. ResultsFollow'
  <2> SUFFICES ASSUME NEW h \in files, h[Len(h)].status = "completed", ~Persisted(h)
               PROVE  \E d \in Commands : /\ cmd'[d].pc \in Closing \cup {"failed", "crashed"}
                                         /\ cmd'[d].history = h
    BY DEF ResultsFollow, Persisted
  <2>1. PICK d \in Commands : /\ cmd[d].pc \in Closing \cup {"failed", "crashed"}
                              /\ cmd[d].history = h
    BY DEF SequentialInv, ResultsFollow
  <2>2. d # c
    BY <2>1 DEF Active, Running
  <2>3. QED
    BY <2>1, <2>2
<1>4. c \notin Spent
  BY DEF Spent, Active
<1>5. LengthFollows'
  BY <1>4, LengthKeeps
<1>6. QED
  BY <1>2, <1>3, <1>5

\* A step between the stages that touch nothing.
LEMMA MoveOn ==
    ASSUME SequentialInv, RunnerInv', NEW c \in Commands, Active(c),
           cmd[c].pc \notin Filing \cup Closing, cmd'[c].pc \notin Filing \cup Closing,
           \A d \in Commands \ {c} : cmd'[d] = cmd[d],
           Active(c)' /\ cmd'[c].pc \notin Starting => cmd'[c].history = Tip,
           cmd'[c].entry = cmd[c].entry,
           UNCHANGED <<ref, files, torn, results>>
    PROVE  SequentialInv'
<1>1. Tip' = Tip /\ OneHistory' /\ Settled' = Settled
  BY SameFiles
<1>2. Orderly' => Orderly
  BY OrderlyBefore, ByOne DEF Unwitnessed
<1>3. Active(c)' => HoldsTip(c)'
  BY <1>1 DEF HoldsTip, Filing, SequentialInv
<1>4. Orderly' => Settled'
  BY <1>1, <1>2, ByOne
<1>5. QED
  BY <1>1, <1>3, <1>4, RestKeeps, FromOne

LEMMA StopHere ==
    ASSUME SequentialInv, RunnerInv', NEW c \in Commands, Active(c),
           cmd[c].pc \notin Filing \cup Closing, NEW state \in Ended, GoTo(c, state),
           UNCHANGED <<ref, files, torn, results>>
    PROVE  SequentialInv'
<1>1. /\ cmd'[c].pc = state /\ cmd'[c].entry = cmd[c].entry
      /\ \A d \in Commands \ {c} : cmd'[d] = cmd[d]
  BY ByOne, GoToFacts DEF SequentialInv, RunnerInv
<1>2. state \notin Running \cup Filing \cup Closing
  BY DEF Ended, Running, Filing, Closing
<1>3. QED
  BY <1>1, <1>2, MoveOn DEF Active

\* The attempt is made; what it claims is on the branch.
LEMMA AppendOnTip ==
    ASSUME SequentialInv, RunnerInv', NEW c \in Commands, Active(c),
           cmd[c].pc \notin Filing \cup Closing, cmd[c].history = Tip,
           NEW e \in Attempt, ToAppend(c, e), UNCHANGED <<files, torn, results>>,
           e.after \in {e.before, e.before + 1},
           cmd[c].history = <<>> \/ e.before # e.after => ref' = e.after,
           ref' = ref \/ ref # Foreign,
           Settled => ref' = e.after
    PROVE  SequentialInv'
<1>1. /\ cmd'[c].pc = "creatingFile" /\ cmd'[c].history = Tip /\ cmd'[c].entry = e
      /\ \A d \in Commands \ {c} : cmd'[d] = cmd[d]
  BY ByOne, ToAppendFacts DEF SequentialInv, RunnerInv
<1>2. Tip' = Tip /\ OneHistory'
  BY SameFiles
<1>3. Orderly' => Orderly
  BY <1>1, OrderlyBefore, ByOne DEF Unwitnessed
<1>4. HoldsTip(c)'
  BY <1>1, <1>2 DEF HoldsTip, Filing
<1>5. Orderly' => ref' = e.after
  BY <1>3, ByOne
<1>6. QED
  BY <1>1, <1>2, <1>4, <1>5, RestKeeps, FromOne DEF Filing

\* What is written is longer than what there is.
LEMMA NewFile ==
    ASSUME SequentialInv, NEW c \in Commands, Active(c), cmd[c].pc \in Filing
    PROVE  /\ cmd[c].history = Tip /\ Tip \in Seq(Attempt)
           /\ cmd[c].entry \in Attempt /\ Appended(c) = Append(Tip, cmd[c].entry)
           /\ Appended(c) \notin files /\ files \cup {Appended(c)} = Prefixes(Appended(c))
           /\ Good(Appended(c)) /\ Appended(c) # <<>> /\ Appended(c) \in Seq(Attempt)
           /\ HeadOf(Appended(c)) = cmd[c].entry.after
           /\ Appended(c)[Len(Appended(c))] = cmd[c].entry
<1>1. /\ cmd[c].history = Tip /\ cmd[c] # Idle
      /\ Tip \in Seq(Attempt) /\ cmd[c].entry \in Attempt /\ files = Prefixes(Tip)
  BY ByOne, TipFacts, CommandType
     DEF SequentialInv, RunnerInv, HoldsTip, OneHistory, Filing, Starting
<1>2. Appended(c) = Append(Tip, cmd[c].entry)
  BY <1>1 DEF Appended
<1>3. Good(Appended(c)) /\ HeadOf(Appended(c)) = cmd[c].entry.after
  BY <1>1, AppendedIsGood DEF SequentialInv
<1>4. QED
  BY <1>1, <1>2, <1>3, PrefixesAppended, HeadAppended

\* A command that stops over an attempt: one that moved the branch is unwitnessed now,
\* any other leaves the branch where the files say.
LEMMA UnrecordedInOrder ==
    ASSUME SequentialInv, RunnerInv', NEW c \in Commands, Active(c), cmd[c].pc \in Filing,
           GoTo(c, "unrecorded"), UNCHANGED <<ref, files, torn, results>>
    PROVE  SequentialInv'
<1> DEFINE entry == cmd[c].entry
<1>1. /\ cmd[c].history = Tip /\ entry \in Attempt /\ cmd[c] # Idle /\ RunnerTypeOK /\ Holds(c)
  BY NewFile, ByOne DEF SequentialInv, RunnerInv
<1>2. Tip' = Tip /\ OneHistory' /\ Settled' = Settled
  BY SameFiles
<1>3. /\ cmd'[c].pc = "unrecorded" /\ cmd'[c].entry = entry /\ cmd'[c].history = Tip
      /\ \A d \in Commands \ {c} : cmd'[d] = cmd[d]
  BY <1>1, GoToFacts DEF Ended
<1>4. ~Active(c)' /\ Unrecorded(c)' /\ cmd'[c].pc \notin Filing
  BY <1>3 DEF Active, Running, Unrecorded, Filing
<1>5. Unwitnessed(c) => Unwitnessed(c)'
  BY <1>3, <1>4 DEF Unwitnessed
<1>6. ASSUME Orderly' PROVE Settled'
  <2>1. entry.status \notin Mutations \cup {"branch-created"}
    BY <1>3, <1>4, <1>6 DEF Orderly, Unwitnessed
  <2>2. Tip # <<>> /\ Fits(Tip, entry)
    BY <1>1, <2>1 DEF Holds, First, Entry
  <2>3. entry.after = HeadOf(Tip)
    BY <2>1, <2>2 DEF Fits
  <2>4. Orderly
    BY <1>3, <1>5, <1>6, OrderlyBefore
  <2>5. ref = entry.after
    BY <2>4, ByOne
  <2>6. files # {}
    BY <2>2, TipFacts DEF SequentialInv
  <2>7. QED
    BY <1>2, <2>3, <2>5, <2>6 DEF Settled
<1>7. TornFollows'
  BY <1>4 DEF TornFollows
<1>8. ResultsFollow'
  <2> SUFFICES ASSUME NEW h \in files, h[Len(h)].status = "completed", ~Persisted(h)
               PROVE  \E d \in Commands : /\ cmd'[d].pc \in Closing \cup {"failed", "crashed"}
                                         /\ cmd'[d].history = h
    BY DEF ResultsFollow, Persisted
  <2>1. PICK d \in Commands : /\ cmd[d].pc \in Closing \cup {"failed", "crashed"}
                              /\ cmd[d].history = h
    BY DEF SequentialInv, ResultsFollow
  <2>2. d # c
    BY <2>1 DEF Filing, Closing
  <2>3. QED
    BY <1>3, <2>1, <2>2
<1>9. c \notin Spent
  BY DEF Spent, Active, Filing, Closing
<1>10. LengthFollows'
  BY <1>3, <1>9, LengthKeeps
<1>11. QED
  BY <1>2, <1>3, <1>4, <1>6, <1>7, <1>8, <1>10, FromOne

\* A write that fails ends the command, or is the failure of its step.
LEMMA ThrowInOrder ==
    ASSUME SequentialInv, RunnerInv', NEW c \in Commands, Active(c), cmd[c].pc \in Filing,
           Throw(c, "store"), UNCHANGED <<ref, files, torn, results>>
    PROVE  SequentialInv'
<1> DEFINE entry == cmd[c].entry
           e == Entry("step-failed", entry.unit, entry.before, entry.before, "store")
<1>1. /\ cmd[c].history = Tip /\ entry \in Attempt /\ cmd[c] # Idle /\ RunnerTypeOK /\ Holds(c)
  BY NewFile, ByOne DEF SequentialInv, RunnerInv
<1>2. Tip' = Tip /\ OneHistory'
  BY SameFiles
<1>3. CASE entry.status = "step-applied"
  <2>1. /\ e \in Attempt /\ e.before = entry.before /\ e.after = entry.before
        /\ e.failure = "store" /\ cmd[c].history # <<>>
    BY <1>1, <1>3, FirstIsGood DEF Entry, Attempt, Statuses, StepStatuses, Failures, Holds
  <2>2. ToAppend(c, e)
    BY <1>3 DEF Throw
  <2> HIDE DEF e
  <2>3. /\ cmd'[c].pc = "creatingFile" /\ cmd'[c].history = cmd[c].history /\ cmd'[c].entry = e
        /\ cmd'[c] # Idle /\ \A d \in Commands \ {c} : cmd'[d] = cmd[d]
    BY <1>1, <2>1, <2>2, ToAppendFacts
  <2>4. HoldsTip(c)'
    BY <1>1, <1>2, <2>1, <2>3 DEF HoldsTip, Filing
  <2>5. Unrecorded(c)' /\ ~Orderly'
    BY <2>1, <2>3 DEF Unrecorded, Unwitnessed, Orderly
  <2>6. TornFollows'
    BY <2>5 DEF TornFollows
  <2>7. ResultsFollow'
    <3> SUFFICES ASSUME NEW h \in files, h[Len(h)].status = "completed", ~Persisted(h)
                 PROVE  \E d \in Commands : /\ cmd'[d].pc \in Closing \cup {"failed", "crashed"}
                                           /\ cmd'[d].history = h
      BY DEF ResultsFollow, Persisted
    <3>1. PICK d \in Commands : /\ cmd[d].pc \in Closing \cup {"failed", "crashed"}
                                /\ cmd[d].history = h
      BY DEF SequentialInv, ResultsFollow
    <3>2. d # c
      BY <3>1 DEF Filing, Closing
    <3>3. QED
      BY <2>3, <3>1, <3>2
  <2>8. c \notin Spent
    BY DEF Spent, Active, Filing, Closing
  <2>9. LengthFollows'
    BY <2>3, <2>8, LengthKeeps
  <2>10. QED
    BY <1>2, <2>3, <2>4, <2>5, <2>6, <2>7, <2>9, FromOne
<1>4. CASE entry.status # "step-applied"
  BY <1>4, UnrecordedInOrder DEF Throw
<1>5. QED
  BY <1>3, <1>4

LEMMA CreateInOrder ==
    ASSUME SequentialInv, RunnerInv', NEW c \in Commands, CreateFile(c)
    PROVE  SequentialInv'
<1>1. /\ cmd[c].pc = "creatingFile" /\ Active(c) /\ cmd[c].pc \in Filing
      /\ UNCHANGED <<ref, files, results>> /\ HoldsTip(c)
  BY DEF CreateFile, Active, Running, Filing, SequentialInv
<1>2. CASE Throw(c, "store") /\ UNCHANGED torn
  BY <1>1, <1>2, ThrowInOrder
<1>3. CASE Appended(c) \in files
  BY <1>1, <1>3, NewFile
<1>4. CASE torn' = torn \cup {Appended(c)} /\ GoTo(c, "fillingFile")
  <2>1. /\ cmd'[c].pc = "fillingFile" /\ cmd'[c] # Idle
        /\ cmd'[c].history = cmd[c].history /\ cmd'[c].entry = cmd[c].entry
        /\ \A d \in Commands \ {c} : cmd'[d] = cmd[d]
    BY <1>1, <1>4, ByOne, GoToFacts DEF SequentialInv, RunnerInv, Running
  <2>2. Tip' = Tip /\ OneHistory' /\ Appended(c)' = Appended(c)
    BY <1>1, <2>1, SameFiles DEF Appended
  <2>3. HoldsTip(c)'
    BY <1>1, <1>4, <2>1, <2>2 DEF HoldsTip, Filing, Starting
  <2>4. Unrecorded(c) => Unrecorded(c)'
    BY <1>1, <2>1 DEF Unrecorded
  <2>5. Unwitnessed(c) => Unwitnessed(c)'
    BY <2>1, <2>4 DEF Unwitnessed
  <2>6. Orderly' => ref = cmd[c].entry.after
    BY <1>1, <2>1, <2>5, OrderlyBefore, ByOne
  <2>7. TornFollows'
    <3>1. CASE torn = {}
      BY <1>4, <2>1, <2>2, <3>1 DEF TornFollows
    <3>2. CASE torn # {}
      BY <1>1, <2>1, <2>4, <3>2, TornBefore DEF TornFollows
    <3>3. QED
      BY <3>1, <3>2
  <2>8. ResultsFollow'
    <3> SUFFICES ASSUME NEW h \in files, h[Len(h)].status = "completed", ~Persisted(h)
                 PROVE  \E d \in Commands : /\ cmd'[d].pc \in Closing \cup {"failed", "crashed"}
                                           /\ cmd'[d].history = h
      BY <1>1 DEF ResultsFollow, Persisted
    <3>1. PICK d \in Commands : /\ cmd[d].pc \in Closing \cup {"failed", "crashed"}
                                /\ cmd[d].history = h
      BY DEF SequentialInv, ResultsFollow
    <3>2. d # c
      BY <1>1, <3>1 DEF Closing
    <3>3. QED
      BY <2>1, <3>1, <3>2
  <2>9. c \notin Spent
    BY <1>1 DEF Spent, Active, Closing
  <2>10. LengthFollows'
    BY <1>1, <2>1, <2>9, LengthKeeps
  <2>11. QED
    BY <1>1, <2>1, <2>2, <2>3, <2>6, <2>7, <2>8, <2>10, FromOne DEF Filing
<1>5. QED
  BY <1>2, <1>3, <1>4 DEF CreateFile

\* The closing attempts of a longer history.
LEMMA ClosingsAppended ==
    ASSUME NEW h \in Seq(Attempt), NEW e \in Attempt
    PROVE  Cardinality(Closings(Append(h, e))) =
             IF e.status \in {"partial", "step-failed"} \cup TerminalStatuses
             THEN Cardinality(Closings(h)) + 1 ELSE Cardinality(Closings(h))
<1> DEFINE g == Append(h, e)
           n == Len(h) + 1
<1>1. /\ Len(h) \in Nat /\ Len(g) = n /\ g[n] = e
      /\ \A j \in 1..Len(h) : g[j] = h[j]
  OBVIOUS
<1> HIDE DEF g
<1>2. Closings(g) = IF e.status \in {"partial", "step-failed"} \cup TerminalStatuses
                    THEN Closings(h) \cup {n} ELSE Closings(h)
  BY <1>1 DEF Closings
<1>3. n \notin Closings(h)
  BY <1>1 DEF Closings
<1>4. IsFiniteSet(Closings(h))
  BY ClosingsCount
<1> HIDE DEF n
<1>5. Cardinality(Closings(h) \cup {n}) = Cardinality(Closings(h)) + 1
  BY <1>3, <1>4, FS_AddElement
<1>6. QED
  BY <1>2, <1>5 DEF g

LEMMA FillInOrder ==
    ASSUME SequentialInv, RunnerInv', NEW c \in Commands, FillFile(c)
    PROVE  SequentialInv'
<1> DEFINE g == Appended(c)
           e == cmd[c].entry
<1>1. /\ cmd[c].pc = "fillingFile" /\ Active(c) /\ cmd[c].pc \in Filing /\ cmd[c] # Idle
      /\ UNCHANGED <<ref, results>> /\ HoldsTip(c)
      /\ torn' = torn \ {g} /\ files' = files \cup {g} /\ Remember(c) /\ RunnerTypeOK
  BY DEF FillFile, Active, Running, Filing, Idle, SequentialInv, RunnerInv
<1>2. /\ g \notin files /\ files' = Prefixes(g) /\ g # <<>> /\ g \in Seq(Attempt)
      /\ HeadOf(g) = e.after /\ g[Len(g)] = e /\ e \in Attempt
      /\ g = Append(Tip, e) /\ Tip \in Seq(Attempt) /\ cmd[c].history = Tip
  BY <1>1, NewFile
<1>3. /\ cmd'[c].pc = AfterAppend(e.status) /\ cmd'[c].history = g
      /\ cmd'[c] # Idle /\ cmd'[c].entry = e
      /\ \A d \in Commands \ {c} : cmd'[d] = cmd[d]
  BY <1>1, RememberFacts
<1>4. e.failure = "store" => e.status = "step-failed"
  <2>1. Holds(c)
    BY <1>1 DEF SequentialInv, RunnerInv
  <2>2. e = First \/ Fits(Tip, e)
    BY <1>1, <1>2, <2>1 DEF Holds
  <2>3. QED
    BY <2>2 DEF Fits, First, Entry
<1> HIDE DEF g
<1>5. e.status \in Statuses
  BY <1>2 DEF Attempt
<1> HIDE DEF e
<1>6. /\ cmd'[c].pc \notin Starting \cup Filing
      /\ e.status = "completed" => cmd'[c].pc \in Closing
      /\ e.failure = "store" => ~Active(c)'
      /\ e.status \in {"partial", "step-failed"} \cup TerminalStatuses => c \in Spent'
  <2>1. /\ cmd'[c].pc \notin Starting \cup Filing
        /\ e.status = "completed" => cmd'[c].pc \in Closing
    BY <1>3, <1>5, AfterAppendFacts DEF Starting, Filing, Closing
  <2>2. e.failure = "store" => ~Active(c)'
    BY <1>3, <1>4, <1>5, AfterAppendFacts DEF Active, Running
  <2>3. e.status \in {"partial", "step-failed"} \cup TerminalStatuses => c \in Spent'
    BY <1>3, <1>5, AfterAppendFacts DEF Spent, Running, Closing, TerminalStatuses
  <2>4. QED
    BY <2>1, <2>2, <2>3
<1>7. /\ files' # {} /\ g \in files'
      /\ (CHOOSE x \in {x \in files' : \A y \in files' : Len(y) <= Len(x)} : TRUE) = g
  <2>1. PICK F : F = files'
    OBVIOUS
  <2>2. g # <<>> /\ g \in Seq(Attempt) /\ F = Prefixes(g)
    BY <1>2, <2>1
  <2>3. /\ g \in F /\ F # {}
        /\ (CHOOSE x \in {x \in F : \A y \in F : Len(y) <= Len(x)} : TRUE) = g
    BY ONLY <2>2, OnlyEnd, Zenon
  <2>4. QED
    BY <2>1, <2>3
<1>8. Tip' = g
  BY <1>7 DEF Tip, Ends
<1>9. OneHistory'
  BY <1>2, <1>7, <1>8 DEF OneHistory
<1>10. Active(c)' => HoldsTip(c)'
  BY <1>3, <1>6, <1>8 DEF HoldsTip, Filing
<1>11. (Unrecorded(c) => Unrecorded(c)') /\ (Unwitnessed(c) => Unwitnessed(c)')
  BY <1>1, <1>3 DEF Unrecorded, Unwitnessed, e
<1>12. ASSUME Orderly' PROVE Settled'
  <2>1. Orderly
    BY <1>1, <1>3, <1>11, <1>12, OrderlyBefore
  <2>2. ref = e.after
    BY <1>1, <2>1, ByOne DEF e
  <2>3. QED
    BY <1>1, <1>2, <1>7, <1>8, <2>2 DEF Settled, HeadOf
<1>13. TornFollows'
  <2> SUFFICES ASSUME torn' # {} PROVE \E d \in Commands : Unrecorded(d)'
    BY DEF TornFollows
  <2>1. PICK d \in Commands :
          Unrecorded(d) \/ (cmd[d].pc = "fillingFile" /\ torn = {Appended(d)})
    BY <1>1 DEF SequentialInv, TornFollows
  <2>2. Unrecorded(d)
    BY <1>1, <2>1, Alone DEF Filing, g
  <2>3. Unrecorded(d)'
    BY <1>3, <1>11, <2>2 DEF Unrecorded
  <2>4. QED
    BY <2>3
<1>14. ResultsFollow'
  <2> SUFFICES ASSUME NEW h \in files', h[Len(h)].status = "completed", ~Persisted(h)
               PROVE  \E d \in Commands : /\ cmd'[d].pc \in Closing \cup {"failed", "crashed"}
                                         /\ cmd'[d].history = h
    BY <1>1 DEF ResultsFollow, Persisted
  <2>1. CASE h = g
    BY <1>2, <1>3, <1>6, <2>1
  <2>2. CASE h \in files
    <3>1. PICK d \in Commands : /\ cmd[d].pc \in Closing \cup {"failed", "crashed"}
                                /\ cmd[d].history = h
      BY <2>2 DEF SequentialInv, ResultsFollow
    <3>2. d # c
      BY <1>1, <3>1 DEF Closing
    <3>3. QED
      BY <1>3, <3>1, <3>2
  <2>3. QED
    BY <1>1, <2>1, <2>2
<1>15. LengthFollows'
  <2>1. c \notin Spent
    BY <1>1 DEF Spent, Active, Closing
  <2>2. /\ Cardinality(Spent) \in Nat /\ Cardinality(Spent') \in Nat
        /\ Cardinality(Spent) <= Cardinality(Spent')
        /\ c \in Spent' => Cardinality(Spent) + 1 <= Cardinality(Spent')
    BY <1>3, <2>1, SpentGrows
  <2>3. Cardinality(Closings(Tip)) \in Nat /\ Cardinality(Closings(Tip)) <= Cardinality(Spent)
    BY <1>2, ClosingsCount DEF SequentialInv, LengthFollows
  <2>4. Cardinality(Closings(g)) =
          IF e.status \in {"partial", "step-failed"} \cup TerminalStatuses
          THEN Cardinality(Closings(Tip)) + 1 ELSE Cardinality(Closings(Tip))
    BY <1>2, ClosingsAppended
  <2>5. Cardinality(Closings(g)) <= Cardinality(Spent')
    BY <1>6, <2>2, <2>3, <2>4
  <2>6. QED
    BY <1>8, <2>5 DEF LengthFollows
<1>16. QED
  BY <1>1, <1>3, <1>6, <1>9, <1>10, <1>12, <1>13, <1>14, <1>15, FromOne

LEMMA DiskInOrder ==
    ASSUME SequentialInv, RunnerInv', NEW c \in Commands, DiskFull(c)
    PROVE  SequentialInv'
<1>1. Active(c) /\ cmd[c].pc \in Filing
  BY DEF DiskFull, Recording, Active, Running, Filing
<1>2. QED
  BY <1>1, ThrowInOrder DEF DiskFull

-----------------------------------------------------------------------------
LEMMA StartInOrder ==
    ASSUME Overlap = FALSE, SequentialInv, RunnerInv', NEW c \in Commands,
           NEW kind \in {"apply", "resume", "abort"}, NEW limited \in BOOLEAN,
           Start(c, kind, limited)
    PROVE  SequentialInv'
<1>1. /\ cmd[c] = Idle /\ \A d \in Commands : ~Active(d)
      /\ UNCHANGED <<ref, files, torn, results>>
  BY DEF Start, Quiet
<1>2. PICK state \in {"reading", "failed"} :
        cmd' = [cmd EXCEPT ![c] = [pc |-> state, kind |-> kind, limited |-> limited,
                                   history |-> <<>>, entry |-> NoEntry, applied |-> 0]]
  BY DEF Start
<1>3. /\ cmd'[c].pc = state /\ cmd'[c].entry.failure = "none"
      /\ \A d \in Commands \ {c} : cmd'[d] = cmd[d]
  BY <1>2 DEF SequentialInv, RunnerInv, RunnerTypeOK, NoEntry
<1>4. \A d \in Commands :
        /\ cmd[d].pc \notin Filing \cup Closing /\ cmd'[d].pc \notin Filing \cup Closing
        /\ d # c => ~Active(d)'
  BY <1>1, <1>3 DEF Active, Running, Filing, Closing
<1>5. Tip' = Tip /\ OneHistory' /\ Settled' = Settled
  BY <1>1, SameFiles
<1>6. OneAtATime'
  BY <1>4 DEF OneAtATime
<1>7. \A d \in Commands : Active(d)' => HoldsTip(d)'
  BY <1>3, <1>4 DEF HoldsTip, Starting, Filing, Active, Running
<1>8. ~Unrecorded(c) /\ cmd[c].pc = "idle"
  BY <1>1 DEF Unrecorded, Idle
<1>9. Orderly' => InStep'
  <2>1. Orderly' => Orderly
    BY <1>1, <1>3, <1>8, OrderlyBefore DEF Unwitnessed
  <2>2. Orderly => Settled
    BY <1>4 DEF SequentialInv, InStep
  <2>3. QED
    BY <1>4, <1>5, <2>1, <2>2 DEF InStep
<1>10. TornFollows'
  <2> SUFFICES ASSUME torn # {} PROVE \E d \in Commands : Unrecorded(d)'
    BY <1>1 DEF TornFollows
  <2>1. PICK d \in Commands : Unrecorded(d)
    BY <1>4 DEF SequentialInv, TornFollows, Filing
  <2>2. QED
    BY <1>3, <1>8, <2>1 DEF Unrecorded
<1>11. ResultsFollow'
  <2> SUFFICES ASSUME NEW h \in files, h[Len(h)].status = "completed", ~Persisted(h)
               PROVE  \E d \in Commands : /\ cmd'[d].pc \in Closing \cup {"failed", "crashed"}
                                         /\ cmd'[d].history = h
    BY <1>1 DEF ResultsFollow, Persisted
  <2>1. PICK d \in Commands : /\ cmd[d].pc \in Closing \cup {"failed", "crashed"}
                              /\ cmd[d].history = h
    BY DEF SequentialInv, ResultsFollow
  <2>2. d # c
    BY <1>8, <2>1 DEF Closing
  <2>3. QED
    BY <1>3, <2>1, <2>2
<1>12. c \notin Spent
  BY <1>8 DEF Spent
<1>13. LengthFollows'
  BY <1>1, <1>3, <1>12, LengthKeeps
<1>14. QED
  BY <1>5, <1>6, <1>7, <1>9, <1>10, <1>11, <1>13 DEF SequentialInv

LEMMA ReadInOrder ==
    ASSUME SequentialInv, RunnerInv', NEW c \in Commands, ReadToApply(c) \/ ReadChain(c)
    PROVE  SequentialInv'
<1>1. /\ cmd[c].pc = "reading" /\ Active(c) /\ cmd[c].pc \notin Filing \cup Closing
      /\ UNCHANGED <<ref, files, torn, results>> /\ cmd[c] # Idle /\ RunnerTypeOK
  BY DEF ReadToApply, ReadChain, Active, Running, Filing, Closing, Idle, SequentialInv, RunnerInv
<1>2. CASE GoTo(c, "failed")
  BY <1>1, <1>2, StopHere DEF Ended
<1>3. CASE GoTo(c, "creating")
  <2>1. /\ cmd'[c].pc = "creating" /\ cmd'[c].entry = cmd[c].entry
        /\ \A d \in Commands \ {c} : cmd'[d] = cmd[d]
    BY <1>1, <1>3, GoToFacts DEF Running
  <2>2. QED
    BY <1>1, <2>1, MoveOn DEF Starting, Filing, Closing
<1>4. CASE \E h \in Ends :
             /\ IsChain(h)
             /\ cmd' = [cmd EXCEPT ![c].pc = IF cmd[c].kind = "resume"
                                              THEN "matching" ELSE "checking",
                                   ![c].history = h]
  <2>1. PICK h \in Ends :
             cmd' = [cmd EXCEPT ![c].pc = IF cmd[c].kind = "resume"
                                           THEN "matching" ELSE "checking",
                                ![c].history = h]
    BY <1>4
  <2>2. h = Tip
    BY TipFacts DEF Ends, SequentialInv
  <2> DEFINE pc == IF cmd[c].kind = "resume" THEN "matching" ELSE "checking"
             y == [cmd[c] EXCEPT !.pc = pc, !.history = h]
  <2>3. pc \in {"matching", "checking"}
    OBVIOUS
  <2>4. cmd' = [cmd EXCEPT ![c] = y]
    BY <2>1
  <2> HIDE DEF pc
  <2>5. y.pc = pc /\ y.history = h /\ y.entry = cmd[c].entry
    BY <1>1, CommandType DEF Command
  <2> HIDE DEF y
  <2>6. cmd'[c] = y /\ \A d \in Commands \ {c} : cmd'[d] = cmd[d]
    BY <1>1, <2>4 DEF RunnerTypeOK
  <2>7. QED
    BY <1>1, <2>2, <2>3, <2>5, <2>6, MoveOn DEF Filing, Closing
<1>5. QED
  BY <1>2, <1>3, <1>4 DEF ReadToApply, ReadChain

LEMMA CreateRefInOrder ==
    ASSUME SequentialInv, RunnerInv', NEW c \in Commands, CreateRef(c)
    PROVE  SequentialInv'
<1>1. /\ cmd[c].pc = "creating" /\ Active(c) /\ cmd[c].pc \notin Filing \cup Closing
      /\ UNCHANGED <<files, torn, results>> /\ cmd[c] # Idle /\ cmd[c].history = <<>>
  BY DEF CreateRef, Active, Running, Filing, Closing, Idle, SequentialInv, RunnerInv, Holds, Starting
<1>2. CASE ref # Absent
  BY <1>1, <1>2, StopHere DEF CreateRef, Ended
<1>3. CASE ref = Absent
  <2>1. ref' = 0 /\ ToAppend(c, First)
    BY <1>3 DEF CreateRef, First
  <2>2. Tip = <<>>
    BY <1>3 DEF Tip, SequentialInv, RunnerInv, FilesAreGood
  <2>3. First \in Attempt /\ First.after = 0 /\ First.before = 0
    BY FirstIsGood DEF First, Entry
  <2>4. ref # Foreign
    BY <1>3 DEF Absent, Foreign
  <2>5. QED
    BY <1>1, <2>1, <2>2, <2>3, <2>4, AppendOnTip
<1>4. QED
  BY <1>2, <1>3

\* An attempt of the loop, or of an abort: a note, or a commit at the head.
LEMMA NoteOnTip ==
    ASSUME SequentialInv, RunnerInv', NEW c \in Commands, Active(c),
           cmd[c].pc \in {"working", "checking"},
           NEW status, NEW unit, NEW failure,
           ToAppend(c, Note(cmd[c].history, status, unit, failure)),
           UNCHANGED <<ref, files, torn, results>>
    PROVE  SequentialInv'
<1> DEFINE h == cmd[c].history
           e == Note(h, status, unit, failure)
<1>1. /\ h = Tip /\ h # <<>> /\ cmd[c].pc \notin Filing \cup Closing /\ cmd[c] # Idle
      /\ h \in files /\ Good(h)
  BY ByOne DEF SequentialInv, HoldsTip, RunnerInv, FilesAreGood, Holds, Starting, Filing, Closing, Going
<1>2. HeadOf(h) \in Nat
  BY <1>1, GoodType
<1>3. e.before = HeadOf(h) /\ e.after = HeadOf(h)
  BY DEF Note, Entry
<1>4. e \in Attempt
  <2> DEFINE y == [cmd[c] EXCEPT !.pc = "creatingFile", !.entry = e]
  <2>1. cmd' = [cmd EXCEPT ![c] = y]
    BY DEF ToAppend
  <2> HIDE DEF e
  <2>2. y.pc = "creatingFile" /\ y.entry = e
    BY <1>1, CommandType DEF SequentialInv, RunnerInv, Command
  <2> HIDE DEF y
  <2>3. cmd'[c] = y
    BY <2>1 DEF SequentialInv, RunnerInv, RunnerTypeOK
  <2>4. cmd'[c] # Idle /\ cmd'[c].entry = e
    BY <2>2, <2>3 DEF Idle
  <2>5. cmd'[c] \in Command
    BY <2>4 DEF RunnerInv, RunnerTypeOK
  <2>6. QED
    BY <2>4, <2>5 DEF Command
<1>5. Settled => ref' = HeadOf(h)
  BY <1>1 DEF Settled
<1> HIDE DEF e
<1>6. QED
  BY <1>1, <1>2, <1>3, <1>4, <1>5, AppendOnTip DEF e

LEMMA CommitOnTip ==
    ASSUME SequentialInv, RunnerInv', NEW c \in Commands, Active(c), cmd[c].pc = "working",
           NEW status \in {"plan-accepted", "step-applied"}, NEW unit \in Units \cup {NoUnit},
           ToAppend(c, Entry(status, unit, HeadOf(cmd[c].history), HeadOf(cmd[c].history) + 1, "none")),
           ref = HeadOf(cmd[c].history), ref' = HeadOf(cmd[c].history) + 1,
           UNCHANGED <<files, torn, results>>
    PROVE  SequentialInv'
<1> DEFINE h == cmd[c].history
           e == Entry(status, unit, HeadOf(h), HeadOf(h) + 1, "none")
<1>1. /\ h = Tip /\ h # <<>> /\ cmd[c].pc \notin Filing \cup Closing /\ cmd[c] # Idle
      /\ h \in files /\ Good(h)
  BY ByOne DEF SequentialInv, HoldsTip, RunnerInv, FilesAreGood, Holds, Starting, Filing, Closing, Going
<1>2. HeadOf(h) \in Nat
  BY <1>1, GoodType
<1>3. /\ e.before = HeadOf(h) /\ e.after = HeadOf(h) + 1 /\ e \in Attempt
  BY <1>2 DEF Entry, Attempt, Statuses, StepStatuses, Failures
<1>4. ref # Foreign
  BY <1>2 DEF Foreign
<1> HIDE DEF e
<1>5. QED
  BY <1>1, <1>2, <1>3, <1>4, AppendOnTip DEF e

LEMMA WorkInOrder ==
    ASSUME SequentialInv, RunnerInv', NEW c \in Commands,
           \/ AcceptPlan(c) \/ Retain(c) \/ Pause(c) \/ ApplyStep(c) \/ PatchFails(c)
           \/ Complete(c) \/ EvidenceFails(c)
    PROVE  SequentialInv'
<1> DEFINE h == cmd[c].history
<1>1. /\ cmd[c].pc = "working" /\ Active(c) /\ cmd[c].pc \notin Filing \cup Closing
      /\ UNCHANGED <<files, torn, results>> /\ cmd[c] # Idle /\ Good(h)
  BY DEF AcceptPlan, Retain, Pause, ApplyStep, PatchFails, Complete, EvidenceFails, Working,
         Active, Running, Filing, Closing, Idle, SequentialInv, RunnerInv, Holds, FilesAreGood, Going
<1>2. CASE UNCHANGED ref /\ GoTo(c, "failed")
  BY <1>1, <1>2, StopHere DEF Ended
<1>3. CASE \E status, unit, failure :
             UNCHANGED ref /\ ToAppend(c, Note(h, status, unit, failure))
  BY <1>1, <1>3, NoteOnTip
<1>4. CASE AcceptPlan(c)
  <2>1. CASE ref = HeadOf(h)
    <3>1. /\ ref' = HeadOf(h) + 1
          /\ ToAppend(c, Entry("plan-accepted", NoUnit, HeadOf(h), HeadOf(h) + 1, "none"))
      BY <1>4, <2>1 DEF AcceptPlan, Swap
    <3>2. QED
      BY <1>1, <2>1, <3>1, CommitOnTip
  <2>2. CASE ref # HeadOf(h)
    BY <1>2, <1>4, <2>2 DEF AcceptPlan, Swap
  <2>3. QED
    BY <2>1, <2>2
<1>5. CASE ApplyStep(c)
  <2>1. CASE ref = HeadOf(h)
    <3>1. /\ ref' = HeadOf(h) + 1 /\ RetainsDone(h) /\ ~StepsDone(h)
          /\ ToAppend(c, Entry("step-applied", NextUnit(h), HeadOf(h), HeadOf(h) + 1, "none"))
      BY <1>5, <2>1 DEF ApplyStep, Swap
    <3>2. NextUnit(h) \in Units
      BY <1>1, <3>1, NextUnitFits
    <3>3. QED
      BY <1>1, <2>1, <3>1, <3>2, CommitOnTip
  <2>2. CASE ref # HeadOf(h)
    BY <1>3, <1>5, <2>2 DEF ApplyStep, Swap
  <2>3. QED
    BY <2>1, <2>2
<1>6. CASE Retain(c) \/ Pause(c)
  BY <1>3, <1>6 DEF Retain, Pause
<1>7. CASE PatchFails(c) \/ Complete(c)
  BY <1>3, <1>7 DEF PatchFails, Complete
<1>8. CASE EvidenceFails(c)
  BY <1>2, <1>8 DEF EvidenceFails
<1>9. QED
  BY <1>4, <1>5, <1>6, <1>7, <1>8

LEMMA CheckInOrder ==
    ASSUME SequentialInv, RunnerInv', NEW c \in Commands, MatchRef(c) \/ CheckRef(c)
    PROVE  SequentialInv'
<1>1. /\ cmd[c].pc \in {"matching", "checking"} /\ Active(c) /\ cmd[c].pc \notin Filing \cup Closing
      /\ UNCHANGED <<ref, files, torn, results>> /\ cmd[c] # Idle /\ RunnerTypeOK
      /\ cmd[c].history = Tip
  BY DEF MatchRef, CheckRef, Active, Running, Filing, Closing, Idle, SequentialInv, RunnerInv,
         HoldsTip, Starting
<1>2. CASE GoTo(c, "failed")
  BY <1>1, <1>2, StopHere DEF Ended
<1>3. CASE GoTo(c, "working")
  <2>1. /\ cmd'[c].pc = "working" /\ cmd'[c].history = cmd[c].history
        /\ cmd'[c].entry = cmd[c].entry
        /\ \A d \in Commands \ {c} : cmd'[d] = cmd[d]
    BY <1>1, <1>3, GoToFacts DEF Running
  <2>2. QED
    BY <1>1, <2>1, MoveOn DEF Filing, Closing
<1>4. CASE cmd[c].pc = "checking" /\ ToAppend(c, Note(cmd[c].history, "aborted", NoUnit, "none"))
  BY <1>1, <1>4, NoteOnTip
<1>5. QED
  BY <1>2, <1>3, <1>4 DEF MatchRef, CheckRef

\* A command that has recorded the end goes on to the result, or fails or dies first.
LEMMA AfterTheEnd ==
    ASSUME SequentialInv, RunnerInv', NEW c \in Commands, cmd[c].pc \in Closing,
           NEW state \in {"persisting", "fillingResult", "complete", "failed", "crashed"},
           GoTo(c, state), UNCHANGED <<ref, files, torn>>,
           \A h : Persisted(h) => Persisted(h)',
           state = "complete" => \A h : h = cmd[c].history => Persisted(h)'
    PROVE  SequentialInv'
<1>1. /\ Active(c) /\ cmd[c].pc \notin Filing \cup Starting
  BY DEF Active, Running, Filing, Closing, Starting
<1>2. /\ cmd[c] # Idle /\ ~Unrecorded(c) /\ RunnerTypeOK
      /\ cmd[c].history = Tip /\ cmd[c].entry.failure # "store"
  BY <1>1, ByOne DEF SequentialInv, RunnerInv, HoldsTip
<1>3. /\ cmd'[c].pc = state /\ cmd'[c].history = cmd[c].history /\ cmd'[c].entry = cmd[c].entry
      /\ \A d \in Commands \ {c} : cmd'[d] = cmd[d]
  BY <1>2, GoToFacts DEF Running, Ended
<1>4. Tip' = Tip /\ OneHistory' /\ Settled' = Settled
  BY SameFiles
<1>5. cmd'[c].pc \notin Filing
  BY <1>3 DEF Filing
<1>6. Active(c)' => HoldsTip(c)'
  BY <1>2, <1>3, <1>4, <1>5 DEF HoldsTip, Filing
<1>7. Orderly' => Settled'
  <2>1. Orderly' => Orderly
    BY <1>2, <1>3, OrderlyBefore DEF Unwitnessed
  <2>2. QED
    BY <1>1, <1>4, <2>1, ByOne
<1>8. TornFollows'
  <2>1. cmd[c].pc # "fillingFile"
    BY <1>1 DEF Filing
  <2>2. QED
    BY <1>1, <1>2, <1>3, <2>1, TornBefore DEF TornFollows
<1>9. ResultsFollow'
  <2> SUFFICES ASSUME NEW h \in files, h[Len(h)].status = "completed", ~Persisted(h)'
               PROVE  \E d \in Commands : /\ cmd'[d].pc \in Closing \cup {"failed", "crashed"}
                                         /\ cmd'[d].history = h
    BY DEF ResultsFollow
  <2>1. PICK d \in Commands : /\ cmd[d].pc \in Closing \cup {"failed", "crashed"}
                              /\ cmd[d].history = h
    BY DEF SequentialInv, ResultsFollow
  <2>2. CASE d # c
    BY <1>3, <2>1, <2>2
  <2>3. CASE d = c
    BY <1>3, <2>1, <2>3 DEF Closing
  <2>4. QED
    BY <2>2, <2>3
<1>10. c \in Spent'
  BY <1>3 DEF Spent, Running, Closing
<1>11. LengthFollows'
  BY <1>3, <1>10, LengthKeeps
<1>12. QED
  BY <1>1, <1>3, <1>4, <1>5, <1>6, <1>7, <1>8, <1>9, <1>11, FromOne

LEMMA CloseInOrder ==
    ASSUME SequentialInv, RunnerInv', NEW c \in Commands,
           ConfirmRef(c) \/ PersistResult(c) \/ FillResult(c) \/ ResultFails(c)
    PROVE  SequentialInv'
<1>1. cmd[c].pc \in Closing /\ UNCHANGED <<ref, files, torn>>
  BY DEF ConfirmRef, PersistResult, FillResult, ResultFails, Closing
<1>2. CASE \E state \in {"persisting", "failed"} : GoTo(c, state) /\ UNCHANGED results
  BY <1>1, <1>2, AfterTheEnd DEF Persisted
<1>3. CASE PersistResult(c)
  <2>1. CASE ResultFile(c, TRUE) \in results /\ GoTo(c, "complete") /\ UNCHANGED results
    BY <1>1, <2>1, AfterTheEnd DEF Persisted, ResultFile
  <2>2. CASE GoTo(c, "failed") /\ UNCHANGED results
    BY <1>2, <2>2
  <2>3. CASE GoTo(c, "fillingResult") /\ results' = results \cup {ResultFile(c, FALSE)}
    BY <1>1, <2>3, AfterTheEnd DEF Persisted
  <2>4. QED
    BY <1>3, <2>1, <2>2, <2>3 DEF PersistResult
<1>4. CASE FillResult(c)
  <2>1. /\ results' = (results \ {ResultFile(c, FALSE)}) \cup {ResultFile(c, TRUE)}
        /\ GoTo(c, "complete")
    BY <1>4 DEF FillResult
  <2>2. \A h : Persisted(h) => Persisted(h)'
    BY <2>1 DEF Persisted, ResultFile
  <2>3. \A h : h = cmd[c].history => Persisted(h)'
    BY <2>1 DEF Persisted, ResultFile
  <2>4. QED
    BY <1>1, <2>1, <2>2, <2>3, AfterTheEnd
<1>5. CASE ConfirmRef(c) \/ ResultFails(c)
  BY <1>2, <1>5 DEF ConfirmRef, ResultFails
<1>6. QED
  BY <1>3, <1>4, <1>5

LEMMA CrashInOrder ==
    ASSUME SequentialInv, RunnerInv', NEW c \in Commands, Crash(c)
    PROVE  SequentialInv'
<1>1. /\ Active(c) /\ UNCHANGED <<ref, files, torn, results>>
      /\ GoTo(c, IF Recording(c) THEN "unrecorded" ELSE "crashed")
  BY DEF Crash
<1>2. CASE cmd[c].pc \in Filing
  BY <1>1, <1>2, UnrecordedInOrder DEF Recording, Filing
<1>3. CASE cmd[c].pc \notin Filing
  <2>1. GoTo(c, "crashed")
    BY <1>1, <1>3 DEF Recording, Filing
  <2>2. CASE cmd[c].pc \in Closing
    BY <1>1, <2>1, <2>2, AfterTheEnd DEF Persisted
  <2>3. CASE cmd[c].pc \notin Closing
    BY <1>1, <1>3, <2>1, <2>3, StopHere DEF Ended
  <2>4. QED
    BY <2>2, <2>3
<1>4. QED
  BY <1>2, <1>3

LEMMA RestUnchanged ==
    ASSUME SequentialInv, UNCHANGED <<files, torn, results, cmd>>
    PROVE  TornFollows' /\ ResultsFollow' /\ LengthFollows'
<1>1. TornFollows'
  BY DEF SequentialInv, TornFollows, Unrecorded, Appended
<1>2. ResultsFollow'
  BY DEF SequentialInv, ResultsFollow, Persisted
<1>3. Tip' = Tip /\ Spent' = Spent
  BY SameFiles DEF Spent
<1>4. LengthFollows'
  BY <1>3 DEF SequentialInv, LengthFollows
<1>5. QED
  BY <1>1, <1>2, <1>4

LEMMA ForeignInOrder ==
    ASSUME SequentialInv, RunnerInv', ForeignUpdate
    PROVE  SequentialInv'
<1>1. ref' = Foreign /\ UNCHANGED <<files, torn, results, cmd>>
  BY DEF ForeignUpdate
<1>2. Tip' = Tip /\ OneHistory'
  BY <1>1, SameFiles
<1>3. OneAtATime' /\ ~Orderly'
  BY <1>1 DEF OneAtATime, Active, Orderly, SequentialInv
<1>4. \A c \in Commands : Active(c)' => HoldsTip(c)'
  BY <1>1, <1>2 DEF SequentialInv, HoldsTip, Active, Appended
<1>5. TornFollows' /\ ResultsFollow' /\ LengthFollows'
  BY <1>1, <1>2, RestUnchanged
<1>6. QED
  BY <1>2, <1>3, <1>4, <1>5 DEF SequentialInv

-----------------------------------------------------------------------------
(* The theorems of commands that run one after the other. *)

LEMMA StepInOrder ==
    ASSUME Overlap = FALSE, SequentialInv, [Next]_vars, RunnerInv'
    PROVE  SequentialInv'
<1>1. ASSUME NEW c \in Commands, NEW kind \in {"apply", "resume", "abort"},
             NEW limited \in BOOLEAN, Start(c, kind, limited)
      PROVE  SequentialInv'
  BY <1>1, StartInOrder
<1>2. ASSUME NEW c \in Commands, Step(c) \/ Fault(c)
      PROVE  SequentialInv'
  BY <1>2, ReadInOrder, CreateRefInOrder, CheckInOrder, CreateInOrder, FillInOrder, DiskInOrder,
     WorkInOrder, CloseInOrder, CrashInOrder DEF Step, Fault
<1>3. CASE ForeignUpdate
  BY <1>3, ForeignInOrder
<1>4. CASE UNCHANGED vars
  <2>1. UNCHANGED <<ref, files, torn, results, cmd>>
    BY <1>4 DEF vars
  <2>2. Tip' = Tip /\ OneHistory' /\ Settled' = Settled
    BY <2>1, SameFiles
  <2>3. OneAtATime' /\ \A c \in Commands : Active(c)' => HoldsTip(c)'
    BY <2>1, <2>2 DEF SequentialInv, OneAtATime, Active, HoldsTip, Appended
  <2>4. Orderly' => Orderly
    BY <2>1 DEF Orderly, Unwitnessed, Unrecorded
  <2>5. InStep => InStep'
    BY <2>1, <2>2 DEF InStep
  <2>6. TornFollows' /\ ResultsFollow' /\ LengthFollows'
    BY <2>1, RestUnchanged
  <2>7. QED
    BY <2>2, <2>3, <2>4, <2>5, <2>6 DEF SequentialInv
<1>5. QED
  BY <1>1, <1>2, <1>3, <1>4 DEF Next

\* The invariant of commands that take turns, wherever they stop, fail or die.
THEOREM SequentialInvariant ==
    ASSUME Overlap = FALSE
    PROVE  Spec => []SequentialInv
<1>1. Init /\ RunnerInv => SequentialInv
  <2> SUFFICES ASSUME Init, RunnerInv PROVE SequentialInv
    OBVIOUS
  <2>1. files = {} /\ torn = {} /\ ref = Absent /\ \A c \in Commands : cmd[c].pc = "idle"
    BY DEF Init, Idle
  <2>2. Tip = <<>> /\ Prefixes(<<>>) = {}
    BY <2>1 DEF Tip, Prefixes
  <2>3. OneHistory /\ OneAtATime /\ \A c \in Commands : Active(c) => HoldsTip(c)
    BY <2>1, <2>2 DEF OneHistory, OneAtATime, Active, Running
  <2>4. InStep /\ TornFollows /\ ResultsFollow
    BY <2>1 DEF InStep, TornFollows, ResultsFollow, Settled, Filing
  <2>5. LengthFollows
    <3>1. Closings(<<>>) = {} /\ Spent = {}
      BY <2>1 DEF Closings, Spent
    <3>2. Cardinality({}) = 0
      BY FS_EmptySet
    <3>3. Cardinality(Closings(Tip)) = 0 /\ Cardinality(Spent) = 0
      BY <2>2, <3>1, <3>2
    <3>4. QED
      BY <3>3 DEF LengthFollows
  <2>6. QED
    BY <2>3, <2>4, <2>5 DEF SequentialInv
<1>2. SequentialInv /\ RunnerInv' /\ [Next]_vars => SequentialInv'
  BY StepInOrder
<1>3. QED
  BY <1>1, <1>2, RunnerInvariant, PTL DEF Spec

\* A history that is not longer has no more closing attempts.
LEMMA ClosingsOfPrefix ==
    ASSUME NEW h \in Seq(Attempt), NEW g \in Prefixes(h)
    PROVE  Cardinality(Closings(g)) <= Cardinality(Closings(h))
<1>1. PICK i \in 1..Len(h) : g = SubSeq(h, 1, i)
  BY DEF Prefixes
<1>2. Len(g) = i /\ i <= Len(h) /\ \A j \in 1..i : g[j] = h[j]
  BY <1>1
<1>3. Closings(g) \subseteq Closings(h)
  BY <1>2 DEF Closings
<1>4. QED
  BY <1>3, ClosingsCount, FS_Subset

\* No order of applies, resumes and aborts, whatever fails and wherever a command dies,
\* leaves damage that no single command or foreign update explains.
THEOREM StopsAreExplained ==
    ASSUME Overlap = FALSE
    PROVE  Spec => []StopIsExplained
<1>1. SequentialInv => StopIsExplained
  <2> SUFFICES ASSUME SequentialInv, Quiet
               PROVE  /\ OneChain /\ TornIsExplained /\ BranchIsExplained
                      /\ ResultIsExplained /\ LengthIsExplained
    BY DEF StopIsExplained
  <2>1. \A c \in Commands : cmd[c].pc \notin Filing \cup Closing /\ cmd[c].pc \notin Running
    BY DEF Quiet, Active, Running, Filing, Closing
  <2>2. OneChain
    BY TipFacts DEF SequentialInv, OneChain
  <2>3. TornIsExplained
    BY <2>1 DEF SequentialInv, TornFollows, TornIsExplained, Filing
  <2>4. BranchIsExplained
    <3>1. Orderly => Settled
      BY <2>1 DEF SequentialInv, InStep
    <3>2. files # {} => Tip = CHOOSE h \in Ends : TRUE
      BY DEF Tip
    <3>3. QED
      BY <3>1, <3>2 DEF BranchIsExplained, Orderly, Settled
  <2>5. ResultIsExplained
    BY <2>1 DEF SequentialInv, ResultsFollow, ResultIsExplained
  <2>6. LengthIsExplained
    <3> DEFINE begun == {c \in Commands : cmd[c] # Idle}
    <3> SUFFICES ASSUME NEW h \in files
                 PROVE  Cardinality(Closings(h)) <= Cardinality(begun)
      BY DEF LengthIsExplained
    <3>1. Tip \in Seq(Attempt) /\ h \in Prefixes(Tip) /\ h \in Seq(Attempt)
      BY TipFacts, GoodType DEF SequentialInv, OneHistory, RunnerInv, FilesAreGood
    <3>2. Cardinality(Closings(h)) <= Cardinality(Closings(Tip))
      BY <3>1, ClosingsOfPrefix
    <3>3. Spent \subseteq begun
      BY DEF Spent, Idle
    <3>4. IsFiniteSet(begun) /\ IsFiniteSet(Spent)
      BY RunnerAssumption, FS_Subset DEF Spent
    <3> HIDE DEF begun
    <3>5. Cardinality(Spent) <= Cardinality(begun)
      BY <3>3, <3>4, FS_Subset
    <3>6. /\ Cardinality(begun) \in Nat /\ Cardinality(Spent) \in Nat
          /\ Cardinality(Closings(h)) \in Nat /\ Cardinality(Closings(Tip)) \in Nat
      BY <3>1, <3>4, ClosingsCount, FS_CardinalityType
    <3>7. Cardinality(Closings(Tip)) <= Cardinality(Spent)
      BY DEF SequentialInv, LengthFollows
    <3>8. QED
      BY <3>2, <3>5, <3>6, <3>7
  <2>7. QED
    BY <2>2, <2>3, <2>4, <2>5, <2>6
<1>2. QED
  BY <1>1, SequentialInvariant, PTL

-----------------------------------------------------------------------------
(* The recovery implements RecoveryLedger. *)

\* The ledger validates its attempts as the runner's readers do.
LEMMA SameChain ==
    ASSUME NEW h
    PROVE  /\ Ledger!ChainOk(h) = ChainOk(h)
           /\ Ledger!Terminal(h) = Terminal(h)
           /\ Ledger!HeadOf(h) = HeadOf(h)
<1>1. Ledger!HeadOf(h) = HeadOf(h)
  BY DEF Ledger!HeadOf, HeadOf
<1>2. Ledger!Terminal(h) = Terminal(h)
  BY DEF Ledger!Terminal, Terminal, Ledger!TerminalStatuses, TerminalStatuses
<1>3. Ledger!Linked(h) = Linked(h)
  BY DEF Ledger!Linked, Linked
<1>4. Ledger!Receipts(h) = Receipts(h)
  BY DEF Ledger!Receipts, Receipts, Ledger!StepStatuses, StepStatuses, Ledger!Mutations, Mutations,
         Ledger!NoUnit, NoUnit
<1>5. \A i, status : Ledger!CountBefore(h, i, status) = CountBefore(h, i, status)
  BY DEF Ledger!CountBefore, CountBefore, Ledger!Cardinality, Cardinality
<1>6. Ledger!Count(h, "plan-accepted") = Count(h, "plan-accepted")
  BY <1>5 DEF Ledger!Count, Count
<1>7. Ledger!Opening(h) = Opening(h)
  BY <1>6 DEF Ledger!Opening, Opening
<1>8. Ledger!StepsInOrder(h) = StepsInOrder(h)
  BY <1>5 DEF Ledger!StepsInOrder, StepsInOrder, Ledger!IsNext, IsNext,
              Ledger!ExecutionStatuses, ExecutionStatuses
<1>9. Ledger!EndsOnce(h) = EndsOnce(h)
  BY DEF Ledger!EndsOnce, EndsOnce, Ledger!TerminalStatuses, TerminalStatuses
<1>10. Ledger!ChainOk(h) = ChainOk(h)
  BY <1>3, <1>4, <1>7, <1>8, <1>9 DEF Ledger!ChainOk, ChainOk
<1>11. QED
  BY <1>1, <1>2, <1>10

LEMMA LedgerIsTip ==
    /\ Ledger!vars = <<Tip, ref>>
    /\ Ledger!Witnessed = IF Tip = <<>> THEN Absent ELSE HeadOf(Tip)
<1>1. Ledger!vars = <<Tip, ref>>
  BY DEF Ledger!vars, Tip
<1>2. Ledger!Witnessed = IF Tip = <<>> THEN Absent ELSE Ledger!HeadOf(Tip)
  BY DEF Ledger!Witnessed, Tip, Ledger!Absent, Absent
<1>3. QED
  BY <1>1, <1>2, SameChain

\* The branch advances when the ledger witnesses all of it.
LEMMA AdvanceIsLedger ==
    ASSUME SequentialInv, UNCHANGED files, ref' = ref + 1,
           \/ ref = Absent
           \/ files # {} /\ ref = HeadOf(Tip) /\ ~Terminal(Tip)
    PROVE  Ledger!Advance
<1>1. Tip' = Tip
  BY SameFiles
<1>2. ref = Absent => files = {} /\ Tip = <<>>
  BY DEF SequentialInv, RunnerInv, FilesAreGood, Tip
<1>3. files # {} => Tip # <<>>
  BY TipFacts DEF SequentialInv
<1>4. ref = Ledger!Witnessed
  BY <1>2, <1>3, LedgerIsTip
<1>5. ~Terminal(Tip)
  BY <1>2 DEF Terminal
<1>6. ~Ledger!Terminal(Tip)
  BY <1>5, SameChain
<1>7. QED
  BY <1>1, <1>4, <1>6 DEF Ledger!Advance, Tip

\* An attempt is recorded when its file is complete.
LEMMA FillIsRecord ==
    ASSUME SequentialInv, SequentialInv', NEW c \in Commands, FillFile(c)
    PROVE  Ledger!Record
<1> DEFINE g == Appended(c)
           e == cmd[c].entry
<1>1. /\ Active(c) /\ cmd[c].pc \in Filing /\ cmd[c] # Idle /\ UNCHANGED ref
      /\ files' = files \cup {g} /\ HoldsTip(c) /\ Holds(c)
  BY DEF FillFile, Active, Running, Filing, Idle, SequentialInv, RunnerInv
<1>2. /\ cmd[c].history = Tip /\ Tip \in Seq(Attempt) /\ e \in Attempt
      /\ g = Append(Tip, e) /\ files' = Prefixes(g) /\ g # <<>> /\ g \in Seq(Attempt)
      /\ Good(g) /\ HeadOf(g) = e.after
  BY <1>1, NewFile
<1>3. Tip' = g
  <2>1. /\ files' # {}
        /\ (CHOOSE x \in {x \in files' : \A y \in files' : Len(y) <= Len(x)} : TRUE) = g
    BY <1>2, OnlyEnd, ZenonT(40)
  <2>2. QED
    BY <2>1 DEF Tip, Ends
<1>4. ~Terminal(Tip) /\ ref # Absent
  BY <1>1, <1>2 DEF Holds, Terminal
<1> HIDE DEF g, e
<1>5. ASSUME Tip # <<>>
      PROVE  e.before = HeadOf(Tip)
  BY <1>1, <1>2, <1>5 DEF Holds, Fits, e
<1>6. ASSUME Tip = <<>>
      PROVE  e.before = 0 /\ e.after = 0
  <2>1. First.before = 0 /\ First.after = 0
    BY DEF First, Entry
  <2>2. QED
    BY <1>1, <1>2, <1>6, <2>1 DEF Holds, e
<1>7. e.after \in {e.before, e.before + 1} /\ e.before \in Nat
  BY <1>1, <1>2 DEF HoldsTip, e, Attempt
<1>8. (Tip = <<>> \/ e.before # e.after) => ref \in {Foreign, e.after}
  BY <1>1, <1>2 DEF HoldsTip, e
<1> DEFINE w == Ledger!Witnessed
           head == IF Tip = <<>> THEN 0 ELSE w
<1>9. /\ w = IF Tip = <<>> THEN Absent ELSE HeadOf(Tip)
      /\ head = e.before
  BY <1>5, <1>6, LedgerIsTip
<1>10. HeadOf(g) # w => ref \in {Foreign, HeadOf(g)}
  BY <1>2, <1>5, <1>8, <1>9
<1>11. e \in [status : Statuses, unit : Units \cup {NoUnit},
              before : {head}, after : {head, head + 1}, failure : Failures]
  <2> HIDE DEF head
  <2>1. e \in [status : Statuses, unit : Units \cup {NoUnit},
               before : Nat, after : Nat, failure : Failures]
    BY <1>2 DEF Attempt
  <2>2. e.before \in {head} /\ e.after \in {head, head + 1}
    BY <1>7, <1>9
  <2>3. QED
    BY <2>1, <2>2
<1>12. Ledger!Attempts = [status : Statuses, unit : Units \cup {NoUnit},
                          before : {head}, after : {head, head + 1}, failure : Failures]
  BY DEF Ledger!Attempts, Tip, Ledger!Statuses, Statuses, Ledger!StepStatuses, StepStatuses,
         Ledger!ExecutionStatuses, ExecutionStatuses, Ledger!TerminalStatuses, TerminalStatuses,
         Ledger!NoUnit, NoUnit, Ledger!Failures, Failures
<1>13. e \in Ledger!Attempts
  BY <1>11, <1>12
<1>14. Tip' \in {Append(Tip, attempt) : attempt \in Ledger!Attempts}
  BY <1>2, <1>3, <1>13
<1>15. Ledger!ChainOk(g) /\ Ledger!HeadOf(g) = HeadOf(g) /\ ~Ledger!Terminal(Tip)
  BY <1>2, <1>4, SameChain DEF Good
<1>16. /\ UNCHANGED ref /\ ref # Ledger!Absent
       /\ Ledger!HeadOf(g) # w => ref \in {Ledger!Foreign, Ledger!HeadOf(g)}
  BY <1>1, <1>4, <1>10, <1>15 DEF Ledger!Absent, Absent, Ledger!Foreign, Foreign
<1>17. QED
  BY <1>3, <1>14, <1>15, <1>16 DEF Ledger!Record, Tip

LEMMA StepIsLedger ==
    ASSUME SequentialInv, SequentialInv', [Next]_vars
    PROVE  [Ledger!Next]_(Ledger!vars)
<1>1. ASSUME UNCHANGED <<ref, files>>
      PROVE  UNCHANGED Ledger!vars
  BY <1>1, SameFiles, LedgerIsTip DEF Ledger!vars, Tip
<1>2. ASSUME NEW c \in Commands, CreateRef(c)
      PROVE  [Ledger!Next]_(Ledger!vars)
  <2>1. CASE ref = Absent
    <3>1. ref' = ref + 1 /\ UNCHANGED files
      BY <1>2, <2>1 DEF CreateRef, Absent
    <3>2. QED
      BY <2>1, <3>1, AdvanceIsLedger DEF Ledger!Next
  <2>2. CASE ref # Absent
    BY <1>1, <1>2, <2>2 DEF CreateRef
  <2>3. QED
    BY <2>1, <2>2
<1>3. ASSUME NEW c \in Commands, AcceptPlan(c) \/ ApplyStep(c)
      PROVE  [Ledger!Next]_(Ledger!vars)
  <2>1. /\ cmd[c].pc = "working" /\ Active(c) /\ cmd[c] # Idle /\ UNCHANGED files
    BY <1>3 DEF AcceptPlan, ApplyStep, Working, Active, Running, Idle
  <2>2. /\ cmd[c].history = Tip /\ cmd[c].history \in files /\ ~Terminal(Tip)
    BY <2>1 DEF SequentialInv, RunnerInv, HoldsTip, Holds, Going, Starting
  <2>3. CASE ref = HeadOf(Tip)
    <3>1. ref' = ref + 1
      BY <1>3, <2>2, <2>3 DEF AcceptPlan, ApplyStep, Swap
    <3>2. QED
      BY <2>1, <2>2, <2>3, <3>1, AdvanceIsLedger DEF Ledger!Next
  <2>4. CASE ref # HeadOf(Tip)
    <3>1. UNCHANGED <<ref, files>>
      BY <1>3, <2>1, <2>2, <2>4 DEF AcceptPlan, ApplyStep, Swap
    <3>2. QED
      BY <1>1, <3>1
  <2>5. QED
    BY <2>3, <2>4
<1>4. ASSUME NEW c \in Commands, FillFile(c)
      PROVE  [Ledger!Next]_(Ledger!vars)
  BY <1>4, FillIsRecord DEF Ledger!Next
<1>5. CASE ForeignUpdate
  <2>1. ref # Absent /\ ref' = Foreign /\ Tip' = Tip
    BY <1>5, SameFiles DEF ForeignUpdate, Commit, Absent
  <2>2. Ledger!Interfere
    BY <2>1 DEF Ledger!Interfere, Ledger!Absent, Absent, Ledger!Foreign, Foreign, Tip
  <2>3. QED
    BY <2>2 DEF Ledger!Next
<1>6. ASSUME NEW c \in Commands,
             \/ \E kind \in {"apply", "resume", "abort"}, limited \in BOOLEAN :
                    Start(c, kind, limited)
             \/ ReadToApply(c) \/ ReadChain(c) \/ MatchRef(c) \/ CreateFile(c)
             \/ Retain(c) \/ Pause(c) \/ Complete(c)
             \/ ConfirmRef(c) \/ PersistResult(c) \/ FillResult(c) \/ CheckRef(c)
             \/ Fault(c)
      PROVE  [Ledger!Next]_(Ledger!vars)
  <2>1. UNCHANGED <<ref, files>>
    BY <1>6 DEF Start, ReadToApply, ReadChain, MatchRef, CreateFile, Retain, Pause, Complete,
                ConfirmRef, PersistResult, FillResult, CheckRef, Fault, Crash, DiskFull,
                PatchFails, EvidenceFails, ResultFails
  <2>2. QED
    BY <1>1, <2>1
<1>7. CASE UNCHANGED vars
  BY <1>1, <1>7 DEF vars
<1>8. QED
  BY <1>2, <1>3, <1>4, <1>5, <1>6, <1>7 DEF Next, Step

\* Taking turns, the commands implement the ledger, wherever one stops, fails or dies.
THEOREM LedgerIsImplemented ==
    ASSUME Overlap = FALSE
    PROVE  Spec => ImplementsRecoveryLedger
<1>1. Init => Ledger!Init
  BY DEF Init, Ledger!Init, Ledger!Absent, Absent
<1>2. SequentialInv /\ SequentialInv' /\ [Next]_vars => [Ledger!Next]_(Ledger!vars)
  BY StepIsLedger
<1>3. QED
  BY <1>1, <1>2, SequentialInvariant, PTL DEF Spec, ImplementsRecoveryLedger, Ledger!Spec
=============================================================================
