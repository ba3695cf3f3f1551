-------------------------- MODULE WorkspaceProofs --------------------------
(***************************************************************************)
(* Theorems about Workspace, for any number of jobs, files and sessions:   *)
(* what the user is told of a job is final, a running command is listed,   *)
(* a closed session is quiet, undo runs alone and is exact.                *)
(*                                                                         *)
(* None is inductive.  JobsInv says where the jobs are between a start and *)
(* the end of a shutdown, UndoOK what the checkpoint holds of its turn.    *)
(***************************************************************************)
EXTENDS Workspace, SequenceTheorems, WellFoundedInduction, TLAPS

-----------------------------------------------------------------------------
(* What the table does.                                                    *)

\* A set of naturals that is not empty has a least member.
LEMMA LeastIndex ==
  ASSUME NEW T \in SUBSET Nat, T # {}
  PROVE  \E x \in T : \A y \in T : x <= y
<1> DEFINE R == OpToRel(<, Nat)
<1>1. IsWellFoundedOn(R, Nat)
  BY NatLessThanWellFounded
<1>2. \E x \in T : \A y \in T : ~(<<y, x>> \in R)
  <2> HIDE DEF R
  <2> QED BY <1>1, WFMin
<1>3. \A x, y \in Nat : y < x => <<y, x>> \in R
  BY DEF OpToRel
<1>4. \A x, y \in Nat : ~(y < x) => x <= y
  OBVIOUS
<1> HIDE DEF R
<1> QED BY <1>2, <1>3, <1>4

\* The entry taken out of a table is the only one that is missing.
LEMMA RemovedIsGone ==
  ASSUME NEW t \in Seq(JobIds), NEW n \in 1..Len(t)
  PROVE  /\ RemoveAt(t, n) \in Seq(JobIds)
         /\ ToSet(RemoveAt(t, n)) \subseteq ToSet(t)
         /\ ToSet(t) \subseteq ToSet(RemoveAt(t, n)) \union {t[n]}
<1> DEFINE a == SubSeq(t, 1, n - 1)
           b == SubSeq(t, n + 1, Len(t))
           u == a \o b
<1>1. Len(t) \in Nat /\ DOMAIN t = 1..Len(t) /\ \A i \in 1..Len(t) : t[i] \in JobIds
  BY LenProperties, ElementOfSeq
<1>2. a \in Seq(JobIds) /\ Len(a) = n - 1 /\ \A i \in 1..n - 1 : a[i] = t[i]
  <2>1. /\ \A i \in 1..n - 1 : t[i] \in JobIds
        /\ 1 \in Int /\ n - 1 \in Int /\ (n - 1) - 1 + 1 = n - 1
        /\ (IF 1 <= n - 1 THEN (n - 1) - 1 + 1 ELSE 0) = n - 1
        /\ \A i \in 1..n - 1 : 1 + i - 1 = i
    BY <1>1
  <2>2. /\ a \in Seq(JobIds)
        /\ Len(a) = IF 1 <= n - 1 THEN (n - 1) - 1 + 1 ELSE 0
        /\ \A i \in 1..(n - 1) - 1 + 1 : a[i] = t[1 + i - 1]
    BY <2>1, SubSeqProperties
  <2> QED BY <2>1, <2>2
<1>3. b \in Seq(JobIds) /\ Len(b) = Len(t) - n /\ \A i \in 1..Len(t) - n : b[i] = t[n + i]
  <2> DEFINE l == Len(t)
  <2>0. l \in Nat /\ n \in 1..l
    BY <1>1
  <2>1. /\ \A i \in n + 1..l : t[i] \in JobIds
        /\ n + 1 \in Int /\ l \in Int
    BY <1>1
  <2>2. /\ b \in Seq(JobIds)
        /\ Len(b) = IF n + 1 <= l THEN l - (n + 1) + 1 ELSE 0
        /\ \A i \in 1..l - (n + 1) + 1 : b[i] = t[(n + 1) + i - 1]
    BY <2>1, SubSeqProperties
  <2> HIDE DEF l, b
  <2>3. /\ l - (n + 1) + 1 = l - n
        /\ (IF n + 1 <= l THEN l - (n + 1) + 1 ELSE 0) = l - n
        /\ \A i \in 1..l - n : (n + 1) + i - 1 = n + i
    BY <2>0
  <2>4. b \in Seq(JobIds) /\ Len(b) = l - n /\ \A i \in 1..l - n : b[i] = t[n + i]
    BY <2>2, <2>3
  <2> QED BY <2>4 DEF l
<1> HIDE DEF a, b
<1>4. /\ u \in Seq(JobIds) /\ Len(u) = Len(t) - 1 /\ DOMAIN u = 1..Len(t) - 1
      /\ \A i \in 1..Len(t) - 1 : u[i] = IF i <= n - 1 THEN a[i] ELSE b[i - (n - 1)]
  <2>1. Len(a) + Len(b) = Len(t) - 1
    BY <1>1, <1>2, <1>3
  <2>2. /\ u \in Seq(JobIds) /\ Len(u) = Len(a) + Len(b)
        /\ \A i \in 1..Len(a) + Len(b) : u[i] = IF i <= Len(a) THEN a[i] ELSE b[i - Len(a)]
    BY <1>2, <1>3, ConcatProperties
  <2> HIDE DEF u
  <2> QED BY <1>2, <2>1, <2>2, LenProperties
<1> HIDE DEF u
<1>5. ASSUME NEW i \in 1..Len(t), i # n PROVE t[i] \in ToSet(u)
  <2>1. CASE i < n
    <3>1. i \in 1..n - 1 /\ i <= n - 1 /\ i \in 1..Len(t) - 1
      BY <1>1, <2>1
    <3> QED BY <1>2, <1>4, <3>1 DEF ToSet
  <2>2. CASE i > n
    <3>1. /\ i - n \in 1..Len(t) - n /\ i - 1 \in 1..Len(t) - 1 /\ ~(i - 1 <= n - 1)
          /\ (i - 1) - (n - 1) = i - n /\ n + (i - n) = i
      BY <1>1, <2>2
    <3>2. u[i - 1] = t[i]
      BY <1>3, <1>4, <3>1
    <3> QED BY <1>4, <3>1, <3>2 DEF ToSet
  <2> QED BY <1>1, <1>5, <2>1, <2>2
<1>6. ToSet(t) \subseteq ToSet(u) \union {t[n]}
  BY <1>1, <1>5 DEF ToSet
<1>7. ASSUME NEW i \in 1..Len(t) - 1 PROVE u[i] \in ToSet(t)
  <2>1. CASE i <= n - 1
    <3>1. i \in 1..n - 1 /\ i \in 1..Len(t)
      BY <1>1, <2>1
    <3> QED BY <1>1, <1>2, <1>4, <2>1, <3>1 DEF ToSet
  <2>2. CASE ~(i <= n - 1)
    <3>1. i - (n - 1) \in 1..Len(t) - n /\ n + (i - (n - 1)) \in 1..Len(t)
      BY <1>1, <2>2
    <3> QED BY <1>1, <1>3, <1>4, <2>2, <3>1 DEF ToSet
  <2> QED BY <2>1, <2>2
<1>8. ToSet(u) \subseteq ToSet(t)
  BY <1>4, <1>7 DEF ToSet
<1> QED BY <1>4, <1>6, <1>8 DEF RemoveAt, u, a, b

\* Only a job that has ended makes room for another.
LEMMA EvictKeepsActive ==
  ASSUME NEW t \in Seq(JobIds)
  PROVE  /\ Evict(t) \in Seq(JobIds) /\ ToSet(Evict(t)) \subseteq ToSet(t)
         /\ \A j \in ToSet(t) : Active(j) => j \in ToSet(Evict(t))
<1> DEFINE I == {i \in 1..Len(t) : ~Active(t[i])}
           ended == SelectInSeq(t, LAMBDA j : ~Active(j))
<1>1. ended = IF I # {} THEN Min(I) ELSE 0
  BY DEF SelectInSeq
<1>2. ASSUME ended > 0 PROVE ended \in I
  <2>1. I # {}
    BY <1>1, <1>2
  <2>2. I \in SUBSET Nat
    OBVIOUS
  <2>3. \E x \in I : \A y \in I : x <= y
    <3> HIDE DEF I
    <3> QED BY <2>1, <2>2, LeastIndex
  <2>4. Min(I) \in I
    <3> HIDE DEF I
    <3> QED BY <2>3 DEF Min
  <2> QED BY <1>1, <2>1, <2>4
<1> HIDE DEF ended
<1>3. CASE Len(t) >= MaxRetained /\ ended > 0
  <2>1. Evict(t) = RemoveAt(t, ended)
    BY <1>3 DEF Evict, ended
  <2>2. ended \in 1..Len(t) /\ ~Active(t[ended])
    BY <1>2, <1>3
  <2> QED BY <2>1, <2>2, RemovedIsGone
<1>4. CASE ~(Len(t) >= MaxRetained /\ ended > 0)
  BY <1>4 DEF Evict, ended
<1> QED BY <1>3, <1>4

-----------------------------------------------------------------------------
(* The inductive invariant of the jobs.                                    *)

Young(r) == r.phase \in {"queued", "running"}

\* A job has a result when its task has stored one, and then is told of.
ResultAtEnd(r) ==
  /\ r.phase = "finished" <=> r.result # "none"
  /\ r.told # "none" => r.result # "none"

\* No process of its group outlives the select of a command.
GroupRuns ==
  \A j \in JobIds : tree[j] \intersect Group # {} => job[j].phase = "running"

\* Until then it is listed: only what has a result is evicted.
YoungIsListed == \A j \in JobIds : Young(job[j]) => j \in Listed

\* What is listed has been started, and only that is ever joined.
ListedIsStarted ==
  /\ \A j \in Listed : job[j].phase # "unused"
  /\ \A j \in JobIds : job[j].phase = "unused" => ~job[j].joined

\* A cancellation aims at the job it visits, which nobody was told of.
AimIsFresh ==
  aimed # NoJob => /\ cancelling # <<>> /\ aimed = Head(cancelling)
                   /\ job[aimed].told = "none"

\* What shutdown has cancelled, what it joins, and that nothing is left to start.
ClosingInOrder ==
  /\ enabled <=> closing.stage = "open"
  /\ closing.stage = "cancelling" =>
       \A j \in Listed : \/ job[j].cancelled \/ job[j].result # "none"
                         \/ j \in ToSet(cancelling)
  /\ closing.stage = "joining" => \A j \in Listed : job[j].joined
  /\ \A j \in JobIds : job[j].joined /\ ~Ended(j) => job[j].cancelled
  /\ closing.stage = "closed" \/ (closing.stage = "joining" /\ closing.age > 0) =>
       \A j \in JobIds : ~Young(job[j])

\* How much of shutdown's patience a job may have used up.
Spent(r) ==
  CASE r.phase = "reaping" -> r.age
    [] r.phase = "draining stdout" -> ReapLimit + r.age
    [] r.phase = "draining stderr" -> ReapLimit + DrainLimit + r.age
    [] OTHER -> 0

OnTime ==
  /\ \A j \in JobIds : job[j].phase \in Timed => job[j].age <= Limit(job[j].phase)
  /\ closing.stage = "joining" =>
       \A j \in JobIds : job[j].joined /\ ~Ended(j) => closing.age <= Spent(job[j])

JobsInv ==
  /\ \A j \in JobIds : ResultAtEnd(job[j])
  /\ GroupRuns
  /\ YoungIsListed
  /\ ListedIsStarted
  /\ AimIsFresh
  /\ ClosingInOrder
  /\ OnTime
  /\ ToldIsFinal

\* What a job's task may do to its record and to its processes.
TaskMove(j) ==
  \E q \in JobRecords :
    /\ job' = [job EXCEPT ![j] = q]
    /\ q.cancelled = job[j].cancelled /\ q.told = job[j].told /\ q.joined = job[j].joined
    /\ job[j].phase \notin {"unused", "finished"} /\ q.phase # "unused"
    /\ q.phase = "finished" <=> q.result # "none"
    /\ Young(q) => Young(job[j])
    /\ q.phase \in Timed => q.age <= Limit(q.phase)
    /\ q.phase # "finished" => Spent(job[j]) <= Spent(q)
    /\ tree' \in [JobIds -> SUBSET Processes]
    /\ \A k \in JobIds \ {j} : tree'[k] = tree[k]
    /\ tree'[j] \intersect Group # {} => q.phase = "running"
    /\ UNCHANGED <<enabled, table, starting, cancelling, aimed, closing>>

\* The phases a job goes through, and the limits on them.
LEMMA PhaseFacts ==
  /\ Phases = {"unused", "queued", "running", "finished",
               "reaping", "draining stdout", "draining stderr"}
  /\ Timed = {"reaping", "draining stdout", "draining stderr"}
  /\ Limit("reaping") = ReapLimit
  /\ Limit("draining stdout") = DrainLimit /\ Limit("draining stderr") = DrainLimit
  /\ ReapLimit \in Nat /\ DrainLimit \in Nat /\ Patience \in Nat
  /\ NoJob \notin JobIds /\ MaxRunning \in Nat /\ MaxRetained \in Nat
BY JobsAssumption DEF Phases, Timed, Limit

\* How much of the patience each phase stands for.
LEMMA SpentFacts ==
  ASSUME NEW r \in JobRecords
  PROVE  /\ r.age \in Nat /\ Spent(r) \in Nat
         /\ r.phase = "reaping" => Spent(r) = r.age
         /\ r.phase = "draining stdout" => Spent(r) = ReapLimit + r.age
         /\ r.phase = "draining stderr" => Spent(r) = ReapLimit + DrainLimit + r.age
         /\ r.phase \notin Timed => Spent(r) = 0
<1>1. r.age \in Nat /\ r.phase \in Phases
  BY DEF JobRecords
<1> USE PhaseFacts
<1>2. r.phase = "reaping" => Spent(r) = r.age
  BY DEF Spent
<1>3. r.phase = "draining stdout" => Spent(r) = ReapLimit + r.age
  BY DEF Spent
<1>4. r.phase = "draining stderr" => Spent(r) = ReapLimit + DrainLimit + r.age
  BY DEF Spent
<1>5. r.phase \notin Timed => Spent(r) = 0
  BY DEF Spent
<1>6. Spent(r) \in Nat
  <2>1. ReapLimit \in Nat /\ DrainLimit \in Nat
    OBVIOUS
  <2>2. r.phase \in Timed => r.phase \in {"reaping", "draining stdout", "draining stderr"}
    OBVIOUS
  <2> HIDE PhaseFacts
  <2>3. ReapLimit + r.age \in Nat /\ ReapLimit + DrainLimit + r.age \in Nat /\ 0 \in Nat
    BY <1>1, <2>1
  <2> QED BY <1>1, <1>2, <1>3, <1>4, <1>5, <2>2, <2>3
<1> HIDE PhaseFacts
<1> QED BY <1>1, <1>2, <1>3, <1>4, <1>5, <1>6

\* Sums in the order the proofs meet them.
LEMMA Sums ==
  ASSUME NEW a \in Nat, NEW b \in Nat, NEW n \in Nat, NEW m \in Nat
  PROVE  /\ n <= a => n <= a + 0
         /\ n <= b => a + n <= a + b + 0
         /\ 0 <= n
OBVIOUS

\* A task's step is such a move.
LEMMA TaskMoves ==
  ASSUME JobsTypeOK, JobsInv, NEW j \in JobIds, Task(j)
  PROVE  TaskMove(j)
<1> DEFINE r == job[j]
<1>1. /\ r \in JobRecords /\ ResultAtEnd(r) /\ tree \in [JobIds -> SUBSET Processes]
      /\ tree[j] \intersect Group # {} => r.phase = "running"
      /\ r.phase \in Timed => r.age <= Limit(r.phase)
  BY DEF JobsTypeOK, JobsInv, GroupRuns, OnTime
<1> USE PhaseFacts
<1>2. ASSUME NEW q \in JobRecords, Advance(j, q),
             q.cancelled = r.cancelled, q.told = r.told, q.joined = r.joined,
             r.phase \notin {"unused", "finished"}, q.phase # "unused",
             q.phase = "finished" <=> q.result # "none",
             Young(q) => Young(r),
             q.phase \in Timed => q.age <= Limit(q.phase),
             q.phase # "finished" => Spent(r) <= Spent(q),
             tree' \in [JobIds -> SUBSET Processes],
             \A k \in JobIds \ {j} : tree'[k] = tree[k],
             tree'[j] \intersect Group # {} => q.phase = "running"
      PROVE  TaskMove(j)
  BY <1>2 DEF TaskMove, Advance
<1>3. ASSUME NEW e \in JobRecords, NEW ok \in BOOLEAN, Advance(j, End(e, ok)), UNCHANGED tree,
             e.cancelled = r.cancelled, e.told = r.told, e.joined = r.joined,
             r.phase \in {"queued", "draining stderr"}
      PROVE  TaskMove(j)
  <2> DEFINE q == End(e, ok)
  <2>1. /\ q \in JobRecords /\ q.cancelled = r.cancelled /\ q.told = r.told
        /\ q.joined = r.joined /\ q.phase = "finished" /\ q.result # "none"
    BY <1>3 DEF End, Outcomes, JobRecords
  <2>2. tree' = tree /\ tree[j] \intersect Group = {}
    BY <1>1, <1>3
  <2> HIDE DEF q
  <2>3. Advance(j, q)
    BY <1>3 DEF q
  <2> QED BY <1>1, <1>2, <1>3, <2>1, <2>2, <2>3 DEF Young
<1>4. CASE FirstPoll(j)
  <2>1. r.phase = "queued"
    BY <1>4 DEF FirstPoll
  <2>2. CASE Advance(j, End(r, FALSE)) /\ UNCHANGED tree
    BY <1>1, <1>3, <2>1, <2>2
  <2>3. CASE /\ Advance(j, [r EXCEPT !.phase = "running"])
             /\ tree' = [tree EXCEPT ![j] = {"shell"}]
    <3> DEFINE q == [r EXCEPT !.phase = "running"]
    <3>1. /\ q \in JobRecords /\ q.cancelled = r.cancelled /\ q.told = r.told
          /\ q.joined = r.joined /\ q.phase = "running" /\ q.result = r.result
      BY <1>1 DEF JobRecords
    <3>2. /\ tree' \in [JobIds -> SUBSET Processes]
          /\ \A k \in JobIds \ {j} : tree'[k] = tree[k]
      BY <1>1, <2>3 DEF Processes
    <3> HIDE DEF q
    <3>3. Advance(j, q)
      BY <2>3 DEF q
    <3>4. q.phase \notin Timed /\ (q.phase = "finished" <=> q.result # "none")
      BY <1>1, <2>1, <3>1 DEF ResultAtEnd
    <3>5. Spent(r) <= Spent(q)
      <4>1. Spent(r) = 0 /\ Spent(q) = 0
        BY <1>1, <2>1, <3>1, SpentFacts
      <4> HIDE PhaseFacts
      <4>2. 0 <= 0
        OBVIOUS
      <4> QED BY <4>1, <4>2
    <3>6. Young(q) => Young(r)
      BY <2>1 DEF Young
    <3> QED BY <1>2, <2>1, <3>1, <3>2, <3>3, <3>4, <3>5, <3>6
  <2> QED BY <1>4, <2>2, <2>3 DEF FirstPoll
<1>5. ASSUME NEW o \in Outcomes \ {"none"}, Settles(j, o) PROVE TaskMove(j)
  <2> DEFINE next == IF o \in {"cancelled", "timed out"} THEN "reaping" ELSE "draining stdout"
             left_ == "child" \in tree[j]
             q == [r EXCEPT !.phase = next, !.age = 0, !.outcome = o, !.spoilt = left_]
  <2>1. r.phase = "running" /\ Advance(j, q) /\ tree' = [tree EXCEPT ![j] = @ \ Group]
    BY <1>5 DEF Settles
  <2>2. next \in Phases /\ next \in {"reaping", "draining stdout"} /\ left_ \in BOOLEAN
    <3>1. left_ \in BOOLEAN
      <4> HIDE PhaseFacts
      <4>1. \A S : ("child" \in S) \in BOOLEAN
        OBVIOUS
      <4> QED BY <4>1, Zenon
    <3>2. next \in {"reaping", "draining stdout"}
      OBVIOUS
    <3> HIDE DEF next, left_
    <3> QED BY <3>1, <3>2
  <2> HIDE DEF next, left_
  <2>3. /\ q \in JobRecords /\ q.cancelled = r.cancelled /\ q.told = r.told
        /\ q.joined = r.joined /\ q.phase = next /\ q.result = r.result /\ q.age = 0
    BY <1>1, <2>2 DEF JobRecords
  <2>4. /\ tree' \in [JobIds -> SUBSET Processes] /\ tree'[j] \intersect Group = {}
        /\ \A k \in JobIds \ {j} : tree'[k] = tree[k]
    BY <1>1, <2>1
  <2> HIDE DEF q
  <2>5. q.phase \in Timed /\ (q.phase = "finished" <=> q.result # "none")
    BY <1>1, <2>1, <2>2, <2>3 DEF ResultAtEnd
  <2>6. Spent(r) = 0 /\ Spent(q) \in Nat /\ Limit(q.phase) \in Nat
    <3>1. r.phase \notin Timed
      BY <2>1
    <3>2. Limit(q.phase) \in Nat
      BY <2>2, <2>3
    <3> QED BY <1>1, <2>3, <3>1, <3>2, SpentFacts
  <2>7. Spent(r) <= Spent(q) /\ q.age <= Limit(q.phase)
    <3> HIDE PhaseFacts
    <3> QED BY <2>3, <2>6
  <2>8. Young(r)
    BY <2>1 DEF Young
  <2> QED BY <1>2, <2>1, <2>2, <2>3, <2>4, <2>5, <2>7, <2>8
<1>6. CASE Reaped(j)
  <2> DEFINE q == [r EXCEPT !.phase = "draining stdout", !.age = 0]
  <2>1. r.phase = "reaping" /\ Advance(j, q) /\ UNCHANGED tree
    BY <1>6 DEF Reaped
  <2>2. /\ q \in JobRecords /\ q.cancelled = r.cancelled /\ q.told = r.told
        /\ q.joined = r.joined /\ q.phase = "draining stdout"
        /\ q.result = r.result /\ q.age = 0
    BY <1>1 DEF JobRecords
  <2> HIDE DEF q
  <2>3. /\ Spent(r) = r.age /\ r.age <= ReapLimit /\ r.age \in Nat
        /\ Spent(q) = ReapLimit + q.age /\ Limit(q.phase) = DrainLimit
    BY <1>1, <2>1, <2>2, SpentFacts
  <2>4. Spent(r) <= Spent(q) /\ q.age <= Limit(q.phase)
    <3>1. Spent(q) = ReapLimit + 0
      BY <2>2, <2>3
    <3>2. r.age <= ReapLimit + 0
      BY <2>3, Sums
    <3>3. 0 <= DrainLimit
      BY Sums
    <3> QED BY <2>2, <2>3, <3>1, <3>2, <3>3
  <2>5. ~Young(q) /\ (q.phase = "finished" <=> q.result # "none")
    BY <1>1, <2>1, <2>2 DEF Young, ResultAtEnd
  <2>6. tree' = tree /\ tree[j] \intersect Group = {}
    BY <1>1, <2>1
  <2> QED BY <1>1, <1>2, <2>1, <2>2, <2>4, <2>5, <2>6
<1>7. CASE Drained(j)
  <2> DEFINE e == [r EXCEPT !.spoilt = @ \/ tree[j] # {}, !.age = 0]
  <2>1. r.phase \in {"draining stdout", "draining stderr"} /\ UNCHANGED tree
    BY <1>7 DEF Drained
  <2>2. /\ e \in JobRecords /\ e.cancelled = r.cancelled /\ e.told = r.told
        /\ e.joined = r.joined /\ e.phase = r.phase /\ e.result = r.result /\ e.age = 0
    BY <1>1 DEF JobRecords
  <2>3. tree' = tree /\ tree[j] \intersect Group = {}
    BY <1>1, <2>1
  <2>4. \/ e.phase = "draining stdout" /\ Advance(j, [e EXCEPT !.phase = "draining stderr"])
        \/ /\ e.phase # "draining stdout"
           /\ Advance(j, End(e, e.outcome = "succeeded" /\ ~e.spoilt))
    BY <1>7 DEF Drained
  <2> HIDE DEF e
  <2>5. CASE e.phase = "draining stdout" /\ Advance(j, [e EXCEPT !.phase = "draining stderr"])
    <3> DEFINE q == [e EXCEPT !.phase = "draining stderr"]
    <3>1. /\ q \in JobRecords /\ q.cancelled = r.cancelled /\ q.told = r.told
          /\ q.joined = r.joined /\ q.phase = "draining stderr" /\ q.result = r.result
          /\ q.age = 0
      BY <2>2 DEF JobRecords
    <3>2. Advance(j, q)
      BY <2>5
    <3> HIDE DEF q
    <3>3. r.phase = "draining stdout"
      BY <2>2, <2>5
    <3>4. /\ Spent(r) = ReapLimit + r.age /\ r.age <= DrainLimit /\ r.age \in Nat
          /\ Spent(q) = ReapLimit + DrainLimit + q.age /\ Limit(q.phase) = DrainLimit
      BY <1>1, <3>1, <3>3, SpentFacts
    <3>5. Spent(r) <= Spent(q) /\ q.age <= Limit(q.phase)
      <4>1. Spent(q) = ReapLimit + DrainLimit + 0
        BY <3>1, <3>4
      <4>2. ReapLimit + r.age <= ReapLimit + DrainLimit + 0
        BY <3>4, Sums
      <4>3. 0 <= DrainLimit
        BY Sums
      <4> QED BY <3>1, <3>4, <4>1, <4>2, <4>3
    <3>6. ~Young(q) /\ (q.phase = "finished" <=> q.result # "none")
      BY <1>1, <2>1, <3>1 DEF Young, ResultAtEnd
    <3> QED BY <1>1, <1>2, <2>3, <3>1, <3>2, <3>3, <3>5, <3>6
  <2>6. CASE /\ e.phase # "draining stdout"
             /\ Advance(j, End(e, e.outcome = "succeeded" /\ ~e.spoilt))
    <3>1. (e.outcome = "succeeded" /\ ~e.spoilt) \in BOOLEAN
      OBVIOUS
    <3> QED BY <1>3, <2>1, <2>2, <2>6, <3>1
  <2> QED BY <2>4, <2>5, <2>6
<1> QED BY <1>4, <1>5, <1>6, <1>7 DEF Task

-----------------------------------------------------------------------------
(* Every step of a job's life keeps the invariant.                         *)

JobsOK == JobsTypeOK /\ JobsInv

\* A table with one entry more.
LEMMA AppendLists ==
  ASSUME NEW t \in Seq(JobIds), NEW j \in JobIds
  PROVE  Append(t, j) \in Seq(JobIds) /\ ToSet(Append(t, j)) = ToSet(t) \union {j}
<1>1. /\ Append(t, j) \in Seq(JobIds) /\ Len(Append(t, j)) = Len(t) + 1
      /\ \A i \in 1..Len(t) : Append(t, j)[i] = t[i]
      /\ Append(t, j)[Len(t) + 1] = j
  BY AppendProperties
<1>2. /\ Len(t) \in Nat /\ DOMAIN t = 1..Len(t)
      /\ DOMAIN Append(t, j) = 1..Len(t) + 1
  BY <1>1, LenProperties
<1>3. 1..Len(t) + 1 = 1..Len(t) \union {Len(t) + 1} /\ Len(t) + 1 \in 1..Len(t) + 1
  BY <1>2
<1> QED BY <1>1, <1>2, <1>3 DEF ToSet

\* A cancellation's jobs, one after the other.
LEMMA TailLists ==
  ASSUME NEW t \in Seq(JobIds), t # <<>>
  PROVE  /\ Head(t) \in JobIds /\ Tail(t) \in Seq(JobIds)
         /\ ToSet(t) \subseteq ToSet(Tail(t)) \union {Head(t)}
<1>1. /\ Len(t) \in Nat /\ DOMAIN t = 1..Len(t) /\ Len(t) # 0
      /\ Head(t) \in JobIds /\ Head(t) = t[1]
      /\ Tail(t) \in Seq(JobIds) /\ Len(Tail(t)) = Len(t) - 1
      /\ \A i \in 1..Len(Tail(t)) : Tail(t)[i] = t[i + 1]
  BY LenProperties, EmptySeq, HeadTailProperties
<1>2. DOMAIN Tail(t) = 1..Len(t) - 1
  BY <1>1, LenProperties
<1>3. ASSUME NEW i \in 1..Len(t), i # 1 PROVE t[i] \in ToSet(Tail(t))
  <2>1. i - 1 \in 1..Len(t) - 1 /\ (i - 1) + 1 = i
    BY <1>1, <1>3
  <2> QED BY <1>1, <1>2, <2>1 DEF ToSet
<1> QED BY <1>1, <1>3 DEF ToSet

\* Only jobs are listed, and an empty table lists none.
LEMMA TablesList ==
  /\ \A t \in Seq(JobIds) : ToSet(t) \subseteq JobIds
  /\ ToSet(<<>>) = {} /\ <<>> \in Seq(JobIds)
<1>1. ASSUME NEW t \in Seq(JobIds) PROVE ToSet(t) \subseteq JobIds
  <2>1. DOMAIN t = 1..Len(t) /\ \A i \in 1..Len(t) : t[i] \in JobIds
    BY LenProperties, ElementOfSeq
  <2> QED BY <2>1 DEF ToSet
<1>2. ToSet(<<>>) = {} /\ <<>> \in Seq(JobIds)
  <2>1. Len(<<>>) = 0 /\ <<>> \in Seq(JobIds) /\ 1..0 = {}
    OBVIOUS
  <2>2. DOMAIN <<>> = {}
    BY <2>1, LenProperties
  <2> QED BY <2>1, <2>2 DEF ToSet
<1> QED BY <1>1, <1>2

\* A job is active as long as it has no result.
LEMMA StatusFacts ==
  ASSUME NEW r \in JobRecords
  PROVE  /\ Status(r) \in {"running", "cancelling"} <=> r.result = "none"
         /\ Status(r) \in Statuses /\ Status(r) # "none"
<1>1. r.result \in {"none", "ok", "error"} /\ r.cancelled \in BOOLEAN
  BY DEF JobRecords
<1>2. r.result = "none" => Status(r) \in {"running", "cancelling"}
  <2>1. r.result = "none" /\ r.cancelled => Status(r) = "cancelling"
    BY DEF Status
  <2>2. r.result = "none" /\ ~r.cancelled => Status(r) = "running"
    BY DEF Status
  <2> QED BY <1>1, <2>1, <2>2
<1>3. r.result # "none" => Status(r) \in {"cancelled", "failed", "succeeded"}
  BY <1>1 DEF Status
<1> QED BY <1>2, <1>3 DEF Statuses

\* What two records that differ elsewhere have the same status.
LEMMA SameStatus ==
  ASSUME NEW r \in JobRecords, NEW q \in JobRecords,
         q.result = r.result, q.cancelled = r.cancelled
  PROVE  Status(q) = Status(r)
<1>1. r.result \in {"none", "ok", "error"} /\ r.cancelled \in BOOLEAN
  BY DEF JobRecords
<1> QED BY <1>1 DEF Status

\* A task's move.
LEMMA TaskKeeps ==
  ASSUME JobsOK, NEW j \in JobIds, Task(j)
  PROVE  JobsOK'
<1>1. PICK q \in JobRecords :
        /\ job' = [job EXCEPT ![j] = q]
        /\ q.cancelled = job[j].cancelled /\ q.told = job[j].told /\ q.joined = job[j].joined
        /\ job[j].phase \notin {"unused", "finished"} /\ q.phase # "unused"
        /\ q.phase = "finished" <=> q.result # "none"
        /\ Young(q) => Young(job[j])
        /\ q.phase \in Timed => q.age <= Limit(q.phase)
        /\ q.phase # "finished" => Spent(job[j]) <= Spent(q)
        /\ tree' \in [JobIds -> SUBSET Processes]
        /\ \A k \in JobIds \ {j} : tree'[k] = tree[k]
        /\ tree'[j] \intersect Group # {} => q.phase = "running"
        /\ UNCHANGED <<enabled, table, starting, cancelling, aimed, closing>>
  BY TaskMoves DEF JobsOK, TaskMove
<1>2. /\ job'[j] = q /\ \A k \in JobIds \ {j} : job'[k] = job[k]
      /\ job[j] \in JobRecords /\ Listed' = Listed
      /\ job[j].result = "none" /\ job[j].told = "none" /\ q.told = "none"
  BY <1>1 DEF JobsOK, JobsTypeOK, JobsInv, ResultAtEnd, Listed
<1>3. JobsTypeOK'
  BY <1>1 DEF JobsOK, JobsTypeOK
<1>4. (\A k \in JobIds : ResultAtEnd(job[k]))'
  BY <1>1, <1>2 DEF JobsOK, JobsInv, ResultAtEnd
<1>5. GroupRuns'
  BY <1>1, <1>2 DEF JobsOK, JobsInv, GroupRuns
<1>6. YoungIsListed' /\ ListedIsStarted'
  <2>1. Listed \subseteq JobIds
    BY TablesList DEF JobsOK, JobsTypeOK, Listed
  <2> QED BY <1>1, <1>2, <2>1 DEF JobsOK, JobsInv, YoungIsListed, ListedIsStarted
<1>7. AimIsFresh'
  BY <1>1, <1>2 DEF JobsOK, JobsInv, AimIsFresh, JobsTypeOK
<1>8. ClosingInOrder'
  <2> USE <1>1, <1>2 DEF JobsOK, JobsInv, ClosingInOrder, Ended
  <2>1. (enabled <=> closing.stage = "open")'
    OBVIOUS
  <2>2. (closing.stage = "cancelling" =>
           \A k \in Listed : \/ job[k].cancelled \/ job[k].result # "none"
                             \/ k \in ToSet(cancelling))'
    BY TablesList DEF JobsTypeOK, Listed
  <2>3. (closing.stage = "joining" => \A k \in Listed : job[k].joined)'
    BY TablesList DEF JobsTypeOK, Listed
  <2>4. (\A k \in JobIds : job[k].joined /\ ~Ended(k) => job[k].cancelled)'
    OBVIOUS
  <2>5. (closing.stage = "closed" \/ (closing.stage = "joining" /\ closing.age > 0) =>
           \A k \in JobIds : ~Young(job[k]))'
    OBVIOUS
  <2> QED BY <2>1, <2>2, <2>3, <2>4, <2>5
<1>9. OnTime'
  <2>1. (\A k \in JobIds : job[k].phase \in Timed => job[k].age <= Limit(job[k].phase))'
    BY <1>1, <1>2 DEF JobsOK, JobsInv, OnTime
  <2>2. ASSUME closing.stage = "joining", q.joined, q.phase # "finished"
        PROVE  closing.age <= Spent(q)
    <3>1. closing.age <= Spent(job[j]) /\ Spent(job[j]) <= Spent(q)
      BY <1>1, <1>2, <2>2 DEF JobsOK, JobsInv, OnTime, Ended
    <3>2. closing.age \in Nat /\ Spent(job[j]) \in Nat /\ Spent(q) \in Nat
      BY <1>2, SpentFacts DEF JobsOK, JobsTypeOK
    <3> QED BY <3>1, <3>2
  <2>3. (closing.stage = "joining" =>
           \A k \in JobIds : job[k].joined /\ ~Ended(k) => closing.age <= Spent(job[k]))'
    BY <1>1, <1>2, <2>2 DEF JobsOK, JobsInv, OnTime, Ended
  <2> QED BY <2>1, <2>3 DEF OnTime
<1>10. ToldIsFinal'
  BY <1>1, <1>2 DEF JobsOK, JobsInv, ToldIsFinal
<1> QED BY <1>3, <1>4, <1>5, <1>6, <1>7, <1>8, <1>9, <1>10 DEF JobsOK, JobsInv

\* A command forks and exits while its group is there.
LEMMA CommandKeeps ==
  ASSUME JobsOK, NEW j \in JobIds, NEW p \in Processes, Forks(j, p) \/ Exits(j, p)
  PROVE  JobsOK'
<1>1. /\ UNCHANGED <<enabled, table, job, starting, cancelling, aimed, closing>>
      /\ tree' \in [JobIds -> SUBSET Processes]
      /\ \A k \in JobIds : tree'[k] \intersect Group # {} => tree[k] \intersect Group # {}
  BY DEF JobsOK, JobsTypeOK, Forks, Exits
<1>2. JobsTypeOK'
  BY <1>1 DEF JobsOK, JobsTypeOK
<1>3. GroupRuns'
  BY <1>1 DEF JobsOK, JobsInv, GroupRuns
<1>4. /\ (\A k \in JobIds : ResultAtEnd(job[k]))' /\ YoungIsListed' /\ ListedIsStarted' /\ AimIsFresh'
      /\ ToldIsFinal'
  BY <1>1 DEF JobsOK, JobsInv, YoungIsListed, ListedIsStarted, AimIsFresh, ToldIsFinal, Listed
<1>5. ClosingInOrder' /\ OnTime'
  BY <1>1 DEF JobsOK, JobsInv, ClosingInOrder, OnTime, Listed, Ended
<1> QED BY <1>2, <1>3, <1>4, <1>5 DEF JobsOK, JobsInv

\* The two looks at `enabled' that refuse.
LEMMA AskingKeeps ==
  ASSUME JobsOK, StartAsked \/ StartRefused
  PROVE  JobsOK'
<1>1. /\ UNCHANGED <<enabled, table, job, tree, cancelling, aimed, closing>>
      /\ starting' \in BOOLEAN
  BY DEF StartAsked, StartRefused
<1>2. JobsTypeOK'
  BY <1>1 DEF JobsOK, JobsTypeOK
<1>3. /\ (\A k \in JobIds : ResultAtEnd(job[k]))' /\ YoungIsListed' /\ ListedIsStarted' /\ AimIsFresh'
      /\ ToldIsFinal' /\ GroupRuns'
  BY <1>1 DEF JobsOK, JobsInv, YoungIsListed, ListedIsStarted, AimIsFresh, ToldIsFinal, Listed, GroupRuns
<1>4. ClosingInOrder' /\ OnTime'
  BY <1>1 DEF JobsOK, JobsInv, ClosingInOrder, OnTime, Listed, Ended
<1> QED BY <1>2, <1>3, <1>4 DEF JobsOK, JobsInv

\* A start evicts a job that has ended, and never one that runs.
LEMMA StartKeeps ==
  ASSUME JobsOK, Start
  PROVE  JobsOK' /\ closing.stage = "open"
<1>1. PICK j \in Fresh :
        /\ table' = Append(Evict(table), j)
        /\ job' = [job EXCEPT ![j].phase = "queued"]
  <2>1. (CHOOSE j \in Fresh : TRUE) \in Fresh
    BY DEF Start
  <2> QED BY <2>1 DEF Start
<1>2. /\ enabled /\ starting' = FALSE
      /\ UNCHANGED <<enabled, tree, cancelling, aimed, closing>>
      /\ closing.stage = "open"
  BY DEF Start, Refused, JobsOK, JobsInv, ClosingInOrder
<1>3. j \in JobIds /\ job[j].phase = "unused"
  BY <1>1 DEF Fresh
<1> DEFINE q == [job[j] EXCEPT !.phase = "queued"]
<1>4. /\ job \in [JobIds -> JobRecords] /\ job[j] \in JobRecords
      /\ q \in JobRecords /\ q.phase = "queued" /\ q.result = job[j].result
      /\ q.told = job[j].told /\ q.cancelled = job[j].cancelled /\ q.joined = job[j].joined
  BY <1>3, PhaseFacts DEF JobsOK, JobsTypeOK, JobRecords
<1>5. job' = [job EXCEPT ![j] = q] /\ job'[j] = q /\ \A k \in JobIds \ {j} : job'[k] = job[k]
  BY <1>1, <1>3, <1>4
<1> HIDE DEF q
<1>6. job[j].result = "none" /\ job[j].told = "none"
  BY <1>3 DEF JobsOK, JobsInv, ResultAtEnd
<1>7. Evict(table) \in Seq(JobIds) /\ ToSet(Evict(table)) \subseteq Listed
      /\ \A k \in ToSet(table) : Active(k) => k \in ToSet(Evict(table))
  BY EvictKeepsActive DEF JobsOK, JobsTypeOK, Listed
<1>8. table' \in Seq(JobIds) /\ Listed' = ToSet(Evict(table)) \union {j}
  BY <1>1, <1>3, <1>7, AppendLists DEF Listed
<1>9. JobsTypeOK'
  BY <1>2, <1>3, <1>4, <1>5, <1>8 DEF JobsOK, JobsTypeOK
<1>10. (\A k \in JobIds : ResultAtEnd(job[k]))'
  BY <1>3, <1>4, <1>5, <1>6 DEF JobsOK, JobsInv, ResultAtEnd
<1>11. GroupRuns'
  BY <1>2, <1>3, <1>5 DEF JobsOK, JobsInv, GroupRuns
<1>12. YoungIsListed'
  <2>1. ASSUME NEW k \in JobIds \ {j}, Young(job[k]) PROVE k \in ToSet(Evict(table))
    <3>1. k \in ToSet(table) /\ job[k].result = "none" /\ job[k] \in JobRecords
      BY <1>4, <2>1 DEF JobsOK, JobsInv, YoungIsListed, Young, ResultAtEnd, Listed
    <3> QED BY <1>7, <3>1, StatusFacts DEF Active
  <2> QED BY <1>5, <1>8, <2>1 DEF YoungIsListed
<1>17. ListedIsStarted'
  <2>1. Listed \subseteq JobIds
    BY TablesList DEF JobsOK, JobsTypeOK, Listed
  <2> QED BY <1>3, <1>4, <1>5, <1>7, <1>8, <2>1 DEF JobsOK, JobsInv, ListedIsStarted
<1>13. AimIsFresh'
  BY <1>2, <1>4, <1>5, <1>6 DEF JobsOK, JobsInv, AimIsFresh, JobsTypeOK
<1>14. ClosingInOrder'
  <2>1. enabled' = enabled /\ closing' = closing
    BY <1>2
  <2>2. (\A k \in JobIds : job[k].joined /\ ~Ended(k) => job[k].cancelled)'
    <3>1. ~job[j].joined
      BY <1>3 DEF JobsOK, JobsInv, ListedIsStarted
    <3> QED BY <1>3, <1>4, <1>5, <3>1 DEF JobsOK, JobsInv, ClosingInOrder, Ended
  <2> QED BY <1>2, <2>1, <2>2 DEF JobsOK, JobsInv, ClosingInOrder
<1>15. OnTime'
  BY <1>2, <1>3, <1>4, <1>5, PhaseFacts DEF JobsOK, JobsInv, OnTime, Ended
<1>16. ToldIsFinal'
  BY <1>4, <1>5, <1>6 DEF JobsOK, JobsInv, ToldIsFinal
<1> QED BY <1>2, <1>9, <1>10, <1>11, <1>12, <1>13, <1>14, <1>15, <1>16, <1>17
       DEF JobsOK, JobsInv

\* A cancellation goes over its jobs.
LEMMA LookingKeeps ==
  ASSUME JobsOK, CancelLooks \/ \E j \in JobIds : CancelAsked(j)
  PROVE  JobsOK'
<1>0. /\ cancelling \in Seq(JobIds)
      /\ cancelling # <<>> =>
           /\ Head(cancelling) \in JobIds /\ Tail(cancelling) \in Seq(JobIds)
           /\ ToSet(cancelling) \subseteq ToSet(Tail(cancelling)) \union {Head(cancelling)}
  BY TailLists DEF JobsOK, JobsTypeOK
<1>1. UNCHANGED <<enabled, table, job, tree, starting, closing>>
  BY DEF CancelLooks, CancelAsked
<1>2. cancelling' \in Seq(JobIds) /\ aimed' \in JobIds \union {NoJob} /\ AimIsFresh'
  <2>1. CASE CancelLooks
    BY <1>0, <1>1, <2>1 DEF CancelLooks, LockFree, JobsOK, JobsTypeOK, JobsInv, AimIsFresh,
                            ResultAtEnd
  <2>2. ASSUME NEW j \in JobIds, CancelAsked(j)
        PROVE  cancelling' \in Seq(JobIds) /\ aimed' \in JobIds \union {NoJob} /\ AimIsFresh'
    <3>1. aimed = NoJob /\ aimed' = NoJob
      BY <2>2 DEF CancelAsked, LockFree, JobsOK, JobsTypeOK, JobsInv, AimIsFresh
    <3>2. <<j>> \in Seq(JobIds)
      OBVIOUS
    <3> QED BY <2>2, <3>1, <3>2 DEF CancelAsked, AimIsFresh
  <2> QED BY <2>1, <2>2
<1>3. JobsTypeOK'
  BY <1>1, <1>2 DEF JobsOK, JobsTypeOK
<1>4. /\ (\A k \in JobIds : ResultAtEnd(job[k]))' /\ YoungIsListed' /\ ListedIsStarted'
      /\ ToldIsFinal' /\ GroupRuns' /\ OnTime'
  BY <1>1 DEF JobsOK, JobsInv, YoungIsListed, ListedIsStarted, ToldIsFinal, Listed, GroupRuns, OnTime, Ended
<1>5. ClosingInOrder'
  <2>1. (closing.stage = "cancelling" =>
           \A k \in Listed : \/ job[k].cancelled \/ job[k].result # "none"
                             \/ k \in ToSet(cancelling))'
    BY <1>0, <1>1 DEF CancelLooks, CancelAsked, LockFree, JobsOK, JobsInv, ClosingInOrder, Listed
  <2> QED BY <1>1, <2>1 DEF JobsOK, JobsInv, ClosingInOrder, Listed, Ended
<1> QED BY <1>2, <1>3, <1>4, <1>5 DEF JobsOK, JobsInv

\* The job found without a result is cancelled; nobody has been told of it.
LEMMA CancelFiresKeeps ==
  ASSUME JobsOK, CancelFires
  PROVE  JobsOK'
<1>0. /\ cancelling \in Seq(JobIds) /\ cancelling # <<>> /\ aimed = Head(cancelling)
      /\ aimed \in JobIds /\ job[aimed].told = "none"
  BY DEF CancelFires, JobsOK, JobsInv, JobsTypeOK, AimIsFresh
<1>1. /\ Tail(cancelling) \in Seq(JobIds)
      /\ ToSet(cancelling) \subseteq ToSet(Tail(cancelling)) \union {aimed}
  BY <1>0, TailLists
<1> DEFINE q == [job[aimed] EXCEPT !.cancelled = TRUE]
<1>2. /\ job \in [JobIds -> JobRecords] /\ job[aimed] \in JobRecords
      /\ q \in JobRecords /\ q.phase = job[aimed].phase /\ q.result = job[aimed].result
      /\ q.told = "none" /\ q.cancelled /\ q.joined = job[aimed].joined
      /\ q.age = job[aimed].age
  BY <1>0 DEF JobsOK, JobsTypeOK, JobRecords
<1>3. /\ job' = [job EXCEPT ![aimed] = q]
      /\ UNCHANGED <<enabled, table, tree, starting, closing>>
      /\ cancelling' = Tail(cancelling) /\ aimed' = NoJob
  BY <1>0, <1>2 DEF CancelFires
<1> HIDE DEF q
<1>4. /\ job'[aimed] = q /\ \A k \in JobIds \ {aimed} : job'[k] = job[k]
      /\ Listed' = Listed
  BY <1>0, <1>2, <1>3 DEF Listed
<1>5. JobsTypeOK'
  BY <1>0, <1>1, <1>2, <1>3 DEF JobsOK, JobsTypeOK
<1>6. (\A k \in JobIds : ResultAtEnd(job[k]))' /\ ToldIsFinal'
  BY <1>0, <1>2, <1>4 DEF JobsOK, JobsInv, ResultAtEnd, ToldIsFinal
<1>7. GroupRuns' /\ YoungIsListed' /\ ListedIsStarted' /\ AimIsFresh'
  BY <1>0, <1>2, <1>3, <1>4, TablesList DEF JobsTypeOK, Listed, ListedIsStarted, JobsOK, JobsInv, GroupRuns, YoungIsListed, Young, AimIsFresh
<1>8. ClosingInOrder'
  BY <1>0, <1>1, <1>2, <1>3, <1>4, TablesList
     DEF JobsOK, JobsInv, JobsTypeOK, ClosingInOrder, Young, Ended, Listed
<1>9. Spent(q) = Spent(job[aimed])
  BY <1>2, PhaseFacts DEF Spent
<1>10. OnTime'
  BY <1>0, <1>2, <1>3, <1>4, <1>9 DEF JobsOK, JobsInv, OnTime, Ended
<1> QED BY <1>5, <1>6, <1>7, <1>8, <1>10 DEF JobsOK, JobsInv

\* The fields of a job that a cancellation, a notice or a join leaves alone.
SameRun(q, r) == q.phase = r.phase /\ q.age = r.age /\ q.result = r.result

\* Steps that leave every run where it is keep what is said of runs.
LEMMA RunsKept ==
  ASSUME JobsOK, job' \in [JobIds -> JobRecords],
         \A k \in JobIds : SameRun(job'[k], job[k]),
         UNCHANGED <<enabled, tree, starting, closing>>
  PROVE  /\ GroupRuns'
         /\ \A k \in JobIds : /\ Young(job'[k]) <=> Young(job[k])
                              /\ Ended(k)' <=> Ended(k)
                              /\ Spent(job'[k]) = Spent(job[k])
<1>1. GroupRuns'
  BY DEF JobsOK, JobsInv, GroupRuns, SameRun
<1>2. ASSUME NEW k \in JobIds
      PROVE  /\ Young(job'[k]) <=> Young(job[k])
             /\ Ended(k)' <=> Ended(k)
             /\ Spent(job'[k]) = Spent(job[k])
  <2>1. Spent(job'[k]) = Spent(job[k])
    BY <1>2 DEF Spent, SameRun
  <2>2. /\ Young(job'[k]) <=> Young(job[k])
        /\ Ended(k)' <=> Ended(k)
    BY <1>2 DEF Young, Ended, SameRun
  <2> QED BY <2>1, <2>2
<1> QED BY <1>1, <1>2

\* Everybody who has ended and was not told of is told of now.
LEMMA CompletionsKeeps ==
  ASSUME JobsOK, Completions
  PROVE  JobsOK'
<1>1. /\ job \in [JobIds -> JobRecords] /\ Listed \subseteq JobIds
      /\ cancelling = <<>> /\ aimed = NoJob
      /\ UNCHANGED <<enabled, table, tree, starting, cancelling, aimed, closing>>
  BY TablesList DEF JobsOK, JobsTypeOK, Completions, LockFree, JobsInv, AimIsFresh, Listed
<1> DEFINE tells(k) == k \in Listed /\ ~Active(k) /\ job[k].told = "none"
           q(k) == [job[k] EXCEPT !.told = Status(job[k])]
<1>2. ASSUME NEW k \in JobIds
      PROVE  /\ q(k) \in JobRecords /\ SameRun(q(k), job[k])
             /\ q(k).told = Status(job[k]) /\ q(k).cancelled = job[k].cancelled
             /\ q(k).joined = job[k].joined /\ q(k).result = job[k].result
             /\ Status(q(k)) = q(k).told
             /\ tells(k) => job[k].result # "none"
             /\ job[k] \in JobRecords
  <2>1. job[k] \in JobRecords
    BY <1>1
  <2>2. /\ q(k) \in JobRecords /\ SameRun(q(k), job[k])
        /\ q(k).told = Status(job[k]) /\ q(k).cancelled = job[k].cancelled
        /\ q(k).joined = job[k].joined /\ q(k).result = job[k].result
    BY <2>1, StatusFacts DEF JobRecords, SameRun
  <2> HIDE DEF q
  <2> QED BY <2>1, <2>2, SameStatus, StatusFacts DEF Active
<1>3. job' = [k \in JobIds |-> IF tells(k) THEN q(k) ELSE job[k]]
  BY DEF Completions
<1> HIDE DEF tells, q
<1>4. /\ job' \in [JobIds -> JobRecords]
      /\ \A k \in JobIds : /\ SameRun(job'[k], job[k])
                           /\ job'[k].cancelled = job[k].cancelled
                           /\ job'[k].joined = job[k].joined
                           /\ job'[k] = job[k] \/ (tells(k) /\ job'[k] = q(k))
  BY <1>1, <1>2, <1>3 DEF SameRun
<1>5. /\ GroupRuns'
      /\ \A k \in JobIds : /\ Young(job'[k]) <=> Young(job[k])
                           /\ Ended(k)' <=> Ended(k)
                           /\ Spent(job'[k]) = Spent(job[k])
  BY <1>1, <1>4, RunsKept
<1>6. JobsTypeOK'
  BY <1>1, <1>4 DEF JobsOK, JobsTypeOK
<1>7. (\A k \in JobIds : ResultAtEnd(job[k]))' /\ ToldIsFinal'
  BY <1>2, <1>4 DEF JobsOK, JobsInv, ResultAtEnd, ToldIsFinal, SameRun
<1>8. YoungIsListed' /\ ListedIsStarted' /\ AimIsFresh'
  BY <1>1, <1>4, <1>5
     DEF JobsOK, JobsInv, YoungIsListed, ListedIsStarted, AimIsFresh, SameRun, Listed
<1>9. ClosingInOrder'
  BY <1>1, <1>4, <1>5 DEF JobsOK, JobsInv, ClosingInOrder, SameRun, Listed
<1>10. OnTime'
  BY <1>1, <1>4, <1>5 DEF JobsOK, JobsInv, OnTime, SameRun
<1> QED BY <1>5, <1>6, <1>7, <1>8, <1>9, <1>10 DEF JobsOK, JobsInv

\* The next session: nothing young is left to lose from the table.
LEMMA ReopenKeeps ==
  ASSUME JobsOK, Reopen
  PROVE  JobsOK'
<1>1. /\ job \in [JobIds -> JobRecords] /\ Listed \subseteq JobIds
      /\ cancelling = <<>> /\ aimed = NoJob
      /\ enabled' = TRUE /\ table' = <<>> /\ closing' = [stage |-> "open", age |-> 0]
      /\ UNCHANGED <<tree, starting, cancelling, aimed>>
      /\ closing.stage = "closed" /\ Listed' = {}
      /\ \A k \in JobIds : ~Young(job[k])
  BY TablesList DEF JobsOK, JobsTypeOK, Reopen, LockFree, JobsInv, AimIsFresh, Listed,
                    ClosingInOrder
<1> DEFINE drops(k) == k \in Listed /\ job[k].result = "none"
           q(k) == [job[k] EXCEPT !.cancelled = TRUE]
<1>2. ASSUME NEW k \in JobIds
      PROVE  /\ q(k) \in JobRecords /\ SameRun(q(k), job[k])
             /\ q(k).told = job[k].told /\ q(k).cancelled
             /\ q(k).joined = job[k].joined
             /\ drops(k) => job[k].told = "none"
             /\ job[k] \in JobRecords
  <2>1. job[k] \in JobRecords /\ ResultAtEnd(job[k])
    BY <1>1 DEF JobsOK, JobsInv
  <2> QED BY <2>1 DEF JobRecords, SameRun, ResultAtEnd
<1>3. job' = [k \in JobIds |-> IF drops(k) THEN q(k) ELSE job[k]]
  BY DEF Reopen
<1> HIDE DEF drops, q
<1>4. /\ job' \in [JobIds -> JobRecords]
      /\ \A k \in JobIds : /\ SameRun(job'[k], job[k])
                           /\ job'[k].joined = job[k].joined
                           /\ job'[k].told = job[k].told
                           /\ job'[k] = job[k] \/ (job'[k].told = "none" /\ job'[k].cancelled)
  BY <1>1, <1>2, <1>3 DEF SameRun
<1>5. JobsTypeOK'
  BY <1>1, <1>4, TablesList DEF JobsOK, JobsTypeOK, Stages
<1>6. (\A k \in JobIds : ResultAtEnd(job[k]))' /\ ToldIsFinal'
  BY <1>4 DEF JobsOK, JobsInv, ResultAtEnd, ToldIsFinal, SameRun
<1>7. GroupRuns' /\ YoungIsListed' /\ ListedIsStarted' /\ AimIsFresh'
  BY <1>1, <1>4 DEF JobsOK, JobsInv, GroupRuns, YoungIsListed, ListedIsStarted, AimIsFresh,
                    SameRun, Young
<1>8. ClosingInOrder'
  BY <1>1, <1>4 DEF JobsOK, JobsInv, ClosingInOrder, SameRun, Ended
<1>9. OnTime'
  BY <1>1, <1>4 DEF JobsOK, JobsInv, OnTime, SameRun
<1> QED BY <1>5, <1>6, <1>7, <1>8, <1>9 DEF JobsOK, JobsInv

\* Shutdown closes the door, cancels what is listed, and goes when all ended.
LEMMA ShutdownKeeps ==
  ASSUME JobsOK, Shutdown \/ CancelAll \/ Joined \/ CutShort
  PROVE  JobsOK'
<1>1. /\ UNCHANGED <<table, job, tree, starting, aimed>>
      /\ enabled' \in BOOLEAN /\ cancelling' \in Seq(JobIds)
      /\ closing \in [stage: Stages, age: Nat] /\ closing' \in [stage: Stages, age: Nat]
      /\ enabled' <=> closing'.stage = "open"
      /\ closing'.stage = "cancelling" => cancelling' = table
      /\ closing'.stage # "joining" /\ AimIsFresh'
  <2>1. closing \in [stage: Stages, age: Nat]
    BY DEF JobsOK, JobsTypeOK
  <2>2. CASE Shutdown
    BY <2>1, <2>2 DEF Shutdown, Stages, JobsOK, JobsTypeOK, JobsInv, AimIsFresh
  <2>3. CASE CancelAll
    BY <2>1, <2>3 DEF CancelAll, LockFree, Stages, JobsOK, JobsTypeOK, JobsInv, AimIsFresh,
                      ClosingInOrder
  <2>4. CASE Joined
    BY <2>1, <2>4 DEF Joined, Stages, JobsOK, JobsTypeOK, JobsInv, AimIsFresh, ClosingInOrder
  <2>5. CASE CutShort
    BY <2>1, <2>5 DEF CutShort, Stages, JobsOK, JobsTypeOK, JobsInv, AimIsFresh, ClosingInOrder
  <2> QED BY <2>2, <2>3, <2>4, <2>5
<1>2. JobsTypeOK'
  BY <1>1 DEF JobsOK, JobsTypeOK
<1>3. closing'.stage = "closed" => \A k \in JobIds : ~Young(job[k])
  <2>1. CASE Shutdown \/ CancelAll
    BY <1>1, <2>1 DEF Shutdown, CancelAll
  <2>2. CASE Joined
    BY <2>2 DEF Joined, JobsOK, JobsInv, ClosingInOrder, YoungIsListed, Young, Ended
  <2>3. CASE CutShort
    BY <2>3 DEF CutShort, JobsOK, JobsInv, ClosingInOrder
  <2> QED BY <2>1, <2>2, <2>3
<1>4. /\ (\A k \in JobIds : ResultAtEnd(job[k]))' /\ YoungIsListed' /\ ListedIsStarted'
      /\ ToldIsFinal' /\ GroupRuns'
  BY <1>1 DEF JobsOK, JobsInv, YoungIsListed, ListedIsStarted, ToldIsFinal, Listed, GroupRuns
<1>5. ClosingInOrder'
  BY <1>1, <1>3 DEF JobsOK, JobsInv, ClosingInOrder, Listed, Ended
<1>6. OnTime'
  BY <1>1 DEF JobsOK, JobsInv, OnTime
<1> QED BY <1>1, <1>2, <1>4, <1>5, <1>6 DEF JobsOK, JobsInv

\* All it joins is cancelled: the cancellation has visited every listed job.
LEMMA CollectKeeps ==
  ASSUME JobsOK, Collect
  PROVE  JobsOK'
<1>1. /\ job \in [JobIds -> JobRecords] /\ Listed \subseteq JobIds
      /\ cancelling = <<>> /\ aimed = NoJob /\ ToSet(cancelling) = {}
      /\ closing' = [stage |-> "joining", age |-> 0] /\ closing.stage = "cancelling"
      /\ UNCHANGED <<enabled, table, tree, starting, cancelling, aimed>>
  BY TablesList DEF JobsOK, JobsTypeOK, Collect, LockFree, JobsInv, AimIsFresh, Listed
<1> DEFINE q(k) == [job[k] EXCEPT !.joined = TRUE]
<1>2. ASSUME NEW k \in JobIds
      PROVE  /\ q(k) \in JobRecords /\ SameRun(q(k), job[k])
             /\ q(k).told = job[k].told /\ q(k).cancelled = job[k].cancelled
             /\ q(k).joined /\ job[k] \in JobRecords
  <2>1. job[k] \in JobRecords
    BY <1>1
  <2> QED BY <2>1 DEF JobRecords, SameRun
<1>3. job' = [k \in JobIds |-> IF k \in Listed THEN q(k) ELSE job[k]]
  BY DEF Collect
<1> HIDE DEF q
<1>4. /\ job' \in [JobIds -> JobRecords]
      /\ \A k \in JobIds : /\ SameRun(job'[k], job[k])
                           /\ job'[k].told = job[k].told
                           /\ job'[k].cancelled = job[k].cancelled
                           /\ k \in Listed => job'[k].joined
                           /\ k \notin Listed => job'[k] = job[k]
                           /\ job'[k] \in JobRecords /\ job[k] \in JobRecords
                           /\ Status(job'[k]) = Status(job[k])
  BY <1>1, <1>2, <1>3, SameStatus DEF SameRun
<1>5. JobsTypeOK'
  BY <1>1, <1>4 DEF JobsOK, JobsTypeOK, Stages
<1>6. (\A k \in JobIds : ResultAtEnd(job[k]))' /\ ToldIsFinal'
  BY <1>4 DEF JobsOK, JobsInv, ResultAtEnd, ToldIsFinal, SameRun
<1>7. GroupRuns' /\ YoungIsListed' /\ ListedIsStarted' /\ AimIsFresh'
  <2>1. ASSUME NEW k \in JobIds, job'[k].phase = "unused" PROVE ~job'[k].joined
    BY <1>4, <2>1 DEF JobsOK, JobsInv, ListedIsStarted, SameRun
  <2> QED BY <1>1, <1>4, <2>1 DEF JobsOK, JobsInv, GroupRuns, YoungIsListed, ListedIsStarted,
                                  AimIsFresh, SameRun, Young, Listed
<1>8. ClosingInOrder'
  <2>1. ASSUME NEW k \in Listed, ~Ended(k)' PROVE job'[k].cancelled
    BY <1>1, <1>4, <2>1 DEF JobsOK, JobsInv, ClosingInOrder, SameRun, Ended, ResultAtEnd
  <2>2. Listed' = Listed
    BY <1>1 DEF Listed
  <2> QED BY <1>1, <1>4, <2>1, <2>2 DEF JobsOK, JobsInv, ClosingInOrder, SameRun, Ended
<1>9. OnTime'
  <2>1. ASSUME NEW k \in JobIds PROVE 0 <= Spent(job'[k])
    BY <1>4, <2>1, SpentFacts, Sums
  <2> QED BY <1>1, <1>4, <2>1 DEF JobsOK, JobsInv, OnTime, SameRun
<1> QED BY <1>5, <1>6, <1>7, <1>8, <1>9 DEF JobsOK, JobsInv

\* A second passes only when what is ready has been done, so the limits hold,
\* and while shutdown joins it passes only for jobs that are being ended.
LEMMA TickKeeps ==
  ASSUME JobsOK, Tick
  PROVE  JobsOK'
<1>1. /\ job \in [JobIds -> JobRecords] /\ closing \in [stage: Stages, age: Nat]
      /\ UNCHANGED <<enabled, table, tree, starting, cancelling, aimed>>
      /\ closing.stage \in {"open", "joining"}
      /\ closing' = IF closing.stage = "joining"
                    THEN [closing EXCEPT !.age = @ + 1] ELSE closing
      /\ Listed' = Listed
  BY DEF JobsOK, JobsTypeOK, Tick, Listed
<1>2. /\ closing' \in [stage: Stages, age: Nat] /\ closing'.stage = closing.stage
      /\ closing.age \in Nat
      /\ closing.stage = "joining" => closing'.age = closing.age + 1
  BY <1>1
<1> DEFINE q(k) == [job[k] EXCEPT !.age = @ + 1]
           timed(k) == job[k].phase \in Timed
<1>3. ASSUME NEW k \in JobIds
      PROVE  /\ q(k) \in JobRecords /\ q(k).phase = job[k].phase
             /\ q(k).result = job[k].result /\ q(k).told = job[k].told
             /\ q(k).cancelled = job[k].cancelled /\ q(k).joined = job[k].joined
             /\ q(k).age = job[k].age + 1 /\ job[k] \in JobRecords
             /\ Status(q(k)) = Status(job[k])
  <2>1. job[k] \in JobRecords
    BY <1>1
  <2>2. job[k].age \in Nat /\ job[k].age + 1 \in Nat
    BY <2>1 DEF JobRecords
  <2>3. /\ q(k) \in JobRecords /\ q(k).phase = job[k].phase
        /\ q(k).result = job[k].result /\ q(k).told = job[k].told
        /\ q(k).cancelled = job[k].cancelled /\ q(k).joined = job[k].joined
        /\ q(k).age = job[k].age + 1
    BY <2>1, <2>2 DEF JobRecords
  <2> HIDE DEF q
  <2> QED BY <2>1, <2>3, SameStatus
<1>4. job' = [k \in JobIds |-> IF timed(k) THEN q(k) ELSE job[k]]
  BY DEF Tick
<1> HIDE DEF q, timed
<1>5. /\ job' \in [JobIds -> JobRecords]
      /\ \A k \in JobIds : /\ job'[k].phase = job[k].phase
                           /\ job'[k].result = job[k].result
                           /\ job'[k].told = job[k].told
                           /\ job'[k].cancelled = job[k].cancelled
                           /\ job'[k].joined = job[k].joined
                           /\ timed(k) => job'[k] = q(k)
                           /\ ~timed(k) => job'[k] = job[k]
                           /\ Status(job'[k]) = Status(job[k])
  BY <1>1, <1>3, <1>4
<1>6. JobsTypeOK'
  BY <1>1, <1>2, <1>5 DEF JobsOK, JobsTypeOK
<1>7. (\A k \in JobIds : ResultAtEnd(job[k]))' /\ ToldIsFinal'
  BY <1>5 DEF JobsOK, JobsInv, ResultAtEnd, ToldIsFinal
<1>8. GroupRuns' /\ YoungIsListed' /\ ListedIsStarted' /\ AimIsFresh'
  BY <1>1, <1>5, TablesList
     DEF JobsOK, JobsInv, JobsTypeOK, GroupRuns, YoungIsListed, ListedIsStarted, AimIsFresh,
         Young, Listed
<1>9. \A k \in JobIds : Ended(k)' <=> Ended(k)
  BY <1>5 DEF Ended
<1>10. ASSUME NEW k \in JobIds
       PROVE  /\ job[k].phase # "queued" /\ ~(job[k].phase = "running" /\ job[k].cancelled)
              /\ timed(k) => job[k].age < Limit(job[k].phase)
  BY DEF Tick, Prompt, timed
<1>11. ASSUME closing.stage = "joining", NEW k \in JobIds PROVE ~Young(job[k])
  BY <1>10, <1>11 DEF JobsOK, JobsInv, ClosingInOrder, YoungIsListed, Young, Ended
<1>12. ClosingInOrder'
  <2>1. closing'.stage = "joining" => \A k \in JobIds : ~Young(job'[k])
    BY <1>2, <1>5, <1>11 DEF Young
  <2>2. (closing.stage = "joining" => \A k \in Listed : job[k].joined)'
    BY <1>1, <1>2, <1>5, TablesList DEF JobsOK, JobsInv, JobsTypeOK, ClosingInOrder, Listed
  <2> QED BY <1>1, <1>2, <1>5, <1>9, <2>1, <2>2 DEF JobsOK, JobsInv, ClosingInOrder
<1>13. ASSUME NEW k \in JobIds, timed(k)
       PROVE  job'[k].age <= Limit(job'[k].phase) /\ Spent(job'[k]) = Spent(job[k]) + 1
  <2>1. /\ job'[k] = q(k) /\ q(k) \in JobRecords /\ q(k).phase = job[k].phase
        /\ q(k).age = job[k].age + 1 /\ job[k] \in JobRecords
        /\ job[k].age < Limit(job[k].phase)
    BY <1>3, <1>5, <1>10, <1>13
  <2>2. job[k].age \in Nat /\ Limit(job[k].phase) \in Nat
    BY <1>13, <2>1, PhaseFacts DEF JobRecords, timed
  <2>3. job'[k].age <= Limit(job'[k].phase)
    BY <2>1, <2>2
  <2>4. ReapLimit \in Nat /\ DrainLimit \in Nat
    BY PhaseFacts
  <2>5. CASE job[k].phase = "reaping"
    <3>1. Spent(job[k]) = job[k].age /\ Spent(q(k)) = q(k).age
      BY <2>1, <2>5, SpentFacts
    <3> QED BY <2>1, <2>3, <3>1
  <2>6. CASE job[k].phase = "draining stdout"
    <3>1. Spent(job[k]) = ReapLimit + job[k].age /\ Spent(q(k)) = ReapLimit + q(k).age
      BY <2>1, <2>6, SpentFacts
    <3>2. ReapLimit + (job[k].age + 1) = (ReapLimit + job[k].age) + 1
      BY <2>2, <2>4
    <3> QED BY <2>1, <2>3, <3>1, <3>2
  <2>7. CASE job[k].phase = "draining stderr"
    <3>1. /\ Spent(job[k]) = ReapLimit + DrainLimit + job[k].age
          /\ Spent(q(k)) = ReapLimit + DrainLimit + q(k).age
      BY <2>1, <2>7, SpentFacts
    <3>2. ReapLimit + DrainLimit + (job[k].age + 1) = (ReapLimit + DrainLimit + job[k].age) + 1
      BY <2>2, <2>4
    <3> QED BY <2>1, <2>3, <3>1, <3>2
  <2> QED BY <1>13, <2>5, <2>6, <2>7, PhaseFacts DEF timed
<1>14. OnTime'
  <2>1. (\A k \in JobIds : job[k].phase \in Timed => job[k].age <= Limit(job[k].phase))'
    BY <1>5, <1>13 DEF timed
  <2>2. ASSUME closing.stage = "joining", NEW k \in JobIds, job[k].joined, ~Ended(k)
        PROVE  closing'.age <= Spent(job'[k])
    <3>1. timed(k)
      <4>1. job[k].phase \in Phases
        BY <1>3 DEF JobRecords
      <4> QED BY <1>11, <2>2, <4>1, PhaseFacts DEF Young, Ended, timed
    <3>2. closing.age <= Spent(job[k]) /\ closing.age \in Nat /\ Spent(job[k]) \in Nat
      BY <1>2, <1>3, <2>2, SpentFacts DEF JobsOK, JobsInv, OnTime
    <3>3. closing'.age = closing.age + 1 /\ Spent(job'[k]) = Spent(job[k]) + 1
      BY <1>2, <1>13, <2>2, <3>1
    <3> QED BY <3>2, <3>3
  <2> QED BY <1>2, <1>5, <1>9, <2>1, <2>2 DEF OnTime
<1> QED BY <1>6, <1>7, <1>8, <1>12, <1>14 DEF JobsOK, JobsInv

-----------------------------------------------------------------------------
(* The jobs of every behaviour.                                            *)

\* What a step of the workspace does to the jobs.
JobsNext ==
  \/ StartAsked \/ StartRefused \/ Start
  \/ CancelLooks \/ CancelFires \/ (\E j \in JobIds : CancelAsked(j))
  \/ Completions \/ Reopen
  \/ Shutdown \/ CancelAll \/ Collect \/ Joined \/ CutShort \/ Tick
  \/ \E j \in JobIds : Task(j) \/ \E p \in Processes : Forks(j, p) \/ Exits(j, p)

LEMMA WorkspaceMovesJobs ==
  ASSUME [Next]_vars
  PROVE  JobsNext \/ UNCHANGED jobVars
<1>1. CASE BeginTurn \/ EndTurn \/ UndoTurn \/ UndoStep \/ EditFile
  BY <1>1 DEF BeginTurn, EndTurn, UndoTurn, UndoStep, EditFile
<1>2. CASE AskForJob \/ CancelJob
  BY <1>2 DEF AskForJob, CancelJob, JobsNext
<1>3. CASE CloseSession \/ OpenSession
  BY <1>3 DEF CloseSession, OpenSession, JobsNext
<1>4. CASE JobStep
  BY <1>4 DEF JobStep, Manager, JobsNext
<1>5. CASE CommandForks \/ CommandExits
  BY <1>5 DEF CommandForks, CommandExits, JobsNext, Processes
<1>6. CASE UNCHANGED vars
  BY <1>6 DEF vars
<1> QED BY <1>1, <1>2, <1>3, <1>4, <1>5, <1>6 DEF Next

LEMMA JobsStart ==
  ASSUME JobsInit
  PROVE  JobsOK
<1>1. Unused \in JobRecords /\ \A j \in JobIds : job[j] = Unused
  BY DEF JobsInit, Unused, JobRecords, Phases, Outcomes, Statuses
<1>2. JobsTypeOK
  BY <1>1, TablesList DEF JobsInit, JobsTypeOK, Stages
<1>3. Listed = {} /\ closing.stage = "open" /\ enabled /\ aimed = NoJob
  BY TablesList DEF JobsInit, Listed
<1>4. (\A j \in JobIds : ResultAtEnd(job[j])) /\ ToldIsFinal
  BY <1>1 DEF Unused, ResultAtEnd, ToldIsFinal
<1>5. GroupRuns /\ YoungIsListed /\ ListedIsStarted /\ AimIsFresh
  BY <1>1, <1>3 DEF Unused, GroupRuns, YoungIsListed, ListedIsStarted, AimIsFresh, Young,
                    JobsInit
<1>6. ClosingInOrder /\ OnTime
  <2>1. \A j \in JobIds : ~job[j].joined /\ job[j].phase \notin Timed
    <3>1. ~Unused.joined /\ Unused.phase = "unused"
      BY DEF Unused
    <3>2. "unused" \notin Timed
      BY DEF Timed
    <3> HIDE DEF Unused
    <3> QED BY <1>1, <3>1, <3>2
  <2>2. enabled <=> closing.stage = "open"
    BY <1>3
  <2>3. closing.stage \notin {"cancelling", "joining", "closed"}
    BY <1>3
  <2> QED BY <2>1, <2>2, <2>3 DEF ClosingInOrder, OnTime
<1> QED BY <1>2, <1>4, <1>5, <1>6 DEF JobsOK, JobsInv

LEMMA JobsKept ==
  ASSUME JobsOK, [Next]_vars
  PROVE  JobsOK'
<1>1. CASE JobsNext
  BY <1>1, AskingKeeps, StartKeeps, LookingKeeps, CancelFiresKeeps, CompletionsKeeps,
     ReopenKeeps, ShutdownKeeps, CollectKeeps, TickKeeps, TaskKeeps, CommandKeeps DEF JobsNext
<1>2. CASE UNCHANGED jobVars
  <2>1. UNCHANGED <<enabled, table, job, tree, starting, cancelling, aimed, closing>>
    BY <1>2 DEF jobVars
  <2>2. JobsTypeOK'
    BY <2>1 DEF JobsOK, JobsTypeOK
  <2>3. /\ (\A k \in JobIds : ResultAtEnd(job[k]))' /\ YoungIsListed' /\ ListedIsStarted'
        /\ AimIsFresh' /\ ToldIsFinal' /\ GroupRuns'
    BY <2>1 DEF JobsOK, JobsInv, YoungIsListed, ListedIsStarted, AimIsFresh, ToldIsFinal,
                Listed, GroupRuns
  <2>4. ClosingInOrder' /\ OnTime'
    BY <2>1 DEF JobsOK, JobsInv, ClosingInOrder, OnTime, Listed, Ended
  <2> QED BY <2>2, <2>3, <2>4 DEF JobsOK, JobsInv
<1> QED BY <1>1, <1>2, WorkspaceMovesJobs

\* The state of the jobs is of its types, and in the order JobsInv says.
THEOREM JobsInOrder == Spec => []JobsOK
<1>1. Init => JobsOK
  BY JobsStart DEF Init
<1>2. JobsOK /\ [Next]_vars => JobsOK'
  BY JobsKept
<1> QED BY <1>1, <1>2, PTL DEF Spec

\* No job's notice is ever contradicted by the list, however late it is
\* cancelled: jobs.rs cancels what it found without a result.
THEOREM NoticesAreFinal == Spec => []ToldIsFinal
<1>1. JobsOK => ToldIsFinal
  BY DEF JobsOK, JobsInv
<1> QED BY <1>1, JobsInOrder, PTL

\* A command nobody has cancelled is in the list, for any MAX_RETAINED and any
\* number of sessions.
THEOREM CommandsAreListed == Spec => []RunningIsListed
<1>1. JobsOK => RunningIsListed
  BY DEF JobsOK, JobsInv, GroupRuns, YoungIsListed, Young, RunningIsListed
<1> QED BY <1>1, JobsInOrder, PTL

\* Shutdown's patience is never used up, and it leaves no process of a group.
THEOREM ShutdownIsQuiet == Spec => []ClosedIsQuiet
<1>1. JobsOK => ClosedIsQuiet
  <2> SUFFICES ASSUME JobsOK PROVE ClosedIsQuiet
    OBVIOUS
  <2>1. ASSUME closing.stage = "joining", NEW j \in JobIds, job[j].joined, ~Ended(j)
        PROVE  ~(closing.age >= Patience)
    <3>1. closing.age <= Spent(job[j]) /\ closing.age \in Nat /\ job[j] \in JobRecords
      BY <2>1 DEF JobsOK, JobsTypeOK, JobsInv, OnTime
    <3>2. job[j].phase \in Timed => job[j].age <= Limit(job[j].phase)
      BY DEF JobsOK, JobsInv, OnTime
    <3>3. Spent(job[j]) \in Nat /\ Spent(job[j]) <= ReapLimit + DrainLimit + DrainLimit
      <4>0. /\ ReapLimit \in Nat /\ DrainLimit \in Nat /\ job[j].age \in Nat
            /\ job[j].phase \in Phases
        BY <3>1, PhaseFacts DEF JobRecords
      <4>1. CASE job[j].phase = "reaping"
        <5>1. Spent(job[j]) = job[j].age /\ job[j].age <= ReapLimit
          BY <3>1, <3>2, <4>1, SpentFacts, PhaseFacts
        <5> QED BY <4>0, <5>1
      <4>2. CASE job[j].phase = "draining stdout"
        <5>1. Spent(job[j]) = ReapLimit + job[j].age /\ job[j].age <= DrainLimit
          BY <3>1, <3>2, <4>2, SpentFacts, PhaseFacts
        <5> QED BY <4>0, <5>1
      <4>3. CASE job[j].phase = "draining stderr"
        <5>1. Spent(job[j]) = ReapLimit + DrainLimit + job[j].age /\ job[j].age <= DrainLimit
          BY <3>1, <3>2, <4>3, SpentFacts, PhaseFacts
        <5> QED BY <4>0, <5>1
      <4>4. CASE job[j].phase \notin Timed
        <5>1. Spent(job[j]) = 0
          BY <3>1, <4>4, SpentFacts
        <5> QED BY <4>0, <5>1
      <4> QED BY <4>1, <4>2, <4>3, <4>4, PhaseFacts
    <3>4. ReapLimit \in Nat /\ DrainLimit \in Nat /\ Patience \in Nat
      BY PhaseFacts
    <3> QED BY <3>1, <3>3, <3>4, PatienceAssumption
  <2>2. ~AbortDue
    BY <2>1 DEF AbortDue
  <2>3. closing.stage = "closed" => \A j \in JobIds : tree[j] \intersect Group = {}
    BY DEF JobsOK, JobsInv, ClosingInOrder, GroupRuns, Young
  <2> QED BY <2>2, <2>3 DEF ClosedIsQuiet
<1> QED BY <1>1, JobsInOrder, PTL

-----------------------------------------------------------------------------
(* Undo runs alone.                                                        *)

\* A job gets young by a start, and nobody has asked for one.
LEMMA NobodyGetsYoung ==
  ASSUME JobsOK, [Next]_vars, ~starting, NEW k \in JobIds, Young(job'[k])
  PROVE  Young(job[k])
<1>0. job \in [JobIds -> JobRecords]
  BY DEF JobsOK, JobsTypeOK
<1>1. CASE \E j \in JobIds : Task(j)
  <2>1. PICK j \in JobIds : Task(j)
    BY <1>1
  <2>2. TaskMove(j)
    BY <2>1, TaskMoves DEF JobsOK
  <2>3. PICK q \in JobRecords : job' = [job EXCEPT ![j] = q] /\ (Young(q) => Young(job[j]))
    BY <2>2 DEF TaskMove
  <2> QED BY <1>0, <2>3
<1>2. CASE UNCHANGED job
  BY <1>2
<1>3. CASE CancelFires
  <2>1. job'[k].phase = job[k].phase
    BY <1>0, <1>3 DEF CancelFires, JobRecords
  <2> QED BY <2>1 DEF Young
<1>4. CASE Completions
  <2>1. job'[k].phase = job[k].phase
    BY <1>0, <1>4 DEF Completions, JobRecords
  <2> QED BY <2>1 DEF Young
<1>5. CASE Reopen
  <2>1. job'[k].phase = job[k].phase
    BY <1>0, <1>5 DEF Reopen, JobRecords
  <2> QED BY <2>1 DEF Young
<1>6. CASE Collect
  <2>1. job'[k].phase = job[k].phase
    BY <1>0, <1>6 DEF Collect, JobRecords
  <2> QED BY <2>1 DEF Young
<1>7. CASE Tick
  <2>1. job'[k].phase = job[k].phase
    BY <1>0, <1>7 DEF Tick, JobRecords
  <2> QED BY <2>1 DEF Young
<1>8. \/ \E j \in JobIds : Task(j)
      \/ UNCHANGED job
      \/ CancelFires \/ Completions \/ Reopen \/ Collect \/ Tick
  <2>1. CASE JobsNext
    BY <2>1 DEF JobsNext, StartAsked, StartRefused, Start, CancelLooks, CancelAsked, Shutdown,
                CancelAll, Joined, CutShort, Forks, Exits
  <2>2. CASE UNCHANGED jobVars
    BY <2>2 DEF jobVars
  <2> QED BY <2>1, <2>2, WorkspaceMovesJobs
<1> QED BY <1>1, <1>2, <1>3, <1>4, <1>5, <1>6, <1>7, <1>8

\* While a session is open it is closed by nothing but CloseSession.
LEMMA OpenStaysOpen ==
  ASSUME JobsOK, JobStep \/ AskForJob \/ CancelJob \/ CommandForks \/ CommandExits, Open
  PROVE  Open'
<1>0. closing \in [stage: Stages, age: Nat]
  BY DEF JobsOK, JobsTypeOK
<1>1. CASE AskForJob \/ CancelJob \/ CommandForks \/ CommandExits
  BY <1>1 DEF AskForJob, StartAsked, CancelJob, CancelAsked, CommandForks, Forks,
              CommandExits, Exits, Open
<1>2. CASE Manager
  BY <1>0, <1>2 DEF Manager, StartRefused, Start, CancelLooks, CancelFires, Completions,
                    CancelAll, Collect, Joined, CutShort, Open
<1>3. CASE Tick
  BY <1>0, <1>3 DEF Tick, Open
<1>4. CASE \E j \in JobIds : Task(j)
  <2>1. closing' = closing
    BY <1>4 DEF Task, FirstPoll, Reaped, Drained, Settles, Advance
  <2> QED BY <2>1 DEF Open
<1> QED BY <1>1, <1>2, <1>3, <1>4 DEF JobStep

\* Only the tool of a turn asks for a job.
LEMMA TurnsAsk ==
  ASSUME [Next]_vars, ~turn, ~starting
  PROVE  ~starting'
<1>1. CASE JobStep
  <2>1. CASE Manager
    BY <2>1 DEF Manager, StartRefused, Start, CancelLooks, CancelFires, Completions,
                CancelAll, Collect, Joined, CutShort
  <2>2. CASE Tick
    BY <2>2 DEF Tick
  <2>3. CASE \E j \in JobIds : Task(j)
    BY <2>3 DEF Task, FirstPoll, Reaped, Drained, Settles, Advance
  <2> QED BY <1>1, <2>1, <2>2, <2>3 DEF JobStep
<1>2. CASE BeginTurn \/ EndTurn \/ UndoTurn \/ UndoStep \/ EditFile \/ UNCHANGED vars
  BY <1>2 DEF BeginTurn, EndTurn, UndoTurn, UndoStep, EditFile, vars, jobVars
<1>3. CASE CancelJob \/ CloseSession \/ OpenSession \/ CommandForks \/ CommandExits
  BY <1>3 DEF CancelJob, CancelAsked, CloseSession, Shutdown, OpenSession, Reopen,
              CommandForks, Forks, CommandExits, Exits
<1>4. CASE AskForJob
  BY <1>4 DEF AskForJob
<1> QED BY <1>1, <1>2, <1>3, <1>4 DEF Next

-----------------------------------------------------------------------------
(* The checkpoint of a turn.                                               *)

\* What the checkpoint's constants are.
LEMMA CheckpointFacts ==
  /\ Absent \in States /\ NoFile \notin Files /\ IgnoreFile \in Files
  /\ Tracked \subseteq Files
  /\ Hides \in [States -> SUBSET Files] /\ WorkTrees \subseteq [Files -> States]
BY CheckpointAssumption DEF States

\* What nothing was captured of, and what nothing was changed in.
LEMMA EmptyMaps ==
  /\ <<>> \in Snapshots /\ <<>> \in Changes
  /\ NoSnapshot \in [kept: BOOLEAN, files: Snapshots] /\ ~NoSnapshot.kept
  /\ NoChanges \in [kept: BOOLEAN, files: Changes, restored: SUBSET Files]
  /\ ~NoChanges.kept
<1>1. <<>> \in Snapshots /\ <<>> \in Changes
  <2>1. \A S : <<>> \in [{} -> S]
    OBVIOUS
  <2>2. {} \in SUBSET Files
    OBVIOUS
  <2> QED BY <2>1, <2>2 DEF Snapshots, Changes
<1> QED BY <1>1 DEF NoSnapshot, NoChanges

\* A snapshot of what Git lists.
LEMMA SnapshotsAreMaps ==
  ASSUME NEW d \in [Files -> States]
  PROVE  /\ GitPaths(d) \subseteq Files
         /\ SnapshotPaths(d, GitPaths(d)) \in Snapshots
<1>1. GitPaths(d) \subseteq Files
  BY CheckpointFacts DEF GitPaths
<1> DEFINE G == GitPaths(d)
<1>2. SnapshotPaths(d, G) \in [G -> States]
  <2> HIDE DEF G
  <2> QED BY <1>1 DEF SnapshotPaths, G
<1> QED BY <1>1, <1>2 DEF Snapshots

\* The changes since a snapshot: each with what the file was and what it is.
LEMMA ChangesAreMaps ==
  ASSUME NEW s \in Snapshots, NEW d \in [Files -> States]
  PROVE  /\ ChangesSince(s, d) \in Changes
         /\ \A f \in DOMAIN ChangesSince(s, d) :
              /\ f \in Files
              /\ ChangesSince(s, d)[f] =
                   <<IF f \in DOMAIN s THEN s[f] ELSE Absent, d[f]>>
<1> DEFINE paths == DOMAIN s \union GitPaths(d)
           was(f) == IF f \in DOMAIN s THEN s[f] ELSE Absent
           changed == {f \in paths : was(f) # d[f]}
<1>1. ChangesSince(s, d) = [f \in changed |-> <<was(f), d[f]>>]
  BY DEF ChangesSince
<1>2. PICK S \in SUBSET Files : s \in [S -> States]
  BY DEF Snapshots
<1>3. changed \in SUBSET Files /\ \A f \in changed : was(f) \in States /\ d[f] \in States
  BY <1>2, SnapshotsAreMaps, CheckpointFacts
<1> HIDE DEF changed
<1>4. ChangesSince(s, d) \in [changed -> States \X States]
  BY <1>1, <1>3
<1> QED BY <1>1, <1>3, <1>4 DEF Changes

\* Undo runs in an open session with no turn, no start and no command at work.
UndoIsQuiet ==
  /\ last.kept => ~turn /\ ~starting
  /\ Undoing => last.kept /\ Open /\ \A j \in JobIds : ~Young(job[j])

\* What the checkpoint holds is of the last turn of the conversation at hand.
HoldsItsTurn ==
  /\ pending.kept => /\ ofSession = session
                     /\ pending.files = SnapshotPaths(atStart, GitPaths(atStart))
  /\ last.kept => /\ ofSession = session
                  /\ last.files = ChangesSince(SnapshotPaths(atStart, GitPaths(atStart)), atEnd)

\* The file undo has just read again is as the turn left it, unless raced.
UndoInPlace ==
  /\ undo.todo \subseteq DOMAIN last.files
  /\ undo.next # NoFile =>
       undo.next \in undo.todo /\ (disk[undo.next] = last.files[undo.next][2] \/ undo.raced)

UndoOK == CheckpointTypeOK /\ UndoIsQuiet /\ HoldsItsTurn /\ UndoInPlace

LEMMA UndoStart ==
  ASSUME Init
  PROVE  UndoOK
<1>1. /\ disk \in [Files -> States] /\ atStart = disk /\ atEnd = disk
      /\ pending = NoSnapshot /\ last = NoChanges /\ undo = Idle /\ session = 0 /\ ofSession = 0
  BY CheckpointFacts DEF Init, CheckpointInit
<1>2. Idle \in [todo: SUBSET Files, next: Files \union {NoFile}, raced: BOOLEAN]
      /\ Idle.todo = {} /\ Idle.next = NoFile
  BY DEF Idle
<1>3. CheckpointTypeOK
  BY <1>1, <1>2, EmptyMaps DEF CheckpointTypeOK
<1> QED BY <1>1, <1>2, <1>3, EmptyMaps
        DEF UndoOK, UndoIsQuiet, HoldsItsTurn, UndoInPlace, Undoing

\* A turn begins: what can be undone is forgotten, what is there is captured.
LEMMA BeginKeeps ==
  ASSUME UndoOK, BeginTurn
  PROVE  UndoOK'
<1>1. /\ ~Undoing /\ last' = NoChanges /\ undo' = undo /\ atStart' = disk /\ disk' = disk
      /\ session' = session /\ ofSession' = session /\ atEnd' = atEnd
      /\ \/ pending' = [kept |-> TRUE, files |-> SnapshotPaths(disk, GitPaths(disk))]
         \/ pending' = NoSnapshot
  BY DEF BeginTurn, Begin
<1>2. /\ disk \in [Files -> States] /\ undo.todo = {} /\ ~last'.kept
      /\ undo.next = NoFile
  BY <1>1, EmptyMaps DEF UndoOK, CheckpointTypeOK, Undoing, UndoInPlace
<1>3. /\ pending' \in [kept: BOOLEAN, files: Snapshots]
      /\ pending'.kept => pending'.files = SnapshotPaths(disk, GitPaths(disk))
  <2> DEFINE s == SnapshotPaths(disk, GitPaths(disk))
  <2>1. s \in Snapshots
    BY <1>2, SnapshotsAreMaps
  <2> HIDE DEF s
  <2>2. pending' = [kept |-> TRUE, files |-> s] \/ pending' = NoSnapshot
    BY <1>1 DEF s
  <2>3. CASE pending' = [kept |-> TRUE, files |-> s]
    <3>1. pending' \in [kept: BOOLEAN, files: Snapshots] /\ pending'.files = s
      BY <2>1, <2>3
    <3> QED BY <3>1 DEF s
  <2> QED BY <2>2, <2>3, EmptyMaps
<1>4. CheckpointTypeOK'
  BY <1>1, <1>3, EmptyMaps DEF UndoOK, CheckpointTypeOK
<1>5. UndoIsQuiet' /\ UndoInPlace'
  BY <1>1, <1>2 DEF UndoIsQuiet, UndoInPlace, Undoing
<1>6. HoldsItsTurn'
  <2>1. SnapshotPaths(atStart, GitPaths(atStart))' = SnapshotPaths(disk, GitPaths(disk))
    BY <1>1 DEF SnapshotPaths, GitPaths
  <2> QED BY <1>1, <1>2, <1>3, <2>1 DEF HoldsItsTurn
<1> QED BY <1>4, <1>5, <1>6 DEF UndoOK

\* The snapshot of the turn's start, when the start is still remembered.
LEMMA SameStart ==
  ASSUME atStart' = atStart
  PROVE  SnapshotPaths(atStart, GitPaths(atStart))' = SnapshotPaths(atStart, GitPaths(atStart))
BY DEF SnapshotPaths, GitPaths

\* A turn ends: what it changed can be undone.
LEMMA EndKeeps ==
  ASSUME UndoOK, EndTurn
  PROVE  UndoOK'
<1>1. /\ turn /\ ~starting /\ turn' = FALSE /\ starting' = starting
      /\ pending' = NoSnapshot /\ atEnd' = disk
      /\ UNCHANGED <<disk, undo, session, atStart, ofSession>>
      /\ \/ /\ pending.kept
            /\ last' = [kept |-> TRUE, files |-> ChangesSince(pending.files, disk),
                        restored |-> {}]
         \/ last' = last
  BY DEF EndTurn, Finish, jobVars
<1>2. /\ ~last.kept /\ ~Undoing /\ undo.todo = {} /\ undo.next = NoFile
      /\ disk \in [Files -> States]
  BY <1>1 DEF UndoOK, UndoIsQuiet, Undoing, UndoInPlace, CheckpointTypeOK
<1>3. ASSUME pending.kept
      PROVE  /\ pending.files \in Snapshots /\ ofSession = session
             /\ pending.files = SnapshotPaths(atStart, GitPaths(atStart))
             /\ ChangesSince(pending.files, disk) \in Changes
  BY <1>2, <1>3, ChangesAreMaps DEF UndoOK, HoldsItsTurn, CheckpointTypeOK
<1>4. /\ last' \in [kept: BOOLEAN, files: Changes, restored: SUBSET Files]
      /\ last'.kept => pending.kept /\ last'.files = ChangesSince(pending.files, disk)
  <2> DEFINE c == ChangesSince(pending.files, disk)
  <2>1. pending.kept => c \in Changes
    BY <1>3
  <2> HIDE DEF c
  <2>2. CASE pending.kept /\ last' = [kept |-> TRUE, files |-> c, restored |-> {}]
    <3>1. /\ last' \in [kept: BOOLEAN, files: Changes, restored: SUBSET Files]
          /\ last'.files = c
      BY <2>1, <2>2
    <3> QED BY <2>2, <3>1 DEF c
  <2>3. CASE last' = last
    BY <1>2, <2>3 DEF UndoOK, CheckpointTypeOK
  <2> QED BY <1>1, <2>2, <2>3 DEF c
<1>5. CheckpointTypeOK'
  BY <1>1, <1>4, EmptyMaps DEF UndoOK, CheckpointTypeOK
<1>6. UndoIsQuiet' /\ UndoInPlace'
  BY <1>1, <1>2 DEF UndoIsQuiet, UndoInPlace, Undoing
<1>7. HoldsItsTurn'
  <2>1. ASSUME last'.kept
        PROVE  last'.files = ChangesSince(SnapshotPaths(atStart', GitPaths(atStart')), atEnd')
    <3>1. pending.kept /\ last'.files = ChangesSince(pending.files, disk)
      BY <1>4, <2>1
    <3>2. pending.files = SnapshotPaths(atStart, GitPaths(atStart))
      BY <1>3, <3>1
    <3> QED BY <1>1, <3>1, <3>2
  <2>2. ~pending'.kept
    BY <1>1, EmptyMaps
  <2>3. last'.kept => ofSession' = session'
    BY <1>1, <1>3, <1>4
  <2>4. (last.kept => /\ ofSession = session
                      /\ last.files = ChangesSince(SnapshotPaths(atStart, GitPaths(atStart)), atEnd))'
    <3>1. /\ ChangesSince(SnapshotPaths(atStart, GitPaths(atStart)), atEnd)'
             = ChangesSince(SnapshotPaths(atStart', GitPaths(atStart')), atEnd')
      BY DEF ChangesSince, SnapshotPaths, GitPaths
    <3> QED BY <2>1, <2>3, <3>1
  <2> QED BY <2>2, <2>4 DEF HoldsItsTurn
<1> QED BY <1>5, <1>6, <1>7 DEF UndoOK

\* Another conversation has nothing to undo.
LEMMA OpenSessionKeeps ==
  ASSUME UndoOK, OpenSession
  PROVE  UndoOK'
<1>1. /\ ~Open /\ pending' = NoSnapshot /\ last' = NoChanges /\ session' = session + 1
      /\ UNCHANGED <<disk, undo, atStart, atEnd, ofSession>>
  BY DEF OpenSession, Reopen, SetMessages, Open
<1>2. undo.todo = {} /\ undo.next = NoFile /\ ~last'.kept /\ ~pending'.kept
  BY <1>1, EmptyMaps DEF UndoOK, UndoIsQuiet, Undoing, UndoInPlace
<1>3. CheckpointTypeOK'
  BY <1>1, EmptyMaps DEF UndoOK, CheckpointTypeOK
<1> QED BY <1>1, <1>2, <1>3 DEF UndoOK, UndoIsQuiet, HoldsItsTurn, UndoInPlace, Undoing

\* What jobs do leaves the checkpoint alone, and nothing young comes up beside undo.
LEMMA JobsLeaveUndo ==
  ASSUME JobsOK, UndoOK, [Next]_vars, UNCHANGED <<checkpointVars, turn>>,
         Undoing /\ Open => Open'
  PROVE  UndoOK'
<1>1. UNCHANGED <<disk, pending, last, undo, session, atStart, atEnd, ofSession, turn>>
  BY DEF checkpointVars
<1>2. CheckpointTypeOK' /\ UndoInPlace'
  BY <1>1 DEF UndoOK, CheckpointTypeOK, UndoInPlace
<1>3. HoldsItsTurn'
  BY <1>1 DEF UndoOK, HoldsItsTurn, ChangesSince, SnapshotPaths, GitPaths
<1>4. UndoIsQuiet'
  <2>1. last.kept => ~starting'
    BY TurnsAsk DEF UndoOK, UndoIsQuiet
  <2>2. ASSUME Undoing PROVE \A j \in JobIds : ~Young(job'[j])
    BY <2>2, NobodyGetsYoung DEF UndoOK, UndoIsQuiet
  <2> QED BY <1>1, <2>1, <2>2 DEF UndoOK, UndoIsQuiet, Undoing
<1> QED BY <1>2, <1>3, <1>4 DEF UndoOK

\* The verification pass: every change of the turn is to be restored.
LEMMA VerifiedKeeps ==
  ASSUME JobsOK, UndoOK, UndoTurn
  PROVE  UndoOK'
<1>1. /\ Open /\ ~turn /\ NoneActive /\ last.kept /\ ~Undoing
      /\ UNCHANGED <<disk, pending, session, atStart, atEnd, ofSession>>
      /\ UNCHANGED <<jobVars, turn>>
      /\ \/ last' = NoChanges /\ undo' = undo
         \/ /\ undo' = [Idle EXCEPT !.todo = DOMAIN last.files \ last.restored]
            /\ last' = last
  BY DEF UndoTurn, UndoVerified
<1>2. /\ UNCHANGED <<enabled, table, job, tree, starting, closing>>
      /\ Open' = Open
  BY <1>1 DEF jobVars, Open
<1>3. \A j \in JobIds : ~Young(job[j])
  <2>1. ASSUME NEW j \in JobIds, Young(job[j]) PROVE FALSE
    <3>1. j \in Listed /\ job[j].result = "none" /\ job[j] \in JobRecords
      BY <2>1 DEF JobsOK, JobsTypeOK, JobsInv, YoungIsListed, Young, ResultAtEnd
    <3>2. Active(j)
      BY <3>1, StatusFacts DEF Active
    <3> QED BY <1>1, <3>1, <3>2 DEF NoneActive
  <2> QED BY <2>1
<1>4. last \in [kept: BOOLEAN, files: Changes, restored: SUBSET Files]
      /\ DOMAIN last.files \subseteq Files
  BY DEF UndoOK, CheckpointTypeOK, Changes
<1>5. CASE last' = NoChanges /\ undo' = undo
  <2>1. undo.todo = {} /\ undo.next = NoFile /\ ~last'.kept
    BY <1>1, <1>5, EmptyMaps DEF UndoOK, Undoing, UndoInPlace
  <2>2. CheckpointTypeOK'
    BY <1>1, <1>5, EmptyMaps DEF UndoOK, CheckpointTypeOK
  <2>3. UndoIsQuiet' /\ UndoInPlace'
    BY <1>5, <2>1 DEF UndoIsQuiet, UndoInPlace, Undoing
  <2>4. HoldsItsTurn'
    BY <1>1, <1>5, <2>1, SameStart DEF UndoOK, HoldsItsTurn
  <2> QED BY <2>2, <2>3, <2>4 DEF UndoOK
<1>6. CASE /\ undo' = [Idle EXCEPT !.todo = DOMAIN last.files \ last.restored]
           /\ last' = last
  <2>1. /\ undo' \in [todo: SUBSET Files, next: Files \union {NoFile}, raced: BOOLEAN]
        /\ undo'.todo = DOMAIN last.files \ last.restored /\ undo'.next = NoFile
    BY <1>4, <1>6 DEF Idle
  <2>2. CheckpointTypeOK'
    BY <1>1, <1>6, <2>1 DEF UndoOK, CheckpointTypeOK
  <2>3. UndoInPlace'
    BY <1>6, <2>1 DEF UndoInPlace
  <2>4. UndoIsQuiet'
    BY <1>1, <1>2, <1>3, <1>6 DEF UndoOK, UndoIsQuiet, Undoing
  <2>5. HoldsItsTurn'
    BY <1>1, <1>6 DEF UndoOK, HoldsItsTurn, ChangesSince, SnapshotPaths, GitPaths
  <2> QED BY <2>2, <2>3, <2>4, <2>5 DEF UndoOK
<1> QED BY <1>1, <1>5, <1>6

\* A file is read again.
LEMMA RereadKeeps ==
  ASSUME UndoOK, NEW f \in Files, Reread(f), UNCHANGED <<jobVars, turn>>
  PROVE  UndoOK'
<1>1. /\ f \in undo.todo /\ undo.next = NoFile
      /\ UNCHANGED <<disk, pending, last, session, atStart, atEnd, ofSession>>
      /\ undo' = IF disk[f] = last.files[f][2]
                 THEN [undo EXCEPT !.next = f, !.raced = FALSE] ELSE Idle
      /\ UNCHANGED <<job, starting, closing, turn>>
      /\ undo \in [todo: SUBSET Files, next: Files \union {NoFile}, raced: BOOLEAN]
  BY DEF Reread, jobVars, UndoOK, CheckpointTypeOK
<1>2. /\ undo' \in [todo: SUBSET Files, next: Files \union {NoFile}, raced: BOOLEAN]
      /\ undo'.todo \subseteq undo.todo
      /\ undo'.next # NoFile => undo'.next = f /\ f \in undo'.todo /\ disk[f] = last.files[f][2]
  BY <1>1 DEF Idle
<1>3. CheckpointTypeOK'
  BY <1>1, <1>2 DEF UndoOK, CheckpointTypeOK
<1>4. UndoIsQuiet'
  BY <1>1, <1>2 DEF UndoOK, UndoIsQuiet, Undoing, Open
<1>5. UndoInPlace'
  BY <1>1, <1>2 DEF UndoOK, UndoInPlace
<1>6. HoldsItsTurn'
  BY <1>1 DEF UndoOK, HoldsItsTurn, ChangesSince, SnapshotPaths, GitPaths
<1> QED BY <1>3, <1>4, <1>5, <1>6 DEF UndoOK

\* A file is restored, or undo gives up.
LEMMA RestoreKeeps ==
  ASSUME UndoOK, Restore, UNCHANGED <<jobVars, turn>>
  PROVE  UndoOK'
<1> DEFINE f == undo.next
           rest == undo.todo \ {f}
<1>1. /\ f # NoFile /\ f \in undo.todo /\ f \in DOMAIN last.files
      /\ UNCHANGED <<pending, session, atStart, atEnd, ofSession, job, starting, closing, turn>>
      /\ undo \in [todo: SUBSET Files, next: Files \union {NoFile}, raced: BOOLEAN]
      /\ last \in [kept: BOOLEAN, files: Changes, restored: SUBSET Files]
      /\ disk \in [Files -> States] /\ f \in Files
  BY DEF Restore, jobVars, UndoOK, CheckpointTypeOK, UndoInPlace
<1>2. \/ /\ disk' = [disk EXCEPT ![f] = last.files[f][1]]
         /\ undo' = [Idle EXCEPT !.todo = rest]
         /\ last' = IF rest = {} THEN NoChanges ELSE [last EXCEPT !.restored = @ \union {f}]
      \/ undo' = Idle /\ UNCHANGED <<disk, last>>
  BY DEF Restore
<1>3. last.files[f][1] \in States
  <2>1. PICK S \in SUBSET Files : last.files \in [S -> States \X States]
    BY <1>1 DEF Changes
  <2>2. last.files[f] \in States \X States
    BY <1>1, <2>1
  <2> QED BY <2>2
<1> HIDE DEF f, rest
<1>4. rest \subseteq undo.todo
  BY DEF rest
<1>5. CASE undo' = Idle /\ UNCHANGED <<disk, last>>
  <2>1. /\ Idle \in [todo: SUBSET Files, next: Files \union {NoFile}, raced: BOOLEAN]
        /\ Idle.todo = {} /\ Idle.next = NoFile
    BY DEF Idle
  <2>2. CheckpointTypeOK'
    BY <1>1, <1>5, <2>1 DEF UndoOK, CheckpointTypeOK
  <2>3. UndoIsQuiet' /\ UndoInPlace'
    BY <1>1, <1>5, <2>1 DEF UndoOK, UndoIsQuiet, UndoInPlace, Undoing
  <2>4. HoldsItsTurn'
    BY <1>1, <1>5 DEF UndoOK, HoldsItsTurn, ChangesSince, SnapshotPaths, GitPaths
  <2> QED BY <2>2, <2>3, <2>4 DEF UndoOK
<1>6. CASE /\ disk' = [disk EXCEPT ![f] = last.files[f][1]]
           /\ undo' = [Idle EXCEPT !.todo = rest]
           /\ last' = IF rest = {} THEN NoChanges ELSE [last EXCEPT !.restored = @ \union {f}]
  <2>1. /\ undo' \in [todo: SUBSET Files, next: Files \union {NoFile}, raced: BOOLEAN]
        /\ undo'.todo = rest /\ undo'.next = NoFile
    BY <1>1, <1>4, <1>6 DEF Idle
  <2>2. disk' \in [Files -> States]
    BY <1>1, <1>3, <1>6
  <2>3. /\ last' \in [kept: BOOLEAN, files: Changes, restored: SUBSET Files]
        /\ rest = {} => ~last'.kept
        /\ rest # {} => last'.kept = last.kept /\ last'.files = last.files
    BY <1>1, <1>6, EmptyMaps
  <2>4. CheckpointTypeOK'
    BY <1>1, <2>1, <2>2, <2>3 DEF UndoOK, CheckpointTypeOK
  <2>5. UndoIsQuiet'
    BY <1>1, <1>4, <2>1, <2>3 DEF UndoOK, UndoIsQuiet, Undoing, Open
  <2>6. UndoInPlace'
    BY <1>4, <2>1, <2>3 DEF UndoOK, UndoInPlace
  <2>7. last'.kept => last.kept /\ last'.files = last.files
    BY <2>3
  <2>8. HoldsItsTurn'
    <3>1. ChangesSince(SnapshotPaths(atStart, GitPaths(atStart)), atEnd)'
          = ChangesSince(SnapshotPaths(atStart, GitPaths(atStart)), atEnd)
      BY <1>1 DEF ChangesSince, SnapshotPaths, GitPaths
    <3> QED BY <1>1, <2>7, <3>1, SameStart DEF UndoOK, HoldsItsTurn
  <2> QED BY <2>4, <2>5, <2>6, <2>8 DEF UndoOK
<1> QED BY <1>2, <1>5, <1>6

\* Somebody writes a file: if undo was about to replace it, it was raced.
LEMMA WriteKeeps ==
  ASSUME UndoOK, NEW f \in Files, NEW c \in States, Write(f, c), UNCHANGED <<jobVars, turn>>
  PROVE  UndoOK'
<1>1. /\ disk \in [Files -> States] /\ disk' = [disk EXCEPT ![f] = c]
      /\ undo' = [undo EXCEPT !.raced = undo.raced \/ undo.next = f]
      /\ UNCHANGED <<pending, last, session, atStart, atEnd, ofSession, job, starting, closing, turn>>
      /\ undo \in [todo: SUBSET Files, next: Files \union {NoFile}, raced: BOOLEAN]
  BY DEF Write, jobVars, UndoOK, CheckpointTypeOK
<1> DEFINE r == undo.raced \/ undo.next = f
<1>2. r \in BOOLEAN
  OBVIOUS
<1>3. undo' = [undo EXCEPT !.raced = r] /\ (undo.next = f => r) /\ (undo.raced => r)
  BY <1>1
<1> HIDE DEF r
<1>4. /\ undo' \in [todo: SUBSET Files, next: Files \union {NoFile}, raced: BOOLEAN]
      /\ undo'.todo = undo.todo /\ undo'.next = undo.next /\ undo'.raced = r
  BY <1>1, <1>2, <1>3
<1>5. CheckpointTypeOK'
  BY <1>1, <1>4 DEF UndoOK, CheckpointTypeOK
<1>6. UndoIsQuiet'
  BY <1>1, <1>4 DEF UndoOK, UndoIsQuiet, Undoing, Open
<1>7. UndoInPlace'
  <2>1. ASSUME undo.next # NoFile PROVE disk'[undo.next] = last.files[undo.next][2] \/ r
    <3>1. CASE undo.next = f
      BY <1>3, <3>1
    <3>2. CASE undo.next # f
      <4>1. disk'[undo.next] = disk[undo.next]
        BY <1>1, <2>1, <3>2
      <4> QED BY <1>3, <2>1, <4>1 DEF UndoOK, UndoInPlace
    <3> QED BY <3>1, <3>2
  <2> QED BY <1>1, <1>4, <2>1 DEF UndoOK, UndoInPlace
<1>8. HoldsItsTurn'
  BY <1>1 DEF UndoOK, HoldsItsTurn, ChangesSince, SnapshotPaths, GitPaths
<1> QED BY <1>5, <1>6, <1>7, <1>8 DEF UndoOK

LEMMA UndoKept ==
  ASSUME JobsOK, UndoOK, [Next]_vars
  PROVE  UndoOK'
<1>1. CASE BeginTurn
  BY <1>1, BeginKeeps
<1>2. CASE EndTurn
  BY <1>2, EndKeeps
<1>3. CASE AskForJob \/ CancelJob \/ JobStep \/ CommandForks \/ CommandExits
  BY <1>3, JobsLeaveUndo, OpenStaysOpen
     DEF AskForJob, CancelJob, JobStep, CommandForks, CommandExits
<1>4. CASE CloseSession
  <2>1. UNCHANGED checkpointVars /\ ~Undoing /\ turn' = FALSE /\ starting' = starting
    BY <1>4 DEF CloseSession, Shutdown
  <2>2. UNCHANGED <<disk, pending, last, undo, session, atStart, atEnd, ofSession>>
    BY <2>1 DEF checkpointVars
  <2>3. CheckpointTypeOK' /\ UndoInPlace' /\ UndoIsQuiet'
    BY <2>1, <2>2 DEF UndoOK, CheckpointTypeOK, UndoInPlace, UndoIsQuiet, Undoing
  <2>4. HoldsItsTurn'
    BY <2>2 DEF UndoOK, HoldsItsTurn, ChangesSince, SnapshotPaths, GitPaths
  <2> QED BY <2>3, <2>4 DEF UndoOK
<1>5. CASE OpenSession
  BY <1>5, OpenSessionKeeps
<1>6. CASE UndoTurn
  BY <1>6, VerifiedKeeps
<1>7. CASE UndoStep
  BY <1>7, RestoreKeeps, RereadKeeps DEF UndoStep
<1>8. CASE EditFile
  BY <1>8, WriteKeeps DEF EditFile
<1>9. CASE UNCHANGED vars
  <2>1. UNCHANGED <<checkpointVars, turn>> /\ UNCHANGED jobVars
    BY <1>9 DEF vars
  <2>2. closing' = closing
    BY <2>1 DEF jobVars
  <2> QED BY <2>1, <2>2, JobsLeaveUndo DEF Open
<1> QED BY <1>1, <1>2, <1>3, <1>4, <1>5, <1>6, <1>7, <1>8, <1>9 DEF Next

\* What the jobs, the turn and the checkpoint are to each other, always.
THEOREM WorkspaceInOrder == Spec => [](JobsOK /\ UndoOK)
<1>1. Init => JobsOK /\ UndoOK
  BY JobsStart, UndoStart DEF Init
<1>2. JobsOK /\ UndoOK /\ [Next]_vars => (JobsOK /\ UndoOK)'
  BY JobsKept, UndoKept
<1> QED BY <1>1, <1>2, PTL DEF Spec

\* Every variable has its type.
THEOREM WorkspaceTypes == Spec => []TypeOK
<1> DEFINE Rest == turn \in BOOLEAN /\ left \in [Countable -> Nat]
<1>1. Init => Rest
  BY WorkspaceAssumption DEF Init
<1>2. Rest /\ [Next]_vars => Rest'
  <2> SUFFICES ASSUME Rest, [Next]_vars PROVE Rest'
    OBVIOUS
  <2>1. ASSUME NEW what \in Countable, Spend(what) PROVE left' \in [Countable -> Nat]
    BY <2>1 DEF Spend
  <2>2. left' \in [Countable -> Nat]
    <3>1. {"turns", "starts", "cancels", "forks", "writes", "undos", "sessions"} = Countable
      BY DEF Countable
    <3> QED BY <2>1, <3>1 DEF Next, vars, BeginTurn, EndTurn, AskForJob, CancelJob, UndoTurn,
                UndoStep, EditFile, CloseSession, OpenSession, JobStep, CommandForks, CommandExits
  <2>3. turn' \in BOOLEAN
    BY DEF Next, vars, BeginTurn, EndTurn, AskForJob, CancelJob, UndoTurn, UndoStep, EditFile,
           CloseSession, OpenSession, JobStep, CommandForks, CommandExits
  <2> QED BY <2>2, <2>3
<1>3. JobsOK /\ UndoOK /\ Rest => TypeOK
  BY DEF JobsOK, UndoOK, TypeOK
<1>4. Spec => []Rest
  BY <1>1, <1>2, PTL DEF Spec
<1> QED BY <1>3, <1>4, WorkspaceInOrder, PTL

\* While /undo-turn verifies and restores, no command of a job is there to
\* write beside it: its one look at the job table is enough.
THEOREM UndoIsAlone == Spec => []UndoRunsAlone
<1>1. JobsOK /\ UndoOK => UndoRunsAlone
  BY DEF JobsOK, JobsInv, GroupRuns, UndoOK, UndoIsQuiet, UndoRunsAlone, Young
<1> QED BY <1>1, WorkspaceInOrder, PTL

\* A step that restores a file puts back what the turn of this conversation
\* found, in place of what it left.
LEMMA RestoringIsExact ==
  ASSUME UndoOK, [Next]_vars, NEW f \in Files, Restores(f)
  PROVE  /\ ofSession = session
         /\ disk[f] = atEnd[f] \/ undo.raced
         /\ disk'[f] = atStart[f] \/ WasHidden(f)
<1>1. /\ undo.next = f /\ disk'[f] # disk[f] /\ f \notin undo'.todo
      /\ f \in undo.todo /\ f \in DOMAIN last.files /\ f # NoFile
      /\ disk[f] = last.files[f][2] \/ undo.raced
  BY CheckpointFacts DEF Restores, UndoOK, UndoInPlace
<1>2. last.kept
  BY <1>1 DEF UndoOK, UndoIsQuiet, Undoing
<1>3. /\ disk \in [Files -> States] /\ atStart \in [Files -> States] /\ atEnd \in [Files -> States]
      /\ undo \in [todo: SUBSET Files, next: Files \union {NoFile}, raced: BOOLEAN]
  BY DEF UndoOK, CheckpointTypeOK
<1> DEFINE G == GitPaths(atStart)
           s == SnapshotPaths(atStart, G)
<1>4. /\ ofSession = session /\ last.files = ChangesSince(s, atEnd)
  BY <1>2 DEF UndoOK, HoldsItsTurn
<1>5. s \in Snapshots /\ s = [g \in G |-> atStart[g]]
  BY <1>3, SnapshotsAreMaps DEF SnapshotPaths
<1>6. last.files[f] = <<IF f \in G THEN atStart[f] ELSE Absent, atEnd[f]>>
  <2> HIDE DEF G, s
  <2>1. last.files[f] = <<IF f \in DOMAIN s THEN s[f] ELSE Absent, atEnd[f]>>
    BY <1>1, <1>3, <1>4, <1>5, ChangesAreMaps
  <2>2. DOMAIN s = G /\ (f \in G => s[f] = atStart[f])
    BY <1>5
  <2> QED BY <2>1, <2>2
<1>7. Restore /\ disk'[f] = last.files[f][1]
  <2>1. CASE Restore
    BY <1>1, <1>3, <2>1 DEF Restore
  <2>2. CASE EditFile
    <3>1. PICK g \in Files, c \in States : Write(g, c)
      BY <2>2 DEF EditFile
    <3>2. undo'.todo = undo.todo
      BY <1>3, <3>1 DEF Write
    <3> QED BY <1>1, <3>2
  <2>3. CASE UNCHANGED disk
    BY <1>1, <2>3
  <2>4. Restore \/ EditFile \/ UNCHANGED disk
    BY DEF Next, vars, checkpointVars, BeginTurn, Begin, EndTurn, Finish, AskForJob, CancelJob,
           UndoTurn, UndoVerified, UndoStep, Reread, CloseSession, OpenSession, SetMessages,
           JobStep, CommandForks, CommandExits
  <2> QED BY <2>1, <2>2, <2>3, <2>4
<1>8. disk'[f] = IF f \in G THEN atStart[f] ELSE Absent
  BY <1>6, <1>7
<1>9. f \notin G => atStart[f] = Absent \/ WasHidden(f)
  BY DEF WasHidden
<1> QED BY <1>1, <1>4, <1>6, <1>8, <1>9

\* /undo-turn is exact: for any files, contents and ignore rules, in any order
\* of its restores, with any writers beside it.
THEOREM UndoingIsExact == Spec => UndoIsExact
<1>1. (JobsOK /\ UndoOK) /\ [Next]_vars =>
        [\A f \in Files : Restores(f) =>
            /\ ofSession = session
            /\ disk[f] = atEnd[f] \/ undo.raced
            /\ disk'[f] = atStart[f] \/ WasHidden(f)]_checkpointVars
  BY RestoringIsExact
<1> QED BY <1>1, WorkspaceInOrder, PTL DEF Spec, UndoIsExact

=============================================================================
