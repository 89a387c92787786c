---------------------- MODULE AnalysisPipeline_proofs ----------------------
(***************************************************************************)
(* What is proved of an analysis, for any requirements, answers and        *)
(* metadata.  Four invariants are inductive each on its own: what the      *)
(* planner is shown, how often it runs, what the two parallel nodes have   *)
(* written into the object they share, and how the requirements are        *)
(* numbered.  With the second, every step shortens the analysis.           *)
(***************************************************************************)
EXTENDS AnalysisPipeline, FiniteSetTheorems, WellFoundedInduction, TLAPS

---------------------------------------------------------------------------
(* The guardian.                                                           *)

\* What the guardian lets through, and shows the planner next, is checked.
KInv ==
    /\ KnowledgeIsChecked
    /\ guardian.status = "APPROVED" =>
         guardian.data \in passed /\ guardian.data.quality = "fine"

\* A step that leaves the metadata as they are.
LEMMA KnowledgeKept ==
  ASSUME KInv, UNCHANGED <<guardian, passed, known>>
  PROVE  KInv'
  BY DEF KInv, KnowledgeIsChecked

\* A judgement that lets nothing through.
LEMMA RejectionKeeps ==
  ASSUME KInv, NEW r, Judged("REJECTED", r), UNCHANGED <<passed, known>>
  PROVE  KInv'
  BY DEF KInv, KnowledgeIsChecked, Judged

LEMMA NextKnowledge ==
  ASSUME KInv, [Next]_vars
  PROVE  KInv'
  <1>1. CASE stack_planner_node
    BY <1>1 DEF stack_planner_node, Shown, KInv, KnowledgeIsChecked
  <1>2. CASE GuardianRejects
    BY <1>2, RejectionKeeps DEF GuardianRejects
  <1>3. CASE GuardianChecks
    <2>1. ASSUME NEW r \in Merged, r.quality = "fine",
                 Judged("APPROVED", r), passed' = passed \cup {r}, known' = known
          PROVE  KInv'
      BY <2>1 DEF Judged, KInv, KnowledgeIsChecked
    <2>2. ASSUME NEW r \in Merged, Judged("REJECTED", r),
                 UNCHANGED <<passed, known>>
          PROVE  KInv'
      BY <2>2, RejectionKeeps
    <2> QED
      BY <1>3, <2>1, <2>2 DEF GuardianChecks, CheckFailedStatus
  <1>4. CASE UNCHANGED <<guardian, passed, known>>
    BY <1>4, KnowledgeKept
  <1> QED
    BY <1>1, <1>2, <1>3, <1>4
    DEF Next, CallFails, AnalyzerAnswers, requirement_analyzer_node,
        PlanNothing, SelfHealing, stack_crawling_node, GuardianRaises,
        sa_merge_project_node, component_scheduler_node,
        sa_unified_modeler_node, WriteSection, Walk, MergeUpdate,
        pmState, vars

\* The planner sees the metadata of a package only after the rules and the
\* model have let exactly these metadata pass: a check that fails, or metadata
\* of an earlier round, never get through.
THEOREM KnowledgeChecked == Spec => []KnowledgeIsChecked
  <1>1. Init => KInv
    BY DEF Init, KInv, KnowledgeIsChecked
  <1>2. KInv /\ [Next]_vars => KInv'
    BY NextKnowledge
  <1>3. KInv => KnowledgeIsChecked
    BY DEF KInv
  <1> QED
    BY <1>1, <1>2, <1>3, PTL DEF Spec

---------------------------------------------------------------------------
(* The loop of the planner, the crawler and the guardian.                  *)

\* loop_count stops the loop: inside it the planner has ended one pass at
\* most, and it never ends a third.
CrawledOnce ==
    /\ loops \in 0 .. 2
    /\ node \in {"stack_crawling", "guardian"} => loops = 1
    /\ node \in {"requirement_analyzer", "stack_planner", "self_healing"} =>
         loops \in 0 .. 1

\* A pass that ends goes to the crawler after the first one only.
LEMMA PassBounded ==
  ASSUME CrawledOnce, node \in {"stack_planner", "self_healing"},
         NEW m, Pass(m)
  PROVE  CrawledOnce'
  <1>1. loops' \in 1 .. 2
    BY DEF CrawledOnce, Pass
  <1>2. node' = IF loops' < 2 /\ Pending(m) # {}
                THEN "stack_crawling" ELSE "sa_merge_project"
    BY DEF Pass, Route
  <1> QED
    BY <1>1, <1>2 DEF CrawledOnce

LEMMA NextCrawledOnce ==
  ASSUME CrawledOnce, [Next]_vars
  PROVE  CrawledOnce'
  <1>1. CASE PlanNothing
    BY <1>1, PassBounded DEF PlanNothing
  <1>2. CASE stack_planner_node
    <2>1. node = "stack_planner"
      BY <1>2 DEF stack_planner_node, Call, Runs, Parallel
    <2>2. CASE node' = "self_healing" /\ loops' = loops
      BY <2>1, <2>2 DEF CrawledOnce
    <2>3. ASSUME NEW m, Pass(m) PROVE CrawledOnce'
      BY <2>1, <2>3, PassBounded
    <2> QED
      BY <1>2, <2>2, <2>3 DEF stack_planner_node
  <1>3. CASE SelfHealing
    <2>1. node = "self_healing"
      BY <1>3 DEF SelfHealing, Call, Runs, Parallel
    <2>2. \E m : Pass(m)
      BY <1>3 DEF SelfHealing
    <2> QED
      BY <2>1, <2>2, PassBounded
  <1>4. CASE stack_crawling_node
    BY <1>4 DEF stack_crawling_node, CrawledOnce
  <1>5. CASE GuardianRejects \/ GuardianChecks
    <2>1. node = "guardian" /\ node' = "stack_planner" /\ loops' = loops
      BY <1>5 DEF GuardianRejects, GuardianChecks, Judged, Call, Runs, Parallel
    <2> QED
      BY <2>1 DEF CrawledOnce
  <1>6. CASE /\ loops' = loops
             /\ \/ node' = node
                \/ node' \in {"end", "component_scheduler",
                              "sa_unified_modeler", "parallel"}
                \/ node = "requirement_analyzer" /\ node' = "stack_planner"
    BY <1>6 DEF CrawledOnce
  <1>7. ASSUME NEW n \in LlmNodes, CallFails(n)
        PROVE  loops' = loops /\ node' = "end"
    BY <1>7 DEF CallFails, StreamFails, pmState
  <1>8. CASE AnalyzerAnswers \/ requirement_analyzer_node
    BY <1>6, <1>8
    DEF AnalyzerAnswers, requirement_analyzer_node, AfterAnalyzer, Call, Runs,
        Parallel
  <1>9. CASE \/ GuardianRaises \/ sa_merge_project_node
             \/ component_scheduler_node \/ sa_unified_modeler_node
    BY <1>6, <1>9
    DEF GuardianRaises, sa_merge_project_node, component_scheduler_node,
        sa_unified_modeler_node, StreamFails, pmState
  <1>10. ASSUME NEW p \in Parallel, WriteSection(p) \/ Walk(p) \/ MergeUpdate(p)
         PROVE  CrawledOnce'
    BY <1>6, <1>10 DEF WriteSection, Walk, MergeUpdate, StreamFails, pmState
  <1>11. CASE UNCHANGED vars
    BY <1>6, <1>11 DEF vars, pmState
  <1> QED
    BY <1>1, <1>2, <1>3, <1>4, <1>5, <1>6, <1>7, <1>8, <1>9, <1>10, <1>11
    DEF Next

\* The crawl is not repeated, whatever the model answers: the bound that the
\* end of every analysis rests on (loop_count, _route_stack_planning).
THEOREM LoopBounded == Spec => []CrawledOnce
  <1>1. Init => CrawledOnce
    BY DEF Init, CrawledOnce
  <1>2. CrawledOnce /\ [Next]_vars => CrawledOnce'
    BY NextCrawledOnce
  <1> QED
    BY <1>1, <1>2, PTL DEF Spec

---------------------------------------------------------------------------
(* The two parallel nodes.                                                 *)

Phases == {"idle", "running", "written", "walked", "merged"}

\* The bundle has the sections of the nodes that are done, and the merged
\* bundle has both once the result is sent.
BInv ==
    /\ phase \in [Parallel -> Phases]
    /\ bundle = {p \in Parallel : phase[p] \notin {"idle", "running"}}
    /\ BundleKeepsSections

LEMMA NextBundle ==
  ASSUME BInv, [Next]_vars
  PROVE  BInv'
  <1>1. CASE UNCHANGED saState /\ (outcome' = "result" => outcome = "result")
    BY <1>1 DEF saState, BInv, BundleKeepsSections
  <1>2. CASE sa_unified_modeler_node
    BY <1>2 DEF sa_unified_modeler_node, Call, BInv, BundleKeepsSections, Phases
  <1>3. CASE sa_merge_project_node
    BY <1>3 DEF sa_merge_project_node, BInv, BundleKeepsSections
  <1>4. ASSUME NEW p \in Parallel, WriteSection(p) PROVE BInv'
    <2>1. phase' \in [Parallel -> Phases]
      BY <1>4 DEF WriteSection, BInv, Phases
    <2>2. bundle' = {q \in Parallel : phase'[q] \notin {"idle", "running"}}
      BY <1>4 DEF WriteSection, Written, BInv
    <2>3. outcome' # "result"
      BY <1>4 DEF WriteSection, Call, StreamFails
    <2> QED
      BY <2>1, <2>2, <2>3 DEF BInv, BundleKeepsSections
  <1>5. ASSUME NEW p \in Parallel, Walk(p) PROVE BInv'
    BY <1>5 DEF Walk, BInv, BundleKeepsSections, Phases
  <1>6. ASSUME NEW p \in Parallel, MergeUpdate(p) PROVE BInv'
    <2>1. phase' \in [Parallel -> Phases]
      BY <1>6 DEF MergeUpdate, BInv, Phases
    <2>2. bundle' = {q \in Parallel : phase'[q] \notin {"idle", "running"}}
      BY <1>6 DEF MergeUpdate, BInv
    <2>3. shown' = bundle' /\ bundle' \subseteq Parallel
      BY <1>6, <2>2 DEF MergeUpdate, Sections
    <2>4. outcome' = "result" => \A q \in Parallel : phase'[q] = "merged"
      BY <1>6 DEF MergeUpdate
    <2> QED
      BY <2>1, <2>2, <2>3, <2>4 DEF BInv, BundleKeepsSections
  <1>7. ASSUME NEW n \in LlmNodes, CallFails(n)
        PROVE  UNCHANGED saState /\ outcome' # "result"
    BY <1>7 DEF CallFails, StreamFails
  <1>8. CASE UNCHANGED vars
    BY <1>1, <1>8 DEF vars
  <1> QED
    BY <1>1, <1>2, <1>3, <1>4, <1>5, <1>6, <1>7, <1>8
    DEF Next, AnalyzerAnswers, requirement_analyzer_node, PlanNothing,
        stack_planner_node, SelfHealing, stack_crawling_node, GuardianRejects,
        GuardianRaises, GuardianChecks, StreamFails, component_scheduler_node

\* The result has the sections of both nodes, in whatever order they write,
\* and their updates are walked over and merged.
THEOREM SectionsKept == Spec => []BundleKeepsSections
  <1>1. Init => BInv
    BY DEF Init, BInv, BundleKeepsSections, Phases
  <1>2. BInv /\ [Next]_vars => BInv'
    BY NextBundle
  <1>3. BInv => BundleKeepsSections
    BY DEF BInv
  <1> QED
    BY <1>1, <1>2, <1>3, PTL DEF Spec

---------------------------------------------------------------------------
(* The least of some numbers, and the k-th element in an order.            *)

LEMMA LessThan ==
  \A x, y \in Nat : <<x, y>> \in OpToRel(<, Nat) <=> x < y
  BY Zenon DEF OpToRel

LEMMA LeastNumber ==
  ASSUME NEW S \in SUBSET Nat, S # {}
  PROVE  \E k \in S : \A m \in S : k <= m
  <1>1. \E k \in S : \A m \in S : ~(<<m, k>> \in OpToRel(<, Nat))
    BY NatLessThanWellFounded, WFMin, Zenon
  <1>2. PICK k \in S : \A m \in S : ~(<<m, k>> \in OpToRel(<, Nat))
    BY <1>1, Zenon
  <1>3. \A m \in S : ~(m < k)
    BY <1>2, LessThan, Zenon
  <1> QED
    BY <1>3

LEMMA GreatestNumber ==
  ASSUME NEW n \in Nat, NEW S \in SUBSET (0 .. n), S # {}
  PROVE  \E k \in S : \A m \in S : m <= k
  <1> DEFINE T == {t \in 0 .. n : n - t \in S}
  <1>1. T \in SUBSET Nat
    OBVIOUS
  <1>2. \A k \in S : n - k \in 0 .. n /\ n - (n - k) = k
    OBVIOUS
  <1>3. T # {} /\ \A k \in S : n - k \in T
    BY <1>2
  <1> HIDE DEF T
  <1>4. PICK t \in T : \A m \in T : t <= m
    BY <1>1, <1>3, LeastNumber
  <1>5. n - t \in S /\ t \in 0 .. n
    BY <1>4 DEF T
  <1>6. \A m \in S : m <= n - t
    BY <1>3, <1>4, <1>5
  <1> QED
    BY <1>5, <1>6

LEMMA LargestIsGreatest ==
  ASSUME NEW n \in Nat, NEW S \in SUBSET (0 .. n), S # {}
  PROVE  Largest(S) \in S /\ \A m \in S : m <= Largest(S)
  <1>1. \E k \in S : \A m \in S : m <= k
    BY GreatestNumber
  <1> QED
    BY <1>1 DEF Largest

StrictOrder(S, R) ==
    /\ \A i \in S : <<i, i>> \notin R
    /\ \A i, j, k \in S : <<i, j>> \in R /\ <<j, k>> \in R => <<i, k>> \in R
    /\ \A i, j \in S : i # j => <<i, j>> \in R \/ <<j, i>> \in R

Below(S, R, i) == {j \in S : <<j, i>> \in R}

LEMMA BelowGrows ==
  ASSUME NEW S, IsFiniteSet(S), NEW R, StrictOrder(S, R),
         NEW i \in S, NEW j \in S, <<i, j>> \in R
  PROVE  Cardinality(Below(S, R, i)) < Cardinality(Below(S, R, j))
  <1>1. /\ Below(S, R, i) \in SUBSET Below(S, R, j)
        /\ i \in Below(S, R, j) /\ i \notin Below(S, R, i)
    BY DEF Below, StrictOrder
  <1>2. Below(S, R, j) \in SUBSET S /\ IsFiniteSet(Below(S, R, j))
    BY FS_Subset DEF Below
  <1>3. /\ IsFiniteSet(Below(S, R, i))
        /\ Cardinality(Below(S, R, i)) <= Cardinality(Below(S, R, j))
        /\ Cardinality(Below(S, R, i)) # Cardinality(Below(S, R, j))
    BY <1>1, <1>2, FS_Subset
  <1> QED
    BY <1>2, <1>3, FS_CardinalityType

LEMMA BelowBounded ==
  ASSUME NEW S, IsFiniteSet(S), NEW R, StrictOrder(S, R), NEW i \in S
  PROVE  Cardinality(Below(S, R, i)) \in 0 .. Cardinality(S) - 1
  <1>1. Below(S, R, i) \in SUBSET S /\ i \notin Below(S, R, i)
    BY DEF Below, StrictOrder
  <1>2. /\ IsFiniteSet(Below(S, R, i))
        /\ Cardinality(Below(S, R, i)) <= Cardinality(S)
        /\ Cardinality(Below(S, R, i)) # Cardinality(S)
    BY <1>1, FS_Subset
  <1> QED
    BY <1>2, FS_CardinalityType

\* Every element of a finite set has a place in an order, and every place an
\* element.
LEMMA NthIsBijection ==
  ASSUME NEW S, IsFiniteSet(S), NEW R, StrictOrder(S, R)
  PROVE  /\ Cardinality(S) \in Nat
         /\ \A k \in 1 .. Cardinality(S) : Nth(S, R, k) \in S
         /\ \A k, m \in 1 .. Cardinality(S) :
              Nth(S, R, k) = Nth(S, R, m) => k = m
         /\ \A i \in S : \E k \in 1 .. Cardinality(S) : Nth(S, R, k) = i
  <1> DEFINE n == Cardinality(S)
             rank == [i \in S |-> Cardinality(Below(S, R, i))]
  <1>1. n \in Nat
    BY FS_CardinalityType
  <1>2. rank \in [S -> 0 .. n - 1]
    BY BelowBounded
  <1>3. \A i, j \in S : rank[i] = rank[j] => i = j
    <2> SUFFICES ASSUME NEW i \in S, NEW j \in S, i # j
                 PROVE  rank[i] # rank[j]
      OBVIOUS
    <2>1. rank[i] \in Nat /\ rank[j] \in Nat
      BY <1>1, <1>2
    <2>2. CASE <<i, j>> \in R
      BY <2>1, <2>2, BelowGrows
    <2>3. CASE <<j, i>> \in R
      BY <2>1, <2>3, BelowGrows
    <2> QED
      BY <2>2, <2>3 DEF StrictOrder
  <1>4. \A t \in 0 .. n - 1 : \E i \in S : rank[i] = t
    <2>1. IsFiniteSet(0 .. n - 1) /\ Cardinality(0 .. n - 1) = n
      BY <1>1, FS_Interval
    <2> HIDE DEF rank
    <2>2. rank \in Injection(S, 0 .. n - 1)
      BY <1>2, <1>3 DEF Injection, IsInjective
    <2>3. rank \in Surjection(S, 0 .. n - 1)
      BY <2>1, <2>2, FS_Injection
    <2> QED
      BY <2>3 DEF Surjection
  <1>5. \A i \in S : rank[i] = Cardinality({j \in S : <<j, i>> \in R})
    BY DEF Below
  <1> HIDE DEF rank, n
  <1>6. ASSUME NEW k \in 1 .. n
        PROVE  Nth(S, R, k) \in S /\ rank[Nth(S, R, k)] = k - 1
    <2>1. k - 1 \in 0 .. n - 1
      BY <1>1
    <2>2. \E i \in S : Cardinality({j \in S : <<j, i>> \in R}) = k - 1
      BY <1>4, <1>5, <2>1
    <2>3. /\ Nth(S, R, k) \in S
          /\ Cardinality({j \in S : <<j, Nth(S, R, k)>> \in R}) = k - 1
      BY <2>2 DEF Nth
    <2> QED
      BY <1>5, <2>3
  <1>7. ASSUME NEW k \in 1 .. n, NEW m \in 1 .. n, Nth(S, R, k) = Nth(S, R, m)
        PROVE  k = m
    BY <1>1, <1>6, <1>7
  <1>8. ASSUME NEW i \in S
        PROVE  \E k \in 1 .. n : Nth(S, R, k) = i
    <2>1. rank[i] \in 0 .. n - 1 /\ rank[i] + 1 \in 1 .. n
          /\ (rank[i] + 1) - 1 = rank[i]
      BY <1>1, <1>2
    <2>2. Nth(S, R, rank[i] + 1) \in S /\ rank[Nth(S, R, rank[i] + 1)] = rank[i]
      BY <1>6, <2>1
    <2> QED
      BY <1>3, <2>1, <2>2
  <1> QED
    BY <1>1, <1>6, <1>7, <1>8 DEF n

---------------------------------------------------------------------------
(* Requirements.                                                           *)

Requirement == [id : Nat, what : Contents, deps : SUBSET Nat]

\* Earlier requirements: their numbers grow.
Earlier(f) ==
    \E n \in Nat :
      /\ f \in [1 .. n -> Requirement]
      /\ \A i \in 1 .. n : f[i].id # 0
      /\ \A i, j \in 1 .. n : i < j => f[i].id < f[j].id

LEMMA RequestsEarlier ==
  ASSUME NEW f \in Requests
  PROVE  Earlier(f)
  <1>1. PICK n \in 0 .. MaxFeatures :
          /\ f \in [1 .. n -> [id : 1 .. MaxNumber, what : Contents, deps : {{}}]]
          /\ \A i, j \in 1 .. n : i < j => f[i].id < f[j].id /\ f[i].what # f[j].what
    BY DEF Requests
  <1>2. ASSUME NEW i \in 1 .. n
        PROVE  f[i] \in Requirement /\ f[i].id # 0
    <2>1. f[i] \in [id : 1 .. MaxNumber, what : Contents, deps : {{}}]
      BY <1>1
    <2>2. 1 .. MaxNumber \subseteq Nat /\ 0 \notin 1 .. MaxNumber
      BY AnalysisAssumption
    <2> QED
      BY <2>1, <2>2 DEF Requirement
  <1>3. f \in [1 .. n -> Requirement]
    BY <1>1, <1>2
  <1>4. n \in Nat
    BY AnalysisAssumption
  <1> QED
    BY <1>1, <1>2, <1>3, <1>4 DEF Earlier

LEMMA EarlierDistinct ==
  ASSUME NEW f, Earlier(f)
  PROVE  Distinct(f)
  <1>1. PICK n \in Nat :
          /\ f \in [1 .. n -> Requirement]
          /\ \A i, j \in 1 .. n : i < j => f[i].id < f[j].id
    BY DEF Earlier
  <1>2. \A i \in 1 .. n : f[i].id \in Nat
    BY <1>1 DEF Requirement
  <1>3. DOMAIN f = 1 .. n
    BY <1>1
  <1>4. ASSUME NEW i \in 1 .. n, NEW j \in 1 .. n, f[i].id = f[j].id
        PROVE  i = j
    <2>1. CASE i < j
      BY <1>1, <1>2, <1>4, <2>1
    <2>2. CASE j < i
      BY <1>1, <1>2, <1>4, <2>2
    <2> QED
      BY <2>1, <2>2
  <1> QED
    BY <1>3, <1>4 DEF Distinct

\* The requirements that are appended are those whose ids are not there.
LEMMA AppendedIsFull ==
  ASSUME Earlier(previous), NEW f \in Seq(Requirement), Distinct(f)
  PROVE  /\ Appended(f) \in Seq(Requirement)
         /\ Distinct(Appended(f))
         /\ \A i \in DOMAIN f : Appended(f)[i] = f[i]
         /\ readable => \A k \in DOMAIN previous :
              \/ \E i \in DOMAIN f : f[i].id = previous[k].id
              \/ \E i \in DOMAIN Appended(f) : Appended(f)[i] = previous[k]
  <1>1. CASE ~readable
    BY <1>1 DEF Appended
  <1>2. CASE readable
    <2> DEFINE M == Missing(f)
               R == {e \in M \X M : e[1] < e[2]}
               N == Cardinality(M)
               g == [k \in 1 .. N |-> previous[Nth(M, R, k)]]
               h == f \o g
    <2>1. PICK n \in Nat : previous \in [1 .. n -> Requirement]
      BY DEF Earlier
    <2>2. M \in SUBSET (1 .. n) /\ M \in SUBSET Nat
      BY <2>1 DEF Missing
    <2>3. IsFiniteSet(M)
      <3>1. IsFiniteSet(1 .. n)
        BY FS_Interval
      <3> QED
        BY <2>2, <3>1, FS_Subset
    <2>4. StrictOrder(M, R)
      <3> HIDE DEF M
      <3>1. \A i, j \in M : <<i, j>> \in R <=> i < j
        OBVIOUS
      <3> HIDE DEF R
      <3> QED
        BY <2>2, <3>1 DEF StrictOrder
    <2>5. Appended(f) = h
      BY <1>2 DEF Appended
    <2> HIDE DEF R
    <2>6. /\ N \in Nat
          /\ \A k \in 1 .. N : Nth(M, R, k) \in M
          /\ \A k, m \in 1 .. N : Nth(M, R, k) = Nth(M, R, m) => k = m
          /\ \A i \in M : \E k \in 1 .. N : Nth(M, R, k) = i
      BY <2>3, <2>4, NthIsBijection
    <2> HIDE DEF N
    <2>7. \A k \in M : k \in 1 .. n /\ k \in DOMAIN previous
                       /\ \A i \in DOMAIN f : f[i].id # previous[k].id
      BY <2>1 DEF Missing, Numbers
    <2>8. \A k \in DOMAIN previous :
            k \in M \/ \E i \in DOMAIN f : f[i].id = previous[k].id
      BY DEF Missing, Numbers
    <2> HIDE DEF M
    <2>9. g \in Seq(Requirement) /\ Len(g) = N
      <3>1. \A k \in 1 .. N : previous[Nth(M, R, k)] \in Requirement
        BY <2>1, <2>6, <2>7
      <3> QED
        BY <2>6, <3>1
    <2>10. \A k \in 1 .. N : g[k] = previous[Nth(M, R, k)]
      OBVIOUS
    <2> HIDE DEF g
    <2>11. /\ h \in Seq(Requirement) /\ Len(h) = Len(f) + N /\ Len(f) \in Nat
           /\ DOMAIN f = 1 .. Len(f) /\ DOMAIN h = 1 .. Len(f) + N
           /\ \A i \in 1 .. Len(f) : h[i] = f[i]
      BY <2>6, <2>9
    <2>12. ASSUME NEW k \in 1 .. N
           PROVE  /\ Len(f) + k \in 1 .. Len(f) + N
                  /\ h[Len(f) + k] = previous[Nth(M, R, k)]
      BY <2>6, <2>9, <2>10, <2>11
    <2> HIDE DEF h
    <2>13. \A i \in DOMAIN h : \/ i \in 1 .. Len(f)
                               \/ \E k \in 1 .. N : i = Len(f) + k
      <3> SUFFICES ASSUME NEW i \in DOMAIN h, i \notin 1 .. Len(f)
                   PROVE  \E k \in 1 .. N : i = Len(f) + k
        OBVIOUS
      <3>1. i - Len(f) \in 1 .. N /\ i = Len(f) + (i - Len(f))
        BY <2>6, <2>11
      <3> QED
        BY <3>1
    <2>14. ASSUME NEW i \in DOMAIN h, NEW j \in DOMAIN h, h[i].id = h[j].id
           PROVE  i = j
      <3>1. CASE i \in 1 .. Len(f) /\ j \in 1 .. Len(f)
        BY <2>11, <2>14, <3>1 DEF Distinct
      <3>2. ASSUME NEW a \in 1 .. Len(f), NEW k \in 1 .. N,
                   h[a].id = h[Len(f) + k].id
            PROVE  FALSE
        <4>1. PICK x \in M : x = Nth(M, R, k)
          BY <2>6
        <4>2. f[a].id # previous[x].id
          BY <2>7, <2>11
        <4>3. h[a] = f[a] /\ h[Len(f) + k] = previous[x]
          BY <2>11, <2>12, <4>1
        <4> QED
          BY <3>2, <4>2, <4>3
      <3>3. ASSUME NEW k \in 1 .. N, NEW m \in 1 .. N,
                   h[Len(f) + k].id = h[Len(f) + m].id
            PROVE  k = m
        <4>1. Distinct(previous)
          BY EarlierDistinct
        <4>2. PICK x, y : x = Nth(M, R, k) /\ y = Nth(M, R, m)
          OBVIOUS
        <4>3. x \in DOMAIN previous /\ y \in DOMAIN previous
          BY <2>6, <2>7, <4>2
        <4>4. previous[x].id = previous[y].id
          BY <2>12, <3>3, <4>2
        <4>5. x = y
          BY <4>1, <4>3, <4>4 DEF Distinct
        <4> QED
          BY <2>6, <4>2, <4>5
      <3> QED
        BY <2>13, <2>14, <3>1, <3>2, <3>3
    <2>15. ASSUME NEW k \in DOMAIN previous
           PROVE  \/ \E i \in DOMAIN f : f[i].id = previous[k].id
                  \/ \E i \in DOMAIN h : h[i] = previous[k]
      <3>1. CASE k \in M
        <4>1. PICK m \in 1 .. N : Nth(M, R, m) = k
          BY <2>6, <3>1
        <4> QED
          BY <2>11, <2>12, <4>1
      <3> QED
        BY <2>8, <3>1
    <2>16. Distinct(h)
      BY <2>14 DEF Distinct
    <2> QED
      BY <2>5, <2>11, <2>15, <2>16
  <1> QED
    BY <1>1, <1>2

---------------------------------------------------------------------------
(* The ids of an answer.                                                   *)

LEMMA AnswerType ==
  ASSUME NEW n \in Nat, NEW f \in Answers(n)
  PROVE  f \in Seq(Requirement)
  <1>1. 0 .. MaxNumber \subseteq Nat
    BY AnalysisAssumption
  <1>2. ASSUME NEW i \in 1 .. n
        PROVE  f[i] \in Requirement
    <2>1. /\ f[i].id \in 0 .. MaxNumber /\ f[i].what \in Contents
          /\ f[i].deps \in SUBSET (0 .. MaxNumber)
          /\ f[i] = [id |-> f[i].id, what |-> f[i].what, deps |-> f[i].deps]
      BY DEF Answers
    <2>2. f[i].id \in Nat /\ f[i].deps \in SUBSET Nat
      BY <1>1, <2>1
    <2> QED
      BY <2>1, <2>2 DEF Requirement
  <1>3. f \in [1 .. n -> Requirement]
    BY <1>2 DEF Answers
  <1> QED
    BY <1>3

\* There is a number that is not used, and it is the first one.
LEMMA UnusedIsNew ==
  ASSUME NEW n \in Nat, NEW f \in [1 .. n -> Requirement], NEW start \in Nat
  PROVE  Unused(f, start, 1) \in Nat /\ Unused(f, start, 1) \notin Numbers(f)
  <1> DEFINE I == start .. start + 2 * n
             T == {m \in I : m \notin Numbers(f)}
  <1>1. DOMAIN f = 1 .. n /\ Len(f) = n
    OBVIOUS
  <1>2. T # {}
    <2> SUFFICES ASSUME I \subseteq Numbers(f) PROVE FALSE
      OBVIOUS
    <2> DEFINE ids == [i \in 1 .. n |-> f[i].id]
    <2>1. ids \in Surjection(1 .. n, Numbers(f))
      <3>1. ids \in [1 .. n -> Numbers(f)]
        BY <1>1 DEF Numbers
      <3>2. \A t \in Numbers(f) : \E i \in 1 .. n : ids[i] = t
        BY <1>1 DEF Numbers
      <3> QED
        BY <3>1, <3>2 DEF Surjection
    <2>2. IsFiniteSet(1 .. n) /\ Cardinality(1 .. n) = n
      BY FS_Interval
    <2>3. IsFiniteSet(Numbers(f)) /\ Cardinality(Numbers(f)) <= n
      BY <2>1, <2>2, FS_Surjection
    <2>4. Cardinality(I) = 2 * n + 1
      <3>1. start \in Int /\ start + 2 * n \in Int /\ ~(start > start + 2 * n)
            /\ (start + 2 * n) - start + 1 = 2 * n + 1
        OBVIOUS
      <3> QED
        BY <3>1, FS_Interval
    <2>5. Cardinality(I) <= Cardinality(Numbers(f))
      BY <2>3, FS_Subset
    <2> QED
      BY <2>3, <2>4, <2>5, FS_CardinalityType
  <1>3. T \in SUBSET Nat
    OBVIOUS
  <1>4. PICK x \in T : \A m \in T : x <= m
    BY <1>2, <1>3, LeastNumber
  <1>5. {m \in start .. x : m \notin Numbers(f)} = {x}
    <2>1. x \in I /\ x \in Nat /\ x \notin Numbers(f)
      BY <1>4
    <2>2. ASSUME NEW m \in start .. x, m \notin Numbers(f)
          PROVE  m = x
      <3>1. m \in T
        BY <2>1, <2>2
      <3> QED
        BY <1>3, <1>4, <3>1, <2>1
    <2>3. x \in start .. x
      BY <2>1
    <2> QED
      BY <2>1, <2>2, <2>3
  <1>6. Cardinality({x}) = 1
    BY FS_Singleton
  <1>7. \E m \in start .. start + 2 * Len(f) :
          /\ m \notin Numbers(f)
          /\ Cardinality({k \in start .. m : k \notin Numbers(f)}) = 1
    BY <1>1, <1>4, <1>5, <1>6
  <1>8. /\ Unused(f, start, 1) \in start .. start + 2 * Len(f)
        /\ Unused(f, start, 1) \notin Numbers(f)
    BY <1>7 DEF Unused
  <1> QED
    BY <1>1, <1>8

\* Different requirements get different numbers.
LEMMA NewIdsDistinct ==
  ASSUME NEW n \in Nat, NEW f \in [1 .. n -> Requirement], Distinct(f),
         NEW prev, Earlier(prev)
  PROVE  /\ \A i \in 1 .. n : NewId(f, prev, i) \in Nat
         /\ \A i, j \in 1 .. n : NewId(f, prev, i) = NewId(f, prev, j) => i = j
  <1>1. CASE mode # "UPDATE" \/ prev = << >>
    BY <1>1 DEF NewId
  <1>2. CASE mode = "UPDATE" /\ prev # << >>
    <2> DEFINE start == Largest(Numbers(prev)) + 1
    <2>1. start \in Nat
      <3>1. PICK p \in Nat :
              /\ prev \in [1 .. p -> Requirement]
              /\ \A i, j \in 1 .. p : i < j => prev[i].id < prev[j].id
        BY DEF Earlier
      <3>2. p \in 1 .. p /\ DOMAIN prev = 1 .. p
        BY <1>2, <3>1
      <3>3. \A i \in 1 .. p : prev[i].id \in Nat
        BY <3>1 DEF Requirement
      <3>4. \A i \in 1 .. p : i = p \/ prev[i].id < prev[p].id
        BY <3>1, <3>2
      <3>5. Numbers(prev) \in SUBSET (0 .. prev[p].id) /\ Numbers(prev) # {}
        BY <3>2, <3>3, <3>4 DEF Numbers
      <3>6. Largest(Numbers(prev)) \in Numbers(prev)
        BY <3>2, <3>3, <3>5, LargestIsGreatest
      <3> QED
        BY <3>2, <3>3, <3>6 DEF Numbers
    <2> HIDE DEF start
    <2>2. \A i \in 1 .. n : f[i].id \in Nat
      BY DEF Requirement
    <2>3. \A i, j \in 1 .. n : f[i].id = f[j].id => i = j
      BY DEF Distinct
    <2>4. ASSUME NEW i \in 1 .. n, f[i].id # 0
          PROVE  NewId(f, prev, i) = f[i].id
      BY <1>2, <2>4 DEF NewId
    <2>5. ASSUME NEW i \in 1 .. n, f[i].id = 0
          PROVE  NewId(f, prev, i) = Unused(f, start, 1)
      <3>1. {j \in 1 .. i : f[j].id = 0} = {i}
        <4>1. \A j \in 1 .. i : j \in 1 .. n
          OBVIOUS
        <4> QED
          BY <2>3, <2>5, <4>1
      <3>2. Cardinality({j \in 1 .. i : f[j].id = 0}) = 1
        BY <3>1, FS_Singleton
      <3> QED
        BY <1>2, <2>5, <3>2 DEF NewId, start
    <2>6. Unused(f, start, 1) \in Nat /\ Unused(f, start, 1) \notin Numbers(f)
      BY <2>1, UnusedIsNew
    <2>7. \A i \in 1 .. n : f[i].id # Unused(f, start, 1)
      BY <2>6 DEF Numbers
    <2>8. ASSUME NEW i \in 1 .. n, NEW j \in 1 .. n,
                 NewId(f, prev, i) = NewId(f, prev, j)
          PROVE  i = j
      <3>1. CASE f[i].id # 0 /\ f[j].id # 0
        BY <2>3, <2>4, <2>8, <3>1
      <3>2. CASE f[i].id = 0 /\ f[j].id = 0
        BY <2>3, <3>2
      <3>3. CASE f[i].id = 0 /\ f[j].id # 0
        BY <2>4, <2>5, <2>7, <2>8, <3>3
      <3>4. CASE f[i].id # 0 /\ f[j].id = 0
        BY <2>4, <2>5, <2>7, <2>8, <3>4
      <3> QED
        BY <3>1, <3>2, <3>3, <3>4
    <2> QED
      BY <2>2, <2>4, <2>5, <2>6, <2>8
  <1> QED
    BY <1>1, <1>2

\* A dependency follows its requirement.
LEMMA DependencyFollows ==
  ASSUME NEW n \in Nat, NEW f \in [1 .. n -> Requirement], Distinct(f),
         NEW prev, NEW j \in 1 .. n
  PROVE  Dependency(f, prev, f[j].id) = NewId(f, prev, j)
  <1>1. {m \in DOMAIN f : f[m].id = f[j].id} = {j}
    BY DEF Distinct
  <1>2. Largest({j}) = j
    BY DEF Largest
  <1> QED
    BY <1>1, <1>2 DEF Dependency

LEMMA EdgeOf ==
  ASSUME NEW f, NEW x
  PROVE  x \in Edges(f) <=>
           \E i, j \in DOMAIN f : /\ f[j].id \in f[i].deps
                                  /\ x = <<f[i].what, f[j].what>>
  <1> DEFINE P == {e \in (DOMAIN f) \X (DOMAIN f) : f[e[2]].id \in f[e[1]].deps}
  <1>1. Edges(f) = {<<f[e[1]].what, f[e[2]].what>> : e \in P}
    BY DEF Edges
  <1>2. ASSUME NEW i \in DOMAIN f, NEW j \in DOMAIN f, f[j].id \in f[i].deps
        PROVE  <<f[i].what, f[j].what>> \in Edges(f)
    <2>1. PICK e \in (DOMAIN f) \X (DOMAIN f) : e[1] = i /\ e[2] = j
      <3>1. <<i, j>> \in (DOMAIN f) \X (DOMAIN f)
        OBVIOUS
      <3> QED
        BY <3>1
    <2>2. e \in P
      BY <1>2, <2>1
    <2> HIDE DEF P
    <2> QED
      BY <1>1, <2>1, <2>2
  <1>3. ASSUME x \in Edges(f)
        PROVE  \E i, j \in DOMAIN f : /\ f[j].id \in f[i].deps
                                      /\ x = <<f[i].what, f[j].what>>
    <2>1. PICK e \in P : x = <<f[e[1]].what, f[e[2]].what>>
      BY <1>1, <1>3
    <2>2. e[1] \in DOMAIN f /\ e[2] \in DOMAIN f /\ f[e[2]].id \in f[e[1]].deps
      OBVIOUS
    <2> QED
      BY <2>1, <2>2
  <1> QED
    BY <1>2, <1>3

\* What the numbering of the requirements f keeps in g.
Keeps(f, g) ==
    /\ Distinct(g)
    /\ Edges(f) \subseteq Edges(g)
    /\ \A i, j \in DOMAIN g :
         g[j].id \in g[i].deps =>
           \/ <<g[i].what, g[j].what>> \in Edges(f)
           \/ g[j].id \in Dangling(f, g[i].what)

LEMMA NormalizedKeeps ==
  ASSUME NEW f \in Seq(Requirement), Distinct(f), NEW prev, Earlier(prev)
  PROVE  /\ \E n \in Nat : DOMAIN Normalized(f, prev) = 1 .. n
         /\ Keeps(f, Normalized(f, prev))
  <1> DEFINE g == Normalized(f, prev)
  <1>1. PICK n \in Nat : f \in [1 .. n -> Requirement]
    BY Len(f) \in Nat
  <1>2. \A i, j \in 1 .. n : NewId(f, prev, i) = NewId(f, prev, j) => i = j
    BY <1>1, NewIdsDistinct
  <1>3. /\ DOMAIN g = 1 .. n /\ DOMAIN f = 1 .. n
        /\ \A i \in 1 .. n :
             /\ g[i].id = NewId(f, prev, i) /\ g[i].what = f[i].what
             /\ g[i].deps = {Dependency(f, prev, d) : d \in f[i].deps}
    BY <1>1 DEF Normalized
  <1> HIDE DEF g
  <1>4. \A j \in 1 .. n : Dependency(f, prev, f[j].id) = NewId(f, prev, j)
    BY <1>1, DependencyFollows
  <1>5. Distinct(g)
    BY <1>2, <1>3 DEF Distinct
  <1>6. ASSUME NEW x \in Edges(f)
        PROVE  x \in Edges(g)
    <2>1. PICK i \in 1 .. n, j \in 1 .. n :
            f[j].id \in f[i].deps /\ x = <<f[i].what, f[j].what>>
      BY <1>3, EdgeOf
    <2>2. g[j].id \in g[i].deps /\ x = <<g[i].what, g[j].what>>
      BY <1>3, <1>4, <2>1
    <2> QED
      BY <1>3, <2>2, EdgeOf
  <1>7. ASSUME NEW i \in 1 .. n, NEW j \in 1 .. n, g[j].id \in g[i].deps
        PROVE  \/ <<g[i].what, g[j].what>> \in Edges(f)
               \/ g[j].id \in Dangling(f, g[i].what)
    <2>1. PICK d \in f[i].deps : NewId(f, prev, j) = Dependency(f, prev, d)
      BY <1>3, <1>7
    <2>2. CASE d \in Numbers(f)
      <3>1. PICK m \in 1 .. n : f[m].id = d
        BY <1>3, <2>2 DEF Numbers
      <3>2. NewId(f, prev, j) = NewId(f, prev, m)
        BY <1>4, <2>1, <3>1
      <3>3. j = m
        BY <1>2, <3>2
      <3>4. f[j].id \in f[i].deps /\ <<g[i].what, g[j].what>> = <<f[i].what, f[j].what>>
        BY <1>3, <3>1, <3>3
      <3> QED
        BY <1>3, <3>4, EdgeOf
    <2>3. CASE d \notin Numbers(f)
      <3>1. {m \in DOMAIN f : f[m].id = d} = {}
        BY <2>3 DEF Numbers
      <3>2. Dependency(f, prev, d) = d
        BY <3>1 DEF Dependency
      <3>3. g[j].id = d /\ d \in f[i].deps \ Numbers(f)
        BY <1>3, <2>1, <2>3, <3>2
      <3>4. i \in {k \in DOMAIN f : f[k].what = g[i].what}
        BY <1>3
      <3> QED
        BY <3>3, <3>4 DEF Dangling
    <2> QED
      BY <2>2, <2>3
  <1>8. Keeps(f, g)
    BY <1>3, <1>5, <1>6, <1>7 DEF Keeps
  <1> QED
    BY <1>3, <1>8 DEF g

\* The place of an earlier requirement is a number.
LEMMA PositionType ==
  ASSUME NEW f, NEW prev, NEW p \in Nat, DOMAIN prev = 1 .. p, Len(prev) = p,
         NEW i
  PROVE  Position(f, prev, i) \in Nat
  <1>1. ASSUME NEW S \in SUBSET (1 .. p), S # {}
        PROVE  (CHOOSE k \in S : \A m \in S : k <= m) \in Nat
    <2>1. S \in SUBSET Nat
      OBVIOUS
    <2>2. \E k \in S : \A m \in S : k <= m
      BY <1>1, <2>1, LeastNumber
    <2> QED
      BY <2>1, <2>2
  <1> DEFINE A == {k \in DOMAIN prev : prev[k].id = f[i].id}
             B == {k \in DOMAIN prev : prev[k].what = f[i].what}
  <1>2. A \in SUBSET (1 .. p) /\ B \in SUBSET (1 .. p)
    OBVIOUS
  <1>3. Position(f, prev, i) =
          IF A # {} THEN CHOOSE k \in A : \A m \in A : k <= m
          ELSE IF B # {} THEN CHOOSE k \in B : \A m \in B : k <= m
          ELSE Len(prev) + 1
    BY DEF Position
  <1> HIDE DEF A, B
  <1>4. CASE A # {}
    BY <1>1, <1>2, <1>3, <1>4
  <1>5. CASE A = {} /\ B # {}
    BY <1>1, <1>2, <1>3, <1>5
  <1>6. CASE A = {} /\ B = {}
    BY <1>3, <1>6
  <1> QED
    BY <1>4, <1>5, <1>6

LEMMA BeforeIsOrder ==
  ASSUME NEW n \in Nat, NEW f, DOMAIN f = 1 .. n, NEW prev, Earlier(prev)
  PROVE  StrictOrder(1 .. n, Before(f, prev))
  <1>1. PICK p \in Nat : prev \in [1 .. p -> Requirement]
    BY DEF Earlier
  <1> DEFINE at == [i \in 1 .. n |-> Position(f, prev, i)]
  <1>2. \A i \in 1 .. n : at[i] \in Nat
    BY <1>1, PositionType
  <1>3. \A i, j \in 1 .. n :
          <<i, j>> \in Before(f, prev) <=>
            (at[i] < at[j] \/ (at[i] = at[j] /\ i < j))
    BY DEF Before
  <1> HIDE DEF at
  <1>4. \A i, j, k \in 1 .. n :
          <<i, j>> \in Before(f, prev) /\ <<j, k>> \in Before(f, prev)
            => <<i, k>> \in Before(f, prev)
    BY <1>2, <1>3
  <1>5. \A i, j \in 1 .. n : i # j =>
          <<i, j>> \in Before(f, prev) \/ <<j, i>> \in Before(f, prev)
    BY <1>2, <1>3
  <1>6. \A i \in 1 .. n : <<i, i>> \notin Before(f, prev)
    BY <1>2, <1>3
  <1> QED
    BY <1>4, <1>5, <1>6 DEF StrictOrder

\* The order of the requirements says nothing about their dependencies.
LEMMA ReorderedKeeps ==
  ASSUME NEW n \in Nat, NEW f, DOMAIN f = 1 .. n, NEW prev, Earlier(prev),
         Distinct(f)
  PROVE  /\ Distinct(Reordered(f, prev)) /\ Edges(Reordered(f, prev)) = Edges(f)
         /\ \A k \in DOMAIN Reordered(f, prev) :
              \E i \in DOMAIN f : Reordered(f, prev)[k] = f[i]
  <1> DEFINE at == [k \in 1 .. n |-> Nth(1 .. n, Before(f, prev), k)]
             g == Reordered(f, prev)
  <1>1. IsFiniteSet(1 .. n) /\ Cardinality(1 .. n) = n
    BY FS_Interval
  <1>2. StrictOrder(1 .. n, Before(f, prev))
    BY BeforeIsOrder
  <1>3. /\ \A k \in 1 .. n : at[k] \in 1 .. n
        /\ \A k, m \in 1 .. n : at[k] = at[m] => k = m
        /\ \A i \in 1 .. n : \E k \in 1 .. n : at[k] = i
    <2>1. PICK S, R : S = 1 .. n /\ R = Before(f, prev)
      OBVIOUS
    <2>2. IsFiniteSet(S) /\ Cardinality(S) = n /\ StrictOrder(S, R)
      BY <1>1, <1>2, <2>1
    <2>3. /\ \A k \in 1 .. Cardinality(S) : Nth(S, R, k) \in S
          /\ \A k, m \in 1 .. Cardinality(S) :
               Nth(S, R, k) = Nth(S, R, m) => k = m
          /\ \A i \in S : \E k \in 1 .. Cardinality(S) : Nth(S, R, k) = i
      BY <2>2, NthIsBijection
    <2>4. \A k \in 1 .. n : at[k] = Nth(S, R, k)
      BY <2>1
    <2> HIDE DEF at
    <2>5. \A k \in 1 .. n : at[k] \in 1 .. n
      BY <2>1, <2>2, <2>3, <2>4
    <2>6. \A k, m \in 1 .. n : at[k] = at[m] => k = m
      BY <2>2, <2>3, <2>4
    <2>7. ASSUME NEW i \in 1 .. n
          PROVE  \E k \in 1 .. n : at[k] = i
      <3>1. PICK k \in 1 .. n : Nth(S, R, k) = i
        BY <2>1, <2>2, <2>3
      <3> QED
        BY <2>4, <3>1
    <2> QED
      BY <2>5, <2>6, <2>7
  <1>4. DOMAIN g = 1 .. n /\ \A k \in 1 .. n : g[k] = f[at[k]]
    <2>1. g = [k \in 1 .. n |-> f[Nth(1 .. n, Before(f, prev), k)]]
      BY DEF Reordered
    <2>2. \A k \in 1 .. n : at[k] = Nth(1 .. n, Before(f, prev), k)
      OBVIOUS
    <2> HIDE DEF at, g
    <2>3. DOMAIN g = 1 .. n
      BY <2>1
    <2>4. ASSUME NEW k \in 1 .. n
          PROVE  g[k] = f[at[k]]
      <3>1. g[k] = f[Nth(1 .. n, Before(f, prev), k)]
        BY <2>1
      <3> QED
        BY <2>2, <3>1
    <2> QED
      BY <2>3, <2>4
  <1> HIDE DEF at, g
  <1>5. Distinct(g)
    <2> SUFFICES ASSUME NEW k \in 1 .. n, NEW m \in 1 .. n, g[k].id = g[m].id
                 PROVE  k = m
      BY <1>4 DEF Distinct
    <2>1. f[at[k]].id = f[at[m]].id
      BY <1>4
    <2>2. at[k] = at[m]
      BY <1>3, <2>1 DEF Distinct
    <2> QED
      BY <1>3, <2>2
  <1>6. ASSUME NEW x
        PROVE  x \in Edges(f) <=>
                 \E i, j \in 1 .. n : /\ f[j].id \in f[i].deps
                                      /\ x = <<f[i].what, f[j].what>>
    BY EdgeOf
  <1>7. ASSUME NEW x
        PROVE  x \in Edges(g) <=>
                 \E i, j \in 1 .. n : /\ g[j].id \in g[i].deps
                                      /\ x = <<g[i].what, g[j].what>>
    BY <1>4, EdgeOf
  <1>8. ASSUME NEW x \in Edges(f)
        PROVE  x \in Edges(g)
    <2>1. PICK i \in 1 .. n, j \in 1 .. n :
            f[j].id \in f[i].deps /\ x = <<f[i].what, f[j].what>>
      BY <1>6
    <2>2. PICK a \in 1 .. n, b \in 1 .. n : at[a] = i /\ at[b] = j
      BY <1>3
    <2>3. g[a] = f[i] /\ g[b] = f[j]
      BY <1>4, <2>2
    <2>4. \E k, m \in 1 .. n : g[m].id \in g[k].deps /\ x = <<g[k].what, g[m].what>>
      BY <2>1, <2>3
    <2> QED
      BY <1>7, <2>4
  <1>9. ASSUME NEW x \in Edges(g)
        PROVE  x \in Edges(f)
    <2>1. PICK a \in 1 .. n, b \in 1 .. n :
            g[b].id \in g[a].deps /\ x = <<g[a].what, g[b].what>>
      BY <1>7
    <2>2. /\ at[a] \in 1 .. n /\ at[b] \in 1 .. n
          /\ f[at[b]].id \in f[at[a]].deps
          /\ x = <<f[at[a]].what, f[at[b]].what>>
      BY <1>3, <1>4, <2>1
    <2> QED
      BY <1>6, <2>2
  <1>10. \A k \in DOMAIN g : \E i \in DOMAIN f : g[k] = f[i]
    BY <1>3, <1>4
  <1> QED
    BY <1>5, <1>8, <1>9, <1>10 DEF g

---------------------------------------------------------------------------
(* The requirements of an analysis.                                        *)

\* Each requirement has its place as id.
Numbered(f) ==
    /\ f \in Seq(Requirement)
    /\ \A i \in DOMAIN f : f[i].id = i

\* The graph has dropped the earlier requirements.
LEMMA NumberedFromOne ==
  ASSUME NEW f \in Seq(Requirement)
  PROVE  Numbered(Normalized(f, << >>))
  <1> DEFINE g == Normalized(f, << >>)
  <1>1. PICK n \in Nat : f \in [1 .. n -> Requirement]
    BY Len(f) \in Nat
  <1>2. \A i \in 1 .. n : NewId(f, << >>, i) = i
    BY DEF NewId
  <1>3. /\ DOMAIN g = 1 .. n
        /\ \A i \in 1 .. n :
             g[i] = [id |-> NewId(f, << >>, i), what |-> f[i].what,
                     deps |-> {Dependency(f, << >>, d) : d \in f[i].deps}]
        /\ g = [i \in 1 .. n |-> g[i]]
    BY <1>1 DEF Normalized
  <1> HIDE DEF g
  <1>4. ASSUME NEW i \in 1 .. n, NEW d \in f[i].deps
        PROVE  Dependency(f, << >>, d) \in Nat
    <2> DEFINE same == {j \in DOMAIN f : f[j].id = d}
    <2>1. CASE same = {}
      <3>1. Dependency(f, << >>, d) = d
        BY <2>1 DEF Dependency
      <3>2. f[i].deps \in SUBSET Nat
        BY <1>1 DEF Requirement
      <3> QED
        BY <3>1, <3>2
    <2>2. CASE same # {}
      <3>1. same \in SUBSET (1 .. n) /\ same \in SUBSET (0 .. n)
        BY <1>1
      <3>2. Dependency(f, << >>, d) = NewId(f, << >>, Largest(same))
        BY <2>2 DEF Dependency
      <3> HIDE DEF same
      <3>3. Largest(same) \in 1 .. n
        BY <2>2, <3>1, LargestIsGreatest
      <3> QED
        BY <1>2, <3>2, <3>3
    <2> QED
      BY <2>1, <2>2
  <1>5. ASSUME NEW i \in 1 .. n
        PROVE  g[i] \in Requirement /\ g[i].id = i
    <2>1. f[i].what \in Contents
      BY <1>1 DEF Requirement
    <2>2. {Dependency(f, << >>, d) : d \in f[i].deps} \in SUBSET Nat
      BY <1>4
    <2>3. g[i].id = i
      BY <1>2, <1>3
    <2>4. i \in Nat
      OBVIOUS
    <2> QED
      BY <1>2, <1>3, <2>1, <2>2, <2>3, <2>4 DEF Requirement
  <1>6. g \in [1 .. n -> Requirement]
    BY <1>3, <1>5
  <1>7. g \in Seq(Requirement)
    BY <1>6
  <1> QED
    BY <1>3, <1>5, <1>7 DEF Numbered, g

LEMMA EmptyEarlier == Earlier(<< >>)
  <1>1. << >> \in [1 .. 0 -> Requirement]
    OBVIOUS
  <1> QED
    BY <1>1 DEF Earlier

PmNodes == {"requirement_analyzer", "stack_planner", "self_healing",
            "stack_crawling", "guardian", "sa_merge_project"}

\* The earlier requirements are numbered upwards, and until the SA nodes have
\* them the requirements of a run are numbered from 1.
RInv ==
    /\ Earlier(previous)
    /\ answer \in Seq(Requirement)
    /\ IF caller = "test" THEN node \in {"requirement_analyzer", "end"}
       ELSE node \in PmNodes => Numbered(features)

LEMMA InitRequirements ==
  ASSUME Init
  PROVE  RInv
  <1>1. Earlier(previous)
    BY RequestsEarlier, EmptyEarlier DEF Init
  <1>2. answer \in Seq(Requirement) /\ Numbered(features)
    BY DEF Init, Numbered
  <1> QED
    BY <1>1, <1>2 DEF Init, RInv

\* A step that leaves the requirements, and does not go back to the PM nodes.
LEMMA RequirementsKept ==
  ASSUME RInv, UNCHANGED <<request, features>>, answer' \in Seq(Requirement),
         \/ node' \in {node, "end"}
         \/ caller # "test" /\ (node \in PmNodes \/ node' \notin PmNodes)
  PROVE  RInv'
  <1>1. "end" \notin PmNodes
    BY DEF PmNodes
  <1> QED
    BY <1>1 DEF RInv, request, Numbered, Earlier

LEMMA NextRequirements ==
  ASSUME RInv, [Next]_vars
  PROVE  RInv'
  <1>1. CASE AnalyzerAnswers
    <2>1. UNCHANGED <<request, features>> /\ node = "requirement_analyzer"
      BY <1>1 DEF AnalyzerAnswers, saState, Call, Runs, Parallel
    <2>2. answer' \in Seq(Requirement)
      <3>1. PICK n \in 0 .. MaxFeatures : answer' \in Answers(n)
        BY <1>1 DEF AnalyzerAnswers
      <3>2. n \in Nat
        BY AnalysisAssumption
      <3> QED
        BY <3>1, <3>2, AnswerType
    <2>3. node' \in {node, "end"} \/ caller # "test"
      BY <1>1 DEF AnalyzerAnswers, AfterAnalyzer
    <2> QED
      BY <2>1, <2>2, <2>3, RequirementsKept DEF PmNodes
  <1>2. CASE requirement_analyzer_node
    <2>1. UNCHANGED request /\ answer' = << >> /\ answer' \in Seq(Requirement)
      BY <1>2 DEF requirement_analyzer_node
    <2>2. CASE caller = "test"
      <3>1. node' = "end"
        BY <1>2, <2>2 DEF requirement_analyzer_node, AfterAnalyzer
      <3> QED
        BY <2>1, <2>2, <3>1 DEF RInv, request, Earlier
    <2>3. CASE caller # "test"
      <3>1. features' = Normalized(answer, << >>)
        BY <1>2, <2>3 DEF requirement_analyzer_node, Received
      <3>2. PICK f : f = Normalized(answer, << >>)
        OBVIOUS
      <3>3. Numbered(f) /\ features' = f
        BY <3>1, <3>2, NumberedFromOne DEF RInv
      <3>4. Numbered(features)'
        BY <3>3 DEF Numbered
      <3>5. Earlier(previous)' /\ caller' = caller
        BY <2>1 DEF RInv, request, Earlier
      <3> QED
        BY <2>1, <2>3, <3>4, <3>5 DEF RInv
    <2> QED
      BY <2>2, <2>3
  <1>3. CASE sa_merge_project_node
    <2>1. /\ node = "sa_merge_project" /\ node' = "component_scheduler"
          /\ UNCHANGED <<request, answer>>
      BY <1>3 DEF sa_merge_project_node, Call, Runs, Parallel
    <2>2. caller' # "test" /\ node' \notin PmNodes
      BY <2>1 DEF RInv, PmNodes, request
    <2> QED
      BY <2>1, <2>2 DEF RInv, request, Earlier
  <1>4. CASE /\ UNCHANGED <<request, answer, features>>
             /\ \/ node' \in {node, "end"}
                \/ node \in PmNodes \ {"requirement_analyzer"}
                \/ /\ node \notin {"requirement_analyzer", "end"}
                   /\ node' \notin PmNodes
    BY <1>4, RequirementsKept DEF RInv, PmNodes
  <1>5. ASSUME NEW n \in LlmNodes, CallFails(n)
        PROVE  /\ UNCHANGED <<request, answer, features>>
               /\ node' = "end"
    BY <1>5 DEF CallFails, StreamFails, pmState
  <1>6. CASE \/ PlanNothing \/ stack_planner_node \/ SelfHealing
             \/ stack_crawling_node \/ GuardianRejects \/ GuardianChecks
    BY <1>4, <1>6
    DEF PlanNothing, stack_planner_node, SelfHealing, stack_crawling_node,
        GuardianRejects, GuardianChecks, Call, Runs, Parallel, PmNodes
  <1>7. CASE component_scheduler_node \/ sa_unified_modeler_node
    BY <1>4, <1>7
    DEF component_scheduler_node, sa_unified_modeler_node, Call, Runs,
        Parallel, PmNodes, pmState
  <1>8. CASE GuardianRaises
    BY <1>4, <1>8 DEF GuardianRaises, StreamFails, pmState
  <1>9. ASSUME NEW p \in Parallel,
               WriteSection(p) \/ Walk(p) \/ MergeUpdate(p)
        PROVE  /\ UNCHANGED <<request, answer, features>>
               /\ node' \in {node, "end"}
    BY <1>9 DEF WriteSection, Walk, MergeUpdate, StreamFails, pmState
  <1>10. CASE UNCHANGED vars
    BY <1>4, <1>10 DEF vars, pmState
  <1> QED
    BY <1>1, <1>2, <1>3, <1>4, <1>5, <1>6, <1>7, <1>8, <1>9, <1>10 DEF Next

\* The step into the SA nodes hands on what was found and, as they were, the
\* earlier requirements with numbers beyond.
LEMMA MergeKeeps ==
  ASSUME RInv, [Next]_vars,
         node = "sa_merge_project", node' = "component_scheduler"
  PROVE  /\ Distinct(rtm')
         /\ \A i \in DOMAIN features : rtm'[i] = features[i]
         /\ readable =>
              \A k \in DOMAIN previous :
                previous[k].id > Len(features) =>
                  \E i \in DOMAIN rtm' : rtm'[i] = previous[k]
  <1>1. sa_merge_project_node
    BY DEF Next, CallFails, StreamFails, AnalyzerAnswers, PlanNothing,
           requirement_analyzer_node, stack_planner_node, SelfHealing,
           stack_crawling_node, GuardianRejects, GuardianRaises,
           GuardianChecks, component_scheduler_node, sa_unified_modeler_node,
           WriteSection, Walk, MergeUpdate, Call, Runs, Parallel, vars
  <1>2. rtm' = Appended(features)
    BY <1>1 DEF sa_merge_project_node
  <1>3. Numbered(features)
    BY DEF RInv, PmNodes
  <1>4. /\ features \in Seq(Requirement) /\ Distinct(features)
        /\ \A i \in DOMAIN features : i <= Len(features) /\ features[i].id = i
    BY <1>3 DEF Numbered, Distinct
  <1>5. /\ Distinct(Appended(features))
        /\ \A i \in DOMAIN features : Appended(features)[i] = features[i]
        /\ readable => \A k \in DOMAIN previous :
             \/ \E i \in DOMAIN features : features[i].id = previous[k].id
             \/ \E i \in DOMAIN Appended(features) :
                  Appended(features)[i] = previous[k]
    BY <1>4, AppendedIsFull DEF RInv
  <1>6. PICK h : h = Appended(features)
    OBVIOUS
  <1>7. ASSUME readable, NEW k \in DOMAIN previous,
               previous[k].id > Len(features)
        PROVE  \E i \in DOMAIN h : h[i] = previous[k]
    <2>1. ASSUME NEW i \in DOMAIN features, features[i].id = previous[k].id
          PROVE  FALSE
      <3>1. previous[k].id = i /\ i <= Len(features) /\ i \in Nat
            /\ Len(features) \in Nat
        BY <1>4, <2>1
      <3> QED
        BY <1>7, <3>1
    <2> QED
      BY <1>5, <1>6, <1>7, <2>1
  <1> QED
    BY <1>2, <1>5, <1>6, <1>7

\* The SA nodes of an update get what the analysis found and, as it was, each
\* earlier requirement numbered beyond it, no number twice, whatever numbers the
\* model gave and however many requirements there are.
THEOREM EarlierKept == Spec => RtmKeepsEarlier
  <1>1. Init => RInv
    BY InitRequirements
  <1>2. RInv /\ [Next]_vars => RInv'
    BY NextRequirements
  <1>3. RInv /\ [Next]_vars =>
          [node = "sa_merge_project" /\ node' = "component_scheduler" =>
             /\ Distinct(rtm')
             /\ \A i \in DOMAIN features : rtm'[i] = features[i]
             /\ readable =>
                  \A k \in DOMAIN previous :
                    previous[k].id > Len(features) =>
                      \E i \in DOMAIN rtm' : rtm'[i] = previous[k]]_vars
    BY MergeKeeps
  <1> QED
    BY <1>1, <1>2, <1>3, PTL DEF Spec, RtmKeepsEarlier

\* The step that takes an answer keeps its dependencies.
LEMMA NumberingKeeps ==
  ASSUME RInv, [Next]_vars,
         answer # << >>, answer' = << >>, Distinct(answer)
  PROVE  Keeps(answer, features')
  <1>1. requirement_analyzer_node
    <2>1. ASSUME NEW p \in Parallel, WriteSection(p) \/ Walk(p) \/ MergeUpdate(p)
          PROVE  answer' = answer
      BY <2>1 DEF WriteSection, Walk, MergeUpdate, pmState
    <2> QED
      BY <2>1
      DEF Next, CallFails, AnalyzerAnswers, PlanNothing, stack_planner_node,
          SelfHealing, stack_crawling_node, GuardianRejects, GuardianRaises,
          GuardianChecks, sa_merge_project_node, component_scheduler_node,
          sa_unified_modeler_node, pmState, vars
  <1>2. Earlier(Received)
    BY EmptyEarlier DEF RInv, Received
  <1>3. PICK f : f = Normalized(answer, Received)
    OBVIOUS
  <1>4. (\E n \in Nat : DOMAIN f = 1 .. n) /\ Keeps(answer, f)
    BY <1>2, <1>3, NormalizedKeeps DEF RInv
  <1>5. PICK g : g = Reordered(f, Received)
    OBVIOUS
  <1>6. /\ Distinct(g) /\ Edges(g) = Edges(f)
        /\ \A k \in DOMAIN g : \E i \in DOMAIN f : g[k] = f[i]
    BY <1>2, <1>4, <1>5, ReorderedKeeps DEF Keeps
  <1>7. Keeps(answer, g)
    <2>1. ASSUME NEW i \in DOMAIN g, NEW j \in DOMAIN g, g[j].id \in g[i].deps
          PROVE  \/ <<g[i].what, g[j].what>> \in Edges(answer)
                 \/ g[j].id \in Dangling(answer, g[i].what)
      <3>1. PICK k \in DOMAIN f, m \in DOMAIN f : g[i] = f[k] /\ g[j] = f[m]
        BY <1>6
      <3> QED
        BY <1>4, <2>1, <3>1 DEF Keeps
    <2> QED
      BY <1>4, <1>6, <2>1 DEF Keeps
  <1>8. features' \in {f, g}
    BY <1>1, <1>3, <1>5 DEF requirement_analyzer_node
  <1> QED
    BY <1>4, <1>7, <1>8

\* New numbers and a new order keep every dependency between two requirements of
\* the answer, and make none but on a number that was named without being there,
\* for answers of any length with any numbers that differ.
THEOREM NumberingSound == Spec => NumberingKeepsDependencies
  <1>1. Init => RInv
    BY InitRequirements
  <1>2. RInv /\ [Next]_vars => RInv'
    BY NextRequirements
  <1>3. RInv /\ [Next]_vars =>
          [answer # << >> /\ answer' = << >> /\ Distinct(answer) =>
             /\ Distinct(features')
             /\ Edges(answer) \subseteq Edges(features')
             /\ \A i, j \in DOMAIN features' :
                  features'[j].id \in features'[i].deps =>
                    \/ <<features'[i].what, features'[j].what>> \in Edges(answer)
                    \/ features'[j].id \in Dangling(answer, features'[i].what)]_vars
    BY NumberingKeeps DEF Keeps
  <1> QED
    BY <1>1, <1>2, <1>3, PTL DEF Spec, NumberingKeepsDependencies

---------------------------------------------------------------------------
(* An analysis gets shorter.                                               *)

Loop == {"stack_crawling", "guardian", "stack_planner", "self_healing"}
Nodes == {"requirement_analyzer", "sa_merge_project", "component_scheduler",
          "sa_unified_modeler", "parallel", "end"} \cup Loop

\* The parallel nodes are under way only while the runner waits for them.
UnderWay ==
    /\ node \in Nodes
    /\ phase \in [Parallel -> Phases]
    /\ node \notin {"parallel", "end"} => \A p \in Parallel : phase[p] = "idle"
    /\ node = "end" /\ outcome = "running" =>
         \A p \in Parallel : phase[p] = "idle"

\* How many steps the nodes still to come may take; a pass of the planner may
\* be followed by another one until it has ended twice.
ToGo(n) ==
    CASE n = "end" -> 0
      [] n = "parallel" -> 1
      [] n = "sa_unified_modeler" -> 8
      [] n = "component_scheduler" -> 9
      [] n = "sa_merge_project" -> 10
      [] n = "self_healing" -> 11
      [] n = "stack_planner" -> 12
      [] n = "guardian" -> 13
      [] n = "stack_crawling" -> 14
      [] n = "requirement_analyzer" -> 21

PhaseToGo(p) ==
    CASE phase[p] = "running" -> 3
      [] phase[p] = "written" -> 2
      [] phase[p] = "walked" -> 1
      [] OTHER -> 0

Left ==
    CASE node \in Loop -> ToGo(node) + 4 * (2 - loops)
      [] node = "requirement_analyzer" /\ answer = << >> -> ToGo(node) + 1
      [] node = "parallel" ->
           ToGo(node) + PhaseToGo("sa_test_analysis")
                      + PhaseToGo("sa_project_structure")
      [] OTHER -> ToGo(node)

LEMMA NextUnderWay ==
  ASSUME UnderWay, [Next]_vars
  PROVE  UnderWay'
  <1>1. CASE /\ UNCHANGED phase
             /\ node' \in Nodes
             /\ node \notin {"parallel", "end"}
    BY <1>1 DEF UnderWay
  <1>2. CASE \/ AnalyzerAnswers \/ requirement_analyzer_node
             \/ PlanNothing \/ stack_crawling_node
             \/ GuardianRejects \/ GuardianChecks
             \/ sa_merge_project_node \/ component_scheduler_node
    BY <1>1, <1>2
    DEF AnalyzerAnswers, requirement_analyzer_node, AfterAnalyzer, PlanNothing,
        Pass, Route, stack_crawling_node, GuardianRejects, GuardianChecks,
        Judged, sa_merge_project_node, component_scheduler_node, Call, Runs,
        Parallel, Nodes, Loop, UnderWay, pmState, saState
  <1>3. CASE stack_planner_node \/ SelfHealing
    <2>1. /\ UNCHANGED phase
          /\ node \in {"stack_planner", "self_healing"}
      BY <1>3 DEF stack_planner_node, SelfHealing, Call, Runs, Parallel, saState
    <2>2. node' \in {"self_healing", "stack_crawling", "sa_merge_project"}
      BY <1>3 DEF stack_planner_node, SelfHealing, Pass, Route
    <2> QED
      BY <1>1, <2>1, <2>2 DEF Nodes, Loop
  <1>4. CASE sa_unified_modeler_node
    BY <1>4 DEF sa_unified_modeler_node, UnderWay, Phases, Nodes
  <1>5. CASE node' = "end" /\ outcome' = "error" /\ UNCHANGED phase
    BY <1>5 DEF UnderWay, Nodes
  <1>6. ASSUME NEW n \in LlmNodes, CallFails(n)
        PROVE  node' = "end" /\ outcome' = "error" /\ UNCHANGED phase
    BY <1>6 DEF CallFails, StreamFails, saState
  <1>7. CASE GuardianRaises
    BY <1>5, <1>7 DEF GuardianRaises, StreamFails, saState
  <1>8. ASSUME NEW p \in Parallel,
               WriteSection(p) \/ Walk(p) \/ MergeUpdate(p)
        PROVE  UnderWay'
    <2>1. node = "parallel"
      BY <1>8
      DEF WriteSection, Walk, MergeUpdate, Call, Runs, UnderWay
    <2>2. phase' \in [Parallel -> Phases]
      BY <1>8 DEF WriteSection, Walk, MergeUpdate, UnderWay, Phases
    <2>3. node' = node \/ (node' = "end" /\ outcome' # "running")
      BY <1>8 DEF WriteSection, Walk, MergeUpdate, StreamFails
    <2> QED
      BY <2>1, <2>2, <2>3 DEF UnderWay, Nodes
  <1>9. CASE UNCHANGED vars
    BY <1>9 DEF UnderWay, vars, saState
  <1> QED
    BY <1>2, <1>3, <1>4, <1>5, <1>6, <1>7, <1>8, <1>9 DEF Next

\* A node that is not the end has a step to go, and the end none.
LeftBounded == Left \in 0 .. 22 /\ (node = "end" <=> Left = 0)

LEMMA LeftType ==
  ASSUME UnderWay, CrawledOnce
  PROVE  LeftBounded
  <1>1. PhaseToGo("sa_test_analysis") \in 0 .. 3
        /\ PhaseToGo("sa_project_structure") \in 0 .. 3
    BY DEF PhaseToGo
  <1>2. CASE node \in Loop
    BY <1>2 DEF Left, Loop, ToGo, CrawledOnce, LeftBounded
  <1>3. CASE node \in Nodes \ Loop
    BY <1>1, <1>3 DEF Left, Loop, Nodes, ToGo, LeftBounded
  <1> QED
    BY <1>2, <1>3 DEF UnderWay

LEMMA NextShorter ==
  ASSUME UnderWay, CrawledOnce, CrawledOnce', LeftBounded, LeftBounded', Next
  PROVE  Left' < Left
  <1>1. /\ Left \in Nat /\ (node = "end" <=> Left = 0)
        /\ Left' \in Nat /\ (node' = "end" <=> Left' = 0)
    BY DEF LeftBounded
  <1>2. CASE node # "end" /\ node' = "end"
    BY <1>1, <1>2
  <1>3. CASE AnalyzerAnswers
    <2>1. node = "requirement_analyzer" /\ answer = << >>
      BY <1>3 DEF AnalyzerAnswers, Call, Runs, Parallel
    <2>2. Left = 22
      BY <2>1 DEF Left, Loop, ToGo
    <2>3. CASE node' = "requirement_analyzer" /\ answer' # << >>
      <3>1. Left' = 21
        BY <2>3 DEF Left, Loop, ToGo
      <3> QED
        BY <2>2, <3>1
    <2>4. CASE node' = "stack_planner"
      <3>1. Left' <= 20
        BY <2>4 DEF Left, Loop, ToGo, CrawledOnce
      <3> QED
        BY <1>1, <2>2, <3>1
    <2>5. CASE node' = "end"
      BY <1>2, <2>1, <2>5
    <2> QED
      BY <1>3, <2>1, <2>3, <2>4, <2>5 DEF AnalyzerAnswers, AfterAnalyzer
  <1>4. CASE requirement_analyzer_node
    <2>1. node = "requirement_analyzer" /\ node' \in {"stack_planner", "end"}
      BY <1>4 DEF requirement_analyzer_node, AfterAnalyzer
    <2>2. Left >= 21
      BY <2>1 DEF Left, Loop, ToGo
    <2>3. CASE node' = "stack_planner"
      <3>1. Left' <= 20
        BY <2>3 DEF Left, Loop, ToGo, CrawledOnce
      <3> QED
        BY <1>1, <2>2, <3>1
    <2> QED
      BY <1>2, <2>1, <2>3
  <1>5. ASSUME node \in {"stack_planner", "self_healing"}, NEW m, Pass(m)
        PROVE  Left' < Left
    <2>1. loops \in 0 .. 1 /\ loops' = loops + 1
      BY <1>5 DEF CrawledOnce, Pass
    <2>2. Left >= 11 + 4 * (2 - loops)
      BY <1>5, <2>1 DEF Left, Loop, ToGo
    <2>3. CASE node' = "stack_crawling"
      <3>1. Left' = 14 + 4 * (2 - loops')
        BY <2>3 DEF Left, Loop, ToGo
      <3> QED
        BY <1>1, <2>1, <2>2, <3>1
    <2>4. CASE node' = "sa_merge_project"
      <3>1. Left' = 10
        BY <2>4 DEF Left, Loop, ToGo
      <3> QED
        BY <1>1, <2>1, <2>2, <3>1
    <2> QED
      BY <1>5, <2>3, <2>4 DEF Pass, Route
  <1>6. CASE PlanNothing
    BY <1>5, <1>6 DEF PlanNothing
  <1>7. CASE stack_planner_node
    <2>1. node = "stack_planner"
      BY <1>7 DEF stack_planner_node, Call, Runs, Parallel
    <2>2. CASE node' = "self_healing" /\ loops' = loops
      BY <2>1, <2>2 DEF Left, Loop, ToGo, CrawledOnce
    <2> QED
      BY <1>5, <1>7, <2>1, <2>2 DEF stack_planner_node
  <1>8. CASE SelfHealing
    <2>1. node = "self_healing"
      BY <1>8 DEF SelfHealing, Call, Runs, Parallel
    <2>2. PICK m : Pass(m)
      BY <1>8 DEF SelfHealing
    <2> QED
      BY <1>5, <2>1, <2>2
  <1>9. CASE stack_crawling_node
    <2>1. node = "stack_crawling" /\ node' = "guardian" /\ loops' = loops
      BY <1>9 DEF stack_crawling_node
    <2> QED
      BY <2>1 DEF Left, Loop, ToGo, CrawledOnce
  <1>10. CASE GuardianRejects \/ GuardianChecks
    <2>1. node = "guardian" /\ node' = "stack_planner" /\ loops' = loops
      BY <1>10 DEF GuardianRejects, GuardianChecks, Judged, Call, Runs, Parallel
    <2> QED
      BY <2>1 DEF Left, Loop, ToGo, CrawledOnce
  <1>11. CASE GuardianRaises
    BY <1>2, <1>11 DEF GuardianRaises, StreamFails
  <1>12. CASE sa_merge_project_node
    <2>1. node = "sa_merge_project" /\ node' = "component_scheduler"
      BY <1>12 DEF sa_merge_project_node, Call, Runs, Parallel
    <2> QED
      BY <2>1 DEF Left, Loop, ToGo
  <1>13. CASE component_scheduler_node
    <2>1. node = "component_scheduler" /\ node' = "sa_unified_modeler"
      BY <1>13 DEF component_scheduler_node, Call, Runs, Parallel
    <2> QED
      BY <2>1 DEF Left, Loop, ToGo
  <1>14. CASE sa_unified_modeler_node
    <2>1. node = "sa_unified_modeler" /\ node' = "parallel"
      BY <1>14 DEF sa_unified_modeler_node, Call, Runs, Parallel
    <2>2. phase' = [p \in Parallel |-> "running"]
      BY <1>14 DEF sa_unified_modeler_node
    <2>3. Left = 8
      BY <2>1 DEF Left, Loop, ToGo
    <2>4. Left' = 7
      BY <2>1, <2>2 DEF Left, Loop, ToGo, PhaseToGo, Parallel
    <2> QED
      BY <2>3, <2>4
  <1>15. ASSUME NEW n \in LlmNodes, CallFails(n)
         PROVE  Left' < Left
    <2>1. node' = "end"
      BY <1>15 DEF CallFails, StreamFails
    <2>2. node # "end"
      BY <1>15 DEF CallFails, Call, Runs, LlmNodes, UnderWay
    <2> QED
      BY <1>2, <2>1, <2>2
  <1>16. ASSUME NEW p \in Parallel,
                WriteSection(p) \/ Walk(p) \/ MergeUpdate(p)
         PROVE  Left' < Left
    <2>1. node = "parallel"
      BY <1>16 DEF WriteSection, Walk, MergeUpdate, Call, Runs, UnderWay
    <2>2. node' \in {"parallel", "end"}
      BY <1>16, <2>1 DEF WriteSection, Walk, MergeUpdate, StreamFails
    <2>3. PhaseToGo(p)' < PhaseToGo(p)
      BY <1>16
      DEF WriteSection, Walk, MergeUpdate, Call, Runs, PhaseToGo, UnderWay
    <2>4. ASSUME NEW q \in Parallel, q # p
          PROVE  PhaseToGo(q)' = PhaseToGo(q)
      BY <1>16, <2>4
      DEF WriteSection, Walk, MergeUpdate, PhaseToGo, UnderWay
    <2>5. ASSUME NEW q
          PROVE  PhaseToGo(q) \in Nat /\ PhaseToGo(q)' \in Nat
      BY DEF PhaseToGo
    <2>6. CASE node' = "parallel"
      <3>1. Left = 1 + PhaseToGo("sa_test_analysis")
                     + PhaseToGo("sa_project_structure")
        BY <2>1 DEF Left, Loop, ToGo
      <3>2. Left' = 1 + PhaseToGo("sa_test_analysis")'
                      + PhaseToGo("sa_project_structure")'
        BY <2>6 DEF Left, Loop, ToGo
      <3> QED
        BY <2>3, <2>4, <2>5, <3>1, <3>2 DEF Parallel
    <2> QED
      BY <1>2, <2>1, <2>2, <2>6
  <1> QED
    BY <1>3, <1>4, <1>6, <1>7, <1>8, <1>9, <1>10, <1>11, <1>12, <1>13, <1>14,
       <1>15, <1>16
    DEF Next

\* Every step of an analysis brings it nearer to its end, which is reached when
\* nothing is left to go: no analysis has more than 22 steps, whatever the
\* model and the registries answer (_route_stack_planning, loop_count).
THEOREM AnalysisShortens ==
  Spec => []LeftBounded /\ [][Left' < Left]_vars
  <1>1. Init => UnderWay /\ CrawledOnce
    BY DEF Init, UnderWay, CrawledOnce, Nodes, Phases
  <1>2. UnderWay /\ [Next]_vars => UnderWay'
    BY NextUnderWay
  <1>3. CrawledOnce /\ [Next]_vars => CrawledOnce'
    BY NextCrawledOnce
  <1>4. UnderWay /\ CrawledOnce => LeftBounded
    BY LeftType
  <1>5. /\ UnderWay /\ CrawledOnce /\ CrawledOnce'
        /\ LeftBounded /\ LeftBounded' /\ [Next]_vars
        => [Left' < Left]_vars
    BY NextShorter
  <1> QED
    BY <1>1, <1>2, <1>3, <1>4, <1>5, PTL DEF Spec
===========================================================================
