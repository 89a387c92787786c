-------------------------- MODULE AnalysisPipeline --------------------------
(***************************************************************************)
(* One analysis: the PM graph, then the SA graph, as the runner streams    *)
(* them.  A node is a step or, when it asks the language model, waits for  *)
(* the answer; the last two nodes run at once in threads of their own, and *)
(* both write into the bundle object the state holds.                      *)
(*                                                                         *)
(* Prompts, descriptions, versions and cost are left out.  An id is its    *)
(* number; 0 stands for an id that is not FEAT_ and a number.  A package   *)
(* has the number of the requirement it was looked up for.                 *)
(* "Fault:" marks a wrong version of the definition after it.              *)
(***************************************************************************)
EXTENDS Naturals, Sequences, FiniteSets

CONSTANTS
    Contents,     \* what a requirement asks for
    MaxNumber,    \* bound: numbers of ids in an answer
    MaxFeatures,  \* bound: requirements of an answer, and of the request
    MaxDeps,      \* bound: dependencies a requirement of an answer names
    MaxResults    \* bound: metadata found by one crawl

ASSUME AnalysisAssumption ==
    /\ MaxNumber \in Nat /\ MaxFeatures \in Nat
    /\ MaxDeps \in Nat /\ MaxResults \in Nat

Modes == {"CREATE", "UPDATE", "REVERSE_ENGINEER"}
Registries == <<"npm", "github", "pypi">>
Sources == {"npm", "github", "pypi"}
Qualities == {"fine", "refused", "no licence"}
Items == {"approved", "unfounded", "pending"}
Parallel == {"sa_test_analysis", "sa_project_structure"}
LlmNodes == Parallel \cup
    {"requirement_analyzer", "stack_planner", "self_healing", "guardian",
     "sa_merge_project", "component_scheduler", "sa_unified_modeler"}

NoResult == [package |-> 0, source |-> "none", quality |-> "none"]

VARIABLES
    caller,    \* "runner", or "test": the tests call the first node directly
    mode,      \* action_type
    previous,  \* the requirements of the analysis that is updated
    readable,  \* its JSON can be parsed
    manifest,  \* the folder has dependency files
    node,      \* the node that runs, "parallel" for the last two
    answer,    \* requirements as the model numbered them, not yet taken
    features,  \* requirements
    mapping,   \* stack_planner_output: an item for each mapped requirement
    loops,     \* loop_count
    crawled,   \* stack_crawler_output
    guardian,  \* guardian_output
    passed,    \* history: metadata the model has found harmless
    known,     \* history: metadata shown to the planner
    rtm,       \* the requirements the SA nodes get
    phase,     \* the last two nodes
    bundle,    \* the sections in the bundle object they share
    shown,     \* the sections of the bundle as the runner has merged it
    outcome    \* what the client is told

request == <<caller, mode, previous, readable, manifest>>
pmState == <<answer, features, mapping, loops, crawled, guardian, passed, known>>
saState == <<rtm, phase, bundle, shown>>
vars == <<request, node, pmState, saState, outcome>>

Distinct(f) == \A i, j \in DOMAIN f : f[i].id = f[j].id => i = j

\* What a client may send along: numbered requirements without gaps in order.
Requests ==
    UNION {{f \in [1 .. n -> [id : 1 .. MaxNumber, what : Contents, deps : {{}}]] :
              \A i, j \in 1 .. n : i < j => f[i].id < f[j].id /\ f[i].what # f[j].what} :
           n \in 0 .. MaxFeatures}

\* What the model may answer with n requirements.  It may give a number twice,
\* and name as a dependency a number that nothing in its answer has.
Answers(n) ==
    [1 .. n -> [id : 0 .. MaxNumber, what : Contents,
                deps : {d \in SUBSET (0 .. MaxNumber) : Cardinality(d) <= MaxDeps}]]

Init ==
    /\ caller \in {"runner", "test"}
    /\ mode \in Modes
    /\ previous \in (IF mode = "UPDATE" THEN Requests ELSE {<< >>})
    /\ readable \in (IF mode = "UPDATE" THEN BOOLEAN ELSE {FALSE})
    /\ manifest \in (IF mode = "REVERSE_ENGINEER" THEN BOOLEAN ELSE {FALSE})
    /\ node = "requirement_analyzer"
    /\ answer = << >> /\ features = << >>
    /\ mapping = << >> /\ loops = 0
    /\ crawled = {} /\ guardian = [status |-> "none", data |-> NoResult]
    /\ passed = {} /\ known = {}
    /\ rtm = << >>
    /\ phase = [p \in Parallel |-> "idle"]
    /\ bundle = {} /\ shown = {}
    /\ outcome = "running"

(***************************************************************************)
(* Calls of the language model.                                            *)
(***************************************************************************)

Runs(n) == IF n \in Parallel THEN phase[n] = "running" ELSE node = n

\* Fault: the error is reported and the stream read on.
StreamFailsOpen ==
    /\ outcome' = "error" /\ UNCHANGED node

\* The stream ends at the first node that reports an error or raises.
StreamFails ==
    /\ outcome' = "error" /\ node' = "end"

\* call_structured: invocations that raise are repeated, at most three in all,
\* before the call ends with an answer or an exception.
Call(n) == outcome = "running" /\ Runs(n)

\* It raises when the last invocation did, or an answer could not be parsed,
\* which is not repeated.  The guardian rejects instead.
CallFails(n) ==
    /\ Call(n) /\ n # "guardian"
    /\ StreamFails
    /\ UNCHANGED <<request, pmState, saState>>

(***************************************************************************)
(* requirement_analyzer.                                                   *)
(***************************************************************************)

\* PipelineState has no field for previous_features: the graph drops them.
Received == IF caller = "test" THEN previous ELSE << >>

Numbers(f) == {f[i].id : i \in DOMAIN f}
Largest(S) == IF S = {} THEN 0 ELSE CHOOSE n \in S : \A m \in S : m <= n

\* The k-th number from start on that no requirement of f has.
Unused(f, start, k) ==
    CHOOSE n \in start .. start + 2 * Len(f) :
      /\ n \notin Numbers(f)
      /\ Cardinality({m \in start .. n : m \notin Numbers(f)}) = k

\* _normalize_feature_ids: an update keeps the ids that are well formed.
NewId(f, prev, i) ==
    IF mode # "UPDATE" \/ prev = << >> THEN i
    ELSE IF f[i].id # 0 THEN f[i].id
    ELSE Unused(f, Largest(Numbers(prev)) + 1,
                Cardinality({j \in 1 .. i : f[j].id = 0}))

\* Fault: dependencies keep the ids the model gave.
DependencyAsAnswered(f, prev, d) == d

\* id_map: of requirements with the same id the last counts, and an id that
\* nothing has stays as it is.
Dependency(f, prev, d) ==
    LET same == {j \in DOMAIN f : f[j].id = d}
    IN IF same = {} THEN d ELSE NewId(f, prev, Largest(same))

Normalized(f, prev) ==
    [i \in DOMAIN f |->
      [id |-> NewId(f, prev, i), what |-> f[i].what,
       deps |-> {Dependency(f, prev, d) : d \in f[i].deps}]]

\* The k-th element of S in the order R, a set of pairs.
Nth(S, R, k) ==
    CHOOSE i \in S : Cardinality({j \in S : <<j, i>> \in R}) = k - 1

\* _reorder_for_update: what was there before comes first, in its old order.
Position(f, prev, i) ==
    LET sameId == {k \in DOMAIN prev : prev[k].id = f[i].id}
        sameText == {k \in DOMAIN prev : prev[k].what = f[i].what}
        First(S) == CHOOSE k \in S : \A m \in S : k <= m
    IN IF sameId # {} THEN First(sameId)
       ELSE IF sameText # {} THEN First(sameText) ELSE Len(prev) + 1

Before(f, prev) ==
    {e \in (DOMAIN f) \X (DOMAIN f) :
       LET j == Position(f, prev, e[1])
           i == Position(f, prev, e[2])
       IN j < i \/ (j = i /\ e[1] < e[2])}

Reordered(f, prev) ==
    [k \in DOMAIN f |-> f[Nth(DOMAIN f, Before(f, prev), k)]]

\* A test stops here.
AfterAnalyzer == IF caller = "test" THEN "end" ELSE "stack_planner"

AnalyzerAnswers ==
    /\ Call("requirement_analyzer") /\ answer = << >>
    /\ \E n \in 0 .. MaxFeatures : \E f \in Answers(n) :
         /\ answer' = f
         /\ node' = IF f = << >> THEN AfterAnalyzer ELSE node
    /\ UNCHANGED <<request, features, mapping, loops, crawled, guardian,
                   passed, known, saState, outcome>>

\* The rest of the node.
requirement_analyzer_node ==
    LET f == Normalized(answer, Received)
    IN /\ node = "requirement_analyzer" /\ answer # << >>
       /\ features' = IF mode = "UPDATE" /\ Received # << >>
                      THEN Reordered(f, Received) ELSE f
       /\ answer' = << >>
       /\ node' = AfterAnalyzer
       /\ UNCHANGED <<request, mapping, loops, crawled, guardian, passed,
                      known, saState, outcome>>

(***************************************************************************)
(* stack_planner, and its loop through stack_crawling and guardian.        *)
(***************************************************************************)

Restricted(m, S) == [i \in DOMAIN m \cap S |-> m[i]]

\* An item with no evidence is told apart where there is any.
Told == IF manifest THEN Items ELSE Items \ {"unfounded"}

\* _filter_stack_mapping_against_evidence, where there is evidence.  A pending
\* item names no package yet.
Founded(m) ==
    IF mode = "REVERSE_ENGINEER" /\ manifest
    THEN Restricted(m, {i \in DOMAIN m : m[i] # "unfounded"}) ELSE m

\* More than three in ten, and more than one, are not mapped.
TooFew(m) ==
    LET all == Cardinality(Numbers(features))
        missing == Cardinality(Numbers(features) \ DOMAIN m)
    IN missing > Largest({1, (3 * all) \div 10})

Pending(m) == {i \in DOMAIN m : m[i] = "pending"}

\* _route_stack_planning, after loop_count was increased.
Route(m, count) ==
    IF count < 2 /\ Pending(m) # {} THEN "stack_crawling" ELSE "sa_merge_project"

\* The end of a pass of the node.
Pass(m) ==
    /\ mapping' = m /\ loops' = loops + 1
    /\ node' = Route(m, loops + 1)

Shown == IF guardian.status = "APPROVED" THEN {guardian.data} ELSE {}

PlanNothing ==
    /\ node = "stack_planner" /\ features = << >>
    /\ Pass(<< >>)
    /\ UNCHANGED <<request, answer, features, crawled, guardian, passed,
                   known, saState, outcome>>

stack_planner_node ==
    /\ Call("stack_planner") /\ features # << >>
    /\ known' = known \cup Shown
    /\ \E S \in SUBSET Numbers(features) : \E m \in [S -> Told] :
         IF TooFew(Founded(m))
         THEN mapping' = Founded(m) /\ node' = "self_healing" /\ loops' = loops
         ELSE Pass(Founded(m))
    /\ UNCHANGED <<request, answer, features, crawled, guardian, passed,
                   saState, outcome>>

\* The second call is for the missing requirements.  Its items win, and they
\* are not compared with the evidence again.
SelfHealing ==
    /\ Call("self_healing")
    /\ \E S \in SUBSET Numbers(features) : \E m \in [S -> Told] :
         Pass([i \in DOMAIN mapping \cup DOMAIN m |->
                IF i \in DOMAIN m THEN m[i] ELSE mapping[i]])
    /\ UNCHANGED <<request, answer, features, crawled, guardian, passed,
                   known, saState, outcome>>

\* What has been found, S for the packages and the registries that have them.
Found(S, quality) ==
    {[package |-> x[1], source |-> x[2], quality |-> quality[x]] : x \in S}

\* A query that is refused finds nothing, fetch_with_retry gives up quietly, and
\* so does a handler: any part of what the three registries have is possible.
stack_crawling_node ==
    /\ node = "stack_crawling"
    /\ \E S \in SUBSET (Pending(mapping) \X Sources) :
         /\ Cardinality(S) <= MaxResults
         /\ \E quality \in [S -> Qualities] : crawled' = Found(S, quality)
    /\ node' = "guardian"
    /\ UNCHANGED <<request, answer, features, mapping, loops, guardian,
                   passed, known, saState, outcome>>

\* merge_sources: the first of the best registry, whatever it was asked for.
Merged ==
    LET Rank(r) == CHOOSE k \in DOMAIN Registries : Registries[k] = r.source
    IN {r \in crawled : \A s \in crawled : Rank(r) <= Rank(s)}

\* Nothing reads the metadata again.
Judged(status, data) ==
    /\ guardian' = [status |-> status, data |-> data]
    /\ crawled' = {}
    /\ node' = "stack_planner"

\* No metadata, or rule_based_filter refuses them.
GuardianRejects ==
    /\ outcome = "running" /\ node = "guardian"
    /\ \/ crawled = {} /\ Judged("REJECTED", NoResult)
       \/ \E r \in Merged : r.quality = "refused"
                            /\ Judged("REJECTED", r)
    /\ UNCHANGED <<request, answer, features, mapping, loops, passed,
                   known, saState, outcome>>

\* The licence is None: rule_based_filter raises.
GuardianRaises ==
    /\ outcome = "running" /\ node = "guardian"
    /\ \E r \in Merged : r.quality = "no licence"
    /\ StreamFails
    /\ UNCHANGED <<request, pmState, saState>>

\* Fault: a check that failed counts as passed.
UncheckedStatus == "APPROVED"

\* Fail-closed.
CheckFailedStatus == "REJECTED"

\* llm_semantic_check: the model finds the package harmless or not, or fails.
GuardianChecks ==
    /\ Call("guardian")
    /\ \E r \in Merged :
         /\ r.quality = "fine"
         /\ \/ Judged("APPROVED", r) /\ passed' = passed \cup {r}
            \/ Judged("REJECTED", r) /\ UNCHANGED passed
            \/ Judged(CheckFailedStatus, r) /\ UNCHANGED passed
    /\ UNCHANGED <<request, answer, features, mapping, loops, known,
                   saState, outcome>>

(***************************************************************************)
(* The SA graph.                                                           *)
(***************************************************************************)

\* Fault: every earlier requirement is appended.
AppendedUnchecked(f) == IF readable THEN f \o previous ELSE f

\* Earlier requirements whose id is not there are appended, in place.
Missing(f) == {k \in DOMAIN previous : previous[k].id \notin Numbers(f)}

Appended(f) ==
    LET missing == Missing(f)
        less == {e \in missing \X missing : e[1] < e[2]}
    IN IF readable
       THEN f \o [k \in 1 .. Cardinality(missing) |->
                     previous[Nth(missing, less, k)]]
       ELSE f

sa_merge_project_node ==
    /\ Call("sa_merge_project")
    /\ features' = Appended(features)
    /\ rtm' = features'
    /\ node' = "component_scheduler"
    /\ UNCHANGED <<request, answer, mapping, loops, crawled, guardian,
                   passed, known, phase, bundle, shown, outcome>>

component_scheduler_node ==
    /\ Call("component_scheduler")
    /\ node' = "sa_unified_modeler"
    /\ UNCHANGED <<request, pmState, saState, outcome>>

\* The new bundle goes into the state; the two edges fan out.
sa_unified_modeler_node ==
    /\ Call("sa_unified_modeler")
    /\ node' = "parallel"
    /\ phase' = [p \in Parallel |-> "running"]
    /\ bundle' = {} /\ shown' = {}
    /\ UNCHANGED <<request, pmState, rtm, outcome>>

\* bundle["data"][...] is set in the object itself.
Written(p) == bundle \cup {p}

\* A node writes its section into the object and returns the object.  The
\* runner's walk over it raises when a key is added before it is done.
WriteSection(p) ==
    /\ Call(p)
    /\ phase' = [phase EXCEPT ![p] = "written"]
    /\ bundle' = Written(p)
    /\ IF \E q \in Parallel : phase[q] = "walked" THEN StreamFails
       ELSE UNCHANGED <<node, outcome>>
    /\ UNCHANGED <<request, pmState, rtm, shown>>

\* to_serializable begins to walk over the object the update carries.
Walk(p) ==
    /\ outcome = "running" /\ phase[p] = "written"
    /\ \A q \in Parallel : phase[q] # "walked"
    /\ phase' = [phase EXCEPT ![p] = "walked"]
    /\ UNCHANGED <<request, node, pmState, rtm, bundle, shown, outcome>>

\* Fault: an update carries a copy with the section of its node only.
OwnSection(p) == {p}

\* The update carries the object itself.
Sections(p) == bundle

\* _merge_state: the later update's data replace the earlier one's.  When both
\* are in, the result is shaped and sent.
MergeUpdate(p) ==
    /\ outcome = "running" /\ phase[p] = "walked"
    /\ phase' = [phase EXCEPT ![p] = "merged"]
    /\ shown' = Sections(p)
    /\ IF \A q \in Parallel : phase'[q] = "merged"
       THEN outcome' = "result" /\ node' = "end"
       ELSE UNCHANGED <<outcome, node>>
    /\ UNCHANGED <<request, pmState, rtm, bundle>>

(***************************************************************************)
(* The specification.                                                      *)
(***************************************************************************)

Next ==
    \/ \E n \in LlmNodes : CallFails(n)
    \/ AnalyzerAnswers \/ requirement_analyzer_node
    \/ PlanNothing \/ stack_planner_node \/ SelfHealing
    \/ stack_crawling_node
    \/ GuardianRejects \/ GuardianRaises \/ GuardianChecks
    \/ sa_merge_project_node \/ component_scheduler_node
    \/ sa_unified_modeler_node
    \/ \E p \in Parallel : WriteSection(p) \/ Walk(p) \/ MergeUpdate(p)

Spec == Init /\ [][Next]_vars

\* Every call of the model or of a registry returns or times out, and the
\* event loop goes on with the stream.
FairSpec == Spec /\ WF_vars(Next)

(***************************************************************************)
(* Properties.                                                             *)
(***************************************************************************)

\* What the two parallel nodes have designed is all in the result that is
\* sent, in whatever order they finish (_merge_state replaces the bundle's
\* data by the later update's).
BundleKeepsSections == outcome = "result" => shown = Parallel

\* The planner is shown metadata of a package only after the rules and the
\* model have let exactly these metadata pass (guardian_node).
KnowledgeIsChecked ==
    \A r \in known : r \in passed /\ r.quality = "fine"

\* The SA nodes of an update get what this analysis found and, as it was, each
\* earlier requirement whose number lies beyond the new ones, and no number
\* twice (sa_merge_project_node).  Numbers start again from 1 in every update:
\* an earlier requirement is handed on no more when a new one has its number.
RtmKeepsEarlier ==
    [][node = "sa_merge_project" /\ node' = "component_scheduler" =>
         /\ Distinct(rtm')
         /\ \A i \in DOMAIN features : rtm'[i] = features[i]
         /\ readable =>
              \A k \in DOMAIN previous :
                previous[k].id > Len(features) =>
                  \E i \in DOMAIN rtm' : rtm'[i] = previous[k]]_vars

Edges(f) ==
    LET pairs == {e \in (DOMAIN f) \X (DOMAIN f) : f[e[2]].id \in f[e[1]].deps}
    IN {<<f[e[1]].what, f[e[2]].what>> : e \in pairs}

\* The numbers that requirements of this text name and nothing has.
Dangling(f, what) ==
    UNION {f[i].deps \ Numbers(f) : i \in {k \in DOMAIN f : f[k].what = what}}

\* Renumbering and reordering keep every dependency between two requirements of
\* the answer, and make none, except on a requirement that was given a number
\* the answer had named without having it (_normalize_feature_ids,
\* _reorder_for_update).
NumberingKeepsDependencies ==
    [][answer # << >> /\ answer' = << >> /\ Distinct(answer) =>
         /\ Distinct(features')
         /\ Edges(answer) \subseteq Edges(features')
         /\ \A i, j \in DOMAIN features' :
              features'[j].id \in features'[i].deps =>
                \/ <<features'[i].what, features'[j].what>> \in Edges(answer)
                \/ features'[j].id \in Dangling(answer, features'[i].what)]_vars

\* "previous_features ... are used to keep positions and ids" (run_analysis): a
\* number the model took over from an earlier requirement is still there.
PreviousIdsKept ==
    [][/\ answer # << >> /\ answer' = << >> /\ previous # << >>
       => Numbers(answer) \cap Numbers(previous) \subseteq Numbers(features')]_vars

\* Every analysis ends: the crawl is not repeated for ever, whatever the model
\* answers (_route_stack_planning, loop_count).
EveryAnalysisEnds == <>(node = "end")
=============================================================================
