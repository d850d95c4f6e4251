---------------------------- MODULE Services_proofs ----------------------------
(***************************************************************************)
(* Theorems about the dispatch of a round and about the services, for all  *)
(* values of their constants: what a round keeps, for every set of unions  *)
(* that the model may extract and with or without force_broad; what an     *)
(* environment of providers keeps; what an endpoint is asked for; what     *)
(* loads and searches answer; that the heap of the semaphore is a queue;   *)
(* which judgement a document gets and where the parts of a quote are; and *)
(* what the calls of models keep.                                          *)
(***************************************************************************)
EXTENDS Services, FiniteSetTheorems, SequenceTheorems, WellFoundedInduction, TLAPS

-----------------------------------------------------------------------------
(* The dispatch of a round                                                   *)

Places == {"decompose", "route", "extract_name", "dispatch", "plan", "enrich",
           "combine", "search", "retry", "respond", "done"}

TypeInv ==
  /\ diligent \in BOOLEAN /\ anchors \in BOOLEAN
  /\ pc \in Places
  /\ fields \in ExtractedFields
  /\ type \in Types /\ asking \in Types /\ asked \subseteq Types
  /\ matched \in BOOLEAN /\ name \in BOOLEAN
  /\ content \in Contents
  /\ brought \in BOOLEAN /\ found \in BOOLEAN /\ failed \in BOOLEAN
  /\ path \in {"none", "planned", "analyzed", "refused"}
  /\ answer \in {"none", "void", "partial", "complete"}

\* what the type of a query says of its fields
Typed ==
  /\ pc \in {"decompose", "route"} => type = "UNKNOWN"
  /\ type = "BY_AUTHOR" => fields.authors
  /\ type = "METADATA_ONLY_NO_AUTHOR" => fields.content = "none" /\ Dated
  /\ type \in Specific \cup {"BROAD_BY_DESCRIPTION"} => fields.content # "none"
  /\ type = "SPECIFIC_BY_TITLE" => matched

\* the content is the extracted one, or was made with anchors before the search
Contented ==
  /\ pc \notin {"search", "retry", "respond", "done"} => content = fields.content
  /\ content \in {fields.content, "combined"}
  /\ content = "combined" => brought
  /\ brought => anchors

BlankPlanned == path = "planned" /\ specs = <<"blank">>
SpecificAnalyzed == path = "analyzed" /\ type \in Specific

\* which ways lead to a place
Dispatched ==
  /\ pc \in {"plan", "enrich", "combine", "search", "retry", "respond"} =>
       /\ ~Unactionable
       /\ path # "none"
       /\ asking = type \/ (asking = "BROAD_BY_DESCRIPTION" /\ (BlankPlanned \/ SpecificAnalyzed))
  /\ pc = "plan" => path = "planned"
  /\ pc = "combine" => path = "analyzed"
  /\ pc = "enrich" => path # "planned" \/ BlankPlanned
  /\ pc = "retry" => BlankPlanned \/ SpecificAnalyzed
  /\ pc = "search" /\ path = "planned" => BlankPlanned /\ asking = "BROAD_BY_DESCRIPTION"
  /\ pc # "done" => answer = "none"

\* a specific query that has come to its answer with nothing was searched for twice
FellBack ==
  pc = "respond" /\ SpecificAnalyzed /\ ~found => "BROAD_BY_DESCRIPTION" \in asked

IInv ==
  /\ TypeInv /\ Typed /\ Contented /\ Dispatched /\ FellBack
  /\ ErrorsAreExplained /\ SpecificFallsBack

-----------------------------------------------------------------------------

LEMMA InitIInv == Init => IInv
<1> SUFFICES ASSUME Init PROVE IInv
  OBVIOUS
<1>1. fields \in ExtractedFields /\ fields.content = "none" /\ content \in Contents
  <2>1. fields = [content |-> "none", authors |-> FALSE, years |-> "none", recency |-> "none",
                  looksFor |-> "broad", refusal |-> "none"]
    BY DEF Init
  <2>2. fields \in ExtractedFields
    BY <2>1, Zenon DEF ExtractedFields
  <2>3. QED
    BY <2>1, <2>2 DEF Init, Contents
<1>2. brought \in BOOLEAN /\ found \in BOOLEAN /\ failed \in BOOLEAN /\ matched \in BOOLEAN
        /\ name \in BOOLEAN
  BY Zenon DEF Init
<1>3. TypeInv
  BY <1>1, <1>2 DEF Init, TypeInv, Types, Places
<1>4. Typed /\ Contented /\ Dispatched /\ FellBack /\ ErrorsAreExplained /\ SpecificFallsBack
  BY <1>1 DEF Init, Typed, Contented, Dispatched, FellBack, ErrorsAreExplained,
     SpecificFallsBack, Specific
<1>5. QED
  BY <1>3, <1>4 DEF IInv

LEMMA DecomposeStep ==
  ASSUME IInv, NEW f \in ExtractedFields, NEW s \in Unions, Decompose(f, s)
  PROVE  IInv'
<1>1. fields' \in ExtractedFields
  BY DEF Decompose, ExtractedFields
<1>2. fields'.content = f.content /\ f.content \in {"none", "vague", "clear"}
  BY DEF Decompose, ExtractedFields
<1>3. QED
  BY <1>1, <1>2 DEF Decompose, IInv, TypeInv, Typed, Contented, Dispatched, FellBack,
     ErrorsAreExplained, SpecificFallsBack, Contents, Types, Specific, Places, analysis, search,
     request, SpecificAnalyzed

\* a type is given that fits the fields, before there is a path
LEMMA RouteStep ==
  ASSUME IInv, NEW t \in Types, pc = "route", Route(t), matched' \in BOOLEAN,
         t = "BY_AUTHOR" => fields.authors,
         t = "METADATA_ONLY_NO_AUTHOR" => fields.content = "none" /\ Dated,
         t \in Specific \cup {"BROAD_BY_DESCRIPTION"} => fields.content # "none",
         t = "SPECIFIC_BY_TITLE" => matched'
  PROVE  IInv'
BY DEF Route, IInv, TypeInv, Typed, Contented, Dispatched, FellBack, ErrorsAreExplained,
   SpecificFallsBack, Contents, Types, Specific, Places, extract, search, request, Dated,
   SpecificAnalyzed

LEMMA RoutingStep ==
  ASSUME IInv,
         RouteToAuthor \/ RouteToMetadata \/ RouteNowhere \/ RouteToBroad \/ RouteToName
           \/ RouteToTitle
  PROVE  IInv'
<1>1. CASE RouteToAuthor
  BY <1>1, RouteStep DEF RouteToAuthor, Types, Specific, IInv, TypeInv
<1>2. CASE RouteToMetadata
  BY <1>2, RouteStep DEF RouteToMetadata, Types, Specific, IInv, TypeInv
<1>3. CASE RouteNowhere
  BY <1>3, RouteStep DEF RouteNowhere, Types, Specific, IInv, TypeInv
<1>4. CASE RouteToBroad
  BY <1>4, RouteStep DEF RouteToBroad, Types, Specific, IInv, TypeInv
<1>5. CASE RouteToName
  BY <1>5, RouteStep DEF RouteToName, Types, Specific, IInv, TypeInv
<1>6. CASE RouteToTitle
  BY <1>6, RouteStep DEF RouteToTitle, Types, Specific, IInv, TypeInv
<1>7. QED
  BY <1>1, <1>2, <1>3, <1>4, <1>5, <1>6

LEMMA ExtractNameStep == IInv /\ ExtractName => IInv'
<1> SUFFICES ASSUME IInv, ExtractName PROVE IInv'
  OBVIOUS
<1>1. name' \in BOOLEAN
  BY Zenon DEF ExtractName
<1>2. QED
  BY <1>1 DEF ExtractName, IInv, TypeInv, Typed, Contented, Dispatched, FellBack,
     ErrorsAreExplained, SpecificFallsBack, Places, extract, search, request, Dated,
     SpecificAnalyzed

LEMMA DispatchStep ==
  ASSUME IInv, DispatchRefused \/ DispatchToPlanner \/ DispatchToSearch
  PROVE  IInv'
<1>1. PICK p \in {"refused", "planned", "analyzed"}, next \in {"enrich", "plan"} :
        Dispatch(p, next) /\ (p = "planned" <=> next = "plan")
  BY DEF DispatchRefused, DispatchToPlanner, DispatchToSearch
<1>2. TypeInv'
  BY <1>1 DEF Dispatch, IInv, TypeInv, Places, extract, analysis, request
<1>3. Typed' /\ Contented'
  BY <1>1 DEF Dispatch, IInv, Typed, Contented, Dated, extract, analysis, request
<1>4. Dispatched'
  BY <1>1 DEF Dispatch, IInv, Dispatched, Unactionable, extract, analysis, request
<1>5. FellBack' /\ ErrorsAreExplained' /\ SpecificFallsBack'
  BY <1>1 DEF Dispatch, IInv, Dispatched, FellBack, ErrorsAreExplained, SpecificFallsBack
<1>6. QED
  BY <1>2, <1>3, <1>4, <1>5 DEF IInv

LEMMA RunPlannerStep == IInv /\ RunPlanner => IInv'
BY DEF RunPlanner, Unactionable, IInv, TypeInv, Typed, Contented, Dispatched, FellBack,
   ErrorsAreExplained, SpecificFallsBack, Contents, Types, Specific, Places, extract, analysis,
   request, Dated, SpecificAnalyzed, BlankPlanned

LEMMA EnrichStep == IInv /\ Enrich => IInv'
<1> SUFFICES ASSUME IInv, Enrich PROVE IInv'
  OBVIOUS
<1>1. path \in {"planned", "analyzed", "refused"} /\ answer = "none"
  BY DEF Enrich, IInv, TypeInv, Dispatched
<1>2. /\ path = "planned" => pc' = "retry"
      /\ path = "analyzed" => pc' = "combine"
      /\ path = "refused" => pc' = "search"
  BY DEF Enrich, AfterAnchors
<1>3. brought' \in BOOLEAN /\ (brought' => anchors)
  BY Zenon DEF Enrich
<1>4. content' = content /\ fields' = fields /\ anchors' = anchors
  BY DEF Enrich, extract, request
<1>5. content = fields.content /\ content # "combined"
  <2>1. fields.content \in {"none", "vague", "clear"}
    BY DEF IInv, TypeInv, ExtractedFields
  <2>2. QED
    BY <2>1 DEF Enrich, IInv, Contented
<1>6. TypeInv'
  BY <1>1, <1>2, <1>3 DEF Enrich, IInv, TypeInv, Places, extract, analysis, request
<1>7. Typed'
  BY <1>1, <1>2 DEF Enrich, IInv, Typed, Dated, extract, analysis, request
<1>8. Contented'
  BY <1>3, <1>4, <1>5 DEF Enrich, IInv, Contented
<1>9. Dispatched'
  BY <1>1, <1>2 DEF Enrich, IInv, Dispatched, Unactionable, BlankPlanned, SpecificAnalyzed,
     extract, analysis, request
<1>10. FellBack' /\ ErrorsAreExplained' /\ SpecificFallsBack'
  BY <1>1, <1>2 DEF Enrich, IInv, FellBack, ErrorsAreExplained, SpecificFallsBack
<1>11. QED
  BY <1>6, <1>7, <1>8, <1>9, <1>10 DEF IInv

LEMMA CombineStep == IInv /\ Combine => IInv'
BY DEF Combine, Unactionable, IInv, TypeInv, Typed, Contented, Dispatched, FellBack,
   ErrorsAreExplained, SpecificFallsBack, Contents, Types, Specific, Places, extract, analysis,
   search, request, Dated, SpecificAnalyzed, BlankPlanned

LEMMA SearchedStep == IInv /\ Searched => IInv'
BY DEF Searched, Unactionable, IInv, TypeInv, Typed, Contented, Dispatched, FellBack,
   ErrorsAreExplained, SpecificFallsBack, Contents, Types, Specific, Places, extract, analysis,
   request, Dated, SpecificAnalyzed, BlankPlanned

LEMMA RetryStep == IInv /\ Retry => IInv'
BY DEF Retry, Unactionable, IInv, TypeInv, Typed, Contented, Dispatched, FellBack,
   ErrorsAreExplained, SpecificFallsBack, Contents, Types, Specific, Places, extract, analysis,
   request, Dated, SpecificAnalyzed, BlankPlanned

\* a round ends and keeps what it was, but for its failure
LEMMA AnswerStep ==
  ASSUME IInv, NEW a \in {"void", "partial", "complete"}, Answer(a),
         UNCHANGED <<request, extract, analysis, content, search>>, failed' \in BOOLEAN,
         ErrorsAreExplained', SpecificFallsBack'
  PROVE  IInv'
BY DEF Answer, IInv, TypeInv, Typed, Contented, Dispatched, FellBack, Contents, Types, Specific,
   Places, extract, analysis, search, request, Dated, SpecificAnalyzed, BlankPlanned

LEMMA RespondStep == IInv /\ Respond => IInv'
<1> SUFFICES ASSUME IInv, Respond PROVE IInv'
  OBVIOUS
<1>1. ErrorsAreExplained'
  BY DEF Respond, Answer, ErrorsAreExplained
<1>2. SpecificFallsBack'
  BY DEF Respond, Answer, IInv, FellBack, SpecificFallsBack, SpecificAnalyzed, Specific, analysis,
     search
<1>3. QED
  BY <1>1, <1>2, AnswerStep DEF Respond, IInv, TypeInv, Answer

\* An agent refuses its arguments for one of the listed reasons only.
LEMMA RefusalExplained ==
  ASSUME IInv, pc = "search", Refuses
  PROVE  \/ anchors /\ type = "METADATA_ONLY_NO_AUTHOR" /\ fields.content = "none" /\ content = "combined"
         \/ diligent /\ RecencyBothWays
         \/ diligent /\ BlankPlanned /\ content = "none"
<1>1. asking = type \/ (asking = "BROAD_BY_DESCRIPTION" /\ (BlankPlanned \/ SpecificAnalyzed))
  BY DEF IInv, Dispatched
<1>2. asking # "UNKNOWN" /\ ~(asking = "SPECIFIC_BY_TITLE" /\ ~matched)
         /\ ~(asking = "SPECIFIC_BY_NAME" /\ ~name)
  BY <1>1 DEF IInv, Dispatched, Unactionable, Typed
<1>3. CASE asking = "METADATA_ONLY_NO_AUTHOR" /\ (content # "none" \/ ~Dated)
  BY <1>1, <1>3 DEF IInv, Typed, Contented, Dispatched
<1>4. CASE asking = "BROAD_BY_DESCRIPTION" /\ diligent /\ (content = "none" \/ RecencyBothWays)
  BY <1>1, <1>4 DEF IInv, Typed, Contented, SpecificAnalyzed
<1>5. QED
  BY <1>2, <1>3, <1>4 DEF Refuses

LEMMA SearchRefusedStep == IInv /\ SearchRefused => IInv'
<1> SUFFICES ASSUME IInv, SearchRefused PROVE IInv'
  OBVIOUS
<1>1. ErrorsAreExplained'
  BY RefusalExplained DEF SearchRefused, ErrorsAreExplained, BlankPlanned, RecencyBothWays,
     request, extract, analysis, search
<1>2. SpecificFallsBack'
  BY DEF SearchRefused, Answer, SpecificFallsBack
<1>3. QED
  BY <1>1, <1>2, AnswerStep DEF SearchRefused, IInv, TypeInv

LEMMA EndingStep ==
  ASSUME IInv, AnswerWithoutSearch \/ PlannerFails \/ StepFails
  PROVE  IInv'
<1>1. CASE AnswerWithoutSearch
  <2>1. ErrorsAreExplained' /\ SpecificFallsBack'
    BY <1>1 DEF AnswerWithoutSearch, Answer, ErrorsAreExplained, SpecificFallsBack
  <2>2. QED
    BY <1>1, <2>1, AnswerStep DEF AnswerWithoutSearch, IInv, TypeInv
<1>2. CASE PlannerFails
  <2>1. SpecificFallsBack'
    BY <1>2 DEF PlannerFails, Answer, SpecificFallsBack
  <2>2. path = "planned" /\ \E i \in DOMAIN specs : specs[i] = "content"
    BY <1>2 DEF PlannerFails, IInv, Dispatched
  <2>3. ErrorsAreExplained'
    BY <1>2, <2>2 DEF PlannerFails, ErrorsAreExplained, search, extract
  <2>4. QED
    BY <1>2, <2>1, <2>3, AnswerStep DEF PlannerFails, IInv, TypeInv
<1>3. CASE StepFails
  <2>1. ErrorsAreExplained' /\ SpecificFallsBack'
    BY <1>3 DEF StepFails, Answer, ErrorsAreExplained, SpecificFallsBack
  <2>2. QED
    BY <1>3, <2>1, AnswerStep DEF StepFails
<1>4. QED
  BY <1>1, <1>2, <1>3

LEMMA NextIInv == IInv /\ [Next]_vars => IInv'
<1> SUFFICES ASSUME IInv, [Next]_vars PROVE IInv'
  OBVIOUS
<1>1. CASE Next
  BY <1>1, DecomposeStep, RoutingStep, ExtractNameStep, DispatchStep, RunPlannerStep, EnrichStep,
     CombineStep, SearchedStep, RetryStep, RespondStep, SearchRefusedStep, EndingStep DEF Next
<1>2. CASE UNCHANGED vars
  BY <1>2 DEF vars, request, extract, analysis, search, IInv, TypeInv, Typed, Contented, Dispatched,
     FellBack, ErrorsAreExplained, SpecificFallsBack, Dated, Unactionable, BlankPlanned,
     SpecificAnalyzed, RecencyBothWays
<1>3. QED
  BY <1>1, <1>2

LEMMA Invariance == Spec => []IInv
BY InitIInv, NextIInv, PTL DEF Spec

-----------------------------------------------------------------------------

\* On every way to a search, the agent that is asked has what it needs
\* (run_paper_finder_on_analyzed_query).
THEOREM InputsGiven == Spec => []AgentsGetTheirInput
<1>1. IInv => AgentsGetTheirInput
  <2> SUFFICES ASSUME IInv, pc = "search" PROVE AgentsGetTheirInput
    BY DEF AgentsGetTheirInput
  <2>1. ~Unactionable /\ (asking = type \/ (asking = "BROAD_BY_DESCRIPTION" /\ (BlankPlanned \/ SpecificAnalyzed)))
    BY DEF IInv, Dispatched
  <2>2. asking \in Types /\ asking # "UNKNOWN"
    BY <2>1 DEF IInv, TypeInv, Unactionable
  <2>3. asking = "BROAD_BY_DESCRIPTION" => content # "none" \/ path = "planned"
    BY <2>1 DEF IInv, Typed, Contented, BlankPlanned, SpecificAnalyzed
  <2>4. QED
    BY <2>1, <2>2, <2>3 DEF IInv, Typed, AgentsGetTheirInput, Unactionable, Types
<1>2. QED
  BY <1>1, Invariance, PTL

\* A round ends in an error only after a failure or for one of the listed reasons
\* (handle_operation and Operative.__call__).
THEOREM ErrorsHaveReasons == Spec => []ErrorsAreExplained
<1>1. IInv => ErrorsAreExplained
  BY DEF IInv
<1>2. QED
  BY <1>1, Invariance, PTL

\* A query for one paper is searched for as a description before it is answered
\* with nothing (retry_specific_in_broad_mode).
THEOREM SpecificIsRetried == Spec => []SpecificFallsBack
<1>1. IInv => SpecificFallsBack
  BY DEF IInv
<1>2. QED
  BY <1>1, Invariance, PTL

-----------------------------------------------------------------------------
(* One environment of providers                                              *)

(* All providers are sorted, each of them once. *)
LEMMA EnvSort ==
  ASSUME Env!Registered, w1 \in Environments, NEW s \in Env!DependencyTopologicalSort
  PROVE  /\ s \in Seq(Env!Names)
         /\ Env!Injective(s)
         /\ Env!Among(s) = Env!Names
<1> DEFINE order == w1.order  n == Len(order)
<1>1. order \in Seq(Env!Among(order)) /\ Env!Injective(order) /\ Env!Names = Env!Among(order)
  BY DEF Env!Registered, Env!Injective, Env!Names
<1>2. n \in Nat /\ DOMAIN order = 1 .. n
  BY <1>1
<1>3. s \in [1 .. n -> Env!Names]
  BY <1>2 DEF Env!DependencyTopologicalSort
<1>4. s \in Seq(Env!Names) /\ DOMAIN s = 1 .. n
  BY <1>2, <1>3
<1>5. \A i \in 1 .. n : s[i] \notin Env!Before(s, i - 1)
  BY <1>2, <1>4 DEF Env!DependencyTopologicalSort, Env!IsFirst, Env!Ready
<1>6. \A i, j \in 1 .. n : j < i => s[j] \in Env!Before(s, i - 1)
  BY <1>2 DEF Env!Before
<1>7. Env!Injective(s)
  <2> SUFFICES ASSUME NEW i \in 1 .. n, NEW j \in 1 .. n, s[i] = s[j], j < i PROVE FALSE
    BY <1>2, <1>4 DEF Env!Injective
  <2> QED BY <1>5, <1>6
<1>8. ExistsBijection(1 .. n, Env!Names)
  <2>1. order \in [1 .. n -> Env!Names] /\ \A p \in Env!Names : \E i \in 1 .. n : order[i] = p
    BY <1>1, <1>2 DEF Env!Among
  <2>2. order \in Bijection(1 .. n, Env!Names)
    BY <1>1, <1>2, <2>1 DEF Bijection, Injection, Surjection, IsInjective, Env!Injective
  <2> QED BY <2>2 DEF ExistsBijection
<1>9. ExistsBijection(1 .. n, Env!Among(s))
  <2>1. s \in Bijection(1 .. n, Env!Among(s))
    BY <1>3, <1>4, <1>7 DEF Bijection, Injection, Surjection, IsInjective, Env!Injective, Env!Among
  <2> QED BY <2>1 DEF ExistsBijection
<1>10. /\ IsFiniteSet(Env!Names) /\ Cardinality(Env!Names) = n
       /\ IsFiniteSet(Env!Among(s)) /\ Cardinality(Env!Among(s)) = n
  BY <1>2, <1>8, <1>9, FS_CountingElements, FS_NatBijection
<1>11. Env!Among(s) \subseteq Env!Names
  BY <1>3, <1>4 DEF Env!Among
<1>12. Env!Among(s) = Env!Names
  BY <1>10, <1>11, FS_Subset
<1> QED BY <1>4, <1>7, <1>12

LEMMA EnvStart == ASSUME Env!Init PROVE Env!EnvInv
BY DEF Env!Init, Env!EnvInv, Env!EnvTypes, Env!Once, Env!Injective, Env!Among, Env!Stacked,
       Env!Before, Env!Covered, Env!EnvSound, Env!Grounded, Env!NothingLeft, Env!SharedWhileOpen

(* What a step that does not build or clean up keeps. *)
LEMMA EnvSame ==
  ASSUME Env!EnvInv, w1' = w1, w5' = w5, w6' = w6
  PROVE  /\ Env!Names' = Env!Names
         /\ Env!Among(w5') = Env!Among(w5)
         /\ Env!Grounded'
         /\ \A i \in DOMAIN w5' :
              w1'.deps[w5'[i]] \subseteq Env!Before(w5', i - 1) \cup w1'.existing
BY DEF Env!EnvInv, Env!Names, Env!Among, Env!EnvSound, Env!Grounded, Env!Stacked, Env!Before

LEMMA EnvOpens ==
  ASSUME Env!Registered, Env!EnvInv, Env!OpenFails \/ Env!OpenScope
  PROVE  Env!EnvInv'
<1>1. CASE Env!OpenFails
  BY <1>1, EnvSame DEF Env!OpenFails, Env!EnvInv, Env!EnvTypes, Env!Once, Env!Injective, Env!Among, Env!Stacked,
       Env!Covered, Env!EnvSound, Env!NothingLeft, Env!SharedWhileOpen
<1>2. CASE Env!OpenScope
  <2>1. w4' \in Env!DependencyTopologicalSort /\ w1 \in Environments
    BY <1>2 DEF Env!OpenScope, Env!EnvInv, Env!EnvTypes
  <2>2. w4' \in Seq(Env!Names) /\ Env!Injective(w4') /\ Env!Among(w4') = Env!Names
    BY <2>1, EnvSort
  <2>3. w5 = << >> /\ w5' = w5 /\ Env!Among(w5) = {} /\ w6 = {}
    BY <1>2 DEF Env!OpenScope, Env!EnvInv, Env!Stacked, Env!Among
  <2>4. Env!EnvTypes'
    BY <1>2, <2>2, EnvSame DEF Env!OpenScope, Env!EnvInv, Env!EnvTypes
  <2>5. Env!Once'
    BY <1>2, <2>2, <2>3 DEF Env!OpenScope, Env!EnvInv, Env!Once, Env!Injective, Env!Among
  <2>6. Env!Stacked'
    BY <1>2, <2>3, EnvSame DEF Env!OpenScope, Env!EnvInv, Env!Stacked
  <2>7. Env!Covered'
    BY <1>2, <2>2, EnvSame DEF Env!OpenScope, Env!Covered, Env!Among
  <2>8. Env!EnvSound'
    BY <1>2, EnvSame DEF Env!OpenScope, Env!EnvInv, Env!EnvSound, Env!NothingLeft, Env!SharedWhileOpen
  <2> QED BY <2>4, <2>5, <2>6, <2>7, <2>8 DEF Env!EnvInv
<1> QED BY <1>1, <1>2

LEMMA EnvBuilds ==
  ASSUME Env!EnvInv, Env!BuildFromName
  PROVE  Env!EnvInv'
<1>1. PICK i \in Env!ToBuild :
        /\ \A j \in Env!ToBuild : i <= j
        /\ Env!Resolves(w4[i])
        /\ w4' = SubSeq(w4, i + 1, Len(w4))
        /\ w5' = Append(w5, w4[i])
        /\ w6' = w6 \cup {w4[i]}
  BY DEF Env!BuildFromName
<1> DEFINE n == Len(w5)  m == Len(w4)
<1>2. /\ w1' = w1 /\ w2' = w2 /\ w3' = w3 /\ w7' = w7 /\ w8' = w8 /\ w9' = w9 /\ w3 = "building"
      /\ Env!Names' = Env!Names
  BY DEF Env!BuildFromName, Env!Names, Env!Among
<1>3. /\ w4 \in Seq(Env!Names) /\ w5 \in Seq(Env!Names) /\ n \in Nat /\ m \in Nat /\ i \in 1 .. m
      /\ w4[i] \in Env!Names /\ w4[i] \notin w1.existing
      /\ DOMAIN w4 = 1 .. m /\ DOMAIN w5 = 1 .. n
  BY DEF Env!EnvInv, Env!EnvTypes, Env!ToBuild
<1>4. /\ w4' \in Seq(Env!Names) /\ Len(w4') = m - i /\ \A j \in 1 .. m - i : w4'[j] = w4[j + i]
      /\ w5' \in Seq(Env!Names) /\ Len(w5') = n + 1 /\ w5'[n + 1] = w4[i]
      /\ \A j \in 1 .. n : w5'[j] = w5[j]
      /\ DOMAIN w4' = 1 .. m - i /\ DOMAIN w5' = 1 .. n + 1
  <2>1. w5' \in Seq(Env!Names) /\ Len(w5') = n + 1 /\ w5'[n + 1] = w4[i]
    BY <1>1, <1>3
  <2>2. \A j \in 1 .. n : w5'[j] = w5[j]
    BY <1>1, <1>3
  <2>3. w4' \in Seq(Env!Names) /\ Len(w4') = m - i /\ \A j \in 1 .. m - i : w4'[j] = w4[j + i]
    <3>1. /\ i + 1 \in Int /\ m \in Int /\ w4' = SubSeq(w4, i + 1, m)
          /\ \A j \in i + 1 .. m : w4[j] \in Env!Names
      BY <1>1, <1>3
    <3>2. /\ w4' \in Seq(Env!Names)
          /\ Len(w4') = IF i + 1 <= m THEN m - (i + 1) + 1 ELSE 0
          /\ \A j \in 1 .. m - (i + 1) + 1 : w4'[j] = w4[(i + 1) + j - 1]
      BY <3>1, SubSeqProperties
    <3>3. (IF i + 1 <= m THEN m - (i + 1) + 1 ELSE 0) = m - i
      <4>1. \A x \in Nat, y \in Nat : y <= x =>
              (IF y + 1 <= x THEN x - (y + 1) + 1 ELSE 0) = x - y
        OBVIOUS
      <4>2. i \in Nat /\ i <= m
        BY <1>3
      <4> QED BY <1>3, <4>1, <4>2
    <3>4. ASSUME NEW j \in 1 .. m - i PROVE w4'[j] = w4[j + i]
      <4>1. j \in 1 .. m - (i + 1) + 1 /\ (i + 1) + j - 1 = j + i
        BY <1>3
      <4> QED BY <3>2, <4>1
    <3> QED BY <3>2, <3>3, <3>4
  <2> QED BY <1>3, <2>1, <2>2, <2>3
<1>5. w6 = Env!Among(w5) /\ w6' = Env!Among(w5') /\ w4[i] \notin w6
  <2>1. w6 = Env!Among(w5)
    BY <1>2 DEF Env!EnvInv, Env!Stacked
  <2>2. \A j \in 1 .. n + 1 : w5'[j] = IF j = n + 1 THEN w4[i] ELSE w5[j]
    BY <1>3, <1>4
  <2>3. 1 .. n + 1 = 1 .. n \cup {n + 1}
    BY <1>3
  <2>4. Env!Among(w5') = Env!Among(w5) \cup {w4[i]}
    BY <1>3, <1>4, <2>2, <2>3 DEF Env!Among
  <2>5. w4[i] \notin Env!Among(w5)
    BY <1>3 DEF Env!EnvInv, Env!Once, Env!Among
  <2> QED BY <1>1, <2>1, <2>4, <2>5
<1>6. Env!EnvTypes'
  BY <1>2, <1>4 DEF Env!EnvInv, Env!EnvTypes
<1>11. /\ \A j, k \in 1 .. m : w4[j] = w4[k] => j = k
       /\ \A j, k \in 1 .. n : w5[j] = w5[k] => j = k
       /\ \A j \in 1 .. m : w4[j] \notin w6
       /\ \A j \in 1 .. n : w5[j] \in w6
  BY <1>3, <1>5 DEF Env!EnvInv, Env!Once, Env!Injective, Env!Among
<1>7. Env!Once'
  <2>1. Env!Injective(w4')
    <3> SUFFICES ASSUME NEW j \in 1 .. m - i, NEW k \in 1 .. m - i, w4'[j] = w4'[k] PROVE j = k
      BY <1>4 DEF Env!Injective
    <3>1. j + i \in 1 .. m /\ k + i \in 1 .. m /\ w4[j + i] = w4[k + i]
      BY <1>3, <1>4
    <3> QED BY <1>3, <1>11, <3>1
  <2>2. Env!Injective(w5')
    <3> SUFFICES ASSUME NEW j \in 1 .. n + 1, NEW k \in 1 .. n + 1, w5'[j] = w5'[k] PROVE j = k
      BY <1>4 DEF Env!Injective
    <3>1. CASE j = n + 1 /\ k = n + 1
      BY <3>1
    <3>2. CASE j \in 1 .. n /\ k \in 1 .. n
      BY <1>4, <1>11, <3>2
    <3>3. CASE j \in 1 .. n /\ k = n + 1
      BY <1>4, <1>5, <1>11, <3>3
    <3>4. CASE j = n + 1 /\ k \in 1 .. n
      BY <1>4, <1>5, <1>11, <3>4
    <3> QED BY <1>3, <3>1, <3>2, <3>3, <3>4
  <2>3. ASSUME NEW j \in 1 .. m - i PROVE w4'[j] \notin w6'
    <3>1. j + i \in 1 .. m /\ w4'[j] = w4[j + i] /\ j + i # i
      BY <1>3, <1>4
    <3> QED BY <1>1, <1>3, <1>11, <3>1
  <2>4. Env!Among(w4') \cap w6' = {}
    BY <1>4, <2>3 DEF Env!Among
  <2> QED BY <1>5, <2>1, <2>2, <2>4 DEF Env!Once
<1>8. Env!Stacked'
  <2>1. ASSUME NEW j \in 1 .. n
        PROVE  w1.deps[w5'[j]] \subseteq Env!Before(w5', j - 1) \cup w1.existing
    <3>1. w1.deps[w5[j]] \subseteq Env!Before(w5, j - 1) \cup w1.existing
      BY <1>3 DEF Env!EnvInv, Env!Stacked
    <3>2. Env!Before(w5', j - 1) = Env!Before(w5, j - 1)
      <4>1. \A k \in 1 .. j - 1 : k \in 1 .. n
        BY <1>3
      <4>2. \A k \in 1 .. j - 1 : w5'[k] = w5[k]
        BY <1>4, <4>1
      <4> QED BY <4>2 DEF Env!Before
    <3> QED BY <1>4, <3>1, <3>2
  <2>2. w1.deps[w5'[n + 1]] \subseteq Env!Before(w5', n) \cup w1.existing
    <3>1. Env!Before(w5', n) = Env!Among(w5)
      BY <1>3, <1>4 DEF Env!Before, Env!Among
    <3> QED BY <1>1, <1>4, <1>5, <3>1 DEF Env!Resolves
  <2>3. \A j \in DOMAIN w5' : w1'.deps[w5'[j]] \subseteq Env!Before(w5', j - 1) \cup w1'.existing
    BY <1>2, <1>3, <1>4, <2>1, <2>2
  <2> QED BY <1>2, <1>5, <2>3 DEF Env!Stacked
<1>9. Env!Covered'
  <2>1. Env!Names \subseteq Env!Among(w4') \cup w6' \cup w1.existing
    <3> SUFFICES ASSUME NEW p \in Env!Names, p \notin w6, p \notin w1.existing, p # w4[i]
                 PROVE  p \in Env!Among(w4')
      BY <1>1
    <3>1. PICK j \in 1 .. m : p = w4[j]
      BY <1>2, <1>3 DEF Env!EnvInv, Env!Covered, Env!Among
    <3>2. j \in Env!ToBuild /\ j # i
      BY <1>3, <3>1 DEF Env!ToBuild
    <3>3. j > i
      BY <1>1, <1>3, <3>1, <3>2
    <3>4. j - i \in 1 .. m - i /\ (j - i) + i = j
      BY <1>3, <3>1, <3>3
    <3>5. p = w4'[j - i]
      BY <1>4, <3>1, <3>4
    <3> QED BY <1>4, <3>4, <3>5 DEF Env!Among
  <2> QED BY <1>2, <2>1 DEF Env!Covered
<1>10. Env!EnvSound'
  <2>1. Env!Grounded'
    BY <1>1, <1>2 DEF Env!EnvInv, Env!EnvSound, Env!Grounded, Env!Resolves
  <2> QED BY <1>1, <1>2, <2>1 DEF Env!EnvInv, Env!EnvSound, Env!NothingLeft, Env!SharedWhileOpen
<1> QED BY <1>6, <1>7, <1>8, <1>9, <1>10 DEF Env!EnvInv

LEMMA EnvEndsBuilding ==
  ASSUME Env!EnvInv, Env!BuildFails \/ Env!BuildCancelled \/ Env!Opened
  PROVE  Env!EnvInv'
<1>1. w1' = w1 /\ w5' = w5 /\ w6' = w6 /\ w3 = "building" /\ w4' = << >>
  BY DEF Env!BuildFails, Env!BuildCancelled, Env!Opened
<1>2. Env!EnvTypes'
  BY <1>1, EnvSame DEF Env!BuildFails, Env!BuildCancelled, Env!Opened, Env!EnvInv, Env!EnvTypes
<1>3. Env!Once'
  BY <1>1 DEF Env!EnvInv, Env!Once, Env!Injective, Env!Among
<1>4. Env!Stacked'
  BY <1>1, EnvSame DEF Env!BuildFails, Env!BuildCancelled, Env!Opened, Env!EnvInv, Env!Stacked
<1>5. Env!Opened => Env!Names \subseteq w6 \cup w1.existing
  BY DEF Env!Opened, Env!EnvInv, Env!Covered, Env!ToBuild, Env!Among
<1>6. Env!Covered'
  BY <1>1, <1>5, EnvSame DEF Env!BuildFails, Env!BuildCancelled, Env!Opened, Env!Covered
<1>7. Env!EnvSound'
  BY <1>1, <1>5, EnvSame DEF Env!BuildFails, Env!BuildCancelled, Env!Opened, Env!EnvInv,
       Env!EnvSound, Env!NothingLeft, Env!SharedWhileOpen
<1> QED BY <1>2, <1>3, <1>4, <1>6, <1>7 DEF Env!EnvInv

LEMMA EnvShares ==
  ASSUME Env!EnvInv, Env!ContinueScope \/ Env!CloseScope
  PROVE  Env!EnvInv'
<1>1. /\ w1' = w1 /\ w2' = w2 /\ w4' = w4 /\ w5' = w5 /\ w6' = w6 /\ w9' = w9
      /\ w3 \notin {"over", "new"} /\ w3' \notin {"over", "new", "building"}
  BY DEF Env!ContinueScope, Env!CloseScope, Env!EnvInv, Env!EnvSound, Env!SharedWhileOpen
<1>2. w8' \in Nat /\ (w3' = "open" => w3 = "open" /\ w8' > 0)
  BY DEF Env!ContinueScope, Env!CloseScope, Env!EnvInv, Env!EnvTypes, Env!Covered,
         Env!EnvSound, Env!SharedWhileOpen
<1>3. Env!EnvTypes' /\ Env!Once'
  BY <1>1, <1>2, EnvSame DEF Env!EnvInv, Env!EnvTypes, Env!Once, Env!Injective, Env!Among
<1>4. Env!Stacked'
  BY <1>1, EnvSame DEF Env!EnvInv, Env!Stacked
<1>5. Env!Covered'
  BY <1>1, <1>2, EnvSame DEF Env!EnvInv, Env!Covered
<1>6. Env!SharedWhileOpen'
  BY <1>1, <1>2, EnvSame DEF Env!ContinueScope, Env!CloseScope, Env!EnvInv, Env!Covered,
                             Env!EnvSound, Env!SharedWhileOpen
<1>7. Env!EnvSound'
  BY <1>1, <1>6, EnvSame DEF Env!EnvSound, Env!NothingLeft
<1> QED BY <1>3, <1>4, <1>5, <1>7 DEF Env!EnvInv

LEMMA EnvCleans ==
  ASSUME Env!EnvInv, Env!Clean \/ Env!CleanFails
  PROVE  Env!EnvInv'
<1> DEFINE n == Len(w5)
<1>1. /\ w1' = w1 /\ w2' = w2 /\ w4' = w4 /\ w7' = w7 /\ w8' = w8
      /\ w3 \in {"unwinding", "cleaning"} /\ w5 # << >>
      /\ w6' = w6 \ {w5[n]}
      /\ Env!Names' = Env!Names
  BY DEF Env!Clean, Env!CleanFails, Env!Newest, Env!Names, Env!Among
<1>2. w5 \in Seq(Env!Names) /\ n \in Nat /\ n > 0 /\ DOMAIN w5 = 1 .. n /\ n - 1 \in Nat
  BY <1>1 DEF Env!EnvInv, Env!EnvTypes
<1>3. /\ w6 = Env!Among(w5)
      /\ \A i, j \in 1 .. n : w5[i] = w5[j] => i = j
      /\ \A i \in 1 .. n : w1.deps[w5[i]] \subseteq Env!Before(w5, i - 1) \cup w1.existing
  BY <1>1, <1>2 DEF Env!EnvInv, Env!Stacked, Env!Once, Env!Injective
<1>4. w6' = Env!Before(w5, n - 1)
  <2>1. 1 .. n = 1 .. (n - 1) \cup {n} /\ n \notin 1 .. (n - 1)
    BY <1>2
  <2> QED BY <1>1, <1>2, <1>3, <2>1 DEF Env!Before, Env!Among
<1>5. Env!Grounded'
  <2> SUFFICES ASSUME NEW p \in w6' PROVE w1.deps[p] \subseteq w6' \cup w1.existing
    BY <1>1 DEF Env!Grounded
  <2>1. PICK i \in 1 .. n - 1 : p = w5[i]
    BY <1>4 DEF Env!Before
  <2>2. i \in 1 .. n /\ \A j \in 1 .. i - 1 : j \in 1 .. n - 1
    BY <1>2
  <2>3. Env!Before(w5, i - 1) \subseteq Env!Before(w5, n - 1)
    BY <2>2 DEF Env!Before
  <2> QED BY <1>3, <1>4, <2>1, <2>2, <2>3
<1>6. Env!SharedWhileOpen'
  BY <1>1 DEF Env!Clean, Env!CleanFails, Env!EnvInv, Env!EnvSound, Env!SharedWhileOpen
<1>7. Env!Covered'
  BY <1>1 DEF Env!Clean, Env!CleanFails, Env!Covered
<1>8. CASE Env!Clean
  <2>1. w3' = w3 /\ w5' = SubSeq(w5, 1, n - 1)
    BY <1>8 DEF Env!Clean
  <2>2. /\ w5' \in Seq(Env!Names) /\ Len(w5') = n - 1 /\ DOMAIN w5' = 1 .. n - 1
        /\ \A i \in 1 .. n - 1 : i \in 1 .. n /\ w5'[i] = w5[i]
    BY <1>2, <2>1
  <2>3. Env!Among(w5') = w6'
    BY <1>4, <2>2 DEF Env!Among, Env!Before
  <2>4. Env!Once'
    BY <1>1, <1>3, <2>2, <2>3 DEF Env!EnvInv, Env!Once, Env!Injective
  <2>5. ASSUME NEW i \in 1 .. n - 1
        PROVE  w1.deps[w5'[i]] \subseteq Env!Before(w5', i - 1) \cup w1.existing
    <3>1. \A j \in 1 .. i - 1 : j \in 1 .. n - 1
      BY <1>2
    <3>2. Env!Before(w5', i - 1) = Env!Before(w5, i - 1)
      BY <2>2, <3>1 DEF Env!Before
    <3> QED BY <1>3, <2>2, <3>2
  <2>6. Env!Stacked'
    BY <1>1, <2>1, <2>2, <2>3, <2>5 DEF Env!Stacked
  <2>7. Env!EnvTypes'
    BY <1>1, <2>2 DEF Env!EnvInv, Env!EnvTypes
  <2>8. Env!EnvSound'
    BY <1>1, <1>5, <1>6, <2>1 DEF Env!EnvSound, Env!NothingLeft
  <2> QED BY <1>7, <2>4, <2>6, <2>7, <2>8 DEF Env!EnvInv
<1>9. CASE Env!CleanFails
  <2>1. w3' = "over" /\ w9' = "clean" /\ w5' = << >>
    BY <1>9 DEF Env!CleanFails
  <2>2. Env!EnvTypes' /\ Env!Once' /\ Env!Stacked'
    BY <1>1, <2>1 DEF Env!EnvInv, Env!EnvTypes, Env!Once, Env!Injective, Env!Stacked, Env!Among
  <2>3. Env!EnvSound'
    BY <1>5, <1>6, <2>1 DEF Env!EnvSound, Env!NothingLeft
  <2> QED BY <1>7, <2>2, <2>3 DEF Env!EnvInv
<1> QED BY <1>8, <1>9

LEMMA EnvCloses == ASSUME Env!EnvInv, Env!Closed PROVE Env!EnvInv'
<1>1. /\ w1' = w1 /\ w2' = w2 /\ w4' = w4 /\ w5' = w5 /\ w6' = w6 /\ w8' = w8
      /\ w3' = "over" /\ w7' = FALSE /\ w5 = << >>
      /\ w6 = {}
  BY DEF Env!Closed, Env!EnvInv, Env!Stacked, Env!Among
<1>2. Env!EnvTypes' /\ Env!Once' /\ Env!Stacked' /\ Env!Covered'
  BY <1>1, EnvSame DEF Env!EnvInv, Env!EnvTypes, Env!Once, Env!Injective, Env!Among, Env!Stacked,
                       Env!Covered
<1>3. Env!EnvSound'
  BY <1>1, EnvSame DEF Env!EnvSound, Env!NothingLeft, Env!SharedWhileOpen
<1> QED BY <1>2, <1>3 DEF Env!EnvInv

LEMMA EnvNext == ASSUME Env!Registered, Env!EnvInv, Env!Next PROVE Env!EnvInv'
BY EnvOpens, EnvBuilds, EnvEndsBuilding, EnvShares, EnvCleans, EnvCloses DEF Env!Next

LEMMA EnvStutters == ASSUME Env!EnvInv, UNCHANGED w PROVE Env!EnvInv'
<1>1. /\ w1' = w1 /\ w2' = w2 /\ w3' = w3 /\ w4' = w4 /\ w5' = w5 /\ w6' = w6
      /\ w7' = w7 /\ w8' = w8 /\ w9' = w9
  BY DEF w
<1>2. Env!EnvTypes'
  BY <1>1, EnvSame DEF Env!EnvInv, Env!EnvTypes
<1>5. Env!Once'
  BY <1>1 DEF Env!EnvInv, Env!Once, Env!Injective, Env!Among
<1>3. Env!Stacked' /\ Env!Covered'
  BY <1>1, EnvSame DEF Env!EnvInv, Env!Stacked, Env!Covered, Env!Among
<1>4. Env!EnvSound'
  BY <1>1, EnvSame DEF Env!EnvInv, Env!EnvSound, Env!NothingLeft, Env!SharedWhileOpen
<1> QED BY <1>2, <1>3, <1>4, <1>5 DEF Env!EnvInv

(* No provider is up without what it depends on, a scope that is over leaves    *)
(* nothing up unless a cleanup failed or its opening was cancelled, and the     *)
(* tasks that share one find every value until the last of them closes it, for  *)
(* any providers with any dependencies, and any number of tasks                 *)
(* (managed_env.py, scopes.py).                                                 *)
THEOREM ProvidersStandOnProviders == ServicesSpec => []EnvSound
<1> DEFINE Inv == machine = "env" => Env!EnvInv
<1>1. ServicesInit => Inv
  BY EnvStart DEF ServicesInit
<1>2. Inv /\ [ServicesNext]_all => Inv'
  <2> SUFFICES ASSUME Inv, [ServicesNext]_all, machine' = "env" PROVE Env!EnvInv'
    OBVIOUS
  <2>1. CASE RunEnv
    BY <2>1, EnvNext, ServicesAssumption DEF RunEnv
  <2>2. CASE UNCHANGED all
    BY <2>2, EnvStutters DEF all
  <2> QED
    BY <2>1, <2>2 DEF ServicesNext, Round, RunHeap, RunCalls, RunEndpoints, RunSnippets,
       RunJudgements, RunFusing, RunLoader, RunFetchers, Rest4, Rest5, Rest6, Rest7, Rest8
<1>3. Inv => EnvSound
  BY DEF EnvSound, Env!EnvInv
<1> QED BY <1>1, <1>2, <1>3, PTL DEF ServicesSpec

-----------------------------------------------------------------------------
(* The endpoints of models                                                   *)

Fields == {"model", "racing", "attempts", "timeout", "keys"}

(* A model and the function that converts its parameters. *)
Suits(m) ==
  \/ m.family = "openai" /\ m.converter \in {"openai", "effort"}
  \/ m.family = "google" /\ m.converter \in {"google", "flash", "pro", "level"}

EndpointInv ==
  /\ w1 # "new" =>
       /\ w2 = [s \in Fields |-> w2[s]]
       /\ Suits(w2["model"])
       /\ \A i \in DOMAIN w2["racing"].fallbacks : w2["racing"].fallbacks[i] \in Endpoints!Names
       /\ DOMAIN w3 \subseteq Fields
       /\ Endpoints!Keeps
  /\ w1 = "executed" => \A r \in Endpoints!Requests : Endpoints!Fits(r)

LEMMA ModelsSuit ==
  ASSUME NEW which \in Endpoints!Names, NEW given
  PROVE  Suits(Endpoints!ModelOf(which, given))
BY DEF Suits, Endpoints!ModelOf, Endpoints!FromName, Endpoints!Names, Endpoints!PlainNames,
       Endpoints!EffortNames, Endpoints!BudgetNames, Endpoints!LevelNames, Endpoints!Model,
       Endpoints!Plain, Endpoints!Effort, Endpoints!Budget, Endpoints!Level

(* What the functions that convert the parameters send. *)
LEMMA PlainSends ==
  ASSUME NEW params
  PROVE  /\ DOMAIN Endpoints!ConvertOpenAI(params)
              = {"temperature", "top_p", "max_tokens", "max_retries"}
         /\ Endpoints!ConvertOpenAI(params)["max_retries"] = 0
         /\ DOMAIN Endpoints!ConvertGoogle(params)
              = {"temperature", "top_p", "max_output_tokens"}
BY DEF Endpoints!ConvertOpenAI, Endpoints!ConvertGoogle

LEMMA EffortSends ==
  ASSUME NEW params
  PROVE  LET sent == Endpoints!ConvertEffort(params)
         IN  /\ sent = [k \in DOMAIN sent |-> sent[k]]
             /\ DOMAIN sent \subseteq {"temperature", "max_retries", "reasoning_effort", "max_tokens"}
             /\ "max_retries" \in DOMAIN sent /\ sent["max_retries"] = 0
             /\ "temperature" \in DOMAIN sent => Endpoints!Get(sent, "reasoning_effort", "none") = "none"
BY DEF Endpoints!ConvertEffort, Endpoints!Over, Endpoints!Only, Endpoints!Get

LEMMA ThinkingSends ==
  ASSUME NEW params
  PROVE  /\ "thinking_level" \notin DOMAIN Endpoints!ConvertBudget(params)
         /\ "thinking_budget" \notin DOMAIN Endpoints!ConvertLevel(params)
         /\ "temperature" \in DOMAIN Endpoints!ConvertLevel(params)
         /\ Endpoints!ConvertLevel(params)["temperature"] = 1
<1>1. DOMAIN Endpoints!OutputTokens(params) \subseteq {"max_output_tokens"}
  BY DEF Endpoints!OutputTokens, Endpoints!One
<1> QED BY <1>1 DEF Endpoints!ConvertBudget, Endpoints!ConvertLevel, Endpoints!Over, Endpoints!Only

(* No model is sent a request that its API refuses. *)
LEMMA RequestsFit ==
  ASSUME NEW m, Suits(m), NEW timeout, NEW azure \in BOOLEAN, NEW structured \in BOOLEAN
  PROVE  Endpoints!Fits(Endpoints!CreateChatModel(m, timeout, azure, structured))
<1> DEFINE sent == Endpoints!ToApiParams(m)
           r == Endpoints!CreateChatModel(m, timeout, azure, structured)
<1> SUFFICES Endpoints!Fits(r)
  OBVIOUS
<1>1. CASE m.family = "google"
  <2>1. r.api = "google" /\ r.params = sent
    BY <1>1 DEF Endpoints!CreateChatModel
  <2>2. "thinking_level" \in DOMAIN sent =>
          /\ "thinking_budget" \notin DOMAIN sent
          /\ "temperature" \in DOMAIN sent /\ sent["temperature"] = 1
    BY <1>1, PlainSends, ThinkingSends DEF Suits, Endpoints!ToApiParams
  <2> HIDE DEF sent, r
  <2> QED BY <2>1, <2>2 DEF Endpoints!Fits, Endpoints!Get
<1>2. CASE m.family = "openai"
  <2>1. /\ "thinking_level" \notin DOMAIN sent
        /\ "max_retries" \in DOMAIN sent /\ sent["max_retries"] = 0
        /\ "temperature" \in DOMAIN sent => Endpoints!Get(sent, "reasoning_effort", "none") = "none"
    BY <1>2, PlainSends, EffortSends DEF Suits, Endpoints!ToApiParams, Endpoints!Get
  <2>2. r.params = IF azure THEN Endpoints!AzureParams(sent) ELSE sent
    BY <1>2 DEF Endpoints!CreateChatModel
  <2>3. r.api \in {"azure", "openai"} /\ (r.api = "azure" => azure)
    BY <1>2 DEF Endpoints!CreateChatModel
  <2> HIDE DEF sent, r
  <2>4. DOMAIN r.params = DOMAIN sent /\ \A k \in DOMAIN sent : k # "temperature" => r.params[k] = sent[k]
    BY <2>2 DEF Endpoints!AzureParams
  <2>5. azure => Endpoints!Get(r.params, "temperature", Endpoints!None) \in {Endpoints!None, 1}
    BY <2>2 DEF Endpoints!AzureParams, Endpoints!Get
  <2> QED BY <2>1, <2>3, <2>4, <2>5 DEF Endpoints!Fits, Endpoints!Get
<1> QED BY <1>1, <1>2 DEF Suits

LEMMA SecondsAre ==
  /\ \A t \in DOMAIN Endpoints!Seconds : Endpoints!Read(t) \in Nat
  /\ "reasoning" \in DOMAIN Endpoints!Seconds
BY DEF Endpoints!Seconds, Endpoints!Read

LEMMA ThinkersHaveTime ==
  ASSUME NEW t \in {Endpoints!Unset} \cup DOMAIN Endpoints!Seconds
  PROVE  Endpoints!Read(Endpoints!TimeoutFor(TRUE, t)) >= Endpoints!Read("reasoning")
<1>1. CASE t = Endpoints!Unset
  BY <1>1, SecondsAre DEF Endpoints!TimeoutFor
<1>2. CASE t # Endpoints!Unset
  BY <1>2, SecondsAre DEF Endpoints!TimeoutFor
<1> QED BY <1>1, <1>2

LEMMA EndpointDefined ==
  ASSUME NEW which \in Endpoints!Names, NEW given,
         NEW timeout \in {Endpoints!Unset} \cup DOMAIN Endpoints!Seconds,
         NEW racing \in Endpoints!SomeRacing, Endpoints!Named,
         Endpoints!DefineLLMEndpoint(which, given, timeout, racing)
  PROVE  EndpointInv'
<1>1. /\ w1' = "defined" /\ w3' = [racing |-> racing]
      /\ w2' = [model |-> Endpoints!ModelOf(which, given), racing |-> racing, attempts |-> 5,
                timeout |-> Endpoints!TimeoutFor(Endpoints!FromName[which].reasoning, timeout),
                keys |-> "none"]
  BY DEF Endpoints!DefineLLMEndpoint
<1>2. Suits(w2'["model"])
  BY <1>1, ModelsSuit
<1>3. \A i \in DOMAIN racing.fallbacks : racing.fallbacks[i] \in Endpoints!Names
  BY DEF Endpoints!SomeRacing, Endpoints!NotRacing, Endpoints!Racing, Endpoints!Named
<1>4. w2'.model.reasoning => Endpoints!Read(w2'.timeout) >= Endpoints!Read("reasoning")
  <2>1. w2'.model.reasoning = Endpoints!FromName[which].reasoning
    BY <1>1 DEF Endpoints!ModelOf
  <2>2. Endpoints!FromName[which].reasoning =>
          Endpoints!Read(Endpoints!TimeoutFor(Endpoints!FromName[which].reasoning, timeout))
            >= Endpoints!Read("reasoning")
    <3>1. Endpoints!FromName[which].reasoning \in BOOLEAN
      BY DEF Endpoints!FromName, Endpoints!Names, Endpoints!PlainNames, Endpoints!EffortNames,
             Endpoints!BudgetNames, Endpoints!LevelNames, Endpoints!Model, Endpoints!Plain,
             Endpoints!Effort, Endpoints!Budget, Endpoints!Level
    <3>2. CASE Endpoints!FromName[which].reasoning = TRUE
      BY <3>2, ThinkersHaveTime
    <3>3. CASE Endpoints!FromName[which].reasoning = FALSE
      BY <3>3
    <3> QED BY <3>1, <3>2, <3>3
  <2> QED BY <1>1, <2>1, <2>2
<1>5. Endpoints!Keeps'
  BY <1>1, <1>4 DEF Endpoints!Keeps
<1>6. w2' = [s \in Fields |-> w2'[s]]
  BY <1>1 DEF Fields
<1> QED BY <1>1, <1>2, <1>3, <1>5, <1>6 DEF EndpointInv, Fields

LEMMA EndpointSet ==
  ASSUME EndpointInv, NEW setting \in Fields, NEW value,
         setting = "model" => Suits(value),
         setting = "racing" => \A i \in DOMAIN value.fallbacks : value.fallbacks[i] \in Endpoints!Names,
         Endpoints!Set(setting, value)
  PROVE  EndpointInv'
<1>1. /\ w1 = "defined" /\ w1' = "defined"
      /\ w2' = [w2 EXCEPT ![setting] = value]
      /\ w3' = Endpoints!Over(Endpoints!One(setting, value), w3)
  BY DEF Endpoints!Set
<1>2. w2 = [s \in Fields |-> w2[s]]
  BY <1>1 DEF EndpointInv
<1>3. /\ w2' = [s \in Fields |-> w2'[s]]
      /\ w2'[setting] = value
      /\ \A s \in Fields \ {setting} : w2'[s] = w2[s]
  BY <1>1, <1>2
<1>4. /\ DOMAIN w3' = DOMAIN w3 \cup {setting}
      /\ w3'[setting] = value
      /\ \A s \in DOMAIN w3 \ {setting} : w3'[s] = w3[s]
  BY <1>1 DEF Endpoints!Over, Endpoints!One
<1>5. \A s \in DOMAIN w3' : w2'[s] = w3'[s]
  BY <1>1, <1>3, <1>4 DEF EndpointInv, Endpoints!Keeps
<1>6. w2'["model"].reasoning /\ DOMAIN w3' \cap {"timeout", "model"} = {} =>
        Endpoints!Read(w2'["timeout"]) >= Endpoints!Read("reasoning")
  <2> SUFFICES ASSUME w2'["model"].reasoning, DOMAIN w3' \cap {"timeout", "model"} = {}
               PROVE  Endpoints!Read(w2'["timeout"]) >= Endpoints!Read("reasoning")
    OBVIOUS
  <2>1. setting \notin {"timeout", "model"} /\ DOMAIN w3 \cap {"timeout", "model"} = {}
    BY <1>4
  <2>2. w2'["model"] = w2["model"] /\ w2'["timeout"] = w2["timeout"]
    BY <1>3, <2>1 DEF Fields
  <2> QED BY <1>1, <2>1, <2>2 DEF EndpointInv, Endpoints!Keeps
<1>7. Endpoints!Keeps'
  BY <1>5, <1>6 DEF Endpoints!Keeps
<1>8. Suits(w2'["model"])
  BY <1>1, <1>3 DEF EndpointInv, Fields
<1>9. \A i \in DOMAIN w2'["racing"].fallbacks : w2'["racing"].fallbacks[i] \in Endpoints!Names
  BY <1>1, <1>3 DEF EndpointInv, Fields
<1>10. DOMAIN w3' \subseteq Fields
  BY <1>1, <1>4 DEF EndpointInv
<1> QED BY <1>1, <1>3, <1>7, <1>8, <1>9, <1>10 DEF EndpointInv

LEMMA EndpointExecuted ==
  ASSUME EndpointInv, NEW azure \in BOOLEAN, NEW structured \in BOOLEAN,
         Endpoints!Execute(azure, structured)
  PROVE  EndpointInv'
<1> DEFINE Sent(m) == Endpoints!CreateChatModel(m, w2.timeout, azure, structured)
           others == w2.racing.fallbacks
<1>1. /\ w1 = "defined" /\ w1' = "executed" /\ w2' = w2 /\ w3' = w3
      /\ w4'.main = Sent(w2.model)
      /\ w4'.fallbacks = [i \in DOMAIN others |-> Sent(Endpoints!ModelOf(others[i], << >>))]
  BY DEF Endpoints!Execute
<1>2. Endpoints!Fits(Sent(w2.model))
  BY <1>1, RequestsFit DEF EndpointInv
<1>3. \A i \in DOMAIN others : Endpoints!Fits(Sent(Endpoints!ModelOf(others[i], << >>)))
  BY <1>1, RequestsFit, ModelsSuit DEF EndpointInv
<1> HIDE DEF Sent
<1>4. \A r \in Endpoints!Requests' : Endpoints!Fits(r)
  BY <1>1, <1>2, <1>3 DEF Endpoints!Requests
<1>5. Endpoints!Keeps'
  BY <1>1 DEF EndpointInv, Endpoints!Keeps
<1> QED BY <1>1, <1>4, <1>5 DEF EndpointInv

LEMMA EndpointNext == ASSUME EndpointInv, Endpoints!Named, Endpoints!Next PROVE EndpointInv'
<1>1. ASSUME NEW which \in Endpoints!Names, NEW given \in Given,
             NEW timeout \in {Endpoints!Unset} \cup DOMAIN Endpoints!Seconds,
             NEW racing \in Endpoints!SomeRacing,
             Endpoints!DefineLLMEndpoint(which, given, timeout, racing)
      PROVE  EndpointInv'
  BY <1>1, EndpointDefined
<1>2. ASSUME NEW t \in {"tiny", "medium"}, Endpoints!Timeout(t) PROVE EndpointInv'
  BY <1>2, EndpointSet DEF Endpoints!Timeout, Fields
<1>3. ASSUME NEW which \in {"gpt4o", "gpt5mini-minimal", "gemini3pro"}, NEW given \in Given,
             Endpoints!WithModel(which, given)
      PROVE  EndpointInv'
  <2>1. Suits(Endpoints!ModelOf(which, given))
    BY ModelsSuit DEF Endpoints!Names, Endpoints!PlainNames, Endpoints!EffortNames,
                      Endpoints!LevelNames
  <2> QED BY <1>3, <2>1, EndpointSet DEF Endpoints!WithModel, Fields
<1>4. ASSUME Endpoints!RetrySettings(3) \/ Endpoints!WithAPIKeyMapper("by family")
      PROVE  EndpointInv'
  BY <1>4, EndpointSet DEF Endpoints!RetrySettings, Endpoints!WithAPIKeyMapper, Fields
<1>5. ASSUME NEW f \in Fallbacks, Endpoints!RacingRetrySettings(f) PROVE EndpointInv'
  <2>1. \A i \in DOMAIN Endpoints!Racing(f).fallbacks :
          Endpoints!Racing(f).fallbacks[i] \in Endpoints!Names
    BY DEF Endpoints!Racing, Endpoints!Named
  <2> QED BY <1>5, <2>1, EndpointSet DEF Endpoints!RacingRetrySettings, Fields
<1>6. ASSUME NEW azure \in BOOLEAN, NEW structured \in BOOLEAN,
             Endpoints!Execute(azure, structured)
      PROVE  EndpointInv'
  BY <1>6, EndpointExecuted
<1> QED BY <1>1, <1>2, <1>3, <1>4, <1>5, <1>6 DEF Endpoints!Next

LEMMA EndpointStutters ==
  ASSUME EndpointInv, w1' = w1, w2' = w2, w3' = w3, w4' = w4 PROVE EndpointInv'
BY DEF EndpointInv, Endpoints!Keeps, Endpoints!Requests

(* Whatever model, parameters and settings are given in whatever order, a       *)
(* request has nothing that its API refuses and an endpoint keeps what its      *)
(* caller asked for, for any parameters and any fallbacks (models.py,           *)
(* params.py, endpoints.py).                                                    *)
THEOREM RequestsAreAccepted == ServicesSpec => []EndpointsSound
<1> DEFINE Inv == machine = "endpoints" => EndpointInv
<1>1. ServicesInit => Inv
  BY DEF ServicesInit, Endpoints!Init, EndpointInv
<1>2. Inv /\ [ServicesNext]_all => Inv'
  <2> SUFFICES ASSUME Inv, [ServicesNext]_all, machine' = "endpoints" PROVE EndpointInv'
    OBVIOUS
  <2>1. CASE RunEndpoints
    BY <2>1, EndpointNext, ServicesAssumption DEF RunEndpoints
  <2>2. CASE UNCHANGED all
    BY <2>2, EndpointStutters DEF all, w
  <2> QED
    BY <2>1, <2>2 DEF ServicesNext, Round, RunHeap, RunCalls, RunEnv, RunSnippets,
       RunJudgements, RunFusing, RunLoader, RunFetchers, Rest4, Rest5, Rest6, Rest7, Rest8
<1>3. Inv => EndpointsSound
  BY DEF EndpointsSound, EndpointInv, Endpoints!EndpointsSound
<1> QED BY <1>1, <1>2, <1>3, PTL DEF ServicesSpec

-----------------------------------------------------------------------------
(* The loader of the fields of Semantic Scholar                              *)

LEMMA LoaderSame ==
  /\ \A S : Loader!Cardinality(S) = Cardinality(S)
  /\ Loader!Unknown = 0
  BY DEF Loader!Cardinality, Cardinality, Loader!Unknown

LEMMA BatchNumber ==
  ASSUME NEW s \in Nat \ {0}, NEW c \in Nat, NEW r \in 1 .. c
  PROVE  /\ (c + s - 1) \div s \in Nat
         /\ (r - 1) \div s + 1 \in 1 .. ((c + s - 1) \div s)
<1> DEFINE q == (r - 1) \div s
           n == (c + s - 1) \div s
<1>1. q \in Nat /\ n \in Nat
  OBVIOUS
<1>2. s * q <= r - 1 /\ c + s - 1 < s * n + s
  OBVIOUS
<1> HIDE DEF q, n
<1>3. q + 1 <= n
  <2> SUFFICES ASSUME q >= n PROVE FALSE
    BY <1>1
  <2>1. s * (q - n) >= 0
    BY <1>1
  <2>2. s * (q - n) = s * q - s * n
    BY <1>1
  <2>3. s * q \in Int /\ s * n \in Int
    BY <1>1
  <2> QED BY <1>2, <2>1, <2>2, <2>3
<1> QED BY <1>1, <1>3 DEF q, n

(* Each document that is asked for is in one batch.                          *)
LEMMA BatchesPart ==
  ASSUME Loader!LoadsGiven, w1 \in Loads
  PROVE  /\ \E n \in Nat : DOMAIN Loader!CreateBatches = 1 .. n
         /\ \A b \in DOMAIN Loader!CreateBatches : Loader!Ids(b) \subseteq Loader!Asked
         /\ \A id \in Loader!Asked :
              \E b \in DOMAIN Loader!CreateBatches : id \in Loader!Ids(b)
         /\ \A a, b \in DOMAIN Loader!CreateBatches :
              Loader!Ids(a) \cap Loader!Ids(b) # {} => a = b
         /\ Loader!Asked \subseteq DOMAIN Current
<1> DEFINE E == Loader!Entities
           d == w1.docs
           c == Cardinality(E)
           upto(i) == {j \in E : j <= i}
           rank(i) == Cardinality(upto(i))
           number(i) == (rank(i) - 1) \div BatchSize + 1
           n == (c + BatchSize - 1) \div BatchSize
<1>1. /\ d \in Seq(DOMAIN Current \cup Foreign) /\ BatchSize \in Nat \ {0}
      /\ \A i, j \in DOMAIN d : d[i] = d[j] => i = j
  BY DEF Loader!LoadsGiven
<1>2. DOMAIN d = 1 .. Len(d) /\ Len(d) \in Nat /\ \A i \in DOMAIN d : d[i] \in DOMAIN Current \cup Foreign
  BY <1>1
<1>3. E = {i \in DOMAIN d : d[i] \notin Foreign}
  BY DEF Loader!Entities, Loader!IsForeign
<1> HIDE DEF d, E
<1>4. IsFiniteSet(E) /\ c \in Nat /\ E \subseteq Nat
  <2>1. IsFiniteSet(1 .. Len(d)) /\ E \subseteq 1 .. Len(d)
    BY <1>2, <1>3, FS_Interval
  <2>2. IsFiniteSet(E)
    BY <2>1, FS_Subset
  <2> QED BY <1>2, <2>1, <2>2, FS_CardinalityType
<1>5. \A i \in E : rank(i) \in 1 .. c
  <2> TAKE i \in E
  <2>1. upto(i) \subseteq E /\ i \in upto(i)
    BY <1>4
  <2> HIDE DEF upto
  <2>2. IsFiniteSet(upto(i)) /\ rank(i) <= c /\ rank(i) \in Nat
    BY <1>4, <2>1, FS_Subset, FS_CardinalityType
  <2>3. rank(i) # 0
    BY <2>1, <2>2, FS_EmptySet
  <2> QED BY <1>4, <2>2, <2>3
<1>6. Loader!CreateBatches = [b \in 1 .. n |-> {d[i] : i \in {j \in E : number(j) = b}}]
  BY LoaderSame DEF Loader!CreateBatches, Loader!Rank, d, E
<1> HIDE DEF upto, rank, c
<1>7. n \in Nat /\ \A i \in E : number(i) \in 1 .. n
  <2>1. n \in Nat
    BY <1>1, <1>4
  <2> QED BY <1>1, <1>4, <1>5, <2>1, BatchNumber
<1> HIDE DEF number, n
<1>8. /\ DOMAIN Loader!CreateBatches = 1 .. n
      /\ \A b \in 1 .. n : Loader!Ids(b) = {d[i] : i \in {j \in E : number(j) = b}}
  BY <1>6 DEF Loader!Ids
<1>9. Loader!Asked = {d[i] : i \in E}
  BY <1>3 DEF Loader!Asked, d
<1>10. \A a, b \in 1 .. n : Loader!Ids(a) \cap Loader!Ids(b) # {} => a = b
  <2> SUFFICES ASSUME NEW a \in 1 .. n, NEW b \in 1 .. n, NEW id \in Loader!Ids(a) \cap Loader!Ids(b)
               PROVE  a = b
    OBVIOUS
  <2>1. PICK i \in E : number(i) = a /\ d[i] = id
    BY <1>8
  <2>2. PICK j \in E : number(j) = b /\ d[j] = id
    BY <1>8
  <2> QED BY <1>1, <1>3, <2>1, <2>2
<1>11. Loader!Asked \subseteq DOMAIN Current
  BY <1>2, <1>3, <1>9
<1>12. \A b \in 1 .. n : Loader!Ids(b) \subseteq Loader!Asked
  BY <1>8, <1>9
<1>13. \A id \in Loader!Asked : \E b \in 1 .. n : id \in Loader!Ids(b)
  <2> TAKE id \in Loader!Asked
  <2>1. PICK i \in E : id = d[i]
    BY <1>9
  <2> QED BY <1>7, <1>8, <2>1
<1> QED BY <1>7, <1>8, <1>10, <1>11, <1>12, <1>13

LoaderStages == {"queued", "papers", "few", "many", "missing", "ended", "raised"}
LoaderDocs   == UNION {[S -> Nat] : S \in SUBSET Nat}
LoaderBatch  == [stage : LoaderStages, tries : Nat, papers : SUBSET Nat, cited : SUBSET Nat,
                 waiting : SUBSET Nat, docs : LoaderDocs, lost : SUBSET Nat]

KnownOf(b) == {Current[id] : id \in Loader!Ids(b)} \ {0}

(* What a batch has, by its stage: a paper is there under each id, or is     *)
(* waited for, or its own request failed, or there is none.                  *)
BatchFine(b, x) ==
  /\ DOMAIN x.docs \subseteq Loader!Ids(b) /\ x.lost \subseteq Loader!Ids(b)
  /\ \A id \in DOMAIN x.docs : x.docs[id] = Current[id] /\ Current[id] # 0 /\ id \notin x.lost
  /\ x.stage \in {"queued", "papers", "few", "many", "raised"} => x.docs = << >> /\ x.lost = {}
  /\ x.stage \in {"few", "many"} => x.papers \subseteq KnownOf(b)
  /\ x.stage = "many" => x.cited \subseteq KnownOf(b) /\ x.waiting \subseteq KnownOf(b)
  /\ x.stage = "missing" =>
       /\ x.waiting \subseteq Loader!Ids(b)
       /\ \A id \in x.waiting : id \notin DOMAIN x.docs /\ id \notin x.lost
  /\ x.stage \in {"missing", "ended"} =>
       \A id \in Loader!Ids(b) :
          \/ id \in DOMAIN x.docs \/ id \in x.lost \/ Current[id] = 0
          \/ x.stage = "missing" /\ id \in x.waiting

AllFine == \A b \in DOMAIN w2 : BatchFine(b, w2[b])

LoaderInv ==
  /\ w1 \in Loads
  /\ w2 \in [DOMAIN Loader!CreateBatches -> LoaderBatch]
  /\ AllFine
  /\ w3 = [state |-> w3.state, docs |-> w3.docs]
  /\ w3.state = "returned" => \A b \in DOMAIN w2 : w2[b].stage = "ended"
  /\ Loader!LoaderSound

LEMMA NoDocs == << >> \in LoaderDocs /\ DOMAIN << >> = {}
<1>1. DOMAIN << >> = {}
  OBVIOUS
<1>2. << >> \in [{} -> Nat]
  OBVIOUS
<1> QED BY <1>1, <1>2 DEF LoaderDocs

LEMMA LoaderBounds ==
  ASSUME Loader!LoadsGiven, w1 \in Loads, w2 \in [DOMAIN Loader!CreateBatches -> LoaderBatch]
  PROVE  /\ IsFiniteSet(DOMAIN w2) /\ IsFiniteSet(Loader!AtWork)
         /\ Cardinality(Loader!AtWork) \in Nat
         /\ \A b \in DOMAIN w2 : /\ Loader!Ids(b) \subseteq DOMAIN Current /\ Loader!Ids(b) \subseteq Nat
                                 /\ KnownOf(b) \subseteq Nat
                                 /\ \A id \in Loader!Ids(b) : Current[id] \in Nat
<1>1. PICK n \in Nat : DOMAIN w2 = 1 .. n
  BY BatchesPart
<1>2. IsFiniteSet(DOMAIN w2)
  BY <1>1, FS_Interval
<1>3. Loader!AtWork \subseteq DOMAIN w2
  BY DEF Loader!AtWork
<1>4. IsFiniteSet(Loader!AtWork)
  BY <1>2, <1>3, FS_Subset
<1>5. \A b \in DOMAIN w2 : Loader!Ids(b) \subseteq DOMAIN Current
  BY BatchesPart
<1>6. DOMAIN Current \subseteq Nat /\ \A id \in DOMAIN Current : Current[id] \in Nat
  BY DEF Loader!LoadsGiven
<1> QED BY <1>2, <1>4, <1>5, <1>6, FS_CardinalityType DEF KnownOf

LEMMA LeastNumber ==
  ASSUME NEW S \in SUBSET Nat, S # {}
  PROVE  \E q \in S : \A r \in S : q <= r
<1>1. PICK q \in S : \A r \in S : ~(<<r, q>> \in OpToRel(<, Nat))
  BY WFMin, NatLessThanWellFounded
<1>2. \A r \in S : ~(r < q)
  BY <1>1 DEF OpToRel
<1> QED BY <1>2

LEMMA LoaderInit == Loader!LoadsGiven /\ Loader!Init => LoaderInv
<1> SUFFICES ASSUME Loader!LoadsGiven, Loader!Init PROVE LoaderInv
  OBVIOUS
<1>1. /\ w1 \in Loads /\ w2 = [b \in DOMAIN Loader!CreateBatches |-> Loader!NewBatch]
      /\ w3 = [state |-> "loading", docs |-> << >>]
  BY DEF Loader!Init
<1>2. Loader!NewBatch \in LoaderBatch /\ Loader!NewBatch.stage = "queued"
      /\ Loader!NewBatch.docs = << >> /\ Loader!NewBatch.lost = {}
  BY NoDocs DEF Loader!NewBatch, LoaderBatch, LoaderStages
<1>3. w2 \in [DOMAIN Loader!CreateBatches -> LoaderBatch]
  BY <1>1, <1>2
<1>4. \A b \in DOMAIN w2 : w2[b] = Loader!NewBatch
  BY <1>1
<1>5. \A b \in DOMAIN w2 : BatchFine(b, w2[b])
  BY <1>2, <1>4, NoDocs DEF BatchFine
<1>6. Loader!AtWork = {}
  BY <1>2, <1>4 DEF Loader!AtWork
<1>7. Cardinality(Loader!AtWork) = 0 /\ LoadsAtOnce \in Nat
  BY <1>6, FS_EmptySet DEF Loader!LoadsGiven
<1>8. Loader!LoaderSound
  BY <1>1, <1>7, LoaderSame DEF Loader!LoaderSound, Loader!EveryKnownAnswered
<1> QED BY <1>1, <1>3, <1>5, <1>8 DEF LoaderInv, AllFine

LEMMA LoaderStays ==
  ASSUME w1' = w1
  PROVE  /\ Loader!CreateBatches' = Loader!CreateBatches /\ Loader!Asked' = Loader!Asked
         /\ \A b : Loader!Ids(b)' = Loader!Ids(b)
         /\ \A b : KnownOf(b)' = KnownOf(b)
<1>1. Loader!CreateBatches' = Loader!CreateBatches
  BY DEF Loader!CreateBatches, Loader!Entities, Loader!Rank
<1>2. \A b : Loader!Ids(b)' = Loader!Ids(b)
  BY <1>1 DEF Loader!Ids
<1>3. \A b : KnownOf(b)' = KnownOf(b)
  BY <1>2 DEF KnownOf
<1> QED BY <1>1, <1>2, <1>3 DEF Loader!Asked

(* A step of one batch.                                                      *)
LEMMA LoaderMoves ==
  ASSUME LoaderInv, Loader!LoadsGiven, NEW b \in DOMAIN w2, NEW x \in LoaderBatch,
         w2' = [w2 EXCEPT ![b] = x], w1' = w1, w3' = w3, w2[b].stage # "ended",
         BatchFine(b, x),
         \/ Cardinality(Loader!AtWork) < LoadsAtOnce
         \/ w2[b].stage \notin {"queued", "ended", "raised"}
  PROVE  LoaderInv'
<1>1. /\ w1 \in Loads /\ w2 \in [DOMAIN Loader!CreateBatches -> LoaderBatch]
      /\ w3.state # "returned"
  BY DEF LoaderInv
<1>2. /\ Loader!CreateBatches' = Loader!CreateBatches /\ DOMAIN w2' = DOMAIN w2
      /\ w2' \in [DOMAIN Loader!CreateBatches -> LoaderBatch]
      /\ \A a \in DOMAIN w2 : w2'[a] = IF a = b THEN x ELSE w2[a]
  BY <1>1, LoaderStays
<1>3. AllFine'
  <2>1. \A a \in DOMAIN w2 : BatchFine(a, w2'[a])
    BY <1>2 DEF LoaderInv, AllFine
  <2>2. \A a : Loader!Ids(a)' = Loader!Ids(a) /\ KnownOf(a)' = KnownOf(a)
    BY LoaderStays
  <2> QED BY <1>2, <2>1, <2>2 DEF AllFine, BatchFine
<1>4. Cardinality(Loader!AtWork') <= LoadsAtOnce
  <2>1. /\ IsFiniteSet(Loader!AtWork) /\ Cardinality(Loader!AtWork) \in Nat
        /\ Cardinality(Loader!AtWork) <= LoadsAtOnce /\ LoadsAtOnce \in Nat
    BY <1>1, LoaderBounds, LoaderSame DEF LoaderInv, Loader!LoaderSound, Loader!LoadsGiven
  <2>2. Loader!AtWork' \subseteq Loader!AtWork \cup {b}
    BY <1>2 DEF Loader!AtWork
  <2>3. CASE b \in Loader!AtWork
    <3>1. Loader!AtWork' \subseteq Loader!AtWork
      BY <2>2, <2>3
    <3>2. Cardinality(Loader!AtWork') <= Cardinality(Loader!AtWork) /\ IsFiniteSet(Loader!AtWork')
      BY <2>1, <3>1, FS_Subset
    <3>3. Cardinality(Loader!AtWork') \in Nat
      BY <3>2, FS_CardinalityType
    <3> QED BY <2>1, <3>2, <3>3
  <2>4. CASE b \notin Loader!AtWork
    <3>0. Cardinality(Loader!AtWork) < LoadsAtOnce
      BY <2>4 DEF Loader!AtWork
    <3>1. IsFiniteSet(Loader!AtWork \cup {b})
          /\ Cardinality(Loader!AtWork \cup {b}) = Cardinality(Loader!AtWork) + 1
      BY <2>1, <2>4, FS_AddElement
    <3>2. Cardinality(Loader!AtWork') <= Cardinality(Loader!AtWork) + 1 /\ IsFiniteSet(Loader!AtWork')
      BY <2>2, <3>1, FS_Subset
    <3>3. Cardinality(Loader!AtWork') \in Nat
      BY <3>2, FS_CardinalityType
    <3> QED BY <2>1, <3>0, <3>2, <3>3
  <2> QED BY <2>3, <2>4
<1>5. Loader!LoaderSound'
  BY <1>1, <1>4, LoaderSame DEF Loader!LoaderSound, Loader!EveryKnownAnswered
<1> QED BY <1>1, <1>2, <1>3, <1>5 DEF LoaderInv

(* What is answered under the ids of the batch itself.                       *)
LEMMA LoaderToDocs ==
  ASSUME LoaderInv, Loader!LoadsGiven, NEW b \in DOMAIN w2, NEW papers, papers \subseteq KnownOf(b),
         w2[b].stage \in {"papers", "many"}, w2' = Loader!ToDocs(b, papers), w1' = w1, w3' = w3
  PROVE  LoaderInv'
<1> DEFINE ids == Loader!Ids(b)
           there == papers \cap ids
           x == [w2[b] EXCEPT !.stage   = IF there = ids THEN "ended" ELSE "missing",
                              !.docs    = [id \in there |-> id],
                              !.waiting = ids \ papers]
<1>1. w2' = [w2 EXCEPT ![b] = x]
  BY DEF Loader!ToDocs
<1>2. w2 \in [DOMAIN Loader!CreateBatches -> LoaderBatch] /\ w1 \in Loads
  BY DEF LoaderInv
<1>3. ids \subseteq Nat /\ ids \subseteq DOMAIN Current /\ \A id \in ids : Current[id] \in Nat
  BY <1>2, LoaderBounds
<1>4. w2[b] \in LoaderBatch /\ BatchFine(b, w2[b])
  BY <1>2 DEF LoaderInv, AllFine
<1>5. [id \in there |-> id] \in LoaderDocs
  <2>1. there \subseteq Nat
    BY <1>3
  <2>2. [id \in there |-> id] \in [there -> Nat]
    BY <2>1
  <2> HIDE DEF there
  <2> QED BY <2>1, <2>2 DEF LoaderDocs
<1>6. \A id \in there : Current[id] = id /\ id # 0
  <2> TAKE id \in there
  <2>1. PICK j \in ids : id = Current[j] /\ id # 0
    BY DEF KnownOf
  <2> QED BY <1>3, <2>1 DEF Loader!LoadsGiven
<1>7. /\ x.stage = (IF there = ids THEN "ended" ELSE "missing")
      /\ x.docs = [id \in there |-> id] /\ x.waiting = ids \ papers
      /\ x.lost = {} /\ x \in LoaderBatch
  <2>1. w2[b].lost = {}
    BY <1>4 DEF BatchFine
  <2>2. ids \ papers \subseteq Nat
    BY <1>3
  <2> HIDE DEF ids, there
  <2> QED BY <1>4, <1>5, <2>1, <2>2 DEF LoaderBatch, LoaderStages
<1> HIDE DEF x
<1>8. DOMAIN x.docs = there /\ \A id \in there : x.docs[id] = id
  BY <1>7
<1>9. BatchFine(b, x)
  BY <1>6, <1>7, <1>8 DEF BatchFine
<1> QED BY <1>1, <1>7, <1>9, LoaderMoves

LEMMA LoaderStep ==
  ASSUME LoaderInv, Loader!LoadsGiven, NEW b \in DOMAIN w2, Loader!Step(b)
  PROVE  LoaderInv'
<1> DEFINE old == w2[b]
<1>1. /\ w2 \in [DOMAIN Loader!CreateBatches -> LoaderBatch] /\ w1 \in Loads
      /\ old \in LoaderBatch /\ BatchFine(b, old)
      /\ w1' = w1 /\ w3' = w3
  BY DEF LoaderInv, AllFine, Loader!Step, Loader!Enter, Loader!GetPapers, Loader!GetFewCitations,
         Loader!BatchFails, Loader!GetManyCitations, Loader!MergeCitations, Loader!FillMissing,
         Loader!Filled
<1>2. /\ Loader!Ids(b) \subseteq Nat /\ Loader!Ids(b) \subseteq DOMAIN Current
      /\ KnownOf(b) \subseteq Nat /\ \A id \in Loader!Ids(b) : Current[id] \in Nat
  BY <1>1, LoaderBounds
<1>3. \A k : [old EXCEPT !.stage = k] = [stage |-> k, tries |-> old.tries, papers |-> old.papers,
                cited |-> old.cited, waiting |-> old.waiting, docs |-> old.docs, lost |-> old.lost]
  BY <1>1 DEF LoaderBatch
<1>4. CASE Loader!Enter(b)
  <2> DEFINE x == [old EXCEPT !.stage = "papers"]
  <2>1. old.stage = "queued" /\ w2' = [w2 EXCEPT ![b] = x] /\ Cardinality(Loader!AtWork) < LoadsAtOnce
    BY <1>4, LoaderSame DEF Loader!Enter
  <2>2. x \in LoaderBatch /\ x.stage = "papers" /\ x.docs = old.docs /\ x.lost = old.lost
    BY <1>1, <1>3 DEF LoaderBatch, LoaderStages
  <2> HIDE DEF x
  <2>3. BatchFine(b, x)
    BY <1>1, <2>1, <2>2 DEF BatchFine
  <2> QED BY <1>1, <2>1, <2>2, <2>3, LoaderMoves
<1>5. CASE Loader!GetPapers(b)
  <2> DEFINE papers == KnownOf(b)
  <2>0. old.stage = "papers" /\ old.docs = << >> /\ old.lost = {}
    BY <1>1, <1>5 DEF Loader!GetPapers, BatchFine
  <2>1. w2' = IF papers = {} THEN [w2 EXCEPT ![b].stage = "ended"]
              ELSE IF ~w1.citations THEN Loader!ToDocs(b, papers)
              ELSE IF papers \subseteq Many THEN Loader!AskMany(b, papers, {})
              ELSE [w2 EXCEPT ![b].stage = "few", ![b].papers = papers]
    BY <1>5, LoaderSame DEF Loader!GetPapers, KnownOf
  <2>2. CASE papers = {}
    <3> DEFINE x == [old EXCEPT !.stage = "ended"]
    <3>1. w2' = [w2 EXCEPT ![b] = x]
      BY <2>1, <2>2
    <3>2. x \in LoaderBatch /\ x.stage = "ended" /\ x.docs = << >> /\ x.lost = {}
      BY <1>1, <1>3, <2>0 DEF LoaderBatch, LoaderStages
    <3>3. \A id \in Loader!Ids(b) : Current[id] = 0
      BY <2>2 DEF KnownOf
    <3> HIDE DEF x
    <3>4. BatchFine(b, x)
      BY <3>2, <3>3, NoDocs DEF BatchFine
    <3> QED BY <1>1, <2>0, <3>1, <3>2, <3>4, LoaderMoves
  <2>3. CASE papers # {} /\ ~w1.citations
    <3>1. w2' = Loader!ToDocs(b, papers)
      BY <2>1, <2>3
    <3> QED BY <1>1, <2>0, <3>1, LoaderToDocs
  <2>4. CASE papers # {} /\ w1.citations /\ papers \subseteq Many
    <3> DEFINE x == [old EXCEPT !.stage = "many", !.papers = papers, !.cited = {},
                                !.waiting = papers \cap Many]
    <3>1. w2' = [w2 EXCEPT ![b] = x]
      BY <2>1, <2>4 DEF Loader!AskMany
    <3>2. /\ x \in LoaderBatch /\ x.stage = "many" /\ x.docs = << >> /\ x.lost = {}
          /\ x.papers = papers /\ x.cited = {} /\ x.waiting = papers \cap Many
      BY <1>1, <1>2, <2>0 DEF LoaderBatch, LoaderStages
    <3> HIDE DEF x
    <3>3. BatchFine(b, x)
      BY <3>2, NoDocs DEF BatchFine
    <3> QED BY <1>1, <2>0, <3>1, <3>2, <3>3, LoaderMoves
  <2>5. CASE papers # {} /\ w1.citations /\ ~(papers \subseteq Many)
    <3> DEFINE x == [old EXCEPT !.stage = "few", !.papers = papers]
    <3>1. w2' = [w2 EXCEPT ![b] = x]
      BY <2>1, <2>5
    <3>2. /\ x \in LoaderBatch /\ x.stage = "few" /\ x.docs = << >> /\ x.lost = {}
          /\ x.papers = papers
      BY <1>1, <1>2, <2>0 DEF LoaderBatch, LoaderStages
    <3> HIDE DEF x
    <3>3. BatchFine(b, x)
      BY <3>2, NoDocs DEF BatchFine
    <3> QED BY <1>1, <2>0, <3>1, <3>2, <3>3, LoaderMoves
  <2> QED BY <2>2, <2>3, <2>4, <2>5
<1>6. CASE Loader!GetFewCitations(b)
  <2> DEFINE x == [old EXCEPT !.stage = "many", !.papers = old.papers, !.cited = old.papers \ Many,
                              !.waiting = old.papers \cap Many]
  <2>1. /\ old.stage = "few" /\ old.docs = << >> /\ old.lost = {} /\ old.papers \subseteq KnownOf(b)
        /\ w2' = [w2 EXCEPT ![b] = x]
    BY <1>1, <1>6 DEF Loader!GetFewCitations, Loader!AskMany, BatchFine
  <2>2. /\ x \in LoaderBatch /\ x.stage = "many" /\ x.docs = << >> /\ x.lost = {}
        /\ x.papers = old.papers /\ x.cited = old.papers \ Many /\ x.waiting = old.papers \cap Many
    BY <1>1, <2>1 DEF LoaderBatch, LoaderStages
  <2> HIDE DEF x
  <2>3. BatchFine(b, x)
    BY <2>1, <2>2, NoDocs DEF BatchFine
  <2> QED BY <1>1, <2>1, <2>2, <2>3, LoaderMoves
<1>7. CASE Loader!BatchFails(b)
  <2>1. old.stage \in {"papers", "few"}
    BY <1>7 DEF Loader!BatchFails
  <2>2. PICK again \in BOOLEAN :
           w2' = [w2 EXCEPT ![b] =
               [Loader!NewBatch EXCEPT
                  !.stage = IF again /\ old.tries + 1 < S2Attempts THEN "papers" ELSE "raised",
                  !.tries = old.tries + 1]]
    BY <1>7 DEF Loader!BatchFails
  <2> DEFINE k == IF again /\ old.tries + 1 < S2Attempts THEN "papers" ELSE "raised"
             x == [Loader!NewBatch EXCEPT !.stage = k, !.tries = old.tries + 1]
  <2>3. w2' = [w2 EXCEPT ![b] = x]
    BY <2>2
  <2>4. k \in {"papers", "raised"} /\ old.tries + 1 \in Nat
    BY <1>1 DEF LoaderBatch
  <2> HIDE DEF k
  <2>5. x \in LoaderBatch /\ x.stage = k /\ x.docs = << >> /\ x.lost = {}
    BY <2>4, NoDocs DEF Loader!NewBatch, LoaderBatch, LoaderStages
  <2> HIDE DEF x
  <2>6. BatchFine(b, x)
    BY <2>4, <2>5, NoDocs DEF BatchFine
  <2> QED BY <1>1, <2>1, <2>3, <2>5, <2>6, LoaderMoves
<1>8. CASE Loader!GetManyCitations(b)
  <2>1. /\ old.stage = "many" /\ old.waiting # {} /\ old.docs = << >> /\ old.lost = {}
        /\ old.papers \subseteq KnownOf(b) /\ old.cited \subseteq KnownOf(b)
        /\ old.waiting \subseteq KnownOf(b)
    BY <1>1, <1>8 DEF Loader!GetManyCitations, BatchFine
  <2> DEFINE p == CHOOSE q \in old.waiting : \A r \in old.waiting : q <= r
  <2>2. PICK answered \in BOOLEAN :
          w2' = [w2 EXCEPT ![b].waiting = @ \ {p},
                           ![b].cited = IF answered THEN @ \cup {p} ELSE @]
    BY <1>8 DEF Loader!GetManyCitations
  <2>3. p \in old.waiting
    <3>1. old.waiting \in SUBSET Nat /\ old.waiting # {}
      BY <1>1, <2>1 DEF LoaderBatch
    <3>2. \E q \in old.waiting : \A r \in old.waiting : q <= r
      BY <3>1, LeastNumber
    <3> QED BY <3>2
  <2> HIDE DEF p
  <2> DEFINE c == IF answered THEN old.cited \cup {p} ELSE old.cited
             x == [old EXCEPT !.waiting = old.waiting \ {p}, !.cited = c]
  <2>4. w2' = [w2 EXCEPT ![b] = x]
    BY <2>2
  <2>5. c \subseteq KnownOf(b)
    BY <2>1, <2>3
  <2> HIDE DEF c
  <2>6. /\ x \in LoaderBatch /\ x.stage = "many" /\ x.docs = << >> /\ x.lost = {}
        /\ x.papers = old.papers /\ x.cited = c /\ x.waiting = old.waiting \ {p}
    BY <1>1, <1>2, <2>1, <2>5 DEF LoaderBatch, LoaderStages
  <2> HIDE DEF x
  <2>7. BatchFine(b, x)
    BY <2>1, <2>5, <2>6, NoDocs DEF BatchFine
  <2> QED BY <1>1, <2>1, <2>4, <2>6, <2>7, LoaderMoves
<1>9. CASE Loader!MergeCitations(b)
  <2>1. /\ old.stage = "many" /\ old.cited \subseteq KnownOf(b)
        /\ w2' = Loader!ToDocs(b, old.cited)
    BY <1>1, <1>9 DEF Loader!MergeCitations, BatchFine
  <2> QED BY <1>1, <2>1, LoaderToDocs
<1>10. CASE Loader!FillMissing(b)
  <2>1. PICK id \in old.waiting, answered \in BOOLEAN :
          w2' = [w2 EXCEPT
                   ![b].waiting = @ \ {id},
                   ![b].docs = IF answered /\ Current[id] # Loader!Unknown
                               THEN [d \in DOMAIN old.docs \cup {id} |->
                                        IF d = id THEN Current[id] ELSE old.docs[d]]
                               ELSE old.docs,
                   ![b].lost = IF answered THEN @ ELSE @ \cup {id}]
    BY <1>10, Zenon DEF Loader!FillMissing
  <2>2. /\ old.stage = "missing" /\ id \in Loader!Ids(b) /\ id \notin DOMAIN old.docs
        /\ id \notin old.lost
    BY <1>1, <1>10, <2>1 DEF Loader!FillMissing, BatchFine
  <2> DEFINE D == IF answered /\ Current[id] # Loader!Unknown
                  THEN [d \in DOMAIN old.docs \cup {id} |-> IF d = id THEN Current[id] ELSE old.docs[d]]
                  ELSE old.docs
             L == IF answered THEN old.lost ELSE old.lost \cup {id}
             x == [old EXCEPT !.waiting = old.waiting \ {id}, !.docs = D, !.lost = L]
  <2>3. w2' = [w2 EXCEPT ![b] = x]
    BY <2>1
  <2>4. /\ \A d \in DOMAIN D : \/ d \in DOMAIN old.docs /\ D[d] = old.docs[d]
                               \/ d = id /\ D[d] = Current[id] /\ Current[id] # 0 /\ answered
        /\ DOMAIN old.docs \subseteq DOMAIN D
        /\ answered /\ Current[id] # 0 => id \in DOMAIN D
    BY <2>2, LoaderSame
  <2>5. D \in LoaderDocs
    <3>1. PICK S \in SUBSET Nat : old.docs \in [S -> Nat]
      BY <1>1 DEF LoaderBatch, LoaderDocs
    <3>2. CASE answered /\ Current[id] # 0
      <4>1. D \in [S \cup {id} -> Nat] /\ S \cup {id} \in SUBSET Nat
        BY <1>2, <2>2, <3>1, <3>2, LoaderSame
      <4> QED BY <4>1 DEF LoaderDocs
    <3>3. CASE ~(answered /\ Current[id] # 0)
      BY <1>1, <3>3, LoaderSame DEF LoaderBatch
    <3> QED BY <3>2, <3>3
  <2> HIDE DEF D
  <2>6. L \subseteq Nat /\ L \subseteq old.lost \cup {id} /\ old.lost \subseteq L
        /\ (answered => L = old.lost) /\ (~answered => id \in L)
    BY <1>1, <1>2, <2>2 DEF LoaderBatch
  <2> HIDE DEF L
  <2>7. /\ x \in LoaderBatch /\ x.stage = "missing" /\ x.docs = D /\ x.lost = L
        /\ x.waiting = old.waiting \ {id}
    BY <1>1, <2>2, <2>5, <2>6 DEF LoaderBatch, LoaderStages
  <2> HIDE DEF x
  <2>8. /\ DOMAIN old.docs \subseteq Loader!Ids(b) /\ old.lost \subseteq Loader!Ids(b)
        /\ old.waiting \subseteq Loader!Ids(b)
        /\ \A d \in DOMAIN old.docs : old.docs[d] = Current[d] /\ Current[d] # 0 /\ d \notin old.lost
        /\ \A d \in old.waiting : d \notin DOMAIN old.docs /\ d \notin old.lost
        /\ \A d \in Loader!Ids(b) :
             d \in DOMAIN old.docs \/ d \in old.lost \/ Current[d] = 0 \/ d \in old.waiting
    BY <1>1, <2>2 DEF BatchFine
  <2>9. DOMAIN D \subseteq Loader!Ids(b) /\ L \subseteq Loader!Ids(b)
    BY <2>2, <2>4, <2>6, <2>8
  <2>10. \A d \in DOMAIN D : D[d] = Current[d] /\ Current[d] # 0 /\ d \notin L
    BY <2>2, <2>4, <2>6, <2>8
  <2>11. \A d \in old.waiting \ {id} : d \notin DOMAIN D /\ d \notin L
    BY <2>4, <2>6, <2>8
  <2>12. \A d \in Loader!Ids(b) :
           d \in DOMAIN D \/ d \in L \/ Current[d] = 0 \/ d \in old.waiting \ {id}
    BY <2>4, <2>6, <2>8
  <2>13. BatchFine(b, x)
    BY <2>7, <2>8, <2>9, <2>10, <2>11, <2>12 DEF BatchFine
  <2> QED BY <1>1, <2>2, <2>3, <2>7, <2>13, LoaderMoves
<1>11. CASE Loader!Filled(b)
  <2> DEFINE x == [old EXCEPT !.stage = "ended"]
  <2>1. old.stage = "missing" /\ old.waiting = {} /\ w2' = [w2 EXCEPT ![b] = x]
    BY <1>11 DEF Loader!Filled
  <2>2. x \in LoaderBatch /\ x.stage = "ended" /\ x.docs = old.docs /\ x.lost = old.lost
    BY <1>1, <1>3 DEF LoaderBatch, LoaderStages
  <2> HIDE DEF x
  <2>3. BatchFine(b, x)
    BY <1>1, <2>1, <2>2 DEF BatchFine
  <2> QED BY <1>1, <2>1, <2>2, <2>3, LoaderMoves
<1> QED BY <1>4, <1>5, <1>6, <1>7, <1>8, <1>9, <1>10, <1>11 DEF Loader!Step

LEMMA LoaderReturns ==
  ASSUME LoaderInv, Loader!LoadsGiven, Loader!Return
  PROVE  LoaderInv'
<1>1. /\ w1' = w1 /\ w2' = w2 /\ w1 \in Loads /\ \A b \in DOMAIN w2 : w2[b].stage = "ended"
      /\ w3' = [state |-> "returned",
                docs |-> [id \in UNION {DOMAIN w2[b].docs : b \in DOMAIN w2} |->
                  w2[CHOOSE b \in DOMAIN w2 : id \in DOMAIN w2[b].docs].docs[id]]]
  BY DEF Loader!Return, LoaderInv
<1> DEFINE at(id) == CHOOSE b \in DOMAIN w2 : id \in DOMAIN w2[b].docs
           D == [id \in UNION {DOMAIN w2[b].docs : b \in DOMAIN w2} |-> w2[at(id)].docs[id]]
<1>2. w3'.state = "returned" /\ w3'.docs = D /\ w3' = [state |-> w3'.state, docs |-> w3'.docs]
  BY <1>1
<1>3. \A id \in DOMAIN D : at(id) \in DOMAIN w2 /\ id \in DOMAIN w2[at(id)].docs
                           /\ D[id] = w2[at(id)].docs[id]
  OBVIOUS
<1>4. \A b \in DOMAIN w2 : DOMAIN w2[b].docs \subseteq DOMAIN D
  OBVIOUS
<1> HIDE DEF D, at
<1>5. DOMAIN w2 = DOMAIN Loader!CreateBatches
  BY DEF LoaderInv
<1>6. \A b \in DOMAIN w2 :
        /\ DOMAIN w2[b].docs \subseteq Loader!Ids(b) /\ w2[b].lost \subseteq Loader!Ids(b)
        /\ \A id \in DOMAIN w2[b].docs :
              w2[b].docs[id] = Current[id] /\ Current[id] # 0 /\ id \notin w2[b].lost
        /\ \A id \in Loader!Ids(b) :
              id \in DOMAIN w2[b].docs \/ id \in w2[b].lost \/ Current[id] = 0
  BY <1>1 DEF LoaderInv, AllFine, BatchFine
<1>7. DOMAIN D \subseteq Loader!Asked
  BY <1>1, <1>3, <1>5, <1>6, BatchesPart
<1>8. \A id \in DOMAIN D : D[id] = Current[id] /\ Current[id] # 0
  BY <1>3, <1>6
<1>9. \A id \in DOMAIN D : id \notin Loader!Lost
  <2> SUFFICES ASSUME NEW id \in DOMAIN D, NEW a \in DOMAIN w2, id \in w2[a].lost PROVE FALSE
    BY DEF Loader!Lost
  <2>1. id \in Loader!Ids(a) \cap Loader!Ids(at(id))
    BY <1>3, <1>6
  <2>2. a = at(id)
    BY <1>1, <1>3, <1>5, <2>1, BatchesPart
  <2> QED BY <1>3, <1>6, <2>2
<1>10. \A id \in Loader!Asked : Current[id] # 0 /\ id \notin Loader!Lost => id \in DOMAIN D
  <2> SUFFICES ASSUME NEW id \in Loader!Asked, Current[id] # 0, id \notin Loader!Lost
               PROVE  id \in DOMAIN D
    OBVIOUS
  <2>1. PICK b \in DOMAIN w2 : id \in Loader!Ids(b)
    BY <1>1, <1>5, BatchesPart
  <2>2. id \notin w2[b].lost
    BY DEF Loader!Lost
  <2> QED BY <1>4, <1>6, <2>1, <2>2
<1>11. /\ Loader!CreateBatches' = Loader!CreateBatches /\ Loader!Asked' = Loader!Asked
       /\ \A b : Loader!Ids(b)' = Loader!Ids(b)
       /\ \A b : KnownOf(b)' = KnownOf(b)
  BY <1>1, LoaderStays
<1>12. Loader!Lost' = Loader!Lost /\ Loader!AtWork' = Loader!AtWork
  BY <1>1 DEF Loader!Lost, Loader!AtWork
<1>13. Loader!EveryKnownAnswered'
  BY <1>2, <1>7, <1>8, <1>9, <1>10, <1>11, <1>12, LoaderSame DEF Loader!EveryKnownAnswered
<1>14. AllFine'
  <2>1. \A b \in DOMAIN w2 : BatchFine(b, w2[b])
    BY DEF LoaderInv, AllFine
  <2> QED BY <1>1, <1>11, <2>1 DEF AllFine, BatchFine
<1>15. Loader!LoaderSound'
  BY <1>12, <1>13, LoaderSame DEF LoaderInv, Loader!LoaderSound
<1> QED BY <1>1, <1>2, <1>11, <1>14, <1>15 DEF LoaderInv

LEMMA LoaderRaises ==
  ASSUME LoaderInv, Loader!LoadsGiven, Loader!Raise
  PROVE  LoaderInv'
<1>1. w1' = w1 /\ w2' = w2 /\ w3' = [w3 EXCEPT !.state = "raised"]
  BY DEF Loader!Raise
<1>2. /\ Loader!CreateBatches' = Loader!CreateBatches
      /\ \A b : Loader!Ids(b)' = Loader!Ids(b)
      /\ \A b : KnownOf(b)' = KnownOf(b)
  BY <1>1, LoaderStays
<1>3. AllFine'
  <2>1. \A b \in DOMAIN w2 : BatchFine(b, w2[b])
    BY DEF LoaderInv, AllFine
  <2> QED BY <1>1, <1>2, <2>1 DEF AllFine, BatchFine
<1>4. w3'.state = "raised" /\ w3' = [state |-> w3'.state, docs |-> w3'.docs]
  <2>1. w3 = [state |-> w3.state, docs |-> w3.docs]
    BY DEF LoaderInv
  <2> QED BY <1>1, <2>1
<1>5. Loader!AtWork' = Loader!AtWork
  BY <1>1 DEF Loader!AtWork
<1>6. Loader!LoaderSound'
  BY <1>4, <1>5, LoaderSame DEF LoaderInv, Loader!LoaderSound, Loader!EveryKnownAnswered
<1> QED BY <1>1, <1>2, <1>3, <1>4, <1>6 DEF LoaderInv

LEMMA LoaderNext == LoaderInv /\ Loader!LoadsGiven /\ Loader!Next => LoaderInv'
  BY LoaderStep, LoaderReturns, LoaderRaises DEF Loader!Next

LEMMA LoaderStutters ==
  ASSUME LoaderInv, w1' = w1, w2' = w2, w3' = w3
  PROVE  LoaderInv'
<1>1. /\ Loader!CreateBatches' = Loader!CreateBatches /\ Loader!Asked' = Loader!Asked
      /\ \A b : Loader!Ids(b)' = Loader!Ids(b)
      /\ \A b : KnownOf(b)' = KnownOf(b)
  BY LoaderStays
<1>2. AllFine'
  <2>1. \A b \in DOMAIN w2 : BatchFine(b, w2[b])
    BY DEF LoaderInv, AllFine
  <2> QED BY <1>1, <2>1 DEF AllFine, BatchFine
<1>3. Loader!LoaderSound'
  BY <1>1 DEF LoaderInv, Loader!LoaderSound, Loader!EveryKnownAnswered, Loader!AtWork, Loader!Lost
<1> QED BY <1>1, <1>2, <1>3 DEF LoaderInv

-----------------------------------------------------------------------------
(* The searches of Semantic Scholar                                          *)

(* Induction-free facts about the years of days.                             *)
LEMMA YearOfDay ==
  ASSUME NEW d \in Nat \ {0}, NEW a \in Nat, NEW y \in Nat
  PROVE  a \div d \in Nat /\ y * d \in Nat /\ (y * d <= a <=> y <= a \div d)
<1> DEFINE q == a \div d
<1>1. q \in Nat /\ y * d \in Nat
  OBVIOUS
<1>2. d * q <= a /\ a < d * q + d
  OBVIOUS
<1> HIDE DEF q
<1>3. ASSUME y <= q PROVE y * d <= a
  <2>1. (q - y) * d >= 0
    BY <1>1, <1>3
  <2>2. (q - y) * d = d * q - y * d
    BY <1>1
  <2>3. d * q \in Nat /\ y * d \in Nat
    BY <1>1
  <2> QED BY <1>2, <2>1, <2>2, <2>3
<1>4. ASSUME y > q PROVE y * d > a
  <2>1. (y - q - 1) * d >= 0
    BY <1>1, <1>4
  <2>2. (y - q - 1) * d = y * d - d * q - d
    BY <1>1
  <2>3. d * q \in Nat /\ y * d \in Nat
    BY <1>1
  <2> QED BY <1>2, <2>1, <2>2, <2>3
<1>5. y * d <= a <=> y <= q
  <2>1. y <= q \/ y > q
    BY <1>1
  <2> QED BY <1>1, <1>3, <1>4, <2>1
<1> QED BY <1>1, <1>5 DEF q

LEMMA YearsRise ==
  ASSUME NEW d \in Nat \ {0}, NEW a \in Nat, NEW b \in Nat, a <= b
  PROVE  a \div d \in Nat /\ b \div d \in Nat /\ a \div d <= b \div d
<1>1. a \div d \in Nat /\ b \div d \in Nat
  OBVIOUS
<1> DEFINE y == a \div d
<1>2. y * d <= a
  BY <1>1, YearOfDay
<1>3. y * d <= b /\ y * d \in Nat
  BY <1>1, <1>2, YearOfDay
<1> QED BY <1>1, <1>3, YearOfDay

LEMMA FirstDayOfYear ==
  ASSUME NEW d \in Nat \ {0}, NEW y \in Nat
  PROVE  y * d \in Nat /\ (y * d) \div d = y /\ (y + 1) * d = y * d + d
<1>1. y * d \in Nat /\ (y + 1) * d = y * d + d
  OBVIOUS
<1>2. y <= (y * d) \div d /\ (y * d) \div d \in Nat
  BY <1>1, YearOfDay
<1>3. ~(y + 1 <= (y * d) \div d)
  <2>1. ~((y + 1) * d <= y * d)
    BY <1>1
  <2> QED BY <1>1, <2>1, YearOfDay
<1> QED BY <1>1, <1>2, <1>3

LEMMA FetchersSame ==
  /\ \A S : Fetchers!Cardinality(S) = Cardinality(S)
  /\ Fetchers!None = -1
  BY DEF Fetchers!Cardinality, Cardinality, Fetchers!None

Years == (Nat \ {0}) \cup {-1}

LEMMA SearchTypes ==
  ASSUME Fetchers!SourceAgrees, w1 \in Searches, w2 \in Corpora
  PROVE  /\ DaysPerYear \in Nat \ {0} /\ PageSize \in Nat \ {0}
         /\ w1.kind \in {"search", "title", "author", "citing"}
         /\ w1.start \in Years /\ w1.end \in Years /\ w1.limit \in Nat
         /\ DOMAIN w2 = 1..Len(w2) /\ Len(w2) \in Nat
         /\ \A i \in DOMAIN w2 :
              /\ w2[i].year \in Years /\ w2[i].date \in Nat \cup {-1}
              /\ w2[i].date # -1 => w2[i].year = w2[i].date \div DaysPerYear
<1>1. /\ w1 \in [kind : {"search", "title", "author", "citing"}, start : Years,
                 end : Years, before : Seq(Nat), limit : Nat]
      /\ w2 \in Seq([year : Years, date : Nat \cup {-1}])
  BY FetchersSame DEF Fetchers!SourceAgrees, Years
<1>2. \A i \in DOMAIN w2 : w2[i] \in [year : Years, date : Nat \cup {-1}]
  <2> DEFINE R == [year : Years, date : Nat \cup {-1}]
  <2>1. w2 \in Seq(R)
    BY <1>1
  <2> HIDE DEF R
  <2>2. \A i \in DOMAIN w2 : w2[i] \in R
    BY <2>1
  <2> QED BY <2>2 DEF R
<1>3. \A i \in DOMAIN w2 : w2[i].date # -1 => w2[i].year = w2[i].date \div DaysPerYear
  BY FetchersSame DEF Fetchers!SourceAgrees
<1> QED BY <1>1, <1>2, <1>3 DEF Fetchers!SourceAgrees

(* The day before the one that is asked for.                                 *)
LEMMA LastDay ==
  ASSUME Fetchers!SourceAgrees, w1 \in Searches
  PROVE  /\ w1.before = << >> => Fetchers!LastAllowed(w1.before) = -1
         /\ w1.before # << >> =>
              /\ Fetchers!LastAllowed(w1.before) \in Nat
              /\ Fetchers!Cutoff = Fetchers!LastAllowed(w1.before) + 1
<1>1. w1.before \in Seq(Nat) /\ (w1.before # << >> => w1.before[1] > 0)
  BY DEF Fetchers!SourceAgrees
<1>2. DaysPerYear \in Nat \ {0} /\ DaysPerMonth \in Nat
  BY DEF Fetchers!SourceAgrees
<1>3. ASSUME w1.before # << >> PROVE Fetchers!FirstDay(w1.before) \in Nat \ {0}
  <2>1. Len(w1.before) \in Nat /\ w1.before[1] \in Nat \ {0}
    BY <1>1, <1>3
  <2>2. /\ Len(w1.before) > 1 => w1.before[2] \in Nat
        /\ Len(w1.before) > 2 => w1.before[3] \in Nat
    BY <1>1
  <2>3. w1.before[1] * DaysPerYear \in Nat \ {0}
    BY <1>2, <2>1
  <2>4. Len(w1.before) > 1 => w1.before[2] * DaysPerMonth \in Nat
    BY <1>2, <2>2
  <2> DEFINE years == w1.before[1] * DaysPerYear
             months == IF Len(w1.before) > 1 THEN w1.before[2] * DaysPerMonth ELSE 0
             days == IF Len(w1.before) > 2 THEN w1.before[3] ELSE 0
  <2>5. Fetchers!FirstDay(w1.before) = years + months + days
    BY Zenon DEF Fetchers!FirstDay
  <2>6. years \in Nat \ {0} /\ months \in Nat /\ days \in Nat
    BY <2>2, <2>3, <2>4
  <2> HIDE DEF years, months, days
  <2> QED BY <2>5, <2>6
<1> QED BY <1>3, FetchersSame DEF Fetchers!LastAllowed, Fetchers!Cutoff

(* What OldStateKept says of a paper.                                        *)
OldFine(p) ==
  /\ w1.before # << >> =>
         /\ p.year # -1 /\ p.year <= Fetchers!YearOf(Fetchers!Cutoff)
         /\ p.date # -1 => p.date < Fetchers!Cutoff
         /\ Fetchers!ByRange /\ w1.end # -1 => p.year <= w1.end
  /\ Fetchers!ByRange /\ w1.start # -1 => p.year # -1 /\ p.year >= w1.start

LEMMA OldIfAdmitted ==
  ASSUME Fetchers!SourceAgrees, w1 \in Searches, w2 \in Corpora, NEW i \in DOMAIN w2,
         Fetchers!ByRange, Fetchers!Admits(Fetchers!Range, w2[i])
  PROVE  OldFine(w2[i])
<1> DEFINE p == w2[i]
           last == Fetchers!LastAllowed(w1.before)
           day == IF p.date # -1 THEN p.date ELSE p.year * DaysPerYear
           sooner == w1.end # -1 /\ w1.end < last \div DaysPerYear
           until == IF w1.before = << >> THEN -1
                    ELSE IF sooner THEN (w1.end + 1) * DaysPerYear - 1 ELSE last
<1>1. /\ DaysPerYear \in Nat \ {0} /\ w1.start \in Years /\ w1.end \in Years
      /\ p.year \in Years /\ p.date \in Nat \cup {-1}
      /\ p.date # -1 => p.year = p.date \div DaysPerYear
  BY SearchTypes
<1>2. /\ w1.before # << >> => last \in Nat /\ Fetchers!Cutoff = last + 1
  BY LastDay
<1>3. Fetchers!Range = [start |-> w1.start, end |-> until]
  BY FetchersSame DEF Fetchers!Range, Fetchers!MergeTimeRange, Fetchers!EndsSooner, Fetchers!YearOf
<1> HIDE DEF until, last
<1>4. \/ w1.start = -1 /\ until = -1
      \/ /\ p.year # -1
         /\ w1.start # -1 => w1.start <= day \div DaysPerYear
         /\ until # -1 => day <= until
  BY <1>3, FetchersSame DEF Fetchers!Admits, Fetchers!YearOf
<1>5. p.year # -1 => day \in Nat /\ day \div DaysPerYear = p.year /\ p.year \in Nat
  <2> SUFFICES ASSUME p.year # -1 PROVE day \in Nat /\ day \div DaysPerYear = p.year /\ p.year \in Nat
    OBVIOUS
  <2>1. p.year \in Nat
    BY <1>1 DEF Years
  <2>2. CASE p.date # -1
    BY <1>1, <2>1, <2>2
  <2>3. CASE p.date = -1
    BY <1>1, <2>1, <2>3, FirstDayOfYear
  <2> QED BY <2>2, <2>3
<1> HIDE DEF day
<1>6. ASSUME w1.start # -1 PROVE p.year # -1 /\ p.year >= w1.start
  BY <1>1, <1>4, <1>5, <1>6 DEF Years
<1>7. ASSUME w1.before # << >>
      PROVE  /\ p.year # -1 /\ p.year <= (last + 1) \div DaysPerYear
             /\ p.date # -1 => p.date < last + 1
             /\ w1.end # -1 => p.year <= w1.end
  <2>1. /\ last \in Nat /\ last \div DaysPerYear \in Nat /\ (last + 1) \div DaysPerYear \in Nat
        /\ last \div DaysPerYear <= (last + 1) \div DaysPerYear
    <3>1. last \in Nat /\ last + 1 \in Nat /\ last <= last + 1
      BY <1>2, <1>7
    <3> QED BY <1>1, <3>1, YearsRise
  <2>2. CASE sooner
    <3>1. w1.end \in Nat /\ w1.end + 1 \in Nat /\ w1.end + 1 <= last \div DaysPerYear
      BY <1>1, <2>1, <2>2 DEF Years
    <3>2. (w1.end + 1) * DaysPerYear \in Nat /\ (w1.end + 1) * DaysPerYear <= last
      BY <1>1, <2>1, <3>1, YearOfDay
    <3>3. (w1.end + 1) * DaysPerYear > 1
      <4>1. (w1.end + 1) * DaysPerYear = w1.end * DaysPerYear + DaysPerYear
        BY <1>1, <3>1, FirstDayOfYear
      <4>2. w1.end * DaysPerYear \in Nat \ {0}
        BY <1>1, <2>2 DEF Years
      <4> QED BY <1>1, <4>1, <4>2
    <3>4. until = (w1.end + 1) * DaysPerYear - 1 /\ until # -1
      BY <1>7, <2>2, <3>2, <3>3 DEF until
    <3>5. p.year # -1 /\ day <= (w1.end + 1) * DaysPerYear - 1
      BY <1>4, <3>4
    <3>6. day \in Nat /\ p.year = day \div DaysPerYear /\ p.year \in Nat
      BY <1>5, <3>5
    <3>7. ~((w1.end + 1) * DaysPerYear <= day)
      BY <3>2, <3>5, <3>6
    <3>8. ~(w1.end + 1 <= day \div DaysPerYear)
      BY <1>1, <3>1, <3>6, <3>7, YearOfDay
    <3>9. p.year <= w1.end
      BY <3>1, <3>6, <3>8
    <3>10. p.date # -1 => p.date < last + 1
      BY <2>1, <3>2, <3>5, <3>6 DEF day
    <3> QED BY <2>1, <3>1, <3>5, <3>6, <3>9, <3>10
  <2>3. CASE ~sooner
    <3>1. until = last /\ until # -1
      BY <1>7, <2>1, <2>3 DEF until
    <3>2. p.year # -1 /\ day <= last
      BY <1>4, <3>1
    <3>3. day \in Nat /\ p.year = day \div DaysPerYear /\ p.year \in Nat
      BY <1>5, <3>2
    <3>4. p.year <= last \div DaysPerYear
      BY <1>1, <2>1, <3>2, <3>3, YearsRise
    <3>5. p.date # -1 => p.date < last + 1
      BY <2>1, <3>2, <3>3 DEF day
    <3>6. w1.end # -1 => p.year <= w1.end
      <4>1. w1.end # -1 => w1.end \in Nat /\ w1.end >= last \div DaysPerYear
        BY <1>1, <2>1, <2>3 DEF Years
      <4> QED BY <2>1, <3>3, <3>4, <4>1
    <3> QED BY <2>1, <3>2, <3>3, <3>4, <3>5, <3>6
  <2> QED BY <2>2, <2>3
<1> QED BY <1>2, <1>6, <1>7 DEF OldFine, Fetchers!YearOf

LEMMA OldIfInserted ==
  ASSUME Fetchers!SourceAgrees, w1 \in Searches, w2 \in Corpora, NEW i \in DOMAIN w2,
         ~Fetchers!ByRange, Fetchers!CheckInsertedBefore(w1.before, w2[i])
  PROVE  OldFine(w2[i])
<1> DEFINE p == w2[i]
           last == Fetchers!LastAllowed(w1.before)
<1>1. /\ DaysPerYear \in Nat \ {0}
      /\ p.year \in Years /\ p.date \in Nat \cup {-1}
  BY SearchTypes
<1> SUFFICES ASSUME w1.before # << >>
             PROVE  /\ p.year # -1 /\ p.year <= (last + 1) \div DaysPerYear
                    /\ p.date # -1 => p.date < last + 1
  BY LastDay DEF OldFine, Fetchers!YearOf
<1>2. last \in Nat
  BY LastDay
<1> HIDE DEF last
<1>3. /\ p.date = -1 \/ p.date <= last
      /\ p.year # -1 /\ p.year <= last \div DaysPerYear
  BY <1>2, FetchersSame DEF Fetchers!CheckInsertedBefore, Fetchers!YearOf, last
<1>4. /\ last \div DaysPerYear \in Nat /\ (last + 1) \div DaysPerYear \in Nat
      /\ last \div DaysPerYear <= (last + 1) \div DaysPerYear
  <2>1. last + 1 \in Nat /\ last <= last + 1
    BY <1>2
  <2> QED BY <1>1, <1>2, <2>1, YearsRise
<1> QED BY <1>1, <1>2, <1>3, <1>4 DEF Years

LEMMA FittingAreAdmitted ==
  ASSUME Fetchers!SourceAgrees, w1 \in Searches, w2 \in Corpora, NEW i \in DOMAIN w2,
         w2[i].year # -1, Fetchers!Fits(w2[i])
  PROVE  /\ ~Fetchers!Refuses
         /\ Fetchers!Admits(Fetchers!Range, w2[i])
         /\ ~Fetchers!ByRange => Fetchers!CheckInsertedBefore(w1.before, w2[i])
<1> DEFINE p == w2[i]
           last == Fetchers!LastAllowed(w1.before)
           day == IF p.date # -1 THEN p.date ELSE p.year * DaysPerYear
           sooner == w1.end # -1 /\ w1.end < last \div DaysPerYear
           until == IF w1.before = << >> THEN -1
                    ELSE IF sooner THEN (w1.end + 1) * DaysPerYear - 1 ELSE last
<1>1. /\ DaysPerYear \in Nat \ {0} /\ w1.start \in Years /\ w1.end \in Years
      /\ p.year \in Nat /\ p.date \in Nat \cup {-1}
      /\ p.date # -1 => p.year = p.date \div DaysPerYear
  BY SearchTypes DEF Years
<1>2. /\ w1.before # << >> => last \in Nat /\ Fetchers!Cutoff = last + 1
      /\ w1.before = << >> => last = -1
  BY LastDay
<1>3. /\ w1.before # << >> => p.date # -1 /\ p.date < last + 1
      /\ Fetchers!ByRange => (w1.start # -1 => p.year >= w1.start) /\ (w1.end # -1 => p.year <= w1.end)
  BY <1>2, FetchersSame DEF Fetchers!Fits
<1>4. Fetchers!ByRange => Fetchers!Range = [start |-> w1.start, end |-> until]
  BY FetchersSame DEF Fetchers!Range, Fetchers!MergeTimeRange, Fetchers!EndsSooner, Fetchers!YearOf
<1>5. day \in Nat /\ day \div DaysPerYear = p.year
  <2>1. CASE p.date # -1
    BY <1>1, <2>1
  <2>2. CASE p.date = -1
    BY <1>1, <2>2, FirstDayOfYear
  <2> QED BY <2>1, <2>2
<1>6. Fetchers!ByRange => (Fetchers!Contradicts(w1) <=>
         /\ w1.before # << >> /\ w1.start # -1
         /\ w1.start > (IF sooner THEN w1.end ELSE last \div DaysPerYear))
  BY FetchersSame DEF Fetchers!Contradicts, Fetchers!EndsSooner, Fetchers!YearOf
<1>7. w1.before # << >> =>
         /\ p.date \in Nat /\ p.date <= last /\ day = p.date
         /\ last \div DaysPerYear \in Nat /\ p.year <= last \div DaysPerYear
  <2> SUFFICES ASSUME w1.before # << >>
               PROVE  /\ p.date \in Nat /\ p.date <= last /\ day = p.date
                      /\ last \div DaysPerYear \in Nat /\ p.year <= last \div DaysPerYear
    OBVIOUS
  <2>1. p.date \in Nat /\ p.date <= last /\ day = p.date /\ last \in Nat
    BY <1>1, <1>2, <1>3
  <2>2. p.date \div DaysPerYear <= last \div DaysPerYear /\ last \div DaysPerYear \in Nat
    <3> HIDE DEF last
    <3> QED BY <1>1, <2>1, YearsRise
  <2>3. p.year = p.date \div DaysPerYear
    <3>1. p.date # -1
      BY <2>1
    <3> QED BY <1>1, <3>1
  <2> HIDE DEF last, day
  <2> QED BY <2>1, <2>2, <2>3
<1> HIDE DEF day, last
<1>8. ~Fetchers!Refuses
  <2> SUFFICES ASSUME Fetchers!ByRange, Fetchers!Contradicts(w1) PROVE FALSE
    BY DEF Fetchers!Refuses
  <2>1. /\ w1.before # << >> /\ w1.start # -1
        /\ w1.start > (IF sooner THEN w1.end ELSE last \div DaysPerYear)
    BY <1>6
  <2> QED BY <1>1, <1>3, <1>7, <2>1 DEF Years
<1>9. Fetchers!ByRange /\ until # -1 => day <= until
  <2> SUFFICES ASSUME Fetchers!ByRange, until # -1 PROVE day <= until
    OBVIOUS
  <2>1. w1.before # << >>
    OBVIOUS
  <2>2. CASE sooner
    <3>1. w1.end \in Nat /\ w1.end + 1 \in Nat /\ p.year <= w1.end
      BY <1>1, <1>3, <2>2 DEF Years
    <3>2. ~(w1.end + 1 <= day \div DaysPerYear)
      BY <1>1, <1>5, <3>1
    <3>3. ~((w1.end + 1) * DaysPerYear <= day) /\ (w1.end + 1) * DaysPerYear \in Nat
      BY <1>1, <1>5, <3>1, <3>2, YearOfDay
    <3> QED BY <1>5, <2>1, <2>2, <3>3
  <2>3. CASE ~sooner
    BY <1>7, <2>1, <2>3
  <2> QED BY <2>2, <2>3
<1>10. ASSUME Fetchers!ByRange PROVE Fetchers!Admits(Fetchers!Range, w2[i])
  <2>1. /\ p.year # -1
        /\ w1.start # -1 => w1.start <= day \div DaysPerYear
        /\ until # -1 => day <= until
    BY <1>1, <1>3, <1>5, <1>9, <1>10 DEF Years
  <2>2. Fetchers!Range = [start |-> w1.start, end |-> until]
    BY <1>4, <1>10
  <2> HIDE DEF until
  <2>3. Fetchers!Range.start = w1.start /\ Fetchers!Range.end = until
    BY <2>2
  <2> QED BY <2>1, <2>3, FetchersSame DEF Fetchers!Admits, Fetchers!YearOf, day
<1>11. ASSUME ~Fetchers!ByRange
       PROVE  /\ Fetchers!Admits(Fetchers!Range, w2[i])
              /\ Fetchers!CheckInsertedBefore(w1.before, w2[i])
  <2>1. Fetchers!Admits(Fetchers!Range, w2[i])
    BY <1>11, FetchersSame DEF Fetchers!Range, Fetchers!Admits
  <2>2. Fetchers!CheckInsertedBefore(w1.before, w2[i])
    BY <1>1, <1>2, <1>7, FetchersSame DEF Fetchers!CheckInsertedBefore, Fetchers!YearOf, last
  <2> QED BY <2>1, <2>2
<1> QED BY <1>8, <1>10, <1>11

(* An injection of a set into as many numbers as it has members is onto.     *)
LEMMA RanksAreAll ==
  ASSUME NEW n \in Nat, NEW D, IsFiniteSet(D), Cardinality(D) = n, NEW f \in [D -> 1..n],
         \A i, j \in D : f[i] = f[j] => i = j
  PROVE  \A r \in 1..n : \E i \in D : f[i] = r
<1> DEFINE R == {f[i] : i \in D}
<1>1. IsFiniteSet(1..n) /\ Cardinality(1..n) = n
  BY FS_Interval
<1>2. R \subseteq 1..n
  OBVIOUS
<1>3. f \in Bijection(D, R)
  BY DEF Bijection, Injection, Surjection, IsInjective
<1>4. IsFiniteSet(R) /\ Cardinality(R) = n
  BY <1>3, FS_Bijection DEF ExistsBijection
<1> HIDE DEF R
<1>5. R = 1..n
  BY <1>1, <1>2, <1>4, FS_Subset
<1> QED BY <1>5 DEF R

LEMMA FunctionIsSeq ==
  ASSUME NEW X, NEW n \in Nat, NEW f \in [1..n -> X]
  PROVE  f \in Seq(X) /\ Len(f) = n /\ DOMAIN f = 1..n
  OBVIOUS

(* Places in the order of the source.                                        *)
LEMMA InOrderIs ==
  ASSUME NEW S \in SUBSET Int, IsFiniteSet(S), \A x \in S : x > 0
  PROVE  /\ Fetchers!InOrder(S) \in Seq(S)
         /\ Len(Fetchers!InOrder(S)) = Cardinality(S) /\ Cardinality(S) \in Nat
         /\ DOMAIN Fetchers!InOrder(S) = 1..Cardinality(S)
         /\ \A x \in S : \E r \in 1..Cardinality(S) : r <= x /\ Fetchers!InOrder(S)[r] = x
         /\ \A i, j \in 1..Cardinality(S) : i < j => Fetchers!InOrder(S)[i] < Fetchers!InOrder(S)[j]
         /\ \A i, j \in 1..Cardinality(S) : Fetchers!InOrder(S)[i] = Fetchers!InOrder(S)[j] => i = j
<1> DEFINE n == Cardinality(S)
           Upto(x) == {y \in S : y <= x}
           f == [x \in S |-> Cardinality(Upto(x))]
           s == Fetchers!InOrder(S)
<1>1. n \in Nat
  BY FS_CardinalityType
<1>2. \A x \in S : /\ IsFiniteSet(Upto(x)) /\ Cardinality(Upto(x)) \in 1..n
  <2> TAKE x \in S
  <2>1. Upto(x) \subseteq S /\ x \in Upto(x)
    OBVIOUS
  <2> HIDE DEF Upto
  <2>2. IsFiniteSet(Upto(x)) /\ Cardinality(Upto(x)) <= n /\ Cardinality(Upto(x)) \in Nat
    BY <2>1, FS_Subset, FS_CardinalityType
  <2>3. Cardinality(Upto(x)) # 0
    BY <2>1, <2>2, FS_EmptySet
  <2> QED BY <1>1, <2>2, <2>3
<1>3. \A x, y \in S : x < y => Cardinality(Upto(x)) < Cardinality(Upto(y))
  <2> SUFFICES ASSUME NEW x \in S, NEW y \in S, x < y
               PROVE  Cardinality(Upto(x)) < Cardinality(Upto(y))
    OBVIOUS
  <2>1. Upto(x) \subseteq Upto(y) /\ y \in Upto(y) /\ y \notin Upto(x)
    <3>1. x \in Int /\ y \in Int /\ \A z \in S : z \in Int
      OBVIOUS
    <3>2. \A z \in S : z <= x => z <= y
      BY <3>1
    <3>3. y <= y /\ ~ (y <= x)
      BY <3>1
    <3> QED BY <3>2, <3>3
  <2>2. IsFiniteSet(Upto(y)) /\ Cardinality(Upto(x)) \in Nat /\ Cardinality(Upto(y)) \in Nat
    BY <1>1, <1>2
  <2> HIDE DEF Upto
  <2>3. Cardinality(Upto(x)) <= Cardinality(Upto(y))
    BY <2>1, <2>2, FS_Subset
  <2>4. Cardinality(Upto(x)) # Cardinality(Upto(y))
    BY <2>1, <2>2, FS_Subset
  <2> QED BY <2>2, <2>3, <2>4
<1>4. f \in [S -> 1..n]
  BY <1>2
<1>5. \A x, y \in S : f[x] = f[y] => x = y
  <2> SUFFICES ASSUME NEW x \in S, NEW y \in S, f[x] = f[y], x # y PROVE FALSE
    OBVIOUS
  <2>0. x \in Int /\ y \in Int /\ Cardinality(Upto(x)) = Cardinality(Upto(y))
    OBVIOUS
  <2> HIDE DEF Upto, f
  <2>1. x < y \/ y < x
    BY <2>0
  <2>2. Cardinality(Upto(x)) \in Nat /\ Cardinality(Upto(y)) \in Nat
    BY <1>1, <1>2
  <2>3. CASE x < y
    <3>1. Cardinality(Upto(x)) < Cardinality(Upto(y))
      BY <1>3, <2>3
    <3> QED BY <1>1, <2>0, <2>2, <3>1
  <2>4. CASE y < x
    <3>1. Cardinality(Upto(y)) < Cardinality(Upto(x))
      BY <1>3, <2>4
    <3> QED BY <1>1, <2>0, <2>2, <3>1
  <2> QED BY <2>1, <2>3, <2>4
<1>6. \A r \in 1..n : \E x \in S : f[x] = r
  <2> HIDE DEF f, n
  <2> QED BY <1>1, <1>4, <1>5, RanksAreAll DEF n
<1>15. s = [r \in 1..Cardinality(S) |->
              CHOOSE x \in S : Cardinality({y \in S : y <= x}) = r]
  BY Zenon DEF Fetchers!InOrder, Fetchers!Cardinality, Cardinality
<1>7. \A r \in 1..n : s[r] = CHOOSE x \in S : Cardinality(Upto(x)) = r
  <2> HIDE DEF s
  <2> QED BY <1>15
<1>8. \A r \in 1..n : s[r] \in S /\ f[s[r]] = r
  <2> TAKE r \in 1..n
  <2>1. \E x \in S : Cardinality(Upto(x)) = r
    BY <1>6
  <2>2. s[r] \in S /\ Cardinality(Upto(s[r])) = r
    BY <1>7, <2>1
  <2> QED BY <2>2
<1>9. DOMAIN s = 1..n /\ s = [r \in 1..n |-> s[r]]
  <2> HIDE DEF s, n
  <2> DEFINE at(r) == CHOOSE x \in S : Cardinality({y \in S : y <= x}) = r
  <2>1. s = [r \in 1..n |-> at(r)]
    BY <1>15 DEF n
  <2> HIDE DEF at
  <2> QED BY <2>1
<1> HIDE DEF s, n
<1>10. s \in [1..n -> S]
  BY <1>8, <1>9
<1>11. s \in Seq(S) /\ Len(s) = n
  BY <1>1, <1>10, FunctionIsSeq
<1>12. \A x \in S : \E r \in 1..n : r <= x /\ s[r] = x
  <2> TAKE x \in S
  <2>1. f[x] \in 1..n /\ s[f[x]] = x
    <3> HIDE DEF f
    <3> QED BY <1>4, <1>5, <1>8
  <2>2. Upto(x) \subseteq 1..x /\ x \in Nat
    <3>1. x \in Nat /\ \A y \in S : y \in Nat /\ y > 0
      OBVIOUS
    <3>2. \A y \in Upto(x) : y \in Nat /\ y > 0 /\ y <= x
      BY <3>1
    <3>3. \A y \in Upto(x) : y \in 1..x
      BY <3>1, <3>2
    <3> HIDE DEF Upto
    <3> QED BY <3>1, <3>3
  <2>3. Cardinality(Upto(x)) <= x
    <3>1. IsFiniteSet(1..x) /\ Cardinality(1..x) = x
      BY <2>2, FS_Interval
    <3> HIDE DEF Upto
    <3> QED BY <2>2, <3>1, FS_Subset
  <2> QED BY <2>1, <2>3
<1>13. \A i, j \in 1..n : s[i] = s[j] => i = j
  <2> HIDE DEF f
  <2> QED BY <1>8
<1>14. \A i, j \in 1..n : i < j => s[i] < s[j]
  <2> SUFFICES ASSUME NEW i \in 1..n, NEW j \in 1..n, i < j, ~(s[i] < s[j]) PROVE FALSE
    OBVIOUS
  <2>0. s[i] \in S /\ s[j] \in S
    BY <1>8
  <2>1. s[i] \in Int /\ s[j] \in Int /\ s[i] \in S /\ s[j] \in S /\ s[i] # s[j]
    <3>1. i # j
      BY <1>1
    <3>2. s[i] \in Int /\ s[j] \in Int
      BY <2>0
    <3>3. s[i] # s[j]
      BY <1>13, <3>1
    <3> QED BY <2>0, <3>2, <3>3
  <2>2. s[j] < s[i]
    BY <2>1
  <2>3. Cardinality(Upto(s[j])) < Cardinality(Upto(s[i]))
    BY <1>3, <2>1, <2>2
  <2>4. f[s[j]] = Cardinality(Upto(s[j])) /\ f[s[i]] = Cardinality(Upto(s[i]))
    BY <2>1
  <2> HIDE DEF f, Upto
  <2> QED BY <1>1, <1>8, <2>3, <2>4
<1> QED BY <1>1, <1>9, <1>11, <1>12, <1>13, <1>14 DEF s, n

GotFine ==
  /\ w5 \in Seq(DOMAIN w2)
  /\ Len(w5) <= Fetchers!Limit /\ Len(w5) <= Len(Fetchers!Matches)
  /\ \A k \in 1..Len(w5) : w5[k] = Fetchers!Matches[k]

FetchInv ==
  /\ w1 \in Searches /\ w2 \in Corpora
  /\ GotFine
  /\ w4 = "start" => w5 = << >>
  /\ w4 # "answered" => w6 = << >>
  /\ Fetchers!FetchersSound

Admitted == {i \in DOMAIN w2 : Fetchers!Admits(Fetchers!Range, w2[i])}

(* The answers of the source are the papers that it admits, in its order.    *)
LEMMA MatchesAre ==
  ASSUME Fetchers!SourceAgrees, w1 \in Searches, w2 \in Corpora
  PROVE  /\ Fetchers!Matches \in Seq(Admitted) /\ Fetchers!Matches \in Seq(DOMAIN w2)
         /\ \A i, j \in 1..Len(Fetchers!Matches) :
               i < j => Fetchers!Matches[i] < Fetchers!Matches[j]
         /\ \A i \in Admitted :
               \E k \in 1..Len(Fetchers!Matches) : k <= i /\ Fetchers!Matches[k] = i
         /\ \A i, j \in 1..Len(Fetchers!Matches) :
               Fetchers!Matches[i] = Fetchers!Matches[j] => i = j
         /\ Fetchers!Limit \in Nat /\ Fetchers!PerCall \in Nat
<1>1. DOMAIN w2 = 1..Len(w2) /\ Len(w2) \in Nat /\ w1.limit \in Nat /\ PageSize \in Nat
  BY SearchTypes
<1>2. Admitted \in SUBSET Int /\ IsFiniteSet(Admitted) /\ \A x \in Admitted : x > 0
  <2>1. Admitted \subseteq 1..Len(w2) /\ IsFiniteSet(1..Len(w2))
    BY <1>1, FS_Interval DEF Admitted
  <2>2. IsFiniteSet(Admitted)
    BY <2>1, FS_Subset
  <2> QED BY <1>1, <2>1, <2>2
<1>3. Fetchers!Matches = Fetchers!InOrder(Admitted)
  BY DEF Fetchers!Matches, Admitted
<1>4. Fetchers!Limit \in Nat /\ Fetchers!PerCall \in Nat
  BY <1>1 DEF Fetchers!Limit, Fetchers!PerCall, Fetchers!Min2
<1>5. Admitted \subseteq DOMAIN w2
  BY DEF Admitted
<1> DEFINE M == Fetchers!Matches
<1>6. /\ M \in Seq(Admitted) /\ Len(M) = Cardinality(Admitted)
      /\ \A x \in Admitted : \E r \in 1..Cardinality(Admitted) : r <= x /\ M[r] = x
      /\ \A i, j \in 1..Cardinality(Admitted) : i < j => M[i] < M[j]
      /\ \A i, j \in 1..Cardinality(Admitted) : M[i] = M[j] => i = j
  BY <1>2, <1>3, InOrderIs
<1> HIDE DEF M
<1>7. M \in Seq(DOMAIN w2)
  <2>1. M \in [1..Len(M) -> Admitted] /\ Len(M) \in Nat
    BY <1>6
  <2>2. M \in [1..Len(M) -> DOMAIN w2]
    BY <1>5, <2>1
  <2> QED BY <2>1, <2>2, FunctionIsSeq
<1> QED BY <1>4, <1>6, <1>7 DEF M

LEMMA FetchSame ==
  ASSUME w1' = w1, w2' = w2
  PROVE  /\ Fetchers!Matches' = Fetchers!Matches /\ Fetchers!Limit' = Fetchers!Limit
         /\ Fetchers!Cutoff' = Fetchers!Cutoff /\ (Fetchers!ByRange' <=> Fetchers!ByRange)
<1>1. Fetchers!Limit' = Fetchers!Limit /\ Fetchers!Cutoff' = Fetchers!Cutoff
  BY DEF Fetchers!Limit, Fetchers!Cutoff
<1>2. Fetchers!ByRange' <=> Fetchers!ByRange
  BY DEF Fetchers!ByRange
<1>3. Fetchers!Range' = Fetchers!Range
  BY <1>2 DEF Fetchers!Range
<1>4. Fetchers!Matches' = Fetchers!Matches
  BY <1>3 DEF Fetchers!Matches
<1> QED BY <1>1, <1>2, <1>4

LEMMA LimitIs ==
  ASSUME Fetchers!SourceAgrees, w1 \in Searches, w2 \in Corpora
  PROVE  Fetchers!Limit \in Nat /\ DOMAIN w2 = 1..Len(w2)
  BY SearchTypes DEF Fetchers!Limit

(* A step that answers nothing yet.                                          *)
LEMMA NotYetAnswered ==
  ASSUME FetchInv, Fetchers!SourceAgrees, w1' = w1, w2' = w2, w6' = w6, w4 # "answered",
         w4' # "answered", w4' = "start" => w5' = << >>,
         w5' \in Seq(DOMAIN w2),
         Len(w5') <= Fetchers!Limit, Len(w5') <= Len(Fetchers!Matches),
         \A k \in 1..Len(w5') : w5'[k] = Fetchers!Matches[k]
  PROVE  FetchInv'
<1>1. w1 \in Searches /\ w2 \in Corpora /\ w6 = << >>
  BY DEF FetchInv
<1>2. /\ Fetchers!Matches' = Fetchers!Matches /\ Fetchers!Limit' = Fetchers!Limit
      /\ Fetchers!Limit \in Nat
  BY <1>1, FetchSame, LimitIs
<1>3. GotFine'
  BY <1>2 DEF GotFine
<1>4. Fetchers!Papers' = {} /\ Len(w6') = 0
  BY <1>1 DEF Fetchers!Papers
<1>5. Fetchers!OldStateKept' /\ Fetchers!NothingSkipped'
  BY <1>4 DEF Fetchers!OldStateKept, Fetchers!NothingSkipped
<1>6. Fetchers!InOrderOnce'
  BY <1>2, <1>4 DEF Fetchers!InOrderOnce
<1> QED BY <1>1, <1>3, <1>5, <1>6 DEF FetchInv, Fetchers!FetchersSound

(* The range is empty, and no paper that fits is there.                      *)
LEMMA FetchRefused ==
  ASSUME FetchInv, Fetchers!SourceAgrees, Fetchers!Refuse, w1' = w1, w2' = w2
  PROVE  FetchInv'
<1>1. /\ w1 \in Searches /\ w2 \in Corpora /\ w6 = << >> /\ w6' = w6 /\ w5' = w5
      /\ w4' = "answered" /\ Fetchers!Refuses
  BY DEF FetchInv, Fetchers!Refuse
<1>2. /\ Fetchers!Matches' = Fetchers!Matches /\ Fetchers!Limit' = Fetchers!Limit
      /\ Fetchers!Limit \in Nat /\ DOMAIN w2 = 1..Len(w2)
      /\ Fetchers!Cutoff' = Fetchers!Cutoff /\ (Fetchers!ByRange' <=> Fetchers!ByRange)
  BY <1>1, FetchSame, LimitIs
<1>3. GotFine'
  BY <1>1, <1>2 DEF GotFine, FetchInv
<1>4. Fetchers!Papers' = {} /\ Len(w6') = 0
  BY <1>1 DEF Fetchers!Papers
<1>5. Fetchers!OldStateKept'
  BY <1>4 DEF Fetchers!OldStateKept
<1>6. Fetchers!InOrderOnce'
  BY <1>2, <1>4 DEF Fetchers!InOrderOnce
<1>7. \A i \in DOMAIN w2 : w2[i].year # -1 => ~Fetchers!Fits(w2[i])
  BY <1>1, FittingAreAdmitted
<1>8. \A p : Fetchers!Fits(p)' <=> Fetchers!Fits(p)
  BY <1>2 DEF Fetchers!Fits
<1>9. Fetchers!NothingSkipped'
  BY <1>2, <1>7, <1>8, FetchersSame DEF Fetchers!NothingSkipped
<1> QED BY <1>1, <1>3, <1>5, <1>6, <1>9 DEF FetchInv, Fetchers!FetchersSound

(* A page goes on where the one before has ended.                            *)
LEMMA PageGoesOn ==
  ASSUME FetchInv, Fetchers!SourceAgrees
  PROVE  LET g == w5 \o Fetchers!Page
         IN  /\ g \in Seq(DOMAIN w2)
             /\ Len(g) <= Fetchers!Limit /\ Len(g) <= Len(Fetchers!Matches)
             /\ \A k \in 1..Len(g) : g[k] = Fetchers!Matches[k]
<1> DEFINE M == Fetchers!Matches
           L == Fetchers!Limit
           a == Len(w5)
           m == Fetchers!Min2(a + Fetchers!PerCall, Fetchers!Min2(L, Len(M)))
           D == DOMAIN w2
           page == SubSeq(M, a + 1, m)
           g == w5 \o page
<1>1. /\ M \in Seq(D) /\ L \in Nat /\ Fetchers!PerCall \in Nat
  BY MatchesAre DEF FetchInv
<1>2. w5 \in Seq(D) /\ a <= L /\ a <= Len(M) /\ \A k \in 1..a : w5[k] = M[k]
  BY DEF FetchInv, GotFine
<1>3. page = Fetchers!Page
  BY DEF Fetchers!Page
<1> HIDE DEF D, M, L
<1>4. a \in Nat /\ m \in a..Len(M) /\ m <= L /\ Len(M) \in Nat
  BY <1>1, <1>2 DEF Fetchers!Min2
<1> HIDE DEF m
<1>5. page \in Seq(D) /\ Len(page) = m - a /\ \A k \in 1..(m - a) : page[k] = M[a + k]
  <2>1. \A k \in (a + 1)..m : M[k] \in D
    BY <1>1, <1>4
  <2>2. page \in Seq(D) /\ Len(page) = m - a
    BY <1>1, <1>4, <2>1
  <2>3. \A k \in 1..(m - a) : page[k] = M[a + k]
    BY <1>1, <1>4, <2>2
  <2> QED BY <2>2, <2>3
<1> HIDE DEF page
<1>6. g \in Seq(D) /\ Len(g) = m
  BY <1>2, <1>4, <1>5
<1>7. \A k \in 1..m : g[k] = M[k]
  <2> TAKE k \in 1..m
  <2>1. CASE k <= a
    <3>1. k \in 1..a
      BY <1>4, <2>1
    <3>2. g[k] = w5[k]
      BY <1>2, <1>4, <1>5, <3>1
    <3> QED BY <1>2, <3>1, <3>2
  <2>2. CASE k > a
    <3>1. k - a \in 1..(m - a) /\ a + (k - a) = k
      BY <1>4, <2>2
    <3>2. g[k] = page[k - a]
      BY <1>2, <1>4, <1>5, <2>2
    <3>3. page[k - a] = M[a + (k - a)]
      BY <1>5, <3>1
    <3>4. M[a + (k - a)] = M[k]
      BY <3>1
    <3> QED BY <3>2, <3>3, <3>4
  <2>3. k <= a \/ k > a
    BY <1>4
  <2> QED BY <2>1, <2>2, <2>3
<1> QED BY <1>3, <1>4, <1>6, <1>7 DEF D, M, L

LEMMA FetchPaged ==
  ASSUME FetchInv, Fetchers!SourceAgrees, w1' = w1, w2' = w2,
         Fetchers!FirstPage \/ Fetchers!NextPage \/ Fetchers!Fail
  PROVE  FetchInv'
<1>1. /\ w1 \in Searches /\ w2 \in Corpora
      /\ w5 \in Seq(DOMAIN w2) /\ (w4 = "start" => w5 = << >>)
  BY DEF FetchInv, GotFine
<1>2. CASE Fetchers!FirstPage \/ Fetchers!NextPage
  <2>1. /\ w6' = w6 /\ w4 \in {"start", "paging"} /\ w4' = "paging"
        /\ (w5' = Fetchers!Page /\ w4 = "start") \/ w5' = w5 \o Fetchers!Page
    BY <1>2 DEF Fetchers!FirstPage, Fetchers!NextPage
  <2>2. w5' = w5 \o Fetchers!Page
    <3>1. Fetchers!Page \in Seq(DOMAIN w2)
      <4>1. Fetchers!Matches \in Seq(DOMAIN w2)
        BY <1>1, MatchesAre
      <4>2. /\ Len(w5) \in Nat /\ Fetchers!Limit \in Nat /\ Fetchers!PerCall \in Nat
        BY <1>1, MatchesAre
      <4> DEFINE D == DOMAIN w2
      <4>3. Len(Fetchers!Matches) \in Nat /\ \A k \in 1..Len(Fetchers!Matches) : Fetchers!Matches[k] \in D
        BY <4>1
      <4> HIDE DEF D
      <4> QED BY <4>1, <4>2, <4>3 DEF Fetchers!Page, Fetchers!Min2, D
    <3>2. << >> \o Fetchers!Page = Fetchers!Page
      BY <3>1
    <3> QED BY <1>1, <2>1, <3>2
  <2> QED BY <2>1, <2>2, PageGoesOn, NotYetAnswered
<1>3. CASE Fetchers!Fail
  <2>1. /\ w6' = w6 /\ w4 \in {"start", "paging"} /\ w4' \in {"start", "raised"}
        /\ w5' = << >>
    BY <1>3 DEF Fetchers!Fail
  <2>2. /\ Fetchers!Limit \in Nat /\ Len(Fetchers!Matches) \in Nat
    BY <1>1, MatchesAre
  <2>3. << >> \in Seq(DOMAIN w2) /\ Len(<< >>) = 0
    OBVIOUS
  <2> QED BY <2>1, <2>2, <2>3, NotYetAnswered
<1> QED BY <1>2, <1>3

(* An answer made of papers that are old enough, in the order of the source, *)
(* with those that fit.                                                      *)
LEMMA Answered ==
  ASSUME FetchInv, Fetchers!SourceAgrees, w1' = w1, w2' = w2, w5' = w5,
         NEW papers \in Seq(DOMAIN w2), NEW ranked \in BOOLEAN,
         w1.kind # "author" => ranked, Fetchers!Answer(papers, ranked),
         Len(papers) <= Fetchers!Limit,
         \A i, j \in 1..Len(papers) : i < j => papers[i] < papers[j],
         \A k \in 1..Len(papers) : OldFine(w2[papers[k]]),
         \A i \in DOMAIN w2 : w2[i].year # -1 /\ Fetchers!Fits(w2[i]) /\ i <= Fetchers!Limit =>
            \E k \in 1..Len(papers) : papers[k] = i
  PROVE  FetchInv'
<1>1. /\ w1 \in Searches /\ w2 \in Corpora /\ w4' = "answered"
      /\ w6' = [i \in 1..Len(papers) |-> [paper |-> papers[i], rank |-> IF ranked THEN i ELSE -1]]
  BY FetchersSame DEF FetchInv, Fetchers!Answer
<1>2. /\ Fetchers!Matches' = Fetchers!Matches /\ Fetchers!Limit' = Fetchers!Limit
      /\ Fetchers!Limit \in Nat /\ DOMAIN w2 = 1..Len(w2)
      /\ Fetchers!Cutoff' = Fetchers!Cutoff /\ (Fetchers!ByRange' <=> Fetchers!ByRange)
  BY <1>1, FetchSame, LimitIs
<1>3. GotFine'
  BY <1>1, <1>2 DEF GotFine, FetchInv
<1>4. /\ Len(w6') = Len(papers) /\ Len(papers) \in Nat
      /\ \A i \in 1..Len(papers) : w6'[i].paper = papers[i] /\ (ranked => w6'[i].rank = i)
  BY <1>1
<1>5. Fetchers!Papers' = {papers[i] : i \in 1..Len(papers)}
  BY <1>4 DEF Fetchers!Papers
<1>6. Fetchers!OldStateKept'
  BY <1>2, <1>5, FetchersSame DEF Fetchers!OldStateKept, OldFine
<1>7. Fetchers!InOrderOnce'
  BY <1>2, <1>4 DEF Fetchers!InOrderOnce
<1>8. \A p : Fetchers!Fits(p)' <=> Fetchers!Fits(p)
  BY <1>2 DEF Fetchers!Fits
<1>9. Fetchers!NothingSkipped'
  BY <1>2, <1>5, <1>8, FetchersSame DEF Fetchers!NothingSkipped
<1> QED BY <1>1, <1>3, <1>6, <1>7, <1>9 DEF FetchInv, Fetchers!FetchersSound

(* At the end, the first papers that the source admits are there.            *)
LEMMA PagedToTheEnd ==
  ASSUME FetchInv, Fetchers!SourceAgrees, ~Fetchers!HasNextPage
  PROVE  /\ w5 \in Seq(DOMAIN w2) /\ Len(w5) \in Nat /\ Len(w5) <= Fetchers!Limit
         /\ \A k \in 1..Len(w5) : w5[k] \in Admitted
         /\ \A i, j \in 1..Len(w5) : i < j => w5[i] < w5[j]
         /\ \A i \in Admitted : i <= Fetchers!Limit => \E k \in 1..Len(w5) : w5[k] = i
<1> DEFINE M == Fetchers!Matches
           L == Fetchers!Limit
<1>1. /\ w1 \in Searches /\ w2 \in Corpora
      /\ w5 \in Seq(DOMAIN w2) /\ Len(w5) \in Nat /\ Len(w5) <= L /\ Len(w5) <= Len(M)
      /\ \A k \in 1..Len(w5) : w5[k] = M[k]
  BY DEF FetchInv, GotFine
<1>2. /\ M \in Seq(Admitted) /\ L \in Nat
      /\ \A i, j \in 1..Len(M) : i < j => M[i] < M[j]
      /\ \A i \in Admitted : \E k \in 1..Len(M) : k <= i /\ M[k] = i
  BY <1>1, MatchesAre
<1>3. Len(M) \in Nat /\ \A k \in 1..Len(M) : M[k] \in Admitted
  BY <1>2
<1>4. Len(w5) >= Len(M) \/ Len(w5) >= L
  BY <1>1, <1>2, <1>3 DEF Fetchers!HasNextPage
<1>5. \A i \in Admitted : i \in Nat
  BY <1>1, LimitIs DEF Admitted
<1> HIDE DEF M, L
<1>6. \A k \in 1..Len(w5) : k \in 1..Len(M)
  BY <1>1, <1>3
<1>7. \A k \in 1..Len(w5) : w5[k] \in Admitted
  BY <1>1, <1>3, <1>6
<1>8. \A i, j \in 1..Len(w5) : i < j => w5[i] < w5[j]
  BY <1>1, <1>2, <1>6
<1>9. \A i \in Admitted : i <= L => \E k \in 1..Len(w5) : w5[k] = i
  <2> SUFFICES ASSUME NEW i \in Admitted, i <= L PROVE \E k \in 1..Len(w5) : w5[k] = i
    OBVIOUS
  <2>1. PICK k \in 1..Len(M) : k <= i /\ M[k] = i
    BY <1>2
  <2>2. k \in 1..Len(w5)
    <3>1. k \in Nat /\ i \in Nat /\ L \in Nat /\ Len(w5) \in Nat /\ Len(M) \in Nat
      BY <1>1, <1>2, <1>3, <1>5
    <3>2. k <= L /\ k <= Len(M) /\ k >= 1
      BY <2>1, <3>1
    <3>3. k <= Len(w5)
      BY <1>4, <3>1, <3>2
    <3> QED BY <3>1, <3>2, <3>3
  <2> QED BY <1>1, <2>1, <2>2
<1> QED BY <1>1, <1>7, <1>8, <1>9 DEF M, L

LEMMA AnsweredByRange ==
  ASSUME FetchInv, Fetchers!SourceAgrees, w1' = w1, w2' = w2, Fetchers!AnswerSearch
  PROVE  FetchInv'
<1>1. /\ w1 \in Searches /\ w2 \in Corpora /\ w5' = w5
      /\ Fetchers!Answer(w5, TRUE) /\ Fetchers!ByRange /\ ~Fetchers!HasNextPage
  BY DEF FetchInv, Fetchers!AnswerSearch, Fetchers!Answer
<1>2. /\ w5 \in Seq(DOMAIN w2) /\ Len(w5) \in Nat /\ Len(w5) <= Fetchers!Limit
      /\ \A k \in 1..Len(w5) : w5[k] \in Admitted
      /\ \A i, j \in 1..Len(w5) : i < j => w5[i] < w5[j]
      /\ \A i \in Admitted : i <= Fetchers!Limit => \E k \in 1..Len(w5) : w5[k] = i
  BY <1>1, PagedToTheEnd
<1>3. \A k \in 1..Len(w5) : OldFine(w2[w5[k]])
  BY <1>1, <1>2, OldIfAdmitted DEF Admitted
<1>4. \A i \in DOMAIN w2 : w2[i].year # -1 /\ Fetchers!Fits(w2[i]) /\ i <= Fetchers!Limit =>
         \E k \in 1..Len(w5) : w5[k] = i
  BY <1>1, <1>2, FittingAreAdmitted DEF Admitted
<1> QED BY <1>1, <1>2, <1>3, <1>4, Answered

LEMMA InsertedAre ==
  ASSUME FetchInv, Fetchers!SourceAgrees, ~Fetchers!HasNextPage, ~Fetchers!ByRange
  PROVE  LET old == Fetchers!Inserted
         IN  /\ old \in Seq(DOMAIN w2) /\ Len(old) <= Fetchers!Limit
             /\ \A i, j \in 1..Len(old) : i < j => old[i] < old[j]
             /\ \A k \in 1..Len(old) : OldFine(w2[old[k]])
             /\ \A i \in DOMAIN w2 :
                   w2[i].year # -1 /\ Fetchers!Fits(w2[i]) /\ i <= Fetchers!Limit =>
                      \E k \in 1..Len(old) : old[k] = i
<1> DEFINE old == Fetchers!Inserted
           Keeps(i) == Fetchers!CheckInsertedBefore(w1.before, w2[i])
           at == {l \in 1..Len(w5) : Keeps(w5[l])}
           S == {w5[k] : k \in at}
           L == Fetchers!Limit
<1>1. w1 \in Searches /\ w2 \in Corpora
  BY DEF FetchInv
<1>2. /\ w5 \in Seq(DOMAIN w2) /\ Len(w5) \in Nat /\ Len(w5) <= L
      /\ \A k \in 1..Len(w5) : w5[k] \in Admitted
      /\ \A i \in Admitted : i <= L => \E k \in 1..Len(w5) : w5[k] = i
  BY PagedToTheEnd
<1>3. DOMAIN w5 = 1..Len(w5) /\ DOMAIN w2 = 1..Len(w2) /\ L \in Nat
  BY <1>1, <1>2, LimitIs
<1>4. old = Fetchers!InOrder(S)
  BY <1>3 DEF Fetchers!Inserted
<1> HIDE DEF Keeps, old, L
<1>5. S \subseteq DOMAIN w2 /\ \A i \in S : Keeps(i)
  BY <1>2, <1>3
<1>6. IsFiniteSet(at) /\ Cardinality(at) <= Len(w5) /\ Cardinality(at) \in Nat
  <2>1. IsFiniteSet(1..Len(w5)) /\ Cardinality(1..Len(w5)) = Len(w5)
    BY <1>2, FS_Interval
  <2>2. at \subseteq 1..Len(w5)
    OBVIOUS
  <2> HIDE DEF at
  <2> QED BY <2>1, <2>2, FS_Subset, FS_CardinalityType
<1>7. IsFiniteSet(S) /\ Cardinality(S) <= Cardinality(at)
  <2>1. [k \in at |-> w5[k]] \in Surjection(at, S)
    BY DEF Surjection
  <2> HIDE DEF S, at
  <2> QED BY <1>6, <2>1, FS_Surjection
<1>8. Cardinality(S) \in Nat /\ Cardinality(S) <= L
  <2>1. Cardinality(S) \in Nat
    BY <1>7, FS_CardinalityType
  <2> HIDE DEF S, at
  <2> QED BY <1>2, <1>3, <1>6, <1>7, <2>1
<1>9. S \in SUBSET Int /\ \A x \in S : x > 0
  BY <1>3, <1>5
<1>10. \A i \in DOMAIN w2 : i \in Admitted /\ Keeps(i) /\ i <= L => i \in S
  <2> SUFFICES ASSUME NEW i \in DOMAIN w2, i \in Admitted, Keeps(i), i <= L PROVE i \in S
    OBVIOUS
  <2>1. PICK k \in 1..Len(w5) : w5[k] = i
    BY <1>2
  <2>2. k \in at
    BY <2>1
  <2> QED BY <2>1, <2>2
<1> HIDE DEF S, at
<1>11. /\ old \in Seq(S) /\ Len(old) = Cardinality(S)
       /\ \A x \in S : \E r \in 1..Cardinality(S) : old[r] = x
       /\ \A i, j \in 1..Cardinality(S) : i < j => old[i] < old[j]
  BY <1>4, <1>7, <1>9, InOrderIs
<1>12. old \in Seq(DOMAIN w2) /\ \A k \in 1..Len(old) : old[k] \in S
  <2>1. old \in [1..Len(old) -> S] /\ Len(old) \in Nat
    BY <1>11
  <2>2. old \in [1..Len(old) -> DOMAIN w2]
    BY <1>5, <2>1
  <2> QED BY <2>1, <2>2, FunctionIsSeq
<1>13. \A k \in 1..Len(old) : OldFine(w2[old[k]])
  <2> TAKE k \in 1..Len(old)
  <2>1. old[k] \in DOMAIN w2 /\ Keeps(old[k])
    BY <1>5, <1>12
  <2> QED BY <1>1, <2>1, OldIfInserted DEF Keeps
<1>14. \A i \in DOMAIN w2 : w2[i].year # -1 /\ Fetchers!Fits(w2[i]) /\ i <= L =>
          \E k \in 1..Len(old) : old[k] = i
  <2> SUFFICES ASSUME NEW i \in DOMAIN w2, w2[i].year # -1, Fetchers!Fits(w2[i]), i <= L
               PROVE  \E k \in 1..Len(old) : old[k] = i
    OBVIOUS
  <2>1. i \in Admitted /\ Keeps(i)
    BY <1>1, FittingAreAdmitted DEF Admitted, Keeps
  <2>2. i \in S
    BY <1>10, <2>1
  <2> QED BY <1>11, <2>2
<1> QED BY <1>8, <1>11, <1>12, <1>13, <1>14 DEF old, L

LEMMA AnsweredByLooking ==
  ASSUME FetchInv, Fetchers!SourceAgrees, w1' = w1, w2' = w2,
         Fetchers!AnswerByAuthor \/ Fetchers!AnswerCiting
  PROVE  FetchInv'
<1> DEFINE ranked == w1.kind # "author"
           old == Fetchers!Inserted
<1>1. /\ w5' = w5 /\ ~Fetchers!HasNextPage /\ ~Fetchers!ByRange
      /\ ranked \in BOOLEAN /\ Fetchers!Answer(old, ranked)
  <2>1. CASE Fetchers!AnswerByAuthor
    <3>1. w1.kind = "author" /\ Fetchers!Answer(old, FALSE) /\ ~Fetchers!HasNextPage
      BY <2>1 DEF Fetchers!AnswerByAuthor
    <3>2. ranked = FALSE
      BY <3>1
    <3> QED BY <3>1, <3>2 DEF Fetchers!Answer, Fetchers!ByRange
  <2>2. CASE Fetchers!AnswerCiting
    <3>1. w1.kind = "citing" /\ Fetchers!Answer(old, TRUE) /\ ~Fetchers!HasNextPage
      BY <2>2 DEF Fetchers!AnswerCiting
    <3>2. ranked = TRUE
      BY <3>1
    <3> QED BY <3>1, <3>2 DEF Fetchers!Answer, Fetchers!ByRange
  <2> QED BY <2>1, <2>2
<1>2. /\ old \in Seq(DOMAIN w2) /\ Len(old) <= Fetchers!Limit
      /\ \A i, j \in 1..Len(old) : i < j => old[i] < old[j]
      /\ \A k \in 1..Len(old) : OldFine(w2[old[k]])
      /\ \A i \in DOMAIN w2 :
            w2[i].year # -1 /\ Fetchers!Fits(w2[i]) /\ i <= Fetchers!Limit =>
               \E k \in 1..Len(old) : old[k] = i
  BY <1>1, InsertedAre
<1> HIDE DEF old
<1> QED BY <1>1, <1>2, Answered

LEMMA FetchersInit == Fetchers!SourceAgrees /\ Fetchers!Init => FetchInv
<1> SUFFICES ASSUME Fetchers!SourceAgrees, Fetchers!Init PROVE FetchInv
  OBVIOUS
<1>1. w1 \in Searches /\ w2 \in Corpora /\ w4 = "start" /\ w5 = << >> /\ w6 = << >>
  BY DEF Fetchers!Init
<1>2. Fetchers!Limit \in Nat /\ Len(Fetchers!Matches) \in Nat
  BY <1>1, MatchesAre
<1>3. GotFine
  BY <1>1, <1>2 DEF GotFine
<1>4. Fetchers!Papers = {} /\ Len(w6) = 0
  BY <1>1 DEF Fetchers!Papers
<1>5. Fetchers!OldStateKept /\ Fetchers!NothingSkipped /\ Fetchers!InOrderOnce
  BY <1>1, <1>2, <1>4 DEF Fetchers!OldStateKept, Fetchers!NothingSkipped, Fetchers!InOrderOnce
<1> QED BY <1>1, <1>3, <1>5 DEF FetchInv, Fetchers!FetchersSound

LEMMA FetchersNext == FetchInv /\ Fetchers!SourceAgrees /\ Fetchers!Next => FetchInv'
<1> SUFFICES ASSUME FetchInv, Fetchers!SourceAgrees, Fetchers!Next PROVE FetchInv'
  OBVIOUS
<1>1. w1' = w1 /\ w2' = w2
  BY DEF Fetchers!Next, Fetchers!Refuse, Fetchers!FirstPage, Fetchers!NextPage, Fetchers!Fail,
         Fetchers!AnswerSearch, Fetchers!AnswerByAuthor, Fetchers!AnswerCiting, Fetchers!Answer
<1> QED BY <1>1, FetchRefused, FetchPaged, AnsweredByRange, AnsweredByLooking DEF Fetchers!Next

LEMMA FetchersStutter ==
  ASSUME FetchInv, w1' = w1, w2' = w2, w4' = w4, w5' = w5, w6' = w6
  PROVE  FetchInv'
<1>1. /\ Fetchers!Matches' = Fetchers!Matches /\ Fetchers!Limit' = Fetchers!Limit
      /\ Fetchers!Cutoff' = Fetchers!Cutoff /\ (Fetchers!ByRange' <=> Fetchers!ByRange)
  BY FetchSame
<1>2. Fetchers!Papers' = Fetchers!Papers
  BY DEF Fetchers!Papers
<1>3. \A p : Fetchers!Fits(p)' <=> Fetchers!Fits(p)
  BY <1>1 DEF Fetchers!Fits
<1>4. GotFine'
  BY <1>1 DEF FetchInv, GotFine
<1>5. Fetchers!OldStateKept'
  BY <1>1, <1>2 DEF FetchInv, Fetchers!FetchersSound, Fetchers!OldStateKept
<1>6. Fetchers!InOrderOnce'
  BY <1>1 DEF FetchInv, Fetchers!FetchersSound, Fetchers!InOrderOnce
<1>7. Fetchers!NothingSkipped'
  BY <1>1, <1>2, <1>3 DEF FetchInv, Fetchers!FetchersSound, Fetchers!NothingSkipped
<1> QED BY <1>4, <1>5, <1>6, <1>7 DEF FetchInv, Fetchers!FetchersSound

(* A load answers every document that Semantic Scholar knows with its current   *)
(* paper, unless its own request failed; a search of an old state has no paper  *)
(* that is newer, none twice and, up to its limit, all that fit, whatever pages *)
(* and retries it took, for any documents, batches, dates and pages             *)
(* (s2_rest.py, fetchers/s2.py).                                                *)
THEOREM FetchesAreSound == ServicesSpec => []FetchingSound
<1> DEFINE Inv == /\ machine = "loader" => LoaderInv
                  /\ machine = "fetchers" => FetchInv
<1>1. ServicesInit => Inv
  BY ServicesAssumption, LoaderInit, FetchersInit DEF ServicesInit
<1>2. Inv /\ [ServicesNext]_all => Inv'
  <2> SUFFICES ASSUME Inv, [ServicesNext]_all PROVE Inv'
    OBVIOUS
  <2>1. ASSUME machine' = "loader" PROVE LoaderInv'
    <3>1. CASE RunLoader
      BY <3>1, LoaderNext, ServicesAssumption DEF RunLoader
    <3>2. CASE UNCHANGED all
      BY <2>1, <3>2, LoaderStutters DEF all, w
    <3> QED
      BY <2>1, <3>1, <3>2 DEF ServicesNext, Round, RunHeap, RunCalls, RunEnv, RunSnippets,
         RunJudgements, RunFusing, RunEndpoints, RunFetchers, Rest4, Rest5, Rest6, Rest7, Rest8
  <2>2. ASSUME machine' = "fetchers" PROVE FetchInv'
    <3>1. CASE RunFetchers
      BY <3>1, FetchersNext, ServicesAssumption DEF RunFetchers
    <3>2. CASE UNCHANGED all
      BY <2>2, <3>2, FetchersStutter DEF all, w
    <3> QED
      BY <2>2, <3>1, <3>2 DEF ServicesNext, Round, RunHeap, RunCalls, RunEnv, RunSnippets,
         RunJudgements, RunFusing, RunEndpoints, RunLoader, Rest4, Rest5, Rest6, Rest7, Rest8
  <2> QED BY <2>1, <2>2
<1>3. Inv => FetchingSound
  BY DEF FetchingSound, LoaderInv, FetchInv
<1> QED BY <1>1, <1>2, <1>3, PTL DEF ServicesSpec

-----------------------------------------------------------------------------
(* The heap of the semaphore: PrioritySemaphore_proofs is about the heap of  *)
(* any tasks; what is proved there is used here of the variables of w.       *)

Sem == INSTANCE PrioritySemaphore_proofs WITH
    Tasks <- Waiters, Concurrency <- Permits,
    available <- w1, queue <- Heap!ToSet(w2), prio <- w3, pc <- w4, heap <- w2

LEMMA HeapsAreTheSame ==
  /\ Sem!Heap!Init <=> Heap!Init
  /\ Sem!Heap!Next <=> Heap!Next
  /\ Sem!Heap!PS!Init <=> Heap!PS!Init
  /\ Sem!Heap!PS!Next <=> Heap!PS!Next
<1>1. \A p : Sem!Heap!PathUp(p) = Heap!PathUp(p)
  BY DEF Heap!PathUp, Sem!Heap!PathUp
<1>2. \A S : /\ Sem!Heap!Min(S) = Heap!Min(S) /\ Sem!Heap!Max(S) = Heap!Max(S)
             /\ Sem!Heap!ToSet(S) = Heap!ToSet(S)
  BY DEF Heap!Min, Heap!Max, Heap!ToSet, Sem!Heap!Min, Sem!Heap!Max, Sem!Heap!ToSet
<1>3. \A h, p, key : Sem!Heap!Raise(h, p, key) = Heap!Raise(h, p, key)
  BY DEF Heap!Raise, Sem!Heap!Raise, Heap!PathUp, Sem!Heap!PathUp, Heap!Min, Sem!Heap!Min
<1>4. \A h, i, key : Sem!Heap!SmallerChild(h, key, i) = Heap!SmallerChild(h, key, i)
  BY DEF Heap!SmallerChild, Sem!Heap!SmallerChild
<1>5. \A h, key : Sem!Heap!WayDown(h, key) = Heap!WayDown(h, key)
  BY <1>1, <1>4 DEF Heap!WayDown, Sem!Heap!WayDown
<1>6. \A h, key : Sem!Heap!HeapPop(h, key) = Heap!HeapPop(h, key)
  BY <1>2, <1>3, <1>4, <1>5, Zenon DEF Heap!HeapPop, Sem!Heap!HeapPop
<1>7. \A h, e, key : Sem!Heap!HeapPush(h, e, key) = Heap!HeapPush(h, e, key)
  BY <1>3 DEF Heap!HeapPush, Sem!Heap!HeapPush
<1>8. \A t, p : Sem!Heap!Enqueue(t, p) = Heap!Enqueue(t, p)
  BY <1>7 DEF Heap!Enqueue, Sem!Heap!Enqueue
<1>9. Sem!Heap!Dequeue = Heap!Dequeue
  BY <1>6 DEF Heap!Dequeue, Sem!Heap!Dequeue
<1>10. \A S : Sem!Heap!PS!Cardinality(S) = Heap!PS!Cardinality(S)
  BY DEF Heap!PS!Cardinality, Sem!Heap!PS!Cardinality
<1>11. /\ Sem!Heap!PS!Priority = Heap!PS!Priority
       /\ Sem!Heap!PS!LOW = Heap!PS!LOW /\ Sem!Heap!PS!DEFAULT = Heap!PS!DEFAULT
       /\ Sem!Heap!PS!HIGH = Heap!PS!HIGH
  BY DEF Heap!PS!Priority, Heap!PS!HIGH, Heap!PS!DEFAULT, Heap!PS!LOW,
         Sem!Heap!PS!Priority, Sem!Heap!PS!HIGH, Sem!Heap!PS!DEFAULT, Sem!Heap!PS!LOW
<1>12. Sem!Heap!Init <=> Heap!Init
  BY <1>11 DEF Heap!Init, Sem!Heap!Init
<1>13. \A t, p : Sem!Heap!Acquire(t, p) <=> Heap!Acquire(t, p)
  BY <1>11, <1>8 DEF Heap!Acquire, Sem!Heap!Acquire
<1>14. \A t : Sem!Heap!Release(t) <=> Heap!Release(t)
  BY <1>9 DEF Heap!Release, Sem!Heap!Release
<1>15. Sem!Heap!Next <=> Heap!Next
  BY <1>11, <1>13, <1>14 
     DEF Heap!Next, Heap!Resume, Heap!Cancel, Sem!Heap!Next, Sem!Heap!Resume, Sem!Heap!Cancel
<1>16. Sem!Heap!PS!Init <=> Heap!PS!Init
  BY <1>2, <1>11 DEF Heap!PS!Init, Sem!Heap!PS!Init
<1>17. Sem!Heap!PS!Next <=> Heap!PS!Next
  BY DEF Heap!PS!Next, Heap!PS!Acquire, Heap!PS!Resume, Heap!PS!Release,
         Heap!PS!Cancel, Heap!PS!AcquireFree, Heap!PS!AcquireRefused,
         Heap!PS!AcquireWait, Heap!PS!TooManyWaiting, Heap!PS!ReleaseToNobody,
         Heap!PS!ReleaseToWaiter, Heap!PS!ReleaseToDeadTicket, Heap!PS!Foremost,
         Heap!PS!CancelWaiting, Heap!PS!CancelGranted, Heap!PS!Priority,
         Heap!PS!HIGH, Heap!PS!DEFAULT, Heap!PS!LOW, Heap!PS!Cardinality,
         Sem!Heap!PS!Next, Sem!Heap!PS!Acquire, Sem!Heap!PS!Resume,
         Sem!Heap!PS!Release, Sem!Heap!PS!Cancel, Sem!Heap!PS!AcquireFree,
         Sem!Heap!PS!AcquireRefused, Sem!Heap!PS!AcquireWait,
         Sem!Heap!PS!TooManyWaiting, Sem!Heap!PS!ReleaseToNobody,
         Sem!Heap!PS!ReleaseToWaiter, Sem!Heap!PS!ReleaseToDeadTicket,
         Sem!Heap!PS!Foremost, Sem!Heap!PS!CancelWaiting, Sem!Heap!PS!CancelGranted,
         Sem!Heap!PS!Priority, Sem!Heap!PS!HIGH, Sem!Heap!PS!DEFAULT,
         Sem!Heap!PS!LOW, Sem!Heap!PS!Cardinality, Heap!ToSet, Sem!Heap!ToSet
<1> QED BY <1>12, <1>15, <1>16, <1>17

(* The heap that the library keeps is a queue in the sense of PrioritySemaphore: *)
(* nothing is lost in a push or a pop, what release() takes has the least        *)
(* priority present, and the whole semaphore behaves as that module, for any     *)
(* number of tasks (prioritized_task.py).                                        *)
THEOREM HeapBehavesAsQueue == ServicesSpec => HeapIsPriorityQueue
<1> DEFINE Inv == machine = "heap" => Sem!HeapInv
           Refined == [machine = "heap" => Heap!PS!Next \/ UNCHANGED Heap!PS!vars]_all
<1> Sem!SemaphoreAssumption /\ QueueLimit \in Nat
  BY ServicesAssumption DEF Heap!Counted, Heap!IsFiniteSet, Sem!SemaphoreAssumption, Sem!IsFiniteSet
<1>1. ServicesInit => Inv /\ (machine = "heap" => Heap!PS!Init)
  BY HeapsAreTheSame, Sem!HeapInit DEF ServicesInit
<1>2. Inv /\ [ServicesNext]_all => Inv' /\ Refined
  <2> SUFFICES ASSUME Inv, [ServicesNext]_all, machine = "heap" \/ machine' = "heap"
               PROVE  Inv' /\ Refined
    OBVIOUS
  <2>1. CASE RunHeap
    BY <2>1, HeapsAreTheSame, Sem!HeapNext DEF RunHeap, Rest5
  <2>2. CASE UNCHANGED all
    BY <2>2, Sem!HeapStutters DEF all, w
  <2> QED
    BY <2>1, <2>2 DEF ServicesNext, Round, RunCalls, RunEnv, RunEndpoints, RunSnippets,
       RunJudgements, RunFusing, RunLoader, RunFetchers, Rest4, Rest5, Rest6, Rest7, Rest8
<1> QED BY <1>1, <1>2, PTL DEF ServicesSpec, HeapIsPriorityQueue

-----------------------------------------------------------------------------
(* Numbers and finite sets                                                   *)

(* What holds of 0 and of the number after each of which it holds, holds of *)
(* all numbers up to a bound.                                               *)
LEMMA UpToAll ==
  ASSUME NEW N \in Nat, NEW T, 0 \in T, \A n \in 0..N : n < N /\ n \in T => n + 1 \in T
  PROVE  \A n \in 0..N : n \in T
<1> DEFINE Bad == {n \in 0..N : n \notin T}
<1>1. SUFFICES ASSUME Bad # {} PROVE FALSE
  OBVIOUS
<1>2. PICK n \in Bad : \A k \in Bad : n <= k
  <2>1. Bad \subseteq Nat
    OBVIOUS
  <2> HIDE DEF Bad
  <2> QED BY <1>1, <2>1, LeastNumber
<1>3. n \in 0..N /\ n \notin T /\ n # 0
  BY <1>2
<1>4. n - 1 \in 0..N /\ n - 1 < N /\ ~(n <= n - 1) /\ (n - 1) + 1 = n
  BY <1>3
<1>5. n - 1 \in T
  BY <1>2, <1>4
<1> HIDE DEF Bad
<1> QED BY <1>3, <1>4, <1>5

(* The same for the subsets of a finite set, from which one member is taken *)
(* after the other.                                                         *)
Rest(S) == S \ {CHOOSE n \in S : TRUE}

LEMMA RestIs ==
  ASSUME NEW S, IsFiniteSet(S), S # {}
  PROVE  /\ (CHOOSE n \in S : TRUE) \in S /\ Rest(S) \subseteq S /\ IsFiniteSet(Rest(S))
         /\ Cardinality(S) \in Nat /\ Cardinality(Rest(S)) = Cardinality(S) - 1
<1>1. (CHOOSE n \in S : TRUE) \in S
  OBVIOUS
<1> QED BY <1>1, FS_RemoveElement, FS_CardinalityType DEF Rest

LEMMA TakenOneByOne ==
  ASSUME NEW D, IsFiniteSet(D), NEW T, {} \in T,
         \A S \in SUBSET D : S # {} /\ Rest(S) \in T => S \in T
  PROVE  \A S \in SUBSET D : S \in T
<1> DEFINE Bad == {Cardinality(S) : S \in {X \in SUBSET D : X \notin T}}
<1>1. \A S \in SUBSET D : IsFiniteSet(S) /\ Cardinality(S) \in Nat
  BY FS_Subset, FS_CardinalityType
<1>2. SUFFICES ASSUME Bad # {} PROVE FALSE
  OBVIOUS
<1>3. Bad \subseteq Nat
  BY <1>1
<1>4. PICK q \in Bad : \A r \in Bad : q <= r
  <2> HIDE DEF Bad
  <2> QED BY <1>2, <1>3, LeastNumber
<1>5. PICK S \in SUBSET D : S \notin T /\ Cardinality(S) = q
  BY <1>4
<1>6. S # {}
  BY <1>5
<1>7. Rest(S) \in SUBSET D /\ Cardinality(Rest(S)) = q - 1 /\ q \in Nat
  BY <1>1, <1>5, <1>6, RestIs
<1>8. Rest(S) \notin T
  BY <1>5, <1>6
<1>9. q - 1 \in Bad
  BY <1>7, <1>8
<1> HIDE DEF Bad
<1> QED BY <1>4, <1>7, <1>9

(* Sums over a finite set.                                                  *)
SumStep(a, f, S) == IF S = {} THEN 0 ELSE a[CHOOSE n \in S : TRUE] + f[Rest(S)]

Sums(D, a, f) == f = [S \in SUBSET D |-> SumStep(a, f, S)]

LEMMA SumsExist ==
  ASSUME NEW D, IsFiniteSet(D), NEW a \in [D -> Int]
  PROVE  \E f : Sums(D, a, f)
<1> DEFINE Good == {n \in 0..Cardinality(D) : \E f \in [SUBSET D -> Int] :
                       \A S \in SUBSET D : Cardinality(S) <= n => f[S] = SumStep(a, f, S)}
<1>1. \A S \in SUBSET D : /\ IsFiniteSet(S) /\ Cardinality(S) \in 0..Cardinality(D)
                          /\ Cardinality(S) = 0 => S = {}
  BY FS_Subset, FS_CardinalityType, FS_EmptySet
<1>2. Cardinality(D) \in Nat
  BY FS_CardinalityType
<1>3. 0 \in Good
  <2> DEFINE f == [S \in SUBSET D |-> 0]
  <2>1. f \in [SUBSET D -> Int]
    OBVIOUS
  <2>2. \A S \in SUBSET D : Cardinality(S) <= 0 => f[S] = SumStep(a, f, S)
    <3>1. SUFFICES ASSUME NEW S \in SUBSET D, Cardinality(S) <= 0 PROVE f[S] = SumStep(a, f, S)
      OBVIOUS
    <3>2. S = {}
      BY <1>1, <1>2, <3>1
    <3>3. SumStep(a, f, S) = 0
      BY <3>2 DEF SumStep
    <3> QED BY <3>3
  <2> HIDE DEF f
  <2> QED BY <1>2, <2>1, <2>2
<1>4. ASSUME NEW n \in 0..Cardinality(D), n < Cardinality(D), n \in Good PROVE n + 1 \in Good
  <2>1. PICK f \in [SUBSET D -> Int] :
               \A S \in SUBSET D : Cardinality(S) <= n => f[S] = SumStep(a, f, S)
    BY <1>4
  <2> DEFINE g == [S \in SUBSET D |-> IF Cardinality(S) <= n THEN f[S] ELSE SumStep(a, f, S)]
  <2>2. \A S \in SUBSET D : S # {} => /\ (CHOOSE m \in S : TRUE) \in D /\ Rest(S) \in SUBSET D
                                      /\ Cardinality(Rest(S)) = Cardinality(S) - 1
    BY <1>1, RestIs
  <2>3. \A S \in SUBSET D : SumStep(a, f, S) \in Int
    BY <2>2 DEF SumStep
  <2>4. g \in [SUBSET D -> Int]
    BY <2>3
  <2>5. ASSUME NEW S \in SUBSET D, Cardinality(S) <= n + 1 PROVE g[S] = SumStep(a, g, S)
    <3>1. g[S] = SumStep(a, f, S)
      BY <2>1
    <3>2. S # {} => g[Rest(S)] = f[Rest(S)]
      <4>1. S # {} => Rest(S) \in SUBSET D /\ Cardinality(Rest(S)) <= n
        BY <1>1, <1>2, <2>2, <2>5
      <4> QED BY <4>1
    <3> QED BY <3>1, <3>2 DEF SumStep
  <2> HIDE DEF g
  <2> QED BY <1>2, <1>4, <2>4, <2>5
<1>5. Cardinality(D) \in Good
  <2> HIDE DEF Good
  <2> QED BY <1>2, <1>3, <1>4, UpToAll
<1>6. PICK f \in [SUBSET D -> Int] :
             \A S \in SUBSET D : Cardinality(S) <= Cardinality(D) => f[S] = SumStep(a, f, S)
  BY <1>5
<1>7. f = [S \in SUBSET D |-> SumStep(a, f, S)]
  <2>1. \A S \in SUBSET D : f[S] = SumStep(a, f, S)
    BY <1>1, <1>6
  <2> QED BY <2>1, Zenon
<1> QED BY <1>7 DEF Sums

LEMMA SumsAre ==
  ASSUME NEW D, IsFiniteSet(D), NEW a \in [D -> Int], NEW f, Sums(D, a, f)
  PROVE  f \in [SUBSET D -> Int]
<1> DEFINE T == {S \in SUBSET D : f[S] \in Int}
<1>1. \A S \in SUBSET D : f[S] = SumStep(a, f, S)
  BY DEF Sums
<1>2. {} \in T
  BY <1>1 DEF SumStep
<1>3. ASSUME NEW S \in SUBSET D, S # {}, Rest(S) \in T PROVE S \in T
  <2>1. IsFiniteSet(S)
    BY FS_Subset
  <2>2. (CHOOSE m \in S : TRUE) \in D
    BY <1>3, <2>1, RestIs
  <2> QED BY <1>1, <1>3, <2>2 DEF SumStep
<1>4. \A S \in SUBSET D : S \in T
  <2> HIDE DEF T
  <2> QED BY <1>2, <1>3, TakenOneByOne
<1> QED BY <1>4, Zenon DEF Sums

(* A sum grows with what is added.                                          *)
LEMMA SumsGrow ==
  ASSUME NEW D, IsFiniteSet(D), NEW a \in [D -> Int], NEW b \in [D -> Int],
         NEW f, Sums(D, a, f), NEW g, Sums(D, b, g), \A n \in D : a[n] <= b[n]
  PROVE  f[D] <= g[D]
<1> DEFINE T == {S \in SUBSET D : f[S] <= g[S]}
<1>0. f \in [SUBSET D -> Int] /\ g \in [SUBSET D -> Int]
  BY SumsAre
<1>1. \A S \in SUBSET D : f[S] = SumStep(a, f, S) /\ g[S] = SumStep(b, g, S)
  BY DEF Sums
<1>2. {} \in T
  BY <1>1 DEF SumStep
<1>3. ASSUME NEW S \in SUBSET D, S # {}, Rest(S) \in T PROVE S \in T
  <2>1. IsFiniteSet(S)
    BY FS_Subset
  <2>2. (CHOOSE m \in S : TRUE) \in D
    BY <1>3, <2>1, RestIs
  <2>3. f[Rest(S)] \in Int /\ g[Rest(S)] \in Int /\ f[Rest(S)] <= g[Rest(S)]
    BY <1>0, <1>3
  <2>4. f[S] = a[CHOOSE m \in S : TRUE] + f[Rest(S)] /\ g[S] = b[CHOOSE m \in S : TRUE] + g[Rest(S)]
    BY <1>1, <1>3 DEF SumStep
  <2> QED BY <2>2, <2>3, <2>4
<1>4. \A S \in SUBSET D : S \in T
  <2> HIDE DEF T
  <2> QED BY <1>2, <1>3, TakenOneByOne
<1> QED BY <1>4

Times(k, n) == k * n

(* And it is as many times as large as each number that is added.           *)
LEMMA SumsScale ==
  ASSUME NEW D, IsFiniteSet(D), NEW a \in [D -> Int], NEW b \in [D -> Int], NEW k \in {0, 3},
         NEW f, Sums(D, a, f), NEW g, Sums(D, b, g), \A n \in D : b[n] = Times(k, a[n])
  PROVE  g[D] = Times(k, f[D])
<1> DEFINE T == {S \in SUBSET D : g[S] = Times(k, f[S])}
<1>0. f \in [SUBSET D -> Int] /\ g \in [SUBSET D -> Int]
  BY SumsAre
<1>1. \A S \in SUBSET D : f[S] = SumStep(a, f, S) /\ g[S] = SumStep(b, g, S)
  BY DEF Sums
<1>2. {} \in T
  <2>1. f[{}] = 0 /\ g[{}] = 0
    BY <1>1 DEF SumStep
  <2> QED BY <2>1 DEF Times
<1>3. ASSUME NEW S \in SUBSET D, S # {}, Rest(S) \in T PROVE S \in T
  <2>1. IsFiniteSet(S)
    BY FS_Subset
  <2>2. (CHOOSE m \in S : TRUE) \in D
    BY <1>3, <2>1, RestIs
  <2>3. f[Rest(S)] \in Int /\ g[Rest(S)] = k * f[Rest(S)]
    BY <1>0, <1>3 DEF Times
  <2>4. f[S] = a[CHOOSE m \in S : TRUE] + f[Rest(S)] /\ g[S] = b[CHOOSE m \in S : TRUE] + g[Rest(S)]
    BY <1>1, <1>3 DEF SumStep
  <2> DEFINE x == a[CHOOSE m \in S : TRUE]
             y == f[Rest(S)]
  <2>5. x \in Int /\ y \in Int /\ f[S] = x + y /\ g[S] = k * x + k * y
    BY <2>2, <2>3, <2>4 DEF Times
  <2> HIDE DEF x, y
  <2>6. k * (x + y) = k * x + k * y
    BY <2>5
  <2> QED BY <2>5, <2>6 DEF Times
<1>4. \A S \in SUBSET D : S \in T
  <2> HIDE DEF T
  <2> QED BY <1>2, <1>3, TakenOneByOne
<1> QED BY <1>4

-----------------------------------------------------------------------------
(* The judgement of documents, whose state is w1 to w6: the entities, the     *)
(* criteria, the results of the model, what is judged, the stage, the summary. *)

AnswerFor(i) ==
  \/ w3[i] = Judgements!Error
  \/ \E g \in [Judgements!Names(w2.required) -> Judgements!Grades] :
       w3[i] = Judgements!Answer(w1[i], g)

EachAnswered ==
  DOMAIN w3 = DOMAIN w1 /\ \A i \in DOMAIN w1 : AnswerFor(i)

EachJudged ==
  \/ w1 = << >> /\ w3 = << >> /\ w4 = << >>
  \/ EachAnswered /\ w4 = Judgements!Ordered

Told ==
  \E broad, withContent, merged \in BOOLEAN :
    w6 = [broad |-> broad, content |-> withContent,
               says |-> IF merged THEN Judgements!MergedSummary(broad, withContent)
                        ELSE Judgements!ResponseSummary(broad, withContent)]

JudgementsInv ==
  /\ w1 \in Documents /\ w2 \in Criteria
  /\ w5 \in {"asked", "answered", "judged", "told", "raised"}
  /\ w5 = "asked" => w3 = << >> /\ w4 = << >>
  /\ w5 = "answered" => EachAnswered
  /\ w5 \in {"judged", "told"} => EachJudged
  /\ w5 = "told" => Told

LEMMA JudgementsInit == ASSUME Judgements!Init PROVE JudgementsInv
BY DEF Judgements!Init, JudgementsInv

(* What a step keeps when the answers, or the judgements, stay as they are.  *)
LEMMA JudgedAlike ==
  ASSUME UNCHANGED <<w1, w2, w3>>
  PROVE  (EachAnswered => EachAnswered') /\ (Judgements!Ordered)' = Judgements!Ordered
<1>1. w1' = w1 /\ w2' = w2 /\ w3' = w3
  OBVIOUS
<1>2. EachAnswered => EachAnswered'
  <2>1. /\ Judgements!Names(w2.required)' = Judgements!Names(w2.required)
        /\ Judgements!Grades' = Judgements!Grades /\ Judgements!Error' = Judgements!Error
    BY <1>1 DEF Judgements!Names, Judgements!Grades, Judgements!Error
  <2>2. ASSUME NEW i, AnswerFor(i) PROVE AnswerFor(i)'
    BY <1>1, <2>1, <2>2, Zenon DEF AnswerFor
  <2> QED BY <1>1, <2>2 DEF EachAnswered
<1>3. (Judgements!Ordered)' = Judgements!Ordered
  BY <1>1 DEF Judgements!Ordered, Judgements!FailedDocs, Judgements!Error, Judgements!Judgement,
     Judgements!AnswerOf, Judgements!LastOf, Judgements!Score, Judgements!Total,
     Judgements!Weight, Judgements!ToLevel
<1> QED BY <1>2, <1>3

LEMMA ToldAlike ==
  ASSUME UNCHANGED w4, NEW broad, NEW withContent
  PROVE  /\ Judgements!MergedSummary(broad, withContent)' = Judgements!MergedSummary(broad, withContent)
         /\ Judgements!ResponseSummary(broad, withContent)' = Judgements!ResponseSummary(broad, withContent)
BY DEF Judgements!MergedSummary, Judgements!ResponseSummary, Judgements!Results,
   Judgements!Says, Judgements!Count, Judgements!AtLevel, Judgements!Relevant

LEMMA JudgementsNext == ASSUME JudgementsInv, Judgements!Next PROVE JudgementsInv'
<1>1. CASE Judgements!NoEntities
  <2>1. /\ w5 = "asked" /\ w5' = "judged" /\ w1 = << >> /\ w3 = << >> /\ w4 = << >>
        /\ UNCHANGED <<w1, w2, w3, w4, w6>>
        /\ w1 \in Documents /\ w2 \in Criteria
    BY <1>1 DEF Judgements!NoEntities, JudgementsInv
  <2>2. /\ w5' \in {"asked", "answered", "judged", "told", "raised"}
        /\ w5' # "asked" /\ w5' # "answered" /\ w5' # "told"
        /\ w1' \in Documents /\ w2' \in Criteria
    BY <2>1
  <2>3. EachJudged'
    BY <2>1, Zenon DEF EachJudged
  <2> QED BY <2>2, <2>3 DEF JudgementsInv
<1>2. CASE Judgements!NoCriteria
  <2>1. w5' = "raised" /\ UNCHANGED <<w1, w2, w3, w4, w6>>
    BY <1>2 DEF Judgements!NoCriteria
  <2> QED BY <2>1 DEF JudgementsInv
<1>3. CASE Judgements!JudgeDocumentsRelevance
  <2>1. PICK answers \in [DOMAIN w1 ->
                          {<< >>} \cup [Judgements!Names(w2.required) -> Judgements!Grades]] :
          w3' = [i \in DOMAIN w1 |->
                        IF answers[i] = << >> THEN Judgements!Error
                        ELSE Judgements!Answer(w1[i], answers[i])]
    BY <1>3 DEF Judgements!JudgeDocumentsRelevance
  <2>2. /\ w1' = w1 /\ w2' = w2 /\ w5' = "answered"
        /\ Judgements!Names(w2.required)' = Judgements!Names(w2.required)
        /\ Judgements!Grades' = Judgements!Grades /\ Judgements!Error' = Judgements!Error
    BY <1>3 DEF Judgements!JudgeDocumentsRelevance, Judgements!Names, Judgements!Grades,
       Judgements!Error
  <2>3. DOMAIN w3' = DOMAIN w1'
    BY <2>1, <2>2
  <2>4. ASSUME NEW i \in DOMAIN w1' PROVE AnswerFor(i)'
    <3>1. i \in DOMAIN w1
      BY <2>2
    <3>2. CASE answers[i] = << >>
      BY <2>1, <2>2, <3>1, <3>2 DEF AnswerFor
    <3>3. CASE answers[i] # << >>
      <4>1. answers[i] \in [Judgements!Names(w2.required) -> Judgements!Grades]
        BY <3>1, <3>3
      <4>2. w3'[i] = Judgements!Answer(w1'[i], answers[i])
        BY <2>1, <2>2, <3>1, <3>3
      <4> QED BY <2>2, <4>1, <4>2 DEF AnswerFor
    <3> QED BY <3>2, <3>3
  <2>5. EachAnswered'
    BY <2>3, <2>4 DEF EachAnswered
  <2> QED BY <2>2, <2>5 DEF JudgementsInv
<1>4. CASE Judgements!ProcessLLMResults
  <2>1. /\ w5 = "answered" /\ w5' = "judged" /\ w4' = Judgements!Ordered
        /\ UNCHANGED <<w1, w2, w3>>
    BY <1>4 DEF Judgements!ProcessLLMResults
  <2>2. EachAnswered'
    BY <2>1, JudgedAlike DEF JudgementsInv
  <2>3. w4' = (Judgements!Ordered)'
    BY <2>1, JudgedAlike
  <2>4. EachJudged'
    BY <2>2, <2>3 DEF EachJudged
  <2> QED BY <2>1, <2>4 DEF JudgementsInv
<1>5. CASE Judgements!Summarise
  <2>1. /\ w5 = "judged" /\ w5' = "told"
        /\ UNCHANGED <<w1, w2, w3, w4>>
    BY <1>5 DEF Judgements!Summarise
  <2>2. PICK broad \in BOOLEAN, withContent \in BOOLEAN, merged \in BOOLEAN :
          w6' = [broad |-> broad, content |-> withContent,
                      says |-> IF merged THEN Judgements!MergedSummary(broad, withContent)
                               ELSE Judgements!ResponseSummary(broad, withContent)]
    BY <1>5 DEF Judgements!Summarise
  <2>3. w6' = [broad |-> broad, content |-> withContent,
                    says |-> IF merged THEN Judgements!MergedSummary(broad, withContent)'
                             ELSE Judgements!ResponseSummary(broad, withContent)']
    BY <2>1, <2>2, ToldAlike
  <2>4. Told'
    BY <2>3, Zenon DEF Told
  <2>5. EachJudged'
    BY <2>1, JudgedAlike, Zenon DEF JudgementsInv, EachJudged
  <2> QED BY <2>1, <2>4, <2>5 DEF JudgementsInv
<1> QED
  BY <1>1, <1>2, <1>3, <1>4, <1>5 DEF Judgements!Next

(* The promises                                                              *)

LEMMA AnswersAre ==
  ASSUME EachAnswered, NEW i \in DOMAIN w1
  PROVE  /\ i \in DOMAIN w3
         /\ \/ w3[i] = [ok |-> FALSE]
            \/ /\ w3[i].ok = TRUE /\ w3[i].doc = w1[i]
               /\ w3[i].grades \in [Judgements!Names(w2.required) -> {0, 1, 3}]
BY DEF EachAnswered, AnswerFor, Judgements!Error, Judgements!Answer, Judgements!Grades

(* Each document has its own answer. *)
LEMMA OwnAnswers ==
  ASSUME Judgements!Judgeable, w1 \in Documents, EachAnswered, NEW i \in DOMAIN w1
  PROVE  /\ w3[i] = [ok |-> FALSE] => Judgements!Ordered[i] = [ok |-> FALSE]
         /\ w3[i] # [ok |-> FALSE] =>
              /\ w3[i].ok = TRUE
              /\ Judgements!Ordered[i] =
                   [ok |-> TRUE, doc |-> w1[i],
                    relevance |-> Judgements!ToLevel(Judgements!Score(w3[i].grades)),
                    score |-> Judgements!Score(w3[i].grades)]
<1>1. \A j \in DOMAIN w1 : w1[j] = w1[i] => j = i
  BY DEF Judgements!Judgeable
<1>2. DOMAIN w3 = DOMAIN w1
  BY DEF EachAnswered
<1>3. \A j \in DOMAIN w1 :
         w3[j] = [ok |-> FALSE] \/ (w3[j].ok = TRUE /\ w3[j].doc = w1[j])
  BY AnswersAre
<1>4. w1[i] \in Judgements!FailedDocs <=> w3[i] = [ok |-> FALSE]
  BY <1>1, <1>2, <1>3 DEF Judgements!FailedDocs
<1>5. Judgements!Ordered[i] = IF w1[i] \in Judgements!FailedDocs THEN [ok |-> FALSE]
                              ELSE Judgements!Judgement(w1[i])
  BY DEF Judgements!Ordered, Judgements!Error
<1>6. ASSUME w3[i] # [ok |-> FALSE] PROVE Judgements!AnswerOf(w1[i]) = w3[i]
  <2> DEFINE places == {j \in DOMAIN w3 : w3[j].ok /\ w3[j].doc = w1[i]}
  <2>1. places = {i}
    BY <1>1, <1>2, <1>3, <1>6
  <2>2. Judgements!AnswerOf(w1[i]) = w3[Judgements!LastOf(places)]
    BY DEF Judgements!AnswerOf
  <2>3. i \in Int
    BY DEF Judgements!Judgeable
  <2>4. Judgements!LastOf({i}) = i
    BY <2>3 DEF Judgements!LastOf
  <2> QED BY <2>1, <2>2, <2>4
<1>7. ASSUME w3[i] # [ok |-> FALSE]
      PROVE  Judgements!Judgement(w1[i]) =
                   [ok |-> TRUE, doc |-> w1[i],
                    relevance |-> Judgements!ToLevel(Judgements!Score(w3[i].grades)),
                    score |-> Judgements!Score(w3[i].grades)]
  BY <1>6, <1>7 DEF Judgements!Judgement
<1> QED BY <1>3, <1>4, <1>5, <1>7

LEMMA LastOfIs ==
  ASSUME NEW N \in Nat, NEW S \in SUBSET (1..N), S # {}
  PROVE  Judgements!LastOf(S) \in S
<1> DEFINE Left == {N - i : i \in S}
<1>0. \A i \in S : i \in 1..N /\ N - i \in Nat
  OBVIOUS
<1>1. Left \in SUBSET Nat /\ Left # {}
  BY <1>0
<1>2. PICK q \in Left : \A r \in Left : q <= r
  <2> HIDE DEF Left
  <2> QED BY <1>1, LeastNumber
<1>3. PICK i \in S : q = N - i
  OBVIOUS
<1>4. \A j \in S : j <= i
  <2> TAKE j \in S
  <2>1. N - j \in Left
    OBVIOUS
  <2>2. N - i <= N - j
    BY <1>2, <1>3, <2>1
  <2> QED BY <1>0, <2>2
<1> QED BY <1>4, Zenon DEF Judgements!LastOf

(* Every name that a query requires has a weight.                            *)
LEMMA WeightsAre ==
  ASSUME Judgements!Judgeable, w2 \in Criteria
  PROVE  /\ IsFiniteSet(Judgements!Names(w2.required))
         /\ \A n \in Judgements!Names(w2.required) : Judgements!Weight(n) \in Int
<1> DEFINE C == [name : STRING, weight : Int]
           flat == w2.required \o w2.nice
<1>1. w2.required \in Seq(C) /\ w2.nice \in Seq(C)
  BY DEF Judgements!Judgeable
<1>2. /\ flat \in Seq(C) /\ Len(flat) \in Nat /\ DOMAIN flat = 1..Len(flat)
      /\ \A i \in DOMAIN w2.required : i \in DOMAIN flat /\ flat[i] = w2.required[i]
  <2> DEFINE s == w2.required
             r == w2.nice
  <2>1. s \in Seq(C) /\ r \in Seq(C)
    BY <1>1
  <2> HIDE DEF s, r, C
  <2>2. /\ s \o r \in Seq(C) /\ Len(s \o r) \in Nat /\ DOMAIN (s \o r) = 1..Len(s \o r)
        /\ \A i \in DOMAIN s : i \in DOMAIN (s \o r) /\ (s \o r)[i] = s[i]
    BY <2>1
  <2> QED BY <2>2 DEF s, r
<1>3. IsFiniteSet(Judgements!Names(w2.required))
  <2>1. IsFiniteSet(DOMAIN w2.required)
    <3>1. DOMAIN w2.required = 1..Len(w2.required) /\ Len(w2.required) \in Nat
      BY <1>1
    <3> QED BY <3>1, FS_Interval
  <2>2. IsFiniteSet({w2.required[i].name : i \in DOMAIN w2.required})
    <3> DEFINE S == DOMAIN w2.required
               f == [i \in S |-> w2.required[i].name]
    <3>1. f \in Surjection(S, {w2.required[i].name : i \in S})
      BY DEF Surjection
    <3> QED BY <2>1, <3>1, FS_Surjection
  <2> QED BY <2>2 DEF Judgements!Names
<1>4. ASSUME NEW n \in Judgements!Names(w2.required) PROVE Judgements!Weight(n) \in Int
  <2> DEFINE named == {i \in DOMAIN flat : flat[i].name = n}
  <2>1. PICK i \in DOMAIN w2.required : w2.required[i].name = n
    BY DEF Judgements!Names
  <2>2. named \in SUBSET (1..Len(flat)) /\ named # {}
    BY <1>2, <2>1
  <2>3. Judgements!LastOf(named) \in named
    <3> HIDE DEF named, flat
    <3> QED BY <1>2, <2>2, LastOfIs
  <2>4. flat[Judgements!LastOf(named)].weight \in Int
    <3>1. Judgements!LastOf(named) \in 1..Len(flat)
      BY <2>2, <2>3
    <3> HIDE DEF named, flat
    <3>2. flat[Judgements!LastOf(named)] \in C
      <4> HIDE DEF C
      <4> QED BY <1>2, <3>1
    <3> QED BY <3>2
  <2>5. Judgements!Weight(n) = flat[Judgements!LastOf(named)].weight
    BY DEF Judgements!Weight
  <2> QED BY <2>4, <2>5
<1> QED BY <1>3, <1>4

Addends(g) == [n \in DOMAIN g |-> Judgements!Weight(n) * g[n]]

LEMMA TotalIs ==
  ASSUME NEW g, IsFiniteSet(DOMAIN g), Addends(g) \in [DOMAIN g -> Int]
  PROVE  \E f : /\ Sums(DOMAIN g, Addends(g), f) /\ f \in [SUBSET DOMAIN g -> Int]
                /\ Judgements!Total(g) = f[DOMAIN g]
<1> DEFINE Of(f) == [names \in SUBSET DOMAIN g |->
                       IF names = {} THEN 0
                       ELSE LET n == CHOOSE n \in names : TRUE
                            IN  Judgements!Weight(n) * g[n] + f[names \ {n}]]
           total == CHOOSE f : f = Of(f)
<1>1. PICK f : Sums(DOMAIN g, Addends(g), f)
  BY SumsExist
<1>2. ASSUME NEW h PROVE Sums(DOMAIN g, Addends(g), h) <=> h = Of(h)
  <2> DEFINE Step(S) == IF S = {} THEN 0
                        ELSE LET n == CHOOSE n \in S : TRUE
                             IN  Judgements!Weight(n) * g[n] + h[S \ {n}]
  <2>1. ASSUME NEW S \in SUBSET DOMAIN g PROVE SumStep(Addends(g), h, S) = Step(S)
    <3>1. CASE S = {}
      BY <3>1 DEF SumStep
    <3>2. CASE S # {}
      <4> DEFINE n == CHOOSE n \in S : TRUE
      <4>1. n \in DOMAIN g
        BY <3>2
      <4>2. SumStep(Addends(g), h, S) = Addends(g)[n] + h[S \ {n}]
        BY <3>2 DEF SumStep, Rest
      <4>3. Addends(g)[n] = Judgements!Weight(n) * g[n]
        BY <4>1 DEF Addends
      <4> QED BY <3>2, <4>2, <4>3
    <3> QED BY <3>1, <3>2
  <2>2. [S \in SUBSET DOMAIN g |-> SumStep(Addends(g), h, S)] = [S \in SUBSET DOMAIN g |-> Step(S)]
    <3> HIDE DEF Step
    <3> QED BY <2>1
  <2>3. Of(h) = [S \in SUBSET DOMAIN g |-> Step(S)]
    OBVIOUS
  <2> QED BY <2>2, <2>3, Zenon DEF Sums
<1>3. f = Of(f)
  BY <1>1, <1>2
<1>4. total = Of(total)
  <2> HIDE DEF Of
  <2> QED BY <1>3, Zenon
<1>5. Judgements!Total(g) = total[DOMAIN g]
  BY DEF Judgements!Total
<1> HIDE DEF total, Of
<1>6. Sums(DOMAIN g, Addends(g), total)
  BY <1>2, <1>4
<1>7. total \in [SUBSET DOMAIN g -> Int]
  BY <1>6, SumsAre
<1> QED BY <1>5, <1>6, <1>7

Required == Judgements!Names(w2.required)

LEMMA AddendsAre ==
  ASSUME Judgements!Judgeable, w2 \in Criteria, NEW g \in [Required -> Int]
  PROVE  /\ IsFiniteSet(Required) /\ DOMAIN g = Required
         /\ Addends(g) \in [Required -> Int]
         /\ \A n \in Required : /\ Addends(g)[n] = Judgements!Weight(n) * g[n]
                                /\ Judgements!Weight(n) \in Int
<1>1. IsFiniteSet(Required) /\ \A n \in Required : Judgements!Weight(n) \in Int
  BY WeightsAre DEF Required
<1>2. \A n \in Required : Judgements!Weight(n) * g[n] \in Int
  BY <1>1
<1>3. DOMAIN g = Required
  OBVIOUS
<1> QED BY <1>1, <1>2, <1>3 DEF Addends

LEMMA TotalOf ==
  ASSUME Judgements!Judgeable, w2 \in Criteria, NEW g \in [Required -> Int]
  PROVE  \E f : /\ Sums(Required, Addends(g), f) /\ f \in [SUBSET Required -> Int]
                /\ Judgements!Total(g) = f[Required]
<1>1. IsFiniteSet(Required) /\ DOMAIN g = Required /\ Addends(g) \in [Required -> Int]
  BY AddendsAre
<1>2. IsFiniteSet(DOMAIN g) /\ Addends(g) \in [DOMAIN g -> Int]
  BY <1>1
<1>3. \E f : /\ Sums(DOMAIN g, Addends(g), f) /\ f \in [SUBSET DOMAIN g -> Int]
             /\ Judgements!Total(g) = f[DOMAIN g]
  BY <1>2, TotalIs
<1> QED BY <1>1, <1>3

LEMMA TotalsGrow ==
  ASSUME Judgements!Judgeable, w2 \in Criteria, Judgements!Whole,
         NEW g \in [Required -> Int], NEW h \in [Required -> Int],
         \A n \in Required : g[n] <= h[n]
  PROVE  /\ Judgements!Total(g) \in Int /\ Judgements!Total(h) \in Int
         /\ Judgements!Total(g) <= Judgements!Total(h)
<1>1. /\ IsFiniteSet(Required) /\ DOMAIN g = Required /\ DOMAIN h = Required
      /\ Addends(g) \in [Required -> Int] /\ Addends(h) \in [Required -> Int]
  BY AddendsAre
<1>2. \A n \in Required : Addends(g)[n] <= Addends(h)[n]
  <2> TAKE n \in Required
  <2>1. /\ Addends(g)[n] = Judgements!Weight(n) * g[n]
        /\ Addends(h)[n] = Judgements!Weight(n) * h[n]
        /\ Judgements!Weight(n) \in Int
    BY AddendsAre
  <2>2. Judgements!Weight(n) >= 0
    BY DEF Judgements!Whole, Required
  <2> DEFINE v == Judgements!Weight(n)
             d == h[n] - g[n]
  <2>3. v \in Nat /\ d \in Nat /\ g[n] \in Int /\ h[n] = g[n] + d
    BY <2>1, <2>2
  <2> HIDE DEF v, d
  <2>4. v * (g[n] + d) = v * g[n] + v * d /\ v * d \in Nat
    BY <2>3
  <2>5. v * g[n] <= v * h[n]
    BY <2>3, <2>4
  <2> QED BY <2>1, <2>5 DEF v
<1>3. PICK f : Sums(Required, Addends(g), f) /\ f \in [SUBSET Required -> Int]
               /\ Judgements!Total(g) = f[Required]
  BY TotalOf, Zenon
<1>4. PICK k : Sums(Required, Addends(h), k) /\ k \in [SUBSET Required -> Int]
               /\ Judgements!Total(h) = k[Required]
  BY TotalOf, Zenon
<1>5. f[Required] <= k[Required]
  BY <1>1, <1>2, <1>3, <1>4, SumsGrow
<1> QED BY <1>3, <1>4, <1>5

LEMMA TotalsScale ==
  ASSUME Judgements!Judgeable, w2 \in Criteria,
         NEW g \in [Required -> Int], NEW h \in [Required -> Int], NEW k \in {0, 3},
         \A n \in Required : g[n] = 1 /\ h[n] = k
  PROVE  Judgements!Total(h) = k * Judgements!Total(g)
<1>1. /\ IsFiniteSet(Required) /\ DOMAIN g = Required /\ DOMAIN h = Required
      /\ Addends(g) \in [Required -> Int] /\ Addends(h) \in [Required -> Int]
  BY AddendsAre
<1>2. \A n \in Required : Addends(h)[n] = Times(k, Addends(g)[n])
  <2> TAKE n \in Required
  <2>1. /\ Addends(g)[n] = Judgements!Weight(n) * g[n]
        /\ Addends(h)[n] = Judgements!Weight(n) * h[n]
        /\ Judgements!Weight(n) \in Int
    BY AddendsAre
  <2> QED BY <2>1 DEF Times
<1>3. PICK f : Sums(Required, Addends(g), f) /\ f \in [SUBSET Required -> Int]
               /\ Judgements!Total(g) = f[Required]
  BY TotalOf, Zenon
<1>4. PICK s : Sums(Required, Addends(h), s) /\ s \in [SUBSET Required -> Int]
               /\ Judgements!Total(h) = s[Required]
  BY TotalOf, Zenon
<1>5. s[Required] = Times(k, f[Required])
  BY <1>1, <1>2, <1>3, <1>4, SumsScale
<1> QED BY <1>3, <1>4, <1>5 DEF Times

LEMMA LevelsAre ==
  ASSUME NEW s \in 0..300
  PROVE  /\ s = 300 => Judgements!ToLevel(s) = 3
         /\ s <= 100 => Judgements!ToLevel(s) # 3
         /\ s = 0 => Judgements!ToLevel(s) = 0
         /\ \A t \in 0..300 : s <= t => Judgements!ToLevel(s) <= Judgements!ToLevel(t)
<1>1. ASSUME NEW t \in 0..300
      PROVE  /\ t <= 75 => Judgements!ToLevel(t) = 0
             /\ 75 < t /\ t <= 201 => Judgements!ToLevel(t) = 1
             /\ 201 < t /\ t <= 297 => Judgements!ToLevel(t) = 2
             /\ 297 < t => Judgements!ToLevel(t) = 3
  <2>1. CASE t \in 0..75
    BY <2>1 DEF Judgements!ToLevel
  <2>2. CASE t \in 76..201
    BY <2>2 DEF Judgements!ToLevel
  <2>3. CASE t \in 202..297
    BY <2>3 DEF Judgements!ToLevel
  <2>4. CASE t \in 298..300
    BY <2>4 DEF Judgements!ToLevel
  <2> QED BY <2>1, <2>2, <2>3, <2>4
<1> QED BY <1>1

(* The score of grades lies between that of no grade at all and that of     *)
(* perfect grades.                                                          *)
LEMMA ScoresAre ==
  ASSUME Judgements!Judgeable, w2 \in Criteria, Judgements!Whole,
         NEW g \in [Required -> {0, 1, 3}]
  PROVE  /\ Judgements!Score(g) \in 0..300
         /\ (\A n \in Required : g[n] = 3) => Judgements!Score(g) = 300
         /\ (\A n \in Required : g[n] # 3) => Judgements!Score(g) <= 100
         /\ (\A n \in Required : g[n] = 0) => Judgements!Score(g) = 0
         /\ \A h \in [Required -> {0, 1, 3}] :
              (\A n \in Required : g[n] <= h[n]) => Judgements!Score(g) <= Judgements!Score(h)
<1> DEFINE one == [n \in Required |-> 1]
           none == [n \in Required |-> 0]
<1>1. /\ one \in [Required -> Int] /\ none \in [Required -> Int] /\ g \in [Required -> Int]
      /\ \A n \in Required : one[n] = 1 /\ none[n] = 0 /\ none[n] <= g[n]
  OBVIOUS
<1>2. Judgements!Total(one) = 100
  BY DEF Judgements!Whole, Required
<1> HIDE DEF one, none
<1>3. Judgements!Total(none) = 0
  <2>1. Judgements!Total(none) = 0 * Judgements!Total(one)
    BY <1>1, TotalsScale
  <2> QED BY <1>2, <2>1
<1>4. Judgements!Total(g) \in Int /\ Judgements!Total(none) <= Judgements!Total(g)
  BY <1>1, TotalsGrow
<1>5. Judgements!Score(g) = IF Judgements!Total(g) > 300 THEN 300 ELSE Judgements!Total(g)
  BY DEF Judgements!Score
<1>6. Judgements!Score(g) \in 0..300
  BY <1>3, <1>4, <1>5
<1>7. ASSUME \A n \in Required : g[n] = 3 PROVE Judgements!Score(g) = 300
  <2>1. Judgements!Total(g) = 3 * Judgements!Total(one)
    BY <1>1, <1>7, TotalsScale
  <2> QED BY <1>2, <1>5, <2>1
<1>8. ASSUME \A n \in Required : g[n] # 3 PROVE Judgements!Score(g) <= 100
  <2>1. \A n \in Required : g[n] <= one[n]
    BY <1>1, <1>8
  <2>2. Judgements!Total(g) <= Judgements!Total(one)
    BY <1>1, <2>1, TotalsGrow
  <2> QED BY <1>2, <1>4, <1>5, <2>2
<1>9. ASSUME \A n \in Required : g[n] = 0 PROVE Judgements!Score(g) = 0
  <2>1. Judgements!Total(g) = 0 * Judgements!Total(one)
    BY <1>1, <1>9, TotalsScale
  <2> QED BY <1>2, <1>5, <2>1
<1>10. ASSUME NEW h \in [Required -> {0, 1, 3}], \A n \in Required : g[n] <= h[n]
       PROVE  Judgements!Score(g) <= Judgements!Score(h)
  <2>1. h \in [Required -> Int]
    OBVIOUS
  <2>2. /\ Judgements!Total(h) \in Int /\ Judgements!Total(g) <= Judgements!Total(h)
    BY <1>1, <1>10, <2>1, TotalsGrow
  <2>3. Judgements!Score(h) = IF Judgements!Total(h) > 300 THEN 300 ELSE Judgements!Total(h)
    BY DEF Judgements!Score
  <2> QED BY <1>4, <1>5, <2>2, <2>3
<1> QED BY <1>6, <1>7, <1>8, <1>9, <1>10

LEMMA LevelsFitting ==
  ASSUME Judgements!Judgeable, w1 \in Documents, w2 \in Criteria, EachJudged
  PROVE  Judgements!OwnJudgement /\ Judgements!LevelsFit
<1>1. CASE w1 = << >> /\ w3 = << >> /\ w4 = << >>
  BY <1>1 DEF Judgements!OwnJudgement, Judgements!LevelsFit
<1>2. CASE EachAnswered /\ w4 = Judgements!Ordered
  <2>1. /\ DOMAIN w4 = DOMAIN w1
        /\ \A i \in DOMAIN w1 :
             \/ w3[i] = [ok |-> FALSE] /\ w4[i] = [ok |-> FALSE]
             \/ /\ w3[i].ok = TRUE /\ w3[i].grades \in [Required -> {0, 1, 3}]
                /\ w4[i] = [ok |-> TRUE, doc |-> w1[i],
                                relevance |-> Judgements!ToLevel(Judgements!Score(w3[i].grades)),
                                score |-> Judgements!Score(w3[i].grades)]
    <3>1. DOMAIN w4 = DOMAIN w1
      BY <1>2 DEF Judgements!Ordered
    <3>2. ASSUME NEW i \in DOMAIN w1
          PROVE  \/ w3[i] = [ok |-> FALSE] /\ w4[i] = [ok |-> FALSE]
                 \/ /\ w3[i].ok = TRUE /\ w3[i].grades \in [Required -> {0, 1, 3}]
                    /\ w4[i] = [ok |-> TRUE, doc |-> w1[i],
                                    relevance |-> Judgements!ToLevel(Judgements!Score(w3[i].grades)),
                                    score |-> Judgements!Score(w3[i].grades)]
      BY <1>2, AnswersAre, OwnAnswers, Zenon DEF Required
    <3> QED BY <3>1, <3>2
  <2>2. Judgements!OwnJudgement
    <3>1. ASSUME NEW i \in DOMAIN w1
          PROVE  /\ w4[i].ok <=> w3[i].ok
                 /\ w4[i].ok => /\ w4[i].doc = w1[i]
                                    /\ w4[i].score = Judgements!Score(w3[i].grades)
      BY <2>1
    <3> QED BY <3>1 DEF Judgements!OwnJudgement
  <2>3. ASSUME Judgements!Whole, NEW i \in DOMAIN w4, w4[i].ok
        PROVE  LET g == w3[i].grades IN
               /\ (\A c \in DOMAIN g : g[c] = 3) => w4[i].relevance = 3
               /\ w4[i].relevance = 3 => \E c \in DOMAIN g : g[c] = 3
               /\ (\A c \in DOMAIN g : g[c] = 0) => w4[i].relevance = 0
               /\ \A j \in DOMAIN w4 :
                    w4[j].ok /\ (\A c \in DOMAIN g : g[c] <= w3[j].grades[c])
                      => w4[i].relevance <= w4[j].relevance
    <3> DEFINE g == w3[i].grades
               s == Judgements!Score(g)
    <3>1. g \in [Required -> {0, 1, 3}] /\ w4[i].relevance = Judgements!ToLevel(s)
      BY <2>1, <2>3
    <3>2. DOMAIN g = Required
      BY <3>1
    <3> HIDE DEF g
    <3>3. s \in 0..300
      BY <2>3, <3>1, ScoresAre
    <3> HIDE DEF s
    <3>8. /\ (\A c \in Required : g[c] = 3) => s = 300
          /\ (\A c \in Required : g[c] # 3) => s <= 100
          /\ (\A c \in Required : g[c] = 0) => s = 0
      BY <2>3, <3>1, ScoresAre DEF s
    <3>9. /\ s = 300 => w4[i].relevance = 3
          /\ s <= 100 => w4[i].relevance # 3
          /\ s = 0 => w4[i].relevance = 0
      BY <3>1, <3>3, LevelsAre
    <3>4. (\A c \in Required : g[c] = 3) => w4[i].relevance = 3
      BY <3>8, <3>9, Zenon
    <3>5. w4[i].relevance = 3 => \E c \in Required : g[c] = 3
      BY <3>8, <3>9, Zenon
    <3>6. (\A c \in Required : g[c] = 0) => w4[i].relevance = 0
      BY <3>8, <3>9, Zenon
    <3>7. ASSUME NEW j \in DOMAIN w4, w4[j].ok,
                 \A c \in Required : g[c] <= w3[j].grades[c]
          PROVE  w4[i].relevance <= w4[j].relevance
      <4> DEFINE h == w3[j].grades
                 r == Judgements!Score(h)
      <4>1. h \in [Required -> {0, 1, 3}] /\ w4[j].relevance = Judgements!ToLevel(r)
        BY <2>1, <3>7
      <4>2. \A c \in Required : g[c] <= h[c]
        BY <3>7
      <4> HIDE DEF h
      <4>3. r \in 0..300 /\ s <= r
        BY <2>3, <3>1, <4>1, <4>2, ScoresAre DEF s
      <4> HIDE DEF r
      <4> QED BY <3>1, <3>3, <4>1, <4>3, LevelsAre
    <3> QED BY <3>2, <3>4, <3>5, <3>6, <3>7 DEF g
  <2>4. Judgements!LevelsFit
    BY <2>3 DEF Judgements!LevelsFit
  <2> QED BY <2>2, <2>4
<1> QED BY <1>1, <1>2 DEF EachJudged

LEMMA CountsAre ==
  ASSUME NEW S, IsFiniteSet(S)
  PROVE  Judgements!Cardinality(S) \in Nat /\ (Judgements!Cardinality(S) = 0 <=> S = {})
<1>1. Judgements!Cardinality(S) = Cardinality(S)
  BY Zenon DEF Judgements!Cardinality, Cardinality
<1> QED BY <1>1, FS_CardinalityType, FS_EmptySet

LEMMA SummaryTold ==
  ASSUME Judgements!Judgeable, w1 \in Documents, EachJudged, Told
  PROVE  Judgements!SummaryTrue
<1>1. IsFiniteSet(DOMAIN w4)
  <2>1. DOMAIN w4 = DOMAIN w1
    BY DEF EachJudged, Judgements!Ordered
  <2>2. DOMAIN w1 = 1..Len(w1) /\ Len(w1) \in Nat
    BY DEF Judgements!Judgeable
  <2> QED BY <2>1, <2>2, FS_Interval
<1>2. /\ IsFiniteSet(Judgements!Relevant)
      /\ \A l \in 1..3 : /\ IsFiniteSet(Judgements!AtLevel(l))
                         /\ Judgements!AtLevel(l) \subseteq Judgements!Relevant
  <2>1. Judgements!Relevant \subseteq DOMAIN w4
    BY DEF Judgements!Relevant
  <2>2. \A l \in 1..3 : Judgements!AtLevel(l) \subseteq Judgements!Relevant
    BY DEF Judgements!Relevant, Judgements!AtLevel
  <2> QED BY <1>1, <2>1, <2>2, FS_Subset
<1>3. /\ Judgements!Cardinality(Judgements!Relevant) = 0 => Judgements!Relevant = {}
      /\ \A l \in 1..3 : /\ Judgements!Count(l) \in Nat
                         /\ Judgements!Relevant = {} => Judgements!Count(l) = 0
  <2>1. ASSUME NEW l \in 1..3
        PROVE  /\ Judgements!Count(l) \in Nat
               /\ Judgements!Relevant = {} => Judgements!Count(l) = 0
    <3>1. /\ Judgements!Count(l) \in Nat
          /\ Judgements!Count(l) = 0 <=> Judgements!AtLevel(l) = {}
      BY <1>2, CountsAre DEF Judgements!Count
    <3> QED BY <1>2, <3>1
  <2> QED BY <1>2, <2>1, CountsAre
<1>4. PICK broad \in BOOLEAN, withContent \in BOOLEAN, merged \in BOOLEAN :
        w6 = [broad |-> broad, content |-> withContent,
                   says |-> IF merged THEN Judgements!MergedSummary(broad, withContent)
                            ELSE Judgements!ResponseSummary(broad, withContent)]
  BY DEF Told
<1>5. SUFFICES ASSUME w6.broad, w6.content
               PROVE  LET s == w6.says IN
                      /\ s.perfect + s.high + s.other =
                           Judgements!Count(1) + Judgements!Count(2) + Judgements!Count(3)
                      /\ s.form = "nothing" => Judgements!Relevant = {}
                      /\ s.form = "no perfect" => Judgements!Count(3) = 0
  BY DEF Judgements!SummaryTrue
<1>6. broad = TRUE /\ withContent = TRUE
  BY <1>4, <1>5
<1> DEFINE n1 == Judgements!Count(1)
           n2 == Judgements!Count(2)
           n3 == Judgements!Count(3)
<1>7. w6.says = IF Judgements!Cardinality(Judgements!Relevant) = 0
                     THEN [form |-> "nothing", perfect |-> 0, high |-> 0, other |-> 0]
                     ELSE IF n3 > 0
                     THEN [form |-> "perfect", perfect |-> n3, high |-> n2, other |-> n1]
                     ELSE [form |-> "no perfect", perfect |-> 0, high |-> n2, other |-> n1]
  <2>1. w6.says = IF merged THEN Judgements!MergedSummary(TRUE, TRUE)
                       ELSE Judgements!ResponseSummary(TRUE, TRUE)
    BY <1>4, <1>6
  <2> QED BY <2>1 DEF Judgements!MergedSummary, Judgements!ResponseSummary, Judgements!Results,
             Judgements!Says
<1>8. /\ n1 \in Nat /\ n2 \in Nat /\ n3 \in Nat
      /\ Judgements!Relevant = {} => n1 = 0 /\ n2 = 0 /\ n3 = 0
  <2>1. 1 \in 1..3 /\ 2 \in 1..3 /\ 3 \in 1..3
    OBVIOUS
  <2>2. \A l \in 1..3 : Judgements!Count(l) \in Nat
    BY <1>3
  <2>3. \A l \in 1..3 : Judgements!Relevant = {} => Judgements!Count(l) = 0
    BY <1>3
  <2>4. n1 \in Nat /\ n2 \in Nat /\ n3 \in Nat
    BY <2>1, <2>2
  <2>5. Judgements!Relevant = {} => n1 = 0 /\ n2 = 0 /\ n3 = 0
    BY <2>1, <2>3
  <2> QED BY <2>4, <2>5
<1> HIDE DEF n1, n2, n3
<1> DEFINE s == w6.says
<1> HIDE DEF s
<1>9. /\ s.perfect + s.high + s.other = n1 + n2 + n3
      /\ s.form = "nothing" => Judgements!Relevant = {}
      /\ s.form = "no perfect" => n3 = 0
  <2>1. CASE Judgements!Cardinality(Judgements!Relevant) = 0
    <3>1. Judgements!Relevant = {} /\ n1 = 0 /\ n2 = 0 /\ n3 = 0
      BY <1>3, <1>8, <2>1
    <3>2. s = [form |-> "nothing", perfect |-> 0, high |-> 0, other |-> 0]
      BY <1>7, <2>1, Zenon DEF s
    <3> QED BY <3>1, <3>2
  <2>2. CASE Judgements!Cardinality(Judgements!Relevant) # 0 /\ n3 > 0
    <3>1. s = [form |-> "perfect", perfect |-> n3, high |-> n2, other |-> n1]
      BY <1>7, <2>2, Zenon DEF s
    <3> QED BY <1>8, <3>1
  <2>3. CASE Judgements!Cardinality(Judgements!Relevant) # 0 /\ ~(n3 > 0)
    <3>1. n3 = 0
      BY <1>8, <2>3
    <3>2. s = [form |-> "no perfect", perfect |-> 0, high |-> n2, other |-> n1]
      BY <1>7, <2>3, Zenon DEF s
    <3>3. s.perfect = 0 /\ s.high = n2 /\ s.other = n1 /\ s.form # "nothing"
      BY <3>2
    <3>4. 0 + n2 + n1 = n1 + n2 + n3
      BY <1>8, <3>1
    <3> QED BY <3>1, <3>3, <3>4
  <2> QED BY <2>1, <2>2, <2>3
<1> QED BY <1>9, Zenon DEF n1, n2, n3, s

LEMMA JudgementsKept ==
  ASSUME Judgements!Judgeable, JudgementsInv PROVE Judgements!JudgementsSound
<1>1. w1 \in Documents /\ w2 \in Criteria
  BY DEF JudgementsInv
<1>2. CASE w5 \in {"judged", "told"}
  <2>1. Judgements!OwnJudgement /\ Judgements!LevelsFit
    BY <1>1, <1>2, LevelsFitting DEF JudgementsInv
  <2>2. Judgements!SummaryTrue
    <3>1. CASE w5 = "told"
      BY <1>1, <1>2, <3>1, SummaryTold DEF JudgementsInv
    <3> QED BY <3>1 DEF Judgements!SummaryTrue
  <2> QED BY <2>1, <2>2 DEF Judgements!JudgementsSound
<1>3. CASE w5 \notin {"judged", "told"}
  BY <1>3 DEF Judgements!JudgementsSound, Judgements!OwnJudgement, Judgements!LevelsFit,
     Judgements!SummaryTrue
<1> QED BY <1>2, <1>3

LEMMA JudgementsStutter == ASSUME JudgementsInv, UNCHANGED Judgements!vars PROVE JudgementsInv'
<1>1. UNCHANGED <<w1, w2, w3, w4, w5, w6>>
  BY DEF Judgements!vars
<1>2. (EachAnswered => EachAnswered') /\ (EachJudged => EachJudged')
  BY <1>1, JudgedAlike, Zenon DEF EachJudged
<1>3. Told => Told'
  BY <1>1, ToldAlike, Zenon DEF Told
<1> QED BY <1>1, <1>2, <1>3 DEF JudgementsInv

-----------------------------------------------------------------------------
(* The places of a quote, whose state is w1 to w3: the sources, the quote and *)
(* the spans.                                                                *)

(* Places in their order.                                                    *)
LEMMA AscendingIs ==
  ASSUME NEW S \in SUBSET Int, IsFiniteSet(S), \A x \in S : x > 0
  PROVE  /\ Snippets!Ascending(S) \in Seq(S)
         /\ Len(Snippets!Ascending(S)) = Cardinality(S) /\ Cardinality(S) \in Nat
         /\ DOMAIN Snippets!Ascending(S) = 1..Cardinality(S)
         /\ \A x \in S : \E r \in 1..Cardinality(S) : r <= x /\ Snippets!Ascending(S)[r] = x
         /\ \A i, j \in 1..Cardinality(S) : i < j => Snippets!Ascending(S)[i] < Snippets!Ascending(S)[j]
         /\ \A i, j \in 1..Cardinality(S) : Snippets!Ascending(S)[i] = Snippets!Ascending(S)[j] => i = j
<1> DEFINE n == Cardinality(S)
           Upto(x) == {y \in S : y <= x}
           f == [x \in S |-> Cardinality(Upto(x))]
           s == Snippets!Ascending(S)
<1>1. n \in Nat
  BY FS_CardinalityType
<1>2. \A x \in S : /\ IsFiniteSet(Upto(x)) /\ Cardinality(Upto(x)) \in 1..n
  <2> TAKE x \in S
  <2>1. Upto(x) \subseteq S /\ x \in Upto(x)
    OBVIOUS
  <2> HIDE DEF Upto
  <2>2. IsFiniteSet(Upto(x)) /\ Cardinality(Upto(x)) <= n /\ Cardinality(Upto(x)) \in Nat
    BY <2>1, FS_Subset, FS_CardinalityType
  <2>3. Cardinality(Upto(x)) # 0
    BY <2>1, <2>2, FS_EmptySet
  <2> QED BY <1>1, <2>2, <2>3
<1>3. \A x, y \in S : x < y => Cardinality(Upto(x)) < Cardinality(Upto(y))
  <2> SUFFICES ASSUME NEW x \in S, NEW y \in S, x < y
               PROVE  Cardinality(Upto(x)) < Cardinality(Upto(y))
    OBVIOUS
  <2>1. Upto(x) \subseteq Upto(y) /\ y \in Upto(y) /\ y \notin Upto(x)
    <3>1. x \in Int /\ y \in Int /\ \A z \in S : z \in Int
      OBVIOUS
    <3>2. \A z \in S : z <= x => z <= y
      BY <3>1
    <3>3. y <= y /\ ~ (y <= x)
      BY <3>1
    <3> QED BY <3>2, <3>3
  <2>2. IsFiniteSet(Upto(y)) /\ Cardinality(Upto(x)) \in Nat /\ Cardinality(Upto(y)) \in Nat
    BY <1>1, <1>2
  <2> HIDE DEF Upto
  <2>3. Cardinality(Upto(x)) <= Cardinality(Upto(y))
    BY <2>1, <2>2, FS_Subset
  <2>4. Cardinality(Upto(x)) # Cardinality(Upto(y))
    BY <2>1, <2>2, FS_Subset
  <2> QED BY <2>2, <2>3, <2>4
<1>4. f \in [S -> 1..n]
  BY <1>2
<1>5. \A x, y \in S : f[x] = f[y] => x = y
  <2> SUFFICES ASSUME NEW x \in S, NEW y \in S, f[x] = f[y], x # y PROVE FALSE
    OBVIOUS
  <2>0. x \in Int /\ y \in Int /\ Cardinality(Upto(x)) = Cardinality(Upto(y))
    OBVIOUS
  <2> HIDE DEF Upto, f
  <2>1. x < y \/ y < x
    BY <2>0
  <2>2. Cardinality(Upto(x)) \in Nat /\ Cardinality(Upto(y)) \in Nat
    BY <1>1, <1>2
  <2>3. CASE x < y
    <3>1. Cardinality(Upto(x)) < Cardinality(Upto(y))
      BY <1>3, <2>3
    <3> QED BY <1>1, <2>0, <2>2, <3>1
  <2>4. CASE y < x
    <3>1. Cardinality(Upto(y)) < Cardinality(Upto(x))
      BY <1>3, <2>4
    <3> QED BY <1>1, <2>0, <2>2, <3>1
  <2> QED BY <2>1, <2>3, <2>4
<1>6. \A r \in 1..n : \E x \in S : f[x] = r
  <2> HIDE DEF f, n
  <2> QED BY <1>1, <1>4, <1>5, RanksAreAll DEF n
<1>15. s = [r \in 1..Cardinality(S) |->
              CHOOSE x \in S : Cardinality({y \in S : y <= x}) = r]
  BY Zenon DEF Snippets!Ascending, Snippets!Cardinality, Cardinality
<1>7. \A r \in 1..n : s[r] = CHOOSE x \in S : Cardinality(Upto(x)) = r
  <2> HIDE DEF s
  <2> QED BY <1>15
<1>8. \A r \in 1..n : s[r] \in S /\ f[s[r]] = r
  <2> TAKE r \in 1..n
  <2>1. \E x \in S : Cardinality(Upto(x)) = r
    BY <1>6
  <2>2. s[r] \in S /\ Cardinality(Upto(s[r])) = r
    BY <1>7, <2>1
  <2> QED BY <2>2
<1>9. DOMAIN s = 1..n /\ s = [r \in 1..n |-> s[r]]
  <2> HIDE DEF s, n
  <2> DEFINE at(r) == CHOOSE x \in S : Cardinality({y \in S : y <= x}) = r
  <2>1. s = [r \in 1..n |-> at(r)]
    BY <1>15 DEF n
  <2> HIDE DEF at
  <2> QED BY <2>1
<1> HIDE DEF s, n
<1>10. s \in [1..n -> S]
  BY <1>8, <1>9
<1>11. s \in Seq(S) /\ Len(s) = n
  BY <1>1, <1>10, FunctionIsSeq
<1>12. \A x \in S : \E r \in 1..n : r <= x /\ s[r] = x
  <2> TAKE x \in S
  <2>1. f[x] \in 1..n /\ s[f[x]] = x
    <3> HIDE DEF f
    <3> QED BY <1>4, <1>5, <1>8
  <2>2. Upto(x) \subseteq 1..x /\ x \in Nat
    <3>1. x \in Nat /\ \A y \in S : y \in Nat /\ y > 0
      OBVIOUS
    <3>2. \A y \in Upto(x) : y \in Nat /\ y > 0 /\ y <= x
      BY <3>1
    <3>3. \A y \in Upto(x) : y \in 1..x
      BY <3>1, <3>2
    <3> HIDE DEF Upto
    <3> QED BY <3>1, <3>3
  <2>3. Cardinality(Upto(x)) <= x
    <3>1. IsFiniteSet(1..x) /\ Cardinality(1..x) = x
      BY <2>2, FS_Interval
    <3> HIDE DEF Upto
    <3> QED BY <2>2, <3>1, FS_Subset
  <2> QED BY <2>1, <2>3
<1>13. \A i, j \in 1..n : s[i] = s[j] => i = j
  <2> HIDE DEF f
  <2> QED BY <1>8
<1>14. \A i, j \in 1..n : i < j => s[i] < s[j]
  <2> SUFFICES ASSUME NEW i \in 1..n, NEW j \in 1..n, i < j, ~(s[i] < s[j]) PROVE FALSE
    OBVIOUS
  <2>0. s[i] \in S /\ s[j] \in S
    BY <1>8
  <2>1. s[i] \in Int /\ s[j] \in Int /\ s[i] \in S /\ s[j] \in S /\ s[i] # s[j]
    <3>1. i # j
      BY <1>1
    <3>2. s[i] \in Int /\ s[j] \in Int
      BY <2>0
    <3>3. s[i] # s[j]
      BY <1>13, <3>1
    <3> QED BY <2>0, <3>2, <3>3
  <2>2. s[j] < s[i]
    BY <2>1
  <2>3. Cardinality(Upto(s[j])) < Cardinality(Upto(s[i]))
    BY <1>3, <2>1, <2>2
  <2>4. f[s[j]] = Cardinality(Upto(s[j])) /\ f[s[i]] = Cardinality(Upto(s[i]))
    BY <2>1
  <2> HIDE DEF f, Upto
  <2> QED BY <1>1, <1>8, <2>3, <2>4
<1> QED BY <1>1, <1>9, <1>11, <1>12, <1>13, <1>14 DEF s, n


LEMMA Between ==
  ASSUME NEW a \in Int, NEW b \in Int, NEW c \in Int, a < b, b < c PROVE a # c
OBVIOUS

(* Two sequences of numbers that rise and have the same members are one.     *)
Rising(n, s) == \A i, j \in 1..n : i < j => s[i] < s[j]

LEMMA RisingOnce ==
  ASSUME NEW n \in Nat, NEW s \in [1..n -> Int], NEW r \in [1..n -> Int],
         Rising(n, s), Rising(n, r),
         \A i \in 1..n : \E j \in 1..n : s[i] = r[j],
         \A i \in 1..n : \E j \in 1..n : r[i] = s[j]
  PROVE  s = r
<1> DEFINE Bad == {i \in 1..n : s[i] # r[i]}
<1>1. SUFFICES ASSUME Bad # {} PROVE FALSE
  <2>1. ASSUME \A i \in 1..n : s[i] = r[i] PROVE s = r
    <3>1. s = [i \in 1..n |-> s[i]] /\ r = [i \in 1..n |-> r[i]]
      OBVIOUS
    <3>2. [i \in 1..n |-> s[i]] = [i \in 1..n |-> r[i]]
      BY <2>1, Zenon
    <3> QED BY <3>1, <3>2, Zenon
  <2> QED BY <2>1
<1>2. PICK k \in Bad : \A i \in Bad : k <= i
  <2>1. Bad \in SUBSET Nat
    OBVIOUS
  <2> HIDE DEF Bad
  <2> QED BY <1>1, <2>1, LeastNumber
<1>3. k \in 1..n /\ s[k] # r[k] /\ \A i \in 1..n : i < k => s[i] = r[i]
  <2>1. k \in 1..n /\ s[k] # r[k]
    BY <1>2
  <2>2. ASSUME NEW i \in 1..n, i < k PROVE s[i] = r[i]
    BY <1>2, <2>1, <2>2
  <2> QED BY <2>1, <2>2
<1> HIDE DEF Bad
<1>4. CASE s[k] < r[k]
  <2>1. PICK j \in 1..n : s[k] = r[j]
    BY <1>3
  <2>2. j < k \/ j = k \/ k < j
    BY <1>3
  <2>3. CASE j < k
    <3>1. s[j] = r[j]
      BY <1>3, <2>3
    <3>2. s[j] < s[k] /\ s[k] \in Int /\ s[j] \in Int
      BY <1>3, <2>3 DEF Rising
    <3>3. s[j] = s[k]
      BY <2>1, <3>1
    <3> QED BY <3>2, <3>3
  <2>4. CASE k < j
    <3>1. r[k] < r[j] /\ r[k] \in Int /\ r[j] \in Int
      BY <1>3, <2>4 DEF Rising
    <3>2. s[k] < r[k] /\ s[k] \in Int /\ s[k] = r[j]
      BY <1>3, <1>4, <2>1
    <3>3. s[k] # r[j]
      BY <3>1, <3>2, Between, Zenon
    <3> QED BY <3>2, <3>3
  <2> QED BY <1>3, <2>1, <2>2, <2>3, <2>4
<1>5. CASE r[k] < s[k]
  <2>1. PICK j \in 1..n : r[k] = s[j]
    BY <1>3
  <2>2. j < k \/ j = k \/ k < j
    BY <1>3
  <2>3. CASE j < k
    <3>1. s[j] = r[j]
      BY <1>3, <2>3
    <3>2. r[j] < r[k] /\ r[k] \in Int /\ r[j] \in Int
      BY <1>3, <2>3 DEF Rising
    <3>3. r[j] = r[k]
      BY <2>1, <3>1
    <3> QED BY <3>2, <3>3
  <2>4. CASE k < j
    <3>1. s[k] < s[j] /\ s[k] \in Int /\ s[j] \in Int
      BY <1>3, <2>4 DEF Rising
    <3>2. r[k] < s[k] /\ r[k] \in Int /\ r[k] = s[j]
      BY <1>3, <1>5, <2>1
    <3>3. r[k] # s[j]
      BY <3>1, <3>2, Between, Zenon
    <3> QED BY <3>2, <3>3
  <2> QED BY <1>3, <2>1, <2>2, <2>3, <2>4
<1>6. s[k] \in Int /\ r[k] \in Int
  BY <1>3
<1> QED BY <1>3, <1>4, <1>5, <1>6

(* A sequence that rises is the order of its members.                        *)
LEMMA RisingIsAscending ==
  ASSUME NEW n \in Nat, NEW S \in SUBSET (Nat \ {0}), NEW s \in [1..n -> S], Rising(n, s),
         \A x \in S : \E i \in 1..n : s[i] = x
  PROVE  /\ IsFiniteSet(S) /\ Cardinality(S) = n
         /\ Snippets!Ascending(S) = s
<1>0. \A x \in S : x \in Int /\ x > 0
  OBVIOUS
<1>1. \A i, j \in 1..n : s[i] = s[j] => i = j
  <2> SUFFICES ASSUME NEW i \in 1..n, NEW j \in 1..n, s[i] = s[j], i # j PROVE FALSE
    OBVIOUS
  <2>0. s[i] \in S /\ s[j] \in S
    OBVIOUS
  <2>1. s[i] \in Int /\ s[j] \in Int
    BY <1>0, <2>0
  <2>2. i < j \/ j < i
    OBVIOUS
  <2>3. s[i] < s[j] \/ s[j] < s[i]
    BY <2>2 DEF Rising
  <2> QED BY <2>1, <2>3
<1>2. s \in Bijection(1..n, S)
  BY <1>1 DEF Bijection, Injection, Surjection, IsInjective
<1>3. IsFiniteSet(S) /\ Cardinality(S) = n
  BY <1>2, FS_Interval, FS_Bijection DEF ExistsBijection
<1> DEFINE r == Snippets!Ascending(S)
<1>4. /\ r \in [1..n -> S] /\ Rising(n, r)
      /\ \A x \in S : \E i \in 1..n : r[i] = x
  <2>1. S \in SUBSET Int /\ \A x \in S : x > 0
    OBVIOUS
  <2>2. /\ r \in Seq(S) /\ Len(r) = Cardinality(S) /\ DOMAIN r = 1..Cardinality(S)
        /\ \A x \in S : \E k \in 1..Cardinality(S) : k <= x /\ r[k] = x
        /\ \A i, j \in 1..Cardinality(S) : i < j => r[i] < r[j]
    BY <1>3, <2>1, AscendingIs
  <2> HIDE DEF r
  <2> QED BY <1>3, <2>2 DEF Rising
<1> HIDE DEF r
<1>5. s \in [1..n -> Int] /\ r \in [1..n -> Int]
  <2>1. S \subseteq Int
    BY <1>0
  <2> QED BY <1>4, <2>1
<1>6. /\ \A i \in 1..n : \E j \in 1..n : s[i] = r[j]
      /\ \A i \in 1..n : \E j \in 1..n : r[i] = s[j]
  BY <1>4
<1>7. s = r
  BY <1>4, <1>5, <1>6, RisingOnce
<1> QED BY <1>3, <1>7 DEF r

(* The places of the letters of a text.                                      *)
Text == Seq(STRING)
LetterPlaces(text, i, j) == {k \in i..j : Snippets!IsAlnum(text[k])}

(* A sequence lists a set of places in their order.                          *)
Lists(p, S) ==
  \E n \in Nat : /\ p \in [1..n -> S] /\ Rising(n, p)
                /\ \A x \in S : \E k \in 1..n : p[k] = x

LEMMA PlacesAre ==
  ASSUME NEW text, NEW i \in Nat \ {0}, NEW j \in Nat
  PROVE  Lists(Snippets!Places(text, i, j), LetterPlaces(text, i, j))
<1> DEFINE S == LetterPlaces(text, i, j)
           r == Snippets!Ascending(S)
<1>1. IsFiniteSet(S) /\ S \in SUBSET Int /\ \A x \in S : x > 0
  <2>1. S \subseteq i..j /\ IsFiniteSet(i..j)
    BY FS_Interval DEF LetterPlaces
  <2>2. IsFiniteSet(S)
    BY <2>1, FS_Subset
  <2> HIDE DEF S
  <2> QED BY <2>1, <2>2
<1> HIDE DEF S
<1>2. /\ r \in Seq(S) /\ Len(r) = Cardinality(S) /\ DOMAIN r = 1..Cardinality(S)
      /\ Cardinality(S) \in Nat
      /\ \A x \in S : \E k \in 1..Cardinality(S) : k <= x /\ r[k] = x
      /\ \A k, l \in 1..Cardinality(S) : k < l => r[k] < r[l]
  BY <1>1, AscendingIs
<1>3. Snippets!Places(text, i, j) = r
  BY DEF Snippets!Places, S, LetterPlaces
<1> HIDE DEF r
<1>4. r \in [1..Cardinality(S) -> S] /\ Rising(Cardinality(S), r)
  BY <1>2 DEF Rising
<1>5. Lists(r, S)
  BY <1>2, <1>4 DEF Lists
<1> QED BY <1>3, <1>5 DEF S

Map(text) == Snippets!Places(text, 1, Len(text))

LEMMA CleanedIs ==
  ASSUME NEW text \in Text
  PROVE  \E n \in Nat :
           /\ Map(text) \in [1..n -> LetterPlaces(text, 1, Len(text))] /\ Rising(n, Map(text))
           /\ \A x \in LetterPlaces(text, 1, Len(text)) : \E k \in 1..n : Map(text)[k] = x
           /\ Snippets!Cleaned(text) = [k \in 1..n |-> text[Map(text)[k]]]
           /\ Snippets!Cleaned(text) \in Text /\ Len(Snippets!Cleaned(text)) = n
           /\ DOMAIN Snippets!Cleaned(text) = 1..n
<1>1. Len(text) \in Nat /\ 1 \in Nat \ {0} /\ DOMAIN text = 1..Len(text)
  BY DEF Text
<1>2. PICK n \in Nat :
        /\ Map(text) \in [1..n -> LetterPlaces(text, 1, Len(text))] /\ Rising(n, Map(text))
        /\ \A x \in LetterPlaces(text, 1, Len(text)) : \E k \in 1..n : Map(text)[k] = x
  <2> DEFINE W == LetterPlaces(text, 1, Len(text))
             p == Snippets!Places(text, 1, Len(text))
  <2>1. Lists(p, W)
    BY <1>1, PlacesAre
  <2>2. Map(text) = p
    BY DEF Map
  <2> HIDE DEF W, p
  <2> QED BY <2>1, <2>2 DEF W, Lists
<1>3. Snippets!Cleaned(text) = [k \in 1..n |-> text[Map(text)[k]]]
  <2>1. DOMAIN Map(text) = 1..n
    BY <1>2
  <2> QED BY <2>1, Zenon DEF Snippets!Cleaned, Snippets!Letters, Snippets!At, Map
<1>4. \A k \in 1..n : text[Map(text)[k]] \in STRING
  <2> TAKE k \in 1..n
  <2>1. Map(text)[k] \in 1..Len(text)
    BY <1>2 DEF LetterPlaces
  <2> QED BY <1>1, <2>1 DEF Text
<1>5. [k \in 1..n |-> text[Map(text)[k]]] \in [1..n -> STRING]
  BY <1>4
<1> DEFINE c == [k \in 1..n |-> text[Map(text)[k]]]
<1>6. c \in Seq(STRING) /\ Len(c) = n /\ DOMAIN c = 1..n
  <2> HIDE DEF c
  <2> QED BY <1>5, FunctionIsSeq DEF c
<1> QED BY <1>2, <1>3, <1>6 DEF Text

(* The letters between two of them.                                          *)
LEMMA Window ==
  ASSUME NEW text \in Text, NEW f \in DOMAIN Snippets!Cleaned(text),
         NEW g \in DOMAIN Snippets!Cleaned(text), f <= g
  PROVE  Snippets!Letters(text, Map(text)[f], Map(text)[g]) = SubSeq(Snippets!Cleaned(text), f, g)
<1> DEFINE o == Map(text)
           A == LetterPlaces(text, 1, Len(text))
           W == LetterPlaces(text, o[f], o[g])
           c == Snippets!Cleaned(text)
           m == g - f + 1
           s == [k \in 1..m |-> o[f + k - 1]]
<1>1. PICK n \in Nat :
        /\ o \in [1..n -> A] /\ Rising(n, o) /\ \A x \in A : \E k \in 1..n : o[k] = x
        /\ c = [k \in 1..n |-> text[o[k]]] /\ c \in Text /\ Len(c) = n /\ DOMAIN c = 1..n
  BY CleanedIs
<1>2. /\ Len(text) \in Nat /\ \A x \in A : x \in 1..Len(text) /\ Snippets!IsAlnum(text[x])
      /\ \A x \in 1..Len(text) : Snippets!IsAlnum(text[x]) => x \in A
  BY DEF LetterPlaces, Text
<1> HIDE DEF o, A, c
<1>3. f \in 1..n /\ g \in 1..n /\ m \in Nat /\ \A k \in 1..m : f + k - 1 \in 1..n
  <2>1. f \in 1..n /\ g \in 1..n
    BY <1>1 DEF c
  <2>2. m \in Nat /\ \A k \in 1..m : f + k - 1 \in 1..n
    BY <2>1
  <2> QED BY <2>1, <2>2
<1>4. /\ \A k \in 1..n : o[k] \in 1..Len(text) /\ o[k] \in Int /\ Snippets!IsAlnum(text[o[k]])
      /\ \A k, l \in 1..n : k < l => o[k] < o[l]
  BY <1>1, <1>2 DEF Rising
<1>5. \A k, l \in 1..n : k <= l => o[k] <= o[l]
  BY <1>4
<1>6. \A k, l \in 1..n : o[k] <= o[l] => k <= l
  BY <1>4
<1>7. W = {x \in o[f]..o[g] : Snippets!IsAlnum(text[x])}
  BY DEF LetterPlaces
<1> HIDE DEF W
<1>8. \A k \in f..g : k \in 1..n /\ o[k] \in W
  <2> TAKE k \in f..g
  <2>1. k \in 1..n /\ f <= k /\ k <= g
    BY <1>3
  <2>2. o[f] <= o[k] /\ o[k] <= o[g] /\ o[k] \in Int /\ o[f] \in Int /\ o[g] \in Int
    BY <1>3, <1>4, <1>5, <2>1
  <2> QED BY <1>4, <1>7, <2>1, <2>2
<1>9. \A x \in W : \E k \in f..g : o[k] = x
  <2> TAKE x \in W
  <2>1. x \in Int /\ o[f] <= x /\ x <= o[g] /\ Snippets!IsAlnum(text[x])
    BY <1>7
  <2>2. x \in 1..Len(text)
    BY <1>2, <1>3, <1>4, <2>1
  <2>3. PICK k \in 1..n : o[k] = x
    BY <1>1, <1>2, <2>1, <2>2
  <2>4. f <= k /\ k <= g
    BY <1>3, <1>6, <2>1, <2>3
  <2> QED BY <2>3, <2>4
<1>10. s \in [1..m -> W] /\ Rising(m, s)
  <2>1. \A k \in 1..m : f + k - 1 \in f..g
    BY <1>3
  <2>2. \A k \in 1..m : s[k] = o[f + k - 1] /\ s[k] \in W
    BY <1>8, <2>1
  <2>3. ASSUME NEW k \in 1..m, NEW l \in 1..m, k < l PROVE s[k] < s[l]
    <3>1. f + k - 1 < f + l - 1 /\ f + k - 1 \in 1..n /\ f + l - 1 \in 1..n
      BY <1>3, <2>3
    <3> QED BY <1>4, <2>2, <3>1
  <2>4. s \in [1..m -> W]
    BY <2>2
  <2> HIDE DEF s
  <2> QED BY <2>3, <2>4 DEF Rising
<1>11. \A x \in W : \E k \in 1..m : s[k] = x
  <2> TAKE x \in W
  <2>1. PICK k \in f..g : o[k] = x
    BY <1>9
  <2>2. k - f + 1 \in 1..m /\ f + (k - f + 1) - 1 = k
    BY <1>3, <2>1
  <2>3. s[k - f + 1] = o[f + (k - f + 1) - 1]
    BY <2>2
  <2> QED BY <2>1, <2>2, <2>3
<1>12. W \in SUBSET (Nat \ {0})
  BY <1>3, <1>4, <1>7
<1> HIDE DEF s, m
<1>13. Snippets!Ascending(W) = s
  BY <1>3, <1>10, <1>11, <1>12, RisingIsAscending
<1>14. Snippets!Letters(text, o[f], o[g]) = [k \in DOMAIN s |-> text[s[k]]]
  BY <1>13, Zenon DEF Snippets!Letters, Snippets!Places, Snippets!At, W, LetterPlaces
<1>15. DOMAIN s = 1..m
  BY DEF s
<1>16. \A k \in 1..m : text[s[k]] = c[f + k - 1]
  BY <1>1, <1>3 DEF s
<1>17. Snippets!Letters(text, o[f], o[g]) = [k \in 1..m |-> c[f + k - 1]]
  <2>1. [k \in 1..m |-> text[s[k]]] = [k \in 1..m |-> c[f + k - 1]]
    BY <1>16, Zenon
  <2> QED BY <1>14, <1>15, <2>1, Zenon
<1>18. SubSeq(c, f, g) = [k \in 1..m |-> c[f + k - 1]]
  BY <1>1, <1>3 DEF m, Text
<1> QED BY <1>17, <1>18 DEF o, c

LEMMA StrippedIs ==
  ASSUME NEW text \in Text
  PROVE  /\ Snippets!Stripped(text) \in Text
         /\ Snippets!Cleaned(Snippets!Stripped(text)) = Snippets!Cleaned(text)
<1> DEFINE S == {i \in DOMAIN text : text[i] # "'"}
           q == Snippets!Ascending(S)
           m == Cardinality(S)
           st == Snippets!Stripped(text)
<1>1. Len(text) \in Nat /\ DOMAIN text = 1..Len(text) /\ \A i \in 1..Len(text) : text[i] \in STRING
  BY DEF Text
<1>2. IsFiniteSet(S) /\ S \in SUBSET Int /\ \A x \in S : x > 0
  <2>1. S \subseteq 1..Len(text) /\ IsFiniteSet(1..Len(text))
    BY <1>1, FS_Interval
  <2>2. IsFiniteSet(S)
    BY <2>1, FS_Subset
  <2> HIDE DEF S
  <2> QED BY <1>1, <2>1, <2>2
<1>3. \A x : x \in S <=> x \in 1..Len(text) /\ text[x] # "'"
  BY <1>1
<1>4. st = [r \in DOMAIN q |-> text[q[r]]]
  BY Zenon DEF Snippets!Stripped, Snippets!At
<1> HIDE DEF S
<1>5. /\ q \in Seq(S) /\ Len(q) = m /\ m \in Nat /\ DOMAIN q = 1..m
      /\ \A x \in S : \E r \in 1..m : q[r] = x
      /\ \A i, j \in 1..m : i < j => q[i] < q[j]
  <2>1. /\ q \in Seq(S) /\ Len(q) = m /\ m \in Nat /\ DOMAIN q = 1..m
        /\ \A x \in S : \E r \in 1..m : r <= x /\ q[r] = x
        /\ \A i, j \in 1..m : i < j => q[i] < q[j]
    BY <1>2, AscendingIs
  <2> HIDE DEF q, m
  <2> QED BY <2>1
<1> HIDE DEF q, m, st
<1>6. \A r \in 1..m : q[r] \in S /\ q[r] \in 1..Len(text) /\ q[r] \in Int
  BY <1>3, <1>5
<1>7. st = [r \in 1..m |-> text[q[r]]]
  BY <1>4, <1>5
<1>8. st \in Text /\ Len(st) = m /\ DOMAIN st = 1..m
  <2>1. st \in [1..m -> STRING]
    BY <1>1, <1>6, <1>7
  <2> QED BY <1>5, <2>1, FunctionIsSeq DEF Text
<1> DEFINE A == LetterPlaces(text, 1, Len(text))
           B == LetterPlaces(st, 1, Len(st))
           o == Map(st)
           c == Snippets!Cleaned(st)
<1>9. PICK n \in Nat :
        /\ o \in [1..n -> B] /\ Rising(n, o) /\ \A x \in B : \E k \in 1..n : o[k] = x
        /\ c = [k \in 1..n |-> st[o[k]]]
  BY <1>8, CleanedIs
<1>10. /\ \A x \in A : x \in 1..Len(text) /\ Snippets!IsAlnum(text[x])
       /\ \A x \in 1..Len(text) : Snippets!IsAlnum(text[x]) => x \in A
  BY DEF LetterPlaces
<1>11. /\ \A x \in B : x \in 1..m /\ Snippets!IsAlnum(st[x])
       /\ \A x \in 1..m : Snippets!IsAlnum(st[x]) => x \in B
  BY <1>8 DEF LetterPlaces
<1> HIDE DEF A, B, o, c
<1> DEFINE s == [k \in 1..n |-> q[o[k]]]
<1>12. \A k \in 1..n : o[k] \in B /\ o[k] \in 1..m /\ Snippets!IsAlnum(st[o[k]])
  BY <1>9, <1>11
<1>13. \A k \in 1..n : q[o[k]] \in A
  <2> TAKE k \in 1..n
  <2>1. st[o[k]] = text[q[o[k]]] /\ q[o[k]] \in 1..Len(text)
    BY <1>6, <1>7, <1>12
  <2> QED BY <1>10, <1>12, <2>1
<1>14. s \in [1..n -> A]
  BY <1>13
<1>15. Rising(n, s)
  <2> SUFFICES ASSUME NEW k \in 1..n, NEW l \in 1..n, k < l PROVE q[o[k]] < q[o[l]]
    BY DEF Rising
  <2>1. o[k] < o[l]
    BY <1>9 DEF Rising
  <2> QED BY <1>5, <1>12, <2>1
<1>16. \A x \in A : \E k \in 1..n : s[k] = x
  <2> TAKE x \in A
  <2>1. x \in 1..Len(text) /\ Snippets!IsAlnum(text[x])
    BY <1>10
  <2>2. text[x] # "'"
    BY <2>1 DEF Snippets!IsAlnum
  <2>3. PICK r \in 1..m : q[r] = x
    BY <1>3, <1>5, <2>1, <2>2
  <2>4. r \in B
    BY <1>7, <1>11, <2>1, <2>3
  <2>5. PICK k \in 1..n : o[k] = r
    BY <1>9, <2>4
  <2> QED BY <2>3, <2>5
<1>17. A \in SUBSET (Nat \ {0})
  BY <1>1, <1>10
<1> HIDE DEF s
<1>18. Snippets!Ascending(A) = s
  BY <1>14, <1>15, <1>16, <1>17, RisingIsAscending
<1>19. Snippets!Cleaned(text) = [k \in DOMAIN s |-> text[s[k]]]
  BY <1>18, Zenon DEF Snippets!Cleaned, Snippets!Letters, Snippets!Places, Snippets!At, A, LetterPlaces
<1>20. DOMAIN s = 1..n
  BY DEF s
<1>21. \A k \in 1..n : text[s[k]] = st[o[k]]
  BY <1>7, <1>12 DEF s
<1>22. Snippets!Cleaned(text) = c
  <2>1. [k \in 1..n |-> text[s[k]]] = [k \in 1..n |-> st[o[k]]]
    BY <1>21, Zenon
  <2> QED BY <1>9, <1>19, <1>20, <2>1, Zenon
<1> QED BY <1>8, <1>22 DEF c, st

(* Where a text has the letters of a part.                                   *)
Starts(text, part) ==
  {f \in 1 .. Len(Snippets!Cleaned(text)) - Len(Snippets!Cleaned(part)) + 1 :
     SubSeq(Snippets!Cleaned(text), f, f + Len(Snippets!Cleaned(part)) - 1) = Snippets!Cleaned(part)}

LEMMA OccursWhere ==
  ASSUME NEW text \in Text, NEW part \in Text
  PROVE  Snippets!Occurs(text, part) <=> Len(Snippets!Cleaned(part)) # 0 /\ Starts(text, part) # {}
<1> DEFINE o == Map(text)
           A == LetterPlaces(text, 1, Len(text))
           c == Snippets!Cleaned(text)
           needle == Snippets!Cleaned(part)
           n == Len(needle)
<1>1. needle \in Text /\ n \in Nat /\ (needle # << >> <=> n # 0)
  <2>1. needle \in Text
    BY CleanedIs
  <2> HIDE DEF needle
  <2> QED BY <2>1 DEF Text
<1>2. PICK size \in Nat :
        /\ o \in [1..size -> A] /\ Rising(size, o) /\ \A x \in A : \E k \in 1..size : o[k] = x
        /\ c = [k \in 1..size |-> text[o[k]]] /\ c \in Text /\ Len(c) = size /\ DOMAIN c = 1..size
  BY CleanedIs
<1>3. /\ Len(text) \in Nat /\ DOMAIN text = 1..Len(text)
      /\ \A x \in A : x \in 1..Len(text) /\ Snippets!IsAlnum(text[x])
      /\ \A x \in 1..Len(text) : Snippets!IsAlnum(text[x]) => x \in A
  BY DEF LetterPlaces, Text
<1>4. Snippets!Occurs(text, part)
        <=> n # 0 /\ \E i, j \in DOMAIN text : Snippets!Letters(text, i, j) = needle
  BY <1>1 DEF Snippets!Occurs
<1>5. \A f : f \in Starts(text, part) <=> f \in 1 .. size - n + 1 /\ SubSeq(c, f, f + n - 1) = needle
  BY <1>2 DEF Starts
<1>6. \A f, g \in 1..size : f <= g => Snippets!Letters(text, o[f], o[g]) = SubSeq(c, f, g)
  BY <1>2, Window
<1> HIDE DEF o, A, c, needle, n
<1>7. \A k \in 1..size : o[k] \in 1..Len(text) /\ o[k] \in Int
  BY <1>2, <1>3
<1>8. ASSUME n # 0, NEW f \in Starts(text, part)
      PROVE  \E i, j \in DOMAIN text : Snippets!Letters(text, i, j) = needle
  <2>1. f \in 1..size /\ f + n - 1 \in 1..size /\ f <= f + n - 1
    BY <1>1, <1>2, <1>5, <1>8
  <2>2. Snippets!Letters(text, o[f], o[f + n - 1]) = needle
    BY <1>5, <1>6, <2>1
  <2> QED BY <1>3, <1>7, <2>1, <2>2
<1>9. ASSUME n # 0, NEW i \in DOMAIN text, NEW j \in DOMAIN text, Snippets!Letters(text, i, j) = needle
      PROVE  Starts(text, part) # {}
  <2> DEFINE W == LetterPlaces(text, i, j)
             p == Snippets!Places(text, i, j)
  <2>1. i \in Nat \ {0} /\ j \in Nat /\ i \in 1..Len(text) /\ j \in 1..Len(text)
    BY <1>3
  <2>2. PICK v \in Nat :
          /\ p \in [1..v -> W] /\ Rising(v, p)
          /\ \A x \in W : \E k \in 1..v : p[k] = x
    <3>1. Lists(p, W)
      BY <2>1, PlacesAre
    <3> HIDE DEF p, W
    <3> QED BY <3>1 DEF Lists
  <2>3. needle = [k \in DOMAIN p |-> text[p[k]]]
    BY <1>9, Zenon DEF Snippets!Letters, Snippets!At
  <2>4. \A x : x \in W <=> x \in i..j /\ Snippets!IsAlnum(text[x])
    BY DEF LetterPlaces
  <2> HIDE DEF p, W
  <2>5. DOMAIN p = 1..v /\ DOMAIN needle = 1..v /\ v = n /\ n > 0
    <3>1. DOMAIN p = 1..v
      BY <2>2
    <3>2. DOMAIN needle = 1..v
      BY <2>3, <3>1
    <3>3. DOMAIN needle = 1..n
      BY <1>1 DEF Text, n
    <3> QED BY <1>1, <1>9, <2>2, <3>1, <3>2, <3>3
  <2>6. p[1] \in W /\ p[n] \in W /\ \A x \in W : x \in Int /\ p[1] <= x /\ x <= p[n]
    <3>1. 1 \in 1..v /\ n \in 1..v
      BY <1>1, <2>5
    <3>2. p[1] \in W /\ p[n] \in W /\ \A x \in W : x \in Int
      BY <2>2, <2>4, <3>1
    <3>3. ASSUME NEW x \in W PROVE p[1] <= x /\ x <= p[n]
      <4>1. PICK k \in 1..v : p[k] = x
        BY <2>2
      <4>2. (k = 1 \/ 1 < k) /\ (k = n \/ k < n)
        BY <1>1, <2>5
      <4>3. (k = 1 \/ p[1] < p[k]) /\ (k = n \/ p[k] < p[n])
        BY <2>2, <3>1, <4>2 DEF Rising
      <4> QED BY <3>2, <4>1, <4>3
    <3> QED BY <3>2, <3>3
  <2>7. p[1] \in A /\ p[n] \in A
    <3>1. p[1] \in 1..Len(text) /\ p[n] \in 1..Len(text)
      BY <1>3, <2>1, <2>4, <2>6
    <3> QED BY <1>3, <2>4, <2>6, <3>1
  <2>8. PICK f \in 1..size : o[f] = p[1]
    BY <1>2, <2>7
  <2>9. PICK g \in 1..size : o[g] = p[n]
    BY <1>2, <2>7
  <2>10. f <= g
    <3>1. SUFFICES ASSUME g < f PROVE FALSE
      OBVIOUS
    <3>2. o[g] < o[f]
      BY <1>2, <3>1 DEF Rising
    <3> QED BY <1>7, <2>6, <2>8, <2>9, <3>2
  <2>11. LetterPlaces(text, p[1], p[n]) = W
    <3>1. ASSUME NEW x \in W PROVE x \in p[1]..p[n] /\ Snippets!IsAlnum(text[x])
      <4>1. x \in Int /\ p[1] \in Int /\ p[n] \in Int
        BY <2>6
      <4> QED BY <2>4, <2>6, <4>1
    <3>2. ASSUME NEW x \in p[1]..p[n], Snippets!IsAlnum(text[x]) PROVE x \in W
      <4>1. p[1] \in Int /\ p[n] \in Int /\ x \in Int /\ i <= p[1] /\ p[n] <= j /\ i \in Int /\ j \in Int
        BY <2>1, <2>4, <2>6
      <4>2. p[1] <= x /\ x <= p[n]
        BY <4>1
      <4>3. x \in i..j
        BY <4>1, <4>2
      <4> QED BY <2>4, <3>2, <4>3
    <3> QED BY <3>1, <3>2 DEF LetterPlaces
  <2>12. Snippets!Letters(text, p[1], p[n]) = Snippets!Letters(text, i, j)
    <3>1. Snippets!Places(text, p[1], p[n]) = Snippets!Places(text, i, j)
      BY <2>11, Zenon DEF W, LetterPlaces, Snippets!Places
    <3> QED BY <3>1, Zenon DEF Snippets!Letters
  <2>13. SubSeq(c, f, g) = needle
    BY <1>6, <1>9, <2>8, <2>9, <2>10, <2>12
  <2>14. Len(SubSeq(c, f, g)) = g - f + 1
    BY <1>2, <2>10 DEF Text
  <2>15. n = g - f + 1
    BY <2>13, <2>14 DEF n
  <2>16. g = f + n - 1 /\ f \in 1..size - n + 1
    BY <1>2, <2>15
  <2> QED BY <1>5, <2>13, <2>16
<1> QED BY <1>4, <1>8, <1>9 DEF n, needle

(* The place of a part that starts at a letter of a text.                    *)
PlaceAt(text, part, f) ==
  [start |-> Map(Snippets!Stripped(text))[f] - 1,
   end   |-> Map(Snippets!Stripped(text))[f + Len(Snippets!Cleaned(part)) - 1]]

LEMMA StartsAre ==
  ASSUME NEW text \in Text, NEW part \in Text, Len(Snippets!Cleaned(part)) # 0,
         NEW f \in Starts(text, part)
  PROVE  /\ Len(Snippets!Cleaned(part)) \in Nat /\ f \in Nat \ {0} /\ f + Len(Snippets!Cleaned(part)) - 1 \in Nat
         /\ f \in DOMAIN Snippets!Cleaned(text) /\ f + Len(Snippets!Cleaned(part)) - 1 \in DOMAIN Snippets!Cleaned(text)
         /\ f <= f + Len(Snippets!Cleaned(part)) - 1
         /\ SubSeq(Snippets!Cleaned(text), f, f + Len(Snippets!Cleaned(part)) - 1) = Snippets!Cleaned(part)
<1> DEFINE n == Len(Snippets!Cleaned(part))
           c == Snippets!Cleaned(text)
<1>1. c \in Text /\ Snippets!Cleaned(part) \in Text
  BY CleanedIs
<1>2. n \in Nat /\ n > 0 /\ Len(c) \in Nat /\ DOMAIN c = 1..Len(c)
  <2> HIDE DEF c
  <2>1. n \in Nat
    BY <1>1 DEF Text
  <2> QED BY <1>1, <2>1 DEF Text
<1>3. f \in 1 .. Len(c) - n + 1 /\ SubSeq(c, f, f + n - 1) = Snippets!Cleaned(part)
  BY DEF Starts
<1> HIDE DEF n, c
<1>4. /\ f \in Nat \ {0} /\ f + n - 1 \in Nat /\ f \in 1..Len(c) /\ f + n - 1 \in 1..Len(c)
      /\ f <= f + n - 1
  BY <1>2, <1>3
<1> QED BY <1>2, <1>3, <1>4 DEF n, c

(* Where a part stands in the text without diacritics.                       *)
LEMMA PlaceIs ==
  ASSUME NEW text \in Text, NEW part \in Text, Len(Snippets!Cleaned(part)) # 0,
         NEW f \in Starts(text, part)
  PROVE  /\ PlaceAt(text, part, f).start \in Nat /\ PlaceAt(text, part, f).end \in Nat
         /\ PlaceAt(text, part, f).start < PlaceAt(text, part, f).end
         /\ Snippets!Stripped(text) = text =>
              /\ Snippets!Letters(text, PlaceAt(text, part, f).start + 1, PlaceAt(text, part, f).end)
                   = Snippets!Cleaned(part)
              /\ Snippets!IsAlnum(text[PlaceAt(text, part, f).start + 1])
              /\ Snippets!IsAlnum(text[PlaceAt(text, part, f).end])
<1> DEFINE n == Len(Snippets!Cleaned(part))
           c == Snippets!Cleaned(text)
           st == Snippets!Stripped(text)
           o == Map(st)
           A == LetterPlaces(st, 1, Len(st))
           g == f + n - 1
<1>1. st \in Text /\ Snippets!Cleaned(st) = c
  BY StrippedIs
<1>2. /\ n \in Nat /\ f \in DOMAIN c /\ g \in DOMAIN c /\ f <= g
      /\ f \in Nat /\ g \in Nat /\ SubSeq(c, f, g) = Snippets!Cleaned(part)
  BY StartsAre
<1> HIDE DEF n, c, g, st
<1>3. PICK size \in Nat : o \in [1..size -> A] /\ Rising(size, o) /\ DOMAIN Snippets!Cleaned(st) = 1..size
  BY <1>1, CleanedIs
<1>4. \A x \in A : x \in 1..Len(st) /\ Snippets!IsAlnum(st[x])
  BY DEF LetterPlaces
<1>5. Len(st) \in Nat
  BY <1>1 DEF Text
<1>6. Snippets!Letters(st, o[f], o[g]) = SubSeq(c, f, g)
  BY <1>1, <1>2, Window
<1> HIDE DEF o, A
<1>7. o[f] \in A /\ o[g] \in A /\ (f = g \/ o[f] < o[g])
  BY <1>1, <1>2, <1>3 DEF Rising
<1>8. o[f] \in 1..Len(st) /\ o[g] \in 1..Len(st) /\ o[f] <= o[g]
  BY <1>4, <1>5, <1>7
<1>9. PlaceAt(text, part, f).start = o[f] - 1 /\ PlaceAt(text, part, f).end = o[g]
  BY DEF PlaceAt, o, g, n, st
<1>10. (o[f] - 1) + 1 = o[f] /\ o[f] - 1 \in Nat /\ o[g] \in Nat /\ o[f] - 1 < o[g]
  BY <1>5, <1>8
<1>11. st = text => /\ Snippets!Letters(text, o[f], o[g]) = Snippets!Cleaned(part)
                    /\ Snippets!IsAlnum(text[o[f]]) /\ Snippets!IsAlnum(text[o[g]])
  BY <1>2, <1>4, <1>6, <1>7
<1> QED BY <1>9, <1>10, <1>11 DEF st

(* What the search of a part in a text returns.                              *)
LEMMA FindIs ==
  ASSUME NEW text \in Text, NEW part \in Text
  PROVE  \E size \in Nat :
           /\ DOMAIN Snippets!FuzzyFindSnippetText(text, part) = 1..size
           /\ size = 0 => ~ Snippets!Occurs(text, part)
           /\ size # 0 => Len(Snippets!Cleaned(part)) # 0 /\ Snippets!Occurs(text, part)
           /\ \A k \in 1..size : \E f \in Starts(text, part) :
                 Snippets!FuzzyFindSnippetText(text, part)[k] = PlaceAt(text, part, f)
<1> DEFINE needle == Snippets!Cleaned(part)
           n == Len(needle)
           c == Snippets!Cleaned(text)
           o == Map(Snippets!Stripped(text))
           S == Starts(text, part)
           at == Snippets!Ascending(S)
           r == Snippets!FuzzyFindSnippetText(text, part)
<1>1. needle \in Text /\ n \in Nat /\ c \in Text /\ Len(c) \in Nat
  <2>1. needle \in Text /\ c \in Text
    BY CleanedIs
  <2> HIDE DEF needle, c
  <2> QED BY <2>1 DEF Text
<1>2. Snippets!Occurs(text, part) <=> n # 0 /\ S # {}
  BY OccursWhere
<1>3. Snippets!Cleaned(Snippets!Stripped(text)) = c /\ Snippets!IndexMap(text) = o
  BY StrippedIs DEF Snippets!IndexMap, Map
<1>4. r = IF n = 0 THEN << >>
          ELSE [k \in DOMAIN at |-> [start |-> o[at[k]] - 1, end |-> o[at[k] + n - 1]]]
  <2>1. r = LET ats == Snippets!Ascending({f \in 1 .. Len(Snippets!Cleaned(Snippets!Stripped(text))) - n + 1 :
                   SubSeq(Snippets!Cleaned(Snippets!Stripped(text)), f, f + n - 1) = needle})
            IN  IF n = 0 THEN << >>
                ELSE [k \in DOMAIN ats |-> [start |-> Snippets!IndexMap(text)[ats[k]] - 1,
                                            end |-> Snippets!IndexMap(text)[ats[k] + n - 1]]]
    BY Zenon DEF Snippets!FuzzyFindSnippetText
  <2>2. S = {f \in 1 .. Len(c) - n + 1 : SubSeq(c, f, f + n - 1) = needle}
    BY Zenon DEF Starts
  <2> HIDE DEF r, S, c, o, n, needle
  <2> QED BY <1>3, <2>1, <2>2, Zenon
<1>5. CASE n = 0
  <2>1. r = << >>
    BY <1>4, <1>5
  <2> HIDE DEF r, S, n
  <2>2. DOMAIN r = 1..0 /\ 0 \in Nat
    BY <2>1
  <2>3. \A k \in 1..0 : FALSE
    OBVIOUS
  <2> QED BY <1>2, <1>5, <2>2, <2>3 DEF r, S
<1>6. CASE n # 0
  <2>1. IsFiniteSet(S) /\ S \in SUBSET Int /\ \A x \in S : x > 0
    <3> DEFINE top == Len(c) - n + 1
    <3>1. S \subseteq 1..top
      BY DEF Starts
    <3>2. top \in Int
      BY <1>1
    <3> HIDE DEF S, c, n, top
    <3>3. IsFiniteSet(1..top)
      BY <3>2, FS_Interval
    <3>4. IsFiniteSet(S)
      BY <3>1, <3>3, FS_Subset
    <3>5. \A x \in S : x \in Int /\ x > 0
      BY <3>1, <3>2
    <3> QED BY <3>4, <3>5
  <2> HIDE DEF S, n, o, r
  <2>2. /\ at \in Seq(S) /\ Cardinality(S) \in Nat /\ DOMAIN at = 1..Cardinality(S)
        /\ \A x \in S : \E k \in 1..Cardinality(S) : k <= x /\ at[k] = x
        /\ Len(at) = Cardinality(S)
    BY <2>1, AscendingIs
  <2> HIDE DEF at
  <2>3. DOMAIN r = 1..Cardinality(S)
    BY <1>4, <1>6, <2>2
  <2>4. \A k \in 1..Cardinality(S) : at[k] \in S
    BY <2>2
  <2>5. \A k \in 1..Cardinality(S) : r[k] = [start |-> o[at[k]] - 1, end |-> o[at[k] + n - 1]]
    BY <1>4, <1>6, <2>2
  <2>6. \A k \in 1..Cardinality(S) : r[k] = PlaceAt(text, part, at[k])
    BY <2>5, Zenon DEF PlaceAt, o, n
  <2>7. Cardinality(S) = 0 <=> S = {}
    BY <2>1, FS_EmptySet
  <2>8. /\ Cardinality(S) = 0 => ~ Snippets!Occurs(text, part)
        /\ Cardinality(S) # 0 => n # 0 /\ Snippets!Occurs(text, part)
    BY <1>2, <1>6, <2>7
  <2>9. \A k \in 1..Cardinality(S) : \E f \in S : r[k] = PlaceAt(text, part, f)
    BY <2>4, <2>6
  <2> QED BY <2>2, <2>3, <2>8, <2>9 DEF S, n, r
<1> QED BY <1>5, <1>6

Source   == [text : Text, offset : Nat \cup {Snippets!None}]
Readings == w1 \in Seq(Source)

LEMMA SourceIs ==
  ASSUME Readings, NEW i \in 1..Len(w1)
  PROVE  /\ w1[i] \in Source /\ w1[i].text \in Text
         /\ w1[i].offset \in Nat \cup {Snippets!None}
<1>1. w1[i] \in Source
  BY DEF Readings
<1> QED BY <1>1 DEF Source

(* The places of a part in the text i, and in all texts.                     *)
PlacesOf(i, part) ==
  {Snippets!Placed(i, PlaceAt(w1[i].text, part, f)) :
     f \in {g \in Starts(w1[i].text, part) : Len(Snippets!Cleaned(part)) # 0}}
MatchesOf(part) == UNION {PlacesOf(i, part) : i \in 1..Len(w1)}

LEMMA MatchIs ==
  ASSUME Readings, NEW part \in Text, NEW m \in MatchesOf(part)
  PROVE  /\ m.start \in Nat /\ (m.end = Snippets!Infinity \/ (m.end \in Nat /\ m.start < m.end))
         /\ m.at.start \in Nat /\ m.at.end \in Nat /\ m.at.start < m.at.end
         /\ m.source \in 1..Len(w1)
         /\ Snippets!Stripped(w1[m.source].text) = w1[m.source].text =>
              /\ Snippets!Letters(w1[m.source].text, m.at.start + 1, m.at.end) = Snippets!Cleaned(part)
              /\ Snippets!IsAlnum(w1[m.source].text[m.at.start + 1])
              /\ Snippets!IsAlnum(w1[m.source].text[m.at.end])
<1>1. PICK i \in 1..Len(w1) : m \in PlacesOf(i, part)
  BY DEF MatchesOf
<1> DEFINE text == w1[i].text
<1>2. PICK f \in Starts(text, part) :
        /\ Len(Snippets!Cleaned(part)) # 0
        /\ m = Snippets!Placed(i, PlaceAt(text, part, f))
  BY <1>1 DEF PlacesOf
<1>3. text \in Text /\ w1[i].offset \in Nat \cup {Snippets!None}
  BY SourceIs
<1> DEFINE at == PlaceAt(text, part, f)
<1>4. /\ at.start \in Nat /\ at.end \in Nat /\ at.start < at.end
      /\ Snippets!Stripped(text) = text =>
              /\ Snippets!Letters(text, at.start + 1, at.end) = Snippets!Cleaned(part)
              /\ Snippets!IsAlnum(text[at.start + 1])
              /\ Snippets!IsAlnum(text[at.end])
  BY <1>2, <1>3, PlaceIs
<1> HIDE DEF at
<1>5. m = IF w1[i].offset = Snippets!None
          THEN [source |-> i, at |-> at, start |-> 0, end |-> Snippets!Infinity]
          ELSE [source |-> i, at |-> at, start |-> w1[i].offset + at.start,
                end |-> w1[i].offset + at.end]
  BY <1>2 DEF Snippets!Placed, at
<1>6. m.source = i /\ m.at = at
  BY <1>5
<1>7. m.start \in Nat /\ (m.end = Snippets!Infinity \/ (m.end \in Nat /\ m.start < m.end))
  <2>1. CASE w1[i].offset = Snippets!None
    <3>1. m.start = 0 /\ m.end = Snippets!Infinity
      BY <1>5, <2>1
    <3> QED BY <3>1
  <2>2. CASE w1[i].offset # Snippets!None
    <3>1. m.start = w1[i].offset + at.start /\ m.end = w1[i].offset + at.end
      BY <1>5, <2>2
    <3>2. w1[i].offset \in Nat
      BY <1>3, <2>2
    <3> QED BY <1>4, <3>1, <3>2
  <2> QED BY <2>1, <2>2
<1> QED BY <1>4, <1>6, <1>7

LEMMA MatchesInAre ==
  ASSUME Readings, NEW part \in Text, NEW i \in 1..Len(w1)
  PROVE  /\ Snippets!MatchesIn(i, part) \in Seq(MatchesOf(part))
         /\ Snippets!MatchesIn(i, part) = << >> <=> ~ Snippets!Occurs(w1[i].text, part)
<1> DEFINE text == w1[i].text
           r == Snippets!FuzzyFindSnippetText(text, part)
           s == Snippets!MatchesIn(i, part)
<1>1. text \in Text
  BY SourceIs
<1>2. PICK size \in Nat :
           /\ DOMAIN r = 1..size
           /\ size = 0 => ~ Snippets!Occurs(text, part)
           /\ size # 0 => Len(Snippets!Cleaned(part)) # 0 /\ Snippets!Occurs(text, part)
           /\ \A k \in 1..size : \E f \in Starts(text, part) : r[k] = PlaceAt(text, part, f)
  BY <1>1, FindIs
<1>3. s = [k \in DOMAIN r |-> Snippets!Placed(i, r[k])]
  BY Zenon DEF Snippets!MatchesIn
<1> HIDE DEF r, s
<1>4. DOMAIN s = 1..size /\ s = [k \in 1..size |-> Snippets!Placed(i, r[k])]
  BY <1>2, <1>3
<1>5. \A k \in 1..size : Snippets!Placed(i, r[k]) \in MatchesOf(part)
  <2> TAKE k \in 1..size
  <2>1. PICK f \in Starts(text, part) : r[k] = PlaceAt(text, part, f)
    BY <1>2
  <2>2. Len(Snippets!Cleaned(part)) # 0
    <3>1. size # 0
      BY <1>2
    <3> QED BY <1>2, <3>1
  <2>3. f \in {g \in Starts(text, part) : Len(Snippets!Cleaned(part)) # 0}
    BY <2>2
  <2>4. Snippets!Placed(i, r[k]) \in PlacesOf(i, part)
    BY <2>1, <2>3 DEF PlacesOf
  <2> QED BY <2>4 DEF MatchesOf
<1>6. s \in [1..size -> MatchesOf(part)]
  BY <1>4, <1>5
<1>7. s \in Seq(MatchesOf(part)) /\ Len(s) = size
  BY <1>6, FunctionIsSeq
<1>8. s = << >> <=> size = 0
  BY <1>7
<1> QED BY <1>2, <1>7, <1>8 DEF s

(* Sequences put one after another.                                          *)
Runs(n, M, f) == f[0] = << >> /\ \A i \in 1..n : f[i] = f[i - 1] \o M[i]

LEMMA RunsExist ==
  ASSUME NEW X, NEW N \in Nat, NEW M \in [1..N -> Seq(X)]
  PROVE  \E f \in [0..N -> Seq(X)] : Runs(N, M, f)
<1> DEFINE T == {n \in 0..N : \E f \in [0..n -> Seq(X)] : Runs(n, M, f)}
<1>1. 0 \in T
  <2> DEFINE f == [i \in 0..0 |-> << >>]
  <2>1. f \in [0..0 -> Seq(X)] /\ f[0] = << >> /\ 0 \in 0..N
    OBVIOUS
  <2> HIDE DEF f
  <2>2. \A i \in 1..0 : f[i] = f[i - 1] \o M[i]
    OBVIOUS
  <2> QED BY <2>1, <2>2 DEF Runs
<1>2. ASSUME NEW n \in 0..N, n < N, n \in T PROVE n + 1 \in T
  <2>1. PICK f \in [0..n -> Seq(X)] : Runs(n, M, f)
    BY <1>2
  <2>2. n \in Nat /\ n \in 0..n /\ n + 1 \in 1..N /\ n + 1 \in 0..N
    BY <1>2
  <2>3. f[n] \in Seq(X) /\ M[n + 1] \in Seq(X)
    BY <2>2
  <2>4. f[n] \o M[n + 1] \in Seq(X)
    BY <2>3
  <2> DEFINE g == [i \in 0..n + 1 |-> IF i <= n THEN f[i] ELSE f[n] \o M[n + 1]]
  <2>5. g \in [0..n + 1 -> Seq(X)]
    <3>1. \A i \in 0..n + 1 : i <= n => i \in 0..n
      BY <2>2
    <3> QED BY <2>4, <3>1
  <2>6. /\ \A i \in 0..n : g[i] = f[i]
        /\ g[n + 1] = f[n] \o M[n + 1]
    BY <2>2
  <2> HIDE DEF g
  <2>7. g[0] = << >>
    BY <2>1, <2>2, <2>6 DEF Runs
  <2>8. ASSUME NEW i \in 1..n + 1 PROVE g[i] = g[i - 1] \o M[i]
    <3>1. CASE i = n + 1
      <4>1. i - 1 = n
        BY <2>2, <3>1
      <4> QED BY <2>2, <2>6, <3>1, <4>1
    <3>2. CASE i # n + 1
      <4>1. i \in 1..n /\ i \in 0..n /\ i - 1 \in 0..n
        BY <2>2, <3>2
      <4>2. f[i] = f[i - 1] \o M[i]
        BY <2>1, <4>1 DEF Runs
      <4> QED BY <2>6, <4>1, <4>2
    <3> QED BY <3>1, <3>2
  <2>9. Runs(n + 1, M, g)
    BY <2>7, <2>8 DEF Runs
  <2> QED BY <2>2, <2>5, <2>9
<1>3. N \in T
  <2> HIDE DEF T
  <2>1. \A n \in 0..N : n < N /\ n \in T => n + 1 \in T
    BY <1>2
  <2>2. \A n \in 0..N : n \in T
    BY <1>1, <2>1, UpToAll
  <2>3. N \in 0..N
    OBVIOUS
  <2> QED BY <2>2, <2>3
<1> QED BY <1>3

LEMMA EmptyAppended ==
  ASSUME NEW X, NEW s \in Seq(X), NEW t \in Seq(X)
  PROVE  s \o t \in Seq(X) /\ (s \o t = << >> <=> s = << >> /\ t = << >>)
<1>1. s \o t \in Seq(X) /\ Len(s \o t) = Len(s) + Len(t) /\ Len(s) \in Nat /\ Len(t) \in Nat
  OBVIOUS
<1>2. \A u \in Seq(X) : u = << >> <=> Len(u) = 0
  OBVIOUS
<1> QED BY <1>1, <1>2

LEMMA RunsAre ==
  ASSUME NEW X, NEW N \in Nat, NEW M \in [1..N -> Seq(X)], NEW f, Runs(N, M, f)
  PROVE  f[N] \in Seq(X) /\ (f[N] = << >> <=> \A i \in 1..N : M[i] = << >>)
<1> DEFINE T == {n \in 0..N : f[n] \in Seq(X) /\ (f[n] = << >> <=> \A i \in 1..n : M[i] = << >>)}
<1>1. 0 \in T
  <2>1. f[0] = << >> /\ << >> \in Seq(X) /\ 0 \in 0..N
    BY DEF Runs
  <2>2. \A i \in 1..0 : M[i] = << >>
    OBVIOUS
  <2> QED BY <2>1, <2>2
<1>2. ASSUME NEW n \in 0..N, n < N, n \in T PROVE n + 1 \in T
  <2>1. n \in Nat /\ n + 1 \in 1..N /\ n + 1 \in 0..N /\ (n + 1) - 1 = n
    BY <1>2
  <2>2. f[n + 1] = f[n] \o M[n + 1] /\ M[n + 1] \in Seq(X) /\ f[n] \in Seq(X)
    BY <1>2, <2>1 DEF Runs
  <2>3. f[n + 1] \in Seq(X) /\ (f[n + 1] = << >> <=> f[n] = << >> /\ M[n + 1] = << >>)
    BY <2>2, EmptyAppended
  <2>4. \A i : i \in 1..n + 1 <=> i \in 1..n \/ i = n + 1
    BY <2>1
  <2> QED BY <1>2, <2>1, <2>3, <2>4
<1>3. N \in T
  <2> HIDE DEF T
  <2>1. \A n \in 0..N : n < N /\ n \in T => n + 1 \in T
    BY <1>2
  <2>2. \A n \in 0..N : n \in T
    BY <1>1, <2>1, UpToAll
  <2>3. N \in 0..N
    OBVIOUS
  <2> QED BY <2>2, <2>3
<1> QED BY <1>3

LEMMA PartMatchesAre ==
  ASSUME Readings, NEW part \in Text
  PROVE  /\ Snippets!PartMatches(part) \in Seq(MatchesOf(part))
         /\ Snippets!PartMatches(part) = << >>
              <=> \A i \in 1..Len(w1) : ~ Snippets!Occurs(w1[i].text, part)
<1> DEFINE N == Len(w1)
           X == MatchesOf(part)
           M == [i \in 1..N |-> Snippets!MatchesIn(i, part)]
           Of(f) == [i \in 0..N |-> IF i = 0 THEN << >> ELSE f[i - 1] \o Snippets!MatchesIn(i, part)]
           run == CHOOSE f : f = Of(f)
<1>1. N \in Nat
  BY DEF Readings
<1>2. \A i \in 1..N : /\ Snippets!MatchesIn(i, part) \in Seq(X)
                      /\ Snippets!MatchesIn(i, part) = << >> <=> ~ Snippets!Occurs(w1[i].text, part)
  <2> HIDE DEF X
  <2> QED BY MatchesInAre DEF X
<1>3. Snippets!PartMatches(part) = run[N]
  BY DEF Snippets!PartMatches
<1> HIDE DEF N, X
<1>4. M \in [1..N -> Seq(X)] /\ \A i \in 1..N : M[i] = Snippets!MatchesIn(i, part)
  BY <1>2
<1> HIDE DEF M
<1>5. \E f : f = Of(f)
  <2>1. PICK f \in [0..N -> Seq(X)] : Runs(N, M, f)
    BY <1>1, <1>4, RunsExist
  <2>2. \A i \in 0..N : f[i] = IF i = 0 THEN << >> ELSE f[i - 1] \o Snippets!MatchesIn(i, part)
    <3> TAKE i \in 0..N
    <3>1. i = 0 \/ i \in 1..N
      BY <1>1
    <3> QED BY <1>4, <2>1, <3>1 DEF Runs
  <2>3. f = [i \in 0..N |-> f[i]]
    OBVIOUS
  <2>4. [i \in 0..N |-> f[i]] = Of(f)
    BY <2>2, Zenon
  <2> QED BY <2>3, <2>4, Zenon
<1>6. run = Of(run)
  <2> HIDE DEF Of
  <2> QED BY <1>5, Zenon
<1> HIDE DEF run
<1>7. Runs(N, M, run)
  <2>1. run[0] = << >>
    BY <1>1, <1>6
  <2>2. ASSUME NEW i \in 1..N PROVE run[i] = run[i - 1] \o M[i]
    <3>1. i \in 0..N /\ i # 0
      BY <1>1
    <3>2. Of(run)[i] = run[i - 1] \o Snippets!MatchesIn(i, part)
      BY <3>1
    <3>3. run[i] = Of(run)[i]
      BY <1>6, Zenon
    <3> QED BY <1>4, <3>2, <3>3
  <2> QED BY <2>1, <2>2 DEF Runs
<1>8. run[N] \in Seq(X) /\ (run[N] = << >> <=> \A i \in 1..N : M[i] = << >>)
  <2> HIDE DEF Of
  <2> QED BY <1>1, <1>4, <1>7, RunsAre
<1> HIDE DEF Of
<1> QED BY <1>2, <1>3, <1>4, <1>8 DEF N, X

LEMMA LeastIs ==
  ASSUME NEW S \in SUBSET Nat, S # {}
  PROVE  Snippets!Least(S) \in S /\ \A y \in S : Snippets!Least(S) <= y
<1>1. \E q \in S : \A r \in S : q <= r
  BY LeastNumber
<1> QED BY <1>1, Zenon DEF Snippets!Least

LEMMA GreatestIs ==
  ASSUME NEW S \in SUBSET (Nat \ {0}), IsFiniteSet(S), S # {}
  PROVE  Snippets!Greatest(S) \in S /\ \A y \in S : y <= Snippets!Greatest(S)
<1> DEFINE n == Cardinality(S)
           s == Snippets!Ascending(S)
<1>1. S \in SUBSET Int /\ \A x \in S : x > 0 /\ x \in Int
  OBVIOUS
<1>2. /\ s \in Seq(S) /\ n \in Nat /\ DOMAIN s = 1..n
      /\ \A x \in S : \E r \in 1..n : r <= x /\ s[r] = x
      /\ \A i, j \in 1..n : i < j => s[i] < s[j]
  BY <1>1, AscendingIs
<1>3. n # 0
  BY FS_EmptySet
<1> HIDE DEF n, s
<1>4. n \in 1..n
  BY <1>2, <1>3
<1>5. s[n] \in S /\ \A y \in S : y <= s[n]
  <2>1. s[n] \in S
    BY <1>2, <1>4
  <2>2. ASSUME NEW y \in S PROVE y <= s[n]
    <3>1. PICK r \in 1..n : s[r] = y
      BY <1>2
    <3>2. r = n \/ r < n
      BY <1>2
    <3>3. y = s[n] \/ y < s[n]
      BY <1>2, <1>4, <3>1, <3>2
    <3>4. y \in Int /\ s[n] \in Int
      BY <1>1, <2>1
    <3> QED BY <3>3, <3>4
  <2> QED BY <2>1, <2>2
<1> QED BY <1>5, Zenon DEF Snippets!Greatest

LEMMA FiniteImage ==
  ASSUME NEW D, IsFiniteSet(D), NEW f, DOMAIN f = D
  PROVE  IsFiniteSet({f[d] : d \in D})
<1> DEFINE R == {f[d] : d \in D}
           g == [d \in D |-> f[d]]
<1>1. g \in Surjection(D, R)
  BY DEF Surjection
<1> HIDE DEF R, g
<1> QED BY <1>1, FS_Surjection DEF R

(* Matches of the parts 1 to N of a quote.                                   *)
IsMatch(m) ==
  m.start \in Nat /\ (m.end = Snippets!Infinity \/ (m.end \in Nat /\ m.start < m.end))
Matched(N, matches) ==
  /\ N \in Nat /\ DOMAIN matches = 1..N
  /\ \A p \in 1..N : \E size \in Nat :
        /\ DOMAIN matches[p] = 1..size /\ (matches[p] = << >> <=> size = 0)
        /\ \A k \in 1..size : IsMatch(matches[p][k])

Chosen(matches, c) == {matches[p][c[p]] : p \in DOMAIN c}

LEMMA ComboIs ==
  ASSUME NEW N, NEW matches, Matched(N, matches), NEW c \in Snippets!Combos(matches)
  PROVE  /\ DOMAIN c = Snippets!Found(matches) /\ Snippets!Found(matches) \subseteq 1..N
         /\ c \in [Snippets!Found(matches) -> Nat]
         /\ \A p \in Snippets!Found(matches) :
               c[p] \in DOMAIN matches[p] /\ IsMatch(matches[p][c[p]])
         /\ \A m \in Chosen(matches, c) : IsMatch(m)
<1>1. /\ DOMAIN c = Snippets!Found(matches) /\ Snippets!Found(matches) \subseteq 1..N
      /\ c = [p \in Snippets!Found(matches) |-> c[p]]
      /\ \A p \in Snippets!Found(matches) : c[p] \in DOMAIN matches[p]
  BY DEF Snippets!Combos, Snippets!Found, Matched
<1>2. ASSUME NEW p \in Snippets!Found(matches) PROVE c[p] \in Nat /\ IsMatch(matches[p][c[p]])
  <2>1. PICK size \in Nat : DOMAIN matches[p] = 1..size /\ \A k \in 1..size : IsMatch(matches[p][k])
    BY <1>1 DEF Matched
  <2> QED BY <1>1, <2>1
<1> QED BY <1>1, <1>2 DEF Chosen

(* How far the places of a choice lie apart.                                 *)
LEMMA SpanIs ==
  ASSUME NEW N, NEW matches, Matched(N, matches), Snippets!Found(matches) # {},
         NEW c \in Snippets!Combos(matches)
  PROVE  /\ (\E m \in Chosen(matches, c) : m.end = Snippets!Infinity)
              => Snippets!Span(matches, c) = Snippets!Infinity
         /\ (\A m \in Chosen(matches, c) : m.end # Snippets!Infinity)
              => /\ Snippets!Span(matches, c) \in Nat
                 /\ Snippets!Span(matches, c) = Snippets!Extent(Chosen(matches, c))
<1> DEFINE places == Chosen(matches, c)
           ends   == {m.end : m \in places}
           starts == {m.start : m \in places}
<1>1. IsFiniteSet(places) /\ places # {} /\ \A m \in places : IsMatch(m)
  <2>1. /\ DOMAIN c = Snippets!Found(matches) /\ Snippets!Found(matches) \subseteq 1..N
        /\ \A m \in places : IsMatch(m)
    BY ComboIs
  <2>2. IsFiniteSet(DOMAIN c)
    <3>1. IsFiniteSet(1..N)
      BY FS_Interval DEF Matched
    <3> QED BY <2>1, <3>1, FS_Subset
  <2> DEFINE f == [p \in DOMAIN c |-> matches[p][c[p]]]
  <2>3. IsFiniteSet({f[d] : d \in DOMAIN c})
    <3> HIDE DEF f
    <3>1. DOMAIN f = DOMAIN c
      BY DEF f
    <3> QED BY <2>2, <3>1, FiniteImage
  <2>4. places = {f[d] : d \in DOMAIN c}
    BY DEF Chosen
  <2>5. places # {}
    BY <2>1 DEF Chosen
  <2> QED BY <2>1, <2>3, <2>4, <2>5
<1>2. Snippets!Extent(places) = Snippets!Greatest(ends) - Snippets!Least(starts)
  BY DEF Snippets!Extent
<1>3. Snippets!Span(matches, c)
        = IF \E m \in places : m.end = Snippets!Infinity THEN Snippets!Infinity ELSE Snippets!Extent(places)
  BY Zenon DEF Snippets!Span, Chosen
<1> HIDE DEF places
<1>13. SUFFICES ASSUME \A m \in places : m.end # Snippets!Infinity
               PROVE  Snippets!Extent(places) \in Nat
  BY <1>3 DEF places
<1>4. IsFiniteSet(ends) /\ ends # {} /\ ends \in SUBSET (Nat \ {0})
  <2> DEFINE f == [m \in places |-> m.end]
  <2>1. IsFiniteSet({f[m] : m \in places})
    <3> HIDE DEF f
    <3>1. DOMAIN f = places
      BY DEF f
    <3> QED BY <1>1, <3>1, FiniteImage
  <2>2. ends = {f[m] : m \in places}
    OBVIOUS
  <2>3. \A m \in places : m.end \in Nat \ {0}
    BY <1>1, <1>13 DEF IsMatch
  <2> QED BY <1>1, <2>1, <2>2, <2>3
<1>5. starts # {} /\ starts \in SUBSET Nat
  BY <1>1 DEF IsMatch
<1>6. \A m \in places : m.end \in ends /\ m.start \in starts
  OBVIOUS
<1>7. \A e \in ends : \E m \in places : m.end = e
  OBVIOUS
<1> HIDE DEF ends, starts
<1>8. /\ Snippets!Greatest(ends) \in ends /\ \A y \in ends : y <= Snippets!Greatest(ends)
      /\ Snippets!Least(starts) \in starts /\ \A y \in starts : Snippets!Least(starts) <= y
  BY <1>4, <1>5, GreatestIs, LeastIs
<1> DEFINE hi == Snippets!Greatest(ends)
           lo == Snippets!Least(starts)
<1> HIDE DEF hi, lo
<1>9. hi \in Nat /\ lo \in Nat /\ lo < hi
  <2>1. PICK m \in places : TRUE
    BY <1>1
  <2>2. hi \in Nat /\ lo \in Nat /\ m.start \in Nat /\ m.end \in Nat /\ m.start < m.end
    BY <1>1, <1>4, <1>5, <1>8, <1>13, <2>1 DEF IsMatch, hi, lo
  <2>3. lo <= m.start /\ m.end <= hi
    BY <1>6, <1>8, <2>1 DEF hi, lo
  <2> QED BY <2>2, <2>3
<1>10. Snippets!Extent(places) = hi - lo
  BY <1>2 DEF hi, lo
<1> QED BY <1>9, <1>10

(* Of several choices, one is the first.                                     *)
Upto(n, D) == {q \in D : q <= n}
Agree(n, D, c, d) == \A q \in Upto(n, D) : c[q] = d[q]
Sooner(n, D, c, d) == \E p \in Upto(n, D) : c[p] < d[p] /\ \A q \in D : q < p => c[q] = d[q]

LEMMA FirstOfAll ==
  ASSUME NEW N \in Nat, NEW D \in SUBSET (1..N), NEW B \in SUBSET [D -> Nat], B # {}
  PROVE  \E c \in B : \A d \in B \ {c} : Snippets!Before(c, d)
<1> DEFINE T == {n \in 0..N : \E c \in B : \A d \in B : Agree(n, D, c, d) \/ Sooner(n, D, c, d)}
<1>0. \A q \in D : q \in Nat /\ 1 <= q /\ q <= N
  OBVIOUS
<1>1. 0 \in T
  <2>1. PICK c \in B : TRUE
    OBVIOUS
  <2>2. Upto(0, D) = {}
    <3>1. \A q \in D : ~ (q <= 0)
      BY <1>0
    <3> QED BY <3>1 DEF Upto
  <2>3. \A d \in B : Agree(0, D, c, d)
    BY <2>2 DEF Agree
  <2> QED BY <2>3
<1>2. ASSUME NEW n \in 0..N, n < N, n \in T PROVE n + 1 \in T
  <2>1. PICK c \in B : \A d \in B : Agree(n, D, c, d) \/ Sooner(n, D, c, d)
    BY <1>2
  <2>2. n \in Nat /\ n + 1 \in 0..N
    BY <1>2
  <2>3. \A q \in D : q \in Upto(n + 1, D) <=> q \in Upto(n, D) \/ q = n + 1
    BY <1>0, <2>2 DEF Upto
  <2>4. \A q : q \in Upto(n, D) => q \in D /\ q <= n
    BY DEF Upto
  <2>5. CASE n + 1 \notin D
    <3>1. ASSUME NEW d \in B PROVE Agree(n + 1, D, c, d) \/ Sooner(n + 1, D, c, d)
      <4>1. \A q : q \in Upto(n + 1, D) => q \in Upto(n, D)
        BY <2>3, <2>5 DEF Upto
      <4>2. \A q : q \in Upto(n, D) => q \in Upto(n + 1, D)
        BY <2>3, <2>4
      <4>3. CASE Agree(n, D, c, d)
        BY <4>1, <4>3 DEF Agree
      <4>4. CASE Sooner(n, D, c, d)
        BY <4>2, <4>4 DEF Sooner
      <4> QED BY <2>1, <4>3, <4>4
    <3> QED BY <2>2, <3>1
  <2>6. CASE n + 1 \in D
    <3> DEFINE E == {d \in B : Agree(n, D, c, d)}
               V == {d[n + 1] : d \in E}
    <3>1. c \in E
      BY DEF Agree
    <3>2. V \in SUBSET Nat /\ V # {}
      BY <2>6, <3>1
    <3>3. PICK v \in V : \A u \in V : v <= u
      <4> HIDE DEF V
      <4> QED BY <3>2, LeastNumber
    <3>4. PICK b \in E : b[n + 1] = v
      BY <3>3
    <3>5. ASSUME NEW d \in B PROVE Agree(n + 1, D, b, d) \/ Sooner(n + 1, D, b, d)
      <4>0. b \in B /\ \A q \in Upto(n, D) : c[q] = b[q]
        BY <3>4 DEF Agree
      <4>1. CASE Sooner(n, D, c, d)
        <5>1. PICK p \in Upto(n, D) : c[p] < d[p] /\ \A q \in D : q < p => c[q] = d[q]
          BY <4>1 DEF Sooner
        <5>2. p \in D /\ p <= n /\ p \in Upto(n + 1, D)
          BY <2>3, <2>4, <5>1
        <5>3. \A q \in D : q < p => q \in Upto(n, D)
          BY <1>0, <2>2, <5>2 DEF Upto
        <5>4. b[p] < d[p] /\ \A q \in D : q < p => b[q] = d[q]
          BY <4>0, <5>1, <5>3
        <5> QED BY <5>2, <5>4 DEF Sooner
      <4>2. CASE Agree(n, D, c, d)
        <5>1. d \in E /\ d[n + 1] \in V /\ v <= d[n + 1]
          BY <3>3, <4>2
        <5>2. b[n + 1] \in Nat /\ d[n + 1] \in Nat /\ b[n + 1] <= d[n + 1]
          BY <2>6, <3>4, <4>0, <5>1
        <5>3. \A q \in Upto(n, D) : b[q] = d[q]
          BY <4>0, <4>2 DEF Agree
        <5>4. CASE b[n + 1] = d[n + 1]
          <6>1. \A q \in Upto(n + 1, D) : b[q] = d[q]
            BY <2>3, <5>3, <5>4 DEF Upto
          <6> QED BY <6>1 DEF Agree
        <5>5. CASE b[n + 1] < d[n + 1]
          <6>1. \A q \in D : q < n + 1 => q \in Upto(n, D)
            BY <1>0, <2>2 DEF Upto
          <6>2. n + 1 \in Upto(n + 1, D)
            BY <2>3, <2>6
          <6> QED BY <5>3, <5>5, <6>1, <6>2 DEF Sooner
        <5> QED BY <5>2, <5>4, <5>5
      <4> QED BY <2>1, <4>1, <4>2
    <3>6. b \in B
      BY <3>4
    <3> QED BY <2>2, <3>5, <3>6
  <2> QED BY <2>5, <2>6
<1>3. N \in T
  <2> HIDE DEF T
  <2>1. \A n \in 0..N : n < N /\ n \in T => n + 1 \in T
    BY <1>2
  <2>2. \A n \in 0..N : n \in T
    BY <1>1, <2>1, UpToAll
  <2>3. N \in 0..N
    OBVIOUS
  <2> QED BY <2>2, <2>3
<1>4. PICK c \in B : \A d \in B : Agree(N, D, c, d) \/ Sooner(N, D, c, d)
  BY <1>3
<1>5. Upto(N, D) = D
  BY <1>0 DEF Upto
<1>6. ASSUME NEW d \in B, d # c PROVE Snippets!Before(c, d)
  <2>1. ~ Agree(N, D, c, d)
    <3>1. SUFFICES ASSUME \A q \in D : c[q] = d[q] PROVE FALSE
      BY <1>5 DEF Agree
    <3>2. c = [q \in D |-> c[q]] /\ d = [q \in D |-> d[q]]
      OBVIOUS
    <3>3. [q \in D |-> c[q]] = [q \in D |-> d[q]]
      BY <3>1, Zenon
    <3>4. c = d
      BY <3>2, <3>3, Zenon
    <3> QED BY <1>6, <3>4
  <2>2. Sooner(N, D, c, d)
    BY <1>4, <2>1
  <2>3. DOMAIN c = D
    OBVIOUS
  <2>4. \E p \in D : c[p] < d[p] /\ \A q \in D : q < p => c[q] = d[q]
    BY <1>5, <2>2 DEF Sooner
  <2> QED BY <2>3, <2>4 DEF Snippets!Before
<1> QED BY <1>6

(* The choice that is made when all are compared.                            *)
LEMMA BestIs ==
  ASSUME NEW N, NEW matches, Matched(N, matches), Snippets!Found(matches) # {}
  PROVE  /\ Snippets!Best(matches) \in Snippets!Combos(matches)
         /\ \A d \in Snippets!Combos(matches) : Snippets!Span(matches, d) # Snippets!Infinity =>
              /\ Snippets!Span(matches, Snippets!Best(matches)) # Snippets!Infinity
              /\ Snippets!Span(matches, Snippets!Best(matches)) <= Snippets!Span(matches, d)
<1> DEFINE D == Snippets!Found(matches)
           C == Snippets!Combos(matches)
           finite == {Snippets!Span(matches, c) : c \in C} \ {Snippets!Infinity}
           smallest == IF finite = {} THEN Snippets!Infinity ELSE Snippets!Least(finite)
           best == {c \in C : Snippets!Span(matches, c) = smallest}
<1>1. \A c \in C : Snippets!Span(matches, c) \in Nat \cup {Snippets!Infinity}
  BY SpanIs
<1>2. N \in Nat /\ D \in SUBSET (1..N)
  BY DEF Snippets!Found, Matched
<1>3. \A c \in C : c \in [D -> Nat]
  BY ComboIs
<1>4. C # {}
  <2> DEFINE c == [p \in D |-> 1]
  <2>1. \A p \in D : 1 \in DOMAIN matches[p]
    <3> TAKE p \in D
    <3>1. PICK size \in Nat : DOMAIN matches[p] = 1..size /\ (matches[p] = << >> <=> size = 0)
      BY <1>2 DEF Matched
    <3>2. size # 0
      BY <3>1 DEF Snippets!Found
    <3> QED BY <3>1, <3>2
  <2>2. c \in [D -> UNION {DOMAIN matches[p] : p \in D}]
    BY <2>1
  <2>3. c \in C
    BY <2>1, <2>2 DEF Snippets!Combos
  <2> QED BY <2>3
<1>5. finite \in SUBSET Nat /\ \A c \in C : Snippets!Span(matches, c) # Snippets!Infinity
                                             => Snippets!Span(matches, c) \in finite
  BY <1>1
<1>6. finite # {} => smallest \in finite /\ \A y \in finite : smallest <= y
  <2> HIDE DEF finite
  <2> QED BY <1>5, LeastIs
<1>7. best # {} /\ best \in SUBSET [D -> Nat] /\ best \in SUBSET C
  <2>1. CASE finite = {}
    <3>1. \A c \in C : Snippets!Span(matches, c) = Snippets!Infinity /\ smallest = Snippets!Infinity
      BY <1>5, <2>1
    <3>2. \A c \in C : c \in best
      BY <3>1
    <3> QED BY <1>3, <1>4, <3>2
  <2>2. CASE finite # {}
    <3>1. \E c \in C : Snippets!Span(matches, c) = smallest
      BY <1>6, <2>2
    <3> QED BY <1>3, <3>1
  <2> QED BY <2>1, <2>2
<1>8. Snippets!Best(matches) = CHOOSE c \in best : \A d \in best \ {c} : Snippets!Before(c, d)
  BY Zenon DEF Snippets!Best
<1>9. \A d \in C : Snippets!Span(matches, d) # Snippets!Infinity =>
                      smallest # Snippets!Infinity /\ smallest <= Snippets!Span(matches, d)
  <2> SUFFICES ASSUME NEW d \in C, Snippets!Span(matches, d) # Snippets!Infinity
               PROVE  smallest # Snippets!Infinity /\ smallest <= Snippets!Span(matches, d)
    OBVIOUS
  <2>1. Snippets!Span(matches, d) \in finite /\ finite # {}
    BY <1>5
  <2>2. smallest \in finite /\ smallest <= Snippets!Span(matches, d)
    BY <1>6, <2>1
  <2> QED BY <2>2
<1>10. \A c \in best : Snippets!Span(matches, c) = smallest
  OBVIOUS
<1> HIDE DEF best, smallest
<1>11. \E c \in best : \A d \in best \ {c} : Snippets!Before(c, d)
  <2> HIDE DEF D
  <2> QED BY <1>2, <1>7, FirstOfAll
<1>12. Snippets!Best(matches) \in best
  BY <1>8, <1>11, Zenon
<1> QED BY <1>7, <1>9, <1>10, <1>12

(* What the search of a quote leaves, and the invariant.                     *)
SpansFound ==
  IF Snippets!Found(Snippets!Matches) = {} THEN [p \in DOMAIN w2 |-> << >>]
  ELSE Snippets!ChooseMinCombinedSpan(Snippets!Matches)

SnippetsInv ==
  /\ w1 \in SnippetPapers /\ w2 \in Quotes
  /\ w3 = << >> \/ w3 = SpansFound

LEMMA ReadableIs ==
  ASSUME Snippets!Readable, w1 \in SnippetPapers, w2 \in Quotes
  PROVE  /\ Readings
         /\ w2 \in Seq(Text) /\ Len(w2) \in Nat /\ DOMAIN w2 = 1..Len(w2)
         /\ \A p \in 1..Len(w2) : w2[p] \in Text
<1>1. w1 \in Seq([text : Seq(STRING), offset : Nat \cup {Snippets!None}])
  BY DEF Snippets!Readable
<1>2. Readings
  BY <1>1 DEF Readings, Source, Text
<1>3. w2 \in Seq(Text)
  BY DEF Snippets!Readable, Text
<1>4. Len(w2) \in Nat /\ DOMAIN w2 = 1..Len(w2) /\ \A p \in 1..Len(w2) : w2[p] \in Text
  BY <1>3
<1> QED BY <1>2, <1>3, <1>4

LEMMA PartsMatch ==
  ASSUME Snippets!Readable, w1 \in SnippetPapers, w2 \in Quotes
  PROVE  /\ Matched(Len(w2), Snippets!Matches)
         /\ \A p \in 1..Len(w2) :
              /\ Snippets!Matches[p] \in Seq(MatchesOf(w2[p]))
              /\ Snippets!Matches[p] = << >>
                   <=> \A i \in 1..Len(w1) : ~ Snippets!Occurs(w1[i].text, w2[p])
<1> DEFINE N == Len(w2)
           matches == Snippets!Matches
<1>1. Readings /\ N \in Nat /\ DOMAIN w2 = 1..N /\ \A p \in 1..N : w2[p] \in Text
  BY ReadableIs
<1>2. DOMAIN matches = 1..N /\ \A p \in 1..N : matches[p] = Snippets!PartMatches(w2[p])
  BY <1>1 DEF Snippets!Matches
<1> HIDE DEF matches, N
<1>3. ASSUME NEW p \in 1..N
      PROVE  /\ matches[p] \in Seq(MatchesOf(w2[p]))
             /\ matches[p] = << >>
                   <=> \A i \in 1..Len(w1) : ~ Snippets!Occurs(w1[i].text, w2[p])
  <2>1. w2[p] \in Text
    BY <1>1
  <2> QED BY <1>1, <1>2, <2>1, PartMatchesAre
<1>4. ASSUME NEW p \in 1..N
      PROVE  \E size \in Nat : /\ DOMAIN matches[p] = 1..size /\ (matches[p] = << >> <=> size = 0)
                            /\ \A k \in 1..size : IsMatch(matches[p][k])
  <2> DEFINE s == matches[p]
             size == Len(s)
  <2>1. size \in Nat /\ DOMAIN s = 1..size /\ (s = << >> <=> size = 0) /\ \A k \in 1..size : s[k] \in MatchesOf(w2[p])
    <3>1. s \in Seq(MatchesOf(w2[p]))
      BY <1>3
    <3> HIDE DEF s
    <3> QED BY <3>1
  <2>2. ASSUME NEW k \in 1..size PROVE IsMatch(s[k])
    <3>1. w2[p] \in Text /\ s[k] \in MatchesOf(w2[p])
      BY <1>1, <2>1
    <3> HIDE DEF s
    <3>2. /\ s[k].start \in Nat
          /\ s[k].end = Snippets!Infinity \/ (s[k].end \in Nat /\ s[k].start < s[k].end)
      BY <1>1, <3>1, MatchIs
    <3> QED BY <3>2 DEF IsMatch
  <2> HIDE DEF size
  <2> QED BY <2>1, <2>2
<1>5. Matched(N, matches)
  BY <1>1, <1>2, <1>4 DEF Matched
<1> QED BY <1>3, <1>5 DEF matches, N

(* The choice that is made.                                                  *)
Choice(matches) ==
  IF Snippets!ComboCount(matches) <= ComboLimit
  THEN Snippets!Best(matches) ELSE [p \in Snippets!Found(matches) |-> 1]

LEMMA SpansAre ==
  ASSUME Snippets!Readable, w1 \in SnippetPapers, w2 \in Quotes, w3 = SpansFound
  PROVE  /\ DOMAIN w3 = 1..Len(w2)
         /\ \A p \in 1..Len(w2) :
              w3[p] = IF p \in Snippets!Found(Snippets!Matches)
                         THEN <<Snippets!Matches[p][Choice(Snippets!Matches)[p]]>> ELSE << >>
         /\ \A p \in Snippets!Found(Snippets!Matches) :
              p \in 1..Len(w2) /\ Choice(Snippets!Matches)[p] \in DOMAIN Snippets!Matches[p]
<1> DEFINE N == Len(w2)
           matches == Snippets!Matches
           D == Snippets!Found(matches)
<1>1. Matched(N, matches) /\ DOMAIN w2 = 1..N
  BY PartsMatch, ReadableIs
<1> HIDE DEF matches, N
<1>2. DOMAIN matches = 1..N /\ D \subseteq 1..N
  BY <1>1 DEF Matched, Snippets!Found
<1>3. CASE D = {}
  <2>1. w3 = [p \in 1..N |-> << >>]
    BY <1>1, <1>3 DEF SpansFound, matches
  <2> QED BY <1>3, <2>1 DEF matches, N
<1>4. CASE D # {}
  <2>1. w3 = [p \in DOMAIN matches |->
                   IF p \in Snippets!Found(matches) THEN <<matches[p][Choice(matches)[p]]>> ELSE << >>]
    <3>1. w3 = Snippets!ChooseMinCombinedSpan(matches)
      BY <1>4 DEF SpansFound, matches
    <3> QED BY <3>1, Zenon DEF Snippets!ChooseMinCombinedSpan, Choice
  <2>2. ASSUME NEW p \in D PROVE Choice(matches)[p] \in DOMAIN matches[p]
    <3>1. CASE Snippets!ComboCount(matches) <= ComboLimit
      <4>1. Snippets!Best(matches) \in Snippets!Combos(matches)
        BY <1>1, <1>4, BestIs
      <4>2. Choice(matches) = Snippets!Best(matches)
        BY <3>1 DEF Choice
      <4>3. Snippets!Best(matches)[p] \in DOMAIN matches[p]
        BY <1>1, <4>1, ComboIs
      <4> QED BY <4>2, <4>3
    <3>2. CASE ~ (Snippets!ComboCount(matches) <= ComboLimit)
      <4>1. Choice(matches)[p] = 1
        BY <3>2 DEF Choice
      <4>2. PICK size \in Nat : DOMAIN matches[p] = 1..size /\ (matches[p] = << >> <=> size = 0)
        BY <1>1, <1>2 DEF Matched
      <4>3. size # 0
        BY <4>2 DEF Snippets!Found
      <4> QED BY <4>1, <4>2, <4>3
    <3> QED BY <3>1, <3>2
  <2> QED BY <1>2, <2>1, <2>2 DEF matches, N
<1> QED BY <1>3, <1>4

LEMMA PlacesFound ==
  ASSUME Snippets!Readable, w1 \in SnippetPapers, w2 \in Quotes, w3 = SpansFound
  PROVE  Snippets!PlacesHold
<1> DEFINE N == Len(w2)
           matches == Snippets!Matches
           D == Snippets!Found(matches)
           at(p) == matches[p][Choice(matches)[p]]
<1>1. Readings /\ \A p \in 1..N : w2[p] \in Text
  BY ReadableIs
<1>2. /\ DOMAIN matches = 1..N
      /\ \A p \in 1..N :
              /\ matches[p] \in Seq(MatchesOf(w2[p]))
              /\ matches[p] = << >>
                   <=> \A i \in 1..Len(w1) : ~ Snippets!Occurs(w1[i].text, w2[p])
  BY PartsMatch DEF Matched
<1>3. /\ DOMAIN w3 = 1..N
      /\ \A p \in 1..N : w3[p] = IF p \in D THEN <<at(p)>> ELSE << >>
      /\ \A p \in D : p \in 1..N /\ Choice(matches)[p] \in DOMAIN matches[p]
  BY SpansAre
<1>4. DOMAIN w1 = 1..Len(w1)
  BY <1>1 DEF Readings
<1>5. \A p \in 1..N : p \in D <=> matches[p] # << >>
  BY <1>2 DEF Snippets!Found
<1>6. \A p \in D : at(p) \in MatchesOf(w2[p])
  <2> TAKE p \in D
  <2>1. matches[p] \in Seq(MatchesOf(w2[p])) /\ Choice(matches)[p] \in DOMAIN matches[p]
    BY <1>2, <1>3
  <2> HIDE DEF matches
  <2> QED BY <2>1
<1> HIDE DEF matches, D, N, at
<1>7. ASSUME NEW p \in DOMAIN w3
      PROVE  w3[p] = << >> <=> ~\E i \in DOMAIN w1 : Snippets!Occurs(w1[i].text, w2[p])
  <2>1. p \in 1..N
    BY <1>3
  <2>2. w3[p] = << >> <=> p \notin D
    BY <1>3, <2>1
  <2> QED BY <1>2, <1>4, <1>5, <2>1, <2>2
<1>8. ASSUME NEW p \in DOMAIN w3, NEW k \in DOMAIN w3[p],
             Snippets!Plain(w1[w3[p][k].source].text)
      PROVE  Snippets!Holds(p, w3[p][k])
  <2>1. p \in 1..N /\ p \in D /\ w3[p][k] = at(p)
    <3>1. p \in 1..N
      BY <1>3
    <3>2. p \in D
      <4>1. SUFFICES ASSUME p \notin D PROVE FALSE
        OBVIOUS
      <4>2. w3[p] = << >>
        BY <1>3, <3>1, <4>1
      <4> QED BY <4>2
    <3>3. w3[p] = <<at(p)>>
      BY <1>3, <3>1, <3>2
    <3> QED BY <3>1, <3>2, <3>3
  <2> DEFINE m == w3[p][k]
  <2>2. m \in MatchesOf(w2[p]) /\ w2[p] \in Text
    BY <1>1, <1>6, <2>1
  <2> HIDE DEF m
  <2>3. /\ m.at.start < m.at.end
        /\ Snippets!Stripped(w1[m.source].text) = w1[m.source].text =>
              /\ Snippets!Letters(w1[m.source].text, m.at.start + 1, m.at.end) = Snippets!Cleaned(w2[p])
              /\ Snippets!IsAlnum(w1[m.source].text[m.at.start + 1])
              /\ Snippets!IsAlnum(w1[m.source].text[m.at.end])
    BY <1>1, <2>2, MatchIs
  <2>4. Snippets!Stripped(w1[m.source].text) = w1[m.source].text
    BY <1>8 DEF m, Snippets!Plain
  <2>5. Snippets!Holds(p, m)
    BY <2>3, <2>4 DEF Snippets!Holds
  <2> QED BY <2>5 DEF m
<1> QED BY <1>7, <1>8 DEF Snippets!PlacesHold

LEMMA PlacesClose ==
  ASSUME Snippets!Readable, w1 \in SnippetPapers, w2 \in Quotes, w3 = SpansFound
  PROVE  Snippets!ChosenClose
<1> DEFINE N == Len(w2)
           matches == Snippets!Matches
           D == Snippets!Found(matches)
           best == Snippets!Best(matches)
           chosen == UNION {{w3[p][i] : i \in DOMAIN w3[p]} : p \in DOMAIN w3}
           Near(m, l) == m.source = l.source /\ m.end # Snippets!Infinity
<1>1. SUFFICES ASSUME chosen # {}, Snippets!ComboCount(matches) <= ComboLimit,
                      NEW c \in Snippets!Combos(matches),
                      \A m, l \in {matches[p][c[p]] : p \in DOMAIN c} : Near(m, l)
               PROVE  /\ \A m \in chosen : m.end # Snippets!Infinity
                      /\ Snippets!Extent(chosen) <= Snippets!Extent({matches[p][c[p]] : p \in DOMAIN c})
  BY DEF Snippets!ChosenClose
<1>2. Matched(N, matches)
  BY PartsMatch
<1>3. /\ DOMAIN w3 = 1..N
      /\ \A p \in 1..N : w3[p] = IF p \in D THEN <<matches[p][Choice(matches)[p]]>> ELSE << >>
      /\ \A p \in D : p \in 1..N
  BY SpansAre
<1> HIDE DEF N, matches
<1>4. Choice(matches) = best
  BY <1>1 DEF Choice
<1> HIDE DEF D, best
<1>5. \A p \in 1..N : {w3[p][i] : i \in DOMAIN w3[p]} = IF p \in D THEN {matches[p][best[p]]} ELSE {}
  <2> TAKE p \in 1..N
  <2>1. CASE p \in D
    <3>1. w3[p] = <<matches[p][best[p]]>>
      BY <1>3, <1>4, <2>1
    <3> QED BY <2>1, <3>1
  <2>2. CASE p \notin D
    <3>1. w3[p] = << >>
      BY <1>3, <2>2
    <3> QED BY <2>2, <3>1
  <2> QED BY <2>1, <2>2
<1>6. chosen = {matches[p][best[p]] : p \in D}
  <2> DEFINE parts(p) == {w3[p][i] : i \in DOMAIN w3[p]}
  <2>1. \A p \in 1..N : parts(p) = IF p \in D THEN {matches[p][best[p]]} ELSE {}
    BY <1>5
  <2> HIDE DEF parts
  <2>2. UNION {parts(p) : p \in 1..N} = {matches[p][best[p]] : p \in D}
    BY <1>3, <2>1
  <2> QED BY <1>3, <2>2 DEF parts
<1>7. D # {}
  BY <1>1, <1>6
<1>8. /\ best \in Snippets!Combos(matches)
      /\ \A d \in Snippets!Combos(matches) : Snippets!Span(matches, d) # Snippets!Infinity =>
            /\ Snippets!Span(matches, best) # Snippets!Infinity
            /\ Snippets!Span(matches, best) <= Snippets!Span(matches, d)
  BY <1>2, <1>7, BestIs DEF D, best
<1>9. DOMAIN best = D
  BY <1>2, <1>8, ComboIs DEF D
<1>10. chosen = Chosen(matches, best)
  BY <1>6, <1>9 DEF Chosen
<1>11. {matches[p][c[p]] : p \in DOMAIN c} = Chosen(matches, c)
  BY DEF Chosen
<1> HIDE DEF chosen
<1>12. \A m \in Chosen(matches, c) : m.end # Snippets!Infinity
  BY <1>1, <1>11
<1>13. /\ Snippets!Span(matches, c) = Snippets!Extent(Chosen(matches, c))
       /\ Snippets!Span(matches, c) \in Nat
  BY <1>2, <1>7, <1>12, SpanIs DEF D
<1>14. Snippets!Span(matches, c) # Snippets!Infinity
  BY <1>13 DEF Snippets!Infinity
<1>15. /\ Snippets!Span(matches, best) # Snippets!Infinity
       /\ Snippets!Span(matches, best) <= Snippets!Span(matches, c)
  BY <1>8, <1>14
<1>16. /\ \A m \in Chosen(matches, best) : m.end # Snippets!Infinity
       /\ Snippets!Span(matches, best) = Snippets!Extent(Chosen(matches, best))
  BY <1>2, <1>7, <1>8, <1>15, SpanIs DEF D
<1> QED BY <1>10, <1>11, <1>13, <1>15, <1>16

LEMMA SnippetsKept == ASSUME Snippets!Readable, SnippetsInv PROVE Snippets!SpansSound
<1>1. CASE w3 = << >>
  <2>1. DOMAIN w3 = {}
    BY <1>1
  <2>2. UNION {{w3[p][i] : i \in DOMAIN w3[p]} : p \in DOMAIN w3} = {}
    BY <2>1
  <2>3. Snippets!PlacesHold
    BY <2>1 DEF Snippets!PlacesHold
  <2>4. Snippets!ChosenClose
    BY <2>2, Zenon DEF Snippets!ChosenClose
  <2> QED BY <2>3, <2>4 DEF Snippets!SpansSound
<1>2. CASE w3 = SpansFound
  BY <1>2, PlacesFound, PlacesClose DEF SnippetsInv, Snippets!SpansSound
<1> QED BY <1>1, <1>2 DEF SnippetsInv

LEMMA SnippetsInit == ASSUME Snippets!Init PROVE SnippetsInv
BY DEF Snippets!Init, SnippetsInv

LEMMA SnippetsNext == ASSUME SnippetsInv, [Snippets!Next]_Snippets!vars PROVE SnippetsInv'
<1>1. CASE Snippets!FindRelevantSnippet
  <2>1. /\ w3' = SpansFound /\ w1' = w1 /\ w2' = w2
    BY <1>1 DEF Snippets!FindRelevantSnippet, SpansFound
  <2>2. Snippets!Matches' = Snippets!Matches
    BY <2>1 DEF Snippets!Matches, Snippets!PartMatches, Snippets!MatchesIn, Snippets!Placed
  <2>3. SpansFound' = SpansFound
    BY <2>1, <2>2 DEF SpansFound
  <2> QED BY <2>1, <2>3 DEF SnippetsInv
<1>2. CASE UNCHANGED Snippets!vars
  <2>1. w1' = w1 /\ w2' = w2 /\ w3' = w3
    BY <1>2 DEF Snippets!vars
  <2>2. Snippets!Matches' = Snippets!Matches
    BY <2>1 DEF Snippets!Matches, Snippets!PartMatches, Snippets!MatchesIn, Snippets!Placed
  <2>3. SpansFound' = SpansFound
    BY <2>1, <2>2 DEF SpansFound
  <2> QED BY <2>1, <2>3 DEF SnippetsInv
<1> QED BY <1>1, <1>2 DEF Snippets!Next

-----------------------------------------------------------------------------
(* The computed fields of a paper                                            *)

ComputedInv ==
  /\ machine = "snippets"   => SnippetsInv
  /\ machine = "judgements" => JudgementsInv

LEMMA ComputedNext == ASSUME ComputedInv, [ServicesNext]_all PROVE ComputedInv'
<1>1. CASE RunSnippets
  <2>1. machine' = machine /\ machine = "snippets" /\ Snippets!Next
    BY <1>1 DEF RunSnippets, Rest4
  <2>2. SnippetsInv'
    BY <2>1, SnippetsNext DEF ComputedInv
  <2> QED BY <2>1, <2>2 DEF ComputedInv
<1>2. CASE RunJudgements
  <2>1. machine' = machine /\ machine = "judgements" /\ Judgements!Next
    BY <1>2 DEF RunJudgements, Rest7
  <2>2. JudgementsInv'
    BY <2>1, JudgementsNext DEF ComputedInv
  <2> QED BY <2>1, <2>2 DEF ComputedInv
<1>3. CASE UNCHANGED all
  <2>1. machine' = machine /\ UNCHANGED Snippets!vars /\ UNCHANGED Judgements!vars
    BY <1>3 DEF all, w, Snippets!vars, Judgements!vars
  <2>2. machine = "snippets" => SnippetsInv'
    BY <2>1, SnippetsNext DEF ComputedInv
  <2>3. machine = "judgements" => JudgementsInv'
    BY <2>1, JudgementsStutter DEF ComputedInv
  <2> QED BY <2>1, <2>2, <2>3 DEF ComputedInv
<1>4. CASE machine' = machine /\ machine \notin {"snippets", "judgements"}
  BY <1>4 DEF ComputedInv
<1>5. \/ RunSnippets \/ RunJudgements \/ UNCHANGED all
      \/ machine' = machine /\ machine \notin {"snippets", "judgements"}
  BY DEF ServicesNext, Round, RunHeap, RunCalls, RunEnv, RunEndpoints, RunFusing, RunLoader,
     RunFetchers, Rest4, Rest5, Rest6, Rest7, Rest8
<1> QED BY <1>1, <1>2, <1>3, <1>4, <1>5

(* For any texts and any quote: a part of it has a place exactly when it       *)
(* occurs in one of the texts, the place holds its letters, and the places     *)
(* chosen lie as close as those of any choice within one text                  *)
(* (relevant_snippets.py).  For any batch and any criteria: every document     *)
(* gets the judgement of its own answer, whichever of the calls fail, levels   *)
(* fit the grades, and the summary counts the papers that were judged          *)
(* (relevance.py, explain.py).                                                 *)
THEOREM ComputedFieldsAreSound == ServicesSpec => []ComputedFieldsSound
<1>1. ServicesInit => ComputedInv
  BY SnippetsInit, JudgementsInit DEF ServicesInit, ComputedInv
<1>2. ComputedInv /\ [ServicesNext]_all => ComputedInv'
  BY ComputedNext
<1>3. ComputedInv => ComputedFieldsSound
  BY SnippetsKept, JudgementsKept, ServicesAssumption DEF ComputedInv, ComputedFieldsSound
<1> QED BY <1>1, <1>2, <1>3, PTL DEF ServicesSpec

-----------------------------------------------------------------------------
(* The calls of models: any number of calls, fallbacks and attempts and any   *)
(* limit on the calls at work, whatever the models do and whenever soft         *)
(* timeouts fire.                                                              *)

CallStates == {"none", "running"} \cup Calling!Ended

CallTypes ==
  /\ w1 \in Settings
  /\ w2 \in [Calling!Calls -> {"queued", "plain", "first", "race", "rest", "ended"}]
  /\ w3 \in [Calling!Calls -> [Calling!Tasks -> [state : CallStates, attempts : Nat]]]
  /\ w4 \in [Calling!Calls -> SUBSET Calling!Tasks]
  /\ w5 \in [Calling!Calls -> Calling!Tasks \cup {Calling!None}]
  /\ w6 \in [Calling!Calls -> {"none", "fixing", "parsed", "failed"}]
  /\ w7 = [state |-> w7.state, results |-> w7.results]

CallOpen(c) == w2[c] # "ended"

(* A call has its answer when it has ended; until then no task of it was    *)
(* cancelled, and one that a race no longer waits for has timed out.        *)
CallOpened(c) ==
  CallOpen(c) =>
    /\ w5[c] = Calling!None
    /\ \A t \in Calling!Tasks : Calling!State(c, t) # "cancelled"
    /\ w2[c] = "queued" <=> Calling!State(c, 0) = "none"
    /\ w2[c] = "plain" => ~w1.racing
    /\ w2[c] = "first" => w4[c] = {0}
    /\ w1.racing /\ w2[c] \in {"queued", "first"} => Calling!Started(c) = {}
    /\ w2[c] \in {"first", "race", "rest"} => w1.racing
    /\ w2[c] \in {"race", "rest"} =>
         \A t \in Calling!Tasks :
             Calling!State(c, t) # "none" => t \in w4[c] \/ Calling!State(c, t) \in Calling!Timeouts
    /\ w2[c] = "rest" => Calling!Last(c)

(* The three promises of a call that has ended.                             *)
CallClosed(c) ==
  ~CallOpen(c) =>
    /\ w5[c] \in Calling!Tasks
    /\ Calling!State(c, w5[c]) \in Calling!Ended
    /\ w1.racing /\ Calling!Started(c) # {} /\ Calling!State(c, w5[c]) \in Calling!Timeouts =>
         Calling!Last(c) /\ \A t \in Calling!Tasks : Calling!State(c, t) \in Calling!Timeouts
    /\ w1.cancelPending => \A t \in Calling!Tasks :
         Calling!Live(c, t) => w3[c][t].attempts \in 1 .. Calling!Attempts(t) - 1

CallInv(c) == CallOpened(c) /\ CallClosed(c)

CallsWorking == {c \in Calling!Calls : w2[c] \notin {"queued", "ended"}}

(* Texts are parsed when all calls have ended, those that brought one; the  *)
(* results of a batch are then final.                                       *)
BatchInv ==
  /\ IsFiniteSet(CallsWorking) /\ Cardinality(CallsWorking) <= w1.concurrency
  /\ \A c \in Calling!Calls : w6[c] # "none" => Calling!Answered /\ ~Calling!Raised(c)
  /\ w7.state = "returned" =>
       /\ Calling!Answered /\ \A c \in Calling!Calls : Calling!Judged(c)
       /\ w7.results = Calling!Results

CallsInv == CallTypes /\ (\A c \in Calling!Calls : CallInv(c)) /\ BatchInv

-----------------------------------------------------------------------------
(* The tasks of a call                                                      *)

LEMMA SameCount == \A S : Calling!Cardinality(S) = Cardinality(S)
BY DEF Calling!Cardinality, Cardinality

LEMMA CallsTyped ==
  ASSUME Calling!Numbered, CallTypes
  PROVE  /\ w1.calls \in Nat /\ w1.fallbacks \in Nat /\ w1.concurrency \in Nat
         /\ w1.racing \in BOOLEAN /\ w1.cancelPending \in BOOLEAN
         /\ 0 \in Calling!Tasks /\ Calling!None \notin Calling!Tasks
         /\ \E m \in Nat : Calling!Models = 1 .. m /\ Cardinality(Calling!Models) = m
         /\ IsFiniteSet(Calling!Models) /\ 1 \in Calling!Models /\ 0 \notin Calling!Models
         /\ w1.racing => Calling!Tasks = {0} \cup Calling!Models
         /\ ~w1.racing => Calling!Tasks = {0}
<1> DEFINE m == IF w1.fallbacks = 0 THEN 1 ELSE w1.fallbacks
<1>1. w1 \in [calls : Nat, fallbacks : Nat, attempts : Nat, concurrency : Nat,
                    racing : BOOLEAN, cancelPending : BOOLEAN, returnExceptions : BOOLEAN]
  BY DEF Calling!Numbered, CallTypes
<1>2. m \in Nat \ {0} /\ Calling!Models = 1 .. m
  BY <1>1 DEF Calling!Models
<1>3. IsFiniteSet(Calling!Models) /\ Cardinality(Calling!Models) = m
  <2> HIDE DEF m
  <2>1. IsFiniteSet(1 .. m) /\ Cardinality(1 .. m) = m
    BY <1>2, FS_Interval
  <2> QED BY <1>2, <2>1
<1>4. Calling!Tasks = 0 .. (IF ~w1.racing THEN 0 ELSE m)
  BY <1>3, SameCount DEF Calling!Tasks
<1> HIDE DEF m
<1> QED BY <1>1, <1>2, <1>3, <1>4 DEF Calling!None

(* What a step leaves alone keeps its invariant.                            *)
LEMMA SameCall ==
  ASSUME UNCHANGED w1, NEW d \in Calling!Calls, CallInv(d),
         w2'[d] = w2[d], w3'[d] = w3[d], w4'[d] = w4[d],
         w5'[d] = w5[d]
  PROVE  CallInv(d)'
BY DEF CallInv, CallOpened, CallClosed, CallOpen, Calling!State, Calling!Started,
   Calling!Last, Calling!Live, Calling!Tasks, Calling!Models, Calling!Timeouts, Calling!Ended,
   Calling!Attempts, Calling!Bare

LEMMA SameCalls ==
  UNCHANGED w1 => /\ Calling!Calls' = Calling!Calls /\ Calling!Tasks' = Calling!Tasks
                  /\ Calling!Models' = Calling!Models
BY DEF Calling!Calls, Calling!Tasks, Calling!Models

LEMMA CallState ==
  ASSUME CallTypes, NEW c \in Calling!Calls, NEW t \in Calling!Tasks
  PROVE  w3[c][t] \in [state : CallStates, attempts : Nat] /\ Calling!State(c, t) \in CallStates
BY DEF CallTypes, Calling!State

CallTable == [Calling!Calls -> [Calling!Tasks -> [state : CallStates, attempts : Nat]]]

LEMMA CallStarts ==
  ASSUME CallTypes, NEW c \in Calling!Calls, NEW t \in Calling!Tasks
  PROVE  [w3 EXCEPT ![c][t].state = "running"] \in CallTable
<1> DEFINE row == [w3[c] EXCEPT ![t] = [w3[c][t] EXCEPT !.state = "running"]]
<1>1. [w3[c][t] EXCEPT !.state = "running"] \in [state : CallStates, attempts : Nat]
  BY CallState DEF CallStates
<1>2. row \in [Calling!Tasks -> [state : CallStates, attempts : Nat]]
  BY <1>1 DEF CallTypes
<1>3. [w3 EXCEPT ![c] = row] \in CallTable
  BY <1>2 DEF CallTypes, CallTable
<1> QED BY <1>3

-----------------------------------------------------------------------------
LEMMA CallsStart == ASSUME Calling!Numbered, Calling!Init PROVE CallsInv
<1>1. /\ w1 \in Settings
      /\ \A c \in Calling!Calls : w2[c] = "queued" /\ w4[c] = {} /\ w5[c] = Calling!None
                          /\ w6[c] = "none"
      /\ \A c \in Calling!Calls, t \in Calling!Tasks : Calling!State(c, t) = "none"
  BY DEF Calling!Init, Calling!State
<1>2. CallTypes
  BY DEF Calling!Init, CallTypes, CallStates
<1>3. 0 \in Calling!Tasks /\ w1.concurrency \in Nat /\ w1.racing => Calling!Models \subseteq Calling!Tasks
  BY <1>2, CallsTyped
<1>4. \A c \in Calling!Calls : CallInv(c)
  BY <1>1, <1>2, CallsTyped DEF CallInv, CallOpened, CallClosed, CallOpen, Calling!Started
<1>5. CallsWorking = {}
  BY <1>1 DEF CallsWorking
<1>6. BatchInv
  BY <1>1, <1>2, <1>5, CallsTyped, FS_EmptySet DEF BatchInv, Calling!Init
<1> QED BY <1>2, <1>4, <1>6 DEF CallsInv

(* A step of one call that has not ended, or of a task that runs: the other *)
(* calls, the texts and the batch are as they were.                         *)
LEMMA OneCall ==
  ASSUME Calling!Numbered, CallsInv, CallTypes', UNCHANGED <<w1, w6, w7>>,
         NEW c \in Calling!Calls, CallInv(c)',
         \A d \in Calling!Calls \ {c} : /\ w2'[d] = w2[d] /\ w3'[d] = w3[d]
                                /\ w4'[d] = w4[d] /\ w5'[d] = w5[d],
         \/ CallOpen(c)
         \/ w2'[c] = w2[c] /\ Calling!Raised(c)' = Calling!Raised(c),
         \/ CallOpen(c) /\ w2[c] # "queued"
         \/ w2'[c] = w2[c]
         \/ Cardinality(CallsWorking) < w1.concurrency
  PROVE  CallsInv'
<1>1. Calling!Calls' = Calling!Calls
  BY SameCalls
<1>2. \A d \in Calling!Calls : CallInv(d)'
  BY SameCall DEF CallsInv
<1>3. IsFiniteSet(CallsWorking') /\ Cardinality(CallsWorking') <= w1.concurrency
  <2>1. /\ IsFiniteSet(CallsWorking) /\ Cardinality(CallsWorking) <= w1.concurrency
        /\ w1.concurrency \in Nat /\ Cardinality(CallsWorking) \in Nat
    BY CallsTyped, FS_CardinalityType DEF CallsInv, BatchInv
  <2>2. CASE CallsWorking' \subseteq CallsWorking
    <3>1. /\ IsFiniteSet(CallsWorking') /\ Cardinality(CallsWorking') <= Cardinality(CallsWorking)
          /\ Cardinality(CallsWorking') \in Nat
      BY <2>1, <2>2, FS_Subset, FS_CardinalityType
    <3> QED BY <2>1, <3>1
  <2>3. CASE ~(CallsWorking' \subseteq CallsWorking)
    <3>1. CallsWorking' = CallsWorking \cup {c} /\ c \notin CallsWorking
      BY <1>1, <2>3 DEF CallsWorking
    <3>2. Cardinality(CallsWorking) < w1.concurrency
      BY <3>1 DEF CallsWorking, CallOpen
    <3>3. IsFiniteSet(CallsWorking') /\ Cardinality(CallsWorking') = Cardinality(CallsWorking) + 1
      BY <2>1, <3>1, FS_AddElement
    <3> QED BY <2>1, <3>2, <3>3
  <2> QED BY <2>2, <2>3
<1>4. CASE CallOpen(c)
  <2>1. ~Calling!Answered
    BY <1>4 DEF CallOpen, Calling!Answered
  <2>2. (\A d \in Calling!Calls : w6[d] = "none") /\ w7.state # "returned"
    BY <2>1 DEF CallsInv, BatchInv
  <2>3. BatchInv'
    BY <1>1, <1>3, <2>2 DEF BatchInv
  <2> QED BY <1>1, <1>2, <2>3 DEF CallsInv
<1>5. CASE w2'[c] = w2[c] /\ Calling!Raised(c)' = Calling!Raised(c)
  <2>1. Calling!Answered' = Calling!Answered /\ \A d \in Calling!Calls : Calling!Raised(d)' = Calling!Raised(d)
    <3>1. ASSUME NEW d \in Calling!Calls PROVE w2'[d] = w2[d] /\ Calling!Raised(d)' = Calling!Raised(d)
      <4>1. CASE d = c
        BY <1>5, <4>1
      <4>2. CASE d # c
        BY <4>2 DEF Calling!Raised, Calling!State
      <4> QED BY <4>1, <4>2
    <3> QED BY <1>1, <3>1 DEF Calling!Answered
  <2>2. (\A d \in Calling!Calls : Calling!Judged(d)' = Calling!Judged(d)) /\ Calling!Results' = Calling!Results
    BY <1>1, <2>1 DEF Calling!Judged, Calling!Results
  <2>3. BatchInv'
    BY <1>1, <1>3, <2>1, <2>2 DEF CallsInv, BatchInv
  <2> QED BY <1>1, <1>2, <2>3 DEF CallsInv
<1> QED BY <1>4, <1>5

-----------------------------------------------------------------------------
(* The steps of a call                                                      *)

LEMMA CallEnters ==
  ASSUME Calling!Numbered, CallsInv, NEW c \in Calling!Calls, Calling!Enter(c)
  PROVE  CallsInv'
<1>1. CallTypes /\ CallInv(c) /\ CallOpen(c) /\ w2[c] = "queued"
  BY DEF CallsInv, Calling!Enter, Calling!MayEnter, CallOpen
<1>2. Calling!Calls' = Calling!Calls /\ Calling!Tasks' = Calling!Tasks /\ Calling!Models' = Calling!Models
  BY SameCalls DEF Calling!Enter
<1>3. CallTypes'
  <2>1. w3' \in CallTable
    BY <1>1, CallsTyped, CallStarts DEF Calling!Enter, Calling!Start
  <2> QED BY <1>1, <1>2, <2>1, CallsTyped DEF CallTypes, Calling!Enter, CallTable
<1>4. /\ Calling!State(c, 0)' = "running"
      /\ \A t \in Calling!Tasks \ {0} : Calling!State(c, t)' = Calling!State(c, t)
      /\ w2'[c] = IF w1.racing THEN "first" ELSE "plain"
      /\ w4'[c] = {0} /\ w5'[c] = w5[c] /\ w1' = w1
  BY <1>1, CallsTyped DEF CallTypes, Calling!Enter, Calling!Start, Calling!State
<1>5. w1.racing => Calling!Started(c)' = {}
  BY <1>1, <1>2, <1>4, CallsTyped DEF Calling!Started, CallInv, CallOpened
<1>6. CallInv(c)'
  BY <1>1, <1>2, <1>4, <1>5, CallsTyped DEF CallInv, CallOpened, CallClosed, CallOpen
<1>7. \A d \in Calling!Calls \ {c} : /\ w2'[d] = w2[d] /\ w3'[d] = w3[d]
                             /\ w4'[d] = w4[d] /\ w5'[d] = w5[d]
  BY <1>1 DEF CallTypes, Calling!Enter, Calling!Start
<1>8. Cardinality(CallsWorking) < w1.concurrency
  BY SameCount DEF Calling!Enter, Calling!MayEnter, CallsWorking
<1> QED BY <1>1, <1>3, <1>6, <1>7, <1>8, OneCall DEF Calling!Enter

LEMMA CallEnds ==
  ASSUME Calling!Numbered, CallsInv, NEW c \in Calling!Calls,
         Calling!End(c) \/ Calling!TryOriginal(c) \/ Calling!AllTimedOut(c)
  PROVE  CallsInv'
<1>1. CallTypes /\ CallInv(c) /\ CallOpen(c) /\ w2[c] # "queued"
  BY DEF CallsInv, Calling!End, Calling!TryOriginal, Calling!AllTimedOut, CallOpen
<1>2. /\ UNCHANGED <<w1, w3, w4, w6, w7>>
      /\ w2' = [w2 EXCEPT ![c] = "ended"] /\ w5' = [w5 EXCEPT ![c] = 0]
  BY DEF Calling!End, Calling!TryOriginal, Calling!AllTimedOut
<1>3. Calling!Calls' = Calling!Calls /\ Calling!Tasks' = Calling!Tasks /\ Calling!Models' = Calling!Models
  BY <1>2, SameCalls
<1>4. CallTypes'
  BY <1>1, <1>2, <1>3, CallsTyped DEF CallTypes
<1>5. /\ w2'[c] = "ended" /\ w5'[c] = 0
      /\ \A d \in Calling!Calls \ {c} : w2'[d] = w2[d] /\ w5'[d] = w5[d]
  BY <1>1, <1>2 DEF CallTypes
<1>6. (\A t : Calling!State(c, t)' = Calling!State(c, t)) /\ Calling!Started(c)' = Calling!Started(c)
  BY <1>2, <1>3 DEF Calling!State, Calling!Started
<1>7. /\ Calling!State(c, 0) \in Calling!Ended
      /\ w1.racing /\ Calling!Started(c) # {} /\ Calling!State(c, 0) \in Calling!Timeouts =>
           /\ Calling!Started(c) = Calling!Models
           /\ \A t \in Calling!Tasks : Calling!State(c, t) \in Calling!Timeouts
      /\ \A t \in Calling!Tasks : Calling!State(c, t) # "running"
  <2>1. CASE Calling!End(c)
    BY <1>1, <2>1, CallsTyped DEF Calling!End, CallInv, CallOpened, Calling!Ended,
       Calling!Timeouts
  <2>2. CASE Calling!TryOriginal(c)
    BY <1>1, <2>2, CallsTyped DEF Calling!TryOriginal, CallInv, CallOpened, Calling!Ended,
       Calling!Timeouts, Calling!Started
  <2>3. CASE Calling!AllTimedOut(c)
    <3>1. w1.racing /\ Calling!Started(c) = Calling!Models
      BY <1>1, <2>3 DEF Calling!AllTimedOut, CallInv, CallOpened, Calling!Last
    <3>2. ASSUME NEW t \in Calling!Tasks PROVE Calling!State(c, t) \in Calling!Timeouts
      <4>1. Calling!State(c, t) # "none"
        BY <1>1, <3>1, CallsTyped DEF CallInv, CallOpened, Calling!Started
      <4> QED BY <1>1, <2>3, <4>1 DEF Calling!AllTimedOut, CallInv, CallOpened
    <3> QED BY <3>1, <3>2, CallsTyped, <1>1 DEF Calling!Ended, Calling!Timeouts
  <2> QED BY <2>1, <2>2, <2>3
<1>8. CallInv(c)'
  BY <1>1, <1>2, <1>3, <1>5, <1>6, <1>7, CallsTyped
     DEF CallInv, CallOpened, CallClosed, CallOpen, Calling!Last, Calling!Live,
         Calling!Ended, Calling!Timeouts
<1> QED BY <1>1, <1>2, <1>4, <1>5, <1>8, OneCall

(* A fallback joins those the race waits for; of them, only tasks that      *)
(* timed out may leave.                                                     *)
LEMMA CallJoins ==
  ASSUME Calling!Numbered, CallsInv, NEW c \in Calling!Calls, NEW t \in Calling!Models,
         NEW W \in SUBSET w4[c],
         w2[c] \in {"first", "race"},
         \A u \in w4[c] \ W : Calling!State(c, u) \in Calling!Timeouts,
         Calling!StartFallback(c, t, W), UNCHANGED <<w1, w5, w6, w7>>
  PROVE  CallsInv'
<1>1. CallTypes /\ CallInv(c) /\ CallOpen(c) /\ w2[c] # "queued" /\ w1.racing
  BY DEF CallsInv, CallInv, CallOpened, CallOpen
<1>2. Calling!Calls' = Calling!Calls /\ Calling!Tasks' = Calling!Tasks /\ Calling!Models' = Calling!Models
  BY SameCalls
<1>3. t \in Calling!Tasks /\ 0 \in Calling!Tasks /\ t # 0
  BY <1>1, CallsTyped
<1>4. CallTypes'
  <2>1. w3' \in CallTable
    BY <1>1, <1>3, CallStarts DEF Calling!StartFallback, Calling!Start
  <2> QED BY <1>1, <1>2, <1>3, <2>1 DEF CallTypes, Calling!StartFallback, CallTable
<1>5. /\ Calling!State(c, t)' = "running"
      /\ \A u \in Calling!Tasks \ {t} : Calling!State(c, u)' = Calling!State(c, u)
      /\ w2'[c] = "race" /\ w4'[c] = W \cup {t}
      /\ \A d \in Calling!Calls \ {c} : /\ w2'[d] = w2[d] /\ w3'[d] = w3[d]
                                /\ w4'[d] = w4[d]
  BY <1>1, <1>3 DEF CallTypes, Calling!StartFallback, Calling!Start, Calling!State
<1>6. CallInv(c)'
  <2>1. ASSUME NEW u \in Calling!Tasks, Calling!State(c, u)' # "none"
        PROVE  u \in w4'[c] \/ Calling!State(c, u)' \in Calling!Timeouts
    <3>1. CASE u = t
      BY <1>5, <3>1
    <3>2. CASE u # t
      <4>1. u \in w4[c] \/ Calling!State(c, u) \in Calling!Timeouts
        BY <1>1, <1>5, <2>1, <3>2, CallsTyped DEF CallInv, CallOpened, Calling!Started
      <4> QED BY <1>5, <3>2, <4>1
    <3> QED BY <3>1, <3>2
  <2>2. (\A u \in Calling!Tasks : Calling!State(c, u)' # "cancelled") /\ Calling!State(c, 0)' # "none"
    BY <1>1, <1>3, <1>5 DEF CallInv, CallOpened
  <2>3. w5'[c] = Calling!None
    BY <1>1 DEF CallInv, CallOpened
  <2> QED BY <1>1, <1>2, <1>5, <2>1, <2>2, <2>3 DEF CallInv, CallOpened, CallClosed, CallOpen,
             Calling!Timeouts
<1> QED BY <1>1, <1>4, <1>5, <1>6, OneCall

LEMMA CallTimesOut ==
  ASSUME Calling!Numbered, CallsInv, NEW c \in Calling!Calls, Calling!SoftTimeout(c)
  PROVE  CallsInv'
<1>1. CallTypes /\ CallInv(c) /\ w2[c] = "first"
  BY DEF CallsInv, Calling!SoftTimeout
<1>2. w4[c] = {0} /\ 1 \in Calling!Models
  BY <1>1, CallsTyped DEF CallInv, CallOpened, CallOpen
<1> QED BY <1>1, <1>2, CallJoins DEF Calling!SoftTimeout

LEMMA CallFallsBack ==
  ASSUME Calling!Numbered, CallsInv, NEW c \in Calling!Calls, Calling!NextFallback(c)
  PROVE  CallsInv'
<1>1. CallTypes /\ CallInv(c) /\ CallOpen(c) /\ w2[c] = "race"
  BY DEF CallsInv, Calling!NextFallback, CallOpen
<1>2. ASSUME NEW u \in Calling!Done(c) PROVE Calling!State(c, u) \in Calling!Timeouts
  <2>1. u \in w4[c] /\ u \in Calling!Tasks /\ Calling!State(c, u) \in Calling!Ended
    BY <1>1 DEF Calling!Done, CallTypes
  <2> QED BY <1>1, <2>1 DEF Calling!NextFallback, Calling!Completed, Calling!Ended, CallInv,
             CallOpened
<1>3. Cardinality(Calling!Started(c)) + 1 \in Calling!Models
  <2>1. PICK m \in Nat : Calling!Models = 1 .. m /\ Cardinality(Calling!Models) = m
    BY <1>1, CallsTyped
  <2>2. Calling!Started(c) \subseteq Calling!Models /\ Calling!Started(c) # Calling!Models
    BY DEF Calling!Started, Calling!NextFallback, Calling!Last
  <2>3. Cardinality(Calling!Started(c)) \in Nat /\ Cardinality(Calling!Started(c)) < m
    BY <1>1, <2>1, <2>2, CallsTyped, FS_Subset, FS_CardinalityType
  <2> QED BY <2>1, <2>3
<1>4. Calling!Cardinality(Calling!Started(c)) + 1 \in Calling!Models
  BY <1>3, SameCount
<1> QED BY <1>1, <1>2, <1>4, CallJoins DEF Calling!NextFallback

LEMMA CallGivesUp ==
  ASSUME Calling!Numbered, CallsInv, NEW c \in Calling!Calls, Calling!NoMoreFallbacks(c)
  PROVE  CallsInv'
<1>1. CallTypes /\ CallInv(c) /\ CallOpen(c) /\ w2[c] # "queued" /\ w1.racing /\ Calling!Last(c)
  BY DEF CallsInv, CallInv, CallOpened, Calling!NoMoreFallbacks, CallOpen
<1>2. ASSUME NEW u \in Calling!Done(c) PROVE Calling!State(c, u) \in Calling!Timeouts
  <2>1. u \in w4[c] /\ u \in Calling!Tasks /\ Calling!State(c, u) \in Calling!Ended
    BY <1>1 DEF Calling!Done, CallTypes
  <2> QED BY <1>1, <2>1 DEF Calling!NoMoreFallbacks, Calling!Completed, Calling!Ended,
             CallInv, CallOpened
<1>3. Calling!Calls' = Calling!Calls /\ Calling!Tasks' = Calling!Tasks /\ Calling!Models' = Calling!Models
  BY SameCalls DEF Calling!NoMoreFallbacks
<1>4. CallTypes'
  BY <1>1, <1>3 DEF CallTypes, Calling!NoMoreFallbacks
<1>5. /\ \A t : Calling!State(c, t)' = Calling!State(c, t)
      /\ w2'[c] = "rest" /\ w4'[c] = w4[c] \ Calling!Done(c)
      /\ \A d \in Calling!Calls \ {c} : w2'[d] = w2[d] /\ w4'[d] = w4[d]
      /\ UNCHANGED <<w1, w3, w5, w6, w7>>
  BY <1>1 DEF CallTypes, Calling!NoMoreFallbacks, Calling!State
<1>6. CallInv(c)'
  <2>1. ASSUME NEW u \in Calling!Tasks, Calling!State(c, u)' # "none"
        PROVE  u \in w4'[c] \/ Calling!State(c, u)' \in Calling!Timeouts
    BY <1>1, <1>2, <1>5, <2>1 DEF CallInv, CallOpened, Calling!NoMoreFallbacks
  <2>2. Calling!Started(c)' = Calling!Models'
    BY <1>1, <1>3, <1>5 DEF Calling!Started, Calling!Last
  <2> QED BY <1>1, <1>3, <1>5, <2>1, <2>2
       DEF CallInv, CallOpened, CallClosed, CallOpen, Calling!Last, Calling!Timeouts
<1> QED BY <1>1, <1>4, <1>5, <1>6, OneCall

(* A race that completes: what its endpoint cancels runs on only as a retry. *)
LEMMA RaceEnds ==
  ASSUME Calling!Numbered, CallsInv, NEW c \in Calling!Calls, Calling!RaceCompletes(c)
  PROVE  CallsInv'
<1>1. CallTypes /\ CallInv(c) /\ CallOpen(c) /\ w2[c] # "queued" /\ w1.racing
  BY DEF CallsInv, CallInv, CallOpened, Calling!RaceCompletes, CallOpen
<1>2. PICK t \in Calling!Completed(c) : Calling!Complete(c, t)
  BY DEF Calling!RaceCompletes
<1>3. t \in Calling!Tasks /\ Calling!State(c, t) \in {"ok", "error"}
  BY <1>1 DEF Calling!Completed, Calling!Done, CallTypes
<1>4. Calling!Calls' = Calling!Calls /\ Calling!Tasks' = Calling!Tasks /\ Calling!Models' = Calling!Models
  BY SameCalls DEF Calling!RaceCompletes
<1>5. /\ w2'[c] = "ended" /\ w5'[c] = t /\ w4' = w4 /\ w1' = w1
      /\ \A d \in Calling!Calls \ {c} : w2'[d] = w2[d] /\ w5'[d] = w5[d]
  BY <1>1, <1>2 DEF CallTypes, Calling!Complete, Calling!RaceCompletes
<1>6. PICK row \in [Calling!Tasks -> [state : CallStates, attempts : Nat]] :
        /\ w3' = [w3 EXCEPT ![c] = row]
        /\ row[t] = w3[c][t]
        /\ w1.cancelPending => \A u \in Calling!Tasks : row[u].state = "running" =>
             row[u].attempts \in 1 .. Calling!Attempts(u) - 1
  <2>1. CASE ~w1.cancelPending
    <3>1. w3[c] \in [Calling!Tasks -> [state : CallStates, attempts : Nat]] /\ w3' = [w3 EXCEPT ![c] = w3[c]]
      BY <1>1, <1>2, <2>1 DEF CallTypes, Calling!Complete
    <3> QED BY <2>1, <3>1
  <2>2. CASE w1.cancelPending
    <3>1. PICK amid \in SUBSET {u \in Calling!Pending(c) : ~Calling!Bare(u)} :
            w3' = [w3 EXCEPT ![c] = Calling!Cancel(c, amid)]
      BY <1>2, <2>2 DEF Calling!Complete
    <3> DEFINE after == Calling!Cancel(c, amid)
    <3>2. ASSUME NEW u \in Calling!Tasks
          PROVE  /\ after[u] \in [state : CallStates, attempts : Nat]
                 /\ u = t => after[u] = w3[c][u]
                 /\ after[u].state = "running" => after[u].attempts \in 1 .. Calling!Attempts(u) - 1
      <4>1. w3[c][u] \in [state : CallStates, attempts : Nat]
        BY <1>1, CallState
      <4>2. CASE u \in amid
        <5>1. Calling!State(c, u) = "running" /\ after[u] = Calling!Interrupted(c, u)
          BY <4>2 DEF Calling!Cancel, Calling!Pending
        <5>2. u # t
          BY <1>3, <5>1
        <5>3. after[u].state \in {"running", "error"} /\ after[u].attempts = w3[c][u].attempts + 1
          BY <5>1 DEF Calling!Interrupted
        <5>4. after[u].state = "running" => w3[c][u].attempts + 1 < Calling!Attempts(u)
          BY <5>1 DEF Calling!Interrupted, Calling!Retries
        <5>5. after[u] = [state |-> after[u].state, attempts |-> after[u].attempts]
          BY <5>1 DEF Calling!Interrupted
        <5>6. w1 \in [calls : Nat, fallbacks : Nat, attempts : Nat, concurrency : Nat,
                      racing : BOOLEAN, cancelPending : BOOLEAN, returnExceptions : BOOLEAN]
          BY <1>1 DEF CallTypes, Calling!Numbered
        <5>7. Calling!Attempts(u) \in Nat
          BY <5>6 DEF Calling!Attempts
        <5> HIDE DEF after
        <5>8. w3[c][u].attempts \in Nat
          BY <4>1
        <5> QED BY <5>2, <5>3, <5>4, <5>5, <5>7, <5>8 DEF CallStates, Calling!Ended
      <4>3. CASE u \notin amid /\ u \in Calling!Pending(c)
        <5>1. Calling!State(c, u) = "running" /\ after[u] = [w3[c][u] EXCEPT !.state = "cancelled"]
          BY <4>3 DEF Calling!Cancel, Calling!Pending
        <5>2. u # t
          BY <1>3, <5>1
        <5> QED BY <4>1, <5>1, <5>2 DEF CallStates, Calling!Ended
      <4>4. CASE u \notin amid /\ u \notin Calling!Pending(c)
        <5>1. after[u] = w3[c][u]
          BY <4>4 DEF Calling!Cancel
        <5>2. Calling!State(c, u) # "running"
          <6>1. CASE u \in w4[c]
            BY <4>4, <6>1 DEF Calling!Pending
          <6>2. CASE u \notin w4[c]
            BY <1>1, <6>2 DEF Calling!RaceCompletes, CallInv, CallOpened, Calling!Timeouts
          <6> QED BY <6>1, <6>2
        <5> QED BY <4>1, <5>1, <5>2 DEF Calling!State
      <4> QED BY <4>2, <4>3, <4>4
    <3>3. after = [u \in Calling!Tasks |-> after[u]]
      BY DEF Calling!Cancel
    <3> HIDE DEF after
    <3>4. after \in [Calling!Tasks -> [state : CallStates, attempts : Nat]]
      BY <3>2, <3>3
    <3> QED BY <1>3, <3>1, <3>2, <3>4 DEF after
  <2> QED BY <2>1, <2>2
<1>7. CallTypes'
  <2>1. w3' \in CallTable
    BY <1>1, <1>6 DEF CallTypes, CallTable
  <2> QED BY <1>1, <1>2, <1>3, <1>4, <2>1 DEF CallTypes, Calling!Complete,
             Calling!RaceCompletes, CallTable
<1>8. /\ \A u \in Calling!Tasks : w3'[c][u] = row[u]
      /\ \A d \in Calling!Calls \ {c} : w3'[d] = w3[d]
  BY <1>1, <1>6 DEF CallTypes
<1>9. Calling!State(c, t)' = Calling!State(c, t)
  BY <1>3, <1>6, <1>8 DEF Calling!State
<1>10. \A u : Calling!Attempts(u)' = Calling!Attempts(u)
  BY <1>5 DEF Calling!Attempts, Calling!Bare
<1>11. w1.cancelPending => \A u \in Calling!Tasks : Calling!Live(c, u)' =>
         w3'[c][u].attempts \in 1 .. Calling!Attempts(u)' - 1
  BY <1>6, <1>8, <1>10 DEF Calling!Live, Calling!State
<1>12. CallInv(c)'
  BY <1>3, <1>4, <1>5, <1>9, <1>11
     DEF CallInv, CallOpened, CallClosed, CallOpen, Calling!Timeouts, Calling!Ended
<1> QED BY <1>1, <1>5, <1>7, <1>8, <1>12, OneCall DEF Calling!RaceCompletes

LEMMA CallAttempts ==
  ASSUME Calling!Numbered, CallsInv, NEW c \in Calling!Calls, NEW t \in Calling!Tasks, Calling!Attempt(c, t)
  PROVE  CallsInv'
<1>1. CallTypes /\ CallInv(c) /\ Calling!State(c, t) = "running"
  BY DEF CallsInv, Calling!Attempt
<1>2. PICK s \in {"ok", "error", "running"} \cup Calling!Timeouts :
        /\ w3' = [w3 EXCEPT ![c][t] = [state |-> s, attempts |-> @.attempts + 1]]
        /\ s = "running" => w3[c][t].attempts + 1 < Calling!Attempts(t)
  BY DEF Calling!Attempt, Calling!Retries, Calling!Timeouts
<1>3. UNCHANGED <<w1, w2, w4, w5, w6, w7>>
  BY DEF Calling!Attempt
<1>4. Calling!Calls' = Calling!Calls /\ Calling!Tasks' = Calling!Tasks /\ Calling!Models' = Calling!Models
  BY <1>3, SameCalls
<1>5. CallTypes'
  <2>1. w3[c][t].attempts + 1 \in Nat /\ s \in CallStates
    BY <1>1, <1>2, CallState DEF CallStates, Calling!Ended
  <2> QED BY <1>1, <1>2, <1>3, <1>4, <2>1 DEF CallTypes
<1>6. /\ Calling!State(c, t)' = s
      /\ \A u \in Calling!Tasks \ {t} : Calling!State(c, u)' = Calling!State(c, u)
      /\ \A d \in Calling!Calls \ {c} : w3'[d] = w3[d]
  BY <1>1, <1>2 DEF CallTypes, Calling!State
<1>7. s # "none" /\ s # "cancelled"
  BY <1>2 DEF Calling!Timeouts
<1>8. Calling!Models \subseteq Calling!Tasks \/ ~w1.racing
  BY <1>1, CallsTyped
<1>9. w1.racing => Calling!Started(c)' = Calling!Started(c)
  BY <1>1, <1>4, <1>6, <1>7, <1>8 DEF Calling!Started
<1>10. CASE CallOpen(c)
  <2>1. ASSUME NEW u \in Calling!Tasks
        PROVE  /\ Calling!State(c, u)' # "cancelled"
               /\ Calling!State(c, u)' = "none" <=> Calling!State(c, u) = "none"
    BY <1>1, <1>6, <1>7, <1>10 DEF CallInv, CallOpened
  <2>2. w2[c] \in {"race", "rest"} =>
          \A u \in Calling!Tasks : Calling!State(c, u)' # "none" =>
            u \in w4[c] \/ Calling!State(c, u)' \in Calling!Timeouts
    BY <1>1, <1>6, <1>10 DEF CallInv, CallOpened, Calling!Timeouts
  <2>3. 0 \in Calling!Tasks
    BY <1>1, CallsTyped
  <2>4. CallInv(c)'
    BY <1>1, <1>3, <1>4, <1>9, <1>10, <2>1, <2>2, <2>3
       DEF CallInv, CallOpened, CallClosed, CallOpen, Calling!Last
  <2> QED BY <1>3, <1>5, <1>6, <1>10, <2>4, OneCall
<1>11. CASE ~CallOpen(c)
  <2>1. /\ w5[c] \in Calling!Tasks /\ w5[c] # t /\ Calling!State(c, w5[c])' = Calling!State(c, w5[c])
        /\ ~(w1.racing /\ Calling!Started(c) # {} /\ Calling!State(c, w5[c]) \in Calling!Timeouts)
    BY <1>1, <1>3, <1>6, <1>11 DEF CallInv, CallClosed, Calling!Timeouts, Calling!Ended
  <2>4. ASSUME w1.cancelPending, NEW u \in Calling!Tasks, Calling!Live(c, u)'
        PROVE  w3'[c][u].attempts \in 1 .. Calling!Attempts(u)' - 1
    <3>1. Calling!Attempts(u)' = Calling!Attempts(u)
      BY <1>3 DEF Calling!Attempts, Calling!Bare
    <3>2. CASE u # t
      <4>1. w3'[c][u] = w3[c][u]
        BY <1>1, <1>2, <3>2 DEF CallTypes
      <4> QED BY <1>1, <1>11, <2>4, <3>1, <4>1 DEF CallInv, CallClosed, Calling!Live, Calling!State
    <3>3. CASE u = t
      <4>1. w3'[c][t].attempts = w3[c][t].attempts + 1 /\ w3[c][t].attempts \in Nat
        BY <1>1, <1>2, CallState DEF CallTypes
      <4>2. w3[c][t].attempts + 1 < Calling!Attempts(t)
        BY <1>2, <1>6, <2>4, <3>3 DEF Calling!Live
      <4>3. w1 \in [calls : Nat, fallbacks : Nat, attempts : Nat, concurrency : Nat,
                    racing : BOOLEAN, cancelPending : BOOLEAN, returnExceptions : BOOLEAN]
        BY <1>1 DEF CallTypes, Calling!Numbered
      <4>4. Calling!Attempts(t) \in Nat
        BY <4>3 DEF Calling!Attempts
      <4> QED BY <3>1, <3>3, <4>1, <4>2, <4>4
    <3> QED BY <3>2, <3>3
  <2>2. CallInv(c)'
    BY <1>1, <1>3, <1>4, <1>6, <1>9, <1>11, <2>1, <2>4
       DEF CallInv, CallOpened, CallClosed, CallOpen
  <2>3. Calling!Raised(c)' = Calling!Raised(c)
    BY <1>3, <2>1 DEF Calling!Raised
  <2> QED BY <1>3, <1>5, <1>6, <2>2, <2>3, OneCall
<1> QED BY <1>10, <1>11

-----------------------------------------------------------------------------
(* The steps of the batch                                                   *)

LEMMA BatchSteps ==
  ASSUME Calling!Numbered, CallsInv,
         \/ Calling!BatchRaises \/ Calling!BatchReturns
         \/ \E c \in Calling!Calls : Calling!Parse(c) \/ Calling!Fix(c)
  PROVE  CallsInv'
<1>1. UNCHANGED <<w1, w2, w3, w4, w5>>
  BY DEF Calling!BatchRaises, Calling!BatchReturns, Calling!Parse, Calling!Fix
<1>2. Calling!Calls' = Calling!Calls /\ Calling!Tasks' = Calling!Tasks /\ Calling!Models' = Calling!Models
  BY <1>1, SameCalls
<1>3. \A d \in Calling!Calls : CallInv(d)'
  BY <1>1, <1>2, SameCall DEF CallsInv
<1>4. /\ CallsWorking' = CallsWorking /\ Calling!Answered' = Calling!Answered
      /\ \A d \in Calling!Calls : Calling!Raised(d)' = Calling!Raised(d)
  BY <1>1, <1>2 DEF CallsWorking, Calling!Answered, Calling!Raised, Calling!State
<1>5. CASE Calling!BatchRaises \/ Calling!BatchReturns
  <2>1. w6' = w6 /\ CallTypes'
    BY <1>1, <1>2, <1>5 DEF CallsInv, CallTypes, Calling!BatchRaises, Calling!BatchReturns
  <2>2. Calling!Results' = Calling!Results /\ \A d \in Calling!Calls : Calling!Judged(d)' = Calling!Judged(d)
    BY <1>2, <1>4, <2>1 DEF Calling!Results, Calling!Judged
  <2>3. w7'.state = "returned" =>
          Calling!Answered /\ (\A c \in Calling!Calls : Calling!Judged(c)) /\ w7'.results = Calling!Results
    BY <1>5 DEF CallsInv, CallTypes, Calling!BatchRaises, Calling!BatchReturns
  <2>4. BatchInv'
    BY <1>1, <1>2, <1>4, <2>1, <2>2, <2>3 DEF CallsInv, BatchInv
  <2> QED BY <1>2, <1>3, <2>1, <2>4 DEF CallsInv
<1>6. CASE \E c \in Calling!Calls : Calling!Parse(c) \/ Calling!Fix(c)
  <2>1. PICK c \in Calling!Calls : Calling!Parse(c) \/ Calling!Fix(c)
    BY <1>6
  <2>2. PICK p \in {"parsed", "fixing", "failed"} : w6' = [w6 EXCEPT ![c] = p]
    BY <2>1 DEF Calling!Parse, Calling!Fix
  <2>3. w7' = w7 /\ Calling!Answered /\ ~Calling!Raised(c) /\ w7.state # "returned"
    BY <2>1 DEF Calling!Parse, Calling!Fix, CallsInv, BatchInv, Calling!Judged
  <2>4. CallTypes'
    BY <1>1, <1>2, <2>2, <2>3 DEF CallsInv, CallTypes
  <2>5. BatchInv'
    BY <1>1, <1>2, <1>4, <2>2, <2>3 DEF CallsInv, BatchInv, CallTypes
  <2> QED BY <1>2, <1>3, <2>4, <2>5 DEF CallsInv
<1> QED BY <1>5, <1>6

LEMMA CallsNext ==
  ASSUME Calling!Numbered, CallsInv, [Calling!Next]_Calling!vars
  PROVE  CallsInv'
<1>1. ASSUME NEW c \in Calling!Calls, Calling!Step(c) PROVE CallsInv'
  BY <1>1, CallEnters, CallEnds, CallTimesOut, RaceEnds, CallFallsBack, CallGivesUp,
     BatchSteps DEF Calling!Step
<1>2. CASE UNCHANGED Calling!vars
  <2>1. UNCHANGED <<w1, w2, w3, w4, w5, w6, w7>>
    BY <1>2 DEF Calling!vars
  <2>2. \A d \in Calling!Calls : CallInv(d)'
    BY <2>1, SameCall, SameCalls DEF CallsInv
  <2>3. BatchInv' /\ CallTypes'
    BY <2>1 DEF CallsInv, BatchInv, CallTypes, Calling!Calls, Calling!Tasks, Calling!Models,
       Calling!Answered, Calling!Raised, Calling!State, Calling!Judged,
                Calling!Results, CallsWorking
  <2> QED BY <2>1, <2>2, <2>3, SameCalls DEF CallsInv
<1> QED BY <1>1, <1>2, CallAttempts, BatchSteps DEF Calling!Next

-----------------------------------------------------------------------------
LEMMA CallsPromise == ASSUME Calling!Numbered, CallsInv PROVE Calling!CallsSound
<1>1. Calling!SlowIsOutlived
  BY DEF CallsInv, CallInv, CallOpened, CallClosed, CallOpen, Calling!SlowIsOutlived,
     Calling!Last
<1>2. Calling!OnlyRetriesGoOn
  BY DEF CallsInv, CallInv, CallClosed, CallOpen, Calling!OnlyRetriesGoOn
<1>3. Calling!BatchAligned
  <2>1. w1.calls \in Nat
    BY CallsTyped DEF CallsInv
  <2>2. Len(Calling!Results) = w1.calls
    BY <2>1 DEF Calling!Results, Calling!Calls
  <2>3. ASSUME NEW c \in Calling!Calls
        PROVE  Calling!Results[c].of = c /\ Calling!Results[c].ok = (w6[c] = "parsed")
    BY DEF Calling!Results
  <2>4. \A c \in Calling!Calls : w6[c] = "parsed" => ~Calling!Raised(c)
    BY DEF CallsInv, BatchInv
  <2> QED BY <2>2, <2>3, <2>4, SameCount DEF CallsInv, BatchInv, Calling!BatchAligned,
                                             CallsWorking
<1> QED BY <1>1, <1>2, <1>3 DEF Calling!CallsSound

(* A racing call ends in a timeout only when every model it could ask timed     *)
(* out; of the models that an endpoint cancels only retries go on, within their *)
(* attempts; and the results of a batch are in the order of its inputs, within  *)
(* its concurrency, for any number of calls, fallbacks and attempts (retry.py,  *)
(* endpoints.py, builders.py).                                                  *)
THEOREM CallsKeepTheirPromises == ServicesSpec => []CallsSound
<1> DEFINE Inv == machine = "calls" => CallsInv
<1>1. ServicesInit => Inv
  BY ServicesAssumption, CallsStart DEF ServicesInit
<1>2. Inv /\ [ServicesNext]_all => Inv'
  <2> SUFFICES ASSUME Inv, [ServicesNext]_all, machine' = "calls" PROVE CallsInv'
    OBVIOUS
  <2>1. CASE RunCalls
    BY <2>1, ServicesAssumption, CallsNext DEF RunCalls
  <2>2. CASE UNCHANGED all
    BY <2>2, ServicesAssumption, CallsNext DEF all, w, Calling!vars
  <2> QED
    BY <2>1, <2>2 DEF ServicesNext, Round, RunHeap, RunEnv, RunEndpoints, RunSnippets,
       RunJudgements, RunFusing, RunLoader, RunFetchers, Rest4, Rest5, Rest6, Rest7, Rest8
<1>3. Inv => CallsSound
  BY ServicesAssumption, CallsPromise DEF CallsSound
<1> QED BY <1>1, <1>2, <1>3, PTL DEF ServicesSpec

-----------------------------------------------------------------------------
(* Collections of documents: DocumentFusing_proofs is about any documents that  *)
(* the sources find; what is proved there of its variables is used here of      *)
(* those of w.                                                                  *)
Fused == INSTANCE DocumentFusing_proofs WITH
    docs <- w1, origins <- w2, lists <- w3, colls <- w4, call <- w5

(* The collections of DocumentFusing_proofs are those of DocumentFusing: what   *)
(* is defined there of a store, and then of the variables, is the same.         *)
LEMMA StoresAreTheSame ==
  /\ \A S : Fused!Cardinality(S) = Fusing!Cardinality(S)
  /\ \A x : Fused!Members(x) = Fusing!Members(x)
  /\ \A S, b : Fused!InOrder(S, b) = Fusing!InOrder(S, b)
  /\ \A S : Fused!Rising(S) = Fusing!Rising(S)
  /\ \A s, list, cloned : Fused!JoinAll(s, list, cloned) = Fusing!JoinAll(s, list, cloned)
<1>1. \A S : Fused!Cardinality(S) = Fusing!Cardinality(S)
  BY DEF Fused!Cardinality, Fusing!Cardinality
<1>2. \A x : Fused!Members(x) = Fusing!Members(x)
  BY DEF Fused!Members, Fusing!Members
<1>3. \A S, b : Fused!InOrder(S, b) = Fusing!InOrder(S, b)
  BY DEF Fused!InOrder, Fusing!InOrder, Fused!Cardinality, Fusing!Cardinality
<1>4. \A S : Fused!Rising(S) = Fusing!Rising(S)
  BY <1>3 DEF Fused!Rising, Fusing!Rising
<1>5. \A x : Fused!Firsts(x) = Fusing!Firsts(x)
  BY DEF Fused!Firsts, Fusing!Firsts
<1>6. \A s, list : Fused!FuseOriginQuery(s, list) = Fusing!FuseOriginQuery(s, list)
  BY DEF Fused!FuseOriginQuery, Fusing!FuseOriginQuery, Fused!Firsts, Fusing!Firsts,
         Fused!Rising, Fusing!Rising, Fused!InOrder, Fusing!InOrder,
         Fused!Cardinality, Fusing!Cardinality
<1>7. \A s, t : Fused!Earlier(s, t) <=> Fusing!Earlier(s, t)
  BY DEF Fused!Earlier, Fusing!Earlier, Fused!SortKey, Fusing!SortKey, Fused!None, Fusing!None
<1>8. \A s : Fused!CleanOverlaps(s) = Fusing!CleanOverlaps(s)
  BY DEF Fused!CleanOverlaps, Fusing!CleanOverlaps, Fused!Overlap, Fusing!Overlap,
         Fused!None, Fusing!None
<1>9. \A list : Fused!FuseSnippet(list) = Fusing!FuseSnippet(list)
  BY <1>3, <1>5, <1>7, <1>8 DEF Fused!FuseSnippet, Fusing!FuseSnippet
<1>10. \A s, d, e : Fused!Fuse(s, d, e) = Fusing!Fuse(s, d, e)
  BY <1>6, <1>9 DEF Fused!Fuse, Fusing!Fuse, Fused!TakeFirst, Fusing!TakeFirst,
                    Fused!Unloaded, Fusing!Unloaded
<1>11. \A s, d, cloned : Fused!Join(s, d, cloned) = Fusing!Join(s, d, cloned)
  BY <1>10 DEF Fused!Join, Fusing!Join, Fused!Add, Fusing!Add, Fused!Clone, Fusing!Clone,
               Fused!Take, Fusing!Take, Fused!Members, Fusing!Members
<1>12. \A s, list, cloned : Fused!JoinAll(s, list, cloned) = Fusing!JoinAll(s, list, cloned)
  BY <1>11, ZenonT(60) DEF Fused!JoinAll, Fusing!JoinAll
<1> QED BY <1>1, <1>2, <1>3, <1>4, <1>12

LEMMA FusingIsTheSame ==
  /\ Fused!Sourced <=> Fusing!Sourced
  /\ Fused!Init <=> Fusing!Init
  /\ Fused!Next <=> Fusing!Next
  /\ Fused!FusingStep <=> Fusing!FusingStep
<1>1. Fused!None = Fusing!None /\ Fused!Unloaded = Fusing!Unloaded /\ Fused!Own = Fusing!Own
  BY DEF Fused!None, Fusing!None, Fused!Unloaded, Fusing!Unloaded, Fused!Own, Fusing!Own
<1>2. Fused!Sourced <=> Fusing!Sourced
  BY <1>1, StoresAreTheSame DEF Fused!Sourced, Fusing!Sourced, Fused!Snippets, Fusing!Snippets
<1>3. Fused!Init <=> Fusing!Init
  BY DEF Fused!Init, Fusing!Init
<1>4. /\ \A r : Fused!Store(r) = Fusing!Store(r)
      /\ \A op, with, raised : Fused!Calls(op, with, raised) <=> Fusing!Calls(op, with, raised)
      /\ \A s, f, r : Fused!Made(s, f, r) <=> Fusing!Made(s, f, r)
  BY DEF Fused!Store, Fusing!Store, Fused!Calls, Fusing!Calls, Fused!Made, Fusing!Made
<1>5. \A cs : Fused!Computed(cs) = Fusing!Computed(cs) /\ Fused!TheOne(cs) = Fusing!TheOne(cs)
  BY <1>1 DEF Fused!Computed, Fusing!Computed, Fused!TheOne, Fusing!TheOne
<1>6. \A cs : Fused!Together(cs) = Fusing!Together(cs)
  BY DEF Fused!Together, Fusing!Together
<1>7. Fused!FromDocs <=> Fusing!FromDocs
  BY <1>1, <1>4, StoresAreTheSame DEF Fused!FromDocs, Fusing!FromDocs
<1>8. \A a, others : Fused!Merged(a, others) <=> Fusing!Merged(a, others)
  BY <1>4, <1>5, <1>6, StoresAreTheSame DEF Fused!Merged, Fusing!Merged
<1>9. \A cs : Fused!FactoryMerge(cs) <=> Fusing!FactoryMerge(cs)
  BY <1>1, <1>4, <1>5, <1>6, StoresAreTheSame DEF Fused!FactoryMerge, Fusing!FactoryMerge
<1>10. \A a, others : Fused!MergeRaises(a, others) <=> Fusing!MergeRaises(a, others)
  <2> SUFFICES ASSUME NEW a, NEW others
               PROVE  Fused!MergeRaises(a, others) <=> Fusing!MergeRaises(a, others)
    OBVIOUS
  <2> DEFINE Fit == {n \in 0 .. Len(others) :
                 Fused!Cardinality(Fused!Computed({a} \cup Fused!Members(SubSeq(others, 1, n)))) <= 1}
             Fitting == {n \in 0 .. Len(others) :
                 Fusing!Cardinality(Fusing!Computed({a} \cup Fusing!Members(SubSeq(others, 1, n)))) <= 1}
             Last(S) == CHOOSE n \in S : \A m \in S : m <= n
             Made(n) == Fusing!JoinAll(Fusing!Store(w4[a].docs),
                                       Fusing!Together(SubSeq(others, 1, n)), TRUE)
             Alike(n) == w1' = Made(n).docs /\ w2' = Made(n).origins
             Fails == /\ Fusing!Cardinality(Fusing!Computed({a} \cup Fusing!Members(others))) > 1
                      /\ Fusing!Calls("merged", <<a>> \o others, TRUE)
                      /\ UNCHANGED <<w3, w4>>
  <2>1. Fit = Fitting
    BY DEF Fused!Computed, Fusing!Computed, Fused!Members, Fusing!Members, Fused!Cardinality,
           Fusing!Cardinality, Fused!None, Fusing!None
  <2>2. Fusing!MergeRaises(a, others) <=> Fails /\ Alike(Last(Fitting))
    BY DEF Fusing!MergeRaises
  <2>3. Fused!MergeRaises(a, others) <=> Fails /\ Alike(Last(Fit))
    <3>1. Fused!Calls("merged", <<a>> \o others, TRUE) <=> Fusing!Calls("merged", <<a>> \o others, TRUE)
      BY <1>4
    <3>2. \A n : Fused!JoinAll(Fused!Store(w4[a].docs), Fused!Together(SubSeq(others, 1, n)), TRUE)
                = Made(n)
      BY <1>4, <1>6, StoresAreTheSame
    <3>3. Fused!Cardinality(Fused!Computed({a} \cup Fused!Members(others)))
            = Fusing!Cardinality(Fusing!Computed({a} \cup Fusing!Members(others)))
      BY <1>5, StoresAreTheSame
    <3> QED BY <3>1, <3>2, <3>3 DEF Fused!MergeRaises
  <2> HIDE DEF Fit, Fitting, Fails, Alike
  <2> QED BY <2>1, <2>2, <2>3
<1>11. \A d : Fused!Of(d) = Fusing!Of(d) /\ Fused!Relevant(d) = Fusing!Relevant(d)
  BY DEF Fused!Of, Fusing!Of, Fused!Relevant, Fusing!Relevant
<1>12. \A list, ids : Fused!Without(list, ids) = Fusing!Without(list, ids)
  BY <1>11, StoresAreTheSame DEF Fused!Without, Fusing!Without
<1>13. \A a, b : Fused!Subtract(a, b) <=> Fusing!Subtract(a, b)
  BY <1>4, <1>11, <1>12, StoresAreTheSame DEF Fused!Subtract, Fusing!Subtract
<1>14. \A list, n, method : Fused!Samples(list, n, method) = Fusing!Samples(list, n, method)
  <2> SUFFICES ASSUME NEW list, NEW n, NEW method
               PROVE  Fused!Samples(list, n, method) = Fusing!Samples(list, n, method)
    OBVIOUS
  <2>1. \A l, less : Fused!SortedBy(l, less) = Fusing!SortedBy(l, less)
    BY StoresAreTheSame DEF Fused!SortedBy, Fusing!SortedBy
  <2>2. Fused!Members(list) = Fusing!Members(list)
    BY StoresAreTheSame
  <2>3. \A S : Fused!ByRelevance(S) = Fusing!ByRelevance(S)
    BY DEF Fused!ByRelevance, Fusing!ByRelevance, Fused!Relevant, Fusing!Relevant,
           Fused!Of, Fusing!Of
  <2>4. \A d : Fused!Group(d) = Fusing!Group(d)
    BY <1>1, <1>11 DEF Fused!Group, Fusing!Group
  <2>5. /\ \A l, i : Fused!After(l, i) = Fusing!After(l, i)
        /\ \A l, d : Fused!PlaceIn(l, d) = Fusing!PlaceIn(l, d)
    BY <2>4, StoresAreTheSame DEF Fused!After, Fusing!After, Fused!PlaceIn, Fusing!PlaceIn
  <2>6. Fused!ByOrigin(list) = Fusing!ByOrigin(list)
    BY <1>11, <2>2, <2>5 DEF Fused!ByOrigin, Fusing!ByOrigin
  <2> DEFINE size == IF n < Len(list) THEN n ELSE Len(list)
             Injected(M) == {s \in [1 .. size -> M] : \A i, j \in 1 .. size : s[i] = s[j] => i = j}
             Some(M) == {Fused!InOrder(T, Fused!ById(T)) :
                 T \in {U \in SUBSET M : /\ Fused!Cardinality(U) = size
                                        /\ \A d \in U, e \in M \ U :
                                               Fused!Relevant(d) >= Fused!Relevant(e)}}
             Others(M) == {Fusing!InOrder(T, Fusing!ById(T)) :
                 T \in {U \in SUBSET M : /\ Fusing!Cardinality(U) = size
                                        /\ \A d \in U, e \in M \ U :
                                               Fusing!Relevant(d) >= Fusing!Relevant(e)}}
             Sampled(M, some, best, least) ==
                 CASE method = "random" -> Injected(M)
                   [] method = "top_relevance" -> {SubSeq(best, 1, size)}
                   [] method = "random_stratified_relevance" -> some
                   [] OTHER -> {SubSeq(least, 1, size)}
  <2>7. \A M : Some(M) = Others(M)
    BY DEF Fused!InOrder, Fusing!InOrder, Fused!Cardinality, Fusing!Cardinality, Fused!ById,
           Fusing!ById, Fused!Relevant, Fusing!Relevant, Fused!Of, Fusing!Of
  <2>8. Fused!Samples(list, n, method)
          = Sampled(Fused!Members(list), Some(Fused!Members(list)),
                Fused!SortedBy(list, Fused!ByRelevance(Fused!Members(list))),
                Fused!SortedBy(list, Fused!ByOrigin(list)))
    BY DEF Fused!Samples
  <2>9. Fusing!Samples(list, n, method)
          = Sampled(Fusing!Members(list), Others(Fusing!Members(list)),
                Fusing!SortedBy(list, Fusing!ByRelevance(Fusing!Members(list))),
                Fusing!SortedBy(list, Fusing!ByOrigin(list)))
    BY DEF Fusing!Samples
  <2> HIDE DEF Some, Others, Sampled
  <2> QED BY <2>1, <2>2, <2>3, <2>6, <2>7, <2>8, <2>9
<1>15. \A a : Fused!Sample(a) <=> Fusing!Sample(a)
  BY <1>4, <1>14 DEF Fused!Sample, Fusing!Sample, Fused!Methods, Fusing!Methods
<1>16. Fused!Next <=> Fusing!Next
  BY <1>7, <1>8, <1>9, <1>10, <1>13, <1>15 DEF Fused!Next, Fusing!Next
<1>17. Fused!FusingStep <=> Fusing!FusingStep
  <2>1. Fused!KnownKept <=> Fusing!KnownKept
    BY <1>1, StoresAreTheSame DEF Fused!KnownKept, Fusing!KnownKept, Fused!Ranks, Fusing!Ranks,
       Fused!Queries, Fusing!Queries, Fused!SamePaper, Fusing!SamePaper, Fused!Members, Fusing!Members
  <2>2. Fused!OthersUntouched <=> Fusing!OthersUntouched
    BY StoresAreTheSame DEF Fused!OthersUntouched, Fusing!OthersUntouched
  <2>3. Fused!MergedComplete <=> Fusing!MergedComplete
    BY <1>1, StoresAreTheSame DEF Fused!MergedComplete, Fusing!MergedComplete, Fused!Ranks,
       Fusing!Ranks, Fused!Queries, Fusing!Queries, Fused!Shown, Fusing!Shown, Fused!Nested,
       Fusing!Nested, Fused!Members, Fusing!Members, Fused!None, Fusing!None
  <2>4. Fused!SampleFair <=> Fusing!SampleFair
    BY <1>11, StoresAreTheSame DEF Fused!SampleFair, Fusing!SampleFair, Fused!Methods, Fusing!Methods
  <2> QED BY <2>1, <2>2, <2>3, <2>4 DEF Fused!FusingStep, Fusing!FusingStep
<1> QED BY <1>2, <1>3, <1>16, <1>17

(* Whatever the sources find of however many papers, and however often what     *)
(* they found is fused, merged, subtracted and sampled: no title and no rank is *)
(* lost, nor a rank handed to another paper, what another search found stays as *)
(* it was found, a merge has every paper once with all that was known of it,    *)
(* and a sample by relevance leaves nothing out that is more relevant than what *)
(* it takes (fuse.py, document.py, collection.py, sampling.py).                 *)
THEOREM NothingKnownIsLost == ServicesSpec => FusingSound
<1> DEFINE Inv == machine = "fusing" => Fused!IInv
<1>1. ServicesInit => Inv
  BY ServicesAssumption, FusingIsTheSame, Fused!InitHolds DEF ServicesInit
<1>2. Inv /\ [ServicesNext]_all => Inv' /\ [machine = "fusing" => Fusing!FusingStep]_all
  <2> SUFFICES ASSUME Inv, [ServicesNext]_all, machine = "fusing" \/ machine' = "fusing"
               PROVE  Fused!IInv' /\ (Fusing!FusingStep \/ UNCHANGED all)
    OBVIOUS
  <2>1. CASE RunFusing
    <3>1. Fused!Sourced /\ Fused!IInv /\ Fused!Next
      BY <2>1, ServicesAssumption, FusingIsTheSame DEF RunFusing
    <3>2. Fused!Steps
      BY <3>1, Fused!NextHolds
    <3> QED BY <3>2, FusingIsTheSame DEF Fused!Steps
  <2>2. CASE UNCHANGED all
    <3>1. UNCHANGED Fused!vars /\ Fused!IInv
      BY <2>2 DEF all, w, Fused!vars
    <3> QED BY <2>2, <3>1, Fused!StutterHolds
  <2> QED
    BY <2>1, <2>2 DEF ServicesNext, Round, RunHeap, RunCalls, RunEnv, RunEndpoints, RunSnippets,
       RunJudgements, RunLoader, RunFetchers, Rest4, Rest5, Rest6, Rest7, Rest8
<1> QED BY <1>1, <1>2, PTL DEF ServicesSpec, FusingSound
=============================================================================
