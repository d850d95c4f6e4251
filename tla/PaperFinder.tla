------------------------------ MODULE PaperFinder ------------------------------
(***************************************************************************)
(* One round of the paper finder: a query is taken apart by a model        *)
(* (query_analyzer.py), routed to the planner or to one search agent, and  *)
(* asked again as a broad query when a specific paper is not found         *)
(* (PaperFinderAgent.handle_operation).                                    *)
(*                                                                         *)
(* What models, Semantic Scholar and the search agents answer is chosen    *)
(* when they are asked; each may fail.  The agents do not interact with    *)
(* the client (run_agent allows no interactions), so a refused query that  *)
(* needs a clarification is run anyway.  Of the documents only whether     *)
(* there are any is kept.                                                  *)
(***************************************************************************)
EXTENDS Naturals, Sequences

CONSTANTS Unions,    \* bound: the unions of specifications the model extracts
          ForceBroad \* query_analyzer_agent.force_broad

\* A specification in a union: of a content, of a paper of a name, of an author
\* alone, of other metadata, or of other metadata and an empty name.
SpecKinds == {"content", "named", "author", "metadata", "blank"}

ASSUME FinderAssumption == Unions \subseteq Seq(SpecKinds) /\ ForceBroad \in BOOLEAN

\* content: a clear one has more than three words and criteria; "combined" is
\* what a model made of the content and the anchor papers
Contents == {"none", "vague", "clear", "combined"}

ExtractedFields ==
  [content : {"none", "vague", "clear"}, authors : BOOLEAN,
   years   : {"none", "past", "recent"}, \* or venues, which are read as past years are;
                                         \* recent: the end of the range, or it has none
   recency : {"none", "last"},           \* "first" only agrees with recent years
   looksFor : {"broad", "name", "title"}, refusal : {"none", "clarify", "soft"}]

Types == {"UNKNOWN", "SPECIFIC_BY_TITLE", "SPECIFIC_BY_NAME", "BY_AUTHOR",
          "BROAD_BY_DESCRIPTION", "METADATA_ONLY_NO_AUTHOR"}
Specific == {"SPECIFIC_BY_TITLE", "SPECIFIC_BY_NAME"}

VARIABLES diligent, anchors, \* of the request: its mode, whether it has anchor papers
          pc,
          fields, specs,     \* what was extracted
          type, matched, name, \* the query's type, matched title and extracted name
          content,           \* its content, as it is now
          brought,           \* anchor papers were found
          path,              \* how the query is treated
          asking,            \* the type that is searched for
          asked,             \* the types searched for so far
          found,             \* whether there are documents
          failed,            \* whether anything asked has failed
          answer

request  == <<diligent, anchors>>
extract  == <<fields, specs>>
analysis == <<type, matched, name>>
search   == <<brought, path, asking, asked, found>>
vars     == <<request, pc, extract, analysis, content, search, failed, answer>>

Init ==
  /\ diligent \in BOOLEAN /\ anchors \in BOOLEAN
  /\ pc = "decompose"
  /\ fields \in {[content |-> "none", authors |-> FALSE, years |-> "none",
                  recency |-> "none", looksFor |-> "broad", refusal |-> "none"]}
  /\ specs = <<>>
  /\ type = "UNKNOWN" /\ matched = FALSE /\ name = FALSE
  /\ content = "none"
  /\ brought = FALSE /\ path = "none" /\ asking = "UNKNOWN" /\ asked = {} /\ found = FALSE
  /\ failed = FALSE /\ answer = "none"

-----------------------------------------------------------------------------
(* Analysis of the query *)

\* both extractions at once; that of specifications answers none when it fails
Decompose(f, s) ==
  /\ pc = "decompose"
  /\ fields' = IF ForceBroad THEN [f EXCEPT !.looksFor = "broad", !.authors = FALSE] ELSE f
  /\ specs' = s
  /\ content' = f.content
  /\ pc' = "route"
  /\ UNCHANGED <<request, analysis, search, failed, answer>>

Route(t) ==
  /\ type' = t /\ pc' = "extract_name"
  /\ UNCHANGED <<request, extract, name, content, search, failed, answer>>

RouteToAuthor ==
  /\ pc = "route" /\ fields.authors
  /\ Route("BY_AUTHOR") /\ UNCHANGED matched

Dated == fields.years # "none"

RouteToMetadata ==
  /\ pc = "route" /\ ~fields.authors /\ fields.content = "none" /\ Dated
  /\ Route("METADATA_ONLY_NO_AUTHOR") /\ UNCHANGED matched

\* no actionable data: the type stays unknown
RouteNowhere ==
  /\ pc = "route" /\ ~fields.authors /\ fields.content = "none" /\ ~Dated
  /\ Route("UNKNOWN") /\ UNCHANGED matched

RouteToBroad ==
  /\ pc = "route" /\ ~fields.authors /\ fields.content # "none" /\ fields.looksFor = "broad"
  /\ Route("BROAD_BY_DESCRIPTION") /\ UNCHANGED matched

RouteToName ==
  /\ pc = "route" /\ ~fields.authors /\ fields.content # "none" /\ fields.looksFor = "name"
  /\ Route("SPECIFIC_BY_NAME") /\ UNCHANGED matched

\* mutant: a title that matches no paper is searched for all the same
RouteToTitle_Unmatched ==
  /\ pc = "route" /\ ~fields.authors /\ fields.content # "none" /\ fields.looksFor = "title"
  /\ matched' \in BOOLEAN
  /\ Route("SPECIFIC_BY_TITLE")

\* a title that matches no paper makes a broad query
RouteToTitle ==
  /\ pc = "route" /\ ~fields.authors /\ fields.content # "none" /\ fields.looksFor = "title"
  /\ matched' \in BOOLEAN
  /\ Route(IF matched' THEN "SPECIFIC_BY_TITLE" ELSE "BROAD_BY_DESCRIPTION")

ShouldExtractName ==
  \/ type \in Specific
  \/ type = "BROAD_BY_DESCRIPTION" /\ fields.content = "clear"

\* a model that fails has extracted no name
ExtractName ==
  /\ pc = "extract_name"
  /\ name' \in IF ShouldExtractName THEN BOOLEAN ELSE {FALSE}
  /\ pc' = "dispatch"
  /\ UNCHANGED <<request, extract, type, matched, content, search, failed, answer>>

-----------------------------------------------------------------------------
(* handle_operation, by the result of the analysis *)

Unactionable == type = "UNKNOWN" \/ (type = "SPECIFIC_BY_NAME" /\ ~name)

Answer(a) == answer' = a /\ pc' = "done"

\* a failure, and the refusals that have an answer of their own
AnswerWithoutSearch ==
  /\ pc = "dispatch" /\ (Unactionable \/ fields.refusal = "soft")
  /\ Answer("partial")
  /\ UNCHANGED <<request, extract, analysis, content, search, failed>>

Dispatch(p, next) ==
  /\ pc = "dispatch" /\ ~Unactionable
  /\ path' = p /\ pc' = next
  /\ asking' = type
  /\ UNCHANGED <<request, extract, analysis, content, brought, asked, found, failed, answer>>

DispatchRefused == fields.refusal = "clarify" /\ Dispatch("refused", "enrich")

\* is_non_trivial_metadata_only: of any specification of the union
MetadataOnly == \E i \in DOMAIN specs : specs[i] \in {"metadata", "blank"}

DispatchToPlanner  == fields.refusal = "none" /\ MetadataOnly /\ Dispatch("planned", "plan")
DispatchToSearch   == fields.refusal = "none" /\ ~MetadataOnly /\ Dispatch("analyzed", "enrich")

\* an agent has no operation for a content: MetadataPlanner has the rest
PlannerFails ==
  /\ pc = "plan" /\ \E i \in DOMAIN specs : specs[i] = "content"
  /\ Answer("void")
  /\ UNCHANGED <<request, extract, analysis, content, search, failed>>

RunPlanner ==
  /\ pc = "plan" /\ \A i \in DOMAIN specs : specs[i] # "content"
  /\ found' \in BOOLEAN
  /\ pc' = IF ~found' /\ specs = <<"blank">> THEN "enrich" ELSE "respond"
  /\ UNCHANGED <<request, extract, analysis, content, brought, path, asking, asked, failed, answer>>

AfterAnchors == CASE path = "analyzed" -> "combine"
                  [] path = "refused"  -> "search"
                  [] path = "planned"  -> "retry"

\* enrich_anchor_documents
Enrich ==
  /\ pc = "enrich"
  /\ brought' \in IF anchors THEN BOOLEAN ELSE {FALSE}
  /\ pc' = AfterAnchors
  /\ UNCHANGED <<request, extract, analysis, content, path, asking, asked, found, failed, answer>>

\* mutant: the content is rewritten when there are no anchors either
Combine_Always ==
  /\ pc = "combine"
  /\ content' \in {content, "combined"}
  /\ pc' = "search"
  /\ UNCHANGED <<request, extract, analysis, search, failed, answer>>

\* combine_content_query_with_anchors, which keeps the content when the model fails
Combine ==
  /\ pc = "combine"
  /\ content' \in IF brought THEN {content, "combined"} ELSE {content}
  /\ pc' = "search"
  /\ UNCHANGED <<request, extract, analysis, search, failed, answer>>

\* recent_first, from the years after the check for conflicts, and recent_last
RecencyBothWays == fields.years = "recent" /\ fields.recency = "last"

\* what the agents raise of their arguments: the assertions of attempt_metadata_only_search,
\* get_papers_by_metadata and run_specific_paper_by_title, the void response of
\* run_specific_paper_by_name, and _validate_args of the broad search
Refuses ==
  \/ asking = "UNKNOWN"
  \/ asking = "SPECIFIC_BY_TITLE" /\ ~matched
  \/ asking = "SPECIFIC_BY_NAME" /\ ~name
  \/ asking = "METADATA_ONLY_NO_AUTHOR" /\ (content # "none" \/ ~Dated)
  \/ asking = "BROAD_BY_DESCRIPTION" /\ diligent /\ (content = "none" \/ RecencyBothWays)

SearchRefused ==
  /\ pc = "search" /\ Refuses
  /\ Answer("void")
  /\ UNCHANGED <<request, extract, analysis, content, search, failed>>

\* mutant: only a title that was not found is searched for as a description
Searched_TitleOnly ==
  /\ pc = "search" /\ ~Refuses
  /\ found' \in BOOLEAN
  /\ asked' = asked \cup {asking}
  /\ pc' = IF path = "analyzed" /\ ~found' /\ asking = "SPECIFIC_BY_TITLE" THEN "retry" ELSE "respond"
  /\ UNCHANGED <<request, extract, analysis, content, brought, path, asking, failed, answer>>

\* the agent answers, and its documents are completed and sorted
Searched ==
  /\ pc = "search" /\ ~Refuses
  /\ found' \in BOOLEAN
  /\ asked' = asked \cup {asking}
  /\ pc' = IF path = "analyzed" /\ ~found' /\ asking \in Specific THEN "retry" ELSE "respond"
  /\ UNCHANGED <<request, extract, analysis, content, brought, path, asking, failed, answer>>

\* retry_specific_in_broad_mode
Retry ==
  /\ pc = "retry"
  /\ asking' = "BROAD_BY_DESCRIPTION"
  /\ pc' = "search"
  /\ UNCHANGED <<request, extract, analysis, content, brought, path, asked, found, failed, answer>>

\* get_paper_finder_output_from_docs
Respond ==
  /\ pc = "respond"
  /\ Answer(IF path = "refused" THEN "partial" ELSE "complete")
  /\ UNCHANGED <<request, extract, analysis, content, search, failed>>

\* What is awaited raises, or an agent has nothing but a void response: the operative
\* answers a void response, which the round service turns into an error
StepFails ==
  /\ pc \in {"decompose", "route", "plan", "enrich", "search", "respond"}
  /\ pc = "route" => ~fields.authors /\ fields.content # "none" /\ fields.looksFor = "title"
  /\ pc = "enrich" => anchors
  /\ failed' = TRUE
  /\ Answer("void")
  /\ UNCHANGED <<request, extract, analysis, content, search>>

Next ==
  \/ \E f \in ExtractedFields, s \in Unions : Decompose(f, s)
  \/ RouteToAuthor \/ RouteToMetadata \/ RouteNowhere \/ RouteToBroad
  \/ RouteToName \/ RouteToTitle \/ ExtractName
  \/ AnswerWithoutSearch \/ DispatchRefused \/ DispatchToPlanner \/ DispatchToSearch
  \/ PlannerFails \/ RunPlanner \/ Enrich \/ Combine
  \/ SearchRefused \/ Searched \/ Retry \/ Respond \/ StepFails

Spec == Init /\ [][Next]_vars

-----------------------------------------------------------------------------
(* Properties *)

\* A search agent is asked with what it needs, on every way that leads to it: a
\* matched title ("shouldn't reach here", run_specific_paper_by_title), a name, a
\* venue or years, and a content, unless that of a broad retry after the planner.
AgentsGetTheirInput ==
  pc = "search" =>
    CASE asking = "SPECIFIC_BY_TITLE"       -> matched
      [] asking = "SPECIFIC_BY_NAME"        -> name
      [] asking = "METADATA_ONLY_NO_AUTHOR" -> Dated
      [] asking = "BROAD_BY_DESCRIPTION"    -> content # "none" \/ path = "planned"
      [] asking = "BY_AUTHOR"               -> fields.authors
      [] OTHER                              -> FALSE

\* A round ends in an error only when something it asked failed, or for one of the
\* reasons the code has: a content in a union that went to the planner, a content
\* made from anchors for a metadata search, and the arguments that a diligent broad
\* search refuses (handle_operation; Operative.__call__ turns all of them into void).
ErrorsAreExplained ==
  answer = "void" =>
    \/ failed
    \/ path = "planned" /\ \E i \in DOMAIN specs : specs[i] = "content"
    \/ anchors /\ type = "METADATA_ONLY_NO_AUTHOR" /\ fields.content = "none" /\ content = "combined"
    \/ diligent /\ RecencyBothWays
    \/ diligent /\ path = "planned" /\ specs = <<"blank">> /\ content = "none"

\* A query for one paper that was analyzed and not refused is not answered with
\* nothing before it was searched for as a description (handle_operation).
SpecificFallsBack ==
  answer = "complete" /\ path = "analyzed" /\ type \in Specific /\ ~found =>
    "BROAD_BY_DESCRIPTION" \in asked

\* A broad search is not asked for the earliest and the latest papers at once: "You
\* can't have both recent_first and recent_last constraints." (broad_search.py)
OneRecency == pc = "search" /\ asking = "BROAD_BY_DESCRIPTION" /\ diligent => ~RecencyBothWays
=============================================================================
