---------------------------- MODULE MetadataPlanner ----------------------------
(***************************************************************************)
(* The metadata planner: a request that names no content is extracted as   *)
(* a union of paper specifications, and for each of them a chain of        *)
(* operations is planned (agents/metadata_only/plan.py) and run against    *)
(* Semantic Scholar (agents/metadata_only/ops.py).                         *)
(*                                                                         *)
(* resolve_paper applies the first rule that fits what is left of a        *)
(* specification, with the plan so far, deletes the fields the rule        *)
(* consumes and starts again.  A field is given in one of a few forms: one *)
(* item, or the "and" or the "or" of two.  What matters of a document is   *)
(* which items it meets.  A specification within another (citing, cited_by *)
(* and the papers of an author) is a call of resolve_paper of its own: it  *)
(* is taken to be resolved, and its documents are those that make an item  *)
(* of the outer one true.                                                  *)
(***************************************************************************)
EXTENDS Naturals, Sequences

CONSTANTS Docs,
          Meets,  \* Meets[d]: the items, <<field, 1>> or <<field, 2>>, that d meets
          Inputs, \* bound: the unions of specifications
          Titles, \* bound: the documents that a title may be found to be of
          Losses  \* bound: the documents that a search may fail to bring

Fields == {"content", "name", "venue", "years", "authors", "citing", "cited_by",
           "field_of_study", "min_citations", "min_total_authors", "venue_group",
           "publication_type", "exclude"}

(* A number may be 0 ("zero"), and min_citations be "high".  An author may be given by an *)
(* affiliation or by several papers, and an excluded specification may have *)
(* parts that are composite ("unsupported"); one that excludes by a name,   *)
(* by content or by the papers of an author is "ignored".                   *)
Forms == {"none", "one", "and", "or", "zero", "high", "unsupported", "ignored"}

\* the forms a field may have in PaperSpec, besides not being given
FormsOf(f) ==
  CASE f \in {"content", "name", "field_of_study"} -> {"one"}
    [] f = "min_total_authors" -> {"one", "zero"}
    [] f \in {"venue", "years", "venue_group", "publication_type", "citing", "cited_by"} ->
         {"one", "and", "or"}
    [] f = "min_citations" -> {"one", "zero", "high"}
    [] f = "authors" -> {"one", "and", "or", "unsupported"}
    [] f = "exclude" -> {"one", "ignored", "unsupported"}

Specs == {s \in [Fields -> Forms] : \A f \in Fields : s[f] \in FormsOf(f) \cup {"none"}}

Given(spec) == {f \in Fields : spec[f] # "none"}

\* at_least_one_positve_field: a paper is not specified by what it is not alone
Positive(spec) == Given(spec) \ {"exclude"} # {}

ASSUME PlannerAssumption ==
  /\ Meets \in [Docs -> SUBSET (Fields \X {1, 2})]
  /\ Inputs \subseteq Seq({s \in Specs : Positive(s)}) /\ <<>> \notin Inputs
  /\ Titles \subseteq Docs
  /\ Losses \subseteq SUBSET Docs

VARIABLES specs,  \* Specifications.union
          remain, \* what resolve_paper has not consumed of each
          plan,   \* the operations planned for each, the innermost first
          phase,
          ran,    \* how many of them ran
          docs,   \* what they returned
          bare,   \* those of them that have their basic fields alone
          lost,   \* what searches failed to return or to load
          answer

vars == <<specs, remain, plan, phase, ran, docs, bare, lost, answer>>

Phases == {"planning", "running", "done", "void"}
Items  == DOMAIN specs

Init ==
  /\ specs \in Inputs
  /\ remain = specs
  /\ plan = [i \in Items |-> <<>>]
  /\ phase = "planning"
  /\ ran = [i \in Items |-> 0]
  /\ docs = [i \in Items |-> {}]
  /\ bare = [i \in Items |-> {}]
  /\ lost = [i \in Items |-> {}]
  /\ answer = {}

-----------------------------------------------------------------------------
(* The rules *)

\* mutant: the rule that keeps what cites a paper is not registered
Rules_Unregistered == <<"GenByContent", "GenByNameVenueYears", "GenByVenueYears", "GenByAuthors",
                        "PrimeByCitedBy", "FilterByCitedBy", "PrimeByCiting", "PrimeByS2Search",
                        "FilterByMinTotalAuthors", "FilterByMetadata", "FilterExclude">>

\* Rule.rules: in the order in which their classes are defined
Rules == <<"GenByContent", "GenByNameVenueYears", "GenByVenueYears", "GenByAuthors",
           "PrimeByCitedBy", "FilterByCiting", "FilterByCitedBy", "PrimeByCiting",
           "PrimeByS2Search", "FilterByMinTotalAuthors", "FilterByMetadata", "FilterExclude">>

Primary == {"PrimeByCitedBy", "PrimeByCiting", "PrimeByS2Search"}
Filter  == {"FilterByCiting", "FilterByCitedBy", "FilterByMinTotalAuthors",
            "FilterByMetadata", "FilterExclude"}

Searchable == {"years", "venue", "field_of_study", "min_citations"}
Metadata   == Searchable \cup {"venue_group", "publication_type"}

Truthy(spec) == {f \in Fields : spec[f] \notin {"none", "zero"}}

\* a primary needs that nothing is planned, a filter that something is
Applies(rule, spec, planned) ==
  /\ rule \in Primary => ~planned
  /\ rule \in Filter => planned
  /\ CASE rule = "GenByContent" -> "content" \in Given(spec)
       [] rule = "GenByNameVenueYears" -> "name" \in Given(spec)
       [] rule = "GenByVenueYears" -> {"venue", "years"} \subseteq Given(spec)
       [] rule = "GenByAuthors" -> "authors" \in Given(spec)
       [] rule \in {"PrimeByCitedBy", "FilterByCitedBy"} -> "cited_by" \in Given(spec)
       [] rule \in {"PrimeByCiting", "FilterByCiting"} -> "citing" \in Given(spec)
       [] rule = "PrimeByS2Search" -> {"venue", "field_of_study"} \cap Given(spec) # {}
       [] rule = "FilterByMinTotalAuthors" -> "min_total_authors" \in Truthy(spec)
       [] rule = "FilterByMetadata" -> Metadata \cap Truthy(spec) # {}
       [] rule = "FilterExclude" -> spec["exclude"] \in {"one", "ignored"}

Consumes(rule) ==
  CASE rule = "GenByContent" -> {"content"}
    [] rule = "GenByNameVenueYears" -> {"name", "venue", "years"}
    [] rule = "GenByVenueYears" -> {"venue", "years"}
    [] rule = "GenByAuthors" -> {"authors"}
    [] rule \in {"PrimeByCitedBy", "FilterByCitedBy"} -> {"cited_by"}
    [] rule \in {"PrimeByCiting", "FilterByCiting"} -> {"citing"}
    [] rule = "PrimeByS2Search" -> Searchable
    [] rule = "FilterByMinTotalAuthors" -> {"min_total_authors"}
    [] rule = "FilterByMetadata" -> Metadata
    [] rule = "FilterExclude" -> {"exclude"}

\* the ValueErrors and NotImplementedErrors of the rules
Raises(rule, spec) ==
  \/ /\ rule \in {"GenByNameVenueYears", "GenByVenueYears", "PrimeByS2Search"}
     /\ "and" \in {spec["venue"], spec["years"]}
  \/ rule = "GenByAuthors" /\ spec["authors"] = "unsupported"
  \/ rule = "PrimeByS2Search" /\ {"venue", "years"} \cap Given(spec) = {}
  \/ /\ rule = "FilterByMetadata"
     /\ "and" \in {spec[f] : f \in {"years", "venue", "venue_group", "publication_type"}}

\* mutant: high citations leave the other filters out whatever they are
Enforces_HighAlone(rule, spec) ==
  CASE rule = "GenByContent" -> {}
    [] rule = "PrimeByS2Search" ->
         IF "years" \in Given(spec) THEN Searchable ELSE {"venue"}
    [] rule = "FilterByMetadata" ->
         IF spec["min_citations"] = "high" THEN {"min_citations"} ELSE Metadata
    [] rule = "FilterExclude" ->
         IF spec["exclude"] = "ignored" THEN {} ELSE {"exclude"}
    [] OTHER -> Consumes(rule)

\* the fields that become parameters of the operation: a search by venue
\* without years has no other, and the filter for highly cited papers replaces
\* the one for the rest unless that has years, venues or publication types
Enforces(rule, spec) ==
  CASE rule = "GenByContent" -> {}
    [] rule = "PrimeByS2Search" ->
         IF "years" \in Given(spec) THEN Searchable ELSE {"venue"}
    [] rule = "FilterByMetadata" ->
         IF /\ spec["min_citations"] = "high"
            /\ {"years", "venue", "publication_type"} \cap Given(spec) = {}
         THEN {"min_citations"} ELSE Metadata
    [] rule = "FilterExclude" ->
         IF spec["exclude"] = "ignored" THEN {} ELSE {"exclude"}
    [] OTHER -> Consumes(rule)

Chosen(rule, spec, planned) ==
  \E k \in DOMAIN Rules :
    /\ rule = Rules[k]
    /\ Applies(rule, spec, planned)
    /\ \A j \in 1..(k - 1) : ~Applies(Rules[j], spec, planned)

-----------------------------------------------------------------------------
(* Planning: resolve_paper for one specification after the other *)

Resolving(i) ==
  /\ phase = "planning"
  /\ Given(remain[i]) # {}
  /\ \A j \in Items : j < i => Given(remain[j]) = {}

Planned(i) == plan[i] # <<>>

\* mutant: only the fields that became parameters are deleted
ApplyRule_KeepsDropped(i, rule) ==
  /\ Resolving(i)
  /\ Chosen(rule, remain[i], Planned(i)) /\ ~Raises(rule, remain[i])
  /\ plan' = [plan EXCEPT ![i] = Append(@,
       [rule |-> rule,
        want |-> [f \in Enforces(rule, remain[i]) \cap Given(remain[i]) |-> remain[i][f]]])]
  /\ remain' = [remain EXCEPT ![i] =
       [f \in Fields |-> IF f \in Enforces(rule, @) THEN "none" ELSE @[f]]]
  /\ UNCHANGED <<specs, phase, ran, docs, bare, lost, answer>>

ApplyRule(i, rule) ==
  /\ Resolving(i)
  /\ Chosen(rule, remain[i], Planned(i)) /\ ~Raises(rule, remain[i])
  /\ plan' = [plan EXCEPT ![i] = Append(@,
       [rule |-> rule,
        want |-> [f \in Enforces(rule, remain[i]) \cap Given(remain[i]) |-> remain[i][f]]])]
  /\ remain' = [remain EXCEPT ![i] =
       [f \in Fields |-> IF f \in Consumes(rule) THEN "none" ELSE @[f]]]
  /\ UNCHANGED <<specs, phase, ran, docs, bare, lost, answer>>

\* the planner agent answers a void response to whatever was raised
RuleRaises(i, rule) ==
  /\ Resolving(i)
  /\ Chosen(rule, remain[i], Planned(i)) /\ Raises(rule, remain[i])
  /\ phase' = "void"
  /\ UNCHANGED <<specs, remain, plan, ran, docs, bare, lost, answer>>

NoRuleMatches(i) ==
  /\ Resolving(i)
  /\ \A k \in DOMAIN Rules : ~Applies(Rules[k], remain[i], Planned(i))
  /\ phase' = "void"
  /\ UNCHANGED <<specs, remain, plan, ran, docs, bare, lost, answer>>

Build ==
  /\ phase = "planning"
  /\ \A i \in Items : Given(remain[i]) = {}
  /\ phase' = "running"
  /\ UNCHANGED <<specs, remain, plan, ran, docs, bare, lost, answer>>

-----------------------------------------------------------------------------
(* Running the operations *)

Meeting(f, k, base) == {d \in base : <<f, k>> \in Meets[d]}

\* mutant: the sets of documents of an "or" are intersected
Select_AlwaysAnd(f, form, base) ==
  CASE f = "exclude"          -> base \ Meeting(f, 1, base)
    [] form = "zero"          -> base
    [] form \in {"and", "or"} -> Meeting(f, 1, base) \cap Meeting(f, 2, base)
    [] OTHER                  -> Meeting(f, 1, base)

\* Intersect, Union or a single operation, by the form of the field
Select(f, form, base) ==
  CASE f = "exclude"   -> base \ Meeting(f, 1, base)
    [] form = "zero"   -> base
    [] form = "and"    -> Meeting(f, 1, base) \cap Meeting(f, 2, base)
    [] form = "or"     -> Meeting(f, 1, base) \cup Meeting(f, 2, base)
    [] OTHER           -> Meeting(f, 1, base)

SelectAll(want, base) ==
  base \cap {d \in Docs : \A f \in DOMAIN want : d \in Select(f, want[f], {d})}

Running(i) == phase = "running" /\ ran[i] < Len(plan[i])
Step(i)    == plan[i][ran[i] + 1]
Source(i)  == IF ran[i] = 0 THEN Docs ELSE docs[i]

\* the papers of the title, the venue and one of the years
Titled(want, y) ==
  {d \in Titles : /\ \A f \in DOMAIN want \ {"years"} : d \in Select(f, want[f], {d})
                  /\ y = 0 \/ <<"years", y>> \in Meets[d]}

YearsOf(want) ==
  IF "years" \notin DOMAIN want THEN {0} ELSE IF want["years"] = "or" THEN {1, 2} ELSE {1}

\* FromS2ByTitle, for each of the years: the one paper that matches the title, with
\* its basic fields alone, or those whose title starts with it, of any venue and year
RunTitle(i) ==
  /\ Running(i) /\ Step(i).rule = "GenByNameVenueYears"
  /\ LET years == YearsOf(Step(i).want)
     IN  \E hit \in [years -> {{}} \cup {{d} : d \in Titles}] :
           /\ \A y \in years : \A d \in hit[y] : d \in Titled(Step(i).want, y)
           /\ LET hits     == UNION {hit[y] : y \in years}
                  prefixed == IF {} \in {hit[y] : y \in years} THEN Meeting("name", 2, Docs) ELSE {}
              IN  /\ docs' = [docs EXCEPT ![i] = hits \cup prefixed]
                  /\ bare' = [bare EXCEPT ![i] = hits \ prefixed]
                  /\ lost' = [lost EXCEPT ![i] = SelectAll(Step(i).want, Docs) \ (hits \cup prefixed)]
  /\ ran' = [ran EXCEPT ![i] = @ + 1]
  /\ UNCHANGED <<specs, remain, plan, phase, answer>>

\* a set whose citations are all low has no highly cited papers
NoneHigh(i) == "min_citations" \in DOMAIN Step(i).want /\ Step(i).want["min_citations"] = "high"

\* a search, the papers of authors, references or citations, intersected with what
\* there is: searches are limited and requests for citations fail one by one, unseen
RunFetch(i) ==
  /\ Running(i) /\ Step(i).rule \notin Filter \cup {"GenByContent", "GenByNameVenueYears"}
  /\ LET exact == SelectAll(Step(i).want, Source(i))
     IN  \E missed \in Losses \cup {{}} \cup (IF NoneHigh(i) THEN {Docs} ELSE {}) :
           /\ docs' = [docs EXCEPT ![i] = exact \ missed]
           /\ lost' = [lost EXCEPT ![i] = @ \cup (exact \cap missed)]
  /\ bare' = [bare EXCEPT ![i] = {}]
  /\ ran' = [ran EXCEPT ![i] = @ + 1]
  /\ UNCHANGED <<specs, remain, plan, phase, answer>>

\* the filters: a paper found by its title lacks the fields they look at and is left
\* out, unless the intersection of two filters fetched it again
RunFilter(i) ==
  /\ Running(i) /\ Step(i).rule \in Filter \ {"FilterExclude"}
  /\ LET exact == SelectAll(Step(i).want, Source(i))
         blind == {"publication_type", "field_of_study", "min_citations"} \cap DOMAIN Step(i).want # {}
     IN  \E missed \in {IF blind THEN bare[i] ELSE {}} \cup (IF NoneHigh(i) THEN {Docs} ELSE {}) :
           /\ docs' = [docs EXCEPT ![i] = exact \ missed]
           /\ lost' = [lost EXCEPT ![i] = @ \cup (exact \cap missed)]
  /\ bare' = [bare EXCEPT ![i] =
       IF \E f \in {"citing", "cited_by"} \cap DOMAIN Step(i).want : Step(i).want[f] = "and"
       THEN {} ELSE @]
  /\ ran' = [ran EXCEPT ![i] = @ + 1]
  /\ UNCHANGED <<specs, remain, plan, phase, answer>>

\* nor can such a paper be excluded for them
RunExclude(i) ==
  /\ Running(i) /\ Step(i).rule = "FilterExclude"
  /\ \E unseen \in {{}, bare[i]} :
       docs' = [docs EXCEPT ![i] = SelectAll(Step(i).want, @) \cup (@ \cap unseen)]
  /\ ran' = [ran EXCEPT ![i] = @ + 1]
  /\ UNCHANGED <<specs, remain, plan, phase, lost, bare, answer>>

\* a request fails, or the operation is the stub that stands for a content
StepRaises(i) ==
  /\ Running(i)
  /\ phase' = "void"
  /\ UNCHANGED <<specs, remain, plan, ran, docs, bare, lost, answer>>

\* the union of what the specifications led to
Respond ==
  /\ phase = "running"
  /\ \A i \in Items : ran[i] = Len(plan[i])
  /\ answer' = UNION {docs[i] : i \in Items}
  /\ phase' = "done"
  /\ UNCHANGED <<specs, remain, plan, ran, docs, bare, lost>>

Next ==
  \/ \E i \in Items : \/ \E k \in DOMAIN Rules : ApplyRule(i, Rules[k]) \/ RuleRaises(i, Rules[k])
                      \/ NoRuleMatches(i) \/ StepRaises(i)
                      \/ RunTitle(i) \/ RunFetch(i) \/ RunFilter(i) \/ RunExclude(i)
  \/ Build \/ Respond

Spec == Init /\ [][Next]_vars

-----------------------------------------------------------------------------
(* What the specifications ask for *)

\* a document meets a field: what PaperSpec means, whatever is planned for it
Met(d, f, form) ==
  \/ form \in {"none", "zero"}
  \/ f = "exclude" /\ form = "one" /\ <<f, 1>> \notin Meets[d]
  \/ f = "exclude" /\ form = "ignored" /\ <<f, 2>> \notin Meets[d]
  \/ f # "exclude" /\ form \in {"one", "high"} /\ <<f, 1>> \in Meets[d]
  \/ form = "and" /\ {<<f, 1>>, <<f, 2>>} \subseteq Meets[d]
  \/ form = "or" /\ {<<f, 1>>, <<f, 2>>} \cap Meets[d] # {}

\* the specification is searched for by venue or field of study alone
Searched(spec) ==
  /\ {"content", "name", "authors", "citing", "cited_by"} \cap Given(spec) = {}
  /\ ~ {"venue", "years"} \subseteq Given(spec)
  /\ {"venue", "field_of_study"} \cap Given(spec) # {}

\* what the planner loses of a specification: the field of study and the
\* citations of papers searched for without years; the venue and the years of a
\* title that is not found; the venue group and the field of study of highly
\* cited papers; exclusions it has no operation for, or no field loaded for
Loses(spec, f) ==
  \/ Searched(spec) /\ spec["years"] = "none" /\ f \in {"field_of_study", "min_citations"}
  \/ spec["name"] # "none" /\ f \in {"venue", "years"}
  \/ /\ spec["min_citations"] = "high" /\ spec["publication_type"] = "none"
     /\ \/ spec["name"] # "none"
        \/ {"venue", "years"} \subseteq Given(spec)
        \/ {"venue", "years"} \cap Given(spec) = {}
     /\ f \in {"venue_group", "field_of_study"}
  \/ f = "exclude" /\ (spec["exclude"] = "ignored" \/ spec["name"] # "none")

\* Each field of a specification is a parameter of one of the operations planned
\* for it, as it was given, except what the planner is known to lose and a
\* content, which no operation searches for (resolve_paper).
NothingDropped ==
  phase = "running" =>
    \A i \in Items : \A f \in Given(specs[i]) \ {"content"} :
      \/ \E k \in DOMAIN plan[i] :
           f \in DOMAIN plan[i][k].want /\ plan[i][k].want[f] = specs[i][f]
      \/ Loses(specs[i], f)

\* Every document of the answer comes from a specification and meets each of its
\* fields, except what the planner is known to lose (plan and the ops).
PlanSound ==
  phase = "done" =>
    \A d \in answer : \E i \in Items : \A f \in Fields :
      \/ Met(d, f, specs[i][f])
      \/ f = "name" /\ <<"name", 2>> \in Meets[d]
      \/ Loses(specs[i], f)

\* A document that meets a specification is in the answer, unless a search failed
\* to bring it or what a filter looks at: no rule takes a field for another, and no
\* operation leaves out what a later one, or another specification, brings.
PlanComplete ==
  phase = "done" =>
    \A d \in Docs, i \in Items :
      (\A f \in Fields : Met(d, f, specs[i][f])) => d \in answer \cup lost[i]

\* the composites and parts the rules have no operation for
Supported(spec) ==
  /\ "and" \notin {spec[f] : f \in {"years", "venue", "venue_group", "publication_type"}}
  /\ "unsupported" \notin {spec["authors"], spec["exclude"]}
  /\ spec["min_total_authors"] # "zero"
  /\ \/ spec["min_citations"] # "zero"
     \/ Searched(spec)
     \/ {"venue_group", "publication_type", "field_of_study"} \cap Given(spec) # {}

\* a field that a set of documents can be fetched by
Fetchable(spec) ==
  \/ {"content", "name", "authors", "citing", "cited_by", "venue"} \cap Given(spec) # {}
  \/ {"field_of_study", "years"} \subseteq Given(spec)

\* Whatever its fields, a specification without unsupported composites and with
\* something to fetch by gets a plan: no rule consumes what a later one needs
\* (resolve_paper raises when no rule matches what is left).
PlansSupported ==
  \A i \in Items :
    phase = "void" /\ Given(remain[i]) # {} =>
      \E j \in Items : ~Supported(specs[j]) \/ ~Fetchable(specs[j])

\* What is specified gets a plan, and the plan answers that and nothing else, as far
\* as its searches go (resolve_paper, plan and the operations of ops.py together).
PlanExact == PlanSound /\ PlanComplete /\ PlansSupported

\* resolve_paper calls itself until the specification is empty, and has no other
\* bound: each rule that applies deletes a field that is given, and adds none, so
\* the calls come to an end.
RulesConsume ==
  [][\A i \in Items : plan'[i] # plan[i] =>
       /\ Given(remain'[i]) \subseteq Given(remain[i])
       /\ Given(remain'[i]) # Given(remain[i])]_vars
=============================================================================
