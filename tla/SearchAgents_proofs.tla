------------------------- MODULE SearchAgents_proofs -------------------------
(***************************************************************************)
(* Proofs about the metadata planner and the other agents, for every corpus*)
(* and whatever the sources answer.  The planner comes first; then what the*)
(* operations on collections of documents do, which the proofs about the   *)
(* agents rest on; then the agents, each with its invariant.               *)
(***************************************************************************)
EXTENDS SearchAgents, FiniteSetTheorems, SequenceTheorems, NaturalsInduction,
        WellFoundedInduction, TLAPS

(***************************************************************************)
(* The metadata planner                                                    *)
(***************************************************************************)

RuleNames == {Rules[k] : k \in DOMAIN Rules}

LEMMA RuleNamesAre ==
  RuleNames = {"GenByContent", "GenByNameVenueYears", "GenByVenueYears", "GenByAuthors",
               "PrimeByCitedBy", "FilterByCiting", "FilterByCitedBy", "PrimeByCiting",
               "PrimeByS2Search", "FilterByMinTotalAuthors", "FilterByMetadata", "FilterExclude"}
  BY DEF RuleNames, Rules

\* A rule that applies consumes a field that is given.
LEMMA ConsumesGiven ==
  ASSUME NEW rule \in RuleNames, NEW spec \in Specs, NEW planned,
         Applies(rule, spec, planned)
  PROVE  Consumes(rule) \cap Given(spec) # {}
<1>1. CASE rule = "GenByContent"
  <2>1. "content" \in Consumes(rule)
    BY <1>1 DEF Consumes
  <2>2. "content" \in Given(spec)
    BY <1>1 DEF Applies, Given, Fields
  <2>. QED  BY <2>1, <2>2
<1>2. CASE rule = "GenByNameVenueYears"
  <2>1. "name" \in Consumes(rule)
    BY <1>2 DEF Consumes
  <2>2. "name" \in Given(spec)
    BY <1>2 DEF Applies, Given, Fields
  <2>. QED  BY <2>1, <2>2
<1>3. CASE rule = "GenByVenueYears"
  <2>1. "venue" \in Consumes(rule)
    BY <1>3 DEF Consumes
  <2>2. "venue" \in Given(spec)
    BY <1>3 DEF Applies, Given, Fields
  <2>. QED  BY <2>1, <2>2
<1>4. CASE rule = "GenByAuthors"
  <2>1. "authors" \in Consumes(rule)
    BY <1>4 DEF Consumes
  <2>2. "authors" \in Given(spec)
    BY <1>4 DEF Applies, Given, Fields
  <2>. QED  BY <2>1, <2>2
<1>5. CASE rule = "PrimeByCitedBy"
  <2>1. "cited_by" \in Consumes(rule)
    BY <1>5 DEF Consumes
  <2>2. "cited_by" \in Given(spec)
    BY <1>5 DEF Applies, Given, Fields
  <2>. QED  BY <2>1, <2>2
<1>6. CASE rule = "FilterByCitedBy"
  <2>1. "cited_by" \in Consumes(rule)
    BY <1>6 DEF Consumes
  <2>2. "cited_by" \in Given(spec)
    BY <1>6 DEF Applies, Given, Fields
  <2>. QED  BY <2>1, <2>2
<1>7. CASE rule = "FilterByCiting"
  <2>1. "citing" \in Consumes(rule)
    BY <1>7 DEF Consumes
  <2>2. "citing" \in Given(spec)
    BY <1>7 DEF Applies, Given, Fields
  <2>. QED  BY <2>1, <2>2
<1>8. CASE rule = "PrimeByCiting"
  <2>1. "citing" \in Consumes(rule)
    BY <1>8 DEF Consumes
  <2>2. "citing" \in Given(spec)
    BY <1>8 DEF Applies, Given, Fields
  <2>. QED  BY <2>1, <2>2
<1>9. CASE rule = "FilterByMinTotalAuthors"
  <2>1. "min_total_authors" \in Consumes(rule)
    BY <1>9 DEF Consumes
  <2>2. "min_total_authors" \in Given(spec)
    BY <1>9 DEF Applies, Given, Truthy, Fields
  <2>. QED  BY <2>1, <2>2
<1>10. CASE rule = "FilterExclude"
  <2>1. "exclude" \in Consumes(rule)
    BY <1>10 DEF Consumes
  <2>2. "exclude" \in Given(spec)
    BY <1>10 DEF Applies, Given, Fields
  <2>. QED  BY <2>1, <2>2
<1>11. CASE rule = "PrimeByS2Search"
  BY <1>11 DEF Applies, Consumes, Searchable, Given, Fields
<1>12. CASE rule = "FilterByMetadata"
  BY <1>12 DEF Applies, Consumes, Metadata, Searchable, Truthy, Given, Fields
<1>. QED  BY RuleNamesAre, <1>1, <1>2, <1>3, <1>4, <1>5, <1>6, <1>7, <1>8, <1>9, <1>10, <1>11, <1>12

-----------------------------------------------------------------------------
(* The inductive invariant of resolve_paper *)

Wants == UNION {[fs -> Forms] : fs \in SUBSET Fields}
Steps == [rule : RuleNames, want : Wants]

TypeInv ==
  /\ specs \in Seq(Specs)
  /\ remain \in [Items -> Specs]
  /\ plan \in [Items -> Seq(Steps)]
  /\ phase \in Phases

\* a field of a step of plan i
ConsumedBy(i, k, f) == k \in DOMAIN plan[i] /\ f \in Consumes(plan[i][k].rule)
WantedBy(i, k, f) ==
  /\ k \in DOMAIN plan[i]
  /\ f \in DOMAIN plan[i][k].want /\ plan[i][k].want[f] = specs[i][f]

\* a field remains as it was given until a rule consumes it
RemainKept ==
  \A i \in Items : \A f \in Fields :
    \/ remain[i][f] = specs[i][f]
    \/ remain[i][f] = "none" /\ \E k \in DOMAIN plan[i] : ConsumedBy(i, k, f)

\* what a rule consumed is gone
Gone == \A i \in Items : \A k \in DOMAIN plan[i] : \A f \in Fields :
          f \in Consumes(plan[i][k].rule) => remain[i][f] = "none"

\* the rules that consume venues and years before others do
FromGiven ==
  \A i \in Items : \A k \in DOMAIN plan[i] :
    /\ plan[i][k].rule = "GenByNameVenueYears" => specs[i]["name"] # "none"
    /\ plan[i][k].rule = "GenByVenueYears" => {"venue", "years"} \subseteq Given(specs[i])

Accounted ==
  \A i \in Items : \A f \in Given(specs[i]) \ {"content"} :
    \/ remain[i][f] = specs[i][f]
    \/ \E k \in DOMAIN plan[i] : WantedBy(i, k, f)
    \/ Loses(specs[i], f)

Emptied == phase \in {"running", "done"} => \A i \in Items : Given(remain[i]) = {}

IInv == TypeInv /\ RemainKept /\ Gone /\ FromGiven /\ Accounted /\ Emptied

-----------------------------------------------------------------------------

\* The specification that is left when a rule applied.
LEMMA LeftIsSpec ==
  ASSUME NEW spec \in Specs, NEW rule
  PROVE  [f \in Fields |-> IF f \in Consumes(rule) THEN "none" ELSE spec[f]] \in Specs
<1> DEFINE left == [f \in Fields |-> IF f \in Consumes(rule) THEN "none" ELSE spec[f]]
<1>1. \A f \in Fields : left[f] \in Forms /\ left[f] \in FormsOf(f) \cup {"none"}
  BY DEF Specs, Forms
<1>2. left \in [Fields -> Forms]
  BY <1>1
<1>. QED  BY <1>1, <1>2 DEF Specs

\* What a rule wants has the forms it has in the specification.
LEMMA WantIsWant ==
  ASSUME NEW spec \in Specs, NEW rule
  PROVE  [f \in Enforces(rule, spec) \cap Given(spec) |-> spec[f]] \in Wants
<1> DEFINE fs == Enforces(rule, spec) \cap Given(spec)
<1>1. fs \in SUBSET Fields
  BY DEF Given
<1>2. [f \in fs |-> spec[f]] \in [fs -> Forms]
  BY <1>1 DEF Specs
<1>. QED  BY <1>1, <1>2 DEF Wants

\* The rule chosen for a specification is the first that applies.
LEMMA ChosenApplies ==
  ASSUME NEW rule, NEW spec, NEW planned, Chosen(rule, spec, planned)
  PROVE  rule \in RuleNames /\ Applies(rule, spec, planned)
  BY DEF Chosen, RuleNames

THEOREM InitInv == Init => IInv
<1> SUFFICES ASSUME Init PROVE IInv
  OBVIOUS
<1>1. specs \in Seq(Specs)
  <2>1. specs \in Seq({s \in Specs : Positive(s)})
    BY PlannerAssumption DEF Init
  <2>. QED  BY <2>1
<1>2. \A i \in Items : specs[i] \in Specs
  BY <1>1 DEF Items
<1>3. TypeInv
  BY <1>1, <1>2 DEF Init, TypeInv, Phases, Items
<1>. QED  BY <1>1, <1>3 DEF Init, IInv, RemainKept, Gone, FromGiven, Accounted, Emptied, Items, Given

-----------------------------------------------------------------------------
(* The steps of resolve_paper *)

\* What a step does to specifications and plans.
LEMMA StepKinds ==
  ASSUME [Next]_vars
  PROVE  \/ \E i \in Items, rule \in RuleNames : ApplyRule(i, rule)
         \/ Build
         \/ /\ UNCHANGED <<specs, remain, plan>>
            /\ phase' \in {"void", phase} \/ (phase = "running" /\ phase' = "done")
<1>1. ASSUME NEW i \in Items, NEW k \in DOMAIN Rules, ApplyRule(i, Rules[k])
      PROVE  \E r \in RuleNames : ApplyRule(i, r)
  BY <1>1 DEF RuleNames
<1>2. CASE Next
  BY <1>1, <1>2 DEF Next, RuleRaises, NoRuleMatches, StepRaises, RunTitle, RunFetch, RunFilter,
     RunExclude, Respond
<1>3. CASE UNCHANGED vars
  BY <1>3 DEF vars
<1>. QED  BY <1>2, <1>3

\* The search for venues and fields of study is chosen when nothing is planned
\* and no rule before it applies.
LEMMA SearchIsFirst ==
  ASSUME NEW spec, NEW planned, Chosen("PrimeByS2Search", spec, planned)
  PROVE  Searched(spec) /\ ~planned
<1>1. PICK k \in DOMAIN Rules : /\ Rules[k] = "PrimeByS2Search"
                                /\ \A j \in 1..(k - 1) : ~Applies(Rules[j], spec, planned)
  BY DEF Chosen
<1>2. k = 9
  BY <1>1 DEF Rules
<1>3. Applies("PrimeByS2Search", spec, planned)
  BY ChosenApplies
<1>4. ~planned /\ {"venue", "field_of_study"} \cap Given(spec) # {}
  BY <1>3 DEF Applies, Primary
<1>5. \A j \in 1..8 : ~Applies(Rules[j], spec, planned)
  BY <1>1, <1>2
<1>6. /\ ~Applies("GenByContent", spec, planned) /\ ~Applies("GenByNameVenueYears", spec, planned)
      /\ ~Applies("GenByVenueYears", spec, planned) /\ ~Applies("GenByAuthors", spec, planned)
      /\ ~Applies("PrimeByCitedBy", spec, planned) /\ ~Applies("PrimeByCiting", spec, planned)
  BY <1>5 DEF Rules
<1>7. {"content", "name", "authors", "citing", "cited_by"} \cap Given(spec) = {}
  BY <1>4, <1>6 DEF Applies, Primary, Filter
<1>8. ~ {"venue", "years"} \subseteq Given(spec)
  BY <1>6 DEF Applies, Primary, Filter
<1>. QED  BY <1>4, <1>7, <1>8 DEF Searched

\* The plan and what remains after a rule applied.
LEMMA Applied ==
  ASSUME TypeInv, NEW i \in Items, NEW rule \in RuleNames, ApplyRule(i, rule)
  PROVE  /\ specs' = specs /\ phase = "planning" /\ phase' = phase
         /\ Chosen(rule, remain[i], Planned(i)) /\ Applies(rule, remain[i], Planned(i))
         /\ \A j \in Items \ {i} : plan'[j] = plan[j] /\ remain'[j] = remain[j]
         /\ DOMAIN plan'[i] = DOMAIN plan[i] \cup {Len(plan[i]) + 1}
         /\ \A k \in DOMAIN plan[i] : plan'[i][k] = plan[i][k]
         /\ plan'[i][Len(plan[i]) + 1] =
              [rule |-> rule,
               want |-> [f \in Enforces(rule, remain[i]) \cap Given(remain[i]) |-> remain[i][f]]]
         /\ remain'[i] = [f \in Fields |-> IF f \in Consumes(rule) THEN "none" ELSE remain[i][f]]
         /\ plan'[i] # plan[i]
         /\ TypeInv'
<1> DEFINE st == [rule |-> rule,
                  want |-> [f \in Enforces(rule, remain[i]) \cap Given(remain[i]) |-> remain[i][f]]]
           left == [f \in Fields |-> IF f \in Consumes(rule) THEN "none" ELSE remain[i][f]]
<1>1. remain[i] \in Specs /\ plan[i] \in Seq(Steps)
  BY DEF TypeInv
<1>2. st \in Steps
  BY <1>1, WantIsWant DEF Steps
<1>3. left \in Specs
  BY <1>1, LeftIsSpec
<1>4. plan' = [plan EXCEPT ![i] = Append(plan[i], st)] /\ remain' = [remain EXCEPT ![i] = left]
  BY DEF ApplyRule
<1>5. specs' = specs /\ phase = "planning" /\ phase' = phase /\ Chosen(rule, remain[i], Planned(i))
  BY DEF ApplyRule, Resolving
<1>6. Applies(rule, remain[i], Planned(i))
  BY <1>5, ChosenApplies
<1> HIDE DEF st, left
<1>7. plan'[i] = Append(plan[i], st) /\ remain'[i] = left
  BY <1>4 DEF TypeInv
<1>8. \A j \in Items \ {i} : plan'[j] = plan[j] /\ remain'[j] = remain[j]
  BY <1>4 DEF TypeInv
<1>9. /\ DOMAIN plan'[i] = DOMAIN plan[i] \cup {Len(plan[i]) + 1}
      /\ \A k \in DOMAIN plan[i] : plan'[i][k] = plan[i][k]
      /\ plan'[i][Len(plan[i]) + 1] = st
      /\ plan'[i] # plan[i]
  BY <1>1, <1>2, <1>7
<1>10. TypeInv'
  <2>1. Append(plan[i], st) \in Seq(Steps)
    BY <1>1, <1>2
  <2>. QED  BY <1>3, <1>4, <1>5, <2>1 DEF TypeInv, Items, Phases
<1>. QED  BY <1>5, <1>6, <1>7, <1>8, <1>9, <1>10 DEF st, left

\* A field that a rule consumes and no operation of it wants is one that the
\* planner is known to lose.
LEMMA DropIsLoss ==
  ASSUME IInv, NEW i \in Items, NEW rule \in RuleNames, ApplyRule(i, rule),
         NEW f \in Given(remain[i]) \ {"content"}, f \in Consumes(rule), f \notin Enforces(rule, remain[i])
  PROVE  Loses(specs[i], f)
<1> USE DEF IInv
<1>1. /\ Chosen(rule, remain[i], Planned(i)) /\ Applies(rule, remain[i], Planned(i))
      /\ remain[i] \in Specs /\ specs[i] \in Specs /\ f \in Fields
  <2>1. f \in Fields
    BY DEF Given
  <2>2. TypeInv
    OBVIOUS
  <2>3. Chosen(rule, remain[i], Planned(i)) /\ Applies(rule, remain[i], Planned(i))
    BY <2>2, Applied
  <2>4. remain[i] \in Specs /\ specs[i] \in Specs
    BY <2>2 DEF TypeInv, Items
  <2>. QED  BY <2>1, <2>3, <2>4
<1>2. remain[i][f] = specs[i][f]
  BY <1>1 DEF RemainKept, Given
<1>3. rule \in {"PrimeByS2Search", "FilterByMetadata", "FilterExclude"}
  BY <1>1, RuleNamesAre DEF Enforces, Consumes
<1>4. CASE rule = "PrimeByS2Search"
  <2>1. Searched(remain[i]) /\ plan[i] = <<>>
    BY <1>1, <1>4, SearchIsFirst DEF Planned
  <2>2. \A g \in Fields : remain[i][g] = specs[i][g]
    BY <2>1 DEF RemainKept
  <2>3. Given(specs[i]) = Given(remain[i])
    BY <2>2 DEF Given
  <2>4. Searched(specs[i])
    BY <2>1, <2>3 DEF Searched
  <2>5. "years" \notin Given(remain[i]) /\ f \in Searchable \ {"venue"}
    BY <1>4 DEF Enforces, Consumes
  <2>6. specs[i]["years"] = "none" /\ f \in {"field_of_study", "min_citations"}
    BY <2>3, <2>5 DEF Given, Fields, Searchable
  <2>. QED  BY <2>4, <2>6 DEF Loses
<1>5. CASE rule = "FilterByMetadata"
  <2>1. /\ remain[i]["min_citations"] = "high"
        /\ {"years", "venue", "publication_type"} \cap Given(remain[i]) = {}
        /\ f \in Metadata \ {"min_citations"}
    BY <1>5 DEF Enforces, Consumes
  <2>2. f \in {"venue_group", "field_of_study"}
    BY <2>1 DEF Metadata, Searchable
  <2>3. specs[i]["min_citations"] = "high"
    BY <2>1 DEF RemainKept, Fields
  <2>4. ASSUME NEW k \in DOMAIN plan[i]
        PROVE  plan[i][k].rule \in RuleNames \ {"PrimeByS2Search", "FilterByMetadata"}
    <3>1. "min_citations" \notin Consumes(plan[i][k].rule)
      BY <2>1 DEF Gone, Fields
    <3>2. plan[i][k].rule \in RuleNames
      <4>1. plan[i] \in Seq(Steps)
        BY DEF TypeInv
      <4>2. plan[i][k] \in Steps
        BY <4>1
      <4>. QED  BY <4>2 DEF Steps
    <3>3. /\ "min_citations" \in Consumes("PrimeByS2Search")
          /\ "min_citations" \in Consumes("FilterByMetadata")
      BY DEF Consumes, Metadata, Searchable
    <3>. QED  BY <3>1, <3>2, <3>3
  <2>5. ASSUME NEW g \in {"years", "venue", "publication_type"}, specs[i][g] # "none"
        PROVE  \E k \in DOMAIN plan[i] : g \in Consumes(plan[i][k].rule)
    <3>1. remain[i][g] = "none"
      BY <2>1 DEF Given, Fields
    <3>. QED  BY <2>5, <3>1 DEF RemainKept, ConsumedBy, Fields
  <2>6. ASSUME NEW g \in {"years", "venue", "publication_type"}, NEW r \in RuleNames,
               r \notin {"PrimeByS2Search", "FilterByMetadata"}, g \in Consumes(r)
        PROVE  g # "publication_type" /\ r \in {"GenByNameVenueYears", "GenByVenueYears"}
    BY <2>6, RuleNamesAre DEF Consumes
  <2>7. specs[i]["publication_type"] = "none"
    BY <2>4, <2>5, <2>6
  <2>8. ASSUME NEW g \in {"years", "venue"}, specs[i][g] # "none"
        PROVE  specs[i]["name"] # "none" \/ {"venue", "years"} \subseteq Given(specs[i])
    <3>1. PICK k \in DOMAIN plan[i] : g \in Consumes(plan[i][k].rule)
      BY <2>5, <2>8
    <3>2. plan[i][k].rule \in {"GenByNameVenueYears", "GenByVenueYears"}
      BY <2>4, <2>6, <3>1
    <3>. QED  BY <3>2 DEF FromGiven
  <2>9. \/ specs[i]["name"] # "none"
        \/ {"venue", "years"} \subseteq Given(specs[i])
        \/ {"venue", "years"} \cap Given(specs[i]) = {}
    BY <2>8 DEF Given
  <2>. QED  BY <2>2, <2>3, <2>7, <2>9 DEF Loses
<1>6. CASE rule = "FilterExclude"
  <2>1. f = "exclude" /\ remain[i]["exclude"] = "ignored"
    BY <1>6 DEF Enforces, Consumes
  <2>. QED  BY <1>2, <2>1 DEF Loses
<1>. QED  BY <1>3, <1>4, <1>5, <1>6

THEOREM StepInv == IInv /\ [Next]_vars => IInv'
<1> SUFFICES ASSUME IInv, [Next]_vars PROVE IInv'
  OBVIOUS
<1> USE DEF IInv
<1>1. ASSUME NEW i \in Items, NEW rule \in RuleNames, ApplyRule(i, rule)
      PROVE  IInv'
  <2> DEFINE n == Len(plan[i]) + 1
  <2>1. /\ specs' = specs /\ Items' = Items /\ phase' = "planning" /\ TypeInv'
        /\ Applies(rule, remain[i], Planned(i))
        /\ \A j \in Items \ {i} : plan'[j] = plan[j] /\ remain'[j] = remain[j]
        /\ DOMAIN plan'[i] = DOMAIN plan[i] \cup {n}
        /\ \A k \in DOMAIN plan[i] : plan'[i][k] = plan[i][k]
        /\ plan'[i][n].rule = rule
        /\ plan'[i][n].want =
             [f \in Enforces(rule, remain[i]) \cap Given(remain[i]) |-> remain[i][f]]
        /\ \A f \in Fields : remain'[i][f] = IF f \in Consumes(rule) THEN "none" ELSE remain[i][f]
    <3>1. TypeInv
      OBVIOUS
    <3>2. /\ specs' = specs /\ phase = "planning" /\ phase' = phase /\ TypeInv'
          /\ Applies(rule, remain[i], Planned(i))
          /\ \A j \in Items \ {i} : plan'[j] = plan[j] /\ remain'[j] = remain[j]
          /\ DOMAIN plan'[i] = DOMAIN plan[i] \cup {n}
          /\ \A k \in DOMAIN plan[i] : plan'[i][k] = plan[i][k]
          /\ plan'[i][n] =
               [rule |-> rule,
                want |-> [f \in Enforces(rule, remain[i]) \cap Given(remain[i]) |-> remain[i][f]]]
          /\ remain'[i] = [f \in Fields |-> IF f \in Consumes(rule) THEN "none" ELSE remain[i][f]]
      BY <1>1, <3>1, Applied
    <3>3. Items' = Items
      BY <3>2 DEF Items
    <3>. QED  BY <3>2, <3>3
  <2> HIDE DEF n
  <2>2. RemainKept'
    <3>1. ASSUME NEW f \in Fields
          PROVE  \/ remain'[i][f] = specs[i][f]
                 \/ remain'[i][f] = "none" /\ \E k \in DOMAIN plan'[i] : f \in Consumes(plan'[i][k].rule)
      <4>1. CASE f \in Consumes(rule)
        BY <2>1, <4>1
      <4>2. CASE f \notin Consumes(rule)
        BY <2>1, <4>2 DEF RemainKept, ConsumedBy
      <4>. QED  BY <4>1, <4>2
    <3>. QED  BY <2>1, <3>1 DEF RemainKept, ConsumedBy
  <2>3. Gone'
    BY <2>1 DEF Gone
  <2>4. FromGiven'
    <3>1. rule = "GenByNameVenueYears" => specs[i]["name"] # "none"
      BY <2>1 DEF Applies, Given, RemainKept
    <3>2. rule = "GenByVenueYears" => {"venue", "years"} \subseteq Given(specs[i])
      <4>1. rule = "GenByVenueYears" => {"venue", "years"} \subseteq Given(remain[i])
        BY <2>1 DEF Applies
      <4>. QED  BY <4>1 DEF Given, RemainKept
    <3>. QED  BY <2>1, <3>1, <3>2 DEF FromGiven
  <2>5. Accounted'
    <3>1. ASSUME NEW f \in Given(specs[i]) \ {"content"}
          PROVE  \/ remain'[i][f] = specs[i][f]
                 \/ \E k \in DOMAIN plan'[i] :
                      f \in DOMAIN plan'[i][k].want /\ plan'[i][k].want[f] = specs[i][f]
                 \/ Loses(specs[i], f)
      <4>1. f \in Fields /\ specs[i][f] # "none"
        BY DEF Given
      <4>2. CASE f \notin Consumes(rule) \/ remain[i][f] # specs[i][f]
        BY <2>1, <4>1, <4>2 DEF Accounted, WantedBy
      <4>3. CASE f \in Consumes(rule) /\ remain[i][f] = specs[i][f]
        <5>1. f \in Given(remain[i])
          BY <4>1, <4>3 DEF Given
        <5>2. CASE f \in Enforces(rule, remain[i])
          BY <2>1, <4>3, <5>1, <5>2
        <5>3. CASE f \notin Enforces(rule, remain[i])
          BY <1>1, <4>3, <5>1, <5>3, DropIsLoss
        <5>. QED  BY <5>2, <5>3
      <4>. QED  BY <4>2, <4>3
    <3>. QED  BY <2>1, <3>1 DEF Accounted, WantedBy
  <2>. QED  BY <2>1, <2>2, <2>3, <2>4, <2>5 DEF Emptied
<1>2. CASE Build
  <2>1. UNCHANGED <<specs, remain, plan>> /\ phase' = "running" /\ \A i \in Items : Given(remain[i]) = {}
    BY <1>2 DEF Build
  <2>2. TypeInv' /\ Emptied'
    BY <2>1 DEF TypeInv, Items, Phases, Emptied, Given
  <2>. QED  BY <2>1, <2>2 DEF RemainKept, Gone, FromGiven, Accounted, ConsumedBy, WantedBy, Items, Given
<1>3. CASE /\ UNCHANGED <<specs, remain, plan>>
           /\ phase' \in {"void", phase} \/ (phase = "running" /\ phase' = "done")
  <2>1. TypeInv' /\ Emptied'
    BY <1>3 DEF TypeInv, Items, Phases, Emptied, Given
  <2>. QED  BY <1>3, <2>1 DEF RemainKept, Gone, FromGiven, Accounted, ConsumedBy, WantedBy, Items, Given
<1>. QED  BY <1>1, <1>2, <1>3, StepKinds

-----------------------------------------------------------------------------

\* For every union of specifications, the operations planned for one of them have
\* each of its fields as a parameter, but the losses listed in Loses (resolve_paper).
THEOREM DropsNothingElse == Spec => []NothingDropped
<1>1. IInv => NothingDropped
  <2> SUFFICES ASSUME IInv, phase = "running", NEW i \in Items, NEW f \in Given(specs[i]) \ {"content"}
               PROVE  \/ \E k \in DOMAIN plan[i] : WantedBy(i, k, f)
                      \/ Loses(specs[i], f)
    BY DEF NothingDropped, WantedBy
  <2>1. remain[i][f] = "none" /\ specs[i][f] # "none"
    BY DEF IInv, Emptied, Given
  <2>. QED  BY <2>1 DEF IInv, Accounted
<1>. QED  BY <1>1, InitInv, StepInv, PTL DEF Spec

\* The calls of resolve_paper end, whatever the specification: each of them has
\* fewer fields to resolve than the one before.
THEOREM ResolvingEnds == Spec => RulesConsume
<1>1. ASSUME IInv, [Next]_vars, NEW i \in Items, plan'[i] # plan[i]
      PROVE  /\ Given(remain'[i]) \subseteq Given(remain[i])
             /\ Given(remain'[i]) # Given(remain[i])
  <2>1. PICK j \in Items, rule \in RuleNames : ApplyRule(j, rule)
    BY <1>1, StepKinds DEF Build
  <2>2. /\ j = i /\ Applies(rule, remain[i], Planned(i))
        /\ remain'[i] = [f \in Fields |-> IF f \in Consumes(rule) THEN "none" ELSE remain[i][f]]
    <3>1. TypeInv
      BY <1>1 DEF IInv
    <3>2. /\ Applies(rule, remain[j], Planned(j))
          /\ \A h \in Items \ {j} : plan'[h] = plan[h]
          /\ remain'[j] = [f \in Fields |-> IF f \in Consumes(rule) THEN "none" ELSE remain[j][f]]
      BY <2>1, <3>1, Applied
    <3>. QED  BY <1>1, <3>2
  <2>3. Given(remain'[i]) = Given(remain[i]) \ Consumes(rule)
    BY <2>2 DEF Given
  <2>4. remain[i] \in Specs
    BY <1>1 DEF IInv, TypeInv
  <2>5. Consumes(rule) \cap Given(remain[i]) # {}
    BY <2>1, <2>2, <2>4, ConsumesGiven
  <2>. QED  BY <2>3, <2>5
<1>2. IInv /\ [Next]_vars =>
        [\A i \in Items : plan'[i] # plan[i] =>
           /\ Given(remain'[i]) \subseteq Given(remain[i])
           /\ Given(remain'[i]) # Given(remain[i])]_vars
  BY <1>1
<1>. QED  BY <1>2, InitInv, StepInv, PTL DEF Spec, RulesConsume

-----------------------------------------------------------------------------
(* What a document meets *)

\* The forms that come to be run.
Runs(form) == form \notin {"none", "unsupported", "ignored"}

LEMMA FormsRun ==
  ASSUME NEW f \in Fields, NEW form \in FormsOf(f) \cup {"none"}
  PROVE  /\ form = "unsupported" => f \in {"authors", "exclude"}
         /\ form = "ignored" => f = "exclude"
         /\ f = "exclude" /\ Runs(form) => form = "one"
         /\ Runs(form) => form \in {"one", "and", "or", "zero", "high"}
         /\ form = "zero" => f \in {"min_citations", "min_total_authors"}
  BY DEF Fields, FormsOf, Runs

\* What an operation selects is what meets the field, in the form it was given.
LEMMA SelectMeets ==
  ASSUME NEW f \in Fields, NEW form \in FormsOf(f) \cup {"none"}, Runs(form), NEW d
  PROVE  d \in Select(f, form, {d}) <=> Met(d, f, form)
<1>1. CASE f = "exclude"
  <2>1. form = "one"
    BY <1>1, FormsRun
  <2>. QED  BY <1>1, <2>1 DEF Select, Meeting, Met
<1>2. CASE f # "exclude"
  <2>1. form \in {"one", "and", "or", "zero", "high"}
    BY FormsRun
  <2>2. CASE form \in {"one", "high"}
    BY <1>2, <2>2 DEF Select, Meeting, Met
  <2>3. CASE form = "and"
    BY <1>2, <2>3 DEF Select, Meeting, Met
  <2>4. CASE form = "or"
    BY <1>2, <2>4 DEF Select, Meeting, Met
  <2>5. CASE form = "zero"
    BY <1>2, <2>5 DEF Select, Meeting, Met
  <2>. QED  BY <2>1, <2>2, <2>3, <2>4, <2>5
<1>. QED  BY <1>1, <1>2

-----------------------------------------------------------------------------
(* Which rule is chosen *)

LEMMA Places ==
  /\ DOMAIN Rules = 1..12
  /\ \A k \in 1..12 : /\ Rules[k] = "GenByContent" <=> k = 1
                      /\ Rules[k] = "GenByNameVenueYears" <=> k = 2
                      /\ Rules[k] = "PrimeByS2Search" <=> k = 9
  BY DEF Rules

\* A name is resolved before anything but a content.
LEMMA NameIsEarly ==
  ASSUME NEW rule, NEW spec, NEW planned, Chosen(rule, spec, planned), spec["name"] # "none"
  PROVE  rule \in {"GenByContent", "GenByNameVenueYears"}
<1>1. PICK k \in DOMAIN Rules : rule = Rules[k] /\ \A j \in 1..(k - 1) : ~Applies(Rules[j], spec, planned)
  BY DEF Chosen
<1>2. Applies(Rules[2], spec, planned)
  BY Places DEF Applies, Given, Fields, Rules, Primary, Filter
<1>3. k \in {1, 2}
  BY <1>1, <1>2, Places
<1>. QED  BY <1>1, <1>3 DEF Rules

\* A specification that can only be searched for is.
LEMMA SearchIsChosen ==
  ASSUME NEW rule, NEW spec, Chosen(rule, spec, FALSE), Searched(spec)
  PROVE  rule = "PrimeByS2Search"
<1>1. PICK k \in DOMAIN Rules :
        /\ rule = Rules[k] /\ Applies(rule, spec, FALSE)
        /\ \A j \in 1..(k - 1) : ~Applies(Rules[j], spec, FALSE)
  BY DEF Chosen
<1>2. Applies("PrimeByS2Search", spec, FALSE)
  BY DEF Searched, Applies, Primary, Filter
<1>3. k <= 9
  <2>1. k \in 1..12 /\ Rules[9] = "PrimeByS2Search"
    BY <1>1, Places
  <2>2. ~(9 \in 1..(k - 1))
    BY <1>1, <1>2, <2>1
  <2>. QED  BY <2>1, <2>2
<1>4. rule \notin Filter
  BY <1>1 DEF Applies
<1>5. rule \notin {"GenByContent", "GenByNameVenueYears", "GenByVenueYears", "GenByAuthors",
                   "PrimeByCitedBy", "PrimeByCiting"}
  <2>1. "content" \notin Given(spec) /\ "name" \notin Given(spec) /\ "authors" \notin Given(spec)
        /\ "citing" \notin Given(spec) /\ "cited_by" \notin Given(spec)
        /\ ~ {"venue", "years"} \subseteq Given(spec)
    BY DEF Searched
  <2>. QED  BY <1>1, <2>1 DEF Applies
<1>6. rule \in RuleNames
  BY <1>1 DEF RuleNames
<1>. QED  BY <1>4, <1>5, <1>6, RuleNamesAre DEF Filter

\* Which rule consumes what.
LEMMA Consumers ==
  ASSUME NEW rule \in RuleNames
  PROVE  /\ "content" \in Consumes(rule) => rule = "GenByContent"
         /\ "authors" \in Consumes(rule) => rule = "GenByAuthors"
         /\ "exclude" \in Consumes(rule) => rule = "FilterExclude"
         /\ "venue_group" \in Consumes(rule) => rule = "FilterByMetadata"
         /\ "publication_type" \in Consumes(rule) => rule = "FilterByMetadata"
         /\ "field_of_study" \in Consumes(rule) => rule \in {"PrimeByS2Search", "FilterByMetadata"}
  BY RuleNamesAre DEF Consumes, Searchable, Metadata

LEMMA EnforcesConsumed ==
  ASSUME NEW rule \in RuleNames, NEW spec
  PROVE  Enforces(rule, spec) \subseteq Consumes(rule)
  BY RuleNamesAre DEF Enforces, Consumes, Searchable, Metadata

LEMMA RulesPlanned ==
  ASSUME IInv, NEW i \in Items, NEW k \in DOMAIN plan[i]
  PROVE  plan[i][k].rule \in RuleNames
<1>1. plan[i] \in Seq(Steps)
  BY DEF IInv, TypeInv
<1>2. plan[i][k] \in Steps
  BY <1>1
<1>. QED  BY <1>2 DEF Steps

-----------------------------------------------------------------------------
(* The shape of a plan: it starts with a source, a title comes before all   *)
(* but the stub of a content, and what is run has a form that can be.       *)

Sources ==
  \A i \in Items :
    /\ Positive(specs[i])
    /\ plan[i] # <<>> => plan[i][1].rule \notin Filter
    /\ Searched(specs[i]) /\ plan[i] # <<>> => plan[i][1].rule = "PrimeByS2Search"

TitleFirst ==
  \A i \in Items :
    /\ remain[i]["name"] # "none" => \A j \in DOMAIN plan[i] : plan[i][j].rule = "GenByContent"
    /\ \A k \in DOMAIN plan[i] :
         plan[i][k].rule = "GenByNameVenueYears" => \A j \in 1..(k - 1) : plan[i][j].rule = "GenByContent"

WantsGiven ==
  \A i \in Items : \A k \in DOMAIN plan[i] : \A f \in DOMAIN plan[i][k].want :
    /\ f \in Fields /\ f \in Consumes(plan[i][k].rule)
    /\ plan[i][k].want[f] = specs[i][f] /\ Runs(specs[i][f])

Shape == Sources /\ TitleFirst /\ WantsGiven

LEMMA ShapeStep ==
  ASSUME IInv, Shape, NEW i \in Items, NEW rule \in RuleNames, ApplyRule(i, rule)
  PROVE  Shape'
<1> DEFINE n == Len(plan[i]) + 1
<1>1. TypeInv /\ RemainKept /\ Gone
  BY DEF IInv
<1>2. /\ specs' = specs /\ Items' = Items
      /\ Chosen(rule, remain[i], Planned(i)) /\ Applies(rule, remain[i], Planned(i))
      /\ ~Raises(rule, remain[i])
      /\ \A j \in Items \ {i} : plan'[j] = plan[j] /\ remain'[j] = remain[j]
      /\ DOMAIN plan'[i] = DOMAIN plan[i] \cup {n}
      /\ \A k \in DOMAIN plan[i] : plan'[i][k] = plan[i][k]
      /\ plan'[i][n] = [rule |-> rule,
                        want |-> [f \in Enforces(rule, remain[i]) \cap Given(remain[i]) |-> remain[i][f]]]
      /\ \A f \in Fields : remain'[i][f] = IF f \in Consumes(rule) THEN "none" ELSE remain[i][f]
      /\ plan'[i] # <<>>
  <2>1. /\ specs' = specs /\ Chosen(rule, remain[i], Planned(i)) /\ Applies(rule, remain[i], Planned(i))
        /\ \A j \in Items \ {i} : plan'[j] = plan[j] /\ remain'[j] = remain[j]
        /\ DOMAIN plan'[i] = DOMAIN plan[i] \cup {n}
        /\ \A k \in DOMAIN plan[i] : plan'[i][k] = plan[i][k]
        /\ plan'[i][n] = [rule |-> rule,
                          want |-> [f \in Enforces(rule, remain[i]) \cap Given(remain[i]) |-> remain[i][f]]]
        /\ remain'[i] = [f \in Fields |-> IF f \in Consumes(rule) THEN "none" ELSE remain[i][f]]
    BY <1>1, Applied
  <2>2. ~Raises(rule, remain[i])
    BY DEF ApplyRule
  <2>. QED  BY <2>1, <2>2 DEF Items
<1>3. plan[i] \in Seq(Steps) /\ remain[i] \in Specs /\ specs[i] \in Specs
  BY <1>1 DEF TypeInv, Items
<1>4. DOMAIN plan[i] = 1..(n - 1) /\ n \in Nat \ {0} /\ (plan[i] = <<>> <=> n = 1)
  BY <1>3
<1> HIDE DEF n
<1>5. Sources'
  <2>1. plan[i] = <<>> => rule \notin Filter
    BY <1>2 DEF Applies, Planned
  <2>2. plan[i] = <<>> /\ Searched(specs[i]) => rule = "PrimeByS2Search"
    <3> SUFFICES ASSUME plan[i] = <<>>, Searched(specs[i]) PROVE rule = "PrimeByS2Search"
      OBVIOUS
    <3>1. \A f \in Fields : remain[i][f] = specs[i][f]
      BY <1>1 DEF RemainKept
    <3>2. Given(remain[i]) = Given(specs[i])
      BY <3>1 DEF Given
    <3>3. Searched(remain[i])
      BY <3>2 DEF Searched
    <3>. QED  BY <1>2, <3>3, SearchIsChosen DEF Planned
  <2>3. plan'[i][1].rule = IF plan[i] = <<>> THEN rule ELSE plan[i][1].rule
    BY <1>2, <1>4
  <2>4. \A j \in Items : Positive(specs[j])
    BY DEF Shape, Sources
  <2>5. ASSUME NEW j \in Items
        PROVE  /\ plan'[j] # <<>> => plan'[j][1].rule \notin Filter
               /\ Searched(specs[j]) /\ plan'[j] # <<>> => plan'[j][1].rule = "PrimeByS2Search"
    BY <1>2, <2>1, <2>2, <2>3 DEF Shape, Sources
  <2>. QED  BY <1>2, <2>4, <2>5 DEF Sources
<1>6. TitleFirst'
  <2>1. ASSUME remain'[i]["name"] # "none"
        PROVE  rule = "GenByContent" /\ \A j \in DOMAIN plan[i] : plan[i][j].rule = "GenByContent"
    <3>1. "name" \notin Consumes(rule) /\ remain[i]["name"] # "none"
      BY <1>2, <2>1 DEF Fields
    <3>2. "name" \in Consumes("GenByNameVenueYears")
      BY DEF Consumes
    <3>3. rule = "GenByContent"
      BY <1>2, <3>1, <3>2, NameIsEarly
    <3>. QED  BY <3>1, <3>3 DEF Shape, TitleFirst
  <2>2. ASSUME rule = "GenByNameVenueYears"
        PROVE  \A j \in DOMAIN plan[i] : plan[i][j].rule = "GenByContent"
    <3>1. remain[i]["name"] # "none"
      BY <1>2, <2>2 DEF Applies, Given
    <3>. QED  BY <3>1 DEF Shape, TitleFirst
  <2>3. plan'[i][n].rule = rule
    BY <1>2
  <2>4. ASSUME NEW k \in DOMAIN plan'[i], plan'[i][k].rule = "GenByNameVenueYears", NEW j \in 1..(k - 1)
        PROVE  plan'[i][j].rule = "GenByContent"
    <3>1. j \in DOMAIN plan[i] /\ k \in 1..n
      BY <1>2, <1>4
    <3>2. CASE k = n
      BY <1>2, <2>2, <2>3, <2>4, <3>1, <3>2
    <3>3. CASE k # n
      <4>1. k \in DOMAIN plan[i] /\ plan[i][k].rule = "GenByNameVenueYears"
        BY <1>2, <1>4, <2>4, <3>1, <3>3
      <4>. QED  BY <1>2, <3>1, <4>1 DEF Shape, TitleFirst
    <3>. QED  BY <3>2, <3>3
  <2>5. remain'[i]["name"] # "none" => \A j \in DOMAIN plan'[i] : plan'[i][j].rule = "GenByContent"
    BY <1>2, <2>1, <2>3
  <2>6. ASSUME NEW h \in Items, h # i
        PROVE  /\ remain'[h]["name"] # "none" => \A j \in DOMAIN plan'[h] : plan'[h][j].rule = "GenByContent"
               /\ \A k \in DOMAIN plan'[h] : plan'[h][k].rule = "GenByNameVenueYears" =>
                    \A j \in 1..(k - 1) : plan'[h][j].rule = "GenByContent"
    BY <1>2, <2>6 DEF Shape, TitleFirst
  <2>. QED  BY <1>2, <2>4, <2>5, <2>6 DEF TitleFirst
<1>7. WantsGiven'
  <2>1. ASSUME NEW f \in Enforces(rule, remain[i]) \cap Given(remain[i])
        PROVE  /\ f \in Fields /\ f \in Consumes(rule)
               /\ remain[i][f] = specs[i][f] /\ Runs(specs[i][f])
    <3>1. f \in Fields /\ remain[i][f] # "none" /\ f \in Consumes(rule)
      BY EnforcesConsumed DEF Given
    <3>2. remain[i][f] = specs[i][f]
      BY <1>1, <3>1 DEF RemainKept
    <3>3. remain[i][f] \in FormsOf(f) \cup {"none"}
      BY <1>3, <3>1 DEF Specs
    <3>4. f = "authors" => remain[i][f] # "unsupported"
      BY <1>2, <3>1, Consumers DEF Raises
    <3>5. f = "exclude" => remain[i][f] = "one"
      <4> SUFFICES ASSUME f = "exclude" PROVE remain[i][f] = "one"
        OBVIOUS
      <4>1. rule = "FilterExclude"
        BY <3>1, Consumers
      <4>2. remain[i]["exclude"] # "ignored"
        BY <4>1 DEF Enforces
      <4>. QED  BY <1>2, <4>1, <4>2 DEF Applies
    <3>6. Runs(remain[i][f])
      BY <3>1, <3>3, <3>4, <3>5, FormsRun DEF Runs
    <3>. QED  BY <3>1, <3>2, <3>6
  <2>2. /\ plan'[i][n].rule = rule
        /\ DOMAIN plan'[i][n].want = Enforces(rule, remain[i]) \cap Given(remain[i])
        /\ \A f \in DOMAIN plan'[i][n].want : plan'[i][n].want[f] = remain[i][f]
    BY <1>2
  <2>3. ASSUME NEW j \in Items, NEW k \in DOMAIN plan'[j], NEW f \in DOMAIN plan'[j][k].want
        PROVE  /\ f \in Fields /\ f \in Consumes(plan'[j][k].rule)
               /\ plan'[j][k].want[f] = specs[j][f] /\ Runs(specs[j][f])
    <3>1. CASE j = i /\ k = n
      BY <2>1, <2>2, <3>1
    <3>2. CASE ~(j = i /\ k = n)
      <4>1. k \in DOMAIN plan[j] /\ plan'[j][k] = plan[j][k]
        BY <1>2, <3>2
      <4>. QED  BY <4>1 DEF Shape, WantsGiven
    <3>. QED  BY <3>1, <3>2
  <2>. QED  BY <1>2, <2>3 DEF WantsGiven
<1>. QED  BY <1>5, <1>6, <1>7 DEF Shape

LEMMA ShapeKept == ASSUME Shape, UNCHANGED <<specs, remain, plan>> PROVE Shape'
  BY DEF Shape, Sources, TitleFirst, WantsGiven, Items

-----------------------------------------------------------------------------
(* Running: documents keep meeting what was asked of them, and those that   *)
(* meet a specification are there or lost in a search.                      *)

Whole(i, d) == \A f \in Fields : Met(d, f, specs[i][f])

\* what the answer may miss of a field: PlanSound
Allowed(i, d, f) ==
  \/ Met(d, f, specs[i][f])
  \/ f = "name" /\ <<"name", 2>> \in Meets[d]
  \/ Loses(specs[i], f)

RunTypes ==
  /\ ran \in [Items -> Nat]
  /\ docs \in [Items -> SUBSET Docs] /\ bare \in [Items -> SUBSET Docs] /\ lost \in [Items -> SUBSET Docs]

RunShape ==
  \A i \in Items :
    /\ ran[i] <= Len(plan[i])
    /\ phase = "planning" => ran[i] = 0
    /\ \A k \in 1..ran[i] : plan[i][k].rule # "GenByContent"
    /\ bare[i] # {} => specs[i]["name"] # "none"

DocsSound ==
  \A i \in Items : \A d \in docs[i] : \A k \in 1..ran[i] : \A f \in DOMAIN plan[i][k].want :
    Allowed(i, d, f)

DocsComplete ==
  \A i \in Items : ran[i] > 0 => \A d \in Docs : Whole(i, d) => d \in docs[i] \cup lost[i]

AllRan ==
  phase = "done" => answer = UNION {docs[i] : i \in Items} /\ \A i \in Items : ran[i] = Len(plan[i])

RunInv == RunTypes /\ RunShape /\ DocsSound /\ DocsComplete /\ AllRan

\* One operation of plan i runs, and leaves D, of which B have basic fields
\* alone, with L lost.
LEMMA Ran ==
  ASSUME IInv, Shape, RunInv, NEW i \in Items, Running(i), Step(i).rule # "GenByContent",
         NEW D \in SUBSET Docs, NEW B \in SUBSET Docs, NEW L \in SUBSET Docs,
         docs' = [docs EXCEPT ![i] = D], bare' = [bare EXCEPT ![i] = B],
         lost' = [lost EXCEPT ![i] = L], ran' = [ran EXCEPT ![i] = @ + 1],
         UNCHANGED <<specs, remain, plan, phase, answer>>,
         B # {} => specs[i]["name"] # "none",
         ran[i] > 0 => D \subseteq docs[i],
         \A d \in D : \A f \in DOMAIN Step(i).want : Allowed(i, d, f),
         \A d \in Docs : Whole(i, d) /\ (ran[i] > 0 => d \in docs[i] \cup lost[i]) => d \in D \cup L
  PROVE  RunInv'
<1>1. phase = "running" /\ ran[i] < Len(plan[i]) /\ Step(i) = plan[i][ran[i] + 1]
  BY DEF Running, Step
<1>2. ran[i] \in Nat /\ Len(plan[i]) \in Nat
  <2>1. plan[i] \in Seq(Steps)
    BY DEF IInv, TypeInv
  <2>. QED  BY <2>1 DEF RunInv, RunTypes
<1>3. /\ docs'[i] = D /\ bare'[i] = B /\ lost'[i] = L /\ ran'[i] = ran[i] + 1
      /\ \A j \in Items \ {i} : docs'[j] = docs[j] /\ bare'[j] = bare[j] /\ lost'[j] = lost[j] /\ ran'[j] = ran[j]
  BY DEF RunInv, RunTypes
<1>4. Items' = Items /\ \A j, d, f : Allowed(j, d, f)' = Allowed(j, d, f)
  BY DEF Items, Allowed
<1>5. RunTypes'
  BY <1>2, <1>4 DEF RunInv, RunTypes
<1>6. RunShape'
  <2>1. ASSUME NEW k \in 1..(ran[i] + 1) PROVE plan[i][k].rule # "GenByContent"
    <3>1. k \in 1..ran[i] \/ k = ran[i] + 1
      BY <1>2
    <3>. QED  BY <1>1, <3>1 DEF RunInv, RunShape
  <2>2. ran[i] + 1 <= Len(plan[i])
    BY <1>1, <1>2
  <2>3. ASSUME NEW j \in Items
        PROVE  /\ ran'[j] <= Len(plan[j])
               /\ \A k \in 1..ran'[j] : plan[j][k].rule # "GenByContent"
               /\ bare'[j] # {} => specs[j]["name"] # "none"
    BY <1>3, <2>1, <2>2 DEF RunInv, RunShape
  <2>. QED  BY <1>1, <1>4, <2>3 DEF RunShape
<1>7. DocsSound'
  <2>1. ASSUME NEW d \in D, NEW k \in 1..(ran[i] + 1), NEW f \in DOMAIN plan[i][k].want
        PROVE  Allowed(i, d, f)
    <3>1. CASE k = ran[i] + 1
      BY <1>1, <3>1
    <3>2. CASE k # ran[i] + 1
      <4>1. k \in 1..ran[i] /\ ran[i] > 0
        BY <1>2, <3>2
      <4>. QED  BY <4>1 DEF RunInv, DocsSound
    <3>. QED  BY <3>1, <3>2
  <2>2. ASSUME NEW j \in Items, NEW d \in docs'[j], NEW k \in 1..ran'[j], NEW f \in DOMAIN plan[j][k].want
        PROVE  Allowed(j, d, f)
    BY <1>3, <2>1 DEF RunInv, DocsSound
  <2>. QED  BY <1>4, <2>2 DEF DocsSound
<1>8. DocsComplete'
  <2>1. ASSUME NEW d \in Docs, Whole(i, d) PROVE d \in D \cup L
    BY <2>1 DEF RunInv, DocsComplete
  <2>2. ASSUME NEW j \in Items, ran'[j] > 0, NEW d \in Docs, Whole(j, d)
        PROVE  d \in docs'[j] \cup lost'[j]
    BY <1>3, <2>1, <2>2 DEF RunInv, DocsComplete
  <2>3. \A j, d : Whole(j, d)' = Whole(j, d)
    BY DEF Whole
  <2>. QED  BY <1>4, <2>2, <2>3 DEF DocsComplete
<1>9. AllRan'
  BY <1>1 DEF AllRan
<1>. QED  BY <1>5, <1>6, <1>7, <1>8, <1>9 DEF RunInv

\* The documents an operation selects are those that meet what it wants.
LEMMA Selected ==
  ASSUME IInv, Shape, RunInv, NEW i \in Items, Running(i), NEW d \in Docs
  PROVE  /\ \A f \in DOMAIN Step(i).want :
              d \in Select(f, Step(i).want[f], {d}) <=> Met(d, f, specs[i][f])
         /\ \A base : d \in SelectAll(Step(i).want, base) <=>
              d \in base /\ \A f \in DOMAIN Step(i).want : Met(d, f, specs[i][f])
         /\ \A base : Whole(i, d) /\ d \in base => d \in SelectAll(Step(i).want, base)
<1>1. ran[i] + 1 \in DOMAIN plan[i] /\ specs[i] \in Specs
  <2>1. plan[i] \in Seq(Steps) /\ specs \in Seq(Specs) /\ ran[i] \in Nat
    BY DEF IInv, TypeInv, RunInv, RunTypes
  <2>. QED  BY <2>1 DEF Running, Items
<1>2. ASSUME NEW f \in DOMAIN Step(i).want
      PROVE  /\ f \in Fields
             /\ d \in Select(f, Step(i).want[f], {d}) <=> Met(d, f, specs[i][f])
  <2>1. f \in Fields /\ Step(i).want[f] = specs[i][f] /\ Runs(specs[i][f])
    BY <1>1 DEF Shape, WantsGiven, Step
  <2>2. specs[i][f] \in FormsOf(f) \cup {"none"}
    BY <1>1, <2>1 DEF Specs
  <2>. QED  BY <2>1, <2>2, SelectMeets
<1>. QED  BY <1>2 DEF SelectAll, Whole

\* An operation after the first is given what there is.
LEMMA FirstSource ==
  ASSUME IInv, Shape, RunInv, NEW i \in Items, Running(i), Step(i).rule \in Filter
  PROVE  ran[i] > 0
<1>1. plan[i] \in Seq(Steps) /\ ran[i] \in Nat
  BY DEF IInv, TypeInv, RunInv, RunTypes
<1>2. plan[i] # <<>>
  BY <1>1 DEF Running
<1>3. plan[i][1].rule \notin Filter
  BY <1>2 DEF Shape, Sources
<1>. QED  BY <1>1, <1>3 DEF Step

LEMMA RunTitleStep ==
  ASSUME IInv, Shape, RunInv, NEW i \in Items, RunTitle(i)
  PROVE  RunInv'
<1> DEFINE want == Step(i).want
           years == YearsOf(want)
<1>1. PICK hit \in [years -> {{}} \cup {{d} : d \in Titles}] :
        /\ \A y \in years : \A d \in hit[y] : d \in Titled(want, y)
        /\ LET hits     == UNION {hit[y] : y \in years}
               prefixed == IF {} \in {hit[y] : y \in years} THEN Meeting("name", 2, Docs) ELSE {}
           IN  /\ docs' = [docs EXCEPT ![i] = hits \cup prefixed]
               /\ bare' = [bare EXCEPT ![i] = hits \ prefixed]
               /\ lost' = [lost EXCEPT ![i] = SelectAll(want, Docs) \ (hits \cup prefixed)]
  BY DEF RunTitle
<1> DEFINE hits     == UNION {hit[y] : y \in years}
           prefixed == IF {} \in {hit[y] : y \in years} THEN Meeting("name", 2, Docs) ELSE {}
           D == hits \cup prefixed
           B == hits \ prefixed
           L == SelectAll(want, Docs) \ D
<1>2. /\ docs' = [docs EXCEPT ![i] = D] /\ bare' = [bare EXCEPT ![i] = B]
      /\ lost' = [lost EXCEPT ![i] = L]
  BY <1>1
<1>3. /\ Running(i) /\ Step(i).rule = "GenByNameVenueYears" /\ ran' = [ran EXCEPT ![i] = @ + 1]
      /\ UNCHANGED <<specs, remain, plan, phase, answer>>
  BY DEF RunTitle
<1>4. /\ ran[i] \in Nat /\ ran[i] + 1 \in DOMAIN plan[i] /\ plan[i][ran[i] + 1] = Step(i)
  <2>1. plan[i] \in Seq(Steps) /\ ran[i] \in Nat
    BY DEF IInv, TypeInv, RunInv, RunTypes
  <2>. QED  BY <1>3, <2>1 DEF Running, Step
<1>5. specs[i]["name"] # "none"
  BY <1>3, <1>4 DEF IInv, FromGiven
<1>6. ran[i] = 0
  <2>1. \A j \in 1..ran[i] : plan[i][j].rule = "GenByContent"
    BY <1>3, <1>4 DEF Shape, TitleFirst
  <2>2. \A j \in 1..ran[i] : plan[i][j].rule # "GenByContent"
    BY DEF RunInv, RunShape
  <2>. QED  BY <1>4, <2>1, <2>2
<1>7. hits \subseteq Titles /\ Titles \subseteq Docs
  BY <1>1, PlannerAssumption
<1>8. prefixed \subseteq Docs /\ \A d \in prefixed : <<"name", 2>> \in Meets[d]
  BY DEF Meeting
<1>9. \A d \in hits : \A f \in DOMAIN want \ {"years"} : d \in Select(f, want[f], {d})
  BY <1>1 DEF Titled
<1>10. D \in SUBSET Docs /\ B \in SUBSET Docs /\ L \in SUBSET Docs
  BY <1>7, <1>8 DEF SelectAll
<1>11. ASSUME NEW d \in D, NEW f \in DOMAIN want PROVE Allowed(i, d, f)
  <2>1. f \in {"name", "venue", "years"}
    <3>1. f \in Consumes("GenByNameVenueYears")
      BY <1>3, <1>4 DEF Shape, WantsGiven
    <3>. QED  BY <3>1 DEF Consumes
  <2>2. CASE f \in {"venue", "years"}
    BY <1>5, <2>2 DEF Allowed, Loses
  <2>3. CASE f = "name" /\ d \in prefixed
    BY <1>8, <2>3 DEF Allowed
  <2>4. CASE f = "name" /\ d \in hits
    <3>1. d \in Select(f, want[f], {d})
      BY <1>9, <2>4
    <3>2. d \in Docs
      BY <1>7, <2>4
    <3>. QED  BY <1>3, <3>1, <3>2, Selected DEF Allowed
  <2>. QED  BY <2>1, <2>2, <2>3, <2>4
<1>12. ASSUME NEW d \in Docs, Whole(i, d) PROVE d \in D \cup L
  <2>1. d \in SelectAll(want, Docs)
    BY <1>3, <1>12, Selected
  <2>. QED  BY <2>1
<1>13. ran[i] > 0 => D \subseteq docs[i]
  BY <1>6
<1>14. \A d \in D : \A f \in DOMAIN Step(i).want : Allowed(i, d, f)
  BY <1>11
<1>15. \A d \in Docs : Whole(i, d) /\ (ran[i] > 0 => d \in docs[i] \cup lost[i]) => d \in D \cup L
  BY <1>12
<1>16. B # {} => specs[i]["name"] # "none"
  BY <1>5
<1>17. Step(i).rule # "GenByContent"
  BY <1>3
<1> HIDE DEF D, B, L, want, hits, prefixed, years
<1>. QED  BY <1>2, <1>3, <1>10, <1>13, <1>14, <1>15, <1>16, <1>17, Ran

LEMMA RunFetchStep ==
  ASSUME IInv, Shape, RunInv, NEW i \in Items, RunFetch(i) \/ RunFilter(i)
  PROVE  RunInv'
<1> DEFINE want == Step(i).want
           exact == SelectAll(want, Source(i))
<1>1. /\ Running(i) /\ ran' = [ran EXCEPT ![i] = @ + 1]
      /\ UNCHANGED <<specs, remain, plan, phase, answer>>
      /\ Step(i).rule # "GenByContent"
  BY DEF RunFetch, RunFilter, Filter
<1>2. PICK missed : /\ docs' = [docs EXCEPT ![i] = exact \ missed]
                    /\ lost' = [lost EXCEPT ![i] = lost[i] \cup (exact \cap missed)]
  BY DEF RunFetch, RunFilter
<1>3. PICK B \in {{}, bare[i]} : bare' = [bare EXCEPT ![i] = B]
  BY DEF RunFetch, RunFilter
<1>4. docs[i] \subseteq Docs /\ lost[i] \subseteq Docs /\ bare[i] \subseteq Docs /\ ran[i] \in Nat
  BY DEF RunInv, RunTypes
<1>5. bare[i] # {} => specs[i]["name"] # "none"
  BY DEF RunInv, RunShape
<1>6. exact \subseteq Docs /\ exact \subseteq Source(i)
  BY DEF SelectAll
<1>7. ran[i] > 0 => Source(i) = docs[i]
  BY DEF Source
<1>8. \A d \in exact : \A f \in DOMAIN want : Allowed(i, d, f)
  BY <1>1, <1>6, Selected DEF Allowed
<1>9. ASSUME NEW d \in Docs, Whole(i, d), ran[i] > 0 => d \in docs[i] \cup lost[i]
      PROVE  d \in (exact \ missed) \cup (lost[i] \cup (exact \cap missed))
  <2>1. d \in Source(i) \/ d \in lost[i]
    BY <1>4, <1>9 DEF Source
  <2>2. d \in Source(i) => d \in exact
    BY <1>1, <1>9, Selected
  <2>. QED  BY <2>1, <2>2
<1> DEFINE D == exact \ missed
           L == lost[i] \cup (exact \cap missed)
<1>10. D \in SUBSET Docs /\ L \in SUBSET Docs /\ B \in SUBSET Docs
       /\ docs' = [docs EXCEPT ![i] = D] /\ lost' = [lost EXCEPT ![i] = L]
  BY <1>2, <1>4, <1>6
<1>11. ran[i] > 0 => D \subseteq docs[i]
  BY <1>6, <1>7
<1>12. \A d \in D : \A f \in DOMAIN Step(i).want : Allowed(i, d, f)
  BY <1>8
<1>13. \A d \in Docs : Whole(i, d) /\ (ran[i] > 0 => d \in docs[i] \cup lost[i]) => d \in D \cup L
  BY <1>9
<1>14. B # {} => specs[i]["name"] # "none"
  BY <1>5
<1> HIDE DEF D, L, want, exact
<1>. QED  BY <1>1, <1>3, <1>10, <1>11, <1>12, <1>13, <1>14, Ran

LEMMA RunExcludeStep ==
  ASSUME IInv, Shape, RunInv, NEW i \in Items, RunExclude(i)
  PROVE  RunInv'
<1>1. /\ Running(i) /\ ran' = [ran EXCEPT ![i] = @ + 1] /\ Step(i).rule = "FilterExclude"
      /\ UNCHANGED <<specs, remain, plan, phase, lost, bare, answer>>
  BY DEF RunExclude
<1>2. PICK unseen \in {{}, bare[i]} :
        docs' = [docs EXCEPT ![i] = SelectAll(Step(i).want, docs[i]) \cup (docs[i] \cap unseen)]
  BY DEF RunExclude
<1> DEFINE D == SelectAll(Step(i).want, docs[i]) \cup (docs[i] \cap unseen)
<1>3. docs[i] \subseteq Docs /\ lost[i] \subseteq Docs /\ bare[i] \subseteq Docs /\ ran[i] \in Nat
  BY DEF RunInv, RunTypes
<1>4. ran[i] > 0
  BY <1>1, FirstSource DEF Filter
<1>5. bare[i] # {} => specs[i]["name"] # "none"
  BY DEF RunInv, RunShape
<1>6. D \in SUBSET Docs /\ D \subseteq docs[i]
  BY <1>3 DEF SelectAll
<1>7. DOMAIN Step(i).want \subseteq {"exclude"}
  <2>1. ran[i] + 1 \in DOMAIN plan[i]
    <3>1. plan[i] \in Seq(Steps)
      BY DEF IInv, TypeInv
    <3>. QED  BY <1>1, <1>3, <3>1 DEF Running
  <2>2. \A f \in DOMAIN Step(i).want : f \in Consumes("FilterExclude")
    BY <1>1, <2>1 DEF Shape, WantsGiven, Step
  <2>. QED  BY <2>2 DEF Consumes
<1>8. ASSUME NEW d \in D, NEW f \in DOMAIN Step(i).want PROVE Allowed(i, d, f)
  <2>1. CASE d \in SelectAll(Step(i).want, docs[i])
    BY <1>1, <1>6, <2>1, Selected DEF Allowed
  <2>2. CASE d \in unseen
    BY <1>5, <1>7, <2>2 DEF Allowed, Loses
  <2>. QED  BY <2>1, <2>2
<1>9. ASSUME NEW d \in Docs, Whole(i, d), d \in docs[i] \cup lost[i] PROVE d \in D \cup lost[i]
  BY <1>1, <1>9, Selected
<1>10. lost' = [lost EXCEPT ![i] = lost[i]] /\ bare' = [bare EXCEPT ![i] = bare[i]]
       /\ docs' = [docs EXCEPT ![i] = D]
  BY <1>1, <1>2 DEF RunInv, RunTypes
<1>11. Step(i).rule # "GenByContent"
  BY <1>1
<1>12. ran[i] > 0 => D \subseteq docs[i]
  BY <1>6
<1>13. \A d \in D : \A f \in DOMAIN Step(i).want : Allowed(i, d, f)
  BY <1>8
<1>14. \A d \in Docs : Whole(i, d) /\ (ran[i] > 0 => d \in docs[i] \cup lost[i]) => d \in D \cup lost[i]
  BY <1>4, <1>9
<1> DEFINE B == bare[i]
           L == lost[i]
<1>15. /\ lost' = [lost EXCEPT ![i] = L] /\ bare' = [bare EXCEPT ![i] = B]
       /\ L \in SUBSET Docs /\ B \in SUBSET Docs /\ (B # {} => specs[i]["name"] # "none")
       /\ \A d \in Docs : Whole(i, d) /\ (ran[i] > 0 => d \in docs[i] \cup lost[i]) => d \in D \cup L
  BY <1>3, <1>5, <1>10, <1>14
<1>16. D \in SUBSET Docs /\ docs' = [docs EXCEPT ![i] = D]
  BY <1>6, <1>10
<1>17. /\ UNCHANGED <<specs, remain, plan, phase, answer>>
       /\ Running(i) /\ ran' = [ran EXCEPT ![i] = @ + 1]
  BY <1>1
<1> HIDE DEF D, B, L
<1>. QED  BY <1>11, <1>12, <1>13, <1>15, <1>16, <1>17, Ran

-----------------------------------------------------------------------------
(* Every step keeps what is said of running *)

LEMMA RunInvInit == Init => RunInv
<1> SUFFICES ASSUME Init PROVE RunInv
  OBVIOUS
<1>1. RunTypes
  BY DEF Init, RunTypes
<1>2. RunShape
  BY DEF Init, RunShape, Items
<1>3. DocsSound /\ DocsComplete /\ AllRan
  BY DEF Init, DocsSound, DocsComplete, AllRan, Items
<1>. QED  BY <1>1, <1>2, <1>3 DEF RunInv

LEMMA ApplyRuleRun ==
  ASSUME IInv, RunInv, NEW i \in Items, NEW rule \in RuleNames, ApplyRule(i, rule)
  PROVE  RunInv'
<1>1. /\ phase = "planning" /\ UNCHANGED <<specs, phase, ran, docs, bare, lost, answer>>
  BY DEF ApplyRule, Resolving
<1>2. \A j \in Items : ran[j] = 0
  BY <1>1 DEF RunInv, RunShape
<1>3. Items' = Items /\ \A j \in Items : 0 <= Len(plan'[j])
  <2>1. TypeInv
    BY DEF IInv
  <2>2. TypeInv' /\ specs' = specs
    BY <2>1, Applied
  <2>3. \A j \in Items : plan'[j] \in Seq(Steps)
    BY <2>2 DEF TypeInv, Items
  <2>4. \A j \in Items : Len(plan'[j]) \in Nat
    BY <2>3
  <2>. QED  BY <2>2, <2>4 DEF Items
<1>4. RunTypes'
  BY <1>1, <1>3 DEF RunInv, RunTypes
<1>5. RunShape'
  BY <1>1, <1>2, <1>3 DEF RunInv, RunShape
<1>6. DocsSound'
  <2>1. \A j \in Items' : 1..ran'[j] = {}
    BY <1>1, <1>2, <1>3
  <2>. QED  BY <2>1 DEF DocsSound
<1>7. DocsComplete' /\ AllRan'
  BY <1>1, <1>2, <1>3 DEF DocsComplete, AllRan
<1>. QED  BY <1>4, <1>5, <1>6, <1>7 DEF RunInv

LEMMA QuietRun ==
  ASSUME RunInv, UNCHANGED <<specs, remain, plan, ran, docs, bare, lost>>,
         \/ phase' \in {"running", "void"}
         \/ UNCHANGED <<phase, answer>>
         \/ /\ answer' = UNION {docs[i] : i \in Items}
            /\ \A i \in Items : ran[i] = Len(plan[i])
            /\ phase' = "done"
  PROVE  RunInv'
<1>1. Items' = Items
  BY DEF Items
<1>2. RunTypes'
  BY <1>1 DEF RunInv, RunTypes
<1>3. RunShape'
  BY <1>1 DEF RunInv, RunShape
<1>4. DocsSound'
  BY <1>1 DEF RunInv, DocsSound, Allowed
<1>5. DocsComplete'
  BY <1>1 DEF RunInv, DocsComplete, Whole
<1>6. AllRan'
  BY <1>1 DEF RunInv, AllRan
<1>. QED  BY <1>2, <1>3, <1>4, <1>5, <1>6 DEF RunInv

\* A supported specification that something can be fetched by has a rule for what
\* is left of it, which does not raise.
LEMMA SupportedHasRule ==
  ASSUME IInv, Shape, NEW i \in Items, Given(remain[i]) # {}, Supported(specs[i]), Fetchable(specs[i])
  PROVE  /\ \E k \in DOMAIN Rules : Applies(Rules[k], remain[i], Planned(i))
         /\ \A rule \in RuleNames : Chosen(rule, remain[i], Planned(i)) => ~Raises(rule, remain[i])
<1> DEFINE spec == specs[i]
           left == remain[i]
<1>1. /\ spec \in Specs /\ left \in Specs
      /\ \A f \in Fields : left[f] = spec[f] \/ left[f] = "none"
      /\ \A f \in Given(left) : f \in Fields /\ left[f] = spec[f]
  BY DEF IInv, TypeInv, RemainKept, Items, Given
<1>2. ~Planned(i) => \A f \in Fields : left[f] = spec[f]
  BY DEF Planned, IInv, RemainKept
<1>3. \A k \in DOMAIN plan[i] : plan[i][k].rule \in RuleNames
  BY RulesPlanned
<1>4. ASSUME NEW rule \in RuleNames, Applies(rule, left, Planned(i))
      PROVE  \E k \in DOMAIN Rules : Applies(Rules[k], left, Planned(i))
  BY <1>4 DEF RuleNames
<1> HIDE DEF spec, left
<1>5. \E rule \in RuleNames : Applies(rule, left, Planned(i))
  <2> SUFFICES ASSUME \A rule \in RuleNames : ~Applies(rule, left, Planned(i)) PROVE FALSE
    OBVIOUS
  <2> USE RuleNamesAre
  <2>1. {"content", "name", "authors"} \cap Given(left) = {}
    <3>1. "content" \notin Given(left)
      BY DEF Applies, Primary, Filter
    <3>2. "name" \notin Given(left)
      BY DEF Applies, Primary, Filter
    <3>3. "authors" \notin Given(left)
      BY DEF Applies, Primary, Filter
    <3>. QED  BY <3>1, <3>2, <3>3
  <2>2. "cited_by" \notin Given(left)
    <3>1. Planned(i) => "cited_by" \notin Given(left)
      BY DEF Applies, Primary, Filter
    <3>2. ~Planned(i) => "cited_by" \notin Given(left)
      BY DEF Applies, Primary, Filter
    <3>. QED  BY <3>1, <3>2
  <2>3. "citing" \notin Given(left)
    <3>1. Planned(i) => "citing" \notin Given(left)
      BY DEF Applies, Primary, Filter
    <3>2. ~Planned(i) => "citing" \notin Given(left)
      BY DEF Applies, Primary, Filter
    <3>. QED  BY <3>1, <3>2
  <2>4. CASE ~Planned(i)
    <3>1. Given(left) = Given(spec)
      BY <1>2, <2>4 DEF Given
    <3>2. "venue" \notin Given(left) /\ "field_of_study" \notin Given(left)
      BY <2>4 DEF Applies, Primary, Filter
    <3>3. ~Fetchable(spec)
      BY <2>1, <2>2, <2>3, <3>1, <3>2 DEF Fetchable
    <3>. QED  BY <3>3 DEF spec
  <2>5. CASE Planned(i)
    <3>1. "min_total_authors" \notin Truthy(left)
      BY <2>5 DEF Applies, Primary, Filter
    <3>2. Metadata \cap Truthy(left) = {}
      BY <2>5 DEF Applies, Primary, Filter
    <3>3. left["exclude"] \notin {"one", "ignored"}
      BY <2>5 DEF Applies, Primary, Filter
    <3>4. PICK f \in Given(left) : TRUE
      BY DEF left
    <3>5. f \in Fields /\ left[f] = spec[f] /\ spec[f] \in FormsOf(f) /\ spec[f] # "none"
      BY <1>1, <3>4 DEF Given, Specs
    <3>6. f # "exclude"
      <4>1. f = "exclude" => left[f] = "unsupported"
        BY <3>3, <3>5 DEF FormsOf
      <4>. QED  BY <3>5, <4>1 DEF Supported, spec
    <3>7. f # "min_total_authors"
      <4>1. f = "min_total_authors" => left[f] = "zero"
        BY <3>1, <3>5 DEF Truthy
      <4>. QED  BY <3>5, <4>1 DEF Supported, spec
    <3>8. f \in Metadata
      BY <2>1, <2>2, <2>3, <3>4, <3>5, <3>6, <3>7 DEF Fields, Metadata, Searchable
    <3>9. left[f] = "zero"
      BY <3>2, <3>5, <3>8 DEF Truthy
    <3>10. f = "min_citations"
      BY <3>5, <3>7, <3>9, FormsRun
    <3>11. ASSUME NEW k \in DOMAIN plan[i], "min_citations" \in Consumes(plan[i][k].rule) PROVE FALSE
      BY <3>5, <3>9, <3>10, <3>11 DEF IInv, Gone, left
    <3>12. /\ "min_citations" \in Consumes("PrimeByS2Search")
           /\ "min_citations" \in Consumes("FilterByMetadata")
      BY DEF Consumes, Searchable, Metadata
    <3>13. \A k \in DOMAIN plan[i] : plan[i][k].rule \notin {"PrimeByS2Search", "FilterByMetadata"}
      BY <3>11, <3>12
    <3>14. spec["min_citations"] = "zero"
      BY <3>5, <3>9, <3>10
    <3>15. CASE Searched(spec)
      <4>1. plan[i] # <<>> /\ plan[i][1].rule = "PrimeByS2Search"
        BY <2>5, <3>15 DEF Planned, Shape, Sources, spec
      <4>2. 1 \in DOMAIN plan[i]
        <5>1. plan[i] \in Seq(Steps)
          BY DEF IInv, TypeInv
        <5>. QED  BY <4>1, <5>1
      <4>. QED  BY <3>13, <4>1, <4>2
    <3>16. ASSUME NEW g \in {"venue_group", "publication_type", "field_of_study"}, g \in Given(spec)
           PROVE  FALSE
      <4>1. g \in Fields /\ spec[g] # "none" /\ spec[g] \in FormsOf(g)
        BY <1>1, <3>16 DEF Given, Specs
      <4>2. left[g] = "none"
        <5>1. spec[g] # "zero"
          BY <4>1, FormsRun
        <5>2. left[g] # "none" => g \in Truthy(left)
          BY <1>1, <4>1, <5>1 DEF Truthy
        <5>. QED  BY <3>2, <5>2 DEF Metadata, Searchable
      <4>3. PICK k \in DOMAIN plan[i] : g \in Consumes(plan[i][k].rule)
        BY <4>1, <4>2 DEF IInv, RemainKept, ConsumedBy, spec, left
      <4>. QED  BY <1>3, <3>13, <4>3, Consumers
    <3>. QED  BY <3>14, <3>15, <3>16 DEF Supported, spec
  <2>. QED  BY <2>4, <2>5
<1>6. ASSUME NEW rule \in RuleNames, Chosen(rule, left, Planned(i)), Raises(rule, left)
      PROVE  FALSE
  <2>1. ASSUME NEW g \in {"years", "venue", "venue_group", "publication_type"}, left[g] = "and"
        PROVE  FALSE
    <3>1. spec[g] = "and"
      BY <1>1, <2>1 DEF Fields
    <3>. QED  BY <3>1 DEF Supported, spec
  <2>2. left["authors"] # "unsupported"
    BY <1>1 DEF Supported, spec, Fields
  <2>3. CASE rule = "PrimeByS2Search" /\ {"venue", "years"} \cap Given(left) = {}
    <3>1. Searched(left) /\ ~Planned(i)
      BY <1>6, <2>3, SearchIsFirst
    <3>2. Given(left) = Given(spec)
      BY <1>2, <3>1 DEF Given
    <3>3. ~Fetchable(spec)
      BY <2>3, <3>1, <3>2 DEF Fetchable, Searched
    <3>. QED  BY <3>3 DEF spec
  <2>. QED  BY <1>6, <2>1, <2>2, <2>3 DEF Raises
<1>. QED  BY <1>4, <1>5, <1>6 DEF left

\* Planning goes void for want of support alone.
LEMMA VoidForSupport ==
  ASSUME IInv, Shape, PlansSupported, [Next]_vars
  PROVE  PlansSupported'
<1>1. CASE \E i \in Items, rule \in RuleNames : ApplyRule(i, rule)
  <2>1. phase' = "planning"
    BY <1>1 DEF ApplyRule, Resolving
  <2>. QED  BY <2>1 DEF PlansSupported
<1>2. CASE Build
  BY <1>2 DEF Build, PlansSupported
<1>3. ASSUME UNCHANGED <<specs, remain, plan>>, phase' # "void" \/ phase' = phase
      PROVE  PlansSupported'
  BY <1>3 DEF PlansSupported, Items
<1>4. ASSUME NEW i \in Items, NEW k \in DOMAIN Rules, RuleRaises(i, Rules[k])
      PROVE  PlansSupported'
  <2>1. Given(remain[i]) # {} /\ Chosen(Rules[k], remain[i], Planned(i)) /\ Raises(Rules[k], remain[i])
    BY <1>4 DEF RuleRaises, Resolving
  <2>2. Rules[k] \in RuleNames
    BY DEF RuleNames
  <2>3. ~Supported(specs[i]) \/ ~Fetchable(specs[i])
    BY <2>1, <2>2, SupportedHasRule
  <2>4. UNCHANGED <<specs, remain>>
    BY <1>4 DEF RuleRaises
  <2>. QED  BY <2>3, <2>4 DEF PlansSupported, Items
<1>5. ASSUME NEW i \in Items, NoRuleMatches(i)
      PROVE  PlansSupported'
  <2>1. /\ Given(remain[i]) # {}
        /\ \A k \in DOMAIN Rules : ~Applies(Rules[k], remain[i], Planned(i))
    BY <1>5 DEF NoRuleMatches, Resolving
  <2>2. ~Supported(specs[i]) \/ ~Fetchable(specs[i])
    BY <2>1, SupportedHasRule
  <2>3. UNCHANGED <<specs, remain>>
    BY <1>5 DEF NoRuleMatches
  <2>. QED  BY <2>2, <2>3 DEF PlansSupported, Items
<1>6. ASSUME NEW i \in Items, StepRaises(i)
      PROVE  PlansSupported'
  <2>1. \A j \in Items : Given(remain[j]) = {}
    BY <1>6 DEF StepRaises, Running, IInv, Emptied
  <2>2. UNCHANGED <<specs, remain>>
    BY <1>6 DEF StepRaises
  <2>. QED  BY <2>1, <2>2 DEF PlansSupported, Items
<1>7. CASE Next
  <2>1. ASSUME NEW i \in Items, RunTitle(i) \/ RunFetch(i) \/ RunFilter(i) \/ RunExclude(i)
        PROVE  PlansSupported'
    BY <1>3, <2>1 DEF RunTitle, RunFetch, RunFilter, RunExclude
  <2>2. CASE Respond
    BY <1>3, <2>2 DEF Respond
  <2>3. ASSUME NEW i \in Items, NEW k \in DOMAIN Rules, ApplyRule(i, Rules[k])
        PROVE  PlansSupported'
    BY <1>1, <2>3 DEF RuleNames
  <2>. QED  BY <1>2, <1>4, <1>5, <1>6, <1>7, <2>1, <2>2, <2>3 DEF Next
<1>8. CASE UNCHANGED vars
  BY <1>3, <1>8 DEF vars
<1>. QED  BY <1>7, <1>8

ExactInv == IInv /\ Shape /\ RunInv /\ PlansSupported

LEMMA ExactInit == Init => ExactInv
<1> SUFFICES ASSUME Init PROVE ExactInv
  OBVIOUS
<1>1. specs \in Seq({s \in Specs : Positive(s)})
  BY PlannerAssumption DEF Init
<1>2. \A i \in Items : Positive(specs[i])
  BY <1>1 DEF Items
<1>3. Shape
  BY <1>2 DEF Init, Shape, Sources, TitleFirst, WantsGiven, Items
<1>4. PlansSupported
  BY DEF Init, PlansSupported
<1>. QED  BY <1>3, <1>4, InitInv, RunInvInit DEF ExactInv

LEMMA ExactStep == ExactInv /\ [Next]_vars => ExactInv'
<1> SUFFICES ASSUME ExactInv, [Next]_vars PROVE ExactInv'
  OBVIOUS
<1> USE DEF ExactInv
<1>1. IInv' /\ PlansSupported'
  BY StepInv, VoidForSupport
<1>2. Shape'
  BY StepKinds, ShapeStep, ShapeKept DEF Build
<1>3. RunInv'
  <2>1. ASSUME NEW i \in Items, NEW k \in DOMAIN Rules, ApplyRule(i, Rules[k])
        PROVE  RunInv'
    BY <2>1, ApplyRuleRun DEF RuleNames
  <2>2. ASSUME NEW i \in Items, RunTitle(i) \/ RunFetch(i) \/ RunFilter(i) \/ RunExclude(i)
        PROVE  RunInv'
    BY <2>2, RunTitleStep, RunFetchStep, RunExcludeStep
  <2>3. ASSUME NEW i \in Items, NEW k \in DOMAIN Rules,
               RuleRaises(i, Rules[k]) \/ NoRuleMatches(i) \/ StepRaises(i)
        PROVE  RunInv'
    BY <2>3, QuietRun DEF RuleRaises, NoRuleMatches, StepRaises
  <2>4. ASSUME NEW i \in Items, NoRuleMatches(i) \/ StepRaises(i)
        PROVE  RunInv'
    BY <2>4, QuietRun DEF NoRuleMatches, StepRaises
  <2>5. CASE Build
    BY <2>5, QuietRun DEF Build
  <2>6. CASE Respond
    BY <2>6, QuietRun DEF Respond
  <2>7. CASE UNCHANGED vars
    BY <2>7, QuietRun DEF vars
  <2>. QED  BY <2>1, <2>2, <2>3, <2>4, <2>5, <2>6, <2>7 DEF Next
<1>. QED  BY <1>1, <1>2, <1>3

\* What every specification that ran has planned, and has run.
LEMMA WhatRan ==
  ASSUME ExactInv, phase = "done", NEW i \in Items
  PROVE  /\ ran[i] > 0
         /\ \A f \in Given(specs[i]) :
              \/ \E k \in 1..ran[i] : f \in DOMAIN plan[i][k].want
              \/ Loses(specs[i], f)
<1> USE DEF ExactInv
<1>1. plan[i] \in Seq(Steps) /\ ran[i] = Len(plan[i])
  BY DEF IInv, TypeInv, RunInv, AllRan
<1>2. DOMAIN plan[i] = 1..ran[i] /\ ran[i] \in Nat
  BY <1>1
<1>3. \A f \in Fields : remain[i][f] = "none"
  BY DEF IInv, Emptied, Given
<1>4. "content" \notin Given(specs[i])
  <2> SUFFICES ASSUME "content" \in Given(specs[i]) PROVE FALSE
    OBVIOUS
  <2>1. PICK k \in DOMAIN plan[i] : "content" \in Consumes(plan[i][k].rule)
    BY <1>3 DEF IInv, RemainKept, ConsumedBy, Given, Fields
  <2>2. plan[i][k].rule \in RuleNames
    BY RulesPlanned
  <2>3. plan[i][k].rule = "GenByContent"
    BY <2>1, <2>2, Consumers
  <2>. QED  BY <1>2, <2>3 DEF RunInv, RunShape
<1>5. ASSUME NEW f \in Given(specs[i])
      PROVE  \/ \E k \in DOMAIN plan[i] : f \in DOMAIN plan[i][k].want
             \/ Loses(specs[i], f)
  <2>1. remain[i][f] # specs[i][f]
    BY <1>3 DEF Given
  <2>. QED  BY <1>4, <2>1 DEF IInv, Accounted, WantedBy
<1>6. ran[i] > 0
  <2>1. PICK f \in Given(specs[i]) : TRUE
    BY DEF Shape, Sources, Positive
  <2>2. PICK k \in DOMAIN plan[i] : f \in Consumes(plan[i][k].rule)
    BY <1>3, <2>1 DEF IInv, RemainKept, ConsumedBy, Given
  <2>. QED  BY <1>2, <2>2
<1>. QED  BY <1>2, <1>5, <1>6

\* Whatever the corpus, the titles that are found, the searches that lose documents
\* and the union of specifications, what is specified gets a plan if it is supported,
\* each document of the answer meets a specification, and each document that meets
\* one is in the answer or was lost (resolve_paper, plan and the operations of ops.py).
THEOREM AnswersExactly == Spec => []PlanExact
<1>1. ExactInv => PlanSound
  <2> SUFFICES ASSUME ExactInv, phase = "done", NEW d \in answer
               PROVE  \E i \in Items : \A f \in Fields : Allowed(i, d, f)
    BY DEF PlanSound, Allowed
  <2>1. PICK i \in Items : d \in docs[i]
    BY DEF ExactInv, RunInv, AllRan
  <2>2. ASSUME NEW f \in Fields PROVE Allowed(i, d, f)
    <3>1. CASE specs[i][f] = "none"
      BY <3>1 DEF Allowed, Met
    <3>2. CASE specs[i][f] # "none"
      <4>1. f \in Given(specs[i])
        BY <3>2 DEF Given
      <4>2. CASE Loses(specs[i], f)
        BY <4>2 DEF Allowed
      <4>3. CASE \E k \in 1..ran[i] : f \in DOMAIN plan[i][k].want
        BY <2>1, <4>3 DEF ExactInv, RunInv, DocsSound
      <4>. QED  BY <4>1, <4>2, <4>3, WhatRan
    <3>. QED  BY <3>1, <3>2
  <2>. QED  BY <2>2
<1>2. ExactInv => PlanComplete
  <2> SUFFICES ASSUME ExactInv, phase = "done", NEW d \in Docs, NEW i \in Items, Whole(i, d)
               PROVE  d \in answer \cup lost[i]
    BY DEF PlanComplete, Whole
  <2>1. d \in docs[i] \cup lost[i]
    BY WhatRan DEF ExactInv, RunInv, DocsComplete
  <2>. QED  BY <2>1 DEF ExactInv, RunInv, AllRan
<1>3. ExactInv => PlanExact
  BY <1>1, <1>2 DEF PlanExact, ExactInv
<1>. QED  BY <1>3, ExactInit, ExactStep, PTL DEF Spec

\* The composition lets the planner do what its own specification says and nothing
\* else, so that what holds of its specification holds while any agent runs.
THEOREM PlannerInComposition == AgentsSpec => Spec
<1>1. AgentsInit => Init
  BY DEF AgentsInit, Idle
<1>2. [AgentsNext]_all => [Next]_vars
  BY DEF AgentsNext, Plan, StayIdle, CallName, CallAuthors, CallSnowball, CallSnippets,
         CallCiting, CallDense, CallFast, CallKeyword, CallSorting, all
<1> QED BY <1>1, <1>2, PTL DEF AgentsSpec, Spec

(***************************************************************************)
(* Collections of documents                                                *)
(***************************************************************************)

(* Induction on the numbers, with a set in the place of a predicate.        *)
LEMMA NatSet ==
  ASSUME NEW S, 0 \in S, \A n \in Nat : n \in S => n + 1 \in S
  PROVE  \A n \in Nat : n \in S
<1> DEFINE T == {n \in Nat : n \notin S}
<1> DEFINE R == OpToRel(<, Nat)
<1>1. IsWellFoundedOn(R, Nat)
  BY NatLessThanWellFounded DEF OpToRel
<1>2. SUFFICES ASSUME T # {} PROVE FALSE
  OBVIOUS
<1> HIDE DEF R
<1>3. PICK x \in T : \A y \in T : ~ (<<y, x>> \in R)
  BY <1>1, <1>2, WFMin
<1>4. x # 0 /\ x - 1 \in T
  OBVIOUS
<1>5. <<x - 1, x>> \in R
  <2>1. x - 1 \in Nat /\ x \in Nat /\ x - 1 < x
    BY <1>4
  <2> QED BY <2>1 DEF R, OpToRel
<1> QED BY <1>3, <1>4, <1>5

LEMMA UptoSet ==
  ASSUME NEW S, NEW L \in Nat, 0 \in S, \A n \in 0..(L - 1) : n \in S => n + 1 \in S
  PROVE  \A n \in 0..L : n \in S
<1> DEFINE T == {n \in Nat : n <= L => n \in S}
<1>1. 0 \in T
  OBVIOUS
<1>2. ASSUME NEW n \in Nat, n \in T PROVE n + 1 \in T
  <2> SUFFICES ASSUME n + 1 <= L PROVE n + 1 \in S
    OBVIOUS
  <2>1. n \in S /\ n \in 0..(L - 1)
    BY <1>2
  <2> QED BY <2>1
<1> HIDE DEF T
<1>3. \A n \in Nat : n \in T
  BY <1>1, <1>2, NatSet
<1> QED BY <1>3 DEF T

(* An injection of a set into as many numbers as it has members is onto.    *)
LEMMA RanksAreAll ==
  ASSUME NEW n \in Nat, NEW D, IsFiniteSet(D), Cardinality(D) = n, NEW f \in [D -> 1..n],
         \A i, j \in D : f[i] = f[j] => i = j
  PROVE  \A r \in 1..n : \E i \in D : f[i] = r
<1> DEFINE R == {f[i] : i \in D}
<1>1. IsFiniteSet(1..n) /\ Cardinality(1..n) = n
  BY FS_Interval
<1>2. R \subseteq 1..n
  OBVIOUS
<1>3. f \in Bijection(D, R)
  BY DEF Bijection, Injection, Surjection, IsInjective
<1>4. IsFiniteSet(R) /\ Cardinality(R) = n
  BY <1>3, FS_Bijection DEF ExistsBijection
<1> HIDE DEF R
<1>5. R = 1..n
  BY <1>1, <1>2, <1>4, FS_Subset
<1> QED BY <1>5 DEF R

KeptPlaces(s, S)  == {i \in DOMAIN s : s[i] \in S}
KeptRank(s, S, i) == Cardinality({j \in KeptPlaces(s, S) : j <= i})

LEMMA KeptRanks ==
  ASSUME NEW X, NEW s \in Seq(X), NEW S
  PROVE  /\ IsFiniteSet(KeptPlaces(s, S)) /\ Cardinality(KeptPlaces(s, S)) \in Nat
         /\ \A i \in KeptPlaces(s, S) : KeptRank(s, S, i) \in 1..Cardinality(KeptPlaces(s, S))
         /\ \A i, j \in KeptPlaces(s, S) : i < j => KeptRank(s, S, i) < KeptRank(s, S, j)
<1> DEFINE P == KeptPlaces(s, S)
           U(i) == {j \in P : j <= i}
<1>1. P \subseteq 1..Len(s) /\ Len(s) \in Nat
  BY DEF KeptPlaces
<1>2. IsFiniteSet(P) /\ Cardinality(P) \in Nat
  <2>1. IsFiniteSet(1..Len(s))
    BY <1>1, FS_Interval
  <2> HIDE DEF P
  <2>2. IsFiniteSet(P)
    BY <1>1, <2>1, FS_Subset
  <2> QED BY <2>2, FS_CardinalityType
<1>3. \A i \in P : IsFiniteSet(U(i)) /\ Cardinality(U(i)) \in Nat /\ Cardinality(U(i)) <= Cardinality(P)
  <2> TAKE i \in P
  <2>1. U(i) \subseteq P
    OBVIOUS
  <2> QED BY <1>2, <2>1, FS_Subset, FS_CardinalityType
<1>4. \A i \in P : Cardinality(U(i)) # 0
  <2> TAKE i \in P
  <2>1. i \in U(i)
    BY <1>1
  <2> QED BY <1>3, <2>1, FS_EmptySet
<1>5. ASSUME NEW i \in P, NEW j \in P, i < j
      PROVE  Cardinality(U(i)) < Cardinality(U(j))
  <2>1. U(i) \subseteq U(j) /\ j \in U(j) /\ j \notin U(i)
    BY <1>1, <1>5
  <2>2. Cardinality(U(i)) <= Cardinality(U(j)) /\ Cardinality(U(i)) # Cardinality(U(j))
    <3>1. IsFiniteSet(U(j))
      BY <1>3
    <3> HIDE DEF U, P
    <3> QED BY <3>1, <2>1, FS_Subset
  <2>3. Cardinality(U(i)) \in Nat /\ Cardinality(U(j)) \in Nat
    BY <1>3
  <2> HIDE DEF U, P
  <2> QED BY <2>2, <2>3
<1> QED BY <1>2, <1>3, <1>4, <1>5 DEF KeptRank

(* Each document that is kept has its place, and they keep their order.     *)
LEMMA KeptAt ==
  ASSUME NEW X, NEW s \in Seq(X), NEW S
  PROVE  /\ Len(Kept(s, S)) = Cardinality(KeptPlaces(s, S))
         /\ \A i \in KeptPlaces(s, S) : Kept(s, S)[KeptRank(s, S, i)] = s[i]
         /\ \A r \in 1..Len(Kept(s, S)) : \E i \in KeptPlaces(s, S) : KeptRank(s, S, i) = r
<1> DEFINE P == KeptPlaces(s, S)
           n == Cardinality(P)
           f == [i \in P |-> KeptRank(s, S, i)]
           place == [r \in 1..n |-> CHOOSE i \in P : KeptRank(s, S, i) = r]
           kept == [r \in 1..n |-> s[place[r]]]
<1>1. IsFiniteSet(P) /\ n \in Nat /\ P \subseteq DOMAIN s
  BY KeptRanks DEF KeptPlaces
<1>2. f \in [P -> 1..n]
  BY KeptRanks
<1>3. \A i, j \in P : f[i] = f[j] => i = j
  <2> SUFFICES ASSUME NEW i \in P, NEW j \in P, i # j PROVE f[i] # f[j]
    OBVIOUS
  <2>1. i \in Nat /\ j \in Nat
    BY <1>1
  <2>2. KeptRank(s, S, i) < KeptRank(s, S, j) \/ KeptRank(s, S, j) < KeptRank(s, S, i)
    BY <2>1, KeptRanks
  <2>3. f[i] \in Int /\ f[j] \in Int /\ f[i] = KeptRank(s, S, i) /\ f[j] = KeptRank(s, S, j)
    BY <1>2
  <2> QED BY <2>2, <2>3
<1>4. \A r \in 1..n : \E i \in P : f[i] = r
  <2> HIDE DEF f, P
  <2> QED BY <1>1, <1>2, <1>3, RanksAreAll DEF n
<1>5. \A r \in 1..n : place[r] \in P /\ f[place[r]] = r
  BY <1>4
<1>6. Kept(s, S) = kept /\ Len(kept) = n
  BY <1>1 DEF Kept, KeptRank, KeptPlaces
<1>7. \A r \in 1..n : \E i \in P : KeptRank(s, S, i) = r
  BY <1>4
<1>8. \A i \in P : kept[KeptRank(s, S, i)] = s[i]
  <2> TAKE i \in P
  <2>1. f[i] \in 1..n /\ f[i] = KeptRank(s, S, i)
    BY <1>2
  <2>2. place[f[i]] \in P /\ f[place[f[i]]] = f[i]
    BY <1>5, <2>1
  <2>3. kept[f[i]] = s[place[f[i]]]
    BY <2>1
  <2> HIDE DEF place, kept, f, P, n
  <2>4. place[f[i]] = i
    BY <1>3, <2>2
  <2> QED BY <2>1, <2>3, <2>4
<1> QED BY <1>6, <1>7, <1>8

(* What is kept of a collection is a collection of what is in the set.      *)
LEMMA KeptIs ==
  ASSUME NEW X, NEW s \in Seq(X), NEW S
  PROVE  Kept(s, S) \in Seq(X) /\ DocsOf(Kept(s, S)) = DocsOf(s) \cap S
<1> DEFINE P == KeptPlaces(s, S)
           n == Cardinality(P)
           kept == Kept(s, S)
<1>1. n \in Nat /\ \A i \in P : i \in DOMAIN s /\ s[i] \in X /\ s[i] \in S /\ KeptRank(s, S, i) \in 1..n
  <2>1. \A i \in DOMAIN s : s[i] \in X
    OBVIOUS
  <2> QED BY <2>1, KeptRanks DEF KeptPlaces
<1>2. /\ \A i \in P : kept[KeptRank(s, S, i)] = s[i]
      /\ \A r \in 1..n : \E i \in P : KeptRank(s, S, i) = r
  BY KeptAt
<1>3. kept = [r \in 1..n |-> kept[r]]
  BY DEF Kept, KeptPlaces
<1> HIDE DEF P, n, kept
<1>4. \A r \in 1..n : kept[r] \in X
  BY <1>1, <1>2
<1>5. kept \in Seq(X) /\ DOMAIN kept = 1..n
  BY <1>1, <1>3, <1>4
<1>6. DocsOf(kept) = {s[i] : i \in P}
  BY <1>1, <1>2, <1>5 DEF DocsOf
<1>7. {s[i] : i \in P} = DocsOf(s) \cap S
  BY DEF DocsOf, KeptPlaces, P
<1> QED BY <1>5, <1>6, <1>7 DEF kept

LEMMA FunctionIsSeq ==
  ASSUME NEW X, NEW n \in Nat, NEW f \in [1..n -> X]
  PROVE  f \in Seq(X) /\ Len(f) = n /\ DOMAIN f = 1..n
  OBVIOUS

LEMMA DocsOfSeq ==
  ASSUME NEW X, NEW s \in Seq(X)
  PROVE  DocsOf(s) \subseteq X /\ DocsOf(s) = {s[i] : i \in 1..Len(s)}
  BY DEF DocsOf

LEMMA SeqOfDocs ==
  ASSUME NEW X, NEW s \in Seq(X)
  PROVE  s \in Seq(DocsOf(s))
<1>1. DOMAIN s = 1..Len(s) /\ Len(s) \in Nat /\ s = [i \in 1..Len(s) |-> s[i]]
  OBVIOUS
<1> DEFINE D == DocsOf(s)
<1>2. s \in [1..Len(s) -> D]
  BY <1>1 DEF DocsOf
<1> HIDE DEF D
<1>3. s \in Seq(D)
  BY <1>1, <1>2, FunctionIsSeq
<1> QED BY <1>3 DEF D

(* A merge has what either of the collections has.                          *)
LEMMA MergedIs ==
  ASSUME NEW X, NEW s \in Seq(X), NEW t \in Seq(X)
  PROVE  Merged(s, t) \in Seq(X) /\ DocsOf(Merged(s, t)) = DocsOf(s) \cup DocsOf(t)
<1> DEFINE u == Minus(t, s)
<1>1. u \in Seq(X) /\ DocsOf(u) = DocsOf(t) \ DocsOf(s)
  BY KeptIs DEF Minus
<1>2. Merged(s, t) = s \o u
  BY DEF Merged
<1> HIDE DEF u
<1>3. s \o u \in Seq(X) /\ DOMAIN (s \o u) = 1..(Len(s) + Len(u))
  BY <1>1
<1>4. \A i \in 1..Len(s) : (s \o u)[i] = s[i]
  BY <1>1
<1>5. \A i \in 1..Len(u) : (s \o u)[Len(s) + i] = u[i]
  BY <1>1
<1>6. DocsOf(s \o u) = DocsOf(s) \cup DocsOf(u)
  <2>1. Len(s) \in Nat /\ Len(u) \in Nat
    BY <1>1
  <2>2. DocsOf(s) = {s[i] : i \in 1..Len(s)} /\ DocsOf(u) = {u[i] : i \in 1..Len(u)}
    BY <1>1, DocsOfSeq
  <2>3. ASSUME NEW i \in 1..(Len(s) + Len(u)) PROVE (s \o u)[i] \in DocsOf(s) \cup DocsOf(u)
    <3>1. CASE i <= Len(s)
      BY <2>1, <2>2, <1>4, <3>1
    <3>2. CASE i > Len(s)
      <4>1. i - Len(s) \in 1..Len(u) /\ Len(s) + (i - Len(s)) = i
        BY <2>1, <3>2
      <4> QED BY <1>5, <2>2, <4>1
    <3> QED BY <2>1, <3>1, <3>2
  <2>4. ASSUME NEW d \in DocsOf(s) \cup DocsOf(u)
        PROVE  \E i \in 1..(Len(s) + Len(u)) : (s \o u)[i] = d
    <3>1. CASE d \in DocsOf(s)
      BY <2>1, <2>2, <1>4, <3>1
    <3>2. CASE d \in DocsOf(u)
      <4>1. PICK i \in 1..Len(u) : u[i] = d
        BY <2>2, <3>2
      <4>2. Len(s) + i \in 1..(Len(s) + Len(u))
        BY <2>1
      <4> QED BY <1>5, <4>1, <4>2
    <3> QED BY <3>1, <3>2
  <2>5. DocsOf(s \o u) = {(s \o u)[i] : i \in 1..(Len(s) + Len(u))}
    BY <1>3 DEF DocsOf
  <2> QED BY <2>3, <2>4, <2>5
<1> QED BY <1>1, <1>2, <1>3, <1>6

(***************************************************************************)
(* The merge of a sequence of collections has what any of them has.        *)
(***************************************************************************)
MergeStep(ss, g, n)     == IF n = 0 THEN << >> ELSE Merged(g[n - 1], ss[n])
AllOf(ss, n)            == UNION {DocsOf(ss[i]) : i \in 1..n}
MergedUpto(ss, g, m)    == \A n \in 0..m : g[n] = MergeStep(ss, g, n) /\ DocsOf(g[n]) = AllOf(ss, n)

LEMMA MergeFunction ==
  ASSUME NEW X, NEW ss \in Seq(Seq(X))
  PROVE  \E g \in [0..Len(ss) -> Seq(X)] : MergedUpto(ss, g, Len(ss))
<1> DEFINE Upto == {m \in 0..Len(ss) : \E g \in [0..m -> Seq(X)] : MergedUpto(ss, g, m)}
<1>1. 0 \in Upto
  <2> DEFINE g0 == [n \in 0..0 |-> << >>]
  <2>1. g0 \in [0..0 -> Seq(X)] /\ \A n \in 0..0 : n = 0 /\ g0[n] = << >>
    OBVIOUS
  <2>2. DocsOf(<< >>) = AllOf(ss, 0)
    BY DEF DocsOf, AllOf
  <2> HIDE DEF g0
  <2>3. MergedUpto(ss, g0, 0)
    BY <2>1, <2>2 DEF MergeStep, MergedUpto
  <2> QED BY <2>1, <2>3
<1>2. ASSUME NEW m \in 0..(Len(ss) - 1), m \in Upto PROVE m + 1 \in Upto
  <2>1. PICK g \in [0..m -> Seq(X)] : MergedUpto(ss, g, m)
    BY <1>2
  <2> DEFINE last == Merged(g[m], ss[m + 1])
             h == [n \in 0..(m + 1) |-> IF n = m + 1 THEN last ELSE g[n]]
  <2>2. g[m] \in Seq(X) /\ DocsOf(g[m]) = AllOf(ss, m) /\ ss[m + 1] \in Seq(X)
    BY <2>1 DEF MergedUpto
  <2>3. last \in Seq(X) /\ DocsOf(last) = DocsOf(g[m]) \cup DocsOf(ss[m + 1])
    BY <2>2, MergedIs
  <2> HIDE DEF last
  <2>4. h \in [0..(m + 1) -> Seq(X)]
    BY <2>1, <2>3
  <2>5. ASSUME NEW n \in 0..m
        PROVE  h[n] = MergeStep(ss, h, n) /\ DocsOf(h[n]) = AllOf(ss, n)
    <3>1. h[n] = g[n] /\ (n # 0 => n - 1 \in 0..m /\ h[n - 1] = g[n - 1])
      OBVIOUS
    <3> HIDE DEF h
    <3>2. MergeStep(ss, h, n) = MergeStep(ss, g, n)
      BY <3>1 DEF MergeStep
    <3> QED BY <2>1, <3>1, <3>2 DEF MergedUpto
  <2>6. h[m + 1] = MergeStep(ss, h, m + 1) /\ DocsOf(h[m + 1]) = AllOf(ss, m + 1)
    <3>1. h[m + 1] = last /\ h[m] = g[m] /\ m + 1 # 0 /\ m + 1 - 1 = m
      OBVIOUS
    <3>2. AllOf(ss, m + 1) = AllOf(ss, m) \cup DocsOf(ss[m + 1])
      <4>1. 1..(m + 1) = (1..m) \cup {m + 1}
        OBVIOUS
      <4> QED BY <4>1 DEF AllOf
    <3> HIDE DEF h
    <3>3. h[m + 1] = MergeStep(ss, h, m + 1)
      BY <3>1 DEF MergeStep, last
    <3> QED BY <2>2, <2>3, <3>1, <3>2, <3>3
  <2> HIDE DEF h
  <2>7. MergedUpto(ss, h, m + 1)
    <3>1. \A n \in 0..(m + 1) : n \in 0..m \/ n = m + 1
      OBVIOUS
    <3> QED BY <2>5, <2>6, <3>1 DEF MergedUpto
  <2> QED BY <2>4, <2>7
<1> HIDE DEF Upto
<1>3. Len(ss) \in Nat /\ \A m \in 0..(Len(ss) - 1) : m \in Upto => m + 1 \in Upto
  BY <1>2
<1>4. \A m \in 0..Len(ss) : m \in Upto
  BY <1>1, <1>3, UptoSet
<1>5. Len(ss) \in Upto
  BY <1>3, <1>4
<1> QED BY <1>5 DEF Upto

LEMMA MergeAllIs ==
  ASSUME NEW X, NEW ss \in Seq(Seq(X))
  PROVE  MergeAll(ss) \in Seq(X) /\ DocsOf(MergeAll(ss)) = UNION {DocsOf(ss[i]) : i \in DOMAIN ss}
<1>1. PICK g \in [0..Len(ss) -> Seq(X)] : MergedUpto(ss, g, Len(ss))
  BY MergeFunction
<1>2. g = [n \in 0..Len(ss) |-> MergeStep(ss, g, n)]
  BY <1>1 DEF MergedUpto
<1>3. ASSUME NEW h, h = [n \in 0..Len(ss) |-> MergeStep(ss, h, n)] PROVE h = g
  <2> DEFINE Same == {m \in 0..Len(ss) : h[m] = g[m]}
  <2>1. \A m \in 0..Len(ss) : h[m] = MergeStep(ss, h, m) /\ g[m] = MergeStep(ss, g, m)
    BY <1>1, <1>3 DEF MergedUpto
  <2>2. 0 \in Same
    BY <2>1 DEF MergeStep
  <2>3. ASSUME NEW m \in 0..(Len(ss) - 1), m \in Same PROVE m + 1 \in Same
    <3>1. h[m] = g[m] /\ m + 1 # 0 /\ m + 1 - 1 = m /\ m + 1 \in 0..Len(ss)
      BY <2>3
    <3>2. MergeStep(ss, h, m + 1) = MergeStep(ss, g, m + 1)
      BY <3>1 DEF MergeStep
    <3> QED BY <2>1, <3>1, <3>2
  <2> HIDE DEF Same
  <2> Len(ss) \in Nat /\ \A m \in 0..(Len(ss) - 1) : m \in Same => m + 1 \in Same
    BY <2>3
  <2>4. \A m \in 0..Len(ss) : m \in Same
    BY <2>2, UptoSet
  <2>5. \A m \in 0..Len(ss) : h[m] = g[m]
    BY <2>4 DEF Same
  <2>6. \A m \in 0..Len(ss) : MergeStep(ss, h, m) = MergeStep(ss, g, m)
    BY <2>1, <2>5
  <2> QED BY <1>2, <1>3, <2>6
<1>4. MergeAll(ss) = g[Len(ss)]
  BY <1>2, <1>3 DEF MergeAll, Empty, MergeStep
<1>5. Len(ss) \in 0..Len(ss) /\ DOMAIN ss = 1..Len(ss)
  OBVIOUS
<1>6. g[Len(ss)] \in Seq(X) /\ DocsOf(g[Len(ss)]) = AllOf(ss, Len(ss))
  BY <1>1, <1>5 DEF MergedUpto
<1>7. AllOf(ss, Len(ss)) = UNION {DocsOf(ss[i]) : i \in DOMAIN ss}
  BY <1>5 DEF AllOf
<1> QED BY <1>4, <1>6, <1>7

(* A slice is the beginning of a collection.                                *)
LEMMA SliceIs ==
  ASSUME NEW X, NEW s \in Seq(X), NEW n \in Nat
  PROVE  /\ Slice(s, n) \in Seq(X)
         /\ Len(Slice(s, n)) = IF n < Len(s) THEN n ELSE Len(s)
         /\ \A i \in 1..Len(Slice(s, n)) : Slice(s, n)[i] = s[i]
<1> DEFINE m == IF n < Len(s) THEN n ELSE Len(s)
<1>1. Slice(s, n) = SubSeq(s, 1, m) /\ m \in 0..Len(s) /\ Len(s) \in Nat
  BY DEF Slice
<1>2. \A i \in 1..m : s[i] \in X
  BY <1>1
<1> HIDE DEF m
<1>3. /\ SubSeq(s, 1, m) \in Seq(X)
      /\ Len(SubSeq(s, 1, m)) = m
      /\ \A i \in 1..m : SubSeq(s, 1, m)[i] = s[i]
  <2>1. SubSeq(s, 1, m) \in Seq(X)
    BY <1>1
  <2>2. Len(SubSeq(s, 1, m)) = m
    BY <1>1, <2>1
  <2>3. \A i \in 1..m : SubSeq(s, 1, m)[i] = s[i]
    BY <1>1, <2>1, <2>2
  <2> QED BY <2>1, <2>2, <2>3
<1> QED BY <1>1, <1>3 DEF m

(***************************************************************************)
(* Sorting puts every document in a place, its rank, and none before one   *)
(* of a greater key.                                                       *)
(***************************************************************************)
LEMMA Count ==
  ASSUME NEW n \in Nat
  PROVE  IsFiniteSet(1..n) /\ Cardinality(1..n) = n
  BY FS_Interval

SortsBefore(s, key, i, j) == \/ key[s[i]] > key[s[j]]
                             \/ key[s[i]] = key[s[j]] /\ i < j
SortRank(s, key, i) == Cardinality({j \in DOMAIN s : SortsBefore(s, key, j, i)}) + 1

LEMMA RankGrows ==
  ASSUME NEW X, NEW s \in Seq(X), NEW key, \A d \in X : key[d] \in Int,
         NEW i \in DOMAIN s, NEW j \in DOMAIN s, SortsBefore(s, key, i, j)
  PROVE  SortRank(s, key, i) < SortRank(s, key, j)
<1> DEFINE A == {k \in DOMAIN s : SortsBefore(s, key, k, i)}
           B == {k \in DOMAIN s : SortsBefore(s, key, k, j)}
<1>0. DOMAIN s = 1..Len(s) /\ Len(s) \in Nat /\ \A k \in DOMAIN s : s[k] \in X /\ key[s[k]] \in Int
  OBVIOUS
<1>1. \A k \in DOMAIN s : SortsBefore(s, key, k, i) => SortsBefore(s, key, k, j)
  BY <1>0 DEF SortsBefore
<1>2. ~SortsBefore(s, key, i, i)
  BY <1>0 DEF SortsBefore
<1>3. A \subseteq B /\ i \in B /\ i \notin A
  BY <1>1, <1>2
<1>4. IsFiniteSet(DOMAIN s)
  BY <1>0, FS_Interval
<1>5. IsFiniteSet(B) /\ IsFiniteSet(A)
  BY <1>4, FS_Subset
<1> HIDE DEF A, B
<1>6. Cardinality(A) <= Cardinality(B) /\ Cardinality(A) # Cardinality(B)
  BY <1>3, <1>5, FS_Subset
<1>7. Cardinality(A) \in Nat /\ Cardinality(B) \in Nat
  BY <1>5, FS_CardinalityType
<1> QED BY <1>6, <1>7 DEF SortRank, A, B

LEMMA RankIn ==
  ASSUME NEW X, NEW s \in Seq(X), NEW key, \A d \in X : key[d] \in Int, NEW i \in DOMAIN s
  PROVE  SortRank(s, key, i) \in 1..Len(s)
<1> DEFINE A == {k \in DOMAIN s : SortsBefore(s, key, k, i)}
<1>1. DOMAIN s = 1..Len(s) /\ Len(s) \in Nat /\ key[s[i]] \in Int
  OBVIOUS
<1>2. i \notin A /\ A \subseteq DOMAIN s
  BY <1>1 DEF SortsBefore
<1>3. IsFiniteSet(DOMAIN s) /\ Cardinality(DOMAIN s) = Len(s)
  <2>1. IsFiniteSet(1..Len(s)) /\ Cardinality(1..Len(s)) = Len(s)
    BY <1>1, Count
  <2> QED BY <1>1, <2>1
<1> HIDE DEF A
<1>4. IsFiniteSet(A) /\ Cardinality(A) <= Len(s) /\ Cardinality(A) # Len(s)
  BY <1>2, <1>3, FS_Subset
<1>5. Cardinality(A) \in Nat
  BY <1>4, FS_CardinalityType
<1> QED BY <1>1, <1>4, <1>5 DEF SortRank, A

LEMMA SortedIs ==
  ASSUME NEW X, NEW s \in Seq(X), NEW key, \A d \in X : key[d] \in Int
  PROVE  /\ SortedDesc(s, key) \in Seq(X)
         /\ Len(SortedDesc(s, key)) = Len(s)
         /\ DocsOf(SortedDesc(s, key)) = DocsOf(s)
         /\ \A i, j \in 1..Len(s) :
               i < j => key[SortedDesc(s, key)[i]] >= key[SortedDesc(s, key)[j]]
         /\ \A i \in 1..Len(s) : /\ SortRank(s, key, i) \in 1..Len(s)
                                 /\ SortedDesc(s, key)[SortRank(s, key, i)] = s[i]
         /\ \A r \in 1..Len(s) : \E i \in 1..Len(s) : SortRank(s, key, i) = r
<1> DEFINE place == [r \in DOMAIN s |-> CHOOSE i \in DOMAIN s : SortRank(s, key, i) = r]
           f == [i \in 1..Len(s) |-> SortRank(s, key, i)]
           sorted == [r \in DOMAIN s |-> s[place[r]]]
<1>1. DOMAIN s = 1..Len(s) /\ Len(s) \in Nat /\ \A i \in DOMAIN s : s[i] \in X /\ key[s[i]] \in Int
  OBVIOUS
<1>2. SortedDesc(s, key) = sorted
  BY DEF SortedDesc, SortRank, SortsBefore
<1>3. f \in [1..Len(s) -> 1..Len(s)]
  BY <1>1, RankIn
<1>4. \A i, j \in 1..Len(s) : i = j \/ SortsBefore(s, key, i, j) \/ SortsBefore(s, key, j, i)
  BY <1>1 DEF SortsBefore
<1>5. \A i, j \in 1..Len(s) : f[i] = f[j] => i = j
  <2> SUFFICES ASSUME NEW i \in 1..Len(s), NEW j \in 1..Len(s), i # j PROVE f[i] # f[j]
    OBVIOUS
  <2>1. SortRank(s, key, i) < SortRank(s, key, j) \/ SortRank(s, key, j) < SortRank(s, key, i)
    BY <1>1, <1>4, RankGrows
  <2>2. f[i] \in Int /\ f[j] \in Int /\ f[i] = SortRank(s, key, i) /\ f[j] = SortRank(s, key, j)
    BY <1>3
  <2> QED BY <2>1, <2>2
<1>6. \A r \in 1..Len(s) : \E i \in 1..Len(s) : f[i] = r
  <2> HIDE DEF f
  <2>1. IsFiniteSet(1..Len(s)) /\ Cardinality(1..Len(s)) = Len(s)
    BY <1>1, Count
  <2> QED BY <1>1, <1>3, <1>5, <2>1, RanksAreAll
<1>7. \A r \in 1..Len(s) : place[r] \in 1..Len(s) /\ SortRank(s, key, place[r]) = r
  BY <1>1, <1>6
<1>8. \A i \in 1..Len(s) : f[i] \in 1..Len(s) /\ place[f[i]] = i
  <2> TAKE i \in 1..Len(s)
  <2>1. f[i] \in 1..Len(s)
    BY <1>3
  <2>2. place[f[i]] \in 1..Len(s) /\ f[place[f[i]]] = f[i]
    <3> HIDE DEF place
    <3> QED BY <1>7, <2>1
  <2> HIDE DEF place, f
  <2> QED BY <1>5, <2>1, <2>2
<1>9. \A i \in 1..Len(s) : sorted[i] = s[place[i]]
  BY <1>1
<1>10. DOMAIN sorted = 1..Len(s)
  BY <1>1
<1>11. sorted \in [1..Len(s) -> X]
  BY <1>1, <1>7
<1> HIDE DEF place, f, sorted
<1>12. sorted \in Seq(X) /\ Len(sorted) = Len(s)
  BY <1>1, <1>11, <1>10
<1>13. DocsOf(sorted) = DocsOf(s)
  <2>1. \A r \in 1..Len(s) : \E i \in 1..Len(s) : sorted[r] = s[i]
    BY <1>7, <1>9
  <2>2. \A i \in 1..Len(s) : \E r \in 1..Len(s) : sorted[r] = s[i]
    <3> TAKE i \in 1..Len(s)
    <3>1. f[i] \in 1..Len(s) /\ place[f[i]] = i
      BY <1>8
    <3>2. sorted[f[i]] = s[place[f[i]]]
      BY <1>9, <3>1
    <3> QED BY <3>1, <3>2
  <2>3. DocsOf(sorted) = {sorted[r] : r \in 1..Len(s)} /\ DocsOf(s) = {s[i] : i \in 1..Len(s)}
    BY <1>1, <1>10 DEF DocsOf
  <2> QED BY <2>1, <2>2, <2>3
<1>14. ASSUME NEW i \in 1..Len(s), NEW j \in 1..Len(s), i < j
       PROVE  key[sorted[i]] >= key[sorted[j]]
  <2>1. SortRank(s, key, place[i]) = i /\ SortRank(s, key, place[j]) = j
        /\ place[i] \in DOMAIN s /\ place[j] \in DOMAIN s
    BY <1>1, <1>7
  <2>2. ~SortsBefore(s, key, place[j], place[i])
    <3> SUFFICES ASSUME SortsBefore(s, key, place[j], place[i]) PROVE FALSE
      OBVIOUS
    <3>1. SortRank(s, key, place[j]) < SortRank(s, key, place[i])
      BY <2>1, RankGrows
    <3> QED BY <2>1, <3>1, <1>14
  <2>3. key[s[place[i]]] \in Int /\ key[s[place[j]]] \in Int
    BY <1>1, <2>1
  <2>4. ~ (key[s[place[j]]] > key[s[place[i]]])
    BY <2>2 DEF SortsBefore
  <2> QED BY <1>9, <2>3, <2>4
<1>15. \A i \in 1..Len(s) : /\ SortRank(s, key, i) \in 1..Len(s)
                            /\ sorted[SortRank(s, key, i)] = s[i]
  <2> TAKE i \in 1..Len(s)
  <2>1. f[i] = SortRank(s, key, i)
    BY DEF f
  <2> QED BY <1>8, <1>9, <2>1
<1>16. \A r \in 1..Len(s) : \E i \in 1..Len(s) : SortRank(s, key, i) = r
  BY <1>7
<1> QED BY <1>2, <1>12, <1>13, <1>14, <1>15, <1>16

(* Documents are kept in their order: what is cut off does not sort before  *)
(* what stays.                                                              *)
LEMMA SliceOfBefore ==
  ASSUME NEW X, NEW s \in Seq(X), NEW key, \A d \in X : key[d] \in Int, NEW n \in Nat,
         \A i, j \in DOMAIN s : s[i] = s[j] => i = j,
         NEW i \in DOMAIN s, NEW j \in DOMAIN s, SortsBefore(s, key, i, j),
         s[j] \in DocsOf(Slice(SortedDesc(s, key), n))
  PROVE  s[i] \in DocsOf(Slice(SortedDesc(s, key), n))
<1> DEFINE sorted == SortedDesc(s, key)
           slice == Slice(sorted, n)
<1>1. DOMAIN s = 1..Len(s) /\ Len(s) \in Nat /\ s[i] \in X /\ s[j] \in X
  OBVIOUS
<1>2. sorted \in Seq(X) /\ Len(sorted) = Len(s)
  BY SortedIs
<1>3. \A k \in 1..Len(s) : SortRank(s, key, k) \in 1..Len(s) /\ sorted[SortRank(s, key, k)] = s[k]
  BY SortedIs
<1>4. \A r \in 1..Len(s) : \E k \in 1..Len(s) : SortRank(s, key, k) = r
  BY SortedIs
<1>5. SortRank(s, key, i) < SortRank(s, key, j)
  BY RankGrows
<1> HIDE DEF sorted
<1>6. /\ slice \in Seq(X)
      /\ Len(slice) = IF n < Len(s) THEN n ELSE Len(s)
      /\ \A p \in 1..Len(slice) : slice[p] = sorted[p]
  BY <1>2, SliceIs
<1>7. s[j] \in DocsOf(slice)
  BY DEF sorted
<1> HIDE DEF slice
<1>8. DOMAIN slice = 1..Len(slice) /\ Len(slice) \in Nat /\ Len(slice) <= Len(s)
  BY <1>1, <1>6
<1>9. PICK p \in 1..Len(slice) : slice[p] = s[j]
  BY <1>7, <1>8 DEF DocsOf
<1>10. p = SortRank(s, key, j)
  <2>0. p \in 1..Len(s)
    BY <1>1, <1>8
  <2>1. PICK k \in 1..Len(s) : SortRank(s, key, k) = p
    BY <1>4, <2>0
  <2>2. s[k] = s[j]
    BY <1>3, <1>6, <1>9, <2>1
  <2> QED BY <1>1, <2>1, <2>2
<1>11. SortRank(s, key, i) \in 1..Len(slice) /\ SortRank(s, key, i) \in 1..Len(s)
  BY <1>1, <1>3, <1>5, <1>8, <1>10
<1>12. slice[SortRank(s, key, i)] = s[i]
  BY <1>1, <1>3, <1>6, <1>11
<1>13. s[i] \in DocsOf(slice)
  BY <1>8, <1>11, <1>12 DEF DocsOf
<1> QED BY <1>13 DEF slice, sorted

LEMMA SliceOfSorted ==
  ASSUME NEW X, NEW s \in Seq(X), NEW key, \A d \in X : key[d] \in Int, NEW n \in Nat,
         \A i, j \in DOMAIN s : s[i] = s[j] => i = j,
         NEW i \in DOMAIN s, NEW j \in DOMAIN s, i < j, key[s[i]] >= key[s[j]],
         s[j] \in DocsOf(Slice(SortedDesc(s, key), n))
  PROVE  s[i] \in DocsOf(Slice(SortedDesc(s, key), n))
<1>1. s[i] \in X /\ s[j] \in X /\ i \in Nat /\ j \in Nat
  OBVIOUS
<1>2. SortsBefore(s, key, i, j)
  BY <1>1 DEF SortsBefore
<1> QED BY <1>2, SliceOfBefore

(* Numbers in rising order.                                                 *)
LEMMA AscendingIs ==
  ASSUME NEW S \in SUBSET Int, IsFiniteSet(S)
  PROVE  /\ Ascending(S) \in Seq(S)
         /\ Len(Ascending(S)) = Cardinality(S) /\ Cardinality(S) \in Nat
         /\ DOMAIN Ascending(S) = 1..Cardinality(S)
         /\ DocsOf(Ascending(S)) = S
         /\ \A i, j \in 1..Cardinality(S) : i < j => Ascending(S)[i] < Ascending(S)[j]
         /\ \A i, j \in 1..Cardinality(S) : Ascending(S)[i] = Ascending(S)[j] => i = j
<1> DEFINE n == Cardinality(S)
           Upto(x) == {y \in S : y <= x}
           f == [x \in S |-> Cardinality(Upto(x))]
           s == Ascending(S)
<1>1. n \in Nat
  BY FS_CardinalityType
<1>2. \A x \in S : /\ IsFiniteSet(Upto(x)) /\ Cardinality(Upto(x)) \in 1..n
  <2> TAKE x \in S
  <2>1. Upto(x) \subseteq S /\ x \in Upto(x)
    OBVIOUS
  <2> HIDE DEF Upto
  <2>2. IsFiniteSet(Upto(x)) /\ Cardinality(Upto(x)) <= n /\ Cardinality(Upto(x)) \in Nat
    BY <2>1, FS_Subset, FS_CardinalityType
  <2>3. Cardinality(Upto(x)) # 0
    BY <2>1, <2>2, FS_EmptySet
  <2> QED BY <1>1, <2>2, <2>3
<1>3. \A x, y \in S : x < y => Cardinality(Upto(x)) < Cardinality(Upto(y))
  <2> SUFFICES ASSUME NEW x \in S, NEW y \in S, x < y
               PROVE  Cardinality(Upto(x)) < Cardinality(Upto(y))
    OBVIOUS
  <2>1. Upto(x) \subseteq Upto(y) /\ y \in Upto(y) /\ y \notin Upto(x)
    <3>1. x \in Int /\ y \in Int /\ \A z \in S : z \in Int
      OBVIOUS
    <3>2. \A z \in S : z <= x => z <= y
      BY <3>1
    <3>3. y <= y /\ ~ (y <= x)
      BY <3>1
    <3> QED BY <3>2, <3>3
  <2>2. IsFiniteSet(Upto(y)) /\ Cardinality(Upto(x)) \in Nat /\ Cardinality(Upto(y)) \in Nat
    BY <1>1, <1>2
  <2> HIDE DEF Upto
  <2>3. Cardinality(Upto(x)) <= Cardinality(Upto(y))
    BY <2>1, <2>2, FS_Subset
  <2>4. Cardinality(Upto(x)) # Cardinality(Upto(y))
    BY <2>1, <2>2, FS_Subset
  <2> QED BY <2>2, <2>3, <2>4
<1>4. f \in [S -> 1..n]
  BY <1>2
<1>5. \A x, y \in S : f[x] = f[y] => x = y
  <2> SUFFICES ASSUME NEW x \in S, NEW y \in S, f[x] = f[y], x # y PROVE FALSE
    OBVIOUS
  <2>0. x \in Int /\ y \in Int /\ Cardinality(Upto(x)) = Cardinality(Upto(y))
    OBVIOUS
  <2> HIDE DEF Upto, f
  <2>1. x < y \/ y < x
    BY <2>0
  <2>2. Cardinality(Upto(x)) \in Nat /\ Cardinality(Upto(y)) \in Nat
    BY <1>1, <1>2
  <2>3. CASE x < y
    <3>1. Cardinality(Upto(x)) < Cardinality(Upto(y))
      BY <1>3, <2>3
    <3> QED BY <1>1, <2>0, <2>2, <3>1
  <2>4. CASE y < x
    <3>1. Cardinality(Upto(y)) < Cardinality(Upto(x))
      BY <1>3, <2>4
    <3> QED BY <1>1, <2>0, <2>2, <3>1
  <2> QED BY <2>1, <2>3, <2>4
<1>6. \A r \in 1..n : \E x \in S : f[x] = r
  <2> HIDE DEF f, n
  <2> QED BY <1>1, <1>4, <1>5, RanksAreAll DEF n
<1>7. \A r \in 1..n : s[r] = CHOOSE x \in S : Cardinality(Upto(x)) = r
  BY DEF Ascending
<1>8. \A r \in 1..n : s[r] \in S /\ f[s[r]] = r
  <2> TAKE r \in 1..n
  <2>1. \E x \in S : Cardinality(Upto(x)) = r
    BY <1>6
  <2>2. s[r] \in S /\ Cardinality(Upto(s[r])) = r
    BY <1>7, <2>1
  <2> QED BY <2>2
<1>9. DOMAIN s = 1..n /\ s = [r \in 1..n |-> s[r]]
  <2>1. s = [r \in 1..n |-> CHOOSE x \in S : Cardinality({y \in S : y <= x}) = r]
    BY DEF Ascending
  <2> HIDE DEF n, s
  <2> QED BY <2>1
<1> HIDE DEF s, n
<1>10. s \in [1..n -> S]
  BY <1>8, <1>9
<1>11. s \in Seq(S) /\ Len(s) = n
  BY <1>1, <1>10, FunctionIsSeq
<1>12. DocsOf(s) = S
  <2>1. \A x \in S : f[x] \in 1..n /\ s[f[x]] = x
    <3> HIDE DEF f
    <3> QED BY <1>4, <1>5, <1>8
  <2> HIDE DEF f
  <2> QED BY <1>8, <1>9, <2>1 DEF DocsOf
<1>13. \A i, j \in 1..n : s[i] = s[j] => i = j
  <2> HIDE DEF f
  <2> QED BY <1>8
<1>14. \A i, j \in 1..n : i < j => s[i] < s[j]
  <2> SUFFICES ASSUME NEW i \in 1..n, NEW j \in 1..n, i < j, ~(s[i] < s[j]) PROVE FALSE
    OBVIOUS
  <2>0. s[i] \in S /\ s[j] \in S
    BY <1>8
  <2>1. s[i] \in Int /\ s[j] \in Int /\ s[i] \in S /\ s[j] \in S /\ s[i] # s[j]
    <3>1. i # j
      BY <1>1
    <3> QED BY <1>13, <2>0, <3>1
  <2>2. s[j] < s[i]
    BY <2>1
  <2>3. Cardinality(Upto(s[j])) < Cardinality(Upto(s[i]))
    BY <1>3, <2>1, <2>2
  <2>4. f[s[j]] = Cardinality(Upto(s[j])) /\ f[s[i]] = Cardinality(Upto(s[i]))
    BY <2>1
  <2> HIDE DEF f, Upto
  <2> QED BY <1>1, <1>8, <2>3, <2>4
<1> QED BY <1>1, <1>9, <1>11, <1>12, <1>13, <1>14 DEF s, n

(***************************************************************************)
(* The dense agent                                                         *)
(***************************************************************************)

LEMMA DenseSame ==
  /\ \A s : Dense!DocsOf(s) = DocsOf(s)
  /\ \A s, t : Dense!Merged(s, t) = Merged(s, t)
  /\ \A s : Dense!MergeAll(s) = MergeAll(s)
  /\ Dense!Empty = << >>
<1>1. \A s : Dense!DocsOf(s) = DocsOf(s)
  BY DEF Dense!DocsOf, DocsOf
<1>2. \A s, S : Dense!Kept(s, S) = Kept(s, S)
  BY DEF Dense!Kept, Kept, Dense!Cardinality, Cardinality
<1>3. \A s, t : Dense!Merged(s, t) = Merged(s, t)
  BY <1>1, <1>2 DEF Dense!Merged, Merged, Dense!Minus, Minus
<1>4. \A s : Dense!MergeAll(s) = MergeAll(s)
  BY <1>3 DEF Dense!MergeAll, MergeAll, Dense!Empty, Empty
<1>5. Dense!Empty = << >>
  BY DEF Dense!Empty
<1> QED BY <1>1, <1>3, <1>4, <1>5

DenseGot ==
  [checkpoint : Seq(DensePapers), excluded : SUBSET DensePapers, iteration : Nat,
   stored : BOOLEAN, examples : SUBSET DensePapers, queries : Nat,
   answers : {<< >>} \cup [DenseDatasets -> DenseAnswers \cup {<< >>, Pending, Failed}],
   shown : [DensePapers -> Nat], found : SUBSET DensePapers, calls : Nat]

\* What the dense agent keeps and what of it is asked and answered.
DenseShown ==
  \A d \in DensePapers \ DocsOf(inputs.anchors) :
    got.shown[d] <= 1 /\ (got.shown[d] = 1 => d \in got.excluded)

DenseInv ==
  /\ inputs \in [docs : DenseGiven, anchors : DenseAnchors, short : BOOLEAN]
  /\ pc \in {"start", "fetch", "done"}
  /\ got \in DenseGot
  /\ pc = "fetch" => got.answers \in [DenseDatasets -> DenseAnswers \cup {<< >>, Pending, Failed}]
  /\ pc # "done" => response = NoResponse
  /\ DenseShown
  /\ got.found \subseteq DocsOf(got.checkpoint)
  /\ response.kind = "complete" => response.docs = got.checkpoint

LEMMA DenseConstants ==
  /\ DenseGiven \subseteq Seq(DensePapers) /\ DenseAnchors \subseteq Seq(DensePapers)
  /\ DenseAnswers \subseteq Seq(DensePapers) /\ IsFiniteSet(DenseDatasets)
  /\ DenseNumQueries \subseteq Nat
  BY SearchAgentsAssumption DEF Dense!CollectionsGiven, Dense!IsFiniteSet, IsFiniteSet

LEMMA DenseInit == Dense!Init => DenseInv
<1> SUFFICES ASSUME Dense!Init PROVE DenseInv
  OBVIOUS
<1> USE DEF Dense!Init, Dense!Requests, Dense!Empty, Dense!NoResponse
<1>1. got.shown = [d \in DensePapers |-> 0] /\ pc = "start"
  OBVIOUS
<1>2. DenseShown
  BY <1>1 DEF DenseShown
<1>3. got \in DenseGot
  <2>1. << >> \in Seq(DensePapers)
    OBVIOUS
  <2> QED BY <2>1 DEF DenseGot
<1>4. response = NoResponse /\ response.kind = "none"
  BY DEF NoResponse, Empty
<1> QED BY <1>1, <1>2, <1>3, <1>4 DEF DenseInv, DenseGot

\* The documents that are collected of the answers of the indices.
LEMMA DenseAnswered ==
  ASSUME NEW f \in [DenseDatasets -> Seq(DensePapers)]
  PROVE  /\ Dense!MergeAll(Dense!InOrder(f)) \in Seq(DensePapers)
         /\ \A i \in DenseDatasets :
              DocsOf(f[i]) \subseteq DocsOf(Dense!MergeAll(Dense!InOrder(f)))
<1> DEFINE n == Cardinality(DenseDatasets)
           order == CHOOSE s \in [1..Dense!Cardinality(DenseDatasets) -> DenseDatasets] :
                      Dense!DocsOf(s) = DenseDatasets
<1>1. Dense!Cardinality(DenseDatasets) = n
  BY DEF Dense!Cardinality, Cardinality
<1>2. n \in Nat /\ \E s \in [1..n -> DenseDatasets] : DocsOf(s) = DenseDatasets
  <2>1. n \in Nat
    BY DenseConstants, FS_CardinalityType
  <2>2. ExistsBijection(1..n, DenseDatasets)
    <3>1. IsFiniteSet(1..n) /\ Cardinality(1..n) = n
      BY <2>1, FS_Interval
    <3> QED BY <3>1, DenseConstants, FS_SameCardinalityBij
  <2>3. PICK s \in [1..n -> DenseDatasets] : \A d \in DenseDatasets : \E i \in 1..n : s[i] = d
    BY <2>2 DEF ExistsBijection, Bijection, Surjection
  <2>4. DocsOf(s) = DenseDatasets
    BY <2>3 DEF DocsOf
  <2> QED BY <2>1, <2>4
<1>3. order \in [1..n -> DenseDatasets] /\ DocsOf(order) = DenseDatasets
  BY <1>1, <1>2, DenseSame
<1>4. Dense!InOrder(f) = [i \in DOMAIN order |-> f[order[i]]]
  BY DEF Dense!InOrder
<1> HIDE DEF order
<1>5. Dense!InOrder(f) \in Seq(Seq(DensePapers))
  <2>1. [i \in DOMAIN order |-> f[order[i]]] \in [1..n -> Seq(DensePapers)]
    BY <1>3
  <2> HIDE DEF n
  <2> QED BY <1>2, <1>4, <2>1
<1>6. ASSUME NEW i \in DenseDatasets
      PROVE  DocsOf(f[i]) \subseteq DocsOf(Dense!MergeAll(Dense!InOrder(f)))
  <2>1. PICK k \in DOMAIN order : order[k] = i
    BY <1>3 DEF DocsOf
  <2>2. k \in DOMAIN Dense!InOrder(f) /\ Dense!InOrder(f)[k] = f[i]
    BY <1>4, <2>1
  <2> QED BY <1>5, <2>2, MergeAllIs, DenseSame
<1> QED BY <1>5, <1>6, MergeAllIs, DenseSame

\* Asking shows examples that no one was shown, and excludes them.
LEMMA DenseAsks ==
  ASSUME DenseInv, pc = "start", NEW n \in Nat, NEW T \in SUBSET Dense!RelevantDocs,
         Dense!Ask(n, T \cup DocsOf(inputs.anchors))
  PROVE  DenseInv'
<1> DEFINE E == T \cup DocsOf(inputs.anchors)
<1>1. inputs' = inputs /\ response' = response /\ pc' = "fetch" /\ response = NoResponse
  BY DEF Dense!Ask, DenseInv, DenseGot
<1>2. got' = [got EXCEPT !.queries = n, !.examples = E, !.excluded = @ \cup E,
                         !.shown = Dense!Counted(@, E),
                         !.answers = [i \in DenseDatasets |-> Pending]]
  BY DEF Dense!Ask
<1>3. \A d \in T : d \notin got.excluded
  BY DEF Dense!RelevantDocs
<1>4. /\ Dense!Counted(got.shown, E) \in [DensePapers -> Nat]
      /\ \A d \in DensePapers \ E : Dense!Counted(got.shown, E)[d] = got.shown[d]
      /\ \A d \in DensePapers \cap E :
            got.shown[d] < 2 => Dense!Counted(got.shown, E)[d] = got.shown[d] + 1
  <2>1. got.shown \in [DensePapers -> Nat]
    BY DEF DenseInv, DenseGot
  <2> HIDE DEF E
  <2> QED BY <2>1 DEF Dense!Counted
<1>5. E \subseteq DensePapers
  <2>1. DocsOf(Dense!Documents_) \subseteq DensePapers
    <3>1. inputs.docs \in Seq(DensePapers) /\ got.checkpoint \in Seq(DensePapers)
      BY DenseConstants DEF DenseInv, DenseGot
    <3>2. Dense!Documents_ \in Seq(DensePapers)
      BY <3>1, MergedIs, DenseSame DEF Dense!Documents_
    <3> QED BY <3>2, DocsOfSeq
  <2>2. T \subseteq DensePapers
    BY <2>1, DenseSame DEF Dense!RelevantDocs
  <2>3. inputs.anchors \in Seq(DensePapers)
    BY DenseConstants DEF DenseInv, DenseGot
  <2> QED BY <2>2, <2>3, DocsOfSeq
<1> HIDE DEF E
<1>6. /\ got'.checkpoint = got.checkpoint /\ got'.found = got.found
      /\ got'.queries = n /\ got'.excluded = got.excluded \cup E
      /\ got'.shown = Dense!Counted(got.shown, E)
      /\ got'.answers = [i \in DenseDatasets |-> Pending]
      /\ got' \in DenseGot
  BY <1>2, <1>4, <1>5 DEF DenseInv, DenseGot
<1>7. DenseShown'
  <2> SUFFICES ASSUME NEW d \in DensePapers, d \notin DocsOf(inputs.anchors)
               PROVE  got'.shown[d] <= 1 /\ (got'.shown[d] = 1 => d \in got'.excluded)
    BY <1>1 DEF DenseShown
  <2>1. got.shown[d] <= 1 /\ (got.shown[d] = 1 => d \in got.excluded) /\ got.shown[d] \in Nat
    BY DEF DenseInv, DenseGot, DenseShown
  <2>2. CASE d \in E
    <3>1. d \in T
      BY <2>2 DEF E
    <3>2. got.shown[d] = 0
      BY <1>3, <2>1, <3>1
    <3>3. Dense!Counted(got.shown, E)[d] = got.shown[d] + 1
      BY <1>4, <2>2, <3>2
    <3>4. got'.shown[d] = 1
      BY <1>6, <3>2, <3>3
    <3> QED BY <1>6, <2>2, <3>4
  <2>3. CASE d \notin E
    BY <1>4, <1>6, <2>1, <2>3
  <2> QED BY <2>2, <2>3
<1>8. response.kind = "none"
  BY <1>1 DEF NoResponse
<1> QED BY <1>1, <1>6, <1>7, <1>8 DEF DenseInv, DenseGot

LEMMA DenseFails ==
  ASSUME DenseInv, Dense!Fail
  PROVE  DenseInv'
<1>1. inputs' = inputs /\ response' = Dense!Void /\ pc' = "done"
  BY DEF Dense!Fail
<1>2. CASE got.stored
  <2>1. /\ got'.checkpoint = got.checkpoint /\ got'.shown = got.shown
        /\ got'.excluded = got.excluded /\ got'.found = got.found
        /\ got' \in DenseGot
    BY <1>2 DEF DenseInv, DenseGot, Dense!Fail
  <2> QED BY <1>1, <2>1 DEF DenseInv, DenseGot, DenseShown, Dense!Void
<1>3. CASE ~got.stored
  <2>1. /\ got'.checkpoint = got.checkpoint /\ got'.shown = [d \in DensePapers |-> 0]
        /\ got'.found = got.found
        /\ got' \in DenseGot
    BY <1>3 DEF DenseInv, DenseGot, Dense!Fail
  <2>2. DenseShown'
    BY <2>1 DEF DenseShown
  <2> QED BY <1>1, <2>1, <2>2 DEF DenseInv, DenseGot, Dense!Void
<1> QED BY <1>2, <1>3

LEMMA DenseStep == DenseInv /\ Dense!Next => DenseInv'
<1> SUFFICES ASSUME DenseInv, Dense!Next PROVE DenseInv'
  OBVIOUS
<1>1. ASSUME Dense!Formulate PROVE DenseInv'
  <2>1. PICK n \in DenseNumQueries \cup {0} : Dense!Ask(Dense!OwnQuery + n, {})
    BY <1>1 DEF Dense!Formulate
  <2>2. Dense!OwnQuery + n \in Nat
    BY DenseConstants DEF Dense!OwnQuery
  <2>3. {} = {} \cup DocsOf(inputs.anchors)
    BY <1>1, DenseSame DEF Dense!Formulate, DocsOf
  <2>4. {} \in SUBSET Dense!RelevantDocs /\ pc = "start"
    BY <1>1 DEF Dense!Formulate
  <2>5. Dense!Ask(Dense!OwnQuery + n, {} \cup DocsOf(inputs.anchors))
    BY <2>1, <2>3
  <2> HIDE DEF Dense!Ask, Dense!OwnQuery
  <2> QED BY <2>2, <2>4, <2>5, DenseAsks
<1>2. ASSUME Dense!Reformulate PROVE DenseInv'
  <2>1. PICK n \in DenseNumQueries,
             T \in Dense!Samples(Dense!RelevantDocs, DenseExampleDocs - Len(inputs.anchors)) :
          Dense!Ask(Dense!OwnQuery + n, T \cup Dense!DocsOf(inputs.anchors))
    BY <1>2 DEF Dense!Reformulate
  <2>2. Dense!OwnQuery + n \in Nat
    BY DenseConstants DEF Dense!OwnQuery
  <2>3. T \in SUBSET Dense!RelevantDocs /\ pc = "start"
    BY <1>2 DEF Dense!Reformulate, Dense!Samples
  <2>4. Dense!Ask(Dense!OwnQuery + n, T \cup DocsOf(inputs.anchors))
    BY <2>1, DenseSame
  <2> QED BY <2>2, <2>3, <2>4, DenseAsks
<1>3. ASSUME Dense!NothingToShow PROVE DenseInv'
  <2>1. {} = {} \cup DocsOf(inputs.anchors)
    BY <1>3, DenseSame DEF Dense!NothingToShow, DocsOf
  <2>2. {} \in SUBSET Dense!RelevantDocs /\ pc = "start" /\ Dense!Ask(0, {})
    BY <1>3 DEF Dense!NothingToShow
  <2>3. Dense!Ask(0, {} \cup DocsOf(inputs.anchors))
    BY <2>1, <2>2
  <2> QED BY <2>2, <2>3, DenseAsks
<1>4. ASSUME Dense!ReformulateFails \/ Dense!FetchFails PROVE DenseInv'
  BY <1>4, DenseFails DEF Dense!ReformulateFails, Dense!FetchFails
<1>5. ASSUME NEW i \in DenseDatasets, Dense!DatasetAnswers(i) PROVE DenseInv'
  <2>1. PICK s \in DenseAnswers \cup {<< >>, Failed} : got' = [got EXCEPT !.answers[i] = s]
    BY <1>5, DenseSame DEF Dense!DatasetAnswers
  <2>2. /\ inputs' = inputs /\ pc' = pc /\ response' = response /\ pc = "fetch"
        /\ got.answers \in [DenseDatasets -> DenseAnswers \cup {<< >>, Pending, Failed}]
    BY <1>5 DEF Dense!DatasetAnswers, DenseInv, DenseGot
  <2>3. /\ got'.checkpoint = got.checkpoint /\ got'.shown = got.shown
        /\ got'.excluded = got.excluded /\ got'.found = got.found
        /\ got'.answers \in [DenseDatasets -> DenseAnswers \cup {<< >>, Pending, Failed}]
        /\ got' \in DenseGot
    <3> DEFINE answered == [got.answers EXCEPT ![i] = s]
    <3>1. got \in DenseGot /\ got' = [got EXCEPT !.answers = answered]
      BY <2>1 DEF DenseInv
    <3>2. answered \in [DenseDatasets -> DenseAnswers \cup {<< >>, Pending, Failed}]
      BY <2>2
    <3> HIDE DEF answered
    <3> QED BY <3>1, <3>2 DEF DenseGot
  <2> QED BY <2>2, <2>3 DEF DenseInv, DenseGot, DenseShown
<1>6. ASSUME Dense!FetchDocuments PROVE DenseInv'
  <2> DEFINE documents == Dense!Merged(Dense!Documents_, Dense!MergeAll(Dense!InOrder(got.answers)))
  <2>1. /\ inputs' = inputs /\ pc' = "done" /\ response' = Dense!Complete(documents)
        /\ got' = [got EXCEPT !.checkpoint = documents, !.iteration = @ + 1,
                              !.stored = TRUE, !.answers = << >>, !.examples = {},
                              !.found = @ \cup DocsOf(inputs.docs)
                                          \cup UNION {DocsOf(got.answers[i]) : i \in DenseDatasets}]
    BY <1>6, DenseSame DEF Dense!FetchDocuments
  <2>2. got.answers \in [DenseDatasets -> Seq(DensePapers)]
    <3>1. got.answers \in [DenseDatasets -> DenseAnswers \cup {<< >>, Pending, Failed}]
      BY <1>6 DEF Dense!FetchDocuments, DenseInv, DenseGot
    <3>2. \A i \in DenseDatasets : got.answers[i] \in DenseAnswers \cup {<< >>}
      BY <1>6, <3>1 DEF Dense!FetchDocuments
    <3>3. << >> \in Seq(DensePapers)
      OBVIOUS
    <3>4. \A i \in DenseDatasets : got.answers[i] \in Seq(DensePapers)
      BY <3>2, <3>3, DenseConstants
    <3> QED BY <3>1, <3>4
  <2>3. inputs.docs \in Seq(DensePapers) /\ got.checkpoint \in Seq(DensePapers)
    BY DenseConstants DEF DenseInv, DenseGot
  <2>4. /\ Dense!Documents_ \in Seq(DensePapers)
        /\ DocsOf(inputs.docs) \cup DocsOf(got.checkpoint) \subseteq DocsOf(Dense!Documents_)
    <3>1. DocsOf(<< >>) = {}
      BY DEF DocsOf
    <3> QED BY <2>3, <3>1, MergedIs, DenseSame DEF Dense!Documents_
  <2>5. /\ documents \in Seq(DensePapers)
        /\ DocsOf(inputs.docs) \cup DocsOf(got.checkpoint) \subseteq DocsOf(documents)
        /\ UNION {DocsOf(got.answers[i]) : i \in DenseDatasets} \subseteq DocsOf(documents)
    <3>1. /\ Dense!MergeAll(Dense!InOrder(got.answers)) \in Seq(DensePapers)
          /\ \A i \in DenseDatasets : DocsOf(got.answers[i])
                 \subseteq DocsOf(Dense!MergeAll(Dense!InOrder(got.answers)))
      BY <2>2, DenseAnswered
    <3> QED BY <2>4, <3>1, MergedIs, DenseSame
  <2> HIDE DEF documents
  <2>6. /\ got'.checkpoint = documents /\ got'.shown = got.shown /\ got'.excluded = got.excluded
        /\ got'.found \subseteq DocsOf(documents)
        /\ got' \in DenseGot
    <3> DEFINE found == got.found \cup DocsOf(inputs.docs)
                          \cup UNION {DocsOf(got.answers[i]) : i \in DenseDatasets}
    <3>1. got \in DenseGot /\ got.iteration + 1 \in Nat
      BY DEF DenseInv, DenseGot
    <3>3. found \subseteq DocsOf(documents) /\ DocsOf(documents) \subseteq DensePapers
      BY <2>5, DocsOfSeq DEF DenseInv
    <3>4. got' = [got EXCEPT !.checkpoint = documents, !.iteration = @ + 1,
                             !.stored = TRUE, !.answers = << >>, !.examples = {},
                             !.found = found]
      BY <2>1
    <3> HIDE DEF found
    <3>2. << >> \in {<< >>} \cup [DenseDatasets -> DenseAnswers \cup {<< >>, Pending, Failed}]
      OBVIOUS
    <3>5. /\ got'.checkpoint = documents /\ got'.found = found
          /\ got'.shown = got.shown /\ got'.excluded = got.excluded
      BY <3>1, <3>4 DEF DenseGot
    <3>6. got' \in DenseGot
      BY <2>5, <3>1, <3>2, <3>3, <3>4 DEF DenseGot
    <3> QED BY <3>3, <3>5, <3>6
  <2>7. response'.docs = documents
    BY <2>1 DEF Dense!Complete
  <2> QED BY <2>1, <2>5, <2>6, <2>7 DEF DenseInv, DenseGot, DenseShown
<1>7. ASSUME Dense!CallAgain PROVE DenseInv'
  <2>1. /\ inputs' \in [docs : DenseGiven, anchors : DenseAnchors, short : BOOLEAN]
        /\ inputs'.anchors = inputs.anchors
        /\ pc' = "start" /\ response' = NoResponse /\ got' = [got EXCEPT !.calls = @ + 1]
    BY <1>7 DEF Dense!CallAgain, Dense!Requests, Dense!NoResponse, NoResponse, Dense!Empty, Empty
  <2>2. /\ got'.shown = got.shown /\ got'.excluded = got.excluded
        /\ got'.found = got.found /\ got'.checkpoint = got.checkpoint
        /\ got' \in DenseGot
    <3>1. got \in DenseGot /\ got.calls + 1 \in Nat
      BY DEF DenseInv, DenseGot
    <3> QED BY <2>1, <3>1 DEF DenseGot
  <2> QED BY <2>1, <2>2 DEF DenseInv, DenseShown, NoResponse
<1> QED BY <1>1, <1>2, <1>3, <1>4, <1>5, <1>6, <1>7 DEF Dense!Next

\* The first and the last fifth of some queries.
LEMMA DenseFifths ==
  ASSUME NEW q \in Nat, q > 0
  PROVE  LET S == 1..((2 * q) \div 10) \cup ((8 * q) \div 10 + 1)..q
         IN  q \in S /\ 2 * Cardinality(S) <= q + 2 /\ (1 \in S <=> q \notin 2..4)
<1> DEFINE a == (2 * q) \div 10
           c == (8 * q) \div 10
           S == 1..a \cup (c + 1)..q
<1>1. a \in Nat /\ c \in Nat
  OBVIOUS
<1>2. /\ 10 * a <= 2 * q /\ 2 * q < 10 * a + 10
      /\ 10 * c <= 8 * q /\ 8 * q < 10 * c + 10
  OBVIOUS
<1> HIDE DEF a, c
<1>3. q \in S /\ (1 \in S <=> q \notin 2..4)
  BY <1>1, <1>2
<1>4. 2 * Cardinality(S) <= q + 2
  <2>1. IsFiniteSet(1..a) /\ Cardinality(1..a) = a
    BY <1>1, FS_Interval
  <2>2. IsFiniteSet((c + 1)..q) /\ Cardinality((c + 1)..q) = q - c
    BY <1>1, <1>2, FS_Interval
  <2>3. IsFiniteSet((1..a) \cap ((c + 1)..q)) /\ Cardinality((1..a) \cap ((c + 1)..q)) \in Nat
    BY <2>1, FS_Intersection, FS_CardinalityType
  <2>4. Cardinality(S) = a + (q - c) - Cardinality((1..a) \cap ((c + 1)..q))
    BY <2>1, <2>2, FS_Union
  <2> QED BY <1>1, <1>2, <2>3, <2>4
<1> QED BY <1>3, <1>4 DEF a, c

\* A document is shown to the model once, an answer keeps what there was, and the
\* indices are asked queries of either end, for every corpus and whatever fails.
LEMMA DenseImplies == DenseInv => Dense!DenseSound
<1> SUFFICES ASSUME DenseInv PROVE Dense!DenseSound
  OBVIOUS
<1>1. Dense!ShownOnce
  BY DenseSame DEF DenseInv, DenseShown, Dense!ShownOnce
<1>2. Dense!DenseKeeps
  BY DenseSame DEF DenseInv, Dense!DenseKeeps
<1>3. Dense!QueriesSent
  <2> SUFFICES ASSUME pc = "fetch", got.queries > 0
               PROVE  /\ got.queries \in Dense!GetQueriesPerDataset
                      /\ 2 * Dense!Cardinality(Dense!GetQueriesPerDataset) <= got.queries + 2
                      /\ 1 \in Dense!GetQueriesPerDataset <=> got.queries \notin 2..4
    BY DEF Dense!QueriesSent
  <2>1. got.queries \in Nat
    BY DEF DenseInv, DenseGot
  <2>2. Dense!Cardinality(Dense!GetQueriesPerDataset) = Cardinality(Dense!GetQueriesPerDataset)
    BY DEF Dense!Cardinality, Cardinality
  <2>3. Dense!GetQueriesPerDataset = 1..((2 * got.queries) \div 10) \cup ((8 * got.queries) \div 10 + 1)..got.queries
    BY DEF Dense!GetQueriesPerDataset
  <2> QED BY <2>1, <2>2, <2>3, DenseFifths
<1> QED BY <1>1, <1>2, <1>3 DEF Dense!DenseSound

WhileDense == agent = "dense" => DenseInv

THEOREM DenseKeepsAndShows == AgentsSpec => []DenseSound
<1>1. AgentsInit => WhileDense
  BY DenseInit DEF AgentsInit, WhileDense
<1>2. WhileDense /\ [AgentsNext]_all => WhileDense'
  <2> SUFFICES ASSUME WhileDense, [AgentsNext]_all, agent' = "dense" PROVE DenseInv'
    BY DEF WhileDense
  <2>1. CASE CallDense
    BY <2>1, DenseStep DEF CallDense, WhileDense
  <2>2. CASE UNCHANGED all
    BY <2>2 DEF all, call, WhileDense, DenseInv, DenseShown
  <2>3. CASE ~CallDense /\ AgentsNext
    BY <2>3 DEF AgentsNext, Plan, CallName, CallAuthors, CallSnowball, CallSnippets,
                CallCiting, CallFast, CallKeyword, CallSorting, StayIdle
  <2> QED BY <2>1, <2>2, <2>3
<1>3. WhileDense => DenseSound
  BY DenseImplies DEF DenseSound, WhileDense
<1> QED BY <1>1, <1>2, <1>3, PTL DEF AgentsSpec

(***************************************************************************)
(* The search by authors                                                   *)
(***************************************************************************)

LEMMA AuthorsSame ==
  /\ \A s : ByAuthors!DocsOf(s) = DocsOf(s)
  /\ \A s, S : ByAuthors!Kept(s, S) = Kept(s, S)
  /\ \A s : ByAuthors!MergeAll(s) = MergeAll(s)
  /\ \A s, n : ByAuthors!Slice(s, n) = Slice(s, n)
  /\ ByAuthors!Empty = << >>
<1>1. \A s : ByAuthors!DocsOf(s) = DocsOf(s)
  BY DEF ByAuthors!DocsOf, DocsOf
<1>2. \A s, S : ByAuthors!Kept(s, S) = Kept(s, S)
  BY DEF ByAuthors!Kept, Kept, ByAuthors!Cardinality, Cardinality
<1>3. \A s, t : ByAuthors!Merged(s, t) = Merged(s, t)
  BY <1>1, <1>2 DEF ByAuthors!Merged, Merged, ByAuthors!Minus, Minus
<1>4. \A s : ByAuthors!MergeAll(s) = MergeAll(s)
  BY <1>3 DEF ByAuthors!MergeAll, MergeAll, ByAuthors!Empty, Empty
<1>5. ByAuthors!Empty = << >> /\ \A s, n : ByAuthors!Slice(s, n) = Slice(s, n)
  BY DEF ByAuthors!Empty, ByAuthors!Slice, Slice
<1> QED BY <1>1, <1>2, <1>4, <1>5

LEMMA AuthorsConstants ==
  /\ AuthorsAnswers \subseteq Seq(AuthorsPapers) /\ AuthorsProfiles \subseteq Nat
  /\ AuthorsConsidered \in Nat /\ AuthorsPage \in Nat /\ AuthorsQuota \in Nat /\ AuthorsLimit \in Nat
  BY SearchAgentsAssumption DEF ByAuthors!CollectionsAnswered

AuthorsGot ==
  [relevance : {Pending, Failed, NotAsked} \cup Seq(AuthorsPapers),
   suggestions : {Pending, Failed, NotAsked} \cup Seq(AuthorsPapers),
   profiles : Seq(SUBSET Int), count : Nat, shown : Nat,
   authors : {Pending, Failed, NoAuthorMatched} \cup Seq(AuthorsPapers)]

\* The papers of s name the authors of the list.
AuthorsNamed(s) ==
  \A d \in DocsOf(s) : \A i \in DOMAIN inputs.authors : ByAuthors!Named(d, inputs.authors[i])

\* What the sources that are filtered by the authors have answered names them,
\* and nothing is answered before all have answered.
AuthorsInv ==
  /\ got \in AuthorsGot /\ inputs.venues \in 0..2
  /\ got.relevance \in {Pending, Failed, NotAsked} \/ AuthorsNamed(got.relevance)
  /\ got.authors \in {Pending, Failed, NoAuthorMatched} \/ AuthorsNamed(got.authors)
  /\ pc = "gather" => DocsOf(response.docs) = {}
  /\ ByAuthors!AnswersMeetRequest

LEMMA AuthorsInit == ByAuthors!Init => AuthorsInv
<1> SUFFICES ASSUME ByAuthors!Init PROVE AuthorsInv
  OBVIOUS
<1>1. /\ got.relevance \in {Pending, NotAsked} /\ got.suggestions \in {Pending, NotAsked}
      /\ got.authors = Pending
      /\ got \in AuthorsGot
  <2>1. << >> \in Seq(SUBSET Int)
    OBVIOUS
  <2> QED BY <2>1 DEF ByAuthors!Init, AuthorsGot
<1>2. DocsOf(response.docs) = {}
  BY DEF ByAuthors!Init, ByAuthors!NoResponse, ByAuthors!Empty, DocsOf
<1>3. ByAuthors!AnswersMeetRequest
  BY <1>2, AuthorsSame DEF ByAuthors!AnswersMeetRequest, ByAuthors!MetadataHeld, ByAuthors!ByTheAuthors
<1>4. inputs.venues \in 0..2
  BY DEF ByAuthors!Init, ByAuthors!Requests
<1> QED BY <1>1, <1>2, <1>3, <1>4 DEF AuthorsInv

\* An answer of a source leaves what is answered as it was: nothing yet.
LEMMA AuthorsGather ==
  ASSUME AuthorsInv, pc = "gather", UNCHANGED <<inputs, pc, response>>, got' \in AuthorsGot,
         got'.relevance \in {Pending, Failed, NotAsked} \/ AuthorsNamed(got'.relevance),
         got'.authors \in {Pending, Failed, NoAuthorMatched} \/ AuthorsNamed(got'.authors)
  PROVE  AuthorsInv'
<1>1. ByAuthors!AnswersMeetRequest'
  BY AuthorsSame DEF AuthorsInv, ByAuthors!AnswersMeetRequest, ByAuthors!MetadataHeld, ByAuthors!ByTheAuthors
<1> QED BY <1>1 DEF AuthorsInv, AuthorsNamed, ByAuthors!Named

\* What is combined is of a source that has answered.
LEMMA AuthorsCombined ==
  ASSUME AuthorsInv, ByAuthors!Gathered, got.authors # NoAuthorMatched
  PROVE  /\ ByAuthors!Combined \in Seq(AuthorsPapers)
         /\ \A d \in DocsOf(ByAuthors!Combined) :
              \/ got.suggestions \notin {NotAsked, Failed} /\ d \in DocsOf(got.suggestions)
              \/ \A i \in DOMAIN inputs.authors : ByAuthors!Named(d, inputs.authors[i])
<1> DEFINE ss == [i \in 1..3 |-> IF ByAuthors!Answered(ByAuthors!Results[i]) THEN ByAuthors!Results[i]
                                                                            ELSE << >>]
<1>1. \A i \in 1..3 : ByAuthors!Results[i] # Pending
  BY DEF ByAuthors!Gathered
<1>2. /\ ByAuthors!Results[1] = got.relevance /\ ByAuthors!Results[2] = got.suggestions
      /\ ByAuthors!Results[3] = got.authors
  BY DEF ByAuthors!Results
<1>3. \A i \in 1..3 : ss[i] \in Seq(AuthorsPapers)
  <2>1. << >> \in Seq(AuthorsPapers)
    OBVIOUS
  <2>2. \A i \in 1..3 : ByAuthors!Answered(ByAuthors!Results[i]) => ByAuthors!Results[i] \in Seq(AuthorsPapers)
    BY <1>1, <1>2 DEF AuthorsInv, AuthorsGot, ByAuthors!Answered
  <2> QED BY <2>1, <2>2
<1>4. ss \in Seq(Seq(AuthorsPapers)) /\ DOMAIN ss = 1..3
  <2>1. ss \in [1..3 -> Seq(AuthorsPapers)]
    BY <1>3
  <2> HIDE DEF ss
  <2> QED BY <2>1, FunctionIsSeq, 3 \in Nat
<1>5. ByAuthors!Combined = MergeAll(ss)
  BY AuthorsSame DEF ByAuthors!Combined
<1>6. \A i \in 1..3 : \A d \in DocsOf(ss[i]) :
        ByAuthors!Answered(ByAuthors!Results[i]) /\ d \in DocsOf(ByAuthors!Results[i])
  <2> TAKE i \in 1..3
  <2>1. CASE ByAuthors!Answered(ByAuthors!Results[i])
    <3>1. ss[i] = ByAuthors!Results[i]
      BY <2>1
    <3> QED BY <2>1, <3>1
  <2>2. CASE ~ByAuthors!Answered(ByAuthors!Results[i])
    <3>1. ss[i] = << >>
      BY <2>2
    <3>2. DocsOf(ss[i]) = {}
      BY <3>1 DEF DocsOf
    <3> QED BY <3>2
  <2> QED BY <2>1, <2>2
<1> HIDE DEF ss
<1>7. ByAuthors!Combined \in Seq(AuthorsPapers)
      /\ DocsOf(ByAuthors!Combined) = UNION {DocsOf(ss[i]) : i \in 1..3}
  BY <1>4, <1>5, MergeAllIs
<1>8. ASSUME NEW i \in 1..3, NEW d \in DocsOf(ss[i])
      PROVE  \/ got.suggestions \notin {NotAsked, Failed} /\ d \in DocsOf(got.suggestions)
             \/ \A j \in DOMAIN inputs.authors : ByAuthors!Named(d, inputs.authors[j])
  <2>1. ByAuthors!Answered(ByAuthors!Results[i]) /\ d \in DocsOf(ByAuthors!Results[i])
        /\ ByAuthors!Results[i] # Pending
    BY <1>1, <1>6
  <2>2. CASE i = 1
    BY <1>2, <2>1, <2>2 DEF AuthorsInv, AuthorsNamed, ByAuthors!Answered
  <2>3. CASE i = 2
    BY <1>2, <2>1, <2>3 DEF ByAuthors!Answered
  <2>4. CASE i = 3
    BY <1>2, <2>1, <2>4 DEF AuthorsInv, AuthorsNamed, ByAuthors!Answered
  <2> QED BY <2>2, <2>3, <2>4
<1> QED BY <1>7, <1>8

\* What relevance() leaves of a collection is of it, and within the years and
\* venues, unless nothing makes it look at them.
LEMMA AuthorsRelevants ==
  ASSUME NEW s \in Seq(AuthorsPapers), NEW t \in ByAuthors!Relevants(s)
  PROVE  /\ t \in Seq(AuthorsPapers) /\ DocsOf(t) \subseteq DocsOf(s)
         /\ ByAuthors!Relevance => \A d \in DocsOf(t) : ByAuthors!InMetadata(d)
<1> DEFINE F == {d \in AuthorsPapers : ByAuthors!InMetadata(d)}
           filtered == Kept(s, F)
<1>1. filtered \in Seq(AuthorsPapers) /\ DocsOf(filtered) = DocsOf(s) \cap F
  BY KeptIs
<1>2. ByAuthors!Relevants(s) =
        IF ~ByAuthors!Relevance THEN {s}
        ELSE IF ~ByAuthors!Judged THEN {filtered}
        ELSE {Kept(u, AuthorsRelevant) : u \in ByAuthors!Quotas(filtered)}
  BY AuthorsSame DEF ByAuthors!Relevants
<1> HIDE DEF filtered, F
<1>3. ASSUME NEW u \in ByAuthors!Quotas(filtered)
      PROVE  u \in Seq(AuthorsPapers) /\ DocsOf(u) \subseteq DocsOf(filtered)
  <2>1. CASE u = filtered
    BY <1>1, <2>1
  <2>2. CASE u # filtered
    <3>1. PICK v \in ByAuthors!Collections(ByAuthors!DocsOf(filtered)) : u = ByAuthors!Slice(v, AuthorsQuota)
      BY <2>2 DEF ByAuthors!Quotas
    <3>2. PICK n : v \in [1..n -> DocsOf(filtered)] /\ n \in Nat
      <4>1. PICK n \in 0..ByAuthors!Cardinality(DocsOf(filtered)) : v \in [1..n -> DocsOf(filtered)]
        BY <3>1, AuthorsSame DEF ByAuthors!Collections
      <4>2. n \in Nat
        OBVIOUS
      <4> QED BY <4>1, <4>2
    <3>3. v \in Seq(DocsOf(filtered))
      BY <3>2
    <3>4. u = Slice(v, AuthorsQuota)
      BY <3>1, AuthorsSame
    <3>5. u \in Seq(DocsOf(filtered))
      BY <3>3, <3>4, AuthorsConstants, SliceIs
    <3>6. DocsOf(filtered) \subseteq AuthorsPapers
      BY <1>1, DocsOfSeq
    <3> QED BY <3>5, <3>6, DocsOfSeq
  <2> QED BY <2>1, <2>2
<1>4. CASE ~ByAuthors!Relevance
  BY <1>2, <1>4
<1>5. CASE ByAuthors!Relevance /\ ~ByAuthors!Judged
  BY <1>1, <1>2, <1>5 DEF F
<1>6. CASE ByAuthors!Relevance /\ ByAuthors!Judged
  <2>1. PICK u \in ByAuthors!Quotas(filtered) : t = Kept(u, AuthorsRelevant)
    BY <1>2, <1>6
  <2>2. t \in Seq(AuthorsPapers) /\ DocsOf(t) \subseteq DocsOf(u)
    BY <1>3, <2>1, KeptIs
  <2> QED BY <1>1, <1>3, <2>2 DEF F
<1> QED BY <1>4, <1>5, <1>6

\* An answer that is such a collection, or the beginning of one.
LEMMA AuthorsResponds ==
  ASSUME AuthorsInv, UNCHANGED <<inputs, got>>, pc' = "done",
         \A d \in DocsOf(response'.docs) :
           /\ ByAuthors!Relevance => ByAuthors!InMetadata(d)
           /\ \/ got.suggestions \notin {NotAsked, Failed} /\ d \in DocsOf(got.suggestions)
              \/ \A i \in DOMAIN inputs.authors : ByAuthors!Named(d, inputs.authors[i])
  PROVE  AuthorsInv'
<1>1. inputs' = inputs /\ got' = got
  OBVIOUS
<1>2. ByAuthors!MetadataHeld'
  <2> SUFFICES ASSUME NEW d \in DocsOf(response'.docs)
               PROVE  ByAuthors!InMetadata(d) \/ (inputs.venues = 1 /\ ~inputs.years /\ ~inputs.criteria)
    BY <1>1, AuthorsSame DEF ByAuthors!MetadataHeld, ByAuthors!InMetadata
  <2>1. CASE ByAuthors!Relevance
    BY <2>1
  <2>2. CASE ~ByAuthors!Relevance
    BY <2>2 DEF AuthorsInv, ByAuthors!Relevance, ByAuthors!Judged, ByAuthors!InMetadata
  <2> QED BY <2>1, <2>2
<1>3. ByAuthors!ByTheAuthors'
  BY <1>1, AuthorsSame DEF ByAuthors!ByTheAuthors, ByAuthors!Named
<1> QED BY <1>1, <1>2, <1>3 DEF AuthorsInv, AuthorsNamed, ByAuthors!Named, ByAuthors!AnswersMeetRequest

\* Profiles chosen for an author.
LEMMA AuthorsChooses ==
  ASSUME AuthorsInv, pc = "gather", UNCHANGED <<inputs, pc, response>>, NEW S \in SUBSET Int,
         got' = [got EXCEPT !.profiles = Append(got.profiles, S), !.count = 0, !.shown = 0]
  PROVE  AuthorsInv'
<1>1. got \in AuthorsGot /\ got.profiles \in Seq(SUBSET Int)
  BY DEF AuthorsInv, AuthorsGot
<1>2. Append(got.profiles, S) \in Seq(SUBSET Int)
  BY <1>1
<1>3. got' \in AuthorsGot /\ got'.relevance = got.relevance /\ got'.authors = got.authors
  BY <1>1, <1>2 DEF AuthorsGot
<1> QED BY <1>3, AuthorsGather DEF AuthorsInv

LEMMA AuthorsStep == AuthorsInv /\ ByAuthors!Next => AuthorsInv'
<1> SUFFICES ASSUME AuthorsInv, ByAuthors!Next PROVE AuthorsInv'
  OBVIOUS
<1>0. got \in AuthorsGot
  BY DEF AuthorsInv
<1>1. ASSUME NEW n \in AuthorsProfiles, ByAuthors!FindProfiles(n) PROVE AuthorsInv'
  <2>1. pc = "gather" /\ UNCHANGED <<inputs, pc, response>> /\ n \in Nat
    BY <1>1, AuthorsConstants DEF ByAuthors!FindProfiles, ByAuthors!Searching
  <2>2. \/ got' = [got EXCEPT !.authors = NoAuthorMatched]
        \/ \E m \in Nat : got' = [got EXCEPT !.profiles = Append(@, 1..m), !.count = 0, !.shown = 0]
        \/ \E m \in Nat : got' = [got EXCEPT !.count = n, !.shown = m]
    BY <1>1, <2>1, AuthorsConstants DEF ByAuthors!FindProfiles, ByAuthors!Choose
  <2>3. CASE \E m \in Nat : got' = [got EXCEPT !.profiles = Append(@, 1..m), !.count = 0, !.shown = 0]
    <3>1. PICK m \in Nat : got' = [got EXCEPT !.profiles = Append(got.profiles, 1..m),
                                              !.count = 0, !.shown = 0]
      BY <2>3
    <3>2. 1..m \in SUBSET Int
      OBVIOUS
    <3> QED BY <2>1, <3>1, <3>2, AuthorsChooses
  <2>4. CASE ~ (\E m \in Nat : got' = [got EXCEPT !.profiles = Append(@, 1..m), !.count = 0, !.shown = 0])
    <3>1. got' \in AuthorsGot /\ got'.relevance = got.relevance
          /\ (got'.authors = got.authors \/ got'.authors = NoAuthorMatched)
      BY <1>0, <2>1, <2>2, <2>4 DEF AuthorsGot
    <3> QED BY <2>1, <3>1, AuthorsGather DEF AuthorsInv
  <2> QED BY <2>3, <2>4
<1>2. ASSUME NEW k \in Int, ByAuthors!ReplyIndex(k) PROVE AuthorsInv'
  <2>1. pc = "gather" /\ UNCHANGED <<inputs, pc, response>>
    BY <1>2 DEF ByAuthors!ReplyIndex, ByAuthors!Searching
  <2>2. \/ \E S \in SUBSET Int : got' = [got EXCEPT !.profiles = Append(@, S), !.count = 0, !.shown = 0]
        \/ got' = [got EXCEPT !.authors = Failed]
    <3>1. got.count + k \in Int
      BY <1>0 DEF AuthorsGot
    <3> QED BY <1>2, <3>1 DEF ByAuthors!ReplyIndex, ByAuthors!Choose
  <2>3. CASE \E S \in SUBSET Int : got' = [got EXCEPT !.profiles = Append(@, S), !.count = 0, !.shown = 0]
    <3>1. PICK S \in SUBSET Int : got' = [got EXCEPT !.profiles = Append(got.profiles, S),
                                                     !.count = 0, !.shown = 0]
      BY <2>3
    <3> QED BY <2>1, <3>1, AuthorsChooses
  <2>4. CASE got' = [got EXCEPT !.authors = Failed]
    <3>1. got' \in AuthorsGot /\ got'.relevance = got.relevance /\ got'.authors = Failed
      BY <1>0, <2>4 DEF AuthorsGot
    <3> QED BY <2>1, <3>1, AuthorsGather DEF AuthorsInv
  <2> QED BY <2>2, <2>3, <2>4
<1>3. ASSUME ByAuthors!ReplyNext PROVE AuthorsInv'
  <2>1. pc = "gather" /\ UNCHANGED <<inputs, pc, response>>
    BY <1>3 DEF ByAuthors!ReplyNext, ByAuthors!Searching
  <2>2. \/ \E m \in Nat : got' = [got EXCEPT !.shown = m]
        \/ got' = [got EXCEPT !.authors = NoAuthorMatched]
    <3>1. got.shown + AuthorsPage \in Nat /\ got.count \in Nat
      BY <1>0, AuthorsConstants DEF AuthorsGot
    <3>2. CASE got.shown = got.count
      BY <1>3, <3>2 DEF ByAuthors!ReplyNext
    <3>3. CASE got.shown # got.count
      <4> DEFINE m == IF got.shown + AuthorsPage < got.count THEN got.shown + AuthorsPage ELSE got.count
      <4>1. got' = [got EXCEPT !.shown = m]
        BY <1>3, <3>3 DEF ByAuthors!ReplyNext
      <4>2. m \in Nat
        BY <3>1
      <4> HIDE DEF m
      <4> QED BY <4>1, <4>2
    <3> QED BY <3>2, <3>3
  <2>3. got' \in AuthorsGot /\ got'.relevance = got.relevance
        /\ (got'.authors = got.authors \/ got'.authors = NoAuthorMatched)
    BY <1>0, <2>2 DEF AuthorsGot
  <2> QED BY <2>1, <2>3, AuthorsGather DEF AuthorsInv
<1>4. ASSUME ByAuthors!FindFails \/ ByAuthors!PapersFail PROVE AuthorsInv'
  <2>1. pc = "gather" /\ UNCHANGED <<inputs, pc, response>> /\ got' = [got EXCEPT !.authors = Failed]
    BY <1>4 DEF ByAuthors!FindFails, ByAuthors!PapersFail, ByAuthors!Searching
  <2>2. got' \in AuthorsGot /\ got'.relevance = got.relevance /\ got'.authors = Failed
    BY <1>0, <2>1 DEF AuthorsGot
  <2> QED BY <2>1, <2>2, AuthorsGather DEF AuthorsInv
<1>5. ASSUME ByAuthors!GetAuthorsPapersByS2Authors PROVE AuthorsInv'
  <2> DEFINE F == {d \in AuthorsPapers : \A i \in DOMAIN inputs.authors : ByAuthors!HasAuthor(d, i)}
  <2>1. PICK s \in AuthorsAnswers : got' = [got EXCEPT !.authors = Kept(s, F)]
    BY <1>5, AuthorsSame DEF ByAuthors!GetAuthorsPapersByS2Authors
  <2>2. Kept(s, F) \in Seq(AuthorsPapers) /\ DocsOf(Kept(s, F)) = DocsOf(s) \cap F
    BY AuthorsConstants, KeptIs
  <2>3. AuthorsNamed(Kept(s, F))
    <3>1. \A d \in F : \A i \in DOMAIN inputs.authors : ByAuthors!Named(d, inputs.authors[i])
      BY DEF ByAuthors!HasAuthor, ByAuthors!Named
    <3> HIDE DEF F
    <3> QED BY <2>2, <3>1 DEF AuthorsNamed
  <2> HIDE DEF F
  <2>4. got' \in AuthorsGot /\ got'.relevance = got.relevance /\ got'.authors = Kept(s, F)
    BY <1>0, <2>1, <2>2 DEF AuthorsGot
  <2>5. pc = "gather" /\ UNCHANGED <<inputs, pc, response>>
    BY <1>5 DEF ByAuthors!GetAuthorsPapersByS2Authors
  <2> QED BY <2>3, <2>4, <2>5, AuthorsGather DEF AuthorsInv
<1>6. ASSUME ByAuthors!GetAuthorsPapersByS2Relevance PROVE AuthorsInv'
  <2> DEFINE F == {d \in AuthorsPapers :
                     \A i \in DOMAIN inputs.authors : ByAuthors!Named(d, inputs.authors[i])}
  <2>1. pc = "gather" /\ UNCHANGED <<inputs, pc, response>>
    BY <1>6 DEF ByAuthors!GetAuthorsPapersByS2Relevance
  <2>2. CASE got' = [got EXCEPT !.relevance = Failed]
    <3>1. got' \in AuthorsGot /\ got'.relevance = Failed /\ got'.authors = got.authors
      BY <1>0, <2>2 DEF AuthorsGot
    <3> QED BY <2>1, <3>1, AuthorsGather DEF AuthorsInv
  <2>3. CASE \E s \in AuthorsAnswers : got' = [got EXCEPT !.relevance = Kept(s, F)]
    <3>1. PICK s \in AuthorsAnswers : got' = [got EXCEPT !.relevance = Kept(s, F)]
      BY <2>3
    <3>2. Kept(s, F) \in Seq(AuthorsPapers) /\ DocsOf(Kept(s, F)) = DocsOf(s) \cap F
      BY AuthorsConstants, KeptIs
    <3>3. AuthorsNamed(Kept(s, F))
      BY <3>2 DEF AuthorsNamed
    <3> HIDE DEF F
    <3>4. got' \in AuthorsGot /\ got'.relevance = Kept(s, F) /\ got'.authors = got.authors
      BY <1>0, <3>1, <3>2 DEF AuthorsGot
    <3> QED BY <2>1, <3>3, <3>4, AuthorsGather DEF AuthorsInv
  <2> QED BY <1>6, <2>2, <2>3, AuthorsSame DEF ByAuthors!GetAuthorsPapersByS2Relevance
<1>7. ASSUME ByAuthors!GetLLMSuggestedPapers PROVE AuthorsInv'
  <2>1. PICK s \in AuthorsAnswers \cup {Failed} : got' = [got EXCEPT !.suggestions = s]
    BY <1>7 DEF ByAuthors!GetLLMSuggestedPapers
  <2>2. got' \in AuthorsGot /\ got'.relevance = got.relevance /\ got'.authors = got.authors
    BY <1>0, <2>1, AuthorsConstants DEF AuthorsGot
  <2>3. pc = "gather" /\ UNCHANGED <<inputs, pc, response>>
    BY <1>7 DEF ByAuthors!GetLLMSuggestedPapers
  <2> QED BY <2>2, <2>3, AuthorsGather DEF AuthorsInv
<1>8. ASSUME ByAuthors!NobodyByThisName \/ ByAuthors!AllSourcesFail \/ ByAuthors!RelevanceFails
      PROVE  AuthorsInv'
  <2>1. pc' = "done" /\ UNCHANGED <<inputs, got>> /\ DocsOf(response'.docs) = {}
    BY <1>8 DEF ByAuthors!NobodyByThisName, ByAuthors!AllSourcesFail, ByAuthors!RelevanceFails,
                ByAuthors!Respond, ByAuthors!Complete, ByAuthors!Void, ByAuthors!Empty, DocsOf
  <2> QED BY <2>1, AuthorsResponds
<1>9. ASSUME ByAuthors!Combine PROVE AuthorsInv'
  <2>1. PICK s \in ByAuthors!Relevants(ByAuthors!Combined) :
          ByAuthors!Respond(ByAuthors!Complete(IF inputs.specific THEN ByAuthors!Slice(s, AuthorsLimit) ELSE s))
    BY <1>9 DEF ByAuthors!Combine
  <2>2. ByAuthors!Gathered /\ got.authors # NoAuthorMatched
    BY <1>9 DEF ByAuthors!Combine
  <2>3. ByAuthors!Combined \in Seq(AuthorsPapers)
    BY <2>2, AuthorsCombined
  <2>4. s \in Seq(AuthorsPapers) /\ DocsOf(s) \subseteq DocsOf(ByAuthors!Combined)
        /\ (ByAuthors!Relevance => \A d \in DocsOf(s) : ByAuthors!InMetadata(d))
    BY <2>1, <2>3, AuthorsRelevants
  <2>5. UNCHANGED <<inputs, got>> /\ pc' = "done"
        /\ response'.docs = IF inputs.specific THEN Slice(s, AuthorsLimit) ELSE s
    BY <2>1, AuthorsSame DEF ByAuthors!Respond, ByAuthors!Complete
  <2>6. DocsOf(Slice(s, AuthorsLimit)) \subseteq DocsOf(s)
    <3>1. /\ Slice(s, AuthorsLimit) \in Seq(AuthorsPapers)
          /\ Len(Slice(s, AuthorsLimit)) <= Len(s)
          /\ \A i \in 1..Len(Slice(s, AuthorsLimit)) : Slice(s, AuthorsLimit)[i] = s[i]
      BY <2>4, AuthorsConstants, SliceIs
    <3>2. Len(Slice(s, AuthorsLimit)) \in Nat /\ Len(s) \in Nat
      BY <2>4, <3>1
    <3> QED BY <2>4, <3>1, <3>2, DocsOfSeq
  <2>7. DocsOf(response'.docs) \subseteq DocsOf(s)
    BY <2>5, <2>6
  <2>8. \A d \in DocsOf(s) :
          \/ got.suggestions \notin {NotAsked, Failed} /\ d \in DocsOf(got.suggestions)
          \/ \A i \in DOMAIN inputs.authors : ByAuthors!Named(d, inputs.authors[i])
    BY <2>2, <2>4, AuthorsCombined
  <2> QED BY <2>4, <2>5, <2>7, <2>8, AuthorsResponds
<1>10. \A n \in AuthorsProfiles : n \in Int /\ 0 - n \in Int
  BY AuthorsConstants
<1> QED BY <1>1, <1>2, <1>3, <1>4, <1>5, <1>6, <1>7, <1>8, <1>9, <1>10 DEF ByAuthors!Next

WhileAuthors == agent = "authors" => AuthorsInv

\* Whatever the sources answer and whichever fail, a search by authors answers
\* papers within the years and venues it looks at and by all of the authors,
\* unless a model suggested them.
THEOREM RequestsAreMet == AgentsSpec => []AnswersMeetRequest
<1>1. AgentsInit => WhileAuthors
  BY AuthorsInit DEF AgentsInit, WhileAuthors
<1>2. WhileAuthors /\ [AgentsNext]_all => WhileAuthors'
  <2> SUFFICES ASSUME WhileAuthors, [AgentsNext]_all, agent' = "authors" PROVE AuthorsInv'
    BY DEF WhileAuthors
  <2>1. CASE CallAuthors
    BY <2>1, AuthorsStep DEF CallAuthors, WhileAuthors
  <2>2. CASE UNCHANGED all
    <3>1. AuthorsInv /\ UNCHANGED <<inputs, pc, got, response>>
      BY <2>2 DEF all, call, WhileAuthors
    <3>2. ByAuthors!AnswersMeetRequest'
      BY <3>1 DEF AuthorsInv, ByAuthors!AnswersMeetRequest, ByAuthors!MetadataHeld,
                  ByAuthors!ByTheAuthors, ByAuthors!InMetadata, ByAuthors!Named
    <3> QED BY <3>1, <3>2 DEF AuthorsInv, AuthorsNamed, ByAuthors!Named
  <2>3. CASE ~CallAuthors /\ AgentsNext
    BY <2>3 DEF AgentsNext, Plan, CallName, CallDense, CallSnowball, CallSnippets,
                CallCiting, CallFast, CallKeyword, CallSorting, StayIdle
  <2> QED BY <2>1, <2>2, <2>3
<1>3. WhileAuthors => AnswersMeetRequest
  BY DEF AuthorsInv, AnswersMeetRequest, WhileAuthors
<1> QED BY <1>1, <1>2, <1>3, PTL DEF AgentsSpec

(***************************************************************************)
(* The fast broad search                                                   *)
(***************************************************************************)

\* A set of numbers that is not empty has a least one.
LEMMA LeastIs ==
  ASSUME NEW S \in SUBSET Nat, S # {}
  PROVE  (CHOOSE x \in S : \A y \in S : x <= y) \in S
<1> DEFINE R == OpToRel(<, Nat)
<1>1. IsWellFoundedOn(R, Nat)
  BY NatLessThanWellFounded DEF OpToRel
<1> HIDE DEF R
<1>2. PICK x \in S : \A y \in S : ~ (<<y, x>> \in R)
  BY <1>1, WFMin
<1>3. \A y \in S : x <= y
  <2> TAKE y \in S
  <2>1. ~ (y < x)
    <3> SUFFICES ASSUME y < x PROVE FALSE
      OBVIOUS
    <3>1. <<y, x>> \in R
      BY DEF R, OpToRel
    <3> QED BY <1>2, <3>1
  <2> QED BY <2>1
<1> QED BY <1>3

LEMMA FastSame ==
  /\ \A s : Fast!DocsOf(s) = DocsOf(s)
  /\ \A s, S : Fast!Kept(s, S) = Kept(s, S)
  /\ \A s, t : Fast!Merged(s, t) = Merged(s, t)
  /\ \A s : Fast!MergeAll(s) = MergeAll(s)
  /\ \A s, n : Fast!Slice(s, n) = Slice(s, n)
  /\ \A s, key : Fast!SortedDesc(s, key) = SortedDesc(s, key)
  /\ Fast!Empty = << >>
<1>1. \A s : Fast!DocsOf(s) = DocsOf(s)
  BY DEF Fast!DocsOf, DocsOf
<1>2. \A s, S : Fast!Kept(s, S) = Kept(s, S)
  BY DEF Fast!Kept, Kept, Fast!Cardinality, Cardinality
<1>3. \A s, t : Fast!Merged(s, t) = Merged(s, t)
  BY <1>1, <1>2 DEF Fast!Merged, Merged, Fast!Minus, Minus
<1>4. \A s : Fast!MergeAll(s) = MergeAll(s)
  BY <1>3 DEF Fast!MergeAll, MergeAll, Fast!Empty, Empty
<1>5. Fast!Empty = << >> /\ \A s, n : Fast!Slice(s, n) = Slice(s, n)
  BY DEF Fast!Empty, Fast!Slice, Slice
<1>6. \A s, key : Fast!SortedDesc(s, key) = SortedDesc(s, key)
  BY DEF Fast!SortedDesc, SortedDesc, Fast!Cardinality, Cardinality
<1> QED BY <1>1, <1>2, <1>3, <1>4, <1>5, <1>6

LEMMA FastConstants ==
  /\ FastAnswers \subseteq Seq(FastPapers) /\ FastSnippets \subseteq Seq(FastPapers)
  /\ Pending \notin FastAnswers /\ Failed \notin FastAnswers
  /\ Len(FastArms) \in Nat /\ DOMAIN FastArms = 1..Len(FastArms)
  /\ FastUnscored \in Int /\ FastQuota \in Nat
  BY SearchAgentsAssumption DEF Fast!CollectionsAnswered

FastGot ==
  [arms : [DOMAIN FastArms -> {Pending, Failed} \cup Seq(FastPapers)],
   snippets : Seq(FastPapers), docs : Seq(FastPapers),
   scores : {<< >>} \cup UNION {[D -> Int] : D \in SUBSET FastPapers}]

\* The documents in hand come from a source or from the snippets, and every one
\* has a score if any has.
FastInv ==
  /\ got \in FastGot
  /\ pc = "gather" => got.docs = << >> /\ got.scores = << >>
  /\ got.scores = << >> \/ got.scores \in [DocsOf(got.docs) -> Int]
  /\ \A d \in DocsOf(got.docs) : \E t \in Fast!Found : d \in DocsOf(t)
  /\ pc # "done" => response.docs = << >>
  /\ Fast!FastSearchSound

LEMMA FastInit == Fast!Init => FastInv
<1> SUFFICES ASSUME Fast!Init PROVE FastInv
  OBVIOUS
<1>1. got \in FastGot /\ got.docs = << >> /\ got.scores = << >>
  <2>1. << >> \in Seq(FastPapers)
    OBVIOUS
  <2>2. [i \in DOMAIN FastArms |-> Pending] \in [DOMAIN FastArms -> {Pending, Failed} \cup Seq(FastPapers)]
    OBVIOUS
  <2> QED BY <2>1, <2>2, FastSame DEF Fast!Init, FastGot
<1>2. DocsOf(got.docs) = {}
  BY <1>1 DEF DocsOf
<1>3. pc = "gather" /\ response.docs = << >>
  BY DEF Fast!Init, Fast!NoResponse, Fast!Empty
<1>4. Fast!FastSearchSound
  BY <1>3 DEF Fast!FastSearchSound, Fast!SurvivesOutage, Fast!BestRanksAnswered
<1> QED BY <1>1, <1>2, <1>3, <1>4 DEF FastInv

LEMMA FastFoundIs ==
  ASSUME got \in FastGot
  PROVE  /\ \A i \in DOMAIN FastArms : Fast!AnswerOf(i) \in Seq(FastPapers)
         /\ Fast!Found \subseteq Seq(FastPapers)
         /\ Fast!Retrieved \in Seq(FastPapers)
         /\ DocsOf(Fast!Retrieved) = UNION {DocsOf(Fast!AnswerOf(i)) : i \in DOMAIN FastArms}
<1>1. \A i \in DOMAIN FastArms : Fast!AnswerOf(i) \in Seq(FastPapers)
  <2> TAKE i \in DOMAIN FastArms
  <2>1. got.arms[i] \in {Pending, Failed} \cup Seq(FastPapers)
    BY DEF FastGot
  <2>2. << >> \in Seq(FastPapers)
    OBVIOUS
  <2> QED BY <2>1, <2>2, FastSame DEF Fast!AnswerOf
<1>2. got.snippets \in Seq(FastPapers)
  BY DEF FastGot
<1>3. Fast!Found \subseteq Seq(FastPapers)
  BY <1>1, <1>2 DEF Fast!Found
<1> DEFINE ss == [i \in DOMAIN FastArms |-> Fast!AnswerOf(i)]
<1>4. ss \in Seq(Seq(FastPapers)) /\ DOMAIN ss = DOMAIN FastArms
  <2>1. ss \in [1..Len(FastArms) -> Seq(FastPapers)] /\ Len(FastArms) \in Nat
    BY <1>1, FastConstants
  <2> HIDE DEF ss
  <2> QED BY <2>1, FastConstants, FunctionIsSeq
<1>5. Fast!Retrieved = MergeAll(ss)
  BY FastSame DEF Fast!Retrieved
<1>6. UNION {DocsOf(ss[i]) : i \in DOMAIN ss} = UNION {DocsOf(Fast!AnswerOf(i)) : i \in DOMAIN FastArms}
  BY <1>4
<1> HIDE DEF ss
<1> QED BY <1>1, <1>3, <1>4, <1>5, <1>6, MergeAllIs

LEMMA NoDocs ==
  ASSUME NEW X, NEW s \in Seq(X)
  PROVE  DocsOf(s) = {} <=> s = << >>
<1>1. s = << >> => DocsOf(s) = {}
  BY DEF DocsOf
<1>2. ASSUME s # << >> PROVE s[1] \in DocsOf(s)
  <2>1. 1 \in DOMAIN s
    BY <1>2
  <2> QED BY <2>1 DEF DocsOf
<1> QED BY <1>1, <1>2

\* A document that was found has a best rank.
LEMMA FastRankIs ==
  ASSUME got \in FastGot, NEW d, \E t \in Fast!Found : d \in DocsOf(t)
  PROVE  Fast!BestRank(d) \in Nat
<1>1. \A s \in Fast!Found : d \in DocsOf(s) => Fast!Position(s, d) \in Nat
  <2> SUFFICES ASSUME NEW s \in Fast!Found, d \in DocsOf(s) PROVE Fast!Position(s, d) \in Nat
    OBVIOUS
  <2>1. s \in Seq(FastPapers)
    BY FastFoundIs
  <2>2. \E i \in DOMAIN s : s[i] = d
    BY DEF DocsOf
  <2>3. Fast!Position(s, d) \in DOMAIN s
    BY <2>2 DEF Fast!Position
  <2> QED BY <2>1, <2>3
<1>2. Fast!Ranks(d) \in SUBSET Nat /\ Fast!Ranks(d) # {}
  BY <1>1, FastSame DEF Fast!Ranks
<1>3. Fast!BestRank(d) = CHOOSE x \in Fast!Ranks(d) : \A y \in Fast!Ranks(d) : x <= y
  BY DEF Fast!BestRank, Fast!Min
<1> QED BY <1>2, <1>3, LeastIs

LEMMA FastFails ==
  ASSUME FastInv, Fast!Fail,
         got.docs = << >> => \/ \A i \in DOMAIN FastArms : got.arms[i] \in {Failed, << >>}
                             \/ inputs.metadata \/ inputs.authors
  PROVE  FastInv'
<1>1. pc' = "done" /\ inputs' = inputs /\ got' = got /\ response'.docs = << >>
  BY FastSame DEF Fast!Fail, Fast!Void
<1>2. DocsOf(response'.docs) = {}
  BY <1>1 DEF DocsOf
<1>3. Fast!SurvivesOutage'
  BY <1>1, FastSame DEF Fast!SurvivesOutage
<1>4. Fast!BestRanksAnswered'
  BY <1>2, FastSame DEF Fast!BestRanksAnswered
<1>5. Fast!Found' = Fast!Found
  BY <1>1 DEF Fast!Found, Fast!AnswerOf
<1> QED BY <1>1, <1>3, <1>4, <1>5 DEF FastInv, Fast!FastSearchSound

\* A step that leaves the search before its end.
LEMMA FastGoesOn ==
  ASSUME FastInv, pc # "done", pc' \in {"gather", "rerank", "judge"}, UNCHANGED <<inputs, response>>,
         got' \in FastGot, pc' = "gather" => got'.docs = << >> /\ got'.scores = << >>,
         got'.scores = << >> \/ got'.scores \in [DocsOf(got'.docs) -> Int],
         \A d \in DocsOf(got'.docs) : \E t \in Fast!Found' : d \in DocsOf(t)
  PROVE  FastInv'
<1>1. pc' # "done" /\ response'.docs = << >>
  BY DEF FastInv
<1>2. Fast!FastSearchSound'
  BY <1>1 DEF Fast!FastSearchSound, Fast!SurvivesOutage, Fast!BestRanksAnswered
<1> QED BY <1>1, <1>2 DEF FastInv

\* The judge sees the documents of the best ranks, unless they were reranked.
LEMMA FastJudges == FastInv /\ Fast!RunRelevanceJudgement => FastInv'
<1> SUFFICES ASSUME FastInv, Fast!RunRelevanceJudgement PROVE FastInv'
  OBVIOUS
<1> DEFINE X == DocsOf(got.docs)
           order == Fast!RerankDocs
           judged == Fast!Judged
<1>1. /\ pc' = "done" /\ inputs' = inputs /\ got' = got
      /\ response' = [kind |-> "complete", docs |-> Kept(judged, FastRelevant)]
  BY FastSame DEF Fast!RunRelevanceJudgement, Fast!Complete
<1>2. got \in FastGot /\ got.docs \in Seq(FastPapers)
  BY DEF FastInv, FastGot
<1>3. Fast!SurvivesOutage'
  BY <1>1 DEF Fast!SurvivesOutage, Fast!Void
<1>4. Fast!BestRanksAnswered'
  <2>1. SUFFICES ASSUME ~Fast!Reranked, NEW d \in DocsOf(Kept(judged, FastRelevant)),
                        NEW e \in FastRelevant \cap X, e \notin DocsOf(Kept(judged, FastRelevant))
                 PROVE  Fast!BestRank(d) <= Fast!BestRank(e)
    BY <1>1, FastSame DEF Fast!BestRanksAnswered, Fast!BestRank, Fast!Ranks, Fast!Found,
                Fast!AnswerOf, Fast!Reranked
  <2> DEFINE key == [f \in X |-> 0 - Fast!BestRank(f)]
  <2>2. \A f \in X : Fast!BestRank(f) \in Nat
    BY <1>2, FastRankIs DEF FastInv
  <2>3. \A f \in X : key[f] = 0 - Fast!BestRank(f) /\ key[f] \in Int
    BY <2>2
  <2>4. order = SortedDesc(got.docs, key)
    BY <2>1, FastSame DEF Fast!RerankDocs
  <2>5. judged = Slice(order, FastQuota)
    BY FastSame DEF Fast!Judged
  <2>6. got.docs \in Seq(X)
    BY <1>2, DocsOfSeq DEF DocsOf
  <2> HIDE DEF key, order, judged, X
  <2>7. /\ order \in Seq(X) /\ Len(order) = Len(got.docs) /\ DocsOf(order) = DocsOf(got.docs)
        /\ \A i, j \in 1..Len(got.docs) : i < j => key[order[i]] >= key[order[j]]
    BY <2>3, <2>4, <2>6, SortedIs
  <2>8. /\ judged \in Seq(X) /\ Len(judged) <= Len(order)
        /\ \A i \in 1..Len(judged) : judged[i] = order[i]
    BY <2>5, <2>7, FastConstants, SliceIs
  <2>9. DocsOf(Kept(judged, FastRelevant)) = DocsOf(judged) \cap FastRelevant
    BY <2>8, KeptIs
  <2>10. Len(judged) \in Nat /\ Len(order) \in Nat
    BY <2>7, <2>8
  <2>11. PICK i \in 1..Len(judged) : judged[i] = d
    BY <2>1, <2>8, <2>9, DocsOfSeq
  <2>12. PICK j \in 1..Len(order) : order[j] = e
    <3>1. e \in DocsOf(order)
      BY <2>1, <2>7 DEF X
    <3> QED BY <2>7, <3>1, DocsOfSeq
  <2>13. ~ (j <= Len(judged))
    <3> SUFFICES ASSUME j <= Len(judged) PROVE FALSE
      OBVIOUS
    <3>1. j \in 1..Len(judged)
      BY <2>10
    <3>2. e \in DocsOf(judged)
      BY <2>8, <2>12, <3>1, DocsOfSeq
    <3> QED BY <2>1, <2>9, <3>2
  <2>14. key[order[i]] >= key[order[j]]
    <3>1. i \in 1..Len(got.docs) /\ j \in 1..Len(got.docs) /\ i < j
      BY <2>7, <2>8, <2>10, <2>13
    <3> QED BY <2>7, <3>1
  <2>15. order[i] = d /\ order[j] = e /\ d \in X /\ e \in X
    <3>1. order[i] = d
      BY <2>8, <2>11
    <3>2. d \in X
      BY <2>8, <2>11
    <3> QED BY <2>1, <2>12, <3>1, <3>2
  <2>16. key[d] = 0 - Fast!BestRank(d) /\ key[e] = 0 - Fast!BestRank(e)
         /\ Fast!BestRank(d) \in Nat /\ Fast!BestRank(e) \in Nat
    BY <2>2, <2>3, <2>15
  <2> QED BY <2>14, <2>15, <2>16
<1>5. Fast!Found' = Fast!Found
  BY <1>1 DEF Fast!Found, Fast!AnswerOf
<1> QED BY <1>1, <1>3, <1>4, <1>5 DEF FastInv, Fast!FastSearchSound

LEMMA FastStep == FastInv /\ Fast!Next => FastInv'
<1> SUFFICES ASSUME FastInv, Fast!Next PROVE FastInv'
  OBVIOUS
<1>0. got \in FastGot
  BY DEF FastInv
<1>1. ASSUME NEW i \in DOMAIN FastArms, Fast!ArmAnswers(i) PROVE FastInv'
  <2>1. PICK s \in FastAnswers \cup {Failed} : got' = [got EXCEPT !.arms[i] = s]
    BY <1>1 DEF Fast!ArmAnswers
  <2>2. pc = "gather" /\ UNCHANGED <<inputs, pc, response>>
    BY <1>1 DEF Fast!ArmAnswers
  <2>3. s \in {Pending, Failed} \cup Seq(FastPapers)
    BY FastConstants
  <2>4. got' \in FastGot /\ got'.docs = got.docs /\ got'.scores = got.scores
    BY <1>0, <2>1, <2>3 DEF FastGot
  <2>5. got'.docs = << >>
    BY <2>2, <2>4 DEF FastInv
  <2>6. DocsOf(got'.docs) = {} /\ DocsOf(got'.docs) = DocsOf(got.docs)
    BY <2>4, <2>5 DEF DocsOf
  <2> QED BY <2>2, <2>4, <2>5, <2>6, FastGoesOn DEF FastInv
<1>2. ASSUME Fast!NothingRetrieved PROVE FastInv'
  <2>1. Fast!Gathered /\ Fast!Retrieved = << >> /\ Fast!Fail
    BY <1>2, FastSame DEF Fast!NothingRetrieved
  <2>2. DocsOf(Fast!Retrieved) = {}
    BY <2>1 DEF DocsOf
  <2>3. ASSUME NEW i \in DOMAIN FastArms PROVE got.arms[i] \in {Failed, << >>}
    <3>1. DocsOf(Fast!AnswerOf(i)) = {} /\ Fast!AnswerOf(i) \in Seq(FastPapers)
      BY <1>0, <2>2, FastFoundIs
    <3>2. Fast!AnswerOf(i) = << >>
      BY <3>1, NoDocs
    <3>3. got.arms[i] # Pending
      BY <2>1 DEF Fast!Gathered
    <3> QED BY <3>2, <3>3 DEF Fast!AnswerOf
  <2> QED BY <2>1, <2>3, FastFails
<1>3. ASSUME Fast!Retrieve PROVE FastInv'
  <2> DEFINE F == IF inputs.metadata THEN FastFitting ELSE FastPapers
             all0 == Fast!Retrieved
  <2>1. pc = "gather" /\ all0 # << >>
    BY <1>3, FastSame DEF Fast!Retrieve
  <2>2. PICK s \in FastSnippets :
          IF inputs.authors /\ Kept(Merged(all0, s), F) # << >> THEN Fast!Fail
          ELSE /\ got' = [got EXCEPT !.snippets = s, !.docs = Kept(Merged(all0, s), F)]
               /\ pc' = "rerank"
               /\ UNCHANGED <<inputs, response>>
    BY <1>3, FastSame DEF Fast!Retrieve
  <2> HIDE DEF F
  <2>3. CASE inputs.authors /\ Kept(Merged(all0, s), F) # << >>
    BY <2>2, <2>3, FastFails
  <2>4. CASE ~ (inputs.authors /\ Kept(Merged(all0, s), F) # << >>)
    <3> DEFINE fit == Kept(Merged(all0, s), F)
    <3>1. s \in Seq(FastPapers) /\ all0 \in Seq(FastPapers)
          /\ DocsOf(all0) = UNION {DocsOf(Fast!AnswerOf(i)) : i \in DOMAIN FastArms}
      BY <1>0, FastConstants, FastFoundIs
    <3>2. Merged(all0, s) \in Seq(FastPapers) /\ DocsOf(Merged(all0, s)) = DocsOf(all0) \cup DocsOf(s)
      BY <3>1, MergedIs
    <3>3. fit \in Seq(FastPapers) /\ DocsOf(fit) \subseteq DocsOf(all0) \cup DocsOf(s)
      BY <3>2, KeptIs
    <3>4. got' = [got EXCEPT !.snippets = s, !.docs = fit] /\ pc' = "rerank" /\ UNCHANGED <<inputs, response>>
      BY <2>2, <2>4
    <3> HIDE DEF fit, all0
    <3>5. got' \in FastGot /\ got'.docs = fit /\ got'.snippets = s /\ got'.arms = got.arms
          /\ got'.scores = got.scores
      BY <1>0, <3>1, <3>3, <3>4 DEF FastGot
    <3>6. \A i \in DOMAIN FastArms : Fast!AnswerOf(i)' = Fast!AnswerOf(i)
      BY <3>5 DEF Fast!AnswerOf
    <3>7. Fast!Found' = {Fast!AnswerOf(i) : i \in DOMAIN FastArms} \cup {s}
      BY <3>5, <3>6 DEF Fast!Found
    <3>8. \A d \in DocsOf(got'.docs) : \E t \in Fast!Found' : d \in DocsOf(t)
      BY <3>1, <3>3, <3>5, <3>7
    <3>9. got'.scores = << >> 
      BY <2>1, <3>5 DEF FastInv
    <3> QED BY <2>1, <3>4, <3>5, <3>8, <3>9, FastGoesOn
  <2> QED BY <2>3, <2>4
<1>4. ASSUME Fast!RetrieveFails PROVE FastInv'
  BY <1>4, FastFails DEF Fast!RetrieveFails
<1>5. ASSUME Fast!Rerank PROVE FastInv'
  <2>1. pc = "rerank" /\ pc' = "judge" /\ UNCHANGED <<inputs, response>>
    BY <1>5 DEF Fast!Rerank
  <2>2. PICK f \in {<< >>} \cup [DocsOf(got.docs) -> {FastUnscored, 0, 1}] :
          got' = [got EXCEPT !.scores = f]
    BY <1>5, FastSame DEF Fast!Rerank
  <2>3. DocsOf(got.docs) \in SUBSET FastPapers
    <3>1. got.docs \in Seq(FastPapers)
      BY <1>0 DEF FastGot
    <3> QED BY <3>1, DocsOfSeq
  <2>4. f = << >> \/ f \in [DocsOf(got.docs) -> Int]
    BY FastConstants
  <2>5. got' \in FastGot /\ got'.docs = got.docs /\ got'.scores = f
        /\ got'.arms = got.arms /\ got'.snippets = got.snippets
    BY <1>0, <2>2, <2>3, <2>4 DEF FastGot
  <2>6. Fast!Found' = Fast!Found
    BY <2>5 DEF Fast!Found, Fast!AnswerOf
  <2> QED BY <2>1, <2>4, <2>5, <2>6, FastGoesOn DEF FastInv
<1>6. ASSUME Fast!JudgementFails PROVE FastInv'
  <2>1. Fast!Fail /\ got.docs # << >>
    BY <1>6, FastSame DEF Fast!JudgementFails
  <2> QED BY <2>1, FastFails
<1> QED BY <1>1, <1>2, <1>3, <1>4, <1>5, <1>6, FastJudges DEF Fast!Next

WhileFast == agent = "fast" => FastInv

\* Whichever sources fail, a fast broad search of which one source answers goes on
\* to order its documents unless their metadata are asked for, and without the
\* reranker's word no relevant document is left out for one of a worse rank.
THEOREM FastSearchSurvives == AgentsSpec => []FastSearchSound
<1>1. AgentsInit => WhileFast
  BY FastInit DEF AgentsInit, WhileFast
<1>2. WhileFast /\ [AgentsNext]_all => WhileFast'
  <2> SUFFICES ASSUME WhileFast, [AgentsNext]_all, agent' = "fast" PROVE FastInv'
    BY DEF WhileFast
  <2>1. CASE CallFast
    BY <2>1, FastStep DEF CallFast, WhileFast
  <2>2. CASE UNCHANGED all
    <3>1. FastInv /\ UNCHANGED <<inputs, pc, got, response>>
      BY <2>2 DEF all, call, WhileFast
    <3>2. Fast!FastSearchSound' /\ Fast!Found' = Fast!Found
      BY <3>1 DEF FastInv, Fast!FastSearchSound, Fast!SurvivesOutage, Fast!BestRanksAnswered,
                  Fast!BestRank, Fast!Ranks, Fast!Found, Fast!AnswerOf, Fast!Reranked
    <3> QED BY <3>1, <3>2 DEF FastInv
  <2>3. CASE ~CallFast /\ AgentsNext
    BY <2>3 DEF AgentsNext, Plan, CallName, CallAuthors, CallDense, CallSnowball, CallSnippets,
                CallCiting, CallKeyword, CallSorting, StayIdle
  <2> QED BY <2>1, <2>2, <2>3
<1>3. WhileFast => FastSearchSound
  BY DEF FastInv, FastSearchSound, WhileFast
<1> QED BY <1>1, <1>2, <1>3, PTL DEF AgentsSpec

(***************************************************************************)
(* Weighted averages                                                       *)
(***************************************************************************)

Weighted == INSTANCE WeightedSort

LEMMA WeightedSame ==
  /\ \A S : Weighted!Cardinality(S) = Cardinality(S)
  /\ \A f : Weighted!Range(f) = {f[x] : x \in DOMAIN f}
  BY DEF Weighted!Cardinality, Cardinality, Weighted!Range

LEMMA ImageFinite ==
  ASSUME NEW D, IsFiniteSet(D), NEW f
  PROVE  IsFiniteSet({f[d] : d \in D})
<1> DEFINE T == {f[d] : d \in D}
           g == [d \in D |-> f[d]]
<1>1. g \in Surjection(D, T)
  BY DEF Surjection
<1> HIDE DEF g, T
<1>2. IsFiniteSet(T)
  BY <1>1, FS_Surjection
<1> QED BY <1>2 DEF T

(* The least and the greatest of finitely many numbers.                     *)
LEMMA FirstsLeast ==
  ASSUME NEW n \in Nat, NEW f \in [1..n -> Int], n > 0
  PROVE  \E m \in 1..n : \A j \in 1..n : f[m] <= f[j]
<1> DEFINE Upto == {k \in 0..n : k = 0 \/ \E m \in 1..k : \A j \in 1..k : f[m] <= f[j]}
<1>1. 0 \in Upto
  OBVIOUS
<1>2. ASSUME NEW k \in 0..(n - 1), k \in Upto PROVE k + 1 \in Upto
  <2>1. \A j \in 1..(k + 1) : f[j] \in Int /\ (j \in 1..k \/ j = k + 1)
    BY <1>2
  <2>2. k + 1 \in 1..(k + 1) /\ k + 1 \in 0..n /\ 1..k \subseteq 1..(k + 1)
    OBVIOUS
  <2>3. CASE k = 0
    BY <2>1, <2>2, <2>3
  <2>4. CASE k # 0
    <3>1. PICK m \in 1..k : \A j \in 1..k : f[m] <= f[j]
      BY <1>2, <2>4
    <3>2. CASE f[m] <= f[k + 1]
      BY <2>1, <2>2, <3>1, <3>2
    <3>3. CASE ~ (f[m] <= f[k + 1])
      <4>1. f[m] \in Int /\ f[k + 1] \in Int
        BY <2>1, <2>2
      <4>2. \A j \in 1..(k + 1) : f[k + 1] <= f[j]
        BY <2>1, <3>1, <3>3, <4>1
      <4> QED BY <2>2, <4>2
    <3> QED BY <3>2, <3>3
  <2> QED BY <2>3, <2>4
<1> HIDE DEF Upto
<1>3. \A k \in 0..n : k \in Upto
  BY <1>1, <1>2, UptoSet
<1>4. n \in Upto
  BY <1>3
<1> QED BY <1>4 DEF Upto

LEMMA LeastOf ==
  ASSUME NEW S \in SUBSET Int, IsFiniteSet(S), S # {}
  PROVE  \E x \in S : \A y \in S : x <= y
<1> DEFINE n == Cardinality(S)
<1>1. n \in Nat /\ n # 0
  BY FS_CardinalityType, FS_EmptySet
<1>2. PICK f : f \in Bijection(1..n, S)
  <2> HIDE DEF n
  <2>1. ExistsBijection(1..n, S)
    BY FS_CardinalityType DEF n
  <2> QED BY <2>1 DEF ExistsBijection
<1> HIDE DEF n
<1>3. f \in [1..n -> S] /\ \A s \in S : \E i \in 1..n : f[i] = s
  BY <1>2 DEF Bijection, Injection, Surjection
<1>4. PICK m \in 1..n : \A j \in 1..n : f[m] <= f[j]
  <2>1. f \in [1..n -> Int] /\ n > 0
    <3>1. \A i \in 1..n : f[i] \in Int
      BY <1>3
    <3> QED BY <1>1, <1>3, <3>1
  <2> QED BY <1>1, <2>1, FirstsLeast
<1>5. f[m] \in S
  BY <1>3
<1> QED BY <1>3, <1>4, <1>5

LEMMA GreatestOf ==
  ASSUME NEW S \in SUBSET Int, IsFiniteSet(S), S # {}
  PROVE  \E x \in S : \A y \in S : y <= x
<1> DEFINE T == {0 - x : x \in S}
<1>1. T \in SUBSET Int /\ T # {}
  <2>1. \A x \in S : x \in Int /\ 0 - x \in Int
    OBVIOUS
  <2>2. PICK x \in S : TRUE
    OBVIOUS
  <2> QED BY <2>1, <2>2
<1>2. IsFiniteSet(T)
  <2> DEFINE f == [x \in S |-> 0 - x]
  <2>1. T = {f[x] : x \in S}
    OBVIOUS
  <2> HIDE DEF f, T
  <2> QED BY <2>1, ImageFinite
<1> HIDE DEF T
<1>3. PICK t \in T : \A y \in T : t <= y
  BY <1>1, <1>2, LeastOf
<1>4. PICK x \in S : t = 0 - x
  BY DEF T
<1>5. \A y \in S : y <= x
  <2> TAKE y \in S
  <2>1. 0 - y \in T /\ x \in Int /\ y \in Int
    BY DEF T
  <2>2. 0 - x <= 0 - y
    BY <1>3, <1>4, <2>1
  <2> QED BY <2>1, <2>2
<1> QED BY <1>5

LEMMA WeightedMin ==
  ASSUME NEW S \in SUBSET Int, IsFiniteSet(S), S # {}
  PROVE  Weighted!Min(S) \in S /\ \A y \in S : Weighted!Min(S) <= y
  BY LeastOf DEF Weighted!Min

(* There is a k-th value of a column, and it is one of them.                *)
RowsUnder(D, column, v) == {d \in D : column[d] < v}
RowsUpto(D, column, v)  == {d \in D : column[d] <= v}
ValuesOf(D, column)     == {column[d] : d \in D}

LEMMA NthExists ==
  ASSUME NEW D, IsFiniteSet(D), NEW column \in [D -> Int], NEW k \in Nat, k < Cardinality(D)
  PROVE  \E v \in ValuesOf(D, column) : /\ Cardinality(RowsUnder(D, column, v)) <= k
                                        /\ Cardinality(RowsUpto(D, column, v)) > k
<1> DEFINE Values == {column[d] : d \in D}
           Upto(v) == {d \in D : column[d] <= v}
           Under(v) == {d \in D : column[d] < v}
           Over == {v \in Values : Cardinality(Upto(v)) > k}
<1>0. Cardinality(D) \in Nat /\ D # {}
  BY FS_CardinalityType, FS_EmptySet
<1>1. IsFiniteSet(Values) /\ Values \in SUBSET Int /\ Values # {}
  <2>1. IsFiniteSet(Values)
    BY ImageFinite
  <2> QED BY <1>0, <2>1
<1>2. \A v : /\ IsFiniteSet(Upto(v)) /\ Cardinality(Upto(v)) \in Nat
             /\ IsFiniteSet(Under(v)) /\ Cardinality(Under(v)) \in Nat
  <2> TAKE v
  <2>1. Upto(v) \subseteq D /\ Under(v) \subseteq D
    OBVIOUS
  <2> HIDE DEF Upto, Under
  <2> QED BY <2>1, FS_Subset, FS_CardinalityType
<1>3. Over # {}
  <2>1. PICK v \in Values : \A w \in Values : w <= v
    BY <1>1, GreatestOf
  <2>2. \A d \in D : column[d] <= v
    BY <2>1
  <2>3. Upto(v) = D
    BY <2>2
  <2> QED BY <2>3
<1>4. IsFiniteSet(Over) /\ Over \in SUBSET Int
  <2>1. Over \subseteq Values
    OBVIOUS
  <2> HIDE DEF Over, Values
  <2> QED BY <1>1, <2>1, FS_Subset
<1>5. PICK v \in Over : \A w \in Over : v <= w
  <2> HIDE DEF Over
  <2> QED BY <1>3, <1>4, LeastOf
<1>6. v \in Values /\ v \in Int /\ Cardinality(Upto(v)) > k
  BY <1>4
<1>7. Cardinality(Under(v)) <= k
  <2> SUFFICES ASSUME ~ (Cardinality(Under(v)) <= k) PROVE FALSE
    OBVIOUS
  <2>1. Cardinality(Under(v)) > k /\ Cardinality(Under(v)) # 0
    BY <1>2
  <2>2. Under(v) # {}
    <3> HIDE DEF Under
    <3> QED BY <2>1, FS_EmptySet
  <2> DEFINE Lower == {column[d] : d \in Under(v)}
  <2>3. Lower \in SUBSET Int /\ Lower # {}
    BY <2>2
  <2>4. IsFiniteSet(Lower)
    <3>1. IsFiniteSet(Under(v))
      BY <1>2
    <3> HIDE DEF Under
    <3> QED BY <3>1, ImageFinite
  <2>5. PICK w \in Lower : \A y \in Lower : y <= w
    <3> HIDE DEF Lower
    <3> QED BY <2>3, <2>4, GreatestOf
  <2>6. w \in Values /\ w < v /\ w \in Int
    OBVIOUS
  <2>7. \A d \in D : column[d] \in Int /\ (column[d] < v => column[d] <= w)
    BY <2>5
  <2>8. Upto(w) = Under(v)
    BY <1>6, <2>6, <2>7
  <2>9. w \in Over
    BY <2>1, <2>6, <2>8
  <2> QED BY <1>5, <1>6, <2>6, <2>9
<1>8. Values = ValuesOf(D, column) /\ Upto(v) = RowsUpto(D, column, v) /\ Under(v) = RowsUnder(D, column, v)
  BY DEF ValuesOf, RowsUpto, RowsUnder
<1> HIDE DEF Values, Upto, Under, Over
<1> QED BY <1>6, <1>7, <1>8

LEMMA NthIs ==
  ASSUME NEW D, IsFiniteSet(D), NEW column \in [D -> Int], NEW k \in Nat, k < Cardinality(D)
  PROVE  Weighted!Nth(column, k) \in {column[d] : d \in D}
<1> DEFINE Is(v) == /\ Cardinality(RowsUnder(D, column, v)) <= k
                    /\ Cardinality(RowsUpto(D, column, v)) > k
<1>1. \E v \in ValuesOf(D, column) : Is(v)
  BY NthExists
<1>2. Weighted!Nth(column, k) = CHOOSE v \in ValuesOf(D, column) : Is(v)
  BY WeightedSame DEF Weighted!Nth, RowsUnder, RowsUpto, ValuesOf
<1> HIDE DEF Is
<1> QED BY <1>1, <1>2 DEF ValuesOf

LEMMA Between ==
  ASSUME NEW p \in 0..99, NEW x \in Int, NEW y \in Int, NEW m \in Int, x >= m, y >= m
  PROVE  (100 - p) * x + p * y \in Int /\ (100 - p) * x + p * y >= 100 * m
<1>1. (100 - p) * (x - m) >= 0
  OBVIOUS
<1>2. p * (y - m) >= 0
  OBVIOUS
<1>3. (100 - p) * (x - m) = (100 - p) * x - (100 - p) * m /\ p * (y - m) = p * y - p * m
  OBVIOUS
<1>4. (100 - p) * m + p * m = 100 * m
  OBVIOUS
<1> QED BY <1>1, <1>2, <1>3, <1>4

LEMMA QuantileIs ==
  ASSUME NEW D, IsFiniteSet(D), D # {}, NEW column \in [D -> Int]
  PROVE  /\ Weighted!Min(Weighted!Range(column)) \in Int
         /\ \A d \in D : Weighted!Min(Weighted!Range(column)) <= column[d]
         /\ Weighted!Quantile(column) \in Int
         /\ Weighted!Quantile(column) >= 100 * Weighted!Min(Weighted!Range(column))
<1> DEFINE Values == {column[d] : d \in D}
           n == Cardinality(D)
           m == Weighted!Min(Weighted!Range(column))
           at == 99 * (n - 1)
           k == at \div 100
           p == at % 100
<1>1. n \in Nat /\ n # 0
  BY FS_CardinalityType, FS_EmptySet
<1>2. IsFiniteSet(Values) /\ Values \in SUBSET Int /\ Values # {} /\ Weighted!Range(column) = Values
  <2>1. IsFiniteSet(Values)
    BY ImageFinite
  <2> QED BY <2>1, WeightedSame
<1>3. m \in Values /\ \A v \in Values : m <= v
  <2> HIDE DEF Values
  <2> QED BY <1>2, WeightedMin
<1>4. k \in Nat /\ p \in 0..99 /\ k < n /\ (p # 0 => k + 1 < n) /\ k + 1 \in Nat
  <2>1. at \in Nat /\ at = 100 * k + p /\ k \in Nat /\ p \in 0..99
    BY <1>1
  <2> HIDE DEF k, p
  <2> QED BY <1>1, <2>1
<1> DEFINE x == Weighted!Nth(column, k)
           y == IF p = 0 THEN m ELSE Weighted!Nth(column, k + 1)
<1>5. x \in Values /\ y \in Values
  <2> HIDE DEF k, p, m
  <2>1. x \in Values
    BY <1>4, NthIs
  <2>2. p # 0 => Weighted!Nth(column, k + 1) \in Values
    BY <1>4, NthIs
  <2> QED BY <1>3, <2>1, <2>2
<1>6. Weighted!Quantile(column) = (100 - p) * x + (IF p = 0 THEN 0 ELSE p * y)
  BY WeightedSame DEF Weighted!Quantile
<1>7. x \in Int /\ y \in Int /\ m \in Int /\ x >= m /\ y >= m
  <2> HIDE DEF x, y, m
  <2> QED BY <1>2, <1>3, <1>5
<1>8. Weighted!Quantile(column) = (100 - p) * x + p * y
  <2>1. p = 0 => p * y = 0
    <3> HIDE DEF x, y, p
    <3> QED BY <1>7
  <2> HIDE DEF x, y, p
  <2> QED BY <1>6, <2>1
<1>9. Weighted!Quantile(column) \in Int /\ Weighted!Quantile(column) >= 100 * m
  <2> HIDE DEF x, y, p, m
  <2> QED BY <1>4, <1>7, <1>8, Between
<1>10. \A d \in D : m <= column[d]
  <2> HIDE DEF m
  <2> QED BY <1>3
<1> QED BY <1>7, <1>9, <1>10

LEMMA DivGrows ==
  ASSUME NEW x \in Int, NEW y \in Int, NEW c \in Int, c > 0, x <= y
  PROVE  x \div c \in Int /\ y \div c \in Int /\ x \div c <= y \div c
<1>1. x \div c \in Int /\ y \div c \in Int
  OBVIOUS
<1>2. c * (x \div c) <= x /\ y < c * (y \div c) + c
  OBVIOUS
<1>3. SUFFICES ASSUME x \div c > y \div c PROVE FALSE
  BY <1>1
<1> DEFINE q == x \div c
           r == y \div c
<1>4. q >= r + 1 /\ q \in Int /\ r \in Int
  BY <1>1, <1>3
<1>5. c * q <= x /\ y < c * r + c
  BY <1>2
<1> HIDE DEF q, r
<1>6. c * (q - r - 1) >= 0
  BY <1>4
<1>7. c * (q - r - 1) = c * q - c * r - c
  BY <1>4
<1> QED BY <1>4, <1>5, <1>6, <1>7

\* What is normalised is a number, and a greater one for a greater one.
LEMMA NormalizedIs ==
  ASSUME NEW D, IsFiniteSet(D), D # {}, NEW column \in [D -> Int]
  PROVE  /\ Weighted!Normalized(column) \in [D -> Int]
         /\ \A d, e \in D : column[d] <= column[e] =>
               Weighted!Normalized(column)[d] <= Weighted!Normalized(column)[e]
<1> DEFINE low == 100 * Weighted!Min(Weighted!Range(column))
           high == Weighted!Quantile(column)
           clip(v) == IF 100 * v > high THEN high ELSE 100 * v
           value(d) == IF high = low THEN 1000 ELSE (1000 * (clip(column[d]) - low)) \div (high - low)
<1>1. low \in Int /\ high \in Int /\ high >= low
  BY QuantileIs
<1>2. Weighted!Normalized(column) = [d \in D |-> value(d)]
  BY DEF Weighted!Normalized
<1> HIDE DEF low, high
<1>3. ASSUME NEW d \in D, NEW e \in D, column[d] <= column[e]
      PROVE  value(d) \in Int /\ value(e) \in Int /\ value(d) <= value(e)
  <2>1. CASE high = low
    BY <2>1
  <2>2. CASE high # low
    <3> DEFINE x == 1000 * (clip(column[d]) - low)
               y == 1000 * (clip(column[e]) - low)
               c == high - low
    <3>1. x \in Int /\ y \in Int /\ x <= y
      <4>1. column[d] \in Int /\ column[e] \in Int
        OBVIOUS
      <4> QED BY <1>1, <1>3, <4>1
    <3>2. c \in Int /\ c > 0
      BY <1>1, <2>2
    <3>3. value(d) = x \div c /\ value(e) = y \div c
      BY <2>2
    <3> HIDE DEF x, y, c, value
    <3> QED BY <3>1, <3>2, <3>3, DivGrows
  <2> QED BY <2>1, <2>2
<1>4. \A d \in D : value(d) \in Int
  <2> TAKE d \in D
  <2>1. column[d] <= column[d]
    OBVIOUS
  <2> HIDE DEF value
  <2> QED BY <1>3, <2>1
<1> HIDE DEF value
<1> QED BY <1>2, <1>3, <1>4

\* y is no worse a value than x, by the sign of a weight.
NoWorse(x, y, weight) == \/ x = Missing
                         \/ y # Missing /\ IF weight < 0 THEN y <= x ELSE y >= x

LEMMA TurnedIs ==
  ASSUME NEW D, IsFiniteSet(D), Missing \notin Int, NEW column \in [D -> Int \cup {Missing}],
         NEW weight \in Int
  PROVE  /\ Weighted!Turned(column, weight) \in [D -> Int]
         /\ \A d, e \in D : NoWorse(column[d], column[e], weight) =>
               Weighted!Turned(column, weight)[d] <= Weighted!Turned(column, weight)[e]
<1> DEFINE turn(v) == IF weight < 0 THEN 0 - v ELSE v
           K == {d \in D : column[d] # Missing}
           T == {turn(column[d]) : d \in K}
           worst == IF K = {} THEN 0 ELSE Weighted!Min(T)
<1>1. Weighted!Turned(column, weight) =
        [d \in D |-> IF column[d] = Missing THEN worst ELSE turn(column[d])]
  BY DEF Weighted!Turned, Weighted!Known
<1>2. \A d \in K : column[d] \in Int /\ turn(column[d]) \in Int
  OBVIOUS
<1>3. worst \in Int /\ \A d \in K : worst <= turn(column[d])
  <2>1. IsFiniteSet(T)
    <3>1. IsFiniteSet(K)
      <4>1. K \subseteq D
        OBVIOUS
      <4> QED BY <4>1, FS_Subset
    <3> DEFINE f == [d \in K |-> turn(column[d])]
    <3>2. T = {f[d] : d \in K}
      OBVIOUS
    <3> HIDE DEF K, turn, f, T
    <3> QED BY <3>1, <3>2, ImageFinite
  <2>2. T \in SUBSET Int
    BY <1>2
  <2>3. K # {} => T # {}
    OBVIOUS
  <2>4. \A d \in K : turn(column[d]) \in T
    OBVIOUS
  <2>5. T # {} => Weighted!Min(T) \in T /\ \A y \in T : Weighted!Min(T) <= y
    <3> HIDE DEF T
    <3> QED BY <2>1, <2>2, WeightedMin
  <2>6. CASE K = {}
    BY <2>6
  <2>7. CASE K # {}
    <3>1. worst = Weighted!Min(T)
      BY <2>7
    <3>2. worst \in T /\ \A y \in T : worst <= y
      <4> HIDE DEF T, K, worst
      <4> QED BY <2>3, <2>5, <2>7, <3>1
    <3> HIDE DEF T, worst, K, turn
    <3> QED BY <2>2, <2>4, <3>2
  <2> QED BY <2>6, <2>7
<1> HIDE DEF worst
<1>4. \A d \in D : column[d] \in Int \cup {Missing}
  OBVIOUS
<1>5. Weighted!Turned(column, weight) \in [D -> Int]
  BY <1>1, <1>2, <1>3
<1>6. ASSUME NEW d \in D, NEW e \in D, NoWorse(column[d], column[e], weight)
      PROVE  Weighted!Turned(column, weight)[d] <= Weighted!Turned(column, weight)[e]
  <2>1. CASE column[d] = Missing
    BY <1>1, <1>2, <1>3, <2>1
  <2>2. CASE column[d] # Missing
    BY <1>1, <1>2, <1>6, <2>2 DEF NoWorse
  <2> QED BY <2>1, <2>2
<1> QED BY <1>5, <1>6

ColumnNames == {"year", "citations", "rerank", "snippets"}

\* The weighted average is a number, and none is less for a document that is no
\* worse in any column that weighs something.
LEMMA AverageIs ==
  ASSUME NEW D, IsFiniteSet(D), D # {}, Missing \notin Int, NEW columns, NEW weights,
         DOMAIN weights \subseteq ColumnNames, DOMAIN columns = DOMAIN weights, DOMAIN weights # {},
         \A k \in DOMAIN weights : weights[k] \in Int /\ columns[k] \in [D -> Int \cup {Missing}]
  PROVE  /\ Weighted!WeightedAverage(columns, weights) \in [D -> Int]
         /\ \A d, e \in D :
              (\A k \in DOMAIN weights :
                  weights[k] # 0 => NoWorse(columns[k][d], columns[k][e], weights[k])) =>
              Weighted!WeightedAverage(columns, weights)[d] <= Weighted!WeightedAverage(columns, weights)[e]
<1> DEFINE scaled == [k \in DOMAIN weights |->
                        Weighted!Normalized(Weighted!Turned(columns[k], weights[k]))]
           known == UNION {DOMAIN columns[k] : k \in DOMAIN columns}
           share(k, d) == IF k \in DOMAIN weights THEN Weighted!Abs(weights[k]) * scaled[k][d] ELSE 0
<1>1. known = D
  OBVIOUS
<1>2. Weighted!WeightedAverage(columns, weights) =
        [d \in D |-> share("year", d) + share("citations", d)
                     + share("rerank", d) + share("snippets", d)]
  <2>1. Weighted!WeightedAverage(columns, weights) =
          [d \in known |-> share("year", d) + share("citations", d)
                          + share("rerank", d) + share("snippets", d)]
    BY DEF Weighted!WeightedAverage
  <2> HIDE DEF known, share
  <2> QED BY <1>1, <2>1
<1>3. ASSUME NEW k \in DOMAIN weights
      PROVE  /\ scaled[k] \in [D -> Int]
             /\ \A d, e \in D : NoWorse(columns[k][d], columns[k][e], weights[k]) =>
                                 scaled[k][d] <= scaled[k][e]
  <2> DEFINE column == Weighted!Turned(columns[k], weights[k])
  <2>1. /\ column \in [D -> Int]
        /\ \A d, e \in D : NoWorse(columns[k][d], columns[k][e], weights[k]) => column[d] <= column[e]
    BY TurnedIs
  <2>2. scaled[k] = Weighted!Normalized(column)
    OBVIOUS
  <2> HIDE DEF column, scaled
  <2>3. /\ scaled[k] \in [D -> Int]
        /\ \A d, e \in D : column[d] <= column[e] => scaled[k][d] <= scaled[k][e]
    BY <2>1, <2>2, NormalizedIs
  <2> QED BY <2>1, <2>3
<1> HIDE DEF scaled, known
<1>4. ASSUME NEW k \in ColumnNames, NEW d \in D
      PROVE  share(k, d) \in Int
  <2>1. CASE k \in DOMAIN weights
    <3>1. Weighted!Abs(weights[k]) \in Int /\ scaled[k][d] \in Int
      BY <1>3, <2>1 DEF Weighted!Abs
    <3> QED BY <2>1, <3>1
  <2> QED BY <2>1
<1>5. ASSUME NEW k \in ColumnNames, NEW d \in D, NEW e \in D,
             \A j \in DOMAIN weights :
                 weights[j] # 0 => NoWorse(columns[j][d], columns[j][e], weights[j])
      PROVE  share(k, d) <= share(k, e)
  <2>1. CASE k \in DOMAIN weights /\ weights[k] # 0
    <3> DEFINE w == Weighted!Abs(weights[k])
               x == scaled[k][d]
               y == scaled[k][e]
    <3>1. w \in Nat /\ x \in Int /\ y \in Int /\ x <= y
      BY <1>3, <1>5, <2>1 DEF Weighted!Abs
    <3>2. share(k, d) = w * x /\ share(k, e) = w * y
      BY <2>1
    <3> HIDE DEF w, x, y, share
    <3>3. w * (y - x) >= 0
      BY <3>1
    <3>4. w * (y - x) = w * y - w * x
      BY <3>1
    <3> QED BY <3>1, <3>2, <3>3, <3>4
  <2>2. CASE k \in DOMAIN weights /\ weights[k] = 0
    <3>1. Weighted!Abs(weights[k]) = 0 /\ scaled[k][d] \in Int /\ scaled[k][e] \in Int
      BY <1>3, <2>2 DEF Weighted!Abs
    <3> QED BY <2>2, <3>1
  <2>3. CASE k \notin DOMAIN weights
    BY <2>3
  <2> QED BY <2>1, <2>2, <2>3
<1> HIDE DEF share
<1>6. \A k \in {"year", "citations", "rerank", "snippets"} : k \in ColumnNames
  BY DEF ColumnNames
<1> QED BY <1>2, <1>4, <1>5, <1>6

(***************************************************************************)
(* The snowball agent                                                      *)
(***************************************************************************)

LEMMA SnowSame ==
  /\ \A s : Snow!DocsOf(s) = DocsOf(s)
  /\ \A s, S : Snow!Kept(s, S) = Kept(s, S)
  /\ \A s, t : Snow!Merged(s, t) = Merged(s, t)
  /\ \A s, n : Snow!Slice(s, n) = Slice(s, n)
  /\ \A s, key : Snow!SortedDesc(s, key) = SortedDesc(s, key)
  /\ \A S : Snow!Ascending(S) = Ascending(S)
  /\ \A S : Snow!Cardinality(S) = Cardinality(S)
  /\ Snow!Empty = << >>
<1>1. \A s : Snow!DocsOf(s) = DocsOf(s)
  BY DEF Snow!DocsOf, DocsOf
<1>2. \A s, S : Snow!Kept(s, S) = Kept(s, S)
  BY DEF Snow!Kept, Kept, Snow!Cardinality, Cardinality
<1>3. \A s, t : Snow!Merged(s, t) = Merged(s, t)
  BY <1>1, <1>2 DEF Snow!Merged, Merged, Snow!Minus, Minus
<1>4. \A s, n : Snow!Slice(s, n) = Slice(s, n)
  BY DEF Snow!Slice, Slice
<1>5. \A s, key : Snow!SortedDesc(s, key) = SortedDesc(s, key)
  BY DEF Snow!SortedDesc, SortedDesc, Snow!Cardinality, Cardinality
<1>6. \A S : Snow!Ascending(S) = Ascending(S)
  BY DEF Snow!Ascending, Ascending, Snow!Cardinality, Cardinality
<1>7. \A S : Snow!Cardinality(S) = Cardinality(S)
  BY DEF Snow!Cardinality, Cardinality
<1> QED BY <1>1, <1>2, <1>3, <1>4, <1>5, <1>6, <1>7 DEF Snow!Empty

SnowLinks  == [SnowPapers -> SUBSET (SnowPapers \X BOOLEAN)]
SnowCounts == [SnowPapers -> Nat \cup {Unknown}]

LEMMA SnowConstants ==
  /\ IsFiniteSet(SnowPapers) /\ SnowPapers \subseteq Nat /\ SnowBefore \subseteq SnowPapers
  /\ SnowCollected \subseteq Seq(SnowPapers) /\ SnowMentioned \subseteq Seq(SnowPapers)
  /\ {Pending, Failed, NotAsked} \cap SnowMentioned = {}
  /\ SnowRelevance \in [SnowPapers -> 0..3]
  /\ SnowForwardTopK \in Nat /\ SnowBackwardTopK \in Nat
  /\ SnowGraphs \subseteq [citations : SnowLinks, references : SnowLinks,
                           referenceCount : SnowCounts, citationCount : SnowCounts]
<1>1. Snow!GraphsGiven
  BY SearchAgentsAssumption
<1>2. \A S : Snow!IsFiniteSet(S) = IsFiniteSet(S)
  BY DEF Snow!IsFiniteSet, IsFiniteSet
<1> QED BY <1>1, <1>2 DEF Snow!GraphsGiven, SnowLinks, SnowCounts

(* What an agent is given, while it runs.                                   *)
SnowGiven ==
  /\ inputs.docs \in Seq(SnowPapers)
  /\ inputs.graph \in [citations : SnowLinks, references : SnowLinks,
                       referenceCount : SnowCounts, citationCount : SnowCounts]

LEMMA SnowSeeds ==
  ASSUME SnowGiven
  PROVE  /\ Snow!Seeds \in Seq(SnowPapers)
         /\ DocsOf(Snow!Seeds) \subseteq DocsOf(inputs.docs)
         /\ DocsOf(Snow!Seeds) \subseteq SnowPapers
         /\ \A s \in DocsOf(Snow!Seeds) : SnowRelevance[s] \in 2..3
<1> DEFINE G == {d \in SnowPapers : SnowRelevance[d] > 1}
<1>1. Snow!Seeds = Kept(inputs.docs, G)
  BY SnowSame DEF Snow!Seeds
<1>2. Snow!Seeds \in Seq(SnowPapers) /\ DocsOf(Snow!Seeds) = DocsOf(inputs.docs) \cap G
  BY <1>1, KeptIs DEF SnowGiven
<1>3. \A d \in G : SnowRelevance[d] \in 2..3
  BY SnowConstants
<1> HIDE DEF G
<1>4. DocsOf(Snow!Seeds) \subseteq SnowPapers
  BY <1>2, DocsOfSeq
<1> QED BY <1>2, <1>3, <1>4

(* Rows are finitely many, each of a seed and of a candidate.               *)
LEMMA RowsAre ==
  ASSUME SnowGiven, NEW links \in SnowLinks, NEW S \in SUBSET SnowPapers
  PROVE  /\ \A r \in Snow!Rows(links, S) :
              /\ r = <<r[1], r[2], r[3]>>
              /\ r[1] \in DocsOf(Snow!Seeds) /\ r[2] \in S \ DocsOf(Snow!Seeds) /\ r[3] \in BOOLEAN
              /\ <<r[2], r[3]>> \in links[r[1]]
         /\ IsFiniteSet(Snow!Rows(links, S))
<1> DEFINE R == Snow!Rows(links, S)
           U == UNION {links[d] : d \in SnowPapers}
<1>1. DocsOf(Snow!Seeds) \subseteq SnowPapers
  BY SnowSeeds
<1>2. U \subseteq SnowPapers \X BOOLEAN
  BY DEF SnowLinks
<1>3. R = {r \in {<<s, c[1], c[2]>> : s \in DocsOf(Snow!Seeds), c \in U} :
             <<r[2], r[3]>> \in links[r[1]] /\ r[2] \in S \ DocsOf(Snow!Seeds)}
  BY SnowSame DEF Snow!Rows
<1> HIDE DEF R, U
<1>4. \A r \in R : \E s \in DocsOf(Snow!Seeds), c \in U :
        r = <<s, c[1], c[2]>> /\ <<r[2], r[3]>> \in links[r[1]] /\ r[2] \in S \ DocsOf(Snow!Seeds)
  <2> TAKE r \in R
  <2>1. /\ r \in {<<s, c[1], c[2]>> : s \in DocsOf(Snow!Seeds), c \in U}
        /\ <<r[2], r[3]>> \in links[r[1]] /\ r[2] \in S \ DocsOf(Snow!Seeds)
    BY <1>3
  <2>2. PICK s \in DocsOf(Snow!Seeds), c \in U : r = <<s, c[1], c[2]>>
    BY <2>1
  <2> QED BY <2>1, <2>2
<1>5. \A r \in R : /\ r = <<r[1], r[2], r[3]>>
                   /\ r[1] \in DocsOf(Snow!Seeds) /\ r[2] \in S \ DocsOf(Snow!Seeds)
                   /\ r[3] \in BOOLEAN /\ <<r[2], r[3]>> \in links[r[1]]
  <2> TAKE r \in R
  <2>1. PICK s \in DocsOf(Snow!Seeds), c \in U :
          r = <<s, c[1], c[2]>> /\ <<r[2], r[3]>> \in links[r[1]] /\ r[2] \in S \ DocsOf(Snow!Seeds)
    BY <1>4
  <2>2. c[2] \in BOOLEAN
    BY <1>2
  <2> QED BY <2>1, <2>2
<1>6. IsFiniteSet(R)
  <2> DEFINE P == SnowPapers \X (SnowPapers \X BOOLEAN)
             f == [r \in R |-> <<r[1], <<r[2], r[3]>>>>]
  <2>1. IsFiniteSet(P)
    <3>1. IsFiniteSet(BOOLEAN)
      <4>1. BOOLEAN = {TRUE} \cup {FALSE}
        OBVIOUS
      <4>2. IsFiniteSet({TRUE}) /\ IsFiniteSet({FALSE})
        BY FS_Singleton
      <4>3. IsFiniteSet({TRUE} \cup {FALSE})
        BY <4>2, FS_Union
      <4> QED BY <4>1, <4>3
    <3>2. IsFiniteSet(SnowPapers \X BOOLEAN)
      BY <3>1, SnowConstants, FS_Product
    <3> QED BY <3>2, SnowConstants, FS_Product
  <2>2. f \in Injection(R, P)
    <3>1. f \in [R -> P]
      BY <1>1, <1>5
    <3>2. \A q, r \in R : f[q] = f[r] => q = r
      <4> SUFFICES ASSUME NEW q \in R, NEW r \in R, f[q] = f[r] PROVE q = r
        OBVIOUS
      <4>1. q[1] = r[1] /\ q[2] = r[2] /\ q[3] = r[3]
        OBVIOUS
      <4> QED BY <1>5, <4>1
    <3> QED BY <3>1, <3>2 DEF Injection, IsInjective
  <2> HIDE DEF f, P
  <2> QED BY <2>1, <2>2, FS_Injection
<1> QED BY <1>5, <1>6 DEF R

(* A candidate has a length.                                                *)
LEMMA MedianIs ==
  ASSUME NEW R, IsFiniteSet(R), NEW count, \A r \in R : count[r[2]] \in Nat \cup {Unknown}
  PROVE  Snow!Median(R, count) \in Int
<1> DEFINE K == {r \in R : count[r[2]] # Unknown}
           n == Cardinality(K)
           Is(v, k) == /\ Cardinality({r \in K : count[r[2]] < v}) < k
                       /\ Cardinality({r \in K : count[r[2]] <= v}) >= k
           At(k) == CHOOSE v \in {count[r[2]] : r \in K} : Is(v, k)
           column == [r \in K |-> count[r[2]]]
<1>1. IsFiniteSet(K) /\ n \in Nat /\ K \subseteq R
  BY FS_Subset, FS_CardinalityType
<1>2. column \in [K -> Int] /\ \A r \in K : count[r[2]] \in Int /\ column[r] = count[r[2]]
  OBVIOUS
<1>3. \A k \in 1..n : At(k) \in Int
  <2> SUFFICES ASSUME NEW k \in 1..n PROVE At(k) \in Int
    OBVIOUS
  <2>1. k - 1 \in Nat /\ k - 1 < n /\ k \in Nat
    BY <1>1
  <2> HIDE DEF column, K
  <2>2. PICK v \in ValuesOf(K, column) : /\ Cardinality(RowsUnder(K, column, v)) <= k - 1
                                         /\ Cardinality(RowsUpto(K, column, v)) > k - 1
    BY <1>1, <1>2, <2>1, NthExists
  <2>3. /\ RowsUnder(K, column, v) = {r \in K : count[r[2]] < v}
        /\ RowsUpto(K, column, v) = {r \in K : count[r[2]] <= v}
        /\ ValuesOf(K, column) = {count[r[2]] : r \in K}
    BY <1>2 DEF RowsUnder, RowsUpto, ValuesOf
  <2>4. \A T \in SUBSET K : Cardinality(T) \in Nat
    BY <1>1, FS_Subset, FS_CardinalityType
  <2>5. /\ Cardinality(RowsUnder(K, column, v)) \in Nat
        /\ Cardinality(RowsUpto(K, column, v)) \in Nat
    <3>1. RowsUnder(K, column, v) \subseteq K /\ RowsUpto(K, column, v) \subseteq K
      BY DEF RowsUnder, RowsUpto
    <3> QED BY <2>4, <3>1
  <2>6. Is(v, k) /\ v \in {count[r[2]] : r \in K}
    <3>1. /\ Cardinality(RowsUnder(K, column, v)) < k
          /\ Cardinality(RowsUpto(K, column, v)) >= k
      BY <2>1, <2>2, <2>5
    <3> QED BY <2>2, <2>3, <3>1
  <2> HIDE DEF Is
  <2>7. At(k) \in {count[r[2]] : r \in K}
    BY <2>6
  <2> HIDE DEF At
  <2> QED BY <1>2, <2>7
<1>4. Snow!Median(R, count) =
        CASE n = 0              -> 1
          [] n % 2 = 1          -> At((n + 1) \div 2)
          [] n > 0 /\ n % 2 = 0 -> (At(n \div 2) + At(n \div 2 + 1)) \div 2
  BY SnowSame DEF Snow!Median
<1> HIDE DEF At, n, K
<1>5. CASE n = 0
  BY <1>4, <1>5
<1>6. CASE n % 2 = 1
  <2>1. (n + 1) \div 2 \in 1..n
    BY <1>1, <1>6
  <2>2. n # 0 /\ ~ (n > 0 /\ n % 2 = 0)
    BY <1>1, <1>6
  <2> QED BY <1>3, <1>4, <1>6, <2>1, <2>2
<1>7. CASE n > 0 /\ n % 2 = 0
  <2>1. n \div 2 \in 1..n /\ n \div 2 + 1 \in 1..n
    BY <1>1, <1>7
  <2>2. n # 0 /\ n % 2 # 1
    BY <1>1, <1>7
  <2>3. At(n \div 2) \in Int /\ At(n \div 2 + 1) \in Int
    BY <1>3, <2>1
  <2>4. Snow!Median(R, count) = (At(n \div 2) + At(n \div 2 + 1)) \div 2
    BY <1>4, <1>7, <2>2
  <2> QED BY <2>3, <2>4
<1> QED BY <1>1, <1>5, <1>6, <1>7

LEMMA CountIs ==
  ASSUME NEW R, IsFiniteSet(R), NEW count, \A r \in R : count[r[2]] \in Nat \cup {Unknown},
         NEW c, count[c] \in Nat \cup {Unknown}
  PROVE  Snow!CountOf(R, count, c) \in Int
  BY MedianIs DEF Snow!CountOf

(* The parts of a score are numbers.                                        *)
Reach(own, grade) == Cardinality({r \in own : SnowRelevance[r[1]] >= grade})
Influential(own)  == Cardinality({r \in own : r[3]})

LEMMA SupportIs ==
  ASSUME NEW own, IsFiniteSet(own), NEW relevance \in Nat, NEW influence \in Nat
  PROVE  /\ \A g : Reach(own, g) \in Nat
         /\ Influential(own) \in Nat
         /\ Snow!Support(own, relevance, influence) =
              relevance * (Reach(own, 1) + Reach(own, 2) + Reach(own, 3)) + influence * Influential(own)
<1>1. \A T \in SUBSET own : Cardinality(T) \in Nat
  BY FS_Subset, FS_CardinalityType
<1>2. \A g : Reach(own, g) \in Nat
  <2> TAKE g
  <2>1. {r \in own : SnowRelevance[r[1]] >= g} \in SUBSET own
    OBVIOUS
  <2> QED BY <1>1, <2>1 DEF Reach
<1>3. Influential(own) \in Nat
  <2>1. {r \in own : r[3]} \in SUBSET own
    OBVIOUS
  <2> QED BY <1>1, <2>1 DEF Influential
<1> QED BY <1>2, <1>3, SnowSame DEF Snow!Support, Reach, Influential

Longer(size, n) == IF size > n THEN size ELSE n

LEMMA CandidateScore ==
  ASSUME NEW R, IsFiniteSet(R), NEW count, \A r \in R : count[r[2]] \in Nat \cup {Unknown},
         NEW c, count[c] \in Nat \cup {Unknown}, NEW relevance \in Nat, NEW influence \in Nat,
         NEW own, own = Snow!Citations(R, c), NEW n, n = Cardinality(own),
         NEW size, size = Snow!CountOf(R, count, c)
  PROVE  /\ IsFiniteSet(own) /\ n \in Nat /\ size \in Int
         /\ Snow!Score(R, count, c, relevance, influence, 5) =
              (relevance * (Reach(own, 1) + Reach(own, 2) + Reach(own, 3))
               + influence * Influential(own)) - 5 * n * Longer(size, n)
         /\ Snow!Score(R, count, c, relevance, influence, 5) \in Int
<1>1. own \subseteq R
  BY DEF Snow!Citations
<1>2. IsFiniteSet(own) /\ n \in Nat
  BY <1>1, FS_Subset, FS_CardinalityType
<1>3. size \in Int
  BY CountIs
<1>4. Snow!Score(R, count, c, relevance, influence, 5) =
        Snow!Support(own, relevance, influence) - 5 * n * Longer(size, n)
  BY SnowSame DEF Snow!Score, Longer
<1>5. Longer(size, n) \in Int
  BY <1>2, <1>3 DEF Longer
<1> DEFINE a == Reach(own, 1)  b == Reach(own, 2)  d == Reach(own, 3)  e == Influential(own)
<1>6. /\ a \in Nat /\ b \in Nat /\ d \in Nat /\ e \in Nat
      /\ Snow!Support(own, relevance, influence) = relevance * (a + b + d) + influence * e
  BY <1>2, SupportIs
<1> HIDE DEF a, b, d, e
<1>7. (relevance * (a + b + d) + influence * e) - 5 * n * Longer(size, n) \in Int
  <2>1. relevance * (a + b + d) \in Int /\ influence * e \in Int /\ 5 * n * Longer(size, n) \in Int
    BY <1>2, <1>5, <1>6
  <2> QED BY <2>1
<1>8. Snow!Score(R, count, c, relevance, influence, 5) =
        (relevance * (a + b + d) + influence * e) - 5 * n * Longer(size, n)
  BY <1>4, <1>6
<1>9. Snow!Score(R, count, c, relevance, influence, 5) \in Int
  BY <1>7, <1>8
<1> QED BY <1>2, <1>3, <1>8, <1>9 DEF a, b, d, e

(* What a citation more gains is more than what the greater number costs.   *)
LEMMA PenaltyGrows ==
  ASSUME NEW m \in Nat, NEW n \in Nat, m < n, n <= 200,
         NEW x \in Int, NEW y \in Int, y <= x, x < 400
  PROVE  n * Longer(y, n) - m * Longer(x, m) < 400 * (n - m)
<1>1. CASE y > n
  <2>1. Longer(y, n) = y /\ Longer(x, m) = x
    BY <1>1 DEF Longer
  <2>2. m * y <= m * x
    BY <1>1
  <2>3. (n - m) * y < (n - m) * 400
    BY <1>1
  <2>4. n * y - m * y = (n - m) * y /\ n * y \in Int /\ m * y \in Int /\ m * x \in Int
    OBVIOUS
  <2> QED BY <2>1, <2>2, <2>3, <2>4
<1>2. CASE ~ (y > n)
  <2>1. Longer(y, n) = n /\ Longer(x, m) >= m /\ Longer(x, m) \in Int
    BY <1>2 DEF Longer
  <2>2. m * Longer(x, m) >= m * m
    BY <2>1
  <2>3. n * n - m * m = (n - m) * (n + m) /\ n * n \in Int /\ m * m \in Int
    OBVIOUS
  <2>4. (n - m) * (n + m) < (n - m) * 400
    OBVIOUS
  <2>5. m * Longer(x, m) \in Int
    BY <2>1
  <2> QED BY <2>1, <2>2, <2>3, <2>4, <2>5
<1> QED BY <1>1, <1>2

(* Support helps: the citations of one candidate map into those of another  *)
(* by their seeds, so that each grade is reached as often, and there is a   *)
(* citation more.                                                           *)
LEMMA MoreSupport ==
  ASSUME NEW A, NEW B, IsFiniteSet(A), IsFiniteSet(B), NEW f \in Injection(A, B),
         \A r \in A : f[r][1] = r[1],
         NEW q \in B, \A r \in A : f[r] # q,
         \A r \in A \cup B : SnowRelevance[r[1]] \in 2..3
  PROVE  /\ Cardinality(A) < Cardinality(B)
         /\ Reach(A, 1) = Cardinality(A) /\ Reach(A, 2) = Cardinality(A)
         /\ Reach(B, 1) = Cardinality(B) /\ Reach(B, 2) = Cardinality(B)
         /\ Reach(A, 3) <= Reach(B, 3)
<1>1. Cardinality(A) \in Nat /\ Cardinality(B) \in Nat
  BY FS_CardinalityType
<1>2. Cardinality(A) <= Cardinality(B) /\ Cardinality(A) # Cardinality(B)
  <2>1. f \notin Surjection(A, B)
    BY DEF Surjection
  <2> QED BY <2>1, FS_Injection
<1>3. \A r \in A \cup B : SnowRelevance[r[1]] >= 1 /\ SnowRelevance[r[1]] >= 2
  OBVIOUS
<1>4. /\ {r \in A : SnowRelevance[r[1]] >= 1} = A /\ {r \in A : SnowRelevance[r[1]] >= 2} = A
      /\ {r \in B : SnowRelevance[r[1]] >= 1} = B /\ {r \in B : SnowRelevance[r[1]] >= 2} = B
  BY <1>3
<1>5. Reach(A, 3) <= Reach(B, 3)
  <2> DEFINE S == {r \in A : SnowRelevance[r[1]] >= 3}
             T == {r \in B : SnowRelevance[r[1]] >= 3}
             g == [r \in S |-> f[r]]
  <2>1. f \in [A -> B] /\ \A r, s \in A : f[r] = f[s] => r = s
    BY DEF Injection, IsInjective
  <2>2. \A r \in S : r \in A /\ f[r] \in T
    BY <2>1
  <2>3. IsFiniteSet(T)
    <3>1. T \subseteq B
      OBVIOUS
    <3> HIDE DEF T
    <3> QED BY <3>1, FS_Subset
  <2> HIDE DEF S, T
  <2>4. g \in Injection(S, T)
    BY <2>1, <2>2 DEF Injection, IsInjective
  <2> HIDE DEF g
  <2>5. Cardinality(S) <= Cardinality(T)
    BY <2>3, <2>4, FS_Injection
  <2> QED BY <2>5 DEF S, T, Reach
<1>6. /\ Reach(A, 1) = Cardinality(A) /\ Reach(A, 2) = Cardinality(A)
      /\ Reach(B, 1) = Cardinality(B) /\ Reach(B, 2) = Cardinality(B)
  BY <1>4 DEF Reach
<1> QED BY <1>1, <1>2, <1>5, <1>6

ForwardRows == Snow!GetForwardDf
ForwardScore(c) == Snow!Score(ForwardRows, inputs.graph.referenceCount, c, 1000, 100, 5)

LEMMA ForwardRowsAre ==
  ASSUME SnowGiven
  PROVE  /\ IsFiniteSet(ForwardRows)
         /\ \A r \in ForwardRows :
              /\ r = <<r[1], r[2], r[3]>>
              /\ r[1] \in DocsOf(Snow!Seeds) /\ r[2] \in SnowBefore \ DocsOf(Snow!Seeds)
              /\ r[2] \in SnowPapers /\ r[3] \in BOOLEAN
              /\ <<r[2], r[3]>> \in inputs.graph.citations[r[1]]
              /\ SnowRelevance[r[1]] \in 2..3
              /\ inputs.graph.referenceCount[r[2]] \in Nat \cup {Unknown}
<1>1. inputs.graph.citations \in SnowLinks /\ inputs.graph.referenceCount \in SnowCounts
  BY DEF SnowGiven
<1>2. SnowBefore \in SUBSET SnowPapers
  BY SnowConstants
<1>3. ForwardRows = Snow!Rows(inputs.graph.citations, SnowBefore)
  BY DEF ForwardRows, Snow!GetForwardDf
<1>4. \A c \in SnowPapers : inputs.graph.referenceCount[c] \in Nat \cup {Unknown}
  BY <1>1 DEF SnowCounts
<1> QED BY <1>1, <1>2, <1>3, <1>4, RowsAre, SnowSeeds

LEMMA BetterSupported ==
  ASSUME SnowGiven, NEW c \in Snow!Candidates(ForwardRows), NEW d \in Snow!Candidates(ForwardRows),
         Snow!Supporters(c) \subseteq Snow!Supporters(d), Snow!Supporters(c) # Snow!Supporters(d),
         Snow!Length(d) <= Snow!Length(c), Snow!Length(c) < 400,
         Cardinality(Snow!Citations(ForwardRows, d)) <= 200,
         \A r \in ForwardRows : r[2] = c => ~r[3]
  PROVE  ForwardScore(d) > ForwardScore(c)
<1> DEFINE A == Snow!Citations(ForwardRows, c)  B == Snow!Citations(ForwardRows, d)
           m == Cardinality(A)  n == Cardinality(B)
           x == Snow!Length(c)  y == Snow!Length(d)
<1>1. /\ A = {r \in ForwardRows : r[2] = c} /\ B = {r \in ForwardRows : r[2] = d}
  BY DEF Snow!Citations
<1>2. /\ inputs.graph.referenceCount[c] \in Nat \cup {Unknown}
      /\ inputs.graph.referenceCount[d] \in Nat \cup {Unknown}
  BY ForwardRowsAre DEF Snow!Candidates
<1>3. /\ x = Snow!CountOf(ForwardRows, inputs.graph.referenceCount, c)
      /\ y = Snow!CountOf(ForwardRows, inputs.graph.referenceCount, d)
  BY DEF Snow!Length, ForwardRows
<1>4. /\ IsFiniteSet(A) /\ m \in Nat /\ x \in Int
      /\ ForwardScore(c) = (1000 * (Reach(A, 1) + Reach(A, 2) + Reach(A, 3))
                            + 100 * Influential(A)) - 5 * m * Longer(x, m)
  <2> DEFINE count == inputs.graph.referenceCount
  <2>1. A = Snow!Citations(ForwardRows, c) /\ m = Cardinality(A)
        /\ x = Snow!CountOf(ForwardRows, count, c) /\ count[c] \in Nat \cup {Unknown}
    BY <1>2, <1>3
  <2>2. IsFiniteSet(ForwardRows) /\ \A r \in ForwardRows : count[r[2]] \in Nat \cup {Unknown}
    BY ForwardRowsAre
  <2>3. ForwardScore(c) = Snow!Score(ForwardRows, count, c, 1000, 100, 5)
    BY DEF ForwardScore
  <2> HIDE DEF A, m, x, count
  <2> QED BY <2>1, <2>2, <2>3, CandidateScore
<1>5. /\ IsFiniteSet(B) /\ n \in Nat /\ y \in Int
      /\ ForwardScore(d) = (1000 * (Reach(B, 1) + Reach(B, 2) + Reach(B, 3))
                            + 100 * Influential(B)) - 5 * n * Longer(y, n)
  <2> DEFINE count == inputs.graph.referenceCount
  <2>1. B = Snow!Citations(ForwardRows, d) /\ n = Cardinality(B)
        /\ y = Snow!CountOf(ForwardRows, count, d) /\ count[d] \in Nat \cup {Unknown}
    BY <1>2, <1>3
  <2>2. IsFiniteSet(ForwardRows) /\ \A r \in ForwardRows : count[r[2]] \in Nat \cup {Unknown}
    BY ForwardRowsAre
  <2>3. ForwardScore(d) = Snow!Score(ForwardRows, count, d, 1000, 100, 5)
    BY DEF ForwardScore
  <2> HIDE DEF B, n, y, count
  <2> QED BY <2>1, <2>2, <2>3, CandidateScore
<1> DEFINE f == [r \in A |-> CHOOSE q \in B : q[1] = r[1]]
<1>6. /\ Snow!Supporters(c) = {r[1] : r \in A} /\ Snow!Supporters(d) = {r[1] : r \in B}
  <2>1. Snow!Supporters(c) = {s \in DocsOf(Snow!Seeds) : \E r \in ForwardRows : r[1] = s /\ r[2] = c}
    BY SnowSame DEF Snow!Supporters, ForwardRows
  <2>2. Snow!Supporters(d) = {s \in DocsOf(Snow!Seeds) : \E r \in ForwardRows : r[1] = s /\ r[2] = d}
    BY SnowSame DEF Snow!Supporters, ForwardRows
  <2>3. \A r \in ForwardRows : r[1] \in DocsOf(Snow!Seeds)
    BY ForwardRowsAre
  <2> HIDE DEF A, B
  <2> QED BY <1>1, <2>1, <2>2, <2>3
<1> HIDE DEF A, B
<1>7. \A r \in A : \E q \in B : q[1] = r[1]
  BY <1>6
<1>8. \A r \in A : f[r] \in B /\ f[r][1] = r[1]
  BY <1>7
<1>9. \A r, s \in A : r[1] = s[1] => r = s
  <2> TAKE r, s \in A
  <2>1. r = <<r[1], r[2], r[3]>> /\ s = <<s[1], s[2], s[3]>> /\ r[3] \in BOOLEAN /\ s[3] \in BOOLEAN
    BY <1>1, ForwardRowsAre
  <2>2. r[2] = c /\ s[2] = c /\ ~r[3] /\ ~s[3]
    BY <1>1
  <2>3. r[3] = FALSE /\ s[3] = FALSE
    BY <2>1, <2>2
  <2> QED BY <2>1, <2>2, <2>3
<1>10. f \in Injection(A, B)
  <2>1. \A r, s \in A : f[r] = f[s] => r = s
    BY <1>8, <1>9
  <2> QED BY <1>8, <2>1 DEF Injection, IsInjective
<1>11. PICK q \in B : \A r \in A : r[1] # q[1]
  BY <1>6
<1>12. \A r \in A : f[r] # q
  BY <1>8, <1>11
<1>13. \A r \in A \cup B : SnowRelevance[r[1]] \in 2..3
  BY <1>1, ForwardRowsAre
<1>14. /\ m < n /\ Reach(A, 1) = m /\ Reach(A, 2) = m /\ Reach(B, 1) = n /\ Reach(B, 2) = n
       /\ Reach(A, 3) <= Reach(B, 3)
  <2> HIDE DEF f
  <2> QED BY <1>4, <1>5, <1>8, <1>10, <1>12, <1>13, MoreSupport
<1>15. Influential(A) = 0
  <2>1. {r \in A : r[3]} = {}
    BY <1>1
  <2> QED BY <2>1, FS_EmptySet DEF Influential
<1>16. n <= 200
  BY DEF B
<1>17. y <= x /\ x < 400
  OBVIOUS
<1> HIDE DEF m, n, x, y
<1>18. n * Longer(y, n) - m * Longer(x, m) < 400 * (n - m)
  <2>1. m \in Nat /\ n \in Nat /\ x \in Int /\ y \in Int
    BY <1>4, <1>5
  <2> QED BY <1>14, <1>16, <1>17, <2>1, PenaltyGrows
<1> DEFINE P == m * Longer(x, m)  Q == n * Longer(y, n)
           a == Reach(A, 3)  b == Reach(B, 3)  e == Influential(B)
<1>19. a \in Nat /\ b \in Nat /\ e \in Nat
  BY <1>4, <1>5, SupportIs
<1>20. P \in Int /\ Q \in Int /\ 5 * m * Longer(x, m) = 5 * P /\ 5 * n * Longer(y, n) = 5 * Q
  <2>1. Longer(x, m) \in Int /\ Longer(y, n) \in Int
    BY <1>4, <1>5 DEF Longer
  <2> QED BY <1>4, <1>5, <2>1
<1>21. ForwardScore(c) = 1000 * (m + m + a) - 5 * P
  BY <1>4, <1>14, <1>15, <1>19, <1>20
<1>22. ForwardScore(d) = (1000 * (n + n + b) + 100 * e) - 5 * Q
  BY <1>5, <1>14, <1>19, <1>20
<1>23. Q - P < 400 * (n - m) /\ a <= b
  BY <1>14, <1>18
<1> HIDE DEF P, Q, a, b, e
<1> QED BY <1>4, <1>5, <1>14, <1>19, <1>20, <1>21, <1>22, <1>23

(* The candidates that are promoted are those of the best scores.           *)
LEMMA PromotedAre ==
  ASSUME SnowGiven, NEW links \in SnowLinks, NEW S \in SUBSET SnowPapers,
         NEW R, R = Snow!Rows(links, S), NEW score, \A c \in Snow!Candidates(R) : score[c] \in Int,
         NEW k \in Nat
  PROVE  /\ Snow!Promote(R, score, k) \in Seq(SnowPapers)
         /\ DocsOf(Snow!Promote(R, score, k)) \subseteq Snow!Candidates(R)
         /\ \A c \in DocsOf(Snow!Promote(R, score, k)) : \A d \in Snow!Candidates(R) :
              score[d] > score[c] => d \in DocsOf(Snow!Promote(R, score, k))
<1> DEFINE C == Snow!Candidates(R)
           s == Ascending(C)
           sorted == SortedDesc(s, score)
           P == Snow!Promote(R, score, k)
<1>1. IsFiniteSet(R) /\ \A r \in R : r[2] \in SnowPapers
  BY RowsAre
<1>2. C = {r[2] : r \in R}
  BY DEF Snow!Candidates
<1>3. C \subseteq SnowPapers /\ C \in SUBSET Int
  BY <1>1, <1>2, SnowConstants
<1>4. IsFiniteSet(C)
  BY <1>3, SnowConstants, FS_Subset
<1>5. P = Slice(sorted, k)
  BY SnowSame DEF Snow!Promote
<1>6. \A c \in C : score[c] \in Int
  OBVIOUS
<1> HIDE DEF P, C
<1>7. s \in Seq(C) /\ DOMAIN s = 1..Cardinality(C) /\ DocsOf(s) = C /\ Cardinality(C) \in Nat
      /\ Len(s) = Cardinality(C)
      /\ \A i, j \in 1..Cardinality(C) : s[i] = s[j] => i = j
  BY <1>3, <1>4, AscendingIs
<1> HIDE DEF s
<1>8. sorted \in Seq(C) /\ DocsOf(sorted) = C /\ Len(sorted) = Len(s)
  BY <1>6, <1>7, SortedIs
<1>9. /\ P \in Seq(C) /\ Len(P) <= Len(sorted) /\ \A i \in 1..Len(P) : P[i] = sorted[i]
  <2> HIDE DEF sorted
  <2>1. Len(sorted) \in Nat
    BY <1>8
  <2> QED BY <1>5, <1>8, <2>1, SliceIs
<1>10. P \in Seq(SnowPapers)
  <2>1. \A t \in Seq(C) : t \in Seq(SnowPapers)
    <3> HIDE DEF sorted
    <3> TAKE t \in Seq(C)
    <3>1. t \in [1..Len(t) -> C] /\ Len(t) \in Nat
      OBVIOUS
    <3>2. t \in [1..Len(t) -> SnowPapers]
      BY <1>3, <3>1
    <3> QED BY <3>1, <3>2
  <2> QED BY <1>9, <2>1
<1>11. DocsOf(P) \subseteq C
  BY <1>9, DocsOfSeq
<1>12. ASSUME NEW c \in DocsOf(P), NEW d \in C, score[d] > score[c]
       PROVE  d \in DocsOf(P)
  <2>0. c \in C /\ \A x \in C : \E i \in DOMAIN s : s[i] = x
    <3>1. c \in C
      BY <1>11, <1>12
    <3>2. \A x \in DocsOf(s) : \E i \in DOMAIN s : s[i] = x
      BY DEF DocsOf
    <3> QED BY <1>7, <3>1, <3>2
  <2>1. PICK i \in DOMAIN s, j \in DOMAIN s : s[i] = d /\ s[j] = c
    BY <1>12, <2>0
  <2>2. SortsBefore(s, score, i, j)
    BY <1>12, <2>1 DEF SortsBefore
  <2>3. s[j] \in DocsOf(Slice(SortedDesc(s, score), k))
    BY <1>5, <1>12, <2>1
  <2>4. s[i] \in DocsOf(Slice(SortedDesc(s, score), k))
    BY <1>6, <1>7, <2>2, <2>3, SliceOfBefore
  <2> QED BY <1>5, <2>1, <2>4
<1> QED BY <1>10, <1>11, <1>12 DEF P, C

LEMMA ForwardIs ==
  ASSUME SnowGiven
  PROVE  /\ Snow!DoForwardSnowball \in Seq(SnowPapers)
         /\ DocsOf(Snow!Seeds) \subseteq DocsOf(Snow!DoForwardSnowball)
         /\ \A d \in DocsOf(Snow!DoForwardSnowball) :
              \/ d \in DocsOf(Snow!Seeds)
              \/ \E r \in ForwardRows : r[2] = d
         /\ \A c \in DocsOf(Snow!DoForwardSnowball) \cap Snow!Candidates(ForwardRows) :
              \A d \in Snow!Candidates(ForwardRows) :
                ForwardScore(d) > ForwardScore(c) => d \in DocsOf(Snow!DoForwardSnowball)
<1> DEFINE C == Snow!Candidates(ForwardRows)
           score == Snow!ScoreForward
           P == Snow!Promote(ForwardRows, score, SnowForwardTopK)
           links == inputs.graph.citations
<1>1. C = {r[2] : r \in ForwardRows}
  BY DEF Snow!Candidates
<1>2. score = [c \in C |-> ForwardScore(c)]
  BY DEF Snow!ScoreForward, ForwardScore, ForwardRows
<1>3. \A c \in C : ForwardScore(c) \in Int
  <2> TAKE c \in C
  <2> DEFINE count == inputs.graph.referenceCount
  <2>1. count[c] \in Nat \cup {Unknown} /\ IsFiniteSet(ForwardRows)
        /\ \A r \in ForwardRows : count[r[2]] \in Nat \cup {Unknown}
    BY <1>1, ForwardRowsAre
  <2>2. ForwardScore(c) = Snow!Score(ForwardRows, count, c, 1000, 100, 5)
    BY DEF ForwardScore
  <2> HIDE DEF count
  <2> QED BY <2>1, <2>2, CandidateScore
<1>4. ForwardRows = Snow!Rows(links, SnowBefore) /\ links \in SnowLinks /\ SnowBefore \in SUBSET SnowPapers
      /\ SnowForwardTopK \in Nat
  BY SnowConstants DEF ForwardRows, Snow!GetForwardDf, SnowGiven
<1>5. Snow!DoForwardSnowball = Merged(Snow!Seeds, P)
  BY SnowSame DEF Snow!DoForwardSnowball, ForwardRows
<1> HIDE DEF score, C, links
<1>6. \A c \in C : score[c] = ForwardScore(c) /\ score[c] \in Int
  BY <1>2, <1>3
<1>7. /\ P \in Seq(SnowPapers) /\ DocsOf(P) \subseteq C
      /\ \A c \in DocsOf(P) : \A d \in C : score[d] > score[c] => d \in DocsOf(P)
  BY <1>4, <1>6, PromotedAre DEF C
<1> HIDE DEF P
<1>8. /\ Snow!DoForwardSnowball \in Seq(SnowPapers)
      /\ DocsOf(Snow!DoForwardSnowball) = DocsOf(Snow!Seeds) \cup DocsOf(P)
  BY <1>5, <1>7, SnowSeeds, MergedIs
<1>9. \A c \in C : c \notin DocsOf(Snow!Seeds)
  BY <1>1, ForwardRowsAre
<1>10. \A d \in C : \E r \in ForwardRows : r[2] = d
  BY <1>1
<1>11. ASSUME NEW c \in DocsOf(Snow!DoForwardSnowball) \cap C, NEW d \in C, ForwardScore(d) > ForwardScore(c)
       PROVE  d \in DocsOf(Snow!DoForwardSnowball)
  <2>1. c \in DocsOf(P)
    BY <1>8, <1>9
  <2> QED BY <1>6, <1>7, <1>8, <1>11, <2>1
<1> QED BY <1>7, <1>8, <1>10, <1>11 DEF C

LEMMA BackwardIs ==
  ASSUME SnowGiven
  PROVE  /\ Snow!DoBackwardSnowball \in Seq(SnowPapers)
         /\ \A d \in DocsOf(Snow!DoBackwardSnowball) :
              \/ d \in DocsOf(Snow!Seeds)
              \/ \E s \in DocsOf(Snow!Seeds), f \in BOOLEAN : <<d, f>> \in inputs.graph.references[s]
<1> DEFINE R == Snow!GetBackwardDf
           C == Snow!Candidates(R)
           count == inputs.graph.citationCount
           score == Snow!ScoreBackward
           P == Snow!Promote(R, score, SnowBackwardTopK)
           links == inputs.graph.references
<1>1. R = Snow!Rows(links, SnowPapers) /\ links \in SnowLinks /\ SnowPapers \in SUBSET SnowPapers
      /\ SnowBackwardTopK \in Nat /\ count \in SnowCounts
  BY SnowConstants DEF Snow!GetBackwardDf, SnowGiven
<1>2. score = [c \in C |-> Snow!Score(R, count, c, 10000, 0, 5)]
  BY DEF Snow!ScoreBackward
<1>3. Snow!DoBackwardSnowball = Merged(Snow!Seeds, P)
  BY SnowSame DEF Snow!DoBackwardSnowball
<1>4. C = {r[2] : r \in R}
  BY DEF Snow!Candidates
<1> HIDE DEF R, C, count, score, links
<1>5. IsFiniteSet(R) /\ \A r \in R : /\ r[1] \in DocsOf(Snow!Seeds) /\ r[2] \in SnowPapers
                                     /\ r[3] \in BOOLEAN /\ <<r[2], r[3]>> \in links[r[1]]
  BY <1>1, RowsAre
<1>6. \A c \in SnowPapers : count[c] \in Nat \cup {Unknown}
  BY <1>1 DEF SnowCounts
<1>7. \A c \in C : score[c] \in Int
  <2> TAKE c \in C
  <2>1. count[c] \in Nat \cup {Unknown} /\ \A r \in R : count[r[2]] \in Nat \cup {Unknown}
    BY <1>4, <1>5, <1>6
  <2>2. Snow!Score(R, count, c, 10000, 0, 5) \in Int
    BY <1>5, <2>1, CandidateScore
  <2> QED BY <1>2, <2>2
<1>8. P \in Seq(SnowPapers) /\ DocsOf(P) \subseteq C
  BY <1>1, <1>7, PromotedAre DEF C
<1> HIDE DEF P
<1>9. /\ Snow!DoBackwardSnowball \in Seq(SnowPapers)
      /\ DocsOf(Snow!DoBackwardSnowball) = DocsOf(Snow!Seeds) \cup DocsOf(P)
  BY <1>3, <1>8, SnowSeeds, MergedIs
<1>10. \A d \in C : \E s \in DocsOf(Snow!Seeds), f \in BOOLEAN : <<d, f>> \in links[s]
  BY <1>4, <1>5
<1> QED BY <1>8, <1>9, <1>10 DEF links

SnowGot ==
  [forward : {NotAsked, Pending, Failed, Snow!DoForwardSnowball},
   backward : {NotAsked, Pending, Failed, Snow!DoBackwardSnowball},
   snippets : {NotAsked, Pending} \cup SnowMentioned,
   checkpoint : Seq(SnowPapers), iteration : Nat]

(* A direction that is asked is pending, has failed or has its answer, and   *)
(* nothing is answered before.                                              *)
SnowInv ==
  /\ SnowGiven
  /\ got \in SnowGot
  /\ pc = "gather" =>
       /\ Snow!ForwardAsked => got.forward \in {Pending, Failed, Snow!DoForwardSnowball}
       /\ Snow!BackwardAsked => got.backward \in {Pending, Failed, Snow!DoBackwardSnowball}
       /\ got.snippets \in {Pending} \cup SnowMentioned
  /\ pc # "done" => response = Snow!NoResponse
  /\ Snow!SeedsComeBack /\ Snow!PromotedLinked

LEMMA SnowInit == Snow!Init => SnowInv
<1> SUFFICES ASSUME Snow!Init PROVE SnowInv
  OBVIOUS
<1>1. SnowGiven
  BY SnowConstants DEF Snow!Init, SnowGiven
<1>2. got \in SnowGot
  <2>1. << >> \in Seq(SnowPapers)
    OBVIOUS
  <2> QED BY <2>1, SnowSame DEF Snow!Init, SnowGot
<1>3. response = Snow!NoResponse /\ pc = "start"
  BY DEF Snow!Init
<1>4. Snow!PromotedLinked
  <2>1. Snow!DocsOf(response.docs) = {}
    BY <1>3 DEF Snow!NoResponse, Snow!Empty, Snow!DocsOf
  <2> QED BY <2>1 DEF Snow!PromotedLinked
<1> QED BY <1>1, <1>2, <1>3, <1>4 DEF SnowInv, Snow!SeedsComeBack

(* What depends on what is given alone.                                     *)
LEMMA SnowStays ==
  ASSUME SnowGiven, UNCHANGED inputs
  PROVE  /\ SnowGiven'
         /\ Snow!Seeds' = Snow!Seeds
         /\ Snow!DoForwardSnowball' = Snow!DoForwardSnowball
         /\ Snow!DoBackwardSnowball' = Snow!DoBackwardSnowball
         /\ Snow!ForwardAsked' = Snow!ForwardAsked
         /\ Snow!BackwardAsked' = Snow!BackwardAsked
         /\ Snow!ForwardOnly' = Snow!ForwardOnly
         /\ SnowGot' = SnowGot
<1>1. SnowGiven' /\ Snow!Seeds' = Snow!Seeds /\ Snow!ForwardOnly' = Snow!ForwardOnly
  BY DEF SnowGiven, Snow!Seeds, Snow!ForwardOnly
<1>2. /\ Snow!GetForwardDf' = Snow!GetForwardDf
      /\ Snow!GetBackwardDf' = Snow!GetBackwardDf
  BY <1>1 DEF Snow!GetForwardDf, Snow!GetBackwardDf, Snow!Rows
<1>3. /\ Snow!ScoreForward' = Snow!ScoreForward
      /\ Snow!ScoreBackward' = Snow!ScoreBackward
  BY <1>2 DEF Snow!ScoreForward, Snow!ScoreBackward
<1>4. /\ Snow!DoForwardSnowball' = Snow!DoForwardSnowball
      /\ Snow!DoBackwardSnowball' = Snow!DoBackwardSnowball
  BY <1>1, <1>2, <1>3 DEF Snow!DoForwardSnowball, Snow!DoBackwardSnowball
<1> QED BY <1>1, <1>4 DEF Snow!ForwardAsked, Snow!BackwardAsked, SnowGot

SnowLinked(d) ==
  \/ d \in DocsOf(inputs.docs)
  \/ Snow!Answered(got.snippets) /\ d \in DocsOf(got.snippets)
  \/ \E s \in DocsOf(Snow!Seeds) : \E f \in BOOLEAN :
        \/ <<d, f>> \in inputs.graph.citations[s] /\ d \in SnowBefore
        \/ <<d, f>> \in inputs.graph.references[s] /\ ~Snow!ForwardOnly

LEMMA SnowResponds ==
  ASSUME SnowInv, NEW r, Snow!Respond(r), r.docs \in Seq(SnowPapers),
         SnowForwardTopK > 0 => DocsOf(Snow!Seeds) \subseteq DocsOf(r.docs),
         \A d \in DocsOf(r.docs) : SnowLinked(d)
  PROVE  SnowInv'
<1>1. /\ response' = r /\ pc' = "done" /\ inputs' = inputs
      /\ got' = [got EXCEPT !.checkpoint = r.docs, !.iteration = @ + 1]
  BY DEF Snow!Respond
<1>2. /\ SnowGiven' /\ Snow!Seeds' = Snow!Seeds /\ Snow!ForwardOnly' = Snow!ForwardOnly
      /\ SnowGot' = SnowGot
  BY <1>1, SnowStays DEF SnowInv
<1>3. got' \in SnowGot /\ got'.snippets = got.snippets
  <2>1. got \in SnowGot
    BY DEF SnowInv
  <2>2. got.iteration \in Nat /\ got.iteration + 1 \in Nat
    BY <2>1 DEF SnowGot
  <2> QED BY <1>1, <2>1, <2>2 DEF SnowGot
<1>4. Snow!SeedsComeBack'
  BY <1>1, <1>2, SnowSame DEF Snow!SeedsComeBack
<1>5. Snow!PromotedLinked'
  <2> SUFFICES ASSUME NEW d \in DocsOf(r.docs)
               PROVE  \/ d \in DocsOf(inputs.docs)
                      \/ Snow!Answered(got.snippets) /\ d \in DocsOf(got.snippets)
                      \/ \E s \in DocsOf(Snow!Seeds) : \E f \in BOOLEAN :
                           \/ <<d, f>> \in inputs.graph.citations[s] /\ d \in SnowBefore
                           \/ <<d, f>> \in inputs.graph.references[s] /\ ~Snow!ForwardOnly
    BY <1>1, <1>2, <1>3, SnowSame DEF Snow!PromotedLinked, Snow!Answered
  <2> QED BY DEF SnowLinked
<1> QED BY <1>1, <1>2, <1>3, <1>4, <1>5 DEF SnowInv

\* A step of the gather keeps what is answered.
LEMMA SnowGoesOn ==
  ASSUME SnowInv, pc # "done", inputs' = inputs, response' = response, pc' = "gather", got' \in SnowGot,
         Snow!ForwardAsked => got'.forward \in {Pending, Failed, Snow!DoForwardSnowball},
         Snow!BackwardAsked => got'.backward \in {Pending, Failed, Snow!DoBackwardSnowball},
         got'.snippets \in {Pending} \cup SnowMentioned
  PROVE  SnowInv'
<1>1. /\ SnowGiven' /\ SnowGot' = SnowGot
      /\ Snow!ForwardAsked' = Snow!ForwardAsked /\ Snow!BackwardAsked' = Snow!BackwardAsked
      /\ Snow!DoForwardSnowball' = Snow!DoForwardSnowball
      /\ Snow!DoBackwardSnowball' = Snow!DoBackwardSnowball
  BY SnowStays DEF SnowInv
<1>2. response' = Snow!NoResponse
  BY DEF SnowInv
<1>3. Snow!PromotedLinked'
  <2>1. Snow!DocsOf(response'.docs) = {}
    BY <1>2 DEF Snow!NoResponse, Snow!Empty, Snow!DocsOf
  <2> QED BY <2>1 DEF Snow!PromotedLinked, Snow!DocsOf
<1>4. Snow!SeedsComeBack'
  BY DEF Snow!SeedsComeBack
<1> QED BY <1>1, <1>2, <1>3, <1>4 DEF SnowInv

\* What the papers are merged into, when all that is asked has answered or one
\* direction has failed.
LEMMA PaperSnowballIs ==
  ASSUME SnowInv, pc = "gather", Snow!PapersGathered
  PROVE  /\ Snow!RunPaperSnowball \in Seq(SnowPapers)
         /\ SnowForwardTopK > 0 => DocsOf(Snow!Seeds) \subseteq DocsOf(Snow!RunPaperSnowball)
         /\ \A d \in DocsOf(Snow!RunPaperSnowball) : SnowLinked(d)
<1>1. SnowGiven /\ DocsOf(Snow!Seeds) \subseteq DocsOf(inputs.docs) /\ inputs.docs \in Seq(SnowPapers)
  BY SnowSeeds DEF SnowInv, SnowGiven
<1>2. CASE Snow!Seeds = << >> \/ Failed \in {got.forward, got.backward}
  <2>1. Snow!RunPaperSnowball = inputs.docs
    BY <1>2, SnowSame DEF Snow!RunPaperSnowball
  <2> QED BY <1>1, <2>1 DEF SnowLinked
<1>3. CASE ~ (Snow!Seeds = << >> \/ Failed \in {got.forward, got.backward})
  <2> DEFINE F == IF Snow!ForwardAsked THEN got.forward ELSE << >>
             B == IF Snow!BackwardAsked THEN got.backward ELSE << >>
  <2>1. Snow!RunPaperSnowball = Merged(F, B)
    BY <1>3, SnowSame DEF Snow!RunPaperSnowball
  <2>2. Pending \notin {got.forward, got.backward}
    BY <1>3 DEF Snow!PapersGathered
  <2>3. Snow!ForwardAsked => F = Snow!DoForwardSnowball
    BY <1>3, <2>2 DEF SnowInv
  <2>4. Snow!BackwardAsked => B = Snow!DoBackwardSnowball
    BY <1>3, <2>2 DEF SnowInv
  <2>5. << >> \in Seq(SnowPapers) /\ DocsOf(<< >>) = {}
    BY DEF DocsOf
  <2>6. F \in Seq(SnowPapers) /\ \A d \in DocsOf(F) : SnowLinked(d)
    <3>1. CASE Snow!ForwardAsked
      <4>1. F \in Seq(SnowPapers)
        BY <1>1, <2>3, <3>1, ForwardIs
      <4>2. ASSUME NEW d \in DocsOf(F) PROVE SnowLinked(d)
        <5>1. d \in DocsOf(Snow!Seeds) \/ \E r \in ForwardRows : r[2] = d
          BY <1>1, <2>3, <3>1, <4>2, ForwardIs
        <5>2. CASE d \in DocsOf(Snow!Seeds)
          BY <1>1, <5>2 DEF SnowLinked
        <5>3. CASE \E r \in ForwardRows : r[2] = d
          <6>1. PICK r \in ForwardRows : r[2] = d
            BY <5>3
          <6>2. /\ r[1] \in DocsOf(Snow!Seeds) /\ r[3] \in BOOLEAN /\ d \in SnowBefore
                /\ <<d, r[3]>> \in inputs.graph.citations[r[1]]
            BY <1>1, <6>1, ForwardRowsAre
          <6> QED BY <6>2 DEF SnowLinked
        <5> QED BY <5>1, <5>2, <5>3
      <4> QED BY <4>1, <4>2
    <3>2. CASE ~Snow!ForwardAsked
      BY <2>5, <3>2
    <3> QED BY <3>1, <3>2
  <2>7. B \in Seq(SnowPapers) /\ \A d \in DocsOf(B) : SnowLinked(d)
    <3>1. CASE Snow!BackwardAsked
      <4>1. B \in Seq(SnowPapers)
        BY <1>1, <2>4, <3>1, BackwardIs
      <4>2. ASSUME NEW d \in DocsOf(B) PROVE SnowLinked(d)
        <5>1. \/ d \in DocsOf(Snow!Seeds)
              \/ \E s \in DocsOf(Snow!Seeds), f \in BOOLEAN : <<d, f>> \in inputs.graph.references[s]
          BY <1>1, <2>4, <3>1, <4>2, BackwardIs
        <5>2. ~Snow!ForwardOnly
          BY <3>1 DEF Snow!BackwardAsked
        <5> QED BY <1>1, <5>1, <5>2 DEF SnowLinked
      <4> QED BY <4>1, <4>2
    <3>2. CASE ~Snow!BackwardAsked
      BY <2>5, <3>2
    <3> QED BY <3>1, <3>2
  <2>8. SnowForwardTopK > 0 => DocsOf(Snow!Seeds) \subseteq DocsOf(F)
    <3> SUFFICES ASSUME SnowForwardTopK > 0 PROVE DocsOf(Snow!Seeds) \subseteq DocsOf(F)
      OBVIOUS
    <3>1. Snow!ForwardAsked
      BY <1>3, SnowSame DEF Snow!ForwardAsked
    <3> QED BY <1>1, <2>3, <3>1, ForwardIs
  <2> HIDE DEF F, B
  <2>9. Merged(F, B) \in Seq(SnowPapers) /\ DocsOf(Merged(F, B)) = DocsOf(F) \cup DocsOf(B)
    BY <2>6, <2>7, MergedIs
  <2> QED BY <2>1, <2>6, <2>7, <2>8, <2>9
<1> QED BY <1>2, <1>3

LEMMA SnowStep ==
  ASSUME SnowInv, Snow!Next
  PROVE  SnowInv'
<1>0. /\ SnowGiven /\ got \in SnowGot /\ inputs.docs \in Seq(SnowPapers)
      /\ DocsOf(Snow!Seeds) \subseteq DocsOf(inputs.docs)
  BY SnowSeeds DEF SnowInv, SnowGiven
<1>1. CASE Snow!StartEmpty
  <2> DEFINE r == Snow!Complete(Snow!Empty)
  <2>1. Snow!Respond(r) /\ inputs.docs = << >> /\ r.docs = << >>
    BY <1>1, SnowSame DEF Snow!StartEmpty, Snow!Complete
  <2>2. DocsOf(<< >>) = {} /\ << >> \in Seq(SnowPapers)
    BY DEF DocsOf
  <2> HIDE DEF r
  <2> QED BY <1>0, <2>1, <2>2, SnowResponds
<1>2. CASE Snow!Start
  <2>1. /\ pc = "start" /\ pc' = "gather" /\ UNCHANGED <<inputs, response>>
        /\ got' = [got EXCEPT !.forward  = IF Snow!ForwardAsked THEN Pending ELSE @,
                              !.backward = IF Snow!BackwardAsked THEN Pending ELSE @,
                              !.snippets = Pending]
    BY <1>2 DEF Snow!Start
  <2>2. /\ got' \in SnowGot /\ got'.snippets = Pending
        /\ Snow!ForwardAsked => got'.forward = Pending
        /\ Snow!BackwardAsked => got'.backward = Pending
    BY <1>0, <2>1 DEF SnowGot
  <2> QED BY <2>1, <2>2, SnowGoesOn
<1>3. CASE Snow!ForwardAnswers
  <2>1. PICK s \in {Snow!DoForwardSnowball, Failed} : got' = [got EXCEPT !.forward = s]
    BY <1>3 DEF Snow!ForwardAnswers
  <2>2. pc = "gather" /\ UNCHANGED <<inputs, pc, response>>
    BY <1>3 DEF Snow!ForwardAnswers
  <2>3. /\ got' \in SnowGot /\ got'.snippets = got.snippets /\ got'.backward = got.backward
        /\ got'.forward = s
    BY <1>0, <2>1 DEF SnowGot
  <2> QED BY <2>2, <2>3, SnowGoesOn DEF SnowInv
<1>4. CASE Snow!BackwardAnswers
  <2>1. PICK s \in {Snow!DoBackwardSnowball, Failed} : got' = [got EXCEPT !.backward = s]
    BY <1>4 DEF Snow!BackwardAnswers
  <2>2. pc = "gather" /\ UNCHANGED <<inputs, pc, response>>
    BY <1>4 DEF Snow!BackwardAnswers
  <2>3. /\ got' \in SnowGot /\ got'.snippets = got.snippets /\ got'.forward = got.forward
        /\ got'.backward = s
    BY <1>0, <2>1 DEF SnowGot
  <2> QED BY <2>2, <2>3, SnowGoesOn DEF SnowInv
<1>5. CASE Snow!SnippetsAnswer
  <2>1. PICK s \in SnowMentioned : got' = [got EXCEPT !.snippets = s]
    BY <1>5 DEF Snow!SnippetsAnswer
  <2>2. pc = "gather" /\ UNCHANGED <<inputs, pc, response>>
    BY <1>5 DEF Snow!SnippetsAnswer
  <2>3. /\ got' \in SnowGot /\ got'.snippets = s /\ got'.forward = got.forward
        /\ got'.backward = got.backward
    BY <1>0, <2>1 DEF SnowGot
  <2> QED BY <2>2, <2>3, SnowGoesOn DEF SnowInv
<1>6. CASE Snow!RunSnowball
  <2> DEFINE P == Snow!RunPaperSnowball
             r == Snow!Complete(Snow!Merged(P, got.snippets))
  <2>1. /\ pc = "gather" /\ Snow!PapersGathered /\ got.snippets # Pending /\ Snow!Respond(r)
        /\ r.docs = Merged(P, got.snippets)
    BY <1>6, SnowSame DEF Snow!RunSnowball, Snow!Complete
  <2>2. got.snippets \in SnowMentioned
    BY <2>1 DEF SnowInv
  <2>3. Snow!Answered(got.snippets) /\ got.snippets \in Seq(SnowPapers)
    BY <2>2, SnowConstants DEF Snow!Answered
  <2>4. /\ P \in Seq(SnowPapers) /\ \A d \in DocsOf(P) : SnowLinked(d)
        /\ SnowForwardTopK > 0 => DocsOf(Snow!Seeds) \subseteq DocsOf(P)
    BY <2>1, PaperSnowballIs
  <2> HIDE DEF P, r
  <2>5. r.docs \in Seq(SnowPapers) /\ DocsOf(r.docs) = DocsOf(P) \cup DocsOf(got.snippets)
    BY <2>1, <2>3, <2>4, MergedIs
  <2>6. \A d \in DocsOf(r.docs) : SnowLinked(d)
    BY <2>3, <2>4, <2>5 DEF SnowLinked
  <2> QED BY <2>1, <2>4, <2>5, <2>6, SnowResponds
<1>7. CASE Snow!MergeFails
  <2> DEFINE r == Snow!Partial(inputs.docs)
  <2>1. Snow!Respond(r) /\ r.docs = inputs.docs
    BY <1>7 DEF Snow!MergeFails, Snow!Partial
  <2>2. \A d \in DocsOf(inputs.docs) : SnowLinked(d)
    BY DEF SnowLinked
  <2> HIDE DEF r
  <2> QED BY <1>0, <2>1, <2>2, SnowResponds
<1> QED BY <1>1, <1>2, <1>3, <1>4, <1>5, <1>6, <1>7 DEF Snow!Next

LEMMA SnowStutters ==
  ASSUME SnowInv, UNCHANGED <<inputs, pc, got, response>>
  PROVE  SnowInv'
<1>1. /\ SnowGiven' /\ SnowGot' = SnowGot /\ Snow!Seeds' = Snow!Seeds
      /\ Snow!ForwardAsked' = Snow!ForwardAsked /\ Snow!BackwardAsked' = Snow!BackwardAsked
      /\ Snow!DoForwardSnowball' = Snow!DoForwardSnowball
      /\ Snow!DoBackwardSnowball' = Snow!DoBackwardSnowball
      /\ Snow!ForwardOnly' = Snow!ForwardOnly
  BY SnowStays DEF SnowInv
<1>2. Snow!SeedsComeBack' /\ Snow!PromotedLinked'
  BY <1>1 DEF SnowInv, Snow!SeedsComeBack, Snow!PromotedLinked, Snow!Answered
<1> QED BY <1>1, <1>2 DEF SnowInv

LEMMA SnowSound == SnowInv => Snow!SnowballSound
<1> SUFFICES ASSUME SnowInv PROVE Snow!SupportHelps
  BY DEF SnowInv, Snow!SnowballSound
<1> SUFFICES ASSUME Snow!Answered(got.forward),
                    NEW c \in Snow!Candidates(ForwardRows) \cap DocsOf(got.forward),
                    NEW d \in Snow!Candidates(ForwardRows) \ DocsOf(got.forward),
                    Snow!Supporters(c) \subseteq Snow!Supporters(d), Snow!Supporters(c) # Snow!Supporters(d),
                    Snow!Length(d) <= Snow!Length(c), Snow!Length(c) < 400,
                    Cardinality(Snow!Citations(ForwardRows, d)) <= 200,
                    \A r \in ForwardRows : r[2] = c => ~r[3]
             PROVE  FALSE
  BY SnowSame DEF Snow!SupportHelps, ForwardRows
<1>1. got.forward = Snow!DoForwardSnowball /\ SnowGiven
  BY DEF Snow!Answered, SnowInv, SnowGot
<1>2. ForwardScore(d) > ForwardScore(c)
  BY <1>1, BetterSupported
<1> QED BY <1>1, <1>2, ForwardIs

(***************************************************************************)
(* Following the snippets                                                  *)
(***************************************************************************)

MentionPlaces == [paper : Nat, start : Nat, end : Nat]
MentionSentences == [start : Nat, end : Nat] \cup {Unknown}
MentionSnippets ==
  [text : Seq({"x", ".", " "}), placed : BOOLEAN, ranked : BOOLEAN,
   sentences : Seq(MentionSentences), mentions : Seq(MentionPlaces),
   score : Int \cup {Unknown}]
MentionDocs == [id : Nat, snippets : Seq(MentionSnippets)]

LEMMA ItemsOf ==
  ASSUME NEW X, NEW s \in Seq(X)
  PROVE  /\ \A j \in DOMAIN s : s[j] \in X /\ s # << >>
         /\ Len(s) \in Nat /\ (s # << >> => Len(s) # 0)
         /\ IsFiniteSet(DOMAIN s)
<1>1. DOMAIN s = 1..Len(s) /\ Len(s) \in Nat
  OBVIOUS
<1>2. IsFiniteSet(1..Len(s))
  BY <1>1, FS_Interval
<1>3. \A j \in 1..Len(s) : s[j] \in X
  OBVIOUS
<1>4. s = << >> => Len(s) = 0
  OBVIOUS
<1>5. s # << >> => Len(s) # 0
  OBVIOUS
<1> QED BY <1>1, <1>2, <1>3, <1>4, <1>5

LEMMA MentionsConstants ==
  /\ MentionsCollected \subseteq Seq(MentionDocs)
  /\ MentionsRerankScores \subseteq Int /\ MentionsTopK \in Nat
<1>1. Mentions!SnippetsGiven
  BY SearchAgentsAssumption
<1> QED BY <1>1 DEF Mentions!SnippetsGiven, MentionPlaces, MentionSentences, MentionSnippets,
                   MentionDocs

LEMMA MentionsSame ==
  /\ \A s : Mentions!DocsOf(s) = DocsOf(s)
  /\ \A s, n : Mentions!Slice(s, n) = Slice(s, n)
  /\ \A s, key : Mentions!SortedDesc(s, key) = SortedDesc(s, key)
  /\ \A S : Mentions!Ascending(S) = Ascending(S)
  /\ \A S : Mentions!Cardinality(S) = Cardinality(S)
  /\ Mentions!Empty = << >>
<1>1. \A s : Mentions!DocsOf(s) = DocsOf(s)
  BY DEF Mentions!DocsOf, DocsOf
<1>2. \A s, n : Mentions!Slice(s, n) = Slice(s, n)
  BY DEF Mentions!Slice, Slice
<1>3. \A s, key : Mentions!SortedDesc(s, key) = SortedDesc(s, key)
  BY DEF Mentions!SortedDesc, SortedDesc, Mentions!Cardinality, Cardinality
<1>4. \A S : Mentions!Ascending(S) = Ascending(S)
  BY DEF Mentions!Ascending, Ascending, Mentions!Cardinality, Cardinality
<1>5. \A S : Mentions!Cardinality(S) = Cardinality(S)
  BY DEF Mentions!Cardinality, Cardinality
<1> QED BY <1>1, <1>2, <1>3, <1>4, <1>5 DEF Mentions!Empty

MentionsGiven == inputs.docs \in Seq(MentionDocs)

LEMMA SnippetsAre ==
  ASSUME MentionsGiven
  PROVE  /\ \A d \in DOMAIN inputs.docs :
              /\ inputs.docs[d] \in MentionDocs
              /\ \A i \in DOMAIN inputs.docs[d].snippets :
                    inputs.docs[d].snippets[i] \in MentionSnippets
         /\ Mentions!Snippets \subseteq MentionSnippets
         /\ \A n \in MentionSnippets : Mentions!Mentions(n) \subseteq MentionPlaces
<1>1. \A d \in DOMAIN inputs.docs : inputs.docs[d] \in MentionDocs
  BY DEF MentionsGiven
<1>2. \A d \in DOMAIN inputs.docs : inputs.docs[d].snippets \in Seq(MentionSnippets)
  BY <1>1 DEF MentionDocs
<1>3. \A d \in DOMAIN inputs.docs : \A i \in DOMAIN inputs.docs[d].snippets :
         inputs.docs[d].snippets[i] \in MentionSnippets
  BY <1>2
<1>4. Mentions!Snippets \subseteq MentionSnippets
  BY <1>3 DEF Mentions!Snippets, Mentions!SnippetsOf
<1>5. \A n \in MentionSnippets : n.mentions \in Seq(MentionPlaces)
  BY DEF MentionSnippets
<1>6. \A n \in MentionSnippets : Mentions!Mentions(n) \subseteq MentionPlaces
  BY <1>5 DEF Mentions!Mentions
<1> QED BY <1>1, <1>3, <1>4, <1>6

(* The sentences of a text.                                                 *)
LEMMA TextIsTiled == MentionsGiven => Mentions!SentencesTileText
<1> SUFFICES ASSUME MentionsGiven, NEW n \in Mentions!Snippets, n.text # << >>
             PROVE  LET s == Mentions!SplitTextToSentenceOffsets(n.text)
                    IN  /\ s[1].start = 0 /\ s[Len(s)].end = Len(n.text)
                        /\ \A i \in DOMAIN s : s[i].start < s[i].end
                        /\ \A i \in 1..(Len(s) - 1) : s[i].end = s[i + 1].start
  BY DEF Mentions!SentencesTileText
<1> DEFINE L == Len(n.text)
           S == {0} \cup Mentions!Cuts(n.text) \cup {L}
           a == Ascending(S)
           c == Cardinality(S)
           s == Mentions!SplitTextToSentenceOffsets(n.text)
<1>1. L \in Nat /\ L # 0
  <2>1. n \in MentionSnippets
    BY SnippetsAre
  <2>2. n.text \in Seq({"x", ".", " "})
    BY <2>1 DEF MentionSnippets
  <2> HIDE DEF L
  <2> QED BY <2>2, ItemsOf DEF L
<1>2. S \subseteq 0..L /\ 0 \in S /\ L \in S
  <2>1. \A j \in 1..(L - 2) : j + 1 \in 0..L
    BY <1>1
  <2>2. Mentions!Cuts(n.text) \subseteq {j + 1 : j \in 1..(L - 2)}
    BY DEF Mentions!Cuts
  <2> HIDE DEF L
  <2> QED BY <1>1, <2>1, <2>2
<1>3. IsFiniteSet(S)
  <2> HIDE DEF S, L
  <2>1. IsFiniteSet(0..L)
    BY <1>1, FS_Interval
  <2> QED BY <1>2, <2>1, FS_Subset
<1>4. s = [i \in 1..(Len(a) - 1) |-> [start |-> a[i], end |-> a[i + 1]]]
  BY MentionsSame DEF Mentions!SplitTextToSentenceOffsets, Mentions!Between
<1> HIDE DEF L, S, s
<1>5. S \in SUBSET Int
  BY <1>1, <1>2
<1>6. /\ a \in Seq(S) /\ Len(a) = c /\ c \in Nat /\ DOMAIN a = 1..c /\ DocsOf(a) = S
      /\ \A i, j \in 1..c : i < j => a[i] < a[j]
  BY <1>3, <1>5, AscendingIs
<1> HIDE DEF a, c
<1>7. \A i \in 1..c : a[i] \in Int /\ 0 <= a[i] /\ a[i] <= L
  <2>1. \A i \in 1..c : a[i] \in S
    BY <1>6
  <2>2. \A x \in S : x \in Int /\ 0 <= x /\ x <= L
    BY <1>1, <1>2
  <2> QED BY <2>1, <2>2
<1>8. PICK k \in 1..c : a[k] = 0
  BY <1>2, <1>6 DEF DocsOf
<1>9. PICK l \in 1..c : a[l] = L
  BY <1>2, <1>6 DEF DocsOf
<1>10. 1 \in 1..c /\ c \in 1..c
  BY <1>6, <1>8
<1>11. a[1] = 0
  <2>1. CASE k = 1
    BY <1>8, <2>1
  <2>2. CASE 1 < k
    BY <1>6, <1>7, <1>8, <1>10, <2>2
  <2> QED BY <1>6, <1>8, <2>1, <2>2
<1>12. a[c] = L
  <2>1. CASE l = c
    BY <1>9, <2>1
  <2>2. CASE l < c
    BY <1>1, <1>6, <1>7, <1>9, <1>10, <2>2
  <2> QED BY <1>6, <1>9, <2>1, <2>2
<1>13. c >= 2
  <2>1. c # 1
    BY <1>1, <1>11, <1>12
  <2> QED BY <1>6, <1>10, <2>1
<1>14. Len(s) = c - 1 /\ DOMAIN s = 1..(c - 1)
  BY <1>4, <1>6, <1>13
<1>15. \A i \in 1..(c - 1) : s[i].start = a[i] /\ s[i].end = a[i + 1]
  BY <1>4, <1>6
<1>16. \A i \in DOMAIN s : s[i].start < s[i].end
  <2> TAKE i \in DOMAIN s
  <2>1. i \in 1..c /\ i + 1 \in 1..c /\ i < i + 1
    BY <1>6, <1>14
  <2> QED BY <1>6, <1>14, <1>15, <2>1
<1>17. \A i \in 1..(Len(s) - 1) : s[i].end = s[i + 1].start
  <2> TAKE i \in 1..(Len(s) - 1)
  <2>1. i \in 1..(c - 1) /\ i + 1 \in 1..(c - 1)
    BY <1>6, <1>14
  <2> QED BY <1>15, <2>1
<1>18. s[1].start = 0
  BY <1>6, <1>11, <1>13, <1>15
<1>19. s[Len(s)].end = Len(n.text)
  <2>1. c - 1 \in 1..(c - 1) /\ (c - 1) + 1 = c
    BY <1>6, <1>13
  <2> QED BY <1>12, <1>14, <1>15, <2>1 DEF L
<1> QED BY <1>16, <1>17, <1>18, <1>19 DEF s

MentionTexts == Seq({"x", ".", " "})

\* The pieces a text is cut into have places that are numbers.
LEMMA SplitIs ==
  ASSUME NEW text \in MentionTexts
  PROVE  \A i \in DOMAIN Mentions!SplitTextToSentenceOffsets(text) :
            Mentions!SplitTextToSentenceOffsets(text)[i] \in [start : Nat, end : Nat]
<1> DEFINE L == Len(text)
           S == {0} \cup Mentions!Cuts(text) \cup {L}
           a == Ascending(S)
<1>1. L \in Nat
  BY ItemsOf DEF MentionTexts
<1>2. S \subseteq 0..L
  <2>1. \A j \in 1..(L - 2) : j + 1 \in 0..L
    BY <1>1
  <2>2. Mentions!Cuts(text) \subseteq {j + 1 : j \in 1..(L - 2)}
    BY DEF Mentions!Cuts
  <2> HIDE DEF L
  <2> QED BY <1>1, <2>1, <2>2
<1>3. Mentions!SplitTextToSentenceOffsets(text)
        = [i \in 1..(Len(a) - 1) |-> [start |-> a[i], end |-> a[i + 1]]]
  BY MentionsSame DEF Mentions!SplitTextToSentenceOffsets, Mentions!Between
<1> HIDE DEF L, S
<1>4. IsFiniteSet(S) /\ S \in SUBSET Int
  <2>1. IsFiniteSet(0..L)
    BY <1>1, FS_Interval
  <2>2. S \in SUBSET Int
    BY <1>1, <1>2
  <2>3. IsFiniteSet(S)
    BY <1>2, <2>1, FS_Subset
  <2> QED BY <2>2, <2>3
<1>5. a \in Seq(S) /\ Len(a) \in Nat
  BY <1>4, AscendingIs
<1> HIDE DEF a
<1>6. \A i \in 1..Len(a) : a[i] \in Nat
  <2>1. \A x \in S : x \in Nat
    BY <1>1, <1>2
  <2>2. \A i \in 1..Len(a) : a[i] \in S
    BY <1>5
  <2> QED BY <2>1, <2>2
<1>7. \A i \in 1..(Len(a) - 1) : a[i] \in Nat /\ a[i + 1] \in Nat
  BY <1>5, <1>6
<1> QED BY <1>3, <1>7

LEMMA MentionsAreKept == MentionsGiven => Mentions!LaterMentionsKept
<1> SUFFICES ASSUME MentionsGiven, NEW n \in Mentions!Snippets, ~Mentions!StaysWhole(n),
                    n.sentences # << >>,
                    NEW m \in Mentions!Mentions(n), NEW i \in DOMAIN Mentions!SentenceOffsets(n),
                    0 < Mentions!SentenceOffsets(n)[i].start,
                    Mentions!SentenceOffsets(n)[i].start <= m.start,
                    m.start < m.end, m.end <= Mentions!SentenceOffsets(n)[i].end
             PROVE  \E c \in Mentions!CitationContexts(m.paper) :
                        c[2].start = Mentions!SentenceOffsets(n)[i].start
  BY DEF Mentions!LaterMentionsKept
<1> DEFINE o == Mentions!SentenceOffsets(n)[i]
           kept == [m EXCEPT !.start = @ - o.start, !.end = @ - o.start]
           t == [start |-> o.start, end |-> o.end,
                 mentions |-> {[x EXCEPT !.start = @ - o.start, !.end = @ - o.start] :
                                   x \in Mentions!AlignRefMentions(n, o)},
                 score |-> n.score]
<1>1. n \in MentionSnippets /\ m \in MentionPlaces
  BY SnippetsAre
<1>2. PICK d \in DOMAIN inputs.docs : n \in Mentions!SnippetsOf(d)
  BY DEF Mentions!Snippets
<1>3. o \in [start : Nat, end : Nat]
  <2>1. /\ n.sentences \in Seq(MentionSentences)
        /\ n.text \in MentionTexts
    BY <1>1 DEF MentionSnippets, MentionTexts
  <2>2. CASE \A j \in DOMAIN n.sentences : n.sentences[j] # Unknown
    <3>1. Mentions!SentenceOffsets(n) = n.sentences
      BY <2>2 DEF Mentions!SentenceOffsets
    <3>2. \A j \in DOMAIN n.sentences : n.sentences[j] \in MentionSentences
      BY <2>1, ItemsOf
    <3> QED BY <2>2, <3>1, <3>2 DEF MentionSentences
  <2>3. CASE ~ \A j \in DOMAIN n.sentences : n.sentences[j] # Unknown
    <3>1. Mentions!SentenceOffsets(n) = Mentions!SplitTextToSentenceOffsets(n.text)
      BY <2>3 DEF Mentions!SentenceOffsets
    <3> QED BY <2>1, <3>1, SplitIs
  <2> QED BY <2>2, <2>3
<1>4. m \in Mentions!AlignRefMentions(n, o)
  <2> HIDE DEF o
  <2>1. o.start \in Nat /\ o.end \in Nat /\ m.start \in Nat /\ m.end \in Nat
    BY <1>1, <1>3 DEF MentionPlaces
  <2>2. o.start # 0 /\ m.start # 0 /\ m.end # 0 /\ o.end # 0 /\ m.start <= o.end
    BY <2>1 DEF o
  <2> QED BY <2>2 DEF Mentions!AlignRefMentions, o
<1>5. kept \in t.mentions /\ kept.paper = m.paper
  <2>1. kept.paper = m.paper
    BY <1>1 DEF MentionPlaces
  <2> QED BY <1>4, <2>1
<1>6. t \in Mentions!SplitSnippetsToSentenceSnippets(n)
  BY DEF Mentions!SplitSnippetsToSentenceSnippets
<1>7. t.start = o.start
  OBVIOUS
<1> HIDE DEF t, kept
<1>8. <<inputs.docs[d].id, t>> \in Mentions!CitationContexts(m.paper)
  BY <1>2, <1>5, <1>6 DEF Mentions!CitationContexts
<1> QED BY <1>7, <1>8

LEMMA MentionsMin ==
  ASSUME NEW S \in SUBSET Int, IsFiniteSet(S), S # {}
  PROVE  Mentions!Min(S) \in Int /\ Mentions!Min(S) \in S /\ \A y \in S : Mentions!Min(S) <= y
  BY LeastOf DEF Mentions!Min

LEMMA MentionsMax ==
  ASSUME NEW S \in SUBSET Int, IsFiniteSet(S), S # {}
  PROVE  Mentions!Max(S) \in Int /\ Mentions!Max(S) \in S /\ \A y \in S : y <= Mentions!Max(S)
<1>1. PICK x \in S : \A y \in S : x >= y
  BY GreatestOf
<1>2. Mentions!Max(S) \in S /\ \A y \in S : Mentions!Max(S) >= y
  BY <1>1 DEF Mentions!Max
<1> QED BY <1>2

LEMMA ProductGrows ==
  ASSUME NEW x \in Int, NEW y \in Int, NEW c \in Int, c > 0
  PROVE  (x < y => x * c < y * c) /\ (x >= 0 => 10 * x * c \in Int /\ 10 * x * c >= 0)
<1>1. x < y => (y - x) * c > 0
  OBVIOUS
<1>2. (y - x) * c = y * c - x * c /\ x * c \in Int /\ y * c \in Int
  OBVIOUS
<1>3. x >= 0 => x * c >= 0
  OBVIOUS
<1>4. 10 * x * c = 10 * (x * c) /\ 10 * x * c \in Int
  OBVIOUS
<1> QED BY <1>1, <1>2, <1>3, <1>4

(* Finitely many papers are mentioned, each by finitely many snippets.      *)
LEMMA CitedFinite ==
  ASSUME MentionsGiven
  PROVE  IsFiniteSet(Mentions!Cited) /\ Mentions!Cited \subseteq Nat
<1> DEFINE D == DOMAIN inputs.docs
           snippets == [d \in D |-> Mentions!SnippetsOf(d)]
<1>1. IsFiniteSet(D)
  BY ItemsOf DEF MentionsGiven
<1>2. ASSUME NEW d \in D PROVE IsFiniteSet(snippets[d])
  <2> DEFINE I == DOMAIN inputs.docs[d].snippets
             item == [i \in I |-> inputs.docs[d].snippets[i]]
  <2>1. inputs.docs[d].snippets \in Seq(MentionSnippets)
    <3>1. inputs.docs[d] \in MentionDocs
      BY SnippetsAre
    <3> QED BY <3>1 DEF MentionDocs
  <2>2. IsFiniteSet(I)
    BY <2>1, ItemsOf
  <2>3. snippets[d] = {item[i] : i \in I}
    BY DEF Mentions!SnippetsOf
  <2> HIDE DEF I, item, snippets
  <2> QED BY <2>2, <2>3, ImageFinite
<1>3. IsFiniteSet(Mentions!Snippets)
  <2> DEFINE T == {snippets[d] : d \in D}
  <2>1. Mentions!Snippets = UNION T
    BY DEF Mentions!Snippets
  <2>2. \A t \in T : IsFiniteSet(t)
    <3> HIDE DEF snippets
    <3> QED BY <1>2
  <2> HIDE DEF snippets, D
  <2>3. IsFiniteSet(T)
    BY <1>1, ImageFinite
  <2> HIDE DEF T
  <2> QED BY <2>1, <2>2, <2>3, FS_UNION
<1> DEFINE N == Mentions!Snippets
           papers == [n \in N |-> {m.paper : m \in Mentions!Mentions(n)}]
           T == {papers[n] : n \in N}
<1>4. ASSUME NEW n \in N PROVE IsFiniteSet(papers[n]) /\ papers[n] \subseteq Nat
  <2> DEFINE I == DOMAIN n.mentions
             item == [i \in I |-> n.mentions[i].paper]
  <2>1. n.mentions \in Seq(MentionPlaces)
    <3>1. n \in MentionSnippets
      BY SnippetsAre
    <3> QED BY <3>1 DEF MentionSnippets
  <2>2. IsFiniteSet(I) /\ \A i \in I : n.mentions[i] \in MentionPlaces
    BY <2>1, ItemsOf
  <2>3. papers[n] = {item[i] : i \in I}
    BY DEF Mentions!Mentions
  <2>4. \A i \in I : item[i] \in Nat
    BY <2>2 DEF MentionPlaces
  <2> HIDE DEF I, item, papers
  <2>5. IsFiniteSet(papers[n])
    BY <2>2, <2>3, ImageFinite
  <2> QED BY <2>3, <2>4, <2>5
<1>5. Mentions!Cited = UNION T
  BY DEF Mentions!Cited
<1> HIDE DEF papers, N
<1>6. IsFiniteSet(T)
  BY <1>3, ImageFinite DEF N
<1>7. \A t \in T : IsFiniteSet(t) /\ t \subseteq Nat
  BY <1>4
<1> HIDE DEF T
<1>8. IsFiniteSet(UNION T)
  BY <1>6, <1>7, FS_UNION
<1> QED BY <1>5, <1>7, <1>8

ScoresOf(p) == {inputs.docs[x[1]].snippets[x[2]].score : x \in Mentions!Scored(p)}

LEMMA ScoredFinite ==
  ASSUME MentionsGiven, NEW p
  PROVE  /\ IsFiniteSet(Mentions!Scored(p)) /\ Mentions!TotalHits(p) \in Nat
         /\ Mentions!Scored(p) = {} <=> Mentions!TotalHits(p) = 0
         /\ Mentions!Scored(p) # {} => Mentions!BestScore(p) \in Int
<1> DEFINE D == DOMAIN inputs.docs
           places == [d \in D |-> {<<d, i>> : i \in DOMAIN inputs.docs[d].snippets}]
           T == {places[d] : d \in D}
           S == Mentions!Scored(p)
<1>1. IsFiniteSet(D)
  BY ItemsOf DEF MentionsGiven
<1>2. ASSUME NEW d \in D PROVE IsFiniteSet(places[d])
  <2> DEFINE I == DOMAIN inputs.docs[d].snippets
             item == [i \in I |-> <<d, i>>]
  <2>1. inputs.docs[d].snippets \in Seq(MentionSnippets)
    <3>1. inputs.docs[d] \in MentionDocs
      BY SnippetsAre
    <3> QED BY <3>1 DEF MentionDocs
  <2>2. IsFiniteSet(I)
    BY <2>1, ItemsOf
  <2>3. places[d] = {item[i] : i \in I}
    OBVIOUS
  <2> HIDE DEF I, item, places
  <2> QED BY <2>2, <2>3, ImageFinite
<1>3. S \subseteq UNION T
  BY DEF Mentions!Scored, Mentions!Mentioning
<1>4. \A x \in S : inputs.docs[x[1]].snippets[x[2]].score \in Int
  <2> TAKE x \in S
  <2>1. PICK d \in D : \E i \in DOMAIN inputs.docs[d].snippets : x = <<d, i>>
    BY DEF Mentions!Scored, Mentions!Mentioning
  <2>2. PICK i \in DOMAIN inputs.docs[d].snippets : x = <<d, i>>
    BY <2>1
  <2>3. inputs.docs[d].snippets[i] \in MentionSnippets
    BY SnippetsAre
  <2>4. inputs.docs[x[1]].snippets[x[2]].score # Unknown
    BY DEF Mentions!Scored
  <2> QED BY <2>2, <2>3, <2>4 DEF MentionSnippets
<1> HIDE DEF places, D, S
<1>5. IsFiniteSet(T)
  BY <1>1, ImageFinite
<1>6. \A t \in T : IsFiniteSet(t)
  BY <1>2
<1> HIDE DEF T
<1>7. IsFiniteSet(S)
  <2>1. IsFiniteSet(UNION T)
    BY <1>5, <1>6, FS_UNION
  <2> QED BY <1>3, <2>1, FS_Subset
<1>8. Mentions!TotalHits(p) = Cardinality(S)
  BY MentionsSame DEF Mentions!TotalHits, S
<1>9. Mentions!TotalHits(p) \in Nat /\ (S = {} <=> Mentions!TotalHits(p) = 0)
  BY <1>7, <1>8, FS_CardinalityType, FS_EmptySet
<1>10. S # {} => Mentions!BestScore(p) \in Int
  <2> SUFFICES ASSUME S # {} PROVE Mentions!BestScore(p) \in Int
    OBVIOUS
  <2> DEFINE score == [x \in S |-> inputs.docs[x[1]].snippets[x[2]].score]
             V == {score[x] : x \in S}
  <2>1. V \in SUBSET Int /\ V # {}
    BY <1>4
  <2>2. IsFiniteSet(V)
    <3> HIDE DEF score
    <3> QED BY <1>7, ImageFinite
  <2>3. Mentions!BestScore(p) = Mentions!Max(V)
    BY DEF Mentions!BestScore, S
  <2> HIDE DEF V
  <2> QED BY <2>1, <2>2, <2>3, MentionsMax
<1> QED BY <1>7, <1>9, <1>10 DEF S

LEMMA SpreadIs ==
  ASSUME NEW S \in SUBSET Int, IsFiniteSet(S)
  PROVE  Mentions!Spread(S) \in Int /\ Mentions!Spread(S) > 0
<1>1. CASE S = {}
  BY <1>1 DEF Mentions!Spread
<1>2. CASE S # {}
  <2>1. Mentions!Max(S) \in Int /\ Mentions!Min(S) \in Int /\ Mentions!Min(S) <= Mentions!Max(S)
    BY <1>2, MentionsMax, MentionsMin
  <2> QED BY <1>2, <2>1 DEF Mentions!Spread
<1> QED BY <1>1, <1>2

LEMMA AllFinite ==
  ASSUME MentionsGiven
  PROVE  /\ IsFiniteSet(Mentions!AllHits) /\ Mentions!AllHits \in SUBSET Int
         /\ IsFiniteSet(Mentions!AllBest) /\ Mentions!AllBest \in SUBSET Int
         /\ \A p \in Mentions!Cited : Mentions!TotalHits(p) \in Mentions!AllHits
         /\ \A p \in Mentions!Cited : Mentions!Scored(p) # {} =>
               Mentions!BestScore(p) \in Mentions!AllBest
<1> DEFINE C == Mentions!Cited
           Known == {q \in C : Mentions!Scored(q) # {}}
           hits == [p \in C |-> Mentions!TotalHits(p)]
           best == [p \in Known |-> Mentions!BestScore(p)]
<1>1. IsFiniteSet(C)
  BY CitedFinite
<1>2. IsFiniteSet(Known)
  <2>1. Known \subseteq C
    OBVIOUS
  <2> HIDE DEF Known, C
  <2> QED BY <1>1, <2>1, FS_Subset
<1>3. Mentions!AllHits = {hits[p] : p \in C} /\ Mentions!AllBest = {best[p] : p \in Known}
  BY DEF Mentions!AllHits, Mentions!AllBest
<1>4. /\ \A p \in C : hits[p] = Mentions!TotalHits(p) /\ hits[p] \in Int
      /\ \A p \in Known : best[p] = Mentions!BestScore(p) /\ best[p] \in Int
      /\ \A p \in C : Mentions!Scored(p) # {} => p \in Known
  BY ScoredFinite
<1> HIDE DEF hits, best, Known
<1>5. IsFiniteSet({hits[p] : p \in C}) /\ IsFiniteSet({best[p] : p \in Known})
  BY <1>1, <1>2, ImageFinite
<1> QED BY <1>3, <1>4, <1>5

(* The score of a paper grows with its snippets and with the best of them.  *)
LEMMA HeuristicGrows ==
  ASSUME MentionsGiven
  PROVE  /\ \A p \in Mentions!Cited : Mentions!Heuristic(p) \in Int
         /\ \A p, q \in Mentions!Cited :
              /\ Mentions!TotalHits(q) > Mentions!TotalHits(p)
              /\ Mentions!Scored(p) # {} => Mentions!BestScore(q) > Mentions!BestScore(p)
              => Mentions!Heuristic(q) > Mentions!Heuristic(p)
<1> DEFINE C == Mentions!Cited
           Known == {q \in C : Mentions!Scored(q) # {}}
           H == Mentions!AllHits
           B == Mentions!AllBest
           h == Mentions!Spread(H)
           b == Mentions!Spread(B)
           m == Mentions!Min(H)
           k == Mentions!Min(B)
           most(p) == 2 * (Mentions!TotalHits(p) - m) * b
           near(p) == 10 * (Mentions!BestScore(p) - k) * h
<1>4. \A p \in C : Mentions!TotalHits(p) \in Nat
  BY ScoredFinite
<1>5. \A p \in C : (p \in Known <=> Mentions!Scored(p) # {}) /\ (p \in Known <=> Mentions!TotalHits(p) # 0)
  BY ScoredFinite
<1>6. \A p \in C : Mentions!Heuristic(p) = most(p) + (IF p \in Known THEN near(p) ELSE 0)
  BY <1>5 DEF Mentions!Heuristic
<1>7. /\ IsFiniteSet(H) /\ IsFiniteSet(B) /\ H \in SUBSET Int /\ B \in SUBSET Int
      /\ \A p \in C : Mentions!TotalHits(p) \in H
      /\ \A p \in Known : Mentions!BestScore(p) \in B
  BY AllFinite
<1> HIDE DEF Known, C, H, B
<1>8. h \in Int /\ h > 0 /\ b \in Int /\ b > 0
  BY <1>7, SpreadIs
<1>9. \A p \in C : m \in Int /\ Mentions!TotalHits(p) \in Int
  <2> TAKE p \in C
  <2>1. H # {}
    BY <1>7
  <2> QED BY <1>4, <1>7, <2>1, MentionsMin
<1>10. \A p \in Known : k \in Int /\ Mentions!BestScore(p) \in Int /\ k <= Mentions!BestScore(p)
  <2> TAKE p \in Known
  <2>1. Mentions!BestScore(p) \in B
    BY <1>7
  <2> QED BY <1>7, <2>1, MentionsMin
<1> HIDE DEF h, b, m, k
<1>11. \A p \in C : most(p) \in Int
  BY <1>8, <1>9
<1>12. \A p \in Known : near(p) \in Int /\ near(p) >= 0
  <2> TAKE p \in Known
  <2>1. Mentions!BestScore(p) - k \in Nat
    BY <1>10
  <2> DEFINE x == Mentions!BestScore(p) - k
  <2> HIDE DEF x
  <2>2. 10 * x * h \in Int /\ 10 * x * h >= 0
    BY <1>8, <2>1, ProductGrows DEF x
  <2> QED BY <2>2 DEF x
<1>13. \A p, q \in C : Mentions!TotalHits(q) > Mentions!TotalHits(p) => most(q) > most(p)
  <2> SUFFICES ASSUME NEW p \in C, NEW q \in C, Mentions!TotalHits(q) > Mentions!TotalHits(p)
               PROVE  most(q) > most(p)
    OBVIOUS
  <2> DEFINE x == 2 * (Mentions!TotalHits(p) - m)
             y == 2 * (Mentions!TotalHits(q) - m)
  <2>1. x \in Int /\ y \in Int /\ x < y
    BY <1>9
  <2> HIDE DEF x, y
  <2>2. x * b < y * b
    BY <1>8, <2>1, ProductGrows
  <2> QED BY <2>2 DEF x, y
<1>14. \A p, q \in Known : Mentions!BestScore(q) > Mentions!BestScore(p) => near(q) > near(p)
  <2> SUFFICES ASSUME NEW p \in Known, NEW q \in Known, Mentions!BestScore(q) > Mentions!BestScore(p)
               PROVE  near(q) > near(p)
    OBVIOUS
  <2> DEFINE x == 10 * (Mentions!BestScore(p) - k)
             y == 10 * (Mentions!BestScore(q) - k)
  <2>1. x \in Int /\ y \in Int /\ x < y
    BY <1>10
  <2> HIDE DEF x, y
  <2>2. x * h < y * h
    BY <1>8, <2>1, ProductGrows
  <2> QED BY <2>2 DEF x, y
<1> HIDE DEF most, near
<1>15. \A p \in C : Mentions!Heuristic(p) \in Int
  BY <1>6, <1>11, <1>12
<1>16. ASSUME NEW p \in C, NEW q \in C, Mentions!TotalHits(q) > Mentions!TotalHits(p),
              Mentions!Scored(p) # {} => Mentions!BestScore(q) > Mentions!BestScore(p)
       PROVE  Mentions!Heuristic(q) > Mentions!Heuristic(p)
  <2>1. Mentions!TotalHits(p) \in Nat /\ Mentions!TotalHits(q) \in Nat
    BY <1>4
  <2>2. q \in Known /\ most(q) > most(p)
    BY <1>5, <1>13, <1>16, <2>1
  <2>3. CASE p \in Known
    <3>1. near(q) > near(p)
      BY <1>5, <1>14, <1>16, <2>2, <2>3
    <3> QED BY <1>6, <1>11, <1>12, <2>2, <2>3, <3>1
  <2>4. CASE p \notin Known
    BY <1>6, <1>11, <1>12, <2>2, <2>4
  <2> QED BY <2>3, <2>4
<1> QED BY <1>15, <1>16 DEF C

(* What is promoted is above the threshold, and with it what scores more.   *)
MentionsGot == {NotAsked, Failed} \cup [Mentions!GetCitedCorpusIds -> MentionsRerankScores]

LEMMA TopCitedIs ==
  ASSUME MentionsGiven, got \in MentionsGot
  PROVE  /\ DocsOf(Mentions!TopCited) \subseteq Mentions!GetCitedCorpusIds
         /\ \A p \in DocsOf(Mentions!TopCited) :
            \A q \in Mentions!GetCitedCorpusIds \ DocsOf(Mentions!TopCited) :
               ~ (Mentions!FinalScore(q) > Mentions!FinalScore(p))
         /\ \A p \in Mentions!GetCitedCorpusIds : Mentions!FinalScore(p) \in Int
<1> DEFINE G == Mentions!GetCitedCorpusIds
           A == Mentions!AboveThreshold
           rising == Ascending(A)
           self == [p \in A |-> p]
           s == Mentions!ById
           key == [p \in A |-> Mentions!FinalScore(p)]
           top == Mentions!TopCited
           bound == 5 * (IF Mentions!Disregarded THEN Mentions!Whole ELSE 1)
<1>1. G \subseteq Mentions!Cited /\ IsFiniteSet(Mentions!Cited) /\ Mentions!Cited \subseteq Nat
  BY CitedFinite DEF Mentions!GetCitedCorpusIds
<1>2. A = {p \in G : inputs.fast \/ Mentions!FinalScore(p) > bound}
  BY DEF Mentions!AboveThreshold
<1>3. s = SortedDesc(rising, self) /\ top = Slice(SortedDesc(s, key), MentionsTopK)
  BY MentionsSame DEF Mentions!ById, Mentions!TopCited
<1>4. \A p \in G : Mentions!FinalScore(p) \in Int
  <2> TAKE p \in G
  <2>1. CASE Mentions!Disregarded
    BY <1>1, <2>1, HeuristicGrows DEF Mentions!FinalScore
  <2>2. CASE ~Mentions!Disregarded
    <3>1. got \in [G -> MentionsRerankScores]
      BY <2>2 DEF Mentions!Disregarded, MentionsGot
    <3>2. got[p] \in Int
      BY <3>1, MentionsConstants
    <3> QED BY <2>2, <3>2 DEF Mentions!FinalScore
  <2> QED BY <2>1, <2>2
<1>5. bound \in Int
  <2>1. IsFiniteSet(Mentions!AllHits) /\ IsFiniteSet(Mentions!AllBest)
        /\ Mentions!AllHits \in SUBSET Int /\ Mentions!AllBest \in SUBSET Int
    BY AllFinite
  <2>2. Mentions!Spread(Mentions!AllHits) \in Int /\ Mentions!Spread(Mentions!AllBest) \in Int
    BY <2>1, SpreadIs
  <2>3. Mentions!Whole \in Int
    BY <2>2 DEF Mentions!Whole
  <2> QED BY <2>3
<1> HIDE DEF bound, s, top, A, G
<1>6. A \subseteq G /\ IsFiniteSet(A) /\ A \in SUBSET Int
  <2>1. A \subseteq G
    BY <1>2
  <2>2. A \subseteq Mentions!Cited /\ A \in SUBSET Int
    BY <1>1, <2>1
  <2>3. IsFiniteSet(A)
    BY <1>1, <2>2, FS_Subset
  <2> QED BY <2>1, <2>2, <2>3
<1>7. /\ rising \in Seq(A) /\ DocsOf(rising) = A /\ DOMAIN rising = 1..Len(rising) /\ Len(rising) \in Nat
      /\ \A i, j \in 1..Len(rising) : rising[i] = rising[j] => i = j
  BY <1>6, AscendingIs
<1> HIDE DEF rising
<1>8. (\A d \in A : self[d] \in Int) /\ (\A d \in A : key[d] = Mentions!FinalScore(d) /\ key[d] \in Int)
  BY <1>4, <1>6
<1> HIDE DEF self, key
<1>9. /\ s \in Seq(A) /\ Len(s) = Len(rising) /\ DocsOf(s) = A
      /\ \A i \in 1..Len(s) : s[SortRank(rising, self, i)] = rising[i]
      /\ \A r \in 1..Len(s) : \E i \in 1..Len(s) : SortRank(rising, self, i) = r
  <2> DEFINE sorted == SortedDesc(rising, self)
  <2>1. /\ sorted \in Seq(A) /\ Len(sorted) = Len(rising) /\ DocsOf(sorted) = DocsOf(rising)
        /\ \A i \in 1..Len(rising) : sorted[SortRank(rising, self, i)] = rising[i]
        /\ \A r \in 1..Len(rising) : \E i \in 1..Len(rising) : SortRank(rising, self, i) = r
    <3>1. rising \in Seq(A) /\ \A d \in A : self[d] \in Int
      BY <1>7, <1>8
    <3> QED BY <3>1, SortedIs
  <2>2. s = sorted
    BY <1>3
  <2> HIDE DEF sorted
  <2> QED BY <1>7, <2>1, <2>2
<1>10. DOMAIN s = 1..Len(s)
  BY <1>9
<1>11. \A i, j \in DOMAIN s : s[i] = s[j] => i = j
  <2> SUFFICES ASSUME NEW i \in 1..Len(s), NEW j \in 1..Len(s), s[i] = s[j] PROVE i = j
    BY <1>10
  <2>1. PICK k \in 1..Len(s) : SortRank(rising, self, k) = i
    BY <1>9
  <2>2. PICK l \in 1..Len(s) : SortRank(rising, self, l) = j
    BY <1>9
  <2>3. rising[k] = rising[l]
    BY <1>9, <2>1, <2>2
  <2> QED BY <1>7, <1>9, <2>1, <2>2, <2>3
<1>12. DocsOf(top) \subseteq A
  <2>1. SortedDesc(s, key) \in Seq(A)
    BY <1>8, <1>9, SortedIs
  <2>2. top \in Seq(A)
    BY <1>3, <2>1, MentionsConstants, SliceIs
  <2> QED BY <2>2, DocsOfSeq
<1>13. ASSUME NEW p \in DocsOf(top), NEW q \in G \ DocsOf(top),
              Mentions!FinalScore(q) > Mentions!FinalScore(p)
       PROVE  FALSE
  <2>1. p \in A /\ p \in G /\ q \in G
    BY <1>6, <1>12
  <2>2. q \in A
    BY <1>2, <1>4, <1>5, <1>13, <2>1
  <2>3. PICK i \in DOMAIN s : s[i] = q
    BY <1>9, <2>2 DEF DocsOf
  <2>4. PICK j \in DOMAIN s : s[j] = p
    BY <1>9, <2>1 DEF DocsOf
  <2>5. SortsBefore(s, key, i, j)
    BY <1>8, <1>13, <2>1, <2>2, <2>3, <2>4 DEF SortsBefore
  <2>6. s[j] \in DocsOf(Slice(SortedDesc(s, key), MentionsTopK))
    BY <1>3, <2>4
  <2>7. s[i] \in DocsOf(Slice(SortedDesc(s, key), MentionsTopK))
    BY <1>8, <1>9, <1>11, <2>5, <2>6, MentionsConstants, SliceOfBefore
  <2> QED BY <1>3, <2>3, <2>7
<1> QED BY <1>4, <1>6, <1>12, <1>13 DEF top, G

(* An answer with papers is what is promoted of what the reranker said.     *)
MentionsInv ==
  /\ MentionsGiven /\ got \in MentionsGot
  /\ response.docs # << >> => pc = "done" /\ response.docs = Mentions!TopCited

LEMMA MentionsSound == MentionsInv => Mentions!SnippetsSound
<1> SUFFICES ASSUME MentionsInv PROVE Mentions!PromotedMentioned
  BY TextIsTiled, MentionsAreKept DEF MentionsInv, Mentions!SnippetsSound
<1> SUFFICES ASSUME response.docs # << >>
             PROVE  /\ DocsOf(response.docs) \subseteq Mentions!Cited
                    /\ Mentions!Disregarded =>
                         \A p \in DocsOf(response.docs) :
                         \A q \in Mentions!GetCitedCorpusIds \ DocsOf(response.docs) :
                            ~ /\ Mentions!TotalHits(q) > Mentions!TotalHits(p)
                              /\ Mentions!Scored(p) # {} =>
                                   Mentions!BestScore(q) > Mentions!BestScore(p)
  BY MentionsSame DEF Mentions!PromotedMentioned
<1>1. response.docs = Mentions!TopCited /\ MentionsGiven /\ got \in MentionsGot
  BY DEF MentionsInv
<1>2. DocsOf(response.docs) \subseteq Mentions!GetCitedCorpusIds
  BY <1>1, TopCitedIs
<1>3. Mentions!GetCitedCorpusIds \subseteq Mentions!Cited
  BY DEF Mentions!GetCitedCorpusIds
<1>4. ASSUME Mentions!Disregarded, NEW p \in DocsOf(response.docs),
             NEW q \in Mentions!GetCitedCorpusIds \ DocsOf(response.docs),
             Mentions!TotalHits(q) > Mentions!TotalHits(p),
             Mentions!Scored(p) # {} => Mentions!BestScore(q) > Mentions!BestScore(p)
      PROVE  FALSE
  <2>1. Mentions!Heuristic(q) > Mentions!Heuristic(p)
    BY <1>1, <1>2, <1>3, <1>4, HeuristicGrows
  <2>2. ~ (Mentions!FinalScore(q) > Mentions!FinalScore(p))
    BY <1>1, <1>4, TopCitedIs
  <2> QED BY <1>4, <2>1, <2>2 DEF Mentions!FinalScore
<1> QED BY <1>2, <1>3, <1>4

LEMMA MentionsInit == Mentions!Init => MentionsInv
  BY MentionsConstants, MentionsSame
  DEF Mentions!Init, Mentions!NoResponse, MentionsInv, MentionsGiven, MentionsGot

(* What depends on what is given alone, and on what the reranker said.      *)
LEMMA CitedStay ==
  ASSUME UNCHANGED inputs
  PROVE  /\ MentionsGiven' = MentionsGiven
         /\ Mentions!Cited' = Mentions!Cited
         /\ Mentions!GetCitedCorpusIds' = Mentions!GetCitedCorpusIds
         /\ MentionsGot' = MentionsGot
<1>1. Mentions!Cited' = Mentions!Cited
  BY DEF Mentions!Cited, Mentions!Snippets, Mentions!SnippetsOf
<1>2. \A p : Mentions!CitationContexts(p)' = Mentions!CitationContexts(p)
  BY DEF Mentions!CitationContexts, Mentions!SnippetsOf
<1>3. Mentions!GetCitedCorpusIds' = Mentions!GetCitedCorpusIds
  BY <1>1, <1>2 DEF Mentions!GetCitedCorpusIds
<1> QED BY <1>1, <1>3 DEF MentionsGiven, MentionsGot

LEMMA TopStays ==
  ASSUME UNCHANGED inputs, UNCHANGED got
  PROVE  Mentions!TopCited' = Mentions!TopCited
<1>1. /\ Mentions!Cited' = Mentions!Cited
      /\ Mentions!GetCitedCorpusIds' = Mentions!GetCitedCorpusIds
  BY CitedStay
<1>2. \A p : Mentions!Scored(p)' = Mentions!Scored(p)
  BY DEF Mentions!Scored, Mentions!Mentioning
<1>3. \A p : Mentions!TotalHits(p)' = Mentions!TotalHits(p) /\ Mentions!BestScore(p)' = Mentions!BestScore(p)
  BY <1>2 DEF Mentions!TotalHits, Mentions!BestScore
<1>4. Mentions!AllHits' = Mentions!AllHits /\ Mentions!AllBest' = Mentions!AllBest
  BY <1>1, <1>2, <1>3 DEF Mentions!AllHits, Mentions!AllBest
<1>5. \A p : Mentions!Heuristic(p)' = Mentions!Heuristic(p)
  BY <1>2, <1>3, <1>4 DEF Mentions!Heuristic
<1>6. Mentions!Disregarded' = Mentions!Disregarded /\ Mentions!Whole' = Mentions!Whole
  BY <1>4 DEF Mentions!Disregarded, Mentions!Whole
<1>7. \A p : Mentions!FinalScore(p)' = Mentions!FinalScore(p)
  BY <1>5, <1>6 DEF Mentions!FinalScore
<1>8. Mentions!AboveThreshold' = Mentions!AboveThreshold
  BY <1>1, <1>6, <1>7 DEF Mentions!AboveThreshold
<1>9. Mentions!ById' = Mentions!ById
  BY <1>8 DEF Mentions!ById
<1> QED BY <1>7, <1>8, <1>9 DEF Mentions!TopCited

LEMMA MentionsStep ==
  ASSUME MentionsInv, Mentions!Next
  PROVE  MentionsInv'
<1>0. response.docs # << >> => pc = "done"
  BY DEF MentionsInv
<1>1. CASE Mentions!NothingCited
  <2>1. inputs' = inputs /\ got' = got /\ response'.docs = << >>
    BY <1>1, MentionsSame DEF Mentions!NothingCited, Mentions!Respond, Mentions!Complete
  <2> QED BY <2>1, CitedStay DEF MentionsInv
<1>2. CASE Mentions!Start
  <2>1. inputs' = inputs /\ got' = got /\ response' = response /\ response.docs = << >>
    BY <1>0, <1>2 DEF Mentions!Start
  <2> QED BY <2>1, CitedStay DEF MentionsInv
<1>3. CASE Mentions!Rerank
  <2>1. inputs' = inputs /\ response' = response /\ response.docs = << >> /\ got' \in MentionsGot
    BY <1>0, <1>3 DEF Mentions!Rerank, MentionsGot
  <2> QED BY <2>1, CitedStay DEF MentionsInv
<1>4. CASE Mentions!RunSnippetSnowball
  <2>1. /\ inputs' = inputs /\ got' = got /\ pc' = "done"
        /\ response'.docs = Mentions!TopCited
    BY <1>4 DEF Mentions!RunSnippetSnowball, Mentions!Respond, Mentions!Complete
  <2> QED BY <2>1, CitedStay, TopStays DEF MentionsInv
<1>5. CASE Mentions!LoadFails
  <2>1. inputs' = inputs /\ got' = got /\ response'.docs = << >>
    BY <1>5, MentionsSame DEF Mentions!LoadFails, Mentions!Respond, Mentions!Complete
  <2> QED BY <2>1, CitedStay DEF MentionsInv
<1> QED BY <1>1, <1>2, <1>3, <1>4, <1>5 DEF Mentions!Next

LEMMA MentionsStutter ==
  ASSUME MentionsInv, UNCHANGED <<inputs, pc, got, response>>
  PROVE  MentionsInv'
  BY CitedStay, TopStays DEF MentionsInv

(* Each of the two agents of a snowball keeps its invariant while it runs.  *)
WhileSnowballs == /\ agent = "snowball" => SnowInv
                  /\ agent = "snippets" => MentionsInv

\* For every graph of citations and every text, whichever direction or reranker
\* fails: a snowball gives back its seeds and promotes only papers that are linked to
\* one or mentioned in a snippet; more seeds that cite a paper, up to two hundred, do
\* not cost it its place; and of the papers snippets mention, none is left out for
\* one mentioned less (snowball_agent.py, snippet_snowball.py).
THEOREM SnowballsKeepTheirSeeds == AgentsSpec => []SnowballsSound
<1>1. AgentsInit => WhileSnowballs
  BY SnowInit, MentionsInit DEF AgentsInit, WhileSnowballs
<1>2. WhileSnowballs /\ [AgentsNext]_all => WhileSnowballs'
  <2> SUFFICES ASSUME WhileSnowballs, [AgentsNext]_all,
                      agent' = "snowball" \/ agent' = "snippets"
               PROVE  /\ agent' = "snowball" => SnowInv'
                      /\ agent' = "snippets" => MentionsInv'
    BY DEF WhileSnowballs
  <2>1. CASE CallSnowball
    BY <2>1, SnowStep DEF CallSnowball, WhileSnowballs, StayIdle
  <2>2. CASE CallSnippets
    BY <2>2, MentionsStep DEF CallSnippets, WhileSnowballs, StayIdle
  <2>3. CASE UNCHANGED all
    <3>1. UNCHANGED <<inputs, pc, got, response>> /\ agent' = agent
      BY <2>3 DEF all, call
    <3> QED BY <3>1, SnowStutters, MentionsStutter DEF WhileSnowballs
  <2>4. CASE ~CallSnowball /\ ~CallSnippets /\ AgentsNext
    BY <2>4 DEF AgentsNext, Plan, CallName, CallAuthors, CallDense, CallFast,
                CallCiting, CallKeyword, CallSorting, StayIdle
  <2> QED BY <2>1, <2>2, <2>3, <2>4
<1>3. WhileSnowballs => SnowballsSound
  BY SnowSound, MentionsSound DEF SnowballsSound, WhileSnowballs
<1> QED BY <1>1, <1>2, <1>3, PTL DEF AgentsSpec

(***************************************************************************)
(* The agent of citing papers                                              *)
(***************************************************************************)

LEMMA CitingSame ==
  /\ \A s : Citing!DocsOf(s) = DocsOf(s)
  /\ \A s, S : Citing!Kept(s, S) = Kept(s, S)
  /\ \A s, t : Citing!Merged(s, t) = Merged(s, t)
  /\ \A s : Citing!MergeAll(s) = MergeAll(s)
  /\ \A s, key : Citing!SortedDesc(s, key) = SortedDesc(s, key)
  /\ Citing!Empty = << >>
<1>1. \A s : Citing!DocsOf(s) = DocsOf(s)
  BY DEF Citing!DocsOf, DocsOf
<1>2. \A s, S : Citing!Kept(s, S) = Kept(s, S)
  BY DEF Citing!Kept, Kept, Citing!Cardinality, Cardinality
<1>3. \A s, t : Citing!Merged(s, t) = Merged(s, t)
  BY <1>1, <1>2 DEF Citing!Merged, Merged, Citing!Minus, Minus
<1>4. \A s : Citing!MergeAll(s) = MergeAll(s)
  BY <1>3 DEF Citing!MergeAll, MergeAll, Citing!Empty, Empty
<1>5. Citing!Empty = << >>
  BY DEF Citing!Empty
<1>6. \A s, key : Citing!SortedDesc(s, key) = SortedDesc(s, key)
  BY DEF Citing!SortedDesc, SortedDesc, Citing!Cardinality, Cardinality
<1> QED BY <1>1, <1>2, <1>3, <1>4, <1>5, <1>6

LEMMA CitingAverage ==
  \A c, w : Citing!WeightedAverage(c, w) = Weighted!WeightedAverage(c, w)
<1>1. \A S : Citing!Min(S) = Weighted!Min(S)
  BY DEF Citing!Min, Weighted!Min
<1>2. \A c, k : Citing!Nth(c, k) = Weighted!Nth(c, k)
  BY DEF Citing!Nth, Weighted!Nth, Citing!Range, Weighted!Range,
         Citing!Cardinality, Weighted!Cardinality
<1>3. \A c : Citing!Quantile(c) = Weighted!Quantile(c)
  BY <1>2 DEF Citing!Quantile, Weighted!Quantile, Citing!Cardinality, Weighted!Cardinality
<1>4. \A c : Citing!Normalized(c) = Weighted!Normalized(c)
  BY <1>1, <1>3 DEF Citing!Normalized, Weighted!Normalized, Citing!Range, Weighted!Range
<1>5. \A c, w : Citing!Turned(c, w) = Weighted!Turned(c, w)
  BY <1>1 DEF Citing!Turned, Weighted!Turned, Citing!Known, Weighted!Known
<1> QED BY <1>4, <1>5 DEF Citing!WeightedAverage, Weighted!WeightedAverage, Citing!Abs, Weighted!Abs

LEMMA CitingConstants ==
  /\ CitingGiven \subseteq Seq(CitingAll) /\ CitingAnchors \subseteq Seq(CitingAll)
  /\ CitingOf \in [CitingAll -> Seq(CitingAll)] /\ CitingSnippets \in [CitingAll -> Nat]
  /\ CitingRerankScores \subseteq Int /\ Missing \notin Int
  BY SearchAgentsAssumption DEF Citing!CollectionsGiven

CitingGot ==
  [checkpoint : Seq(CitingAll), iteration : Nat, fetched : Seq({Pending, Failed} \cup Seq(CitingAll)),
   scores : Seq([doc : CitingAll, score : Int])]

\* What was fetched for an anchor cites it.
CitingFetched ==
  /\ DOMAIN got.fetched = DOMAIN inputs.anchors
  /\ \A i \in DOMAIN got.fetched :
        got.fetched[i] \in {Pending, Failed} \/ DocsOf(got.fetched[i]) \subseteq DocsOf(CitingOf[inputs.anchors[i]])

CitingInv ==
  /\ inputs \in Citing!Requests
  /\ got \in CitingGot
  /\ pc \in {"fetch", "sort"} => CitingFetched
  /\ pc = "sort" => Citing!Gathered /\ DOMAIN got.scores = DOMAIN Citing!CitingPapersFound

LEMMA CitingInit == Citing!Init => CitingInv
<1> SUFFICES ASSUME Citing!Init PROVE CitingInv
  OBVIOUS
<1>1. << >> \in Seq(CitingAll) /\ << >> \in Seq({Pending, Failed} \cup Seq(CitingAll))
      /\ << >> \in Seq([doc : CitingAll, score : Int])
  OBVIOUS
<1>2. got \in CitingGot
  BY <1>1, CitingSame DEF Citing!Init, CitingGot
<1> QED BY <1>2 DEF Citing!Init, CitingInv

LEMMA CitingInputs ==
  ASSUME CitingInv
  PROVE  /\ inputs.docs \in Seq(CitingAll) /\ inputs.anchors \in Seq(CitingAll)
         /\ got.checkpoint \in Seq(CitingAll)
         /\ Citing!Held \in Seq(CitingAll)
         /\ DocsOf(Citing!Held) = DocsOf(got.checkpoint) \cup DocsOf(inputs.docs)
<1>1. inputs.docs \in Seq(CitingAll) /\ inputs.anchors \in Seq(CitingAll) /\ got.checkpoint \in Seq(CitingAll)
  BY CitingConstants DEF CitingInv, CitingGot, Citing!Requests
<1>2. CASE got.checkpoint = << >>
  <2>1. DocsOf(got.checkpoint) = {}
    BY <1>2 DEF DocsOf
  <2> QED BY <1>1, <1>2, <2>1, CitingSame DEF Citing!Held
<1>3. CASE got.checkpoint # << >>
  <2>1. Citing!Held = Merged(got.checkpoint, inputs.docs)
    BY <1>3, CitingSame DEF Citing!Held
  <2> QED BY <1>1, <2>1, MergedIs
<1> QED BY <1>1, <1>2, <1>3

\* What is found cites an anchor.
LEMMA CitingFound ==
  ASSUME CitingInv, CitingFetched, Citing!Gathered
  PROVE  /\ Citing!CitingPapersFound \in Seq(CitingAll)
         /\ \A d \in DocsOf(Citing!CitingPapersFound) :
               \E p \in DocsOf(inputs.anchors) : d \in DocsOf(CitingOf[p])
<1>0. << >> \in Seq(CitingAll) /\ DocsOf(<< >>) = {}
  BY DEF DocsOf
<1>1. CASE \E i \in DOMAIN got.fetched : got.fetched[i] = Failed
  BY <1>0, <1>1, CitingSame DEF Citing!CitingPapersFound
<1>2. CASE ~ \E i \in DOMAIN got.fetched : got.fetched[i] = Failed
  <2>1. Citing!CitingPapersFound = MergeAll(got.fetched)
    BY <1>2, CitingSame DEF Citing!CitingPapersFound
  <2>2. got.fetched \in Seq({Pending, Failed} \cup Seq(CitingAll))
    BY DEF CitingInv, CitingGot
  <2>3. \A i \in DOMAIN got.fetched : got.fetched[i] \notin {Pending, Failed}
                                      /\ got.fetched[i] \in Seq(CitingAll)
    BY <1>2, <2>2 DEF Citing!Gathered
  <2>4. got.fetched \in Seq(Seq(CitingAll))
    <3>1. Len(got.fetched) \in Nat /\ DOMAIN got.fetched = 1..Len(got.fetched)
      BY <2>2
    <3>2. got.fetched = [i \in 1..Len(got.fetched) |-> got.fetched[i]]
      BY <2>2
    <3>3. got.fetched \in [1..Len(got.fetched) -> Seq(CitingAll)]
      BY <2>3, <3>1, <3>2
    <3> QED BY <3>1, <3>3, FunctionIsSeq
  <2>5. /\ MergeAll(got.fetched) \in Seq(CitingAll)
        /\ DocsOf(MergeAll(got.fetched)) = UNION {DocsOf(got.fetched[i]) : i \in DOMAIN got.fetched}
    BY <2>4, MergeAllIs
  <2>6. ASSUME NEW d \in DocsOf(MergeAll(got.fetched))
        PROVE  \E p \in DocsOf(inputs.anchors) : d \in DocsOf(CitingOf[p])
    <3>1. PICK i \in DOMAIN got.fetched : d \in DocsOf(got.fetched[i])
      BY <2>5
    <3>2. i \in DOMAIN inputs.anchors /\ d \in DocsOf(CitingOf[inputs.anchors[i]])
      BY <2>3, <3>1 DEF CitingFetched
    <3>3. inputs.anchors[i] \in DocsOf(inputs.anchors)
      BY <3>2 DEF DocsOf
    <3> QED BY <3>2, <3>3
  <2> QED BY <2>1, <2>5, <2>6
<1> QED BY <1>1, <1>2

\* Sorting keeps what was found.
LEMMA CitingSorts ==
  ASSUME CitingInv, pc = "sort"
  PROVE  Citing!Sorted \in Seq(CitingAll) /\ DocsOf(Citing!Sorted) = DocsOf(Citing!CitingPapersFound)
<1> DEFINE found == Citing!CitingPapersFound
           D == DocsOf(found)
           columns == [rerank |-> [d \in D |-> Citing!RerankScoreOf(d)],
                       snippets |-> [d \in D |-> CitingSnippets[d]]]
           weights == [rerank |-> 100, snippets |-> 25]
<1>1. found \in Seq(CitingAll) /\ DOMAIN got.scores = DOMAIN found
  BY CitingFound DEF CitingInv
<1>2. CASE found = << >>
  BY <1>1, <1>2, CitingSame DEF Citing!Sorted
<1>3. CASE found # << >>
  <2>1. Citing!Sorted = SortedDesc(found, Citing!SortKey)
    BY <1>3, CitingSame DEF Citing!Sorted
  <2>2. Citing!SortKey = Weighted!WeightedAverage(columns, weights)
    BY CitingSame, CitingAverage DEF Citing!SortKey
  <2>3. D \subseteq CitingAll /\ found \in Seq(D)
    <3>1. D \subseteq CitingAll
      BY <1>1, DocsOfSeq
    <3>2. \A i \in DOMAIN found : found[i] \in D
      BY DEF DocsOf
    <3> HIDE DEF found, D
    <3> QED BY <1>1, <3>1, <3>2
  <2>4. IsFiniteSet(D) /\ D # {}
    <3>1. IsFiniteSet(DOMAIN found)
      <4>1. DOMAIN found = 1..Len(found) /\ Len(found) \in Nat
        BY <1>1
      <4> HIDE DEF found
      <4> QED BY <4>1, FS_Interval
    <3>2. IsFiniteSet({found[i] : i \in DOMAIN found})
      <4> HIDE DEF found
      <4> QED BY <3>1, ImageFinite
    <3>3. D # {}
      <4>1. 1 \in DOMAIN found
        BY <1>1, <1>3
      <4> QED BY <4>1 DEF DocsOf
    <3> QED BY <3>2, <3>3 DEF DocsOf
  <2>5. \A d \in D : Citing!RerankScoreOf(d) \in Int
    <3> TAKE d \in D
    <3>1. \E i \in DOMAIN found : found[i] = d
      BY DEF DocsOf
    <3>2. Citing!Position(found, d) \in DOMAIN got.scores
      BY <1>1, <3>1 DEF Citing!Position
    <3>3. got.scores \in Seq([doc : CitingAll, score : Int])
      BY DEF CitingInv, CitingGot
    <3>4. \A j \in DOMAIN got.scores : got.scores[j] \in [doc : CitingAll, score : Int]
      <4> DEFINE R == [doc : CitingAll, score : Int]
                 q == got.scores
      <4>1. q \in Seq(R)
        BY <3>3
      <4> HIDE DEF R, q
      <4>2. \A j \in DOMAIN q : q[j] \in R
        BY <4>1
      <4> QED BY <4>2 DEF R, q
    <3>5. got.scores[Citing!Position(found, d)] \in [doc : CitingAll, score : Int]
      BY <3>2, <3>4
    <3> QED BY <3>5 DEF Citing!RerankScoreOf
  <2>6. \A k \in DOMAIN weights : weights[k] \in Int /\ columns[k] \in [D -> Int \cup {Missing}]
    <3>1. columns.rerank \in [D -> Int \cup {Missing}] /\ columns.snippets \in [D -> Int \cup {Missing}]
      <4>1. \A d \in D : CitingSnippets[d] \in Int
        BY <2>3, CitingConstants
      <4> HIDE DEF D
      <4> QED BY <2>5, <4>1
    <3> HIDE DEF D
    <3> QED BY <3>1
  <2>7. DOMAIN weights \subseteq ColumnNames /\ DOMAIN columns = DOMAIN weights /\ DOMAIN weights # {}
    BY DEF ColumnNames
  <2> HIDE DEF columns, weights, D, found
  <2>8. Weighted!WeightedAverage(columns, weights) \in [D -> Int]
    BY <2>4, <2>6, <2>7, CitingConstants, AverageIs
  <2>9. \A d \in D : Citing!SortKey[d] \in Int
    BY <2>2, <2>8
  <2>10. /\ SortedDesc(found, Citing!SortKey) \in Seq(D)
         /\ DocsOf(SortedDesc(found, Citing!SortKey)) = DocsOf(found)
    BY <2>3, <2>9, SortedIs
  <2>11. SortedDesc(found, Citing!SortKey) \in Seq(CitingAll)
    BY <2>3, <2>10
  <2> QED BY <2>1, <2>10, <2>11 DEF found
<1> QED BY <1>2, <1>3

\* A step that goes on fetching or sorting.
LEMMA CitingResponds ==
  ASSUME CitingInv, NEW s \in Seq(CitingAll), Citing!Respond(s)
  PROVE  CitingInv'
<1>1. << >> \in Seq({Pending, Failed} \cup Seq(CitingAll)) /\ << >> \in Seq([doc : CitingAll, score : Int])
  OBVIOUS
<1>2. got \in CitingGot /\ got.iteration + 1 \in Nat
  BY DEF CitingInv, CitingGot
<1>3. got' \in CitingGot
  BY <1>1, <1>2 DEF Citing!Respond, CitingGot
<1> QED BY <1>3 DEF CitingInv, Citing!Respond

LEMMA CitingStep ==
  ASSUME CitingInv, Citing!Next
  PROVE  CitingInv' /\ Citing!AnswerGrows
<1>0. inputs \in Citing!Requests /\ got \in CitingGot
  BY DEF CitingInv
<1>1. ASSUME Citing!NameRequired PROVE CitingInv' /\ Citing!AnswerGrows
  BY <1>0, <1>1 DEF Citing!NameRequired, CitingInv, Citing!AnswerGrows, Citing!Void
<1>2. ASSUME Citing!NoSpecificPaper PROVE CitingInv' /\ Citing!AnswerGrows
  <2>1. Citing!Respond(Citing!Held)
    BY <1>2 DEF Citing!NoSpecificPaper
  <2>2. CitingInv'
    BY <2>1, CitingInputs, CitingResponds
  <2>3. response'.docs = Citing!Held
    BY <2>1 DEF Citing!Respond, Citing!Complete
  <2> QED BY <2>2, <2>3, CitingInputs, CitingSame DEF Citing!AnswerGrows
<1>3. ASSUME Citing!Start PROVE CitingInv' /\ Citing!AnswerGrows
  <2>1. /\ got' = [got EXCEPT !.fetched = [i \in DOMAIN inputs.anchors |-> Pending]]
        /\ pc' = "fetch" /\ inputs' = inputs /\ response' = response
    BY <1>3 DEF Citing!Start
  <2>2. [i \in DOMAIN inputs.anchors |-> Pending] \in Seq({Pending, Failed} \cup Seq(CitingAll))
    <3>1. DOMAIN inputs.anchors = 1..Len(inputs.anchors) /\ Len(inputs.anchors) \in Nat
      BY CitingInputs
    <3>2. [i \in 1..Len(inputs.anchors) |-> Pending] \in [1..Len(inputs.anchors) -> {Pending, Failed} \cup Seq(CitingAll)]
      OBVIOUS
    <3>3. [i \in 1..Len(inputs.anchors) |-> Pending] \in Seq({Pending, Failed} \cup Seq(CitingAll))
      BY <3>1, <3>2, FunctionIsSeq
    <3> QED BY <3>1, <3>3
  <2>3. got' \in CitingGot /\ got'.fetched = [i \in DOMAIN inputs.anchors |-> Pending]
    BY <1>0, <2>1, <2>2 DEF CitingGot
  <2>4. CitingFetched'
    BY <2>1, <2>3 DEF CitingFetched
  <2> QED BY <1>0, <2>1, <2>3, <2>4 DEF CitingInv, Citing!AnswerGrows
<1>4. ASSUME NEW i \in DOMAIN got.fetched, Citing!FetchAnswers(i) PROVE CitingInv' /\ Citing!AnswerGrows
  <2>1. PICK s \in {Citing!FetchCitingPapers(i), Failed} : got' = [got EXCEPT !.fetched[i] = s]
    BY <1>4 DEF Citing!FetchAnswers
  <2>2. pc = "fetch" /\ UNCHANGED <<inputs, pc, response>>
    BY <1>4 DEF Citing!FetchAnswers
  <2>3. CitingFetched
    BY <2>2 DEF CitingInv
  <2>4. \/ s = Failed
        \/ /\ s \in Seq(CitingAll)
           /\ DocsOf(s) \subseteq DocsOf(CitingOf[inputs.anchors[i]])
    <3> DEFINE from == CitingOf[inputs.anchors[i]]
               F == IF inputs.years THEN CitingFitting ELSE CitingAll
               G == {d \in CitingAll : CitingSnippets[d] > 0}
               fit == Kept(from, F)
    <3>1. Citing!FetchCitingPapers(i) = IF inputs.authors /\ fit # << >> THEN Failed ELSE Kept(fit, G)
      BY CitingSame DEF Citing!FetchCitingPapers
    <3>2. from \in Seq(CitingAll)
      <4>1. i \in DOMAIN inputs.anchors
        BY <2>3 DEF CitingFetched
      <4>2. inputs.anchors[i] \in CitingAll
        BY <4>1, CitingInputs
      <4> QED BY <4>2, CitingConstants
    <3> HIDE DEF F, G
    <3>3. fit \in Seq(CitingAll) /\ DocsOf(fit) \subseteq DocsOf(from)
      <4> HIDE DEF from
      <4> QED BY <3>2, KeptIs
    <3>4. Kept(fit, G) \in Seq(CitingAll) /\ DocsOf(Kept(fit, G)) \subseteq DocsOf(fit)
      <4> HIDE DEF fit
      <4> QED BY <3>3, KeptIs
    <3> HIDE DEF fit
    <3> QED BY <2>1, <3>1, <3>3, <3>4
  <2>5. got.fetched \in Seq({Pending, Failed} \cup Seq(CitingAll))
    BY <1>0 DEF CitingGot
  <2>6. [got.fetched EXCEPT ![i] = s] \in Seq({Pending, Failed} \cup Seq(CitingAll))
    BY <2>4, <2>5
  <2>7. got' \in CitingGot /\ got'.fetched = [got.fetched EXCEPT ![i] = s]
    BY <1>0, <2>1, <2>6 DEF CitingGot
  <2>8. CitingFetched'
    <3>1. DOMAIN got'.fetched = DOMAIN got.fetched /\ inputs' = inputs
      BY <2>2, <2>7
    <3>2. \A j \in DOMAIN got.fetched : got'.fetched[j] = IF j = i THEN s ELSE got.fetched[j]
      BY <2>7
    <3> QED BY <2>3, <2>4, <3>1, <3>2 DEF CitingFetched
  <2> QED BY <1>0, <2>2, <2>7, <2>8 DEF CitingInv, Citing!AnswerGrows
<1>5. ASSUME Citing!Rerank PROVE CitingInv' /\ Citing!AnswerGrows
  <2> DEFINE found == Citing!CitingPapersFound
  <2>1. pc = "fetch" /\ Citing!Gathered /\ pc' = "sort" /\ inputs' = inputs /\ response' = response
    BY <1>5 DEF Citing!Rerank
  <2>2. CitingFetched
    BY <2>1 DEF CitingInv
  <2>3. PICK a \in Citing!Answers(found) \cup {Citing!Zeros(found)} : got' = [got EXCEPT !.scores = a]
    BY <1>5 DEF Citing!Rerank
  <2>4. found \in Seq(CitingAll)
    BY <2>1, <2>2, CitingFound
  <2> HIDE DEF found
  <2>5. a \in [DOMAIN found -> [doc : CitingAll, score : Int]]
    <3>1. DocsOf(found) \subseteq CitingAll
      BY <2>4, DocsOfSeq
    <3>2. CASE a \in Citing!Answers(found)
      <4>1. a \in [DOMAIN found -> [doc : DocsOf(found), score : CitingRerankScores]]
        BY <3>2, CitingSame DEF Citing!Answers
      <4> QED BY <3>1, <4>1, CitingConstants
    <3>3. CASE a = Citing!Zeros(found)
      <4>1. a = [i \in DOMAIN found |-> [doc |-> found[i], score |-> 0]]
        BY <3>3 DEF Citing!Zeros
      <4>2. \A i \in DOMAIN found : found[i] \in CitingAll
        BY <2>4
      <4> QED BY <4>1, <4>2
    <3> QED BY <3>2, <3>3
  <2>6. a \in Seq([doc : CitingAll, score : Int]) /\ DOMAIN a = DOMAIN found
    <3>1. DOMAIN found = 1..Len(found) /\ Len(found) \in Nat
      BY <2>4
    <3> QED BY <2>5, <3>1, FunctionIsSeq
  <2>7. got' \in CitingGot /\ got'.scores = a /\ got'.fetched = got.fetched
    BY <1>0, <2>3, <2>6 DEF CitingGot
  <2>8. CitingFetched' /\ Citing!Gathered' /\ Citing!CitingPapersFound' = found
    BY <2>1, <2>2, <2>7 DEF CitingFetched, Citing!Gathered, Citing!CitingPapersFound, found
  <2> QED BY <1>0, <2>1, <2>6, <2>7, <2>8 DEF CitingInv, Citing!AnswerGrows
<1>6. ASSUME Citing!Sort PROVE CitingInv' /\ Citing!AnswerGrows
  <2> DEFINE held == Citing!Held
             results == Merged(inputs.anchors, Citing!Sorted)
             s == IF held = << >> THEN results ELSE Merged(held, results)
  <2>1. pc = "sort" /\ Citing!Respond(s)
    BY <1>6, CitingSame DEF Citing!Sort
  <2>2. /\ Citing!Sorted \in Seq(CitingAll)
        /\ DocsOf(Citing!Sorted) = DocsOf(Citing!CitingPapersFound)
        /\ \A d \in DocsOf(Citing!CitingPapersFound) :
              \E p \in DocsOf(inputs.anchors) : d \in DocsOf(CitingOf[p])
    BY <2>1, CitingSorts, CitingFound DEF CitingInv
  <2>3. results \in Seq(CitingAll) /\ DocsOf(results) = DocsOf(inputs.anchors) \cup DocsOf(Citing!Sorted)
    BY <2>2, CitingInputs, MergedIs
  <2>4. /\ held \in Seq(CitingAll)
        /\ DocsOf(held) = DocsOf(got.checkpoint) \cup DocsOf(inputs.docs)
    BY CitingInputs
  <2> HIDE DEF held, results
  <2>5. s \in Seq(CitingAll) /\ DocsOf(s) = DocsOf(held) \cup DocsOf(results)
    <3>1. CASE held = << >>
      <4>1. DocsOf(held) = {}
        BY <3>1 DEF DocsOf
      <4> QED BY <2>3, <3>1, <4>1
    <3>2. CASE held # << >>
      BY <2>3, <2>4, <3>2, MergedIs
    <3> QED BY <3>1, <3>2
  <2> HIDE DEF s
  <2>6. CitingInv'
    BY <2>1, <2>5, CitingResponds
  <2>7. response'.docs = s
    BY <2>1 DEF Citing!Respond, Citing!Complete
  <2>8. Citing!AnswerGrows
    BY <2>2, <2>3, <2>4, <2>5, <2>7, CitingSame DEF Citing!AnswerGrows
  <2> QED BY <2>6, <2>8
<1>7. ASSUME Citing!CallAgain PROVE CitingInv' /\ Citing!AnswerGrows
  BY <1>0, <1>7 DEF Citing!CallAgain, CitingInv, Citing!AnswerGrows, Citing!NoResponse, Citing!Requests, CitingGot
<1> QED BY <1>1, <1>2, <1>3, <1>4, <1>5, <1>6, <1>7 DEF Citing!Next

WhileCiting == agent = "citing" => CitingInv

\* Whatever cites the anchors, whichever fetch fails and however the reranker
\* answers, nothing the citing papers agent answered or was given is missing from
\* its next answer, and what is new cites an anchor or is one.
THEOREM CitingAnswersGrow == AgentsSpec => AnswersGrow
<1>1. AgentsInit => WhileCiting
  BY CitingInit DEF AgentsInit, WhileCiting
<1>2. WhileCiting /\ [AgentsNext]_all => WhileCiting' /\ [agent = "citing" => Citing!AnswerGrows]_all
  <2> SUFFICES ASSUME WhileCiting, [AgentsNext]_all
               PROVE  WhileCiting' /\ [agent = "citing" => Citing!AnswerGrows]_all
    OBVIOUS
  <2>1. CASE CallCiting
    BY <2>1, CitingStep DEF CallCiting, WhileCiting, StayIdle
  <2>2. CASE UNCHANGED all
    <3>1. UNCHANGED <<agent, inputs, pc, got, response>>
      BY <2>2 DEF all, call
    <3> QED BY <2>2, <3>1 DEF WhileCiting, CitingInv, CitingFetched, Citing!Gathered, Citing!CitingPapersFound
  <2>3. CASE ~CallCiting /\ AgentsNext
    BY <2>3 DEF WhileCiting, AgentsNext, Plan, CallName, CallAuthors, CallDense, CallSnowball, CallSnippets,
                CallFast, CallKeyword, CallSorting, StayIdle
  <2> QED BY <2>1, <2>2, <2>3
<1> QED BY <1>1, <1>2, PTL DEF AgentsSpec, AnswersGrow

(***************************************************************************)
(* Orders                                                                  *)
(***************************************************************************)

(***************************************************************************)
(* The search by keywords                                                  *)
(***************************************************************************)
LEMMA KeywordSame ==
  /\ \A s : Keyword!DocsOf(s) = DocsOf(s)
  /\ \A s, n : Keyword!Slice(s, n) = Slice(s, n)
  /\ \A s, key : Keyword!SortedDesc(s, key) = SortedDesc(s, key)
  /\ \A c, w : Keyword!WeightedAverage(c, w) = Weighted!WeightedAverage(c, w)
  /\ Keyword!Empty = << >>
<1>1. \A s : Keyword!DocsOf(s) = DocsOf(s)
  BY DEF Keyword!DocsOf, DocsOf
<1>2. \A s, n : Keyword!Slice(s, n) = Slice(s, n)
  BY DEF Keyword!Slice, Slice
<1>3. \A s, key : Keyword!SortedDesc(s, key) = SortedDesc(s, key)
  BY DEF Keyword!SortedDesc, SortedDesc, Keyword!Cardinality, Cardinality
<1>4. \A c, w : Keyword!WeightedAverage(c, w) = Weighted!WeightedAverage(c, w)
  <2>1. \A S : Keyword!Min(S) = Weighted!Min(S)
    BY DEF Keyword!Min, Weighted!Min
  <2>2. \A c, k : Keyword!Nth(c, k) = Weighted!Nth(c, k)
    BY DEF Keyword!Nth, Weighted!Nth, Keyword!Range, Weighted!Range,
           Keyword!Cardinality, Weighted!Cardinality
  <2>3. \A c : Keyword!Quantile(c) = Weighted!Quantile(c)
    BY <2>2 DEF Keyword!Quantile, Weighted!Quantile, Keyword!Cardinality, Weighted!Cardinality
  <2>4. \A c : Keyword!Normalized(c) = Weighted!Normalized(c)
    BY <2>1, <2>3 DEF Keyword!Normalized, Weighted!Normalized, Keyword!Range, Weighted!Range
  <2>5. \A c, w : Keyword!Turned(c, w) = Weighted!Turned(c, w)
    BY <2>1 DEF Keyword!Turned, Weighted!Turned, Keyword!Known, Weighted!Known
  <2> QED BY <2>4, <2>5 DEF Keyword!WeightedAverage, Weighted!WeightedAverage, Keyword!Abs, Weighted!Abs
<1> QED BY <1>1, <1>2, <1>3, <1>4 DEF Keyword!Empty

LEMMA KeywordConstants ==
  /\ KeywordAnswers \subseteq Seq(KeywordPapers) /\ IsFiniteSet(KeywordPapers)
  /\ \A s \in KeywordAnswers : \A i, j \in DOMAIN s : s[i] = s[j] => i = j
  /\ KeywordColumns \subseteq [year : [KeywordPapers -> Int \cup {Missing}],
                               citations : [KeywordPapers -> Int \cup {Missing}],
                               rerank : [KeywordPapers -> Int \cup {Missing}],
                               snippets : [KeywordPapers -> Int \cup {Missing}]]
  /\ KeywordResultsLimit \in Nat /\ KeywordExtraFactor \in Nat /\ Missing \notin Int
<1>1. Keyword!ColumnsGiven
  BY SearchAgentsAssumption
<1>2. \A S : Keyword!IsFiniteSet(S) = IsFiniteSet(S)
  BY DEF Keyword!IsFiniteSet, IsFiniteSet
<1> QED BY <1>1, <1>2 DEF Keyword!ColumnsGiven

KeywordCollection(s) ==
  /\ s \in Seq(KeywordPapers)
  /\ \A i, j \in DOMAIN s : s[i] = s[j] => i = j

KeywordInv ==
  /\ inputs.columns \in KeywordColumns
  /\ pc = "sort" => KeywordCollection(got)
  /\ pc = "done" => \/ response.docs = << >>
                    \/ /\ KeywordCollection(got)
                       /\ inputs.judge \/ response.docs = Keyword!Results

LEMMA KeywordInit == Keyword!Init => KeywordInv
  BY DEF Keyword!Init, KeywordInv

LEMMA KeywordStep ==
  ASSUME KeywordInv, Keyword!Next
  PROVE  KeywordInv'
<1>1. ASSUME Keyword!Fail PROVE KeywordInv'
  BY <1>1, KeywordSame DEF Keyword!Fail, Keyword!Void, KeywordInv
<1>2. ASSUME Keyword!Search PROVE KeywordInv'
  <2>1. PICK s \in KeywordAnswers : got' = Slice(s, Keyword!Limit)
    BY <1>2, KeywordSame DEF Keyword!Search
  <2>2. KeywordCollection(s)
    BY KeywordConstants DEF KeywordCollection
  <2>3. Keyword!Limit \in Nat
    BY KeywordConstants DEF Keyword!Limit
  <2> DEFINE t == Slice(s, Keyword!Limit)
  <2>4. t \in Seq(KeywordPapers) /\ Len(t) <= Len(s) /\ \A i \in 1..Len(t) : t[i] = s[i]
    <3>1. s \in Seq(KeywordPapers) /\ Len(s) \in Nat
      BY <2>2 DEF KeywordCollection
    <3> QED BY <2>3, <3>1, SliceIs
  <2> HIDE DEF t
  <2>5. DOMAIN t = 1..Len(t) /\ DOMAIN s = 1..Len(s) /\ Len(t) \in Nat /\ Len(s) \in Nat
    BY <2>2, <2>4 DEF KeywordCollection
  <2>6. KeywordCollection(t)
    BY <2>2, <2>4, <2>5 DEF KeywordCollection
  <2>7. got' = t /\ pc' = "sort" /\ inputs' = inputs
    BY <1>2, <2>1 DEF t, Keyword!Search
  <2> QED BY <2>6, <2>7 DEF KeywordInv, KeywordCollection
<1>3. ASSUME Keyword!Respond PROVE KeywordInv'
  <2>1. KeywordCollection(got) /\ UNCHANGED <<inputs, got>> /\ pc' = "done"
    BY <1>3 DEF Keyword!Respond, KeywordInv
  <2>2. inputs.judge \/ response'.docs = Keyword!Results
    BY <1>3 DEF Keyword!Respond, Keyword!Complete
  <2>3. Keyword!Results' = Keyword!Results
    BY <2>1 DEF Keyword!Results, Keyword!Prefers, Keyword!SortKey
  <2>4. inputs'.judge \/ response'.docs = Keyword!Results'
    BY <2>1, <2>2, <2>3
  <2> QED BY <2>1, <2>4 DEF KeywordInv, KeywordCollection
<1> QED BY <1>1, <1>2, <1>3 DEF Keyword!Next, Keyword!NoContent, Keyword!SearchFails, Keyword!LoadFails

KeywordWeights == Keyword!SortingWeights(inputs.prefs)

LEMMA WeightsAre ==
  /\ DOMAIN KeywordWeights = ColumnNames
  /\ \A k \in ColumnNames : KeywordWeights[k] \in Int
  BY DEF KeywordWeights, Keyword!SortingWeights, Keyword!BaseWeights, Keyword!Signed, ColumnNames

\* The weighted average of what was found grows with its columns.
LEMMA KeyGrows ==
  ASSUME KeywordInv, KeywordCollection(got), got # << >>
  PROVE  /\ \A d \in DocsOf(got) : Keyword!SortKey[d] \in Int
         /\ \A d, e \in DocsOf(got) :
               Keyword!AsGood(e, d) => Keyword!SortKey[d] <= Keyword!SortKey[e]
<1> DEFINE D == DocsOf(got)
           columns == [k \in DOMAIN inputs.columns |-> [d \in D |-> inputs.columns[k][d]]]
<1>1. D \subseteq KeywordPapers /\ D # {}
  <2>1. got \in Seq(KeywordPapers)
    BY DEF KeywordCollection
  <2>2. got[1] \in D
    BY <2>1 DEF DocsOf
  <2> QED BY <2>1, <2>2, DocsOfSeq
<1>2. IsFiniteSet(D)
  BY <1>1, KeywordConstants, FS_Subset
<1>3. Keyword!SortKey = Weighted!WeightedAverage(columns, KeywordWeights)
  BY KeywordSame DEF Keyword!SortKey, KeywordWeights
<1>4. /\ DOMAIN inputs.columns = ColumnNames
      /\ \A k \in ColumnNames : inputs.columns[k] \in [KeywordPapers -> Int \cup {Missing}]
  <2>1. inputs.columns \in [year : [KeywordPapers -> Int \cup {Missing}],
                            citations : [KeywordPapers -> Int \cup {Missing}],
                            rerank : [KeywordPapers -> Int \cup {Missing}],
                            snippets : [KeywordPapers -> Int \cup {Missing}]]
    BY KeywordConstants DEF KeywordInv
  <2> QED BY <2>1 DEF ColumnNames
<1>5. \A k \in ColumnNames : columns[k] \in [D -> Int \cup {Missing}]
  <2> TAKE k \in ColumnNames
  <2>1. columns[k] = [d \in D |-> inputs.columns[k][d]]
    BY <1>4
  <2> HIDE DEF D, columns
  <2> QED BY <1>1, <1>4, <2>1
<1>6. DOMAIN columns = ColumnNames
  BY <1>4
<1>7. \A k \in ColumnNames : \A d \in D : columns[k][d] = inputs.columns[k][d]
  BY <1>4
<1> HIDE DEF columns, D
<1>8. DOMAIN KeywordWeights \subseteq ColumnNames /\ DOMAIN columns = DOMAIN KeywordWeights
      /\ DOMAIN KeywordWeights # {}
      /\ \A k \in DOMAIN KeywordWeights :
            KeywordWeights[k] \in Int /\ columns[k] \in [D -> Int \cup {Missing}]
  <2>1. "year" \in ColumnNames
    BY DEF ColumnNames
  <2> QED BY <1>5, <1>6, <2>1, WeightsAre
<1>9. /\ Keyword!SortKey \in [D -> Int]
      /\ \A d, e \in D :
           (\A k \in DOMAIN KeywordWeights :
               KeywordWeights[k] # 0 => NoWorse(columns[k][d], columns[k][e], KeywordWeights[k])) =>
           Keyword!SortKey[d] <= Keyword!SortKey[e]
  BY <1>1, <1>2, <1>3, <1>8, KeywordConstants, AverageIs
<1>10. ASSUME NEW d \in D, NEW e \in D, Keyword!AsGood(e, d)
       PROVE  Keyword!SortKey[d] <= Keyword!SortKey[e]
  <2>1. ASSUME NEW k \in DOMAIN KeywordWeights, KeywordWeights[k] # 0
        PROVE  NoWorse(columns[k][d], columns[k][e], KeywordWeights[k])
    <3>1. \/ inputs.columns[k][d] = Missing
          \/ /\ inputs.columns[k][e] # Missing
             /\ IF KeywordWeights[k] > 0 THEN inputs.columns[k][e] >= inputs.columns[k][d]
                                         ELSE inputs.columns[k][e] <= inputs.columns[k][d]
      BY <1>10, <2>1 DEF Keyword!AsGood, KeywordWeights
    <3>2. columns[k][d] = inputs.columns[k][d] /\ columns[k][e] = inputs.columns[k][e]
      BY <1>7, WeightsAre
    <3>3. KeywordWeights[k] \in Int
      BY WeightsAre
    <3> QED BY <2>1, <3>1, <3>2, <3>3 DEF NoWorse
  <2> QED BY <1>9, <2>1
<1> QED BY <1>9, <1>10 DEF D

LEMMA KeywordBetterKept ==
  ASSUME KeywordInv
  PROVE  Keyword!BetterKept
<1> SUFFICES ASSUME pc = "done", Keyword!Prefers, ~inputs.judge,
                    NEW d \in DocsOf(response.docs), NEW e \in DocsOf(got),
                    Keyword!AsGood(e, d), Keyword!Position(got, e) < Keyword!Position(got, d)
             PROVE  e \in DocsOf(response.docs)
  BY KeywordSame DEF Keyword!BetterKept
<1>1. response.docs # << >>
  BY DEF DocsOf
<1>2. KeywordCollection(got) /\ response.docs = Keyword!Results
  BY <1>1 DEF KeywordInv
<1>3. got # << >>
  BY DEF DocsOf
<1>4. response.docs = Slice(SortedDesc(got, Keyword!SortKey), KeywordResultsLimit)
  BY <1>2, <1>3, KeywordSame DEF Keyword!Results
<1> DEFINE D == DocsOf(got)
           i == Keyword!Position(got, e)
           j == Keyword!Position(got, d)
<1>5. got \in Seq(D) /\ \A p, q \in DOMAIN got : got[p] = got[q] => p = q
  <2>1. got \in Seq(KeywordPapers)
    BY <1>2 DEF KeywordCollection
  <2> QED BY <1>2, <2>1, SeqOfDocs DEF KeywordCollection
<1>6. \A x \in D : Keyword!SortKey[x] \in Int
  BY <1>2, <1>3, KeyGrows
<1>7. SortedDesc(got, Keyword!SortKey) \in Seq(D) /\ DocsOf(SortedDesc(got, Keyword!SortKey)) = DocsOf(got)
  <2> HIDE DEF D
  <2> QED BY <1>5, <1>6, SortedIs
<1>8. d \in D
  <2> DEFINE sorted == SortedDesc(got, Keyword!SortKey)
             slice == Slice(sorted, KeywordResultsLimit)
  <2>1. sorted \in Seq(D)
    BY <1>7
  <2> HIDE DEF D, sorted
  <2>2. slice \in Seq(D)
    BY <2>1, KeywordConstants, SliceIs
  <2>3. d \in DocsOf(slice)
    BY <1>4 DEF sorted
  <2> HIDE DEF slice
  <2> QED BY <2>2, <2>3, DocsOfSeq
<1>9. i \in DOMAIN got /\ got[i] = e /\ j \in DOMAIN got /\ got[j] = d
  BY <1>8 DEF DocsOf, Keyword!Position
<1>10. Keyword!SortKey[d] <= Keyword!SortKey[e]
  BY <1>2, <1>3, <1>8, KeyGrows
<1>11. Keyword!SortKey[d] \in Int /\ Keyword!SortKey[e] \in Int
  BY <1>6, <1>8
<1>12. i < j /\ Keyword!SortKey[got[i]] >= Keyword!SortKey[got[j]]
  BY <1>9, <1>10, <1>11
<1>13. got[j] \in DocsOf(Slice(SortedDesc(got, Keyword!SortKey), KeywordResultsLimit))
  BY <1>4, <1>9
<1> HIDE DEF D, i, j
<1>14. got[i] \in DocsOf(Slice(SortedDesc(got, Keyword!SortKey), KeywordResultsLimit))
  BY <1>5, <1>6, <1>9, <1>12, <1>13, KeywordConstants, SliceOfSorted
<1> QED BY <1>4, <1>9, <1>14

(***************************************************************************)
(* The order of the paper finder's answer                                  *)
(***************************************************************************)
LEMMA SortSame ==
  /\ \A s : Sort!DocsOf(s) = DocsOf(s)
  /\ \A s, key : Sort!SortedDesc(s, key) = SortedDesc(s, key)
  /\ \A S : Sort!Cardinality(S) = Cardinality(S)
  BY DEF Sort!DocsOf, DocsOf, Sort!SortedDesc, SortedDesc, Sort!Cardinality, Cardinality

LEMMA SortConstants ==
  /\ IsFiniteSet(SortPapers)
  /\ SortFeatures \subseteq
       [SortPapers -> [relevance : 0..300 \cup {Unknown}, rerank : 0..300 \cup {Unknown},
                       snippets : DOMAIN SortSnippetScore, year : SortYears \cup {Unknown},
                       citations : SortCounts \cup {Unknown}]]
  /\ SortExtracted \subseteq [recent : {"none", "first", "last", "both"},
                       central : {"none", "first", "last", "both"}]
  /\ \A y \in SortYears : SortRecentFirst[y] \in 0..300 /\ SortRecentLast[y] \in 0..300
  /\ \A n \in SortCounts : SortCentralFirst[n] \in 0..300
  /\ \A n \in DOMAIN SortSnippetScore : SortSnippetScore[n] \in 0..300
<1>1. Sort!FeaturesGiven /\ Sort!SigmoidShapes
  BY SearchAgentsAssumption
<1>2. \A S : Sort!IsFiniteSet(S) = IsFiniteSet(S)
  BY DEF Sort!IsFiniteSet, IsFiniteSet
<1> QED BY <1>1, <1>2 DEF Sort!FeaturesGiven, Sort!SigmoidShapes, Sort!Unit

SortKeys == [d \in SortPapers |-> Sort!BroadSearchScore(d)]

SortInv ==
  /\ inputs.docs \in Seq(SortPapers) /\ DocsOf(inputs.docs) = SortPapers
  /\ inputs.features \in SortFeatures /\ inputs.extracted \in SortExtracted
  /\ pc = "done" => response.docs = SortedDesc(inputs.docs, SortKeys)

\* As many papers as there are, no two the same, are all of them.
LEMMA AllPapers ==
  ASSUME NEW s \in Sort!Collections(SortPapers), Len(s) = Cardinality(SortPapers)
  PROVE  s \in Seq(SortPapers) /\ DocsOf(s) = SortPapers
<1>1. PICK n \in 0..Cardinality(SortPapers) : s \in [1..n -> SortPapers]
  BY SortSame DEF Sort!Collections
<1>2. IsFiniteSet(SortPapers) /\ Cardinality(SortPapers) \in Nat
  BY SortConstants, FS_CardinalityType
<1>3. n \in Nat
  BY <1>1, <1>2
<1>4. s \in Seq(SortPapers) /\ Len(s) = n /\ DOMAIN s = 1..n
  BY <1>1, <1>3, FunctionIsSeq
<1>5. \A i, j \in 1..n : s[i] = s[j] => i = j
  BY <1>4 DEF Sort!Collections
<1> DEFINE D == DocsOf(s)
<1>6. D \subseteq SortPapers /\ D = {s[i] : i \in 1..n}
  BY <1>4, DocsOfSeq
<1> HIDE DEF D
<1>7. s \in Bijection(1..n, D)
  <2>1. s \in [1..n -> D]
    BY <1>1, <1>6
  <2> QED BY <1>5, <1>6, <2>1 DEF Bijection, Injection, Surjection, IsInjective
<1>8. IsFiniteSet(1..n) /\ Cardinality(1..n) = n
  BY <1>3, Count
<1>9. Cardinality(D) = n
  BY <1>7, <1>8, FS_Bijection DEF ExistsBijection
<1>10. D = SortPapers
  BY <1>2, <1>4, <1>6, <1>9, FS_Subset
<1> QED BY <1>4, <1>10 DEF D

LEMMA SortInit == Sort!Init => SortInv
<1> SUFFICES ASSUME Sort!Init PROVE SortInv
  OBVIOUS
<1>1. inputs.docs \in Sort!Collections(SortPapers) /\ Len(inputs.docs) = Cardinality(SortPapers)
  BY SortSame DEF Sort!Init
<1> QED BY <1>1, AllPapers DEF Sort!Init, SortInv

LEMMA SortStep ==
  ASSUME SortInv, Sort!Next
  PROVE  SortInv'
<1>1. CASE Sort!Load
  BY <1>1 DEF Sort!Load, SortInv
<1>2. CASE Sort!SortedDocsByPreferences
  <2>1. UNCHANGED <<inputs, got>> /\ response'.docs = SortedDesc(inputs.docs, SortKeys)
    BY <1>2, SortSame DEF Sort!SortedDocsByPreferences, Sort!Complete, SortKeys
  <2>2. SortKeys' = SortKeys
    BY <2>1 DEF SortKeys, Sort!BroadSearchScore, Sort!ScoringWeights, Sort!ContentRelevance,
                Sort!Recency, Sort!Centrality, Sort!ValueOf, Sort!RecentExplicit, Sort!CentralExplicit,
                Sort!RecentLastWanted, Sort!CentralLastWanted
  <2> QED BY <2>1, <2>2 DEF SortInv
<1> QED BY <1>1, <1>2 DEF Sort!Next

\* The weights, and how far each of the parts of a score can go.
LEMMA PartsOfScore ==
  ASSUME SortInv, NEW d \in SortPapers
  PROVE  /\ Sort!Max0(Sort!ValueOf(d, "relevance")) \in 0..300
         /\ Sort!Max0(Sort!ValueOf(d, "rerank")) \in 0..300
         /\ SortSnippetScore[inputs.features[d].snippets] \in 0..300
         /\ Sort!Recency(d) \in 0..300
         /\ Sort!Centrality(d) \in 0..300
<1> DEFINE f == inputs.features[d]
<1>1. /\ f.relevance \in 0..300 \cup {Unknown} /\ f.rerank \in 0..300 \cup {Unknown}
      /\ f.snippets \in DOMAIN SortSnippetScore /\ f.year \in SortYears \cup {Unknown}
      /\ f.citations \in SortCounts \cup {Unknown}
  <2>1. f \in [relevance : 0..300 \cup {Unknown}, rerank : 0..300 \cup {Unknown},
               snippets : DOMAIN SortSnippetScore, year : SortYears \cup {Unknown},
               citations : SortCounts \cup {Unknown}]
    BY SortConstants DEF SortInv
  <2> HIDE DEF f
  <2> QED BY <2>1
<1>2. \A field : Sort!ValueOf(d, field) \in {f[field], Unknown}
  BY DEF Sort!ValueOf
<1> HIDE DEF f
<1>3. Sort!Max0(Sort!ValueOf(d, "relevance")) \in 0..300
  <2>1. Sort!ValueOf(d, "relevance") \in 0..300 \cup {Unknown}
    BY <1>1, <1>2
  <2> QED BY <2>1 DEF Sort!Max0
<1>4. Sort!Max0(Sort!ValueOf(d, "rerank")) \in 0..300
  <2>1. Sort!ValueOf(d, "rerank") \in 0..300 \cup {Unknown}
    BY <1>1, <1>2
  <2> QED BY <2>1 DEF Sort!Max0
<1>5. SortSnippetScore[inputs.features[d].snippets] \in 0..300
  BY <1>1, SortConstants DEF f
<1>6. Sort!Recency(d) \in 0..300
  <2>1. Sort!ValueOf(d, "year") \in SortYears \cup {Unknown}
    BY <1>1, <1>2
  <2> QED BY <2>1, SortConstants DEF Sort!Recency
<1>7. Sort!Centrality(d) \in 0..300
  <2>1. Sort!ValueOf(d, "citations") \in SortCounts \cup {Unknown}
    BY <1>1, <1>2
  <2> DEFINE n == Sort!ValueOf(d, "citations")
             first == IF n = Unknown THEN 0 ELSE SortCentralFirst[n]
  <2>2. first \in 0..300
    BY <2>1, SortConstants
  <2>3. Sort!Centrality(d) = IF Sort!CentralLastWanted THEN 300 - first ELSE first
    BY DEF Sort!Centrality, Sort!Unit
  <2> HIDE DEF first
  <2>4. 300 - first \in 0..300
    BY <2>2
  <2> QED BY <2>2, <2>3, <2>4, Zenon
<1> QED BY <1>3, <1>4, <1>5, <1>6, <1>7

LEMMA ContentIs ==
  ASSUME SortInv, NEW d \in SortPapers
  PROVE  /\ Sort!ContentRelevance(d) \in Nat
         /\ Sort!ContentRelevance(d) =
              900 * Sort!Max0(Sort!ValueOf(d, "relevance"))
              + 75 * Sort!Max0(Sort!ValueOf(d, "rerank"))
              + 25 * SortSnippetScore[inputs.features[d].snippets]
<1>2. /\ Sort!Max0(Sort!ValueOf(d, "relevance")) \in 0..300
      /\ Sort!Max0(Sort!ValueOf(d, "rerank")) \in 0..300
      /\ SortSnippetScore[inputs.features[d].snippets] \in 0..300
  BY PartsOfScore
<1> DEFINE r == Sort!Max0(Sort!ValueOf(d, "relevance"))
           k == Sort!Max0(Sort!ValueOf(d, "rerank"))
           n == SortSnippetScore[inputs.features[d].snippets]
<1>3. Sort!ContentRelevance(d) = 900 * r + 75 * k + 25 * n
  BY Zenon DEF Sort!ContentRelevance
<1> HIDE DEF r, k, n
<1>4. r \in Nat /\ k \in Nat /\ n \in Nat
  BY <1>2 DEF r, k, n
<1>5. 900 * r \in Nat /\ 75 * k \in Nat /\ 25 * n \in Nat
  BY <1>4
<1>6. Sort!ContentRelevance(d) = 900 * r + 75 * k + 25 * n
  BY <1>3, <1>5
<1>7. 900 * r + 75 * k + 25 * n \in Nat
  BY <1>5
<1> QED BY <1>6, <1>7 DEF r, k, n

LEMMA WeightIs ==
  /\ Sort!ScoringWeights.content \in Nat
  /\ Sort!ScoringWeights.recent \in Nat \ {0}
  /\ Sort!ScoringWeights.central \in Nat \ {0}
  BY DEF Sort!ScoringWeights

LEMMA ScoreIs ==
  ASSUME SortInv, NEW d \in SortPapers
  PROVE  Sort!BroadSearchScore(d) \in Int /\ SortKeys[d] = Sort!BroadSearchScore(d)
<1> DEFINE w == Sort!ScoringWeights
<1>1. w.content \in Int /\ w.recent \in Int /\ w.central \in Int
  BY WeightIs
<1>2. Sort!ContentRelevance(d) \in Int /\ Sort!Recency(d) \in Int /\ Sort!Centrality(d) \in Int
  BY ContentIs, PartsOfScore
<1>3. Sort!BroadSearchScore(d) = w.content * Sort!ContentRelevance(d) + 1000 * w.recent * Sort!Recency(d)
                                 + 1000 * w.central * Sort!Centrality(d)
  BY DEF Sort!BroadSearchScore
<1> HIDE DEF w
<1> QED BY <1>1, <1>2, <1>3 DEF SortKeys

\* A paper of a greater score comes first.
LEMMA GreaterFirst ==
  ASSUME SortInv, pc = "done", NEW d \in SortPapers, NEW e \in SortPapers,
         Sort!BroadSearchScore(d) > Sort!BroadSearchScore(e)
  PROVE  Sort!Before(d, e)
<1> DEFINE s == inputs.docs
           sorted == SortedDesc(s, SortKeys)
           i == Sort!Position(sorted, d)
           j == Sort!Position(sorted, e)
<1>1. s \in Seq(SortPapers) /\ DocsOf(s) = SortPapers /\ response.docs = sorted
  BY DEF SortInv
<1>2. \A x \in SortPapers : SortKeys[x] \in Int
  BY ScoreIs
<1> HIDE DEF s
<1>3. /\ sorted \in Seq(SortPapers) /\ Len(sorted) = Len(s) /\ DocsOf(sorted) = SortPapers
      /\ \A p, q \in 1..Len(s) : p < q => SortKeys[sorted[p]] >= SortKeys[sorted[q]]
  BY <1>1, <1>2, SortedIs
<1> HIDE DEF sorted
<1>4. DOMAIN sorted = 1..Len(s) /\ Len(s) \in Nat
  BY <1>1, <1>3
<1>5. i \in 1..Len(s) /\ sorted[i] = d /\ j \in 1..Len(s) /\ sorted[j] = e
  BY <1>3, <1>4 DEF DocsOf, Sort!Position
<1>6. SortKeys[d] > SortKeys[e] /\ SortKeys[d] \in Int /\ SortKeys[e] \in Int
  BY ScoreIs
<1> HIDE DEF i, j
<1>7. ~ (j < i) /\ i # j
  BY <1>3, <1>5, <1>6
<1>8. i < j
  BY <1>4, <1>5, <1>7
<1> QED BY <1>1, <1>8 DEF Sort!Before, i, j

\* Two levels of relevance are more than 17 hundredths.
LEMMA TwoLevels ==
  ASSUME NEW r \in 0..300, NEW q \in 0..300, Sort!Level(r) >= Sort!Level(q) + 2
  PROVE  r >= q + 51
<1>1. \A n \in 0..300 : Sort!Level(n) = IF n <= 75 THEN 0 ELSE IF n <= 201 THEN 1
                                       ELSE IF n <= 297 THEN 2 ELSE 3
  <2>1. (25 * 300) \div 100 = 75 /\ (67 * 300) \div 100 = 201 /\ (99 * 300) \div 100 = 297
    OBVIOUS
  <2> QED BY <2>1 DEF Sort!Level, Sort!Unit
<1> QED BY <1>1

LEMMA RelevanceFirst ==
  ASSUME SortInv
  PROVE  Sort!RelevanceDominates
<1> SUFFICES ASSUME pc = "done", inputs.content, ~Sort!RecentExplicit, ~Sort!CentralExplicit,
                    NEW d \in SortPapers, NEW e \in SortPapers,
                    \/ 100 * Sort!Judgement(d) >= 100 * Sort!Judgement(e) + 17 * Sort!Unit
                    \/ Sort!Level(Sort!Judgement(d)) >= Sort!Level(Sort!Judgement(e)) + 2
             PROVE  Sort!Before(d, e)
  BY DEF Sort!RelevanceDominates
<1>1. Sort!ScoringWeights = [content |-> 950, recent |-> 25, central |-> 25]
  BY DEF Sort!ScoringWeights
<1>2. \A x \in SortPapers : Sort!BroadSearchScore(x) = 950 * Sort!ContentRelevance(x)
                               + 25000 * Sort!Recency(x) + 25000 * Sort!Centrality(x)
  <2> TAKE x \in SortPapers
  <2>1. Sort!ContentRelevance(x) \in Nat
    BY ContentIs
  <2>2. Sort!Recency(x) \in 0..300 /\ Sort!Centrality(x) \in 0..300
    BY PartsOfScore
  <2> QED BY <1>1, <2>1, <2>2 DEF Sort!BroadSearchScore
<1> DEFINE rd == Sort!Max0(Sort!ValueOf(d, "relevance"))
           re == Sort!Max0(Sort!ValueOf(e, "relevance"))
           cd == Sort!ContentRelevance(d)
           ce == Sort!ContentRelevance(e)
<1>3. rd \in 0..300 /\ re \in 0..300 /\ rd >= re + 51
  <2>1. rd \in 0..300 /\ re \in 0..300 /\ rd = Sort!Judgement(d) /\ re = Sort!Judgement(e)
    BY PartsOfScore DEF Sort!Judgement
  <2> HIDE DEF rd, re
  <2>2. CASE 100 * rd >= 100 * re + 17 * Sort!Unit
    <3>1. Sort!Unit = 300
      BY DEF Sort!Unit
    <3> QED BY <2>1, <2>2, <3>1
  <2>3. CASE Sort!Level(rd) >= Sort!Level(re) + 2
    BY <2>1, <2>3, TwoLevels
  <2> QED BY <2>1, <2>2, <2>3
<1>4. cd \in Nat /\ cd >= 900 * rd
  <2> DEFINE k == Sort!Max0(Sort!ValueOf(d, "rerank"))
             n == SortSnippetScore[inputs.features[d].snippets]
  <2>1. cd \in Nat /\ cd = 900 * rd + 75 * k + 25 * n
    BY ContentIs
  <2>2. k \in 0..300 /\ n \in 0..300
    BY PartsOfScore
  <2> HIDE DEF cd, rd, k, n
  <2> QED BY <1>3, <2>1, <2>2
<1>5. ce \in Nat /\ ce <= 900 * re + 30000
  <2> DEFINE k == Sort!Max0(Sort!ValueOf(e, "rerank"))
             n == SortSnippetScore[inputs.features[e].snippets]
  <2>1. ce \in Nat /\ ce = 900 * re + 75 * k + 25 * n
    BY ContentIs
  <2>2. k \in 0..300 /\ n \in 0..300
    BY PartsOfScore
  <2> HIDE DEF ce, re, k, n
  <2> QED BY <1>3, <2>1, <2>2
<1>6. /\ Sort!Recency(d) \in 0..300 /\ Sort!Centrality(d) \in 0..300
      /\ Sort!Recency(e) \in 0..300 /\ Sort!Centrality(e) \in 0..300
  BY PartsOfScore
<1>7. /\ Sort!BroadSearchScore(d) = 950 * cd + 25000 * Sort!Recency(d) + 25000 * Sort!Centrality(d)
      /\ Sort!BroadSearchScore(e) = 950 * ce + 25000 * Sort!Recency(e) + 25000 * Sort!Centrality(e)
  BY <1>2
<1> HIDE DEF rd, re, cd, ce
<1> DEFINE yd == Sort!Recency(d)
           ye == Sort!Recency(e)
           zd == Sort!Centrality(d)
           ze == Sort!Centrality(e)
<1>8. yd \in 0..300 /\ ye \in 0..300 /\ zd \in 0..300 /\ ze \in 0..300
  BY <1>6
<1>9. Sort!BroadSearchScore(d) = 950 * cd + 25000 * yd + 25000 * zd
  BY <1>7
<1>10. Sort!BroadSearchScore(e) = 950 * ce + 25000 * ye + 25000 * ze
  BY <1>7
<1> HIDE DEF yd, ye, zd, ze
<1>11. 950 * cd + 25000 * yd + 25000 * zd > 950 * ce + 25000 * ye + 25000 * ze
  <2>1. cd >= ce + 15900 /\ cd \in Nat /\ ce \in Nat
    BY <1>3, <1>4, <1>5
  <2>2. 25000 * ye + 25000 * ze <= 15000000 /\ 25000 * yd + 25000 * zd >= 0
    BY <1>8
  <2>3. 950 * cd >= 950 * ce + 15105000
    BY <2>1
  <2> QED BY <1>8, <2>1, <2>2, <2>3
<1>12. Sort!BroadSearchScore(d) > Sort!BroadSearchScore(e)
  BY <1>9, <1>10, <1>11
<1> QED BY <1>12, GreaterFirst

LEMMA RecencyFirst ==
  ASSUME SortInv
  PROVE  Sort!RecencyRespected
<1> SUFFICES ASSUME pc = "done", Sort!RecentExplicit, "year" \in got,
                    NEW d \in SortPapers, NEW e \in SortPapers,
                    [inputs.features[d] EXCEPT !.year = inputs.features[e].year] = inputs.features[e],
                    inputs.features[d].year # Unknown,
                    \/ /\ inputs.features[e].year = Unknown
                       /\ Sort!Recency(d) > 0
                    \/ /\ inputs.features[e].year # Unknown
                       /\ inputs.extracted.recent = "first"
                       /\ SortRecentFirst[inputs.features[d].year] > SortRecentFirst[inputs.features[e].year]
                    \/ /\ inputs.features[e].year # Unknown
                       /\ inputs.extracted.recent \in {"last", "both"}
                       /\ SortRecentLast[inputs.features[d].year] > SortRecentLast[inputs.features[e].year]
             PROVE  Sort!Before(d, e)
  BY DEF Sort!RecencyRespected
<1>1. inputs.features[d] \in [relevance : 0..300 \cup {Unknown}, rerank : 0..300 \cup {Unknown},
                              snippets : DOMAIN SortSnippetScore, year : SortYears \cup {Unknown},
                              citations : SortCounts \cup {Unknown}]
  BY SortConstants DEF SortInv
<1>2. \A field \in {"relevance", "rerank", "snippets", "citations"} :
         inputs.features[d][field] = inputs.features[e][field]
  BY <1>1
<1>3. /\ Sort!ValueOf(d, "relevance") = Sort!ValueOf(e, "relevance")
      /\ Sort!ValueOf(d, "rerank") = Sort!ValueOf(e, "rerank")
      /\ Sort!ValueOf(d, "citations") = Sort!ValueOf(e, "citations")
      /\ inputs.features[d].snippets = inputs.features[e].snippets
  BY <1>2 DEF Sort!ValueOf
<1>4. Sort!ContentRelevance(d) = Sort!ContentRelevance(e) /\ Sort!Centrality(d) = Sort!Centrality(e)
  BY <1>3 DEF Sort!ContentRelevance, Sort!Centrality
<1>5. Sort!ValueOf(d, "year") = inputs.features[d].year /\ Sort!ValueOf(e, "year") = inputs.features[e].year
  BY DEF Sort!ValueOf
<1>6. Sort!Recency(d) > Sort!Recency(e)
  <2>1. inputs.extracted.recent \in {"first", "last", "both"}
    BY SortConstants DEF SortInv, Sort!RecentExplicit
  <2>2. CASE inputs.features[e].year = Unknown
    BY <1>5, <2>2 DEF Sort!Recency
  <2>3. CASE inputs.features[e].year # Unknown /\ inputs.extracted.recent = "first"
    BY <1>5, <2>3 DEF Sort!Recency, Sort!RecentLastWanted
  <2>4. CASE inputs.features[e].year # Unknown /\ inputs.extracted.recent \in {"last", "both"}
    BY <1>5, <2>4 DEF Sort!Recency, Sort!RecentLastWanted
  <2> QED BY <2>1, <2>2, <2>3, <2>4
<1> DEFINE w == Sort!ScoringWeights
           c == w.content * Sort!ContentRelevance(d)
           z == 1000 * w.central * Sort!Centrality(d)
           m == 1000 * w.recent
<1>7. /\ w.content \in Int /\ w.central \in Int /\ w.recent \in Int /\ w.recent > 0
      /\ Sort!ContentRelevance(d) \in Int /\ Sort!Centrality(d) \in Int
      /\ Sort!Recency(d) \in Int /\ Sort!Recency(e) \in Int
  <2>1. w.content \in Int /\ w.central \in Int /\ w.recent \in Int /\ w.recent > 0
    <3> HIDE DEF w
    <3>1. w.content \in Nat /\ w.central \in Nat /\ w.recent \in Nat \ {0}
      BY WeightIs DEF w
    <3> QED BY <3>1
  <2>2. Sort!ContentRelevance(d) \in Nat
    BY ContentIs
  <2>3. Sort!Centrality(d) \in 0..300 /\ Sort!Recency(d) \in 0..300 /\ Sort!Recency(e) \in 0..300
    BY PartsOfScore
  <2> HIDE DEF w
  <2> QED BY <2>1, <2>2, <2>3
<1>8. /\ Sort!BroadSearchScore(d) = c + m * Sort!Recency(d) + z
      /\ Sort!BroadSearchScore(e) = c + m * Sort!Recency(e) + z
  BY <1>4 DEF Sort!BroadSearchScore
<1> HIDE DEF w
<1>9. c \in Int /\ z \in Int /\ m \in Int /\ m > 0
  BY <1>7
<1> HIDE DEF c, z, m
<1>10. m * Sort!Recency(d) > m * Sort!Recency(e)
  <2>1. \A x, y, k \in Int : k > 0 /\ x > y => k * x > k * y
    OBVIOUS
  <2> QED BY <1>6, <1>7, <1>9, <2>1
<1>11. m * Sort!Recency(d) \in Int /\ m * Sort!Recency(e) \in Int
  BY <1>7, <1>9
<1>12. Sort!BroadSearchScore(d) > Sort!BroadSearchScore(e)
  BY <1>8, <1>9, <1>10, <1>11
<1> QED BY <1>12, GreaterFirst

(***************************************************************************)
(* Both orders                                                             *)
(***************************************************************************)
WhileOrdering == (agent = "keyword" => KeywordInv) /\ (agent = "sorting" => SortInv)

\* What is kept of an answer, and the order of an answer, follow the preferences.
THEOREM OrdersFollowPreferences == AgentsSpec => []OrdersSound
<1>1. AgentsInit => WhileOrdering
  BY KeywordInit, SortInit DEF AgentsInit, WhileOrdering
<1>2. WhileOrdering /\ [AgentsNext]_all => WhileOrdering'
  <2> SUFFICES ASSUME WhileOrdering, [AgentsNext]_all PROVE WhileOrdering'
    OBVIOUS
  <2>1. CASE CallKeyword
    BY <2>1, KeywordStep DEF CallKeyword, WhileOrdering, StayIdle
  <2>2. CASE CallSorting
    BY <2>2, SortStep DEF CallSorting, WhileOrdering, StayIdle
  <2>3. CASE UNCHANGED all
    <3>1. UNCHANGED <<agent, inputs, pc, got, response>>
      BY <2>3 DEF all, call
    <3>2. Keyword!Results' = Keyword!Results /\ SortKeys' = SortKeys
      BY <3>1 DEF Keyword!Results, Keyword!Prefers, Keyword!SortKey, SortKeys,
                  Sort!BroadSearchScore, Sort!ScoringWeights, Sort!ContentRelevance,
                  Sort!Recency, Sort!Centrality, Sort!ValueOf, Sort!RecentExplicit, Sort!CentralExplicit,
                  Sort!RecentLastWanted, Sort!CentralLastWanted
    <3> QED BY <3>1, <3>2 DEF WhileOrdering, KeywordInv, KeywordCollection, SortInv
  <2>4. CASE AgentsNext /\ ~CallKeyword /\ ~CallSorting
    BY <2>4 DEF WhileOrdering, AgentsNext, Plan, CallName, CallAuthors, CallSnowball, CallSnippets,
                CallCiting, CallDense, CallFast, StayIdle
  <2> QED BY <2>1, <2>2, <2>3, <2>4
<1>3. WhileOrdering => OrdersSound
  BY KeywordBetterKept, RelevanceFirst, RecencyFirst DEF WhileOrdering, OrdersSound, Sort!SortSound
<1> QED BY <1>1, <1>2, <1>3, PTL DEF AgentsSpec

(***************************************************************************)
(* The specific paper by its name                                          *)
(***************************************************************************)

LEMMA NameSame ==
  /\ \A s : ByName!DocsOf(s) = DocsOf(s)
  /\ \A s, S : ByName!Kept(s, S) = Kept(s, S)
  /\ \A s, t : ByName!Merged(s, t) = Merged(s, t)
  /\ \A s, n : ByName!Slice(s, n) = Slice(s, n)
  /\ \A s, key : ByName!SortedDesc(s, key) = SortedDesc(s, key)
  /\ ByName!Empty = << >>
<1>1. \A s : ByName!DocsOf(s) = DocsOf(s)
  BY DEF ByName!DocsOf, DocsOf
<1>2. \A s, S : ByName!Kept(s, S) = Kept(s, S)
  BY DEF ByName!Kept, Kept, ByName!Cardinality, Cardinality
<1>3. \A s, t : ByName!Merged(s, t) = Merged(s, t)
  BY <1>1, <1>2 DEF ByName!Merged, Merged, ByName!Minus, Minus
<1>4. \A s, n : ByName!Slice(s, n) = Slice(s, n)
  BY DEF ByName!Slice, Slice
<1>5. \A s, key : ByName!SortedDesc(s, key) = SortedDesc(s, key)
  BY DEF ByName!SortedDesc, SortedDesc, ByName!Cardinality, Cardinality
<1> QED BY <1>1, <1>2, <1>3, <1>4, <1>5 DEF ByName!Empty

LEMMA NameConstants ==
  /\ NameAnswers \subseteq Seq(NamePapers) /\ NameContentAnswers \subseteq Seq(NamePapers)
  /\ NameSuggestions \subseteq Seq(NamePapers)
  /\ NameEvidences \subseteq
       [any : [title : {"introduces", "contains", "no"}, times : Nat, introduced : BOOLEAN],
        exact : [title : {"introduces", "contains", "no"}, times : Nat, introduced : BOOLEAN],
        link : BOOLEAN]
  /\ NameThreshold \in 0..3 /\ NameLimit \in Nat /\ NameLimit # 0
  BY SearchAgentsAssumption DEF ByName!SourcesGiven

(***************************************************************************)
(* The votes of a list: between two and four for a paper that is in it,    *)
(* and four for some.                                                      *)
(***************************************************************************)
LEMMA OfThree ==
  ASSUME NEW S \in SUBSET (1..3), S # {}
  PROVE  /\ ByName!MaxOf(S) \in S /\ \A m \in S : m <= ByName!MaxOf(S)
         /\ ByName!MinOf(S) \in S /\ \A m \in S : ByName!MinOf(S) <= m
<1>0. \A m \in S : m = 1 \/ m = 2 \/ m = 3
  OBVIOUS
<1>1. \E n \in S : \A m \in S : m <= n
  <2>1. CASE 3 \in S
    BY <2>1
  <2>2. CASE 3 \notin S /\ 2 \in S
    BY <1>0, <2>2
  <2>3. CASE S = {1}
    BY <2>3
  <2> QED BY <1>0, <2>1, <2>2, <2>3
<1>2. \E n \in S : \A m \in S : n <= m
  <2>1. CASE 1 \in S
    BY <2>1
  <2>2. CASE 1 \notin S /\ 2 \in S
    BY <1>0, <2>2
  <2>3. CASE S = {3}
    BY <2>3
  <2> QED BY <1>0, <2>1, <2>2, <2>3
<1>3. ByName!MaxOf(S) \in S /\ \A m \in S : m <= ByName!MaxOf(S)
  BY <1>1 DEF ByName!MaxOf
<1>4. ByName!MinOf(S) \in S /\ \A m \in S : ByName!MinOf(S) <= m
  BY <1>2 DEF ByName!MinOf
<1> QED BY <1>3, <1>4

LEMMA ShareOfTwo ==
  ASSUME NEW low \in 1..3, NEW high \in 1..3, NEW r \in 1..3, low < high, low <= r, r <= high
  PROVE  /\ 2 + ((2 * (r - low)) \div (high - low)) \in 2..4
         /\ r = high => 2 + ((2 * (r - low)) \div (high - low)) = 4
<1>1. CASE high - low = 1
  BY <1>1
<1>2. CASE high - low = 2
  BY <1>2
<1> QED BY <1>1, <1>2

LEMMA VotesOfList ==
  ASSUME NEW s \in Seq(NamePapers)
  PROVE  /\ \A d : d \notin DocsOf(s) => ByName!ScoreByRank(s, d) = 0
         /\ \A d \in DocsOf(s) : ByName!ScoreByRank(s, d) \in 2..4
         /\ s # << >> => \E d \in DocsOf(s) : ByName!ScoreByRank(s, d) = 4
<1> DEFINE ranks == {ByName!RankScore(s, e) : e \in DocsOf(s)}
           low == ByName!MinOf(ranks)
           high == ByName!MaxOf(ranks)
<1>1. \A d \in DocsOf(s) : ByName!RankScore(s, d) \in 1..3
  <2> TAKE d \in DocsOf(s)
  <2>1. DOMAIN s = 1..Len(s) /\ Len(s) \in Nat
    OBVIOUS
  <2>2. ByName!Position(s, d) \in 1..Len(s)
    BY <2>1 DEF ByName!Position, DocsOf
  <2>3. Len(s) - ByName!Position(s, d) + 1 \in Nat \ {0}
    BY <2>1, <2>2
  <2> QED BY <2>3 DEF ByName!RankScore
<1>2. \A d : ByName!ScoreByRank(s, d) =
        CASE d \notin DocsOf(s) -> 0
          [] d \in DocsOf(s) /\ high = low -> 4
          [] OTHER -> 2 + ((2 * (ByName!RankScore(s, d) - low)) \div (high - low))
  BY NameSame DEF ByName!ScoreByRank
<1>3. ranks \in SUBSET (1..3) /\ \A d \in DocsOf(s) : ByName!RankScore(s, d) \in ranks
  BY <1>1
<1> HIDE DEF ranks
<1>4. ranks # {} => /\ low \in ranks /\ high \in ranks
                    /\ \A m \in ranks : low <= m /\ m <= high
  BY <1>3, OfThree
<1> HIDE DEF low, high
<1>5. \A d : d \notin DocsOf(s) => ByName!ScoreByRank(s, d) = 0
  BY <1>2
<1>6. ASSUME NEW d \in DocsOf(s)
      PROVE  /\ ByName!ScoreByRank(s, d) \in 2..4
             /\ ByName!RankScore(s, d) = high => ByName!ScoreByRank(s, d) = 4
  <2> DEFINE r == ByName!RankScore(s, d)
  <2>1. low \in 1..3 /\ high \in 1..3 /\ r \in 1..3 /\ low <= r /\ r <= high
    BY <1>3, <1>4
  <2>2. CASE high = low
    BY <1>2, <2>2
  <2>3. CASE high # low
    <3>1. ByName!ScoreByRank(s, d) = 2 + ((2 * (r - low)) \div (high - low))
      BY <1>2, <2>3
    <3> HIDE DEF r
    <3>2. low < high
      BY <2>1, <2>3
    <3>3. /\ 2 + ((2 * (r - low)) \div (high - low)) \in 2..4
          /\ r = high => 2 + ((2 * (r - low)) \div (high - low)) = 4
      BY <2>1, <3>2, ShareOfTwo
    <3> QED BY <3>1, <3>3 DEF r
  <2> QED BY <2>2, <2>3
<1>7. ASSUME s # << >> PROVE \E d \in DocsOf(s) : ByName!ScoreByRank(s, d) = 4
  <2>1. s[1] \in DocsOf(s)
    BY <1>7 DEF DocsOf
  <2>2. ranks # {}
    BY <1>3, <2>1
  <2>3. PICK d \in DocsOf(s) : ByName!RankScore(s, d) = high
    BY <1>4, <2>2 DEF ranks
  <2> QED BY <1>6, <2>3
<1> QED BY <1>5, <1>6, <1>7

(***************************************************************************)
(* The agent                                                               *)
(***************************************************************************)
NameGot ==
  [titles : NameSuggestions \cup {Pending, Failed}, name : NameAnswers \cup {Pending, Failed},
   content : NameContentAnswers \cup {Pending, Failed, NotAsked},
   evidence : {<< >>} \cup [NamePapers -> NameEvidences]]

NameLooked == /\ got.evidence \in [NamePapers -> NameEvidences]
              /\ Pending \notin {got.name, got.content}

NameInv ==
  /\ got \in NameGot
  /\ pc = "score" => NameLooked
  /\ pc = "done" /\ inputs.content # "none" =>
       /\ NameLooked /\ got.titles # Pending
       /\ response.docs = Slice(ByName!Voted, NameLimit)

LEMMA NameInit == ByName!Init => NameInv
  BY DEF ByName!Init, NameInv, NameGot

LEMMA NameStep ==
  ASSUME NameInv, ByName!Next
  PROVE  NameInv'
<1>0. got \in NameGot
  BY DEF NameInv
<1>1. CASE ByName!StartWithoutContent
  BY <1>1 DEF ByName!StartWithoutContent, ByName!Respond, NameInv
<1>2. CASE ByName!Start
  BY <1>2 DEF ByName!Start, NameInv
<1>3. CASE ByName!SuggestionsAnswer
  <2>1. PICK s \in NameSuggestions \cup {Failed} : got' = [got EXCEPT !.titles = s]
    BY <1>3 DEF ByName!SuggestionsAnswer
  <2>2. got' \in NameGot /\ got'.name = got.name /\ got'.content = got.content
        /\ got'.evidence = got.evidence
    BY <1>0, <2>1 DEF NameGot
  <2> QED BY <1>3, <2>2 DEF ByName!SuggestionsAnswer, NameInv, NameLooked
<1>4. CASE ByName!NameSearchAnswers
  <2>1. PICK s \in NameAnswers \cup {Failed} : got' = [got EXCEPT !.name = s]
    BY <1>4 DEF ByName!NameSearchAnswers
  <2>2. got' \in NameGot
    BY <1>0, <2>1 DEF NameGot
  <2> QED BY <1>4, <2>2 DEF ByName!NameSearchAnswers, NameInv
<1>5. CASE ByName!ContentSearchAnswers
  <2>1. PICK s \in NameContentAnswers \cup {Failed} : got' = [got EXCEPT !.content = s]
    BY <1>5 DEF ByName!ContentSearchAnswers
  <2>2. got' \in NameGot
    BY <1>0, <2>1 DEF NameGot
  <2> QED BY <1>5, <2>2 DEF ByName!ContentSearchAnswers, NameInv
<1>6. CASE ByName!Look
  <2>1. PICK f \in [NamePapers -> NameEvidences] : got' = [got EXCEPT !.evidence = f]
    BY <1>6 DEF ByName!Look
  <2>2. /\ got' \in NameGot /\ got'.evidence = f
        /\ got'.name = got.name /\ got'.content = got.content
    BY <1>0, <2>1 DEF NameGot
  <2>3. NameLooked'
    BY <1>6, <2>1, <2>2 DEF ByName!Look, NameLooked
  <2> QED BY <1>6, <2>2, <2>3 DEF ByName!Look, NameInv
<1>7. CASE ByName!Vote
  <2>1. UNCHANGED <<inputs, got>> /\ NameLooked /\ got.titles # Pending
        /\ response'.docs = Slice(ByName!Voted, NameLimit)
    BY <1>7, NameSame DEF ByName!Vote, ByName!Respond, ByName!Complete, NameInv
  <2>2. ByName!Voted' = ByName!Voted
    BY <2>1 DEF ByName!Voted, ByName!Votes, ByName!Found, ByName!Suggested, ByName!Answered,
                ByName!S2NameRelevanceSearch, ByName!S2SearchScore, ByName!FoundWithContent
  <2> QED BY <2>1, <2>2 DEF NameInv, NameLooked
<1> QED BY <1>1, <1>2, <1>3, <1>4, <1>5, <1>6, <1>7 DEF ByName!Next

LEMMA NameScored ==
  ASSUME NameInv, NameLooked, NEW d \in NamePapers
  PROVE  ByName!S2SearchScore(d) \in Int
<1> DEFINE E == [title : {"introduces", "contains", "no"}, times : Nat, introduced : BOOLEAN]
           e == got.evidence[d]
<1>1. e \in [any : E, exact : E, link : BOOLEAN]
  BY NameConstants DEF NameLooked
<1>2. \A x \in E : \A link, inContent : \A strong, weak \in Nat :
         ByName!ScoringFunc(x, link, inContent, strong, weak) \in Int
  <2> SUFFICES ASSUME NEW x \in E, NEW link, NEW inContent, NEW strong \in Nat, NEW weak \in Nat
               PROVE  ByName!ScoringFunc(x, link, inContent, strong, weak) \in Int
    OBVIOUS
  <2> DEFINE title == CASE x.title = "introduces" -> 15 * strong
                        [] x.title = "contains"   -> 5 * weak
                        [] OTHER                  -> 0
             times == IF x.times < 3 THEN x.times ELSE 3
             body == times * strong + (IF x.times > 0 /\ x.introduced THEN 10 * strong ELSE 0)
             linked == IF link THEN 1000 ELSE 0
             twice == IF inContent THEN 2 ELSE 1
  <2>1. ByName!ScoringFunc(x, link, inContent, strong, weak) = (title + body + linked) * twice
    BY DEF ByName!ScoringFunc
  <2>2. title \in Int
    BY SMT
  <2>3. times \in Int
    OBVIOUS
  <2>4. linked \in Int /\ twice \in Int
    OBVIOUS
  <2> HIDE DEF title, times, linked, twice
  <2>5. body \in Int
    BY <2>3
  <2> HIDE DEF body
  <2> QED BY <2>1, <2>2, <2>4, <2>5
<1> HIDE DEF E, e
<1>3. e.any \in E /\ e.exact \in E
  BY <1>1
<1>4. \A inContent, style : ByName!ScorePaperForName(e, inContent, style) \in Int
  <2> TAKE inContent, style
  <2>1. /\ ByName!ScoringFunc(e.any, e.link, inContent, 50, 20) \in Int
        /\ ByName!ScoringFunc(e.exact, e.link, inContent, 100, 100) \in Int
        /\ ByName!ScoringFunc(e.exact, e.link, inContent, 75, 50) \in Int
    BY <1>2, <1>3
  <2> QED BY <2>1 DEF ByName!ScorePaperForName, ByName!Larger
<1> QED BY <1>4 DEF ByName!S2SearchScore, e

LEMMA NameFound ==
  ASSUME NameInv, NameLooked
  PROVE  ByName!Found \in Seq(NamePapers)
<1>1. CASE Failed \in {got.name, got.content}
  BY <1>1, NameSame DEF ByName!Found
<1>2. CASE Failed \notin {got.name, got.content}
  <2> DEFINE second == IF got.content = NotAsked THEN << >> ELSE got.content
             merged == Merged(got.name, second)
             key == [d \in DocsOf(merged) |-> ByName!S2SearchScore(d)]
             sorted == SortedDesc(merged, key)
  <2>1. got.name \in Seq(NamePapers) /\ second \in Seq(NamePapers)
    BY <1>2, NameConstants DEF NameInv, NameGot, NameLooked
  <2>2. ByName!Found = Kept(sorted, {d \in NamePapers : ByName!S2SearchScore(d) >= 500})
    BY <1>2, NameSame DEF ByName!Found, ByName!S2NameRelevanceSearch
  <2> HIDE DEF second
  <2>3. merged \in Seq(NamePapers)
    BY <2>1, MergedIs
  <2> HIDE DEF merged
  <2>4. DocsOf(merged) \subseteq NamePapers /\ merged \in Seq(DocsOf(merged))
    BY <2>3, SeqOfDocs, DocsOfSeq
  <2>5. \A d \in DocsOf(merged) : key[d] \in Int
    BY <2>4, NameScored
  <2> HIDE DEF key
  <2>6. sorted \in Seq(DocsOf(merged))
    BY <2>4, <2>5, SortedIs
  <2> HIDE DEF sorted
  <2>7. sorted \in Seq(NamePapers)
    BY <2>4, <2>6
  <2> QED BY <2>2, <2>7, KeptIs
<1> QED BY <1>1, <1>2

LEMMA NameSuggested ==
  ASSUME NameInv, got.titles # Pending
  PROVE  ByName!Suggested \in Seq(NamePapers)
  BY NameSame, NameConstants DEF NameInv, NameGot, ByName!Suggested, ByName!Answered

LEMMA VotesAre ==
  ASSUME NameInv, NameLooked, got.titles # Pending
  PROVE  /\ \A d : ByName!Votes(d) \in Nat
         /\ \A d \in DocsOf(ByName!Found) \cap DocsOf(ByName!Suggested) : ByName!Votes(d) >= 4
         /\ \A d : d \notin DocsOf(ByName!Found) => ByName!Votes(d) = ByName!ScoreByRank(ByName!Suggested, d)
         /\ \A d : d \notin DocsOf(ByName!Suggested) => ByName!Votes(d) = ByName!ScoreByRank(ByName!Found, d)
<1> DEFINE F == ByName!Found
           S == ByName!Suggested
<1>1. F \in Seq(NamePapers) /\ S \in Seq(NamePapers)
  BY NameFound, NameSuggested
<1>2. \A d : ByName!Votes(d) = ByName!ScoreByRank(S, d) + ByName!ScoreByRank(F, d)
  BY DEF ByName!Votes
<1> HIDE DEF F, S
<1>3. \A d : /\ IF d \in DocsOf(S) THEN ByName!ScoreByRank(S, d) \in 2..4 ELSE ByName!ScoreByRank(S, d) = 0
             /\ IF d \in DocsOf(F) THEN ByName!ScoreByRank(F, d) \in 2..4 ELSE ByName!ScoreByRank(F, d) = 0
  BY <1>1, VotesOfList
<1> QED BY <1>2, <1>3 DEF F, S

\* What is voted for comes in the order of the votes, and is what has enough.
LEMMA VotedIs ==
  ASSUME NameInv, NameLooked, got.titles # Pending
  PROVE  /\ ByName!Voted \in Seq(NamePapers)
         /\ DocsOf(ByName!Voted) =
              {d \in DocsOf(ByName!Found) \cup DocsOf(ByName!Suggested) :
                 NameThreshold = 0 \/ ByName!Votes(d) > NameThreshold}
         /\ \A i, j \in 1..Len(ByName!Voted) :
               i < j => ByName!Votes(ByName!Voted[i]) >= ByName!Votes(ByName!Voted[j])
<1> DEFINE merged == Merged(ByName!Found, ByName!Suggested)
           D == DocsOf(merged)
           key == [d \in D |-> ByName!Votes(d)]
           sorted == SortedDesc(merged, key)
           enough == {d \in NamePapers : ByName!Votes(d) > NameThreshold}
<1>1. merged \in Seq(NamePapers) /\ D = DocsOf(ByName!Found) \cup DocsOf(ByName!Suggested)
  BY NameFound, NameSuggested, MergedIs
<1>2. ByName!Voted = IF NameThreshold = 0 THEN sorted ELSE Kept(sorted, enough)
  BY NameSame DEF ByName!Voted
<1> HIDE DEF merged
<1>3. D \subseteq NamePapers /\ merged \in Seq(D)
  BY <1>1, SeqOfDocs, DocsOfSeq
<1>4. \A d \in D : key[d] \in Int /\ key[d] = ByName!Votes(d)
  BY VotesAre
<1> HIDE DEF key, D
<1>5. /\ sorted \in Seq(D) /\ DocsOf(sorted) = D /\ Len(sorted) = Len(merged)
      /\ \A i, j \in 1..Len(merged) : i < j => key[sorted[i]] >= key[sorted[j]]
  <2>1. DocsOf(merged) = D
    BY DEF D
  <2> QED BY <1>3, <1>4, <2>1, SortedIs
<1> HIDE DEF sorted
<1>6. sorted \in Seq(NamePapers)
  BY <1>3, <1>5
<1>7. \A i, j \in 1..Len(sorted) : i < j => ByName!Votes(sorted[i]) >= ByName!Votes(sorted[j])
  <2>1. \A i \in 1..Len(sorted) : sorted[i] \in D
    BY <1>5
  <2> QED BY <1>4, <1>5, <2>1
<1>8. CASE NameThreshold = 0
  BY <1>1, <1>2, <1>5, <1>6, <1>7, <1>8
<1>9. CASE NameThreshold # 0
  <2> DEFINE k == Kept(sorted, enough)
  <2>1. k \in Seq(NamePapers) /\ DocsOf(k) = D \cap enough
    BY <1>5, <1>6, KeptIs
  <2>2. DocsOf(k) = {d \in D : ByName!Votes(d) > NameThreshold}
    BY <1>3, <2>1
  <2> HIDE DEF enough
  <2>3. /\ \A i \in KeptPlaces(sorted, enough) : k[KeptRank(sorted, enough, i)] = sorted[i]
        /\ \A r \in 1..Len(k) : \E i \in KeptPlaces(sorted, enough) : KeptRank(sorted, enough, i) = r
    BY <1>6, KeptAt
  <2>4. \A i \in KeptPlaces(sorted, enough) : i \in 1..Len(sorted) /\ i \in Nat
    BY <1>6 DEF KeptPlaces
  <2> HIDE DEF k
  <2>5. ASSUME NEW i \in 1..Len(k), NEW j \in 1..Len(k), i < j
        PROVE  ByName!Votes(k[i]) >= ByName!Votes(k[j])
    <3>1. PICK p \in KeptPlaces(sorted, enough) : KeptRank(sorted, enough, p) = i
      BY <2>3
    <3>2. PICK q \in KeptPlaces(sorted, enough) : KeptRank(sorted, enough, q) = j
      BY <2>3
    <3>3. i \in Int /\ j \in Int
      BY <2>1
    <3>4. ~ (q < p) /\ p # q
      <4>1. q < p => j < i
        BY <1>6, <3>1, <3>2, KeptRanks
      <4> QED BY <2>5, <3>1, <3>2, <3>3, <4>1
    <3>5. p < q
      BY <2>4, <3>4
    <3>6. k[i] = sorted[p] /\ k[j] = sorted[q]
      BY <2>3, <3>1, <3>2
    <3> QED BY <1>7, <2>4, <3>5, <3>6
  <2>6. ByName!Voted = k
    BY <1>2, <1>9 DEF k
  <2> QED BY <1>1, <1>9, <2>1, <2>2, <2>5, <2>6
<1> QED BY <1>8, <1>9

LEMMA NameSound ==
  ASSUME NameInv
  PROVE  ByName!AnswerSound
<1> SUFFICES ASSUME pc = "done", inputs.content # "none"
             PROVE  ByName!AgreementWins /\ ByName!EmptyOnlyIfNothingFound
  BY DEF ByName!AnswerSound, ByName!AgreementWins, ByName!EmptyOnlyIfNothingFound
<1> DEFINE F == DocsOf(ByName!Found)
           S == DocsOf(ByName!Suggested)
           v == ByName!Voted
<1>1. NameLooked /\ got.titles # Pending /\ response.docs = Slice(v, NameLimit)
  BY DEF NameInv
<1>2. /\ v \in Seq(NamePapers)
      /\ DocsOf(v) = {d \in F \cup S : NameThreshold = 0 \/ ByName!Votes(d) > NameThreshold}
      /\ \A i, j \in 1..Len(v) : i < j => ByName!Votes(v[i]) >= ByName!Votes(v[j])
  BY <1>1, VotedIs
<1> HIDE DEF v
<1>3. /\ response.docs \in Seq(NamePapers)
      /\ Len(response.docs) = IF NameLimit < Len(v) THEN NameLimit ELSE Len(v)
      /\ \A i \in 1..Len(response.docs) : response.docs[i] = v[i]
  BY <1>1, <1>2, NameConstants, SliceIs
<1>4. DocsOf(v) = {v[i] : i \in 1..Len(v)} /\ Len(v) \in Nat
      /\ DocsOf(response.docs) = {response.docs[i] : i \in 1..Len(response.docs)}
      /\ Len(response.docs) \in Nat
  BY <1>2, <1>3, DocsOfSeq
<1>5. ByName!AgreementWins
  <2> SUFFICES ASSUME NEW d \in DocsOf(response.docs), NEW e \in F \cap S, e \notin DocsOf(response.docs),
                      d \notin F \cap S
               PROVE  4 \in {ByName!ScoreByRank(ByName!Found, d), ByName!ScoreByRank(ByName!Suggested, d)}
    BY NameSame DEF ByName!AgreementWins
  <2>1. PICK i \in 1..Len(response.docs) : response.docs[i] = d
    BY <1>4
  <2>2. i \in 1..Len(v) /\ v[i] = d
    BY <1>3, <1>4, <2>1
  <2>3. d \in DocsOf(v)
    BY <1>4, <2>2
  <2>4. ByName!Votes(d) \in {ByName!ScoreByRank(ByName!Found, d), ByName!ScoreByRank(ByName!Suggested, d)}
    BY <1>1, VotesAre
  <2>5. ByName!Votes(d) \in 0..4
    <3>1. ByName!ScoreByRank(ByName!Found, d) \in 0..4 /\ ByName!ScoreByRank(ByName!Suggested, d) \in 0..4
      <4>1. ByName!Found \in Seq(NamePapers) /\ ByName!Suggested \in Seq(NamePapers)
        BY <1>1, NameFound, NameSuggested
      <4>2. \A s \in Seq(NamePapers) : ByName!ScoreByRank(s, d) \in 2..4 \/ ByName!ScoreByRank(s, d) = 0
        BY VotesOfList
      <4>3. \A x : x \in 2..4 \/ x = 0 => x \in 0..4
        OBVIOUS
      <4> QED BY <4>1, <4>2, <4>3
    <3> QED BY <2>4, <3>1
  <2>6. ByName!Votes(e) >= 4 /\ ByName!Votes(e) \in Nat
    BY <1>1, VotesAre
  <2>7. e \in DocsOf(v)
    BY <1>2, <2>6, NameConstants
  <2>8. PICK j \in 1..Len(v) : v[j] = e
    BY <1>4, <2>7
  <2>9. ~ (j <= Len(response.docs))
    BY <1>3, <1>4, <2>8
  <2>10. i < j
    BY <1>4, <2>1, <2>8, <2>9
  <2>11. ByName!Votes(d) >= ByName!Votes(e)
    BY <1>2, <2>2, <2>8, <2>10
  <2>12. ByName!Votes(d) = 4
    BY <2>5, <2>6, <2>11
  <2> QED BY <2>4, <2>12
<1>6. ByName!EmptyOnlyIfNothingFound
  <2> SUFFICES ASSUME response.docs = << >>
               PROVE  ByName!Found = << >> /\ ByName!Suggested = << >>
    BY NameSame DEF ByName!EmptyOnlyIfNothingFound
  <2>1. Len(v) = 0
    BY <1>3, <1>4, NameConstants
  <2>2. DocsOf(v) = {}
    BY <1>4, <2>1
  <2>3. ByName!Found \in Seq(NamePapers) /\ ByName!Suggested \in Seq(NamePapers)
    BY <1>1, NameFound, NameSuggested
  <2>4. \A d \in F \cup S : ByName!Votes(d) < 4
    BY <1>1, <1>2, <2>2, VotesAre, NameConstants
  <2>5. ASSUME NEW s \in {ByName!Found, ByName!Suggested}, s # << >> PROVE FALSE
    <3>1. s \in Seq(NamePapers)
      BY <2>3
    <3>2. PICK d \in DocsOf(s) : ByName!ScoreByRank(s, d) = 4
      BY <2>5, <3>1, VotesOfList
    <3>3. d \in F \cup S
      OBVIOUS
    <3>4. ByName!Votes(d) >= 4
      <4>1. ByName!Votes(d) = ByName!ScoreByRank(ByName!Suggested, d) + ByName!ScoreByRank(ByName!Found, d)
        BY DEF ByName!Votes
      <4>2. \A t \in Seq(NamePapers) : ByName!ScoreByRank(t, d) \in 2..4 \/ ByName!ScoreByRank(t, d) = 0
        BY VotesOfList
      <4>3. /\ ByName!ScoreByRank(ByName!Found, d) \in 0..4
            /\ ByName!ScoreByRank(ByName!Suggested, d) \in 0..4
        <5>1. \A x : x \in 2..4 \/ x = 0 => x \in 0..4
          OBVIOUS
        <5> QED BY <2>3, <4>2, <5>1
      <4> QED BY <3>2, <4>1, <4>3
    <3> QED BY <1>1, <2>4, <3>3, <3>4, VotesAre
  <2> QED BY <2>5
<1> QED BY <1>5, <1>6

WhileNaming == agent = "name" => NameInv

\* Neither source alone, nor one that fails, decides what a name refers to.
THEOREM NameIsVoted == AgentsSpec => []NameAnswerSound
<1>1. AgentsInit => WhileNaming
  BY NameInit DEF AgentsInit, WhileNaming
<1>2. WhileNaming /\ [AgentsNext]_all => WhileNaming'
  <2> SUFFICES ASSUME WhileNaming, [AgentsNext]_all PROVE WhileNaming'
    OBVIOUS
  <2>1. CASE CallName
    BY <2>1, NameStep DEF CallName, WhileNaming, StayIdle
  <2>2. CASE UNCHANGED all
    <3>1. UNCHANGED <<agent, inputs, pc, got, response>>
      BY <2>2 DEF all, call
    <3>2. ByName!Voted' = ByName!Voted
      BY <3>1 DEF ByName!Voted, ByName!Votes, ByName!Found, ByName!Suggested, ByName!Answered,
                  ByName!S2NameRelevanceSearch, ByName!S2SearchScore, ByName!FoundWithContent
    <3> QED BY <3>1, <3>2 DEF WhileNaming, NameInv, NameLooked
  <2>3. CASE AgentsNext /\ ~CallName
    BY <2>3 DEF WhileNaming, AgentsNext, Plan, CallAuthors, CallSnowball, CallSnippets,
                CallCiting, CallDense, CallFast, CallKeyword, CallSorting, StayIdle
  <2> QED BY <2>1, <2>2, <2>3
<1>3. WhileNaming => NameAnswerSound
  BY NameSound DEF WhileNaming, NameAnswerSound
<1> QED BY <1>1, <1>2, <1>3, PTL DEF AgentsSpec
=============================================================================
