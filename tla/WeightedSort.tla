----------------------------- MODULE WeightedSort -----------------------------
(***************************************************************************)
(* weighted_average_sort: documents are given columns of numbers, each     *)
(* column is scaled to what lies between its least and almost its greatest *)
(* value, and the weighted columns are added.  Scores are thousandths, and *)
(* weights hundredths with a sign: a negative one turns its column round.  *)
(***************************************************************************)
EXTENDS Integers, FiniteSetsExt

CONSTANT Missing   \* stands for a value that is not loaded

Abs(n) == IF n < 0 THEN 0 - n ELSE n

Known(column) == {d \in DOMAIN column : column[d] # Missing}

\* A column turned so that more is better; what is missing is as bad as the
\* worst, and all is 0 if everything is missing.
Turned(column, weight) ==
    LET turn(v) == IF weight < 0 THEN 0 - v ELSE v
        worst   == IF Known(column) = {} THEN 0
                   ELSE Min({turn(column[d]) : d \in Known(column)})
    IN  [d \in DOMAIN column |-> IF column[d] = Missing THEN worst
                                                        ELSE turn(column[d])]

\* The k-th value of a column in rising order, from 0.
Nth(column, k) ==
    CHOOSE v \in Range(column) :
        /\ Cardinality({d \in DOMAIN column : column[d] < v}) <= k
        /\ Cardinality({d \in DOMAIN column : column[d] <= v}) > k

\* A hundred times the 0.99 quantile of a column: a value, or between two.
Quantile(column) ==
    LET at   == 99 * (Cardinality(DOMAIN column) - 1)
        k    == at \div 100
        part == at % 100
    IN  (100 - part) * Nth(column, k) + (IF part = 0 THEN 0 ELSE part * Nth(column, k + 1))

\* A column without spread is worth its whole weight to everyone.
Normalized(column) ==
    LET low  == 100 * Min(Range(column))
        high == Quantile(column)
        clip(v) == IF 100 * v > high THEN high ELSE 100 * v
    IN  [d \in DOMAIN column |->
            IF high = low THEN 1000 ELSE (1000 * (clip(column[d]) - low)) \div (high - low)]

\* columns and weights are functions of the same keys.
WeightedAverage(columns, weights) ==
    LET scaled == [k \in DOMAIN weights |-> Normalized(Turned(columns[k], weights[k]))]
        docs   == UNION {DOMAIN columns[k] : k \in DOMAIN columns}
        share(k, d) == IF k \in DOMAIN weights THEN Abs(weights[k]) * scaled[k][d] ELSE 0
    IN  [d \in docs |-> share("year", d) + share("citations", d)
                        + share("rerank", d) + share("snippets", d)]

(***************************************************************************)
(* get_sorting_weights, in hundredths.  prefs says which preferences the   *)
(* user has and which of them are explicit.                                *)
(***************************************************************************)
BaseWeights(prefs) ==
    LET recent  == prefs.recentExplicit
        central == prefs.centralExplicit
    IN  [year      |-> IF recent THEN 100 ELSE 10,
         citations |-> IF central THEN 100 ELSE 10,
         rerank    |-> IF recent \/ central THEN 10 ELSE 100,
         snippets  |-> IF recent \/ central THEN 5 ELSE 50]

\* A preference that is not there weighs nothing, one for the least or the
\* earliest turns its column round.  The first of two wins.
Signed(weight, first, last) == CASE first -> weight
                                 [] ~first /\ last -> 0 - weight
                                 [] OTHER -> 0

SortingWeights(prefs) ==
    [BaseWeights(prefs) EXCEPT
        !.year      = Signed(@, prefs.recentFirst, prefs.recentLast),
        !.citations = Signed(@, prefs.centralFirst, prefs.centralLast)]
===============================================================================
