---------------------------- MODULE Substitution ----------------------------
(***************************************************************************)
(* substitute_parameters of the database proxy: one parameter after the    *)
(* other replaces the first "?" of what the query has become so far.  A    *)
(* query and a parameter are sequences of symbols, "?" and others.         *)
(***************************************************************************)
EXTENDS Integers, Sequences, SequencesExt, FiniteSets

CONSTANTS Symbols, Marker, MaxQuery, MaxParam, MaxParams

VARIABLES
    query,           \* the statement that was prepared
    params,          \* the parameters of an execution
    next,            \* the one that is put in next
    result           \* the query so far

vars == <<query, params, next, result>>

Init ==
    /\ query \in SeqOf(Symbols, MaxQuery)
    /\ params \in SeqOf(SeqOf(Symbols, MaxParam), MaxParams)
    /\ next = 1
    /\ result = query

Markers(text) == {i \in DOMAIN text : text[i] = Marker}
FirstMarker(text) == CHOOSE i \in Markers(text) : \A j \in Markers(text) : i <= j
LastMarker(text) == CHOOSE i \in Markers(text) : \A j \in Markers(text) : i >= j

Replaced(text, i, param) == SubSeq(text, 1, i - 1) \o param \o SubSeq(text, i + 1, Len(text))

\* Mutant: the last "?" is replaced.
SubstituteLast ==
    /\ next <= Len(params)
    /\ result' = IF Markers(result) = {} THEN result
                 ELSE Replaced(result, LastMarker(result), params[next])
    /\ next' = next + 1
    /\ UNCHANGED <<query, params>>

\* replacen('?', param, 1): without a "?" nothing is replaced.
Substitute ==
    /\ next <= Len(params)
    /\ result' = IF Markers(result) = {} THEN result
                 ELSE Replaced(result, FirstMarker(result), params[next])
    /\ next' = next + 1
    /\ UNCHANGED <<query, params>>

Next == Substitute

Spec == Init /\ [][Next]_vars

-----------------------------------------------------------------------------
Done == next > Len(params)

\* How many "?" there are up to a position.
Rank(i) == Cardinality({j \in Markers(query) : j <= i})

\* All at once, up to a position: the n-th "?" becomes the n-th parameter.
Piece(i) == IF query[i] = Marker THEN params[Rank(i)] ELSE <<query[i]>>
Bound(i) == FlattenSeq([j \in 1..i |-> Piece(j)])

\* The first n parameters have no "?".
Plain(n) == \A i \in 1..n : Markers(params[i]) = {}

\* If there are as many parameters as there are "?", as the decoder makes sure,
\* a parameter that is put in is in its place, after those before it in theirs,
\* and stays there whatever the later ones are, as long as none of these has a
\* "?" in it.  (The "?" of a parameter is taken for the place of the next one:
\* from there on an execution is not what was meant.)  The statement that runs
\* has every parameter in its place even if the last one has a "?".
SubstitutesInPlace ==
    Cardinality(Markers(query)) = Len(params) =>
      /\ \A i \in Markers(query) : Rank(i) < next /\ Plain(Rank(i)) => IsPrefix(Bound(i), result)
      /\ Done /\ Plain(Len(params) - 1) => result = Bound(Len(query))

\* test_prepared_statements.php: "REAL prepared statements (bukan emulated)".  Then
\* a parameter is in its place whatever is in it and in those before it.
ValuesAreOpaque ==
    Done /\ Cardinality(Markers(query)) = Len(params) => result = Bound(Len(query))
=============================================================================
