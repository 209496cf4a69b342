------------------------------- MODULE Routing -------------------------------
(***************************************************************************)
(* How pool_manager.rs compares the path and the headers of a request with *)
(* the patterns of a pool.  A text is a sequence of symbols; Lower maps    *)
(* each symbol to its lower case.                                          *)
(***************************************************************************)
EXTENDS Integers, Sequences, SequencesExt

CONSTANTS
    Slash, Star, Blank,   \* the symbols "/", "*" and " "
    Lower                 \* Lower[s]: the lower case of symbol s

Symbols == DOMAIN Lower

StartsWith(text, prefix) == IsPrefix(prefix, text)
EndsWith(text, suffix) == IsSuffix(suffix, text)
Shorter(text) == SubSeq(text, 1, Len(text) - 1)

-----------------------------------------------------------------------------
\* Mutant: two symbols are cut off a pattern that ends in a star.
MatchPatternCutsTwo(path, pattern) ==
    \/ path = pattern
    \/ EndsWith(pattern, <<Star>>) /\ StartsWith(path, SubSeq(pattern, 1, Len(pattern) - 2))

\* PoolManager::match_pattern.  The branch for "/dir/*" is never reached: a
\* pattern that ends in a star is a prefix.
MatchPattern(path, pattern) ==
    \/ path = pattern
    \/ pattern = <<Slash, Star>>
    \/ EndsWith(pattern, <<Star>>) /\ StartsWith(path, Shorter(pattern))
    \/ /\ ~EndsWith(pattern, <<Star>>)
       /\ StartsWith(pattern, <<Slash, Star>>)
       /\ EndsWith(path, SubSeq(pattern, 3, Len(pattern)))

\* A text without the blanks around it, in lower case.
Normal(text) ==
    LET solid == {i \in DOMAIN text : text[i] # Blank}
        first == CHOOSE i \in solid : \A j \in solid : i <= j
        last  == CHOOSE i \in solid : \A j \in solid : i >= j
        trimmed == IF solid = {} THEN <<>> ELSE SubSeq(text, first, last)
    IN  [i \in DOMAIN trimmed |-> Lower[trimmed[i]]]

\* PoolManager::match_header_value
MatchHeaderValue(actual, expected) ==
    LET value   == Normal(actual)
        pattern == Normal(expected)
    IN  \/ pattern = <<Star>>
        \/ value = pattern
        \/ EndsWith(pattern, <<Star>>) /\ StartsWith(value, Shorter(pattern))
        \/ /\ ~EndsWith(pattern, <<Star>>)
           /\ StartsWith(pattern, <<Star>>)
           /\ EndsWith(value, Tail(pattern))

-----------------------------------------------------------------------------
(***************************************************************************)
(* What a pattern means: a star stands for any text, every other symbol    *)
(* for itself.                                                             *)
(***************************************************************************)
Stars(pattern) == {k \in DOMAIN pattern : pattern[k] = Star}

Glob(text, pattern) ==
    \/ Stars(pattern) = {} /\ text = pattern
    \/ \E k \in Stars(pattern) :
         LET before == SubSeq(pattern, 1, k - 1)
             after  == SubSeq(pattern, k + 1, Len(pattern))
         IN  /\ StartsWith(text, before)
             /\ EndsWith(text, after)
             /\ Len(text) >= Len(before) + Len(after)

\* The shapes that the comments of match_pattern show: no star, one at the
\* end, or one between the first slash and a suffix.  A suffix that starts
\* with a slash is excluded: "/*/" matches "/".
PathPattern(pattern) ==
    \/ Stars(pattern) = {}
    \/ Stars(pattern) = {Len(pattern)}
    \/ Stars(pattern) = {2} /\ pattern[1] = Slash /\ pattern[3] # Slash

\* One star at either end of a header's value, or none.
HeaderPattern(pattern) ==
    Stars(pattern) \in {{}, {1}, {Len(pattern)}}

-----------------------------------------------------------------------------
(***************************************************************************)
(* All pairs of a text and a pattern, one symbol at a time.                *)
(***************************************************************************)
CONSTANTS MaxText, MaxPattern    \* bounds: how long the two become

VARIABLES text, pattern

Init == text = <<>> /\ pattern = <<>>

LongerText ==
    /\ Len(text) < MaxText
    /\ \E s \in Symbols : text' = Append(text, s)
    /\ UNCHANGED pattern

LongerPattern ==
    /\ Len(pattern) < MaxPattern
    /\ \E s \in Symbols : pattern' = Append(pattern, s)
    /\ UNCHANGED text

Next == LongerText \/ LongerPattern

Spec == Init /\ [][Next]_<<text, pattern>>

\* pool_manager.rs decides on a path by a chain of tests of which one hides
\* another: for patterns of the documented shapes it decides as a glob does.
PatternIsGlob ==
    StartsWith(text, <<Slash>>) /\ PathPattern(pattern)
        => (MatchPattern(text, pattern) <=> Glob(text, pattern))

\* A header's value is compared as a glob, whatever the case and the blanks
\* around it.
HeaderIsGlob ==
    HeaderPattern(Normal(pattern))
        => (MatchHeaderValue(text, pattern) <=> Glob(Normal(text), Normal(pattern)))
=============================================================================
