------------------------------- MODULE MCData -------------------------------
(***************************************************************************)
(* Data with the bounded inputs that TLC examines.                         *)
(***************************************************************************)
EXTENDS Data

CONSTANTS a, A, b

\* Two letters, one of them in both cases.
MCLower == [s \in {a, A, b, Slash, Star, Blank} |-> IF s = A THEN a ELSE s]

MCSymbols == {Marker, a, b}

\* The root, pages without a dot in their name, with one and with one that
\* their name begins with, and a style sheet.
MCRequests ==
    {<<>>, << <<"users">> >>, << <<"v1", "2">> >>, << <<"", "css">> >>, << <<"style", "css">> >>}
MCRoot == <<"public">>
MCPhp == "php"
MCStatic == {"css"}
MCIndex == <<"index", "php">>

\* Machines with control groups of version 2, of version 1 and without any; one
\* with both; and one whose group has a limit that nobody can read.
Machine(u2, l2, u1, l1, size, free) ==
    [v2Usage |-> u2, v2Limit |-> l2, v1Usage |-> u1, v1Limit |-> l1, total |-> size, available |-> free]

MCMachines ==
    {Machine(u, l, None, None, t, None) :
        u \in Levels, l \in Levels \cup {None, Max}, t \in Levels \cup {None}}
    \cup {Machine(u, None, v, l, t, None) :
             u \in {None, Garbled}, v \in Levels, l \in Levels \cup {None, NoLimit}, t \in Levels \cup {None}}
    \cup {Machine(None, None, None, None, t, free) :
             t \in Levels \cup {None}, free \in Levels \cup {None}}
    \cup {Machine(6, l, 6, 10, 10, 6) : l \in {10, Max, Garbled}}

-----------------------------------------------------------------------------
(* What MySQL clients send in a COM_STMT_EXECUTE. *)

Meant(type, bytes) == [null |-> FALSE, type |-> type, unsigned |-> FALSE, bytes |-> bytes]

Values ==
    {Meant(Tiny, <<5>>), Meant(Tiny, <<200>>), Meant(Short, <<44, 1>>),
     [Meant(Tiny, <<200>>) EXCEPT !.unsigned = TRUE],
     Meant(Long, <<1, 0, 0, 128>>), Meant(LongLong, <<253, 0, 0, 0, 0, 0, 0, 1>>),
     Meant(Float, <<0, 0, 128, 63>>), Meant(Double, <<0, 0, 0, 0, 0, 0, 240, 63>>),
     Meant(10, <<232, 7, 5, 6>>),
     Meant(VarString, <<>>), Meant(VarString, <<65>>), Meant(254, <<195, 169>>),
     Meant(VarString, <<65, 252, 1>>),
     [Meant(VarString, <<>>) EXCEPT !.null = TRUE]}

\* The bitmap of up to 9 parameters: 8 in its first byte.
Bit(values, i) == IF i <= Len(values) /\ values[i].null THEN 2^((i - 1) % 8) ELSE 0

Bitmap(values) ==
    <<Bit(values, 1) + Bit(values, 2) + Bit(values, 3) + Bit(values, 4)
        + Bit(values, 5) + Bit(values, 6) + Bit(values, 7) + Bit(values, 8)>>
      \o (IF Len(values) = 9 THEN <<Bit(values, 9)>> ELSE <<>>)

Encoded(p) ==
    IF p.null THEN <<>>
    ELSE IF p.type \notin TextTypes \cup DateTypes THEN p.bytes
    ELSE (IF Len(p.bytes) < 251 THEN <<Len(p.bytes)>>
          ELSE <<252, Len(p.bytes) % 256, Len(p.bytes) \div 256>>) \o p.bytes

TypeOf(p) == <<p.type, IF p.unsigned THEN 128 ELSE 0>>

\* The parts of the packet that each parameter has, one after the other.
Parts(part(_), values) ==
    LET upTo[i \in 0..Len(values)] ==
          IF i = 0 THEN <<>> ELSE upTo[i - 1] \o part(values[i])
    IN  upTo[Len(values)]

Packet(values, typed) ==
    <<0, 1, 0, 0, 0>> \o Bitmap(values)
      \o (IF typed THEN <<1>> \o Parts(TypeOf, values) ELSE <<0>>)
      \o Parts(Encoded, values)

\* Where each parameter's value begins in it, and where the last one ends.
Starts(values) ==
    LET from[i \in 1..(Len(values) + 1)] ==
          IF i = 1 THEN 6 + Len(Bitmap(values)) + 2 * Len(values)
          ELSE from[i - 1] + Len(Encoded(values[i - 1]))
    IN  from

Sent(values, typed) ==
    [packet |-> Packet(values, typed), count |-> Len(values), typed |-> typed,
     meant |-> values, at |-> Starts(values)]

\* Up to three parameters, the first of three an integer, NULL or a text; and
\* nine of which the last is in a second byte of the bitmap.
First == {Meant(Tiny, <<5>>), Meant(VarString, <<65>>), [Meant(VarString, <<>>) EXCEPT !.null = TRUE]}
Few == UNION {[1..n -> Values] : n \in 1..2} \cup {<<first>> \o rest : first \in First, rest \in [1..2 -> Values]}
Many == {[i \in 1..9 |-> IF i \in {8, 9} THEN last[i - 7] ELSE Meant(Tiny, <<i>>)] :
           last \in [1..2 -> Values]}

\* A text whose length has a prefix, with and without a number before it.
LongText == Meant(VarString, [i \in 1..300 |-> 65])
Prefixed == {<<LongText>>, <<Meant(Tiny, <<5>>), LongText>>}

\* Packets that no client would build: any bytes of those that the decoder
\* tells apart.
Any(first, rest, n) ==
    [packet |-> first \o rest, count |-> n, typed |-> FALSE, meant |-> <<>>, at |-> <<>>]

AnyBytes == {0, 1, 3, 8, 252, 253}

Malformed ==
    {Any(<<0, 1, 0, 0, 0>>, <<x, y, z, u, v>>, n) :
        x, y, z, u, v \in AnyBytes, n \in 0..2}
    \cup {Any(<<0, 1, 0, 0, 0, 0, 1>>, <<x, 0, y, z, u>>, 1) : x, y, z, u \in AnyBytes}
    \cup {Any(<<0, 1, 0, 0, 0>>, <<x, y>>, n) : x, y \in AnyBytes, n \in 0..2}
    \cup {Any(<<0, 1, 0, 0, 0>>, <<x>>, n) : x \in AnyBytes, n \in 0..9}
    \cup {Any(<<0, 1, 0, 0>>, <<x>>, n) : x \in AnyBytes, n \in 0..1}

MCInputs == {Sent(values, typed) : values \in Few \cup Many \cup Prefixed, typed \in BOOLEAN} \cup Malformed
=============================================================================
