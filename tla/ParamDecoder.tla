---------------------------- MODULE ParamDecoder ----------------------------
(***************************************************************************)
(* parse_binary_parameters_safe of the database proxy: the parameters of a *)
(* COM_STMT_EXECUTE are read from its packet, one step for the header and  *)
(* one for each parameter.                                                 *)
(*                                                                         *)
(* Abstracted: an integer is its sign and its bytes, a text its bytes.     *)
(* The quotes that the code puts around a text, and those that it doubles  *)
(* in it, are left out.                                                    *)
(***************************************************************************)
EXTENDS Integers, Sequences

CONSTANT Inputs      \* what clients send: a packet, the number of "?" in the
                     \* statement, whether the packet says the types of the
                     \* parameters, those that are meant by it, and where the
                     \* value of each begins

Byte == 0..255

ASSUME InputAssumption ==
    \A input \in Inputs : input.packet \in Seq(Byte) /\ input.count \in Nat

\* The types that the code tells apart, by their numbers.
Tiny == 1
Short == 2
Long == 3
LongLong == 8
VarString == 253

\* Those of clients that it does not: texts of other kinds, floating-point
\* numbers, and dates and times.
TextTypes == {15, 246} \cup 249..254
Float == 4
Double == 5
DateTypes == {7, 10, 11, 12}

\* A parameter that a client means.
Parameters == [null : BOOLEAN, type : Byte, unsigned : BOOLEAN, bytes : Seq(Byte)]

\* The length of a text, and its bytes; a packet has less than 2^24 of them.
SendsText(bytes, value) ==
    LET n == Len(bytes) IN
    \/ n < 251 /\ value = <<n>> \o bytes
    \/ 251 <= n /\ n < 65536 /\ value = <<252, n % 256, n \div 256>> \o bytes
    \/ /\ 65536 <= n /\ n < 16777216
       /\ value = <<253, n % 256, (n \div 256) % 256, n \div 65536>> \o bytes

\* What a client sends for a parameter that is not NULL.
Sends(p, value) ==
    \/ /\ <<p.type, Len(p.bytes)>> \in {<<Tiny, 1>>, <<Short, 2>>, <<Long, 4>>, <<LongLong, 8>>,
                                       <<Float, 4>>, <<Double, 8>>}
       /\ value = p.bytes
    \/ p.type \in TextTypes /\ SendsText(p.bytes, value)
    \/ p.type \in DateTypes /\ Len(p.bytes) < 13 /\ value = <<Len(p.bytes)>> \o p.bytes

PowerOf2 == <<1, 2, 4, 8, 16, 32, 64, 128>>

\* A packet that says the types: a bit for every NULL, a 1, the types, and the
\* values one behind the other.
Encodes(sent) ==
    LET byte(i) == sent.packet[i + 1]
        flag    == 5 + ((sent.count + 7) \div 8)
        first   == flag + 1
    IN
    /\ sent.meant \in [1..sent.count -> Parameters]
    /\ sent.at \in [1..(sent.count + 1) -> Nat]
    /\ Len(sent.packet) >= first + 2 * sent.count
    /\ byte(flag) = 1
    /\ sent.at[1] = first + 2 * sent.count
    /\ \A i \in 1..sent.count :
         LET p     == sent.meant[i]
             value == SubSeq(sent.packet, sent.at[i] + 1, sent.at[i + 1])
         IN
         /\ byte(first + 2 * (i - 1)) = p.type
         /\ p.null <=> (byte(5 + ((i - 1) \div 8)) \div PowerOf2[((i - 1) % 8) + 1]) % 2 = 1
         /\ IF p.null THEN sent.at[i + 1] = sent.at[i]
            ELSE /\ sent.at[i] < sent.at[i + 1] /\ sent.at[i + 1] <= Len(sent.packet)
                 /\ Sends(p, value)

ASSUME ClientAssumption == \A sent \in Inputs : sent.typed => Encodes(sent)

VARIABLES
    input,           \* the packet, without its first 5 bytes
    phase,           \* "header", "params" or "done"
    offset,          \* where the next value is read
    types,           \* the types of the parameters
    params,          \* the parameters that have been decoded
    read             \* the positions of the packet that the last step read

vars == <<input, phase, offset, types, params, read>>

packet == input.packet
count == input.count

\* The byte at a position, which the code counts from 0.
At(i) == packet[i + 1]

NullParam == [kind |-> "null"]
Number(bytes) == [kind |-> "number", negative |-> bytes[Len(bytes)] >= 128, bytes |-> bytes]
Text(bytes) == [kind |-> "text", bytes |-> bytes]

\* How many bytes the character has that begins at a position of a text, 0 if
\* none does.
Character(text, i) ==
    LET lead       == text[i]
        follows(n) == i + n <= Len(text) /\ \A k \in 1..n : text[i + k] \in 128..191
    IN  CASE lead < 128 -> 1
          [] lead \in 194..223 /\ follows(1) -> 2
          [] /\ lead \in 224..239 /\ follows(2)
             /\ lead = 224 => text[i + 1] >= 160
             /\ lead = 237 => text[i + 1] < 160 -> 3
          [] /\ lead \in 240..244 /\ follows(3)
             /\ lead = 240 => text[i + 1] >= 144
             /\ lead = 244 => text[i + 1] < 144 -> 4
          [] OTHER -> 0

\* A text is UTF-8 if each of its bytes begins a character or is in one.
Utf8(text) ==
    \A i \in DOMAIN text :
      \/ Character(text, i) > 0
      \/ \E k \in 1..3 : k < i /\ Character(text, i - k) > k

\* String::from_utf8_lossy: what is not UTF-8 becomes a text with replacement
\* characters in it, which nobody meant.
Replaced == [kind |-> "replaced"]
FromUtf8Lossy(bytes) == IF Utf8(bytes) THEN Text(bytes) ELSE Replaced

Init ==
    /\ input \in Inputs
    /\ phase = "header"
    /\ offset = 0
    /\ types = <<>>
    /\ params = <<>>
    /\ read = {}

-----------------------------------------------------------------------------
BitmapStart == 5
BitmapLength == (count + 7) \div 8

\* Without a marker, or in a packet too short, nothing is decoded.
NoParams ==
    /\ phase = "header"
    /\ count = 0 \/ Len(packet) < 6
    /\ phase' = "done"
    /\ UNCHANGED <<input, offset, types, params, read>>

\* The packet ends before the parameters: all of them are NULL.
AllNull ==
    /\ phase = "header"
    /\ count > 0 /\ Len(packet) >= 6
    /\ Len(packet) <= BitmapStart + BitmapLength
    /\ params' = [i \in 1..count |-> NullParam]
    /\ phase' = "done"
    /\ UNCHANGED <<input, offset, types, read>>

\* The types follow the flag that says whether they were sent; without them
\* every parameter is taken for a text.
ReadTypes ==
    LET flag  == BitmapStart + BitmapLength
        first == flag + 1
        typed == At(flag) = 1 /\ Len(packet) >= first + 2 * count
    IN
    /\ phase = "header"
    /\ count > 0 /\ Len(packet) >= 6
    /\ Len(packet) > flag
    /\ types' = [i \in 1..count |-> IF typed THEN At(first + 2 * (i - 1)) ELSE VarString]
    /\ offset' = IF typed THEN first + 2 * count ELSE first
    /\ read' = {flag} \cup (IF typed THEN {first + 2 * (i - 1) : i \in 1..count} ELSE {})
    /\ phase' = "params"
    /\ UNCHANGED <<input, params>>

-----------------------------------------------------------------------------
Index == Len(params)     \* of the next parameter, from 0

BitmapByte == BitmapStart + (Index \div 8)
IsNull == (At(BitmapByte) \div PowerOf2[(Index % 8) + 1]) % 2 = 1

Reading == phase = "params" /\ Index < count

\* A parameter is decoded; the next value is read at the position next.
Decoded(value, next, positions) ==
    /\ params' = Append(params, value)
    /\ offset' = next
    /\ read' = {BitmapByte} \cup positions
    /\ UNCHANGED <<input, phase, types>>

Bytes(first, n) == [i \in 1..n |-> At(first + i - 1)]

\* Its bit is set, or the packet is exhausted.
ReadNull ==
    /\ Reading
    /\ IsNull \/ offset >= Len(packet)
    /\ Decoded(NullParam, offset, {})

Width(type) == CASE type = Tiny -> 1
                 [] type \in {Short, Long} -> 4
                 [] type = LongLong -> 8
                 [] OTHER -> 0

HasValue == ~IsNull /\ offset < Len(packet)

\* Mutant: the end of an integer is not compared with the end of the packet.
ReadNumberUnchecked ==
    LET n == Width(types[Index + 1]) IN
    /\ Reading /\ HasValue
    /\ n > 0
    /\ Decoded([kind |-> "number", negative |-> FALSE, bytes |-> <<>>],
               offset + n, offset..(offset + n - 1))

\* Mutant: an integer is left where it is.
ReadNumberTwice ==
    LET n == Width(types[Index + 1]) IN
    /\ Reading /\ HasValue
    /\ n > 0
    /\ offset + n <= Len(packet)
    /\ Decoded(Number(Bytes(offset, n)), offset, offset..(offset + n - 1))

\* An integer, or NULL when the packet ends in it.
ReadNumber ==
    LET n == Width(types[Index + 1]) IN
    /\ Reading /\ HasValue
    /\ n > 0
    /\ IF offset + n <= Len(packet)
         THEN Decoded(Number(Bytes(offset, n)), offset + n, offset..(offset + n - 1))
         ELSE Decoded(NullParam, offset, {})

\* The length of a text and of the prefix that holds it, 0 for an unknown
\* prefix: read_lenenc_string_safe of the packet from offset on.
Prefix ==
    LET first == At(offset)
        room  == Len(packet) - offset
    IN  CASE first < 251 -> [length |-> first, width |-> 1]
          [] first = 252 /\ room >= 3 ->
               [length |-> At(offset + 1) + 256 * At(offset + 2), width |-> 3]
          [] first = 253 /\ room >= 4 ->
               [length |-> At(offset + 1) + 256 * At(offset + 2) + 65536 * At(offset + 3),
                width |-> 4]
          [] OTHER -> [length |-> 0, width |-> 0]

\* A text, or an empty one when it does not fit.  The next value is read at
\* the position that read_lenenc_string_safe returns, which it counts from the
\* start of the text.
ReadText ==
    LET start == offset + Prefix.width
        fits  == start + Prefix.length <= Len(packet)
    IN
    /\ Reading /\ HasValue
    /\ Width(types[Index + 1]) = 0
    /\ IF Prefix.width = 0
         THEN Decoded(Text(<<>>), 0, {offset})
         ELSE IF fits
         THEN Decoded(FromUtf8Lossy(Bytes(start, Prefix.length)), Prefix.width + Prefix.length,
                      offset..(start + Prefix.length - 1))
         ELSE Decoded(Text(<<>>), Len(packet) - offset, offset..(start - 1))

\* Every parameter has been decoded.
Finish ==
    /\ phase = "params"
    /\ Index = count
    /\ phase' = "done"
    /\ UNCHANGED <<input, offset, types, params, read>>

Next ==
    \/ NoParams
    \/ AllNull
    \/ ReadTypes
    \/ ReadNull
    \/ ReadNumber
    \/ ReadText
    \/ Finish

Spec == Init /\ [][Next]_vars

-----------------------------------------------------------------------------
\* No step reads a position that the packet does not have, whatever a client
\* sends: an index out of range would end its session in a panic.
ReadsInside == \A i \in read : i >= 0 /\ i < Len(packet)

\* Every "?" of the statement gets one value, unless the packet is too short to
\* have a header.
OneValuePerMarker ==
    phase = "done" => Len(params) = count \/ Len(packet) < 6

\* Whatever bytes a client sends, decoding neither reads outside the packet nor
\* leaves a marker without a value.
DecoderIsSafe == ReadsInside /\ OneValuePerMarker

IsInteger(p) == p.type \in {Tiny, Short, Long, LongLong}
IsText(p) == p.type \in TextTypes

\* What a parameter means: its bytes, and its sign if its type has one.
Meaning(p) ==
    IF p.null THEN NullParam
    ELSE IF IsInteger(p) THEN [Number(p.bytes) EXCEPT !.negative = @ /\ ~p.unsigned]
    ELSE IF IsText(p) THEN Text(p.bytes)
    ELSE [kind |-> "other", type |-> p.type, bytes |-> p.bytes]

\* A value whose end the decoder finds: there is none, or it is an integer of
\* one, four or eight bytes.
EndIsFound(p) == p.null \/ p.type \in {Tiny, Long, LongLong}

\* A value that it can express: an integer but an unsigned one with its top bit
\* set, or a text in UTF-8.
IsKept(p) ==
    \/ p.type \in {Tiny, Long, LongLong} /\ ~(p.unsigned /\ p.bytes[Len(p.bytes)] >= 128)
    \/ IsText(p) /\ Utf8(p.bytes)

\* Of the parameters of a statement, if their types are sent, each NULL is
\* decoded as it was meant, and each value that the decoder can express if it
\* has found the ends of all those before.
DecodesAsMeant ==
    phase = "done" /\ input.typed =>
      \A i \in 1..count :
        \/ input.meant[i].null
        \/ IsKept(input.meant[i]) /\ \A j \in 1..(i - 1) : EndIsFound(input.meant[j])
        => params[i] = Meaning(input.meant[i])

\* test_prepared_statements.php executes "INSERT INTO users (name, email) VALUES
\* (?, ?)" with two texts.
TextsAreKept ==
    phase = "done" /\ input.typed
      /\ (\A i \in 1..count : ~input.meant[i].null /\ IsText(input.meant[i]) /\ Utf8(input.meant[i].bytes))
      => \A i \in 1..count : params[i] = Meaning(input.meant[i])
=============================================================================
