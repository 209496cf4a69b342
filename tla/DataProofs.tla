------------------------- MODULE DataProofs -------------------------
(***************************************************************************)
(* The decoder of parameters stays inside its packet, whatever is in it,   *)
(* and decodes a packet that a client has encoded to what it means; the    *)
(* pressure that the monitor sees was there; the files that a request      *)
(* finds are the right ones; patterns decide as globs; each parameter of a *)
(* query is put in its own place; a client reads the packets of the proxy  *)
(* as they were meant.                                                     *)
(***************************************************************************)
EXTENDS Data, FiniteSets, FiniteSetTheorems, SequenceTheorems, WellFoundedInduction, TLAPS

\* What a parameter is decoded to: bytes of the packet.
Value ==
    {NullParam, Replaced}
      \cup [kind : {"number"}, negative : BOOLEAN, bytes : Seq(Byte)]
      \cup [kind : {"text"}, bytes : Seq(Byte)]

\* While parameters are read, the packet has a bitmap for all of them and they
\* all have types; the position of the next value may be beyond the end.
Decoding ==
    /\ packet \in Seq(Byte) /\ count \in Nat
    /\ phase \in {"header", "params", "done"}
    /\ offset \in Nat
    /\ params \in Seq(Value)
    /\ phase = "header" => params = <<>>
    /\ phase = "params" =>
         /\ Len(packet) > BitmapStart + BitmapLength
         /\ types \in [1..count -> Byte]
         /\ Len(params) <= count

Inv == Decoding /\ ReadsInside /\ OneValuePerMarker

\* The bitmap has a byte for every parameter.
LEMMA BitmapCovers ==
    ASSUME NEW n \in Nat, NEW i \in Nat, i < n
    PROVE  /\ 5 + (i \div 8) < 5 + ((n + 7) \div 8)
           /\ i \div 8 \in Nat
           /\ (n + 7) \div 8 \in Nat
<1>1. (n + 7) \div 8 >= (i + 8) \div 8
  OBVIOUS
<1>2. (i + 8) \div 8 = (i \div 8) + 1
  OBVIOUS
<1> QED
  BY <1>1, <1>2

\* A stretch of the packet is bytes.
LEMMA BytesType ==
    ASSUME packet \in Seq(Byte), NEW first \in Nat, NEW n \in Nat, first + n <= Len(packet)
    PROVE  Bytes(first, n) \in Seq(Byte) /\ Len(Bytes(first, n)) = n
<1>1. \A i \in 1..n : first + i \in 1..Len(packet)
  OBVIOUS
<1>2. \A i \in 1..n : packet[first + i] \in Byte
  BY <1>1
<1>3. Bytes(first, n) = [i \in 1..n |-> packet[first + i]]
  BY DEF Bytes, At
<1> QED
  BY <1>2, <1>3

\* Bytes make a number.
LEMMA LittleEndian ==
    ASSUME NEW a \in Byte, NEW b \in Byte, NEW c \in Byte
    PROVE  a \in Nat /\ a + 256 * b \in Nat /\ a + 256 * b + 65536 * c \in Nat
BY DEF Byte

\* The prefix of a text lies in the packet.
LEMMA PrefixType ==
    ASSUME packet \in Seq(Byte), offset \in Nat, offset < Len(packet)
    PROVE  /\ Prefix.length \in Nat /\ Prefix.width \in {0, 1, 3, 4}
           /\ offset + Prefix.width <= Len(packet)
<1>0. Len(packet) \in Nat
  OBVIOUS
<1>1. At(offset) \in Byte
  BY DEF At
<1>2. \A k \in 1..3 : offset + k < Len(packet) => At(offset + k) \in Byte
  BY DEF At
<1>3. CASE At(offset) < 251
  <2>1. Prefix = [length |-> At(offset), width |-> 1]
    BY <1>1, <1>3 DEF Prefix, Byte
  <2>2. Prefix.length = At(offset) /\ Prefix.width = 1
    BY <2>1
  <2> HIDE DEF Prefix
  <2> QED
    BY <1>1, <1>0, <2>2, LittleEndian
<1>4. CASE At(offset) = 252 /\ Len(packet) - offset >= 3
  <2>1. Prefix = [length |-> At(offset + 1) + 256 * At(offset + 2), width |-> 3]
    BY <1>4 DEF Prefix
  <2>2. At(offset + 1) \in Byte /\ At(offset + 2) \in Byte
    BY <1>2, <1>4
  <2>3. /\ Prefix.length = At(offset + 1) + 256 * At(offset + 2)
        /\ Prefix.width = 3
    BY <2>1
  <2>4. At(offset + 1) + 256 * At(offset + 2) \in Nat
    BY <2>2, LittleEndian
  <2> QED
    BY <1>0, <1>4, <2>3, <2>4
<1>5. CASE At(offset) = 253 /\ Len(packet) - offset >= 4
  <2>1. Prefix = [length |-> At(offset + 1) + 256 * At(offset + 2) + 65536 * At(offset + 3),
                  width |-> 4]
    BY <1>5 DEF Prefix
  <2>2. At(offset + 1) \in Byte /\ At(offset + 2) \in Byte /\ At(offset + 3) \in Byte
    BY <1>2, <1>5
  <2>3. /\ Prefix.length = At(offset + 1) + 256 * At(offset + 2) + 65536 * At(offset + 3)
        /\ Prefix.width = 4
    BY <2>1
  <2>4. At(offset + 1) + 256 * At(offset + 2) + 65536 * At(offset + 3) \in Nat
    BY <2>2, LittleEndian
  <2> QED
    BY <1>0, <1>5, <2>3, <2>4
<1>6. CASE /\ ~(At(offset) < 251)
           /\ ~(At(offset) = 252 /\ Len(packet) - offset >= 3)
           /\ ~(At(offset) = 253 /\ Len(packet) - offset >= 4)
  <2>1. Prefix = [length |-> 0, width |-> 0]
    BY <1>6 DEF Prefix
  <2> QED
    BY <2>1
<1> QED
  BY <1>3, <1>4, <1>5, <1>6

\* What one step of the loop has to show.
LEMMA DecodedKeeps ==
    ASSUME Inv, Reading, NEW value \in Value, NEW after \in Nat, NEW positions,
           \A i \in positions : i >= 0 /\ i < Len(packet),
           Decoded(value, after, positions)
    PROVE  Inv'
<1>1. /\ params' = Append(params, value)
      /\ offset' = after
      /\ read' = {BitmapByte} \cup positions
      /\ UNCHANGED <<input, phase, types>>
  BY DEF Decoded
<1>2. /\ phase = "params" /\ Len(params) < count
      /\ packet' = packet /\ count' = count
      /\ BitmapLength' = BitmapLength
  BY <1>1 DEF Reading, Index, packet, count, BitmapLength
<1>3. /\ params' \in Seq(Value) /\ Len(params') = Len(params) + 1
  BY <1>1 DEF Inv, Decoding
<1>4. BitmapByte >= 0 /\ BitmapByte < Len(packet)
  <2>1. Index \in Nat /\ count \in Nat /\ Index < count
    BY <1>2 DEF Inv, Decoding, Index
  <2>2. Len(packet) > 5 + ((count + 7) \div 8) /\ Len(packet) \in Nat
    BY <1>2 DEF Inv, Decoding, BitmapStart, BitmapLength
  <2> QED
    BY <2>1, <2>2, BitmapCovers DEF BitmapByte, BitmapStart
<1>5. Decoding'
  BY <1>1, <1>2, <1>3 DEF Inv, Decoding, BitmapStart
<1>6. ReadsInside'
  BY <1>1, <1>2, <1>4 DEF ReadsInside
<1>7. OneValuePerMarker'
  BY <1>1, <1>2 DEF OneValuePerMarker
<1> QED
  BY <1>5, <1>6, <1>7 DEF Inv

-----------------------------------------------------------------------------
LEMMA InitInv == Init => Inv
<1> SUFFICES ASSUME Init PROVE Inv
  OBVIOUS
<1>1. packet \in Seq(Byte) /\ count \in Nat
  BY InputAssumption DEF Init, packet, count
<1> QED
  BY <1>1 DEF Init, Inv, Decoding, ReadsInside, OneValuePerMarker

\* The header.
LEMMA HeaderKeeps ==
    ASSUME Inv, NoParams \/ AllNull \/ ReadTypes
    PROVE  Inv'
<1>1. packet' = packet /\ count' = count /\ BitmapLength' = BitmapLength
  BY DEF NoParams, AllNull, ReadTypes, packet, count, BitmapLength
<1>2. CASE NoParams
  BY <1>1, <1>2 DEF NoParams, Inv, Decoding, ReadsInside, OneValuePerMarker
<1>3. CASE AllNull
  <2>1. params' = [i \in 1..count |-> NullParam] /\ phase' = "done" /\ UNCHANGED <<offset, read>>
    BY <1>3 DEF AllNull
  <2>2. params' \in Seq(Value) /\ Len(params') = count
    BY <2>1 DEF Inv, Decoding, Value
  <2> QED
    BY <1>1, <2>1, <2>2 DEF Inv, Decoding, ReadsInside, OneValuePerMarker
<1>4. CASE ReadTypes
  <2> DEFINE flag  == BitmapStart + BitmapLength
             first == flag + 1
             typed == At(flag) = 1 /\ Len(packet) >= first + 2 * count
  <2>1. /\ phase = "header" /\ count > 0
        /\ Len(packet) > flag
        /\ types' = [i \in 1..count |-> IF typed THEN At(first + 2 * (i - 1)) ELSE VarString]
        /\ offset' = IF typed THEN first + 2 * count ELSE first
        /\ read' = {flag} \cup (IF typed THEN {first + 2 * (i - 1) : i \in 1..count} ELSE {})
        /\ phase' = "params"
        /\ params' = params
    BY <1>4 DEF ReadTypes
  <2>2. BitmapLength \in Nat /\ flag \in Nat /\ first \in Nat /\ Len(packet) \in Nat
    BY BitmapCovers DEF Inv, Decoding, BitmapLength, BitmapStart
  <2> HIDE DEF flag, first
  <2>3. first = flag + 1
    BY DEF first
  <2>4. typed => \A i \in 1..count : first + 2 * (i - 1) \in Nat /\ first + 2 * (i - 1) < Len(packet)
    BY <2>2 DEF Inv, Decoding
  <2>5. typed => \A i \in 1..count : At(first + 2 * (i - 1)) \in Byte
    BY <2>4 DEF At, Inv, Decoding
  <2>6. types' \in [1..count -> Byte]
    <3>1. CASE typed
      <4> HIDE DEF typed
      <4>1. types' = [i \in 1..count |-> At(first + 2 * (i - 1))]
        BY <2>1, <3>1
      <4> QED
        BY <2>5, <3>1, <4>1
    <3>2. CASE ~typed
      <4> HIDE DEF typed
      <4>1. types' = [i \in 1..count |-> VarString]
        BY <2>1, <3>2
      <4> QED
        BY <4>1 DEF VarString, Byte
    <3> QED
      BY <3>1, <3>2
  <2>7. offset' \in Nat
    BY <2>1, <2>2 DEF Inv, Decoding
  <2>8. \A i \in read' : i >= 0 /\ i < Len(packet)
    BY <2>1, <2>2, <2>4
  <2>9. params' = <<>> /\ Len(params') <= count
    BY <2>1 DEF Inv, Decoding
  <2> QED
    BY <1>1, <2>1, <2>2, <2>6, <2>7, <2>8, <2>9
       DEF flag, Inv, Decoding, ReadsInside, OneValuePerMarker, BitmapStart
<1> QED
  BY <1>2, <1>3, <1>4

\* An integer is read if it is in the packet.
LEMMA NumberKeeps ==
    ASSUME Inv, ReadNumber
    PROVE  Inv'
<1> DEFINE n == Width(types[Index + 1])
<1>1. /\ Reading /\ offset < Len(packet) /\ n > 0
      /\ IF offset + n <= Len(packet)
           THEN Decoded(Number(Bytes(offset, n)), offset + n, offset..(offset + n - 1))
           ELSE Decoded(NullParam, offset, {})
  BY DEF ReadNumber, HasValue
<1>2. n \in {0, 1, 4, 8}
  BY DEF Width
<1> HIDE DEF n
<1>3. offset \in Nat /\ Len(packet) \in Nat /\ packet \in Seq(Byte)
  BY DEF Inv, Decoding
<1>4. CASE offset + n <= Len(packet)
  <2>1. Bytes(offset, n) \in Seq(Byte)
    BY <1>2, <1>3, <1>4, BytesType
  <2>2. Number(Bytes(offset, n)) \in Value
    BY <2>1 DEF Number, Value
  <2>3. \A i \in offset..(offset + n - 1) : i >= 0 /\ i < Len(packet)
    BY <1>2, <1>3, <1>4
  <2> QED
    BY <1>1, <1>2, <1>3, <1>4, <2>2, <2>3, DecodedKeeps
<1>5. CASE ~(offset + n <= Len(packet))
  <2>1. Reading /\ Decoded(NullParam, offset, {})
    BY <1>1, <1>5
  <2>2. NullParam \in Value
    BY Zenon DEF Value
  <2> QED
    BY <1>3, <2>1, <2>2, DecodedKeeps
<1> QED
  BY <1>4, <1>5

\* A text is read if it is in the packet, and its prefix if not.
LEMMA TextKeeps ==
    ASSUME Inv, ReadText
    PROVE  Inv'
<1> DEFINE start == offset + Prefix.width
           fits  == start + Prefix.length <= Len(packet)
<1>1. /\ Reading /\ offset < Len(packet)
      /\ IF Prefix.width = 0
           THEN Decoded(Text(<<>>), 0, {offset})
           ELSE IF fits
           THEN Decoded(FromUtf8Lossy(Bytes(start, Prefix.length)), Prefix.width + Prefix.length,
                        offset..(start + Prefix.length - 1))
           ELSE Decoded(Text(<<>>), Len(packet) - offset, offset..(start - 1))
  BY DEF ReadText, HasValue
<1>2. offset \in Nat /\ Len(packet) \in Nat /\ packet \in Seq(Byte)
  BY DEF Inv, Decoding
<1>3. /\ Prefix.length \in Nat /\ Prefix.width \in {0, 1, 3, 4}
      /\ start <= Len(packet) /\ start \in Nat
  BY <1>1, <1>2, PrefixType
<1>4. Text(<<>>) \in Value
  BY DEF Text, Value
<1> DEFINE length == Prefix.length
           width == Prefix.width
<1>5. CASE width = 0
  BY <1>1, <1>2, <1>4, <1>5, DecodedKeeps
<1>6. CASE width # 0 /\ fits
  <2>1. FromUtf8Lossy(Bytes(start, length)) \in Value
    <3> HIDE DEF start, length
    <3>1. Bytes(start, length) \in Seq(Byte)
      BY <1>2, <1>3, <1>6, BytesType DEF length
    <3>2. Text(Bytes(start, length)) \in Value /\ Replaced \in Value
      BY <3>1 DEF Text, Value
    <3> QED
      BY <3>2, Zenon DEF FromUtf8Lossy
  <2>2. \A i \in offset..(start + length - 1) : i >= 0 /\ i < Len(packet)
    <3> HIDE DEF start, length
    <3> QED
      BY <1>2, <1>3, <1>6 DEF length
  <2>3. width + length \in Nat
    BY <1>3
  <2> QED
    BY <1>1, <1>6, <2>1, <2>2, <2>3, DecodedKeeps
<1>7. CASE width # 0 /\ ~fits
  <2>1. \A i \in offset..(start - 1) : i >= 0 /\ i < Len(packet)
    BY <1>2, <1>3
  <2>2. Len(packet) - offset \in Nat
    BY <1>1, <1>2
  <2> QED
    BY <1>1, <1>4, <1>7, <2>1, <2>2, DecodedKeeps
<1> QED
  BY <1>5, <1>6, <1>7

LEMMA InvStep == Inv /\ [Next]_vars => Inv'
<1> SUFFICES ASSUME Inv, [Next]_vars PROVE Inv'
  OBVIOUS
<1>1. CASE NoParams \/ AllNull \/ ReadTypes
  BY <1>1, HeaderKeeps
<1>2. CASE ReadNull
  <2>1. Reading /\ Decoded(NullParam, offset, {})
    BY <1>2 DEF ReadNull
  <2>2. NullParam \in Value /\ offset \in Nat
    BY DEF Inv, Decoding, Value
  <2> QED
    BY <2>1, <2>2, DecodedKeeps
<1>3. CASE ReadNumber
  BY <1>3, NumberKeeps
<1>4. CASE ReadText
  BY <1>4, TextKeeps
<1>5. CASE Finish
  <2>1. /\ phase = "params" /\ Len(params) = count /\ phase' = "done"
        /\ UNCHANGED <<input, offset, types, params, read>>
    BY <1>5 DEF Finish, Index
  <2>2. packet' = packet /\ count' = count
    BY <2>1 DEF packet, count
  <2> QED
    BY <2>1, <2>2 DEF Inv, Decoding, ReadsInside, OneValuePerMarker
<1>6. CASE UNCHANGED vars
  <2>1. packet' = packet /\ count' = count /\ BitmapLength' = BitmapLength
    BY <1>6 DEF vars, packet, count, BitmapLength
  <2> QED
    BY <1>6, <2>1 DEF vars, Inv, Decoding, ReadsInside, OneValuePerMarker, BitmapStart
<1> QED
  BY <1>1, <1>2, <1>3, <1>4, <1>5, <1>6 DEF Next

\* No index is out of range, for any packet and any number of parameters, and
\* as many values are decoded as the statement has markers, or none from a
\* packet that is too short.
THEOREM DecoderStaysSafe == Spec => []DecoderIsSafe
<1>1. Inv => DecoderIsSafe
  BY DEF Inv, DecoderIsSafe
<1> QED
  BY <1>1, InitInv, InvStep, PTL DEF Spec

-----------------------------------------------------------------------------
(* What is decoded.                                                        *)

\* The parameter i can be expressed, and the end of each before it is found.
IsClear(i) ==
    \/ input.meant[i].null
    \/ IsKept(input.meant[i]) /\ \A j \in 1..(i - 1) : EndIsFound(input.meant[j])

\* The ends of the first n values are found.
EndsFound(n) == \A j \in 1..n : EndIsFound(input.meant[j])

\* Of the parameters decoded so far the clear ones are right, and the next value
\* is read where it begins if all ends have been found.
Right ==
    /\ phase = "params" =>
         /\ \A i \in 1..count : types[i] = input.meant[i].type
         /\ \A i \in 1..Len(params) : IsClear(i) => params[i] = Meaning(input.meant[i])
         /\ EndsFound(Len(params)) => offset = input.at[Len(params) + 1]
    /\ phase = "done" =>
         \A i \in 1..count : IsClear(i) => params[i] = Meaning(input.meant[i])

Decodes == Inv /\ (input.typed => Encodes(input) /\ Right)

\* The header of a packet that a client has encoded.
LEMMA HeaderEncoded ==
    ASSUME Inv, Encodes(input)
    PROVE  /\ input.meant \in [1..count -> Parameters] /\ input.at \in [1..(count + 1) -> Nat]
           /\ Len(packet) >= BitmapStart + BitmapLength + 1 + 2 * count
           /\ At(BitmapStart + BitmapLength) = 1
           /\ input.at[1] = BitmapStart + BitmapLength + 1 + 2 * count
           /\ \A i \in 1..count :
                At(BitmapStart + BitmapLength + 1 + 2 * (i - 1)) = input.meant[i].type
BY DEF Encodes, BitmapStart, BitmapLength, At, packet, count

\* A value in it.
LEMMA ValueEncoded ==
    ASSUME Inv, Encodes(input), NEW i \in 1..count
    PROVE  LET p     == input.meant[i]
               value == SubSeq(packet, input.at[i] + 1, input.at[i + 1])
           IN
           /\ p \in Parameters /\ input.at[i] \in Nat /\ input.at[i + 1] \in Nat
           /\ p.null => input.at[i + 1] = input.at[i]
           /\ ~p.null =>
                /\ input.at[i] < input.at[i + 1] /\ input.at[i + 1] <= Len(packet)
                /\ Sends(p, value)
                /\ Len(value) = input.at[i + 1] - input.at[i]
                /\ \A k \in 1..(input.at[i + 1] - input.at[i]) : value[k] = At(input.at[i] + k - 1)
<1> DEFINE p     == input.meant[i]
           a     == input.at[i]
           b     == input.at[i + 1]
           value == SubSeq(packet, a + 1, b)
<1>1. count \in Nat /\ packet \in Seq(Byte)
  BY DEF Inv, Decoding
<1>2. p \in Parameters /\ a \in Nat /\ b \in Nat
  BY <1>1, HeaderEncoded
<1>3. p.null => b = a
  BY DEF Encodes, count
<1>4. ~p.null => a < b /\ b <= Len(packet) /\ Sends(p, value)
  BY DEF Encodes, count, packet
<1> HIDE DEF p, a, b
<1>5. ASSUME a < b, b <= Len(packet)
      PROVE  Len(value) = b - a /\ \A k \in 1..(b - a) : value[k] = At(a + k - 1)
  <2>1. a + 1 \in 1..Len(packet) /\ b \in 1..Len(packet) /\ a + 1 <= b
    BY <1>1, <1>2, <1>5
  <2>2. Len(value) = b - a
    BY <1>1, <1>2, <2>1
  <2>3. ASSUME NEW k \in 1..(b - a) PROVE value[k] = At(a + k - 1)
    <3>1. value[k] = packet[(a + 1) + k - 1]
      BY <1>1, <1>2, <2>1
    <3>2. (a + 1) + k - 1 = (a + k - 1) + 1
      BY <1>2
    <3> QED
      BY <3>1, <3>2 DEF At
  <2> QED
    BY <2>2, <2>3
<1> HIDE DEF value
<1>6. /\ p \in Parameters /\ a \in Nat /\ b \in Nat
      /\ p.null => b = a
      /\ ~p.null => /\ a < b /\ b <= Len(packet) /\ Sends(p, value)
                    /\ Len(value) = b - a /\ \A k \in 1..(b - a) : value[k] = At(a + k - 1)
  BY <1>2, <1>3, <1>4, <1>5
<1> QED
  BY <1>6 DEF p, a, b, value

\* The integers of whose types the decoder knows the width.
Whole == {Tiny, Long, LongLong}

LEMMA WidthOf ==
    /\ Width(Tiny) = 1 /\ Width(Long) = 4 /\ Width(LongLong) = 8
    /\ \A type \in TextTypes : Width(type) = 0 /\ type \notin {Tiny, Short, Long, LongLong, Float, Double}
                               /\ type \notin DateTypes
<1>1. /\ Short # Tiny /\ Long # Tiny /\ LongLong # Tiny /\ LongLong # Short /\ LongLong # Long
  BY DEF Tiny, Short, Long, LongLong
<1>2. Width(Tiny) = 1
  BY <1>1 DEF Width
<1>3. Width(Long) = 4
  BY <1>1 DEF Width
<1>4. Width(LongLong) = 8
  BY <1>1 DEF Width
<1>5. ASSUME NEW type \in TextTypes
      PROVE  /\ type \notin {Tiny, Short, Long, LongLong, Float, Double}
             /\ type \notin DateTypes
  BY DEF TextTypes, DateTypes, Tiny, Short, Long, LongLong, Float, Double
<1>6. ASSUME NEW type \in TextTypes PROVE Width(type) = 0
  BY <1>5 DEF Width
<1> QED
  BY <1>2, <1>3, <1>4, <1>5, <1>6

LEMMA WholeTypes ==
    /\ \A type \in Whole : type \notin {Short, Float, Double} /\ type \notin TextTypes /\ type \notin DateTypes
    /\ Tiny # Long /\ Tiny # LongLong /\ Long # LongLong
    /\ \A type \in Whole : Width(type) \in {1, 4, 8} /\ Width(type) # 0
<1>1. /\ \A type \in Whole : type \notin {Short, Float, Double} /\ type \notin TextTypes /\ type \notin DateTypes
      /\ Tiny # Long /\ Tiny # LongLong /\ Long # LongLong
  BY DEF Whole, TextTypes, DateTypes, Tiny, Short, Long, LongLong, Float, Double
<1>2. \A type \in Whole : Width(type) \in {1, 4, 8} /\ Width(type) # 0
  BY WidthOf DEF Whole
<1> QED
  BY <1>1, <1>2

\* A client sends the bytes of a number, as many as its type has.
LEMMA NumberSent ==
    ASSUME NEW p, NEW value, Sends(p, value), p.type \in Whole
    PROVE  value = p.bytes /\ Len(p.bytes) = Width(p.type) /\ Width(p.type) \in {1, 4, 8}
<1> DEFINE t == p.type
           n == Len(p.bytes)
<1>1. /\ t \notin {Short, Float, Double} /\ t \notin TextTypes /\ t \notin DateTypes
      /\ Width(t) \in {1, 4, 8}
  BY WholeTypes
<1>2. /\ <<t, n>> \in {<<Tiny, 1>>, <<Short, 2>>, <<Long, 4>>, <<LongLong, 8>>, <<Float, 4>>, <<Double, 8>>}
      /\ value = p.bytes
  BY <1>1, Zenon DEF Sends
<1> HIDE DEF t, n
<1>3. \/ t = Tiny /\ n = 1
      \/ t = Long /\ n = 4
      \/ t = LongLong /\ n = 8
  BY <1>1, <1>2
<1>4. n = Width(t)
  BY <1>3, WidthOf
<1> QED
  BY <1>1, <1>2, <1>4 DEF t, n

\* The sign of a number is the top bit of its last byte.
LEMMA NumberOf ==
    ASSUME NEW bytes, NEW top \in Byte, top = bytes[Len(bytes)]
    PROVE  /\ top >= 128 => Number(bytes) = [kind |-> "number", negative |-> TRUE, bytes |-> bytes]
           /\ top < 128 => Number(bytes) = [kind |-> "number", negative |-> FALSE, bytes |-> bytes]
<1>1. (top >= 128) = TRUE \/ (top >= 128) = FALSE
  BY DEF Byte
<1>2. Number(bytes) = [kind |-> "number", negative |-> top >= 128, bytes |-> bytes]
  BY Zenon DEF Number
<1>3. ASSUME top >= 128 PROVE (top >= 128) = TRUE
  BY <1>3
<1>4. ASSUME top < 128 PROVE (top >= 128) = FALSE
  BY <1>4 DEF Byte
<1> QED
  BY <1>2, <1>3, <1>4, Zenon

LEMMA SignKept ==
    ASSUME NEW bytes, NEW sign \in BOOLEAN, NEW value,
           value = [kind |-> "number", negative |-> sign, bytes |-> bytes]
    PROVE  value.negative = sign /\ [value EXCEPT !.negative = sign] = value
<1>1. value.negative = sign
  OBVIOUS
<1>2. [value EXCEPT !.negative = sign] = value
  OBVIOUS
<1> QED
  BY <1>1, <1>2

\* They mean the number that they are read as.
LEMMA NumberMeant ==
    ASSUME NEW p \in Parameters, ~p.null, p.type \in Whole, Len(p.bytes) # 0,
           p.unsigned => p.bytes[Len(p.bytes)] < 128
    PROVE  Number(p.bytes) = Meaning(p)
<1> DEFINE bytes == p.bytes
           top   == bytes[Len(bytes)]
<1>1. bytes \in Seq(Byte) /\ p.unsigned \in BOOLEAN /\ Len(bytes) # 0
  BY DEF Parameters
<1>2. Meaning(p) = [Number(bytes) EXCEPT !.negative = @ /\ ~p.unsigned]
  <2>1. IsInteger(p)
    BY Zenon DEF IsInteger, Whole
  <2> QED
    BY <2>1, Zenon DEF Meaning
<1>3. p.unsigned => top < 128
  OBVIOUS
<1> HIDE DEF bytes
<1>4. top \in Byte
  BY <1>1
<1>5. \/ /\ Number(bytes) = [kind |-> "number", negative |-> TRUE, bytes |-> bytes]
         /\ p.unsigned = FALSE
      \/ Number(bytes) = [kind |-> "number", negative |-> FALSE, bytes |-> bytes]
  <2> HIDE DEF top
  <2>1. top >= 128 \/ top < 128
    BY <1>4 DEF Byte
  <2>2. top >= 128 => ~(top < 128)
    BY <1>4 DEF Byte
  <2>3. top = bytes[Len(bytes)]
    BY DEF top
  <2> QED
    BY <1>1, <1>3, <1>4, <2>1, <2>2, <2>3, NumberOf, Zenon
<1>6. Number(bytes) = Meaning(p)
  <2>1. CASE Number(bytes) = [kind |-> "number", negative |-> FALSE, bytes |-> bytes]
    <3>1. /\ Number(bytes).negative = FALSE
          /\ [Number(bytes) EXCEPT !.negative = FALSE] = Number(bytes)
      BY <2>1, SignKept
    <3>2. (Number(bytes).negative /\ ~p.unsigned) = FALSE
      BY <3>1, Zenon
    <3> QED
      BY <1>2, <3>1, <3>2, Zenon
  <2>2. CASE /\ Number(bytes) = [kind |-> "number", negative |-> TRUE, bytes |-> bytes]
             /\ p.unsigned = FALSE
    <3>1. /\ Number(bytes).negative = TRUE
          /\ [Number(bytes) EXCEPT !.negative = TRUE] = Number(bytes)
      BY <2>2, SignKept
    <3>2. (Number(bytes).negative /\ ~p.unsigned) = TRUE
      BY <2>2, <3>1, Zenon
    <3> QED
      BY <1>2, <3>1, <3>2, Zenon
  <2> QED
    BY <1>5, <2>1, <2>2
<1> QED
  BY <1>6 DEF bytes

\* The number that is read is the one that was meant, if its sign is.
LEMMA NumberEncoded ==
    ASSUME Inv, Encodes(input), NEW i \in 1..count, ~input.meant[i].null,
           input.meant[i].type \in Whole,
           NEW n \in Nat, n = Width(input.meant[i].type)
    PROVE  /\ input.at[i + 1] = input.at[i] + n /\ input.at[i] + n <= Len(packet)
           /\ IsKept(input.meant[i]) => Number(Bytes(input.at[i], n)) = Meaning(input.meant[i])
<1> DEFINE p     == input.meant[i]
           a     == input.at[i]
           b     == input.at[i + 1]
           value == SubSeq(packet, a + 1, b)
<1>1. /\ p \in Parameters /\ a \in Nat /\ b \in Nat /\ a < b /\ b <= Len(packet)
      /\ Sends(p, value) /\ Len(value) = b - a
      /\ \A k \in 1..(b - a) : value[k] = At(a + k - 1)
  BY ValueEncoded
<1>2. value = p.bytes /\ Len(p.bytes) = n /\ n \in {1, 4, 8}
  BY <1>1, NumberSent
<1>3. ASSUME IsKept(p) PROVE Number(p.bytes) = Meaning(p)
  <2> DEFINE top == p.bytes[Len(p.bytes)]
  <2>1. ~IsText(p)
    BY WholeTypes DEF IsText
  <2>2. ~(p.unsigned /\ top >= 128)
    BY <1>3, <2>1, Zenon DEF IsKept
  <2> DEFINE bytes == p.bytes
  <2>3. bytes \in Seq(Byte) /\ Len(bytes) # 0
    BY <1>1, <1>2 DEF Parameters
  <2> HIDE DEF bytes
  <2>4. bytes[Len(bytes)] \in Byte
    BY <2>3
  <2>7. top \in Byte
    BY <2>4 DEF bytes
  <2> HIDE DEF top
  <2>5. p.unsigned => top < 128
    BY <2>2, <2>7 DEF Byte
  <2>6. p.unsigned => p.bytes[Len(p.bytes)] < 128
    BY <2>5 DEF top
  <2>8. ~p.null /\ p.type \in Whole /\ Len(p.bytes) # 0 /\ p \in Parameters
    BY <1>1, <1>2
  <2> HIDE DEF p
  <2> QED
    BY <2>6, <2>8, NumberMeant
<1> HIDE DEF p, a, b, value
<1>4. Bytes(a, n) = p.bytes
  <2>1. p.bytes \in Seq(Byte) /\ b - a = n
    BY <1>1, <1>2 DEF Parameters
  <2>2. \A k \in 1..n : p.bytes[k] = At(a + k - 1)
    BY <1>1, <1>2, <2>1
  <2>3. p.bytes = [k \in 1..n |-> p.bytes[k]]
    BY <1>2, <2>1
  <2> QED
    BY <2>2, <2>3 DEF Bytes
<1>5. b = a + n
  BY <1>1, <1>2
<1> QED
  BY <1>1, <1>3, <1>4, <1>5 DEF p, a, b

\* What a client sends in front of a text of n bytes.
Announces(first, n) ==
    \/ n < 251 /\ Len(first) = 1 /\ first[1] = n
    \/ Len(first) = 3 /\ first[1] = 252 /\ first[2] + 256 * first[3] = n
    \/ Len(first) = 4 /\ first[1] = 253 /\ first[2] + 256 * first[3] + 65536 * first[4] = n

LEMMA ShortPrefix ==
    ASSUME NEW n \in Nat, n < 251
    PROVE  <<n>> \in Seq(Byte) /\ Announces(<<n>>, n)
<1>1. n \in Byte
  BY DEF Byte
<1>2. <<n>> \in Seq(Byte) /\ Len(<<n>>) = 1 /\ <<n>>[1] = n
  BY <1>1
<1> DEFINE first == <<n>>
<1> HIDE DEF first
<1>3. Len(first) = 1 /\ first[1] = n
  BY <1>2 DEF first
<1>4. Announces(first, n)
  BY <1>3 DEF Announces
<1> QED
  BY <1>2, <1>4 DEF first

LEMMA MediumPrefix ==
    ASSUME NEW n \in Nat, NEW x \in Byte, NEW y \in Byte, x + 256 * y = n
    PROVE  <<252, x, y>> \in Seq(Byte) /\ Announces(<<252, x, y>>, n)
<1> DEFINE first == <<252, x, y>>
<1>1. 252 \in Byte
  BY DEF Byte
<1>2. first \in Seq(Byte)
  BY <1>1
<1>3. Len(first) = 3 /\ first[1] = 252 /\ first[2] = x /\ first[3] = y
  OBVIOUS
<1> HIDE DEF first
<1>4. Announces(first, n)
  BY <1>3 DEF Announces
<1> QED
  BY <1>2, <1>4 DEF first

LEMMA LongPrefix ==
    ASSUME NEW n \in Nat, NEW x \in Byte, NEW y \in Byte, NEW z \in Byte,
           x + 256 * y + 65536 * z = n
    PROVE  <<253, x, y, z>> \in Seq(Byte) /\ Announces(<<253, x, y, z>>, n)
<1> DEFINE first == <<253, x, y, z>>
<1>1. 253 \in Byte
  BY DEF Byte
<1>2. first \in Seq(Byte)
  BY <1>1
<1>3. Len(first) = 4 /\ first[1] = 253 /\ first[2] = x /\ first[3] = y /\ first[4] = z
  OBVIOUS
<1> HIDE DEF first
<1>4. Announces(first, n)
  BY <1>3 DEF Announces
<1> QED
  BY <1>2, <1>4 DEF first

LEMMA TextSent ==
    ASSUME NEW bytes \in Seq(Byte), NEW value, SendsText(bytes, value)
    PROVE  \E first \in Seq(Byte) : value = first \o bytes /\ Announces(first, Len(bytes))
<1> DEFINE n     == Len(bytes)
           x     == n % 256
           y     == n \div 256
           z     == n \div 65536
           IsShort  == n < 251 /\ value = <<n>> \o bytes
           IsMedium == n < 65536 /\ value = <<252, x, y>> \o bytes
           IsLong   == n < 16777216 /\ value = <<253, x, y % 256, z>> \o bytes
           Found == \E first \in Seq(Byte) : value = first \o bytes /\ Announces(first, n)
<1>1. n \in Nat
  OBVIOUS
<1>2. ASSUME IsShort PROVE Found
  <2> DEFINE first == <<n>>
  <2> HIDE DEF n
  <2>1. first \in Seq(Byte) /\ Announces(first, n)
    BY <1>1, <1>2, ShortPrefix
  <2>2. value = first \o bytes
    BY <1>2
  <2> HIDE DEF first
  <2> QED
    BY <2>1, <2>2
<1>3. ASSUME IsMedium PROVE Found
  <2> DEFINE first == <<252, x, y>>
  <2> HIDE DEF n
  <2>1. x \in Byte /\ y \in Byte /\ x + 256 * y = n
    BY <1>1, <1>3 DEF Byte
  <2> HIDE DEF x, y
  <2>2. first \in Seq(Byte) /\ Announces(first, n)
    BY <1>1, <2>1, MediumPrefix
  <2>3. value = first \o bytes
    BY <1>3
  <2> HIDE DEF first
  <2> QED
    BY <2>2, <2>3
<1>4. ASSUME IsLong PROVE Found
  <2> DEFINE w     == y % 256
             first == <<253, x, w, z>>
  <2> HIDE DEF n
  <2>1. x \in Byte /\ w \in Byte
    BY <1>1 DEF Byte
  <2>2. z \in Byte
    BY <1>1, <1>4 DEF Byte
  <2>3. x + 256 * w + 65536 * z = n
    BY <1>1
  <2>4. value = first \o bytes
    BY <1>4
  <2> HIDE DEF x, z, w
  <2>5. first \in Seq(Byte) /\ Announces(first, n)
    BY <1>1, <2>1, <2>2, <2>3, LongPrefix
  <2> HIDE DEF first
  <2> QED
    BY <2>4, <2>5
<1>5. IsShort \/ IsMedium \/ IsLong
  BY SMTT(90) DEF SendsText
<1> HIDE DEF Found, IsShort, IsMedium, IsLong
<1>6. Found
  BY <1>2, <1>3, <1>4, <1>5
<1> QED
  BY <1>6 DEF Found

\* The decoder reads it.
LEMMA PrefixRead ==
    ASSUME packet \in Seq(Byte), offset \in Nat, NEW n \in Nat, NEW first \in Seq(Byte),
           Announces(first, n), offset + Len(first) <= Len(packet),
           \A k \in 1..Len(first) : At(offset + k - 1) = first[k]
    PROVE  Prefix = [length |-> n, width |-> Len(first)]
<1>1. At(offset) = first[1] /\ Len(packet) - offset >= Len(first)
  <2>1. At(offset + 1 - 1) = first[1]
    BY DEF Announces
  <2>2. offset + 1 - 1 = offset
    OBVIOUS
  <2> QED
    BY <2>1, <2>2
<1>2. \A k \in 1..3 : k < Len(first) => At(offset + k) = first[k + 1]
  <2> TAKE k \in 1..3
  <2> HAVE k < Len(first)
  <2>1. k + 1 \in 1..Len(first) /\ offset + (k + 1) - 1 = offset + k
    OBVIOUS
  <2> QED
    BY <2>1
<1>3. CASE n < 251 /\ Len(first) = 1 /\ first[1] = n
  BY <1>1, <1>3 DEF Prefix
<1>4. CASE Len(first) = 3 /\ first[1] = 252 /\ first[2] + 256 * first[3] = n
  <2>1. At(offset + 1) = first[2] /\ At(offset + 2) = first[3]
    BY <1>2, <1>4
  <2>2. ~(At(offset) < 251) /\ At(offset) = 252 /\ Len(packet) - offset >= 3
    BY <1>1, <1>4
  <2>3. Prefix = [length |-> At(offset + 1) + 256 * At(offset + 2), width |-> 3]
    BY <2>2 DEF Prefix
  <2> QED
    BY <1>4, <2>1, <2>3
<1>5. CASE /\ Len(first) = 4 /\ first[1] = 253
           /\ first[2] + 256 * first[3] + 65536 * first[4] = n
  <2>1. At(offset + 1) = first[2] /\ At(offset + 2) = first[3] /\ At(offset + 3) = first[4]
    BY <1>2, <1>5
  <2>2. ~(At(offset) < 251) /\ At(offset) # 252 /\ At(offset) = 253 /\ Len(packet) - offset >= 4
    BY <1>1, <1>5
  <2>3. Prefix = [length |-> At(offset + 1) + 256 * At(offset + 2) + 65536 * At(offset + 3),
                  width |-> 4]
    BY <2>2 DEF Prefix
  <2> QED
    BY <1>5, <2>1, <2>3
<1> QED
  BY <1>3, <1>4, <1>5 DEF Announces

\* The end of a text behind its prefix.
LEMMA EndOfText ==
    ASSUME NEW begin \in Nat, NEW end \in Nat, NEW width \in Nat, NEW n \in Nat, NEW length \in Nat,
           end - begin = width + n, end <= length
    PROVE  /\ end = begin + width + n
           /\ begin + width + n <= length /\ begin + width <= length
OBVIOUS

\* So is the text.
LEMMA TextEncoded ==
    ASSUME Inv, Encodes(input), NEW i \in 1..count, ~input.meant[i].null,
           IsText(input.meant[i]), Utf8(input.meant[i].bytes), offset = input.at[i]
    PROVE  /\ Prefix.width # 0
           /\ offset + Prefix.width + Prefix.length <= Len(packet)
           /\ FromUtf8Lossy(Bytes(offset + Prefix.width, Prefix.length)) = Meaning(input.meant[i])
<1> DEFINE p     == input.meant[i]
           b     == input.at[i + 1]
           value == SubSeq(packet, offset + 1, b)
           bytes == p.bytes
           n     == Len(bytes)
<1>1. /\ p \in Parameters /\ offset \in Nat /\ b \in Nat /\ offset < b /\ b <= Len(packet)
      /\ Sends(p, value) /\ Len(value) = b - offset
      /\ \A k \in 1..(b - offset) : value[k] = At(offset + k - 1)
  BY ValueEncoded
<1>2. bytes \in Seq(Byte) /\ n \in Nat /\ packet \in Seq(Byte) /\ Len(packet) \in Nat
  BY <1>1 DEF Parameters, Inv, Decoding
<1>3. SendsText(bytes, value)
  <2> DEFINE t == p.type
  <2>1. t \notin {Tiny, Short, Long, LongLong, Float, Double} /\ t \notin DateTypes
    BY WidthOf DEF IsText
  <2> HIDE DEF t, n
  <2>2. <<t, n>> \notin {<<Tiny, 1>>, <<Short, 2>>, <<Long, 4>>, <<LongLong, 8>>, <<Float, 4>>, <<Double, 8>>}
    BY <2>1
  <2> QED
    BY <1>1, <2>1, <2>2, Zenon DEF Sends, t, n
<1>4. FromUtf8Lossy(bytes) = Meaning(p)
  <2>1. ~IsInteger(p) /\ IsText(p) /\ ~p.null
    BY WidthOf DEF IsText, IsInteger
  <2>2. Meaning(p) = Text(bytes)
    BY <2>1, Zenon DEF Meaning
  <2>3. Utf8(bytes)
    OBVIOUS
  <2> QED
    BY <2>2, <2>3, Zenon DEF FromUtf8Lossy
<1> HIDE DEF n, bytes, value, b, p
<1>5. PICK first \in Seq(Byte) : value = first \o bytes /\ Announces(first, n)
  BY <1>2, <1>3, TextSent DEF n
<1> DEFINE width == Len(first)
<1>6. /\ Len(value) = width + n /\ width \in Nat /\ width # 0
      /\ \A k \in 1..width : value[k] = first[k]
      /\ \A k \in 1..n : value[width + k] = bytes[k]
  <2>1. width \in Nat /\ width # 0 /\ n = Len(bytes)
    BY <1>5 DEF Announces, n
  <2>2. /\ Len(value) = width + n
        /\ \A k \in 1..(width + n) :
             value[k] = IF k <= width THEN first[k] ELSE bytes[k - width]
    BY <1>2, <1>5, <2>1, ConcatProperties
  <2> HIDE DEF width
  <2>3. \A k \in 1..n : width + k \in 1..(width + n) /\ ~(width + k <= width) /\ (width + k) - width = k
    BY <1>2, <2>1
  <2>4. \A k \in 1..width : k \in 1..(width + n) /\ k <= width
    BY <1>2, <2>1
  <2> QED
    BY <2>1, <2>2, <2>3, <2>4
<1>7. /\ b = offset + width + n /\ b - offset = width + n
      /\ offset + width + n <= Len(packet) /\ offset + width <= Len(packet)
  <2>1. b - offset = width + n /\ width \in Nat
    BY <1>1, <1>6
  <2>2. offset \in Nat /\ b \in Nat /\ b <= Len(packet)
    BY <1>1
  <2>3. Len(packet) \in Nat /\ n \in Nat
    BY <1>2
  <2> HIDE DEF width
  <2> QED
    BY <2>1, <2>2, <2>3, EndOfText, SMTT(30)
<1>8. Prefix = [length |-> n, width |-> width]
  <2>1. \A k \in 1..width : At(offset + k - 1) = first[k]
    <3> TAKE k \in 1..width
    <3>1. k \in 1..(b - offset)
      BY <1>2, <1>6, <1>7
    <3> QED
      BY <1>1, <1>6, <3>1
  <2> QED
    BY <1>1, <1>2, <1>5, <1>7, <2>1, PrefixRead
<1>9. Bytes(offset + width, n) = bytes
  <2> HIDE DEF width
  <2>1. \A k \in 1..n : At((offset + width) + k - 1) = bytes[k]
    <3> TAKE k \in 1..n
    <3>1. width + k \in 1..(b - offset)
      BY <1>2, <1>6, <1>7
    <3>2. value[width + k] = At(offset + (width + k) - 1)
      BY <1>1, <3>1
    <3>3. offset + (width + k) - 1 = (offset + width) + k - 1
      BY <1>1, <1>6
    <3> QED
      BY <1>6, <3>2, <3>3
  <2>2. bytes = [k \in 1..n |-> bytes[k]]
    BY <1>2 DEF n
  <2> QED
    BY <2>1, <2>2 DEF Bytes
<1> HIDE DEF width
<1>10. Prefix.length = n /\ Prefix.width = width
  BY <1>8
<1> QED
  BY <1>4, <1>6, <1>7, <1>9, <1>10 DEF p

-----------------------------------------------------------------------------
\* One step of the loop that reads a clear value as it was meant, and moves to
\* where the next one begins if the ends are found.
LEMMA DecodedRight ==
    ASSUME Inv, Encodes(input), Right, Reading, NEW value, NEW after, NEW positions,
           Decoded(value, after, positions),
           IsClear(Index + 1) => value = Meaning(input.meant[Index + 1]),
           EndsFound(Index + 1) => after = input.at[Index + 2]
    PROVE  Right'
<1>1. /\ params' = Append(params, value) /\ offset' = after
      /\ input' = input /\ phase' = phase /\ types' = types
      /\ phase = "params" /\ Index < count
  BY DEF Decoded, Reading
<1>2. count' = count /\ count \in Nat /\ params \in Seq(Value) /\ Index = Len(params)
  BY <1>1 DEF count, Inv, Decoding, Index
<1>3. Len(params') = Index + 1 /\ Index \in Nat
  BY <1>1, <1>2
<1>4. \A i \in 1..(Index + 1) : params'[i] = IF i = Index + 1 THEN value ELSE params[i]
  BY <1>1, <1>2
<1>5. \A i \in 1..Len(params') : IsClear(i) => params'[i] = Meaning(input.meant[i])
  <2> TAKE i \in 1..Len(params')
  <2>1. CASE i = Index + 1
    BY <1>3, <1>4, <2>1
  <2>2. CASE i # Index + 1
    <3>1. i \in 1..Len(params) /\ i \in 1..(Index + 1)
      BY <1>2, <1>3, <2>2
    <3>2. IsClear(i) => params[i] = Meaning(input.meant[i])
      BY <1>1, <3>1 DEF Right
    <3> QED
      BY <1>4, <2>2, <3>1, <3>2
  <2> QED
    BY <2>1, <2>2
<1>6. Len(params') + 1 = Index + 2
  BY <1>3
<1>7. \A i \in 1..count : types[i] = input.meant[i].type
  BY <1>1 DEF Right
<1>8. \A i : IsClear(i)' <=> IsClear(i)
  BY <1>1 DEF IsClear
<1>9. EndsFound(Len(params))' <=> EndsFound(Index + 1)
  BY <1>1, <1>3 DEF EndsFound
<1>10. /\ phase' = "params"
       /\ \A i \in 1..count' : types'[i] = input'.meant[i].type
       /\ \A i \in 1..Len(params') : IsClear(i)' => params'[i] = Meaning(input'.meant[i])
       /\ EndsFound(Len(params))' => offset' = input'.at[Len(params') + 1]
  BY <1>1, <1>2, <1>5, <1>6, <1>7, <1>8, <1>9
<1> QED
  BY <1>10, Zenon DEF Right

\* The bitmap says which parameters are NULL.
LEMMA NullSeen ==
    ASSUME Inv, Encodes(input), Reading
    PROVE  /\ Index \in Nat /\ Index + 1 \in 1..count
           /\ input.meant[Index + 1].null \in BOOLEAN
           /\ IsNull <=> input.meant[Index + 1].null
<1>1. Index \in Nat /\ count \in Nat /\ Index < count
  BY DEF Reading, Index, Inv, Decoding
<1>2. Index + 1 \in 1..count /\ (Index + 1) - 1 = Index
  BY <1>1
<1>3. input.meant[Index + 1].null <=>
        (packet[5 + (((Index + 1) - 1) \div 8) + 1]
           \div PowerOf2[(((Index + 1) - 1) % 8) + 1]) % 2 = 1
  BY <1>2, Zenon DEF Encodes, packet, count
<1>4. IsNull <=> (packet[5 + (Index \div 8) + 1] \div PowerOf2[(Index % 8) + 1]) % 2 = 1
  BY Zenon DEF IsNull, At, BitmapByte, BitmapStart
<1>5. input.meant[Index + 1] \in Parameters
  BY <1>2, ValueEncoded
<1>6. input.meant[Index + 1].null \in BOOLEAN
  BY <1>5 DEF Parameters
<1> QED
  BY <1>1, <1>2, <1>3, <1>4, <1>6, Zenon

\* The next value is at the position where it begins, if the ends of those
\* before are found.
LEMMA ValueFound ==
    ASSUME Inv, Encodes(input), Right, Reading
    PROVE  /\ types[Index + 1] = input.meant[Index + 1].type
           /\ EndsFound(Index) =>
                /\ offset = input.at[Index + 1]
                /\ ~input.meant[Index + 1].null => offset < Len(packet)
<1> DEFINE i == Index + 1
<1>1. phase = "params" /\ count \in Nat /\ i \in 1..count /\ Index = Len(params)
  BY NullSeen DEF Reading, Inv, Decoding, Index
<1>2. EndsFound(Index) => offset = input.at[i]
  BY <1>1 DEF Right
<1>3. types[i] = input.meant[i].type
  BY <1>1 DEF Right
<1>4. /\ input.at[i] \in Nat /\ input.at[i + 1] \in Nat
      /\ ~input.meant[i].null => input.at[i] < input.at[i + 1] /\ input.at[i + 1] <= Len(packet)
  BY <1>1, ValueEncoded
<1>5. Len(packet) \in Nat
  BY DEF Inv, Decoding
<1> HIDE DEF i
<1>6. EndsFound(Index) /\ ~input.meant[i].null => offset < Len(packet)
  BY <1>2, <1>4, <1>5
<1> QED
  BY <1>2, <1>3, <1>6 DEF i

\* What a step of the loop may use of the parameters before.
LEMMA EndsBefore ==
    ASSUME NEW i \in Nat
    PROVE  /\ EndsFound(i + 1) => EndsFound(i) /\ EndIsFound(input.meant[i + 1])
           /\ IsClear(i + 1) =>
                input.meant[i + 1].null \/ (IsKept(input.meant[i + 1]) /\ EndsFound(i))
<1>1. (i + 1) - 1 = i /\ i + 1 \in 1..(i + 1) /\ \A j \in 1..i : j \in 1..(i + 1)
  OBVIOUS
<1>2. EndsFound(i + 1) => EndsFound(i) /\ EndIsFound(input.meant[i + 1])
  BY <1>1, Zenon DEF EndsFound
<1>3. IsClear(i + 1) =>
        input.meant[i + 1].null \/ (IsKept(input.meant[i + 1]) /\ EndsFound((i + 1) - 1))
  BY Zenon DEF EndsFound, IsClear
<1> QED
  BY <1>1, <1>2, <1>3

-----------------------------------------------------------------------------
LEMMA InitDecodes == Init => Decodes
<1> SUFFICES ASSUME Init PROVE Decodes
  OBVIOUS
<1>1. Inv
  BY InitInv
<1>2. input.typed => Encodes(input)
  BY ClientAssumption DEF Init
<1>3. Right
  BY DEF Init, Right
<1> QED
  BY <1>1, <1>2, <1>3 DEF Decodes

\* The header.
LEMMA HeaderRight ==
    ASSUME Inv, Encodes(input), NoParams \/ AllNull \/ ReadTypes
    PROVE  Right'
<1>1. input' = input /\ count' = count /\ count \in Nat /\ Len(packet) \in Nat
  BY DEF NoParams, AllNull, ReadTypes, count, Inv, Decoding
<1>2. BitmapLength \in Nat /\ BitmapStart = 5
  BY <1>1 DEF BitmapLength, BitmapStart
<1>3. /\ Len(packet) >= BitmapStart + BitmapLength + 1 + 2 * count
      /\ At(BitmapStart + BitmapLength) = 1
      /\ input.at[1] = BitmapStart + BitmapLength + 1 + 2 * count
      /\ \A i \in 1..count :
           At(BitmapStart + BitmapLength + 1 + 2 * (i - 1)) = input.meant[i].type
  BY HeaderEncoded
<1>4. CASE NoParams
  <2>1. count = 0 \/ Len(packet) < 6
    BY <1>4 DEF NoParams
  <2>2. count = 0
    BY <1>1, <1>2, <1>3, <2>1
  <2>3. phase' = "done" /\ count' = 0
    BY <1>1, <1>4, <2>2 DEF NoParams
  <2> QED
    BY <2>3 DEF Right
<1>5. CASE AllNull
  <2>1. count > 0 /\ Len(packet) <= BitmapStart + BitmapLength
    BY <1>5 DEF AllNull
  <2> QED
    BY <1>1, <1>2, <1>3, <2>1
<1>6. CASE ReadTypes
  <2> DEFINE flag  == BitmapStart + BitmapLength
             first == flag + 1
             typed == At(flag) = 1 /\ Len(packet) >= first + 2 * count
  <2>1. /\ phase = "header" /\ phase' = "params" /\ params' = params
        /\ types' = [i \in 1..count |-> IF typed THEN At(first + 2 * (i - 1)) ELSE VarString]
        /\ offset' = IF typed THEN first + 2 * count ELSE first
    BY <1>6 DEF ReadTypes
  <2>2. typed /\ input.at[1] = first + 2 * count
        /\ \A i \in 1..count : At(first + 2 * (i - 1)) = input.meant[i].type
    BY <1>3
  <2> HIDE DEF typed, first, flag
  <2>3. \A i \in 1..count : types'[i] = input.meant[i].type
    BY <2>1, <2>2
  <2>4. offset' = input.at[1]
    BY <2>1, <2>2
  <2>5. params' = <<>> /\ Len(params') = 0
    BY <2>1 DEF Inv, Decoding
  <2>6. /\ phase' = "params"
        /\ \A i \in 1..count' : types'[i] = input'.meant[i].type
        /\ \A i \in 1..Len(params') : FALSE
        /\ offset' = input'.at[Len(params') + 1]
    BY <1>1, <2>1, <2>3, <2>4, <2>5
  <2> QED
    BY <2>6 DEF Right
<1> QED
  BY <1>4, <1>5, <1>6

\* A parameter is read as NULL if it is, or behind a value whose end was not
\* found.
LEMMA NullRight ==
    ASSUME Inv, Encodes(input), Right, ReadNull
    PROVE  Right'
<1> DEFINE i == Index + 1
<1>1. Reading /\ (IsNull \/ offset >= Len(packet)) /\ Decoded(NullParam, offset, {})
  BY DEF ReadNull
<1>2. Index \in Nat /\ i \in 1..count /\ i + 1 = Index + 2
  BY <1>1, NullSeen
<1>3. EndsFound(Index) => input.meant[i].null
  <2> SUFFICES ASSUME EndsFound(Index), ~input.meant[i].null PROVE FALSE
    OBVIOUS
  <2>1. ~IsNull /\ offset < Len(packet)
    BY <1>1, NullSeen, ValueFound
  <2>2. offset \in Nat /\ Len(packet) \in Nat
    BY DEF Inv, Decoding
  <2> QED
    BY <1>1, <2>1, <2>2
<1>4. IsClear(i) => NullParam = Meaning(input.meant[i])
  <2>1. IsClear(i) => input.meant[i].null
    BY <1>2, <1>3, EndsBefore
  <2> QED
    BY <2>1, Zenon DEF Meaning
<1>5. EndsFound(i) => offset = input.at[Index + 2]
  <2>1. EndsFound(i) => EndsFound(Index)
    BY <1>2, EndsBefore
  <2>2. input.meant[i].null => input.at[i + 1] = input.at[i]
    BY <1>2, ValueEncoded
  <2> QED
    BY <1>1, <1>2, <1>3, <2>1, <2>2, ValueFound
<1> QED
  BY <1>1, <1>4, <1>5, DecodedRight

\* An integer is read whole.
LEMMA NumberRight ==
    ASSUME Inv, Encodes(input), Right, ReadNumber
    PROVE  Right'
<1> DEFINE i == Index + 1
           n == Width(types[Index + 1])
           p == input.meant[i]
<1>1. /\ Reading /\ ~IsNull /\ n > 0
      /\ IF offset + n <= Len(packet)
           THEN Decoded(Number(Bytes(offset, n)), offset + n, offset..(offset + n - 1))
           ELSE Decoded(NullParam, offset, {})
  BY DEF ReadNumber, HasValue
<1>2. i \in 1..count /\ ~p.null /\ Index \in Nat /\ i + 1 = Index + 2
  BY <1>1, NullSeen
<1>3. n = Width(p.type) /\ (EndsFound(Index) => offset = input.at[i])
  BY <1>1, ValueFound
<1>4. n \in {0, 1, 4, 8}
  BY DEF Width
<1> HIDE DEF n
<1>5. n \in Nat /\ n # 0
  BY <1>1, <1>4
<1>6. ASSUME EndsFound(Index), p.type \in Whole
      PROVE  /\ input.at[Index + 2] = offset + n /\ offset + n <= Len(packet)
             /\ IsKept(p) => Number(Bytes(offset, n)) = Meaning(p)
  BY <1>2, <1>3, <1>5, <1>6, NumberEncoded
<1>7. EndsFound(i) => EndsFound(Index) /\ p.type \in Whole
  BY <1>2, EndsBefore DEF EndIsFound, Whole
<1>8. IsClear(i) => EndsFound(Index) /\ IsKept(p) /\ p.type \in Whole
  <2>1. ~IsText(p)
    BY <1>3, <1>5, WidthOf DEF IsText
  <2> QED
    BY <1>2, <2>1, EndsBefore DEF IsKept, Whole
<1> HIDE DEF i, p
<1>9. CASE offset + n <= Len(packet)
  <2>1. Decoded(Number(Bytes(offset, n)), offset + n, offset..(offset + n - 1))
    BY <1>1, <1>9
  <2>2. IsClear(Index + 1) => Number(Bytes(offset, n)) = Meaning(input.meant[Index + 1])
    BY <1>6, <1>8 DEF i, p
  <2>3. EndsFound(Index + 1) => offset + n = input.at[Index + 2]
    BY <1>6, <1>7 DEF i
  <2> QED
    BY <1>1, <2>1, <2>2, <2>3, DecodedRight
<1>10. CASE ~(offset + n <= Len(packet))
  <2>1. Decoded(NullParam, offset, {})
    BY <1>1, <1>10
  <2>2. ~IsClear(Index + 1) /\ ~EndsFound(Index + 1)
    BY <1>6, <1>7, <1>8, <1>10 DEF i
  <2> QED
    BY <1>1, <2>1, <2>2, DecodedRight
<1> QED
  BY <1>9, <1>10

\* A text is read whole; where the next value begins is not found.
LEMMA TextRight ==
    ASSUME Inv, Encodes(input), Right, ReadText
    PROVE  Right'
<1> DEFINE i     == Index + 1
           p     == input.meant[i]
           start == offset + Prefix.width
           fits  == start + Prefix.length <= Len(packet)
<1>1. /\ Reading /\ ~IsNull /\ Width(types[i]) = 0
      /\ IF Prefix.width = 0
           THEN Decoded(Text(<<>>), 0, {offset})
           ELSE IF fits
           THEN Decoded(FromUtf8Lossy(Bytes(start, Prefix.length)), Prefix.width + Prefix.length,
                        offset..(start + Prefix.length - 1))
           ELSE Decoded(Text(<<>>), Len(packet) - offset, offset..(start - 1))
  BY DEF ReadText, HasValue
<1>2. i \in 1..count /\ ~p.null /\ Index \in Nat
  BY <1>1, NullSeen
<1>3. Width(p.type) = 0 /\ (EndsFound(Index) => offset = input.at[i])
  BY <1>1, ValueFound
<1>4. p.type \notin Whole
  BY <1>3, WholeTypes
<1>5. ~EndsFound(i)
  BY <1>2, <1>4, EndsBefore DEF EndIsFound, Whole
<1>6. IsClear(i) => EndsFound(Index) /\ IsText(p) /\ Utf8(p.bytes)
  BY <1>2, <1>4, EndsBefore DEF IsKept, Whole
<1>7. IsClear(i) => /\ Prefix.width # 0 /\ fits
                    /\ FromUtf8Lossy(Bytes(start, Prefix.length)) = Meaning(p)
  BY <1>2, <1>3, <1>6, TextEncoded
<1>8. PICK value, after, positions :
        /\ Decoded(value, after, positions)
        /\ Prefix.width # 0 /\ fits => value = FromUtf8Lossy(Bytes(start, Prefix.length))
  <2> HIDE DEF start
  <2> QED
    BY <1>1
<1>9. IsClear(i) => value = Meaning(p)
  BY <1>7, <1>8
<1> QED
  BY <1>1, <1>5, <1>8, <1>9, DecodedRight

LEMMA DecodesStep == Decodes /\ [Next]_vars => Decodes'
<1> SUFFICES ASSUME Decodes, [Next]_vars PROVE Decodes'
  OBVIOUS
<1>1. Inv /\ Inv' /\ (input.typed => Encodes(input) /\ Right)
  BY InvStep DEF Decodes
<1>2. input' = input
  BY DEF Next, NoParams, AllNull, ReadTypes, ReadNull, ReadNumber, ReadText, Finish, Decoded, vars
<1>3. count' = count
  BY <1>2 DEF count
<1>4. ASSUME input.typed PROVE Right'
  <2>1. Encodes(input) /\ Right
    BY <1>1, <1>4
  <2>2. CASE NoParams \/ AllNull \/ ReadTypes
    BY <1>1, <2>1, <2>2, HeaderRight
  <2>3. CASE ReadNull
    BY <1>1, <2>1, <2>3, NullRight
  <2>4. CASE ReadNumber
    BY <1>1, <2>1, <2>4, NumberRight
  <2>5. CASE ReadText
    BY <1>1, <2>1, <2>5, TextRight
  <2>6. CASE Finish
    <3>1. phase = "params" /\ Len(params) = count /\ phase' = "done" /\ params' = params
      BY <2>6 DEF Finish, Index
    <3>2. \A i \in 1..count : IsClear(i) => params[i] = Meaning(input.meant[i])
      BY <2>1, <3>1 DEF Right
    <3> QED
      BY <1>2, <1>3, <3>1, <3>2 DEF Right, IsClear
  <2>7. CASE UNCHANGED vars
    <3>1. phase' = phase /\ offset' = offset /\ types' = types /\ params' = params
      BY <2>7 DEF vars
    <3> QED
      BY <1>2, <1>3, <2>1, <3>1 DEF Right, IsClear, EndsFound
  <2> QED
    BY <2>2, <2>3, <2>4, <2>5, <2>6, <2>7 DEF Next
<1> QED
  BY <1>1, <1>2, <1>4 DEF Decodes

\* Of a packet that a client has encoded, with its types, every NULL is decoded
\* to NULL, and every integer of one, four or eight bytes and every text in
\* UTF-8 to what it means as far as there are only such integers and NULLs
\* before it, whatever comes after: however many parameters there are.
THEOREM ParametersAsMeant == Spec => []DecodesAsMeant
<1>1. Decodes => DecodesAsMeant
  BY Zenon DEF Decodes, Right, DecodesAsMeant, IsClear
<1> QED
  BY <1>1, InitDecodes, DecodesStep, PTL DEF Spec

-----------------------------------------------------------------------------
(* The monitor's reading of the memory. *)

Machine ==
    [v2Usage   : Levels \cup {None, Garbled},
     v2Limit   : Levels \cup {None, Garbled, Max},
     v1Usage   : Levels \cup {None},
     v1Limit   : Levels \cup {None, NoLimit},
     total     : Levels \cup {None},
     available : Levels \cup {None}]

HasV2(w) == Memory!IsNumber(w.v2Usage)
HasV1(w) == Memory!IsNumber(w.v1Usage)

\* What does not change while a machine runs.
SameMachine(w, v) == w.total = v.total /\ (HasV2(w) <=> HasV2(v)) /\ (HasV1(w) <=> HasV1(v))

UsageFound == \E w \in seen : usage = Memory!UsageIn(w)
AllTold == \A w \in seen : Memory!Told(w)

\* What has been read was there when it was read.
Found ==
    /\ stage \in {"v2Usage", "v1Usage", "meminfo"} => usage = 0
    /\ stage \notin {"judge", "done"} => limit = 0
    /\ stage = "v2Limit" => HasV2(memory)
    /\ stage \in {"v1Usage", "v1Limit", "meminfo"} => ~HasV2(memory)
    /\ stage = "v1Limit" => HasV1(memory)
    /\ stage = "meminfo" => ~HasV1(memory)
    /\ stage \in {"v2Limit", "v1Limit", "total"} => UsageFound
    /\ stage = "total" => \E v \in seen : Memory!GroupLimit(v) \notin Levels
    /\ stage = "judge" /\ AllTold => UsageFound /\ \E v \in seen : limit = Memory!LimitIn(v)
    /\ stage = "done" /\ AllTold =>
         \E w, v \in seen : pressure \in Memory!Judged(Memory!UsageIn(w), Memory!LimitIn(v))

MemoryTyped ==
    /\ stage \in {"v2Usage", "v2Limit", "v1Usage", "v1Limit", "total", "meminfo", "judge", "done"}
    /\ seen \subseteq Machine /\ memory \in seen
    /\ \A w \in seen : SameMachine(w, memory)

MemoryRead == MemoryTyped /\ Found

\* A reading that begins has found nothing.
LEMMA MemoryInit ==
    ASSUME Memory!Init
    PROVE  MemoryRead
<1>1. memory \in Machine
  BY MemoryAssumption DEF Memory!Init, Machine
<1> QED
  BY <1>1 DEF Memory!Init, MemoryRead, MemoryTyped, Found, SameMachine

\* A change of the files leaves what there was.
LEMMA ChangeSeen ==
    ASSUME MemoryRead, Memory!Change
    PROVE  MemoryRead'
<1>1. /\ stage \notin {"judge", "done"} /\ seen' = seen \cup {memory'}
      /\ UNCHANGED <<stage, usage, limit, source, pressure>>
  BY DEF Memory!Change
<1>2. PICK name \in DOMAIN Memory!Changing :
        /\ memory[name] \in Memory!Changing[name]
        /\ \E x \in Memory!Changing[name] : memory' = [memory EXCEPT ![name] = x]
  BY DEF Memory!Change
<1>3. PICK x \in Memory!Changing[name] : memory' = [memory EXCEPT ![name] = x]
  BY <1>2
<1>4. memory \in Machine /\ memory \in seen
  BY DEF MemoryRead, MemoryTyped
<1>5. name \in {"v2Usage", "v2Limit", "v1Usage", "v1Limit", "available"}
  BY <1>2 DEF Memory!Changing
<1>6. memory' \in Machine
  BY <1>3, <1>4, <1>5 DEF Memory!Changing, Machine
<1>7. SameMachine(memory', memory)
  BY <1>2, <1>3, <1>4, <1>5
     DEF Memory!Changing, Machine, SameMachine, HasV2, HasV1, Memory!IsNumber
<1>8. MemoryTyped'
  <2>1. \A w \in seen : SameMachine(w, memory')
    BY <1>7 DEF MemoryRead, MemoryTyped, SameMachine
  <2>2. SameMachine(memory', memory')
    BY DEF SameMachine
  <2> QED
    BY <1>1, <1>6, <2>1, <2>2 DEF MemoryRead, MemoryTyped
<1>9. (HasV2(memory') <=> HasV2(memory)) /\ (HasV1(memory') <=> HasV1(memory))
  BY <1>7 DEF SameMachine
<1>10. /\ UsageFound => UsageFound'
       /\ (\E v \in seen : Memory!GroupLimit(v) \notin Levels)
            => \E v \in seen' : Memory!GroupLimit(v) \notin Levels
  BY <1>1 DEF UsageFound
<1>11. Found'
  BY <1>1, <1>9, <1>10, Zenon DEF MemoryRead, Found
<1> QED
  BY <1>8, <1>11 DEF MemoryRead

\* A reading of the usage of a group finds that of now.
LEMMA UsageRead ==
    ASSUME MemoryRead, Memory!ReadUsage \/ Memory!ReadOldUsage
    PROVE  Found'
<1>1. memory \in seen /\ UNCHANGED <<memory, seen, limit>>
  BY DEF MemoryRead, MemoryTyped, Memory!ReadUsage, Memory!ReadOldUsage, Memory!Goto
<1>2. CASE Memory!ReadUsage /\ HasV2(memory)
  <2>1. usage' = memory.v2Usage /\ stage = "v2Usage" /\ stage' = "v2Limit"
    BY <1>2 DEF Memory!ReadUsage, Memory!Goto, HasV2
  <2>2. UsageFound'
    BY <1>1, <1>2, <2>1 DEF UsageFound, Memory!UsageIn, HasV2
  <2> QED
    BY <1>1, <1>2, <2>1, <2>2 DEF MemoryRead, Found
<1>3. CASE Memory!ReadUsage /\ ~HasV2(memory)
  <2>1. usage' = usage /\ stage = "v2Usage" /\ stage' = "v1Usage"
    BY <1>3 DEF Memory!ReadUsage, Memory!Goto, HasV2
  <2> QED
    BY <1>1, <1>3, <2>1 DEF MemoryRead, Found
<1>4. CASE Memory!ReadOldUsage /\ HasV1(memory)
  <2>1. usage' = memory.v1Usage /\ stage = "v1Usage" /\ stage' = "v1Limit"
    BY <1>4 DEF Memory!ReadOldUsage, Memory!Goto, HasV1
  <2>2. ~HasV2(memory)
    BY <2>1 DEF MemoryRead, Found
  <2>3. UsageFound'
    BY <1>1, <1>4, <2>1, <2>2 DEF UsageFound, Memory!UsageIn, HasV1, HasV2
  <2> QED
    BY <1>1, <1>4, <2>1, <2>2, <2>3 DEF MemoryRead, Found
<1>5. CASE Memory!ReadOldUsage /\ ~HasV1(memory)
  <2>1. usage' = usage /\ stage = "v1Usage" /\ stage' = "meminfo"
    BY <1>5 DEF Memory!ReadOldUsage, Memory!Goto, HasV1
  <2> QED
    BY <1>1, <1>5, <2>1 DEF MemoryRead, Found
<1> QED
  BY <1>2, <1>3, <1>4, <1>5

\* A reading of the limit of a group finds that of now, or that it has none.
LEMMA LimitRead ==
    ASSUME MemoryRead, Memory!ReadLimit \/ Memory!ReadOldLimit
    PROVE  Found'
<1> USE MemoryAssumption
<1>1. memory \in seen /\ memory \in Machine /\ UNCHANGED <<memory, seen, usage>>
  BY DEF MemoryRead, MemoryTyped, Memory!ReadLimit, Memory!ReadOldLimit, Memory!Goto
<1>2. stage \in {"v2Limit", "v1Limit"} /\ stage' \in {"total", "judge"}
  BY DEF Memory!ReadLimit, Memory!ReadOldLimit, Memory!Goto
<1>3. UsageFound'
  BY <1>1, <1>2 DEF MemoryRead, Found, UsageFound
<1>4. AllTold' => Memory!GroupLimit(memory) # Garbled
  BY <1>1 DEF AllTold, Memory!Told
<1>5. CASE Memory!ReadLimit
  <2>1. Memory!GroupLimit(memory) = memory.v2Limit
    BY <1>5 DEF Memory!ReadLimit, MemoryRead, Found, Memory!GroupLimit, HasV2
  <2>2. memory.v2Limit \in Levels \cup {None, Garbled, Max}
    BY <1>1 DEF Machine
  <2>3. CASE memory.v2Limit \in {None, Max}
    <3>1. stage' = "total" /\ limit' = limit /\ memory.v2Limit \notin Levels
      BY <1>5, <2>3 DEF Memory!ReadLimit, Memory!Goto
    <3> QED
      BY <1>1, <1>2, <1>3, <2>1, <3>1 DEF MemoryRead, Found
  <2>4. CASE memory.v2Limit \notin {None, Max}
    <3>1. stage' = "judge" /\ limit' = Memory!Line(memory.v2Limit)
      BY <1>5, <2>4 DEF Memory!ReadLimit, Memory!Goto
    <3>2. AllTold' => limit' = Memory!LimitIn(memory)
      BY <1>4, <2>1, <2>2, <2>4, <3>1 DEF Memory!LimitIn, Memory!Line, Memory!IsNumber
    <3> QED
      BY <1>1, <1>3, <3>1, <3>2 DEF Found
  <2> QED
    BY <2>3, <2>4
<1>6. CASE Memory!ReadOldLimit
  <2>1. Memory!GroupLimit(memory) = memory.v1Limit
    BY <1>6 DEF Memory!ReadOldLimit, MemoryRead, Found, Memory!GroupLimit, HasV2, HasV1
  <2>2. memory.v1Limit \in Levels \cup {None, NoLimit}
    BY <1>1 DEF Machine
  <2>3. CASE memory.v1Limit \in Levels
    <3>1. stage' = "judge" /\ limit' = memory.v1Limit
      BY <1>6, <2>3 DEF Memory!ReadOldLimit, Memory!Goto, Memory!IsNumber
    <3>2. limit' = Memory!LimitIn(memory)
      BY <2>1, <2>3, <3>1 DEF Memory!LimitIn
    <3> QED
      BY <1>1, <1>3, <3>1, <3>2 DEF Found
  <2>4. CASE memory.v1Limit \notin Levels
    <3>1. stage' = "total" /\ limit' = limit
      BY <1>6, <2>2, <2>4 DEF Memory!ReadOldLimit, Memory!Goto, Memory!IsNumber
    <3> QED
      BY <1>1, <1>2, <1>3, <2>1, <2>4, <3>1 DEF MemoryRead, Found
  <2> QED
    BY <2>3, <2>4
<1> QED
  BY <1>5, <1>6

\* A group without a limit has that of its machine.
LEMMA TotalRead ==
    ASSUME MemoryRead, Memory!ReadTotal
    PROVE  Found'
<1>1. UNCHANGED <<memory, seen, usage>> /\ stage = "total" /\ stage' = "judge"
      /\ limit' = Memory!Line(memory.total)
  BY DEF Memory!ReadTotal, Memory!Goto
<1>2. UsageFound'
  BY <1>1 DEF MemoryRead, Found, UsageFound
<1>3. PICK v \in seen : Memory!GroupLimit(v) \notin Levels
  BY <1>1 DEF MemoryRead, Found
<1>4. v.total = memory.total /\ memory.total \in Levels \cup {None}
  BY DEF MemoryRead, MemoryTyped, SameMachine, Machine
<1>5. Memory!Line(memory.total) = IF memory.total \in Levels THEN memory.total ELSE 0
  BY <1>4, MemoryAssumption DEF Memory!Line, Memory!IsNumber
<1>6. limit' = Memory!LimitIn(v)
  BY <1>1, <1>3, <1>4, <1>5 DEF Memory!LimitIn
<1> QED
  BY <1>1, <1>2, <1>6 DEF Found

\* Without groups the machine says both at once.
LEMMA MeminfoRead ==
    ASSUME MemoryRead, Memory!ReadMeminfo
    PROVE  Found'
<1>1. /\ memory \in seen /\ UNCHANGED <<memory, seen>>
      /\ stage = "meminfo" /\ stage' = "judge"
  BY DEF Memory!ReadMeminfo, Memory!Goto, MemoryRead, MemoryTyped
<1>2. /\ usage = 0 /\ limit = 0
      /\ ~Memory!IsNumber(memory.v2Usage) /\ ~Memory!IsNumber(memory.v1Usage)
  BY <1>1 DEF MemoryRead, Found, HasV2, HasV1
<1> SUFFICES ASSUME Memory!Told(memory)
             PROVE  usage' = Memory!UsageIn(memory) /\ limit' = Memory!LimitIn(memory)
  BY <1>1 DEF Found, UsageFound, AllTold
<1>3. /\ memory.total \in Levels /\ memory.available \in Levels
      /\ memory.available <= memory.total
  BY <1>2 DEF Memory!Told
<1>4. memory.total \in Nat /\ memory.available \in Nat
  BY <1>3, MemoryAssumption
<1>5. /\ Memory!Line(memory.total) = memory.total
      /\ Memory!Line(memory.available) = memory.available
  BY <1>3 DEF Memory!Line, Memory!IsNumber
<1>6. /\ Memory!UsageIn(memory) = memory.total - memory.available
      /\ Memory!LimitIn(memory) = memory.total
  <2>1. Memory!GroupLimit(memory) = None /\ None \notin Levels
    BY <1>2, MemoryAssumption DEF Memory!GroupLimit
  <2> QED
    BY <1>2, <1>3, <2>1 DEF Memory!UsageIn, Memory!LimitIn
<1>7. IF memory.total > 0
        THEN usage' = memory.total - memory.available /\ limit' = memory.total
        ELSE usage' = usage /\ limit' = limit
  BY <1>3, <1>5 DEF Memory!ReadMeminfo
<1> QED
  BY <1>2, <1>3, <1>4, <1>6, <1>7

\* So what is found was there after every step.
LEMMA MemoryStep ==
    ASSUME MemoryRead, Memory!Next
    PROVE  MemoryRead'
<1>1. CASE Memory!Change
  BY <1>1, ChangeSeen
<1>2. CASE Memory!Judge
  <2>1. /\ UNCHANGED <<memory, seen, usage, limit>> /\ stage = "judge" /\ stage' = "done"
        /\ pressure' \in Memory!Judged(usage, limit)
    BY <1>2 DEF Memory!Judge
  <2>2. AllTold => \E w, v \in seen : usage = Memory!UsageIn(w) /\ limit = Memory!LimitIn(v)
    BY <2>1 DEF MemoryRead, Found, UsageFound
  <2>3. AllTold => \E w, v \in seen :
                     pressure' \in Memory!Judged(Memory!UsageIn(w), Memory!LimitIn(v))
    BY <2>1, <2>2
  <2> QED
    BY <2>1, <2>3 DEF MemoryRead, MemoryTyped, Found, AllTold
<1>3. CASE \/ Memory!ReadUsage \/ Memory!ReadLimit
           \/ Memory!ReadOldUsage \/ Memory!ReadOldLimit
           \/ Memory!ReadTotal \/ Memory!ReadMeminfo
  <2>1. /\ UNCHANGED <<memory, seen>>
        /\ stage' \in {"v2Limit", "v1Usage", "v1Limit", "total", "meminfo", "judge"}
    BY <1>3 DEF Memory!ReadUsage, Memory!ReadLimit, Memory!ReadOldUsage,
                Memory!ReadOldLimit, Memory!ReadTotal, Memory!ReadMeminfo, Memory!Goto
  <2>2. Found'
    BY <1>3, UsageRead, LimitRead, TotalRead, MeminfoRead
  <2> QED
    BY <2>1, <2>2 DEF MemoryRead, MemoryTyped
<1> QED
  BY <1>1, <1>2, <1>3 DEF Memory!Next

\* If all instants have the same usage, that of the limit has it, and so for a
\* limit.
LEMMA PressureSeen ==
    ASSUME MemoryRead
    PROVE  Memory!PressureIsReal
<1> SUFFICES ASSUME stage = "done", AllTold
             PROVE  \E w, v \in seen :
                      /\ pressure \in Memory!Judged(Memory!UsageIn(w), Memory!LimitIn(v))
                      /\ \/ w = v
                         \/ /\ \E x \in seen : Memory!UsageIn(x) # Memory!UsageIn(w)
                            /\ \E x \in seen : Memory!LimitIn(x) # Memory!LimitIn(v)
  BY Zenon DEF Memory!PressureIsReal, AllTold
<1>1. PICK w \in seen, v \in seen :
        pressure \in Memory!Judged(Memory!UsageIn(w), Memory!LimitIn(v))
  BY DEF MemoryRead, Found
<1>2. CASE \A x \in seen : Memory!UsageIn(x) = Memory!UsageIn(w)
  <2>1. pressure \in Memory!Judged(Memory!UsageIn(v), Memory!LimitIn(v))
    BY <1>1, <1>2
  <2> QED
    BY <2>1
<1>3. CASE \A x \in seen : Memory!LimitIn(x) = Memory!LimitIn(v)
  <2>1. pressure \in Memory!Judged(Memory!UsageIn(w), Memory!LimitIn(w))
    BY <1>1, <1>3
  <2> QED
    BY <2>1
<1> QED
  BY <1>1, <1>2, <1>3

\* In a behaviour about another part there is no reading.
MemoryExamined == IF subject = "memory" THEN MemoryRead ELSE stage = "off"

\* The pressure that the monitor computes from its files, which it reads one
\* after the other, is that of a usage and a limit that the machine had in the
\* course of the reading, whatever the numbers, however often the files change;
\* if only one of the two changed, the machine had them at one instant.
THEOREM PressureWasThere == DataSpec => []PressureIsReal
<1>1. DataInit => MemoryExamined
  BY MemoryInit, Zenon DEF DataInit, NoMemory, MemoryExamined
<1>2. MemoryExamined /\ [DataNext]_dataVars => MemoryExamined'
  <2> SUFFICES ASSUME MemoryExamined, [DataNext]_dataVars PROVE MemoryExamined'
    OBVIOUS
  <2>1. CASE subject = "memory" /\ Memory!Next /\ subject' = subject
    BY <2>1, MemoryStep DEF MemoryExamined
  <2>2. CASE UNCHANGED <<subject, memoryVars>>
    BY <2>2 DEF MemoryExamined, MemoryRead, MemoryTyped, Found, UsageFound, AllTold, memoryVars
  <2> QED
    BY <2>1, <2>2, Zenon DEF DataNext, dataVars
<1>3. MemoryExamined => PressureIsReal
  BY PressureSeen DEF MemoryExamined, PressureIsReal, Memory!PressureIsReal
<1> QED
  BY <1>1, <1>2, <1>3, PTL DEF DataSpec

-----------------------------------------------------------------------------
(* The files of a request. *)

\* A candidate that was not there when it was tried is not one of those that
\* have been there all the time.
Tried(p) == p \notin always

TriedInOrder ==
    /\ step \in {"php", "index", "again"} => Tried(path)
    /\ step \in {"index", "again"} => Tried(Files!WithPhp(path))
    /\ step = "again" => Tried(Files!IndexOf(path))

FileRecord == [version : Nat, size : Nat, time : Nat]

\* f was written after g, if it is not g itself.
SameOrNewer(f, g) == f = g \/ (f.version > g.version /\ f.time >= g.time)

\* The file on the disk is the one that has been read, or a newer one, or gone.
Versions ==
    /\ files \in [Files!FilesFor(path) -> FileRecord]
    /\ changes \in Nat /\ clock \in Nat
    /\ \A p \in Files!FilesFor(path) : files[p].version <= changes + 1 /\ files[p].time <= clock
    /\ step = "stat" =>
         /\ body \in FileRecord /\ body # Files!NoFile
         /\ body.version <= changes + 1 /\ body.time <= clock
         /\ files[path] = Files!NoFile \/ SameOrNewer(files[path], body)

FilesLooked ==
    /\ Versions
    /\ always \subseteq Files!Present(files)
    /\ step \in {"begin", "exact", "php", "index", "again",
                 "check", "read", "stat", "done", "panicked"}
    /\ step \in {"exact", "php", "index", "again"} => ~Files!IsStatic(path)
    /\ step \in {"check", "read", "stat", "panicked"} => Files!IsStatic(path)
    /\ TriedInOrder
    /\ Files!RightFileIsFound /\ Files!StableFileIsSent

\* The files that matter.
LEMMA Candidates ==
    /\ path \in Files!FilesFor(path)
    /\ ~Files!IsStatic(path) =>
         /\ Files!WithPhp(path) \in Files!FilesFor(path)
         /\ Files!IndexOf(path) \in Files!FilesFor(path)
    /\ Files!Candidates[1] = path
    /\ Files!Candidates[2] = Files!WithPhp(path)
    /\ Files!Candidates[3] = Files!IndexOf(path)
BY DEF Files!FilesFor, Files!Candidates

\* What files are.
LEMMA FileType ==
    /\ Files!NoFile \in FileRecord /\ Files!NoFile.version = 0
    /\ \A version, size, time \in Nat :
         /\ Files!File(version, size, time) \in FileRecord
         /\ Files!File(version, size, time).version = version
         /\ Files!File(version, size, time).time = time
    /\ \A f \in FileRecord : f.version \in Nat /\ f.time \in Nat
BY DEF Files!NoFile, Files!File, FileRecord

LEMMA FilesInit ==
    ASSUME Files!Init
    PROVE  FilesLooked
<1>1. /\ step = "begin" /\ changes = 0 /\ clock = 0
      /\ files \in [Files!FilesFor(path) ->
                      {Files!NoFile} \cup {Files!File(1, size, 0) : size \in FileSizes}]
      /\ always = Files!Present(files)
  BY DEF Files!Init
<1>2. ASSUME NEW p \in Files!FilesFor(path)
      PROVE  files[p] \in FileRecord /\ files[p].version <= 1 /\ files[p].time <= 0
  <2>1. CASE files[p] = Files!NoFile
    BY <2>1 DEF Files!NoFile, Files!File, FileRecord
  <2>2. CASE \E size \in FileSizes : files[p] = Files!File(1, size, 0)
    <3>1. PICK size \in Nat : files[p] = Files!File(1, size, 0)
      BY <2>2, FileAssumption
    <3> QED
      BY <3>1 DEF Files!File, FileRecord
  <2> QED
    BY <1>1, <2>1, <2>2
<1>3. Versions
  BY <1>1, <1>2 DEF Versions
<1> QED
  BY <1>1, <1>3 DEF FilesLooked, TriedInOrder, Files!RightFileIsFound, Files!StableFileIsSent

\* A file that is written is newer than any before.
LEMMA Newer ==
    ASSUME Versions, NEW size \in Nat, NEW later \in Nat, NEW f \in FileRecord,
           f.version <= changes + 1, f.time <= clock
    PROVE  LET new == Files!File(changes + 2, size, clock + later) IN
           /\ new \in FileRecord /\ new.version = changes + 2 /\ new.time = clock + later
           /\ SameOrNewer(new, f)
<1> DEFINE new == Files!File(changes + 2, size, clock + later)
<1>1. changes \in Nat /\ clock \in Nat /\ f.version \in Nat /\ f.time \in Nat
  BY FileType DEF Versions
<1>2. new \in FileRecord /\ new.version = changes + 2 /\ new.time = clock + later
  BY <1>1 DEF Files!File, FileRecord
<1> HIDE DEF new
<1>3. new.version > f.version /\ new.time >= f.time
  BY <1>1, <1>2
<1> QED
  BY <1>2, <1>3 DEF SameOrNewer, new

\* A change makes a file that is newer than all, or none.
LEMMA ChangeKeepsFiles ==
    ASSUME FilesLooked, Files!Change
    PROVE  FilesLooked'
<1>1. /\ step \notin {"done", "panicked"}
      /\ changes' = changes + 1 /\ always' = always \cap Files!Present(files')
      /\ path' = path /\ step' = step /\ found' = found /\ body' = body /\ etag' = etag
  BY DEF Files!Change
<1>2. PICK p \in DOMAIN files, size \in FileSizes, later \in 0..Ticks :
        /\ clock' = clock + later
        /\ files' \in {[files EXCEPT ![p] = Files!NoFile],
                       [files EXCEPT ![p] = Files!File(changes + 2, size, clock')]}
  BY DEF Files!Change, Files!Files
<1>3. /\ files \in [Files!FilesFor(path) -> FileRecord] /\ changes \in Nat /\ clock \in Nat
      /\ p \in Files!FilesFor(path) /\ size \in Nat /\ later \in Nat /\ Versions
  BY <1>2, FileAssumption DEF FilesLooked, Versions
<1>4. Files!FilesFor(path)' = Files!FilesFor(path) /\ Files!IsStatic(path)' = Files!IsStatic(path)
      /\ Files!WithPhp(path)' = Files!WithPhp(path) /\ Files!IndexOf(path)' = Files!IndexOf(path)
  BY <1>1
<1> DEFINE new == Files!File(changes + 2, size, clock + later)
<1>5. /\ new \in FileRecord /\ new.version = changes + 2 /\ new.time = clock + later
      /\ Files!NoFile \in FileRecord /\ Files!NoFile.version = 0 /\ Files!NoFile.time = 0
  BY <1>3 DEF Files!File, FileRecord, Files!NoFile
<1>6. ASSUME NEW f \in FileRecord, f.version <= changes + 1, f.time <= clock
      PROVE  SameOrNewer(new, f)
  BY <1>3, <1>6, Newer
<1>7. \A q \in Files!FilesFor(path) : files'[q] \in {files[q], Files!NoFile, new}
  BY <1>2, <1>3
<1> HIDE DEF new
<1>8. files' \in [Files!FilesFor(path) -> FileRecord]
  BY <1>2, <1>3, <1>5 DEF new
<1>9. ASSUME NEW q \in Files!FilesFor(path)
      PROVE  files'[q].version <= changes' + 1 /\ files'[q].time <= clock'
  <2>1. /\ files[q].version <= changes + 1 /\ files[q].time <= clock
        /\ files[q].version \in Nat /\ files[q].time \in Nat
    BY <1>3, FileType DEF Versions
  <2>2. files'[q] = files[q] \/ files'[q] = Files!NoFile \/ files'[q] = new
    BY <1>7
  <2> QED
    BY <1>1, <1>2, <1>3, <1>5, <2>1, <2>2
<1>10. ASSUME step = "stat"
       PROVE  /\ body \in FileRecord /\ body # Files!NoFile
              /\ body.version <= changes' + 1 /\ body.time <= clock'
              /\ files'[path] = Files!NoFile \/ SameOrNewer(files'[path], body)
  <2>1. /\ body \in FileRecord /\ body # Files!NoFile
        /\ body.version <= changes + 1 /\ body.time <= clock
        /\ files[path] = Files!NoFile \/ SameOrNewer(files[path], body)
    BY <1>10 DEF FilesLooked, Versions
  <2>2. files'[path] \in {files[path], Files!NoFile, new}
    BY <1>7, Candidates
  <2>3. SameOrNewer(new, body)
    BY <1>6, <2>1
  <2>4. body.version \in Nat /\ body.time \in Nat
    BY <2>1, FileType
  <2>5. body.version <= changes' + 1 /\ body.time <= clock'
    BY <1>1, <1>2, <1>3, <2>1, <2>4
  <2> QED
    BY <2>1, <2>2, <2>3, <2>5
<1>11. Versions'
  <2>1. changes' \in Nat /\ clock' \in Nat
    BY <1>1, <1>2, <1>3
  <2> QED
    BY <1>1, <1>4, <1>8, <1>9, <1>10, <2>1 DEF Versions
<1>12. always' \subseteq Files!Present(files)' /\ always' \subseteq always
  BY <1>1 DEF Files!Present
<1>13. TriedInOrder'
  BY <1>1, <1>4, <1>12 DEF FilesLooked, TriedInOrder, Tried
<1>14. Files!RightFileIsFound' /\ Files!StableFileIsSent'
  BY <1>1 DEF Files!RightFileIsFound, Files!StableFileIsSent
<1> QED
  BY <1>1, <1>4, <1>11, <1>12, <1>13, <1>14 DEF FilesLooked

\* What a step of the handler leaves as it was.
LEMMA HandlerKeeps ==
    ASSUME FilesLooked, path' = path, files' = files, changes' = changes, clock' = clock,
           always' = always
    PROVE  /\ always' \subseteq Files!Present(files)'
           /\ Files!IsStatic(path)' = Files!IsStatic(path)
           /\ Files!WithPhp(path)' = Files!WithPhp(path)
           /\ Files!IndexOf(path)' = Files!IndexOf(path)
           /\ Files!Candidates' = Files!Candidates
           /\ step' # "stat" => Versions'
           /\ \A p : Tried(p)' <=> Tried(p)
<1>1. always' \subseteq Files!Present(files)'
  BY DEF FilesLooked, Files!Present
<1>2. Files!FilesFor(path)' = Files!FilesFor(path)
  OBVIOUS
<1>3. step' # "stat" => Versions'
  BY <1>2 DEF FilesLooked, Versions
<1>4. \A p : Tried(p)' <=> Tried(p)
  BY DEF Tried
<1>5. Files!Candidates' = Files!Candidates
  BY DEF Files!Candidates
<1>6. /\ Files!IsStatic(path)' = Files!IsStatic(path)
      /\ Files!WithPhp(path)' = Files!WithPhp(path)
      /\ Files!IndexOf(path)' = Files!IndexOf(path)
  OBVIOUS
<1> QED
  BY <1>1, <1>3, <1>4, <1>5, <1>6

\* A candidate that is there is found, when those before it have been tried;
\* otherwise it has been tried too.
LEMMA FindKeeps ==
    ASSUME FilesLooked, Files!FindPhpFile
    PROVE  FilesLooked'
<1>1. /\ path' = path /\ files' = files /\ changes' = changes /\ clock' = clock
      /\ always' = always /\ step \in {"exact", "php", "index", "again"} /\ ~Files!IsStatic(path)
  BY DEF Files!FindPhpFile, Files!Try, Files!disk, FilesLooked
<1>2. \A p \in Files!FilesFor(path) : ~Files!Exists(p) => Tried(p)
  BY DEF FilesLooked, Versions, Files!Exists, Files!Present, Tried
<1>3. /\ Tried(path) <=> Tried(Files!Candidates[1])
      /\ Tried(Files!WithPhp(path)) <=> Tried(Files!Candidates[2])
      /\ Tried(Files!IndexOf(path)) <=> Tried(Files!Candidates[3])
  BY Candidates
<1>4. \/ /\ step = "exact" /\ step' = "done" /\ found' = Files!Candidates[1]
      \/ /\ step = "exact" /\ step' = "php" /\ Tried(path)
      \/ /\ step = "php" /\ step' = "done" /\ found' = Files!Candidates[2]
      \/ /\ step = "php" /\ step' = "index" /\ Tried(Files!WithPhp(path))
      \/ /\ step = "index" /\ step' = "done" /\ found' = Files!Candidates[3]
      \/ /\ step = "index" /\ step' = "again" /\ Tried(Files!IndexOf(path))
      \/ /\ step = "again" /\ step' = "done"
  <2>1. CASE Files!Try("exact", path, "php")
    BY <1>2, <2>1, Candidates DEF Files!Try
  <2>2. CASE Files!Try("php", Files!WithPhp(path), "index")
    BY <1>1, <1>2, <2>2, Candidates DEF Files!Try
  <2>3. CASE Files!Try("index", Files!IndexOf(path), "again")
    BY <1>1, <1>2, <2>3, Candidates DEF Files!Try
  <2>4. CASE Files!Try("again", Files!WithPhp(path), "done")
    BY <2>4 DEF Files!Try
  <2> QED
    BY <2>1, <2>2, <2>3, <2>4 DEF Files!FindPhpFile
<1>5. step' \in {"php", "index", "again", "done"}
  BY <1>4
<1>6. TriedInOrder'
  BY <1>1, <1>4, HandlerKeeps DEF FilesLooked, TriedInOrder
<1>7. Files!RightFileIsFound'
  <2> SUFFICES ASSUME step' = "done", NEW i \in 1..3, Files!Candidates[i] \in always
               PROVE  \E j \in 1..i : found' = Files!Candidates[j]
    BY <1>1, HandlerKeeps DEF Files!RightFileIsFound
  <2>1. ~Tried(Files!Candidates[i])
    BY DEF Tried
  <2>2. i = 1 \/ i = 2 \/ i = 3
    OBVIOUS
  <2>3. step = "exact" /\ found' = Files!Candidates[1] => 1 \in 1..i
    OBVIOUS
  <2>4. step = "php" => i # 1
    BY <1>3, <2>1 DEF FilesLooked, TriedInOrder
  <2>5. step = "index" => i = 3
    BY <1>3, <2>1, <2>2 DEF FilesLooked, TriedInOrder
  <2>6. step # "again"
    BY <1>3, <2>1, <2>2 DEF FilesLooked, TriedInOrder
  <2>7. CASE step = "exact"
    BY <1>4, <2>7
  <2>8. CASE step = "php"
    <3>1. 2 \in 1..i
      BY <2>2, <2>4, <2>8
    <3> QED
      BY <1>4, <2>8, <3>1
  <2>9. CASE step = "index"
    BY <1>4, <2>5, <2>9
  <2> QED
    BY <1>1, <2>6, <2>7, <2>8, <2>9
<1>8. Files!StableFileIsSent'
  BY <1>1, HandlerKeeps DEF Files!StableFileIsSent
<1> QED
  BY <1>1, <1>5, <1>6, <1>7, <1>8, HandlerKeeps DEF FilesLooked

\* Seconds go by with the ticks of the clock.
LEMMA SecondsPass ==
    ASSUME NEW s \in Nat, NEW t \in Nat, s <= t, NEW n \in Nat \ {0}
    PROVE  s \div n \in Nat /\ t \div n \in Nat /\ s \div n <= t \div n
OBVIOUS

LEMMA TagOfNewer ==
    ASSUME NEW f \in FileRecord, NEW g \in FileRecord, SameOrNewer(f, g)
    PROVE  Files!Tag(f).second >= Files!Tag(g).second
<1>1. g.time \in Nat /\ f.time \in Nat /\ g.time <= f.time
  BY FileType DEF SameOrNewer
<1>2. Files!Tag(f).second = f.time \div Ticks /\ Files!Tag(g).second = g.time \div Ticks
  BY DEF Files!Tag
<1>3. f.time \div Ticks \in Nat /\ g.time \div Ticks \in Nat /\ g.time \div Ticks <= f.time \div Ticks
  BY <1>1, FileAssumption, SecondsPass
<1> QED
  BY <1>2, <1>3

\* What is sent is the file that was there when it was read, or a step of the
\* handler has found that the file is gone.
LEMMA ServeKeeps ==
    ASSUME FilesLooked, Files!ServeStaticFile
    PROVE  FilesLooked'
<1>1. /\ path' = path /\ files' = files /\ changes' = changes /\ clock' = clock /\ always' = always
      /\ step \in {"check", "read", "stat"} /\ Files!IsStatic(path)
  BY DEF Files!ServeStaticFile, Files!Check, Files!Read, Files!Stat, Files!disk, FilesLooked
<1>2. /\ files[path] \in FileRecord
      /\ files[path].version <= changes + 1 /\ files[path].time <= clock
      /\ files[path] # Files!NoFile \/ path \notin always
  BY Candidates DEF FilesLooked, Versions, Files!Present
<1>3. step = "stat" =>
        /\ body \in FileRecord /\ body # Files!NoFile
        /\ files[path] = Files!NoFile \/ SameOrNewer(files[path], body)
  BY DEF FilesLooked, Versions
<1>4. \/ step' = "read"
      \/ step' = "panicked" /\ path \notin always
      \/ step' = "stat" /\ body' = files[path] /\ files[path] # Files!NoFile
      \/ step' = "done" /\ path \notin always
      \/ /\ step' = "done" /\ step = "stat" /\ body' = body
         /\ etag' = Files!Tag(files[path]) /\ files[path] # Files!NoFile
  BY <1>2 DEF Files!ServeStaticFile, Files!Check, Files!Read, Files!Stat, Files!Exists
<1>5. step' \in {"read", "panicked", "stat", "done"}
  BY <1>4
<1>6. Versions'
  <2>1. CASE step' = "stat"
    <3>1. body' = files[path] /\ files[path] # Files!NoFile
      BY <1>4, <2>1
    <3>2. SameOrNewer(files[path], body')
      BY <3>1 DEF SameOrNewer
    <3>3. /\ files \in [Files!FilesFor(path) -> FileRecord] /\ changes \in Nat /\ clock \in Nat
          /\ \A p \in Files!FilesFor(path) : files[p].version <= changes + 1 /\ files[p].time <= clock
      BY DEF FilesLooked, Versions
    <3> QED
      BY <1>1, <1>2, <3>1, <3>2, <3>3 DEF Versions
  <2> QED
    BY <1>1, <2>1, HandlerKeeps
<1>7. Files!StableFileIsSent'
  <2> SUFFICES ASSUME step' \in {"done", "panicked"}, path \in always
               PROVE  /\ step' = "done" /\ body' # Files!NoFile
                      /\ etag'.second >= Files!Tag(body').second
                      /\ files[path] = body' => etag' = Files!Tag(body')
    BY <1>1 DEF Files!StableFileIsSent
  <2>1. /\ step' = "done" /\ step = "stat" /\ body' = body
        /\ etag' = Files!Tag(files[path]) /\ files[path] # Files!NoFile
    BY <1>4
  <2>2. /\ body \in FileRecord /\ body # Files!NoFile /\ SameOrNewer(files[path], body)
    BY <1>3, <2>1
  <2>3. Files!Tag(files[path]).second >= Files!Tag(body).second
    BY <1>2, <2>2, TagOfNewer
  <2> QED
    BY <2>1, <2>2, <2>3
<1>8. Files!RightFileIsFound' /\ TriedInOrder'
  BY <1>1, <1>5, HandlerKeeps DEF Files!RightFileIsFound, TriedInOrder
<1> QED
  BY <1>1, <1>5, <1>6, <1>7, <1>8, HandlerKeeps DEF FilesLooked

\* So whatever is done next, to the files or by the handler.
LEMMA FilesStep ==
    ASSUME FilesLooked, Files!Next
    PROVE  FilesLooked'
<1>1. CASE Files!Begin
  <2>1. /\ path' = path /\ files' = files /\ changes' = changes /\ clock' = clock
        /\ always' = always /\ step' = IF Files!IsStatic(path) THEN "check" ELSE "exact"
    BY <1>1 DEF Files!Begin, Files!disk
  <2> QED
    BY <2>1, HandlerKeeps
      DEF FilesLooked, TriedInOrder, Files!RightFileIsFound, Files!StableFileIsSent
<1> QED
  BY <1>1, ChangeKeepsFiles, FindKeeps, ServeKeeps DEF Files!Next

FilesExamined == IF subject = "files" THEN FilesLooked ELSE step = "off"

\* A script that is in the document root all the time is found, unless one that
\* find_php_file prefers to it is; a static file that is there all the time is
\* sent and does not make its handler panic, with an ETag whose second is not
\* before that of what is sent, and which is its ETag unless a newer file has
\* taken its place: whatever the request, and however often files are written,
\* replaced and removed meanwhile.
THEOREM FilesStayRight == DataSpec => []FilesAreRight
<1>1. DataInit => FilesExamined
  BY FilesInit, Zenon DEF DataInit, NoFiles, FilesExamined
<1>2. FilesExamined /\ [DataNext]_dataVars => FilesExamined'
  <2> SUFFICES ASSUME FilesExamined, [DataNext]_dataVars PROVE FilesExamined'
    OBVIOUS
  <2>1. CASE subject = "files" /\ Files!Next /\ subject' = subject
    BY <2>1, FilesStep DEF FilesExamined
  <2>2. CASE UNCHANGED <<subject, fileVars>>
    <3>1. subject' = subject /\ path' = path /\ step' = step /\ files' = files /\ found' = found
          /\ body' = body /\ etag' = etag /\ changes' = changes /\ clock' = clock /\ always' = always
      BY <2>2 DEF fileVars
    <3>2. ASSUME FilesLooked PROVE FilesLooked'
      <4>1. Versions'
        BY <3>1, <3>2 DEF FilesLooked, Versions
      <4>2. TriedInOrder' /\ Files!RightFileIsFound' /\ Files!StableFileIsSent'
        BY <3>1, <3>2, HandlerKeeps
          DEF FilesLooked, TriedInOrder, Files!RightFileIsFound, Files!StableFileIsSent
      <4> QED
        BY <3>1, <3>2, <4>1, <4>2, HandlerKeeps DEF FilesLooked
    <3> QED
      BY <3>1, <3>2 DEF FilesExamined
  <2> QED
    BY <2>1, <2>2, Zenon DEF DataNext, dataVars
<1>3. FilesExamined => FilesAreRight
  BY DEF FilesExamined, FilesLooked, FilesAreRight, Files!RightFileIsFound, Files!StableFileIsSent
<1> QED
  BY <1>1, <1>2, <1>3, PTL DEF DataSpec

-----------------------------------------------------------------------------
(* Patterns. *)

LEMMA Starting ==
    ASSUME NEW S, NEW s \in Seq(S), NEW t \in Seq(S)
    PROVE  Routes!StartsWith(t, s) <=>
             Len(s) <= Len(t) /\ \A i \in 1..Len(s) : t[i] = s[i]
<1>1. Len(s) \in Nat /\ Len(t) \in Nat
  OBVIOUS
<1>2. SubSeq(s, 1, Len(s)) = [i \in 1..Len(s) |-> s[i]]
  BY <1>1
<1>3. ASSUME Len(s) <= Len(t)
      PROVE  SubSeq(t, 1, Len(s)) = [i \in 1..Len(s) |-> t[i]]
  BY <1>1, <1>3
<1>4. Len(s) <= Len(t) =>
        (SubSeq(s, 1, Len(s)) = SubSeq(t, 1, Len(s)) <=> \A i \in 1..Len(s) : t[i] = s[i])
  BY <1>2, <1>3
<1> QED
  BY <1>4 DEF Routes!StartsWith, Routes!IsPrefix

LEMMA Ending ==
    ASSUME NEW S, NEW s \in Seq(S), NEW t \in Seq(S)
    PROVE  Routes!EndsWith(t, s) <=>
             /\ Len(s) <= Len(t)
             /\ \A i \in 1..Len(s) : t[Len(t) - Len(s) + i] = s[i]
<1> DEFINE rs == [i \in 1..Len(s) |-> s[(Len(s) - i) + 1]]
           rt == [i \in 1..Len(t) |-> t[(Len(t) - i) + 1]]
<1>1. Len(s) \in Nat /\ Len(t) \in Nat
  OBVIOUS
<1>2. rs \in Seq(S) /\ rt \in Seq(S) /\ Len(rs) = Len(s) /\ Len(rt) = Len(t)
  <2>1. \A i \in 1..Len(s) : s[(Len(s) - i) + 1] \in S
    OBVIOUS
  <2>2. \A i \in 1..Len(t) : t[(Len(t) - i) + 1] \in S
    OBVIOUS
  <2> QED
    BY <1>1, <2>1, <2>2
<1>3. Routes!EndsWith(t, s) <=> Routes!StartsWith(rt, rs)
  BY DEF Routes!EndsWith, Routes!IsSuffix, Routes!Reverse, Routes!StartsWith
<1>4. Routes!StartsWith(rt, rs) <=> Len(s) <= Len(t) /\ \A i \in 1..Len(s) : rt[i] = rs[i]
  <2> HIDE DEF rs, rt
  <2> QED
    BY <1>2, Starting
<1>5. ASSUME Len(s) <= Len(t)
      PROVE  (\A i \in 1..Len(s) : rt[i] = rs[i])
               <=> \A i \in 1..Len(s) : t[Len(t) - Len(s) + i] = s[i]
  <2>1. ASSUME \A i \in 1..Len(s) : rt[i] = rs[i], NEW i \in 1..Len(s)
        PROVE  t[Len(t) - Len(s) + i] = s[i]
    <3>1. Len(s) - i + 1 \in 1..Len(s) /\ Len(s) - i + 1 \in 1..Len(t)
      BY <1>1, <1>5
    <3>2. rt[Len(s) - i + 1] = rs[Len(s) - i + 1]
      BY <2>1, <3>1
    <3>3. (Len(s) - (Len(s) - i + 1)) + 1 = i
          /\ (Len(t) - (Len(s) - i + 1)) + 1 = Len(t) - Len(s) + i
      BY <1>1
    <3> QED
      BY <3>1, <3>2, <3>3
  <2>2. ASSUME \A i \in 1..Len(s) : t[Len(t) - Len(s) + i] = s[i], NEW i \in 1..Len(s)
        PROVE  rt[i] = rs[i]
    <3>1. Len(s) - i + 1 \in 1..Len(s) /\ i \in 1..Len(t)
      BY <1>1, <1>5
    <3>2. t[Len(t) - Len(s) + (Len(s) - i + 1)] = s[Len(s) - i + 1]
      BY <2>2, <3>1
    <3>3. Len(t) - Len(s) + (Len(s) - i + 1) = Len(t) - i + 1
      BY <1>1
    <3> QED
      BY <3>1, <3>2, <3>3
  <2> QED
    BY <2>1, <2>2
<1> QED
  BY <1>3, <1>4, <1>5

\* A text is of the form of a pattern with one star if it has what is before the
\* star at its beginning and what is after it at its end.
OfForm(t, p, k) ==
    /\ Len(t) >= Len(p) - 1
    /\ \A i \in 1..(k - 1) : t[i] = p[i]
    /\ \A i \in 1..(Len(p) - k) : t[Len(t) - (Len(p) - k) + i] = p[k + i]

LEMMA GlobOfOneStar ==
    ASSUME NEW S, NEW t \in Seq(S), NEW p \in Seq(S), NEW k, Routes!Stars(p) = {k}
    PROVE  Routes!Glob(t, p) <=> OfForm(t, p, k)
<1> DEFINE first == SubSeq(p, 1, k - 1)
           second == SubSeq(p, k + 1, Len(p))
<1>1. k \in 1..Len(p) /\ Len(p) \in Nat /\ Len(t) \in Nat
  BY DEF Routes!Stars
<1>2. first \in Seq(S) /\ Len(first) = k - 1 /\ \A i \in 1..(k - 1) : first[i] = p[i]
  BY <1>1
<1>3. second \in Seq(S) /\ Len(second) = Len(p) - k /\ \A i \in 1..(Len(p) - k) : second[i] = p[k + i]
  BY <1>1
<1>4. Routes!Glob(t, p) <=>
        /\ Routes!StartsWith(t, first)
        /\ Routes!EndsWith(t, second)
        /\ Len(t) >= Len(first) + Len(second)
  BY DEF Routes!Glob
<1> HIDE DEF first, second
<1>5. Routes!StartsWith(t, first) <=> k - 1 <= Len(t) /\ \A i \in 1..(k - 1) : t[i] = p[i]
  <2>1. first \in Seq(S)
    BY <1>2
  <2>2. Routes!StartsWith(t, first) <=>
          Len(first) <= Len(t) /\ \A i \in 1..Len(first) : t[i] = first[i]
    BY <2>1, Starting
  <2> QED
    BY <1>2, <2>2
<1>6. Routes!EndsWith(t, second) <=>
        /\ Len(p) - k <= Len(t)
        /\ \A i \in 1..(Len(p) - k) : t[Len(t) - (Len(p) - k) + i] = p[k + i]
  <2>1. second \in Seq(S)
    BY <1>3
  <2>2. Routes!EndsWith(t, second) <=>
          /\ Len(second) <= Len(t)
          /\ \A i \in 1..Len(second) : t[Len(t) - Len(second) + i] = second[i]
    BY <2>1, Ending
  <2>3. (\A i \in 1..Len(second) : t[Len(t) - Len(second) + i] = second[i])
          <=> \A i \in 1..(Len(p) - k) : t[Len(t) - (Len(p) - k) + i] = p[k + i]
    BY <1>3
  <2> QED
    BY <1>3, <2>2, <2>3
<1>7. Len(t) >= Len(first) + Len(second) <=> Len(t) >= Len(p) - 1
  BY <1>1, <1>2, <1>3
<1>8. Len(t) >= Len(p) - 1 => k - 1 <= Len(t) /\ Len(p) - k <= Len(t)
  BY <1>1
<1> QED
  BY <1>4, <1>5, <1>6, <1>7, <1>8 DEF OfForm

\* Whether a pattern ends in a star, or begins with one or with a slash and one.
LEMMA StarsOf ==
    ASSUME NEW S, Slash \in S, Star \in S, NEW p \in Seq(S)
    PROVE  /\ Routes!EndsWith(p, <<Star>>) <=> Len(p) \in Routes!Stars(p)
           /\ Routes!StartsWith(p, <<Star>>) <=> 1 \in Routes!Stars(p)
           /\ Routes!StartsWith(p, <<Slash>>) <=> Len(p) > 0 /\ p[1] = Slash
           /\ Routes!StartsWith(p, <<Slash, Star>>) <=>
                2 \in Routes!Stars(p) /\ p[1] = Slash
<1>1. Len(p) \in Nat /\ DOMAIN p = 1..Len(p)
  OBVIOUS
<1> DEFINE star == <<Star>>
           slash == <<Slash>>
           both == <<Slash, Star>>
<1>2. /\ star \in Seq(S) /\ Len(star) = 1 /\ star[1] = Star
      /\ slash \in Seq(S) /\ Len(slash) = 1 /\ slash[1] = Slash
      /\ both \in Seq(S) /\ Len(both) = 2 /\ both[1] = Slash /\ both[2] = Star
  OBVIOUS
<1>3. (\A i \in 1..1 : i = 1) /\ (\A i \in 1..2 : i = 1 \/ i = 2)
      /\ 1 \in 1..1 /\ 1 \in 1..2 /\ 2 \in 1..2
  OBVIOUS
<1> HIDE DEF star, slash, both
<1>4. Routes!EndsWith(p, star) <=> Len(p) \in Routes!Stars(p)
  <2>1. Routes!EndsWith(p, star) <=>
          Len(star) <= Len(p) /\ \A i \in 1..Len(star) : p[Len(p) - Len(star) + i] = star[i]
    BY <1>2, Ending
  <2>2. Len(p) - 1 + 1 = Len(p)
    BY <1>1
  <2> QED
    BY <1>1, <1>2, <1>3, <2>1, <2>2 DEF Routes!Stars
<1>5. Routes!StartsWith(p, star) <=> 1 \in Routes!Stars(p)
  <2>1. Routes!StartsWith(p, star) <=> Len(star) <= Len(p) /\ \A i \in 1..Len(star) : p[i] = star[i]
    BY <1>2, Starting
  <2> QED
    BY <1>1, <1>2, <1>3, <2>1 DEF Routes!Stars
<1>6. Routes!StartsWith(p, slash) <=> Len(p) > 0 /\ p[1] = Slash
  <2>1. Routes!StartsWith(p, slash) <=> Len(slash) <= Len(p) /\ \A i \in 1..Len(slash) : p[i] = slash[i]
    BY <1>2, Starting
  <2> QED
    BY <1>1, <1>2, <1>3, <2>1
<1>7. Routes!StartsWith(p, both) <=> 2 \in Routes!Stars(p) /\ p[1] = Slash
  <2>1. Routes!StartsWith(p, both) <=> Len(both) <= Len(p) /\ \A i \in 1..Len(both) : p[i] = both[i]
    BY <1>2, Starting
  <2>2. (\A i \in 1..Len(both) : p[i] = both[i]) <=> p[1] = Slash /\ p[2] = Star
    BY <1>2, <1>3
  <2> QED
    BY <1>1, <1>2, <2>1, <2>2 DEF Routes!Stars
<1> QED
  BY <1>4, <1>5, <1>6, <1>7 DEF star, slash, both

\* Two texts of the same symbols are the same.
LEMMA SameText ==
    ASSUME NEW S, NEW s \in Seq(S), NEW t \in Seq(S)
    PROVE  s = t <=> Len(s) = Len(t) /\ \A i \in 1..Len(s) : s[i] = t[i]
OBVIOUS

\* A pattern with its only star at its end is a prefix.
LEMMA StarAtEnd ==
    ASSUME NEW S, NEW t \in Seq(S), NEW p \in Seq(S), Routes!Stars(p) = {Len(p)}
    PROVE  /\ Len(p) > 0
           /\ OfForm(t, p, Len(p)) <=> Routes!StartsWith(t, Routes!Shorter(p))
           /\ t = p => Routes!StartsWith(t, Routes!Shorter(p))
<1>1. Len(p) \in Nat /\ Len(p) > 0 /\ Len(t) \in Nat
  BY DEF Routes!Stars
<1> DEFINE shorter == SubSeq(p, 1, Len(p) - 1)
<1>2. /\ shorter \in Seq(S) /\ Len(shorter) = Len(p) - 1
      /\ \A i \in 1..(Len(p) - 1) : shorter[i] = p[i]
  <2> DEFINE n == Len(p) - 1
  <2>1. n \in Nat /\ \A i \in 1..n : p[i] \in S
    BY <1>1
  <2> HIDE DEF n
  <2>2. SubSeq(p, 1, n) \in Seq(S) /\ Len(SubSeq(p, 1, n)) = n
        /\ \A i \in 1..n : SubSeq(p, 1, n)[i] = p[i]
    BY <2>1
  <2> QED
    BY <2>2 DEF n
<1> HIDE DEF shorter
<1>3. Routes!StartsWith(t, shorter) <=>
        Len(p) - 1 <= Len(t) /\ \A i \in 1..(Len(p) - 1) : t[i] = p[i]
  <2>1. shorter \in Seq(S)
    BY <1>2
  <2>2. Routes!StartsWith(t, shorter) <=>
          Len(shorter) <= Len(t) /\ \A i \in 1..Len(shorter) : t[i] = shorter[i]
    BY <2>1, Starting
  <2> QED
    BY <1>2, <2>2
<1>4. 1..(Len(p) - Len(p)) = {}
  BY <1>1
<1>5. Routes!Shorter(p) = shorter
  BY DEF Routes!Shorter, shorter
<1> QED
  BY <1>1, <1>3, <1>4, <1>5 DEF OfForm

\* One with its only star at its beginning is a suffix.
LEMMA StarAtBeginning ==
    ASSUME NEW S, NEW t \in Seq(S), NEW p \in Seq(S), Routes!Stars(p) = {1}
    PROVE  /\ Len(p) > 0
           /\ OfForm(t, p, 1) <=> Routes!EndsWith(t, Tail(p))
           /\ t = p => Routes!EndsWith(t, Tail(p))
<1>1. Len(p) \in Nat /\ Len(p) > 0 /\ Len(t) \in Nat
  BY DEF Routes!Stars
<1> DEFINE rest == Tail(p)
<1>2. /\ rest \in Seq(S) /\ Len(rest) = Len(p) - 1
      /\ \A i \in 1..(Len(p) - 1) : rest[i] = p[1 + i]
  BY <1>1
<1> HIDE DEF rest
<1>3. Routes!EndsWith(t, rest) <=>
        /\ Len(p) - 1 <= Len(t)
        /\ \A i \in 1..(Len(p) - 1) : t[Len(t) - (Len(p) - 1) + i] = p[1 + i]
  <2>1. rest \in Seq(S)
    BY <1>2
  <2>2. Routes!EndsWith(t, rest) <=>
          /\ Len(rest) <= Len(t)
          /\ \A i \in 1..Len(rest) : t[Len(t) - Len(rest) + i] = rest[i]
    BY <2>1, Ending
  <2> QED
    BY <1>2, <2>2
<1>4. 1..(1 - 1) = {}
  OBVIOUS
<1>5. t = p => \A i \in 1..(Len(p) - 1) : t[Len(t) - (Len(p) - 1) + i] = p[1 + i]
  BY <1>1
<1>6. OfForm(t, p, 1) <=>
        /\ Len(p) - 1 <= Len(t)
        /\ \A i \in 1..(Len(p) - 1) : t[Len(t) - (Len(p) - 1) + i] = p[1 + i]
  BY <1>1, <1>4 DEF OfForm
<1>7. t = p => Len(p) - 1 <= Len(t)
  BY <1>1
<1> QED
  BY <1>1, <1>3, <1>5, <1>6, <1>7 DEF rest

\* One that begins with a slash and its only star, and goes on with what is not
\* a slash, is a suffix of a text that begins with a slash.
LEMMA StarAfterSlash ==
    ASSUME NEW S, NEW t \in Seq(S), NEW p \in Seq(S), Routes!Stars(p) = {2},
           p[1] = Slash, Len(p) > 2, p[3] # Slash, Len(t) > 0, t[1] = Slash
    PROVE  /\ OfForm(t, p, 2) <=> Routes!EndsWith(t, SubSeq(p, 3, Len(p)))
           /\ t = p => Routes!EndsWith(t, SubSeq(p, 3, Len(p)))
<1>1. Len(p) \in Nat /\ Len(t) \in Nat
  OBVIOUS
<1> DEFINE rest == SubSeq(p, 3, Len(p))
<1>2. /\ rest \in Seq(S) /\ Len(rest) = Len(p) - 2
      /\ \A i \in 1..(Len(p) - 2) : rest[i] = p[2 + i]
  BY <1>1
<1> HIDE DEF rest
<1>3. Routes!EndsWith(t, rest) <=>
        /\ Len(p) - 2 <= Len(t)
        /\ \A i \in 1..(Len(p) - 2) : t[Len(t) - (Len(p) - 2) + i] = p[2 + i]
  <2>1. rest \in Seq(S)
    BY <1>2
  <2>2. Routes!EndsWith(t, rest) <=>
          /\ Len(rest) <= Len(t)
          /\ \A i \in 1..Len(rest) : t[Len(t) - Len(rest) + i] = rest[i]
    BY <2>1, Ending
  <2> QED
    BY <1>2, <2>2
<1>4. ASSUME Routes!EndsWith(t, rest) PROVE Len(t) >= Len(p) - 1
  <2> SUFFICES ASSUME Len(t) = Len(p) - 2 PROVE FALSE
    BY <1>1, <1>3, <1>4
  <2>1. 1 \in 1..(Len(p) - 2) /\ Len(t) - (Len(p) - 2) + 1 = 1 /\ 2 + 1 = 3
    BY <1>1
  <2> QED
    BY <1>3, <1>4, <2>1
<1>5. \A i \in 1..(2 - 1) : t[i] = p[i]
  <2>1. \A i \in 1..(2 - 1) : i = 1
    OBVIOUS
  <2> QED
    BY <2>1
<1>6. t = p => \A i \in 1..(Len(p) - 2) : t[Len(t) - (Len(p) - 2) + i] = p[2 + i]
  BY <1>1
<1>7. Len(t) >= Len(p) - 1 => Len(p) - 2 <= Len(t)
  BY <1>1
<1>8. t = p => Len(p) - 2 <= Len(t)
  BY <1>1
<1> QED
  BY <1>3, <1>4, <1>5, <1>6, <1>7, <1>8 DEF OfForm, rest

\* match_pattern decides as a glob.
LEMMA PathIsGlob ==
    ASSUME NEW S, Slash \in S, Star \in S, NEW t \in Seq(S), NEW p \in Seq(S),
           Routes!StartsWith(t, <<Slash>>), Routes!PathPattern(p)
    PROVE  Routes!MatchPattern(t, p) <=> Routes!Glob(t, p)
<1>1. Len(t) > 0 /\ t[1] = Slash
  BY StarsOf
<1>2. Len(p) \in Nat
  OBVIOUS
<1> DEFINE star == <<Slash, Star>>
<1>3. star \in Seq(S) /\ Len(star) = 2 /\ star[2] = Star
  OBVIOUS
<1>4. p = star => Routes!Stars(p) # {}
  <2> HIDE DEF star
  <2> QED
    BY <1>3 DEF Routes!Stars
<1>5. CASE Routes!Stars(p) = {}
  BY <1>4, <1>5, StarsOf DEF Routes!MatchPattern, Routes!Glob
<1>6. CASE Routes!Stars(p) = {Len(p)}
  <2>1. Routes!Glob(t, p) <=> Routes!StartsWith(t, Routes!Shorter(p))
    BY <1>6, GlobOfOneStar, StarAtEnd
  <2>2. Routes!EndsWith(p, <<Star>>)
    BY <1>6, StarsOf
  <2>3. p = star => Routes!StartsWith(t, Routes!Shorter(p))
    <3> SUFFICES ASSUME p = star PROVE OfForm(t, p, Len(p))
      BY <1>6, StarAtEnd
    <3>1. Len(p) = 2 /\ p[1] = Slash
      BY <1>3
    <3> HIDE DEF star
    <3> QED
      BY <1>1, <3>1 DEF OfForm
  <2> QED
    BY <1>6, <2>1, <2>2, <2>3, StarAtEnd DEF Routes!MatchPattern
<1>7. CASE Routes!Stars(p) = {2} /\ Routes!Stars(p) # {Len(p)} /\ p[1] = Slash /\ p[3] # Slash
  <2>1. Len(p) > 2
    BY <1>2, <1>7 DEF Routes!Stars
  <2>2. Routes!Glob(t, p) <=> Routes!EndsWith(t, SubSeq(p, 3, Len(p)))
    BY <1>1, <1>7, <2>1, GlobOfOneStar, StarAfterSlash
  <2>3. ~Routes!EndsWith(p, <<Star>>) /\ Routes!StartsWith(p, star)
    BY <1>2, <1>7, <2>1, StarsOf
  <2>4. p # star
    <3> SUFFICES ASSUME p = star PROVE FALSE
      OBVIOUS
    <3>1. Len(p) = 2
      BY <1>3
    <3> QED
      BY <1>7, <3>1
  <2> QED
    BY <1>1, <1>7, <2>1, <2>2, <2>3, <2>4, StarAfterSlash DEF Routes!MatchPattern
<1> QED
  BY <1>5, <1>6, <1>7 DEF Routes!PathPattern

\* A set of positions has a least one and a greatest one.
LEMMA LeastPosition ==
    ASSUME NEW T \in SUBSET Nat, T # {}
    PROVE  \E i \in T : \A j \in T : i <= j
<1> DEFINE R == OpToRel(<, Nat)
<1>1. IsWellFoundedOn(R, Nat)
  BY NatLessThanWellFounded, Zenon
<1>2. \A i, j \in Nat : i < j => <<i, j>> \in R
  BY DEF OpToRel
<1> HIDE DEF R
<1>3. PICK i \in T : \A j \in T : <<j, i>> \notin R
  BY <1>1, WFMin
<1>4. ASSUME NEW j \in T PROVE i <= j
  <2>1. i \in Nat /\ j \in Nat
    OBVIOUS
  <2>2. ~(j < i)
    BY <1>2, <1>3, <2>1
  <2> QED
    BY <2>1, <2>2
<1> QED
  BY <1>4

LEMMA GreatestPosition ==
    ASSUME NEW n \in Nat, NEW T \in SUBSET (1..n), T # {}
    PROVE  \E i \in T : \A j \in T : i >= j
<1> DEFINE U == {n - i : i \in T}
<1>1. U \in SUBSET Nat /\ U # {}
  <2>1. \A i \in T : n - i \in Nat
    OBVIOUS
  <2> QED
    BY <2>1
<1>2. PICK k \in U : \A j \in U : k <= j
  BY <1>1, LeastPosition
<1>3. PICK i \in T : k = n - i
  OBVIOUS
<1>4. ASSUME NEW j \in T PROVE i >= j
  <2>1. n - j \in U
    OBVIOUS
  <2>2. n - i <= n - j
    BY <1>2, <1>3, <2>1
  <2>3. i \in Nat /\ j \in Nat
    OBVIOUS
  <2> QED
    BY <2>2, <2>3
<1> QED
  BY <1>4

\* What is left of a text without the blanks around it is a text.
LEMMA NormalIsText ==
    ASSUME NEW t \in Seq(DOMAIN Lower)
    PROVE  Routes!Normal(t) \in Seq({Lower[s] : s \in DOMAIN Lower})
<1> DEFINE S == DOMAIN Lower
           solid == {i \in DOMAIN t : t[i] # Blank}
           first == CHOOSE i \in solid : \A j \in solid : i <= j
           last  == CHOOSE i \in solid : \A j \in solid : i >= j
           trimmed == IF solid = {} THEN <<>> ELSE SubSeq(t, first, last)
<1>1. Routes!Normal(t) = [i \in DOMAIN trimmed |-> Lower[trimmed[i]]]
  BY DEF Routes!Normal
<1>2. solid \in SUBSET (1..Len(t)) /\ Len(t) \in Nat /\ t \in Seq(S)
  OBVIOUS
<1> HIDE DEF solid, S
<1>3. trimmed \in Seq(S)
  <2>1. CASE solid = {}
    BY <2>1
  <2>2. CASE solid # {}
    <3>1. solid \in SUBSET Nat
      BY <1>2
    <3>2. \E i \in solid : \A j \in solid : i <= j
      BY <2>2, <3>1, LeastPosition
    <3>3. \E i \in solid : \A j \in solid : i >= j
      BY <1>2, <2>2, GreatestPosition
    <3>4. first \in solid /\ last \in solid
      BY <3>2, <3>3
    <3> HIDE DEF first, last
    <3>5. first \in 1..Len(t) /\ last \in 1..Len(t)
      BY <1>2, <3>4
    <3>6. \A i \in first..last : t[i] \in S
      BY <1>2, <3>5
    <3>7. SubSeq(t, first, last) \in Seq(S)
      BY <3>5, <3>6, SubSeqProperties
    <3> QED
      BY <2>2, <3>7
  <2> QED
    BY <2>1, <2>2
<1> HIDE DEF trimmed
<1>4. Len(trimmed) \in Nat /\ DOMAIN trimmed = 1..Len(trimmed) /\ \A i \in 1..Len(trimmed) : trimmed[i] \in S
  BY <1>3
<1>5. [i \in 1..Len(trimmed) |-> Lower[trimmed[i]]] \in Seq({Lower[s] : s \in S})
  BY <1>4
<1> QED
  BY <1>1, <1>4, <1>5 DEF S

LEMMA MoreSymbols ==
    ASSUME NEW S1, NEW S2, S1 \subseteq S2, NEW s \in Seq(S1)
    PROVE  s \in Seq(S2)
OBVIOUS

\* match_header_value decides as a glob.
LEMMA HeaderIsGlob ==
    ASSUME NEW t \in Seq(DOMAIN Lower), NEW p \in Seq(DOMAIN Lower),
           Routes!HeaderPattern(Routes!Normal(p))
    PROVE  Routes!MatchHeaderValue(t, p) <=> Routes!Glob(Routes!Normal(t), Routes!Normal(p))
<1> DEFINE S == {Lower[s] : s \in DOMAIN Lower} \cup {Star, Slash}
           v == Routes!Normal(t)
           q == Routes!Normal(p)
           star == <<Star>>
<1> SUFFICES Routes!MatchHeaderValue(t, p) <=> Routes!Glob(v, q)
  OBVIOUS
<1>1. v \in Seq(S) /\ q \in Seq(S)
  <2> DEFINE S1 == {Lower[s] : s \in DOMAIN Lower}
  <2>1. v \in Seq(S1) /\ q \in Seq(S1) /\ S1 \subseteq S
    BY NormalIsText
  <2> HIDE DEF v, q, S1, S
  <2> QED
    BY <2>1, MoreSymbols
<1>2. Slash \in S /\ Star \in S
  OBVIOUS
<1>3. Routes!MatchHeaderValue(t, p) <=>
        \/ q = star
        \/ v = q
        \/ Routes!EndsWith(q, star) /\ Routes!StartsWith(v, Routes!Shorter(q))
        \/ /\ ~Routes!EndsWith(q, star)
           /\ Routes!StartsWith(q, star)
           /\ Routes!EndsWith(v, Tail(q))
  BY DEF Routes!MatchHeaderValue
<1>4. Routes!HeaderPattern(q)
  OBVIOUS
<1>5. Len(star) = 1 /\ DOMAIN star = {1} /\ star[1] = Star
  OBVIOUS
<1> HIDE DEF S, v, q
<1>6. /\ Routes!EndsWith(q, star) <=> Len(q) \in Routes!Stars(q)
      /\ Routes!StartsWith(q, star) <=> 1 \in Routes!Stars(q)
  BY <1>1, <1>2, StarsOf
<1> HIDE DEF star
<1>7. q = star => Routes!Stars(q) = {1} /\ Len(q) = 1
  BY <1>5 DEF Routes!Stars
<1>8. Len(q) \in Nat /\ Len(v) \in Nat
  BY <1>1
<1>9. CASE Routes!Stars(q) = {}
  BY <1>3, <1>6, <1>7, <1>9 DEF Routes!Glob
<1>10. CASE Routes!Stars(q) = {Len(q)}
  <2>1. Routes!Glob(v, q) <=> Routes!StartsWith(v, Routes!Shorter(q))
    BY <1>1, <1>10, GlobOfOneStar, StarAtEnd
  <2>2. v = q => Routes!StartsWith(v, Routes!Shorter(q))
    BY <1>1, <1>10, StarAtEnd
  <2>3. q = star => Routes!StartsWith(v, Routes!Shorter(q))
    <3> SUFFICES ASSUME q = star PROVE OfForm(v, q, Len(q))
      BY <1>1, <1>10, StarAtEnd
    <3>1. Len(q) = 1
      BY <1>7
    <3>2. OfForm(v, q, 1)
      BY <1>8, <3>1 DEF OfForm
    <3> QED
      BY <3>1, <3>2
  <2> QED
    BY <1>3, <1>6, <1>10, <2>1, <2>2, <2>3
<1>11. CASE Routes!Stars(q) = {1} /\ Len(q) # 1
  <2>1. Routes!Glob(v, q) <=> Routes!EndsWith(v, Tail(q))
    BY <1>1, <1>11, GlobOfOneStar, StarAtBeginning
  <2>2. v = q => Routes!EndsWith(v, Tail(q))
    BY <1>1, <1>11, StarAtBeginning
  <2> QED
    BY <1>3, <1>6, <1>7, <1>11, <2>1, <2>2
<1> QED
  BY <1>4, <1>9, <1>10, <1>11 DEF Routes!HeaderPattern

PatternsExamined ==
    text \in Seq(DOMAIN Lower) /\ pattern \in Seq(DOMAIN Lower)

\* PoolManager decides as a glob does on every path that begins with a slash,
\* for every pattern of a documented shape, and on every header's value:
\* whatever the texts and however long.
THEOREM PatternsDecideAsGlobs == DataSpec => []PatternsAreGlobs
<1>1. DataInit => PatternsExamined
  <2>1. DataInit => text = <<>> /\ pattern = <<>>
    BY Zenon DEF DataInit, Routes!Init
  <2> QED
    BY <2>1 DEF PatternsExamined
<1>2. PatternsExamined /\ [DataNext]_dataVars => PatternsExamined'
  <2> SUFFICES ASSUME PatternsExamined, [DataNext]_dataVars PROVE PatternsExamined'
    OBVIOUS
  <2>1. CASE Routes!Next
    <3> DEFINE S == DOMAIN Lower
    <3>1. text \in Seq(S) /\ pattern \in Seq(S)
      BY DEF PatternsExamined
    <3>2. PICK s \in S : \/ text' = Append(text, s) /\ pattern' = pattern
                         \/ pattern' = Append(pattern, s) /\ text' = text
      BY <2>1 DEF Routes!Next, Routes!LongerText, Routes!LongerPattern, Routes!Symbols
    <3> HIDE DEF S
    <3>3. Append(text, s) \in Seq(S) /\ Append(pattern, s) \in Seq(S)
      BY <3>1, AppendProperties
    <3> QED
      BY <3>1, <3>2, <3>3 DEF S, PatternsExamined
  <2>2. CASE UNCHANGED routingVars
    BY <2>2 DEF PatternsExamined, routingVars
  <2> QED
    BY <2>1, <2>2, Zenon DEF DataNext, dataVars
<1>3. PatternsExamined => PatternsAreGlobs
  <2> DEFINE S == DOMAIN Lower \cup {Slash, Star}
  <2> SUFFICES ASSUME PatternsExamined PROVE PatternsAreGlobs
    OBVIOUS
  <2>1. text \in Seq(S) /\ pattern \in Seq(S) /\ Slash \in S /\ Star \in S
    BY MoreSymbols DEF PatternsExamined
  <2> HIDE DEF S
  <2>2. Routes!PatternIsGlob
    BY <2>1, PathIsGlob DEF Routes!PatternIsGlob
  <2>3. Routes!HeaderIsGlob
    BY HeaderIsGlob DEF PatternsExamined, Routes!HeaderIsGlob
  <2> QED
    BY <2>2, <2>3 DEF PatternsAreGlobs
<1> QED
  BY <1>1, <1>2, <1>3, PTL DEF DataSpec

-----------------------------------------------------------------------------
(* Queries. *)

\* f has what the first parts of s make together, up to n of them.
Joins(f, s, n) ==
    \A i \in 1..n : f[i] = IF i = 1 THEN s[i] ELSE f[i - 1] \o s[i]

\* t has the first n parts that s has.
Agree(s, t, n) == \A i \in 1..n : t[i] = s[i]

LEMMA JoinExists ==
    ASSUME NEW S, NEW s \in Seq(Seq(S))
    PROVE  \E f \in [1..Len(s) -> Seq(S)] : Joins(f, s, Len(s))
<1> DEFINE Upto(n) == \E f \in [1..n -> Seq(S)] :
                        \A i \in 1..n : f[i] = IF i = 1 THEN s[i] ELSE f[i - 1] \o s[i]
           T == {n \in 0..Len(s) : ~Upto(n)}
<1>1. Len(s) \in Nat /\ \A i \in 1..Len(s) : s[i] \in Seq(S)
  OBVIOUS
<1>2. Upto(0)
  <2>1. [i \in 1..0 |-> <<>>] \in [1..0 -> Seq(S)]
    OBVIOUS
  <2> DEFINE f == [i \in 1..0 |-> <<>>]
  <2>2. \A i \in 1..0 : f[i] = IF i = 1 THEN s[i] ELSE f[i - 1] \o s[i]
    OBVIOUS
  <2> HIDE DEF f
  <2> QED
    BY <2>1, <2>2 DEF f
<1>3. ASSUME NEW n \in Nat, n + 1 <= Len(s), Upto(n)
      PROVE  Upto(n + 1)
  <2>1. PICK f \in [1..n -> Seq(S)] : \A i \in 1..n : f[i] = IF i = 1 THEN s[i] ELSE f[i - 1] \o s[i]
    BY <1>3
  <2> DEFINE last == IF n = 0 THEN s[1] ELSE f[n] \o s[n + 1]
             g == [i \in 1..(n + 1) |-> IF i = n + 1 THEN last ELSE f[i]]
  <2>2. last \in Seq(S)
    <3>1. CASE n = 0
      BY <1>1, <1>3, <3>1
    <3>2. CASE n # 0
      <4>1. f[n] \in Seq(S) /\ s[n + 1] \in Seq(S)
        BY <1>1, <1>3, <3>2
      <4>2. f[n] \o s[n + 1] \in Seq(S)
        BY <4>1, ConcatProperties
      <4> QED
        BY <3>2, <4>2
    <3> QED
      BY <3>1, <3>2
  <2>3. g \in [1..(n + 1) -> Seq(S)]
    <3> HIDE DEF last
    <3>1. \A i \in 1..(n + 1) : i # n + 1 => i \in 1..n
      OBVIOUS
    <3> QED
      BY <2>2, <3>1
  <2>4. ASSUME NEW i \in 1..(n + 1)
        PROVE  g[i] = IF i = 1 THEN s[i] ELSE g[i - 1] \o s[i]
    <3>1. CASE i = n + 1
      <4>1. CASE n = 0
        BY <3>1, <4>1
      <4>2. CASE n # 0
        <5>1. n \in 1..(n + 1) /\ n # n + 1 /\ i # 1 /\ i - 1 = n
          BY <3>1, <4>2
        <5>2. g[n] = f[n] /\ g[i] = last
          BY <3>1, <5>1
        <5> QED
          BY <3>1, <4>2, <5>1, <5>2
      <4> QED
        BY <4>1, <4>2
    <3>2. CASE i # n + 1
      <4>1. i \in 1..n /\ g[i] = f[i]
        BY <3>2
      <4>2. i # 1 => i - 1 \in 1..(n + 1) /\ i - 1 # n + 1
        BY <3>2
      <4>3. i # 1 => g[i - 1] = f[i - 1]
        BY <4>2
      <4> QED
        BY <2>1, <4>1, <4>3
    <3> QED
      BY <3>1, <3>2
  <2> HIDE DEF g
  <2> QED
    BY <2>1, <2>3, <2>4
<1> HIDE DEF Upto
<1>4. T = {}
  <2> SUFFICES ASSUME T # {} PROVE FALSE
    OBVIOUS
  <2>0. T \in SUBSET Nat
    BY <1>1
  <2> HIDE DEF T
  <2>1. PICK n \in T : \A m \in T : n <= m
    BY <2>0, LeastPosition
  <2> USE DEF T
  <2>2. n \in Nat /\ n # 0 /\ n <= Len(s) /\ ~Upto(n)
    BY <1>1, <1>2
  <2>3. n - 1 \in Nat /\ n - 1 \in 0..Len(s) /\ ~(n <= n - 1)
    BY <1>1, <2>2
  <2>4. Upto(n - 1)
    BY <2>1, <2>3
  <2>5. n - 1 + 1 = n
    BY <2>2
  <2> QED
    BY <1>3, <2>2, <2>3, <2>4, <2>5
<1>5. Upto(Len(s))
  BY <1>1, <1>4
<1> QED
  BY <1>5 DEF Upto, Joins

\* Two of them agree as far as the sequences do.
LEMMA JoinAgrees ==
    ASSUME NEW s, NEW t, NEW f, NEW g, NEW n \in Nat,
           Joins(f, s, n), Joins(g, t, n), Agree(s, t, n)
    PROVE  \A i \in 1..n : f[i] = g[i]
<1> DEFINE T == {i \in 1..n : f[i] # g[i]}
<1> SUFFICES ASSUME T # {} PROVE FALSE
  OBVIOUS
<1>0. T \in SUBSET Nat
  OBVIOUS
<1>1. PICK i \in T : \A j \in T : i <= j
  <2> HIDE DEF T
  <2> QED
    BY <1>0, LeastPosition
<1>2. i \in 1..n
  OBVIOUS
<1>3. /\ f[i] = IF i = 1 THEN s[i] ELSE f[i - 1] \o s[i]
      /\ g[i] = IF i = 1 THEN t[i] ELSE g[i - 1] \o t[i]
  BY <1>2 DEF Joins
<1>4. i # 1 => i - 1 \in 1..n /\ ~(i <= i - 1)
  BY <1>2
<1>5. i # 1 => f[i - 1] = g[i - 1]
  BY <1>1, <1>4
<1> QED
  BY <1>2, <1>3, <1>5 DEF Agree

\* A sequence of texts is flattened to what they make together.
LEMMA FlattenJoins ==
    ASSUME NEW S, NEW s \in Seq(Seq(S)), NEW n \in Nat, n # 0
    PROVE  Len(s) = n =>
             \E f \in [1..n -> Seq(S)] : Joins(f, s, n) /\ Queries!FlattenSeq(s) = f[n]
<1>0. SUFFICES ASSUME Len(s) = n
               PROVE  \E f \in [1..n -> Seq(S)] : Joins(f, s, n) /\ Queries!FlattenSeq(s) = f[n]
  OBVIOUS
<1>1. PICK f \in [1..n -> Seq(S)] : Joins(f, s, n)
  BY <1>0, JoinExists
<1>2. f = [i \in 1..n |-> IF i = 1 THEN s[i] ELSE f[i - 1] \o s[i]]
  BY <1>1 DEF Joins
<1>3. PICK h : /\ h = [i \in 1..Len(s) |-> IF i = 1 THEN s[i] ELSE h[i - 1] \o s[i]]
               /\ Queries!FlattenSeq(s) = h[Len(s)]
  <2>1. f = [i \in 1..Len(s) |-> IF i = 1 THEN s[i] ELSE f[i - 1] \o s[i]] /\ Len(s) # 0
    BY <1>0, <1>2
  <2> QED
    BY <2>1, Zenon DEF Queries!FlattenSeq
<1>4. \A i \in 1..n : h[i] = IF i = 1 THEN s[i] ELSE h[i - 1] \o s[i]
  BY <1>0, <1>3
<1>5. Joins(h, s, n)
  BY <1>4 DEF Joins
<1>6. f[n] = h[n]
  <2>1. \A i \in 1..n : f[i] = h[i]
    BY <1>1, <1>5, JoinAgrees DEF Agree
  <2> QED
    BY <2>1
<1> QED
  BY <1>0, <1>1, <1>3, <1>6

LEMMA FlattenEmpty == Queries!FlattenSeq(<<>>) = <<>>
BY DEF Queries!FlattenSeq

\* One text more is put at the end.
LEMMA FlattenStep ==
    ASSUME NEW S, NEW s, NEW t, NEW n \in Nat, Agree(s, t, n)
    PROVE  s \in Seq(Seq(S)) /\ t \in Seq(Seq(S)) /\ Len(s) = n /\ Len(t) = n + 1 =>
             /\ Queries!FlattenSeq(s) \in Seq(S)
             /\ Queries!FlattenSeq(t) = Queries!FlattenSeq(s) \o t[n + 1]
<1>0. SUFFICES ASSUME s \in Seq(Seq(S)), t \in Seq(Seq(S)), Len(s) = n, Len(t) = n + 1
               PROVE  /\ Queries!FlattenSeq(s) \in Seq(S)
                      /\ Queries!FlattenSeq(t) = Queries!FlattenSeq(s) \o t[n + 1]
  OBVIOUS
<1>2. t[n + 1] \in Seq(S)
  BY <1>0
<1>3. PICK g : Joins(g, t, n + 1) /\ Queries!FlattenSeq(t) = g[n + 1]
  BY <1>0, FlattenJoins
<1>4. g[n + 1] = IF n + 1 = 1 THEN t[n + 1] ELSE g[n + 1 - 1] \o t[n + 1]
  <2>1. n + 1 \in 1..(n + 1)
    OBVIOUS
  <2> QED
    BY <1>3, <2>1 DEF Joins
<1>5. CASE n = 0
  <2>1. s = <<>>
    BY <1>0, <1>5
  <2>2. Queries!FlattenSeq(s) = <<>> /\ <<>> \in Seq(S)
    BY <2>1, FlattenEmpty
  <2>3. <<>> \o t[n + 1] = t[n + 1]
    BY <1>2, ConcatEmptySeq
  <2>4. Queries!FlattenSeq(t) = t[n + 1]
    BY <1>3, <1>4, <1>5
  <2> QED
    BY <2>2, <2>3, <2>4
<1>6. CASE n # 0
  <2>1. PICK f : f \in [1..n -> Seq(S)] /\ Joins(f, s, n) /\ Queries!FlattenSeq(s) = f[n]
    BY <1>0, <1>6, FlattenJoins
  <2>2. Joins(g, t, n)
    <3>1. \A i \in 1..n : i \in 1..(n + 1)
      OBVIOUS
    <3> QED
      BY <1>3, <3>1 DEF Joins
  <2>3. \A i \in 1..n : f[i] = g[i]
    <3>1. Joins(f, s, n)
      BY <2>1
    <3> QED
      BY <3>1, <2>2, JoinAgrees
  <2>4. n \in 1..n /\ n + 1 # 1 /\ n + 1 - 1 = n
    BY <1>6
  <2>5. f[n] = g[n] /\ f[n] \in Seq(S)
    BY <2>1, <2>3, <2>4
  <2> QED
    BY <1>3, <1>4, <2>1, <2>4, <2>5
<1> QED
  BY <1>5, <1>6

LEMMA SameCardinality == \A T : Queries!Cardinality(T) = Cardinality(T)
BY DEF Queries!Cardinality, Cardinality

\* How many "?" there are up to a position grows by one at each of them.
LEMMA Ranks ==
    ASSUME NEW S, query \in Seq(S)
    PROVE  /\ \A i \in 0..Len(query) : Queries!Rank(i) \in Nat
           /\ Queries!Rank(0) = 0
           /\ Queries!Rank(Len(query)) = Cardinality(Queries!Markers(query))
           /\ \A i, j \in 0..Len(query) : i <= j => Queries!Rank(i) <= Queries!Rank(j)
           /\ \A i \in 0..(Len(query) - 1) :
                Queries!Rank(i + 1) = IF query[i + 1] = Marker THEN Queries!Rank(i) + 1
                                      ELSE Queries!Rank(i)
<1> DEFINE M == Queries!Markers(query)
           Up(i) == {j \in M : j <= i}
           n == Len(query)
<1>0. n \in Nat /\ \A j \in M : j \in 1..n
  BY DEF Queries!Markers
<1>1. \A i \in 1..n : i \in M <=> query[i] = Marker
  BY DEF Queries!Markers
<1>2. \A i : Queries!Rank(i) = Cardinality(Up(i))
  BY SameCardinality DEF Queries!Rank
<1> HIDE DEF M, n, Up
<1>3. ASSUME NEW i
      PROVE  Up(i) \subseteq 1..n
  BY <1>0 DEF Up
<1>4. IsFiniteSet(1..n)
  BY <1>0, FS_Interval
<1>5. \A i \in 0..n : IsFiniteSet(Up(i)) /\ Cardinality(Up(i)) \in Nat
  <2> TAKE i \in 0..n
  <2>1. Up(i) \subseteq 1..n
    BY <1>3
  <2> QED
    BY <1>4, <2>1, FS_Subset, FS_CardinalityType
<1>6. Up(0) = {} /\ Up(n) = M
  BY <1>0 DEF Up
<1>7. Cardinality(Up(0)) = 0
  BY <1>6, FS_EmptySet
<1>8. ASSUME NEW i \in 0..n, NEW j \in 0..n, i <= j
      PROVE  Cardinality(Up(i)) <= Cardinality(Up(j))
  <2>1. Up(i) \subseteq Up(j)
    BY <1>0, <1>8 DEF Up
  <2> QED
    BY <1>5, <2>1, FS_Subset
<1>9. ASSUME NEW i \in 0..(n - 1)
      PROVE  Cardinality(Up(i + 1)) = IF query[i + 1] = Marker THEN Cardinality(Up(i)) + 1
                                      ELSE Cardinality(Up(i))
  <2>1. i \in 0..n /\ i + 1 \in 1..n
    BY <1>0
  <2>2. CASE query[i + 1] = Marker
    <3>1. Up(i + 1) = Up(i) \cup {i + 1}
      BY <1>0, <1>1, <2>1, <2>2 DEF Up
    <3>2. i + 1 \notin Up(i)
      BY <2>1 DEF Up
    <3> QED
      BY <1>5, <2>1, <2>2, <3>1, <3>2, FS_AddElement
  <2>3. CASE query[i + 1] # Marker
    <3>1. Up(i + 1) = Up(i)
      BY <1>0, <1>1, <2>1, <2>3 DEF Up
    <3> QED
      BY <2>3, <3>1
  <2> QED
    BY <2>2, <2>3
<1> QED
  BY <1>0, <1>1, <1>2, <1>5, <1>6, <1>7, <1>8, <1>9 DEF M, n

\* What the first k of some texts make together.
Together(p, k) == Queries!FlattenSeq([i \in 1..k |-> p[i]])

LEMMA TogetherNext ==
    ASSUME NEW S, NEW p, NEW k \in Nat
    PROVE  (\A i \in 1..(k + 1) : p[i] \in Seq(S)) =>
             /\ Together(p, k) \in Seq(S)
             /\ Together(p, k + 1) = Together(p, k) \o p[k + 1]
<1>0. SUFFICES ASSUME \A i \in 1..(k + 1) : p[i] \in Seq(S)
               PROVE  /\ Together(p, k) \in Seq(S)
                      /\ Together(p, k + 1) = Together(p, k) \o p[k + 1]
  OBVIOUS
<1> DEFINE s == [i \in 1..k |-> p[i]]
           t == [i \in 1..(k + 1) |-> p[i]]
<1>1. s \in Seq(Seq(S)) /\ Len(s) = k
  <2>1. \A i \in 1..k : p[i] \in Seq(S)
    BY <1>0
  <2> QED
    BY <2>1
<1>2. t \in Seq(Seq(S)) /\ Len(t) = k + 1
  BY <1>0
<1>3. Agree(s, t, k)
  BY DEF Agree
<1>4. t[k + 1] = p[k + 1]
  OBVIOUS
<1>5. Together(p, k) = Queries!FlattenSeq(s) /\ Together(p, k + 1) = Queries!FlattenSeq(t)
  BY DEF Together
<1> HIDE DEF s, t
<1>6. Queries!FlattenSeq(s) \in Seq(S) /\ Queries!FlattenSeq(t) = Queries!FlattenSeq(s) \o t[k + 1]
  BY <1>1, <1>2, <1>3, FlattenStep
<1> QED
  BY <1>4, <1>5, <1>6

LEMMA TogetherSteps ==
    ASSUME NEW S, NEW p \in Seq(Seq(S))
    PROVE  /\ \A k \in 0..Len(p) : Together(p, k) \in Seq(S)
           /\ Together(p, 0) = <<>>
           /\ \A k \in 0..(Len(p) - 1) : Together(p, k + 1) = Together(p, k) \o p[k + 1]
           /\ Together(p, Len(p)) = Queries!FlattenSeq(p)
<1>1. Len(p) \in Nat /\ \A i \in 1..Len(p) : p[i] \in Seq(S)
  OBVIOUS
<1>2. [i \in 1..0 |-> p[i]] = <<>>
  OBVIOUS
<1>3. Together(p, 0) = <<>>
  BY <1>2, FlattenEmpty DEF Together
<1>4. [i \in 1..Len(p) |-> p[i]] = p
  OBVIOUS
<1>5. Together(p, Len(p)) = Queries!FlattenSeq(p)
  BY <1>4 DEF Together
<1>6. ASSUME NEW k \in 0..(Len(p) - 1)
      PROVE  /\ Together(p, k) \in Seq(S)
             /\ Together(p, k + 1) = Together(p, k) \o p[k + 1]
  <2>1. k \in Nat /\ \A i \in 1..(k + 1) : p[i] \in Seq(S)
    BY <1>1
  <2> QED
    BY <2>1, TogetherNext
<1>7. Together(p, Len(p)) \in Seq(S)
  <2>1. CASE Len(p) = 0
    <3>1. Together(p, Len(p)) = <<>>
      BY <1>3, <2>1
    <3> QED
      BY <3>1
  <2>2. CASE Len(p) # 0
    <3> DEFINE k == Len(p) - 1
    <3>1. k \in 0..(Len(p) - 1) /\ k + 1 = Len(p) /\ Len(p) \in 1..Len(p)
      BY <1>1, <2>2
    <3> HIDE DEF k
    <3>2. /\ Together(p, k) \in Seq(S) /\ p[Len(p)] \in Seq(S)
          /\ Together(p, Len(p)) = Together(p, k) \o p[Len(p)]
      BY <1>1, <1>6, <3>1
    <3> QED
      BY <3>2, ConcatProperties
  <2> QED
    BY <2>1, <2>2
<1>8. \A k \in 0..Len(p) : k = Len(p) \/ k \in 0..(Len(p) - 1)
  BY <1>1
<1> QED
  BY <1>3, <1>5, <1>6, <1>7, <1>8

\* A symbol that none of them has is not in what they make together.
LEMMA TogetherWithout ==
    ASSUME NEW S, NEW p \in Seq(Seq(S)), NEW k \in 0..Len(p), NEW m,
           \A i \in 1..k : \A j \in DOMAIN p[i] : p[i][j] # m
    PROVE  \A j \in DOMAIN Together(p, k) : Together(p, k)[j] # m
<1> DEFINE Plain(n) == \A j \in DOMAIN Together(p, n) : Together(p, n)[j] # m
           T == {n \in 0..k : ~Plain(n)}
<1> SUFFICES T = {}
  OBVIOUS
<1> SUFFICES ASSUME T # {} PROVE FALSE
  OBVIOUS
<1>1. Len(p) \in Nat /\ k \in Nat /\ k <= Len(p)
  OBVIOUS
<1>2. T \in SUBSET Nat
  BY <1>1
<1>3. PICK n \in T : \A i \in T : n <= i
  <2> HIDE DEF T
  <2> QED
    BY <1>2, LeastPosition
<1>4. n \in 0..k /\ ~Plain(n)
  OBVIOUS
<1>5. CASE n = 0
  <2>1. Together(p, n) = <<>>
    BY <1>5, TogetherSteps
  <2> QED
    BY <1>4, <2>1
<1>6. CASE n # 0
  <2>1. n - 1 \in 0..k /\ n - 1 \in 0..(Len(p) - 1) /\ n - 1 \in 0..Len(p) /\ n - 1 + 1 = n /\ ~(n <= n - 1)
    BY <1>1, <1>4, <1>6
  <2>2. Plain(n - 1)
    BY <1>3, <2>1
  <2>3. Together(p, n) = Together(p, n - 1) \o p[n] /\ Together(p, n - 1) \in Seq(S)
    <3>1. Together(p, n - 1 + 1) = Together(p, n - 1) \o p[n - 1 + 1]
      BY <2>1, TogetherSteps
    <3>2. Together(p, n - 1) \in Seq(S)
      BY <2>1, TogetherSteps
    <3> QED
      BY <2>1, <3>1, <3>2
  <2>4. n \in 1..Len(p) /\ n \in 1..k
    BY <1>1, <1>4, <1>6
  <2>5. p[n] \in Seq(S)
    BY <2>4
  <2>6. \A j \in 1..Len(p[n]) : p[n][j] # m
    BY <2>4, <2>5
  <2> DEFINE u == Together(p, n - 1)
             v == p[n]
  <2>7. \A j \in 1..Len(u) : u[j] # m
    BY <2>2, <2>3
  <2>8. ~(\A j \in DOMAIN (u \o v) : (u \o v)[j] # m)
    BY <1>4, <2>3
  <2>9. u \in Seq(S) /\ v \in Seq(S)
    BY <2>3, <2>5
  <2> HIDE DEF u, v
  <2>10. /\ DOMAIN (u \o v) = 1..(Len(u) + Len(v)) /\ Len(u) \in Nat /\ Len(v) \in Nat
         /\ \A j \in 1..(Len(u) + Len(v)) : (u \o v)[j] = IF j <= Len(u) THEN u[j] ELSE v[j - Len(u)]
    BY <2>9
  <2>11. \A j \in 1..Len(v) : v[j] # m
    BY <2>6 DEF v
  <2>12. \A j \in 1..(Len(u) + Len(v)) : IF j <= Len(u) THEN j \in 1..Len(u) ELSE j - Len(u) \in 1..Len(v)
    BY <2>10
  <2> QED
    BY <2>7, <2>8, <2>10, <2>11, <2>12
<1> QED
  BY <1>5, <1>6

\* The symbol that follows a text may be counted in either.
LEMMA OneMore ==
    ASSUME NEW S, NEW u \in Seq(S), NEW q \in Seq(S), NEW k \in 0..(Len(q) - 1)
    PROVE  u \o SubSeq(q, k + 1, Len(q)) = (u \o <<q[k + 1]>>) \o SubSeq(q, k + 2, Len(q))
<1>1. Len(q) \in Nat /\ k + 1 \in 1..Len(q) /\ Len(q) \in (k + 1)..Len(q) /\ k + 1 + 1 = k + 2
  OBVIOUS
<1>2. SubSeq(q, k + 1, Len(q)) = <<q[k + 1]>> \o SubSeq(q, k + 2, Len(q))
  BY <1>1, SubSeqRecursiveFirst
<1>3. <<q[k + 1]>> \in Seq(S)
  BY <1>1
<1>4. SubSeq(q, k + 2, Len(q)) \in Seq(S)
  <2>1. \A i \in (k + 2)..Len(q) : q[i] \in S
    BY <1>1
  <2>2. k + 2 \in Int /\ Len(q) \in Int
    BY <1>1
  <2> QED
    BY <2>1, <2>2, SubSeqProperties
<1> DEFINE v == <<q[k + 1]>>
           w == SubSeq(q, k + 2, Len(q))
<1>5. v \in Seq(S) /\ w \in Seq(S)
  BY <1>3, <1>4
<1> HIDE DEF v, w
<1>6. (u \o v) \o w = u \o (v \o w)
  BY <1>5, ConcatAssociative
<1> QED
  BY <1>2, <1>6 DEF v, w

\* The first "?" of r is its i-th symbol, between a and b.
SplitAt(r, i, a, b) ==
    /\ i \in Queries!Markers(r)
    /\ \A j \in Queries!Markers(r) : j \in Nat /\ i <= j
    /\ SubSeq(r, 1, i - 1) = a
    /\ SubSeq(r, i + 1, Len(r)) = b

\* The first "?" of a text is replaced: it comes after u, which has none.
LEMMA AfterPlain ==
    ASSUME NEW S, NEW u \in Seq(S), NEW x \in Seq(S), Len(x) > 0, x[1] = Marker,
           \A i \in 1..Len(u) : u[i] # Marker
    PROVE  SplitAt(u \o x, Len(u) + 1, u, SubSeq(x, 2, Len(x)))
<1>1. /\ Len(u) + 1 \in Queries!Markers(u \o x)
      /\ \A i \in Queries!Markers(u \o x) : i \in Nat /\ Len(u) + 1 <= i
  BY DEF Queries!Markers
<1>2. SubSeq(u \o x, 1, Len(u) + 1 - 1) = u
  OBVIOUS
<1>3. SubSeq(u \o x, Len(u) + 1 + 1, Len(u \o x)) = SubSeq(x, 2, Len(x))
  OBVIOUS
<1> QED
  BY <1>1, <1>2, <1>3 DEF SplitAt

LEMMA FirstReplaced ==
    ASSUME NEW r, NEW i, NEW v, NEW a, NEW b, SplitAt(r, i, a, b)
    PROVE  /\ Queries!Markers(r) # {}
           /\ Queries!Replaced(r, Queries!FirstMarker(r), v) = (a \o v) \o b
<1> DEFINE M == Queries!Markers(r)
           f == CHOOSE j \in M : \A k \in M : j <= k
<1>1. f \in M /\ \A k \in M : f <= k
  <2>1. \E j \in M : \A k \in M : j <= k
    BY DEF SplitAt
  <2> HIDE DEF M
  <2> QED
    BY <2>1
<1> HIDE DEF f
<1>2. f = i
  <2>1. f <= i /\ i <= f /\ f \in Nat /\ i \in Nat
    BY <1>1 DEF SplitAt
  <2> QED
    BY <2>1
<1>3. Queries!FirstMarker(r) = i
  BY <1>2 DEF Queries!FirstMarker, f
<1>4. Queries!Replaced(r, i, v) = (a \o v) \o b
  BY DEF SplitAt, Queries!Replaced
<1> QED
  BY <1>3, <1>4 DEF SplitAt

\* What the parts of the query become.
Pieces == [i \in DOMAIN query |-> Queries!Piece(i)]

\* There is a parameter for each "?".
Fits == Cardinality(Queries!Markers(query)) = Len(arguments)

\* The parameters before the next one are in their places, in the first k
\* symbols of the query, and the others are as they were prepared.
Substituted(k) ==
    /\ Queries!Rank(k) = next - 1
    /\ result = Together(Pieces, k) \o SubSeq(query, k + 1, Len(query))

\* What the first i symbols of the query become is in front of something.
Kept(i) == \E rest \in Seq(QuerySymbols) : result = Together(Pieces, i) \o rest

QueryTypes ==
    /\ query \in Seq(QuerySymbols)
    /\ arguments \in Seq(Seq(QuerySymbols))
    /\ next \in 1..(Len(arguments) + 1)

QueryInv ==
    /\ QueryTypes
    /\ Fits /\ Queries!Plain(next - 2) => \E k \in 0..Len(query) : Substituted(k)
    /\ Fits => \A i \in Queries!Markers(query) :
                 Queries!Rank(i) < next /\ Queries!Plain(Queries!Rank(i)) => Kept(i)

LEMMA MarkerHasRank ==
    ASSUME query \in Seq(QuerySymbols), NEW i \in 1..Len(query), query[i] = Marker
    PROVE  Queries!Rank(i) \in 1..Cardinality(Queries!Markers(query))
<1>1. Len(query) \in Nat /\ i - 1 \in 0..(Len(query) - 1) /\ i \in 0..Len(query) /\ i - 1 + 1 = i
      /\ i - 1 \in 0..Len(query) /\ Len(query) \in 0..Len(query) /\ i <= Len(query)
  OBVIOUS
<1>2. Queries!Rank(i - 1) \in Nat /\ Queries!Rank(i) \in Nat /\ Queries!Rank(Len(query)) \in Nat
  BY <1>1, Ranks
<1>3. Queries!Rank(i) <= Queries!Rank(Len(query))
  BY <1>1, Ranks
<1>4. Queries!Rank(Len(query)) = Cardinality(Queries!Markers(query))
  BY Ranks
<1>5. Queries!Rank(i) = Queries!Rank(i - 1) + 1
  BY <1>1, Ranks
<1> QED
  BY <1>2, <1>3, <1>4, <1>5

LEMMA PiecesAreTexts ==
    ASSUME QueryTypes, Fits
    PROVE  /\ Pieces \in Seq(Seq(QuerySymbols)) /\ Len(Pieces) = Len(query)
           /\ \A i \in 1..Len(query) :
                Pieces[i] = IF query[i] = Marker THEN arguments[Queries!Rank(i)] ELSE <<query[i]>>
<1>1. query \in Seq(QuerySymbols) /\ DOMAIN query = 1..Len(query) /\ Len(query) \in Nat
  BY DEF QueryTypes
<1>2. \A i \in 1..Len(arguments) : arguments[i] \in Seq(QuerySymbols)
  BY DEF QueryTypes
<1>3. ASSUME NEW i \in 1..Len(query)
      PROVE  Queries!Piece(i) \in Seq(QuerySymbols)
  <2>1. CASE query[i] = Marker
    <3>1. Queries!Rank(i) \in 1..Len(arguments)
      BY <1>1, <2>1, MarkerHasRank DEF Fits
    <3>2. arguments[Queries!Rank(i)] \in Seq(QuerySymbols)
      BY <1>2, <3>1
    <3> QED
      BY <2>1, <3>2 DEF Queries!Piece
  <2>2. CASE query[i] # Marker
    <3>1. <<query[i]>> \in Seq(QuerySymbols)
      BY <1>1
    <3> QED
      BY <2>2, <3>1 DEF Queries!Piece
  <2> QED
    BY <2>1, <2>2
<1>4. \A i \in 1..Len(query) : Pieces[i] = Queries!Piece(i)
  BY <1>1 DEF Pieces
<1>5. Pieces \in Seq(Seq(QuerySymbols)) /\ Len(Pieces) = Len(query)
  <2> DEFINE n == Len(query)
  <2>1. n \in Nat /\ Pieces = [i \in 1..n |-> Queries!Piece(i)]
    BY <1>1 DEF Pieces
  <2>2. \A i \in 1..n : Queries!Piece(i) \in Seq(QuerySymbols)
    BY <1>3
  <2> HIDE DEF n
  <2>3. Pieces \in Seq(Seq(QuerySymbols)) /\ Len(Pieces) = n
    BY <2>1, <2>2
  <2> QED
    BY <2>3 DEF n
<1> QED
  BY <1>4, <1>5 DEF Queries!Piece

\* The first part is as long as it can be: it ends before a "?".
LEMMA LongestPart ==
    ASSUME QueryTypes, Fits, \E k \in 0..Len(query) : Substituted(k)
    PROVE  \E k \in 0..Len(query) : Substituted(k) /\ (k = Len(query) \/ query[k + 1] = Marker)
<1> DEFINE n == Len(query)
           T == {i \in 1..(n + 1) : Substituted(i - 1)}
<1>1. n \in Nat /\ query \in Seq(QuerySymbols)
  BY DEF QueryTypes
<1>2. T # {}
  <2>1. PICK k \in 0..n : Substituted(k)
    OBVIOUS
  <2>2. k + 1 \in 1..(n + 1) /\ k + 1 - 1 = k
    BY <1>1, <2>1
  <2>3. Substituted(k + 1 - 1)
    BY <2>1, <2>2
  <2>4. k + 1 \in T
    BY <2>2, <2>3
  <2> QED
    BY <2>4
<1>3. PICK i \in T : \A j \in T : i >= j
  <2>1. n + 1 \in Nat /\ T \in SUBSET (1..(n + 1))
    BY <1>1
  <2> HIDE DEF T, n
  <2> QED
    BY <1>2, <2>1, GreatestPosition
<1> DEFINE k == i - 1
<1>4. i \in 1..(n + 1) /\ Substituted(k)
  OBVIOUS
<1>5. k \in 0..n /\ k + 1 = i
  BY <1>1, <1>4
<1> HIDE DEF k
<1>6. ASSUME k # n, query[k + 1] # Marker PROVE FALSE
  <2>1. k \in 0..(n - 1) /\ k + 1 \in 1..n /\ k + 1 \in 0..n /\ k + 1 + 1 = k + 2
        /\ k + 2 \in 1..(n + 1) /\ ~(i >= k + 2) /\ k + 2 - 1 = k + 1
    BY <1>1, <1>5, <1>6
  <2>2. Queries!Rank(k + 1) = Queries!Rank(k)
    BY <1>1, <1>6, <2>1, Ranks
  <2>3. /\ Pieces \in Seq(Seq(QuerySymbols)) /\ Len(Pieces) = n
        /\ Pieces[k + 1] = <<query[k + 1]>>
    BY <1>6, <2>1, PiecesAreTexts
  <2>4. Together(Pieces, k) \in Seq(QuerySymbols)
    BY <1>5, <2>3, TogetherSteps
  <2>5. Together(Pieces, k + 1) = Together(Pieces, k) \o <<query[k + 1]>>
    BY <2>1, <2>3, TogetherSteps
  <2>6. result = Together(Pieces, k) \o SubSeq(query, k + 1, n)
    BY <1>4 DEF Substituted
  <2>7. result = Together(Pieces, k + 1) \o SubSeq(query, k + 2, n)
    BY <1>1, <2>1, <2>4, <2>5, <2>6, OneMore
  <2>8. Substituted(k + 1)
    BY <1>4, <2>1, <2>2, <2>7 DEF Substituted
  <2>9. k + 2 \in T
    BY <2>1, <2>8
  <2> QED
    BY <1>3, <2>1, <2>9
<1> QED
  BY <1>4, <1>5, <1>6

LEMMA PlainBefore ==
    ASSUME QueryTypes, Fits, NEW k \in 0..Len(query), Queries!Plain(Queries!Rank(k))
    PROVE  \A j \in 1..Len(Together(Pieces, k)) : Together(Pieces, k)[j] # Marker
<1>1. query \in Seq(QuerySymbols) /\ Len(query) \in Nat /\ Len(arguments) \in Nat
  BY DEF QueryTypes
<1>2. /\ Pieces \in Seq(Seq(QuerySymbols)) /\ Len(Pieces) = Len(query)
      /\ \A i \in 1..Len(query) :
           Pieces[i] = IF query[i] = Marker THEN arguments[Queries!Rank(i)] ELSE <<query[i]>>
  BY PiecesAreTexts
<1>3. ASSUME NEW i \in 1..k
      PROVE  \A j \in DOMAIN Pieces[i] : Pieces[i][j] # Marker
  <2>1. i \in 1..Len(query) /\ i \in 0..Len(query) /\ i <= k
    BY <1>1
  <2>2. CASE query[i] = Marker
    <3>1. Queries!Rank(i) \in 1..Cardinality(Queries!Markers(query))
      BY <1>1, <2>1, <2>2, MarkerHasRank
    <3>2. Queries!Rank(i) <= Queries!Rank(k) /\ Queries!Rank(k) \in Nat
      BY <1>1, <2>1, Ranks
    <3>3. Queries!Rank(i) \in 1..Queries!Rank(k)
      BY <1>1, <3>1, <3>2 DEF Fits
    <3>4. Queries!Markers(arguments[Queries!Rank(i)]) = {}
      BY <3>3 DEF Queries!Plain
    <3>5. Pieces[i] = arguments[Queries!Rank(i)]
      BY <1>2, <2>1, <2>2
    <3>6. Queries!Markers(Pieces[i]) = {}
      BY <3>4, <3>5
    <3> QED
      BY <3>6 DEF Queries!Markers
  <2>3. CASE query[i] # Marker
    <3>1. Pieces[i] = <<query[i]>>
      BY <1>2, <2>1, <2>3
    <3> QED
      BY <2>3, <3>1
  <2> QED
    BY <2>2, <2>3
<1> DEFINE u == Together(Pieces, k)
<1>4. \A j \in DOMAIN u : u[j] # Marker
  <2>1. k \in 0..Len(Pieces)
    BY <1>2
  <2> QED
    BY <1>2, <1>3, <2>1, TogetherWithout
<1>5. u \in Seq(QuerySymbols)
  BY <1>2, TogetherSteps
<1> HIDE DEF u
<1>6. \A j \in 1..Len(u) : u[j] # Marker
  BY <1>4, <1>5
<1> QED
  BY <1>6 DEF u

LEMMA RestOfQuery ==
    ASSUME NEW S, NEW q \in Seq(S), NEW k \in 0..(Len(q) - 1)
    PROVE  /\ SubSeq(q, k + 1, Len(q)) \in Seq(S)
           /\ Len(SubSeq(q, k + 1, Len(q))) > 0
           /\ SubSeq(q, k + 1, Len(q))[1] = q[k + 1]
           /\ SubSeq(SubSeq(q, k + 1, Len(q)), 2, Len(SubSeq(q, k + 1, Len(q))))
                = SubSeq(q, k + 2, Len(q))
<1>1. SubSeq(q, k + 1, Len(q)) \in Seq(S) /\ Len(SubSeq(q, k + 1, Len(q))) = Len(q) - k
  OBVIOUS
<1>2. Len(SubSeq(q, k + 1, Len(q))) > 0
  BY <1>1
<1>3. SubSeq(q, k + 1, Len(q))[1] = q[k + 1]
  OBVIOUS
<1>4. SubSeq(SubSeq(q, k + 1, Len(q)), 2, Len(SubSeq(q, k + 1, Len(q)))) = SubSeq(q, k + 2, Len(q))
  OBVIOUS
<1> QED
  BY <1>1, <1>2, <1>3, <1>4

\* What follows a text that has no "?", when a "?" after it is replaced.
AfterHead(head, tail, at, new) ==
    (SubSeq(tail, 1, at - Len(head) - 1) \o new) \o SubSeq(tail, at - Len(head) + 1, Len(tail))

WithoutMarker(head) == \A i \in 1..Len(head) : head[i] # Marker

\* The text itself is as it was.
LEMMA ReplacedAfter ==
    ASSUME NEW S, NEW head, NEW tail, NEW new, NEW at
    PROVE  head \in Seq(S) /\ tail \in Seq(S) /\ new \in Seq(S)
             /\ WithoutMarker(head) /\ at \in Queries!Markers(head \o tail) =>
             /\ AfterHead(head, tail, at, new) \in Seq(S)
             /\ Queries!Replaced(head \o tail, at, new) = head \o AfterHead(head, tail, at, new)
<1> SUFFICES ASSUME head \in Seq(S), tail \in Seq(S), new \in Seq(S),
                    WithoutMarker(head),
                    at \in Queries!Markers(head \o tail)
             PROVE  /\ AfterHead(head, tail, at, new) \in Seq(S)
                    /\ Queries!Replaced(head \o tail, at, new)
                         = head \o AfterHead(head, tail, at, new)
  OBVIOUS
<1> DEFINE g == at - Len(head)
           a == SubSeq(tail, 1, g - 1)
           b == SubSeq(tail, g + 1, Len(tail))
<1>1. /\ at \in Nat /\ g \in 1..Len(tail) /\ at = Len(head) + g
      /\ Len(head) \in Nat /\ Len(tail) \in Nat /\ Len(head \o tail) = Len(head) + Len(tail)
  BY DEF Queries!Markers, WithoutMarker
<1>2. a \in Seq(S) /\ b \in Seq(S)
  BY <1>1
<1>3. SubSeq(head \o tail, 1, at - 1) = head \o a
  BY <1>1
<1>4. SubSeq(head \o tail, at + 1, Len(head \o tail)) = b
  BY <1>1
<1>5. Queries!Replaced(head \o tail, at, new) = ((head \o a) \o new) \o b
  BY <1>3, <1>4 DEF Queries!Replaced
<1>9. AfterHead(head, tail, at, new) = (a \o new) \o b
  BY DEF AfterHead
<1> HIDE DEF a, b, g
<1>6. a \o new \in Seq(S) /\ (a \o new) \o b \in Seq(S)
  BY <1>2
<1>7. (head \o a) \o new = head \o (a \o new)
  BY <1>2, ConcatAssociative
<1>8. (head \o (a \o new)) \o b = head \o ((a \o new) \o b)
  <2> DEFINE w == a \o new
  <2>1. w \in Seq(S) /\ b \in Seq(S)
    BY <1>2, <1>6
  <2> HIDE DEF w
  <2>2. (head \o w) \o b = head \o (w \o b)
    BY <2>1, ConcatAssociative
  <2> QED
    BY <2>2 DEF w
<1> QED
  BY <1>5, <1>6, <1>7, <1>8, <1>9

\* What is in its place stays there when the next parameter is put in.
LEMMA PlaceKept ==
    ASSUME QueryTypes, Fits, Queries!Substitute,
           NEW i \in Queries!Markers(query), Queries!Plain(Queries!Rank(i)), Kept(i)
    PROVE  \E rest \in Seq(QuerySymbols) : result' = Together(Pieces, i) \o rest
<1> DEFINE u == Together(Pieces, i)
           v == arguments[next]
           f == Queries!FirstMarker(result)
<1>1. i \in 0..Len(query) /\ query \in Seq(QuerySymbols) /\ Len(query) \in Nat
  BY DEF Queries!Markers, QueryTypes
<1>2. PICK rest \in Seq(QuerySymbols) : result = u \o rest
  BY DEF Kept
<1>3. v \in Seq(QuerySymbols)
  BY DEF QueryTypes, Queries!Substitute
<1>4. u \in Seq(QuerySymbols)
  BY <1>1, PiecesAreTexts, TogetherSteps
<1>5. WithoutMarker(u)
  BY <1>1, PlainBefore DEF WithoutMarker
<1>6. result' = IF Queries!Markers(result) = {} THEN result ELSE Queries!Replaced(result, f, v)
  BY DEF Queries!Substitute
<1>7. ASSUME Queries!Markers(result) # {} PROVE f \in Queries!Markers(result)
  <2> DEFINE M == Queries!Markers(result)
  <2>1. M \in SUBSET Nat
    BY <1>2, <1>4 DEF Queries!Markers
  <2>2. PICK j \in M : \A k \in M : j <= k
    <3> HIDE DEF M
    <3> QED
      BY <1>7, <2>1, LeastPosition DEF M
  <2> HIDE DEF M
  <2>3. (CHOOSE m \in M : \A k \in M : m <= k) \in M
    BY <2>2
  <2> QED
    BY <2>3 DEF M, Queries!FirstMarker
<1> HIDE DEF u, v, f
<1>8. CASE Queries!Markers(result) = {}
  BY <1>2, <1>6, <1>8 DEF u
<1>9. CASE Queries!Markers(result) # {}
  <2>1. \E r \in Seq(QuerySymbols) : Queries!Replaced(u \o rest, f, v) = u \o r
    <3>1. f \in Queries!Markers(u \o rest)
      BY <1>2, <1>7, <1>9
    <3>2. /\ AfterHead(u, rest, f, v) \in Seq(QuerySymbols)
          /\ Queries!Replaced(u \o rest, f, v) = u \o AfterHead(u, rest, f, v)
      BY <1>3, <1>4, <1>5, <3>1, ReplacedAfter, SMT
    <3> QED
      BY <3>2, Zenon
  <2> QED
    BY <1>2, <1>6, <1>9, <2>1 DEF u
<1> QED
  BY <1>8, <1>9

\* Only one "?" is the n-th.
LEMMA OneOfRank ==
    ASSUME query \in Seq(QuerySymbols), NEW i \in 1..Len(query), NEW k \in 1..Len(query),
           query[i] = Marker, query[k] = Marker, Queries!Rank(i) = Queries!Rank(k)
    PROVE  i = k
<1>1. ASSUME NEW a \in 1..Len(query), NEW b \in 1..Len(query), a < b, query[b] = Marker
      PROVE  Queries!Rank(a) # Queries!Rank(b)
  <2>1. /\ Len(query) \in Nat /\ a \in 0..Len(query) /\ b - 1 \in 0..Len(query) /\ a <= b - 1
        /\ b - 1 \in 0..(Len(query) - 1) /\ b - 1 + 1 = b
    BY <1>1
  <2>2. Queries!Rank(a) <= Queries!Rank(b - 1) /\ Queries!Rank(a) \in Nat /\ Queries!Rank(b - 1) \in Nat
    BY <2>1, Ranks
  <2>3. Queries!Rank(b) = Queries!Rank(b - 1) + 1
    BY <1>1, <2>1, Ranks
  <2> QED
    BY <2>2, <2>3
<1>2. i < k \/ k < i \/ i = k
  OBVIOUS
<1> QED
  BY <1>1, <1>2

\* One parameter is put in its place.
LEMMA SubstituteKeeps ==
    ASSUME QueryTypes, Fits, Queries!Plain(next - 1), \E k \in 0..Len(query) : Substituted(k),
           Queries!Substitute
    PROVE  \E k \in 1..Len(query) :
             /\ query[k] = Marker
             /\ Queries!Rank(k) = next
             /\ result' = Together(Pieces, k) \o SubSeq(query, k + 1, Len(query))
<1> DEFINE n == Len(query)
<1>1. /\ n \in Nat /\ query \in Seq(QuerySymbols)
      /\ Len(arguments) \in Nat /\ next \in Nat /\ next <= Len(arguments)
  BY DEF QueryTypes, Queries!Substitute
<1>2. PICK k \in 0..n : Substituted(k) /\ (k = n \/ query[k + 1] = Marker)
  BY LongestPart
<1>3. Queries!Rank(k) = next - 1
  BY <1>2 DEF Substituted
<1>4. k # n
  <2>1. Queries!Rank(n) = Len(arguments)
    BY <1>1, Ranks DEF Fits
  <2> QED
    BY <1>1, <1>3, <2>1
<1>5. k \in 0..(n - 1) /\ k + 1 \in 1..n /\ k + 1 \in 0..n /\ query[k + 1] = Marker /\ k + 1 + 1 = k + 2
  BY <1>1, <1>2, <1>4
<1>6. Queries!Rank(k + 1) = next
  <2>1. Queries!Rank(k + 1) = Queries!Rank(k) + 1
    BY <1>1, <1>5, Ranks
  <2> QED
    BY <1>1, <1>3, <2>1
<1>7. /\ Pieces \in Seq(Seq(QuerySymbols)) /\ Len(Pieces) = n
      /\ Pieces[k + 1] = arguments[next]
  BY <1>5, <1>6, PiecesAreTexts
<1> DEFINE u == Together(Pieces, k)
           x == SubSeq(query, k + 1, n)
           rest == SubSeq(query, k + 2, n)
           v == arguments[next]
<1>8. u \in Seq(QuerySymbols) /\ Together(Pieces, k + 1) = u \o v
  BY <1>2, <1>5, <1>7, TogetherSteps
<1>9. \A j \in 1..Len(u) : u[j] # Marker
  <2>1. Queries!Plain(Queries!Rank(k))
    BY <1>3
  <2> QED
    BY <2>1, PlainBefore
<1>10. x \in Seq(QuerySymbols) /\ Len(x) > 0 /\ x[1] = Marker /\ SubSeq(x, 2, Len(x)) = rest
  <2>1. query \in Seq(QuerySymbols) /\ k \in 0..(Len(query) - 1)
    BY <1>1, <1>5
  <2>2. x \in Seq(QuerySymbols) /\ Len(x) > 0 /\ x[1] = query[k + 1]
    BY <2>1, RestOfQuery
  <2>3. SubSeq(x, 2, Len(x)) = rest
    BY <2>1, RestOfQuery
  <2> QED
    BY <1>5, <2>2, <2>3
<1>11. result = u \o x
  BY <1>2 DEF Substituted
<1> HIDE DEF u, x, rest, v, n
<1> DEFINE i == Len(u) + 1
           r == u \o x
<1>12. SplitAt(r, i, u, rest)
  BY <1>8, <1>9, <1>10, AfterPlain
<1> HIDE DEF i, r
<1>13. Queries!Markers(r) # {} /\ Queries!Replaced(r, Queries!FirstMarker(r), v) = (u \o v) \o rest
  <2>1. Queries!Markers(r) # {}
    BY <1>12, FirstReplaced
  <2>2. Queries!Replaced(r, Queries!FirstMarker(r), v) = (u \o v) \o rest
    BY <1>12, FirstReplaced
  <2> QED
    BY <2>1, <2>2
<1>14. result' = (u \o v) \o rest
  BY <1>11, <1>13 DEF Queries!Substitute, r, v
<1>15. result' = Together(Pieces, k + 1) \o SubSeq(query, k + 1 + 1, n)
  BY <1>5, <1>8, <1>14 DEF rest
<1> QED
  BY <1>5, <1>6, <1>15 DEF n

\* An unchanged query has the same places.
LEMMA PlacesStay ==
    ASSUME query' = query, arguments' = arguments
    PROVE  /\ \A k : Queries!Rank(k)' = Queries!Rank(k)
           /\ Pieces' = Pieces
           /\ Fits' = Fits
           /\ Queries!Markers(query)' = Queries!Markers(query)
           /\ \A n : Queries!Plain(n)' = Queries!Plain(n)
BY DEF Queries!Rank, Queries!Markers, Queries!Piece, Queries!Plain, Pieces, Fits

LEMMA QueryInit == DataInit => QueryInv
<1> SUFFICES ASSUME DataInit PROVE QueryInv
  OBVIOUS
<1>1. QueryTypes /\ result = query
  <2>1. CASE subject = "query"
    <3>1. Queries!Init
      BY <2>1, Zenon DEF DataInit
    <3>2. MaxQuery \in Nat /\ MaxParam \in Nat /\ MaxParams \in Nat
      BY QueryAssumption
    <3>3. query \in Seq(QuerySymbols)
      BY <3>1, <3>2 DEF Queries!Init, Queries!SeqOf
    <3>4. arguments \in Seq(Seq(QuerySymbols))
      <4>1. \A s \in Queries!SeqOf(QuerySymbols, MaxParam) : s \in Seq(QuerySymbols)
        BY <3>2 DEF Queries!SeqOf
      <4>2. arguments \in Seq(Queries!SeqOf(QuerySymbols, MaxParam))
        BY <3>1, <3>2 DEF Queries!Init, Queries!SeqOf
      <4> QED
        BY <4>1, <4>2
    <3>5. next = 1 /\ result = query
      BY <3>1 DEF Queries!Init
    <3>6. Len(arguments) \in Nat
      BY <3>4
    <3>7. next \in 1..(Len(arguments) + 1)
      BY <3>5, <3>6
    <3> QED
      BY <3>3, <3>4, <3>5, <3>7 DEF QueryTypes
  <2>2. CASE subject # "query"
    <3>1. query = <<>> /\ arguments = <<>> /\ next = 1 /\ result = <<>>
      BY <2>2, Zenon DEF DataInit
    <3> QED
      BY <3>1 DEF QueryTypes
  <2> QED
    BY <2>1, <2>2
<1>2. query \in Seq(QuerySymbols) /\ Len(query) \in Nat
  BY <1>1 DEF QueryTypes
<1>3. next = 1
  <2>1. CASE subject = "query"
    BY <2>1, Zenon DEF DataInit, Queries!Init
  <2>2. CASE subject # "query"
    BY <2>2, Zenon DEF DataInit
  <2> QED
    BY <2>1, <2>2
<1>4. Fits => Substituted(0)
  <2> SUFFICES ASSUME Fits PROVE Substituted(0)
    OBVIOUS
  <2>2. Queries!Rank(0) = 0
    BY <1>2, Ranks
  <2>3. Together(Pieces, 0) = <<>>
    BY <1>1, PiecesAreTexts, TogetherSteps
  <2>4. SubSeq(query, 0 + 1, Len(query)) = query
    <3>1. SubSeq(query, 1, Len(query)) = query
      BY <1>2, SubSeqFull
    <3>2. 0 + 1 = 1
      OBVIOUS
    <3> QED
      BY <3>1, <3>2, Zenon
  <2>5. <<>> \o query = query
    BY <1>2, ConcatEmptySeq
  <2>6. result = Together(Pieces, 0) \o SubSeq(query, 0 + 1, Len(query))
    BY <1>1, <2>3, <2>4, <2>5, Zenon
  <2>7. next - 1 = 0
    BY <1>3
  <2> QED
    BY <2>2, <2>6, <2>7 DEF Substituted
<1>5. ASSUME NEW i \in Queries!Markers(query) PROVE ~(Queries!Rank(i) < next)
  <2>1. i \in 1..Len(query) /\ query[i] = Marker
    BY <1>2 DEF Queries!Markers
  <2>2. Queries!Rank(i) \in 1..Cardinality(Queries!Markers(query))
    BY <1>2, <2>1, MarkerHasRank
  <2>3. Queries!Rank(i) >= 1
    BY <2>2
  <2>4. Queries!Rank(i) \in Nat
    BY <1>2, <2>1, Ranks
  <2> QED
    BY <1>3, <2>3, <2>4
<1> QED
  BY <1>1, <1>2, <1>4, <1>5 DEF QueryInv

LEMMA QueryStep == QueryInv /\ [DataNext]_dataVars => QueryInv'
<1> SUFFICES ASSUME QueryInv, [DataNext]_dataVars PROVE QueryInv'
  OBVIOUS
<1>1. CASE Queries!Substitute
  <2>1. query' = query /\ arguments' = arguments /\ next' = next + 1 /\ next <= Len(arguments)
    BY <1>1 DEF Queries!Substitute
  <2>2. QueryTypes'
    <3>1. Len(arguments) \in Nat /\ next \in Nat
      BY DEF QueryInv, QueryTypes
    <3>2. next + 1 \in 1..(Len(arguments) + 1)
      BY <2>1, <3>1
    <3> QED
      BY <2>1, <3>2 DEF QueryInv, QueryTypes
  <2>3. /\ \A k : Queries!Rank(k)' = Queries!Rank(k)
        /\ \A k : Together(Pieces, k)' = Together(Pieces, k)
        /\ Queries!Markers(query)' = Queries!Markers(query)
        /\ \A n : Queries!Plain(n)' = Queries!Plain(n)
        /\ Fits' = Fits
    BY <2>1, PlacesStay DEF Together
  <2>4. QueryTypes /\ next \in Nat /\ next' = next + 1
    BY <2>1 DEF QueryInv, QueryTypes
  <2>5. ASSUME Fits, Queries!Plain(next - 1)
        PROVE  \E k \in 1..Len(query) :
                 /\ query[k] = Marker
                 /\ Queries!Rank(k) = next
                 /\ result' = Together(Pieces, k) \o SubSeq(query, k + 1, Len(query))
    <3>1. Queries!Plain(next - 2)
      BY <2>4, <2>5 DEF Queries!Plain
    <3> QED
      BY <1>1, <2>4, <2>5, <3>1, SubstituteKeeps DEF QueryInv
  <2>6. ASSUME Fits, Queries!Plain(next - 1)
        PROVE  \E k \in 0..Len(query) : Substituted(k)'
    <3>1. PICK k \in 1..Len(query) :
             /\ Queries!Rank(k) = next
             /\ result' = Together(Pieces, k) \o SubSeq(query, k + 1, Len(query))
      BY <2>5, <2>6
    <3>2. next' - 1 = next /\ k \in 0..Len(query)
      BY <2>4
    <3>3. Substituted(k)'
      BY <2>1, <2>3, <3>1, <3>2 DEF Substituted
    <3> QED
      BY <3>2, <3>3
  <2>7. ASSUME Fits, NEW i \in Queries!Markers(query), Queries!Rank(i) < next + 1,
               Queries!Plain(Queries!Rank(i))
        PROVE  \E rest \in Seq(QuerySymbols) : result' = Together(Pieces, i) \o rest
    <3>1. i \in 1..Len(query) /\ query[i] = Marker /\ query \in Seq(QuerySymbols)
      BY <2>4 DEF Queries!Markers, QueryTypes
    <3>2. Queries!Rank(i) \in Nat
      BY <3>1, Ranks
    <3>3. CASE Queries!Rank(i) < next
      BY <1>1, <2>4, <2>7, <3>3, PlaceKept DEF QueryInv
    <3>4. CASE Queries!Rank(i) = next
      <4>1. Queries!Plain(next - 1)
        BY <2>4, <2>7, <3>4 DEF Queries!Plain
      <4>2. PICK k \in 1..Len(query) :
               /\ query[k] = Marker
               /\ Queries!Rank(k) = next
               /\ result' = Together(Pieces, k) \o SubSeq(query, k + 1, Len(query))
        BY <2>5, <2>7, <4>1
      <4>3. i = k
        BY <3>1, <3>4, <4>2, OneOfRank
      <4>4. SubSeq(query, k + 1, Len(query)) \in Seq(QuerySymbols)
        BY <3>1, <4>2
      <4> QED
        BY <4>2, <4>3, <4>4
    <3> QED
      BY <2>4, <2>7, <3>2, <3>3, <3>4
  <2>8. next' - 2 = next - 1
    BY <2>4
  <2>9. ASSUME Fits', Queries!Plain(next - 2)' PROVE (\E k \in 0..Len(query) : Substituted(k))'
    <3>1. Fits /\ Queries!Plain(next - 1)
      BY <2>1, <2>3, <2>8, <2>9 DEF Queries!Plain, Queries!Markers
    <3> QED
      BY <2>1, <2>6, <3>1
  <2>10. ASSUME Fits'
         PROVE  (\A i \in Queries!Markers(query) :
                   Queries!Rank(i) < next /\ Queries!Plain(Queries!Rank(i)) => Kept(i))'
    <3> SUFFICES ASSUME NEW i \in Queries!Markers(query)', (Queries!Rank(i) < next)',
                        Queries!Plain(Queries!Rank(i))'
                 PROVE  Kept(i)'
      OBVIOUS
    <3>1. i \in Queries!Markers(query) /\ Queries!Rank(i) < next + 1
      BY <2>3, <2>4
    <3>2. Queries!Plain(Queries!Rank(i))
      BY <2>1, <2>3 DEF Queries!Plain, Queries!Markers
    <3>3. \E rest \in Seq(QuerySymbols) : result' = Together(Pieces, i) \o rest
      BY <2>3, <2>7, <2>10, <3>1, <3>2
    <3> QED
      BY <2>3, <3>3 DEF Kept
  <2> QED
    BY <2>2, <2>9, <2>10 DEF QueryInv
<1>2. CASE UNCHANGED queryVars
  <2>1. query' = query /\ arguments' = arguments /\ next' = next /\ result' = result
    BY <1>2 DEF queryVars
  <2>2. /\ \A k : Queries!Rank(k)' = Queries!Rank(k)
        /\ Pieces' = Pieces
        /\ Fits' = Fits
        /\ Queries!Markers(query)' = Queries!Markers(query)
        /\ \A n : Queries!Plain(n)' = Queries!Plain(n)
    BY <2>1, PlacesStay
  <2>3. \A k : Together(Pieces, k)' = Together(Pieces, k)
    BY <2>2 DEF Together
  <2>4. \A k : Substituted(k)' = Substituted(k) /\ Kept(k)' = Kept(k)
    BY <2>1, <2>2, <2>3 DEF Substituted, Kept
  <2>5. QueryTypes'
    BY <2>1 DEF QueryInv, QueryTypes
  <2>6. Queries!Plain(next - 2)' = Queries!Plain(next - 2)
    BY <2>1 DEF Queries!Plain, Queries!Markers
  <2>7. \A i : Queries!Plain(Queries!Rank(i))' = Queries!Plain(Queries!Rank(i))
    BY <2>1, <2>2 DEF Queries!Plain, Queries!Markers
  <2>8. (Fits /\ Queries!Plain(next - 2) => \E k \in 0..Len(query) : Substituted(k))'
    BY <2>1, <2>2, <2>4, <2>6 DEF QueryInv
  <2>9. (Fits => \A i \in Queries!Markers(query) :
                 Queries!Rank(i) < next /\ Queries!Plain(Queries!Rank(i)) => Kept(i))'
    <3> SUFFICES ASSUME Fits', NEW i \in Queries!Markers(query)', (Queries!Rank(i) < next)',
                        Queries!Plain(Queries!Rank(i))'
                 PROVE  Kept(i)'
      OBVIOUS
    <3>1. /\ Fits /\ i \in Queries!Markers(query) /\ Queries!Rank(i) < next
          /\ Queries!Plain(Queries!Rank(i))
      BY <2>1, <2>2, <2>7
    <3>2. Kept(i)
      BY <3>1 DEF QueryInv
    <3> QED
      BY <2>4, <3>2
  <2> QED
    BY <2>5, <2>8, <2>9 DEF QueryInv
<1>3. Queries!Substitute \/ UNCHANGED queryVars
  BY Zenon DEF DataNext, dataVars, Queries!Next
<1> QED
  BY <1>1, <1>2, <1>3

\* What the first i symbols of the query become.
LEMMA BoundTogether ==
    ASSUME query \in Seq(QuerySymbols), NEW i \in 0..Len(query)
    PROVE  Queries!Bound(i) = Together(Pieces, i)
<1>1. DOMAIN query = 1..Len(query) /\ Len(query) \in Nat
  OBVIOUS
<1>2. [j \in 1..i |-> Queries!Piece(j)] = [j \in 1..i |-> Pieces[j]]
  <2>1. \A j \in 1..i : Pieces[j] = Queries!Piece(j)
    BY <1>1 DEF Pieces
  <2> QED
    BY <2>1
<1> QED
  BY <1>2 DEF Queries!Bound, Together

\* At the end every parameter is in its place.
LEMMA InPlaceAtTheEnd ==
    ASSUME QueryInv, Fits, next > Len(arguments), Queries!Plain(Len(arguments) - 1)
    PROVE  result = Queries!Bound(Len(query))
<1>1. /\ QueryTypes /\ query \in Seq(QuerySymbols) /\ Len(query) \in Nat
      /\ Len(arguments) \in Nat /\ next = Len(arguments) + 1 /\ next - 2 = Len(arguments) - 1
  BY DEF QueryInv, QueryTypes
<1>2. PICK k \in 0..Len(query) : Substituted(k) /\ (k = Len(query) \/ query[k + 1] = Marker)
  <2>1. \E k \in 0..Len(query) : Substituted(k)
    BY <1>1 DEF QueryInv
  <2> QED
    BY <1>1, <2>1, LongestPart
<1>3. Queries!Rank(k) = Len(arguments)
  BY <1>1, <1>2 DEF Substituted
<1>4. k = Len(query)
  <2> SUFFICES ASSUME k # Len(query) PROVE FALSE
    OBVIOUS
  <2>1. /\ k \in 0..(Len(query) - 1) /\ query[k + 1] = Marker
        /\ k + 1 \in 0..Len(query) /\ Len(query) \in 0..Len(query) /\ k + 1 <= Len(query)
    BY <1>1, <1>2
  <2>2. Queries!Rank(k + 1) = Queries!Rank(k) + 1
    BY <1>1, <2>1, Ranks
  <2>3. Queries!Rank(k + 1) <= Queries!Rank(Len(query))
    BY <1>1, <2>1, Ranks
  <2>4. Queries!Rank(Len(query)) = Len(arguments)
    BY <1>1, Ranks DEF Fits
  <2> QED
    BY <1>1, <1>3, <2>2, <2>3, <2>4
<1>5. Pieces \in Seq(Seq(QuerySymbols)) /\ Len(Pieces) = Len(query)
  BY <1>1, PiecesAreTexts
<1>6. Together(Pieces, k) \in Seq(QuerySymbols)
  BY <1>4, <1>5, TogetherSteps
<1>7. Together(Pieces, k) = Queries!Bound(Len(query))
  BY <1>1, <1>4, BoundTogether
<1>8. SubSeq(query, k + 1, Len(query)) = <<>>
  BY <1>1, <1>4
<1>9. Together(Pieces, k) \o <<>> = Together(Pieces, k)
  BY <1>6, ConcatEmptySeq
<1>10. result = Together(Pieces, k) \o SubSeq(query, k + 1, Len(query))
  BY <1>2 DEF Substituted
<1> QED
  BY <1>7, <1>8, <1>9, <1>10

LEMMA InPlace == QueryInv => SubstitutesInPlace
<1> SUFFICES ASSUME QueryInv, Fits PROVE
        /\ \A i \in Queries!Markers(query) :
             Queries!Rank(i) < next /\ Queries!Plain(Queries!Rank(i))
               => Queries!IsPrefix(Queries!Bound(i), result)
        /\ Queries!Done /\ Queries!Plain(Len(arguments) - 1) => result = Queries!Bound(Len(query))
  BY SameCardinality DEF SubstitutesInPlace, Queries!SubstitutesInPlace, Fits
<1>1. QueryTypes /\ query \in Seq(QuerySymbols) /\ Len(query) \in Nat
  BY DEF QueryInv, QueryTypes
<1>2. ASSUME NEW i \in Queries!Markers(query), Queries!Rank(i) < next,
             Queries!Plain(Queries!Rank(i))
      PROVE  Queries!IsPrefix(Queries!Bound(i), result)
  <2>1. i \in 0..Len(query)
    BY <1>1 DEF Queries!Markers
  <2>2. PICK rest \in Seq(QuerySymbols) : result = Together(Pieces, i) \o rest
    BY <1>2 DEF QueryInv, Kept
  <2> DEFINE u == Together(Pieces, i)
  <2>3. u \in Seq(QuerySymbols)
    BY <1>1, <2>1, PiecesAreTexts, TogetherSteps
  <2>4. Queries!Bound(i) = u
    BY <1>1, <2>1, BoundTogether
  <2> HIDE DEF u
  <2>5. Len(u) <= Len(u \o rest) /\ SubSeq(u, 1, Len(u)) = SubSeq(u \o rest, 1, Len(u))
    BY <2>3
  <2> QED
    BY <2>2, <2>4, <2>5 DEF Queries!IsPrefix, u
<1>3. ASSUME Queries!Done, Queries!Plain(Len(arguments) - 1)
      PROVE  result = Queries!Bound(Len(query))
  BY <1>3, InPlaceAtTheEnd DEF Queries!Done
<1> QED
  BY <1>2, <1>3

\* substitute_parameters of db_proxy/mod.rs puts a parameter in its own
\* place and leaves it there whatever comes after it, for every query and every
\* parameters: all of them up to the first that has a "?" itself.
THEOREM ParametersInPlace == DataSpec => []SubstitutesInPlace
<1>1. DataInit => QueryInv
  BY QueryInit
<1>2. QueryInv /\ [DataNext]_dataVars => QueryInv'
  BY QueryStep
<1>3. QueryInv => SubstitutesInPlace
  BY InPlace
<1> QED
  BY <1>1, <1>2, <1>3, PTL DEF DataSpec

-----------------------------------------------------------------------------
(* Packets. *)

Item == [size : Nat, byte : Int]
Payload(y) == y \in Seq(Item)

\* A byte of a number.
OneOf(v, unit) == (v \div unit) % 256

\* A number that is small enough is the sum of its bytes.
LEMMA TwoDigits ==
    ASSUME NEW v \in Nat, v < Packets!TwoBytes
    PROVE  OneOf(v, 1) + 256 * OneOf(v, 256) = v
<1>1. (v % 256) + 256 * (v \div 256) = v
  BY SMT
<1>2. (v \div 256) % 256 = v \div 256
  BY SMT DEF Packets!TwoBytes
<1>3. v \div 1 = v
  BY SMT
<1> QED
  BY <1>1, <1>2, <1>3, SMT DEF OneOf

LEMMA ThreeDigits ==
    ASSUME NEW v \in Nat, v < Packets!ThreeBytes
    PROVE  OneOf(v, 1) + 256 * OneOf(v, 256) + Packets!TwoBytes * OneOf(v, Packets!TwoBytes) = v
<1>1. (v % 256) + 256 * ((v \div 256) % 256) + Packets!TwoBytes * (v \div Packets!TwoBytes) = v
  BY SMT DEF Packets!TwoBytes
<1>2. (v \div Packets!TwoBytes) % 256 = v \div Packets!TwoBytes
  BY SMT DEF Packets!TwoBytes, Packets!ThreeBytes
<1>3. v \div 1 = v
  BY SMT
<1> QED
  BY <1>1, <1>2, <1>3, SMT DEF OneOf

LEMMA FourDigits ==
    ASSUME NEW v \in Nat, v <= Greatest
    PROVE  OneOf(v, 1) + 256 * OneOf(v, 256) + Packets!TwoBytes * OneOf(v, Packets!TwoBytes)
             + Packets!ThreeBytes * OneOf(v, Packets!ThreeBytes) = v
<1>1. (v % 256) + 256 * ((v \div 256) % 256) + Packets!TwoBytes * ((v \div Packets!TwoBytes) % 256)
        + Packets!ThreeBytes * (v \div Packets!ThreeBytes) = v
  BY SMT DEF Packets!TwoBytes, Packets!ThreeBytes
<1>2. (v \div Packets!ThreeBytes) % 256 = v \div Packets!ThreeBytes
  BY SMT DEF Packets!ThreeBytes, Greatest
<1>3. v \div 1 = v
  BY SMT
<1> QED
  BY <1>1, <1>2, <1>3, SMT DEF OneOf

\* What is in the bytes of a number.
LEMMA Digits ==
    ASSUME NEW v, NEW n
    PROVE  v \in Nat /\ n \in Nat =>
             /\ Packets!LittleEndian(v, n) \in Seq(Byte)
             /\ Len(Packets!LittleEndian(v, n)) = n
             /\ 1 <= n => Packets!LittleEndian(v, n)[1] = OneOf(v, 1)
             /\ 2 <= n => Packets!LittleEndian(v, n)[2] = OneOf(v, 256)
             /\ 3 <= n => Packets!LittleEndian(v, n)[3] = OneOf(v, Packets!TwoBytes)
             /\ 4 <= n => Packets!LittleEndian(v, n)[4] = OneOf(v, Packets!ThreeBytes)
<1> DEFINE L == Packets!LittleEndian(v, n)
           d(i) == IF i <= 4 THEN OneOf(v, Packets!Power256[i]) ELSE 0
<1>0. SUFFICES ASSUME v \in Nat, n \in Nat
               PROVE  /\ L \in Seq(Byte) /\ Len(L) = n
                      /\ 1 <= n => L[1] = OneOf(v, 1)
                      /\ 2 <= n => L[2] = OneOf(v, 256)
                      /\ 3 <= n => L[3] = OneOf(v, Packets!TwoBytes)
                      /\ 4 <= n => L[4] = OneOf(v, Packets!ThreeBytes)
  OBVIOUS
<1>1. L = [i \in 1..n |-> d(i)]
  BY SMT DEF Packets!LittleEndian, OneOf
<1>2. d(1) = OneOf(v, 1) /\ d(2) = OneOf(v, 256)
  BY DEF Packets!Power256
<1>3. d(3) = OneOf(v, Packets!TwoBytes) /\ d(4) = OneOf(v, Packets!ThreeBytes)
  BY DEF Packets!Power256
<1>4. ASSUME NEW i \in Nat \ {0}
      PROVE  d(i) \in Byte
  <2>1. i = 1 \/ i = 2 \/ i = 3 \/ i = 4 \/ ~(i <= 4)
    OBVIOUS
  <2>2. OneOf(v, 1) \in Byte /\ OneOf(v, 256) \in Byte
    BY <1>0, SMT DEF OneOf, Byte
  <2>3. OneOf(v, Packets!TwoBytes) \in Byte
    BY <1>0, SMT DEF OneOf, Byte, Packets!TwoBytes
  <2>4. OneOf(v, Packets!ThreeBytes) \in Byte
    BY <1>0, SMT DEF OneOf, Byte, Packets!ThreeBytes
  <2>5. ~(i <= 4) => d(i) = 0
    OBVIOUS
  <2>6. 0 \in Byte
    BY SMT DEF Byte
  <2> HIDE DEF d
  <2> QED
    BY <1>2, <1>3, <2>1, <2>2, <2>3, <2>4, <2>5, <2>6
<1> HIDE DEF L, d
<1>5. L \in [1..n -> Byte] /\ \A i \in 1..n : L[i] = d(i)
  <2>1. \A i \in 1..n : d(i) \in Byte
    BY <1>4
  <2> QED
    BY <1>1, <2>1, Zenon
<1>6. L \in Seq(Byte) /\ Len(L) = n
  BY <1>0, <1>5
<1> QED
  BY <1>0, <1>2, <1>3, <1>5, <1>6

\* What two sequences make together, and a part of a sequence.
LEMMA Joined ==
    ASSUME NEW S, NEW a, NEW b
    PROVE  a \in Seq(S) /\ b \in Seq(S) =>
             /\ a \o b \in Seq(S) /\ Len(a \o b) = Len(a) + Len(b)
             /\ Len(a) \in Nat /\ Len(b) \in Nat
             /\ \A i \in 1..Len(a) : (a \o b)[i] = a[i]
             /\ \A i \in 1..Len(b) : (a \o b)[Len(a) + i] = b[i]
OBVIOUS

\* The n items after the first.
LEMMA AfterFirst ==
    ASSUME NEW S, NEW a, NEW n
    PROVE  a \in Seq(S) /\ n \in Nat /\ n >= 1 /\ n + 1 <= Len(a) =>
             /\ SubSeq(a, 2, n + 1) \in Seq(S) /\ Len(SubSeq(a, 2, n + 1)) = n
             /\ \A i \in 1..n : SubSeq(a, 2, n + 1)[i] = a[i + 1]
OBVIOUS

\* What is left when the first part is dropped.
LEMMA Rest ==
    ASSUME NEW S, NEW a, NEW b
    PROVE  a \in Seq(S) /\ b \in Seq(S) => Packets!Drop(a \o b, Len(a)) = b
BY DEF Packets!Drop

LEMMA One ==
    ASSUME NEW S, NEW x \in S
    PROVE  <<x>> \in Seq(S) /\ Len(<<x>>) = 1 /\ <<x>>[1] = x
OBVIOUS

\* Sequences with the same items are the same.
LEMMA SameItems ==
    ASSUME NEW S, NEW a, NEW b
    PROVE  a \in Seq(S) /\ b \in Seq(S) /\ Len(a) = Len(b)
             /\ (\A i \in 1..Len(a) : a[i] = b[i]) => a = b
OBVIOUS

\* An item in front of others.
LEMMA Prefixed ==
    ASSUME NEW S, NEW x, NEW l
    PROVE  x \in S /\ l \in Seq(S) =>
             /\ <<x>> \o l \in Seq(S) /\ Len(<<x>> \o l) = Len(l) + 1 /\ (<<x>> \o l)[1] = x
             /\ \A i \in 1..Len(l) : (<<x>> \o l)[i + 1] = l[i]
<1>1. SUFFICES ASSUME x \in S, l \in Seq(S)
               PROVE  /\ <<x>> \o l \in Seq(S) /\ Len(<<x>> \o l) = Len(l) + 1
                      /\ (<<x>> \o l)[1] = x
                      /\ \A i \in 1..Len(l) : (<<x>> \o l)[i + 1] = l[i]
  OBVIOUS
<1>2. <<x>> \in Seq(S) /\ Len(<<x>>) = 1 /\ <<x>>[1] = x /\ Len(l) \in Nat
  BY <1>1
<1> DEFINE f == <<x>>
<1> HIDE DEF f
<1>3. f \in Seq(S) /\ l \in Seq(S)
  BY <1>1, <1>2 DEF f
<1>4. /\ f \o l \in Seq(S) /\ Len(f \o l) = Len(f) + Len(l)
      /\ \A i \in 1..Len(f) : (f \o l)[i] = f[i]
      /\ \A i \in 1..Len(l) : (f \o l)[Len(f) + i] = l[i]
  BY <1>3
<1>5. Len(f) = 1 /\ f[1] = x
  BY <1>2 DEF f
<1>6. \A i \in 1..Len(l) : 1 + i = i + 1
  BY <1>2
<1>7. Len(f \o l) = Len(l) + 1 /\ (f \o l)[1] = x
  BY <1>2, <1>4, <1>5
<1>8. \A i \in 1..Len(l) : (f \o l)[i + 1] = l[i]
  BY <1>4, <1>5, <1>6
<1> QED
  BY <1>4, <1>7, <1>8 DEF f

LEMMA Pair ==
    ASSUME NEW S, NEW a, NEW b
    PROVE  a \in S /\ b \in S => <<a>> \o <<b>> = <<a, b>>
<1>1. SUFFICES ASSUME a \in S, b \in S
               PROVE  <<a>> \o <<b>> = <<a, b>>
  OBVIOUS
<1> DEFINE y == <<b>>
           z == <<a>> \o y
<1>2. y \in Seq(S) /\ Len(y) = 1 /\ y[1] = b
  BY <1>1
<1> HIDE DEF y
<1>3. z \in Seq(S)
  BY <1>1, <1>2, Prefixed
<1>4. Len(z) = Len(y) + 1 /\ z[1] = a
  BY <1>1, <1>2, Prefixed
<1>5. \A i \in 1..Len(y) : z[i + 1] = y[i]
  BY <1>1, <1>2, Prefixed
<1> HIDE DEF z
<1>6. Len(z) = 2 /\ z[1] = a /\ z[2] = b
  BY <1>2, <1>4, <1>5
<1>7. z = <<a, b>>
  BY <1>1, <1>3, <1>6
<1> QED
  BY <1>7 DEF z, y

\* The items of bytes.
LEMMA ItemsOf ==
    ASSUME NEW e \in Seq(Byte)
    PROVE  /\ Packets!AsItems(e) \in Seq(Item) /\ Len(Packets!AsItems(e)) = Len(e)
           /\ \A i \in 1..Len(e) : /\ Packets!AsItems(e)[i] = Packets!ByteItem(e[i])
                                   /\ Packets!AsItems(e)[i].byte = e[i]
<1> DEFINE a == Packets!AsItems(e)
<1>1. DOMAIN e = 1..Len(e) /\ Len(e) \in Nat /\ \A i \in 1..Len(e) : e[i] \in Byte
  OBVIOUS
<1>2. \A b \in Byte : Packets!ByteItem(b) \in Item /\ Packets!ByteItem(b).byte = b
  BY SMT DEF Packets!ByteItem, Item, Byte
<1>3. a = [i \in 1..Len(e) |-> Packets!ByteItem(e[i])]
  BY <1>1, Zenon DEF Packets!AsItems
<1> HIDE DEF a
<1>4. a \in [1..Len(e) -> Item] /\ \A i \in 1..Len(e) : a[i] = Packets!ByteItem(e[i])
  BY <1>1, <1>2, <1>3, Zenon
<1>5. a \in Seq(Item) /\ Len(a) = Len(e)
  BY <1>1, <1>4
<1>6. \A i \in 1..Len(e) : a[i].byte = e[i]
  BY <1>1, <1>2, <1>4, Zenon
<1> QED
  BY <1>4, <1>5, <1>6, Zenon DEF a

\* e is a byte with n more after it.
BytesAfterOne(e, n) == e \in Seq(Byte) /\ n \in Nat /\ n >= 1 /\ Len(e) = n + 1

\* What they are read as.
Following(e, n) ==
    e[2] + 256 * (IF 2 <= n THEN e[3] ELSE 0)
      + Packets!TwoBytes * (IF 3 <= n THEN e[4] ELSE 0)
      + Packets!ThreeBytes * (IF 4 <= n THEN e[5] ELSE 0)

\* The bytes after the first are read as a number, whatever comes after them.
LEMMA NumberRead ==
    ASSUME NEW e, NEW y, NEW n, BytesAfterOne(e, n), Payload(y)
    PROVE  Packets!NumberOf(SubSeq(Packets!AsItems(e) \o y, 2, n + 1)) = Following(e, n)
<1> DEFINE a == Packets!AsItems(e)
           s == SubSeq(a \o y, 2, n + 1)
<1>0. n \in Nat /\ n >= 1
  BY DEF BytesAfterOne
<1>1. a \in Seq(Item) /\ Len(a) = n + 1 /\ \A i \in 1..(n + 1) : a[i].byte = e[i]
  BY ItemsOf DEF BytesAfterOne
<1> HIDE DEF a, s
<1>2. /\ a \o y \in Seq(Item) /\ Len(a \o y) = n + 1 + Len(y) /\ Len(y) \in Nat
      /\ \A i \in 1..(n + 1) : (a \o y)[i] = a[i]
  <2>1. y \in Seq(Item) /\ a \in Seq(Item) /\ Len(a) = n + 1
    BY <1>1 DEF Payload
  <2>2. /\ a \o y \in Seq(Item) /\ Len(a \o y) = Len(a) + Len(y) /\ Len(y) \in Nat
        /\ \A i \in 1..Len(a) : (a \o y)[i] = a[i]
    BY <2>1
  <2> QED
    BY <2>1, <2>2, Zenon
<1>3. Len(s) = n /\ \A i \in 1..n : s[i] = (a \o y)[i + 1]
  <2>1. a \o y \in Seq(Item) /\ n + 1 <= Len(a \o y)
    BY <1>0, <1>2
  <2> QED
    BY <1>0, <2>1, AfterFirst DEF s
<1>4. \A i \in 1..n : s[i].byte = e[i + 1]
  <2>1. \A i \in 1..n : i + 1 \in 1..(n + 1)
    BY <1>0
  <2> QED
    BY <1>1, <1>2, <1>3, <2>1
<1>5. \A i \in 1..4 : Packets!ByteAt(s, i) = IF i <= n THEN e[i + 1] ELSE 0
  BY <1>0, <1>3, <1>4 DEF Packets!ByteAt
<1>6. /\ Packets!ByteAt(s, 1) = e[2]
      /\ Packets!ByteAt(s, 2) = IF 2 <= n THEN e[3] ELSE 0
      /\ Packets!ByteAt(s, 3) = IF 3 <= n THEN e[4] ELSE 0
      /\ Packets!ByteAt(s, 4) = IF 4 <= n THEN e[5] ELSE 0
  BY <1>0, <1>5
<1>7. Packets!NumberOf(s) =
        Packets!ByteAt(s, 1) + 256 * Packets!ByteAt(s, 2)
          + Packets!TwoBytes * Packets!ByteAt(s, 3) + Packets!ThreeBytes * Packets!ByteAt(s, 4)
  BY DEF Packets!NumberOf
<1> QED
  BY <1>6, <1>7 DEF s, a, Following

\* A number in n bytes after one that says so.
InBytes(e, v, b, n) ==
    /\ v \in Nat /\ <<b, n>> \in {<<252, 2>>, <<253, 3>>, <<254, 8>>}
    /\ e = <<b>> \o Packets!LittleEndian(v, n)

\* A number in n bytes is read as the sum of those bytes that it has.
LEMMA LongNumber ==
    ASSUME NEW v, NEW b, NEW n, NEW e, InBytes(e, v, b, n)
    PROVE  /\ BytesAfterOne(e, n) /\ e[1] = b
           /\ Following(e, n) =
                OneOf(v, 1) + 256 * OneOf(v, 256)
                  + Packets!TwoBytes * (IF 3 <= n THEN OneOf(v, Packets!TwoBytes) ELSE 0)
                  + Packets!ThreeBytes * (IF 4 <= n THEN OneOf(v, Packets!ThreeBytes) ELSE 0)
<1> DEFINE l == Packets!LittleEndian(v, n)
           f == <<b>> \o l
<1>0. n \in Nat /\ 1 <= n /\ 2 <= n /\ v \in Nat /\ b \in Byte
  BY SMT DEF InBytes, Byte
<1>1. l \in Seq(Byte)
  BY <1>0, Digits
<1>2. Len(l) = n
  BY <1>0, Digits
<1>3. l[1] = OneOf(v, 1) /\ l[2] = OneOf(v, 256)
  <2> HIDE DEF l
  <2>1. 1 <= n => l[1] = OneOf(v, 1)
    BY <1>0, Digits DEF l
  <2>2. 2 <= n => l[2] = OneOf(v, 256)
    BY <1>0, Digits DEF l
  <2> QED
    BY <1>0, <2>1, <2>2
<1>4. 3 <= n => l[3] = OneOf(v, Packets!TwoBytes)
  BY <1>0, Digits
<1>5. 4 <= n => l[4] = OneOf(v, Packets!ThreeBytes)
  BY <1>0, Digits
<1> HIDE DEF l
<1>7. f \in Seq(Byte)
  BY <1>0, <1>1, Prefixed
<1>8. Len(f) = Len(l) + 1 /\ f[1] = b
  BY <1>0, <1>1, Prefixed
<1>9. \A i \in 1..Len(l) : f[i + 1] = l[i]
  BY <1>0, <1>1, Prefixed
<1> HIDE DEF f
<1>10. /\ f[2] = l[1] /\ f[3] = l[2]
       /\ 3 <= n => f[4] = l[3]
       /\ 4 <= n => f[5] = l[4]
  BY <1>0, <1>2, <1>9
<1>11. e = f
  BY Zenon DEF f, l, InBytes
<1>12. BytesAfterOne(e, n) /\ e[1] = b
  BY <1>0, <1>2, <1>7, <1>8, <1>11 DEF BytesAfterOne
<1>13. /\ e[2] = OneOf(v, 1) /\ e[3] = OneOf(v, 256)
       /\ 3 <= n => e[4] = OneOf(v, Packets!TwoBytes)
       /\ 4 <= n => e[5] = OneOf(v, Packets!ThreeBytes)
  BY <1>3, <1>4, <1>5, <1>10, <1>11
<1> QED
  BY <1>0, <1>12, <1>13 DEF Following

\* lenenc_int: a number is a byte, or has the bytes that the first one announces.
LEMMA IntEncoded ==
    ASSUME NEW v, v \in Nat, v <= Greatest
    PROVE  \/ v < 251 /\ Packets!LenencInt(v) = <<v>>
           \/ \E b, n : /\ InBytes(Packets!LenencInt(v), v, b, n)
                        /\ Following(Packets!LenencInt(v), n) = v
                        /\ v # 0
<1> DEFINE e == Packets!LenencInt(v)
<1>1. CASE v < 251
  <2>1. e = <<v>>
    BY <1>1, SMT DEF Packets!LenencInt, Packets!TwoBytes, Packets!ThreeBytes
  <2> QED
    BY <1>1, <2>1
<1>2. CASE v >= 251 /\ v < Packets!TwoBytes
  <2>1. e = <<252>> \o Packets!LittleEndian(v, 2)
    BY <1>2, SMT DEF Packets!LenencInt, Packets!TwoBytes, Packets!ThreeBytes
  <2> HIDE DEF e
  <2>2. InBytes(e, v, 252, 2)
    BY <2>1, SMT DEF InBytes
  <2>3. Following(e, 2) = OneOf(v, 1) + 256 * OneOf(v, 256) + Packets!TwoBytes * 0
                            + Packets!ThreeBytes * 0
    BY <2>2, LongNumber, SMT
  <2>4. OneOf(v, 1) + 256 * OneOf(v, 256) = v
    BY <1>2, TwoDigits, SMT
  <2>5. Following(e, 2) = v
    BY <2>3, <2>4, SMT DEF Packets!TwoBytes, Packets!ThreeBytes
  <2> QED
    BY <1>2, <2>2, <2>5, SMT DEF e
<1>3. CASE v >= Packets!TwoBytes /\ v < Packets!ThreeBytes
  <2>0. v >= 251
    BY <1>3, SMT DEF Packets!TwoBytes
  <2>1. e = <<253>> \o Packets!LittleEndian(v, 3)
    BY <1>3, <2>0, SMT DEF Packets!LenencInt
  <2> HIDE DEF e
  <2>2. InBytes(e, v, 253, 3)
    BY <2>1, SMT DEF InBytes
  <2>3. Following(e, 3) = OneOf(v, 1) + 256 * OneOf(v, 256)
                            + Packets!TwoBytes * OneOf(v, Packets!TwoBytes)
                            + Packets!ThreeBytes * 0
    BY <2>2, LongNumber, SMT
  <2>4. OneOf(v, 1) + 256 * OneOf(v, 256) + Packets!TwoBytes * OneOf(v, Packets!TwoBytes) = v
    BY <1>3, ThreeDigits, SMT
  <2>5. Following(e, 3) = v
    BY <2>3, <2>4, SMT DEF Packets!ThreeBytes
  <2> QED
    BY <2>0, <2>2, <2>5, SMT DEF e
<1>4. CASE v >= Packets!ThreeBytes
  <2>0. v >= 251 /\ v >= Packets!TwoBytes /\ ~(v < Packets!ThreeBytes)
    BY <1>4, SMT DEF Packets!TwoBytes, Packets!ThreeBytes
  <2>1. e = <<254>> \o Packets!LittleEndian(v, 8)
    BY <2>0, SMT DEF Packets!LenencInt, Packets!TwoBytes
  <2> HIDE DEF e
  <2>2. InBytes(e, v, 254, 8)
    BY <2>1, SMT DEF InBytes
  <2>3. Following(e, 8) = OneOf(v, 1) + 256 * OneOf(v, 256)
                            + Packets!TwoBytes * OneOf(v, Packets!TwoBytes)
                            + Packets!ThreeBytes * OneOf(v, Packets!ThreeBytes)
    BY <2>2, LongNumber, SMT
  <2>4. Following(e, 8) = v
    BY <2>3, FourDigits, SMT
  <2> QED
    BY <2>0, <2>2, <2>4, SMT DEF e
<1>5. v < 251 \/ (v >= 251 /\ v < Packets!TwoBytes) \/ v >= Packets!TwoBytes
  BY SMT DEF Packets!TwoBytes
<1>6. v >= Packets!TwoBytes => v < Packets!ThreeBytes \/ v >= Packets!ThreeBytes
  BY SMT DEF Packets!TwoBytes, Packets!ThreeBytes
<1> QED
  BY <1>1, <1>2, <1>3, <1>4, <1>5, <1>6

\* It does not begin as a NULL does.
Shown(p) == p # <<>> /\ p[1].byte # 251

\* A number as items.
NumberItems(v) == Packets!AsItems(Packets!LenencInt(v))

\* A client reads a number as it was, and what comes after it.
LEMMA IntRead ==
    ASSUME NEW v, NEW y, v \in Nat, v <= Greatest, Payload(y)
    PROVE  /\ Payload(NumberItems(v)) /\ Payload(NumberItems(v) \o y)
           /\ Len(NumberItems(v)) >= 1 /\ Len(NumberItems(v)) \in Nat
           /\ Shown(NumberItems(v) \o y)
           /\ Packets!LenencAt(NumberItems(v) \o y) = [width |-> Len(NumberItems(v)), number |-> v]
           /\ Packets!Drop(NumberItems(v) \o y, Len(NumberItems(v))) = y
           /\ v = 0 => Len(NumberItems(v)) = 1
<1> DEFINE e == Packets!LenencInt(v)
           a == NumberItems(v)
           p == a \o y
<1>1. /\ e \in Seq(Byte) /\ Len(e) \in Nat /\ Len(e) >= 1
      /\ \/ e[1] = v /\ Len(e) = 1 /\ e[1] \notin {251, 252, 253, 254}
         \/ \E n : BytesAfterOne(e, n) /\ Following(e, n) = v /\ v # 0
                   /\ <<e[1], n>> \in {<<252, 2>>, <<253, 3>>, <<254, 8>>}
  <2>1. CASE v < 251 /\ e = <<v>>
    <3>1. v \in Byte
      BY <2>1, SMT DEF Byte
    <3> HIDE DEF e
    <3> QED
      BY <2>1, <3>1
  <2>2. CASE \E b, n : InBytes(e, v, b, n) /\ Following(e, n) = v /\ v # 0
    <3> HIDE DEF e
    <3>1. PICK b, n : InBytes(e, v, b, n) /\ Following(e, n) = v
      BY <2>2
    <3>2. BytesAfterOne(e, n) /\ e[1] = b
      BY <3>1, LongNumber
    <3>3. <<b, n>> \in {<<252, 2>>, <<253, 3>>, <<254, 8>>}
      BY <3>1 DEF InBytes
    <3>4. e \in Seq(Byte) /\ Len(e) \in Nat /\ Len(e) >= 1
      BY <3>2 DEF BytesAfterOne
    <3> QED
      BY <2>2, <3>1, <3>2, <3>3, <3>4, Zenon
  <2> QED
    BY <2>1, <2>2, IntEncoded
<1> HIDE DEF e
<1>2. /\ a \in Seq(Item) /\ Len(a) = Len(e) /\ a[1].byte = e[1]
  <2>1. a = Packets!AsItems(e)
    BY Zenon DEF NumberItems, e
  <2> HIDE DEF a
  <2> QED
    BY <1>1, <2>1, ItemsOf
<1>3. y \in Seq(Item)
  BY DEF Payload
<1> HIDE DEF a
<1>4. p \in Seq(Item) /\ Len(p) = Len(a) + Len(y) /\ Len(y) \in Nat /\ p[1] = a[1]
  <2>1. a \in Seq(Item) /\ Len(a) \in Nat /\ Len(a) >= 1
    BY <1>1, <1>2
  <2>2. p \in Seq(Item) /\ Len(p) = Len(a) + Len(y) /\ Len(y) \in Nat
        /\ \A i \in 1..Len(a) : p[i] = a[i]
    BY <1>3, <2>1
  <2> QED
    BY <2>1, <2>2
<1>5. Packets!Drop(p, Len(a)) = y
  BY <1>2, <1>3, Rest
<1> HIDE DEF p
<1>6. p # <<>> /\ p[1].byte = e[1] /\ e[1] # 251
  BY <1>1, <1>2, <1>4
<1>7. Packets!LenencAt(p) = [width |-> Len(a), number |-> v]
  <2>1. CASE e[1] = v /\ Len(e) = 1 /\ e[1] \notin {251, 252, 253, 254}
    <3>1. Packets!Width(p[1].byte) = 1
      BY <1>6, <2>1 DEF Packets!Width
    <3> QED
      BY <1>2, <1>6, <2>1, <3>1 DEF Packets!LenencAt
  <2>2. ASSUME NEW n, BytesAfterOne(e, n), Following(e, n) = v,
               <<e[1], n>> \in {<<252, 2>>, <<253, 3>>, <<254, 8>>}
        PROVE  Packets!LenencAt(p) = [width |-> Len(a), number |-> v]
    <3>1. Packets!Width(p[1].byte) = n + 1 /\ n + 1 # 1
      BY <1>6, <2>2 DEF Packets!Width
    <3>2. Packets!NumberOf(SubSeq(p, 2, n + 1)) = v
      BY <2>2, NumberRead DEF p, a, e, NumberItems
    <3>3. Len(a) = n + 1
      BY <1>2, <2>2 DEF BytesAfterOne
    <3> QED
      BY <3>1, <3>2, <3>3 DEF Packets!LenencAt
  <2> QED
    BY <1>1, <2>1, <2>2
<1>8. v = 0 => Len(a) = 1
  BY <1>1, <1>2
<1>9. Shown(p)
  BY <1>6, Zenon DEF Shown
<1> QED
  BY <1>1, <1>2, <1>4, <1>5, <1>7, <1>8, <1>9, Zenon DEF p, a, Payload

\* What is after the first item.
LEMMA TailOf ==
    ASSUME NEW S, NEW x, NEW y
    PROVE  x \in S /\ y \in Seq(S) =>
             /\ <<x>> \o y \in Seq(S) /\ <<x>> \o y # <<>>
             /\ (<<x>> \o y)[1] = x /\ Tail(<<x>> \o y) = y
<1>1. SUFFICES ASSUME x \in S, y \in Seq(S)
               PROVE  /\ <<x>> \o y \in Seq(S) /\ <<x>> \o y # <<>>
                      /\ (<<x>> \o y)[1] = x /\ Tail(<<x>> \o y) = y
  OBVIOUS
<1> DEFINE z == <<x>> \o y
<1>2. z \in Seq(S)
  BY <1>1, Prefixed
<1>3. Len(z) = Len(y) + 1 /\ z[1] = x
  BY <1>1, Prefixed
<1>4. \A i \in 1..Len(y) : z[i + 1] = y[i]
  BY <1>1, Prefixed
<1> HIDE DEF z
<1>5. z # <<>> /\ Len(y) \in Nat
  BY <1>1, <1>2, <1>3
<1>6. Tail(z) \in Seq(S) /\ Len(Tail(z)) = Len(y) /\ \A i \in 1..Len(y) : Tail(z)[i] = z[i + 1]
  BY <1>2, <1>3, <1>5
<1>7. Tail(z) = y
  BY <1>1, <1>4, <1>6
<1> QED
  BY <1>2, <1>3, <1>5, <1>7 DEF z

\* A client reads a text, with what comes after it.
LEMMA TextRead ==
    ASSUME NEW v, NEW y, v \in Nat, v <= Greatest, Payload(y)
    PROVE  /\ Payload(Packets!LenencStr(v))
           /\ Packets!LenencStr(v) \o y # <<>> /\ (Packets!LenencStr(v) \o y)[1].byte # 251
           /\ Packets!ReadText(Packets!LenencStr(v) \o y) = Packets!Got(Packets!TextOf(v), y)
<1> DEFINE a == Packets!LenencStr(v)
           t == Packets!TextItem(v)
<1>1. a = NumberItems(v) \o (IF v = 0 THEN <<>> ELSE <<t>>)
  BY Zenon DEF Packets!LenencStr, NumberItems
<1>2. t \in Item /\ t.byte = -1 /\ t.size = v
  BY DEF Packets!TextItem, Item
<1> HIDE DEF a, t
<1>3. CASE v = 0
  <2>1. a = NumberItems(v) /\ Payload(a)
    <3>1. Payload(NumberItems(v))
      BY IntRead
    <3> QED
      BY <1>1, <1>3, <3>1 DEF Payload
  <2>2. /\ Shown(a \o y)
        /\ Packets!LenencAt(a \o y) = [width |-> Len(a), number |-> v]
        /\ Packets!Drop(a \o y, Len(a)) = y
    <3>1. Shown(NumberItems(v) \o y) /\ Packets!Drop(NumberItems(v) \o y, Len(NumberItems(v))) = y
      BY IntRead
    <3>2. Packets!LenencAt(NumberItems(v) \o y) = [width |-> Len(NumberItems(v)), number |-> v]
      BY IntRead
    <3> QED
      BY <2>1, <3>1, <3>2, Zenon
  <2> DEFINE p == a \o y
  <2> HIDE DEF p
  <2>3. Packets!ReadText(p) = Packets!Got(Packets!TextOf(0), y)
    <3>1. /\ p # <<>> /\ Packets!LenencAt(p).number = 0
          /\ Packets!Drop(p, Packets!LenencAt(p).width) = y
      BY <1>3, <2>2 DEF p, Shown
    <3> QED
      BY <3>1 DEF Packets!ReadText
  <2> QED
    BY <1>3, <2>1, <2>2, <2>3, Zenon DEF p, a, Shown
<1>4. CASE v # 0
  <2> DEFINE z == <<t>> \o y
  <2>1. Payload(z) /\ z # <<>> /\ z[1] = t /\ Tail(z) = y
    <3>1. y \in Seq(Item)
      BY DEF Payload
    <3> QED
      BY <1>2, <3>1, TailOf DEF Payload
  <2>2. a \o y = NumberItems(v) \o z /\ Payload(a)
    <3>1. /\ NumberItems(v) \in Seq(Item) /\ y \in Seq(Item) /\ <<t>> \in Seq(Item)
      <4>1. Payload(NumberItems(v))
        BY IntRead
      <4>2. <<t>> \in Seq(Item)
        BY <1>2, One
      <4> QED
        BY <4>1, <4>2, Zenon DEF Payload
    <3>2. a = NumberItems(v) \o <<t>>
      BY <1>1, <1>4
    <3> DEFINE n == NumberItems(v)
               u == <<t>>
    <3> HIDE DEF n, u
    <3>3. (n \o u) \o y = n \o (u \o y) /\ n \o u \in Seq(Item)
      <4>1. n \in Seq(Item) /\ y \in Seq(Item) /\ u \in Seq(Item)
        BY <3>1 DEF n, u
      <4> QED
        BY <4>1
    <3> QED
      BY <3>2, <3>3 DEF n, u, Payload
  <2> HIDE DEF z
  <2>3. /\ a \o y # <<>> /\ (a \o y)[1].byte # 251
        /\ Packets!LenencAt(a \o y) = [width |-> Len(NumberItems(v)), number |-> v]
        /\ Packets!Drop(a \o y, Len(NumberItems(v))) = z
    <3> DEFINE q == NumberItems(v) \o z
    <3>1. Shown(q)
      BY <2>1, IntRead
    <3>2. Packets!LenencAt(q) = [width |-> Len(NumberItems(v)), number |-> v]
      BY <2>1, IntRead
    <3>3. Packets!Drop(q, Len(NumberItems(v))) = z
      BY <2>1, IntRead
    <3>4. a \o y = q
      BY <2>2
    <3> HIDE DEF q
    <3> QED
      BY <3>1, <3>2, <3>3, <3>4, Zenon DEF Shown
  <2> DEFINE p == a \o y
  <2> HIDE DEF p
  <2>4. Packets!ReadText(p) = Packets!Got(Packets!TextOf(v), y)
    <3>1. /\ p # <<>> /\ Packets!LenencAt(p).number = v
          /\ Packets!Drop(p, Packets!LenencAt(p).width) = z
      BY <2>3 DEF p
    <3>2. z # <<>> /\ z[1].byte = -1 /\ z[1].size = v /\ Tail(z) = y
      BY <1>2, <2>1
    <3> QED
      BY <1>4, <3>1, <3>2 DEF Packets!ReadText
  <2> QED
    BY <2>2, <2>3, <2>4 DEF p, a
<1> QED
  BY <1>3, <1>4

\* The text of a number, too.
LEMMA DigitRead ==
    ASSUME NEW y, Payload(y)
    PROVE  /\ Payload(Packets!LenencValue(Packets!Digit(7)))
           /\ Packets!LenencValue(Packets!Digit(7)) \o y # <<>>
           /\ (Packets!LenencValue(Packets!Digit(7)) \o y)[1].byte # 251
           /\ Packets!ReadText(Packets!LenencValue(Packets!Digit(7)) \o y) =
                Packets!Got(Packets!Digit(7), y)
           /\ Packets!ReadTextValue(Packets!LenencValue(Packets!Digit(7)) \o y) =
                Packets!Got(Packets!Digit(7), y)
<1> DEFINE a == Packets!LenencValue(Packets!Digit(7))
           n == Packets!ByteItem(1)
           t == Packets!ByteItem(55)
           z == <<t>> \o y
           p == a \o y
<1>1. /\ n \in Item /\ n.byte = 1 /\ t \in Item /\ t.byte = 55
  BY DEF Packets!ByteItem, Item
<1>2. a = <<n, t>>
  <2>1. a = Packets!AsItems(<<1, 55>>)
    BY DEF Packets!LenencValue, Packets!Digit
  <2>2. Packets!AsItems(<<1, 55>>) = <<n, t>>
    BY DEF Packets!AsItems
  <2> QED
    BY <2>1, <2>2
<1> HIDE DEF a, n, t
<1>3. y \in Seq(Item)
  BY DEF Payload
<1>4. z \in Seq(Item) /\ z # <<>> /\ z[1] = t /\ Tail(z) = y
  BY <1>1, <1>3, TailOf
<1> HIDE DEF z, p
<1>5. a \in Seq(Item) /\ p = <<n>> \o z
  <2>1. a \in Seq(Item) /\ <<n>> \in Seq(Item) /\ <<t>> \in Seq(Item) /\ a = <<n>> \o <<t>>
    <3>1. <<n>> \in Seq(Item) /\ <<t>> \in Seq(Item)
      BY <1>1, One
    <3>2. <<n, t>> \in Seq(Item)
      BY <1>1
    <3>3. <<n>> \o <<t>> = <<n, t>>
      BY <1>1, Pair
    <3> QED
      BY <1>2, <3>1, <3>2, <3>3, Zenon
  <2> DEFINE u == <<n>>
             w == <<t>>
  <2> HIDE DEF u, w
  <2>2. u \in Seq(Item) /\ w \in Seq(Item)
    BY <2>1 DEF u, w
  <2>3. (u \o w) \o y = u \o (w \o y)
    BY <1>3, <2>2
  <2> QED
    BY <2>1, <2>3 DEF u, w, p, z
<1>6. p \in Seq(Item) /\ p # <<>> /\ p[1] = n /\ Tail(p) = z
  BY <1>1, <1>4, <1>5, TailOf
<1>7. Packets!LenencAt(p) = [width |-> 1, number |-> 1]
  BY <1>1, <1>6 DEF Packets!LenencAt, Packets!Width
<1>8. Packets!Drop(p, 1) = z
  <2>1. Packets!Drop(<<n>> \o z, Len(<<n>>)) = z
    <3>1. <<n>> \in Seq(Item)
      BY <1>1
    <3> QED
      BY <1>4, <3>1, Rest
  <2> QED
    BY <1>5, <2>1
<1>9. Packets!ReadText(p) = Packets!Got(Packets!Digit(7), y)
  <2>1. /\ Packets!LenencAt(p).number = 1 /\ Packets!Drop(p, Packets!LenencAt(p).width) = z
        /\ ~(z[1].byte = -1) /\ z[1].byte - 48 = 7
    BY <1>1, <1>4, <1>7, <1>8
  <2>2. Packets!ReadText(p) =
          IF p = <<>> THEN Packets!Lost
          ELSE IF 1 = 0 THEN Packets!Got(Packets!TextOf(0), z)
          ELSE IF z = <<>> THEN Packets!Lost
          ELSE IF z[1].byte = -1 /\ z[1].size = 1
                 THEN Packets!Got(Packets!TextOf(1), Tail(z))
          ELSE IF 1 = 1 THEN Packets!Got(Packets!Digit(z[1].byte - 48), Tail(z))
          ELSE Packets!Lost
    BY <2>1 DEF Packets!ReadText
  <2>3. Packets!Digit(z[1].byte - 48) = Packets!Digit(7) /\ 1 # 0
    BY <2>1
  <2> QED
    BY <1>4, <1>6, <2>1, <2>2, <2>3, Zenon
<1>10. p[1].byte # 251
  BY <1>1, <1>6
<1>11. Packets!ReadTextValue(p) = Packets!Got(Packets!Digit(7), y)
  BY <1>9, <1>10 DEF Packets!ReadTextValue
<1> QED
  BY <1>5, <1>6, <1>9, <1>10, <1>11, Zenon DEF p, a, Payload

\* What build_row_packet makes of a column.
TextPart(value) ==
    IF value = Packets!Null THEN Packets!AsItems(<<251>>) ELSE Packets!LenencValue(value)

\* The values that a column has.
IsValue(value) ==
    \/ value \in {Packets!Null, Packets!Digit(7)}
    \/ \E v \in Nat : v <= Greatest /\ value = Packets!TextOf(v)

\* A client reads a value of any column, with what comes after it.
LEMMA ValueRead ==
    ASSUME NEW value, NEW y, IsValue(value), Payload(y)
    PROVE  /\ Payload(TextPart(value))
           /\ Packets!ReadTextValue(TextPart(value) \o y) = Packets!Got(value, y)
           /\ value # Packets!Null =>
                Packets!ReadText(TextPart(value) \o y) = Packets!Got(value, y)
<1>1. CASE value = Packets!Null
  <2> DEFINE n == Packets!ByteItem(251)
  <2>1. TextPart(value) = <<n>>
    <3>1. TextPart(value) = Packets!AsItems(<<251>>)
      BY <1>1 DEF TextPart
    <3>2. Packets!AsItems(<<251>>) = <<n>>
      BY DEF Packets!AsItems
    <3> QED
      BY <3>1, <3>2
  <2>2. n \in Item /\ n.byte = 251
    BY DEF Packets!ByteItem, Item
  <2> HIDE DEF n
  <2>3. /\ <<n>> \o y # <<>> /\ (<<n>> \o y)[1] = n /\ Tail(<<n>> \o y) = y
    <3>1. y \in Seq(Item)
      BY DEF Payload
    <3> QED
      BY <2>2, <3>1, TailOf
  <2>4. Payload(<<n>>)
    BY <2>2 DEF Payload
  <2> QED
    <3> DEFINE p == <<n>> \o y
    <3>1. p # <<>> /\ p[1].byte = 251 /\ Tail(p) = y
      BY <2>2, <2>3
    <3> HIDE DEF p
    <3>2. Packets!ReadTextValue(p) = Packets!Got(value, y)
      BY <1>1, <3>1 DEF Packets!ReadTextValue
    <3> QED
      BY <1>1, <2>1, <2>4, <3>2 DEF p
<1>2. CASE value = Packets!Digit(7)
  <2>1. TextPart(value) = Packets!LenencValue(Packets!Digit(7))
    BY <1>2 DEF TextPart, Packets!Null, Packets!Digit
  <2>2. /\ Payload(Packets!LenencValue(Packets!Digit(7)))
        /\ Packets!ReadText(Packets!LenencValue(Packets!Digit(7)) \o y) =
             Packets!Got(Packets!Digit(7), y)
        /\ Packets!ReadTextValue(Packets!LenencValue(Packets!Digit(7)) \o y) =
             Packets!Got(Packets!Digit(7), y)
    BY DigitRead
  <2> QED
    BY <1>2, <2>1, <2>2, Zenon
<1>3. ASSUME NEW v \in Nat, v <= Greatest, value = Packets!TextOf(v)
      PROVE  /\ Payload(TextPart(value))
             /\ Packets!ReadTextValue(TextPart(value) \o y) = Packets!Got(value, y)
             /\ Packets!ReadText(TextPart(value) \o y) = Packets!Got(value, y)
  <2>1. TextPart(value) = Packets!LenencStr(v)
    BY <1>3 DEF TextPart, Packets!Null, Packets!TextOf, Packets!LenencValue
  <2>2. /\ Payload(Packets!LenencStr(v))
        /\ Packets!LenencStr(v) \o y # <<>> /\ (Packets!LenencStr(v) \o y)[1].byte # 251
        /\ Packets!ReadText(Packets!LenencStr(v) \o y) = Packets!Got(value, y)
    BY <1>3, TextRead, SMTT(30)
  <2> QED
    BY <2>1, <2>2, Zenon DEF Packets!ReadTextValue
<1> QED
  BY <1>1, <1>2, <1>3 DEF IsValue

\* What is after the first n items is what is after n + 1 with one more in front.
LEMMA SameRest ==
    ASSUME NEW S, NEW a, NEW b, NEW n \in Nat
    PROVE  a \in Seq(S) /\ b \in Seq(S) /\ Len(a) = 1 + Len(b)
             /\ (\A i \in 1..Len(b) : a[i + 1] = b[i]) =>
             SubSeq(a, 1 + n + 1, Len(a)) = SubSeq(b, n + 1, Len(b))
<1>1. SUFFICES ASSUME a \in Seq(S), b \in Seq(S), Len(a) = 1 + Len(b),
                      \A i \in 1..Len(b) : a[i + 1] = b[i]
               PROVE  SubSeq(a, 1 + n + 1, Len(a)) = SubSeq(b, n + 1, Len(b))
  OBVIOUS
<1>2. /\ SubSeq(a, 1 + n + 1, Len(a)) =
           [i \in 1..(Len(a) - (1 + n + 1) + 1) |-> a[i + (1 + n + 1) - 1]]
      /\ SubSeq(b, n + 1, Len(b)) = [i \in 1..(Len(b) - (n + 1) + 1) |-> b[i + (n + 1) - 1]]
  BY <1>1, SMTT(30)
<1>3. Len(a) - (1 + n + 1) + 1 = Len(b) - n /\ Len(b) - (n + 1) + 1 = Len(b) - n /\ Len(b) \in Nat
  BY <1>1
<1>4. ASSUME NEW i \in 1..(Len(b) - n)
      PROVE  a[i + (1 + n + 1) - 1] = b[i + (n + 1) - 1]
  <2>1. i + n \in 1..Len(b) /\ i + (1 + n + 1) - 1 = i + n + 1 /\ i + (n + 1) - 1 = i + n
    BY <1>3
  <2> QED
    BY <1>1, <2>1
<1> QED
  BY <1>2, <1>3, <1>4

\* lenenc_int makes bytes.
LEMMA IntBytes ==
    ASSUME NEW v, v \in Nat, v <= Greatest
    PROVE  Packets!LenencInt(v) \in Seq(Byte)
<1> DEFINE e == Packets!LenencInt(v)
<1>1. CASE v < 251 /\ e = <<v>>
  <2>1. v \in Byte
    BY <1>1, SMT DEF Byte
  <2> QED
    BY <1>1, <2>1, One
<1>2. CASE \E b, n : InBytes(e, v, b, n) /\ Following(e, n) = v /\ v # 0
  <2> HIDE DEF e
  <2>1. PICK b, n : InBytes(e, v, b, n)
    BY <1>2
  <2>2. BytesAfterOne(e, n)
    BY <2>1, LongNumber
  <2>3. e \in Seq(Byte)
    BY <2>2 DEF BytesAfterOne
  <2> QED
    BY <2>3 DEF e
<1> QED
  BY <1>1, <1>2, IntEncoded

\* The items of bytes that are put together.
LEMMA ItemsJoined ==
    ASSUME NEW d, NEW e
    PROVE  d \in Seq(Byte) /\ e \in Seq(Byte) =>
             Packets!AsItems(d \o e) = Packets!AsItems(d) \o Packets!AsItems(e)
<1>1. SUFFICES ASSUME d \in Seq(Byte), e \in Seq(Byte)
               PROVE  Packets!AsItems(d \o e) = Packets!AsItems(d) \o Packets!AsItems(e)
  OBVIOUS
<1> DEFINE c == d \o e
           x == Packets!AsItems(d)
           y == Packets!AsItems(e)
           z == Packets!AsItems(c)
<1>2. /\ c \in Seq(Byte) /\ Len(c) = Len(d) + Len(e) /\ Len(d) \in Nat /\ Len(e) \in Nat
      /\ \A i \in 1..Len(d) : c[i] = d[i]
      /\ \A i \in 1..Len(e) : c[Len(d) + i] = e[i]
  BY <1>1, Joined
<1> HIDE DEF c
<1>3. /\ x \in Seq(Item) /\ Len(x) = Len(d)
      /\ \A i \in 1..Len(d) : x[i] = Packets!ByteItem(d[i])
  BY <1>1, ItemsOf
<1>4. /\ y \in Seq(Item) /\ Len(y) = Len(e)
      /\ \A i \in 1..Len(e) : y[i] = Packets!ByteItem(e[i])
  BY <1>1, ItemsOf
<1>5. /\ z \in Seq(Item) /\ Len(z) = Len(c)
      /\ \A i \in 1..Len(c) : z[i] = Packets!ByteItem(c[i])
  BY <1>2, ItemsOf
<1> HIDE DEF x, y, z
<1>6. /\ x \o y \in Seq(Item) /\ Len(x \o y) = Len(x) + Len(y)
      /\ \A i \in 1..Len(x) : (x \o y)[i] = x[i]
      /\ \A i \in 1..Len(y) : (x \o y)[Len(x) + i] = y[i]
  <2>1. x \in Seq(Item) /\ y \in Seq(Item)
    BY <1>3, <1>4
  <2> QED
    BY <2>1, Joined
<1>7. ASSUME NEW i \in 1..Len(c) PROVE z[i] = (x \o y)[i]
  <2>1. CASE i <= Len(d)
    <3>1. i \in 1..Len(d) /\ i \in 1..Len(x)
      BY <1>2, <1>3, <2>1
    <3> QED
      BY <1>2, <1>3, <1>5, <1>6, <3>1, Zenon
  <2>2. CASE ~(i <= Len(d))
    <3>1. i - Len(d) \in 1..Len(e) /\ Len(d) + (i - Len(d)) = i
      BY <1>2, <2>2
    <3>2. c[i] = e[i - Len(d)]
      BY <1>2, <3>1
    <3>3. (x \o y)[i] = y[i - Len(d)]
      BY <1>3, <1>4, <1>6, <3>1
    <3> QED
      BY <1>4, <1>5, <3>1, <3>2, <3>3
  <2> QED
    BY <2>1, <2>2
<1>8. z = x \o y
  <2> DEFINE w == x \o y
  <2>1. w \in Seq(Item) /\ z \in Seq(Item) /\ Len(w) = Len(z)
    BY <1>2, <1>3, <1>4, <1>5, <1>6
  <2>2. \A i \in 1..Len(z) : z[i] = w[i]
    BY <1>5, <1>7
  <2> HIDE DEF w
  <2>3. z = w
    BY <2>1, <2>2, SameItems
  <2> QED
    BY <2>3 DEF w
<1> QED
  BY <1>8 DEF x, y, z, c

\* build_ok_packet: a client reads both numbers.
LEMMA OkRead ==
    ASSUME number \in Nat, number <= Greatest, Len(row) \in Nat, Len(row) <= Greatest
    PROVE  Packets!OkReads
<1> DEFINE k == Len(row)
           c == Packets!LenencInt(number)
           d == Packets!LenencInt(k)
           t == Packets!AsItems(<<2, 0, 0, 0>>)
           x == Packets!ByteItem(0)
           u == NumberItems(k) \o t
           v == NumberItems(number) \o u
           payload == Packets!AsItems(Packets!OkPacket(number, k))
<1>1. Payload(t) /\ Len(t) = 4 /\ <<2, 0, 0, 0>> \in Seq(Byte)
  <2>1. <<2, 0, 0, 0>> \in Seq(Byte) /\ Len(<<2, 0, 0, 0>>) = 4
    BY SMT DEF Byte
  <2> QED
    BY <2>1, ItemsOf DEF Payload
<1>2. c \in Seq(Byte) /\ d \in Seq(Byte)
  BY IntBytes
<1>3. payload = <<x>> \o v
  <2>1. payload = Packets!AsItems(((<<0>> \o c) \o d) \o <<2, 0, 0, 0>>)
    BY DEF Packets!OkPacket
  <2> DEFINE z == <<0>>
             e == <<2, 0, 0, 0>>
             y == <<x>>
  <2>2. z \in Seq(Byte) /\ e \in Seq(Byte)
    BY <1>1, SMT DEF Byte
  <2> HIDE DEF c, d, z, e
  <2>3. z \o c \in Seq(Byte) /\ (z \o c) \o d \in Seq(Byte)
    BY <1>2, <2>2
  <2>4. Packets!AsItems(((z \o c) \o d) \o e) = Packets!AsItems((z \o c) \o d) \o Packets!AsItems(e)
    BY <2>2, <2>3, ItemsJoined
  <2>5. Packets!AsItems((z \o c) \o d) = Packets!AsItems(z \o c) \o Packets!AsItems(d)
    BY <1>2, <2>3, ItemsJoined
  <2>6. Packets!AsItems(z \o c) = Packets!AsItems(z) \o Packets!AsItems(c)
    BY <1>2, <2>2, ItemsJoined
  <2>7. Packets!AsItems(z) = y
    BY DEF Packets!AsItems, z
  <2>8. payload = ((y \o NumberItems(number)) \o NumberItems(k)) \o t
    <3> HIDE DEF payload, t, k, y
    <3>1. payload = Packets!AsItems(((z \o c) \o d) \o e)
      BY <2>1 DEF z, e
    <3> QED
      BY <2>4, <2>5, <2>6, <2>7, <3>1, Zenon DEF NumberItems, c, d, t, e, k
  <2> DEFINE n == NumberItems(number)
             m == NumberItems(k)
  <2>9. y \in Seq(Item) /\ n \in Seq(Item) /\ m \in Seq(Item) /\ t \in Seq(Item)
    <3>1. x \in Item
      BY DEF Packets!ByteItem, Item
    <3>2. y \in Seq(Item)
      BY <3>1, One
    <3>3. Packets!AsItems(c) \in Seq(Item) /\ Packets!AsItems(d) \in Seq(Item)
      BY <1>2, ItemsOf
    <3> QED
      BY <1>1, <3>2, <3>3, Zenon DEF Payload, NumberItems, c, d
  <2> HIDE DEF y, n, m, t, payload
  <2> DEFINE yn == y \o n
             mt == m \o t
  <2>10. yn \in Seq(Item) /\ mt \in Seq(Item)
    BY <2>9
  <2> HIDE DEF yn, mt
  <2>11. (yn \o m) \o t = yn \o mt
    BY <2>9, <2>10, SMTT(30) DEF mt
  <2>12. yn \o mt = y \o (n \o mt)
    BY <2>9, <2>10, SMTT(30) DEF yn
  <2> QED
    BY <2>8, <2>11, <2>12, Zenon DEF y, n, m, yn, mt
<1> HIDE DEF c, d, t, payload, k, x
<1>4. Payload(u) /\ Packets!LenencAt(u) = [width |-> Len(NumberItems(k)), number |-> k]
  <2>1. k \in Nat /\ k <= Greatest
    BY DEF k
  <2> QED
    BY <1>1, <2>1, IntRead
<1>5. Len(u) = Len(NumberItems(k)) + 4 /\ Len(NumberItems(k)) \in Nat
  <2>1. k \in Nat /\ k <= Greatest
    BY DEF k
  <2>2. Payload(NumberItems(k)) /\ Len(NumberItems(k)) \in Nat
    BY <1>1, <2>1, IntRead
  <2> DEFINE m == NumberItems(k)
  <2> HIDE DEF m
  <2>3. m \in Seq(Item) /\ t \in Seq(Item) /\ Len(t) = 4
    BY <1>1, <2>2 DEF m, Payload
  <2>4. Len(m \o t) = Len(m) + Len(t)
    <3>1. m \in Seq(Item) /\ t \in Seq(Item)
      BY <2>3
    <3> QED
      BY <3>1
  <2> QED
    BY <2>2, <2>3, <2>4 DEF m
<1> HIDE DEF u
<1>6. /\ Payload(v) /\ Packets!LenencAt(v) = [width |-> Len(NumberItems(number)), number |-> number]
      /\ Packets!Drop(v, Len(NumberItems(number))) = u
  BY <1>4, IntRead
<1>7. Len(v) = Len(NumberItems(number)) + Len(u) /\ Len(NumberItems(number)) \in Nat
  <2>1. Payload(NumberItems(number)) /\ Len(NumberItems(number)) \in Nat
    BY <1>4, IntRead
  <2> DEFINE n == NumberItems(number)
  <2> HIDE DEF n
  <2>2. n \in Seq(Item) /\ u \in Seq(Item)
    BY <1>4, <2>1 DEF n, Payload
  <2>3. Len(n \o u) = Len(n) + Len(u)
    BY <2>2
  <2> QED
    BY <2>1, <2>3 DEF n
<1> HIDE DEF v
<1>8. Tail(payload) = v /\ Len(payload) = 1 + Len(v)
  <2>1. x \in Item /\ v \in Seq(Item)
    BY <1>6 DEF Packets!ByteItem, Item, x, Payload
  <2>2. Tail(<<x>> \o v) = v
    BY <2>1, TailOf
  <2>3. Len(<<x>> \o v) = Len(v) + 1 /\ Len(v) \in Nat
    BY <2>1, Prefixed
  <2> QED
    BY <1>3, <2>2, <2>3
<1>9. Packets!Drop(payload, 1 + Len(NumberItems(number))) = u
  <2> DEFINE a == Len(NumberItems(number))
  <2>1. a \in Nat /\ v \in Seq(Item) /\ Len(v) \in Nat /\ payload \in Seq(Item)
        /\ \A i \in 1..Len(v) : payload[i + 1] = v[i]
    <3>1. x \in Item /\ v \in Seq(Item)
      BY <1>6 DEF Packets!ByteItem, Item, x, Payload
    <3>2. <<x>> \o v \in Seq(Item)
      BY <3>1, Prefixed
    <3>3. \A i \in 1..Len(v) : (<<x>> \o v)[i + 1] = v[i]
      BY <3>1, Prefixed
    <3> QED
      BY <1>3, <1>7, <3>1, <3>2, <3>3
  <2> HIDE DEF a
  <2>2. SubSeq(payload, 1 + a + 1, Len(payload)) = SubSeq(v, a + 1, Len(v))
    BY <1>8, <2>1, SameRest
  <2> QED
    BY <1>6, <2>2, Zenon DEF Packets!Drop, a
<1>10. Packets!OkReads <=>
         LET first  == Packets!LenencAt(Tail(payload))
             second == Packets!LenencAt(Packets!Drop(payload, 1 + first.width))
         IN  /\ first.number = number /\ second.number = k
             /\ Len(payload) = 1 + first.width + second.width + 4
  BY Zenon DEF Packets!OkReads, payload, k
<1>11. /\ Packets!LenencAt(Tail(payload)).width = Len(NumberItems(number))
       /\ Packets!LenencAt(Tail(payload)).number = number
  <2>1. Tail(payload) = v
    BY <1>8
  <2>2. /\ Packets!LenencAt(v).width = Len(NumberItems(number))
        /\ Packets!LenencAt(v).number = number
    BY <1>6
  <2> QED
    BY <2>1, <2>2, Zenon
<1>12. /\ Packets!LenencAt(u).width = Len(NumberItems(k)) /\ Packets!LenencAt(u).number = k
  BY <1>4
<1>13. Len(payload) = 1 + Len(NumberItems(number)) + Len(NumberItems(k)) + 4
  BY <1>5, <1>7, <1>8
<1> QED
  BY <1>9, <1>10, <1>11, <1>12, <1>13, Zenon

\* Flattening is the same in both modules.
LEMMA SameFlatten == \A s : Packets!FlattenSeq(s) = Queries!FlattenSeq(s)
BY Zenon DEF Packets!FlattenSeq, Queries!FlattenSeq

\* What the first i of some texts make together, and what is after it.
After(p, i) == Packets!Drop(Together(p, Len(p)), Len(Together(p, i)))

\* What the first texts make is at the start of what all make.
LEMMA Suffix ==
    ASSUME NEW S, NEW p \in Seq(Seq(S)), NEW i \in 0..Len(p)
    PROVE  \E y \in Seq(S) : Together(p, Len(p)) = Together(p, i) \o y
<1> DEFINE Ends(k) == \E y \in Seq(S) : Together(p, Len(p)) = Together(p, k) \o y
           T == {k \in 0..(Len(p) - 1) : ~Ends(k)}
           U == {k + 1 : k \in T}
<1>1. /\ \A k \in 0..Len(p) : Together(p, k) \in Seq(S)
      /\ \A k \in 0..(Len(p) - 1) : Together(p, k + 1) = Together(p, k) \o p[k + 1]
      /\ Len(p) \in Nat
  <2>1. Len(p) \in Nat
    OBVIOUS
  <2> QED
    BY <2>1, TogetherSteps, Zenon
<1>2. Ends(Len(p))
  <2> DEFINE t == Together(p, Len(p))
  <2>1. t \in Seq(S)
    BY <1>1
  <2> HIDE DEF t
  <2>2. t = t \o <<>> /\ <<>> \in Seq(S)
    BY <2>1
  <2> QED
    BY <2>2 DEF t
<1>3. ASSUME NEW k \in 0..(Len(p) - 1), Ends(k + 1)
      PROVE  Ends(k)
  <2> DEFINE a == Together(p, k)
             b == p[k + 1]
  <2>1. PICK y \in Seq(S) : Together(p, Len(p)) = Together(p, k + 1) \o y
    BY <1>3
  <2>2. Together(p, k + 1) = a \o b
    BY <1>1
  <2>3. a \in Seq(S) /\ b \in Seq(S)
    <3>1. k \in 0..Len(p) /\ k + 1 \in 1..Len(p)
      BY <1>1
    <3> QED
      BY <1>1, <3>1
  <2> HIDE DEF a, b, Ends
  <2>4. (a \o b) \o y = a \o (b \o y) /\ b \o y \in Seq(S)
    <3>1. y \in Seq(S)
      BY <2>1
    <3> QED
      BY <2>3, <3>1, SMTT(30)
  <2>5. Together(p, Len(p)) = a \o (b \o y)
    BY <2>1, <2>2, <2>4
  <2> QED
    BY <2>4, <2>5 DEF Ends, a
<1> HIDE DEF Ends
<1>4. T = {}
  <2> SUFFICES ASSUME T # {} PROVE FALSE
    OBVIOUS
  <2>1. U \in SUBSET (1..Len(p)) /\ U # {}
    <3>1. \A k \in T : k + 1 \in 1..Len(p)
      BY <1>1
    <3> QED
      BY <3>1
  <2> HIDE DEF U
  <2>2. PICK m \in U : \A j \in U : m >= j
    BY <1>1, <2>1, GreatestPosition
  <2> USE DEF U
  <2>3. PICK k \in T : m = k + 1
    OBVIOUS
  <2>4. k \in 0..(Len(p) - 1) /\ ~Ends(k) /\ k \in Nat
    BY <1>1
  <2>5. CASE k + 1 = Len(p)
    BY <1>2, <1>3, <2>4, <2>5
  <2>6. CASE k + 1 # Len(p)
    <3>1. k + 1 \in 0..(Len(p) - 1)
      BY <1>1, <2>4, <2>6
    <3>2. k + 1 + 1 \in U => k + 1 >= k + 1 + 1
      BY <2>2, <2>3
    <3>3. k + 1 \notin T
      BY <2>4, <3>2
    <3>4. Ends(k + 1)
      BY <3>1, <3>3
    <3> QED
      BY <1>3, <2>4, <3>4
  <2> QED
    BY <2>5, <2>6
<1>5. i = Len(p) \/ i \in 0..(Len(p) - 1)
  BY <1>1
<1>6. Ends(i)
  BY <1>2, <1>4, <1>5
<1> QED
  BY <1>6 DEF Ends

\* After the first i texts comes the next one.
LEMMA AfterEach ==
    ASSUME NEW S, NEW p \in Seq(Seq(S))
    PROVE  /\ \A i \in 0..Len(p) : After(p, i) \in Seq(S)
           /\ After(p, 0) = Together(p, Len(p)) /\ After(p, Len(p)) = <<>>
           /\ \A i \in 0..(Len(p) - 1) : After(p, i) = p[i + 1] \o After(p, i + 1)
<1> DEFINE w == Together(p, Len(p))
<1>1. /\ \A k \in 0..Len(p) : Together(p, k) \in Seq(S)
      /\ \A k \in 0..(Len(p) - 1) : Together(p, k + 1) = Together(p, k) \o p[k + 1]
      /\ Together(p, 0) = <<>> /\ Len(p) \in Nat
  BY TogetherSteps, SMTT(30)
<1>2. ASSUME NEW i \in 0..Len(p)
      PROVE  w = Together(p, i) \o After(p, i) /\ After(p, i) \in Seq(S)
  <2> DEFINE a == Together(p, i)
  <2>1. PICK y \in Seq(S) : w = a \o y
    BY Suffix
  <2>2. a \in Seq(S) /\ y \in Seq(S)
    BY <1>1
  <2> HIDE DEF a
  <2>3. Packets!Drop(a \o y, Len(a)) = y
    BY <2>2, Rest
  <2>4. After(p, i) = y
    BY <2>1, <2>3 DEF After, a
  <2> QED
    BY <2>1, <2>4 DEF a
<1>3. After(p, 0) = w
  <2>1. w = <<>> \o After(p, 0) /\ After(p, 0) \in Seq(S)
    <3>1. 0 \in 0..Len(p)
      BY <1>1
    <3> QED
      BY <1>1, <1>2, <3>1
  <2> DEFINE r == After(p, 0)
  <2> HIDE DEF r, w
  <2>2. <<>> \o r = r
    BY <2>1 DEF r
  <2> QED
    BY <2>1, <2>2 DEF r
<1>4. After(p, Len(p)) = <<>>
  <2>1. w \in Seq(S)
    BY <1>1
  <2> HIDE DEF w
  <2>2. Packets!Drop(w \o <<>>, Len(w)) = <<>>
    <3>1. <<>> \in Seq(S)
      OBVIOUS
    <3> QED
      BY <2>1, <3>1, Rest
  <2>3. w \o <<>> = w
    BY <2>1
  <2> QED
    BY <2>2, <2>3 DEF After, w
<1>5. ASSUME NEW i \in 0..(Len(p) - 1)
      PROVE  After(p, i) = p[i + 1] \o After(p, i + 1)
  <2> DEFINE a == Together(p, i)
             b == p[i + 1]
             c == After(p, i + 1)
  <2>1. a \in Seq(S) /\ b \in Seq(S) /\ c \in Seq(S) /\ w = Together(p, i + 1) \o c
    <3>1. i \in 0..Len(p) /\ i + 1 \in 1..Len(p) /\ i + 1 \in 0..Len(p)
      BY <1>1
    <3>2. b \in Seq(S)
      BY <3>1
    <3> QED
      BY <1>1, <1>2, <3>1, <3>2
  <2>2. Together(p, i + 1) = a \o b
    BY <1>1
  <2> HIDE DEF a, b, c, w
  <2>3. (a \o b) \o c = a \o (b \o c) /\ b \o c \in Seq(S)
    <3>1. a \in Seq(S) /\ b \in Seq(S) /\ c \in Seq(S)
      BY <2>1
    <3> QED
      BY <3>1, SMTT(30)
  <2>4. Packets!Drop(a \o (b \o c), Len(a)) = b \o c
    BY <2>1, <2>3, Rest
  <2>5. w = a \o (b \o c)
    BY <2>1, <2>2, <2>3
  <2> QED
    BY <2>4, <2>5 DEF After, w, a, b, c
<1> QED
  BY <1>2, <1>3, <1>4, <1>5

\* What a client has after i of the columns with the parts p.
Have(p, i) == Packets!Got([j \in 1..i |-> row[j].value], After(p, i))

\* One value more, if it can be read.
Taken(had, more) ==
    IF had.ok /\ more.ok
      THEN Packets!Got(Append(had.value, more.value), more.rest) ELSE Packets!Lost

\* With one value more, a client has one column more.
LEMMA TakenNext ==
    ASSUME NEW p, NEW i \in Nat
    PROVE  Taken(Have(p, i), Packets!Got(row[i + 1].value, After(p, i + 1))) = Have(p, i + 1)
<1> DEFINE s == [j \in 1..i |-> row[j].value]
           t == [j \in 1..(i + 1) |-> row[j].value]
           x == row[i + 1].value
           a == After(p, i + 1)
<1>1. Append(s, x) = t
  OBVIOUS
<1> HIDE DEF s, t, x, a
<1>2. Taken(Packets!Got(s, After(p, i)), Packets!Got(x, a)) = Packets!Got(Append(s, x), a)
  BY Zenon DEF Taken, Packets!Got
<1> QED
  BY <1>1, <1>2, Zenon DEF s, t, x, a, Have

\* Two functions that go on alike from the same begin are the same.
Alike(f, g, n) == f[0] = g[0] /\ \A i \in 1..n : f[i - 1] = g[i - 1] => f[i] = g[i]

LEMMA SameEnd ==
    ASSUME NEW f, NEW g, NEW n \in Nat, Alike(f, g, n)
    PROVE  f[n] = g[n]
<1> DEFINE T == {i \in 0..n : f[i] # g[i]}
<1>1. SUFFICES ASSUME T # {} PROVE FALSE
  BY DEF Alike
<1>2. T \in SUBSET Nat
  OBVIOUS
<1>3. PICK i \in T : \A j \in T : i <= j
  <2> HIDE DEF T
  <2> QED
    BY <1>1, <1>2, LeastPosition
<1>4. i \in 0..n /\ f[i] # g[i]
  OBVIOUS
<1>5. i # 0
  BY <1>4 DEF Alike
<1>6. i \in 1..n /\ i - 1 \in 0..n /\ ~(i <= i - 1)
  BY <1>4, <1>5
<1>7. f[i - 1] = g[i - 1]
  BY <1>3, <1>6
<1> QED
  BY <1>4, <1>6, <1>7 DEF Alike

RowTyped == \A i \in DOMAIN row : IsValue(row[i].value)

Parts(n) == [i \in 1..n |-> TextPart(row[i].value)]

\* The columns of a row, one after the other.
LEMMA PartsOfRow ==
    ASSUME NEW n \in Nat, DOMAIN row = 1..n, Len(row) = n, RowTyped
    PROVE  /\ Payload(Packets!FlattenSeq(Parts(n)))
           /\ Have(Parts(n), 0) = Packets!Got(<<>>, Packets!FlattenSeq(Parts(n)))
           /\ Have(Parts(n), n) = Packets!Meant
           /\ \A i \in 1..n : /\ Payload(After(Parts(n), i))
                               /\ Have(Parts(n), i - 1).rest =
                                    TextPart(row[i].value) \o After(Parts(n), i)
<1> DEFINE p == Parts(n)
           start == Packets!FlattenSeq(p)
<1>1. p \in Seq(Seq(Item)) /\ Len(p) = n /\ \A i \in 1..n : p[i] = TextPart(row[i].value)
  <2>1. ASSUME NEW i \in 1..n PROVE TextPart(row[i].value) \in Seq(Item)
    <3>1. IsValue(row[i].value)
      BY DEF RowTyped
    <3>2. Payload(<<>>)
      BY DEF Payload
    <3> QED
      BY <3>1, <3>2, ValueRead DEF Payload
  <2> QED
    BY <2>1 DEF Parts
<1> HIDE DEF p
<1>2. start = Together(p, n) /\ Payload(start)
  <2>1. Together(p, Len(p)) = Queries!FlattenSeq(p)
    BY <1>1, TogetherSteps
  <2>2. \A k \in 0..Len(p) : Together(p, k) \in Seq(Item)
    BY <1>1, TogetherSteps
  <2>3. n \in 0..n
    OBVIOUS
  <2> QED
    BY <1>1, <2>1, <2>2, <2>3, SameFlatten DEF Payload
<1> HIDE DEF start
<1>3. /\ \A i \in 0..n : After(p, i) \in Seq(Item)
      /\ After(p, 0) = start /\ After(p, n) = <<>>
      /\ \A i \in 0..(n - 1) : After(p, i) = p[i + 1] \o After(p, i + 1)
  BY <1>1, <1>2, AfterEach
<1>4. ASSUME NEW i \in 1..n
      PROVE  /\ Payload(After(p, i))
             /\ Have(p, i - 1).rest = TextPart(row[i].value) \o After(p, i)
  <2>1. i - 1 \in 0..(n - 1) /\ i \in 0..n /\ i - 1 + 1 = i
    OBVIOUS
  <2>2. Have(p, i - 1).rest = After(p, i - 1)
    BY Zenon DEF Have, Packets!Got
  <2> QED
    BY <1>1, <1>3, <2>1, <2>2 DEF Payload
<1>5. Have(p, 0) = Packets!Got(<<>>, start)
  BY <1>3 DEF Have
<1>6. Have(p, n) = Packets!Meant
  BY <1>3 DEF Have, Packets!Meant
<1> QED
  BY <1>2, <1>4, <1>5, <1>6, Zenon DEF p, start

\* What was read of a value is taken.
LEMMA TakenEach ==
    ASSUME NEW p, NEW n \in Nat, NEW i \in 1..n
    PROVE  Taken(Have(p, i - 1), Packets!Got(row[i].value, After(p, i))) = Have(p, i)
<1>1. i - 1 \in Nat /\ i - 1 + 1 = i
  OBVIOUS
<1>2. Taken(Have(p, i - 1), Packets!Got(row[i - 1 + 1].value, After(p, i - 1 + 1)))
        = Have(p, i - 1 + 1)
  BY <1>1, TakenNext
<1> QED
  BY <1>1, <1>2

\* build_row_packet: a client reads every row.
LEMMA TextRowRead ==
    ASSUME NEW n \in Nat, DOMAIN row = 1..n, Len(row) = n, RowTyped
    PROVE  Packets!TextRowReads
<1> DEFINE p == Parts(n)
           R(x) == Packets!ReadTextValue(x)
           start == Packets!TextRow(row)
           g == [i \in 0..n |-> Have(p, i)]
<1>1. start = Packets!FlattenSeq(p)
  BY DEF Packets!TextRow, Parts, TextPart
<1> HIDE DEF p, start
<1>2. /\ Have(p, 0) = Packets!Got(<<>>, start) /\ Have(p, n) = Packets!Meant
      /\ \A i \in 1..n : /\ Payload(After(p, i))
                          /\ Have(p, i - 1).rest = TextPart(row[i].value) \o After(p, i)
  BY <1>1, PartsOfRow DEF p
<1>4. ASSUME NEW i \in 1..n
      PROVE  Taken(Have(p, i - 1), R(Have(p, i - 1).rest)) = Have(p, i)
  <2>1. IsValue(row[i].value) /\ Payload(After(p, i))
    BY <1>2 DEF RowTyped
  <2>2. R(TextPart(row[i].value) \o After(p, i)) = Packets!Got(row[i].value, After(p, i))
    BY <2>1, ValueRead
  <2> QED
    BY <1>2, <2>2, TakenEach
<1>5. g = [i \in 0..n |-> IF i = 0 THEN Packets!Got(<<>>, start)
                          ELSE Taken(g[i - 1], R(g[i - 1].rest))]
  <2>1. \A i \in 1..n : i - 1 \in 0..n
    OBVIOUS
  <2> HIDE DEF R
  <2>2. \A i \in 0..n : i = 0 \/ i \in 1..n
    OBVIOUS
  <2> QED
    BY <1>2, <1>4, <2>1, <2>2, Zenon
<1> HIDE DEF g
<1>6. PICK h : /\ h = [i \in 0..Len(row) |->
                        IF i = 0 THEN Packets!Got(<<>>, start)
                        ELSE Taken(h[i - 1], R(h[i - 1].rest))]
               /\ Packets!TextRowReads <=> h[Len(row)] = Packets!Meant
  BY <1>5, Zenon DEF Packets!TextRowReads, Packets!Values, Taken, start
<1>7. Alike(h, g, n)
  <2>1. /\ \A i \in 0..n : h[i] = IF i = 0 THEN Packets!Got(<<>>, start)
                                  ELSE Taken(h[i - 1], R(h[i - 1].rest))
        /\ \A i \in 0..n : g[i] = IF i = 0 THEN Packets!Got(<<>>, start)
                                  ELSE Taken(g[i - 1], R(g[i - 1].rest))
    BY <1>5, <1>6
  <2>2. 0 \in 0..n /\ \A i \in 1..n : i \in 0..n /\ i # 0
    OBVIOUS
  <2> QED
    BY <2>1, <2>2, Zenon DEF Alike
<1>8. h[n] = g[n]
  BY <1>7, SameEnd
<1>9. g[n] = Have(p, n)
  BY DEF g
<1> QED
  BY <1>2, <1>6, <1>8, <1>9, Zenon

\* The bitmap of a binary row is long enough where it is as long as the protocol's.
LEMMA BitmapArithmetic ==
    ASSUME NEW n \in Nat, n % 8 \in 1..6
    PROVE  /\ (n + 7) \div 8 = (n + 9) \div 8 /\ (n + 9) \div 8 \in Nat
           /\ \A i \in 1..n : ((i + 1) \div 8) + 1 \in 1..((n + 9) \div 8)
<1> DEFINE m == (n + 9) \div 8
<1>1. (n + 7) \div 8 = m /\ m \in Nat
  BY SMT
<1>2. ASSUME NEW i \in 1..n PROVE ((i + 1) \div 8) + 1 \in 1..m
  BY SMT
<1> QED
  BY <1>1, <1>2

\* No bit of zeros is set.
LEMMA NoBit ==
    ASSUME NEW b, NEW i \in Nat, b[((i + 1) \div 8) + 1].byte = 0
    PROVE  ~Packets!BitSet(b, i)
<1> DEFINE k == ((i + 1) % 8) + 1
<1>1. k \in 1..8
  OBVIOUS
<1>2. \A j \in 1..8 : Packets!PowerOf2[j] \in Nat \ {0}
  BY DEF Packets!PowerOf2
<1>3. \A x \in Nat \ {0} : (0 \div x) % 2 # 1
  OBVIOUS
<1> QED
  BY <1>1, <1>2, <1>3 DEF Packets!BitSet

\* What is in front of the values of a binary row: a zero and m more.
LEMMA ZerosFirst ==
    ASSUME NEW m \in Nat, NEW f, Payload(f)
    PROVE  LET a == Packets!AsItems(<<0>>) \o Packets!AsItems([i \in 1..m |-> 0])
               b == a \o f
           IN  /\ Payload(b) /\ Len(b) = 1 + m + Len(f) /\ Len(f) \in Nat
               /\ b[1].byte = 0
               /\ \A k \in 1..m : Tail(b)[k].byte = 0
               /\ Packets!Drop(b, 1 + m) = f
<1> DEFINE x == Packets!ByteItem(0)
           z == Packets!AsItems([i \in 1..m |-> 0])
           c == <<x>> \o z
           b == c \o f
<1>1. x \in Item /\ x.byte = 0
  BY DEF Packets!ByteItem, Item
<1>2. z \in Seq(Item) /\ Len(z) = m /\ \A k \in 1..m : z[k] = x
  <2>1. [i \in 1..m |-> 0] \in Seq(Byte) /\ Len([i \in 1..m |-> 0]) = m
    BY SMT DEF Byte
  <2>2. \A k \in 1..m : [i \in 1..m |-> 0][k] = 0
    OBVIOUS
  <2> DEFINE e == [i \in 1..m |-> 0]
  <2> HIDE DEF e
  <2>3. e \in Seq(Byte) /\ Len(e) = m /\ \A k \in 1..m : e[k] = 0
    BY <2>1, <2>2 DEF e
  <2>4. Packets!AsItems(e) \in Seq(Item) /\ Len(Packets!AsItems(e)) = Len(e)
        /\ \A k \in 1..Len(e) : Packets!AsItems(e)[k] = Packets!ByteItem(e[k])
    BY <2>3, ItemsOf
  <2> QED
    BY <2>3, <2>4 DEF e
<1>3. Packets!AsItems(<<0>>) = <<x>>
  BY DEF Packets!AsItems
<1>4. f \in Seq(Item)
  BY DEF Payload
<1> HIDE DEF x, z, c, b
<1>5. c \in Seq(Item) /\ Len(c) = m + 1 /\ c[1] = x
  BY <1>1, <1>2, Prefixed DEF c
<1>6. \A k \in 1..m : c[k + 1] = z[k]
  BY <1>1, <1>2, Prefixed DEF c
<1>7. /\ b \in Seq(Item) /\ Len(b) = Len(c) + Len(f) /\ Len(f) \in Nat
      /\ \A k \in 1..Len(c) : b[k] = c[k]
  <2>1. c \in Seq(Item)
    BY <1>5
  <2> QED
    BY <1>4, <2>1, Joined DEF b
<1>8. b[1].byte = 0 /\ \A k \in 1..m : b[k + 1].byte = 0
  <2>1. 1 \in 1..(m + 1) /\ \A k \in 1..m : k + 1 \in 1..(m + 1)
    OBVIOUS
  <2> QED
    BY <1>1, <1>2, <1>5, <1>6, <1>7, <2>1
<1>9. \A k \in 1..m : Tail(b)[k] = b[k + 1]
  <2>1. Len(b) >= m + 1 /\ b \in Seq(Item) /\ Len(b) \in Nat
    BY <1>5, <1>7
  <2>2. b # <<>>
    BY <2>1
  <2>3. \A k \in 1..(Len(b) - 1) : Tail(b)[k] = b[k + 1]
    BY <2>1, <2>2
  <2> QED
    BY <2>1, <2>3
<1>10. Packets!Drop(b, 1 + m) = f
  <2>1. Packets!Drop(b, Len(c)) = f
    BY <1>4, <1>5, Rest DEF b
  <2>2. Len(c) = 1 + m
    BY <1>5
  <2> QED
    BY <2>1, <2>2
<1>11. Len(b) = 1 + m + Len(f)
  BY <1>5, <1>7
<1>12. b = (Packets!AsItems(<<0>>) \o Packets!AsItems([i \in 1..m |-> 0])) \o f
  BY <1>3 DEF b, c, z
<1> QED
  BY <1>7, <1>8, <1>9, <1>10, <1>11, <1>12, Zenon DEF Payload

\* build_row_packet_binary: a client reads rows of texts.
LEMMA BinaryRowRead ==
    ASSUME NEW n \in Nat, DOMAIN row = 1..n, Len(row) = n, RowTyped
    PROVE  Packets!BinaryTextsRead
<1>0. SUFFICES ASSUME \A i \in 1..n : row[i].type = "text" /\ row[i].value # Packets!Null,
                      n % 8 \in 1..6
               PROVE  Packets!ReadBinary(Packets!BinaryRow(row)) = Packets!Meant
  BY DEF Packets!BinaryTextsRead
<1> DEFINE p == Parts(n)
           f == Packets!FlattenSeq(p)
           m == Packets!BitmapLength
           a == Packets!AsItems(<<0>>) \o Packets!AsItems([i \in 1..m |-> 0])
           b == a \o f
           R(i, x) == IF Packets!BitSet(Tail(b), i) THEN Packets!Got(Packets!Null, x)
                      ELSE IF row[i].type = "text" THEN Packets!ReadText(x)
                      ELSE Packets!ReadLong(x)
           g == [i \in 0..n |-> Have(p, i)]
<1>1. /\ m \in Nat /\ (Len(row) + 7) \div 8 = m
      /\ \A i \in 1..n : ((i + 1) \div 8) + 1 \in 1..m
  BY <1>0, BitmapArithmetic DEF Packets!BitmapLength
<1>2. Packets!BinaryRow(row) = b
  <2>1. [i \in DOMAIN row |-> IF row[i].value = Packets!Null THEN <<>>
                              ELSE Packets!LenencValue(row[i].value)] = p
    BY <1>0 DEF Parts, TextPart
  <2> HIDE DEF p, m
  <2> QED
    BY <1>1, <2>1, Zenon DEF Packets!BinaryRow
<1> HIDE DEF p, f, m
<1>3. /\ Have(p, 0) = Packets!Got(<<>>, f) /\ Have(p, n) = Packets!Meant /\ Payload(f)
      /\ \A i \in 1..n : /\ Payload(After(p, i))
                          /\ Have(p, i - 1).rest = TextPart(row[i].value) \o After(p, i)
  BY PartsOfRow, Zenon DEF p, f
<1>4. /\ Payload(b) /\ Len(b) = 1 + m + Len(f) /\ Len(f) \in Nat /\ b[1].byte = 0
      /\ \A k \in 1..m : Tail(b)[k].byte = 0
      /\ Packets!Drop(b, 1 + m) = f
  BY <1>1, <1>3, ZerosFirst, Zenon
<1> HIDE DEF b
<1>5. \A i \in 1..n : ~Packets!BitSet(Tail(b), i)
  <2>1. ASSUME NEW i \in 1..n PROVE ~Packets!BitSet(Tail(b), i)
    <3>1. i \in Nat /\ Tail(b)[((i + 1) \div 8) + 1].byte = 0
      BY <1>1, <1>4
    <3> QED
      BY <3>1, NoBit
  <2> QED
    BY <2>1
<1>6. ASSUME NEW i \in 1..n
      PROVE  Taken(Have(p, i - 1), R(i, Have(p, i - 1).rest)) = Have(p, i)
  <2>1. IsValue(row[i].value) /\ Payload(After(p, i)) /\ row[i].value # Packets!Null
    BY <1>0, <1>3 DEF RowTyped
  <2>2. Packets!ReadText(TextPart(row[i].value) \o After(p, i)) =
          Packets!Got(row[i].value, After(p, i))
    BY <2>1, ValueRead
  <2>3. R(i, Have(p, i - 1).rest) = Packets!ReadText(Have(p, i - 1).rest)
    BY <1>0, <1>5
  <2> HIDE DEF R
  <2> QED
    BY <1>3, <2>2, <2>3, TakenEach
<1>7. g = [i \in 0..n |-> IF i = 0 THEN Packets!Got(<<>>, f)
                          ELSE Taken(g[i - 1], R(i, g[i - 1].rest))]
  <2>1. \A i \in 1..n : i - 1 \in 0..n
    OBVIOUS
  <2> HIDE DEF R
  <2>2. \A i \in 0..n : i = 0 \/ i \in 1..n
    OBVIOUS
  <2> QED
    BY <1>3, <1>6, <2>1, <2>2, Zenon
<1> HIDE DEF g
<1>8. PICK h : /\ h = [i \in 0..Len(row) |->
                        IF i = 0 THEN Packets!Got(<<>>, f)
                        ELSE Taken(h[i - 1], R(i, h[i - 1].rest))]
               /\ Packets!ReadBinary(b) = h[Len(row)]
  <2>1. /\ ~(Len(b) <= Packets!BitmapLength \/ b[1].byte # 0)
        /\ Packets!Drop(b, 1 + Packets!BitmapLength) = f
    BY <1>1, <1>4 DEF m
  <2>2. g = [i \in 0..Len(row) |->
               IF i = 0 THEN Packets!Got(<<>>, f) ELSE Taken(g[i - 1], R(i, g[i - 1].rest))]
    BY <1>7
  <2> QED
    BY <2>1, <2>2, ZenonT(90) DEF Packets!ReadBinary, Packets!Values, Taken
<1>9. Alike(h, g, n)
  <2> HIDE DEF R
  <2>1. /\ \A i \in 0..n : h[i] = IF i = 0 THEN Packets!Got(<<>>, f)
                                  ELSE Taken(h[i - 1], R(i, h[i - 1].rest))
        /\ \A i \in 0..n : g[i] = IF i = 0 THEN Packets!Got(<<>>, f)
                                  ELSE Taken(g[i - 1], R(i, g[i - 1].rest))
    BY <1>7, <1>8
  <2>2. 0 \in 0..n /\ \A i \in 1..n : i \in 0..n /\ i # 0
    OBVIOUS
  <2> QED
    BY <2>1, <2>2, Zenon DEF Alike
<1>10. h[n] = g[n] /\ g[n] = Have(p, n)
  <2>1. h[n] = g[n]
    BY <1>9, SameEnd
  <2> QED
    BY <2>1 DEF g
<1> QED
  BY <1>2, <1>3, <1>8, <1>10, Zenon

\* f has the sizes of the first items of s, up to n of them.
Sums(f, s, n) == f[0] = 0 /\ \A i \in 1..n : f[i] = f[i - 1] + s[i].size

\* The sizes of the first items of a payload add up to numbers,
LEMMA SumExists ==
    ASSUME NEW s \in Seq(Item)
    PROVE  \E f \in [0..Len(s) -> Nat] : Sums(f, s, Len(s))
<1> DEFINE Upto(n) == \E f \in [0..n -> Nat] : Sums(f, s, n)
           T == {n \in 0..Len(s) : ~Upto(n)}
<1>1. Len(s) \in Nat /\ \A i \in 1..Len(s) : s[i].size \in Nat
  <2>1. \A i \in 1..Len(s) : s[i] \in Item
    OBVIOUS
  <2>2. \A x \in Item : x.size \in Nat
    BY DEF Item
  <2> QED
    BY <2>1, <2>2
<1>2. Upto(0)
  <2> DEFINE f == [i \in 0..0 |-> 0]
  <2>1. f \in [0..0 -> Nat] /\ f[0] = 0
    OBVIOUS
  <2> HIDE DEF f
  <2> QED
    BY <2>1 DEF Sums
<1>3. ASSUME NEW n \in Nat, n + 1 <= Len(s), Upto(n)
      PROVE  Upto(n + 1)
  <2>1. PICK f \in [0..n -> Nat] : Sums(f, s, n)
    BY <1>3
  <2> DEFINE last == f[n] + s[n + 1].size
             g == [i \in 0..(n + 1) |-> IF i = n + 1 THEN last ELSE f[i]]
  <2>2. last \in Nat
    <3>1. f[n] \in Nat /\ s[n + 1].size \in Nat
      BY <1>1, <1>3
    <3> QED
      BY <3>1
  <2>3. g \in [0..(n + 1) -> Nat]
    <3> HIDE DEF last
    <3>1. \A i \in 0..(n + 1) : i # n + 1 => i \in 0..n
      OBVIOUS
    <3> QED
      BY <2>2, <3>1
  <2>4. g[0] = 0
    <3>1. 0 \in 0..(n + 1) /\ 0 # n + 1
      OBVIOUS
    <3> QED
      BY <2>1, <3>1 DEF Sums
  <2>5. ASSUME NEW i \in 1..(n + 1) PROVE g[i] = g[i - 1] + s[i].size
    <3>1. CASE i = n + 1
      <4>1. n \in 0..(n + 1) /\ n # n + 1 /\ i - 1 = n
        BY <3>1
      <4> QED
        BY <3>1, <4>1
    <3>2. CASE i # n + 1
      <4>1. i \in 1..n /\ i \in 0..(n + 1) /\ i - 1 \in 0..(n + 1) /\ i - 1 # n + 1
        BY <3>2
      <4>2. f[i] = f[i - 1] + s[i].size
        BY <2>1, <4>1 DEF Sums
      <4> QED
        BY <3>2, <4>1, <4>2
    <3> QED
      BY <3>1, <3>2
  <2> HIDE DEF g
  <2> QED
    BY <2>3, <2>4, <2>5 DEF Sums
<1> HIDE DEF Upto
<1>4. T = {}
  <2> SUFFICES ASSUME T # {} PROVE FALSE
    OBVIOUS
  <2>0. T \in SUBSET Nat
    BY <1>1
  <2> HIDE DEF T
  <2>1. PICK n \in T : \A m \in T : n <= m
    BY <2>0, LeastPosition
  <2> USE DEF T
  <2>2. n \in Nat /\ n # 0 /\ n <= Len(s) /\ ~Upto(n)
    BY <1>1, <1>2
  <2>3. n - 1 \in Nat /\ n - 1 \in 0..Len(s) /\ ~(n <= n - 1)
    BY <1>1, <2>2
  <2>4. Upto(n - 1)
    BY <2>1, <2>3
  <2>5. n - 1 + 1 = n
    BY <2>2
  <2> QED
    BY <1>3, <2>2, <2>3, <2>4, <2>5
<1>5. Upto(Len(s))
  BY <1>1, <1>4
<1> QED
  BY <1>5 DEF Upto

\* so that its size is a number.
LEMMA SizeType ==
    ASSUME NEW s \in Seq(Item)
    PROVE  Packets!Size(s) \in Nat
<1> DEFINE n == Len(s)
<1>1. PICK f \in [0..n -> Nat] : Sums(f, s, n)
  BY SumExists
<1>2. n \in Nat
  OBVIOUS
<1> HIDE DEF n
<1>3. f = [i \in 0..n |-> IF i = 0 THEN 0 ELSE f[i - 1] + s[i].size]
  <2>1. \A i \in 0..n : f[i] = IF i = 0 THEN 0 ELSE f[i - 1] + s[i].size
    BY <1>1, <1>2 DEF Sums
  <2> QED
    BY <2>1
<1>4. PICK h : /\ h = [i \in 0..Len(s) |-> IF i = 0 THEN 0 ELSE h[i - 1] + s[i].size]
               /\ Packets!Size(s) = h[Len(s)]
  BY <1>3, Zenon DEF Packets!Size, n
<1>5. Alike(h, f, n)
  <2>1. \A i \in 0..n : h[i] = IF i = 0 THEN 0 ELSE h[i - 1] + s[i].size
    BY <1>4 DEF n
  <2>2. \A i \in 0..n : f[i] = IF i = 0 THEN 0 ELSE f[i - 1] + s[i].size
    BY <1>3
  <2>3. 0 \in 0..n /\ \A i \in 1..n : i \in 0..n /\ i # 0
    BY <1>2
  <2> QED
    BY <2>1, <2>2, <2>3, Zenon DEF Alike
<1>6. h[n] = f[n] /\ f[n] \in Nat
  BY <1>2, <1>5, SameEnd
<1> QED
  BY <1>4, <1>6 DEF n

\* build_packet: its header says how long the payload is.
LEMMA HeaderRead ==
    ASSUME NEW n \in Nat, DOMAIN row = 1..n, Len(row) = n, RowTyped
    PROVE  Packets!HeaderReads
<1> DEFINE payload == Packets!TextRow(row)
           size == Packets!Size(payload)
           l == Packets!LittleEndian(size, 3)
           e == l \o <<1>>
           header == Packets!AsItems(Packets!Header(payload, 1))
           s == SubSeq(header, 1, 3)
<1>1. size \in Nat
  <2>1. payload = Packets!FlattenSeq(Parts(n))
    BY DEF Packets!TextRow, Parts, TextPart
  <2>2. payload \in Seq(Item)
    BY <2>1, PartsOfRow DEF Payload
  <2> HIDE DEF payload
  <2> QED
    BY <2>2, SizeType
<1>2. header = Packets!AsItems(e)
  BY Zenon DEF Packets!Header
<1> HIDE DEF payload, size, header
<1>3. /\ l \in Seq(Byte) /\ Len(l) = 3
      /\ l[1] = OneOf(size, 1) /\ l[2] = OneOf(size, 256) /\ l[3] = OneOf(size, Packets!TwoBytes)
  <2>1. PICK k \in Nat : k = 3
    OBVIOUS
  <2> DEFINE d == Packets!LittleEndian(size, k)
  <2>2. d \in Seq(Byte)
    BY <1>1, Digits
  <2>3. Len(d) = k
    BY <1>1, Digits
  <2> HIDE DEF d
  <2>4. 1 <= k => d[1] = OneOf(size, 1)
    BY <1>1, Digits DEF d
  <2>5. 2 <= k => d[2] = OneOf(size, 256)
    BY <1>1, Digits DEF d
  <2>6. 3 <= k => d[3] = OneOf(size, Packets!TwoBytes)
    BY <1>1, Digits DEF d
  <2>7. l = d
    BY <2>1 DEF d
  <2> HIDE DEF l
  <2> QED
    BY <2>1, <2>2, <2>3, <2>4, <2>5, <2>6, <2>7
<1> HIDE DEF l, e
<1>4. e \in Seq(Byte) /\ Len(e) = 4 /\ \A i \in 1..3 : e[i] = l[i]
  <2> DEFINE z == <<1>>
  <2>1. z \in Seq(Byte) /\ Len(z) = 1
    <3>1. 1 \in Byte
      BY SMT DEF Byte
    <3> QED
      BY <3>1, One
  <2> HIDE DEF z
  <2>2. /\ l \o z \in Seq(Byte) /\ Len(l \o z) = Len(l) + Len(z)
        /\ \A i \in 1..Len(l) : (l \o z)[i] = l[i]
    <3>1. l \in Seq(Byte) /\ z \in Seq(Byte)
      BY <1>3, <2>1
    <3> QED
      BY <3>1, Joined
  <2> QED
    BY <1>3, <2>1, <2>2 DEF e, z
<1>5. header \in Seq(Item) /\ Len(header) = 4 /\ \A i \in 1..4 : header[i].byte = e[i]
  BY <1>2, <1>4, ItemsOf
<1>6. Len(s) = 3 /\ \A i \in 1..3 : s[i] = header[i]
  <2>1. header \in Seq(Item) /\ Len(header) = 4
    BY <1>5
  <2> QED
    BY <2>1
<1> HIDE DEF s
<1>7. /\ Packets!ByteAt(s, 1) = OneOf(size, 1) /\ Packets!ByteAt(s, 2) = OneOf(size, 256)
      /\ Packets!ByteAt(s, 3) = OneOf(size, Packets!TwoBytes) /\ Packets!ByteAt(s, 4) = 0
  BY <1>3, <1>4, <1>5, <1>6 DEF Packets!ByteAt
<1>8. Packets!NumberOf(s) =
        OneOf(size, 1) + 256 * OneOf(size, 256)
          + Packets!TwoBytes * OneOf(size, Packets!TwoBytes) + Packets!ThreeBytes * 0
  BY <1>7 DEF Packets!NumberOf
<1>9. ASSUME size < Packets!ThreeBytes PROVE Packets!NumberOf(s) = size
  <2>1. OneOf(size, 1) + 256 * OneOf(size, 256)
          + Packets!TwoBytes * OneOf(size, Packets!TwoBytes) = size
    BY <1>1, <1>9, ThreeDigits, SMT
  <2> QED
    BY <1>1, <1>8, <2>1, SMT DEF Packets!ThreeBytes
<1>10. Packets!HeaderReads <=>
         (size < Packets!ThreeBytes => Len(header) = 4 /\ Packets!NumberOf(s) = size)
  BY Zenon DEF Packets!HeaderReads, payload, size, header, s
<1> QED
  BY <1>5, <1>9, <1>10, Zenon

\* What a row of the backend has in its columns.
RowColumn ==
    [type : {"text"}, value : {Packets!Null} \cup {Packets!TextOf(size) : size \in 0..Greatest}]
      \cup [type : {"long"}, value : {Packets!Digit(7)}]

\* The rows and the numbers that are sent.
PacketsBuilt ==
    /\ row \in Seq(RowColumn) /\ Len(row) <= Greatest
    /\ number \in Nat /\ number <= Greatest

\* The greatest number, without the literal.
LEMMA GreatestIsNumber == Greatest \in Nat /\ Greatest >= 7
<1>1. 2147483647 >= 7
  BY SMT
<1> QED
  BY <1>1, SMT DEF Greatest

LEMMA UpToGreatest ==
    ASSUME NEW v \in 0..Greatest
    PROVE  v \in Nat /\ v <= Greatest
BY GreatestIsNumber

\* Every column has a value that a client can read.
LEMMA ColumnIsValue ==
    ASSUME NEW column \in RowColumn
    PROVE  IsValue(column.value)
<1>1. \/ column.value \in {Packets!Null, Packets!Digit(7)}
      \/ column.value \in {Packets!TextOf(size) : size \in 0..Greatest}
  BY Zenon DEF RowColumn
<1>2. ASSUME NEW size \in 0..Greatest, column.value = Packets!TextOf(size)
      PROVE  IsValue(column.value)
  <2>1. size \in Nat /\ size <= Greatest
    BY UpToGreatest
  <2> QED
    BY <1>2, <2>1, Zenon DEF IsValue
<1> QED
  BY <1>1, <1>2, Zenon DEF IsValue

\* Rows and wide rows have the same columns.
LEMMA ColumnsOfRows ==
    /\ Packets!Columns \subseteq RowColumn
    /\ WidePackets!Columns \subseteq RowColumn
<1>1. Sizes \subseteq 0..Greatest
  BY PacketAssumption, Zenon
<1>2. Packets!Columns \subseteq RowColumn
  BY <1>1, SMT DEF Packets!Columns, RowColumn
<1>3. WidePackets!Columns = Packets!Columns
  BY Zenon DEF Packets!Columns, WidePackets!Columns, Packets!Null, WidePackets!Null,
     Packets!TextOf, WidePackets!TextOf, Packets!Digit, WidePackets!Digit
<1> QED
  BY <1>2, <1>3, Zenon

\* One column more.
LEMMA LongerRow ==
    ASSUME PacketsBuilt, NEW most \in 0..Greatest, Len(row) < most,
           NEW column \in RowColumn, row' = Append(row, column), UNCHANGED number
    PROVE  PacketsBuilt'
<1>1. row \in Seq(RowColumn) /\ Len(row) \in Nat
  BY DEF PacketsBuilt
<1>2. row' \in Seq(RowColumn) /\ Len(row') = Len(row) + 1
  BY <1>1, AppendProperties
<1>3. Len(row') <= Greatest
  <2>1. most \in Nat /\ most <= Greatest /\ Greatest \in Nat
    BY GreatestIsNumber, UpToGreatest
  <2> QED
    BY <1>1, <1>2, <2>1, SMT
<1> QED
  BY <1>2, <1>3 DEF PacketsBuilt

\* A client of the database proxy reads what the proxy was given: from
\* build_row_packet every row, with a NULL told from an empty text and no byte
\* left, from build_row_packet_binary the rows of texts, from build_ok_packet
\* its two numbers, and from build_packet the length of a payload.
THEOREM PacketsAreRead == DataSpec => []PacketsReadAsMeant
<1>1. DataInit => PacketsBuilt
  <2> SUFFICES ASSUME DataInit PROVE PacketsBuilt
    OBVIOUS
  <2>1. 0 \in Nat /\ 0 <= Greatest /\ 7 <= Greatest /\ 1 \in 0..Greatest
    BY GreatestIsNumber
  <2>2. <<>> \in Seq(RowColumn) /\ Len(<<>>) = 0
    OBVIOUS
  <2>3. CASE subject = "rows"
    <3>1. row = <<>> /\ number \in Counts
      BY <2>3, Zenon DEF DataInit, Packets!Init
    <3>2. number \in Nat /\ number <= Greatest
      <4>1. number \in 0..Greatest
        BY <3>1, PacketAssumption, Zenon
      <4> QED
        BY <4>1, UpToGreatest
    <3> QED
      BY <2>1, <2>2, <3>1, <3>2, Zenon DEF PacketsBuilt
  <2>4. CASE subject = "wide rows"
    <3>1. row = SevenTexts /\ number = 0
      BY <2>4, Zenon DEF DataInit
    <3>2. [type |-> "text", value |-> Packets!TextOf(1)] \in RowColumn
      BY <2>1 DEF RowColumn
    <3>3. SevenTexts \in Seq(RowColumn) /\ Len(SevenTexts) = 7
      BY <3>2 DEF SevenTexts
    <3> QED
      BY <2>1, <3>1, <3>3, Zenon DEF PacketsBuilt
  <2>5. CASE subject # "rows" /\ subject # "wide rows"
    <3>1. row = <<>> /\ number = 0
      BY <2>5, Zenon DEF DataInit
    <3> QED
      BY <2>1, <2>2, <3>1, Zenon DEF PacketsBuilt
  <2> QED
    BY <2>3, <2>4, <2>5, Zenon
<1>2. PacketsBuilt /\ [DataNext]_dataVars => PacketsBuilt'
  <2> SUFFICES ASSUME PacketsBuilt, [DataNext]_dataVars PROVE PacketsBuilt'
    OBVIOUS
  <2>1. MaxRow \in 0..Greatest /\ MaxWideRow \in 0..Greatest
    BY PacketAssumption, Zenon
  <2>2. CASE Packets!Next
    <3>1. PICK column \in Packets!Columns : row' = Append(row, column)
      BY <2>2, Zenon DEF Packets!Next, Packets!AddColumn
    <3>2. Len(row) < MaxRow /\ UNCHANGED number
      BY <2>2, Zenon DEF Packets!Next, Packets!AddColumn
    <3>3. column \in RowColumn
      BY <3>1, ColumnsOfRows, Zenon
    <3> QED
      BY <2>1, <3>1, <3>2, <3>3, LongerRow, Zenon
  <2>3. CASE WidePackets!Next
    <3>1. PICK column \in WidePackets!Columns : row' = Append(row, column)
      BY <2>3, Zenon DEF WidePackets!Next, WidePackets!AddColumn
    <3>2. Len(row) < MaxWideRow /\ UNCHANGED number
      BY <2>3, Zenon DEF WidePackets!Next, WidePackets!AddColumn
    <3>3. column \in RowColumn
      BY <3>1, ColumnsOfRows, Zenon
    <3> QED
      BY <2>1, <3>1, <3>2, <3>3, LongerRow, Zenon
  <2>4. CASE UNCHANGED packetVars
    <3>1. row' = row /\ number' = number
      BY <2>4, Zenon DEF packetVars
    <3> QED
      BY <3>1, Zenon DEF PacketsBuilt
  <2> QED
    BY <2>2, <2>3, <2>4, Zenon DEF DataNext, dataVars
<1>3. PacketsBuilt => PacketsReadAsMeant
  <2> SUFFICES ASSUME PacketsBuilt PROVE PacketsReadAsMeant
    OBVIOUS
  <2> DEFINE n == Len(row)
  <2>1. row \in Seq(RowColumn) /\ n \in Nat /\ DOMAIN row = 1..n
    BY DEF PacketsBuilt
  <2>2. \A i \in DOMAIN row : row[i] \in RowColumn
    BY <2>1
  <2>3. RowTyped
    BY <2>2, ColumnIsValue, Zenon DEF RowTyped
  <2>4. n <= Greatest /\ number \in Nat /\ number <= Greatest
    BY Zenon DEF PacketsBuilt
  <2> HIDE DEF n
  <2>5. Len(row) = n
    BY Zenon DEF n
  <2>6. Packets!TextRowReads /\ Packets!BinaryTextsRead /\ Packets!HeaderReads
    BY <2>1, <2>3, <2>5, TextRowRead, BinaryRowRead, HeaderRead, Zenon
  <2>7. Packets!OkReads
    BY <2>1, <2>4, <2>5, OkRead, Zenon
  <2> QED
    BY <2>6, <2>7, Zenon DEF PacketsReadAsMeant
<1> QED
  BY <1>1, <1>2, <1>3, PTL DEF DataSpec
=============================================================================
