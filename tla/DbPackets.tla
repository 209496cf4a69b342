------------------------------ MODULE DbPackets ------------------------------
(***************************************************************************)
(* The packets that the database proxy builds, and how a client of MySQL's *)
(* protocol reads them.  A row is built column by column.                  *)
(*                                                                         *)
(* A payload is a sequence of items: bytes, and texts of which only the    *)
(* size matters, with what they are the text of.                           *)
(***************************************************************************)
EXTENDS Integers, Sequences, SequencesExt

CONSTANTS
    Sizes,           \* sizes of texts
    Counts,          \* numbers of rows and ids that OK packets report
    MaxRow           \* columns of a row

Byte == 0..255
TwoBytes == 65536
ThreeBytes == 16777216

VARIABLES
    row,             \* its columns so far
    count            \* the number that an OK packet reports

vars == <<row, count>>

ByteItem(b) == [size |-> 1, byte |-> b]
TextItem(size) == [size |-> size, byte |-> -1]
AsItems(bytes) == [i \in DOMAIN bytes |-> ByteItem(bytes[i])]

\* query_iter speaks the text protocol: a value is NULL or a text, that of a
\* number if the column's type is one.
Null == [kind |-> "null", size |-> 0]
TextOf(size) == [kind |-> "text", size |-> size]
Digit(n) == [kind |-> "digit", size |-> n]

Columns ==
    [type : {"text"}, value : {Null} \cup {TextOf(size) : size \in Sizes}]
      \cup [type : {"long"}, value : {Digit(7)}]

Init == row = <<>> /\ count \in Counts

AddColumn ==
    /\ Len(row) < MaxRow
    /\ \E column \in Columns : row' = Append(row, column)
    /\ UNCHANGED count

Next == AddColumn

Spec == Init /\ [][Next]_vars

-----------------------------------------------------------------------------
(* What the proxy builds. *)

Power256 == <<1, 256, TwoBytes, ThreeBytes>>

\* The lowest n bytes of a number below 2^31, the lowest first.
LittleEndian(v, n) ==
    [i \in 1..n |-> IF i <= 4 THEN (v \div Power256[i]) % 256 ELSE 0]

\* Mutant: the bound of a single byte is off by one.
LenencIntOffByOne(v) ==
    CASE v <= 251 -> <<v>>
      [] v > 251 /\ v < TwoBytes -> <<252>> \o LittleEndian(v, 2)
      [] v >= TwoBytes /\ v < ThreeBytes -> <<253>> \o LittleEndian(v, 3)
      [] OTHER -> <<254>> \o LittleEndian(v, 8)

\* lenenc_int
LenencInt(v) ==
    CASE v < 251 -> <<v>>
      [] v >= 251 /\ v < TwoBytes -> <<252>> \o LittleEndian(v, 2)
      [] v >= TwoBytes /\ v < ThreeBytes -> <<253>> \o LittleEndian(v, 3)
      [] OTHER -> <<254>> \o LittleEndian(v, 8)

\* lenenc_str
LenencStr(size) ==
    AsItems(LenencInt(size)) \o (IF size = 0 THEN <<>> ELSE <<TextItem(size)>>)

\* The text of a value.
LenencValue(value) ==
    IF value.kind = "digit" THEN AsItems(<<1, 48 + value.size>>) ELSE LenencStr(value.size)

\* build_row_packet
TextRow(columns) ==
    FlattenSeq([i \in DOMAIN columns |->
                  IF columns[i].value = Null THEN AsItems(<<251>>)
                  ELSE LenencValue(columns[i].value)])

\* build_row_packet_binary: no bit is set for a NULL.
BinaryRow(columns) ==
    AsItems(<<0>>)
      \o AsItems([i \in 1..((Len(columns) + 7) \div 8) |-> 0])
      \o FlattenSeq([i \in DOMAIN columns |->
                       IF columns[i].value = Null THEN <<>>
                       ELSE LenencValue(columns[i].value)])

\* build_ok_packet: rows, the last id, the status and no warnings.
OkPacket(affected, id) == <<0>> \o LenencInt(affected) \o LenencInt(id) \o <<2, 0, 0, 0>>

Size(payload) ==
    LET upTo[i \in 0..Len(payload)] == IF i = 0 THEN 0 ELSE upTo[i - 1] + payload[i].size
    IN  upTo[Len(payload)]

\* build_packet: the length of the payload and the number of the packet.
Header(payload, seq) == LittleEndian(Size(payload), 3) \o <<seq>>

-----------------------------------------------------------------------------
(* How a client reads it.  It is lost when a packet ends too early, or has *)
(* bytes where it reads a text.                                            *)

Lost == [ok |-> FALSE, value |-> <<>>, rest |-> <<>>]
Got(value, rest) == [ok |-> TRUE, value |-> value, rest |-> rest]

\* A number below 2^31 is in the first four of its bytes.
ByteAt(bytes, i) == IF i <= Len(bytes) THEN bytes[i].byte ELSE 0
NumberOf(bytes) ==
    ByteAt(bytes, 1) + 256 * ByteAt(bytes, 2) + TwoBytes * ByteAt(bytes, 3)
      + ThreeBytes * ByteAt(bytes, 4)

\* The number at the start of a payload, and how many bytes it has.
Width(first) == CASE first = 252 -> 3 [] first = 253 -> 4 [] first = 254 -> 9 [] OTHER -> 1
LenencAt(payload) ==
    LET width == Width(payload[1].byte) IN
    [width |-> width,
     number |-> IF width = 1 THEN payload[1].byte ELSE NumberOf(SubSeq(payload, 2, width))]

Drop(payload, n) == SubSeq(payload, n + 1, Len(payload))

\* A text: its length, then that many bytes.
ReadText(payload) ==
    IF payload = <<>> THEN Lost
    ELSE LET length == LenencAt(payload).number
             rest   == Drop(payload, LenencAt(payload).width)
         IN  IF length = 0 THEN Got(TextOf(0), rest)
             ELSE IF rest = <<>> THEN Lost
             ELSE IF rest[1].byte = -1 /\ rest[1].size = length THEN Got(TextOf(length), Tail(rest))
             ELSE IF length = 1 THEN Got(Digit(rest[1].byte - 48), Tail(rest))
             ELSE Lost

ReadTextValue(payload) ==
    IF payload # <<>> /\ payload[1].byte = 251 THEN Got(Null, Tail(payload)) ELSE ReadText(payload)

\* A number of four bytes.
ReadLong(payload) ==
    IF Len(payload) < 4 \/ \E i \in 1..4 : payload[i].byte = -1 THEN Lost
    ELSE Got(Digit(NumberOf(SubSeq(payload, 1, 4))), Drop(payload, 4))

\* Every value in turn, with Read(i, payload) for the one of column i.
Values(Read(_, _), start) ==
    LET after[i \in 0..Len(row)] ==
          IF i = 0 THEN Got(<<>>, start)
          ELSE LET before == after[i - 1]
                   next   == Read(i, before.rest)
               IN  IF before.ok /\ next.ok
                     THEN Got(Append(before.value, next.value), next.rest) ELSE Lost
    IN after[Len(row)]

Meant == Got([i \in DOMAIN row |-> row[i].value], <<>>)

\* In a binary row a bitmap says which values are NULL; it begins with two
\* bits that are not used.
BitmapLength == (Len(row) + 9) \div 8
PowerOf2 == <<1, 2, 4, 8, 16, 32, 64, 128>>
BitSet(payload, i) ==
    (payload[((i + 1) \div 8) + 1].byte \div PowerOf2[((i + 1) % 8) + 1]) % 2 = 1

ReadBinary(payload) ==
    IF Len(payload) <= BitmapLength \/ payload[1].byte # 0 THEN Lost
    ELSE Values(LAMBDA i, rest : IF BitSet(Tail(payload), i) THEN Got(Null, rest)
                                 ELSE IF row[i].type = "text" THEN ReadText(rest)
                                 ELSE ReadLong(rest),
                Drop(payload, 1 + BitmapLength))

-----------------------------------------------------------------------------
\* build_row_packet: whatever the sizes of its texts, a client reads the row
\* that the backend sent, tells NULL from an empty text, and has no byte left.
TextRowReads == Values(LAMBDA i, rest : ReadTextValue(rest), TextRow(row)) = Meant

\* build_packet: its header says how long the payload is, which is all that
\* keeps the next packet in place; a packet of 16 MiB would have to be split.
HeaderReads ==
    LET payload == TextRow(row)
        header  == AsItems(Header(payload, 1))
    IN  Size(payload) < ThreeBytes =>
          Len(header) = 4 /\ NumberOf(SubSeq(header, 1, 3)) = Size(payload)

\* build_ok_packet: the rows that a statement changed and the last id, as
\* PDO's exec and lastInsertId return them.
OkReads ==
    LET payload == AsItems(OkPacket(count, Len(row)))
        first   == LenencAt(Tail(payload))
        second  == LenencAt(Drop(payload, 1 + first.width))
    IN  /\ first.number = count /\ second.number = Len(row)
        /\ Len(payload) = 1 + first.width + second.width + 4

\* build_row_packet_binary: rows of texts without a NULL are read as they are,
\* where its bitmap is as long as the protocol's.
BinaryTextsRead ==
    /\ row # <<>>
    /\ \A i \in DOMAIN row : row[i].type = "text" /\ row[i].value # Null
    /\ Len(row) % 8 \in 1..6
    => ReadBinary(BinaryRow(row)) = Meant

\* test_prepared_statements.php fetches the row of "SELECT * FROM users WHERE id
\* = ?", in which a number and a NULL are as good as a text.
BinaryRowReads == row # <<>> => ReadBinary(BinaryRow(row)) = Meant
=============================================================================
