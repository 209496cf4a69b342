-------------------------------- MODULE Data --------------------------------
(***************************************************************************)
(* The parts of the server that turn one thing into another.  They have no *)
(* state in common: each behaviour is about one of them, its subject, and  *)
(* the others rest.                                                        *)
(***************************************************************************)
EXTENDS ParamDecoder

CONSTANTS
    Slash, Star, Blank, Lower,           \* the symbols of paths and headers
    MaxText, MaxPattern,                 \* and how many there are in a text
    Marker, QuerySymbols,                \* the symbol "?" and all of a query
    MaxQuery, MaxParam, MaxParams,
    Sizes, Counts, MaxRow,               \* the contents of packets
    MaxWideRow,
    Machines, Levels, Threshold, NoLimit, \* the memory of machines
    None, Garbled, Max, MaxInstants,
    Requests, Root, Php, Static, IndexPhp, \* the files below a document root
    FileSizes, Ticks, MaxChanges

\* A file of the kernel is a number or one of the words that are none, and a
\* number that stands for no limit is not one that a file has otherwise.
ASSUME MemoryAssumption ==
    /\ Levels \subseteq Nat /\ NoLimit \in Nat \ Levels /\ Threshold \in Nat
    /\ {None, Garbled, Max} \cap (Levels \cup {NoLimit}) = {}
    /\ Garbled \notin {None, Max}
    /\ Machines \subseteq
         [v2Usage   : Levels \cup {None, Garbled},
          v2Limit   : Levels \cup {None, Garbled, Max},
          v1Usage   : Levels \cup {None},
          v1Limit   : Levels \cup {None, NoLimit},
          total     : Levels \cup {None},
          available : Levels \cup {None}]

\* A clock of files ticks at least once in a second.
ASSUME FileAssumption == FileSizes \subseteq Nat /\ Ticks \in Nat \ {0}

\* The lengths of the texts that are looked at.
ASSUME QueryAssumption == {MaxQuery, MaxParam, MaxParams} \subseteq Nat

\* The lengths and the counts in packets are below 2^31.
Greatest == 2147483647

ASSUME PacketAssumption ==
    /\ Sizes \subseteq 0..Greatest /\ Counts \subseteq 0..Greatest
    /\ {MaxRow, MaxWideRow} \subseteq 0..Greatest

VARIABLES
    subject,
    text, pattern,
    query, arguments, next, result,
    row, number,
    path, step, files, found, body, etag, changes, clock, always,
    memory, seen, stage, usage, limit, source, pressure

routingVars == <<text, pattern>>
queryVars == <<query, arguments, next, result>>
packetVars == <<row, number>>
fileVars == <<path, step, files, found, body, etag, changes, clock, always>>
memoryVars == <<memory, seen, stage, usage, limit, source, pressure>>
dataVars == <<subject, vars, routingVars, queryVars, packetVars, fileVars, memoryVars>>

Routes == INSTANCE Routing
Queries == INSTANCE Substitution WITH Symbols <- QuerySymbols, params <- arguments
Packets == INSTANCE DbPackets WITH count <- number
WidePackets == INSTANCE DbPackets WITH MaxRow <- MaxWideRow, count <- number
Memory == INSTANCE MemoryReading WITH files <- memory, step <- stage
Files == INSTANCE FileServer WITH Index <- IndexPhp

-----------------------------------------------------------------------------
(* The parts that are not the subject do nothing. *)

NoDecoder ==
    /\ input = [packet |-> <<>>, count |-> 0, typed |-> FALSE, meant |-> <<>>, at |-> <<>>]
    /\ phase = "off"
    /\ offset = 0 /\ types = <<>> /\ params = <<>> /\ read = {}

NoFiles ==
    /\ path = <<>> /\ step = "off" /\ files = <<>> /\ found = <<>>
    /\ body = Files!NoFile /\ etag = Files!NoTag
    /\ changes = 0 /\ clock = 0 /\ always = {}

NoMemory ==
    /\ memory = <<>> /\ seen = {} /\ stage = "off"
    /\ usage = 0 /\ limit = 0 /\ source = "unavailable" /\ pressure = FALSE

\* Two columns more, and the bitmap of the row has a second byte.
SevenTexts == [i \in 1..7 |-> [type |-> "text", value |-> Packets!TextOf(1)]]

DataInit ==
    /\ subject \in {"parameters", "patterns", "query", "rows", "wide rows", "files", "memory"}
    /\ IF subject = "parameters" THEN Init ELSE NoDecoder
    /\ Routes!Init
    /\ IF subject = "query" THEN Queries!Init
         ELSE query = <<>> /\ arguments = <<>> /\ next = 1 /\ result = <<>>
    /\ CASE subject = "rows" -> Packets!Init
         [] subject = "wide rows" -> row = SevenTexts /\ number = 0
         [] OTHER -> row = <<>> /\ number = 0
    /\ IF subject = "files" THEN Files!Init ELSE NoFiles
    /\ IF subject = "memory" THEN Memory!Init ELSE NoMemory

DataNext ==
    /\ UNCHANGED subject
    /\ \/ /\ subject = "parameters" /\ Next
          /\ UNCHANGED <<routingVars, queryVars, packetVars, fileVars, memoryVars>>
       \/ /\ subject = "patterns" /\ Routes!Next
          /\ UNCHANGED <<vars, queryVars, packetVars, fileVars, memoryVars>>
       \/ /\ subject = "query" /\ Queries!Next
          /\ UNCHANGED <<vars, routingVars, packetVars, fileVars, memoryVars>>
       \/ /\ subject = "rows" /\ Packets!Next
          /\ UNCHANGED <<vars, routingVars, queryVars, fileVars, memoryVars>>
       \/ /\ subject = "wide rows" /\ WidePackets!Next
          /\ UNCHANGED <<vars, routingVars, queryVars, fileVars, memoryVars>>
       \/ /\ subject = "files" /\ Files!Next
          /\ UNCHANGED <<vars, routingVars, queryVars, packetVars, memoryVars>>
       \/ /\ subject = "memory" /\ Memory!Next
          /\ UNCHANGED <<vars, routingVars, queryVars, packetVars, fileVars>>

DataSpec == DataInit /\ [][DataNext]_dataVars

-----------------------------------------------------------------------------
\* match_pattern and match_header_value of pool_manager.rs decide on paths and
\* headers as globs do.
PatternsAreGlobs == Routes!PatternIsGlob /\ Routes!HeaderIsGlob

\* substitute_parameters puts each parameter in its own place.
SubstitutesInPlace == Queries!SubstitutesInPlace

\* A client reads what the proxy was given: the rows of build_row_packet, the
\* texts of build_row_packet_binary, the numbers of build_ok_packet, the length
\* in the header of build_packet.
PacketsReadAsMeant ==
    /\ Packets!TextRowReads
    /\ Packets!BinaryTextsRead
    /\ Packets!OkReads
    /\ Packets!HeaderReads

\* find_php_file finds a script that is there all the time; serve_static_file
\* sends a file that is there all the time, with an ETag that is not an older one.
FilesAreRight == Files!RightFileIsFound /\ Files!StableFileIsSent

\* The pressure that read_cgroup_v2_memory sees is that of a usage and a limit
\* that there were, at one instant if only one of them changed.
PressureIsReal == Memory!PressureIsReal

-----------------------------------------------------------------------------
(* What comments and pages expect and the code does not do: TLC refutes each. *)

\* test_prepared_statements.php fetches rows that hold numbers.
BinaryRowReads == Packets!BinaryRowReads

\* test_prepared_statements.php: "REAL prepared statements (bukan emulated)".
ValuesAreOpaque == Queries!ValuesAreOpaque

\* anti_oom.rs: max_bytes is "0 if unlimited".
UnlimitedIsZero == Memory!UnlimitedIsZero

\* anti_oom.rs: the usage and the limit of cgroup_mem belong together.
PressureAtOnce == Memory!PressureAtOnce

\* static_file.rs: "Calculate ETag and Last-Modified from file metadata".
TagIsOfBody == Files!TagIsOfBody

\* static_file.rs unwraps the metadata of the file it has read.
MetadataIsThere == Files!MetadataIsThere

\* static_file.rs: "Try adding .php extension".
PhpIsAdded == Files!PhpIsAdded
=============================================================================
