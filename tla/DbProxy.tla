------------------------------- MODULE DbProxy -------------------------------
(***************************************************************************)
(* The database proxy: one task per client speaks MySQL's protocol with    *)
(* it, keeps its table of prepared statements, and borrows a connection of *)
(* the backend's pool for every query.                                     *)
(*                                                                         *)
(* An action ends where the task awaits: a packet is written when there is *)
(* room for it, a command is read when it is there, a connection is lent   *)
(* when one is free.  The clients, the pool of mysql_async and the backend *)
(* are modelled from how the proxy uses them.                              *)
(***************************************************************************)
EXTENDS Integers, Sequences, FiniteSets

CONSTANTS
    Clients,         \* one TCP connection each
    Conns,           \* max_connections of the backend's pool
    Texts,           \* statements that clients prepare
    Markers,         \* the number of "?" in each
    MaxColumns,      \* columns of a result
    Buffer,          \* packets that fit between the proxy and a client
    SeqMod,          \* packet numbers are below it: 256 for u8
    MaxCommands,     \* how many commands each client sends
    Lenient,         \* the clients that read an EOF after every reply to a
                     \* prepare; MySQL's own read one if there are columns
    Free, Resetting, \* a connection that is idle, or being reset by the pool
    NoText,          \* of an id or a command that has none
    Readers          \* the clients that never stop reading

ASSUME ProxyAssumption ==
    /\ Markers \in [Texts -> Nat]
    /\ MaxColumns \in Nat /\ MaxCommands \in [Clients -> Nat]
    /\ Buffer \in Nat \ {0} /\ SeqMod \in Nat \ {0}
    /\ Lenient \subseteq Clients
    /\ Free # Resetting /\ {Free, Resetting} \cap Clients = {}
    /\ NoText \notin Texts
    /\ Readers \subseteq Clients

VARIABLES
    stage,           \* of the client's task
    todo,            \* the packets that it writes next
    seq,             \* current_seq
    table,           \* ConnectionState: statements by id,
    nextId,          \* and next_stmt_id
    owner,           \* who has each connection of the pool
    inbox,           \* packets on their way to the client
    outbox,          \* commands on their way to the proxy
    want,            \* what the client reads next
    asked,           \* its last command that is answered
    book,            \* the statements that it may execute
    sent             \* how many commands it has sent

taskVars == <<stage, todo, seq, table, nextId, owner>>
clientVars == <<want, asked, book, sent>>
vars == <<taskVars, inbox, outbox, clientVars>>

\* A client has at most as many statements as it has sent commands.
Ids == UNION {1..MaxCommands[c] : c \in Clients}
NoTable == [id \in Ids |-> NoText]
Has(statements, id) == id \in Ids /\ statements[id] # NoText

Plus1(n) == (n + 1) % SeqMod

\* A packet: how many columns or parameters it announces, the statement that
\* it is about, and its number.
Packet(kind, n, id) == [kind |-> kind, n |-> n, id |-> id, seq |-> 0]
Plain(kind) == Packet(kind, 0, 0)
Repeat(kind, n) == [i \in 1..n |-> Plain(kind)]

Command(op, text, id) == [op |-> op, text |-> text, id |-> id, seq |-> 0]
Bare(op) == Command(op, NoText, 0)

\* What a client reads next, of which there are n, and the next number.
Want(state, n, number) == [state |-> state, n |-> n, seq |-> number]

Gone(c) == want[c].state = "closed"

\* What the task does once its packets are written.
After == [greeting |-> "auth", welcome |-> "loop", columns |-> "rows", reply |-> "loop"]
Writing == DOMAIN After

Init ==
    /\ stage = [c \in Clients |-> "off"]
    /\ todo = [c \in Clients |-> <<>>]
    /\ seq = [c \in Clients |-> 0]
    /\ table = [c \in Clients |-> NoTable]
    /\ nextId = [c \in Clients |-> 1]
    /\ owner = [k \in Conns |-> Free]
    /\ inbox = [c \in Clients |-> <<>>]
    /\ outbox = [c \in Clients |-> <<>>]
    /\ want = [c \in Clients |-> Want("greeting", 0, 0)]
    /\ asked = [c \in Clients |-> Bare("none")]
    /\ book = [c \in Clients |-> NoTable]
    /\ sent = [c \in Clients |-> 0]

-----------------------------------------------------------------------------
\* A dropped connection goes back to the pool, which resets it first.
Returned(c) == [k \in Conns |-> IF owner[k] = c THEN Resetting ELSE owner[k]]

Goto(c, next) == stage' = [stage EXCEPT ![c] = next]

\* The task starts to write packets.
Send(c, next, packets, number) ==
    /\ Goto(c, next)
    /\ todo' = [todo EXCEPT ![c] = packets]
    /\ seq' = [seq EXCEPT ![c] = number]

Reply(c, packets, number) == Send(c, "reply", packets, number)

\* A client is accepted, and greeted.
Accept(c) ==
    /\ stage[c] = "off"
    /\ Send(c, "greeting", <<Plain("handshake")>>, 0)
    /\ UNCHANGED <<table, nextId, owner, inbox, outbox, clientVars>>

\* Mutant: the number of a packet is not counted up.
WriteUncounted(c) ==
    /\ stage[c] \in Writing
    /\ IF Gone(c) THEN UNCHANGED inbox
       ELSE /\ Len(inbox[c]) < Buffer
            /\ inbox' = [inbox EXCEPT ![c] = Append(@, [Head(todo[c]) EXCEPT !.seq = seq[c]])]
    /\ todo' = [todo EXCEPT ![c] = Tail(@)]
    /\ IF Len(todo[c]) = 1
         THEN /\ Goto(c, After[stage[c]])
              /\ owner' = IF stage[c] = "reply" THEN Returned(c) ELSE owner
         ELSE UNCHANGED <<stage, owner>>
    /\ UNCHANGED <<seq, table, nextId, outbox, clientVars>>

\* A packet is written; with the last one of a reply the connection that it
\* came from is dropped.
Write(c) ==
    /\ stage[c] \in Writing
    /\ IF Gone(c) THEN UNCHANGED inbox
       ELSE /\ Len(inbox[c]) < Buffer
            /\ inbox' = [inbox EXCEPT ![c] = Append(@, [Head(todo[c]) EXCEPT !.seq = seq[c]])]
    /\ todo' = [todo EXCEPT ![c] = Tail(@)]
    /\ seq' = [seq EXCEPT ![c] = Plus1(@)]
    /\ IF Len(todo[c]) = 1
         THEN /\ Goto(c, After[stage[c]])
              /\ owner' = IF stage[c] = "reply" THEN Returned(c) ELSE owner
         ELSE UNCHANGED <<stage, owner>>
    /\ UNCHANGED <<table, nextId, outbox, clientVars>>

\* Mutant: a task that fails keeps its connection.
EndHolding(c) ==
    /\ Goto(c, "ended")
    /\ todo' = [todo EXCEPT ![c] = <<>>]
    /\ UNCHANGED <<owner, seq, table, nextId, inbox, clientVars>>

\* The task ends with everything it has.
End(c) ==
    /\ Goto(c, "ended")
    /\ todo' = [todo EXCEPT ![c] = <<>>]
    /\ owner' = Returned(c)
    /\ UNCHANGED <<seq, table, nextId, inbox, clientVars>>

\* The client has closed its socket: a read or a write fails.
Broken(c) ==
    /\ Gone(c)
    /\ stage[c] \in Writing \cup {"auth", "loop"}
    /\ End(c)
    /\ UNCHANGED outbox

-----------------------------------------------------------------------------
\* The command that is read, and its number.
Reads(c, op) ==
    /\ stage[c] = "loop"
    /\ outbox[c] # <<>>
    /\ Head(outbox[c]).op = op
    /\ outbox' = [outbox EXCEPT ![c] = Tail(@)]

Numbered(c) == Head(outbox[c]).seq

\* Whatever the client sends as its authentication is accepted.
Authenticate(c) ==
    /\ stage[c] = "auth"
    /\ outbox[c] # <<>>
    /\ outbox' = [outbox EXCEPT ![c] = Tail(@)]
    /\ Send(c, "welcome", <<Plain("ok")>>, 2 % SeqMod)
    /\ UNCHANGED <<table, nextId, owner, inbox, clientVars>>

\* COM_PING, COM_INIT_DB and COM_STMT_RESET.
Acknowledge(c) ==
    /\ Reads(c, "ping")
    /\ Reply(c, <<Plain("ok")>>, Plus1(Numbered(c)))
    /\ UNCHANGED <<table, nextId, owner, inbox, clientVars>>

\* COM_QUERY.
Query(c) ==
    /\ Reads(c, "query")
    /\ Goto(c, "acquire")
    /\ seq' = [seq EXCEPT ![c] = Numbered(c)]
    /\ UNCHANGED <<todo, table, nextId, owner, inbox, clientVars>>

\* The packets of a reply to a prepare: its parameters, if any, end in an EOF,
\* and so do its columns, of which there are none.
PreparedPackets(id, n) ==
    <<Packet("prepared", n, id)>>
      \o (IF n > 0 THEN Append(Repeat("parameter", n), Plain("eof")) ELSE <<>>)
      \o <<Plain("eof")>>

\* Mutant: ids are counted by the size of the table.
PrepareCounting(c) ==
    LET text == Head(outbox[c]).text
        id == Cardinality({i \in Ids : Has(table[c], i)}) + 1
    IN
    /\ Reads(c, "prepare")
    /\ table' = [table EXCEPT ![c][id] = text]
    /\ nextId' = [nextId EXCEPT ![c] = @ + 1]
    /\ Reply(c, PreparedPackets(id, Markers[text]), Plus1(Numbered(c)))
    /\ UNCHANGED <<owner, inbox, clientVars>>

\* COM_STMT_PREPARE.
Prepare(c) ==
    LET text == Head(outbox[c]).text IN
    /\ Reads(c, "prepare")
    /\ table' = [table EXCEPT ![c][nextId[c]] = text]
    /\ nextId' = [nextId EXCEPT ![c] = @ + 1]
    /\ Reply(c, PreparedPackets(nextId[c], Markers[text]), Plus1(Numbered(c)))
    /\ UNCHANGED <<owner, inbox, clientVars>>

\* Mutant: a statement that is not found has no reply.
ExecuteUnanswered(c) ==
    /\ Reads(c, "execute")
    /\ IF Has(table[c], Head(outbox[c]).id) THEN Goto(c, "acquire") ELSE UNCHANGED stage
    /\ seq' = [seq EXCEPT ![c] = Numbered(c)]
    /\ UNCHANGED <<todo, table, nextId, owner, inbox, clientVars>>

\* COM_STMT_EXECUTE: the statement is looked up; its parameters are put into
\* the query, which is then run like any other.
Execute(c) ==
    /\ Reads(c, "execute")
    /\ IF Has(table[c], Head(outbox[c]).id)
         THEN /\ Goto(c, "acquire")
              /\ seq' = [seq EXCEPT ![c] = Numbered(c)]
              /\ UNCHANGED todo
         ELSE Reply(c, <<Plain("error")>>, Plus1(Numbered(c)))
    /\ UNCHANGED <<table, nextId, owner, inbox, clientVars>>

\* COM_STMT_CLOSE, which has no reply.
CloseStatement(c) ==
    /\ Reads(c, "close")
    /\ table' = [table EXCEPT ![c][Head(outbox[c]).id] = NoText]
    /\ UNCHANGED <<stage, todo, seq, nextId, owner, inbox, clientVars>>

\* COM_QUIT.
Quit(c) ==
    /\ Reads(c, "quit")
    /\ End(c)

\* An empty command or an unknown one has no reply.
Ignore(c) ==
    /\ Reads(c, "other")
    /\ UNCHANGED <<stage, todo, seq, table, nextId, owner, inbox, clientVars>>

-----------------------------------------------------------------------------
\* get_conn waits until a connection is free, and may fail to open it.
Acquire(c) ==
    /\ stage[c] = "acquire"
    /\ \E k \in Conns :
         /\ owner[k] = Free
         /\ owner' = [owner EXCEPT ![k] = c]
    /\ Goto(c, "query")
    /\ UNCHANGED <<todo, seq, table, nextId, inbox, outbox, clientVars>>

AcquireFails(c) ==
    /\ stage[c] = "acquire"
    /\ \E k \in Conns : owner[k] = Free
    /\ Reply(c, <<Plain("error")>>, Plus1(seq[c]))
    /\ UNCHANGED <<table, nextId, owner, inbox, outbox, clientVars>>

\* query_iter: an error, a result without columns, or one with columns, whose
\* definitions are written before its rows.
Answer(c) ==
    /\ stage[c] = "query"
    /\ \/ Reply(c, <<Plain("error")>>, Plus1(seq[c]))
       \/ Reply(c, <<Plain("ok")>>, Plus1(seq[c]))
       \/ \E n \in 1..MaxColumns :
            Send(c, "columns",
                 <<Packet("count", n, 0)>> \o Repeat("column", n) \o <<Plain("eof")>>,
                 Plus1(seq[c]))
    /\ UNCHANGED <<table, nextId, owner, inbox, outbox, clientVars>>

\* The next row comes from the backend,
Row(c) ==
    /\ stage[c] = "rows"
    /\ Send(c, "columns", <<Plain("row")>>, seq[c])
    /\ UNCHANGED <<table, nextId, owner, inbox, outbox, clientVars>>

\* or there is none,
RowsEnd(c) ==
    /\ stage[c] = "rows"
    /\ Reply(c, <<Plain("eof")>>, seq[c])
    /\ UNCHANGED <<table, nextId, owner, inbox, outbox, clientVars>>

\* or the backend fails, which ends the task without a word to the client.
RowFails(c) ==
    /\ stage[c] = "rows"
    /\ End(c)
    /\ UNCHANGED outbox

\* The pool has reset a connection.
Recycle(k) ==
    /\ owner[k] = Resetting
    /\ owner' = [owner EXCEPT ![k] = Free]
    /\ UNCHANGED <<stage, todo, seq, table, nextId, inbox, outbox, clientVars>>

-----------------------------------------------------------------------------
\* A client asks when it has read the reply to its last command.
Ask(c, command, next) ==
    /\ want[c].state = "idle"
    /\ sent[c] < MaxCommands[c]
    /\ sent' = [sent EXCEPT ![c] = @ + 1]
    /\ outbox' = [outbox EXCEPT ![c] = Append(@, command)]
    /\ asked' = [asked EXCEPT ![c] = command]
    /\ want' = [want EXCEPT ![c] = Want(next, 0, Plus1(command.seq))]
    /\ UNCHANGED <<taskVars, inbox>>

AskQuery(c) == \E op \in {"query", "ping", "other"} :
    Ask(c, Bare(op), "answer") /\ UNCHANGED book

AskPrepare(c) == \E t \in Texts :
    Ask(c, Command("prepare", t, 0), "prepared") /\ UNCHANGED book

\* It executes a statement that it has, or an id that it never got.
AskExecute(c) == \E id \in {i \in Ids : Has(book[c], i)} \cup {0} :
    Ask(c, Command("execute", NoText, id), "answer") /\ UNCHANGED book

\* It does not wait for what has no reply.
AskClose(c) == \E id \in Ids :
    /\ Has(book[c], id)
    /\ Ask(c, Command("close", NoText, id), "idle")
    /\ book' = [book EXCEPT ![c][id] = NoText]

AskQuit(c) == Ask(c, Bare("quit"), "answer") /\ UNCHANGED book

\* What a client wants after a packet, "lost" if the packet is not what it wants.
Follow(c, w, p) ==
    LET then(state, n) == Want(state, n, Plus1(w.seq))
        idle == Want("idle", 0, 0)
        prepared == IF c \in Lenient THEN then("extra", 0) ELSE idle
    IN
    IF p.seq # w.seq THEN Want("lost", 0, 0) ELSE
    CASE w.state = "greeting" /\ p.kind = "handshake" -> Want("welcome", 0, 2 % SeqMod)
      [] w.state = "welcome" /\ p.kind = "ok" -> idle
      [] w.state = "answer" /\ p.kind \in {"ok", "error"} -> idle
      [] w.state = "answer" /\ p.kind = "count" -> then("columns", p.n)
      [] w.state = "columns" /\ p.kind = "column" /\ w.n > 0 -> then("columns", w.n - 1)
      [] w.state = "columns" /\ p.kind = "eof" /\ w.n = 0 -> then("rows", 0)
      [] w.state = "rows" /\ p.kind = "row" -> then("rows", 0)
      [] w.state = "rows" /\ p.kind = "eof" -> idle
      [] w.state = "prepared" /\ p.kind = "prepared" ->
           IF p.n > 0 THEN then("parameters", p.n) ELSE prepared
      [] w.state = "parameters" /\ p.kind = "parameter" /\ w.n > 0 -> then("parameters", w.n - 1)
      [] w.state = "parameters" /\ p.kind = "eof" /\ w.n = 0 -> prepared
      [] w.state = "extra" /\ p.kind = "eof" -> idle
      [] OTHER -> Want("lost", 0, 0)

Waiting(c) == want[c].state \notin {"idle", "lost", "closed"}

\* It reads a packet; it answers the greeting, and notes the id of a statement.
Read(c) ==
    LET p == Head(inbox[c]) IN
    /\ Waiting(c)
    /\ inbox[c] # <<>>
    /\ inbox' = [inbox EXCEPT ![c] = Tail(@)]
    /\ want' = [want EXCEPT ![c] = Follow(c, @, p)]
    /\ outbox' = IF want[c].state = "greeting"
                   THEN [outbox EXCEPT ![c] = Append(@, Bare("login"))] ELSE outbox
    /\ book' = IF want[c].state = "prepared" /\ p.kind = "prepared"
                 THEN [book EXCEPT ![c][p.id] = asked[c].text] ELSE book
    /\ UNCHANGED <<taskVars, asked, sent>>

Close(c) ==
    /\ want' = [want EXCEPT ![c] = Want("closed", 0, 0)]
    /\ inbox' = [inbox EXCEPT ![c] = <<>>]
    /\ UNCHANGED <<taskVars, outbox, asked, book, sent>>

\* It reads the end of its connection,
Hangup(c) ==
    /\ Waiting(c)
    /\ stage[c] = "ended" /\ inbox[c] = <<>>
    /\ Close(c)

\* or leaves at any time.
Leave(c) ==
    /\ stage[c] # "off" /\ ~Gone(c)
    /\ Close(c)

-----------------------------------------------------------------------------
Task(c) ==
    \/ Accept(c) \/ Write(c) \/ Broken(c) \/ Authenticate(c)
    \/ Acknowledge(c) \/ Query(c) \/ Prepare(c) \/ Execute(c)
    \/ CloseStatement(c) \/ Quit(c) \/ Ignore(c)
    \/ Answer(c)

Client(c) ==
    \/ AskQuery(c) \/ AskPrepare(c) \/ AskExecute(c) \/ AskClose(c) \/ AskQuit(c)
    \/ Leave(c)

Next ==
    \/ \E c \in Clients :
         \/ Task(c) \/ Acquire(c) \/ AcquireFails(c)
         \/ Row(c) \/ RowsEnd(c) \/ RowFails(c)
         \/ Client(c) \/ Read(c) \/ Hangup(c)
    \/ \E k \in Conns : Recycle(k)

Spec == Init /\ [][Next]_vars

\* tokio runs every task that can go on, get_conn serves its waiters in turn,
\* every result has an end, and the pool resets what it gets back.  Only some
\* clients read on.
Fairness ==
    /\ \A c \in Clients :
         /\ WF_vars(Task(c))
         /\ SF_vars(Acquire(c) \/ AcquireFails(c))
         /\ SF_vars(RowsEnd(c) \/ RowFails(c))
    /\ \A c \in Readers : WF_vars(Read(c) \/ Hangup(c))
    /\ \A k \in Conns : WF_vars(Recycle(k))

LiveSpec == Spec /\ Fairness

-----------------------------------------------------------------------------
Stages == {"off", "auth", "loop", "acquire", "query", "rows", "ended"} \cup Writing
Owners == Clients \cup {Free, Resetting}

Packets ==
    [kind : {"handshake", "ok", "error", "eof", "prepared", "parameter", "count", "column", "row"},
     n : Nat, id : Nat, seq : Nat]
Commands ==
    [op : {"prepare"}, text : Texts, id : Nat, seq : Nat]
      \cup [op : {"none", "login", "ping", "query", "execute", "close", "quit", "other"},
            text : {NoText}, id : Nat, seq : Nat]
Wants ==
    [state : {"greeting", "welcome", "idle", "answer", "columns", "rows",
              "prepared", "parameters", "extra", "lost", "closed"},
     n : Nat, seq : Nat]
Statements == [Ids -> Texts \cup {NoText}]

\* The types of all variables; and a task has packets to write in just the
\* stages that write.
TypeOK ==
    /\ stage \in [Clients -> Stages]
    /\ todo \in [Clients -> Seq(Packets)] /\ inbox \in [Clients -> Seq(Packets)]
    /\ outbox \in [Clients -> Seq(Commands)]
    /\ seq \in [Clients -> Nat] /\ nextId \in [Clients -> Nat] /\ sent \in [Clients -> Nat]
    /\ table \in [Clients -> Statements] /\ book \in [Clients -> Statements]
    /\ owner \in [Conns -> Owners]
    /\ want \in [Clients -> Wants]
    /\ asked \in [Clients -> Commands]
    /\ \A c \in Clients : stage[c] \in Writing <=> todo[c] # <<>>

\* handle_com_query and handle_com_stmt_execute: a task has one connection from
\* get_conn until its reply is written, and none before, after, or once it has
\* ended in whatever way.
ConnsAreOwned ==
    \A c \in Clients :
      /\ stage[c] \in {"query", "columns", "rows"} => \E k \in Conns : owner[k] = c
      /\ stage[c] \notin {"query", "columns", "rows", "reply"} => \A k \in Conns : owner[k] # c
      /\ \A k, l \in Conns : owner[k] = c /\ owner[l] = c => k = l

\* The statement table: what a client may execute is in its table under the id
\* that it was told, however prepares and closes follow each other; and nothing
\* else is, when no command is on its way.
TablesAgree ==
    \A c \in Clients :
      /\ \A id \in Ids : Has(book[c], id) => table[c][id] = book[c][id]
      /\ want[c].state = "idle" /\ outbox[c] = <<>> => table[c] = book[c]

\* A client that is lenient, or has had no statement prepared.
NothingExtra(c) == c \in Lenient \/ nextId[c] = 1

\* The replies of handle_client: a client is never sent a packet, or a number,
\* that it does not expect, and has read all of them when it is done with a
\* reply.  This is claimed of MySQL's own clients only until the proxy has
\* prepared a statement for them, for all commands before: the reply to a
\* prepare ends in an EOF that only lenient clients read.
InStep ==
    \A c \in Clients : NothingExtra(c) =>
      /\ want[c].state # "lost"
      /\ want[c].state = "idle" => inbox[c] = <<>> /\ todo[c] = <<>>

\* Not so: "Send EOF for columns (num_columns = 0)" (db_proxy/mod.rs:279) keeps
\* every client in step, MySQL's own too.
PreparesInStep == \A c \in Clients : want[c].state # "lost"

\* A client that reads gets its whole reply, or the end of its connection,
\* whatever the other clients do: if fewer of them than there are connections
\* stop reading, and if its command is one that has a reply.
Answered ==
    \A c \in Readers :
      Waiting(c) /\ asked[c].op # "other" ~> want[c].state \in {"idle", "closed"}
=============================================================================
