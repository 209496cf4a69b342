---------------------------- MODULE DbProxyProofs ----------------------------
(***************************************************************************)
(* The connections of the backend's pool, the types, the statement tables, *)
(* and the replies, for any number of clients, connections, commands and   *)
(* statements.                                                             *)
(***************************************************************************)
EXTENDS DbProxy, SequenceTheorems, TLAPS

\* The parts of the state that the argument is about.
Typed ==
    /\ stage \in [Clients -> Stages]
    /\ owner \in [Conns -> Owners]

Inv == Typed /\ ConnsAreOwned

\* What ConnsAreOwned says of one client.
HasOne(c) == stage[c] \in {"query", "columns", "rows"} => \E k \in Conns : owner[k] = c
HasNone(c) ==
    stage[c] \notin {"query", "columns", "rows", "reply"} => \A k \in Conns : owner[k] # c
Single(c) == \A k, l \in Conns : owner[k] = c /\ owner[l] = c => k = l
Owned(c) == HasOne(c) /\ HasNone(c) /\ Single(c)

LEMMA OwnedByAll == ConnsAreOwned <=> \A c \in Clients : Owned(c)
BY DEF ConnsAreOwned, Owned, HasOne, HasNone, Single

LEMMA InitInv == Init => Inv
BY ProxyAssumption DEF Init, Inv, Typed, ConnsAreOwned, Stages, Owners

\* A step of one task that leaves the connections alone: the task may go on if
\* what it needs, or must not have, stays the same.
LEMMA Moves ==
    ASSUME Inv, NEW c \in Clients, NEW next \in Stages, Goto(c, next), owner' = owner,
           next \in {"query", "columns", "rows"} => \E k \in Conns : owner[k] = c,
           next \notin {"query", "columns", "rows", "reply"} => \A k \in Conns : owner[k] # c
    PROVE  Inv'
<1>1. stage' = [stage EXCEPT ![c] = next]
  BY DEF Goto
<1>2. Typed'
  BY <1>1 DEF Inv, Typed
<1>3. \A d \in Clients : Owned(d)'
  <2> TAKE d \in Clients
  <2>1. Owned(d)
    BY OwnedByAll DEF Inv
  <2>2. CASE d = c
    BY <1>1, <2>1, <2>2 DEF Owned, HasOne, HasNone, Single, Inv, Typed
  <2>3. CASE d # c
    BY <1>1, <2>1, <2>3 DEF Owned, HasOne, HasNone, Single, Inv, Typed
  <2> QED
    BY <2>2, <2>3
<1> QED
  BY <1>2, <1>3 DEF Inv, ConnsAreOwned, Owned, HasOne, HasNone, Single

\* A step with which a task gives its connection back.
LEMMA Returns ==
    ASSUME Inv, NEW c \in Clients, NEW next \in Stages, Goto(c, next), owner' = Returned(c),
           next \notin {"query", "columns", "rows"}
    PROVE  Inv'
<1>1. /\ stage' = [stage EXCEPT ![c] = next]
      /\ owner' = [k \in Conns |-> IF owner[k] = c THEN Resetting ELSE owner[k]]
  BY DEF Goto, Returned
<1>2. Resetting \notin Clients
  BY ProxyAssumption
<1>3. Typed'
  BY <1>1 DEF Inv, Typed, Owners
<1>4. \A d \in Clients : Owned(d)'
  <2> TAKE d \in Clients
  <2>1. Owned(d)
    BY OwnedByAll DEF Inv
  <2>2. CASE d = c
    <3>1. \A k \in Conns : owner'[k] # c
      BY <1>1, <1>2 DEF Inv, Typed
    <3> QED
      BY <1>1, <2>2, <3>1 DEF Owned, HasOne, HasNone, Single, Inv, Typed
  <2>3. CASE d # c
    <3>1. stage'[d] = stage[d] /\ \A k \in Conns : owner'[k] = d <=> owner[k] = d
      BY <1>1, <1>2, <2>3 DEF Inv, Typed
    <3> QED
      BY <2>1, <3>1 DEF Owned, HasOne, HasNone, Single
  <2> QED
    BY <2>2, <2>3
<1> QED
  BY <1>3, <1>4 DEF Inv, ConnsAreOwned, Owned, HasOne, HasNone, Single

\* A step that leaves tasks and connections as they are.
LEMMA Stays ==
    ASSUME Inv, UNCHANGED <<stage, owner>>
    PROVE  Inv'
BY DEF Inv, Typed, ConnsAreOwned

-----------------------------------------------------------------------------
LEMMA EndKeeps ==
    ASSUME Inv, NEW c \in Clients, End(c)
    PROVE  Inv'
BY Returns DEF End, Stages

LEMMA WriteKeeps ==
    ASSUME Inv, NEW c \in Clients, Write(c)
    PROVE  Inv'
<1>1. stage[c] \in {"greeting", "welcome", "columns", "reply"}
  BY DEF Write, Writing, After
<1>2. CASE Len(todo[c]) = 1
  <2>1. Goto(c, After[stage[c]]) /\ owner' = IF stage[c] = "reply" THEN Returned(c) ELSE owner
    BY <1>2 DEF Write
  <2>2. CASE stage[c] = "reply"
    BY <2>1, <2>2, Returns DEF After, Stages
  <2>3. CASE stage[c] = "columns"
    BY <2>1, <2>3, Moves DEF After, Stages, Inv, ConnsAreOwned
  <2>4. CASE stage[c] = "greeting"
    BY <2>1, <2>4, Moves DEF After, Stages, Inv, ConnsAreOwned
  <2>5. CASE stage[c] = "welcome"
    BY <2>1, <2>5, Moves DEF After, Stages, Inv, ConnsAreOwned
  <2> QED
    BY <1>1, <2>2, <2>3, <2>4, <2>5
<1>3. CASE Len(todo[c]) # 1
  BY <1>3, Stays DEF Write
<1> QED
  BY <1>2, <1>3

LEMMA AcquireKeeps ==
    ASSUME Inv, NEW c \in Clients, Acquire(c)
    PROVE  Inv'
<1>1. PICK k \in Conns : owner[k] = Free /\ owner' = [owner EXCEPT ![k] = c]
  BY DEF Acquire
<1>2. stage[c] = "acquire" /\ stage' = [stage EXCEPT ![c] = "query"]
  BY DEF Acquire, Goto
<1>3. Free \notin Clients
  BY ProxyAssumption
<1>4. \A l \in Conns : owner[l] # c
  BY <1>2 DEF Inv, ConnsAreOwned
<1>5. Typed'
  BY <1>1, <1>2 DEF Inv, Typed, Owners, Stages
<1>6. \A d \in Clients : Owned(d)'
  <2> TAKE d \in Clients
  <2>1. Owned(d)
    BY OwnedByAll DEF Inv
  <2>2. CASE d = c
    <3>1. \A l \in Conns : owner'[l] = c <=> l = k
      BY <1>1, <1>4 DEF Inv, Typed
    <3> QED
      BY <1>2, <2>2, <3>1 DEF Owned, HasOne, HasNone, Single, Inv, Typed
  <2>3. CASE d # c
    <3>1. stage'[d] = stage[d] /\ \A l \in Conns : owner'[l] = d <=> owner[l] = d
      BY <1>1, <1>2, <1>3, <2>3 DEF Inv, Typed
    <3> QED
      BY <2>1, <3>1 DEF Owned, HasOne, HasNone, Single
  <2> QED
    BY <2>2, <2>3
<1> QED
  BY <1>5, <1>6 DEF Inv, ConnsAreOwned, Owned, HasOne, HasNone, Single

LEMMA RecycleKeeps ==
    ASSUME Inv, NEW k \in Conns, Recycle(k)
    PROVE  Inv'
<1>1. owner[k] = Resetting /\ owner' = [owner EXCEPT ![k] = Free] /\ stage' = stage
  BY DEF Recycle
<1>2. Free \notin Clients /\ Resetting \notin Clients
  BY ProxyAssumption
<1>3. Typed'
  BY <1>1 DEF Inv, Typed, Owners
<1>4. \A d \in Clients : \A l \in Conns : owner'[l] = d <=> owner[l] = d
  BY <1>1, <1>2 DEF Inv, Typed
<1> QED
  BY <1>1, <1>3, <1>4 DEF Inv, ConnsAreOwned

\* Every other step of a task writes nothing and keeps what it has.
LEMMA TaskKeeps ==
    ASSUME Inv, NEW c \in Clients, Task(c)
    PROVE  Inv'
<1>1. CASE Accept(c)
  BY <1>1, Moves DEF Accept, Send, Stages, Writing, After, Inv, ConnsAreOwned
<1>2. CASE Write(c)
  BY <1>2, WriteKeeps
<1>3. CASE Broken(c)
  BY <1>3, EndKeeps DEF Broken
<1>4. CASE Authenticate(c)
  BY <1>4, Moves DEF Authenticate, Send, Stages, Writing, After, Inv, ConnsAreOwned
<1>5. CASE Acknowledge(c)
  BY <1>5, Moves DEF Acknowledge, Reply, Send, Stages, Writing, After
<1>6. CASE Query(c)
  BY <1>6, Moves DEF Query, Reads, Stages, Inv, ConnsAreOwned
<1>7. CASE Prepare(c)
  BY <1>7, Moves DEF Prepare, Reply, Send, Stages, Writing, After
<1>8. CASE Execute(c)
  <2>1. stage[c] = "loop" /\ owner' = owner /\ (Goto(c, "acquire") \/ Goto(c, "reply"))
    BY <1>8 DEF Execute, Reads, Reply, Send
  <2>2. CASE Goto(c, "acquire")
    BY <2>1, <2>2, Moves DEF Stages, Inv, ConnsAreOwned
  <2>3. CASE Goto(c, "reply")
    BY <2>1, <2>3, Moves DEF Stages, Writing, After
  <2> QED
    BY <2>1, <2>2, <2>3
<1>9. CASE CloseStatement(c) \/ Ignore(c)
  BY <1>9, Stays DEF CloseStatement, Ignore
<1>10. CASE Quit(c)
  BY <1>10, EndKeeps DEF Quit
<1>11. CASE Answer(c)
  <2>1. stage[c] = "query" /\ owner' = owner /\ (Goto(c, "reply") \/ Goto(c, "columns"))
    BY <1>11 DEF Answer, Reply, Send
  <2>2. CASE Goto(c, "reply")
    BY <2>1, <2>2, Moves DEF Stages, Writing, After
  <2>3. CASE Goto(c, "columns")
    BY <2>1, <2>3, Moves DEF Stages, Writing, After, Inv, ConnsAreOwned
  <2> QED
    BY <2>1, <2>2, <2>3
<1> QED
  BY <1>1, <1>2, <1>3, <1>4, <1>5, <1>6, <1>7, <1>8, <1>9, <1>10, <1>11 DEF Task

\* Neither do the clients touch the connections.
LEMMA ClientKeeps ==
    ASSUME Inv, NEW c \in Clients, Client(c) \/ Read(c) \/ Hangup(c)
    PROVE  Inv'
<1>1. UNCHANGED taskVars
  BY DEF Client, Read, Hangup, AskQuery, AskPrepare, AskExecute, AskClose, AskQuit, Ask,
         Leave, Close
<1> QED
  BY <1>1, Stays DEF taskVars

LEMMA InvStep == Inv /\ [Next]_vars => Inv'
<1> SUFFICES ASSUME Inv, [Next]_vars PROVE Inv'
  OBVIOUS
<1>1. ASSUME NEW c \in Clients, Task(c) PROVE Inv'
  BY <1>1, TaskKeeps
<1>2. ASSUME NEW c \in Clients, Acquire(c) PROVE Inv'
  BY <1>2, AcquireKeeps
<1>3. ASSUME NEW c \in Clients, AcquireFails(c) PROVE Inv'
  BY <1>3, Moves DEF AcquireFails, Reply, Send, Stages, Writing, After
<1>4. ASSUME NEW c \in Clients, Row(c) PROVE Inv'
  BY <1>4, Moves DEF Row, Send, Stages, Writing, After, Inv, ConnsAreOwned
<1>5. ASSUME NEW c \in Clients, RowsEnd(c) PROVE Inv'
  BY <1>5, Moves DEF RowsEnd, Reply, Send, Stages, Writing, After
<1>6. ASSUME NEW c \in Clients, RowFails(c) PROVE Inv'
  BY <1>6, EndKeeps DEF RowFails
<1>7. ASSUME NEW c \in Clients, Client(c) \/ Read(c) \/ Hangup(c) PROVE Inv'
  BY <1>7, ClientKeeps
<1>8. ASSUME NEW k \in Conns, Recycle(k) PROVE Inv'
  BY <1>8, RecycleKeeps
<1>9. CASE UNCHANGED vars
  BY <1>9, Stays DEF vars, taskVars
<1> QED
  BY <1>1, <1>2, <1>3, <1>4, <1>5, <1>6, <1>7, <1>8, <1>9 DEF Next

\* However tasks end, and whatever their clients do, no connection is lost to
\* the pool or used by two of them.
THEOREM ConnectionsReturn == Spec => []ConnsAreOwned
<1>1. Inv => ConnsAreOwned
  BY DEF Inv
<1> QED
  BY <1>1, InitInv, InvStep, PTL DEF Spec
-----------------------------------------------------------------------------
(* The types.                                                              *)

LEMMA NonEmpty ==
    ASSUME NEW S, NEW s \in Seq(S), s # <<>>
    PROVE  /\ Len(s) \in Nat \ {0} /\ Head(s) \in S /\ Tail(s) \in Seq(S)
           /\ Tail(s) = <<>> <=> Len(s) = 1
<1>1. Len(s) \in Nat \ {0} /\ Head(s) \in S /\ Tail(s) \in Seq(S)
  BY HeadTailProperties, EmptySeq
<1>2. Len(Tail(s)) = Len(s) - 1
  BY <1>1, HeadTailProperties
<1>3. Len(<<>>) = 0 /\ (Tail(s) # <<>> => Len(Tail(s)) \in Nat \ {0})
  BY <1>1, EmptySeq
<1>4. Tail(s) = <<>> => Len(Tail(s)) = 0
  BY <1>3
<1>5. Tail(s) = <<>> <=> Len(Tail(s)) = 0
  BY <1>3, <1>4
<1> QED
  BY <1>1, <1>2, <1>5

LEMMA Appended ==
    ASSUME NEW S, NEW s \in Seq(S), NEW e \in S
    PROVE  Append(s, e) \in Seq(S) /\ <<e>> \in Seq(S) /\ <<e>> # <<>> /\ <<>> \in Seq(S)
BY AppendProperties

LEMMA Numbers ==
    ASSUME NEW n \in Nat
    PROVE  Plus1(n) \in Nat /\ n % SeqMod \in Nat
BY ProxyAssumption DEF Plus1

LEMMA PlainPackets ==
    /\ \A kind \in {"handshake", "ok", "error", "eof", "row"} : Plain(kind) \in Packets
    /\ \A n \in Nat, kind \in {"parameter", "column"} : Repeat(kind, n) \in Seq(Packets)
<1>1. \A kind \in {"handshake", "ok", "error", "eof", "row", "parameter", "column"} :
        Plain(kind) \in Packets
  BY DEF Plain, Packet, Packets
<1>2. ASSUME NEW n \in Nat, NEW kind \in {"parameter", "column"}
      PROVE  Repeat(kind, n) \in Seq(Packets)
  BY <1>1, <1>2 DEF Repeat
<1> QED
  BY <1>1, <1>2

LEMMA PreparedTyped ==
    ASSUME NEW n \in Nat, NEW id \in Nat
    PROVE  PreparedPackets(id, n) \in Seq(Packets) /\ PreparedPackets(id, n) # <<>>
<1> DEFINE parameters ==
      IF n > 0 THEN Append(Repeat("parameter", n), Plain("eof")) ELSE <<>>
<1>1. Packet("prepared", n, id) \in Packets /\ Plain("eof") \in Packets
  BY PlainPackets DEF Packet, Packets
<1>2. parameters \in Seq(Packets)
  BY <1>1, PlainPackets
<1>3. PreparedPackets(id, n) = <<Packet("prepared", n, id)>> \o parameters \o <<Plain("eof")>>
  BY DEF PreparedPackets
<1> HIDE DEF parameters
<1>4. <<Packet("prepared", n, id)>> \in Seq(Packets) /\ <<Plain("eof")>> \in Seq(Packets)
  BY <1>1
<1>5. PreparedPackets(id, n) \in Seq(Packets) /\ Len(PreparedPackets(id, n)) > 0
  BY <1>2, <1>3, <1>4
<1> QED
  BY <1>5

LEMMA FollowTyped ==
    ASSUME NEW c, NEW w \in Wants, NEW p \in Packets
    PROVE  /\ Follow(c, w, p) \in Wants
           /\ Follow(c, w, p).state \notin {"prepared", "closed", "greeting"}
           /\ w.state = "prepared" /\ p.kind # "prepared" => Follow(c, w, p).state = "lost"
<1>1. Plus1(w.seq) \in Nat /\ 2 % SeqMod \in Nat /\ w.n \in Nat /\ p.n \in Nat
  BY Numbers, ProxyAssumption DEF Wants, Packets
<1>2. w.n > 0 => w.n - 1 \in Nat
  BY <1>1
<1> DEFINE states == {"welcome", "idle", "answer", "columns", "rows", "parameters", "extra", "lost"}
<1> DEFINE Fine(f) == f \in Wants /\ f.state \in states
<1>3. /\ Fine(Want("lost", 0, 0)) /\ Fine(Want("idle", 0, 0))
      /\ Fine(Want("welcome", 0, 2 % SeqMod)) /\ Fine(Want("rows", 0, Plus1(w.seq)))
      /\ Fine(Want("extra", 0, Plus1(w.seq)))
      /\ Fine(Want("columns", p.n, Plus1(w.seq))) /\ Fine(Want("parameters", p.n, Plus1(w.seq)))
      /\ w.n > 0 => /\ Fine(Want("columns", w.n - 1, Plus1(w.seq)))
                    /\ Fine(Want("parameters", w.n - 1, Plus1(w.seq)))
      /\ Want("lost", 0, 0).state = "lost"
  BY <1>1, <1>2 DEF Want, Wants
<1> HIDE DEF Fine
<1> SUFFICES /\ Fine(Follow(c, w, p))
             /\ w.state = "prepared" /\ p.kind # "prepared" => Follow(c, w, p).state = "lost"
  BY DEF Fine
<1>4. CASE p.seq # w.seq
  <2>1. Follow(c, w, p) = Want("lost", 0, 0)
    BY <1>4 DEF Follow
  <2> QED
    BY <1>3, <2>1
<1>5. CASE p.seq = w.seq /\ w.state \in {"greeting", "welcome", "answer"}
  <2>1. \/ Follow(c, w, p) = Want("lost", 0, 0)
        \/ Follow(c, w, p) = Want("welcome", 0, 2 % SeqMod)
        \/ Follow(c, w, p) = Want("idle", 0, 0)
        \/ Follow(c, w, p) = Want("columns", p.n, Plus1(w.seq))
    BY <1>5 DEF Follow
  <2> QED
    BY <1>3, <1>5, <2>1
<1>6. CASE p.seq = w.seq /\ w.state \in {"columns", "rows"}
  <2>1. \/ Follow(c, w, p) = Want("lost", 0, 0)
        \/ Follow(c, w, p) = Want("columns", w.n - 1, Plus1(w.seq)) /\ w.n > 0
        \/ Follow(c, w, p) = Want("rows", 0, Plus1(w.seq))
        \/ Follow(c, w, p) = Want("idle", 0, 0)
    BY <1>6 DEF Follow
  <2> QED
    BY <1>3, <1>6, <2>1
<1>7. CASE p.seq = w.seq /\ w.state \in {"prepared", "parameters", "extra"}
  <2>1. \/ Follow(c, w, p) = Want("lost", 0, 0)
        \/ /\ \/ Follow(c, w, p) = Want("parameters", p.n, Plus1(w.seq))
              \/ Follow(c, w, p) = Want("parameters", w.n - 1, Plus1(w.seq)) /\ w.n > 0
              \/ Follow(c, w, p) = Want("extra", 0, Plus1(w.seq))
              \/ Follow(c, w, p) = Want("idle", 0, 0)
           /\ w.state = "prepared" => p.kind = "prepared"
    BY <1>7 DEF Follow
  <2> QED
    BY <1>3, <1>7, <2>1
<1>8. CASE p.seq = w.seq /\ w.state \in {"idle", "lost", "closed"}
  <2>1. Follow(c, w, p) = Want("lost", 0, 0)
    BY <1>8 DEF Follow
  <2> QED
    BY <1>3, <1>8, <2>1
<1> QED
  BY <1>4, <1>5, <1>6, <1>7, <1>8 DEF Wants

LEMMA FollowHandshake ==
    ASSUME NEW c, NEW w \in Wants, NEW p \in Packets,
           w.state \in {"greeting", "welcome"}, p.kind = "handshake"
    PROVE  Follow(c, w, p).state \in {"welcome", "lost"}
<1>1. Follow(c, w, p) = Want("lost", 0, 0) \/ Follow(c, w, p) = Want("welcome", 0, 2 % SeqMod)
  BY DEF Follow
<1> QED
  BY <1>1 DEF Want

\* What a task is doing.
Doing ==
    /\ stage \in [Clients -> Stages]
    /\ todo \in [Clients -> Seq(Packets)]
    /\ seq \in [Clients -> Nat]
    /\ \A c \in Clients : stage[c] \in Writing <=> todo[c] # <<>>

\* The rest of TypeOK.
Having ==
    /\ inbox \in [Clients -> Seq(Packets)] /\ outbox \in [Clients -> Seq(Commands)]
    /\ nextId \in [Clients -> Nat] /\ sent \in [Clients -> Nat]
    /\ table \in [Clients -> Statements] /\ book \in [Clients -> Statements]
    /\ owner \in [Conns -> Owners]
    /\ want \in [Clients -> Wants] /\ asked \in [Clients -> Commands]

LEMMA TypeParts == TypeOK <=> Doing /\ Having
BY DEF TypeOK, Doing, Having

LEMMA SendTyped ==
    ASSUME TypeOK, NEW c \in Clients, NEW next \in Writing, NEW packets \in Seq(Packets),
           packets # <<>>, NEW number \in Nat, Send(c, next, packets, number)
    PROVE  Doing'
BY DEF TypeOK, Doing, Send, Goto, Stages

LEMMA GotoTyped ==
    ASSUME TypeOK, NEW c \in Clients, NEW next \in Stages \ Writing, Goto(c, next),
           todo' = todo \/ todo' = [todo EXCEPT ![c] = <<>>], todo'[c] = <<>>,
           seq' \in [Clients -> Nat]
    PROVE  Doing'
<1>1. stage' \in [Clients -> Stages]
  BY DEF TypeOK, Goto
<1>2. <<>> \in Seq(Packets)
  OBVIOUS
<1>3. todo' \in [Clients -> Seq(Packets)] /\ \A d \in Clients : d # c => todo'[d] = todo[d]
  BY <1>2 DEF TypeOK
<1>4. \A d \in Clients : stage'[d] \in Writing <=> todo'[d] # <<>>
  BY <1>3 DEF TypeOK, Goto
<1> QED
  BY <1>1, <1>3, <1>4 DEF Doing

LEMMA DoingStays ==
    ASSUME TypeOK, UNCHANGED <<stage, todo>>, seq' \in [Clients -> Nat]
    PROVE  Doing'
BY DEF TypeOK, Doing

\* Commands that are read have their types.
LEMMA ReadsTyped ==
    ASSUME TypeOK, NEW c \in Clients, outbox[c] # <<>>
    PROVE  /\ Head(outbox[c]) \in Commands /\ Numbered(c) \in Nat
           /\ Head(outbox[c]).text \in Texts \cup {NoText} /\ Head(outbox[c]).id \in Nat
           /\ Head(outbox[c]).op = "prepare" => Head(outbox[c]).text \in Texts
           /\ Tail(outbox[c]) \in Seq(Commands)
<1>1. outbox[c] \in Seq(Commands)
  BY DEF TypeOK
<1>2. Head(outbox[c]) \in Commands /\ Tail(outbox[c]) \in Seq(Commands)
  BY <1>1, NonEmpty
<1> QED
  BY <1>2 DEF Numbered, Commands

LEMMA ReturnedTyped ==
    ASSUME TypeOK, NEW c \in Clients
    PROVE  Returned(c) \in [Conns -> Owners]
BY DEF TypeOK, Returned, Owners

LEMMA EndTyped ==
    ASSUME TypeOK, NEW c \in Clients, End(c), outbox' \in [Clients -> Seq(Commands)]
    PROVE  TypeOK'
<1>1. Doing'
  BY GotoTyped DEF End, Stages, Writing, After, TypeOK
<1>2. Having'
  BY ReturnedTyped DEF End, Having, TypeOK, clientVars
<1> QED
  BY <1>1, <1>2 DEF TypeOK, Doing, Having

LEMMA WriteTyped ==
    ASSUME TypeOK, NEW c \in Clients, Write(c)
    PROVE  TypeOK'
<1>1. /\ stage[c] \in Writing /\ todo[c] \in Seq(Packets) /\ todo[c] # <<>>
      /\ todo' = [todo EXCEPT ![c] = Tail(todo[c])]
  BY DEF Write, TypeOK
<1>2. /\ seq' = [seq EXCEPT ![c] = Plus1(seq[c])] /\ Plus1(seq[c]) \in Nat /\ seq[c] \in Nat
  BY Numbers DEF Write, TypeOK
<1>3. Tail(todo[c]) \in Seq(Packets) /\ (Tail(todo[c]) = <<>> <=> Len(todo[c]) = 1)
  BY <1>1, NonEmpty
<1>4. Doing'
  <2>1. CASE Len(todo[c]) = 1
    <3>1. stage' = [stage EXCEPT ![c] = After[stage[c]]]
      BY <2>1 DEF Write, Goto
    <3>2. After[stage[c]] \in Stages \ Writing
      BY <1>1 DEF Writing, After, Stages
    <3> QED
      BY <1>1, <1>2, <1>3, <2>1, <3>1, <3>2 DEF TypeOK, Doing
  <2>2. CASE Len(todo[c]) # 1
    <3>1. stage' = stage
      BY <2>2 DEF Write
    <3> QED
      BY <1>1, <1>2, <1>3, <2>2, <3>1 DEF TypeOK, Doing
  <2> QED
    BY <2>1, <2>2
<1>5. [Head(todo[c]) EXCEPT !.seq = seq[c]] \in Packets
  <2>1. Head(todo[c]) \in Packets
    BY <1>1, NonEmpty
  <2> QED
    BY <1>2, <2>1 DEF Packets
<1>6. inbox' \in [Clients -> Seq(Packets)]
  <2>1. inbox[c] \in Seq(Packets)
    BY DEF TypeOK
  <2>2. Append(inbox[c], [Head(todo[c]) EXCEPT !.seq = seq[c]]) \in Seq(Packets)
    BY <1>5, <2>1, Appended
  <2> QED
    BY <2>2 DEF Write, TypeOK
<1>7. owner' \in [Conns -> Owners]
  BY ReturnedTyped DEF Write, TypeOK
<1>8. Having'
  BY <1>6, <1>7 DEF Write, TypeOK, Having, clientVars
<1> QED
  BY <1>4, <1>8 DEF TypeOK, Doing, Having

\* The packets and numbers of replies.
LEMMA ReplyTyped ==
    ASSUME TypeOK, NEW c \in Clients, NEW packets \in Seq(Packets), packets # <<>>,
           NEW number \in Nat, Reply(c, packets, number)
    PROVE  Doing'
BY SendTyped DEF Reply, Writing, After

LEMMA ReplyPlainTyped ==
    ASSUME TypeOK, NEW c \in Clients, NEW kind \in {"ok", "error", "eof"},
           NEW number \in Nat, Reply(c, <<Plain(kind)>>, number)
    PROVE  Doing'
<1>1. Plain(kind) \in Packets
  BY PlainPackets
<1>2. <<Plain(kind)>> \in Seq(Packets) /\ <<Plain(kind)>> # <<>>
  BY <1>1, Appended
<1> QED
  BY <1>2, ReplyTyped

LEMMA IdsAreNumbers == Ids \subseteq Nat
BY ProxyAssumption DEF Ids

LEMMA InitTypes == Init => TypeOK
<1> SUFFICES ASSUME Init PROVE TypeOK
  OBVIOUS
<1>1. Want("greeting", 0, 0) \in Wants /\ Bare("none") \in Commands /\ NoTable \in Statements
  BY DEF Want, Wants, Bare, Command, Commands, NoTable, Statements
<1>2. <<>> \in Seq(Packets) /\ <<>> \in Seq(Commands)
  BY EmptySeq
<1>3. "off" \in Stages \ Writing
  BY DEF Stages, Writing, After
<1> QED
  BY <1>1, <1>2, <1>3 DEF Init, TypeOK, Owners

\* A task that is not writing has nothing to write.
LEMMA Nothing ==
    ASSUME TypeOK, NEW c \in Clients,
           stage[c] \in {"off", "auth", "loop", "acquire", "query", "rows", "ended"}
    PROVE  todo[c] = <<>>
BY DEF TypeOK, Writing, After

\* What a task does with its tables and its commands.
LEMMA TaskHaving ==
    ASSUME TypeOK, NEW c \in Clients, UNCHANGED clientVars,
           inbox' = inbox, owner' \in [Conns -> Owners],
           table' = table \/ \E id, text : /\ text \in Texts \cup {NoText}
                                          /\ table' = [table EXCEPT ![c] = [@ EXCEPT ![id] = text]],
           nextId' = nextId \/ nextId' = [nextId EXCEPT ![c] = @ + 1],
           \/ outbox' = outbox
           \/ outbox[c] # <<>> /\ outbox' = [outbox EXCEPT ![c] = Tail(@)]
    PROVE  Having'
<1>1. outbox \in [Clients -> Seq(Commands)] /\ nextId \in [Clients -> Nat]
      /\ table \in [Clients -> [Ids -> Texts \cup {NoText}]]
  BY DEF TypeOK, Statements
<1>2. outbox' \in [Clients -> Seq(Commands)]
  <2>1. CASE outbox' = outbox
    BY <1>1, <2>1
  <2>2. CASE outbox[c] # <<>> /\ outbox' = [outbox EXCEPT ![c] = Tail(@)]
    BY <1>1, <2>2, ReadsTyped
  <2> QED
    BY <2>1, <2>2
<1>3. nextId' \in [Clients -> Nat]
  <2>1. nextId[c] + 1 \in Nat
    BY <1>1
  <2> QED
    BY <1>1, <2>1
<1>4. table' \in [Clients -> [Ids -> Texts \cup {NoText}]]
  <2>1. CASE table' = table
    BY <1>1, <2>1
  <2>2. ASSUME NEW id, NEW text \in Texts \cup {NoText},
               table' = [table EXCEPT ![c] = [@ EXCEPT ![id] = text]]
        PROVE  table' \in [Clients -> [Ids -> Texts \cup {NoText}]]
    <3>1. [table[c] EXCEPT ![id] = text] \in [Ids -> Texts \cup {NoText}]
      BY <1>1
    <3> QED
      BY <1>1, <2>2, <3>1
  <2> QED
    BY <2>1, <2>2
<1> QED
  BY <1>2, <1>3, <1>4 DEF TypeOK, Having, Statements, clientVars

LEMMA TaskTyped ==
    ASSUME TypeOK, NEW c \in Clients, Task(c)
    PROVE  TypeOK'
<1>1. CASE Accept(c)
  <2>1. <<Plain("handshake")>> \in Seq(Packets) /\ <<Plain("handshake")>> # <<>>
    BY PlainPackets, Appended
  <2>2. Doing'
    BY <1>1, <2>1, SendTyped DEF Accept, Writing, After
  <2>3. Having'
    BY <1>1, TaskHaving DEF Accept, TypeOK
  <2> QED
    BY <2>2, <2>3 DEF TypeOK, Doing, Having
<1>2. CASE Write(c)
  BY <1>2, WriteTyped
<1>3. CASE Broken(c)
  BY <1>3, EndTyped DEF Broken, TypeOK
<1>4. CASE Authenticate(c)
  <2>1. <<Plain("ok")>> \in Seq(Packets) /\ <<Plain("ok")>> # <<>>
    BY PlainPackets, Appended
  <2>2. 2 % SeqMod \in Nat
    BY Numbers
  <2>3. Doing'
    BY <1>4, <2>1, <2>2, SendTyped DEF Authenticate, Writing, After
  <2>4. Having'
    BY <1>4, TaskHaving DEF Authenticate, TypeOK
  <2> QED
    BY <2>3, <2>4 DEF TypeOK, Doing, Having
<1>5. CASE Acknowledge(c)
  <2>1. outbox[c] # <<>> /\ Plus1(Numbered(c)) \in Nat
    BY <1>5, ReadsTyped, Numbers DEF Acknowledge, Reads
  <2>2. Doing'
    BY <1>5, <2>1, ReplyPlainTyped DEF Acknowledge
  <2>3. Having'
    BY <1>5, TaskHaving DEF Acknowledge, Reads, TypeOK
  <2> QED
    BY <2>2, <2>3 DEF TypeOK, Doing, Having
<1>6. CASE Query(c)
  <2>1. outbox[c] # <<>> /\ Numbered(c) \in Nat /\ todo[c] = <<>>
    BY <1>6, ReadsTyped, Nothing DEF Query, Reads
  <2>2. "acquire" \in Stages \ Writing /\ seq' \in [Clients -> Nat]
    BY <1>6, <2>1 DEF Query, TypeOK, Stages, Writing, After
  <2>3. Doing'
    BY <1>6, <2>1, <2>2, GotoTyped DEF Query
  <2>4. Having'
    BY <1>6, TaskHaving DEF Query, Reads, TypeOK
  <2> QED
    BY <2>3, <2>4 DEF TypeOK, Doing, Having
<1>7. CASE Prepare(c)
  <2> DEFINE text == Head(outbox[c]).text
  <2>1. outbox[c] # <<>> /\ text \in Texts /\ Plus1(Numbered(c)) \in Nat
    BY <1>7, ReadsTyped, Numbers DEF Prepare, Reads
  <2>2. nextId[c] \in Nat /\ Markers[text] \in Nat
    BY <2>1, ProxyAssumption DEF TypeOK
  <2>3. Doing'
    BY <1>7, <2>1, <2>2, PreparedTyped, ReplyTyped DEF Prepare
  <2>4. Having'
    BY <1>7, <2>1, TaskHaving DEF Prepare, Reads, TypeOK
  <2> QED
    BY <2>3, <2>4 DEF TypeOK, Doing, Having
<1>8. CASE Execute(c)
  <2>1. outbox[c] # <<>> /\ Numbered(c) \in Nat /\ Plus1(Numbered(c)) \in Nat /\ todo[c] = <<>>
    BY <1>8, ReadsTyped, Numbers, Nothing DEF Execute, Reads
  <2>2. "acquire" \in Stages \ Writing
    BY DEF Stages, Writing, After
  <2>3. Doing'
    <3>1. CASE Goto(c, "acquire") /\ seq' = [seq EXCEPT ![c] = Numbered(c)] /\ todo' = todo
      <4>1. seq' \in [Clients -> Nat]
        BY <2>1, <3>1 DEF TypeOK
      <4> QED
        BY <2>1, <2>2, <3>1, <4>1, GotoTyped
    <3>2. CASE Reply(c, <<Plain("error")>>, Plus1(Numbered(c)))
      BY <2>1, <3>2, ReplyPlainTyped
    <3> QED
      BY <1>8, <3>1, <3>2 DEF Execute
  <2>4. Having'
    BY <1>8, TaskHaving DEF Execute, Reads, TypeOK
  <2> QED
    BY <2>3, <2>4 DEF TypeOK, Doing, Having
<1>9. CASE CloseStatement(c)
  <2>1. Doing'
    BY <1>9, DoingStays DEF CloseStatement, TypeOK
  <2>2. Having'
    BY <1>9, TaskHaving DEF CloseStatement, Reads, TypeOK
  <2> QED
    BY <2>1, <2>2 DEF TypeOK, Doing, Having
<1>10. CASE Ignore(c)
  <2>1. Doing'
    BY <1>10, DoingStays DEF Ignore, TypeOK
  <2>2. Having'
    BY <1>10, TaskHaving DEF Ignore, Reads, TypeOK
  <2> QED
    BY <2>1, <2>2 DEF TypeOK, Doing, Having
<1>11. CASE Quit(c)
  <2>1. outbox' \in [Clients -> Seq(Commands)]
    BY <1>11, ReadsTyped DEF Quit, Reads, TypeOK
  <2> QED
    BY <1>11, <2>1, EndTyped DEF Quit
<1>12. CASE Answer(c)
  <2>1. Plus1(seq[c]) \in Nat
    BY Numbers DEF TypeOK
  <2>2. Having'
    BY <1>12, TaskHaving DEF Answer, TypeOK
  <2>3. CASE Reply(c, <<Plain("error")>>, Plus1(seq[c])) \/ Reply(c, <<Plain("ok")>>, Plus1(seq[c]))
    BY <2>1, <2>2, <2>3, ReplyPlainTyped DEF TypeOK, Doing, Having
  <2>4. ASSUME NEW n \in 1..MaxColumns,
               Send(c, "columns",
                 <<Packet("count", n, 0)>> \o Repeat("column", n) \o <<Plain("eof")>>,
                 Plus1(seq[c]))
        PROVE  TypeOK'
    <3>1. n \in Nat /\ Packet("count", n, 0) \in Packets /\ Plain("eof") \in Packets
      BY ProxyAssumption, PlainPackets DEF Packet, Packets
    <3>2. /\ <<Packet("count", n, 0)>> \in Seq(Packets) /\ <<Plain("eof")>> \in Seq(Packets)
          /\ Repeat("column", n) \in Seq(Packets)
      BY <3>1, PlainPackets
    <3> DEFINE packets == <<Packet("count", n, 0)>> \o Repeat("column", n) \o <<Plain("eof")>>
    <3>3. packets \in Seq(Packets) /\ Len(packets) > 0
      BY <3>2
    <3>4. packets # <<>> /\ "columns" \in Writing
      BY <3>3 DEF Writing, After
    <3> HIDE DEF packets
    <3>5. Send(c, "columns", packets, Plus1(seq[c]))
      BY <2>4 DEF packets
    <3>6. Doing'
      BY <2>1, <3>3, <3>4, <3>5, SendTyped
    <3> QED
      BY <2>2, <3>6 DEF TypeOK, Doing, Having
  <2> QED
    BY <1>12, <2>3, <2>4 DEF Answer
<1> QED
  BY <1>1, <1>2, <1>3, <1>4, <1>5, <1>6, <1>7, <1>8, <1>9, <1>10, <1>11, <1>12 DEF Task

LEMMA AskTyped ==
    ASSUME TypeOK, NEW c \in Clients, NEW command \in Commands,
           NEW next \in {"answer", "prepared", "idle"}, Ask(c, command, next),
           book' \in [Clients -> Statements]
    PROVE  TypeOK'
<1>1. Plus1(command.seq) \in Nat
  BY Numbers DEF Commands
<1>2. Want(next, 0, Plus1(command.seq)) \in Wants
  BY <1>1 DEF Want, Wants
<1>3. outbox' \in [Clients -> Seq(Commands)]
  <2>1. outbox \in [Clients -> Seq(Commands)]
    BY DEF TypeOK
  <2>2. Append(outbox[c], command) \in Seq(Commands)
    BY <2>1, Appended
  <2> QED
    BY <2>1, <2>2 DEF Ask
<1>4. Doing'
  BY DEF Ask, Doing, TypeOK, taskVars
<1>5. want' \in [Clients -> Wants] /\ asked' \in [Clients -> Commands] /\ sent' \in [Clients -> Nat]
  BY <1>2 DEF Ask, TypeOK
<1>6. Having'
  BY <1>3, <1>5 DEF Ask, Having, TypeOK, taskVars
<1> QED
  BY <1>4, <1>6 DEF TypeOK, Doing, Having

LEMMA CloseTyped ==
    ASSUME TypeOK, NEW c \in Clients, Close(c)
    PROVE  TypeOK'
<1>1. <<>> \in Seq(Packets) /\ Want("closed", 0, 0) \in Wants
  BY EmptySeq DEF Want, Wants
<1> QED
  BY <1>1 DEF Close, TypeOK, taskVars

LEMMA BareTyped ==
    \A op \in {"login", "ping", "query", "quit", "other"} : Bare(op) \in Commands
BY DEF Bare, Command, Commands

LEMMA ClientTyped ==
    ASSUME TypeOK, NEW c \in Clients, Client(c)
    PROVE  TypeOK'
<1>1. CASE AskQuery(c)
  BY <1>1, BareTyped, AskTyped DEF AskQuery, TypeOK
<1>2. CASE AskPrepare(c)
  <2>1. PICK t \in Texts : Ask(c, Command("prepare", t, 0), "prepared") /\ UNCHANGED book
    BY <1>2 DEF AskPrepare
  <2>2. Command("prepare", t, 0) \in Commands
    BY DEF Command, Commands
  <2> QED
    BY <2>1, <2>2, AskTyped DEF TypeOK
<1>3. CASE AskExecute(c)
  <2>1. PICK id \in Ids \cup {0} :
          Ask(c, Command("execute", NoText, id), "answer") /\ UNCHANGED book
    BY <1>3 DEF AskExecute
  <2>2. Command("execute", NoText, id) \in Commands
    <3>1. id \in Nat
      BY IdsAreNumbers
    <3> QED
      BY <3>1 DEF Command, Commands
  <2> QED
    BY <2>1, <2>2, AskTyped DEF TypeOK
<1>4. CASE AskClose(c)
  <2>1. PICK id \in Ids : /\ Ask(c, Command("close", NoText, id), "idle")
                          /\ book' = [book EXCEPT ![c][id] = NoText]
    BY <1>4 DEF AskClose
  <2>2. Command("close", NoText, id) \in Commands
    <3>1. id \in Nat
      BY IdsAreNumbers
    <3> QED
      BY <3>1 DEF Command, Commands
  <2>3. book' \in [Clients -> Statements]
    BY <2>1 DEF TypeOK, Statements
  <2> QED
    BY <2>1, <2>2, <2>3, AskTyped
<1>5. CASE AskQuit(c)
  BY <1>5, BareTyped, AskTyped DEF AskQuit, TypeOK
<1>6. CASE Leave(c)
  BY <1>6, CloseTyped DEF Leave
<1> QED
  BY <1>1, <1>2, <1>3, <1>4, <1>5, <1>6 DEF Client

LEMMA ReadTyped ==
    ASSUME TypeOK, NEW c \in Clients, Read(c)
    PROVE  TypeOK'
<1> DEFINE p == Head(inbox[c])
<1>1. /\ inbox \in [Clients -> Seq(Packets)] /\ inbox[c] # <<>>
      /\ want \in [Clients -> Wants] /\ book \in [Clients -> [Ids -> Texts \cup {NoText}]]
      /\ outbox \in [Clients -> Seq(Commands)] /\ asked[c].text \in Texts \cup {NoText}
  BY DEF Read, TypeOK, Statements, Commands
<1>2. p \in Packets /\ Tail(inbox[c]) \in Seq(Packets)
  BY <1>1, NonEmpty
<1>3. Follow(c, want[c], p) \in Wants
  BY <1>1, <1>2, FollowTyped
<1>4. Append(outbox[c], Bare("login")) \in Seq(Commands)
  BY <1>1, BareTyped, Appended
<1>5. inbox' \in [Clients -> Seq(Packets)] /\ want' \in [Clients -> Wants]
      /\ outbox' \in [Clients -> Seq(Commands)]
  BY <1>1, <1>2, <1>3, <1>4 DEF Read
<1>6. book' \in [Clients -> [Ids -> Texts \cup {NoText}]]
  BY <1>1 DEF Read
<1> QED
  BY <1>5, <1>6 DEF Read, TypeOK, Statements, taskVars

LEMMA OtherTyped ==
    ASSUME TypeOK, NEW c \in Clients,
           Acquire(c) \/ AcquireFails(c) \/ Row(c) \/ RowsEnd(c) \/ RowFails(c) \/ Hangup(c)
    PROVE  TypeOK'
<1>1. CASE Acquire(c)
  <2>1. todo[c] = <<>> /\ "query" \in Stages \ Writing
    BY <1>1, Nothing DEF Acquire, Stages, Writing, After
  <2>2. Doing'
    BY <1>1, <2>1, GotoTyped DEF Acquire, TypeOK
  <2>3. owner' \in [Conns -> Owners]
    BY <1>1 DEF Acquire, TypeOK, Owners
  <2>4. Having'
    BY <1>1, <2>3, TaskHaving DEF Acquire
  <2> QED
    BY <2>2, <2>4 DEF TypeOK, Doing, Having
<1>2. CASE AcquireFails(c)
  <2>1. Plus1(seq[c]) \in Nat
    BY Numbers DEF TypeOK
  <2>2. Doing'
    BY <1>2, <2>1, ReplyPlainTyped DEF AcquireFails
  <2>3. Having'
    BY <1>2, TaskHaving DEF AcquireFails, TypeOK
  <2> QED
    BY <2>2, <2>3 DEF TypeOK, Doing, Having
<1>3. CASE Row(c)
  <2>1. <<Plain("row")>> \in Seq(Packets) /\ <<Plain("row")>> # <<>>
    BY PlainPackets, Appended
  <2>2. "columns" \in Writing /\ seq[c] \in Nat
    BY DEF Writing, After, TypeOK
  <2>3. Doing'
    BY <1>3, <2>1, <2>2, SendTyped DEF Row
  <2>4. Having'
    BY <1>3, TaskHaving DEF Row, TypeOK
  <2> QED
    BY <2>3, <2>4 DEF TypeOK, Doing, Having
<1>4. CASE RowsEnd(c)
  <2>1. seq[c] \in Nat
    BY DEF TypeOK
  <2>2. Doing'
    BY <1>4, <2>1, ReplyPlainTyped DEF RowsEnd
  <2>3. Having'
    BY <1>4, TaskHaving DEF RowsEnd, TypeOK
  <2> QED
    BY <2>2, <2>3 DEF TypeOK, Doing, Having
<1>5. CASE RowFails(c)
  BY <1>5, EndTyped DEF RowFails, TypeOK
<1>6. CASE Hangup(c)
  BY <1>6, CloseTyped DEF Hangup
<1> QED
  BY <1>1, <1>2, <1>3, <1>4, <1>5, <1>6

LEMMA TypeStep == TypeOK /\ [Next]_vars => TypeOK'
<1> SUFFICES ASSUME TypeOK, [Next]_vars PROVE TypeOK'
  OBVIOUS
<1>1. ASSUME NEW c \in Clients, Task(c) PROVE TypeOK'
  BY <1>1, TaskTyped
<1>2. ASSUME NEW c \in Clients,
             Acquire(c) \/ AcquireFails(c) \/ Row(c) \/ RowsEnd(c) \/ RowFails(c) \/ Hangup(c)
      PROVE  TypeOK'
  BY <1>2, OtherTyped
<1>3. ASSUME NEW c \in Clients, Client(c) PROVE TypeOK'
  BY <1>3, ClientTyped
<1>4. ASSUME NEW c \in Clients, Read(c) PROVE TypeOK'
  BY <1>4, ReadTyped
<1>5. ASSUME NEW k \in Conns, Recycle(k) PROVE TypeOK'
  BY <1>5 DEF Recycle, TypeOK, Owners, clientVars
<1>6. CASE UNCHANGED vars
  BY <1>6 DEF TypeOK, vars, taskVars, clientVars
<1> QED
  BY <1>1, <1>2, <1>3, <1>4, <1>5, <1>6 DEF Next

\* Every variable of the proxy and of its clients keeps its type, and a task of
\* handle_client has packets to write in just the stages that write.
THEOREM TypesHold == Spec => []TypeOK
BY InitTypes, TypeStep, PTL DEF Spec

-----------------------------------------------------------------------------
(* The statement tables.                                                   *)

\* What is on its way: no prepared statement, or that of one id; no request
\* for one, or one as the last command; a request to close a statement.
NoneIn(packets) == \A i \in 1..Len(packets) : packets[i].kind # "prepared"
OneIn(packets, id) ==
    \E i \in 1..Len(packets) :
      /\ packets[i].kind = "prepared" /\ packets[i].id = id
      /\ \A j \in 1..Len(packets) : packets[j].kind = "prepared" => j = i

NoPrepare(commands) == \A i \in 1..Len(commands) : commands[i].op # "prepare"
LastPrepare(commands, text) ==
    /\ commands # <<>>
    /\ commands[Len(commands)].op = "prepare" /\ commands[Len(commands)].text = text
    /\ \A i \in 1..(Len(commands) - 1) : commands[i].op # "prepare"

Closes(commands, id) ==
    \E i \in 1..Len(commands) : commands[i].op = "close" /\ commands[i].id = id

\* What a client may execute is in its table, and is not about to be closed;
\* an id in the table is not given again.
Consistent(c) ==
    \A id \in Ids :
      /\ table[c][id] # NoText => id < nextId[c]
      /\ book[c][id] # NoText => table[c][id] = book[c][id]
      /\ Closes(outbox[c], id) => book[c][id] = NoText

\* The client has given up.
Off(c) == want[c].state \in {"lost", "closed"}

\* The tables are the same, but for what is about to be closed.
Same(c) == \A id \in Ids : table[c][id] = book[c][id] \/ Closes(outbox[c], id)

\* No statement is being prepared;
Unasked(c) ==
    /\ want[c].state # "prepared"
    /\ NoPrepare(outbox[c]) /\ NoneIn(inbox[c]) /\ NoneIn(todo[c])
    /\ Same(c)

\* one has been asked for;
Unread(c) ==
    /\ want[c].state = "prepared"
    /\ LastPrepare(outbox[c], asked[c].text) /\ NoneIn(inbox[c]) /\ NoneIn(todo[c])
    /\ Same(c)

\* it is prepared, and its id is on its way.
Told(c) ==
    /\ want[c].state = "prepared"
    /\ outbox[c] = <<>>
    /\ \E id \in Nat :
         /\ \/ OneIn(inbox[c], id) /\ NoneIn(todo[c])
            \/ NoneIn(inbox[c]) /\ OneIn(todo[c], id)
         /\ \A i \in Ids : table[c][i] = IF i = id THEN asked[c].text ELSE book[c][i]

Agrees(c) == Consistent(c) /\ (Off(c) \/ Unasked(c) \/ Unread(c) \/ Told(c))

\* Before it is authenticated, a client has sent nothing but its login.
Early(c) ==
    stage[c] \in {"off", "greeting", "auth"} =>
      \/ Off(c)
      \/ /\ want[c].state \in {"greeting", "welcome"}
         /\ \A i \in 1..Len(outbox[c]) : outbox[c][i].op = "login"
         /\ \A i \in 1..Len(inbox[c]) : inbox[c][i].kind = "handshake"
         /\ \A i \in 1..Len(todo[c]) : todo[c][i].kind = "handshake"

-----------------------------------------------------------------------------
(* Sequences of packets and of commands.                                   *)

LEMMA TailOf ==
    ASSUME NEW S, NEW s \in Seq(S), s # <<>>
    PROVE  /\ Len(s) \in Nat \ {0} /\ Len(Tail(s)) = Len(s) - 1
           /\ Head(s) = s[1]
           /\ \A i \in 1..Len(s) : i = 1 \/ (i - 1 \in 1..Len(Tail(s)) /\ Tail(s)[i - 1] = s[i])
           /\ \A i \in 1..Len(Tail(s)) : i + 1 \in 1..Len(s) /\ Tail(s)[i] = s[i + 1]
<1>1. /\ Len(s) \in Nat \ {0} /\ Len(Tail(s)) = Len(s) - 1
      /\ \A i \in 1..Len(Tail(s)) : Tail(s)[i] = s[i + 1]
  BY NonEmpty, HeadTailProperties
<1>2. Head(s) = s[1]
  OBVIOUS
<1>3. \A i \in 1..Len(s) : i = 1 \/ (i - 1 \in 1..Len(Tail(s)) /\ (i - 1) + 1 = i)
  BY <1>1
<1> QED
  BY <1>1, <1>2, <1>3

LEMMA AppendOf ==
    ASSUME NEW S, NEW s \in Seq(S), NEW e \in S
    PROVE  /\ Len(s) \in Nat /\ Len(Append(s, e)) = Len(s) + 1
           /\ \A i \in 1..Len(s) : Append(s, e)[i] = s[i]
           /\ Append(s, e)[Len(s) + 1] = e
BY AppendProperties, LenProperties

LEMMA PacketsTail ==
    ASSUME NEW s \in Seq(Packets), s # <<>>
    PROVE  /\ NoneIn(s) => NoneIn(Tail(s)) /\ Head(s).kind # "prepared"
           /\ \A id : OneIn(s, id) =>
                IF Head(s).kind = "prepared" THEN Head(s).id = id /\ NoneIn(Tail(s))
                ELSE OneIn(Tail(s), id)
<1>1. NoneIn(s) => NoneIn(Tail(s)) /\ Head(s).kind # "prepared"
  BY TailOf DEF NoneIn
<1>2. ASSUME NEW id, OneIn(s, id)
      PROVE  IF Head(s).kind = "prepared" THEN Head(s).id = id /\ NoneIn(Tail(s))
             ELSE OneIn(Tail(s), id)
  <2>1. PICK i \in 1..Len(s) :
          /\ s[i].kind = "prepared" /\ s[i].id = id
          /\ \A j \in 1..Len(s) : s[j].kind = "prepared" => j = i
    BY <1>2 DEF OneIn
  <2>2. CASE i = 1
    BY <2>1, <2>2, TailOf DEF NoneIn
  <2>3. CASE i # 1
    <3>1. /\ i - 1 \in 1..Len(Tail(s)) /\ Tail(s)[i - 1] = s[i]
          /\ Head(s).kind # "prepared"
      BY <2>1, <2>3, TailOf
    <3>2. \A j \in 1..Len(Tail(s)) : Tail(s)[j].kind = "prepared" => j = i - 1
      BY <2>1, TailOf
    <3> QED
      BY <2>1, <3>1, <3>2 DEF OneIn
  <2> QED
    BY <2>2, <2>3
<1> QED
  BY <1>1, <1>2

LEMMA PacketsAppend ==
    ASSUME NEW s \in Seq(Packets), NEW e \in Packets
    PROVE  /\ NoneIn(s) /\ e.kind # "prepared" => NoneIn(Append(s, e))
           /\ NoneIn(s) /\ e.kind = "prepared" => OneIn(Append(s, e), e.id)
           /\ \A id : OneIn(s, id) /\ e.kind # "prepared" => OneIn(Append(s, e), id)
<1>1. /\ Len(s) \in Nat /\ Len(Append(s, e)) = Len(s) + 1
      /\ \A i \in 1..Len(s) : Append(s, e)[i] = s[i]
      /\ Append(s, e)[Len(s) + 1] = e
  BY AppendOf
<1>2. \A i \in 1..Len(Append(s, e)) : i \in 1..Len(s) \/ i = Len(s) + 1
  BY <1>1
<1>3. Len(s) + 1 \in 1..Len(Append(s, e)) /\ \A i \in 1..Len(s) : i \in 1..Len(Append(s, e)) /\ i # Len(s) + 1
  BY <1>1
<1>4. NoneIn(s) /\ e.kind # "prepared" => NoneIn(Append(s, e))
  BY <1>1, <1>2 DEF NoneIn
<1>5. NoneIn(s) /\ e.kind = "prepared" => OneIn(Append(s, e), e.id)
  BY <1>1, <1>2, <1>3 DEF NoneIn, OneIn
<1>6. ASSUME NEW id, OneIn(s, id), e.kind # "prepared" PROVE OneIn(Append(s, e), id)
  BY <1>1, <1>2, <1>3, <1>6 DEF OneIn
<1> QED
  BY <1>4, <1>5, <1>6

LEMMA NothingIn ==
    /\ NoneIn(<<>>) /\ NoPrepare(<<>>)
    /\ \A id : ~Closes(<<>>, id) /\ ~OneIn(<<>>, id)
BY DEF NoneIn, OneIn, NoPrepare, Closes

LEMMA CommandsTail ==
    ASSUME NEW s \in Seq(Commands), s # <<>>
    PROVE  /\ NoPrepare(s) => NoPrepare(Tail(s)) /\ Head(s).op # "prepare"
           /\ \A text : LastPrepare(s, text) =>
                IF Head(s).op = "prepare" THEN Head(s).text = text /\ Tail(s) = <<>>
                ELSE LastPrepare(Tail(s), text)
           /\ \A id : Closes(s, id) <=> \/ Closes(Tail(s), id)
                                        \/ Head(s).op = "close" /\ Head(s).id = id
<1>1. NoPrepare(s) => NoPrepare(Tail(s)) /\ Head(s).op # "prepare"
  BY TailOf DEF NoPrepare
<1>2. ASSUME NEW text, LastPrepare(s, text)
      PROVE  IF Head(s).op = "prepare" THEN Head(s).text = text /\ Tail(s) = <<>>
             ELSE LastPrepare(Tail(s), text)
  <2>1. CASE Len(s) = 1
    <3>1. Tail(s) = <<>> /\ Head(s) = s[1]
      BY <2>1, NonEmpty
    <3> QED
      BY <1>2, <2>1, <3>1 DEF LastPrepare
  <2>2. CASE Len(s) # 1
    <3>1. /\ Len(s) \in Nat \ {0} /\ Len(Tail(s)) = Len(s) - 1 /\ Tail(s) # <<>>
          /\ Head(s) = s[1]
          /\ \A i \in 1..Len(Tail(s)) : Tail(s)[i] = s[i + 1]
      BY <2>2, TailOf, NonEmpty
    <3>2. Head(s).op # "prepare"
      BY <1>2, <2>2, <3>1 DEF LastPrepare
    <3>3. Tail(s)[Len(Tail(s))] = s[Len(s)]
      BY <2>2, <3>1
    <3>4. \A i \in 1..(Len(Tail(s)) - 1) : Tail(s)[i].op # "prepare"
      BY <1>2, <2>2, <3>1 DEF LastPrepare
    <3> QED
      BY <1>2, <3>1, <3>2, <3>3, <3>4 DEF LastPrepare
  <2> QED
    BY <2>1, <2>2
<1>3. ASSUME NEW id
      PROVE  Closes(s, id) <=> \/ Closes(Tail(s), id)
                               \/ Head(s).op = "close" /\ Head(s).id = id
  <2>1. Closes(Tail(s), id) => Closes(s, id)
    BY TailOf DEF Closes
  <2>2. Head(s).op = "close" /\ Head(s).id = id => Closes(s, id)
    BY TailOf DEF Closes
  <2>3. ASSUME Closes(s, id)
        PROVE  Closes(Tail(s), id) \/ (Head(s).op = "close" /\ Head(s).id = id)
    <3>1. PICK i \in 1..Len(s) : s[i].op = "close" /\ s[i].id = id
      BY <2>3 DEF Closes
    <3>2. i = 1 \/ (i - 1 \in 1..Len(Tail(s)) /\ Tail(s)[i - 1] = s[i])
      BY TailOf
    <3>3. Head(s) = s[1]
      OBVIOUS
    <3> QED
      BY <3>1, <3>2, <3>3 DEF Closes
  <2> QED
    BY <2>1, <2>2, <2>3
<1> QED
  BY <1>1, <1>2, <1>3

LEMMA CommandsAppend ==
    ASSUME NEW s \in Seq(Commands), NEW e \in Commands
    PROVE  /\ NoPrepare(s) /\ e.op # "prepare" => NoPrepare(Append(s, e))
           /\ NoPrepare(s) /\ e.op = "prepare" => LastPrepare(Append(s, e), e.text)
           /\ \A id : Closes(Append(s, e), id) <=> Closes(s, id) \/ (e.op = "close" /\ e.id = id)
<1>1. /\ Len(s) \in Nat /\ Len(Append(s, e)) = Len(s) + 1
      /\ \A i \in 1..Len(s) : Append(s, e)[i] = s[i]
      /\ Append(s, e)[Len(s) + 1] = e
  BY AppendOf
<1>2. /\ \A i \in 1..Len(Append(s, e)) : i \in 1..Len(s) \/ i = Len(s) + 1
      /\ Len(s) + 1 \in 1..Len(Append(s, e)) /\ \A i \in 1..Len(s) : i \in 1..Len(Append(s, e))
  BY <1>1
<1>3. NoPrepare(s) /\ e.op # "prepare" => NoPrepare(Append(s, e))
  BY <1>1, <1>2 DEF NoPrepare
<1>4. NoPrepare(s) /\ e.op = "prepare" => LastPrepare(Append(s, e), e.text)
  <2>1. Append(s, e) # <<>>
    BY AppendProperties
  <2> QED
    BY <1>1, <2>1 DEF NoPrepare, LastPrepare
<1>5. ASSUME NEW id
      PROVE  Closes(Append(s, e), id) <=> Closes(s, id) \/ (e.op = "close" /\ e.id = id)
  <2>1. Closes(s, id) => Closes(Append(s, e), id)
    BY <1>1, <1>2 DEF Closes
  <2>2. e.op = "close" /\ e.id = id => Closes(Append(s, e), id)
    BY <1>1, <1>2 DEF Closes
  <2>3. ASSUME Closes(Append(s, e), id) PROVE Closes(s, id) \/ (e.op = "close" /\ e.id = id)
    <3>1. PICK i \in 1..Len(Append(s, e)) :
            Append(s, e)[i].op = "close" /\ Append(s, e)[i].id = id
      BY <2>3 DEF Closes
    <3> QED
      BY <1>1, <1>2, <3>1 DEF Closes
  <2> QED
    BY <2>1, <2>2, <2>3
<1> QED
  BY <1>3, <1>4, <1>5

\* The packets of a reply to a prepare hold the id that it announces once.
LEMMA PreparedOnce ==
    ASSUME NEW n \in Nat, NEW id \in Nat
    PROVE  OneIn(PreparedPackets(id, n), id)
<1> DEFINE first == Packet("prepared", n, id)
           parameters == IF n > 0 THEN Append(Repeat("parameter", n), Plain("eof")) ELSE <<>>
           rest == parameters \o <<Plain("eof")>>
<1>1. first \in Packets /\ first.kind = "prepared" /\ first.id = id
      /\ Plain("eof") \in Packets /\ Plain("eof").kind = "eof"
  BY PlainPackets DEF Packet, Packets, Plain
<1>2. Repeat("parameter", n) \in Seq(Packets) /\ NoneIn(Repeat("parameter", n))
  <2>1. Len(Repeat("parameter", n)) = n /\ \A i \in 1..n : Repeat("parameter", n)[i].kind = "parameter"
    BY DEF Repeat, Plain, Packet
  <2> QED
    BY <2>1, PlainPackets DEF NoneIn
<1>3. parameters \in Seq(Packets) /\ NoneIn(parameters)
  BY <1>1, <1>2, PacketsAppend, Appended, NothingIn
<1> HIDE DEF parameters
<1>4. rest = Append(parameters, Plain("eof"))
  BY <1>1, <1>3
<1>5. rest \in Seq(Packets) /\ NoneIn(rest)
  BY <1>1, <1>3, <1>4, PacketsAppend, Appended
<1>6. PreparedPackets(id, n) = <<first>> \o rest
  <2>1. PreparedPackets(id, n) = (<<first>> \o parameters) \o <<Plain("eof")>>
    BY DEF PreparedPackets, parameters
  <2>2. <<first>> \in Seq(Packets) /\ <<Plain("eof")>> \in Seq(Packets)
    BY <1>1
  <2> HIDE DEF first
  <2> QED
    BY <1>3, <2>1, <2>2, ConcatAssociative
<1> HIDE DEF first, rest
<1>7. /\ Len(<<first>> \o rest) = Len(rest) + 1 /\ Len(rest) \in Nat
      /\ (<<first>> \o rest)[1] = first
      /\ \A i \in 2..(Len(rest) + 1) : (<<first>> \o rest)[i] = rest[i - 1] /\ i - 1 \in 1..Len(rest)
  <2>1. <<first>> \in Seq(Packets) /\ Len(<<first>>) = 1 /\ <<first>>[1] = first
    BY <1>1
  <2> QED
    BY <1>5, <2>1, ConcatProperties, LenProperties
<1>8. 1 \in 1..Len(<<first>> \o rest)
      /\ \A j \in 1..Len(<<first>> \o rest) : j = 1 \/ j \in 2..(Len(rest) + 1)
  BY <1>7
<1>9. \A j \in 1..Len(<<first>> \o rest) : (<<first>> \o rest)[j].kind = "prepared" => j = 1
  BY <1>5, <1>7, <1>8 DEF NoneIn
<1>10. OneIn(<<first>> \o rest, id)
  BY <1>1, <1>7, <1>8, <1>9 DEF OneIn
<1> QED
  BY <1>6, <1>10

-----------------------------------------------------------------------------
(* Every step keeps the tables consistent.                                 *)

\* What Agrees says of a client depends on these.
Local(c) ==
    <<table[c], nextId[c], book[c], asked[c], want[c], outbox[c], inbox[c], todo[c]>>

LEMMA Untouched ==
    ASSUME NEW d, Agrees(d), UNCHANGED Local(d)
    PROVE  Agrees(d)'
<1>1. Consistent(d)'
  BY DEF Agrees, Local, Consistent
<1>2. Off(d) => Off(d)'
  BY DEF Local, Off
<1>3. Unasked(d) => Unasked(d)'
  BY DEF Local, Unasked, Same
<1>4. Unread(d) => Unread(d)'
  BY DEF Local, Unread, Same
<1>5. Told(d) => Told(d)'
  BY DEF Local, Told
<1> QED
  BY <1>1, <1>2, <1>3, <1>4, <1>5 DEF Agrees

\* A client that has given up keeps its statements.
LEMMA GivenUp ==
    ASSUME NEW c, Off(c)', Consistent(c),
           UNCHANGED <<table[c], nextId[c], book[c], outbox[c]>>
    PROVE  Agrees(c)'
BY DEF Agrees, Consistent

\* A task that has nothing to write goes on, with a command that is no prepare
\* or close, and with packets that announce no statement.
LEMMA GoesOn ==
    ASSUME TypeOK, NEW c \in Clients, Agrees(c), todo[c] = <<>>, NoneIn(todo'[c]),
           UNCHANGED <<table[c], nextId[c], book[c], asked[c], want[c], inbox[c]>>,
           \/ outbox'[c] = outbox[c]
           \/ /\ outbox[c] # <<>> /\ outbox'[c] = Tail(outbox[c])
              /\ Head(outbox[c]).op \notin {"prepare", "close"}
    PROVE  Agrees(c)'
<1>1. outbox[c] \in Seq(Commands)
  BY DEF TypeOK
<1>2. \A id : Closes(outbox'[c], id) <=> Closes(outbox[c], id)
  BY <1>1, CommandsTail
<1>3. Consistent(c)'
  BY <1>2 DEF Agrees, Consistent
<1>4. Off(c) => Off(c)'
  BY DEF Off
<1>5. ASSUME Unasked(c) PROVE Unasked(c)'
  <2>1. NoPrepare(outbox'[c])
    BY <1>1, <1>5, CommandsTail DEF Unasked
  <2> QED
    BY <1>2, <1>5, <2>1 DEF Unasked, Same
<1>6. ASSUME Unread(c) PROVE Unread(c)'
  <2>1. LastPrepare(outbox'[c], asked[c].text)
    BY <1>1, <1>6, CommandsTail DEF Unread
  <2> QED
    BY <1>2, <1>6, <2>1 DEF Unread, Same
<1>7. ASSUME Told(c) PROVE Told(c)'
  <2>1. outbox'[c] = <<>>
    BY <1>7 DEF Told
  <2> QED
    BY <1>7, <2>1, NothingIn DEF Told
<1> QED
  BY <1>3, <1>4, <1>5, <1>6, <1>7 DEF Agrees

LEMMA PlainHasNone ==
    /\ \A kind \in {"handshake", "ok", "error", "eof", "row"} : NoneIn(<<Plain(kind)>>)
    /\ NoneIn(<<>>)
BY NothingIn DEF NoneIn, Plain, Packet

LEMMA ColumnsHaveNone ==
    ASSUME NEW n \in 1..MaxColumns
    PROVE  NoneIn(<<Packet("count", n, 0)>> \o Repeat("column", n) \o <<Plain("eof")>>)
<1> DEFINE s == <<Packet("count", n, 0)>>
           t == Repeat("column", n)
<1>1. n \in Nat /\ Packet("count", n, 0) \in Packets /\ Plain("eof") \in Packets
      /\ Plain("eof").kind = "eof" /\ Packet("count", n, 0).kind = "count"
  BY ProxyAssumption, PlainPackets DEF Packet, Packets, Plain
<1>2. s \in Seq(Packets) /\ NoneIn(s) /\ Len(s) = 1
  BY <1>1 DEF NoneIn
<1>3. t \in Seq(Packets) /\ Len(t) = n /\ \A i \in 1..n : t[i].kind = "column"
  BY <1>1, PlainPackets DEF Repeat, Plain, Packet
<1> HIDE DEF s, t
<1>4. s \o t \in Seq(Packets) /\ NoneIn(s \o t)
  <2>0. /\ s \o t \in Seq(Packets) /\ Len(s \o t) = Len(s) + Len(t)
        /\ \A i \in 1..Len(s) + Len(t) :
             (s \o t)[i] = IF i <= Len(s) THEN s[i] ELSE t[i - Len(s)]
    BY <1>2, <1>3, ConcatProperties
  <2>1. /\ s \o t \in Seq(Packets) /\ Len(s \o t) = n + 1
        /\ \A i \in 1..(n + 1) : (s \o t)[i] = IF i <= 1 THEN s[i] ELSE t[i - 1]
    BY <1>1, <1>2, <1>3, <2>0
  <2>2. \A i \in 1..(n + 1) : i \in 1..1 \/ (~(i <= 1) /\ i - 1 \in 1..n)
    BY <1>1
  <2> QED
    BY <1>2, <1>3, <2>1, <2>2 DEF NoneIn
<1>5. (s \o t) \o <<Plain("eof")>> = Append(s \o t, Plain("eof"))
  BY <1>1, <1>4
<1>6. NoneIn((s \o t) \o <<Plain("eof")>>)
  BY <1>1, <1>4, <1>5, PacketsAppend
<1> QED
  BY <1>6 DEF s, t

LEMMA WriteAgrees ==
    ASSUME TypeOK, NEW c \in Clients, Agrees(c), Write(c)
    PROVE  Agrees(c)'
<1> DEFINE p == [Head(todo[c]) EXCEPT !.seq = seq[c]]
<1>1. /\ todo[c] \in Seq(Packets) /\ todo[c] # <<>> /\ inbox[c] \in Seq(Packets) /\ seq[c] \in Nat
      /\ todo'[c] = Tail(todo[c])
      /\ UNCHANGED <<table[c], nextId[c], book[c], asked[c], want[c], outbox[c]>>
  BY DEF Write, TypeOK, clientVars
<1>2. CASE Gone(c)
  <2>1. Off(c)'
    BY <1>1, <1>2 DEF Off, Gone
  <2> QED
    BY <1>1, <2>1, GivenUp DEF Agrees
<1>3. CASE ~Gone(c)
  <2>1. inbox'[c] = Append(inbox[c], p)
    BY <1>3 DEF Write, TypeOK
  <2>2. Head(todo[c]) \in Packets
    BY <1>1, NonEmpty
  <2>3. p \in Packets /\ p.kind = Head(todo[c]).kind /\ p.id = Head(todo[c]).id
    BY <1>1, <2>2 DEF Packets
  <2> HIDE DEF p
  <2>4. Consistent(c)'
    BY <1>1 DEF Agrees, Consistent
  <2>5. Off(c) => Off(c)'
    BY <1>1 DEF Off
  <2>6. NoneIn(todo[c]) => NoneIn(todo'[c]) /\ p.kind # "prepared"
    BY <1>1, <2>3, PacketsTail
  <2>7. NoneIn(todo[c]) /\ NoneIn(inbox[c]) => NoneIn(inbox'[c])
    BY <1>1, <2>1, <2>3, <2>6, PacketsAppend
  <2>8. Unasked(c) => Unasked(c)'
    BY <1>1, <2>6, <2>7 DEF Unasked, Same
  <2>9. Unread(c) => Unread(c)'
    BY <1>1, <2>6, <2>7 DEF Unread, Same
  <2>10. ASSUME Told(c) PROVE Told(c)'
    <3>1. PICK id \in Nat :
            /\ \/ OneIn(inbox[c], id) /\ NoneIn(todo[c])
               \/ NoneIn(inbox[c]) /\ OneIn(todo[c], id)
            /\ \A i \in Ids : table[c][i] = IF i = id THEN asked[c].text ELSE book[c][i]
      BY <2>10 DEF Told
    <3>2. CASE OneIn(inbox[c], id) /\ NoneIn(todo[c])
      <4>1. OneIn(inbox'[c], id) /\ NoneIn(todo'[c])
        BY <1>1, <2>1, <2>3, <2>6, <3>2, PacketsAppend
      <4> QED
        BY <1>1, <2>10, <3>1, <4>1 DEF Told
    <3>3. CASE NoneIn(inbox[c]) /\ OneIn(todo[c], id)
      <4>1. \/ OneIn(inbox'[c], id) /\ NoneIn(todo'[c])
            \/ NoneIn(inbox'[c]) /\ OneIn(todo'[c], id)
        BY <1>1, <2>1, <2>3, <3>3, PacketsTail, PacketsAppend
      <4> QED
        BY <1>1, <2>10, <3>1, <4>1 DEF Told
    <3> QED
      BY <3>1, <3>2, <3>3
  <2> QED
    BY <2>4, <2>5, <2>8, <2>9, <2>10 DEF Agrees
<1> QED
  BY <1>2, <1>3

LEMMA PrepareAgrees ==
    ASSUME TypeOK, NEW c \in Clients, Agrees(c), Prepare(c)
    PROVE  Agrees(c)'
<1> DEFINE text == Head(outbox[c]).text
           packets == PreparedPackets(nextId[c], Markers[text])
<1>1. /\ outbox[c] \in Seq(Commands) /\ outbox[c] # <<>> /\ Head(outbox[c]).op = "prepare"
      /\ outbox'[c] = Tail(outbox[c]) /\ todo'[c] = packets /\ todo[c] = <<>>
      /\ UNCHANGED <<book[c], asked[c], want[c], inbox[c]>>
  BY Nothing DEF Prepare, Reads, Reply, Send, TypeOK, clientVars
<1>2. /\ nextId[c] \in Nat /\ text \in Texts /\ nextId'[c] = nextId[c] + 1
      /\ table[c] \in Statements /\ table'[c] = [table[c] EXCEPT ![nextId[c]] = text]
  BY <1>1, ReadsTyped DEF Prepare, TypeOK
<1>3. Ids \subseteq Nat /\ NoText \notin Texts /\ Markers[text] \in Nat
  BY <1>2, IdsAreNumbers, ProxyAssumption
<1>4. OneIn(packets, nextId[c])
  BY <1>2, <1>3, PreparedOnce
<1>5. \A id : Closes(outbox'[c], id) => Closes(outbox[c], id)
  BY <1>1, CommandsTail
<1>6. \A id \in Ids : id = nextId[c] => table[c][id] = NoText /\ book[c][id] = NoText
  BY <1>2 DEF Agrees, Consistent
<1> HIDE DEF packets, text
<1>7. \A id \in Ids : table'[c][id] = IF id = nextId[c] THEN text ELSE table[c][id]
  BY <1>2 DEF Statements
<1>8. Consistent(c)'
  <2> SUFFICES ASSUME NEW id \in Ids
               PROVE  /\ table'[c][id] # NoText => id < nextId'[c]
                      /\ book'[c][id] # NoText => table'[c][id] = book'[c][id]
                      /\ Closes(outbox'[c], id) => book'[c][id] = NoText
    BY DEF Consistent
  <2>1. /\ table[c][id] # NoText => id < nextId[c]
        /\ book[c][id] # NoText => table[c][id] = book[c][id]
        /\ Closes(outbox[c], id) => book[c][id] = NoText
    BY DEF Agrees, Consistent
  <2> QED
    BY <1>1, <1>2, <1>3, <1>5, <1>6, <1>7, <2>1
<1>9. CASE Off(c)
  BY <1>1, <1>8, <1>9 DEF Agrees, Off
<1>10. CASE Unasked(c)
  BY <1>1, <1>10, CommandsTail DEF Unasked
<1>11. CASE Unread(c)
  <2>1. Tail(outbox[c]) = <<>> /\ text = asked[c].text
    BY <1>1, <1>11, CommandsTail DEF Unread, text
  <2>2. \A id \in Ids : table[c][id] = book[c][id]
    <3> TAKE id \in Ids
    <3>1. ~Closes(outbox[c], id)
      <4>1. ~Closes(Tail(outbox[c]), id)
        BY <2>1, NothingIn
      <4>2. Head(outbox[c]).op # "close"
        BY <1>1
      <4> QED
        BY <1>1, <4>1, <4>2, CommandsTail
    <3> QED
      BY <1>11, <3>1 DEF Unread, Same
  <2>3. \A i \in Ids : table'[c][i] = IF i = nextId[c] THEN asked'[c].text ELSE book'[c][i]
    BY <1>1, <1>7, <2>1, <2>2
  <2>4. NoneIn(inbox'[c]) /\ OneIn(todo'[c], nextId[c])
    BY <1>1, <1>4, <1>11 DEF Unread
  <2>5. Told(c)'
    BY <1>1, <1>2, <1>11, <2>1, <2>3, <2>4 DEF Told, Unread
  <2> QED
    BY <1>8, <2>5 DEF Agrees
<1>12. CASE Told(c)
  BY <1>1, <1>12 DEF Told
<1> QED
  BY <1>9, <1>10, <1>11, <1>12 DEF Agrees

LEMMA CloseStatementAgrees ==
    ASSUME TypeOK, NEW c \in Clients, Agrees(c), CloseStatement(c)
    PROVE  Agrees(c)'
<1> DEFINE gone == Head(outbox[c]).id
<1>1. /\ outbox[c] \in Seq(Commands) /\ outbox[c] # <<>> /\ Head(outbox[c]).op = "close"
      /\ outbox'[c] = Tail(outbox[c])
      /\ table[c] \in Statements /\ table'[c] = [table[c] EXCEPT ![gone] = NoText]
      /\ UNCHANGED <<nextId[c], book[c], asked[c], want[c], inbox[c], todo[c]>>
  BY DEF CloseStatement, Reads, TypeOK, clientVars
<1>2. \A id : Closes(outbox[c], id) <=> Closes(outbox'[c], id) \/ gone = id
  BY <1>1, CommandsTail
<1> HIDE DEF gone
<1>3. \A id \in Ids : table'[c][id] = IF id = gone THEN NoText ELSE table[c][id]
  BY <1>1 DEF Statements
<1>4. Consistent(c)'
  <2> SUFFICES ASSUME NEW id \in Ids
               PROVE  /\ table'[c][id] # NoText => id < nextId'[c]
                      /\ book'[c][id] # NoText => table'[c][id] = book'[c][id]
                      /\ Closes(outbox'[c], id) => book'[c][id] = NoText
    BY DEF Consistent
  <2>1. /\ table[c][id] # NoText => id < nextId[c]
        /\ book[c][id] # NoText => table[c][id] = book[c][id]
        /\ Closes(outbox[c], id) => book[c][id] = NoText
    BY DEF Agrees, Consistent
  <2>2. id = gone => book[c][id] = NoText
    BY <1>2, <2>1
  <2> QED
    BY <1>1, <1>2, <1>3, <2>1, <2>2
<1>5. Same(c) => Same(c)'
  <2> SUFFICES ASSUME Same(c), NEW id \in Ids
               PROVE  table'[c][id] = book'[c][id] \/ Closes(outbox'[c], id)
    BY DEF Same
  <2>1. table[c][id] = book[c][id] \/ Closes(outbox[c], id)
    BY DEF Same
  <2>2. id = gone => book[c][id] = NoText
    BY <1>2 DEF Agrees, Consistent
  <2> QED
    BY <1>1, <1>2, <1>3, <2>1, <2>2
<1>6. Off(c) => Off(c)'
  BY <1>1 DEF Off
<1>7. Unasked(c) => Unasked(c)'
  BY <1>1, <1>5, CommandsTail DEF Unasked
<1>8. Unread(c) => Unread(c)'
  BY <1>1, <1>5, CommandsTail DEF Unread
<1>9. ~Told(c)
  BY <1>1 DEF Told
<1> QED
  BY <1>4, <1>6, <1>7, <1>8, <1>9 DEF Agrees

\* Every other step of a task goes on or ends.
LEMMA EndAgrees ==
    ASSUME TypeOK, NEW c \in Clients, Agrees(c), End(c), todo[c] = <<>>,
           \/ outbox' = outbox
           \/ Reads(c, "quit")
    PROVE  Agrees(c)'
<1>1. /\ todo'[c] = <<>>
      /\ UNCHANGED <<table[c], nextId[c], book[c], asked[c], want[c], inbox[c]>>
  BY DEF End, TypeOK, clientVars
<1>2. \/ outbox'[c] = outbox[c]
      \/ /\ outbox[c] # <<>> /\ outbox'[c] = Tail(outbox[c])
         /\ Head(outbox[c]).op \notin {"prepare", "close"}
  BY DEF Reads, TypeOK
<1> QED
  BY <1>1, <1>2, GoesOn, PlainHasNone

LEMMA TaskAgrees ==
    ASSUME TypeOK, NEW c \in Clients, Early(c), Agrees(c), Task(c)
    PROVE  Agrees(c)'
<1> DEFINE kept == UNCHANGED <<table[c], nextId[c], book[c], asked[c], want[c], inbox[c]>>
           passed == /\ outbox[c] # <<>> /\ outbox'[c] = Tail(outbox[c])
                     /\ Head(outbox[c]).op \notin {"prepare", "close"}
<1>1. CASE Accept(c)
  <2>1. kept /\ outbox'[c] = outbox[c] /\ todo'[c] = <<Plain("handshake")>> /\ todo[c] = <<>>
    BY <1>1, Nothing DEF Accept, Send, TypeOK, clientVars
  <2> QED
    BY <2>1, GoesOn, PlainHasNone
<1>2. CASE Write(c)
  BY <1>2, WriteAgrees
<1>3. CASE Broken(c)
  <2>1. Off(c)' /\ UNCHANGED <<table[c], nextId[c], book[c], outbox[c]>>
    BY <1>3 DEF Broken, End, Gone, Off, clientVars
  <2> QED
    BY <2>1, GivenUp DEF Agrees
<1>4. CASE Authenticate(c)
  <2>1. /\ kept /\ outbox[c] # <<>> /\ outbox'[c] = Tail(outbox[c])
        /\ todo'[c] = <<Plain("ok")>> /\ todo[c] = <<>>
    BY <1>4, Nothing DEF Authenticate, Send, TypeOK, clientVars
  <2>2. CASE Off(c)
    <3>1. outbox[c] \in Seq(Commands)
      BY DEF TypeOK
    <3>2. Consistent(c)'
      BY <2>1, <3>1, CommandsTail DEF Agrees, Consistent
    <3> QED
      BY <2>1, <2>2, <3>2 DEF Agrees, Off
  <2>3. CASE ~Off(c)
    <3>1. Head(outbox[c]).op = "login"
      <4>1. outbox[c] \in Seq(Commands) /\ Head(outbox[c]) = outbox[c][1] /\ 1 \in 1..Len(outbox[c])
        BY <2>1, NonEmpty DEF TypeOK
      <4> QED
        BY <1>4, <2>3, <4>1 DEF Authenticate, Early
    <3> QED
      BY <2>1, <3>1, GoesOn, PlainHasNone
  <2> QED
    BY <2>2, <2>3
<1>5. CASE Acknowledge(c)
  <2>1. kept /\ passed /\ todo'[c] = <<Plain("ok")>> /\ todo[c] = <<>>
    BY <1>5, Nothing DEF Acknowledge, Reads, Reply, Send, TypeOK, clientVars
  <2> QED
    BY <2>1, GoesOn, PlainHasNone
<1>6. CASE Query(c) \/ Ignore(c)
  <2>1. kept /\ passed /\ todo'[c] = <<>> /\ todo[c] = <<>>
    BY <1>6, Nothing DEF Query, Ignore, Reads, TypeOK, clientVars
  <2> QED
    BY <2>1, GoesOn, PlainHasNone
<1>7. CASE Prepare(c)
  BY <1>7, PrepareAgrees
<1>8. CASE Execute(c)
  <2>1. /\ kept /\ passed /\ todo[c] = <<>>
        /\ todo'[c] = <<>> \/ todo'[c] = <<Plain("error")>>
    BY <1>8, Nothing DEF Execute, Reads, Reply, Send, TypeOK, clientVars
  <2> QED
    BY <2>1, GoesOn, PlainHasNone
<1>9. CASE CloseStatement(c)
  BY <1>9, CloseStatementAgrees
<1>10. CASE Quit(c)
  <2>1. todo[c] = <<>>
    BY <1>10, Nothing DEF Quit, Reads
  <2> QED
    BY <1>10, <2>1, EndAgrees DEF Quit
<1>11. CASE Answer(c)
  <2>1. kept /\ outbox'[c] = outbox[c] /\ todo[c] = <<>>
    BY <1>11, Nothing DEF Answer, TypeOK, clientVars
  <2>2. NoneIn(todo'[c])
    <3>1. CASE todo'[c] = <<Plain("error")>> \/ todo'[c] = <<Plain("ok")>>
      BY <3>1, PlainHasNone
    <3>2. CASE \E n \in 1..MaxColumns :
                 todo'[c] = <<Packet("count", n, 0)>> \o Repeat("column", n) \o <<Plain("eof")>>
      BY <3>2, ColumnsHaveNone
    <3> QED
      BY <1>11, <3>1, <3>2 DEF Answer, Reply, Send, TypeOK
  <2> QED
    BY <2>1, <2>2, GoesOn
<1> QED
  BY <1>1, <1>2, <1>3, <1>4, <1>5, <1>6, <1>7, <1>8, <1>9, <1>10, <1>11 DEF Task

\* The packets that a client asks and reads.
LEMMA AskAgrees ==
    ASSUME TypeOK, NEW c \in Clients, Agrees(c), NEW command \in Commands,
           NEW next \in {"answer", "prepared", "idle"}, Ask(c, command, next),
           \/ command.op \notin {"prepare", "close"} /\ next # "prepared" /\ book' = book
           \/ command.op = "prepare" /\ next = "prepared" /\ book' = book
           \/ /\ command.op = "close" /\ next # "prepared" /\ command.id \in Ids
              /\ book[c][command.id] # NoText
              /\ book' = [book EXCEPT ![c][command.id] = NoText]
    PROVE  Agrees(c)'
<1>1. /\ want[c].state = "idle" /\ want'[c].state = next /\ outbox[c] \in Seq(Commands)
      /\ outbox'[c] = Append(outbox[c], command) /\ asked'[c] = command
      /\ UNCHANGED <<table[c], nextId[c], inbox[c], todo[c]>>
  BY DEF Ask, Want, TypeOK, taskVars
<1>2. Unasked(c)
  BY <1>1 DEF Agrees, Off, Unread, Told
<1>3. \A id : Closes(outbox'[c], id) <=>
                Closes(outbox[c], id) \/ (command.op = "close" /\ command.id = id)
  BY <1>1, CommandsAppend
<1>4. \A id \in Ids : book'[c][id] = IF command.op = "close" /\ id = command.id THEN NoText
                                    ELSE book[c][id]
  BY DEF TypeOK, Statements
<1>5. Consistent(c)'
  <2> SUFFICES ASSUME NEW id \in Ids
               PROVE  /\ table'[c][id] # NoText => id < nextId'[c]
                      /\ book'[c][id] # NoText => table'[c][id] = book'[c][id]
                      /\ Closes(outbox'[c], id) => book'[c][id] = NoText
    BY DEF Consistent
  <2>1. /\ table[c][id] # NoText => id < nextId[c]
        /\ book[c][id] # NoText => table[c][id] = book[c][id]
        /\ Closes(outbox[c], id) => book[c][id] = NoText
    BY DEF Agrees, Consistent
  <2> QED
    BY <1>1, <1>3, <1>4, <2>1
<1>6. Same(c)'
  <2> SUFFICES ASSUME NEW id \in Ids
               PROVE  table'[c][id] = book'[c][id] \/ Closes(outbox'[c], id)
    BY DEF Same
  <2>1. table[c][id] = book[c][id] \/ Closes(outbox[c], id)
    BY <1>2 DEF Unasked, Same
  <2> QED
    BY <1>1, <1>3, <1>4, <2>1
<1>7. CASE command.op = "prepare" /\ next = "prepared"
  <2>1. LastPrepare(outbox'[c], asked'[c].text)
    BY <1>1, <1>2, <1>7, CommandsAppend DEF Unasked
  <2>2. Unread(c)'
    BY <1>1, <1>2, <1>6, <1>7, <2>1 DEF Unasked, Unread
  <2> QED
    BY <1>5, <2>2 DEF Agrees
<1>8. CASE command.op # "prepare" /\ next # "prepared"
  <2>1. NoPrepare(outbox'[c])
    BY <1>1, <1>2, <1>8, CommandsAppend DEF Unasked
  <2>2. Unasked(c)'
    BY <1>1, <1>2, <1>6, <1>8, <2>1 DEF Unasked
  <2> QED
    BY <1>5, <2>2 DEF Agrees
<1> QED
  BY <1>7, <1>8

LEMMA CloseAgrees ==
    ASSUME TypeOK, NEW c \in Clients, Agrees(c), Close(c)
    PROVE  Agrees(c)'
<1>1. Off(c)' /\ UNCHANGED <<table[c], nextId[c], book[c], outbox[c]>>
  BY DEF Close, Off, Want, TypeOK, taskVars
<1> QED
  BY <1>1, GivenUp DEF Agrees

LEMMA ClientAgrees ==
    ASSUME TypeOK, NEW c \in Clients, Agrees(c), Client(c)
    PROVE  Agrees(c)'
<1>1. CASE AskQuery(c)
  <2>1. PICK op \in {"query", "ping", "other"} : Ask(c, Bare(op), "answer") /\ UNCHANGED book
    BY <1>1 DEF AskQuery
  <2>2. Bare(op) \in Commands /\ Bare(op).op \notin {"prepare", "close"}
    BY BareTyped DEF Bare, Command
  <2> QED
    BY <2>1, <2>2, AskAgrees
<1>2. CASE AskPrepare(c)
  <2>1. PICK t \in Texts : Ask(c, Command("prepare", t, 0), "prepared") /\ UNCHANGED book
    BY <1>2 DEF AskPrepare
  <2>2. Command("prepare", t, 0) \in Commands /\ Command("prepare", t, 0).op = "prepare"
    BY DEF Command, Commands
  <2> QED
    BY <2>1, <2>2, AskAgrees
<1>3. CASE AskExecute(c)
  <2>1. PICK id \in Ids \cup {0} :
          Ask(c, Command("execute", NoText, id), "answer") /\ UNCHANGED book
    BY <1>3 DEF AskExecute
  <2>2. id \in Nat
    BY IdsAreNumbers
  <2>3. /\ Command("execute", NoText, id) \in Commands
        /\ Command("execute", NoText, id).op = "execute"
    BY <2>2 DEF Command, Commands
  <2> QED
    BY <2>1, <2>3, AskAgrees
<1>4. CASE AskClose(c)
  <2>1. PICK id \in Ids : /\ Has(book[c], id)
                          /\ Ask(c, Command("close", NoText, id), "idle")
                          /\ book' = [book EXCEPT ![c][id] = NoText]
    BY <1>4 DEF AskClose
  <2>2. id \in Nat
    BY IdsAreNumbers
  <2>3. /\ Command("close", NoText, id) \in Commands /\ Command("close", NoText, id).id = id
        /\ Command("close", NoText, id).op = "close"
    BY <2>2 DEF Command, Commands
  <2> QED
    BY <2>1, <2>3, AskAgrees DEF Has
<1>5. CASE AskQuit(c)
  <2>1. Bare("quit") \in Commands /\ Bare("quit").op = "quit"
    BY BareTyped DEF Bare, Command
  <2> QED
    BY <1>5, <2>1, AskAgrees DEF AskQuit
<1>6. CASE Leave(c)
  BY <1>6, CloseAgrees DEF Leave
<1> QED
  BY <1>1, <1>2, <1>3, <1>4, <1>5, <1>6 DEF Client

LEMMA ReadAgrees ==
    ASSUME TypeOK, NEW c \in Clients, Agrees(c), Read(c)
    PROVE  Agrees(c)'
<1> DEFINE p == Head(inbox[c])
<1>1. /\ inbox[c] \in Seq(Packets) /\ inbox[c] # <<>> /\ inbox'[c] = Tail(inbox[c])
      /\ want[c] \in Wants /\ want'[c] = Follow(c, want[c], p) /\ outbox[c] \in Seq(Commands)
      /\ book[c] \in Statements
      /\ ~Off(c)
      /\ UNCHANGED <<table[c], nextId[c], asked[c], todo[c]>>
  BY DEF Read, Off, Waiting, TypeOK, taskVars
<1>2. p \in Packets
  BY <1>1, NonEmpty
<1>3. /\ want'[c].state # "prepared"
      /\ want[c].state = "prepared" /\ p.kind # "prepared" => Off(c)'
  BY <1>1, <1>2, FollowTyped DEF Off
<1>4. CASE want[c].state # "prepared"
  <2>1. Unasked(c) /\ book'[c] = book[c]
    BY <1>1, <1>4 DEF Agrees, Unread, Told, Read
  <2>2. outbox'[c] = outbox[c] \/ outbox'[c] = Append(outbox[c], Bare("login"))
    BY DEF Read, TypeOK
  <2>3. Bare("login") \in Commands /\ Bare("login").op = "login"
    BY BareTyped DEF Bare, Command
  <2>4. NoPrepare(outbox'[c]) /\ \A id : Closes(outbox'[c], id) <=> Closes(outbox[c], id)
    <3>1. /\ NoPrepare(outbox[c]) => NoPrepare(Append(outbox[c], Bare("login")))
          /\ \A id : Closes(Append(outbox[c], Bare("login")), id) <=> Closes(outbox[c], id)
      BY <1>1, <2>3, CommandsAppend
    <3>2. NoPrepare(outbox[c])
      BY <2>1 DEF Unasked
    <3> QED
      BY <2>2, <3>1, <3>2
  <2>5. NoneIn(inbox'[c])
    BY <1>1, <2>1, PacketsTail DEF Unasked
  <2>6. Unasked(c)'
    BY <1>1, <1>3, <2>1, <2>4, <2>5 DEF Unasked, Same
  <2>7. Consistent(c)'
    BY <1>1, <2>1, <2>4 DEF Agrees, Consistent
  <2> QED
    BY <2>6, <2>7 DEF Agrees
<1>5. CASE want[c].state = "prepared" /\ p.kind # "prepared"
  <2>1. book'[c] = book[c] /\ outbox'[c] = outbox[c]
    BY <1>5 DEF Read
  <2> QED
    BY <1>1, <1>3, <1>5, <2>1, GivenUp DEF Agrees
<1>6. CASE want[c].state = "prepared" /\ p.kind = "prepared"
  <2>1. Told(c)
    BY <1>1, <1>2, <1>6, PacketsTail DEF Agrees, Unasked, Unread
  <2>2. PICK id \in Nat :
          /\ \/ OneIn(inbox[c], id) /\ NoneIn(todo[c])
             \/ NoneIn(inbox[c]) /\ OneIn(todo[c], id)
          /\ \A i \in Ids : table[c][i] = IF i = id THEN asked[c].text ELSE book[c][i]
    BY <2>1 DEF Told
  <2>3. p.id = id /\ NoneIn(inbox'[c]) /\ NoneIn(todo'[c])
    BY <1>1, <1>6, <2>2, PacketsTail
  <2>4. outbox'[c] = <<>> /\ outbox[c] = <<>>
    BY <1>6, <2>1 DEF Read, Told
  <2>5. \A i \in Ids : book'[c][i] = table[c][i]
    <3>1. book' = [book EXCEPT ![c] = [@ EXCEPT ![id] = asked[c].text]]
      BY <1>6, <2>3 DEF Read
    <3>2. book'[c] = [book[c] EXCEPT ![id] = asked[c].text]
      BY <3>1 DEF TypeOK
    <3> QED
      BY <1>1, <2>2, <3>2 DEF Statements
  <2>6. Consistent(c)'
    BY <1>1, <2>4, <2>5, NothingIn DEF Agrees, Consistent
  <2>7. Unasked(c)'
    BY <1>1, <1>3, <2>3, <2>4, <2>5, NothingIn DEF Unasked, Same
  <2> QED
    BY <2>6, <2>7 DEF Agrees
<1> QED
  BY <1>4, <1>5, <1>6

LEMMA OtherAgrees ==
    ASSUME TypeOK, NEW c \in Clients, Agrees(c),
           Acquire(c) \/ AcquireFails(c) \/ Row(c) \/ RowsEnd(c) \/ RowFails(c) \/ Hangup(c)
    PROVE  Agrees(c)'
<1> DEFINE kept == UNCHANGED <<table[c], nextId[c], book[c], asked[c], want[c], inbox[c]>>
<1>1. CASE Acquire(c)
  BY <1>1, Untouched DEF Acquire, Local, clientVars
<1>2. CASE AcquireFails(c) \/ RowsEnd(c) \/ Row(c)
  <2>1. /\ kept /\ outbox'[c] = outbox[c] /\ todo[c] = <<>>
        /\ todo'[c] \in {<<Plain("error")>>, <<Plain("eof")>>, <<Plain("row")>>}
    BY <1>2, Nothing DEF AcquireFails, RowsEnd, Row, Reply, Send, TypeOK, clientVars
  <2> QED
    BY <2>1, GoesOn, PlainHasNone
<1>3. CASE RowFails(c)
  <2>1. todo[c] = <<>>
    BY <1>3, Nothing DEF RowFails
  <2> QED
    BY <1>3, <2>1, EndAgrees DEF RowFails
<1>4. CASE Hangup(c)
  BY <1>4, CloseAgrees DEF Hangup
<1> QED
  BY <1>1, <1>2, <1>3, <1>4

\* Until it is authenticated, a client has sent nothing but its login.
LEMMA EarlyStays ==
    ASSUME NEW c, Early(c), UNCHANGED <<stage[c], Local(c)>>
    PROVE  Early(c)'
BY DEF Early, Off, Local

LEMMA LateTask ==
    ASSUME TypeOK, NEW c \in Clients, Task(c), ~Accept(c), ~Write(c)
    PROVE  stage'[c] \notin {"off", "greeting", "auth"}
<1>1. CASE Broken(c) \/ Authenticate(c) \/ Acknowledge(c) \/ Query(c)
  BY <1>1 DEF Broken, End, Authenticate, Acknowledge, Query, Reply, Send, Goto, TypeOK
<1>2. CASE Prepare(c) \/ Execute(c) \/ Quit(c)
  BY <1>2 DEF Prepare, Execute, Quit, End, Reply, Send, Goto, TypeOK
<1>3. CASE CloseStatement(c) \/ Ignore(c)
  BY <1>3 DEF CloseStatement, Ignore, Reads
<1>4. CASE Answer(c)
  BY <1>4 DEF Answer, Reply, Send, Goto, TypeOK
<1> QED
  BY <1>1, <1>2, <1>3, <1>4 DEF Task

LEMMA TaskEarly ==
    ASSUME TypeOK, NEW c \in Clients, Early(c), Task(c)
    PROVE  Early(c)'
<1>1. CASE Accept(c)
  <2>1. /\ stage[c] = "off" /\ todo'[c] = <<Plain("handshake")>>
        /\ UNCHANGED <<want[c], outbox[c], inbox[c]>>
    BY <1>1 DEF Accept, Send, TypeOK, clientVars
  <2>2. \A i \in 1..Len(todo'[c]) : todo'[c][i].kind = "handshake"
    BY <2>1 DEF Plain, Packet
  <2> QED
    BY <2>1, <2>2 DEF Early, Off
<1>2. CASE Write(c)
  <2> DEFINE p == [Head(todo[c]) EXCEPT !.seq = seq[c]]
  <2>1. /\ todo[c] \in Seq(Packets) /\ todo[c] # <<>> /\ inbox[c] \in Seq(Packets)
        /\ seq[c] \in Nat /\ todo'[c] = Tail(todo[c])
        /\ inbox'[c] = inbox[c] \/ inbox'[c] = Append(inbox[c], p)
        /\ UNCHANGED <<want[c], outbox[c]>>
    BY <1>2 DEF Write, TypeOK, clientVars
  <2>2. stage[c] \notin {"off", "greeting", "auth"} => stage'[c] \notin {"off", "greeting", "auth"}
    <3>1. stage'[c] = stage[c] \/ stage'[c] = After[stage[c]]
      BY <1>2 DEF Write, Goto, TypeOK
    <3>2. stage[c] \in {"greeting", "welcome", "columns", "reply"}
      BY <1>2 DEF Write, Writing, After
    <3> QED
      BY <3>1, <3>2 DEF After
  <2>3. ASSUME \A i \in 1..Len(inbox[c]) : inbox[c][i].kind = "handshake",
               \A i \in 1..Len(todo[c]) : todo[c][i].kind = "handshake"
        PROVE  /\ \A i \in 1..Len(inbox'[c]) : inbox'[c][i].kind = "handshake"
               /\ \A i \in 1..Len(todo'[c]) : todo'[c][i].kind = "handshake"
    <3>1. \A i \in 1..Len(todo'[c]) : todo'[c][i].kind = "handshake"
      BY <2>1, <2>3, TailOf
    <3>2. Head(todo[c]) \in Packets /\ Head(todo[c]).kind = "handshake"
      BY <2>1, <2>3, NonEmpty
    <3>3. p \in Packets /\ p.kind = "handshake"
      BY <2>1, <3>2 DEF Packets
    <3> HIDE DEF p
    <3>4. \A i \in 1..Len(inbox'[c]) : inbox'[c][i].kind = "handshake"
      <4>1. CASE inbox'[c] = Append(inbox[c], p)
        <5>1. /\ Len(inbox[c]) \in Nat /\ Len(inbox'[c]) = Len(inbox[c]) + 1
              /\ \A i \in 1..Len(inbox[c]) : inbox'[c][i] = inbox[c][i]
              /\ inbox'[c][Len(inbox[c]) + 1] = p
          BY <2>1, <3>3, <4>1, AppendOf
        <5>2. \A i \in 1..Len(inbox'[c]) : i \in 1..Len(inbox[c]) \/ i = Len(inbox[c]) + 1
          BY <5>1
        <5> QED
          BY <2>3, <3>3, <5>1, <5>2
      <4> QED
        BY <2>1, <2>3, <4>1 DEF p
    <3> QED
      BY <3>1, <3>4
  <2> HIDE DEF p
  <2> QED
    BY <2>1, <2>2, <2>3 DEF Early, Off
<1> QED
  BY <1>1, <1>2, LateTask DEF Early

LEMMA OtherEarly ==
    ASSUME TypeOK, NEW c \in Clients, Early(c),
           \/ Acquire(c) \/ AcquireFails(c) \/ Row(c) \/ RowsEnd(c) \/ RowFails(c)
           \/ Hangup(c) \/ Client(c)
    PROVE  Early(c)'
<1>1. CASE Acquire(c) \/ AcquireFails(c) \/ Row(c) \/ RowsEnd(c) \/ RowFails(c)
  <2>1. stage'[c] \notin {"off", "greeting", "auth"}
    BY <1>1 DEF Acquire, AcquireFails, Row, RowsEnd, RowFails, End, Reply, Send, Goto, TypeOK
  <2> QED
    BY <2>1 DEF Early
<1>2. CASE Hangup(c) \/ Leave(c)
  <2>1. Off(c)'
    BY <1>2 DEF Hangup, Leave, Close, Off, Want, TypeOK
  <2> QED
    BY <2>1 DEF Early
<1>3. CASE Client(c) /\ ~Leave(c)
  <2>1. want[c].state = "idle" /\ stage' = stage
    BY <1>3 DEF Client, AskQuery, AskPrepare, AskExecute, AskClose, AskQuit, Ask, taskVars
  <2> QED
    BY <2>1 DEF Early, Off
<1> QED
  BY <1>1, <1>2, <1>3

LEMMA ReadEarly ==
    ASSUME TypeOK, NEW c \in Clients, Early(c), Read(c)
    PROVE  Early(c)'
<1> DEFINE p == Head(inbox[c])
<1>1. /\ inbox[c] \in Seq(Packets) /\ inbox[c] # <<>> /\ inbox'[c] = Tail(inbox[c])
      /\ want[c] \in Wants /\ want'[c] = Follow(c, want[c], p) /\ outbox[c] \in Seq(Commands)
      /\ outbox'[c] = outbox[c] \/ outbox'[c] = Append(outbox[c], Bare("login"))
      /\ ~Off(c) /\ UNCHANGED <<stage[c], todo[c]>>
  BY DEF Read, Off, Waiting, TypeOK, taskVars
<1>2. p \in Packets
  BY <1>1, NonEmpty
<1>3. CASE stage[c] \in {"off", "greeting", "auth"}
  <2>1. /\ want[c].state \in {"greeting", "welcome"}
        /\ \A i \in 1..Len(outbox[c]) : outbox[c][i].op = "login"
        /\ \A i \in 1..Len(inbox[c]) : inbox[c][i].kind = "handshake"
        /\ \A i \in 1..Len(todo[c]) : todo[c][i].kind = "handshake"
    BY <1>1, <1>3 DEF Early
  <2>2. p.kind = "handshake" /\ \A i \in 1..Len(inbox'[c]) : inbox'[c][i].kind = "handshake"
    <3>1. Len(inbox[c]) \in Nat \ {0} /\ p = inbox[c][1]
      BY <1>1, TailOf
    <3>2. p.kind = "handshake"
      BY <2>1, <3>1
    <3> QED
      BY <1>1, <2>1, <3>2, TailOf
  <2>3. want'[c].state \in {"welcome", "lost"}
    BY <1>1, <1>2, <2>1, <2>2, FollowHandshake
  <2>4. \A i \in 1..Len(outbox'[c]) : outbox'[c][i].op = "login"
    <3>1. CASE outbox'[c] = Append(outbox[c], Bare("login"))
      <4>1. Bare("login") \in Commands /\ Bare("login").op = "login"
        BY BareTyped DEF Bare, Command
      <4>2. /\ Len(outbox[c]) \in Nat /\ Len(outbox'[c]) = Len(outbox[c]) + 1
            /\ \A i \in 1..Len(outbox[c]) : outbox'[c][i] = outbox[c][i]
            /\ outbox'[c][Len(outbox[c]) + 1] = Bare("login")
        BY <1>1, <3>1, <4>1, AppendOf
      <4>3. \A i \in 1..Len(outbox'[c]) : i \in 1..Len(outbox[c]) \/ i = Len(outbox[c]) + 1
        BY <4>2
      <4> QED
        BY <2>1, <4>1, <4>2, <4>3
    <3> QED
      BY <1>1, <2>1, <3>1
  <2> QED
    BY <1>1, <2>1, <2>2, <2>3, <2>4 DEF Early, Off
<1>4. CASE stage[c] \notin {"off", "greeting", "auth"}
  BY <1>1, <1>4 DEF Early
<1> QED
  BY <1>3, <1>4

-----------------------------------------------------------------------------
AllAgree == TypeOK /\ \A c \in Clients : Early(c) /\ Agrees(c)

LEMMA InitAgrees == Init => AllAgree
<1> SUFFICES ASSUME Init, NEW c \in Clients PROVE Early(c) /\ Agrees(c)
  BY InitTypes DEF AllAgree
<1>1. /\ inbox[c] = <<>> /\ outbox[c] = <<>> /\ todo[c] = <<>> /\ want[c].state = "greeting"
      /\ table[c] = NoTable /\ book[c] = NoTable
  BY DEF Init, Want
<1>2. Early(c)
  BY <1>1 DEF Early
<1>3. Consistent(c) /\ Unasked(c)
  BY <1>1, NothingIn DEF Consistent, Unasked, Same, NoTable
<1> QED
  BY <1>2, <1>3 DEF Agrees

\* A step of one client or of its task does not touch another's.
LEMMA OneAtATime ==
    ASSUME TypeOK, NEW c \in Clients, NEW d \in Clients, d # c,
           \/ Task(c) \/ Acquire(c) \/ AcquireFails(c) \/ Row(c) \/ RowsEnd(c) \/ RowFails(c)
           \/ Client(c) \/ Read(c) \/ Hangup(c)
    PROVE  UNCHANGED <<stage[d], Local(d)>>
<1> USE DEF TypeOK, Local, Goto, clientVars, taskVars
<1>0. CASE Answer(c)
  BY <1>0 DEF Answer, Reply, Send
<1>1. CASE Accept(c) \/ Write(c) \/ Authenticate(c) \/ Acknowledge(c)
  BY <1>1 DEF Accept, Write, Authenticate, Acknowledge, Reply, Send, Reads
<1>2. CASE Broken(c) \/ Quit(c) \/ RowFails(c)
  BY <1>2 DEF Broken, Quit, RowFails, End, Reads
<1>3. CASE Query(c) \/ Prepare(c) \/ Execute(c)
  BY <1>3 DEF Query, Prepare, Execute, Reply, Send, Reads
<1>4. CASE CloseStatement(c) \/ Ignore(c) \/ Acquire(c)
  BY <1>4 DEF CloseStatement, Ignore, Acquire, Reads
<1>5. CASE AcquireFails(c) \/ Row(c) \/ RowsEnd(c)
  BY <1>5 DEF AcquireFails, Row, RowsEnd, Reply, Send
<1>6. CASE Client(c)
  <2>1. CASE Leave(c)
    BY <2>1 DEF Leave, Close
  <2>2. CASE AskClose(c)
    BY <2>2 DEF AskClose, Ask
  <2>3. CASE AskQuery(c) \/ AskPrepare(c) \/ AskExecute(c) \/ AskQuit(c)
    BY <2>3 DEF AskQuery, AskPrepare, AskExecute, AskQuit, Ask
  <2> QED
    BY <1>6, <2>1, <2>2, <2>3 DEF Client
<1>7. CASE Read(c) \/ Hangup(c)
  BY <1>7 DEF Read, Hangup, Close
<1> QED
  BY <1>0, <1>1, <1>2, <1>3, <1>4, <1>5, <1>6, <1>7 DEF Task

LEMMA AgreesStep == AllAgree /\ [Next]_vars => AllAgree'
<1> SUFFICES ASSUME AllAgree, [Next]_vars PROVE AllAgree'
  OBVIOUS
<1>1. TypeOK /\ TypeOK'
  BY TypeStep DEF AllAgree
<1>2. ASSUME NEW c \in Clients,
             \/ Task(c) \/ Acquire(c) \/ AcquireFails(c) \/ Row(c) \/ RowsEnd(c) \/ RowFails(c)
             \/ Client(c) \/ Read(c) \/ Hangup(c)
      PROVE  AllAgree'
  <2>1. Early(c)' /\ Agrees(c)'
    <3>1. CASE Task(c)
      BY <1>1, <3>1, TaskEarly, TaskAgrees DEF AllAgree
    <3>2. CASE Client(c)
      BY <1>1, <3>2, OtherEarly, ClientAgrees DEF AllAgree
    <3>3. CASE Read(c)
      BY <1>1, <3>3, ReadEarly, ReadAgrees DEF AllAgree
    <3>4. CASE Acquire(c) \/ AcquireFails(c) \/ Row(c) \/ RowsEnd(c) \/ RowFails(c) \/ Hangup(c)
      BY <1>1, <3>4, OtherEarly, OtherAgrees DEF AllAgree
    <3> QED
      BY <1>2, <3>1, <3>2, <3>3, <3>4
  <2>2. ASSUME NEW d \in Clients, d # c PROVE Early(d)' /\ Agrees(d)'
    <3>1. UNCHANGED <<stage[d], Local(d)>>
      BY <1>1, <1>2, <2>2, OneAtATime
    <3> QED
      BY <3>1, EarlyStays, Untouched DEF AllAgree
  <2> QED
    BY <1>1, <2>1, <2>2 DEF AllAgree
<1>3. CASE (\E k \in Conns : Recycle(k)) \/ UNCHANGED vars
  <2>1. \A d \in Clients : UNCHANGED <<stage[d], Local(d)>>
    BY <1>3 DEF Recycle, vars, taskVars, clientVars, Local
  <2> QED
    BY <1>1, <2>1, EarlyStays, Untouched DEF AllAgree
<1> QED
  BY <1>2, <1>3 DEF Next

\* The statement table of handle_client: what a client may execute is in its
\* table under the id that it was told, and nothing else is when no command is
\* on its way, however prepares, closes, failures and departures follow each
\* other.
THEOREM StatementsAgree == Spec => []TablesAgree
<1>1. AllAgree => TablesAgree
  <2> SUFFICES ASSUME AllAgree, NEW c \in Clients
               PROVE  /\ \A id \in Ids : Has(book[c], id) => table[c][id] = book[c][id]
                      /\ want[c].state = "idle" /\ outbox[c] = <<>> => table[c] = book[c]
    BY DEF TablesAgree
  <2>1. \A id \in Ids : Has(book[c], id) => table[c][id] = book[c][id]
    BY DEF AllAgree, Agrees, Consistent, Has
  <2>2. ASSUME want[c].state = "idle", outbox[c] = <<>> PROVE table[c] = book[c]
    <3>1. Same(c)
      BY <2>2 DEF AllAgree, Agrees, Off, Unasked, Unread, Told
    <3>2. \A id \in Ids : table[c][id] = book[c][id]
      BY <2>2, <3>1, NothingIn DEF Same
    <3>3. table[c] \in Statements /\ book[c] \in Statements
      BY DEF AllAgree, TypeOK
    <3> QED
      BY <3>2, <3>3 DEF Statements
  <2> QED
    BY <2>1, <2>2
<1> QED
  BY <1>1, InitAgrees, AgreesStep, PTL DEF Spec

-----------------------------------------------------------------------------
(* The replies.  Numbers aside, what a client waits for is a point of the  *)
(* protocol, and the packets on their way to it are a path from where it is *)
(* to where the task believes it to be; the numbers count on along the path. *)

Points ==
    [state : {"greeting", "welcome", "idle", "answer", "columns", "rows",
              "prepared", "parameters", "extra"},
     n : Nat]
Point(state, n) == [state |-> state, n |-> n]
Place(w) == Point(w.state, w.n)

\* A client at v takes the packet p, and is then at u.
Takes(v, p, u) ==
    \/ v.state = "greeting" /\ p.kind = "handshake" /\ u = Point("welcome", 0)
    \/ v.state = "welcome" /\ p.kind = "ok" /\ u = Point("idle", 0)
    \/ v.state = "answer" /\ p.kind \in {"ok", "error"} /\ u = Point("idle", 0)
    \/ v.state = "answer" /\ p.kind = "count" /\ u = Point("columns", p.n)
    \/ v.state = "columns" /\ p.kind = "column" /\ v.n > 0 /\ u = Point("columns", v.n - 1)
    \/ v.state = "columns" /\ p.kind = "eof" /\ v.n = 0 /\ u = Point("rows", 0)
    \/ v.state = "rows" /\ p.kind = "row" /\ u = Point("rows", 0)
    \/ v.state = "rows" /\ p.kind = "eof" /\ u = Point("idle", 0)
    \/ v.state = "prepared" /\ p.kind = "prepared" /\ p.n > 0 /\ u = Point("parameters", p.n)
    \/ v.state = "prepared" /\ p.kind = "prepared" /\ p.n = 0 /\ u = Point("extra", 0)
    \/ v.state = "parameters" /\ p.kind = "parameter" /\ v.n > 0 /\ u = Point("parameters", v.n - 1)
    \/ v.state = "parameters" /\ p.kind = "eof" /\ v.n = 0 /\ u = Point("extra", 0)
    \/ v.state = "extra" /\ p.kind = "eof" /\ u = Point("idle", 0)

\* The packets take a client from v to u.
Leads(v, packets, u) ==
    \E path \in [0..Len(packets) -> Points] :
      /\ path[0] = v /\ path[Len(packets)] = u
      /\ \A i \in 1..Len(packets) : Takes(path[i - 1], packets[i], path[i])

Stream(c) == inbox[c] \o todo[c]

\* The numbers of the packets on their way to a client, and of the next one.
Counted(c) ==
    /\ inbox[c] # <<>> => Head(inbox[c]).seq = want[c].seq
    /\ \A i \in 1..(Len(inbox[c]) - 1) : inbox[c][i + 1].seq = Plus1(inbox[c][i].seq)
    /\ todo[c] # <<>> \/ stage[c] = "rows" =>
         seq[c] = IF inbox[c] = <<>> THEN want[c].seq ELSE Plus1(inbox[c][Len(inbox[c])].seq)

\* A client has asked for nothing but to close statements,
OnlyCloses(commands) == \A i \in 1..Len(commands) : commands[i].op = "close"

\* or for one thing after that, and waits for the reply to it.
AsksLast(commands, w) ==
    /\ commands # <<>>
    /\ \A i \in 1..(Len(commands) - 1) : commands[i].op = "close"
    /\ LET command == commands[Len(commands)] IN
       /\ command.op \in {"ping", "query", "prepare", "execute", "quit", "other"}
       /\ command.seq = 0
       /\ w = Want(IF command.op = "prepare" THEN "prepared" ELSE "answer", 0, Plus1(0))

\* Where the packets on their way take a client that is heard by a task in this
\* stage: u is where it gets.
Meets(c, u) ==
    /\ stage[c] = "off" =>
         want[c] = Want("greeting", 0, 0) /\ inbox[c] = <<>> /\ outbox[c] = <<>>
    /\ stage[c] = "greeting" =>
         /\ u.state = "welcome" /\ inbox[c] = <<>> /\ outbox[c] = <<>>
         /\ want[c].state = "greeting" /\ Len(todo[c]) = 1
    /\ stage[c] = "auth" =>
         /\ u.state = "welcome" /\ Len(inbox[c]) <= 1
         /\ IF want[c].state = "greeting" THEN outbox[c] = <<>>
            ELSE /\ inbox[c] = <<>> /\ Len(outbox[c]) = 1
                 /\ want[c] = Want("welcome", 0, 2 % SeqMod)
    /\ stage[c] \notin {"off", "greeting", "auth"} => want[c].state # "greeting"
    /\ stage[c] \in {"welcome", "reply"} => u.state = "idle" /\ outbox[c] = <<>>
    /\ stage[c] \in {"columns", "rows"} => u.state = "rows" /\ outbox[c] = <<>>
    /\ stage[c] \in {"acquire", "query"} =>
         /\ want[c].state = "answer" /\ want[c].seq = Plus1(seq[c])
         /\ inbox[c] = <<>> /\ outbox[c] = <<>>
    /\ stage[c] = "loop" =>
         \/ u.state = "idle" /\ OnlyCloses(outbox[c])
         \/ inbox[c] = <<>> /\ AsksLast(outbox[c], want[c])
         \/ inbox[c] = <<>> /\ outbox[c] = <<>> /\ want[c].state = "answer"

\* It and its task are at one.
Talks(c) == Counted(c) /\ \E u \in Points : Leads(Place(want[c]), Stream(c), u) /\ Meets(c, u)

\* A client that has asked for its first statement has not had a reply.
Preparing == {"prepared", "parameters", "extra"}
Unprepared(c) ==
    want[c].state \in Preparing => stage[c] \in {"loop", "ended"} /\ inbox[c] = <<>>

\* A client that is not lenient has been sent an EOF that it does not read.
Misled(c) == c \notin Lenient /\ nextId[c] > 1

\* Unless the client has left.
Conversation(c) ==
    /\ nextId[c] >= 1
    /\ \/ Gone(c) \/ Misled(c)
       \/ Talks(c) /\ (c \in Lenient \/ Unprepared(c))

\* The protocol, as Follow has it: a client that takes a packet with the number
\* it wants is not lost, and its numbers count on until it is answered.
LEMMA TakesFollows ==
    ASSUME NEW c, NEW w \in Wants, NEW p \in Packets, p.seq = w.seq,
           c \in Lenient \/ w.state \notin Preparing,
           NEW u, Takes(Place(w), p, u)
    PROVE  /\ Place(Follow(c, w, p)) = u /\ u \in Points
           /\ u.state \notin {"idle", "welcome"} => Follow(c, w, p).seq = Plus1(w.seq)
           /\ w.state = "greeting" => Follow(c, w, p) = Want("welcome", 0, 2 % SeqMod)
           /\ u.state # "greeting" /\ (u.state = "welcome" => w.state = "greeting")
<1> DEFINE next == Plus1(w.seq)
<1>1. Place(w).state = w.state /\ Place(w).n = w.n /\ w.n \in Nat /\ p.n \in Nat
  BY DEF Place, Point, Wants, Packets
<1>2. \A state, n, m : Place(Want(state, n, m)) = Point(state, n) /\ Want(state, n, m).seq = m
  BY DEF Place, Point, Want
<1>3. \A state, n : Point(state, n).state = state
  BY DEF Point
<1>4. CASE w.state = "greeting" /\ p.kind = "handshake" /\ u = Point("welcome", 0)
  <2>1. Follow(c, w, p) = Want("welcome", 0, 2 % SeqMod)
    BY <1>4 DEF Follow
  <2> QED
    BY <1>2, <1>3, <1>4, <2>1 DEF Points, Point
<1>5. CASE w.state = "welcome" /\ p.kind = "ok" /\ u = Point("idle", 0)
  <2>1. Follow(c, w, p) = Want("idle", 0, 0)
    BY <1>5 DEF Follow
  <2> QED
    BY <1>2, <1>3, <1>5, <2>1 DEF Points, Point
<1>6. CASE w.state = "answer" /\ p.kind \in {"ok", "error"} /\ u = Point("idle", 0)
  <2>1. Follow(c, w, p) = Want("idle", 0, 0)
    BY <1>6 DEF Follow
  <2> QED
    BY <1>2, <1>3, <1>6, <2>1 DEF Points, Point
<1>7. CASE w.state = "answer" /\ p.kind = "count" /\ u = Point("columns", p.n)
  <2>1. Follow(c, w, p) = Want("columns", p.n, next)
    BY <1>7 DEF Follow
  <2> QED
    BY <1>1, <1>2, <1>3, <1>7, <2>1 DEF Points, Point
<1>8. CASE w.state = "columns" /\ p.kind = "column" /\ w.n > 0 /\ u = Point("columns", w.n - 1)
  <2>1. Follow(c, w, p) = Want("columns", w.n - 1, next)
    BY <1>8 DEF Follow
  <2> QED
    BY <1>1, <1>2, <1>3, <1>8, <2>1 DEF Points, Point
<1>9. CASE w.state = "columns" /\ p.kind = "eof" /\ w.n = 0 /\ u = Point("rows", 0)
  <2>1. Follow(c, w, p) = Want("rows", 0, next)
    BY <1>9 DEF Follow
  <2> QED
    BY <1>2, <1>3, <1>9, <2>1 DEF Points, Point
<1>10. CASE w.state = "rows" /\ p.kind = "row" /\ u = Point("rows", 0)
  <2>1. Follow(c, w, p) = Want("rows", 0, next)
    BY <1>10 DEF Follow
  <2> QED
    BY <1>2, <1>3, <1>10, <2>1 DEF Points, Point
<1>11. CASE w.state = "rows" /\ p.kind = "eof" /\ u = Point("idle", 0)
  <2>1. Follow(c, w, p) = Want("idle", 0, 0)
    BY <1>11 DEF Follow
  <2> QED
    BY <1>2, <1>3, <1>11, <2>1 DEF Points, Point
<1>12. CASE w.state = "prepared" /\ p.kind = "prepared" /\ p.n > 0 /\ u = Point("parameters", p.n)
  <2>1. Follow(c, w, p) = Want("parameters", p.n, next)
    BY <1>12 DEF Follow, Preparing
  <2> QED
    BY <1>1, <1>2, <1>3, <1>12, <2>1 DEF Points, Point
<1>13. CASE w.state = "prepared" /\ p.kind = "prepared" /\ p.n = 0 /\ u = Point("extra", 0)
  <2>1. ~(p.n > 0)
    BY <1>13
  <2>2. Follow(c, w, p) = Want("extra", 0, next)
    BY <1>13, <2>1 DEF Follow, Preparing
  <2> QED
    BY <1>2, <1>3, <1>13, <2>2 DEF Points, Point
<1>14. CASE /\ w.state = "parameters" /\ p.kind = "parameter" /\ w.n > 0
            /\ u = Point("parameters", w.n - 1)
  <2>1. Follow(c, w, p) = Want("parameters", w.n - 1, next)
    BY <1>14 DEF Follow
  <2> QED
    BY <1>1, <1>2, <1>3, <1>14, <2>1 DEF Points, Point
<1>15. CASE w.state = "parameters" /\ p.kind = "eof" /\ w.n = 0 /\ u = Point("extra", 0)
  <2>1. Follow(c, w, p) = Want("extra", 0, next)
    BY <1>15 DEF Follow, Preparing
  <2> QED
    BY <1>2, <1>3, <1>15, <2>1 DEF Points, Point
<1>16. CASE w.state = "extra" /\ p.kind = "eof" /\ u = Point("idle", 0)
  <2>1. Follow(c, w, p) = Want("idle", 0, 0)
    BY <1>16 DEF Follow
  <2> QED
    BY <1>2, <1>3, <1>16, <2>1 DEF Points, Point
<1>17. \/ w.state = "greeting" /\ p.kind = "handshake" /\ u = Point("welcome", 0)
       \/ w.state = "welcome" /\ p.kind = "ok" /\ u = Point("idle", 0)
       \/ w.state = "answer" /\ p.kind \in {"ok", "error"} /\ u = Point("idle", 0)
       \/ w.state = "answer" /\ p.kind = "count" /\ u = Point("columns", p.n)
       \/ w.state = "columns" /\ p.kind = "column" /\ w.n > 0 /\ u = Point("columns", w.n - 1)
       \/ w.state = "columns" /\ p.kind = "eof" /\ w.n = 0 /\ u = Point("rows", 0)
       \/ w.state = "rows" /\ p.kind = "row" /\ u = Point("rows", 0)
       \/ w.state = "rows" /\ p.kind = "eof" /\ u = Point("idle", 0)
       \/ w.state = "prepared" /\ p.kind = "prepared" /\ p.n > 0 /\ u = Point("parameters", p.n)
       \/ w.state = "prepared" /\ p.kind = "prepared" /\ p.n = 0 /\ u = Point("extra", 0)
       \/ /\ w.state = "parameters" /\ p.kind = "parameter" /\ w.n > 0
          /\ u = Point("parameters", w.n - 1)
       \/ w.state = "parameters" /\ p.kind = "eof" /\ w.n = 0 /\ u = Point("extra", 0)
       \/ w.state = "extra" /\ p.kind = "eof" /\ u = Point("idle", 0)
  BY <1>1 DEF Takes
<1> HIDE DEF next
<1> QED
  BY <1>4, <1>5, <1>6, <1>7, <1>8, <1>9, <1>10, <1>11, <1>12, <1>13, <1>14, <1>15, <1>16, <1>17


\* A client that expects nothing more has nothing on its way to it.
LEMMA PathEnds ==
    ASSUME NEW v \in Points, NEW s \in Seq(Packets), NEW u, Leads(v, s, u)
    PROVE  /\ s = <<>> => u = v
           /\ v.state = "idle" => s = <<>>
<1>1. PICK path \in [0..Len(s) -> Points] :
        /\ path[0] = v /\ path[Len(s)] = u
        /\ \A i \in 1..Len(s) : Takes(path[i - 1], s[i], path[i])
  BY DEF Leads
<1>2. ASSUME s # <<>> PROVE Takes(v, s[1], path[1])
  <2>1. 1 \in 1..Len(s)
    BY <1>2, TailOf
  <2> QED
    BY <1>1, <2>1
<1>3. ASSUME s # <<>> PROVE v.state # "idle"
  BY <1>2, <1>3 DEF Takes
<1> QED
  BY <1>1, <1>3

LEMMA NoPath == ASSUME NEW v \in Points PROVE Leads(v, <<>>, v)
<1> DEFINE path == [i \in 0..0 |-> v]
<1>1. path \in [0..Len(<<>>) -> Points] /\ path[0] = v /\ path[Len(<<>>)] = v
  OBVIOUS
<1>2. \A i \in 1..Len(<<>>) : Takes(path[i - 1], <<>>[i], path[i])
  OBVIOUS
<1> QED
  BY <1>1, <1>2 DEF Leads

\* Neither a number nor where a packet is changes the path.
LEMMA SamePath ==
    ASSUME NEW v, NEW s \in Seq(Packets), NEW t \in Seq(Packets), NEW u, Leads(v, s, u),
           Len(s) = Len(t), \A i \in 1..Len(s) : s[i].kind = t[i].kind /\ s[i].n = t[i].n
    PROVE  Leads(v, t, u)
<1>1. PICK path \in [0..Len(s) -> Points] :
        /\ path[0] = v /\ path[Len(s)] = u
        /\ \A i \in 1..Len(s) : Takes(path[i - 1], s[i], path[i])
  BY DEF Leads
<1>2. \A i \in 1..Len(t) : Takes(path[i - 1], t[i], path[i])
  BY <1>1 DEF Takes
<1> QED
  BY <1>1, <1>2 DEF Leads

\* A client takes the first packet.
LEMMA PathTail ==
    ASSUME NEW v, NEW s \in Seq(Packets), s # <<>>, NEW u, Leads(v, s, u)
    PROVE  \E w \in Points : Takes(v, Head(s), w) /\ Leads(w, Tail(s), u)
<1>1. PICK path \in [0..Len(s) -> Points] :
        /\ path[0] = v /\ path[Len(s)] = u
        /\ \A i \in 1..Len(s) : Takes(path[i - 1], s[i], path[i])
  BY DEF Leads
<1>2. /\ Len(s) \in Nat \ {0} /\ Len(Tail(s)) = Len(s) - 1 /\ Head(s) = s[1]
      /\ \A i \in 1..Len(Tail(s)) : i + 1 \in 1..Len(s) /\ Tail(s)[i] = s[i + 1]
  BY TailOf
<1> DEFINE rest == [i \in 0..Len(Tail(s)) |-> path[i + 1]]
<1>3. \A i \in 0..Len(Tail(s)) : i + 1 \in 0..Len(s)
  BY <1>2
<1>4. rest \in [0..Len(Tail(s)) -> Points] /\ rest[0] = path[1] /\ path[1] \in Points
  BY <1>1, <1>2, <1>3
<1>5. rest[Len(Tail(s))] = u
  BY <1>1, <1>2
<1>6. ASSUME NEW i \in 1..Len(Tail(s)) PROVE Takes(rest[i - 1], Tail(s)[i], rest[i])
  <2>1. rest[i - 1] = path[i] /\ rest[i] = path[i + 1]
    BY <1>2
  <2>2. Takes(path[(i + 1) - 1], s[i + 1], path[i + 1])
    BY <1>1, <1>2
  <2>3. (i + 1) - 1 = i
    BY <1>2
  <2> QED
    BY <1>2, <2>1, <2>2, <2>3
<1>7. Takes(v, Head(s), path[1])
  <2>1. 1 \in 1..Len(s) /\ 1 - 1 = 0
    BY <1>2
  <2> QED
    BY <1>1, <1>2, <2>1
<1> HIDE DEF rest
<1>8. Leads(path[1], Tail(s), u)
  BY <1>4, <1>5, <1>6 DEF Leads
<1> QED
  BY <1>4, <1>7, <1>8

\* The task writes one packet more.
LEMMA PathGoesOn ==
    ASSUME NEW v, NEW s \in Seq(Packets), NEW u, Leads(v, s, u),
           NEW p \in Packets, NEW w \in Points, Takes(u, p, w)
    PROVE  Leads(v, Append(s, p), w)
<1>1. PICK path \in [0..Len(s) -> Points] :
        /\ path[0] = v /\ path[Len(s)] = u
        /\ \A i \in 1..Len(s) : Takes(path[i - 1], s[i], path[i])
  BY DEF Leads
<1>2. /\ Len(s) \in Nat /\ Len(Append(s, p)) = Len(s) + 1
      /\ \A i \in 1..Len(s) : Append(s, p)[i] = s[i]
      /\ Append(s, p)[Len(s) + 1] = p
  BY AppendOf
<1> DEFINE longer == [i \in 0..(Len(s) + 1) |-> IF i = Len(s) + 1 THEN w ELSE path[i]]
<1>3. longer \in [0..Len(Append(s, p)) -> Points]
  <2>1. \A i \in 0..(Len(s) + 1) : i # Len(s) + 1 => path[i] \in Points
    BY <1>2
  <2> QED
    BY <1>2, <2>1
<1>4. /\ longer[0] = v /\ longer[Len(Append(s, p))] = w
      /\ \A i \in 0..Len(s) : longer[i] = path[i]
  BY <1>1, <1>2
<1> HIDE DEF longer
<1>5. ASSUME NEW i \in 1..Len(Append(s, p)) PROVE Takes(longer[i - 1], Append(s, p)[i], longer[i])
  <2>1. CASE i = Len(s) + 1
    <3>1. longer[i - 1] = u /\ longer[i] = w /\ Append(s, p)[i] = p
      BY <1>1, <1>2, <1>4, <2>1
    <3> QED
      BY <3>1
  <2>2. CASE i # Len(s) + 1
    <3>1. i \in 1..Len(s)
      BY <1>2, <2>2
    <3>2. longer[i - 1] = path[i - 1] /\ longer[i] = path[i] /\ Append(s, p)[i] = s[i]
      BY <1>2, <1>4, <3>1
    <3> QED
      BY <1>1, <3>1, <3>2
  <2> QED
    BY <2>1, <2>2
<1> QED
  BY <1>3, <1>4, <1>5 DEF Leads

\* A task that ends takes back what it has not written.
LEMMA PathIsCut ==
    ASSUME NEW v, NEW s \in Seq(Packets), NEW t \in Seq(Packets), NEW u, Leads(v, s \o t, u)
    PROVE  \E w \in Points : Leads(v, s, w)
<1> DEFINE all == s \o t
<1>1. PICK path \in [0..Len(all) -> Points] :
        /\ path[0] = v
        /\ \A i \in 1..Len(all) : Takes(path[i - 1], all[i], path[i])
  BY DEF Leads
<1>2. /\ Len(s) \in Nat /\ Len(t) \in Nat /\ Len(all) = Len(s) + Len(t)
      /\ \A i \in 1..Len(s) : all[i] = s[i]
  OBVIOUS
<1> HIDE DEF all
<1> DEFINE first == [i \in 0..Len(s) |-> path[i]]
<1>3. \A i \in 0..Len(s) : i \in 0..Len(all)
  BY <1>2
<1>4. first \in [0..Len(s) -> Points] /\ \A i \in 0..Len(s) : first[i] = path[i]
  BY <1>3
<1>5. 0 \in 0..Len(s) /\ Len(s) \in 0..Len(s)
  BY <1>2
<1> HIDE DEF first
<1>6. ASSUME NEW i \in 1..Len(s) PROVE Takes(first[i - 1], s[i], first[i])
  <2>1. i \in 1..Len(all) /\ i - 1 \in 0..Len(s) /\ i \in 0..Len(s)
    BY <1>2
  <2> QED
    BY <1>1, <1>2, <1>4, <2>1
<1>7. Leads(v, s, first[Len(s)])
  BY <1>1, <1>4, <1>5, <1>6 DEF Leads
<1> QED
  BY <1>4, <1>5, <1>7


\* The packets of a result: how many columns, the columns, and an end.
LEMMA ColumnsPath ==
    ASSUME NEW v \in Points, v.state = "answer", NEW n \in Nat
    PROVE  Leads(v, <<Packet("count", n, 0)>> \o Repeat("column", n) \o <<Plain("eof")>>,
                 Point("rows", 0))
<1> DEFINE s == <<Packet("count", n, 0)>> \o Repeat("column", n) \o <<Plain("eof")>>
           path == [i \in 0..(n + 2) |->
                      IF i = 0 THEN v ELSE IF i = n + 2 THEN Point("rows", 0)
                      ELSE Point("columns", (n + 1) - i)]
<1>1. /\ Packet("count", n, 0).kind = "count" /\ Packet("count", n, 0).n = n
      /\ Plain("eof").kind = "eof" /\ Plain("column").kind = "column"
      /\ \A state, m : Point(state, m).state = state /\ Point(state, m).n = m
  BY DEF Packet, Plain, Point
<1>2. /\ Len(s) = n + 2 /\ s[1] = Packet("count", n, 0) /\ s[n + 2] = Plain("eof")
      /\ \A i \in 2..(n + 1) : s[i] = Plain("column")
  <2>1. Len(Repeat("column", n)) = n /\ \A i \in 1..n : Repeat("column", n)[i] = Plain("column")
    BY DEF Repeat
  <2>2. Repeat("column", n) \in Seq(Packets)
    BY PlainPackets
  <2>3. \A i \in 2..(n + 1) : i - 1 \in 1..n
    OBVIOUS
  <2> QED
    BY <2>1, <2>2, <2>3
<1> HIDE DEF s
<1>3. path \in [0..Len(s) -> Points]
  <2>1. Point("rows", 0) \in Points /\ \A i \in 0..(n + 1) : i # 0 => Point("columns", (n + 1) - i) \in Points
    BY DEF Point, Points
  <2> QED
    BY <1>2, <2>1
<1>4. path[0] = v /\ path[Len(s)] = Point("rows", 0)
  BY <1>2
<1>5. \A i \in 1..(n + 1) : path[i] = Point("columns", (n + 1) - i)
  OBVIOUS
<1> HIDE DEF path
<1>6. ASSUME NEW i \in 1..Len(s) PROVE Takes(path[i - 1], s[i], path[i])
  <2>1. CASE i = 1
    <3>1. path[i - 1] = v /\ s[i] = Packet("count", n, 0) /\ path[i] = Point("columns", n)
      BY <1>2, <1>4, <1>5, <2>1
    <3> QED
      BY <1>1, <3>1 DEF Takes
  <2>2. CASE i \in 2..(n + 1)
    <3>1. /\ path[i - 1] = Point("columns", (n + 1) - (i - 1)) /\ s[i] = Plain("column")
          /\ path[i] = Point("columns", (n + 1) - i)
      BY <1>2, <1>5, <2>2
    <3>2. (n + 1) - (i - 1) > 0 /\ ((n + 1) - (i - 1)) - 1 = (n + 1) - i
      BY <2>2
    <3> QED
      BY <1>1, <3>1, <3>2 DEF Takes
  <2>3. CASE i = n + 2
    <3>1. path[i - 1] = Point("columns", 0) /\ s[i] = Plain("eof") /\ path[i] = Point("rows", 0)
      <4>1. i - 1 \in 1..(n + 1) /\ (n + 1) - (i - 1) = 0
        BY <2>3
      <4> QED
        BY <1>2, <1>4, <1>5, <2>3, <4>1
    <3> QED
      BY <1>1, <3>1 DEF Takes
  <2> QED
    BY <1>2, <2>1, <2>2, <2>3
<1> QED
  BY <1>3, <1>4, <1>6 DEF Leads, s

\* The packets of a reply to a prepare.
LEMMA PreparedPath ==
    ASSUME NEW v \in Points, v.state = "prepared", NEW n \in Nat, NEW id \in Nat
    PROVE  Leads(v, PreparedPackets(id, n), Point("idle", 0))
<1>1. /\ Packet("prepared", n, id).kind = "prepared" /\ Packet("prepared", n, id).n = n
      /\ Plain("eof").kind = "eof" /\ Plain("parameter").kind = "parameter"
      /\ \A state, m : Point(state, m).state = state /\ Point(state, m).n = m
  BY DEF Packet, Plain, Point
<1>2. Packet("prepared", n, id) \in Packets /\ Plain("eof") \in Packets
  BY PlainPackets DEF Packet, Packets
<1>3. Point("idle", 0) \in Points /\ Point("extra", 0) \in Points
  BY DEF Point, Points
<1>4. CASE n = 0
  <2>1. PreparedPackets(id, n) = Append(Append(<<>>, Packet("prepared", n, id)), Plain("eof"))
    BY <1>4 DEF PreparedPackets
  <2>2. Leads(v, Append(<<>>, Packet("prepared", n, id)), Point("extra", 0))
    <3>1. Takes(v, Packet("prepared", n, id), Point("extra", 0))
      BY <1>1, <1>4 DEF Takes
    <3>2. Leads(v, <<>>, v) /\ <<>> \in Seq(Packets)
      BY NoPath
    <3> QED
      BY <1>2, <1>3, <3>1, <3>2, PathGoesOn
  <2>3. Takes(Point("extra", 0), Plain("eof"), Point("idle", 0))
    BY <1>1 DEF Takes
  <2>4. Append(<<>>, Packet("prepared", n, id)) \in Seq(Packets)
    BY <1>2
  <2> QED
    BY <1>2, <1>3, <2>1, <2>2, <2>3, <2>4, PathGoesOn
<1>5. CASE n > 0
  <2> DEFINE s == Append(<<Packet("prepared", n, id)>> \o Repeat("parameter", n), Plain("eof"))
             path == [i \in 0..(n + 2) |->
                        IF i = 0 THEN v ELSE IF i = n + 2 THEN Point("extra", 0)
                        ELSE Point("parameters", (n + 1) - i)]
  <2>0. Repeat("parameter", n) \in Seq(Packets)
    BY PlainPackets
  <2>1. PreparedPackets(id, n) = Append(s, Plain("eof"))
    <3>1. ASSUME NEW a \in Seq(Packets), NEW b \in Seq(Packets), NEW e \in Packets
          PROVE  (a \o Append(b, e)) \o <<e>> = Append(Append(a \o b, e), e)
      <4>1. a \o Append(b, e) = Append(a \o b, e)
        OBVIOUS
      <4>2. \A t \in Seq(Packets) : t \o <<e>> = Append(t, e)
        OBVIOUS
      <4>3. Append(a \o b, e) \in Seq(Packets)
        OBVIOUS
      <4> QED
        BY <4>1, <4>2, <4>3
    <3>2. <<Packet("prepared", n, id)>> \in Seq(Packets)
      BY <1>2
    <3> QED
      BY <1>2, <1>5, <2>0, <3>1, <3>2 DEF PreparedPackets
  <2>2. /\ Len(s) = n + 2 /\ s[1] = Packet("prepared", n, id) /\ s[n + 2] = Plain("eof")
        /\ \A i \in 2..(n + 1) : s[i] = Plain("parameter")
        /\ s \in Seq(Packets)
    <3>1. /\ Len(Repeat("parameter", n)) = n
          /\ \A i \in 1..n : Repeat("parameter", n)[i] = Plain("parameter")
      BY DEF Repeat
    <3>2. \A i \in 2..(n + 1) : i - 1 \in 1..n
      OBVIOUS
    <3> QED
      BY <1>2, <2>0, <3>1, <3>2
  <2> HIDE DEF s
  <2>3. path \in [0..Len(s) -> Points]
    <3>1. \A i \in 0..(n + 1) : i # 0 => Point("parameters", (n + 1) - i) \in Points
      BY DEF Point, Points
    <3> QED
      BY <1>3, <2>2, <3>1
  <2>4. path[0] = v /\ path[Len(s)] = Point("extra", 0)
    BY <2>2
  <2>5. \A i \in 1..(n + 1) : path[i] = Point("parameters", (n + 1) - i)
    OBVIOUS
  <2> HIDE DEF path
  <2>6. ASSUME NEW i \in 1..Len(s) PROVE Takes(path[i - 1], s[i], path[i])
    <3>1. CASE i = 1
      <4>1. path[i - 1] = v /\ s[i] = Packet("prepared", n, id) /\ path[i] = Point("parameters", n)
        BY <2>2, <2>4, <2>5, <3>1
      <4> QED
        BY <1>1, <1>5, <4>1 DEF Takes
    <3>2. CASE i \in 2..(n + 1)
      <4>1. /\ path[i - 1] = Point("parameters", (n + 1) - (i - 1)) /\ s[i] = Plain("parameter")
            /\ path[i] = Point("parameters", (n + 1) - i)
        BY <2>2, <2>5, <3>2
      <4>2. (n + 1) - (i - 1) > 0 /\ ((n + 1) - (i - 1)) - 1 = (n + 1) - i
        BY <3>2
      <4> QED
        BY <1>1, <4>1, <4>2 DEF Takes
    <3>3. CASE i = n + 2
      <4>1. path[i - 1] = Point("parameters", 0) /\ s[i] = Plain("eof") /\ path[i] = Point("extra", 0)
        <5>1. i - 1 \in 1..(n + 1) /\ (n + 1) - (i - 1) = 0
          BY <3>3
        <5> QED
          BY <2>2, <2>4, <2>5, <3>3, <5>1
      <4> QED
        BY <1>1, <4>1 DEF Takes
    <3> QED
      BY <2>2, <3>1, <3>2, <3>3
  <2>7. Leads(v, s, Point("extra", 0))
    BY <2>3, <2>4, <2>6 DEF Leads
  <2>8. Takes(Point("extra", 0), Plain("eof"), Point("idle", 0))
    BY <1>1 DEF Takes
  <2> QED
    BY <1>2, <1>3, <2>1, <2>2, <2>7, <2>8, PathGoesOn
<1> QED
  BY <1>4, <1>5


-----------------------------------------------------------------------------
\* The types of what a client and its task share.
LEMMA Shared ==
    ASSUME TypeOK, NEW c \in Clients
    PROVE  /\ inbox[c] \in Seq(Packets) /\ todo[c] \in Seq(Packets) /\ Stream(c) \in Seq(Packets)
           /\ outbox[c] \in Seq(Commands) /\ seq[c] \in Nat /\ want[c] \in Wants
           /\ stage[c] \in Stages /\ (stage[c] \in Writing <=> todo[c] # <<>>)
           /\ inbox[c] = <<>> => Stream(c) = todo[c]
           /\ todo[c] = <<>> => Stream(c) = inbox[c]
BY DEF TypeOK, Stream

LEMMA PlaceOf ==
    ASSUME NEW w \in Wants, w.state \notin {"lost", "closed"}
    PROVE  Place(w) \in Points
BY DEF Place, Point, Points, Wants

LEMMA PlacesOf ==
    \A state, n, m : /\ Place(Want(state, n, m)) = Point(state, n)
                     /\ Point(state, n).state = state /\ Point(state, n).n = n
                     /\ Want(state, n, m).state = state /\ Want(state, n, m).seq = m
BY DEF Place, Point, Want

\* A client that talks is not lost, and when it is idle nothing is on its way.
LEMMA TalksWell ==
    ASSUME TypeOK, NEW c \in Clients, Talks(c)
    PROVE  /\ want[c].state \notin {"lost", "closed"}
           /\ want[c].state = "idle" => inbox[c] = <<>> /\ todo[c] = <<>>
<1>1. PICK u \in Points : Leads(Place(want[c]), Stream(c), u)
  BY DEF Talks
<1>2. Stream(c) \in Seq(Packets) /\ inbox[c] \in Seq(Packets) /\ todo[c] \in Seq(Packets)
  BY Shared
<1>3. Place(want[c]) \in Points
  BY <1>1 DEF Leads
<1>4. Place(want[c]).state = want[c].state
  BY DEF Place, Point
<1>5. Stream(c) = <<>> => inbox[c] = <<>> /\ todo[c] = <<>>
  BY <1>2 DEF Stream
<1> QED
  BY <1>1, <1>2, <1>3, <1>4, <1>5, PathEnds DEF Points

\* A step that leaves a client and its task as they are.
LEMMA ConversationStays ==
    ASSUME NEW c, Conversation(c), UNCHANGED <<stage[c], seq[c], Local(c)>>
    PROVE  Conversation(c)'
<1>1. Gone(c) => Gone(c)'
  BY DEF Gone, Local
<1>2. Counted(c) => Counted(c)'
  BY DEF Counted, Local
<1>3. Stream(c)' = Stream(c) /\ want'[c] = want[c]
  BY DEF Stream, Local
<1>4. \A u \in Points : Meets(c, u) => Meets(c, u)'
  BY DEF Meets, Local
<1>5. nextId'[c] = nextId[c]
  BY DEF Local
<1>6. Unprepared(c) => Unprepared(c)'
  BY DEF Unprepared, Local
<1>7. Talks(c) => Talks(c)'
  BY <1>2, <1>3, <1>4 DEF Talks
<1>8. Misled(c) => Misled(c)'
  BY <1>5 DEF Misled
<1> QED
  BY <1>1, <1>5, <1>6, <1>7, <1>8 DEF Conversation

\* A task that starts a reply, when nothing is on the way to its client.
LEMMA ReplyKeeps ==
    ASSUME TypeOK, TypeOK', NEW c \in Clients, inbox[c] = <<>>, todo[c] = <<>>, ~Gone(c),
           NEW next \in {"welcome", "reply", "columns"}, NEW packets \in Seq(Packets),
           Send(c, next, packets, want[c].seq), UNCHANGED <<inbox[c], want[c]>>,
           outbox'[c] = <<>>, want[c].state # "greeting",
           NEW u \in Points, Leads(Place(want[c]), packets, u),
           u.state = IF next = "columns" THEN "rows" ELSE "idle"
    PROVE  Talks(c)'
<1>1. stage'[c] = next /\ todo'[c] = packets /\ seq'[c] = want[c].seq
  BY DEF Send, Goto, TypeOK
<1>2. Counted(c)'
  BY <1>1 DEF Counted
<1>3. Stream(c)' = packets
  BY <1>1 DEF Stream
<1>4. Meets(c, u)'
  BY <1>1 DEF Meets
<1> QED
  BY <1>2, <1>3, <1>4 DEF Talks

LEMMA WriteConverses ==
    ASSUME TypeOK, TypeOK', NEW c \in Clients, Talks(c), ~Gone(c), Write(c)
    PROVE  Talks(c)'
<1> DEFINE p == [Head(todo[c]) EXCEPT !.seq = seq[c]]
           t == todo[c]
           i == inbox[c]
<1>1. PICK u \in Points : Leads(Place(want[c]), Stream(c), u) /\ Meets(c, u)
  BY DEF Talks
<1>2. /\ t \in Seq(Packets) /\ t # <<>> /\ i \in Seq(Packets) /\ seq[c] \in Nat
      /\ stage[c] \in {"greeting", "welcome", "columns", "reply"}
  BY DEF Write, Writing, After, TypeOK
<1>3. /\ inbox'[c] = Append(i, p) /\ todo'[c] = Tail(t) /\ seq'[c] = Plus1(seq[c])
      /\ UNCHANGED <<want[c], outbox[c]>>
  BY DEF Write, Gone, TypeOK, clientVars
<1>4. stage'[c] = IF Len(t) = 1 THEN After[stage[c]] ELSE stage[c]
  BY DEF Write, Goto, TypeOK
<1>5. /\ Len(t) \in Nat \ {0} /\ Len(Tail(t)) = Len(t) - 1 /\ Head(t) = t[1] /\ Head(t) \in Packets
      /\ \A k \in 1..Len(Tail(t)) : k + 1 \in 1..Len(t) /\ Tail(t)[k] = t[k + 1]
      /\ Tail(t) \in Seq(Packets)
  BY <1>2, NonEmpty, TailOf
<1>6. p \in Packets /\ p.kind = Head(t).kind /\ p.n = Head(t).n /\ p.seq = seq[c]
  BY <1>2, <1>5 DEF Packets
<1> HIDE DEF p, t, i
<1>7. /\ Len(i) \in Nat /\ Len(Append(i, p)) = Len(i) + 1
      /\ \A k \in 1..Len(i) : Append(i, p)[k] = i[k]
      /\ Append(i, p)[Len(i) + 1] = p /\ Append(i, p) \in Seq(Packets) /\ Append(i, p) # <<>>
      /\ Head(Append(i, p)) = Append(i, p)[1]
  BY <1>2, <1>6, AppendOf, AppendProperties, TailOf
<1>8. Leads(Place(want[c]), Append(i, p) \o Tail(t), u)
  <2>1. Leads(Place(want[c]), i \o t, u) /\ i \o t \in Seq(Packets)
    BY <1>1, <1>2 DEF Stream, i, t
  <2>2. Append(i, p) \o Tail(t) \in Seq(Packets)
    BY <1>5, <1>7
  <2>3. Len(i \o t) = Len(i) + Len(t) /\ Len(Append(i, p) \o Tail(t)) = Len(i) + Len(t)
    BY <1>2, <1>5, <1>7
  <2>4. ASSUME NEW k \in 1..Len(i \o t)
        PROVE  /\ (i \o t)[k].kind = (Append(i, p) \o Tail(t))[k].kind
               /\ (i \o t)[k].n = (Append(i, p) \o Tail(t))[k].n
    <3>1. CASE k <= Len(i)
      BY <1>2, <1>5, <1>7, <2>3, <3>1
    <3>2. CASE k = Len(i) + 1
      <4>1. (i \o t)[k] = t[1]
        BY <1>2, <1>5, <2>3, <3>2
      <4>2. (Append(i, p) \o Tail(t))[k] = p
        BY <1>2, <1>5, <1>7, <2>3, <3>2
      <4> QED
        BY <1>5, <1>6, <4>1, <4>2
    <3>3. CASE k > Len(i) + 1
      <4>1. (i \o t)[k] = t[k - Len(i)]
        BY <1>2, <1>5, <2>3, <3>3
      <4>2. (Append(i, p) \o Tail(t))[k] = Tail(t)[k - (Len(i) + 1)]
        BY <1>2, <1>5, <1>7, <2>3, <3>3
      <4>3. k - (Len(i) + 1) \in 1..Len(Tail(t)) /\ (k - (Len(i) + 1)) + 1 = k - Len(i)
        BY <1>5, <1>7, <2>3, <3>3
      <4> QED
        BY <1>5, <4>1, <4>2, <4>3
    <3>4. k \in Int
      BY <1>5, <1>7, <2>3
    <3>5. k <= Len(i) \/ k = Len(i) + 1 \/ k > Len(i) + 1
      BY <1>7, <3>4
    <3> QED
      BY <3>1, <3>2, <3>3, <3>5
  <2> QED
    BY <2>1, <2>2, <2>3, <2>4, SamePath
<1>9. Counted(c)'
  <2>1. seq[c] = IF i = <<>> THEN want[c].seq ELSE Plus1(i[Len(i)].seq)
    BY <1>2 DEF Talks, Counted, i, t
  <2>2. i = <<>> <=> Len(i) = 0
    BY <1>2
  <2>3. Append(i, p)[1].seq = want[c].seq
    <3>1. CASE i = <<>>
      BY <1>6, <1>7, <2>1, <2>2, <3>1
    <3>2. CASE i # <<>>
      <4>1. 1 \in 1..Len(i) /\ Head(i) = i[1] /\ Head(i).seq = want[c].seq
        BY <1>2, <3>2, TailOf DEF Talks, Counted, i
      <4> QED
        BY <1>7, <4>1
    <3> QED
      BY <3>1, <3>2
  <2>4. ASSUME NEW k \in 1..(Len(Append(i, p)) - 1)
        PROVE  Append(i, p)[k + 1].seq = Plus1(Append(i, p)[k].seq)
    <3>1. CASE k < Len(i)
      <4>1. k \in 1..(Len(i) - 1) /\ k \in 1..Len(i) /\ k + 1 \in 1..Len(i)
        BY <1>7, <3>1
      <4>2. i[k + 1].seq = Plus1(i[k].seq)
        BY <4>1 DEF Talks, Counted, i
      <4> QED
        BY <1>7, <4>1, <4>2
    <3>2. CASE k = Len(i)
      <4>1. k \in 1..Len(i) /\ i # <<>>
        BY <1>7, <2>2, <3>2
      <4> QED
        BY <1>6, <1>7, <2>1, <3>2, <4>1
    <3> QED
      BY <1>7, <3>1, <3>2
  <2>5. seq'[c] = Plus1(Append(i, p)[Len(Append(i, p))].seq)
    BY <1>3, <1>6, <1>7
  <2>6. inbox'[c] = Append(i, p) /\ inbox'[c] # <<>> /\ Head(inbox'[c]).seq = want'[c].seq
    BY <1>3, <1>7, <2>3
  <2>7. \A k \in 1..(Len(inbox'[c]) - 1) : inbox'[c][k + 1].seq = Plus1(inbox'[c][k].seq)
    BY <2>4, <2>6
  <2>8. seq'[c] = Plus1(inbox'[c][Len(inbox'[c])].seq)
    BY <2>5, <2>6
  <2> QED
    BY <2>6, <2>7, <2>8 DEF Counted
<1>10. Meets(c, u)'
  <2>1. CASE stage[c] = "greeting"
    <3>1. /\ u.state = "welcome" /\ i = <<>> /\ outbox[c] = <<>>
          /\ want[c].state = "greeting" /\ Len(t) = 1
      BY <1>1, <2>1 DEF Meets, i, t
    <3>2. stage'[c] = "auth" /\ Len(Append(i, p)) = 1
      BY <1>4, <1>7, <2>1, <3>1 DEF After
    <3> QED
      BY <1>3, <3>1, <3>2 DEF Meets
  <2>2. CASE stage[c] \in {"welcome", "reply"}
    <3>1. u.state = "idle" /\ outbox[c] = <<>> /\ want[c].state # "greeting"
      BY <1>1, <2>2 DEF Meets
    <3>2. stage'[c] \in {"welcome", "reply", "loop"}
      BY <1>4, <2>2 DEF After
    <3>3. OnlyCloses(outbox'[c])
      BY <1>3, <3>1 DEF OnlyCloses
    <3> QED
      BY <1>3, <3>1, <3>2, <3>3 DEF Meets
  <2>3. CASE stage[c] = "columns"
    <3>1. u.state = "rows" /\ outbox[c] = <<>> /\ want[c].state # "greeting"
      BY <1>1, <2>3 DEF Meets
    <3>2. stage'[c] \in {"columns", "rows"}
      BY <1>4, <2>3 DEF After
    <3> QED
      BY <1>3, <3>1, <3>2 DEF Meets
  <2> QED
    BY <1>2, <2>1, <2>2, <2>3
<1>11. Stream(c)' = Append(i, p) \o Tail(t)
  BY <1>3 DEF Stream
<1> QED
  BY <1>3, <1>8, <1>9, <1>10, <1>11 DEF Talks


LEMMA CatHead ==
    ASSUME NEW s \in Seq(Packets), NEW t \in Seq(Packets), s # <<>>
    PROVE  /\ s \o t \in Seq(Packets) /\ s \o t # <<>>
           /\ Head(s \o t) = Head(s) /\ Tail(s \o t) = Tail(s) \o t
<1>1. Len(s) \in Nat \ {0} /\ Len(t) \in Nat /\ Head(s) \in Packets /\ Tail(s) \in Seq(Packets)
  BY NonEmpty, LenProperties
<1>2. s \o t \in Seq(Packets) /\ Len(s \o t) = Len(s) + Len(t)
  BY ConcatProperties
<1>3. s \o t # <<>>
  BY <1>1, <1>2, EmptySeq
<1>4. (s \o t)[1] = s[1]
  BY <1>1, ConcatProperties
<1>5. Head(s \o t) = Head(s)
  BY <1>2, <1>3, <1>4, HeadTailProperties
<1>6. Tail(s \o t) = Tail(s) \o t
  BY <1>1, <1>2, <1>3
<1> QED
  BY <1>2, <1>3, <1>5, <1>6

LEMMA ReadConverses ==
    ASSUME TypeOK, TypeOK', NEW c \in Clients, Talks(c), Read(c),
           c \in Lenient \/ Unprepared(c)
    PROVE  Talks(c)' /\ (Unprepared(c) => Unprepared(c)')
<1> DEFINE i == inbox[c]
           p == Head(i)
<1>1. PICK u \in Points : Leads(Place(want[c]), Stream(c), u) /\ Meets(c, u)
  BY DEF Talks
<1>2. /\ i \in Seq(Packets) /\ i # <<>> /\ todo[c] \in Seq(Packets)
      /\ want[c] \in Wants /\ want'[c] \in Wants
      /\ inbox'[c] = Tail(i) /\ want'[c] = Follow(c, want[c], p)
      /\ outbox'[c] = IF want[c].state = "greeting" THEN Append(outbox[c], Bare("login"))
                      ELSE outbox[c]
      /\ UNCHANGED <<stage[c], todo[c], seq[c]>>
  BY DEF Read, TypeOK, taskVars
<1>3. /\ Len(i) \in Nat \ {0} /\ Len(Tail(i)) = Len(i) - 1 /\ p = i[1] /\ p \in Packets
      /\ \A k \in 1..Len(Tail(i)) : k + 1 \in 1..Len(i) /\ Tail(i)[k] = i[k + 1]
      /\ Tail(i) \in Seq(Packets) /\ (Tail(i) = <<>> <=> Len(i) = 1)
  BY <1>2, NonEmpty, TailOf
<1>4. p.seq = want[c].seq
  BY <1>2 DEF Talks, Counted
<1>5. PICK w \in Points : Takes(Place(want[c]), p, w) /\ Leads(w, Tail(i) \o todo[c], u)
  <2>1. /\ Stream(c) \in Seq(Packets) /\ Stream(c) # <<>> /\ Head(Stream(c)) = p
        /\ Tail(Stream(c)) = Tail(i) \o todo[c]
    <3>1. Stream(c) = i \o todo[c]
      BY DEF Stream
    <3> QED
      BY <1>2, <3>1, CatHead
  <2> QED
    BY <1>1, <2>1, PathTail
<1> HIDE DEF p
<1>6. /\ Place(want'[c]) = w
      /\ w.state \notin {"idle", "welcome"} => want'[c].seq = Plus1(want[c].seq)
      /\ want[c].state = "greeting" => want'[c] = Want("welcome", 0, 2 % SeqMod)
      /\ w.state # "greeting" /\ (w.state = "welcome" => want[c].state = "greeting")
      /\ want'[c].state = w.state
  <2>1. Place(want'[c]).state = want'[c].state
    BY DEF Place, Point
  <2> QED
    <3>1. c \in Lenient \/ want[c].state \notin Preparing
      BY <1>2 DEF Unprepared
    <3> QED
      BY <1>2, <1>3, <1>4, <1>5, <2>1, <3>1, TakesFollows
<1>7. Stream(c)' = Tail(i) \o todo[c]
  BY <1>2 DEF Stream
<1>8. want[c].state = "greeting" => stage[c] = "auth" /\ Len(i) = 1 /\ todo[c] = <<>>
  <2>1. ASSUME want[c].state = "greeting" PROVE stage[c] = "auth"
    BY <1>1, <1>2, <2>1 DEF Meets, i
  <2>2. ASSUME stage[c] = "auth" PROVE Len(i) = 1 /\ todo[c] = <<>>
    <3>1. Len(i) <= 1
      BY <1>1, <2>2 DEF Meets
    <3>2. todo[c] = <<>>
      BY <2>2, Nothing
    <3> QED
      BY <1>3, <3>1, <3>2
  <2> QED
    BY <2>1, <2>2
<1>9. Meets(c, u)'
  <2>1. CASE want[c].state = "greeting"
    <3>1. stage'[c] = "auth" /\ inbox'[c] = <<>> /\ want'[c] = Want("welcome", 0, 2 % SeqMod)
      BY <1>2, <1>3, <1>6, <1>8, <2>1
    <3>2. u.state = "welcome" /\ outbox[c] = <<>>
      BY <1>1, <1>8, <2>1 DEF Meets
    <3>3. Len(outbox'[c]) = 1
      BY <1>2, <2>1, <3>2
    <3>4. Len(inbox'[c]) <= 1
      BY <3>1
    <3>5. want'[c].state # "greeting"
      BY <3>1 DEF Want
    <3> QED
      BY <3>1, <3>2, <3>3, <3>4, <3>5 DEF Meets
  <2>2. CASE want[c].state # "greeting"
    <3>1. outbox'[c] = outbox[c] /\ stage'[c] = stage[c] /\ todo'[c] = todo[c]
      BY <1>2, <2>2
    <3>2. want'[c].state # "greeting"
      BY <1>6
    <3>3. stage[c] \notin {"off", "greeting", "auth", "acquire", "query"}
      BY <1>1, <1>2, <2>2 DEF Meets, i
    <3>4. stage[c] = "loop" => u.state = "idle" /\ OnlyCloses(outbox[c])
      BY <1>1, <1>2 DEF Meets, i
    <3>5. stage[c] \in {"welcome", "reply"} => u.state = "idle" /\ outbox[c] = <<>>
      BY <1>1 DEF Meets
    <3>6. stage[c] \in {"columns", "rows"} => u.state = "rows" /\ outbox[c] = <<>>
      BY <1>1 DEF Meets
    <3> QED
      BY <3>1, <3>2, <3>3, <3>4, <3>5, <3>6 DEF Meets
  <2> QED
    BY <2>1, <2>2
\* Unless the reply is over, the client wants the number that comes next.
<1>10. ASSUME Tail(i) # <<>> \/ todo[c] # <<>> \/ stage[c] = "rows"
       PROVE  want'[c].seq = Plus1(want[c].seq)
  <2>1. w.state # "idle"
    <3>1. CASE Tail(i) \o todo[c] # <<>>
      <4>1. Tail(i) \o todo[c] \in Seq(Packets)
        BY <1>2, <1>3
      <4> QED
        BY <1>5, <3>1, <4>1, PathEnds
    <3>2. CASE Tail(i) \o todo[c] = <<>>
      <4>1. Tail(i) = <<>> /\ todo[c] = <<>>
        BY <1>2, <1>3, <3>2
      <4>2. u = w
        <5>1. Tail(i) \o todo[c] \in Seq(Packets)
          BY <1>2, <1>3
        <5> QED
          BY <1>5, <3>2, <5>1, PathEnds
      <4>3. stage[c] = "rows"
        BY <1>10, <4>1
      <4> QED
        BY <1>1, <4>2, <4>3 DEF Meets
    <3> QED
      BY <3>1, <3>2
  <2>2. want[c].state # "greeting"
    BY <1>3, <1>8, <1>10
  <2> QED
    BY <1>6, <2>1, <2>2
<1>11. Counted(c)'
  <2>1. \A k \in 1..(Len(i) - 1) : i[k + 1].seq = Plus1(i[k].seq)
    BY DEF Talks, Counted
  <2>2. Tail(i) # <<>> => Head(Tail(i)).seq = want'[c].seq
    <3>1. SUFFICES ASSUME Tail(i) # <<>> PROVE Head(Tail(i)).seq = want'[c].seq
      OBVIOUS
    <3>2. 1 \in 1..Len(Tail(i)) /\ Head(Tail(i)) = Tail(i)[1]
      BY <1>3, <3>1, TailOf
    <3>3. Tail(i)[1] = i[1 + 1] /\ 1 \in 1..(Len(i) - 1)
      BY <1>3, <3>2
    <3>4. i[1 + 1].seq = Plus1(i[1].seq)
      BY <2>1, <3>3
    <3> QED
      BY <1>3, <1>4, <1>10, <3>1, <3>2, <3>3, <3>4
  <2>3. ASSUME NEW k \in 1..(Len(Tail(i)) - 1) PROVE Tail(i)[k + 1].seq = Plus1(Tail(i)[k].seq)
    <3>1. k + 1 \in 1..(Len(i) - 1) /\ k \in 1..Len(Tail(i)) /\ k + 1 \in 1..Len(Tail(i))
      BY <1>3
    <3>2. Tail(i)[k + 1] = i[(k + 1) + 1] /\ Tail(i)[k] = i[k + 1]
      BY <1>3, <3>1
    <3> QED
      BY <2>1, <3>1, <3>2
  <2>4. ASSUME todo[c] # <<>> \/ stage[c] = "rows"
        PROVE  seq[c] = IF Tail(i) = <<>> THEN want'[c].seq ELSE Plus1(Tail(i)[Len(Tail(i))].seq)
    <3>1. seq[c] = Plus1(i[Len(i)].seq)
      BY <1>2, <2>4 DEF Talks, Counted
    <3>2. want'[c].seq = Plus1(want[c].seq)
      BY <1>10, <2>4
    <3>3. CASE Tail(i) = <<>>
      BY <1>3, <1>4, <3>1, <3>2, <3>3
    <3>4. CASE Tail(i) # <<>>
      <4>1. Len(Tail(i)) \in 1..Len(Tail(i)) /\ Len(Tail(i)) + 1 = Len(i)
        BY <1>3, <3>4
      <4> QED
        BY <1>3, <3>1, <3>4, <4>1
    <3> QED
      BY <3>3, <3>4
  <2> HIDE DEF i
  <2> QED
    BY <1>2, <2>2, <2>3, <2>4 DEF Counted
<1>12. ASSUME Unprepared(c) PROVE Unprepared(c)'
  <2>1. want[c].state \notin Preparing
    BY <1>2, <1>12 DEF Unprepared
  <2>2. Place(want[c]).state = want[c].state /\ \A state, n : Point(state, n).state = state
    BY DEF Place, Point
  <2>3. w.state \notin Preparing
    BY <1>5, <2>1, <2>2 DEF Takes, Preparing
  <2> QED
    BY <1>6, <2>3 DEF Unprepared
<1> HIDE DEF i
<1> QED
  BY <1>5, <1>6, <1>7, <1>9, <1>11, <1>12 DEF Talks


LEMMA OnePacket ==
    ASSUME NEW v \in Points, NEW p \in Packets, NEW u \in Points, Takes(v, p, u)
    PROVE  Leads(v, <<p>>, u)
<1>1. Leads(v, Append(<<>>, p), u)
  <2>1. <<>> \in Seq(Packets) /\ Leads(v, <<>>, v)
    BY NoPath
  <2> QED
    BY <2>1, PathGoesOn
<1>2. Append(<<>>, p) = <<p>>
  OBVIOUS
<1> QED
  BY <1>1, <1>2

\* A task that reads a command other than close reads the last one, to which
\* the client waits for the reply.
LEMMA ReadsLast ==
    ASSUME TypeOK, NEW c \in Clients, Talks(c),
           NEW op \in {"ping", "query", "prepare", "execute", "quit", "other"}, Reads(c, op)
    PROVE  /\ inbox[c] = <<>> /\ todo[c] = <<>> /\ outbox'[c] = <<>> /\ Numbered(c) = 0
           /\ want[c] = Want(IF op = "prepare" THEN "prepared" ELSE "answer", 0, Plus1(0))
           /\ ~Gone(c) /\ want[c].state # "greeting" /\ Place(want[c]) \in Points
<1>1. PICK u \in Points : Meets(c, u)
  BY DEF Talks
<1>2. /\ stage[c] = "loop" /\ outbox[c] # <<>> /\ Head(outbox[c]).op = op
      /\ outbox'[c] = Tail(outbox[c]) /\ outbox[c] \in Seq(Commands)
  BY DEF Reads, TypeOK
<1>3. Len(outbox[c]) \in Nat \ {0} /\ Head(outbox[c]) = outbox[c][1]
      /\ (Tail(outbox[c]) = <<>> <=> Len(outbox[c]) = 1)
  BY <1>2, NonEmpty, TailOf
<1>4. ~OnlyCloses(outbox[c])
  <2>1. 1 \in 1..Len(outbox[c])
    BY <1>3
  <2> QED
    BY <1>2, <1>3, <2>1 DEF OnlyCloses
<1>5. inbox[c] = <<>> /\ AsksLast(outbox[c], want[c])
  BY <1>1, <1>2, <1>4 DEF Meets
<1>6. Len(outbox[c]) = 1
  <2>1. SUFFICES ASSUME Len(outbox[c]) # 1 PROVE FALSE
    OBVIOUS
  <2>2. 1 \in 1..(Len(outbox[c]) - 1)
    BY <1>3, <2>1
  <2> QED
    BY <1>2, <1>3, <1>5, <2>2 DEF AsksLast
<1>7. want[c] = Want(IF op = "prepare" THEN "prepared" ELSE "answer", 0, Plus1(0)) /\ Numbered(c) = 0
  BY <1>2, <1>3, <1>5, <1>6 DEF AsksLast, Numbered
<1>8. ~Gone(c) /\ want[c].state # "greeting" /\ want[c].state \notin {"lost", "closed"}
  BY <1>7 DEF Gone, Want
<1>9. Place(want[c]) \in Points
  BY <1>8, PlaceOf DEF TypeOK
<1> QED
  BY <1>2, <1>3, <1>5, <1>6, <1>7, <1>8, <1>9, Nothing

\* Nothing is on the way, and the task does not write.
LEMMA QuietKeeps ==
    ASSUME TypeOK, TypeOK', NEW c \in Clients, inbox'[c] = <<>>, todo'[c] = <<>>,
           stage'[c] \in {"acquire", "query", "loop", "ended"},
           Place(want'[c]) \in Points, Meets(c, Place(want[c]))'
    PROVE  Talks(c)'
<1>1. Stream(c)' = <<>>
  BY DEF Stream
<1>2. Counted(c)'
  BY DEF Counted
<1>3. Leads(Place(want'[c]), <<>>, Place(want'[c]))
  BY NoPath
<1> QED
  BY <1>1, <1>2, <1>3 DEF Talks

LEMMA EndConverses ==
    ASSUME TypeOK, TypeOK', NEW c \in Clients, Talks(c), End(c), stage[c] \in {"loop", "rows"}
    PROVE  Talks(c)'
<1>1. PICK u \in Points : Leads(Place(want[c]), Stream(c), u) /\ Meets(c, u)
  BY DEF Talks
<1>2. /\ stage'[c] = "ended" /\ todo'[c] = <<>>
      /\ UNCHANGED <<inbox[c], want[c]>>
      /\ inbox[c] \in Seq(Packets) /\ todo[c] \in Seq(Packets)
  BY DEF End, Goto, TypeOK, clientVars
<1>3. Counted(c)'
  BY <1>2 DEF Talks, Counted
<1>4. PICK w \in Points : Leads(Place(want[c]), inbox[c], w)
  BY <1>1, <1>2, PathIsCut DEF Stream
<1>5. Stream(c)' = inbox[c]
  BY <1>2 DEF Stream
<1>6. Meets(c, w)'
  BY <1>1, <1>2 DEF Meets
<1> QED
  BY <1>2, <1>3, <1>4, <1>5, <1>6 DEF Talks

LEMMA AcceptConverses ==
    ASSUME TypeOK, TypeOK', NEW c \in Clients, Talks(c), Accept(c)
    PROVE  Talks(c)'
<1>1. want[c] = Want("greeting", 0, 0) /\ inbox[c] = <<>> /\ outbox[c] = <<>>
  BY DEF Talks, Meets, Accept
<1>2. /\ stage'[c] = "greeting" /\ todo'[c] = <<Plain("handshake")>> /\ seq'[c] = 0
      /\ UNCHANGED <<inbox[c], outbox[c], want[c]>>
  BY DEF Accept, Send, Goto, TypeOK, clientVars
<1>3. Counted(c)'
  BY <1>1, <1>2, PlacesOf DEF Counted
<1>4. Stream(c)' = <<Plain("handshake")>>
  BY <1>1, <1>2 DEF Stream
<1>5. Leads(Place(want[c]), <<Plain("handshake")>>, Point("welcome", 0))
  <2>1. Takes(Place(want[c]), Plain("handshake"), Point("welcome", 0))
    BY <1>1 DEF Takes, Place, Point, Want, Plain, Packet
  <2>2. /\ Place(want[c]) \in Points /\ Point("welcome", 0) \in Points
        /\ Plain("handshake") \in Packets
    BY <1>1, PlainPackets DEF Points, Point, Place, Want
  <2> QED
    BY <2>1, <2>2, OnePacket
<1>6. Meets(c, Point("welcome", 0))'
  BY <1>1, <1>2, PlacesOf DEF Meets
<1>7. Point("welcome", 0) \in Points
  BY DEF Point, Points
<1> QED
  BY <1>2, <1>3, <1>4, <1>5, <1>6, <1>7 DEF Talks

LEMMA AuthenticateConverses ==
    ASSUME TypeOK, TypeOK', NEW c \in Clients, Talks(c), Authenticate(c)
    PROVE  Talks(c)'
<1>1. /\ stage[c] = "auth" /\ outbox[c] # <<>> /\ outbox[c] \in Seq(Commands)
      /\ Send(c, "welcome", <<Plain("ok")>>, 2 % SeqMod)
      /\ outbox'[c] = Tail(outbox[c]) /\ UNCHANGED <<inbox[c], want[c]>>
  BY DEF Authenticate, TypeOK, clientVars
<1>2. /\ inbox[c] = <<>> /\ Len(outbox[c]) = 1 /\ want[c] = Want("welcome", 0, 2 % SeqMod)
      /\ todo[c] = <<>>
  BY <1>1, Nothing DEF Talks, Meets
<1>3. outbox'[c] = <<>>
  BY <1>1, <1>2, NonEmpty
<1>4. /\ ~Gone(c) /\ want[c].seq = 2 % SeqMod /\ want[c].state # "greeting"
      /\ Place(want[c]) = Point("welcome", 0)
  BY <1>2, PlacesOf DEF Gone
<1>5. /\ Point("welcome", 0) \in Points /\ Point("idle", 0) \in Points
      /\ Plain("ok") \in Packets /\ <<Plain("ok")>> \in Seq(Packets)
  BY PlainPackets DEF Point, Points
<1>6. Takes(Point("welcome", 0), Plain("ok"), Point("idle", 0))
  BY DEF Takes, Point, Plain, Packet
<1>7. Leads(Place(want[c]), <<Plain("ok")>>, Point("idle", 0))
  BY <1>4, <1>5, <1>6, OnePacket
<1>8. Point("idle", 0).state = "idle"
  BY PlacesOf
<1> QED
  BY <1>1, <1>2, <1>3, <1>4, <1>5, <1>7, <1>8, ReplyKeeps

\* A client that waits for an answer gets an "ok" or an error.
LEMMA ShortAnswer ==
    ASSUME NEW kind \in {"ok", "error"}, NEW v \in Points, v.state = "answer"
    PROVE  Leads(v, <<Plain(kind)>>, Point("idle", 0)) /\ <<Plain(kind)>> \in Seq(Packets)
           /\ Point("idle", 0) \in Points /\ Point("idle", 0).state = "idle"
<1>1. Point("idle", 0) \in Points /\ Plain(kind) \in Packets /\ Point("idle", 0).state = "idle"
  BY PlainPackets DEF Point, Points
<1>2. Takes(v, Plain(kind), Point("idle", 0))
  BY DEF Takes, Plain, Packet
<1> QED
  BY <1>1, <1>2, OnePacket


LEMMA AnsweredConverses ==
    ASSUME TypeOK, TypeOK', NEW c \in Clients, ~Gone(c), inbox[c] = <<>>, todo[c] = <<>>,
           outbox'[c] = <<>>, UNCHANGED <<inbox[c], want[c]>>, want[c].state = "answer",
           NEW kind \in {"ok", "error"}, Reply(c, <<Plain(kind)>>, want[c].seq)
    PROVE  Talks(c)'
<1>1. Place(want[c]) \in Points /\ Place(want[c]).state = "answer"
  BY PlaceOf DEF TypeOK, Place, Point
<1>2. /\ Leads(Place(want[c]), <<Plain(kind)>>, Point("idle", 0))
      /\ <<Plain(kind)>> \in Seq(Packets)
      /\ Point("idle", 0) \in Points /\ Point("idle", 0).state = "idle"
  BY <1>1, ShortAnswer
<1>3. Send(c, "reply", <<Plain(kind)>>, want[c].seq)
  BY DEF Reply
<1> QED
  BY <1>2, <1>3, ReplyKeeps

LEMMA CommandConverses ==
    ASSUME TypeOK, TypeOK', NEW c \in Clients, Talks(c),
           \/ Acknowledge(c) \/ Query(c) \/ Prepare(c) \/ Execute(c) \/ Quit(c) \/ Ignore(c)
    PROVE  Talks(c)'
<1>0. UNCHANGED <<inbox[c], want[c]>>
  BY DEF Acknowledge, Query, Prepare, Execute, Quit, Ignore, End, clientVars
<1>1. \A op \in {"ping", "query", "execute", "other"} : Reads(c, op) =>
        /\ inbox[c] = <<>> /\ todo[c] = <<>> /\ outbox'[c] = <<>> /\ Numbered(c) = 0
        /\ want[c].state = "answer" /\ want[c].seq = Plus1(0) /\ ~Gone(c)
        /\ Place(want[c]) \in Points
  BY ReadsLast, PlacesOf
<1>2. CASE Acknowledge(c)
  <2>1. Reads(c, "ping") /\ Reply(c, <<Plain("ok")>>, Plus1(Numbered(c)))
    BY <1>2 DEF Acknowledge
  <2>2. "ping" \in {"ping", "query", "execute", "other"}
    OBVIOUS
  <2> QED
    BY <1>0, <1>1, <2>1, <2>2, AnsweredConverses
\* A query, or a statement that is found, waits for a connection.
<1>3. ASSUME NEW op \in {"query", "execute"}, Reads(c, op), Goto(c, "acquire"),
             seq' = [seq EXCEPT ![c] = Numbered(c)], todo' = todo
      PROVE  Talks(c)'
  <2>1. /\ stage'[c] = "acquire" /\ seq'[c] = 0 /\ inbox'[c] = <<>> /\ todo'[c] = <<>>
        /\ outbox'[c] = <<>> /\ want'[c].state = "answer" /\ want'[c].seq = Plus1(0)
        /\ Place(want'[c]) \in Points
    BY <1>0, <1>1, <1>3 DEF Goto, TypeOK
  <2>2. Meets(c, Place(want[c]))'
    BY <2>1 DEF Meets
  <2> QED
    BY <2>1, <2>2, QuietKeeps
<1>4. CASE Query(c)
  BY <1>3, <1>4 DEF Query
<1>5. CASE Execute(c)
  <2>1. CASE Has(table[c], Head(outbox[c]).id)
    BY <1>3, <1>5, <2>1 DEF Execute
  <2>2. CASE ~Has(table[c], Head(outbox[c]).id)
    <3>1. Reads(c, "execute") /\ Reply(c, <<Plain("error")>>, Plus1(Numbered(c)))
      BY <1>5, <2>2 DEF Execute
    <3>2. "execute" \in {"ping", "query", "execute", "other"}
      OBVIOUS
    <3> QED
      BY <1>0, <1>1, <3>1, <3>2, AnsweredConverses
  <2> QED
    BY <2>1, <2>2
<1>6. CASE Prepare(c)
  <2> DEFINE n == Markers[Head(outbox[c]).text]
  <2>1. Reads(c, "prepare") /\ Reply(c, PreparedPackets(nextId[c], n), Plus1(Numbered(c)))
    BY <1>6 DEF Prepare
  <2>2. n \in Nat /\ nextId[c] \in Nat
    <3>1. outbox[c] # <<>> /\ Head(outbox[c]).op = "prepare"
      BY <2>1 DEF Reads
    <3>2. Head(outbox[c]).text \in Texts
      BY <3>1, ReadsTyped
    <3> QED
      BY <3>2, ProxyAssumption DEF TypeOK
  <2> HIDE DEF n
  <2>3. /\ inbox[c] = <<>> /\ todo[c] = <<>> /\ outbox'[c] = <<>> /\ Numbered(c) = 0
        /\ want[c] = Want("prepared", 0, Plus1(0))
        /\ ~Gone(c) /\ want[c].state # "greeting" /\ Place(want[c]) \in Points
    BY <2>1, ReadsLast
  <2>4. Place(want[c]).state = "prepared" /\ want[c].seq = Plus1(0)
    BY <2>3, PlacesOf
  <2>5. /\ Leads(Place(want[c]), PreparedPackets(nextId[c], n), Point("idle", 0))
        /\ PreparedPackets(nextId[c], n) \in Seq(Packets)
    BY <2>2, <2>3, <2>4, PreparedPath, PreparedTyped
  <2>6. Point("idle", 0) \in Points /\ Point("idle", 0).state = "idle"
    BY DEF Point, Points
  <2>7. Send(c, "reply", PreparedPackets(nextId[c], n), want[c].seq)
    BY <2>1, <2>3, <2>4 DEF Reply
  <2> QED
    BY <1>0, <2>3, <2>5, <2>6, <2>7, ReplyKeeps
<1>7. CASE Quit(c)
  <2>1. stage[c] = "loop" /\ End(c)
    BY <1>7 DEF Quit, Reads
  <2> QED
    BY <2>1, EndConverses
<1>8. CASE Ignore(c)
  <2>1. Reads(c, "other") /\ stage[c] = "loop" /\ UNCHANGED <<stage[c], todo[c]>>
    BY <1>8 DEF Ignore, Reads
  <2>2. "other" \in {"ping", "query", "execute", "other"}
    OBVIOUS
  <2>3. /\ stage'[c] = "loop" /\ inbox'[c] = <<>> /\ todo'[c] = <<>>
        /\ outbox'[c] = <<>> /\ want'[c].state = "answer" /\ Place(want'[c]) \in Points
    BY <1>0, <1>1, <2>1, <2>2
  <2>4. Meets(c, Place(want[c]))'
    BY <2>3 DEF Meets
  <2> QED
    BY <2>3, <2>4, QuietKeeps
<1> QED
  BY <1>2, <1>4, <1>5, <1>6, <1>7, <1>8

LEMMA CloseStatementConverses ==
    ASSUME TypeOK, TypeOK', NEW c \in Clients, Talks(c), CloseStatement(c)
    PROVE  Talks(c)'
<1>1. PICK u \in Points : Leads(Place(want[c]), Stream(c), u) /\ Meets(c, u)
  BY DEF Talks
<1>2. /\ stage[c] = "loop" /\ outbox[c] # <<>> /\ Head(outbox[c]).op = "close"
      /\ outbox'[c] = Tail(outbox[c]) /\ outbox[c] \in Seq(Commands)
      /\ UNCHANGED <<stage[c], todo[c], seq[c], inbox[c], want[c]>>
  BY DEF CloseStatement, Reads, TypeOK, clientVars
<1> DEFINE o == outbox[c]
<1>3. /\ Len(o) \in Nat \ {0} /\ Len(Tail(o)) = Len(o) - 1 /\ Head(o) = o[1]
      /\ \A i \in 1..Len(Tail(o)) : i + 1 \in 1..Len(o) /\ Tail(o)[i] = o[i + 1]
      /\ (Tail(o) = <<>> <=> Len(o) = 1)
  BY <1>2, NonEmpty, TailOf
<1>4. OnlyCloses(o) => OnlyCloses(Tail(o))
  BY <1>3 DEF OnlyCloses
<1>5. ASSUME AsksLast(o, want[c]) PROVE AsksLast(Tail(o), want[c])
  <2>1. Len(o) # 1
    BY <1>2, <1>3, <1>5 DEF AsksLast
  <2>2. Len(Tail(o)) \in 1..Len(Tail(o)) /\ Len(Tail(o)) + 1 = Len(o)
    BY <1>3, <2>1
  <2>3. Tail(o)[Len(Tail(o))] = o[Len(o)]
    BY <1>3, <2>2
  <2>4. ASSUME NEW i \in 1..(Len(Tail(o)) - 1) PROVE Tail(o)[i].op = "close"
    <3>1. i \in 1..Len(Tail(o)) /\ i + 1 \in 1..(Len(o) - 1)
      BY <1>3
    <3>2. o[i + 1].op = "close"
      BY <1>5, <3>1 DEF AsksLast
    <3> QED
      BY <1>3, <3>1, <3>2
  <2>5. Tail(o) # <<>>
    BY <1>3, <2>1
  <2> HIDE DEF o
  <2> QED
    BY <1>5, <2>3, <2>4, <2>5 DEF AsksLast
<1>6. Counted(c)'
  BY <1>2 DEF Talks, Counted
<1>7. Stream(c)' = Stream(c) /\ want'[c] = want[c]
  BY <1>2 DEF Stream
<1>8. Meets(c, u)'
  BY <1>1, <1>2, <1>4, <1>5 DEF Meets
<1> QED
  BY <1>1, <1>6, <1>7, <1>8 DEF Talks


LEMMA QueryConverses ==
    ASSUME TypeOK, TypeOK', NEW c \in Clients, Talks(c),
           Acquire(c) \/ AcquireFails(c) \/ Answer(c)
    PROVE  Talks(c)'
<1>1. stage[c] \in {"acquire", "query"} /\ UNCHANGED <<inbox[c], outbox[c], want[c]>>
  BY DEF Acquire, AcquireFails, Answer, clientVars
<1>2. /\ want[c].state = "answer" /\ want[c].seq = Plus1(seq[c])
      /\ inbox[c] = <<>> /\ outbox[c] = <<>> /\ todo[c] = <<>>
  BY <1>1, Nothing DEF Talks, Meets
<1>3. ~Gone(c) /\ Place(want[c]) \in Points /\ Place(want[c]).state = "answer"
  BY <1>2, PlaceOf DEF Gone, TypeOK, Place, Point
<1>4. CASE Acquire(c)
  <2>1. stage'[c] = "query" /\ UNCHANGED <<seq[c], todo[c]>>
    BY <1>4 DEF Acquire, Goto, TypeOK
  <2>2. Meets(c, Place(want[c]))'
    BY <1>1, <1>2, <2>1 DEF Meets
  <2> QED
    BY <1>1, <1>2, <1>3, <2>1, <2>2, QuietKeeps
<1>5. ASSUME NEW kind \in {"ok", "error"}, Reply(c, <<Plain(kind)>>, Plus1(seq[c]))
      PROVE  Talks(c)'
  BY <1>1, <1>2, <1>3, <1>5, AnsweredConverses
<1>6. CASE AcquireFails(c)
  BY <1>5, <1>6 DEF AcquireFails
<1>7. CASE Answer(c)
  <2>1. CASE Reply(c, <<Plain("error")>>, Plus1(seq[c])) \/ Reply(c, <<Plain("ok")>>, Plus1(seq[c]))
    BY <1>5, <2>1
  <2>2. ASSUME NEW n \in 1..MaxColumns,
               Send(c, "columns",
                    <<Packet("count", n, 0)>> \o Repeat("column", n) \o <<Plain("eof")>>,
                    Plus1(seq[c]))
        PROVE  Talks(c)'
    <3> DEFINE packets == <<Packet("count", n, 0)>> \o Repeat("column", n) \o <<Plain("eof")>>
    <3>1. n \in Nat
      BY ProxyAssumption
    <3>2. packets \in Seq(Packets)
      <4>1. /\ Packet("count", n, 0) \in Packets /\ Plain("eof") \in Packets
            /\ Repeat("column", n) \in Seq(Packets)
        BY <3>1, PlainPackets DEF Packet, Packets
      <4> QED
        BY <4>1
    <3>3. Leads(Place(want[c]), packets, Point("rows", 0))
      BY <1>3, <3>1, ColumnsPath
    <3>4. Point("rows", 0) \in Points /\ Point("rows", 0).state = "rows"
      BY DEF Point, Points
    <3>5. Send(c, "columns", packets, want[c].seq)
      BY <1>2, <2>2
    <3> HIDE DEF packets
    <3> QED
      BY <1>1, <1>2, <1>3, <3>2, <3>3, <3>4, <3>5, ReplyKeeps
  <2> QED
    BY <1>7, <2>1, <2>2 DEF Answer
<1> QED
  BY <1>4, <1>6, <1>7

\* A row, or the end of them, goes behind the packets that the client has yet
\* to read.
LEMMA RowConverses ==
    ASSUME TypeOK, TypeOK', NEW c \in Clients, Talks(c), Row(c) \/ RowsEnd(c) \/ RowFails(c)
    PROVE  Talks(c)'
<1>1. PICK u \in Points : Leads(Place(want[c]), Stream(c), u) /\ Meets(c, u)
  BY DEF Talks
<1>2. stage[c] = "rows"
  BY DEF Row, RowsEnd, RowFails
<1>3. /\ u.state = "rows" /\ outbox[c] = <<>> /\ want[c].state # "greeting"
      /\ todo[c] = <<>> /\ inbox[c] \in Seq(Packets)
  BY <1>1, <1>2, Nothing DEF Meets, TypeOK
<1>4. Leads(Place(want[c]), inbox[c], u)
  BY <1>1, <1>3, Shared
<1>5. ASSUME NEW next \in {"columns", "reply"}, NEW p \in Packets, NEW w \in Points,
             Send(c, next, <<p>>, seq[c]), UNCHANGED <<inbox[c], outbox[c], want[c]>>,
             Takes(u, p, w), w.state = IF next = "columns" THEN "rows" ELSE "idle"
      PROVE  Talks(c)'
  <2>1. stage'[c] = next /\ todo'[c] = <<p>> /\ seq'[c] = seq[c]
    BY <1>5 DEF Send, Goto, TypeOK
  <2>2. Counted(c)'
    BY <1>2, <1>5, <2>1 DEF Talks, Counted
  <2>3. Stream(c)' = Append(inbox[c], p)
    BY <1>3, <1>5, <2>1 DEF Stream
  <2>4. Leads(Place(want[c]), Append(inbox[c], p), w)
    BY <1>3, <1>4, <1>5, PathGoesOn
  <2>5. Meets(c, w)'
    BY <1>3, <1>5, <2>1 DEF Meets
  <2> QED
    BY <1>5, <2>2, <2>3, <2>4, <2>5 DEF Talks
<1>6. CASE Row(c)
  <2>1. Takes(u, Plain("row"), Point("rows", 0)) /\ Point("rows", 0) \in Points
    BY <1>3 DEF Takes, Plain, Packet, Point, Points
  <2>2. /\ Send(c, "columns", <<Plain("row")>>, seq[c]) /\ UNCHANGED <<inbox[c], outbox[c], want[c]>>
        /\ Plain("row") \in Packets /\ Point("rows", 0).state = "rows"
    BY <1>6, PlainPackets, PlacesOf DEF Row, clientVars
  <2> QED
    BY <1>5, <2>1, <2>2
<1>7. CASE RowsEnd(c)
  <2>1. Takes(u, Plain("eof"), Point("idle", 0)) /\ Point("idle", 0) \in Points
    BY <1>3 DEF Takes, Plain, Packet, Point, Points
  <2>2. /\ Send(c, "reply", <<Plain("eof")>>, seq[c]) /\ UNCHANGED <<inbox[c], outbox[c], want[c]>>
        /\ Plain("eof") \in Packets /\ Point("idle", 0).state = "idle"
    BY <1>7, PlainPackets, PlacesOf DEF RowsEnd, Reply, clientVars
  <2> QED
    BY <1>5, <2>1, <2>2
<1>8. CASE RowFails(c)
  BY <1>2, <1>8, EndConverses DEF RowFails
<1> QED
  BY <1>6, <1>7, <1>8

\* When a client is idle the task is in its loop, or has ended.
LEMMA IdleStage ==
    ASSUME TypeOK, NEW c \in Clients, Talks(c), want[c].state = "idle"
    PROVE  stage[c] \in {"loop", "ended"}
<1>1. PICK u \in Points : Leads(Place(want[c]), Stream(c), u) /\ Meets(c, u)
  BY DEF Talks
<1>2. inbox[c] = <<>> /\ todo[c] = <<>>
  BY TalksWell
<1>3. u.state = "idle"
  <2>1. Stream(c) = <<>> /\ Stream(c) \in Seq(Packets)
    BY <1>2 DEF Stream
  <2>2. Place(want[c]) \in Points /\ Place(want[c]).state = "idle"
    BY PlaceOf DEF TypeOK, Place, Point
  <2> QED
    BY <1>1, <2>1, <2>2, PathEnds
<1>4. stage[c] \in Stages /\ stage[c] \notin Writing
  BY <1>2 DEF TypeOK
<1>5. stage[c] \notin {"off", "auth", "rows", "acquire", "query"}
  BY <1>1, <1>3 DEF Meets, Want
<1> QED
  BY <1>4, <1>5 DEF Stages

\* A client that asks has nothing on its way, and the task is in its loop, or
\* has ended.
LEMMA AskConverses ==
    ASSUME TypeOK, TypeOK', NEW c \in Clients, Talks(c), NEW command \in Commands,
           NEW next, Ask(c, command, next), command.seq = 0,
           \/ command.op = "close" /\ next = "idle"
           \/ command.op = "prepare" /\ next = "prepared"
           \/ command.op \in {"ping", "query", "execute", "quit", "other"} /\ next = "answer"
    PROVE  Talks(c)'
<1>1. PICK u \in Points : Leads(Place(want[c]), Stream(c), u) /\ Meets(c, u)
  BY DEF Talks
<1>2. /\ want[c].state = "idle" /\ outbox[c] \in Seq(Commands)
      /\ outbox'[c] = Append(outbox[c], command)
      /\ want'[c] = Want(next, 0, Plus1(0))
      /\ UNCHANGED <<stage[c], todo[c], seq[c], inbox[c]>>
  BY DEF Ask, TypeOK, taskVars
<1>3. inbox[c] = <<>> /\ todo[c] = <<>>
  BY <1>2, TalksWell
<1>4. u.state = "idle"
  <2>1. Stream(c) = <<>> /\ Stream(c) \in Seq(Packets)
    BY <1>3 DEF Stream
  <2>2. Place(want[c]) \in Points /\ Place(want[c]).state = "idle"
    BY <1>2, PlaceOf DEF TypeOK, Place, Point
  <2> QED
    BY <1>1, <2>1, <2>2, PathEnds
<1>5. stage[c] \in {"loop", "ended"}
  <2>1. stage[c] \in Stages /\ stage[c] \notin Writing
    BY <1>3 DEF TypeOK
  <2>2. stage[c] \notin {"off", "auth", "rows", "acquire", "query"}
    BY <1>1, <1>2, <1>4 DEF Meets, Want
  <2> QED
    BY <2>1, <2>2 DEF Stages
<1>6. /\ Place(want'[c]) \in Points /\ want'[c].state # "greeting"
      /\ Place(want'[c]).state = next
  <2>1. next \in {"idle", "prepared", "answer"}
    OBVIOUS
  <2> QED
    BY <1>2, <2>1, PlacesOf DEF Points, Point
<1> DEFINE o == outbox[c]
           longer == Append(o, command)
<1>7. /\ Len(o) \in Nat /\ Len(longer) = Len(o) + 1 /\ longer # <<>>
      /\ \A i \in 1..Len(o) : longer[i] = o[i]
      /\ longer[Len(longer)] = command
  BY <1>2, AppendOf
<1>8. CASE stage[c] = "loop"
  <2>1. \A i \in 1..Len(o) : o[i].op = "close"
    BY <1>1, <1>2, <1>8 DEF Meets, AsksLast, OnlyCloses, Want
  <2> HIDE DEF o, longer
  <2>2. \A i \in 1..(Len(longer) - 1) : longer[i].op = "close"
    BY <1>7, <2>1
  <2>3. CASE command.op = "close"
    <3>1. \A i \in 1..Len(longer) : i \in 1..(Len(longer) - 1) \/ i = Len(longer)
      BY <1>7
    <3>2. OnlyCloses(longer)
      BY <1>7, <2>2, <2>3, <3>1 DEF OnlyCloses
    <3> QED
      BY <1>2, <1>3, <1>6, <1>8, <2>3, <3>2, QuietKeeps DEF Meets, o, longer
  <2>4. CASE command.op # "close"
    <3>1. AsksLast(longer, Want(next, 0, Plus1(0)))
      BY <1>7, <2>2, <2>4 DEF AsksLast
    <3>2. AsksLast(outbox'[c], want'[c])
      BY <1>2, <3>1 DEF o, longer
    <3>3. Meets(c, Place(want[c]))'
      BY <1>2, <1>3, <1>6, <1>8, <3>2 DEF Meets
    <3> QED
      BY <1>2, <1>3, <1>6, <1>8, <3>3, QuietKeeps
  <2> QED
    BY <2>3, <2>4
<1>9. CASE stage[c] = "ended"
  <2>1. Meets(c, Place(want[c]))'
    BY <1>2, <1>6, <1>9 DEF Meets
  <2> QED
    BY <1>2, <1>3, <1>6, <1>9, <2>1, QuietKeeps
<1> QED
  BY <1>5, <1>8, <1>9

LEMMA ClientConverses ==
    ASSUME TypeOK, TypeOK', NEW c \in Clients, Talks(c), Client(c), ~Leave(c)
    PROVE  Talks(c)'
<1>1. CASE AskQuery(c)
  <2>1. PICK op \in {"query", "ping", "other"} : Ask(c, Bare(op), "answer")
    BY <1>1 DEF AskQuery
  <2>2. Bare(op) \in Commands /\ Bare(op).op = op /\ Bare(op).seq = 0
    BY BareTyped DEF Bare, Command
  <2> QED
    BY <2>1, <2>2, AskConverses
<1>2. CASE AskPrepare(c)
  <2>1. PICK t \in Texts : Ask(c, Command("prepare", t, 0), "prepared")
    BY <1>2 DEF AskPrepare
  <2>2. Command("prepare", t, 0) \in Commands
    BY DEF Command, Commands
  <2>3. Command("prepare", t, 0).op = "prepare" /\ Command("prepare", t, 0).seq = 0
    BY DEF Command
  <2> QED
    BY <2>1, <2>2, <2>3, AskConverses
<1>3. CASE AskExecute(c)
  <2>1. PICK id \in Ids \cup {0} : Ask(c, Command("execute", NoText, id), "answer")
    BY <1>3 DEF AskExecute
  <2>2. Command("execute", NoText, id) \in Commands
    <3>1. id \in Nat
      BY IdsAreNumbers
    <3> QED
      BY <3>1 DEF Command, Commands
  <2>3. Command("execute", NoText, id).op = "execute" /\ Command("execute", NoText, id).seq = 0
    BY DEF Command
  <2> QED
    BY <2>1, <2>2, <2>3, AskConverses
<1>4. CASE AskClose(c)
  <2>1. PICK id \in Ids : Ask(c, Command("close", NoText, id), "idle")
    BY <1>4 DEF AskClose
  <2>2. Command("close", NoText, id) \in Commands
    BY <2>1, IdsAreNumbers DEF Command, Commands
  <2>3. Command("close", NoText, id).op = "close" /\ Command("close", NoText, id).seq = 0
    BY DEF Command
  <2> QED
    BY <2>1, <2>2, <2>3, AskConverses
<1>5. CASE AskQuit(c)
  <2>1. Ask(c, Bare("quit"), "answer") /\ Bare("quit").op = "quit" /\ Bare("quit").seq = 0
    BY <1>5 DEF AskQuit, Bare, Command
  <2> QED
    BY <2>1, BareTyped, AskConverses
<1> QED
  BY <1>1, <1>2, <1>3, <1>4, <1>5 DEF Client

\* A client that has left does not come back.
LEMMA GoneStays ==
    ASSUME TypeOK, NEW c \in Clients, Gone(c),
           \/ Task(c) \/ Acquire(c) \/ AcquireFails(c) \/ Row(c) \/ RowsEnd(c) \/ RowFails(c)
           \/ Client(c) \/ Read(c) \/ Hangup(c)
    PROVE  Gone(c)'
<1>1. CASE Task(c)
  BY <1>1 DEF Task, Accept, Write, Broken, Authenticate, Acknowledge, Query, Prepare, Execute,
              CloseStatement, Quit, Ignore, Answer, End, clientVars, Gone
<1>2. CASE Acquire(c) \/ AcquireFails(c) \/ Row(c) \/ RowsEnd(c) \/ RowFails(c)
  BY <1>2 DEF Acquire, AcquireFails, Row, RowsEnd, RowFails, End, clientVars, Gone
<1>3. CASE Client(c) \/ Read(c) \/ Hangup(c)
  BY <1>3 DEF Client, AskQuery, AskPrepare, AskExecute, AskClose, AskQuit, Ask, Leave, Read, Hangup,
              Waiting, Gone
<1> QED
  BY <1>1, <1>2, <1>3

\* The ids of a client's statements only grow, by a prepare.
LEMMA IdsGrow ==
    ASSUME TypeOK, NEW c \in Clients,
           \/ Task(c) \/ Acquire(c) \/ AcquireFails(c) \/ Row(c) \/ RowsEnd(c) \/ RowFails(c)
           \/ Client(c) \/ Read(c) \/ Hangup(c)
    PROVE  IF Prepare(c) THEN nextId'[c] = nextId[c] + 1 ELSE nextId'[c] = nextId[c]
<1>1. CASE Prepare(c)
  BY <1>1 DEF Prepare, TypeOK
<1>2. CASE Task(c) /\ ~Prepare(c)
  BY <1>2 DEF Task, Accept, Write, Broken, Authenticate, Acknowledge, Query, Execute,
              CloseStatement, Quit, Ignore, Answer, End
<1>3. CASE (Acquire(c) \/ AcquireFails(c) \/ Row(c) \/ RowsEnd(c) \/ RowFails(c)) /\ ~Prepare(c)
  BY <1>3 DEF Acquire, AcquireFails, Row, RowsEnd, RowFails, End
<1>4. CASE (Client(c) \/ Read(c) \/ Hangup(c)) /\ ~Prepare(c)
  BY <1>4 DEF Client, AskQuery, AskPrepare, AskExecute, AskClose, AskQuit, Ask, Leave, Read, Hangup,
              Close, taskVars
<1> QED
  BY <1>1, <1>2, <1>3, <1>4

\* Whatever its task does but prepare, a client that waits for the reply to its
\* first prepare waits on.
LEMMA TaskUnprepared ==
    ASSUME TypeOK, NEW c \in Clients, Talks(c), Unprepared(c), ~Prepare(c), ~Gone(c),
           Task(c) \/ Acquire(c) \/ AcquireFails(c) \/ Row(c) \/ RowsEnd(c) \/ RowFails(c)
    PROVE  Unprepared(c)'
<1> SUFFICES ASSUME want'[c].state \in Preparing
             PROVE  stage'[c] \in {"loop", "ended"} /\ inbox'[c] = <<>>
  BY DEF Unprepared
<1>1. want'[c] = want[c]
  BY DEF Task, Accept, Write, Broken, Authenticate, Acknowledge, Query, Prepare, Execute,
         CloseStatement, Quit, Ignore, Answer, End, Acquire, AcquireFails, Row, RowsEnd, RowFails,
         clientVars
<1>2. stage[c] \in {"loop", "ended"} /\ inbox[c] = <<>> /\ want[c].state \in Preparing
  BY <1>1 DEF Unprepared
<1>3. want[c].state # "answer"
  BY <1>2 DEF Preparing
<1>4. ASSUME NEW op \in {"ping", "query", "execute", "quit", "other"}, Reads(c, op) PROVE FALSE
  <2>1. op \in {"ping", "query", "prepare", "execute", "quit", "other"} /\ op # "prepare"
    BY <1>4
  <2>2. want[c] = Want("answer", 0, Plus1(0))
    BY <1>4, <2>1, ReadsLast
  <2> QED
    BY <1>3, <2>2 DEF Want
<1>5. CloseStatement(c)
  <2>1. ~Acknowledge(c) /\ ~Query(c) /\ ~Execute(c) /\ ~Quit(c) /\ ~Ignore(c)
    BY <1>4 DEF Acknowledge, Query, Execute, Quit, Ignore
  <2>2. ~Accept(c) /\ ~Write(c) /\ ~Authenticate(c) /\ ~Answer(c) /\ ~Broken(c)
    BY <1>2 DEF Accept, Write, Authenticate, Answer, Broken, Writing, After
  <2>3. ~Acquire(c) /\ ~AcquireFails(c) /\ ~Row(c) /\ ~RowsEnd(c) /\ ~RowFails(c)
    BY <1>2 DEF Acquire, AcquireFails, Row, RowsEnd, RowFails
  <2> QED
    BY <2>1, <2>2, <2>3 DEF Task
<1> QED
  BY <1>2, <1>5 DEF CloseStatement

\* A client that asks for a statement has nothing on its way.
LEMMA ClientUnprepared ==
    ASSUME TypeOK, NEW c \in Clients, Talks(c), Unprepared(c), Client(c), ~Leave(c)
    PROVE  Unprepared(c)'
<1>1. want[c].state = "idle" /\ UNCHANGED <<stage[c], inbox[c]>>
  BY DEF Client, AskQuery, AskPrepare, AskExecute, AskClose, AskQuit, Ask, taskVars
<1>2. inbox[c] = <<>>
  BY <1>1, TalksWell
<1>3. stage[c] \in {"loop", "ended"}
  BY <1>1, IdleStage
<1> QED
  BY <1>1, <1>2, <1>3 DEF Unprepared

LEMMA StepConverses ==
    ASSUME TypeOK, TypeOK', NEW c \in Clients, Conversation(c),
           \/ Task(c) \/ Acquire(c) \/ AcquireFails(c) \/ Row(c) \/ RowsEnd(c) \/ RowFails(c)
           \/ Client(c) \/ Read(c) \/ Hangup(c)
    PROVE  Conversation(c)'
<1>0. nextId[c] >= 1 /\ nextId'[c] >= 1 /\ nextId[c] \in Nat /\ nextId'[c] >= nextId[c]
  <2>1. nextId[c] \in Nat /\ nextId'[c] \in Nat
    BY DEF TypeOK
  <2>2. nextId'[c] = nextId[c] + 1 \/ nextId'[c] = nextId[c]
    BY IdsGrow
  <2>3. nextId[c] >= 1
    BY DEF Conversation
  <2> QED
    BY <2>1, <2>2, <2>3
<1>1. CASE Gone(c)
  BY <1>0, <1>1, GoneStays DEF Conversation
<1>2. CASE Misled(c)
  <2>1. Misled(c)'
    BY <1>0, <1>2 DEF Misled, TypeOK
  <2> QED
    BY <1>0, <2>1 DEF Conversation
<1>3. CASE ~Gone(c) /\ ~Misled(c)
  <2>1. Talks(c) /\ (c \in Lenient \/ Unprepared(c))
    BY <1>3 DEF Conversation
  <2> SUFFICES Gone(c)' \/ Misled(c)' \/ (Talks(c)' /\ (c \in Lenient \/ Unprepared(c)'))
    BY <1>0 DEF Conversation
  <2>2. CASE Leave(c) \/ Hangup(c)
    BY <2>2 DEF Leave, Hangup, Close, Gone, Want, TypeOK
  <2>3. CASE Task(c)
    <3>1. ~Broken(c)
      BY <1>3 DEF Broken
    <3>2. Talks(c)'
      BY <1>3, <2>1, <2>3, <3>1, AcceptConverses, WriteConverses, AuthenticateConverses,
         CommandConverses, CloseStatementConverses, QueryConverses DEF Task
    <3>3. CASE Prepare(c)
      <4>1. nextId'[c] = nextId[c] + 1
        BY <2>3, <3>3, IdsGrow
      <4> QED
        BY <1>0, <3>2, <4>1 DEF Misled
    <3>4. CASE ~Prepare(c)
      BY <1>3, <2>1, <2>3, <3>2, <3>4, TaskUnprepared
    <3> QED
      BY <3>3, <3>4
  <2>4. CASE (Acquire(c) \/ AcquireFails(c) \/ Row(c) \/ RowsEnd(c) \/ RowFails(c)) /\ ~Task(c)
    <3>1. Talks(c)'
      BY <2>1, <2>4, QueryConverses, RowConverses
    <3>2. ~Prepare(c)
      BY <2>4 DEF Task
    <3> QED
      BY <1>3, <2>1, <2>4, <3>1, <3>2, TaskUnprepared
  <2>5. CASE Read(c)
    BY <2>1, <2>5, ReadConverses
  <2>6. CASE Client(c) /\ ~Leave(c)
    BY <2>1, <2>6, ClientConverses, ClientUnprepared
  <2> QED
    BY <2>2, <2>3, <2>4, <2>5, <2>6
<1> QED
  BY <1>1, <1>2, <1>3

\* Nor does a step of one client or of its task change another's number.
LEMMA OneCounts ==
    ASSUME TypeOK, NEW c \in Clients, NEW d \in Clients, d # c,
           \/ Task(c) \/ Acquire(c) \/ AcquireFails(c) \/ Row(c) \/ RowsEnd(c) \/ RowFails(c)
           \/ Client(c) \/ Read(c) \/ Hangup(c)
    PROVE  seq'[d] = seq[d]
<1>1. CASE Task(c)
  BY <1>1 DEF Task, Accept, Write, Broken, Authenticate, Acknowledge, Query, Prepare, Execute,
              CloseStatement, Quit, Ignore, Answer, End, Reply, Send, TypeOK
<1>2. CASE Acquire(c) \/ AcquireFails(c) \/ Row(c) \/ RowsEnd(c) \/ RowFails(c)
  BY <1>2 DEF Acquire, AcquireFails, Row, RowsEnd, RowFails, End, Reply, Send, TypeOK
<1>3. CASE Client(c) \/ Read(c) \/ Hangup(c)
  BY <1>3 DEF Client, AskQuery, AskPrepare, AskExecute, AskClose, AskQuit, Ask, Leave, Read, Hangup,
              Close, taskVars
<1> QED
  BY <1>1, <1>2, <1>3

AllConverse == TypeOK /\ \A c \in Clients : Conversation(c)

LEMMA InitConverses == Init => AllConverse
<1> SUFFICES ASSUME Init, NEW c \in Clients PROVE Conversation(c)
  BY InitTypes DEF AllConverse
<1>1. /\ want[c] = Want("greeting", 0, 0) /\ inbox[c] = <<>> /\ todo[c] = <<>>
      /\ outbox[c] = <<>> /\ stage[c] = "off"
  BY DEF Init
<1>2. Place(want[c]) \in Points
  BY <1>1, PlacesOf DEF Points, Point
<1>3. Leads(Place(want[c]), Stream(c), Place(want[c]))
  BY <1>1, <1>2, NoPath DEF Stream
<1>4. Meets(c, Place(want[c])) /\ Counted(c)
  BY <1>1 DEF Meets, Counted
<1>5. Unprepared(c) /\ nextId[c] = 1
  BY <1>1 DEF Unprepared, Preparing, Want, Init
<1> QED
  BY <1>2, <1>3, <1>4, <1>5 DEF Conversation, Talks

LEMMA ConversationStep == AllConverse /\ [Next]_vars => AllConverse'
<1> SUFFICES ASSUME AllConverse, [Next]_vars PROVE AllConverse'
  OBVIOUS
<1>1. TypeOK /\ TypeOK'
  BY TypeStep DEF AllConverse
<1>2. ASSUME NEW c \in Clients,
             \/ Task(c) \/ Acquire(c) \/ AcquireFails(c) \/ Row(c) \/ RowsEnd(c) \/ RowFails(c)
             \/ Client(c) \/ Read(c) \/ Hangup(c)
      PROVE  AllConverse'
  <2>1. Conversation(c)'
    BY <1>1, <1>2, StepConverses DEF AllConverse
  <2>2. ASSUME NEW d \in Clients, d # c PROVE Conversation(d)'
    <3>1. UNCHANGED <<stage[d], Local(d)>> /\ seq'[d] = seq[d]
      BY <1>1, <1>2, <2>2, OneAtATime, OneCounts
    <3> QED
      BY <3>1, ConversationStays DEF AllConverse
  <2> QED
    BY <1>1, <2>1, <2>2 DEF AllConverse
<1>3. CASE (\E k \in Conns : Recycle(k)) \/ UNCHANGED vars
  <2>1. \A d \in Clients : UNCHANGED <<stage[d], seq[d], Local(d)>>
    BY <1>3 DEF Recycle, vars, taskVars, clientVars, Local
  <2> QED
    BY <1>1, <2>1, ConversationStays DEF AllConverse
<1> QED
  BY <1>2, <1>3 DEF Next

\* The replies of handle_client: no client is sent a packet, or a number, that
\* it does not expect, however many packets fit into its socket and however
\* numbers wrap, and nothing of a reply is left when it asks again; MySQL's own
\* clients until a statement has been prepared for them, clients that read an
\* end after every reply to a prepare for ever.
THEOREM RepliesStayInStep == Spec => []InStep
<1>1. AllConverse => InStep
  <2> SUFFICES ASSUME AllConverse, NEW c \in Clients, NothingExtra(c)
               PROVE  /\ want[c].state # "lost"
                      /\ want[c].state = "idle" => inbox[c] = <<>> /\ todo[c] = <<>>
    BY DEF InStep
  <2>1. CASE Gone(c)
    BY <2>1 DEF Gone
  <2>2. CASE ~Gone(c)
    <3>1. ~Misled(c)
      BY DEF NothingExtra, Misled
    <3>2. Talks(c)
      BY <2>2, <3>1 DEF AllConverse, Conversation
    <3> QED
      BY <3>2, TalksWell DEF AllConverse
  <2> QED
    BY <2>1, <2>2
<1>2. AllConverse /\ [Next]_vars => AllConverse'
  BY ConversationStep
<1> QED
  BY <1>1, <1>2, InitConverses, PTL DEF Spec
=============================================================================
