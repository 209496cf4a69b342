----------------------------- MODULE PhpProcess -----------------------------
(***************************************************************************)
(* The PHP worker processes, as src-worker/worker.php and the kernel run   *)
(* them: a process unlinks and binds its Unix socket, accepts one          *)
(* connection at a time in arrival order, includes the script, answers and *)
(* closes.  A process may die at any instant, and the server may kill it;  *)
(* every connection it held then reads end-of-file.                        *)
(*                                                                         *)
(* A connection is named by the request that opened it.  When the handler  *)
(* drops its end early, the bytes it wrote stay in the socket, so the      *)
(* script still runs: the connection then turns into Gone, or into Bereft  *)
(* when the handler also removed the uploaded files the script refers to.  *)
(*                                                                         *)
(* Abstracted: the framing of a message (a connection carries one whole    *)
(* request and at most one whole reply), the superglobals, the output of   *)
(* the script, and the bound of the listen backlog.                        *)
(***************************************************************************)
EXTENDS Naturals, Sequences

CONSTANTS
    Pids,          \* process identifiers, reused once their process is reaped
    Sockets,       \* socket paths
    Requests,      \* requests that may be in progress at one time
    None,          \* "no value"
    Gone,          \* a connection whose handler has dropped its end
    Bereft         \* as Gone, and the uploaded files have been removed

VARIABLES
    alive,         \* the processes that run
    booted,        \* those that have bound their socket
    home,          \* home[p]: BAKPIARUN_SOCKET_PATH of process p
    listener,      \* listener[s]: the process that a connect to path s reaches
    backlog,       \* backlog[p]: connections p has not accepted yet
    serving,       \* serving[p]: the connection p executes, or None
    reply          \* reply[r]: what request r can read from its connection

procVars == <<alive, booted, home, listener, backlog, serving, reply>>

Connections == Requests \cup {Gone, Bereft}
Replies == {"none", "response", "eof"}

ProcTypeOK ==
    /\ alive \in SUBSET Pids
    /\ booted \in SUBSET alive
    /\ home \in [Pids -> Sockets \cup {None}]
    /\ listener \in [Sockets -> Pids \cup {None}]
    /\ backlog \in [Pids -> Seq(Connections)]
    /\ serving \in [Pids -> Connections \cup {None}]
    /\ reply \in [Requests -> Replies]

\* The processes that path gives a socket path have just been spawned.
ProcInit(path) ==
    /\ alive = {p \in Pids : path[p] # None}
    /\ booted = {}
    /\ home = path
    /\ listener = [s \in Sockets |-> None]
    /\ backlog = [p \in Pids |-> <<>>]
    /\ serving = [p \in Pids |-> None]
    /\ reply = [r \in Requests |-> "none"]

-----------------------------------------------------------------------------
Waiting(p) == {backlog[p][i] : i \in DOMAIN backlog[p]}

\* The connections that process p holds: the one it executes, those it queues.
Held(p) == ({serving[p]} \cup Waiting(p)) \cap Requests

\* Process p is gone: nothing answers at the given paths any more, and every
\* connection it held reads end-of-file.
Vanish(p, paths) ==
    /\ alive' = alive \ {p}
    /\ booted' = booted \ {p}
    /\ home' = [home EXCEPT ![p] = None]
    /\ listener' = [s \in Sockets |-> IF s \in paths THEN None ELSE listener[s]]
    /\ backlog' = [backlog EXCEPT ![p] = <<>>]
    /\ serving' = [serving EXCEPT ![p] = None]
    /\ reply' = [r \in Requests |-> IF r \in Held(p) THEN "eof" ELSE reply[r]]

\* Killed or crashed: only its own listening socket goes.
Die(p) == Vanish(p, {s \in Sockets : listener[s] = p})

\* The supervisor removes the socket file and spawns process p on path s.
Launch(p, s) ==
    /\ alive' = alive \cup {p}
    /\ home' = [home EXCEPT ![p] = s]
    /\ listener' = [listener EXCEPT ![s] = None]
    /\ UNCHANGED <<booted, backlog, serving, reply>>

\* The handler of request r connects to process p and writes its request.
Dial(r, p) ==
    /\ backlog' = [backlog EXCEPT ![p] = Append(@, r)]
    /\ UNCHANGED <<alive, booted, home, listener, serving, reply>>

\* The handler of request r reads its connection and drops it.
HangUp(r) ==
    /\ reply' = [reply EXCEPT ![r] = "none"]
    /\ UNCHANGED <<alive, booted, home, listener, backlog, serving>>

\* Mutant: the stream survives the timeout.
AbandonLeavesStream(r, mark) == UNCHANGED procVars

\* The handler of request r drops its connection before an answer came;
\* the process holds mark in its place.
Abandon(r, mark) ==
    /\ backlog' = [p \in Pids |-> [i \in DOMAIN backlog[p] |->
                      IF backlog[p][i] = r THEN mark ELSE backlog[p][i]]]
    /\ serving' = [p \in Pids |-> IF serving[p] = r THEN mark ELSE serving[p]]
    /\ UNCHANGED <<alive, booted, home, listener, reply>>

-----------------------------------------------------------------------------
\* worker.php unlinks whatever is at its path and listens there.
Boot(p) ==
    /\ p \in alive \ booted
    /\ booted' = booted \cup {p}
    /\ listener' = [listener EXCEPT ![home[p]] = p]
    /\ UNCHANGED <<alive, home, backlog, serving, reply>>

\* The accept loop takes the oldest connection and starts its script.
Accept(p) ==
    /\ p \in booted
    /\ serving[p] = None
    /\ backlog[p] # <<>>
    /\ serving' = [serving EXCEPT ![p] = Head(backlog[p])]
    /\ backlog' = [backlog EXCEPT ![p] = Tail(@)]
    /\ UNCHANGED <<alive, booted, home, listener, reply>>

\* The connection is closed, after the response or (unreadable request,
\* response that json_encode refuses) without one.
Close(p, outcome) ==
    /\ p \in booted
    /\ serving[p] # None
    /\ serving' = [serving EXCEPT ![p] = None]
    /\ reply' = [r \in Requests |-> IF r = serving[p] THEN outcome ELSE reply[r]]
    /\ UNCHANGED <<alive, booted, home, listener, backlog>>

Respond(p) == Close(p, "response")

CloseSilently(p) == Close(p, "eof")

\* A fatal error, exit() in a script, the kernel's OOM killer, a failed bind.
Crash(p) ==
    /\ p \in alive
    /\ Die(p)

\* SIGTERM or SIGINT from outside: noticed between two requests; worker.php
\* unlinks its path, whoever listens there, and exits.
Terminate(p) ==
    /\ p \in booted
    /\ serving[p] = None
    /\ Vanish(p, {s \in Sockets : listener[s] = p \/ s = home[p]})

ProcNext ==
    \E p \in Pids :
        \/ Boot(p)
        \/ Accept(p)
        \/ Respond(p)
        \/ CloseSilently(p)
        \/ Crash(p)
        \/ Terminate(p)

=============================================================================
