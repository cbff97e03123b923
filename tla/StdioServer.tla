---------------------------- MODULE StdioServer ----------------------------
(***************************************************************************)
(* The MCP server a client of mcpseal spawns, seen from its two pipes.  It *)
(* is not part of the repository: it reads requests in order, answers what *)
(* it has read in any order, more than once or never, writes lines that    *)
(* are no answers, among them requests of its own, and exits when it       *)
(* likes.  What it wrote stays in the pipe after it has exited; what it    *)
(* had not read is lost.                                                   *)
(***************************************************************************)
EXTENDS Naturals, Sequences

CONSTANTS
  MaxRequests,   \* requests of one client (a bound)
  MaxLines,      \* lines the server writes (a bound)
  Noise          \* the kinds of lines it writes that carry no id

Requests == 1..MaxRequests

StdioAssumption ==
  /\ MaxRequests \in Nat \ {0}
  /\ MaxLines \in Nat
  /\ Noise \subseteq {"null", "undecodable"}

VARIABLES
  server,     \* failed (the spawn), running, exited
  stdin,      \* ids of the requests written and not read yet
  stdout,     \* lines written and not read yet by the client
  lines,      \* number of lines written
  read,       \* requests the server has read
  answered,   \* history: requests it wrote an answer to
  written     \* history: ids of the lines it wrote

serverVars == <<server, stdin, stdout, lines, read, answered, written>>

Answers == [kind : {"result", "error"}, id : Requests]

\* A request of the server (ping, roots/list) has an id of the server's own, which may
\* be that of a request of the client, also one it has yet to make.
Others == [kind : Noise, id : {0}] \cup [kind : {"request"}, id : Requests]

ServerInit ==
  /\ server \in {"running", "failed"}
  /\ stdin = <<>>
  /\ stdout = <<>>
  /\ lines = 0
  /\ read = {}
  /\ answered = {}
  /\ written = {}

ServerReads ==
  /\ server = "running"
  /\ stdin # <<>>
  /\ read' = read \cup {Head(stdin)}
  /\ stdin' = Tail(stdin)
  /\ UNCHANGED <<server, stdout, lines, answered, written>>

Puts(line) ==
  /\ server = "running"
  /\ lines < MaxLines
  /\ lines' = lines + 1
  /\ stdout' = Append(stdout, line)
  /\ written' = written \cup ({line.id} \ {0})
  /\ UNCHANGED <<server, stdin, read>>

ServerAnswers(r) ==
  /\ r \in read
  /\ \E kind \in {"result", "error"} : Puts([kind |-> kind, id |-> r])
  /\ answered' = answered \cup {r}

ServerWritesOther ==
  /\ \E line \in Others : Puts(line)
  /\ UNCHANGED answered

ServerExits ==
  /\ server = "running"
  /\ server' = "exited"
  /\ stdin' = <<>>
  /\ UNCHANGED <<stdout, lines, read, answered, written>>

ServerNext ==
  \/ ServerReads
  \/ \E r \in Requests : ServerAnswers(r)
  \/ ServerWritesOther
  \/ ServerExits

ServerTypeOK ==
  /\ server \in {"running", "failed", "exited"}
  /\ stdin \in Seq(Requests)
  /\ stdout \in Seq(Answers \cup Others)
  /\ lines \in 0..MaxLines
  /\ answered \subseteq read
  /\ read \subseteq Requests
  /\ written \subseteq Requests

=============================================================================
