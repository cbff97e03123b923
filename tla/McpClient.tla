------------------------------ MODULE McpClient ------------------------------
(***************************************************************************)
(* McpStdioClient of packages/cli-node/src/mcp-client.ts: the connection   *)
(* init, scan, approve and status open to a server to list its tools.  One *)
(* event loop: each action is one callback.  The exit of the child and the *)
(* data left in its stdout are events of two handles, which the loop       *)
(* reports in either order.                                                *)
(*                                                                         *)
(* The requests are numbered as request() draws their ids; once the client *)
(* is closed no id is drawn, and the numbers go on.                        *)
(***************************************************************************)
EXTENDS StdioServer

VARIABLES
  nextId,
  outcome,      \* what the promise of a request came to
  pending,      \* requests with an entry in the map of waiters
  timers,       \* requests whose timer is armed
  closed,
  closeError,
  noticed,      \* the exit or error event of the child has been reported
  program       \* running, or brought down by an error nobody handles

clientVars == <<nextId, outcome, pending, timers, closed, closeError, noticed, program>>
vars == <<serverVars, clientVars>>

Settled == {"resolved", "refused", "timed out", "exited", "spawn failed", "closed"}

Init ==
  /\ ServerInit
  /\ nextId = 1
  /\ outcome = [r \in Requests |-> "idle"]
  /\ pending = {}
  /\ timers = {}
  /\ closed = FALSE
  /\ closeError = "none"
  /\ noticed = FALSE
  /\ program = "running"

\* child.stdin.write.  A dead child breaks the pipe, and stdin has no error
\* handler; the shell the server was started in may still hold the pipe open.
Write(r) ==
  \/ /\ server = "running"
     /\ stdin' = Append(stdin, r)
     /\ UNCHANGED <<server, stdout, lines, read, answered, written, program>>
  \/ /\ server # "running"
     /\ program' \in {"running"} \cup (IF server = "exited" THEN {"crashed"} ELSE {})
     /\ UNCHANGED serverVars

Request ==
  /\ program = "running"
  /\ nextId \in Requests
  /\ ~closed
  /\ nextId' = nextId + 1
  /\ outcome' = [outcome EXCEPT ![nextId] = "waiting"]
  /\ pending' = pending \cup {nextId}
  /\ timers' = timers \cup {nextId}
  /\ Write(nextId)
  /\ UNCHANGED <<closed, closeError, noticed>>

Reason == IF closeError = "none" THEN "closed" ELSE closeError

RequestWhenClosed ==
  /\ program = "running"
  /\ nextId \in Requests
  /\ closed
  /\ nextId' = nextId + 1
  /\ outcome' = [outcome EXCEPT ![nextId] = Reason]
  /\ UNCHANGED <<serverVars, pending, timers, closed, closeError, noticed, program>>

\* Faulty: the answer leaves the timer armed.
SettleKeepingTimer(r, o) ==
  /\ outcome' = [outcome EXCEPT ![r] = o]
  /\ pending' = pending \ {r}
  /\ UNCHANGED timers

Settle(r, o) ==
  /\ outcome' = [outcome EXCEPT ![r] = o]
  /\ pending' = pending \ {r}
  /\ timers' = timers \ {r}

\* Faulty: an answer is taken for the oldest request that waits.
WaitersOldest(line) ==
  {r \in pending : line.id # 0 /\ \A q \in pending : r <= q}

\* The waiter whose id the line carries, if it still waits; whether the line is an
\* answer at all is not asked.
Waiters(line) == pending \cap {line.id}

\* A line that is the JSON value null passes JSON.parse, and msg.id then throws
\* in the data callback.  What is not JSON is ignored.
HandleLine ==
  /\ program = "running"
  /\ stdout # <<>>
  /\ stdout' = Tail(stdout)
  /\ LET line == Head(stdout)
     IN  \/ /\ line.kind = "null"
            /\ program' = "crashed"
            /\ UNCHANGED <<outcome, pending, timers>>
         \/ /\ line.kind # "null"
            /\ \/ \E r \in Waiters(line) :
                    Settle(r, IF line.kind = "error" THEN "refused" ELSE "resolved")
               \/ Waiters(line) = {} /\ UNCHANGED <<outcome, pending, timers>>
            /\ UNCHANGED program
  /\ UNCHANGED <<server, stdin, lines, read, answered, written, nextId, closed, closeError,
                 noticed>>

Timeout(r) ==
  /\ program = "running"
  /\ r \in timers
  /\ Settle(r, IF outcome[r] = "waiting" THEN "timed out" ELSE outcome[r])
  /\ UNCHANGED <<serverVars, nextId, closed, closeError, noticed, program>>

\* Faulty: the waiters are dropped and their timers stopped, nobody is told.
OnCloseForgetting(err) ==
  /\ closed' = TRUE
  /\ closeError' = err
  /\ pending' = {}
  /\ timers' = timers \ pending
  /\ UNCHANGED outcome

OnClose(err) ==
  /\ closed' = TRUE
  /\ closeError' = err
  /\ outcome' = [r \in Requests |-> IF r \in pending THEN err ELSE outcome[r]]
  /\ timers' = timers \ pending
  /\ pending' = {}

\* The exit event; after close() it settles nothing.
OnExit ==
  /\ program = "running"
  /\ server = "exited"
  /\ ~noticed
  /\ noticed' = TRUE
  /\ \/ ~closed /\ OnClose("exited")
     \/ closed /\ UNCHANGED <<outcome, pending, timers, closed, closeError>>
  /\ UNCHANGED <<serverVars, nextId, program>>

\* The error event: the spawn failed.
OnError ==
  /\ program = "running"
  /\ server = "failed"
  /\ ~noticed
  /\ noticed' = TRUE
  /\ OnClose("spawn failed")
  /\ UNCHANGED <<serverVars, nextId, program>>

\* close() kills the process tree, which then exits (ServerExits).
Close ==
  /\ program = "running"
  /\ ~closed
  /\ closed' = TRUE
  /\ UNCHANGED <<serverVars, nextId, outcome, pending, timers, closeError, noticed, program>>

ClientNext ==
  \/ Request
  \/ RequestWhenClosed
  \/ HandleLine
  \/ \E r \in Requests : Timeout(r)
  \/ OnExit
  \/ OnError
  \/ Close

Next ==
  \/ ServerNext /\ UNCHANGED clientVars
  \/ ClientNext

\* A timer that is armed fires, and the loop goes on reading; the server and the
\* caller owe nothing.
Fairness ==
  /\ \A r \in Requests : WF_vars(Timeout(r))
  /\ WF_vars(HandleLine)

Spec == Init /\ [][Next]_vars /\ Fairness

-----------------------------------------------------------------------------
(***************************************************************************)
(* Properties                                                              *)
(***************************************************************************)

\* The types.
TypeOK ==
  /\ ServerTypeOK
  /\ nextId \in 1..(MaxRequests + 1)
  /\ outcome \in [Requests -> {"idle", "waiting"} \cup Settled]
  /\ pending \subseteq Requests
  /\ timers \subseteq Requests
  /\ {closed, noticed} \subseteq BOOLEAN
  /\ closeError \in {"none", "exited", "spawn failed"}
  /\ program \in {"running", "crashed"}

\* Whoever waits is in the map with an armed timer, also after close(), and what is
\* settled leaves neither behind: a timer left armed would keep the process alive for
\* up to 15 seconds (mcp-client.ts:108-121).
WaitersAreTimed ==
  LET waiting == {r \in Requests : outcome[r] = "waiting"}
  IN  pending = waiting /\ timers = waiting

\* Whatever the server does, the client is a request/reply connection: each request
\* settles once, by a line that carries its id or by a failure.
R == INSTANCE RequestReply WITH
       status  <- [r \in Requests |->
                     IF outcome[r] \in {"idle", "waiting"} THEN outcome[r]
                     ELSE IF outcome[r] \in {"resolved", "refused"} THEN "replied"
                     ELSE "failed"],
       written <- written,
       stopped <- (program = "crashed")
RequestReplied == R!Spec

\* No request waits for ever: an answer, the exit of the server or the timer ends it,
\* and after close() the timer alone (mcp-client.ts:147-151).
EveryRequestSettles == R!NobodyWaitsForever

\* The message of mcp-client.ts:58, "server process exited ... before responding":
\* a request that fails with it was not answered.
ExitedMeansUnanswered ==
  \A r \in Requests : outcome[r] = "exited" => r \notin answered

\* mcp-client.ts:79: a line that cannot be correlated to a request is ignored.  Only a
\* write to a server that is gone brings the program down.
UncorrelatedIgnored == (program = "crashed") => (server = "exited")

\* mcp-client.ts:81: a line that is not a response to a request is passed over.
AnsweredByAnswer ==
  \A r \in Requests : outcome[r] \in {"resolved", "refused"} => r \in answered

=============================================================================
