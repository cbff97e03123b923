--------------------------- MODULE McpClientPython ---------------------------
(***************************************************************************)
(* McpStdioClient of packages/cli-python/mcpseal/mcp_client.py, a port of  *)
(* McpClient on threads: a reader thread stores the answers by id and each *)
(* caller waits on one condition for its own.  A step ends where a thread  *)
(* lets go of the condition or blocks; the check of _closed and the write  *)
(* are outside of it.                                                      *)
(***************************************************************************)
EXTENDS StdioServer

VARIABLES
  nextId,
  outcome,      \* of each request; checked: has its id, not written yet
  responses,    \* the lines nobody has taken: by the id they carry, the kind
  closed,
  closeError,
  reader        \* reading, failed (an exception), ended

clientVars == <<nextId, outcome, responses, closed, closeError, reader>>
vars == <<serverVars, clientVars>>

Settled == {"resolved", "refused", "timed out", "exited", "broken pipe", "closed"}

Init ==
  /\ ServerInit
  /\ server = "running"    \* Popen raises when the spawn fails
  /\ nextId = 1
  /\ outcome = [r \in Requests |-> "idle"]
  /\ responses = [r \in Requests |-> "none"]
  /\ closed = FALSE
  /\ closeError = "none"
  /\ reader = "reading"

Reason == IF closeError = "none" THEN "closed" ELSE closeError

(***************************************************************************)
(* The callers                                                             *)
(***************************************************************************)
\* The check of _closed and the draw of the id.
Call ==
  /\ nextId \in Requests
  /\ nextId' = nextId + 1
  /\ outcome' = [outcome EXCEPT ![nextId] = IF closed THEN Reason ELSE "checked"]
  /\ UNCHANGED <<serverVars, responses, closed, closeError, reader>>

\* The write to a dead server raises.
WriteRequest(r) ==
  /\ outcome[r] = "checked"
  /\ \/ /\ server = "running"
        /\ stdin' = Append(stdin, r)
        /\ outcome' = [outcome EXCEPT ![r] = "waiting"]
     \/ /\ server = "exited"
        /\ outcome' = [outcome EXCEPT ![r] = "broken pipe"]
        /\ UNCHANGED stdin
  /\ UNCHANGED <<server, stdout, lines, read, answered, written, nextId, responses, closed,
                 closeError, reader>>

Take(r) ==
  /\ outcome' = [outcome EXCEPT ![r] = IF responses[r] = "error" THEN "refused" ELSE "resolved"]
  /\ responses' = [responses EXCEPT ![r] = "none"]

\* Faulty: any answer will do.
HasAnyAnswer(r) == \E q \in Requests : responses[q] # "none"

HasAnswer(r) == responses[r] # "none"

\* Faulty: whether the connection is closed is asked before the answer is looked for.
AwakenClosedFirst(r) ==
  \/ closed /\ outcome' = [outcome EXCEPT ![r] = Reason] /\ UNCHANGED responses
  \/ ~closed /\ HasAnswer(r) /\ Take(r)
  \/ ~closed /\ ~HasAnswer(r) /\ outcome' = [outcome EXCEPT ![r] = "timed out"]
     /\ UNCHANGED responses

\* Faulty: the wait has no deadline.
AwakenNoDeadline(r) ==
  \/ HasAnswer(r) /\ Take(r)
  \/ ~HasAnswer(r) /\ closed /\ outcome' = [outcome EXCEPT ![r] = Reason]
     /\ UNCHANGED responses

\* What a caller that wakes up finds; the last disjunct is for a deadline that has
\* passed.
Awaken(r) ==
  \/ HasAnswer(r) /\ Take(r)
  \/ ~HasAnswer(r) /\ closed /\ outcome' = [outcome EXCEPT ![r] = Reason]
     /\ UNCHANGED responses
  \/ ~HasAnswer(r) /\ ~closed /\ outcome' = [outcome EXCEPT ![r] = "timed out"]
     /\ UNCHANGED responses

Wake(r) ==
  /\ outcome[r] = "waiting"
  /\ Awaken(r)
  /\ UNCHANGED <<serverVars, nextId, closed, closeError, reader>>

\* close() kills the process tree, which then exits (ServerExits).
Close ==
  /\ ~closed
  /\ closed' = TRUE
  /\ UNCHANGED <<serverVars, nextId, outcome, responses, closeError, reader>>

(***************************************************************************)
(* The reader thread                                                       *)
(***************************************************************************)
\* Faulty: an answer replaces those not taken yet.
StoreOnly(line) == responses' = [r \in Requests |-> IF r = line.id THEN line.kind ELSE "none"]

Store(line) == responses' = [responses EXCEPT ![line.id] = line.kind]

\* The finally clause of the loop.
CloseByReader(how) ==
  /\ reader' = how
  /\ closed' = TRUE
  /\ closeError' = "exited"

\* The pipe is decoded as text: a line that is not, raises and ends the loop.
ReadLine ==
  /\ reader = "reading"
  /\ stdout # <<>>
  /\ stdout' = Tail(stdout)
  /\ LET line == Head(stdout)
     IN  \/ line.id # 0 /\ Store(line) /\ UNCHANGED <<closed, closeError, reader>>
         \/ line.kind = "null" /\ UNCHANGED <<responses, closed, closeError, reader>>
         \/ line.kind = "undecodable" /\ CloseByReader("failed") /\ UNCHANGED responses
  /\ UNCHANGED <<server, stdin, lines, read, answered, written, nextId, outcome>>

ReadEnd ==
  /\ reader = "reading"
  /\ server = "exited"
  /\ stdout = <<>>
  /\ CloseByReader("ended")
  /\ UNCHANGED <<serverVars, nextId, outcome, responses>>

Next ==
  \/ ServerNext /\ UNCHANGED clientVars
  \/ Call
  \/ \E r \in Requests : WriteRequest(r) \/ Wake(r)
  \/ Close
  \/ ReadLine
  \/ ReadEnd

\* A thread that can go on does; wait() returns at the deadline at the latest.
Fairness ==
  /\ \A r \in Requests : WF_vars(WriteRequest(r)) /\ WF_vars(Wake(r))
  /\ WF_vars(ReadLine)

Spec == Init /\ [][Next]_vars /\ Fairness

-----------------------------------------------------------------------------
(***************************************************************************)
(* Properties                                                              *)
(***************************************************************************)

\* The types.
TypeOK ==
  /\ ServerTypeOK
  /\ nextId \in 1..(MaxRequests + 1)
  /\ outcome \in [Requests -> {"idle", "checked", "waiting"} \cup Settled]
  /\ responses \in [Requests -> {"none", "result", "error", "request"}]
  /\ closed \in BOOLEAN
  /\ closeError \in {"none", "exited"}
  /\ reader \in {"reading", "failed", "ended"}

\* The port makes the same promise as the Node client.
R == INSTANCE RequestReply WITH
       status  <- [r \in Requests |->
                     IF outcome[r] \in {"idle", "waiting"} THEN outcome[r]
                     ELSE IF outcome[r] = "checked" THEN "waiting"
                     ELSE IF outcome[r] \in {"resolved", "refused"} THEN "replied"
                     ELSE "failed"],
       written <- written,
       stopped <- FALSE
RequestReplied == R!Spec

\* No caller waits for ever (mcp_client.py:87-96).
EveryRequestSettles == R!NobodyWaitsForever

\* An answer read for a request that still waits is kept until its caller takes it,
\* however many other answers come in between (mcp_client.py:64-66, 96).
AnswersKept ==
  [][\A r \in Requests :
       (outcome[r] = "waiting" /\ responses[r] # "none")
         => (responses'[r] # "none" \/ outcome'[r] \in {"resolved", "refused"})]_vars

\* The message of mcp_client.py:73, "server process exited before responding": the
\* reader reads to the end before it closes, so that a request that fails with it was
\* not answered, unless the reader itself gave up at a line it could not decode.
ExitedMeansUnanswered ==
  \A r \in Requests :
    (outcome[r] = "exited" /\ reader = "ended") => r \notin answered

\* mcp_client.py:62: a line that is not a response to a request is passed over.
AnsweredByAnswer ==
  \A r \in Requests : outcome[r] \in {"resolved", "refused"} => r \in answered

=============================================================================
