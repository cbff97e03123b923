------------------------------ MODULE MCStdio ------------------------------
(***************************************************************************)
(* The three programs that talk to a server over its pipes, for TLC, side  *)
(* by side: the MCP client of the Node CLI, that of the Python CLI, and    *)
(* the proxy of either.  A behaviour picks one of them and leaves the      *)
(* others where they start.  Requests and lines are numbered, and the run  *)
(* checks liveness: no symmetry.                                           *)
(***************************************************************************)
EXTENDS Naturals, Sequences

CONSTANTS NodeRequests, PythonRequests, Lines, Sent, Said

AnyNoise == {"null", "undecodable"}

VARIABLES
  part,
  nServer, nStdin, nStdout, nLines, nRead, nAnswered, nWritten,
  nNextId, nOutcome, pending, timers, nClosed, nCloseError, nNoticed, program,
  server, stdin, stdout, lines, read, answered, written,
  nextId, outcome, responses, closed, closeError, reader,
  port, client, sent, up, input, toServer, toServerEnded, got, pServer, said, down,
  received, output, noticed, proxy

nodeVars   == <<nServer, nStdin, nStdout, nLines, nRead, nAnswered, nWritten, nNextId,
                nOutcome, pending, timers, nClosed, nCloseError, nNoticed, program>>
pythonVars == <<server, stdin, stdout, lines, read, answered, written, nextId, outcome,
                responses, closed, closeError, reader>>
proxyVars  == <<port, client, sent, up, input, toServer, toServerEnded, got, pServer, said,
                down, received, output, noticed, proxy>>
vars == <<part, nodeVars, pythonVars, proxyVars>>

Node == INSTANCE McpClient WITH
  MaxRequests <- NodeRequests, MaxLines <- Lines, Noise <- AnyNoise,
  server <- nServer, stdin <- nStdin, stdout <- nStdout, lines <- nLines, read <- nRead,
  answered <- nAnswered, written <- nWritten, nextId <- nNextId, outcome <- nOutcome,
  closed <- nClosed, closeError <- nCloseError, noticed <- nNoticed

Python == INSTANCE McpClientPython WITH
  MaxRequests <- PythonRequests, MaxLines <- Lines, Noise <- AnyNoise

Proxy == INSTANCE ProxySession WITH Ports <- {"node", "python"}, server <- pServer

ASSUME StdioAssumptions ==
  /\ Node!StdioAssumption
  /\ Python!StdioAssumption
  /\ Proxy!ProxySessionAssumption

\* The part that is picked starts in any of its initial states, the others in one.
Init ==
  /\ part \in {"node client", "python client", "proxy"}
  /\ Node!Init /\ (part # "node client" => nServer = "running")
  /\ Python!Init
  /\ Proxy!Init /\ (part # "proxy" => port = "node")

\* What stays as it is while one part moves.
OnlyNode   == part = "node client" /\ UNCHANGED <<part, pythonVars, proxyVars>>
OnlyPython == part = "python client" /\ UNCHANGED <<part, nodeVars, proxyVars>>
OnlyProxy  == part = "proxy" /\ UNCHANGED <<part, nodeVars, pythonVars>>

Next ==
  \/ OnlyNode /\ Node!Next
  \/ OnlyPython /\ Python!Next
  \/ OnlyProxy /\ Proxy!Next

Spec ==
  /\ Init /\ [][Next]_vars
  /\ Node!Fairness /\ Python!Fairness /\ Proxy!Fairness

-----------------------------------------------------------------------------
\* McpClient: a request/reply connection, whose waiters and timers go together.
ClientReplies ==
  /\ [](Node!TypeOK /\ Node!WaitersAreTimed)
  /\ Node!RequestReplied

\* McpClientPython: the same connection on threads; no answer is lost or passed over.
PythonReplies ==
  /\ [](Python!TypeOK /\ Python!ExitedMeansUnanswered)
  /\ Python!RequestReplied
  /\ Python!AnswersKept

\* ProxySession: the session is as it would be without the proxy.
Transparent == []Proxy!TypeOK /\ Proxy!Transparent

\* Nobody hangs: every request of either client settles, and a proxy ends when it should.
NobodyHangs ==
  /\ Node!EveryRequestSettles
  /\ Python!EveryRequestSettles
  /\ Proxy!SessionEnds

=============================================================================
