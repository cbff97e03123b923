---------------------------- MODULE ProxySession ----------------------------
(***************************************************************************)
(* `mcpseal proxy` between a client and its server, as processes and pipes *)
(* (runProxy of packages/cli-node/src/proxy.ts with the proxy command of   *)
(* cli.ts; run_proxy of packages/cli-python/mcpseal/proxy.py).  Lines only *)
(* have a number: what becomes of a line that lists tools is the subject   *)
(* of Enforcement.                                                         *)
(*                                                                         *)
(* The two ports differ in when they end.  Nothing ends the Node process   *)
(* but an event loop with nothing left to wait for: its stdin counts, so   *)
(* that it stays until the client has closed it.  The Python main thread   *)
(* returns when the server is gone and its output is forwarded, or five    *)
(* seconds after.                                                          *)
(***************************************************************************)
EXTENDS Naturals, Sequences

CONSTANTS
  Sent, Said,   \* lines each side writes (bounds)
  Ports         \* node, python

ProxySessionAssumption ==
  /\ {Sent, Said} \subseteq Nat
  /\ Ports \subseteq {"node", "python"}

VARIABLES
  port,           \* which of them runs
  client, sent,   \* open or ended; lines written
  up,             \* client to proxy
  input,          \* the proxy's reading of it: reading, ended, failed
  toServer,       \* proxy to server
  toServerEnded,
  got,            \* history: lines the server read
  server, said,   \* running or exited; lines written
  down,           \* server to proxy
  received,       \* history: lines written to the client
  output,         \* the proxy's writing of them: forwarding, failed
  noticed,        \* the exit event, or the return of proc.wait
  proxy           \* running, exited, crashed, cut (short by the five seconds)

vars == <<port, client, sent, up, input, toServer, toServerEnded, got, server, said, down,
          received, output, noticed, proxy>>

Init ==
  /\ port \in Ports
  /\ client = "open"
  /\ sent = 0 /\ said = 0
  /\ up = <<>> /\ toServer = <<>> /\ down = <<>>
  /\ input = "reading"
  /\ toServerEnded = FALSE /\ noticed = FALSE
  /\ output = "forwarding"
  /\ got = <<>> /\ received = <<>>
  /\ server = "running"
  /\ proxy = "running"

(***************************************************************************)
(* The client and the server                                               *)
(***************************************************************************)
ClientSends ==
  /\ client = "open"
  /\ sent < Sent
  /\ sent' = sent + 1
  /\ up' = Append(up, sent + 1)
  /\ UNCHANGED <<port, client, input, toServer, toServerEnded, got, server, said, down, received, output, noticed, proxy>>

ClientEnds ==
  /\ client = "open"
  /\ client' = "ended"
  /\ UNCHANGED <<port, sent, up, input, toServer, toServerEnded, got, server, said, down, received, output, noticed, proxy>>

ServerReads ==
  /\ server = "running"
  /\ toServer # <<>>
  /\ got' = Append(got, Head(toServer))
  /\ toServer' = Tail(toServer)
  /\ UNCHANGED <<port, client, sent, up, input, toServerEnded, server, said, down, received, output, noticed, proxy>>

ServerWrites ==
  /\ server = "running"
  /\ said < Said
  /\ said' = said + 1
  /\ down' = Append(down, said + 1)
  /\ UNCHANGED <<port, client, sent, up, input, toServer, toServerEnded, got, server, received, output, noticed, proxy>>

ServerExits ==
  /\ server = "running"
  /\ server' = "exited"
  /\ toServer' = <<>>
  /\ UNCHANGED <<port, client, sent, up, input, toServerEnded, got, said, down, received, output, noticed, proxy>>

\* A server is done when its input is.
ServerDone == toServerEnded /\ toServer = <<>> /\ ServerExits

(***************************************************************************)
(* The proxy, from the client to the server                                *)
(***************************************************************************)
\* onClientData, pump_input.  A write to a server that is gone is an error: nobody
\* handles it in Node unless the exit has been noticed and stdin destroyed, or the
\* shell still holds the pipe, and then the line is dropped; in Python it ends the
\* thread.
ForwardUp ==
  /\ proxy = "running"
  /\ input = "reading"
  /\ up # <<>>
  /\ up' = Tail(up)
  /\ \/ /\ server = "running"
        /\ toServer' = Append(toServer, Head(up))
        /\ UNCHANGED <<input, proxy>>
     \/ /\ server = "exited"
        /\ port = "node"
        /\ proxy' \in {"running"} \cup (IF noticed THEN {} ELSE {"crashed"})
        /\ UNCHANGED <<toServer, input>>
     \/ /\ server = "exited"
        /\ port = "python"
        /\ input' = "failed"
        /\ UNCHANGED <<toServer, proxy>>
  /\ UNCHANGED <<port, client, sent, toServerEnded, got, server, said, down, received, output, noticed>>

\* Faulty: as before the fix of Track A, the end of the client is not passed on.
EndInputAlone ==
  /\ input' = "ended"
  /\ UNCHANGED toServerEnded

\* child.stdin.end(), proc.stdin.close().
EndInput ==
  /\ input' = "ended"
  /\ toServerEnded' = TRUE

\* onClientEnd: after everything the client wrote.
SeeClientEnd ==
  /\ proxy = "running"
  /\ input = "reading"
  /\ client = "ended"
  /\ up = <<>>
  /\ EndInput
  /\ UNCHANGED <<port, client, sent, up, toServer, got, server, said, down, received, output, noticed, proxy>>

(***************************************************************************)
(* The proxy, from the server to the client                                *)
(***************************************************************************)
Forward ==
  /\ received' = Append(received, Head(down))
  /\ down' = Tail(down)

\* onChildData, pump_output: goes on after the exit of the server.
ForwardDown ==
  /\ proxy = "running"
  /\ output = "forwarding"
  /\ down # <<>>
  /\ Forward
  /\ UNCHANGED <<port, client, sent, up, input, toServer, toServerEnded, got, server, said, output, noticed, proxy>>

\* A line that is not UTF-8, or a client that is gone, ends pump_output: what the server
\* wrote stays where it is.
OutputFails ==
  /\ port = "python"
  /\ proxy = "running"
  /\ output = "forwarding"
  /\ down # <<>>
  /\ output' = "failed"
  /\ UNCHANGED <<port, client, sent, up, input, toServer, toServerEnded, got, server, said, down, received, noticed, proxy>>

(***************************************************************************)
(* The end                                                                 *)
(***************************************************************************)
\* The exit event resolves `closed`; proc.wait returns.
Notice ==
  /\ server = "exited"
  /\ proxy = "running"
  /\ ~noticed
  /\ noticed' = TRUE
  /\ UNCHANGED <<port, client, sent, up, input, toServer, toServerEnded, got, server, said, down, received, output, proxy>>

\* Faulty: the process is ended as soon as the server is gone.
NothingLeftExceptOutput == port = "node" => input = "ended"

\* Faulty: the thread that reads stdin is waited for.
NothingLeftOnEitherSide ==
  /\ down = <<>>
  /\ input # "reading"

\* The pipe of the server has been read to its end and, in Node, so has stdin.
NothingLeft ==
  /\ down = <<>>
  /\ port = "node" => input = "ended"

ProxyExits ==
  /\ proxy = "running"
  /\ noticed
  /\ NothingLeft
  /\ proxy' = "exited"
  /\ UNCHANGED <<port, client, sent, up, input, toServer, toServerEnded, got, server, said, down, received, output, noticed>>

\* wait_closed: the output thread is given five seconds, and not waited for once it has
\* failed.
JoinTimesOut ==
  /\ port = "python"
  /\ proxy = "running"
  /\ noticed
  /\ down # <<>>
  /\ proxy' = "cut"
  /\ UNCHANGED <<port, client, sent, up, input, toServer, toServerEnded, got, server, said, down, received, output, noticed>>

Next ==
  \/ ClientSends
  \/ ClientEnds
  \/ ServerReads
  \/ ServerWrites
  \/ ServerExits
  \/ ForwardUp
  \/ SeeClientEnd
  \/ ForwardDown
  \/ OutputFails
  \/ Notice
  \/ ProxyExits
  \/ JoinTimesOut

\* The proxy and the pipes go on; a server reads its input and exits at its end.
Fairness ==
  /\ WF_vars(ForwardUp) /\ WF_vars(SeeClientEnd) /\ WF_vars(ForwardDown)
  /\ WF_vars(Notice) /\ WF_vars(ProxyExits) /\ WF_vars(output = "failed" /\ JoinTimesOut)
  /\ WF_vars(ServerReads) /\ WF_vars(ServerDone)

Spec == Init /\ [][Next]_vars /\ Fairness

-----------------------------------------------------------------------------
(***************************************************************************)
(* Properties                                                              *)
(***************************************************************************)

\* The types.
TypeOK ==
  /\ client \in {"open", "ended"}
  /\ <<sent, said>> \in (0..Sent) \X (0..Said)
  /\ {up, toServer, got} \subseteq Seq(1..Sent)
  /\ {down, received} \subseteq Seq(1..Said)
  /\ Len(received) + Len(down) = said
  /\ input \in {"reading", "ended", "failed"}
  /\ output \in {"forwarding", "failed"}
  /\ {toServerEnded, noticed} \subseteq BOOLEAN
  /\ server \in {"running", "exited"}
  /\ proxy \in {"running", "exited", "crashed", "cut"}

Gone == proxy # "running"

\* "Your MCP client now runs exactly as before" (docs/DEVELOPER_QUICKSTART.md:52): the
\* session through the proxy is a session of the client with its server.  Lines pass
\* in order and once, and a proxy that ends in good order has passed on everything
\* the server wrote before it exited.
Direct == INSTANCE DirectSession WITH
            up     <- IF server = "running" THEN toServer \o up ELSE <<>>,
            sawEnd <- (proxy = "exited")
Transparent == Direct!Spec

\* proxy.ts:103-109: when the client is gone the server is told, exits, and the proxy
\* ends; neither is left behind.  The Python proxy also ends when its server does
\* (proxy.py:59-61), so that the client sees the end of its stream.
SessionEnds ==
  (client = "ended" \/ (server = "exited" /\ port = "python"))
    ~> (server = "exited" /\ Gone)

\* What the server wrote before it exited reaches the client, whichever way the Node
\* proxy comes to its end (the same promise of "exactly as before").
AnswersNotLost == (Gone /\ port = "node") => down = <<>>

\* When the server is gone, the client sees the end of its stream, as it would
\* without the proxy.
EndsWithServer == (server = "exited") ~> Gone

=============================================================================
