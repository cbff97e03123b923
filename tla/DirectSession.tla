---------------------------- MODULE DirectSession ----------------------------
(***************************************************************************)
(* A client and the MCP server it started, with nothing in between: two    *)
(* pipes.  Lines arrive once and in order; the end of a stream is seen     *)
(* after everything written before it; what a server had not read when it  *)
(* exited is gone.  This is what a client sees without mcpseal.            *)
(***************************************************************************)
EXTENDS Naturals, Sequences

CONSTANTS Sent, Said    \* lines each side writes (bounds)

VARIABLES
  client,    \* open, or ended: it closed its end
  sent,      \* number of lines the client wrote
  up,        \* lines on their way to the server
  got,       \* history: lines the server read
  server,    \* running, exited
  said,      \* number of lines the server wrote
  down,      \* lines on their way to the client
  received,  \* history: lines that reached the client
  sawEnd     \* the client saw the end of the server's stream

vars == <<client, sent, up, got, server, said, down, received, sawEnd>>

Init ==
  /\ client = "open"
  /\ server = "running"
  /\ sent = 0 /\ said = 0
  /\ up = <<>> /\ down = <<>>
  /\ got = <<>> /\ received = <<>>
  /\ sawEnd = FALSE

ClientSends ==
  /\ client = "open"
  /\ sent < Sent
  /\ sent' = sent + 1
  /\ up' = IF server = "running" THEN Append(up, sent + 1) ELSE up
  /\ UNCHANGED <<client, got, server, said, down, received, sawEnd>>

ClientEnds ==
  /\ client = "open"
  /\ client' = "ended"
  /\ UNCHANGED <<sent, up, got, server, said, down, received, sawEnd>>

ServerReads ==
  /\ server = "running"
  /\ up # <<>>
  /\ got' = Append(got, Head(up))
  /\ up' = Tail(up)
  /\ UNCHANGED <<client, sent, server, said, down, received, sawEnd>>

ServerWrites ==
  /\ server = "running"
  /\ said < Said
  /\ said' = said + 1
  /\ down' = Append(down, said + 1)
  /\ UNCHANGED <<client, sent, up, got, server, received, sawEnd>>

ServerExits ==
  /\ server = "running"
  /\ server' = "exited"
  /\ up' = <<>>
  /\ UNCHANGED <<client, sent, got, said, down, received, sawEnd>>

ClientReads ==
  /\ down # <<>>
  /\ received' = Append(received, Head(down))
  /\ down' = Tail(down)
  /\ UNCHANGED <<client, sent, up, got, server, said, sawEnd>>

ClientSeesEnd ==
  /\ server = "exited"
  /\ down = <<>>
  /\ sawEnd' = TRUE
  /\ UNCHANGED <<client, sent, up, got, server, said, down, received>>

Next ==
  \/ ClientSends
  \/ ClientEnds
  \/ ServerReads
  \/ ServerWrites
  \/ ServerExits
  \/ ClientReads
  \/ ClientSeesEnd

Spec == Init /\ [][Next]_vars

=============================================================================
