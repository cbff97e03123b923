----------------------------- MODULE StdioProofs -----------------------------
(***************************************************************************)
(* Theorems about the three programs of MCStdio, for any number of         *)
(* requests and lines: the proxy is transparent, and both clients are      *)
(* request/reply connections.                                              *)
(***************************************************************************)
EXTENDS MCStdio, SequenceTheorems, TLAPS

\* Each part behaves as if it were alone.
LEMMA PartsAlone ==
  Spec => /\ Node!Init /\ [][Node!Next]_(Node!vars)
          /\ Python!Init /\ [][Python!Next]_(Python!vars)
          /\ Proxy!Init /\ [][Proxy!Next]_(Proxy!vars)
<1>1. Init => Node!Init /\ Python!Init /\ Proxy!Init
  BY DEF Init
<1>2. [Next]_vars => /\ [Node!Next]_(Node!vars)
                     /\ [Python!Next]_(Python!vars)
                     /\ [Proxy!Next]_(Proxy!vars)
  BY DEF Next, vars, OnlyNode, OnlyPython, OnlyProxy, nodeVars, pythonVars, proxyVars,
         Node!vars, Node!serverVars, Node!clientVars, Python!vars, Python!serverVars,
         Python!clientVars, Proxy!vars
<1>3. QED
  BY <1>1, <1>2, PTL DEF Spec

-----------------------------------------------------------------------------
(***************************************************************************)
(* The proxy.  Two pipes in a row are one pipe: a line the proxy takes     *)
(* from one and puts into the other stays where it was.                    *)
(***************************************************************************)
\* What is in a pipe stays in its set.
LEMMA PipeFacts ==
  ASSUME NEW S
  PROVE  /\ <<>> \in Seq(S)
         /\ \A q \in Seq(S), x \in S : Append(q, x) \in Seq(S)
         /\ \A q \in Seq(S) : q # <<>> => Head(q) \in S /\ Tail(q) \in Seq(S)
         /\ \A T : S \subseteq T => Seq(S) \subseteq Seq(T)
<1>1. \A T : S \subseteq T => Seq(S) \subseteq Seq(T)
  BY SeqMonotonic
<1>2. QED
  BY <1>1

\* Moving a line from the front of one pipe to the end of the other changes nothing.
LEMMA PipesInARow ==
  ASSUME NEW S, NEW s \in Seq(S), NEW t \in Seq(S)
  PROVE  /\ \A x \in S : s \o Append(t, x) = Append(s \o t, x)
         /\ t # <<>> => Append(s, Head(t)) \o Tail(t) = s \o t
         /\ s # <<>> => /\ s \o t # <<>>
                        /\ Head(s \o t) = Head(s)
                        /\ Tail(s \o t) = Tail(s) \o t
         /\ s \o <<>> = s
<1>1. ASSUME NEW x \in S
      PROVE  s \o Append(t, x) = Append(s \o t, x)
  <2>1. <<x>> \in Seq(S) /\ s \o t \in Seq(S)
    BY ConcatProperties
  <2>2. Append(t, x) = t \o <<x>> /\ Append(s \o t, x) = (s \o t) \o <<x>>
    BY <2>1, AppendIsConcat
  <2>3. QED
    BY <2>1, <2>2, ConcatAssociative
<1>2. ASSUME t # <<>>
      PROVE  Append(s, Head(t)) \o Tail(t) = s \o t
  <2> DEFINE h == <<Head(t)>>
  <2>1. Head(t) \in S /\ h \in Seq(S) /\ Tail(t) \in Seq(S) /\ Len(Tail(t)) = Len(t) - 1
        /\ \A i \in 1 .. Len(Tail(t)) : Tail(t)[i] = t[i + 1]
    BY <1>2, HeadTailProperties
  <2>2. h \o Tail(t) = t
    <3>1. /\ h \o Tail(t) \in Seq(S) /\ Len(h \o Tail(t)) = Len(t)
          /\ \A i \in 1 .. Len(t) :
               (h \o Tail(t))[i] = IF i <= 1 THEN Head(t) ELSE Tail(t)[i - 1]
      BY <2>1, ConcatProperties
    <3>2. \A i \in 1 .. Len(t) : (h \o Tail(t))[i] = t[i]
      BY <1>2, <2>1, <3>1
    <3>3. QED
      BY <3>1, <3>2, SeqEqual
  <2>3. Append(s, Head(t)) = s \o h
    BY <2>1, AppendIsConcat
  <2>4. QED
    BY <2>1, <2>2, <2>3, ConcatAssociative
<1>3. ASSUME s # <<>>
      PROVE  /\ s \o t # <<>>
             /\ Head(s \o t) = Head(s)
             /\ Tail(s \o t) = Tail(s) \o t
  <2> DEFINE st == s \o t
             rest == Tail(s) \o t
  <2>1. /\ st \in Seq(S) /\ Len(st) = Len(s) + Len(t) /\ Len(s) > 0 /\ Len(t) \in Nat
        /\ \A i \in 1 .. Len(st) : st[i] = IF i <= Len(s) THEN s[i] ELSE t[i - Len(s)]
    BY <1>3, ConcatProperties
  <2>2. /\ Tail(s) \in Seq(S) /\ Len(Tail(s)) = Len(s) - 1
        /\ \A i \in 1 .. Len(Tail(s)) : Tail(s)[i] = s[i + 1]
    BY <1>3, HeadTailProperties
  <2>3. /\ rest \in Seq(S) /\ Len(rest) = Len(s) - 1 + Len(t)
        /\ \A i \in 1 .. Len(rest) :
             rest[i] = IF i <= Len(s) - 1 THEN Tail(s)[i] ELSE t[i - (Len(s) - 1)]
    BY <2>2, ConcatProperties
  <2> HIDE DEF st, rest
  <2>4. st # <<>> /\ Head(st) = Head(s)
    BY <1>3, <2>1
  <2>5. /\ Tail(st) \in Seq(S) /\ Len(Tail(st)) = Len(st) - 1
        /\ \A i \in 1 .. Len(Tail(st)) : Tail(st)[i] = st[i + 1]
    BY <2>1, <2>4, HeadTailProperties
  <2>6. Len(Tail(st)) = Len(rest) /\ \A i \in 1 .. Len(rest) : Tail(st)[i] = rest[i]
    <3>1. Len(Tail(st)) = Len(rest) /\ Len(rest) \in Nat /\ Len(s) \in Nat
      BY <2>1, <2>3, <2>5
    <3>2. ASSUME NEW i \in 1 .. Len(rest), i <= Len(s) - 1
          PROVE  Tail(st)[i] = rest[i]
      <4>1. Tail(st)[i] = st[i + 1] /\ rest[i] = Tail(s)[i] /\ Tail(s)[i] = s[i + 1]
        BY <2>2, <2>3, <2>5, <3>1, <3>2
      <4>2. QED
        BY <2>1, <2>3, <3>1, <3>2, <4>1
    <3>3. ASSUME NEW i \in 1 .. Len(rest), i > Len(s) - 1
          PROVE  Tail(st)[i] = rest[i]
      <4>1. Tail(st)[i] = st[i + 1]
        BY <2>5, <3>1, <3>3
      <4>2. rest[i] = t[i - (Len(s) - 1)]
        BY <2>3, <3>1, <3>3
      <4>3. st[i + 1] = t[i + 1 - Len(s)]
        BY <2>1, <2>3, <3>1, <3>3
      <4>4. i + 1 - Len(s) = i - (Len(s) - 1)
        BY <3>1, <3>3
      <4>5. QED
        BY <4>1, <4>2, <4>3, <4>4
    <3>4. QED
      BY <3>1, <3>2, <3>3
  <2>7. Tail(st) = rest
    BY <2>3, <2>5, <2>6, SeqEqual
  <2>8. QED
    BY <2>4, <2>7 DEF st, rest
<1>4. s \o <<>> = s
  BY ConcatEmptySeq
<1>5. QED
  BY <1>1, <1>2, <1>3, <1>4

ProxyInv ==
  /\ Proxy!TypeOK
  /\ port \in {"node", "python"}
  /\ noticed => pServer = "exited"

LEMMA ProxyInvStep == ProxyInv /\ [Proxy!Next]_(Proxy!vars) => ProxyInv'
<1> SUFFICES ASSUME ProxyInv, [Proxy!Next]_(Proxy!vars)
             PROVE  ProxyInv'
  OBVIOUS
<1> USE StdioAssumptions DEF StdioAssumptions, Proxy!ProxySessionAssumption, ProxyInv, Proxy!TypeOK
<1>1. CASE Proxy!ClientSends
  BY <1>1 DEF Proxy!ClientSends
<1>2. CASE Proxy!ClientEnds
  BY <1>2 DEF Proxy!ClientEnds
<1>3. CASE Proxy!ServerReads
  BY <1>3, PipeFacts DEF Proxy!ServerReads
<1>4. CASE Proxy!ServerWrites
  BY <1>4 DEF Proxy!ServerWrites
<1>5. CASE Proxy!ServerExits
  BY <1>5 DEF Proxy!ServerExits
<1>6. CASE Proxy!ForwardUp
  <2>1. /\ up \in Seq(1 .. Sent) /\ up # <<>> /\ up' = Tail(up)
        /\ toServer \in Seq(1 .. Sent)
        /\ toServer' = toServer \/ toServer' = Append(toServer, Head(up))
    BY <1>6 DEF Proxy!ForwardUp
  <2>2. up' \in Seq(1 .. Sent) /\ toServer' \in Seq(1 .. Sent)
    BY ONLY <2>1, PipeFacts
  <2>3. /\ input' \in {"reading", "ended", "failed"}
        /\ proxy' \in {"running", "exited", "crashed", "cut"}
        /\ UNCHANGED <<port, client, sent, toServerEnded, got, pServer, said, down, received,
                      output, noticed>>
    BY <1>6 DEF Proxy!ForwardUp
  <2>4. QED
    BY <2>1, <2>2, <2>3
<1>7. CASE Proxy!SeeClientEnd
  BY <1>7 DEF Proxy!SeeClientEnd, Proxy!EndInput
<1>8. CASE Proxy!ForwardDown
  <2>1. /\ down \in Seq(1 .. Said) /\ down # <<>> /\ down' = Tail(down)
        /\ received \in Seq(1 .. Said) /\ received' = Append(received, Head(down))
    BY <1>8 DEF Proxy!ForwardDown, Proxy!Forward
  <2>2. /\ down' \in Seq(1 .. Said) /\ received' \in Seq(1 .. Said)
        /\ Len(received') + Len(down') = Len(received) + Len(down)
    <3>1. down' \in Seq(1 .. Said) /\ received' \in Seq(1 .. Said)
      BY ONLY <2>1, PipeFacts
    <3>2. Len(down) \in Nat /\ Len(received) \in Nat /\ Len(down') = Len(down) - 1
      BY ONLY <2>1
    <3>3. Len(received') = Len(received) + 1
      BY ONLY <2>1
    <3>4. QED
      BY ONLY <3>1, <3>2, <3>3
  <2>3. UNCHANGED <<port, client, sent, up, input, toServer, toServerEnded, got, pServer, said,
                    output, noticed, proxy>>
    BY <1>8 DEF Proxy!ForwardDown
  <2>4. QED
    BY <2>2, <2>3
<1>9. CASE Proxy!OutputFails \/ Proxy!JoinTimesOut
  <2>1. /\ UNCHANGED <<port, client, sent, up, input, toServer, toServerEnded, got, pServer,
                       said, down, received, noticed>>
        /\ output' \in {"forwarding", "failed"}
        /\ proxy' \in {"running", "exited", "crashed", "cut"}
    BY <1>9 DEF Proxy!OutputFails, Proxy!JoinTimesOut
  <2>2. QED
    BY <2>1
<1>n. CASE Proxy!Notice \/ Proxy!ProxyExits
  BY <1>n DEF Proxy!Notice, Proxy!ProxyExits
<1>10. CASE UNCHANGED Proxy!vars
  BY <1>10 DEF Proxy!vars
<1>11. QED
  BY <1>1, <1>2, <1>3, <1>4, <1>5, <1>6, <1>7, <1>8, <1>9, <1>n, <1>10 DEF Proxy!Next

LEMMA DirectInit == Proxy!Init => ProxyInv /\ Proxy!Direct!Init
<1>1. /\ <<>> \in Seq(1 .. Sent) /\ <<>> \in Seq(1 .. Said)
      /\ Len(<<>>) = 0 /\ Sent \in Nat /\ Said \in Nat
  BY StdioAssumptions DEF StdioAssumptions, Proxy!ProxySessionAssumption
<1>2. <<>> \o <<>> = <<>>
  BY <1>1, PipesInARow
<1>3. ASSUME Proxy!Init
      PROVE  ProxyInv
  <2>1. Len(received) + Len(down) = said /\ <<sent, said>> \in (0 .. Sent) \X (0 .. Said)
    BY <1>1, <1>3 DEF Proxy!Init
  <2>2. {up, toServer, got} \subseteq Seq(1 .. Sent) /\ {down, received} \subseteq Seq(1 .. Said)
    BY <1>1, <1>3 DEF Proxy!Init
  <2>3. QED
    BY <1>3, <2>1, <2>2 DEF Proxy!Init, ProxyInv, Proxy!TypeOK
<1>4. Proxy!Init => Proxy!Direct!Init
  BY <1>2 DEF Proxy!Init, Proxy!Direct!Init
<1>5. QED
  BY <1>3, <1>4

\* What the two pipes to the server hold together.
Upward == IF pServer = "running" THEN toServer \o up ELSE <<>>

\* Each step of the proxy, of its client or of its server is one of a direct session.
LEMMA DirectStep ==
  ProxyInv /\ [Proxy!Next]_(Proxy!vars) => [Proxy!Direct!Next]_(Proxy!Direct!vars)
<1> SUFFICES ASSUME ProxyInv, [Proxy!Next]_(Proxy!vars)
             PROVE  [Proxy!Direct!Next]_(Proxy!Direct!vars)
  OBVIOUS
<1>p. up \in Seq(1 .. Sent) /\ toServer \in Seq(1 .. Sent)
  BY DEF ProxyInv, Proxy!TypeOK
<1> USE DEF Proxy!Direct!Next
<1>1. CASE Proxy!ClientSends
  <2>n. sent \in 0 .. Sent /\ sent < Sent
    BY <1>1 DEF ProxyInv, Proxy!TypeOK, Proxy!ClientSends
  <2>o. Sent \in Nat
    BY StdioAssumptions DEF StdioAssumptions, Proxy!ProxySessionAssumption
  <2>s. sent + 1 \in 1 .. Sent
    BY ONLY <2>n, <2>o
  <2>1. toServer \o Append(up, sent + 1) = Append(toServer \o up, sent + 1)
    BY ONLY <1>p, <2>s, PipesInARow
  <2>2. Proxy!Direct!ClientSends
    BY <1>1, <2>1 DEF Proxy!ClientSends, Proxy!Direct!ClientSends
  <2>3. QED
    BY <2>2
<1>2. CASE Proxy!ClientEnds
  <2>1. Proxy!Direct!ClientEnds
    BY <1>2 DEF Proxy!ClientEnds, Proxy!Direct!ClientEnds
  <2>2. QED
    BY <2>1
<1>3. CASE Proxy!ServerReads
  <2>1. /\ toServer \o up # <<>>
        /\ Head(toServer \o up) = Head(toServer)
        /\ Tail(toServer \o up) = Tail(toServer) \o up
    <3>1. toServer # <<>>
      BY <1>3 DEF Proxy!ServerReads
    <3>2. QED
      BY ONLY <1>p, <3>1, PipesInARow
  <2>2. Proxy!Direct!ServerReads
    BY <1>3, <2>1 DEF Proxy!ServerReads, Proxy!Direct!ServerReads
  <2>3. QED
    BY <2>2
<1>4. CASE Proxy!ServerWrites
  <2>1. Proxy!Direct!ServerWrites
    BY <1>4 DEF Proxy!ServerWrites, Proxy!Direct!ServerWrites
  <2>2. QED
    BY <2>1
<1>5. CASE Proxy!ServerExits
  <2>1. Proxy!Direct!ServerExits
    BY <1>5 DEF Proxy!ServerExits, Proxy!Direct!ServerExits
  <2>2. QED
    BY <2>1
<1>6. CASE Proxy!ForwardUp
  <2>1. up # <<>>
    BY <1>6 DEF Proxy!ForwardUp
  <2>2. Append(toServer, Head(up)) \o Tail(up) = toServer \o up
    BY ONLY <1>p, <2>1, PipesInARow
  <2>3. Upward' = Upward
    BY <1>6, <2>2 DEF Proxy!ForwardUp, Upward
  <2>4. QED
    BY <1>6, <2>3 DEF Proxy!ForwardUp, Proxy!Direct!vars, Upward
<1>7. CASE Proxy!SeeClientEnd
  BY <1>7 DEF Proxy!SeeClientEnd, Proxy!EndInput, Proxy!Direct!vars
<1>8. CASE Proxy!ForwardDown
  <2>1. Proxy!Direct!ClientReads
    BY <1>8 DEF Proxy!ForwardDown, Proxy!Forward, Proxy!Direct!ClientReads
  <2>2. QED
    BY <2>1
<1>9. CASE Proxy!OutputFails \/ Proxy!Notice \/ Proxy!JoinTimesOut
  BY <1>9 DEF Proxy!OutputFails, Proxy!Notice, Proxy!JoinTimesOut, Proxy!Direct!vars
<1>10. CASE Proxy!ProxyExits
  <2>1. Proxy!Direct!ClientSeesEnd
    BY <1>10 DEF Proxy!ProxyExits, Proxy!NothingLeft, Proxy!Direct!ClientSeesEnd, ProxyInv
  <2>2. QED
    BY <2>1
<1>11. CASE UNCHANGED Proxy!vars
  BY <1>11 DEF Proxy!vars, Proxy!Direct!vars
<1>12. QED
  BY <1>1, <1>2, <1>3, <1>4, <1>5, <1>6, <1>7, <1>8, <1>9, <1>10, <1>11 DEF Proxy!Next

\* The session through the proxy is a session of the client with its server, for any
\* number of lines either way (runProxy, proxy.ts:58-151; run_proxy, proxy.py).
THEOREM ProxyIsTransparent == Spec => Transparent
<1>1. ProxyInv => Proxy!TypeOK
  BY DEF ProxyInv
<1>2. Proxy!Init /\ [][Proxy!Next]_(Proxy!vars) => Transparent
  BY <1>1, DirectInit, ProxyInvStep, DirectStep, PTL
  DEF Transparent, Proxy!Transparent, Proxy!Direct!Spec
<1>3. QED
  BY <1>2, PartsAlone, PTL

-----------------------------------------------------------------------------
(***************************************************************************)
(* The Node client.  Besides the promise, the invariant says that a        *)
(* request is asked before it is on its way to the server, and that the id *)
(* of a line on its way to the client is one the server wrote.             *)
(***************************************************************************)
NodeAsked == {r \in Node!Requests : r < nNextId}
NodeLines == {line \in Node!Answers \cup Node!Others : line.id \in nWritten \cup {0}}

NodePipes ==
  /\ nStdin \in Seq(NodeAsked)
  /\ nRead \subseteq NodeAsked
  /\ nStdout \in Seq(NodeLines)

NodeInv ==
  /\ Node!TypeOK
  /\ Node!WaitersAreTimed
  /\ \A r \in Node!Requests : nOutcome[r] = "idle" <=> r >= nNextId
  /\ NodePipes

LEMMA NodePipesTyped ==
  ASSUME NodePipes
  PROVE  /\ nStdin \in Seq(Node!Requests)
         /\ nStdout \in Seq(Node!Answers \cup Node!Others)
         /\ nRead \subseteq Node!Requests
<1>1. NodeAsked \subseteq Node!Requests /\ NodeLines \subseteq Node!Answers \cup Node!Others
  BY DEF NodeAsked, NodeLines
<1>2. QED
  BY <1>1, PipeFacts DEF NodePipes

\* The server's steps, and the client's writes, keep the pipes.
LEMMA NodeServerStep ==
  ASSUME NodeInv, Node!ServerNext, UNCHANGED Node!clientVars
  PROVE  NodeInv'
<1>1. /\ NodeAsked' = NodeAsked
      /\ UNCHANGED <<nNextId, nOutcome, pending, timers, nClosed, nCloseError, nNoticed,
                     program>>
  BY DEF Node!clientVars, NodeAsked, Node!Requests
<1>2. nWritten \subseteq nWritten' => NodeLines \subseteq NodeLines'
  BY DEF NodeLines, Node!Answers, Node!Others, Node!Requests
<1>3. NodePipes' /\ Node!ServerTypeOK'
  <2>1. CASE Node!ServerReads
    <3>1. Head(nStdin) \in NodeAsked /\ Tail(nStdin) \in Seq(NodeAsked)
      BY <2>1, PipeFacts DEF Node!ServerReads, NodeInv, NodePipes
    <3>2. NodeLines' = NodeLines
      BY <2>1 DEF Node!ServerReads, NodeLines, Node!Answers, Node!Others, Node!Requests
    <3>3. NodePipes'
      BY <1>1, <2>1, <3>1, <3>2 DEF Node!ServerReads, NodeInv, NodePipes
    <3>4. nStdin' \in Seq(Node!Requests) /\ Head(nStdin) \in Node!Requests
      BY <2>1, PipeFacts DEF Node!ServerReads, NodeInv, Node!TypeOK, Node!ServerTypeOK
    <3>5. QED
      BY <2>1, <3>3, <3>4
      DEF Node!ServerReads, NodeInv, Node!TypeOK, Node!ServerTypeOK, Node!Answers,
          Node!Others, Node!Requests
  <2>2. ASSUME NEW line \in Node!Answers \cup Node!Others, Node!Puts(line),
               nAnswered' \subseteq nRead
        PROVE  NodePipes' /\ Node!ServerTypeOK'
    <3>0. nWritten' = nWritten \cup ({line.id} \ {0}) /\ line.id \in Node!Requests \cup {0}
      BY <2>2 DEF Node!Puts, Node!Answers, Node!Others
    <3>1. line \in NodeLines' /\ NodeLines \subseteq NodeLines'
      BY <1>2, <2>2, <3>0 DEF NodeLines, Node!Answers, Node!Others, Node!Requests
    <3>2. nStdout \in Seq(NodeLines')
      BY <3>1, PipeFacts DEF NodeInv, NodePipes
    <3>3. nStdout' \in Seq(NodeLines')
      BY <2>2, <3>1, <3>2, PipeFacts DEF Node!Puts
    <3>4. NodePipes'
      BY <1>1, <2>2, <3>3 DEF Node!Puts, NodeInv, NodePipes
    <3>5. /\ nStdin' \in Seq(Node!Requests)
          /\ nStdout' \in Seq(Node!Answers \cup Node!Others)
          /\ nRead' \subseteq Node!Requests
      <4>1. NodeLines' \subseteq Node!Answers \cup Node!Others
        BY DEF NodeLines, Node!Answers, Node!Others, Node!Requests
      <4>2. QED
        BY <2>2, <3>3, <4>1, PipeFacts, NodePipesTyped DEF NodeInv, Node!Puts
    <3>6. nLines' \in 0 .. Lines /\ nServer' \in {"running", "failed", "exited"}
      <4>1. /\ nLines' = nLines + 1 /\ nLines < Lines /\ nServer' = nServer
            /\ nServer = "running"
        BY <2>2 DEF Node!Puts
      <4>2. nLines \in 0 .. Lines /\ Lines \in Nat
        BY StdioAssumptions
        DEF NodeInv, Node!TypeOK, Node!ServerTypeOK, StdioAssumptions, Node!StdioAssumption
      <4>3. QED
        BY <4>1, <4>2
    <3>7. nAnswered' \subseteq nRead' /\ nWritten' \subseteq Node!Requests
      BY <2>2, <3>0 DEF Node!Puts, NodeInv, Node!TypeOK, Node!ServerTypeOK
    <3>8. QED
      BY <3>4, <3>5, <3>6, <3>7
      DEF Node!ServerTypeOK, Node!Answers, Node!Others, Node!Requests
  <2>3. ASSUME NEW r \in Node!Requests, Node!ServerAnswers(r)
        PROVE  NodePipes' /\ Node!ServerTypeOK'
    <3>1. PICK kind \in {"result", "error"} : Node!Puts([kind |-> kind, id |-> r])
      BY <2>3 DEF Node!ServerAnswers
    <3> DEFINE line == [kind |-> kind, id |-> r]
    <3>2. line \in Node!Answers /\ line.id = r /\ r # 0
      BY <2>3 DEF Node!Answers, Node!Requests
    <3>3. nAnswered' \subseteq nRead
      BY <2>3 DEF Node!ServerAnswers, NodeInv, Node!TypeOK, Node!ServerTypeOK
    <3> HIDE DEF line
    <3>4. Node!Puts(line)
      BY <3>1 DEF line
    <3>5. QED
      BY <2>2, <3>2, <3>3, <3>4
  <2>4. CASE Node!ServerWritesOther
    <3>1. PICK line \in Node!Others : Node!Puts(line)
      BY <2>4 DEF Node!ServerWritesOther
    <3>2. nAnswered' \subseteq nRead
      BY <2>4 DEF Node!ServerWritesOther, NodeInv, Node!TypeOK, Node!ServerTypeOK
    <3>3. QED
      BY <2>2, <3>1, <3>2
  <2>5. CASE Node!ServerExits
    <3>1. NodeLines' = NodeLines
      BY <2>5 DEF Node!ServerExits, NodeLines, Node!Answers, Node!Others, Node!Requests
    <3>2. NodePipes'
      BY <1>1, <2>5, <3>1, PipeFacts DEF Node!ServerExits, NodeInv, NodePipes
    <3>3. nStdin' \in Seq(Node!Requests)
      BY <2>5, PipeFacts DEF Node!ServerExits
    <3>4. QED
      BY <2>5, <3>2, <3>3, NodePipesTyped
      DEF Node!ServerExits, NodeInv, Node!TypeOK, Node!ServerTypeOK, Node!Answers,
          Node!Others, Node!Requests
  <2>6. QED
    BY <2>1, <2>3, <2>4, <2>5 DEF Node!ServerNext
<1>4. QED
  BY <1>1, <1>3 DEF NodeInv, Node!TypeOK, Node!WaitersAreTimed, Node!Requests

LEMMA NodeInitInv == Node!Init => NodeInv
<1> SUFFICES ASSUME Node!Init
             PROVE  NodeInv
  OBVIOUS
<1>1. Node!ServerTypeOK /\ NodePipes
  <2>1. \A S : <<>> \in Seq(S)
    BY PipeFacts
  <2>2. Lines \in Nat /\ NodeRequests \in Nat
    BY StdioAssumptions DEF StdioAssumptions, Node!StdioAssumption
  <2>3. QED
    BY <2>1, <2>2 DEF Node!Init, Node!ServerInit, Node!ServerTypeOK, NodePipes
<1>2. nNextId \in 1 .. (NodeRequests + 1) /\ \A r \in Node!Requests : r >= nNextId
  BY StdioAssumptions DEF Node!Init, StdioAssumptions, Node!StdioAssumption, Node!Requests
<1>3. nOutcome \in [Node!Requests -> {"idle", "waiting"} \cup Node!Settled]
  BY DEF Node!Init
<1>4. Node!TypeOK
  BY <1>1, <1>2, <1>3 DEF Node!Init, Node!TypeOK
<1>5. QED
  BY <1>1, <1>2, <1>4 DEF Node!Init, NodeInv, Node!WaitersAreTimed, Node!Requests

\* Settling a request that waits keeps waiters and timers together.
LEMMA SettleKeeps ==
  ASSUME NodeInv, NEW r \in Node!Requests, nOutcome[r] = "waiting",
         NEW o \in Node!Settled, Node!Settle(r, o),
         UNCHANGED <<nNextId, nClosed, nCloseError, nNoticed, program>>
  PROVE  /\ nOutcome' \in [Node!Requests -> {"idle", "waiting"} \cup Node!Settled]
         /\ Node!WaitersAreTimed'
         /\ \A q \in Node!Requests : nOutcome'[q] = "idle" <=> q >= nNextId'
         /\ pending' \subseteq Node!Requests /\ timers' \subseteq Node!Requests
<1>1. /\ nOutcome' = [nOutcome EXCEPT ![r] = o]
      /\ pending' = pending \ {r} /\ timers' = timers \ {r}
  BY DEF Node!Settle
<1>2. nOutcome \in [Node!Requests -> {"idle", "waiting"} \cup Node!Settled]
  BY DEF NodeInv, Node!TypeOK
<1>3. /\ \A q \in Node!Requests : nOutcome'[q] = IF q = r THEN o ELSE nOutcome[q]
      /\ o # "idle" /\ o # "waiting"
  BY <1>1, <1>2 DEF Node!Settled
<1>4. Node!WaitersAreTimed'
  BY <1>1, <1>3 DEF NodeInv, Node!WaitersAreTimed, Node!Requests
<1>5. \A q \in Node!Requests : nOutcome'[q] = "idle" <=> q >= nNextId'
  BY <1>3 DEF NodeInv
<1>6. QED
  BY <1>1, <1>2, <1>4, <1>5 DEF NodeInv, Node!TypeOK

\* The exit and the failed spawn settle everybody who waits.
LEMMA OnCloseKeeps ==
  ASSUME NodeInv, NEW err \in {"exited", "spawn failed"}, Node!OnClose(err),
         nNextId' = nNextId
  PROVE  /\ nOutcome' \in [Node!Requests -> {"idle", "waiting"} \cup Node!Settled]
         /\ Node!WaitersAreTimed'
         /\ \A q \in Node!Requests : nOutcome'[q] = "idle" <=> q >= nNextId'
         /\ pending' \subseteq Node!Requests /\ timers' \subseteq Node!Requests
<1>1. /\ nOutcome' = [q \in Node!Requests |-> IF q \in pending THEN err ELSE nOutcome[q]]
      /\ pending' = {} /\ timers' = timers \ pending
  BY DEF Node!OnClose
<1>2. /\ nOutcome \in [Node!Requests -> {"idle", "waiting"} \cup Node!Settled]
      /\ err \in Node!Settled /\ err # "idle" /\ err # "waiting"
  BY DEF NodeInv, Node!TypeOK, Node!Settled
<1>3. \A q \in Node!Requests : q \in pending <=> nOutcome[q] = "waiting"
  BY DEF NodeInv, Node!WaitersAreTimed, Node!Requests
<1>4. timers' = {}
  BY <1>1 DEF NodeInv, Node!WaitersAreTimed
<1>5. \A q \in Node!Requests : nOutcome'[q] # "waiting"
  BY <1>1, <1>2, <1>3
<1>6. Node!WaitersAreTimed'
  BY <1>1, <1>4, <1>5 DEF Node!WaitersAreTimed, Node!Requests
<1>7. \A q \in Node!Requests : nOutcome'[q] = "idle" <=> q >= nNextId'
  BY <1>1, <1>2, <1>3 DEF NodeInv
<1>8. QED
  BY <1>1, <1>2, <1>4, <1>6, <1>7

\* A client that does not touch its server keeps the pipes, whatever it settles.
LEMMA NodeUntouched ==
  ASSUME NodeInv, UNCHANGED <<nServer, nStdin, nLines, nRead, nAnswered, nWritten, nNextId>>,
         nStdout' = nStdout \/ (nStdout # <<>> /\ nStdout' = Tail(nStdout))
  PROVE  NodePipes' /\ Node!ServerTypeOK'
<1>1. NodeAsked' = NodeAsked /\ NodeLines' = NodeLines
  BY DEF NodeAsked, NodeLines, Node!Answers, Node!Others, Node!Requests
<1>2. nStdout' \in Seq(NodeLines)
  BY PipeFacts DEF NodeInv, NodePipes
<1>3. nStdout' \in Seq(Node!Answers \cup Node!Others)
  BY PipeFacts DEF NodeInv, Node!TypeOK, Node!ServerTypeOK
<1>4. NodePipes'
  BY <1>1, <1>2 DEF NodeInv, NodePipes
<1>5. QED
  BY <1>3, <1>4
  DEF NodeInv, Node!TypeOK, Node!ServerTypeOK, Node!Answers, Node!Others, Node!Requests

\* The line a client reads carries no id, or one the server wrote.
LEMMA LineRead ==
  ASSUME NodeInv, nStdout # <<>>
  PROVE  Head(nStdout).id \in nWritten \cup {0}
<1>1. Head(nStdout) \in NodeLines
  BY PipeFacts DEF NodeInv, NodePipes
<1>2. QED
  BY <1>1 DEF NodeLines

NodeStatus == [r \in Node!Requests |->
                 IF nOutcome[r] \in {"idle", "waiting"} THEN nOutcome[r]
                 ELSE IF nOutcome[r] \in {"resolved", "refused"} THEN "replied"
                 ELSE "failed"]

\* Each step keeps the invariant and is one of a request/reply connection.
LEMMA NodeStep ==
  NodeInv /\ [Node!Next]_(Node!vars) => NodeInv' /\ [Node!R!Next]_(Node!R!vars)
<1> SUFFICES ASSUME NodeInv, [Node!Next]_(Node!vars)
             PROVE  NodeInv' /\ [Node!R!Next]_(Node!R!vars)
  OBVIOUS
<1>0. /\ Node!TypeOK /\ Node!ServerTypeOK /\ Node!WaitersAreTimed
      /\ nOutcome \in [Node!Requests -> {"idle", "waiting"} \cup Node!Settled]
      /\ \A q \in Node!Requests : nOutcome[q] = "idle" <=> q >= nNextId
      /\ \A q \in Node!Requests : q \in pending <=> nOutcome[q] = "waiting"
      /\ \A q \in Node!Requests : q \in timers <=> nOutcome[q] = "waiting"
      /\ pending \subseteq Node!Requests /\ timers \subseteq Node!Requests
      /\ NodeRequests \in Nat /\ nNextId \in 1 .. (NodeRequests + 1)
  BY StdioAssumptions
  DEF NodeInv, Node!TypeOK, Node!WaitersAreTimed, StdioAssumptions, Node!StdioAssumption
<1>1. CASE Node!ServerNext /\ UNCHANGED Node!clientVars
  <2>1. NodeInv'
    BY <1>1, NodeServerStep
  <2>2. UNCHANGED <<NodeStatus, program>>
    BY <1>1 DEF Node!clientVars, NodeStatus, Node!Requests
  <2>3. CASE (\E r \in Node!Requests : Node!ServerAnswers(r)) \/ Node!ServerWritesOther
    <3>1. PICK line \in Node!Answers \cup Node!Others : Node!Puts(line)
      BY <2>3 DEF Node!ServerAnswers, Node!ServerWritesOther, Node!Answers
    <3>2. nWritten' = nWritten \cup ({line.id} \ {0}) /\ line.id \in Node!Requests \cup {0}
      BY <3>1 DEF Node!Puts, Node!Answers, Node!Others
    <3>3. CASE line.id = 0
      <4>1. UNCHANGED Node!R!vars
        BY <2>2, <3>2, <3>3 DEF Node!R!vars, NodeStatus
      <4>2. QED
        BY <2>1, <4>1
    <3>4. CASE line.id # 0
      <4>1. line.id \in Node!Requests /\ nWritten' = nWritten \cup {line.id}
        BY <3>2, <3>4
      <4>2. Node!R!Reply(line.id)
        BY <2>2, <4>1 DEF Node!R!Reply, NodeStatus
      <4>3. QED
        BY <2>1, <4>1, <4>2 DEF Node!R!Next
    <3>5. QED
      BY <3>3, <3>4
  <2>4. CASE Node!ServerReads \/ Node!ServerExits
    <3>1. nWritten' = nWritten
      BY <2>4 DEF Node!ServerReads, Node!ServerExits
    <3>2. UNCHANGED Node!R!vars
      BY <2>2, <3>1 DEF Node!R!vars, NodeStatus
    <3>3. QED
      BY <2>1, <3>2
  <2>5. QED
    BY <1>1, <2>3, <2>4 DEF Node!ServerNext
<1>2. CASE Node!Request
  <2>1. /\ nNextId \in Node!Requests /\ nNextId' = nNextId + 1 /\ program = "running"
        /\ nOutcome' = [nOutcome EXCEPT ![nNextId] = "waiting"]
        /\ pending' = pending \cup {nNextId} /\ timers' = timers \cup {nNextId}
        /\ UNCHANGED <<nClosed, nCloseError, nNoticed>>
    BY <1>2 DEF Node!Request
  <2>2. /\ nOutcome' \in [Node!Requests -> {"idle", "waiting"} \cup Node!Settled]
        /\ \A q \in Node!Requests :
             nOutcome'[q] = IF q = nNextId THEN "waiting" ELSE nOutcome[q]
    BY <1>0, <2>1
  <2>3. /\ nNextId' \in 1 .. (NodeRequests + 1)
        /\ \A q \in Node!Requests : nOutcome'[q] = "idle" <=> q >= nNextId'
    BY <1>0, <2>1, <2>2 DEF Node!Requests
  <2>4. Node!WaitersAreTimed'
    BY <2>1, <2>2 DEF NodeInv, Node!WaitersAreTimed, Node!Requests
  <2>5. nNextId \in NodeAsked' /\ NodeAsked \subseteq NodeAsked'
    BY <2>1 DEF NodeAsked, Node!Requests
  <2>6. /\ nStdin' = nStdin \/ nStdin' = Append(nStdin, nNextId)
        /\ program' \in {"running", "crashed"}
        /\ UNCHANGED <<nServer, nStdout, nLines, nRead, nAnswered, nWritten>>
    BY <1>2, <2>1 DEF Node!Request, Node!Write, Node!serverVars
  <2>7. nStdin' \in Seq(NodeAsked')
    BY <2>5, <2>6, PipeFacts DEF NodeInv, NodePipes
  <2>8. nStdin' \in Seq(Node!Requests)
    BY <2>1, <2>6, <1>0, PipeFacts DEF Node!ServerTypeOK
  <2>9. NodePipes' /\ Node!ServerTypeOK'
    <3>1. NodeLines' = NodeLines
      BY <2>6 DEF NodeLines, Node!Answers, Node!Others, Node!Requests
    <3>2. NodePipes'
      BY <2>5, <2>6, <2>7, <3>1 DEF NodeInv, NodePipes
    <3>3. QED
      BY <1>0, <2>6, <2>8, <3>2
      DEF Node!ServerTypeOK, Node!Answers, Node!Others, Node!Requests
  <2>10. NodeInv'
    BY <1>0, <2>1, <2>2, <2>3, <2>4, <2>6, <2>9 DEF NodeInv, Node!TypeOK, Node!Requests
  <2>11. NodeStatus[nNextId] = "idle"
    BY <1>0, <2>1 DEF NodeStatus, Node!Requests
  <2>12. NodeStatus' = [NodeStatus EXCEPT ![nNextId] = "waiting"]
    BY <2>1, <2>2 DEF NodeStatus, Node!Requests
  <2>13. CASE program' = "running"
    <3>1. PICK r \in Node!Requests : r = nNextId
      BY <2>1
    <3>2. Node!R!Ask(r)
      BY <2>1, <2>6, <2>11, <2>12, <2>13, <3>1 DEF Node!R!Ask, NodeStatus
    <3>3. QED
      BY <2>10, <3>2 DEF Node!R!Next
  <2>14. CASE program' = "crashed"
    <3>1. {nNextId} \in SUBSET {r \in Node!Requests : NodeStatus[r] = "idle"}
      BY <2>1, <2>11
    <3>2. NodeStatus' = [r \in Node!Requests |->
                           IF r \in {nNextId} THEN "waiting" ELSE NodeStatus[r]]
      BY <2>12 DEF NodeStatus
    <3>3. Node!R!Stop
      BY <2>6, <2>14, <3>1, <3>2 DEF Node!R!Stop, NodeStatus
    <3>4. QED
      BY <2>10, <3>3 DEF Node!R!Next
  <2>15. QED
    BY <2>6, <2>13, <2>14
<1>3. CASE Node!RequestWhenClosed
  <2>1. /\ nNextId \in Node!Requests /\ nNextId' = nNextId + 1 /\ program = "running"
        /\ nOutcome' = [nOutcome EXCEPT ![nNextId] = Node!Reason]
        /\ UNCHANGED <<nServer, nStdin, nStdout, nLines, nRead, nAnswered, nWritten,
                      pending, timers,
                      nClosed, nCloseError, nNoticed, program>>
    BY <1>3 DEF Node!RequestWhenClosed, Node!serverVars
  <2>2. Node!Reason \in {"exited", "spawn failed", "closed"}
    BY <1>0 DEF Node!Reason, Node!TypeOK
  <2>3. /\ nOutcome' \in [Node!Requests -> {"idle", "waiting"} \cup Node!Settled]
        /\ \A q \in Node!Requests :
             nOutcome'[q] = IF q = nNextId THEN Node!Reason ELSE nOutcome[q]
    BY <1>0, <2>1, <2>2 DEF Node!Settled
  <2>4. /\ nNextId' \in 1 .. (NodeRequests + 1)
        /\ \A q \in Node!Requests : nOutcome'[q] = "idle" <=> q >= nNextId'
    <3>1. Node!Reason # "idle"
      BY <2>2
    <3>2. QED
      BY <1>0, <2>1, <2>3, <3>1 DEF Node!Requests
  <2>5. nOutcome[nNextId] = "idle"
    BY <1>0, <2>1 DEF Node!Requests
  <2>6. Node!WaitersAreTimed'
    BY <2>1, <2>2, <2>3, <2>5 DEF NodeInv, Node!WaitersAreTimed, Node!Requests
  <2>7. NodePipes' /\ Node!ServerTypeOK'
    <3>1. NodeAsked \subseteq NodeAsked' /\ NodeLines' = NodeLines
      BY <2>1 DEF NodeAsked, NodeLines, Node!Answers, Node!Others, Node!Requests
    <3>2. NodePipes'
      BY <2>1, <3>1, PipeFacts DEF NodeInv, NodePipes
    <3>3. QED
      BY <1>0, <2>1, <3>2 DEF Node!ServerTypeOK, Node!Answers, Node!Others, Node!Requests
  <2>8. NodeInv'
    BY <1>0, <2>1, <2>3, <2>4, <2>6, <2>7 DEF NodeInv, Node!TypeOK, Node!Requests
  <2>9. /\ NodeStatus[nNextId] = "idle"
        /\ NodeStatus' = [NodeStatus EXCEPT ![nNextId] = "failed"]
    BY <2>1, <2>2, <2>3, <2>5 DEF NodeStatus, Node!Requests
  <2>10. PICK r \in Node!Requests : r = nNextId
    BY <2>1
  <2>11. Node!R!Ask(r)
    BY <2>1, <2>9, <2>10 DEF Node!R!Ask, NodeStatus
  <2>12. QED
    BY <2>8, <2>11 DEF Node!R!Next
<1>4. CASE Node!HandleLine
  <2> DEFINE line == Head(nStdout)
  <2>1. /\ program = "running" /\ nStdout # <<>> /\ nStdout' = Tail(nStdout)
        /\ UNCHANGED <<nServer, nStdin, nLines, nRead, nAnswered, nWritten, nNextId, nClosed,
                      nCloseError, nNoticed>>
    BY <1>4 DEF Node!HandleLine
  <2>2. NodePipes' /\ Node!ServerTypeOK'
    BY <2>1, NodeUntouched
  <2>3. CASE UNCHANGED <<nOutcome, pending, timers, program>>
    <3>1. NodeInv'
      BY <1>0, <2>1, <2>2, <2>3 DEF NodeInv, Node!TypeOK, Node!WaitersAreTimed, Node!Requests
    <3>2. UNCHANGED Node!R!vars
      BY <2>1, <2>3 DEF Node!R!vars, Node!Requests
    <3>3. QED
      BY <3>1, <3>2
  <2>4. CASE UNCHANGED <<nOutcome, pending, timers>> /\ program' = "crashed"
    <3>1. NodeInv'
      BY <1>0, <2>1, <2>2, <2>4 DEF NodeInv, Node!TypeOK, Node!WaitersAreTimed, Node!Requests
    <3>2. NodeStatus' = [r \in Node!Requests |->
                           IF r \in {} THEN "waiting" ELSE NodeStatus[r]]
      BY <2>4 DEF NodeStatus, Node!Requests
    <3>3. {} \in SUBSET {r \in Node!Requests : NodeStatus[r] = "idle"}
      OBVIOUS
    <3>4. Node!R!Stop
      BY <2>1, <2>4, <3>2, <3>3 DEF Node!R!Stop, NodeStatus
    <3>5. QED
      BY <3>1, <3>4 DEF Node!R!Next
  <2>5. ASSUME NEW r \in Node!Waiters(line), NEW o \in {"resolved", "refused"},
               Node!Settle(r, o), program' = program
        PROVE  NodeInv' /\ [Node!R!Next]_(Node!R!vars)
    <3>1. r \in Node!Requests /\ nOutcome[r] = "waiting" /\ r = line.id
      BY <1>0, <2>5 DEF Node!Waiters
    <3>2. r \in nWritten
      BY <2>1, <3>1, LineRead DEF Node!Requests
    <3>3. o \in Node!Settled
      BY DEF Node!Settled
    <3>4. /\ nOutcome' \in [Node!Requests -> {"idle", "waiting"} \cup Node!Settled]
          /\ Node!WaitersAreTimed'
          /\ \A q \in Node!Requests : nOutcome'[q] = "idle" <=> q >= nNextId'
          /\ pending' \subseteq Node!Requests /\ timers' \subseteq Node!Requests
      BY <2>1, <2>5, <3>1, <3>3, SettleKeeps
    <3>5. NodeInv'
      BY <1>0, <2>1, <2>2, <2>5, <3>4 DEF NodeInv, Node!TypeOK, Node!Requests
    <3>6. /\ NodeStatus[r] = "waiting"
          /\ NodeStatus' = [NodeStatus EXCEPT ![r] = "replied"]
      BY <1>0, <2>5, <3>1 DEF NodeStatus, Node!Settle, Node!Requests
    <3>7. Node!R!Deliver(r)
      BY <2>1, <2>5, <3>2, <3>6 DEF Node!R!Deliver, NodeStatus
    <3>8. QED
      BY <3>1, <3>5, <3>7 DEF Node!R!Next
  <2>6. QED
    BY <1>4, <2>3, <2>4, <2>5 DEF Node!HandleLine
<1>5. ASSUME NEW r \in Node!Requests, Node!Timeout(r)
      PROVE  NodeInv' /\ [Node!R!Next]_(Node!R!vars)
  <2>1. /\ program = "running" /\ nOutcome[r] = "waiting" /\ Node!Settle(r, "timed out")
        /\ UNCHANGED <<nServer, nStdin, nStdout, nLines, nRead, nAnswered, nWritten, nNextId,
                      nClosed, nCloseError, nNoticed, program>>
    BY <1>0, <1>5 DEF Node!Timeout, Node!serverVars
  <2>2. NodePipes' /\ Node!ServerTypeOK'
    BY <2>1, NodeUntouched
  <2>3. /\ nOutcome' \in [Node!Requests -> {"idle", "waiting"} \cup Node!Settled]
        /\ Node!WaitersAreTimed'
        /\ \A q \in Node!Requests : nOutcome'[q] = "idle" <=> q >= nNextId'
        /\ pending' \subseteq Node!Requests /\ timers' \subseteq Node!Requests
    BY <2>1, SettleKeeps DEF Node!Settled
  <2>4. NodeInv'
    BY <1>0, <2>1, <2>2, <2>3 DEF NodeInv, Node!TypeOK, Node!Requests
  <2>5. /\ NodeStatus[r] = "waiting"
        /\ NodeStatus' = [q \in Node!Requests |->
                            IF q \in {r} THEN "failed" ELSE NodeStatus[q]]
    BY <1>0, <2>1 DEF NodeStatus, Node!Settle, Node!Requests
  <2>6. {r} \in SUBSET {q \in Node!Requests : NodeStatus[q] = "waiting"} /\ {r} # {}
    BY <2>5
  <2>7. Node!R!Fail
    BY <2>1, <2>5, <2>6 DEF Node!R!Fail, NodeStatus
  <2>8. QED
    BY <2>4, <2>7 DEF Node!R!Next
<1>6. ASSUME NEW err \in {"exited", "spawn failed"}, Node!OnClose(err), program = "running",
             nNoticed' = TRUE, UNCHANGED <<Node!serverVars, nNextId, program>>
      PROVE  NodeInv' /\ [Node!R!Next]_(Node!R!vars)
  <2>1. NodePipes' /\ Node!ServerTypeOK'
    BY <1>6, NodeUntouched DEF Node!serverVars
  <2>2. /\ nOutcome' \in [Node!Requests -> {"idle", "waiting"} \cup Node!Settled]
        /\ Node!WaitersAreTimed'
        /\ \A q \in Node!Requests : nOutcome'[q] = "idle" <=> q >= nNextId'
        /\ pending' \subseteq Node!Requests /\ timers' \subseteq Node!Requests
    BY <1>6, OnCloseKeeps
  <2>3. nClosed' = TRUE /\ nCloseError' = err
    BY <1>6 DEF Node!OnClose
  <2>4. NodeInv'
    BY <1>0, <1>6, <2>1, <2>2, <2>3 DEF NodeInv, Node!TypeOK, Node!Requests
  <2>5. NodeStatus' = [q \in Node!Requests |->
                         IF q \in pending THEN "failed" ELSE NodeStatus[q]]
    BY <1>0, <1>6 DEF NodeStatus, Node!OnClose, Node!Requests
  <2>6. pending \in SUBSET {q \in Node!Requests : NodeStatus[q] = "waiting"}
    BY <1>0 DEF NodeStatus
  <2>7. UNCHANGED <<nWritten, program>>
    BY <1>6 DEF Node!serverVars
  <2>8. CASE pending # {}
    <3>1. Node!R!Fail
      BY <1>6, <2>5, <2>6, <2>7, <2>8 DEF Node!R!Fail, NodeStatus
    <3>2. QED
      BY <2>4, <3>1 DEF Node!R!Next
  <2>9. CASE pending = {}
    <3>1. NodeStatus' = NodeStatus
      BY <2>5, <2>9 DEF NodeStatus
    <3>2. UNCHANGED Node!R!vars
      BY <2>7, <3>1 DEF Node!R!vars, NodeStatus
    <3>3. QED
      BY <2>4, <3>2
  <2>10. QED
    BY <2>8, <2>9
<1>7. ASSUME UNCHANGED <<Node!serverVars, nNextId, nOutcome, pending, timers, nCloseError,
                         program>>,
             nClosed' \in BOOLEAN, nNoticed' \in BOOLEAN
      PROVE  NodeInv' /\ [Node!R!Next]_(Node!R!vars)
  <2>1. NodePipes' /\ Node!ServerTypeOK'
    BY <1>7, NodeUntouched DEF Node!serverVars
  <2>2. NodeInv'
    BY <1>0, <1>7, <2>1 DEF NodeInv, Node!TypeOK, Node!WaitersAreTimed, Node!Requests
  <2>3. UNCHANGED Node!R!vars
    BY <1>7 DEF Node!R!vars, Node!serverVars, Node!Requests
  <2>4. QED
    BY <2>2, <2>3
<1>8. CASE Node!OnExit
  <2>1. CASE ~nClosed /\ Node!OnClose("exited")
    BY <1>6, <1>8, <2>1 DEF Node!OnExit
  <2>2. CASE UNCHANGED <<nOutcome, pending, timers, nClosed, nCloseError>>
    BY <1>0, <1>7, <1>8, <2>2 DEF Node!OnExit, Node!TypeOK
  <2>3. QED
    BY <1>8, <2>1, <2>2 DEF Node!OnExit
<1>9. CASE Node!OnError
  BY <1>6, <1>9 DEF Node!OnError
<1>10. CASE Node!Close
  BY <1>0, <1>7, <1>10 DEF Node!Close, Node!TypeOK
<1>11. CASE UNCHANGED Node!vars
  BY <1>0, <1>7, <1>11 DEF Node!vars, Node!clientVars, Node!TypeOK
<1>12. QED
  BY <1>1, <1>2, <1>3, <1>4, <1>5, <1>8, <1>9, <1>10, <1>11 DEF Node!Next, Node!ClientNext

\* The Node client is a request/reply connection, for any number of requests and
\* whatever its server writes, requests of its own under the same ids included: a
\* request settles once, by a line that carries its id; whoever waits has a timer
\* (McpStdioClient, mcp-client.ts).
THEOREM NodeClientReplies == Spec => ClientReplies
<1>1. Node!Init => Node!R!Init
  BY DEF Node!Init, Node!ServerInit, Node!R!Init
<1>2. NodeInv => Node!TypeOK /\ Node!WaitersAreTimed
  BY DEF NodeInv
<1>3. Node!Init /\ [][Node!Next]_(Node!vars) => ClientReplies
  BY <1>1, <1>2, NodeInitInv, NodeStep, PTL
  DEF ClientReplies, Node!RequestReplied, Node!R!Spec
<1>4. QED
  BY <1>3, PartsAlone, PTL

-----------------------------------------------------------------------------
(***************************************************************************)
(* The Python client.  Its invariant is that of the Node client, with the  *)
(* lines the reader has stored, and two facts about the reader: what it  *)
(* has not read yet is still in the pipe, unless it failed, and nobody is  *)
(* told that the server exited before it has stopped.                      *)
(***************************************************************************)
PythonAsked == {r \in Python!Requests : r < nextId}
PythonLines == {line \in Python!Answers \cup Python!Others : line.id \in written \cup {0}}

PythonPipes ==
  /\ stdin \in Seq(PythonAsked)
  /\ read \subseteq PythonAsked
  /\ stdout \in Seq(PythonLines)

StoredWereWritten == \A r \in Python!Requests : responses[r] # "none" => r \in written

InPipe(r) == \E i \in 1 .. Len(stdout) : stdout[i].id = r

NoneOverlooked ==
  \A r \in Python!Requests :
    reader # "failed" /\ outcome[r] \in {"checked", "waiting"} /\ r \in answered
      => responses[r] # "none" \/ InPipe(r)

ReaderTells ==
  /\ reader = "ended" => server = "exited" /\ stdout = <<>>
  /\ reader = "reading" =>
       closeError = "none" /\ \A r \in Python!Requests : outcome[r] # "exited"

PythonInv ==
  /\ Python!TypeOK
  /\ \A r \in Python!Requests : outcome[r] = "idle" <=> r >= nextId
  /\ PythonPipes
  /\ StoredWereWritten
  /\ NoneOverlooked
  /\ ReaderTells
  /\ Python!ExitedMeansUnanswered

LEMMA PythonPipesTyped ==
  ASSUME PythonPipes
  PROVE  /\ stdin \in Seq(Python!Requests)
         /\ stdout \in Seq(Python!Answers \cup Python!Others)
         /\ read \subseteq Python!Requests
<1>1. /\ PythonAsked \subseteq Python!Requests
      /\ PythonLines \subseteq Python!Answers \cup Python!Others
  BY DEF PythonAsked, PythonLines
<1>2. QED
  BY <1>1, PipeFacts DEF PythonPipes

LEMMA PythonServerPipes ==
  ASSUME PythonInv, Python!ServerNext, UNCHANGED Python!clientVars
  PROVE  PythonPipes' /\ Python!ServerTypeOK'
<1>1. PythonAsked' = PythonAsked
  BY DEF Python!clientVars, PythonAsked, Python!Requests
<1>2. written \subseteq written' => PythonLines \subseteq PythonLines'
  BY DEF PythonLines, Python!Answers, Python!Others, Python!Requests
<1>3. PythonPipes' /\ Python!ServerTypeOK'
  <2>1. CASE Python!ServerReads
    <3>1. Head(stdin) \in PythonAsked /\ Tail(stdin) \in Seq(PythonAsked)
      BY <2>1, PipeFacts DEF Python!ServerReads, PythonInv, PythonPipes
    <3>2. PythonLines' = PythonLines
      BY <2>1
      DEF Python!ServerReads, PythonLines, Python!Answers, Python!Others, Python!Requests
    <3>3. PythonPipes'
      BY <1>1, <2>1, <3>1, <3>2 DEF Python!ServerReads, PythonInv, PythonPipes
    <3>4. stdin' \in Seq(Python!Requests) /\ Head(stdin) \in Python!Requests
      BY <2>1, PipeFacts DEF Python!ServerReads, PythonInv, Python!TypeOK, Python!ServerTypeOK
    <3>5. QED
      BY <2>1, <3>3, <3>4
      DEF Python!ServerReads, PythonInv, Python!TypeOK, Python!ServerTypeOK, Python!Answers,
          Python!Others, Python!Requests
  <2>2. ASSUME NEW line \in Python!Answers \cup Python!Others, Python!Puts(line),
               answered' \subseteq read
        PROVE  PythonPipes' /\ Python!ServerTypeOK'
    <3>0. written' = written \cup ({line.id} \ {0}) /\ line.id \in Python!Requests \cup {0}
      BY <2>2 DEF Python!Puts, Python!Answers, Python!Others
    <3>1. line \in PythonLines' /\ PythonLines \subseteq PythonLines'
      BY <1>2, <2>2, <3>0 DEF PythonLines, Python!Answers, Python!Others, Python!Requests
    <3>2. stdout \in Seq(PythonLines')
      BY <3>1, PipeFacts DEF PythonInv, PythonPipes
    <3>3. stdout' \in Seq(PythonLines')
      BY <2>2, <3>1, <3>2, PipeFacts DEF Python!Puts
    <3>4. PythonPipes'
      BY <1>1, <2>2, <3>3 DEF Python!Puts, PythonInv, PythonPipes
    <3>5. /\ stdin' \in Seq(Python!Requests)
          /\ stdout' \in Seq(Python!Answers \cup Python!Others)
          /\ read' \subseteq Python!Requests
      <4>1. PythonLines' \subseteq Python!Answers \cup Python!Others
        BY DEF PythonLines, Python!Answers, Python!Others, Python!Requests
      <4>2. QED
        BY <2>2, <3>3, <4>1, PipeFacts, PythonPipesTyped DEF PythonInv, Python!Puts
    <3>6. lines' \in 0 .. Lines /\ server' \in {"running", "failed", "exited"}
      <4>1. /\ lines' = lines + 1 /\ lines < Lines /\ server' = server
            /\ server = "running"
        BY <2>2 DEF Python!Puts
      <4>2. lines \in 0 .. Lines /\ Lines \in Nat
        BY StdioAssumptions
        DEF PythonInv, Python!TypeOK, Python!ServerTypeOK, StdioAssumptions, Python!StdioAssumption
      <4>3. QED
        BY <4>1, <4>2
    <3>7. answered' \subseteq read' /\ written' \subseteq Python!Requests
      BY <2>2, <3>0 DEF Python!Puts, PythonInv, Python!TypeOK, Python!ServerTypeOK
    <3>8. QED
      BY <3>4, <3>5, <3>6, <3>7
      DEF Python!ServerTypeOK, Python!Answers, Python!Others, Python!Requests
  <2>3. ASSUME NEW r \in Python!Requests, Python!ServerAnswers(r)
        PROVE  PythonPipes' /\ Python!ServerTypeOK'
    <3>1. PICK kind \in {"result", "error"} : Python!Puts([kind |-> kind, id |-> r])
      BY <2>3 DEF Python!ServerAnswers
    <3> DEFINE line == [kind |-> kind, id |-> r]
    <3>2. line \in Python!Answers /\ line.id = r /\ r # 0
      BY <2>3 DEF Python!Answers, Python!Requests
    <3>3. answered' \subseteq read
      BY <2>3 DEF Python!ServerAnswers, PythonInv, Python!TypeOK, Python!ServerTypeOK
    <3> HIDE DEF line
    <3>4. Python!Puts(line)
      BY <3>1 DEF line
    <3>5. QED
      BY <2>2, <3>2, <3>3, <3>4
  <2>4. CASE Python!ServerWritesOther
    <3>1. PICK line \in Python!Others : Python!Puts(line)
      BY <2>4 DEF Python!ServerWritesOther
    <3>2. answered' \subseteq read
      BY <2>4 DEF Python!ServerWritesOther, PythonInv, Python!TypeOK, Python!ServerTypeOK
    <3>3. QED
      BY <2>2, <3>1, <3>2
  <2>5. CASE Python!ServerExits
    <3>1. PythonLines' = PythonLines
      BY <2>5
      DEF Python!ServerExits, PythonLines, Python!Answers, Python!Others, Python!Requests
    <3>2. PythonPipes'
      BY <1>1, <2>5, <3>1, PipeFacts DEF Python!ServerExits, PythonInv, PythonPipes
    <3>3. stdin' \in Seq(Python!Requests)
      BY <2>5, PipeFacts DEF Python!ServerExits
    <3>4. QED
      BY <2>5, <3>2, <3>3, PythonPipesTyped
      DEF Python!ServerExits, PythonInv, Python!TypeOK, Python!ServerTypeOK, Python!Answers,
          Python!Others, Python!Requests
  <2>6. QED
    BY <2>1, <2>3, <2>4, <2>5 DEF Python!ServerNext
<1>4. QED
  BY <1>3

\* The caller who draws an id, and the reader who takes a line.
LEMMA PythonUntouched ==
  ASSUME PythonInv, UNCHANGED <<server, stdin, lines, read, answered, written>>,
         nextId' = nextId \/ nextId' = nextId + 1,
         stdout' = stdout \/ (stdout # <<>> /\ stdout' = Tail(stdout))
  PROVE  PythonPipes' /\ Python!ServerTypeOK'
<1>1. /\ PythonLines' = PythonLines
      /\ PythonAsked \subseteq PythonAsked'
  <2>1. nextId \in Nat /\ \A r \in Python!Requests : r \in Nat
    BY StdioAssumptions
    DEF PythonInv, Python!TypeOK, Python!Requests, StdioAssumptions, Python!StdioAssumption
  <2>2. QED
    BY <2>1 DEF PythonAsked, PythonLines, Python!Answers, Python!Others, Python!Requests
<1>2. stdout' \in Seq(PythonLines)
  BY PipeFacts DEF PythonInv, PythonPipes
<1>3. stdout' \in Seq(Python!Answers \cup Python!Others)
  BY PipeFacts DEF PythonInv, Python!TypeOK, Python!ServerTypeOK
<1>4. stdin \in Seq(PythonAsked')
  BY <1>1, PipeFacts DEF PythonInv, PythonPipes
<1>5. PythonPipes'
  BY <1>1, <1>2, <1>4 DEF PythonInv, PythonPipes
<1>6. QED
  BY <1>3, <1>5
  DEF PythonInv, Python!TypeOK, Python!ServerTypeOK, Python!Answers, Python!Others,
      Python!Requests

LEMMA PythonInitInv == Python!Init => PythonInv
<1> SUFFICES ASSUME Python!Init
             PROVE  PythonInv
  OBVIOUS
<1>1. Python!ServerTypeOK /\ PythonPipes
  <2>1. \A S : <<>> \in Seq(S)
    BY PipeFacts
  <2>2. Lines \in Nat
    BY StdioAssumptions DEF StdioAssumptions, Python!StdioAssumption
  <2>3. QED
    BY <2>1, <2>2 DEF Python!Init, Python!ServerInit, Python!ServerTypeOK, PythonPipes
<1>2. nextId \in 1 .. (PythonRequests + 1) /\ \A r \in Python!Requests : r >= nextId
  BY StdioAssumptions
  DEF Python!Init, StdioAssumptions, Python!StdioAssumption, Python!Requests
<1>3. /\ outcome \in [Python!Requests -> {"idle", "checked", "waiting"} \cup Python!Settled]
      /\ responses \in [Python!Requests -> {"none", "result", "error", "request"}]
  BY DEF Python!Init
<1>4. Python!TypeOK
  BY <1>1, <1>2, <1>3 DEF Python!Init, Python!TypeOK
<1>5. \A r \in Python!Requests :
        outcome[r] = "idle" /\ responses[r] = "none" /\ r \notin answered
  BY DEF Python!Init, Python!ServerInit
<1>6. StoredWereWritten /\ NoneOverlooked /\ Python!ExitedMeansUnanswered
  BY <1>5 DEF StoredWereWritten, NoneOverlooked, Python!ExitedMeansUnanswered
<1>7. ReaderTells
  BY <1>5 DEF Python!Init, ReaderTells
<1>8. QED
  BY <1>1, <1>2, <1>4, <1>5, <1>6, <1>7 DEF PythonInv

PythonStatus == [r \in Python!Requests |->
                   IF outcome[r] \in {"idle", "waiting"} THEN outcome[r]
                   ELSE IF outcome[r] = "checked" THEN "waiting"
                   ELSE IF outcome[r] \in {"resolved", "refused"} THEN "replied"
                   ELSE "failed"]

Kept == \A r \in Python!Requests :
          (outcome[r] = "waiting" /\ responses[r] # "none")
            => (responses'[r] # "none" \/ outcome'[r] \in {"resolved", "refused"})

\* The server's steps.
LEMMA PythonServerStep ==
  ASSUME PythonInv, Python!ServerNext, UNCHANGED Python!clientVars
  PROVE  PythonInv' /\ [Python!R!Next]_(Python!R!vars) /\ Kept
<1>1. PythonPipes' /\ Python!ServerTypeOK'
  BY PythonServerPipes
<1>2. UNCHANGED <<nextId, outcome, responses, closed, closeError, reader>>
  BY DEF Python!clientVars
<1>3. server = "running" /\ reader # "ended"
  BY DEF Python!ServerNext, Python!ServerReads, Python!ServerAnswers, Python!Puts,
         Python!ServerWritesOther, Python!ServerExits, PythonInv, ReaderTells
<1>4. Python!TypeOK' /\ Kept
  BY <1>1, <1>2 DEF PythonInv, Python!TypeOK, Kept, Python!Requests
<1>5. /\ \A r \in Python!Requests : outcome'[r] = "idle" <=> r >= nextId'
      /\ ReaderTells' /\ Python!ExitedMeansUnanswered'
  BY <1>2, <1>3 DEF PythonInv, ReaderTells, Python!ExitedMeansUnanswered, Python!Requests
<1>6. UNCHANGED PythonStatus
  BY <1>2 DEF PythonStatus, Python!Requests
<1>7. CASE UNCHANGED <<stdout, answered, written>>
  <2>1. StoredWereWritten' /\ NoneOverlooked'
    BY <1>2, <1>7 DEF PythonInv, StoredWereWritten, NoneOverlooked, InPipe, Python!Requests
  <2>2. UNCHANGED Python!R!vars
    BY <1>6, <1>7 DEF Python!R!vars, PythonStatus
  <2>3. QED
    BY <1>1, <1>4, <1>5, <2>1, <2>2 DEF PythonInv
<1>8. ASSUME NEW line \in Python!Answers \cup Python!Others, Python!Puts(line),
             answered' \subseteq answered \cup {line.id}
      PROVE  /\ StoredWereWritten' /\ NoneOverlooked'
             /\ [Python!R!Next]_(Python!R!vars)
  <2>0. written' = written \cup ({line.id} \ {0}) /\ line.id \in Python!Requests \cup {0}
    BY <1>8 DEF Python!Puts, Python!Answers, Python!Others
  <2>1. /\ Len(stdout') = Len(stdout) + 1 /\ Len(stdout) \in Nat
        /\ \A i \in 1 .. Len(stdout) : stdout'[i] = stdout[i]
        /\ stdout'[Len(stdout) + 1] = line
    <3>1. stdout' = Append(stdout, line)
      BY <1>8 DEF Python!Puts
    <3>2. stdout \in Seq(Python!Answers \cup Python!Others)
      BY DEF PythonInv, Python!TypeOK, Python!ServerTypeOK
    <3>3. QED
      BY <3>1, <3>2
  <2>2. \A r \in Python!Requests : InPipe(r) \/ r = line.id => InPipe(r)'
    BY <2>1 DEF InPipe
  <2>3. StoredWereWritten'
    BY <1>2, <2>0 DEF PythonInv, StoredWereWritten, Python!Requests
  <2>4. NoneOverlooked'
    BY <1>2, <1>8, <2>2 DEF PythonInv, NoneOverlooked, Python!Requests
  <2>5. CASE line.id = 0
    <3>1. UNCHANGED Python!R!vars
      BY <1>6, <2>0, <2>5 DEF Python!R!vars, PythonStatus
    <3>2. QED
      BY <2>3, <2>4, <3>1
  <2>6. CASE line.id # 0
    <3>1. line.id \in Python!Requests /\ written' = written \cup {line.id}
      BY <2>0, <2>6
    <3>2. Python!R!Reply(line.id)
      BY <1>6, <3>1 DEF Python!R!Reply, PythonStatus
    <3>3. QED
      BY <2>3, <2>4, <3>1, <3>2 DEF Python!R!Next
  <2>7. QED
    BY <2>5, <2>6
<1>9. ASSUME NEW r \in Python!Requests, Python!ServerAnswers(r)
      PROVE  PythonInv' /\ [Python!R!Next]_(Python!R!vars) /\ Kept
  <2>1. PICK kind \in {"result", "error"} : Python!Puts([kind |-> kind, id |-> r])
    BY <1>9 DEF Python!ServerAnswers
  <2> DEFINE line == [kind |-> kind, id |-> r]
  <2>2. line \in Python!Answers /\ line.id = r /\ r # 0
    BY <1>9 DEF Python!Answers, Python!Requests
  <2>3. answered' = answered \cup {r}
    BY <1>9 DEF Python!ServerAnswers
  <2>4. Python!Puts(line) /\ answered' \subseteq answered \cup {line.id}
    BY <2>1, <2>2, <2>3
  <2> HIDE DEF line
  <2>5. StoredWereWritten' /\ NoneOverlooked' /\ [Python!R!Next]_(Python!R!vars)
    BY <1>8, <2>2, <2>4
  <2>6. QED
    BY <1>1, <1>4, <1>5, <2>5 DEF PythonInv
<1>10. CASE Python!ServerWritesOther
  <2>1. PICK line \in Python!Others : Python!Puts(line)
    BY <1>10 DEF Python!ServerWritesOther
  <2>2. answered' \subseteq answered \cup {line.id}
    BY <1>10 DEF Python!ServerWritesOther
  <2>3. StoredWereWritten' /\ NoneOverlooked' /\ [Python!R!Next]_(Python!R!vars)
    BY <1>8, <2>1, <2>2
  <2>4. QED
    BY <1>1, <1>4, <1>5, <2>3 DEF PythonInv
<1>11. QED
  BY <1>7, <1>9, <1>10
  DEF Python!ServerNext, Python!ServerReads, Python!ServerExits

LEMMA PythonFacts ==
  ASSUME PythonInv
  PROVE  /\ nextId \in 1 .. (PythonRequests + 1) /\ PythonRequests \in Nat
         /\ outcome \in [Python!Requests -> {"idle", "checked", "waiting"} \cup Python!Settled]
         /\ responses \in [Python!Requests -> {"none", "result", "error", "request"}]
         /\ closeError \in {"none", "exited"} /\ closed \in BOOLEAN
         /\ \A r \in Python!Requests : outcome[r] = "idle" <=> r >= nextId
         /\ \A r \in Python!Requests : r >= nextId => r \notin answered
         /\ \A r \in Python!Requests : r \in Nat
<1>1. /\ nextId \in 1 .. (PythonRequests + 1) /\ PythonRequests \in Nat
      /\ answered \subseteq read /\ read \subseteq PythonAsked
  BY StdioAssumptions
  DEF PythonInv, PythonPipes, Python!TypeOK, Python!ServerTypeOK, StdioAssumptions,
      Python!StdioAssumption
<1>2. \A r \in Python!Requests : r >= nextId => r \notin answered
  BY <1>1 DEF PythonAsked, Python!Requests
<1>3. \A r \in Python!Requests : r \in Nat
  BY DEF Python!Requests
<1>4. QED
  BY <1>1, <1>2, <1>3 DEF PythonInv, Python!TypeOK

\* A request is asked, or settles, or stays as it is: what the caller does to one
\* request, by itself.
LEMMA OneOutcome ==
  ASSUME PythonInv, NEW r \in Python!Requests, NEW o, outcome' = [outcome EXCEPT ![r] = o]
  PROVE  /\ \A q \in Python!Requests : outcome'[q] = IF q = r THEN o ELSE outcome[q]
         /\ o \in {"idle", "checked", "waiting"} \cup Python!Settled =>
              outcome' \in [Python!Requests ->
                              {"idle", "checked", "waiting"} \cup Python!Settled]
         /\ o \in {"checked", "waiting"} =>
              PythonStatus' = [PythonStatus EXCEPT ![r] = "waiting"]
         /\ o \in {"resolved", "refused"} =>
              PythonStatus' = [PythonStatus EXCEPT ![r] = "replied"]
         /\ o \in {"timed out", "exited", "broken pipe", "closed"} =>
              PythonStatus' = [PythonStatus EXCEPT ![r] = "failed"]
<1>1. outcome \in [Python!Requests -> {"idle", "checked", "waiting"} \cup Python!Settled]
  BY PythonFacts
<1>2. \A q \in Python!Requests : outcome'[q] = IF q = r THEN o ELSE outcome[q]
  BY <1>1
<1>3. o \in {"idle", "checked", "waiting"} \cup Python!Settled =>
        outcome' \in [Python!Requests -> {"idle", "checked", "waiting"} \cup Python!Settled]
  BY <1>1
<1>4. o \in {"checked", "waiting"} => PythonStatus' = [PythonStatus EXCEPT ![r] = "waiting"]
  BY <1>2 DEF PythonStatus, Python!Requests
<1>5. o \in {"resolved", "refused"} => PythonStatus' = [PythonStatus EXCEPT ![r] = "replied"]
  BY <1>2 DEF PythonStatus, Python!Requests
<1>6. o \in {"timed out", "exited", "broken pipe", "closed"} =>
        PythonStatus' = [PythonStatus EXCEPT ![r] = "failed"]
  BY <1>2 DEF PythonStatus, Python!Requests
<1>7. QED
  BY <1>2, <1>3, <1>4, <1>5, <1>6

\* The failure of one request is a step of a request/reply connection.
LEMMA PythonFails ==
  ASSUME NEW r \in Python!Requests, PythonStatus[r] = "waiting",
         PythonStatus' = [PythonStatus EXCEPT ![r] = "failed"], written' = written
  PROVE  Python!R!Next
<1>1. PythonStatus' = [q \in Python!Requests |->
                         IF q \in {r} THEN "failed" ELSE PythonStatus[q]]
  BY DEF PythonStatus
<1>2. {r} \in SUBSET {q \in Python!Requests : PythonStatus[q] = "waiting"} /\ {r} # {}
  OBVIOUS
<1>3. Python!R!Fail
  BY <1>1, <1>2 DEF Python!R!Fail, PythonStatus
<1>4. QED
  BY <1>3 DEF Python!R!Next

LEMMA PythonCallStep ==
  ASSUME PythonInv, Python!Call
  PROVE  PythonInv' /\ [Python!R!Next]_(Python!R!vars) /\ Kept
<1>1. /\ nextId \in Python!Requests /\ nextId' = nextId + 1
      /\ UNCHANGED <<server, stdin, stdout, lines, read, answered, written, responses, closed,
                    closeError, reader>>
  BY DEF Python!Call, Python!serverVars
<1> DEFINE o == IF closed THEN Python!Reason ELSE "checked"
<1>2. outcome' = [outcome EXCEPT ![nextId] = o]
  BY DEF Python!Call
<1>3. /\ o \in {"checked", "exited", "closed"} /\ o \in Python!Settled \cup {"checked"}
      /\ o = "exited" => reader # "reading"
  BY PythonFacts DEF Python!Reason, Python!Settled, PythonInv, ReaderTells
<1> HIDE DEF o
<1>4. /\ \A q \in Python!Requests : outcome'[q] = IF q = nextId THEN o ELSE outcome[q]
      /\ outcome' \in [Python!Requests -> {"idle", "checked", "waiting"} \cup Python!Settled]
  BY <1>1, <1>2, <1>3, OneOutcome
<1>5. PythonPipes' /\ Python!ServerTypeOK'
  BY <1>1, PythonUntouched
<1>6. nextId' \in 1 .. (PythonRequests + 1)
  BY <1>1, PythonFacts DEF Python!Requests
<1>7. Python!TypeOK'
  BY <1>1, <1>4, <1>5, <1>6 DEF PythonInv, Python!TypeOK, Python!Requests
<1>8. \A q \in Python!Requests : outcome'[q] = "idle" <=> q >= nextId'
  <2>1. o # "idle"
    BY <1>3
  <2>2. QED
    BY <1>1, <1>4, <2>1, PythonFacts
<1>9. nextId \notin answered /\ outcome[nextId] = "idle"
  BY <1>1, PythonFacts
<1>10. StoredWereWritten' /\ NoneOverlooked' /\ ReaderTells' /\ Python!ExitedMeansUnanswered'
  <2>1. StoredWereWritten'
    BY <1>1 DEF PythonInv, StoredWereWritten, Python!Requests
  <2>2. NoneOverlooked'
    BY <1>1, <1>4, <1>9 DEF PythonInv, NoneOverlooked, InPipe, Python!Requests
  <2>3. ReaderTells'
    BY <1>1, <1>3, <1>4 DEF PythonInv, ReaderTells, Python!Requests
  <2>4. Python!ExitedMeansUnanswered'
    BY <1>1, <1>4, <1>9 DEF PythonInv, Python!ExitedMeansUnanswered, Python!Requests
  <2>5. QED
    BY <2>1, <2>2, <2>3, <2>4
<1>11. Kept
  BY <1>1 DEF Kept
<1>12. PICK r \in Python!Requests : r = nextId
  BY <1>1
<1>13. PythonStatus[r] = "idle"
  BY <1>9, <1>12 DEF PythonStatus
<1>14. \/ PythonStatus' = [PythonStatus EXCEPT ![r] = "waiting"]
       \/ PythonStatus' = [PythonStatus EXCEPT ![r] = "failed"]
  BY <1>2, <1>3, <1>12, OneOutcome
<1>15. Python!R!Ask(r)
  BY <1>1, <1>13, <1>14 DEF Python!R!Ask, PythonStatus
<1>16. QED
  BY <1>5, <1>7, <1>8, <1>10, <1>11, <1>15 DEF PythonInv, Python!R!Next

LEMMA PythonWriteStep ==
  ASSUME PythonInv, NEW r \in Python!Requests, Python!WriteRequest(r)
  PROVE  PythonInv' /\ [Python!R!Next]_(Python!R!vars) /\ Kept
<1> DEFINE o == IF server = "running" THEN "waiting" ELSE "broken pipe"
<1>1. /\ outcome[r] = "checked" /\ outcome' = [outcome EXCEPT ![r] = o]
      /\ stdin' = stdin \/ stdin' = Append(stdin, r)
      /\ UNCHANGED <<server, stdout, lines, read, answered, written, nextId, responses, closed,
                    closeError, reader>>
  BY DEF Python!WriteRequest
<1>2. o \in {"waiting", "broken pipe"} /\ o \in Python!Settled \cup {"waiting"}
  BY DEF Python!Settled
<1> HIDE DEF o
<1>3. /\ \A q \in Python!Requests : outcome'[q] = IF q = r THEN o ELSE outcome[q]
      /\ outcome' \in [Python!Requests -> {"idle", "checked", "waiting"} \cup Python!Settled]
  BY <1>1, <1>2, OneOutcome
<1>4. PythonPipes' /\ Python!ServerTypeOK'
  <2>1. r \in PythonAsked /\ PythonAsked' = PythonAsked /\ PythonLines' = PythonLines
    <3>1. nextId \in Nat /\ r \in Nat /\ ~(r >= nextId)
      BY <1>1, PythonFacts
    <3>2. QED
      BY <1>1, <3>1
      DEF PythonAsked, PythonLines, Python!Answers, Python!Others, Python!Requests
  <2>2. stdin' \in Seq(PythonAsked)
    BY <1>1, <2>1, PipeFacts DEF PythonInv, PythonPipes
  <2>3. stdin' \in Seq(Python!Requests)
    BY <1>1, PipeFacts DEF PythonInv, Python!TypeOK, Python!ServerTypeOK
  <2>4. PythonPipes'
    BY <1>1, <2>1, <2>2 DEF PythonInv, PythonPipes
  <2>5. QED
    BY <1>1, <2>3, <2>4
    DEF PythonInv, Python!TypeOK, Python!ServerTypeOK, Python!Answers, Python!Others,
        Python!Requests
<1>5. Python!TypeOK'
  BY <1>1, <1>3, <1>4 DEF PythonInv, Python!TypeOK, Python!Requests
<1>6. \A q \in Python!Requests : outcome'[q] = "idle" <=> q >= nextId'
  <2>1. o # "idle" /\ outcome[r] # "idle"
    BY <1>1, <1>2
  <2>2. QED
    BY <1>1, <1>3, <2>1, PythonFacts
<1>7. StoredWereWritten' /\ NoneOverlooked' /\ ReaderTells' /\ Python!ExitedMeansUnanswered'
  <2>1. StoredWereWritten'
    BY <1>1 DEF PythonInv, StoredWereWritten, Python!Requests
  <2>2. NoneOverlooked'
    BY <1>1, <1>3 DEF PythonInv, NoneOverlooked, InPipe, Python!Requests
  <2>3. ReaderTells'
    BY <1>1, <1>2, <1>3 DEF PythonInv, ReaderTells, Python!Requests
  <2>4. Python!ExitedMeansUnanswered'
    BY <1>1, <1>2, <1>3 DEF PythonInv, Python!ExitedMeansUnanswered, Python!Requests
  <2>5. QED
    BY <2>1, <2>2, <2>3, <2>4
<1>8. Kept
  BY <1>1 DEF Kept
<1>9. PythonStatus[r] = "waiting"
  BY <1>1 DEF PythonStatus
<1>10. [Python!R!Next]_(Python!R!vars)
  <2>1. CASE o = "waiting"
    <3>1. PythonStatus' = [PythonStatus EXCEPT ![r] = "waiting"]
      BY <1>1, <2>1, OneOutcome
    <3>2. PythonStatus' = PythonStatus
      BY <1>9, <3>1 DEF PythonStatus
    <3>3. QED
      BY <1>1, <3>2 DEF Python!R!vars, PythonStatus
  <2>2. CASE o = "broken pipe"
    <3>1. PythonStatus' = [PythonStatus EXCEPT ![r] = "failed"]
      BY <1>1, <2>2, OneOutcome
    <3>2. QED
      BY <1>1, <1>9, <3>1, PythonFails
  <2>3. QED
    BY <1>2, <2>1, <2>2
<1>11. QED
  BY <1>4, <1>5, <1>6, <1>7, <1>8, <1>10 DEF PythonInv

LEMMA PythonWakeStep ==
  ASSUME PythonInv, NEW r \in Python!Requests, Python!Wake(r)
  PROVE  PythonInv' /\ [Python!R!Next]_(Python!R!vars) /\ Kept
<1>1. /\ outcome[r] = "waiting"
      /\ UNCHANGED <<server, stdin, stdout, lines, read, answered, written, nextId, closed,
                    closeError, reader>>
  BY DEF Python!Wake, Python!serverVars
<1>2. PICK o \in {"resolved", "refused", "exited", "closed", "timed out"} :
        /\ outcome' = [outcome EXCEPT ![r] = o]
        /\ \/ /\ responses[r] # "none" /\ o \in {"resolved", "refused"}
              /\ responses' = [responses EXCEPT ![r] = "none"]
           \/ /\ responses[r] = "none" /\ o \in {"exited", "closed", "timed out"}
              /\ responses' = responses
              /\ o = "exited" => reader # "reading"
  BY PythonFacts
  DEF Python!Wake, Python!Awaken, Python!HasAnswer, Python!Take, Python!Reason, PythonInv,
      ReaderTells
<1>3. /\ \A q \in Python!Requests : outcome'[q] = IF q = r THEN o ELSE outcome[q]
      /\ outcome' \in [Python!Requests -> {"idle", "checked", "waiting"} \cup Python!Settled]
  <2>1. o \in {"idle", "checked", "waiting"} \cup Python!Settled
    BY DEF Python!Settled
  <2>2. QED
    BY <1>2, <2>1, OneOutcome
<1>4. PythonPipes' /\ Python!ServerTypeOK'
  BY <1>1, PythonUntouched
<1>5. /\ responses' \in [Python!Requests -> {"none", "result", "error", "request"}]
      /\ \A q \in Python!Requests : q # r => responses'[q] = responses[q]
      /\ \A q \in Python!Requests : responses'[q] # "none" => responses[q] # "none"
  BY <1>2, PythonFacts
<1>6. Python!TypeOK'
  BY <1>1, <1>3, <1>4, <1>5 DEF PythonInv, Python!TypeOK, Python!Requests
<1>7. \A q \in Python!Requests : outcome'[q] = "idle" <=> q >= nextId'
  <2>1. o # "idle" /\ outcome[r] # "idle"
    BY <1>1
  <2>2. QED
    BY <1>1, <1>3, <2>1, PythonFacts
<1>8. StoredWereWritten'
  BY <1>1, <1>5 DEF PythonInv, StoredWereWritten, Python!Requests
<1>9. NoneOverlooked'
  BY <1>1, <1>3, <1>5 DEF PythonInv, NoneOverlooked, InPipe, Python!Requests
<1>10. ReaderTells'
  BY <1>1, <1>2, <1>3 DEF PythonInv, ReaderTells, Python!Requests
<1>11. Python!ExitedMeansUnanswered'
  <2>1. ASSUME o = "exited", reader = "ended"
        PROVE  r \notin answered
    <3>1. responses[r] = "none" /\ ~InPipe(r)
      BY <1>2, <2>1 DEF PythonInv, ReaderTells, InPipe
    <3>2. QED
      BY <1>1, <2>1, <3>1 DEF PythonInv, NoneOverlooked
  <2>2. QED
    BY <1>1, <1>3, <2>1 DEF PythonInv, Python!ExitedMeansUnanswered, Python!Requests
<1>12. Kept
  BY <1>2, <1>3, <1>5 DEF Kept
<1>13. PythonStatus[r] = "waiting"
  BY <1>1 DEF PythonStatus
<1>14. CASE o \in {"resolved", "refused"}
  <2>1. r \in written
    BY <1>2, <1>14 DEF PythonInv, StoredWereWritten
  <2>2. PythonStatus' = [PythonStatus EXCEPT ![r] = "replied"]
    BY <1>2, <1>14, OneOutcome
  <2>3. Python!R!Deliver(r)
    BY <1>1, <1>13, <2>1, <2>2 DEF Python!R!Deliver, PythonStatus
  <2>4. QED
    BY <1>4, <1>6, <1>7, <1>8, <1>9, <1>10, <1>11, <1>12, <2>3 DEF PythonInv, Python!R!Next
<1>15. CASE o \in {"exited", "closed", "timed out"}
  <2>1. PythonStatus' = [PythonStatus EXCEPT ![r] = "failed"]
    BY <1>2, <1>15, OneOutcome
  <2>2. Python!R!Next
    BY <1>1, <1>13, <2>1, PythonFails
  <2>3. QED
    BY <1>4, <1>6, <1>7, <1>8, <1>9, <1>10, <1>11, <1>12, <2>2 DEF PythonInv
<1>16. QED
  BY <1>14, <1>15

\* A step that leaves the outcomes, and what was written, as they are.
LEMMA PythonQuiet ==
  ASSUME PythonInv, UNCHANGED <<outcome, written, nextId>>
  PROVE  /\ [Python!R!Next]_(Python!R!vars)
         /\ \A r \in Python!Requests : outcome'[r] = "idle" <=> r >= nextId'
<1>1. PythonStatus' = PythonStatus
  BY DEF PythonStatus, Python!Requests
<1>2. UNCHANGED Python!R!vars
  BY <1>1 DEF Python!R!vars, PythonStatus
<1>3. QED
  BY <1>2 DEF PythonInv, Python!Requests

LEMMA PythonReadStep ==
  ASSUME PythonInv, Python!ReadLine
  PROVE  PythonInv' /\ [Python!R!Next]_(Python!R!vars) /\ Kept
<1> DEFINE line == Head(stdout)
<1>1. /\ reader = "reading" /\ stdout # <<>> /\ stdout' = Tail(stdout)
      /\ UNCHANGED <<server, stdin, lines, read, answered, written, nextId, outcome>>
  BY DEF Python!ReadLine
<1>2. PythonPipes' /\ Python!ServerTypeOK'
  BY <1>1, PythonUntouched
<1>3. /\ line \in PythonLines /\ line = stdout[1]
      /\ \A i \in 1 .. Len(stdout) :
           i # 1 => i - 1 \in 1 .. Len(stdout') /\ stdout'[i - 1] = stdout[i]
  <2>1. stdout \in Seq(PythonLines)
    BY DEF PythonInv, PythonPipes
  <2>2. QED
    BY <1>1, <2>1
<1>4. \/ /\ line.id # 0 /\ Python!Store(line)
         /\ UNCHANGED <<closed, closeError, reader>>
      \/ /\ line.kind = "null" /\ UNCHANGED <<responses, closed, closeError, reader>>
      \/ Python!CloseByReader("failed") /\ UNCHANGED responses
  BY DEF Python!ReadLine
<1>5. line \in Python!Answers \cup Python!Others /\ line.id \in written \cup {0}
  BY <1>3 DEF PythonLines
<1> HIDE DEF line
<1>6. \A r \in Python!Requests : InPipe(r) => r = line.id \/ InPipe(r)'
  <2> SUFFICES ASSUME NEW r \in Python!Requests, InPipe(r), r # line.id
               PROVE  InPipe(r)'
    OBVIOUS
  <2>1. PICK i \in 1 .. Len(stdout) : stdout[i].id = r
    BY DEF InPipe
  <2>2. i # 1
    BY <1>3, <2>1
  <2>3. i - 1 \in 1 .. Len(stdout') /\ stdout'[i - 1].id = r
    BY <1>3, <2>1, <2>2
  <2>4. QED
    BY <2>3 DEF InPipe
<1>7. /\ [Python!R!Next]_(Python!R!vars)
      /\ \A r \in Python!Requests : outcome'[r] = "idle" <=> r >= nextId'
  BY <1>1, PythonQuiet
<1>8. CASE line.id # 0 /\ Python!Store(line) /\ UNCHANGED <<closed, closeError, reader>>
  <2>1. line.id \in Python!Requests \cap written /\ line.kind \in {"result", "error", "request"}
    BY <1>5, <1>8 DEF Python!Answers, Python!Others, Python!Requests
  <2>2. /\ responses' \in [Python!Requests -> {"none", "result", "error", "request"}]
        /\ \A r \in Python!Requests :
             responses'[r] = IF r = line.id THEN line.kind ELSE responses[r]
    BY <1>8, <2>1, PythonFacts DEF Python!Store
  <2>3. Python!TypeOK'
    BY <1>1, <1>2, <1>8, <2>2 DEF PythonInv, Python!TypeOK, Python!Requests
  <2>4. line.kind # "none"
    BY <2>1
  <2>5. StoredWereWritten' /\ Kept
    BY <1>1, <2>1, <2>2, <2>4 DEF PythonInv, StoredWereWritten, Kept, Python!Requests
  <2>6. NoneOverlooked'
    BY <1>1, <1>6, <1>8, <2>2, <2>4 DEF PythonInv, NoneOverlooked, Python!Requests
  <2>7. ReaderTells' /\ Python!ExitedMeansUnanswered'
    BY <1>1, <1>8 DEF PythonInv, ReaderTells, Python!ExitedMeansUnanswered, Python!Requests
  <2>8. QED
    BY <1>2, <1>7, <2>3, <2>5, <2>6, <2>7 DEF PythonInv
<1>9. CASE line.kind = "null" /\ UNCHANGED <<responses, closed, closeError, reader>>
  <2>1. line.id = 0
    BY <1>5, <1>9 DEF Python!Answers, Python!Others
  <2>2. \A r \in Python!Requests : InPipe(r) => InPipe(r)'
    BY <1>6, <2>1 DEF Python!Requests
  <2>3. Python!TypeOK' /\ StoredWereWritten' /\ Kept
    BY <1>1, <1>2, <1>9
    DEF PythonInv, Python!TypeOK, StoredWereWritten, Kept, Python!Requests
  <2>4. NoneOverlooked'
    BY <1>1, <1>9, <2>2 DEF PythonInv, NoneOverlooked, Python!Requests
  <2>5. ReaderTells' /\ Python!ExitedMeansUnanswered'
    BY <1>1, <1>9 DEF PythonInv, ReaderTells, Python!ExitedMeansUnanswered, Python!Requests
  <2>6. QED
    BY <1>2, <1>7, <2>3, <2>4, <2>5 DEF PythonInv
<1>10. CASE Python!CloseByReader("failed") /\ UNCHANGED responses
  <2>1. reader' = "failed" /\ closed' = TRUE /\ closeError' = "exited"
    BY <1>10 DEF Python!CloseByReader
  <2>2. Python!TypeOK' /\ StoredWereWritten' /\ Kept
    BY <1>1, <1>2, <1>10, <2>1
    DEF PythonInv, Python!TypeOK, StoredWereWritten, Kept, Python!Requests
  <2>3. NoneOverlooked' /\ ReaderTells' /\ Python!ExitedMeansUnanswered'
    BY <2>1 DEF NoneOverlooked, ReaderTells, Python!ExitedMeansUnanswered
  <2>4. QED
    BY <1>2, <1>7, <2>2, <2>3 DEF PythonInv
<1>11. QED
  BY <1>4, <1>8, <1>9, <1>10

LEMMA PythonEndStep ==
  ASSUME PythonInv, Python!ReadEnd
  PROVE  PythonInv' /\ [Python!R!Next]_(Python!R!vars) /\ Kept
<1>1. /\ reader = "reading" /\ server = "exited" /\ stdout = <<>>
      /\ reader' = "ended" /\ closed' = TRUE /\ closeError' = "exited"
      /\ UNCHANGED <<server, stdin, stdout, lines, read, answered, written, nextId, outcome,
                    responses>>
  BY DEF Python!ReadEnd, Python!CloseByReader, Python!serverVars
<1>2. PythonPipes' /\ Python!ServerTypeOK'
  BY <1>1, PythonUntouched
<1>3. Python!TypeOK' /\ StoredWereWritten' /\ Kept
  BY <1>1, <1>2 DEF PythonInv, Python!TypeOK, StoredWereWritten, Kept, Python!Requests
<1>4. NoneOverlooked'
  BY <1>1 DEF PythonInv, NoneOverlooked, InPipe, Python!Requests
<1>5. ReaderTells' /\ Python!ExitedMeansUnanswered'
  BY <1>1 DEF PythonInv, ReaderTells, Python!ExitedMeansUnanswered, Python!Requests
<1>6. QED
  BY <1>1, <1>2, <1>3, <1>4, <1>5, PythonQuiet DEF PythonInv

LEMMA PythonCloseStep ==
  ASSUME PythonInv, Python!Close \/ UNCHANGED Python!vars
  PROVE  PythonInv' /\ [Python!R!Next]_(Python!R!vars) /\ Kept
<1>1. /\ closed' \in BOOLEAN
      /\ UNCHANGED <<server, stdin, stdout, lines, read, answered, written, nextId, outcome,
                    responses, closeError, reader>>
  BY PythonFacts
  DEF Python!Close, Python!vars, Python!serverVars, Python!clientVars
<1>2. PythonPipes' /\ Python!ServerTypeOK'
  BY <1>1, PythonUntouched
<1>3. Python!TypeOK' /\ StoredWereWritten' /\ Kept
  BY <1>1, <1>2 DEF PythonInv, Python!TypeOK, StoredWereWritten, Kept, Python!Requests
<1>4. NoneOverlooked'
  BY <1>1 DEF PythonInv, NoneOverlooked, InPipe, Python!Requests
<1>5. ReaderTells' /\ Python!ExitedMeansUnanswered'
  BY <1>1 DEF PythonInv, ReaderTells, Python!ExitedMeansUnanswered, Python!Requests
<1>6. QED
  BY <1>1, <1>2, <1>3, <1>4, <1>5, PythonQuiet DEF PythonInv

LEMMA PythonStep ==
  PythonInv /\ [Python!Next]_(Python!vars) => PythonInv' /\ [Python!R!Next]_(Python!R!vars) /\ Kept
BY PythonServerStep, PythonCallStep, PythonWriteStep, PythonWakeStep, PythonReadStep,
   PythonEndStep, PythonCloseStep
DEF Python!Next

\* The Python client is the same request/reply connection, although its callers and its
\* reader are threads; a line that was read is kept for its caller, and a request
\* that fails with the exit of the server was not answered (mcp_client.py:49-96).
THEOREM PythonClientReplies == Spec => PythonReplies
<1>1. Python!Init => Python!R!Init
  BY DEF Python!Init, Python!ServerInit, Python!R!Init
<1>2. PythonInv => Python!TypeOK /\ Python!ExitedMeansUnanswered
  BY DEF PythonInv
<1>3. Kept => [\A r \in Python!Requests :
                 (outcome[r] = "waiting" /\ responses[r] # "none")
                   => (responses'[r] # "none" \/ outcome'[r] \in {"resolved", "refused"})
              ]_(Python!vars)
  BY DEF Kept
<1>4. Python!Init /\ [][Python!Next]_(Python!vars) => PythonReplies
  BY <1>1, <1>2, <1>3, PythonInitInv, PythonStep, PTL
  DEF PythonReplies, Python!RequestReplied, Python!R!Spec, Python!AnswersKept
<1>5. QED
  BY <1>4, PartsAlone, PTL

==============================================================================
