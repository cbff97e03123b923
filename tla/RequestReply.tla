---------------------------- MODULE RequestReply ----------------------------
(***************************************************************************)
(* What a client of a request/reply connection promises, whichever way it  *)
(* waits: a request settles once, with a line the other side wrote that    *)
(* carries the id of this very request, or with a failure, and as long as  *)
(* the program runs no request waits for ever.  That the line is a reply   *)
(* is not promised: the other side may use the id for a request of its     *)
(* own, before this one is made or after.                                  *)
(***************************************************************************)
EXTENDS Naturals

CONSTANT Requests

VARIABLES
  status,    \* of each request: idle, waiting, replied, failed
  written,   \* requests whose id is on a line the other side wrote
  stopped    \* the program has gone down

vars == <<status, written, stopped>>

Init ==
  /\ status = [r \in Requests |-> "idle"]
  /\ written = {}
  /\ stopped = FALSE

Ask(r) ==
  /\ ~stopped
  /\ status[r] = "idle"
  /\ \E s \in {"waiting", "failed"} : status' = [status EXCEPT ![r] = s]
  /\ UNCHANGED <<written, stopped>>

Reply(r) ==
  /\ written' = written \cup {r}
  /\ UNCHANGED <<status, stopped>>

Deliver(r) ==
  /\ ~stopped
  /\ status[r] = "waiting"
  /\ r \in written
  /\ status' = [status EXCEPT ![r] = "replied"]
  /\ UNCHANGED <<written, stopped>>

\* Any number of requests at once: the connection is lost.
Fail ==
  /\ ~stopped
  /\ \E lost \in SUBSET {r \in Requests : status[r] = "waiting"} :
       /\ lost # {}
       /\ status' = [r \in Requests |-> IF r \in lost THEN "failed" ELSE status[r]]
  /\ UNCHANGED <<written, stopped>>

Stop ==
  /\ stopped' = TRUE
  /\ \E asked \in SUBSET {r \in Requests : status[r] = "idle"} :
       status' = [r \in Requests |-> IF r \in asked THEN "waiting" ELSE status[r]]
  /\ UNCHANGED written

Next ==
  \/ \E r \in Requests : Ask(r) \/ Reply(r) \/ Deliver(r)
  \/ Fail
  \/ Stop

\* The request is settled, or nobody waits for it any more.
Over(r) == status[r] \in {"replied", "failed"} \/ stopped

Spec == Init /\ [][Next]_vars

\* Nobody waits for ever (mcp-client.ts:108, mcp_client.py:87: each request has a
\* time-out).
NobodyWaitsForever ==
  \A r \in Requests : (status[r] = "waiting") ~> Over(r)

=============================================================================
