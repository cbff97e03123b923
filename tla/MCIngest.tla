------------------------------ MODULE MCIngest ------------------------------
(***************************************************************************)
(* Instances of Ingest for TLC.  A CLI ships contiguous stretches of its   *)
(* own append-only log, from wherever its cursor stands, so the batches a  *)
(* machine may send are the nonempty sub-sequences SubSeq(log, i, j).      *)
(***************************************************************************)
EXTENDS Ingest

CONSTANTS w1, w2, k1, k2, m1, m2, p1, p2, e1, e2, e3, e4

Stretches(log) == {SubSeq(log, i, j) : i, j \in 1 .. Len(log)} \ {<< >>}

Posts(k, w, m, p, batches) ==
  [kind : {"events"}, key : {k}, workspaceId : {w}, machineId : {m},
   publicKey : {p}, batch : batches]

Registration(k, w, m, p) ==
  [kind |-> "register", key |-> k, workspaceId |-> w, machineId |-> m,
   publicKey |-> p, batch |-> << >>]

(***************************************************************************)
(* One computer that logged in twice: as m1 to workspace w1, then, after a *)
(* logout, as m2 to w2 with a new key pair.  Its log survives the logout.  *)
(* A body naming the wrong workspace, an unknown signer and a batch with a *)
(* malformed event are included.                                           *)
(***************************************************************************)
ReloginBodies ==
  Posts(k1, w1, m1, p1, Stretches(<<e1, e2>>))
  \cup Posts(k2, w2, m2, p2, Stretches(<<e1, e2>>))
  \cup Posts(k1, w2, m1, p1, {<<e1>>})
  \cup Posts(k1, w1, m1, p1, {<<e1, e3>>})
  \cup {Registration(k1, w1, m1, p1), Registration(k2, w2, m2, p2),
        Registration(k2, w2, m1, p2)}

(***************************************************************************)
(* Two computers of one workspace, each with its own log.                  *)
(***************************************************************************)
TeamBodies ==
  Posts(k1, w1, m1, p1, Stretches(<<e1, e2>>))
  \cup Posts(k2, w1, m2, p2, {<<e3>>})
  \cup {Registration(k1, w1, m1, p1), Registration(k2, w1, m2, p2)}

=============================================================================
