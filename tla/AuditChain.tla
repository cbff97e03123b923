----------------------------- MODULE AuditChain -----------------------------
(***************************************************************************)
(* The tamper-evident audit hash chain, shared by the ingest service that  *)
(* writes it (services/ingest/src/crypto.ts) and the export that verifies  *)
(* it (services/app-api/src/audit.ts, scripts/verify-audit.mjs).           *)
(*                                                                         *)
(* sha256 is taken to be collision free, so a hash is represented by what  *)
(* it commits to: the genesis hash of workspace w is << w >>, and hashing  *)
(* an event onto a previous hash appends the event.  Two hashes are equal  *)
(* exactly when the code hashed the same fields in the same order.  The    *)
(* fields of one event (id, ts, type, server, ...) never change once it is *)
(* recorded, so one value stands for all of them.                          *)
(***************************************************************************)
EXTENDS Naturals, Sequences

GenesisHash(w) == << w >>

ComputeChainHash(prev, e) == Append(prev, e)

(***************************************************************************)
(* A row of the events table, with the columns the chain depends on.       *)
(***************************************************************************)
Row(e, w, m, prev) ==
  [eventId     |-> e,
   workspaceId |-> w,
   machineId   |-> m,
   prevHash    |-> prev,
   chainHash   |-> ComputeChainHash(prev, e)]

(***************************************************************************)
(* The rows the audit export reads for one workspace, in rowid order: a    *)
(* set of positions in the table, each after those below it.               *)
(***************************************************************************)
RowsOf(w, rows) == {i \in DOMAIN rows : rows[i].workspaceId = w}

Earlier(w, rows, i) == {j \in RowsOf(w, rows) : j < i}

Latest(S) == CHOOSE j \in S : \A k \in S : k <= j

(***************************************************************************)
(* verifyAuditChain: walk the rows of one workspace in rowid order.  After *)
(* a mismatch the walk resynchronises to the row's own chain hash, so the  *)
(* value expected at a row depends on the row before it alone.             *)
(***************************************************************************)
\* Faulty: the walk goes on from the hash it recomputed.
ExpectedPrevRecomputed(w, rows, i) ==
  LET j == Latest(Earlier(w, rows, i))
  IN  IF Earlier(w, rows, i) = {} THEN GenesisHash(w)
                                  ELSE ComputeChainHash(rows[j].prevHash, rows[j].eventId)

ExpectedPrev(w, rows, i) ==
  IF Earlier(w, rows, i) = {} THEN GenesisHash(w)
                              ELSE rows[Latest(Earlier(w, rows, i))].chainHash

\* Faulty: the links are compared but no hash is recomputed.
ChainBreaksOfLinks(w, rows) ==
  {[index |-> i, reason |-> "prev_hash_mismatch"] :
     i \in {j \in RowsOf(w, rows) : rows[j].prevHash # ExpectedPrev(w, rows, j)}}

ChainBreaks(w, rows) ==
  {[index |-> i, reason |-> "prev_hash_mismatch"] :
     i \in {j \in RowsOf(w, rows) : rows[j].prevHash # ExpectedPrev(w, rows, j)}}
  \cup
  {[index |-> i, reason |-> "chain_hash_mismatch"] :
     i \in {j \in RowsOf(w, rows) :
              rows[j].chainHash # ComputeChainHash(rows[j].prevHash, rows[j].eventId)}}

VerifyAuditChain(w, rows) == ChainBreaks(w, rows) = {}

=============================================================================
