----------------------------- MODULE AuditExport -----------------------------
(***************************************************************************)
(* What the audit export shows an auditor (services/app-api/src/audit.ts,  *)
(* GET /v1/audit/export, scripts/verify-audit.mjs) when rows of the events *)
(* table were altered after they were stored, by someone who can write the *)
(* table: rows are deleted, exchanged, edited and added, and their hashes  *)
(* computed anew, which takes no key (audit.ts:32-42).  Rows are stored    *)
(* one by one here; what retried batches do to the chain is the subject of *)
(* Ingest.                                                                 *)
(***************************************************************************)
EXTENDS AuditChain, FiniteSets

CONSTANTS
  Workspaces,
  Machines,
  Events,          \* contents of the hashed fields, the event id among them
  MaxRows,         \* rows stored (a bound)
  MaxAlterations   \* alterations made (a bound)

AuditAssumption == MaxRows \in Nat /\ MaxAlterations \in Nat

VARIABLES
  rows,     \* table events in rowid order, as it is
  stored,   \* history: as the ingest service wrote it
  done      \* history: the alterations made, in order

vars == <<rows, stored, done>>

\* Faulty: the workspace is left out of the query.
LastHashOfAll(w) ==
  IF rows = << >> THEN GenesisHash(w) ELSE rows[Len(rows)].chainHash

\* What the next row of a workspace continues from.
LastHash(w) == ExpectedPrev(w, rows, Len(rows) + 1)

\* event_id is the primary key of the table.
Fresh(e) == \A i \in DOMAIN rows : rows[i].eventId # e

Store(e, w, m) ==
  /\ done = << >>
  /\ Len(rows) < MaxRows
  /\ Fresh(e)
  /\ rows' = Append(rows, Row(e, w, m, LastHash(w)))
  /\ stored' = rows'
  /\ UNCHANGED done

Alter(kind) ==
  /\ Len(done) < MaxAlterations
  /\ done' = Append(done, kind)
  /\ UNCHANGED stored

Without(i) == [j \in 1 .. Len(rows) - 1 |-> IF j < i THEN rows[j] ELSE rows[j + 1]]

DeleteRow(i) == Alter("delete") /\ rows' = Without(i)

\* Two rows change places (their rowids are exchanged).
SwapRows(i, j) ==
  /\ i < j
  /\ Alter("swap")
  /\ rows' = [rows EXCEPT ![i] = rows[j], ![j] = rows[i]]

\* A hashed field is overwritten ...
EditRow(i, e) ==
  /\ Fresh(e)
  /\ Alter("edit")
  /\ rows' = [rows EXCEPT ![i].eventId = e]

\* ... the workspace the row belongs to ...
MoveRow(i, w) ==
  /\ rows[i].workspaceId # w
  /\ Alter("move")
  /\ rows' = [rows EXCEPT ![i].workspaceId = w]

\* ... or a field the hash does not cover: machine_id here, and likewise
\* severity and description_diff.
RelabelRow(i, m) ==
  /\ rows[i].machineId # m
  /\ Alter("relabel")
  /\ rows' = [rows EXCEPT ![i].machineId = m]

\* The hashes of a row are computed anew, so that it continues from the row before it
\* and commits to its content.
RehashRow(i) ==
  LET prev == ExpectedPrev(rows[i].workspaceId, rows, i)
  IN  /\ Alter("rehash")
      /\ rows' = [rows EXCEPT ![i].prevHash = prev,
                             ![i].chainHash = ComputeChainHash(prev, rows[i].eventId)]

\* A row that the ingest service never wrote is added, with the hashes it would have.
ForgeRow(e, w, m) ==
  /\ Len(rows) < MaxRows
  /\ Fresh(e)
  /\ Alter("forge")
  /\ rows' = Append(rows, Row(e, w, m, LastHash(w)))

Init == rows = << >> /\ stored = << >> /\ done = << >>

Next ==
  \/ \E e \in Events, w \in Workspaces, m \in Machines : Store(e, w, m) \/ ForgeRow(e, w, m)
  \/ \E i \in DOMAIN rows :
       \/ DeleteRow(i) \/ RehashRow(i)
       \/ \E j \in DOMAIN rows : SwapRows(i, j)
       \/ \E e \in Events : EditRow(i, e)
       \/ \E w \in Workspaces : MoveRow(i, w)
       \/ \E m \in Machines : RelabelRow(i, m)

Spec == Init /\ [][Next]_vars

(***************************************************************************)
(* Properties                                                              *)
(***************************************************************************)
\* Shape of the table: every hash starts from the genesis of some workspace.
TypeOK ==
  /\ Len(rows) <= MaxRows /\ Len(done) <= MaxAlterations
  /\ \A i \in DOMAIN rows :
       /\ rows[i].eventId \in Events
       /\ rows[i].workspaceId \in Workspaces
       /\ rows[i].machineId \in Machines
       /\ rows[i].prevHash # << >> /\ rows[i].prevHash[1] \in Workspaces
       /\ rows[i].chainHash # << >> /\ rows[i].chainHash[1] \in Workspaces

Valid(w) == VerifyAuditChain(w, rows)

\* How many rows of its workspace a row of a table has up to itself.
Place(w, table, i) == Cardinality({j \in RowsOf(w, table) : j <= i})

\* What was stored verifies.
UnalteredVerifies == done = << >> => \A w \in Workspaces : Valid(w)

\* Row i is, in what is hashed, the row that was stored for the workspace at its place.
IsStored(w, i) ==
  \E k \in RowsOf(w, stored) : /\ Place(w, stored, k) = Place(w, rows, i)
                               /\ stored[k].eventId = rows[i].eventId

\* No hash was written but by the ingest service.
HashesLeft == \A n \in DOMAIN done : done[n] \notin {"rehash", "forge"}

\* If the rows of a workspace verify, and whoever altered the table computed no hash,
\* then their hashed fields are those of the rows that were stored for it, in their
\* order, without a gap; only how far they reach is not shown.
VerifiedIsStored ==
  HashesLeft => \A w \in Workspaces : Valid(w) => \A i \in RowsOf(w, rows) : IsStored(w, i)

\* If the rows of a workspace verify and one of them has a chain hash that was seen
\* when its row was stored (in an earlier export, say), then it and all before it are
\* the rows that were stored, whatever was done to the table.
KeptHashIsStored ==
  \A w \in Workspaces : Valid(w) =>
    \A i \in RowsOf(w, rows), k \in RowsOf(w, stored) :
      rows[i].chainHash = stored[k].chainHash =>
        \A j \in RowsOf(w, rows) : j <= i => IsStored(w, j)

\* audit.ts:55-58: one edited or missing row is reported once, and does not
\* make everything after it look broken.
NoCascade ==
  done \in {<<"edit">>, <<"delete">>, <<"relabel">>} =>
    Cardinality(UNION {{<<w, b>> : b \in ChainBreaks(w, rows)} : w \in Workspaces}) <= 1

\* build-bible.md:380: any deletion breaks the chain.
DeletionReported ==
  done = <<"delete">> => \E w \in Workspaces : ~Valid(w)

\* build-bible.md:380: any edit breaks the chain.
OnlyStoredVerifies ==
  \A w \in Workspaces : Valid(w) => \A i \in RowsOf(w, rows) : IsStored(w, i)

\* USERFEATURES.md:76: editing a historical record breaks the chain.
EditReported ==
  done \in {<<"edit">>, <<"move">>, <<"relabel">>} => \E w \in Workspaces : ~Valid(w)

=============================================================================
