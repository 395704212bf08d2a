---------------------------- MODULE ClientStore ----------------------------
(* The SQLite store of OAuth client registrations: interactive clients,    *)
(* which dynamic registration inserts and the retention sweep removes, and *)
(* machine clients, versioned records that only the operator's command     *)
(* changes, each change with its audit row.  Several processes hold the    *)
(* file at once.  An operator that changes `rows` or `audit` below is one  *)
(* SQL statement or one BEGIN IMMEDIATE transaction, hence one atomic step *)
(* of the process that takes it.                                           *)
EXTENDS Integers, FiniteSets, Sequences

CONSTANTS
  UserIds, MachineIds,  \* client identifiers of the two kinds
  Redirects,            \* redirect URIs a registration may ask for
  MaxStored,            \* MAX_STORED_CLIENTS
  MaxInteractive,       \* MAX_INTERACTIVE_CLIENTS
  MaxActiveMachine,     \* MAX_ACTIVE_MACHINE_CLIENTS
  Retention,            \* INTERACTIVE_RETENTION_SECONDS
  NoRow,                \* no such row
  Provisioned           \* machine clients of earlier commands

VARIABLES
  rows,     \* the table oauth_clients
  audit,    \* oauth_machine_client_audit, per client the events in order
  now,      \* unixepoch()
  allowed   \* the redirect allowlist of the running server's policy

Ids == UserIds \cup MachineIds
Stored == {c \in Ids : rows[c] # NoRow}
StoredUsers == Stored \cap UserIds
ActiveMachines == {c \in Stored \cap MachineIds : rows[c].status = "active"}

User(uri) == [uri |-> uri, lastUsed |-> now]

Machine(status, version, secrets) ==
  [status |-> status, version |-> version, secrets |-> secrets]

(* A secret is accepted for ever ("live") or until the rotation's grace is *)
(* over ("grace"); the value is whose command made it.                     *)
Secret(by, ends) == [by |-> by, ends |-> ends]

(* One or two secrets, of two exactly one without an expiry; none when the *)
(* client is disabled.                                                     *)
SecretsValid(status, secrets) ==
  IF status = "disabled"
  THEN secrets = {}
  ELSE /\ Cardinality(secrets) \in 1..2
       /\ Cardinality(secrets) = 2 =>
            Cardinality({s \in secrets : s.ends = "live"}) = 1

(* What a row must satisfy to be written, and to be returned once read.    *)
ValidUser(row) == row.uri \in allowed
ValidMachine(row) == row.version >= 1 /\ SecretsValid(row.status, row.secrets)
Valid(c, row) == IF c \in UserIds THEN ValidUser(row) ELSE ValidMachine(row)

(* A row that the codec refuses is no client at all to a reader.           *)
Decoded(c) == IF rows[c] # NoRow /\ Valid(c, rows[c]) THEN rows[c] ELSE NoRow

RoomFor_OffByOne(kind, stored) == Cardinality(stored) <= MaxStored

(* Room for one more of a kind among the clients `stored`.                 *)
RoomFor(kind, stored) ==
  /\ Cardinality(stored) < MaxStored
  /\ IF kind = "interactive"
     THEN Cardinality(stored \cap UserIds) < MaxInteractive
     ELSE Cardinality(ActiveMachines) < MaxActiveMachine

Fresh(c) == rows[c].lastUsed >= now - Retention
Unswept == [c \in Ids |-> IF c \in StoredUsers /\ ~Fresh(c) THEN NoRow ELSE rows[c]]

StoreInit ==
  /\ rows = [c \in Ids |-> IF c \in Provisioned
                           THEN Machine("active", 1, {Secret("earlier", "live")})
                           ELSE NoRow]
  /\ audit = [c \in MachineIds |-> IF c \in Provisioned THEN <<"provision">> ELSE <<>>]
  /\ now = 0
  /\ allowed = Redirects

(* sweepStaleClients: one DELETE.                                          *)
SweepStaleClients == rows' = Unswept /\ UNCHANGED audit

(* save: the sweep, then either the same registration again, a collision   *)
(* (which rolls the sweep back) or an insert within the capacity.          *)
SaveNew(c, uri) ==
  /\ uri \in allowed
  /\ Unswept[c] = NoRow
  /\ RoomFor("interactive", {d \in Ids : Unswept[d] # NoRow})
  /\ rows' = [Unswept EXCEPT ![c] = User(uri)]
  /\ UNCHANGED audit

SaveAgain(c, uri) ==
  /\ uri \in allowed
  /\ Unswept[c] # NoRow
  /\ Unswept[c].uri = uri
  /\ SweepStaleClients

(* createMachineClient: the row and its audit, or neither.                 *)
CreateMachineClient(c, secret) ==
  /\ rows[c] = NoRow
  /\ RoomFor("machine", Stored)
  /\ rows' = [rows EXCEPT ![c] = Machine("active", 1, {secret})]
  /\ audit' = [audit EXCEPT ![c] = Append(@, "provision")]

Swappable_AnyVersion(c, expected) == rows[c] # NoRow

(* compareAndSwapMachineClient: the row that still has the expected        *)
(* version is replaced, with its audit, or nothing is.                     *)
Swappable(c, expected) == rows[c] # NoRow /\ rows[c].version = expected

CompareAndSwap(c, expected, row, event) ==
  /\ Swappable(c, expected)
  /\ Valid(c, row)
  /\ rows' = [rows EXCEPT ![c] = row]
  /\ audit' = [audit EXCEPT ![c] = Append(@, event)]

(* The second statement of find: it may find the row gone.                 *)
Touch(c) ==
  /\ rows' = IF rows[c] = NoRow THEN rows ELSE [rows EXCEPT ![c].lastUsed = now]
  /\ UNCHANGED audit

-----------------------------------------------------------------------------
(* The caps of the store hold across every order of registrations,         *)
(* provisions, rotations, disables and sweeps of several processes.        *)
StoreBounded ==
  /\ Cardinality(Stored) <= MaxStored
  /\ Cardinality(StoredUsers) <= MaxInteractive
  /\ Cardinality(ActiveMachines) <= MaxActiveMachine

(* The audit trail of a machine client tells its whole history: as many    *)
(* events as the row has versions, a provision first and nowhere else, and *)
(* a disable exactly when the row is a tombstone, after which nothing is   *)
(* recorded.  Two rotations of one version, a change whose audit was not   *)
(* committed with it, or a tombstone revived would each break it.  And what *)
(* is stored can be read back.                                            *)
AuditTellsState ==
  \A c \in MachineIds :
    /\ rows[c] = NoRow => audit[c] = <<>>
    /\ rows[c] # NoRow =>
         LET n == Len(audit[c]) IN
         /\ ValidMachine(rows[c])
         /\ n = rows[c].version
         /\ \A i \in 1..n : (audit[c][i] = "provision") <=> (i = 1)
         /\ \A i \in 1..n :
              (audit[c][i] = "disable") <=> (i = n /\ rows[c].status = "disabled")
============================================================================
