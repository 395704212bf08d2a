------------------------ MODULE MachineClientProofs ------------------------
(***************************************************************************)
(* What holds of the client store and of the commands on it, for any       *)
(* number of commands, clients and restarts: the caps, the audit, what an  *)
(* exit code says, and what a compensation may end.                        *)
(***************************************************************************)
EXTENDS MachineClient, SequenceTheorems, FiniteSetTheorems, TLAPS

Places == {"idle", "find", "commit", "write", "writing", "written",
           "compensate", "disable", "exited", "killed"}
Events == {"provision", "rotate", "disable"}
CliRecords ==
  [at : Places, action : Actions \cup {"none"}, id : MachineIds \cup {"none"},
   seen : MachineRows \cup {NoRow}, version : Nat, exit : {-1, 0, 1, 2},
   verdict : {"none", "ok", "failed"},
   listening : BOOLEAN, owed : BOOLEAN, uncaught : BOOLEAN]

(* Types.                                                                   *)
Types ==
  /\ rows \in [Ids -> UserRows \cup MachineRows \cup {NoRow}]
  /\ \A c \in UserIds : rows[c] \in UserRows \cup {NoRow}
  /\ \A c \in MachineIds : rows[c] \in MachineRows \cup {NoRow}
  /\ audit \in [MachineIds -> Seq(Events)]
  /\ now \in Nat
  /\ cli \in [Commands -> CliRecords]
  /\ finding \in UserIds \cup {NoRow}

(* What a command's own record says at each place.                          *)
Credentials == {"provision", "rotate"}
Swaps == {"rotate", "disable"}
LocalOK(r) ==
  /\ r.at # "exited" => r.exit = -1
  /\ r.at \in {"idle", "find", "commit", "write"} => ~r.listening /\ ~r.owed
  /\ r.at = "writing" => r.listening /\ ~r.owed
  /\ r.owed => r.listening
  /\ ~r.uncaught
  /\ r.at \in {"idle", "find", "commit"} => r.verdict = "none" /\ r.version = 0
  /\ r.at \in {"write", "writing"} => r.verdict = "none"
  /\ r.at = "written" => r.verdict \in {"ok", "failed"}
  /\ r.at \in {"compensate", "disable"} => r.action \in Credentials /\ r.verdict = "failed"
  /\ r.at = "find" => r.action \in Swaps
  /\ r.at = "commit" => r.action \in Credentials \cup Swaps
  /\ r.at \in {"write", "writing", "written", "compensate", "disable"}
       /\ r.action \in Credentials => r.version >= 1
  /\ r.at \notin {"idle", "exited"} => r.action # "none"
  /\ r.action # "none" => r.id \in MachineIds
  /\ r.version >= 1 => r.action # "none"
  /\ r.at = "exited" =>
       /\ r.exit \in {0, 1, 2}
       /\ r.exit = 0 => r.verdict = "ok"
       /\ r.exit = 2 => r.verdict = "failed"
       /\ r.verdict = "none" => r.version = 0

(* What a command knows of its client's row: what it read is still there,   *)
(* or the version has moved on; what it committed is there or older; and    *)
(* after a compensation the client is a tombstone.                          *)
Remembers(r) ==
  \/ r.at = "commit" /\ r.action \in Swaps
  \/ r.at = "disable"
Knows(p, r, row) ==
  /\ Remembers(r) =>
       /\ r.seen # NoRow /\ r.seen.status = "active"
       /\ row # NoRow /\ row.version >= r.seen.version
       /\ row.version = r.seen.version => row = r.seen
  /\ r.at = "disable" => r.seen.version = r.version
  /\ r.version >= 1 =>
       /\ row # NoRow /\ row.version >= r.version
       /\ r.action \in Credentials /\ row.version = r.version =>
            Secret(p, "live") \in row.secrets
  /\ r.at = "exited" /\ r.exit = 1 /\ r.verdict = "failed" /\ r.action \in Credentials =>
       row # NoRow /\ row.status = "disabled"

CommandOK(p) ==
  /\ LocalOK(cli[p])
  /\ cli[p].action # "none" => Knows(p, cli[p], rows[cli[p].id])

CommandInv == \A p \in Commands : CommandOK(p)
StoreInv == Types /\ CommandInv /\ AuditTellsState /\ StoreBounded

----------------------------------------------------------------------------
(* The store.                                                               *)
StoreTypes ==
  /\ rows \in [Ids -> UserRows \cup MachineRows \cup {NoRow}]
  /\ \A c \in UserIds : rows[c] \in UserRows \cup {NoRow}
  /\ \A c \in MachineIds : rows[c] \in MachineRows \cup {NoRow}
  /\ audit \in [MachineIds -> Seq(Events)]

MachinesKept == \A c \in MachineIds : rows'[c] = rows[c] /\ audit'[c] = audit[c]

LEMMA ClientCount ==
  ASSUME NEW S \in SUBSET Ids
  PROVE  /\ IsFiniteSet(S) /\ Cardinality(S) \in Nat
         /\ \A T \in SUBSET S : Cardinality(T) <= Cardinality(S)
         /\ \A c \in Ids : Cardinality(S \cup {c}) <= Cardinality(S) + 1
<1>1. IsFiniteSet(S)
  <2>1. IsFiniteSet(Ids)
    BY StoreAssumption, FS_Union DEF Ids
  <2> QED  BY <2>1, FS_Subset
<1>2. Cardinality(S) \in Nat
  BY <1>1, FS_CardinalityType
<1>3. \A T \in SUBSET S : Cardinality(T) <= Cardinality(S)
  BY <1>1, FS_Subset
<1>4. \A c \in Ids : Cardinality(S \cup {c}) <= Cardinality(S) + 1
  BY <1>1, <1>2, FS_AddElement
<1> QED  BY <1>1, <1>2, <1>3, <1>4

(* Steps that leave the machine clients alone cannot pass their cap.        *)
LEMMA ActiveKept ==
  ASSUME MachinesKept
  PROVE  ActiveMachines' = ActiveMachines
BY DEF MachinesKept, ActiveMachines, Stored, Ids

(* A sweep, a registration, a touch.                                        *)
LEMMA Swept ==
  ASSUME Types
  PROVE  /\ Unswept \in [Ids -> UserRows \cup MachineRows \cup {NoRow}]
         /\ \A c \in UserIds : Unswept[c] \in {rows[c], NoRow}
         /\ \A c \in MachineIds : Unswept[c] = rows[c]
<1>1. UserIds \subseteq Ids /\ MachineIds \subseteq Ids
  BY DEF Ids
<1>2. \A c \in MachineIds : c \notin StoredUsers
  BY StoreAssumption DEF StoredUsers
<1>3. \A c \in Ids : Unswept[c] \in {rows[c], NoRow}
  BY DEF Unswept
<1>4. \A c \in MachineIds : Unswept[c] = rows[c]
  BY <1>1, <1>2 DEF Unswept
<1>5. Unswept \in [Ids -> UserRows \cup MachineRows \cup {NoRow}]
  BY DEF Unswept, Types
<1> QED  BY <1>1, <1>3, <1>4, <1>5

LEMMA SweepKeeps ==
  ASSUME Types, StoreBounded, SweepStaleClients
  PROVE  StoreTypes' /\ MachinesKept /\ StoreBounded'
<1>1. rows' = Unswept /\ audit' = audit
  BY DEF SweepStaleClients
<1>2. MachinesKept
  BY <1>1, Swept DEF MachinesKept
<1>3. StoreTypes'
  BY <1>1, Swept DEF StoreTypes, Types
<1>4. Stored' \subseteq Stored
  BY <1>1 DEF Stored, Unswept
<1>5. StoredUsers' \subseteq StoredUsers
  BY <1>4 DEF StoredUsers
<1>6. Stored \in SUBSET Ids /\ StoredUsers \in SUBSET Ids
  BY DEF Stored, StoredUsers
<1>7. /\ Cardinality(Stored') <= Cardinality(Stored)
      /\ Cardinality(StoredUsers') <= Cardinality(StoredUsers)
      /\ Cardinality(Stored) \in Nat /\ Cardinality(StoredUsers) \in Nat
      /\ Cardinality(Stored') \in Nat /\ Cardinality(StoredUsers') \in Nat
  <2>1. Stored' \in SUBSET Ids /\ StoredUsers' \in SUBSET Ids
    BY <1>4, <1>5, <1>6
  <2> QED  BY <2>1, <1>4, <1>5, <1>6, ClientCount
<1>8. StoreBounded'
  BY <1>2, <1>7, ActiveKept, StoreAssumption DEF StoreBounded
<1> QED  BY <1>2, <1>3, <1>8

LEMMA SaveNewKeeps ==
  ASSUME Types, StoreBounded, NEW c \in UserIds, NEW uri \in Redirects, SaveNew(c, uri)
  PROVE  StoreTypes' /\ MachinesKept /\ StoreBounded'
<1> DEFINE S == {d \in Ids : Unswept[d] # NoRow}
<1>1. /\ rows' = [Unswept EXCEPT ![c] = User(uri)] /\ audit' = audit
      /\ Cardinality(S) < MaxStored /\ Cardinality(S \cap UserIds) < MaxInteractive
  BY DEF SaveNew, RoomFor
<1>2. User(uri) \in UserRows /\ c \in Ids /\ c \notin MachineIds
  BY StoreAssumption DEF User, UserRows, Types, Ids
<1>3. MachinesKept
  BY <1>1, <1>2, Swept DEF MachinesKept, Ids
<1>4. StoreTypes'
  <2>1. rows' \in [Ids -> UserRows \cup MachineRows \cup {NoRow}]
    BY <1>1, <1>2, Swept
  <2>2. \A d \in UserIds : rows'[d] \in UserRows \cup {NoRow}
    BY <1>1, <1>2, Swept DEF Ids, Types
  <2>3. \A d \in MachineIds : rows'[d] \in MachineRows \cup {NoRow}
    BY <1>3 DEF Types, MachinesKept
  <2> QED  BY <1>1, <2>1, <2>2, <2>3 DEF StoreTypes, Types
<1>5. Stored' \subseteq S \cup {c} /\ StoredUsers' \subseteq (S \cap UserIds) \cup {c}
  BY <1>1, Swept DEF Stored, StoredUsers
<1>6. S \in SUBSET Ids /\ S \cap UserIds \in SUBSET Ids
  OBVIOUS
<1>7. /\ Cardinality(Stored') <= Cardinality(S) + 1
      /\ Cardinality(StoredUsers') <= Cardinality(S \cap UserIds) + 1
      /\ Cardinality(S) \in Nat /\ Cardinality(S \cap UserIds) \in Nat
      /\ Cardinality(Stored') \in Nat /\ Cardinality(StoredUsers') \in Nat
  <2> HIDE DEF S
  <2>1. /\ S \cup {c} \in SUBSET Ids /\ (S \cap UserIds) \cup {c} \in SUBSET Ids
    BY <1>6, <1>2
  <2>2. Stored' \in SUBSET Ids /\ StoredUsers' \in SUBSET Ids
    BY <1>5, <2>1
  <2>3. /\ Cardinality(Stored') <= Cardinality(S \cup {c})
        /\ Cardinality(StoredUsers') <= Cardinality((S \cap UserIds) \cup {c})
        /\ Cardinality(S \cup {c}) \in Nat /\ Cardinality((S \cap UserIds) \cup {c}) \in Nat
    BY <1>5, <2>1, ClientCount
  <2>4. /\ Cardinality(S \cup {c}) <= Cardinality(S) + 1
        /\ Cardinality((S \cap UserIds) \cup {c}) <= Cardinality(S \cap UserIds) + 1
        /\ Cardinality(S) \in Nat /\ Cardinality(S \cap UserIds) \in Nat
    BY <1>6, <1>2, ClientCount
  <2>5. Cardinality(Stored') \in Nat /\ Cardinality(StoredUsers') \in Nat
    BY <2>2, ClientCount
  <2> QED  BY <2>3, <2>4, <2>5
<1>8. StoreBounded'
  <2> HIDE DEF S
  <2> QED  BY <1>1, <1>3, <1>7, ActiveKept, StoreAssumption DEF StoreBounded
<1> QED  BY <1>3, <1>4, <1>8

LEMMA TouchKeeps ==
  ASSUME Types, StoreBounded, NEW c \in UserIds, Touch(c)
  PROVE  StoreTypes' /\ MachinesKept /\ StoreBounded'
<1>1. CASE rows[c] = NoRow
  <2>1. rows' = rows /\ audit' = audit
    BY <1>1 DEF Touch
  <2> QED  BY <2>1 DEF StoreTypes, Types, MachinesKept, StoreBounded, Stored, StoredUsers,
                       ActiveMachines
<1>2. CASE rows[c] # NoRow
  <2>1. /\ rows[c] \in UserRows /\ c \in Ids /\ c \notin MachineIds
        /\ now \in Nat
    BY <1>2, StoreAssumption DEF Types, Ids
  <2> DEFINE row == [rows[c] EXCEPT !.lastUsed = now]
  <2>2. rows' = [rows EXCEPT ![c] = row] /\ audit' = audit
    BY <1>2 DEF Touch
  <2>3. row \in UserRows /\ row # NoRow
    BY <2>1, StoreAssumption DEF UserRows
  <2> HIDE DEF row
  <2>4. MachinesKept
    BY <2>1, <2>2 DEF MachinesKept, Types, Ids
  <2>5. StoreTypes'
    <3>1. rows' \in [Ids -> UserRows \cup MachineRows \cup {NoRow}]
      BY <2>1, <2>2, <2>3 DEF Types
    <3>2. \A d \in UserIds : rows'[d] \in UserRows \cup {NoRow}
      BY <2>1, <2>2, <2>3 DEF Ids, Types
    <3>3. \A d \in MachineIds : rows'[d] \in MachineRows \cup {NoRow}
      BY <2>4 DEF Types, MachinesKept
    <3> QED  BY <2>2, <3>1, <3>2, <3>3 DEF StoreTypes, Types
  <2>6. Stored' = Stored
    BY <1>2, <2>1, <2>2, <2>3 DEF Stored, Types
  <2>7. StoreBounded'
    BY <2>4, <2>6, ActiveKept DEF StoreBounded, StoredUsers
  <2> QED  BY <2>4, <2>5, <2>7
<1> QED  BY <1>1, <1>2

(* A machine client is created or swapped, and the others are left alone.   *)
OnlyMachine(c) ==
  /\ \A d \in Ids \ {c} : rows'[d] = rows[d]
  /\ \A d \in MachineIds \ {c} : audit'[d] = audit[d]

LEMMA OnlyMachineTypes ==
  ASSUME Types, NEW c \in MachineIds, OnlyMachine(c), NEW row \in MachineRows,
         rows' = [rows EXCEPT ![c] = row], NEW e \in Events,
         audit' = [audit EXCEPT ![c] = Append(@, e)]
  PROVE  /\ StoreTypes' /\ rows'[c] = row /\ audit'[c] = Append(audit[c], e)
         /\ audit[c] \in Seq(Events)
<1>1. c \in Ids /\ c \notin UserIds
  BY StoreAssumption DEF Ids
<1>2. audit[c] \in Seq(Events)
  BY DEF Types
<1>3. Append(audit[c], e) \in Seq(Events)
  BY <1>2, AppendProperties
<1>4. audit' \in [MachineIds -> Seq(Events)] /\ audit'[c] = Append(audit[c], e)
  BY <1>3 DEF Types
<1>5. rows' \in [Ids -> UserRows \cup MachineRows \cup {NoRow}] /\ rows'[c] = row
  BY <1>1 DEF Types
<1>6. \A d \in UserIds : rows'[d] \in UserRows \cup {NoRow}
  BY <1>1 DEF Types, OnlyMachine, Ids
<1>7. \A d \in MachineIds : rows'[d] \in MachineRows \cup {NoRow}
  BY <1>1, <1>5 DEF Types, OnlyMachine, Ids
<1> QED  BY <1>2, <1>4, <1>5, <1>6, <1>7 DEF StoreTypes

LEMMA CreateKeeps ==
  ASSUME Types, StoreBounded, NEW c \in MachineIds, NEW secret \in StoredSecrets,
         CreateMachineClient(c, secret)
  PROVE  /\ StoreTypes' /\ StoreBounded' /\ OnlyMachine(c)
         /\ rows[c] = NoRow /\ rows'[c] = Machine("active", 1, {secret})
         /\ audit'[c] = Append(audit[c], "provision")
<1> DEFINE row == Machine("active", 1, {secret})
<1>1. row \in MachineRows /\ row # NoRow
  BY StoreAssumption DEF Machine, MachineRows
<1>2. /\ rows[c] = NoRow /\ rows' = [rows EXCEPT ![c] = row]
      /\ audit' = [audit EXCEPT ![c] = Append(@, "provision")]
      /\ Cardinality(Stored) < MaxStored /\ Cardinality(ActiveMachines) < MaxActiveMachine
  BY DEF CreateMachineClient, RoomFor
<1>c. c \in Ids /\ c \notin UserIds
  BY StoreAssumption DEF Ids
<1>3. OnlyMachine(c)
  BY <1>2 DEF OnlyMachine, Types
<1>4. StoreTypes' /\ rows'[c] = row /\ audit'[c] = Append(audit[c], "provision")
  <2> HIDE DEF row
  <2> QED  BY <1>1, <1>2, <1>3, OnlyMachineTypes DEF Events
<1>5. /\ Stored' \subseteq Stored \cup {c} /\ StoredUsers' \subseteq StoredUsers
      /\ ActiveMachines' \subseteq ActiveMachines \cup {c}
  BY <1>c, <1>3 DEF OnlyMachine, Stored, StoredUsers, ActiveMachines
<1>6. StoreBounded'
  <2>1. /\ Stored \in SUBSET Ids /\ StoredUsers \in SUBSET Ids /\ ActiveMachines \in SUBSET Ids
        /\ Stored' \in SUBSET Ids /\ StoredUsers' \in SUBSET Ids /\ ActiveMachines' \in SUBSET Ids
        /\ Stored \cup {c} \in SUBSET Ids /\ ActiveMachines \cup {c} \in SUBSET Ids
    BY <1>c DEF Stored, StoredUsers, ActiveMachines
  <2>2. /\ Cardinality(Stored') <= Cardinality(Stored \cup {c})
        /\ Cardinality(StoredUsers') <= Cardinality(StoredUsers)
        /\ Cardinality(ActiveMachines') <= Cardinality(ActiveMachines \cup {c})
    BY <1>5, <2>1, ClientCount
  <2>3. /\ Cardinality(Stored \cup {c}) <= Cardinality(Stored) + 1
        /\ Cardinality(ActiveMachines \cup {c}) <= Cardinality(ActiveMachines) + 1
    BY <1>c, <2>1, ClientCount
  <2>4. /\ Cardinality(Stored') \in Nat /\ Cardinality(StoredUsers') \in Nat
        /\ Cardinality(ActiveMachines') \in Nat /\ Cardinality(Stored) \in Nat
        /\ Cardinality(StoredUsers) \in Nat /\ Cardinality(ActiveMachines) \in Nat
        /\ Cardinality(Stored \cup {c}) \in Nat /\ Cardinality(ActiveMachines \cup {c}) \in Nat
    BY <2>1, ClientCount
  <2> QED  BY <1>2, <2>2, <2>3, <2>4, StoreAssumption DEF StoreBounded
<1> QED  BY <1>2, <1>3, <1>4, <1>6

LEMMA SwapKeeps ==
  ASSUME Types, StoreBounded, NEW c \in MachineIds, NEW expected, NEW row \in MachineRows,
         NEW e \in Events, CompareAndSwap(c, expected, row, e),
         row.status = "active" => rows[c].status = "active"
  PROVE  /\ StoreTypes' /\ StoreBounded' /\ OnlyMachine(c)
         /\ rows[c] # NoRow /\ rows[c].version = expected /\ rows'[c] = row
         /\ audit'[c] = Append(audit[c], e) /\ ValidMachine(row)
<1>c. c \in Ids /\ c \notin UserIds
  BY StoreAssumption DEF Ids
<1>2. /\ rows[c] # NoRow /\ rows[c].version = expected
      /\ rows' = [rows EXCEPT ![c] = row] /\ audit' = [audit EXCEPT ![c] = Append(@, e)]
      /\ ValidMachine(row)
  BY <1>c DEF CompareAndSwap, Swappable, Valid
<1>3. OnlyMachine(c)
  BY <1>2 DEF OnlyMachine, Types
<1>4. StoreTypes' /\ rows'[c] = row /\ audit'[c] = Append(audit[c], e)
  BY <1>2, <1>3, OnlyMachineTypes
<1>5. /\ Stored' \subseteq Stored /\ StoredUsers' \subseteq StoredUsers
      /\ ActiveMachines' \subseteq ActiveMachines
  BY <1>c, <1>2, <1>3, <1>4 DEF OnlyMachine, Stored, StoredUsers, ActiveMachines
<1>6. StoreBounded'
  <2>1. /\ Stored \in SUBSET Ids /\ StoredUsers \in SUBSET Ids /\ ActiveMachines \in SUBSET Ids
        /\ Stored' \in SUBSET Ids /\ StoredUsers' \in SUBSET Ids /\ ActiveMachines' \in SUBSET Ids
    BY <1>c DEF Stored, StoredUsers, ActiveMachines
  <2>2. /\ Cardinality(Stored') <= Cardinality(Stored)
        /\ Cardinality(StoredUsers') <= Cardinality(StoredUsers)
        /\ Cardinality(ActiveMachines') <= Cardinality(ActiveMachines)
    BY <1>5, <2>1, ClientCount
  <2>4. /\ Cardinality(Stored') \in Nat /\ Cardinality(StoredUsers') \in Nat
        /\ Cardinality(ActiveMachines') \in Nat /\ Cardinality(Stored) \in Nat
        /\ Cardinality(StoredUsers) \in Nat /\ Cardinality(ActiveMachines) \in Nat
    BY <2>1, ClientCount
  <2> QED  BY <2>2, <2>4, StoreAssumption DEF StoreBounded
<1> QED  BY <1>2, <1>3, <1>4, <1>6

----------------------------------------------------------------------------
(* The audit.                                                               *)
Told(c) ==
  /\ rows[c] = NoRow => audit[c] = <<>>
  /\ rows[c] # NoRow =>
       LET n == Len(audit[c]) IN
       /\ ValidMachine(rows[c])
       /\ n = rows[c].version
       /\ \A i \in 1..n : (audit[c][i] = "provision") <=> (i = 1)
       /\ \A i \in 1..n :
            (audit[c][i] = "disable") <=> (i = n /\ rows[c].status = "disabled")

LEMMA AuditKept ==
  ASSUME AuditTellsState, MachinesKept
  PROVE  AuditTellsState'
BY DEF AuditTellsState, MachinesKept, ValidMachine

LEMMA AuditCreated ==
  ASSUME Types, AuditTellsState, NEW c \in MachineIds, OnlyMachine(c),
         NEW secret \in StoredSecrets,
         rows[c] = NoRow, rows'[c] = Machine("active", 1, {secret}),
         audit'[c] = Append(audit[c], "provision")
  PROVE  AuditTellsState'
<1>1. Told(c)'
  <2>1. audit[c] = <<>>
    BY DEF AuditTellsState
  <2>2. audit'[c] = <<"provision">>
    BY <2>1
  <2>3. Len(audit'[c]) = 1 /\ audit'[c][1] = "provision"
    BY <2>2
  <2>4. rows'[c].version = 1 /\ rows'[c].status = "active" /\ rows'[c].secrets = {secret}
    BY DEF Machine
  <2>5. Cardinality({secret}) = 1
    BY FS_Singleton
  <2>6. Cardinality({secret}) \in 1..2 /\ Cardinality({secret}) # 2
    BY <2>5
  <2>7. ValidMachine(rows'[c])
    <3>1. ValidMachine(rows'[c]) <=> rows'[c].version >= 1 /\ SecretsValid("active", {secret})
      BY <2>4, Zenon DEF ValidMachine
    <3>2. SecretsValid("active", {secret})
      BY <2>6 DEF SecretsValid
    <3> QED  BY <2>4, <3>1, <3>2
  <2>8. \A i \in 1..1 : i = 1
    OBVIOUS
  <2>9. rows'[c] # NoRow
    <3>1. Machine("active", 1, {secret}) \in MachineRows
      BY DEF Machine, MachineRows
    <3> QED  BY <3>1, StoreAssumption
  <2>10. \A i \in 1..1 : /\ audit'[c][i] = "provision" <=> i = 1
                         /\ audit'[c][i] = "disable" <=> (i = 1 /\ rows'[c].status = "disabled")
    BY <2>3, <2>4, <2>8
  <2> QED  BY <2>3, <2>4, <2>7, <2>9, <2>10 DEF Told
<1>2. \A d \in MachineIds \ {c} : Told(d)'
  BY DEF AuditTellsState, Told, OnlyMachine, Ids
<1>3. \A d \in MachineIds : Told(d)'
  BY <1>1, <1>2
<1> QED  BY <1>3 DEF AuditTellsState, Told

LEMMA AuditSwapped ==
  ASSUME Types, AuditTellsState, NEW c \in MachineIds, OnlyMachine(c),
         rows[c] # NoRow, rows[c].status = "active", NEW row \in MachineRows,
         rows'[c] = row, row.version = rows[c].version + 1, ValidMachine(row),
         NEW e \in {"rotate", "disable"}, e = "disable" <=> row.status = "disabled",
         audit'[c] = Append(audit[c], e)
  PROVE  AuditTellsState'
<1>1. Told(c)'
  <2>0. rows[c] \in MachineRows /\ row # NoRow /\ audit[c] \in Seq(Events)
    BY StoreAssumption DEF Types
  <2> DEFINE n == Len(audit[c])
  <2>1. /\ n = rows[c].version /\ n >= 1
        /\ \A i \in 1..n : (audit[c][i] = "provision") <=> (i = 1)
        /\ \A i \in 1..n : audit[c][i] # "disable"
    BY DEF AuditTellsState, ValidMachine
  <2>2. n \in Nat
    BY <2>0, LenProperties
  <2>3. /\ Len(audit'[c]) = n + 1
        /\ \A i \in 1..n : audit'[c][i] = audit[c][i]
        /\ audit'[c][n + 1] = e
    BY <2>0, AppendProperties DEF Events
  <2>4. \A i \in 1..n + 1 : i \in 1..n \/ i = n + 1
    BY <2>2
  <2>5. \A i \in 1..n + 1 : (audit'[c][i] = "provision") <=> (i = 1)
    BY <2>1, <2>2, <2>3, <2>4
  <2>6. \A i \in 1..n + 1 : (audit'[c][i] = "disable") <=> (i = n + 1 /\ row.status = "disabled")
    BY <2>1, <2>2, <2>3, <2>4
  <2> HIDE DEF n
  <2> QED  BY <2>0, <2>1, <2>3, <2>5, <2>6 DEF Told
<1>2. \A d \in MachineIds \ {c} : Told(d)'
  BY DEF AuditTellsState, Told, OnlyMachine, Ids
<1>3. \A d \in MachineIds : Told(d)'
  BY <1>1, <1>2
<1> QED  BY <1>3 DEF AuditTellsState, Told

----------------------------------------------------------------------------
(* The commands.  A machine client's row stays, appears, or is followed by  *)
(* its next version while it is active.                                     *)
Moves(c) ==
  \/ rows'[c] = rows[c]
  \/ rows[c] = NoRow /\ rows'[c] # NoRow
  \/ /\ rows[c] # NoRow /\ rows'[c] # NoRow
     /\ rows[c].status = "active" /\ rows'[c].version = rows[c].version + 1

LEMMA KnowsKept ==
  ASSUME Types, StoreTypes', NEW p \in Commands, NEW r \in CliRecords, r.id \in MachineIds,
         Moves(r.id), Knows(p, r, rows[r.id])
  PROVE  Knows(p, r, rows'[r.id])
<1> DEFINE row == rows[r.id]
           next == rows'[r.id]
<1>1. row \in MachineRows \cup {NoRow} /\ next \in MachineRows \cup {NoRow}
  BY DEF Types, StoreTypes
<1>2. r.version \in Nat /\ r.seen \in MachineRows \cup {NoRow}
  BY DEF CliRecords
<1>3. /\ row \in MachineRows => row.version \in Nat
      /\ next \in MachineRows => next.version \in Nat
      /\ r.seen \in MachineRows => r.seen.version \in Nat
  BY DEF MachineRows
<1>4. \/ next = row
      \/ row = NoRow /\ next # NoRow
      \/ /\ row # NoRow /\ next # NoRow
         /\ row.status = "active" /\ next.version = row.version + 1
  BY DEF Moves
<1> HIDE DEF row, next
<1>5. Knows(p, r, row) => Knows(p, r, next)
  <2>1. CASE next = row
    BY <2>1
  <2>2. CASE row = NoRow /\ next # NoRow
    BY <2>2 DEF Knows
  <2>3. CASE /\ row # NoRow /\ next # NoRow
             /\ row.status = "active" /\ next.version = row.version + 1
    <3>1. row.version \in Nat /\ next.version = row.version + 1 /\ next # NoRow
      BY <1>1, <1>3, <2>3
    <3>2. "active" # "disabled"
      OBVIOUS
    <3> QED  BY <1>2, <1>3, <2>3, <3>1, <3>2 DEF Knows
  <2> QED  BY <1>4, <2>1, <2>2, <2>3
<1> QED  BY <1>5 DEF row, next

(* One command goes on to the record new, and the store moves on.           *)
LEMMA CommandMoves ==
  ASSUME Types, CommandInv, NEW p \in Commands, NEW new \in CliRecords,
         cli' = [cli EXCEPT ![p] = new], LocalOK(new),
         new.action # "none" => Knows(p, new, rows'[new.id]),
         StoreTypes', \A c \in MachineIds : Moves(c),
         now' \in Nat, finding' \in UserIds \cup {NoRow}
  PROVE  Types' /\ CommandInv'
<1>1. cli' \in [Commands -> CliRecords] /\ cli'[p] = new
  BY DEF Types
<1>2. Types'
  BY <1>1 DEF Types, StoreTypes
<1>3. ASSUME NEW q \in Commands PROVE CommandOK(q)'
  <2>1. CASE q = p
    BY <1>1, <2>1 DEF CommandOK
  <2>2. CASE q # p
    <3>1. cli'[q] = cli[q] /\ cli[q] \in CliRecords
      BY <2>2 DEF Types
    <3>2. CommandOK(q)
      BY DEF CommandInv
    <3>3. LocalOK(cli[q])
      BY <3>2 DEF CommandOK
    <3>4. CASE cli[q].action = "none"
      BY <3>1, <3>3, <3>4 DEF CommandOK
    <3>5. CASE cli[q].action # "none"
      <4>1. cli[q].id \in MachineIds
        BY <3>3, <3>5 DEF LocalOK
      <4>2. Knows(q, cli[q], rows[cli[q].id])
        BY <3>2, <3>5 DEF CommandOK
      <4>3. Knows(q, cli[q], rows'[cli[q].id])
        BY <3>1, <4>1, <4>2, KnowsKept
      <4> QED  BY <3>1, <3>3, <4>3 DEF CommandOK
    <3> QED  BY <3>4, <3>5
  <2> QED  BY <2>1, <2>2
<1> QED  BY <1>2, <1>3 DEF CommandInv

(* No command goes on: the server's steps and the clock.                    *)
LEMMA CommandsStay ==
  ASSUME Types, CommandInv, cli' = cli, StoreTypes', MachinesKept,
         now' \in Nat, finding' \in UserIds \cup {NoRow}
  PROVE  Types' /\ CommandInv'
<1>1. Types'
  BY DEF Types, StoreTypes
<1>2. ASSUME NEW q \in Commands PROVE CommandOK(q)'
  <2>1. CommandOK(q)
    BY DEF CommandInv
  <2>2. cli[q].action # "none" => cli[q].id \in MachineIds
    BY <2>1 DEF CommandOK, LocalOK
  <2> QED  BY <2>1, <2>2 DEF CommandOK, MachinesKept
<1> QED  BY <1>1, <1>2 DEF CommandInv

LEMMA Kept == ASSUME MachinesKept PROVE \A c \in MachineIds : Moves(c)
BY DEF MachinesKept, Moves

LEMMA Quietly ==
  ASSUME Types, UNCHANGED <<rows, audit, now, finding>>
  PROVE  /\ StoreTypes' /\ MachinesKept /\ now' \in Nat /\ finding' \in UserIds \cup {NoRow}
         /\ \A c \in MachineIds : Moves(c)
BY DEF Types, StoreTypes, MachinesKept, Moves

(* What is read is what is stored, when it can be read.                     *)
LEMMA DecodedRow ==
  ASSUME Types, NEW c \in MachineIds
  PROVE  Decoded(c) \in {rows[c], NoRow} /\ Decoded(c) \in MachineRows \cup {NoRow}
BY DEF Decoded, Types

LEMMA OpenKeeps ==
  ASSUME Types, CommandInv, StoreBounded, NEW p \in Commands,
         NEW action \in Actions, NEW c \in MachineIds, Open(p, action, c)
  PROVE  Types' /\ CommandInv' /\ MachinesKept /\ StoreBounded'
<1> DEFINE place == CASE action = "provision" -> "commit"
                      [] action = "list" -> "write"
                      [] OTHER -> "find"
           new == [Idle EXCEPT !.at = place, !.action = action, !.id = c]
<1>1. /\ SweepStaleClients /\ cli' = [cli EXCEPT ![p] = new]
      /\ UNCHANGED <<now, finding>>
  BY DEF Open, world, server
<1>2. StoreTypes' /\ MachinesKept /\ StoreBounded'
  BY <1>1, SweepKeeps
<1>3. now' \in Nat /\ finding' \in UserIds \cup {NoRow}
  BY <1>1 DEF Types
<1>4. /\ place = "commit" => action = "provision"
      /\ place = "find" => action \in Swaps
      /\ place = "write" => action = "list"
      /\ place \in {"commit", "write", "find"}
      /\ action # "none"
  BY DEF Actions, Swaps
<1> HIDE DEF place
<1>5. /\ new.at = place /\ new.action = action /\ new.id = c /\ new.seen = NoRow
      /\ new.version = 0 /\ new.exit = -1 /\ new.verdict = "none"
      /\ new.listening = FALSE /\ new.owed = FALSE /\ new.uncaught = FALSE
  BY DEF Idle
<1>6. new \in CliRecords
  <2>1. place \in Places
    BY <1>4 DEF Places
  <2> QED  BY <2>1 DEF CliRecords, Idle
<1> HIDE DEF new
<1>7. LocalOK(new)
  BY <1>4, <1>5 DEF LocalOK, Credentials, Swaps
<1>8. Knows(p, new, rows'[new.id])
  BY <1>4, <1>5 DEF Knows, Remembers, Swaps
<1> QED  BY <1>1, <1>2, <1>3, <1>6, <1>7, <1>8, Kept, CommandMoves

(* A command's step that leaves the store alone.                            *)
LEMMA CommandAlone ==
  ASSUME Types, CommandInv, NEW p \in Commands, NEW new \in CliRecords,
         cli' = [cli EXCEPT ![p] = new], LocalOK(new),
         new.action # "none" => Knows(p, new, rows[new.id]),
         UNCHANGED <<store, world, server>>
  PROVE  Types' /\ CommandInv'
<1>1. UNCHANGED <<rows, audit, now, finding>>
  BY DEF store, world, server
<1>2. /\ StoreTypes' /\ now' \in Nat /\ finding' \in UserIds \cup {NoRow}
      /\ \A c \in MachineIds : Moves(c)
  BY <1>1, Quietly
<1> QED  BY <1>1, <1>2, CommandMoves

LEMMA CommandFacts ==
  ASSUME Types, CommandInv, NEW p \in Commands
  PROVE  /\ cli[p] \in CliRecords /\ LocalOK(cli[p])
         /\ cli[p].action # "none" => cli[p].id \in MachineIds /\ Knows(p, cli[p], rows[cli[p].id])
<1>1. cli[p] \in CliRecords /\ CommandOK(p)
  BY DEF Types, CommandInv
<1> QED  BY <1>1 DEF CommandOK, LocalOK

(* A command that ends, and says so truthfully.                             *)
LEMMA Ends ==
  ASSUME Types, CommandInv, NEW p \in Commands, NEW code \in {0, 1, 2}, Exit(p, code),
         code = 0 => cli[p].verdict = "ok",
         code = 2 => cli[p].verdict = "failed",
         cli[p].verdict = "none" => cli[p].version = 0,
         ~(code = 1 /\ cli[p].verdict = "failed" /\ cli[p].action \in Credentials),
         UNCHANGED <<store, world, server>>
  PROVE  Types' /\ CommandInv'
<1> DEFINE r == cli[p]
           new == [r EXCEPT !.at = "exited", !.exit = code]
<1>1. /\ r \in CliRecords /\ LocalOK(r)
      /\ r.action # "none" => r.id \in MachineIds /\ Knows(p, r, rows[r.id])
  BY CommandFacts
<1>2. cli' = [cli EXCEPT ![p] = new]
  BY DEF Exit, Types
<1>3. new \in CliRecords
  BY <1>1 DEF CliRecords, Places
<1>4. /\ new.at = "exited" /\ new.exit = code /\ new.action = r.action /\ new.id = r.id
      /\ new.seen = r.seen /\ new.version = r.version /\ new.verdict = r.verdict
      /\ new.listening = r.listening /\ new.owed = r.owed /\ new.uncaught = r.uncaught
  BY <1>1 DEF CliRecords
<1> HIDE DEF new
<1>5. LocalOK(new)
  BY <1>1, <1>4 DEF LocalOK
<1>6. new.action # "none" => Knows(p, new, rows[new.id])
  <2>1. ~Remembers(new) /\ new.at # "disable"
    BY <1>4 DEF Remembers
  <2>2. r.action # "none" =>
          (r.version >= 1 =>
             /\ rows[r.id] # NoRow /\ rows[r.id].version >= r.version
             /\ r.action \in Credentials /\ rows[r.id].version = r.version =>
                  Secret(p, "live") \in rows[r.id].secrets)
    BY <1>1 DEF Knows
  <2> QED  BY <1>4, <2>1, <2>2 DEF Knows
<1> QED  BY <1>2, <1>3, <1>5, <1>6, CommandAlone

(* The steps of a command that leave the store alone.                       *)
LEMMA FindKeeps ==
  ASSUME Types, CommandInv, NEW p \in Commands, Find(p)
  PROVE  Types' /\ CommandInv'
<1> DEFINE r == cli[p]
           row == Decoded(r.id)
<1>1. /\ r \in CliRecords /\ LocalOK(r) /\ r.at = "find"
      /\ r.action # "none" => r.id \in MachineIds /\ Knows(p, r, rows[r.id])
  BY CommandFacts DEF Find, At
<1>2. r.action \in Swaps /\ r.action # "none" /\ r.id \in MachineIds /\ r.verdict = "none"
      /\ r.version = 0 /\ r.exit = -1 /\ ~r.listening /\ ~r.owed /\ ~r.uncaught
  BY <1>1 DEF LocalOK
<1>3. row \in {rows[r.id], NoRow} /\ row \in MachineRows \cup {NoRow}
  BY <1>2, DecodedRow
<1>4. UNCHANGED <<store, world, server>>
  BY DEF Find
<1>5. CASE row # NoRow /\ row.status = "active"
  <2> DEFINE new == [r EXCEPT !.at = "commit", !.seen = row]
  <2>1. cli' = [cli EXCEPT ![p] = new]
    BY <1>5 DEF Find, Types
  <2>2. new \in CliRecords
    BY <1>1, <1>3 DEF CliRecords, Places
  <2>3. /\ new.at = "commit" /\ new.seen = row /\ new.action = r.action /\ new.id = r.id
        /\ new.version = 0 /\ new.verdict = "none" /\ new.exit = -1
        /\ ~new.listening /\ ~new.owed /\ ~new.uncaught
    BY <1>1, <1>2 DEF CliRecords
  <2> HIDE DEF new
  <2>4. LocalOK(new)
    BY <1>2, <2>3 DEF LocalOK, Credentials, Swaps
  <2>5. Knows(p, new, rows[new.id])
    <3>1. rows[new.id] = row /\ row.version \in Nat
      BY <1>3, <1>5, <2>3 DEF MachineRows
    <3> HIDE DEF row
    <3> QED  BY <1>5, <2>3, <3>1 DEF Knows, Remembers
  <2> QED  BY <1>4, <2>1, <2>2, <2>4, <2>5, CommandAlone
<1>6. CASE ~(row # NoRow /\ row.status = "active")
  <2>1. Exit(p, 1)
    BY <1>6 DEF Find
  <2> QED  BY <1>2, <1>4, <2>1, Ends
<1> QED  BY <1>5, <1>6

LEMMA FailsKeeps ==
  ASSUME Types, CommandInv, NEW p \in Commands,
         OpenFails(p) \/ CommitFails(p) \/ DisableFails(p)
  PROVE  Types' /\ CommandInv'
<1>1. LocalOK(cli[p]) /\ UNCHANGED <<store, world, server>>
  BY CommandFacts DEF OpenFails, CommitFails, DisableFails
<1>2. CASE OpenFails(p) \/ CommitFails(p)
  <2>1. Exit(p, 1) /\ cli[p].verdict = "none" /\ cli[p].version = 0
    BY <1>1, <1>2 DEF OpenFails, CommitFails, At, LocalOK
  <2> QED  BY <1>1, <2>1, Ends
<1>3. CASE DisableFails(p)
  <2>1. Exit(p, 2) /\ cli[p].verdict = "failed"
    BY <1>1, <1>3 DEF DisableFails, At, LocalOK
  <2> QED  BY <1>1, <2>1, Ends
<1> QED  BY <1>2, <1>3

LEMMA WriteKeeps ==
  ASSUME Types, CommandInv, NEW p \in Commands,
         Write(p) \/ WriteCalledBack(p) \/ WriteBroke(p)
  PROVE  Types' /\ CommandInv'
<1> DEFINE r == cli[p]
<1>1. /\ r \in CliRecords /\ LocalOK(r) /\ r.at \in {"write", "writing"}
      /\ r.action # "none" => r.id \in MachineIds /\ Knows(p, r, rows[r.id])
  BY CommandFacts DEF Write, WriteCalledBack, WriteBroke, At
<1>2. /\ r.action # "none" /\ r.id \in MachineIds /\ Knows(p, r, rows[r.id])
      /\ r.exit = -1 /\ ~r.uncaught /\ r.verdict = "none"
      /\ r.action \in Credentials => r.version >= 1
  BY <1>1 DEF LocalOK
<1>3. UNCHANGED <<store, world, server>>
  BY DEF Write, WriteCalledBack, WriteBroke
<1>4. ASSUME NEW new \in CliRecords, cli' = [cli EXCEPT ![p] = new],
             new.at \in {"writing", "written"}, new.action = r.action, new.id = r.id,
             new.version = r.version, new.exit = -1, ~new.uncaught,
             new.at = "writing" => new.verdict = "none" /\ new.listening /\ ~new.owed,
             new.at = "written" => new.verdict \in {"ok", "failed"},
             new.owed => new.listening
      PROVE  Types' /\ CommandInv'
  <2>1. LocalOK(new)
    BY <1>2, <1>4 DEF LocalOK
  <2>2. Knows(p, new, rows[new.id])
    BY <1>2, <1>4 DEF Knows, Remembers
  <2> QED  BY <1>3, <1>4, <2>1, <2>2, CommandAlone
<1>5. CASE Write(p)
  <2> DEFINE new == [r EXCEPT !.at = "writing", !.listening = TRUE]
  <2>1. cli' = [cli EXCEPT ![p] = new] /\ r.at = "write"
    BY <1>5 DEF Write, At, Types
  <2>2. new \in CliRecords
    BY <1>1 DEF CliRecords, Places
  <2>3. /\ new.at = "writing" /\ new.action = r.action /\ new.id = r.id
        /\ new.version = r.version /\ new.exit = -1 /\ ~new.uncaught
        /\ new.verdict = "none" /\ new.listening /\ ~new.owed
    BY <1>1, <1>2, <2>1 DEF CliRecords, LocalOK
  <2> HIDE DEF new
  <2> QED  BY <1>4, <2>1, <2>2, <2>3
<1>6. ASSUME NEW ok \in BOOLEAN, WriteCalledBack(p), Callback(p, ok)
      PROVE  Types' /\ CommandInv'
  <2> DEFINE new == [r EXCEPT !.at = "written", !.verdict = IF ok THEN "ok" ELSE "failed",
                              !.owed = ~ok]
  <2>1. cli' = [cli EXCEPT ![p] = new] /\ r.at = "writing"
    BY <1>6 DEF WriteCalledBack, Callback, At, Types
  <2>2. new \in CliRecords
    BY <1>1 DEF CliRecords, Places
  <2>3. /\ new.at = "written" /\ new.action = r.action /\ new.id = r.id
        /\ new.version = r.version /\ new.exit = -1 /\ ~new.uncaught
        /\ new.verdict \in {"ok", "failed"} /\ new.listening
    BY <1>1, <1>2, <2>1 DEF CliRecords, LocalOK
  <2> HIDE DEF new
  <2> QED  BY <1>4, <2>1, <2>2, <2>3
<1>7. CASE WriteBroke(p)
  <2> DEFINE new == [r EXCEPT !.at = "written", !.verdict = "failed", !.listening = FALSE]
  <2>1. cli' = [cli EXCEPT ![p] = new] /\ r.at = "writing"
    BY <1>7 DEF WriteBroke, At, Types
  <2>2. new \in CliRecords
    BY <1>1 DEF CliRecords, Places
  <2>3. /\ new.at = "written" /\ new.action = r.action /\ new.id = r.id
        /\ new.version = r.version /\ new.exit = -1 /\ ~new.uncaught
        /\ new.verdict = "failed" /\ ~new.owed
    BY <1>1, <1>2, <2>1 DEF CliRecords, LocalOK
  <2> HIDE DEF new
  <2> QED  BY <1>4, <2>1, <2>2, <2>3
<1> QED  BY <1>5, <1>6, <1>7 DEF WriteCalledBack

(* The listeners' ends, and the kill: nothing a command knows changes.      *)
LEMMA AsideKeeps ==
  ASSUME Types, CommandInv, NEW p \in Commands, LateError(p) \/ Cleanup(p) \/ Killed(p)
  PROVE  Types' /\ CommandInv'
<1> DEFINE r == cli[p]
<1>1. /\ r \in CliRecords /\ LocalOK(r)
      /\ r.action # "none" => r.id \in MachineIds /\ Knows(p, r, rows[r.id])
  BY CommandFacts
<1>2. UNCHANGED <<store, world, server>>
  BY DEF LateError, Cleanup, Killed
<1>3. ASSUME NEW new \in CliRecords, cli' = [cli EXCEPT ![p] = new],
             new.at = r.at, new.action = r.action, new.id = r.id, new.seen = r.seen,
             new.version = r.version, new.exit = r.exit, new.verdict = r.verdict,
             ~new.uncaught, new.owed => new.listening, r.at # "writing",
             r.at \in {"idle", "find", "commit", "write"} => ~new.listening
      PROVE  Types' /\ CommandInv'
  <2>1. LocalOK(new)
    BY <1>1, <1>3 DEF LocalOK
  <2>2. new.action # "none" => Knows(p, new, rows[new.id])
    <3>1. Remembers(new) <=> Remembers(r)
      BY <1>3 DEF Remembers
    <3> QED  BY <1>1, <1>3, <3>1 DEF Knows
  <2> QED  BY <1>2, <1>3, <2>1, <2>2, CommandAlone
<1>4. CASE LateError(p)
  <2> DEFINE new == [r EXCEPT !.owed = FALSE, !.uncaught = ~r.listening, !.listening = FALSE]
  <2>1. cli' = [cli EXCEPT ![p] = new] /\ r.owed /\ r.listening
    BY <1>1, <1>4 DEF LateError, Types, LocalOK
  <2>2. new \in CliRecords
    BY <1>1 DEF CliRecords
  <2>3. /\ new.at = r.at /\ new.action = r.action /\ new.id = r.id /\ new.seen = r.seen
        /\ new.version = r.version /\ new.exit = r.exit /\ new.verdict = r.verdict
        /\ ~new.uncaught /\ ~new.owed /\ ~new.listening
    BY <1>1, <2>1 DEF CliRecords
  <2>4. r.at # "writing"
    BY <1>1, <2>1 DEF LocalOK
  <2> HIDE DEF new
  <2> QED  BY <1>3, <2>1, <2>2, <2>3, <2>4
<1>5. CASE Cleanup(p)
  <2> DEFINE new == [r EXCEPT !.listening = FALSE]
  <2>1. cli' = [cli EXCEPT ![p] = new] /\ ~r.owed /\ r.at # "writing"
    BY <1>5 DEF Cleanup, Types, At
  <2>2. new \in CliRecords
    BY <1>1 DEF CliRecords
  <2>3. /\ new.at = r.at /\ new.action = r.action /\ new.id = r.id /\ new.seen = r.seen
        /\ new.version = r.version /\ new.exit = r.exit /\ new.verdict = r.verdict
        /\ ~new.uncaught /\ ~new.owed /\ ~new.listening
    BY <1>1, <2>1 DEF CliRecords, LocalOK
  <2> HIDE DEF new
  <2> QED  BY <1>3, <2>1, <2>2, <2>3
<1>6. CASE Killed(p)
  <2> DEFINE new == [r EXCEPT !.at = "killed"]
  <2>1. /\ cli' = [cli EXCEPT ![p] = new] /\ r.at \notin {"exited", "killed", "idle"}
    BY <1>6 DEF Killed, Go, Types, Ended
  <2>2. new \in CliRecords
    BY <1>1 DEF CliRecords, Places
  <2>3. /\ new.at = "killed" /\ new.action = r.action /\ new.id = r.id /\ new.seen = r.seen
        /\ new.version = r.version /\ new.exit = r.exit /\ new.verdict = r.verdict
        /\ new.uncaught = r.uncaught /\ new.owed = r.owed /\ new.listening = r.listening
    BY <1>1 DEF CliRecords
  <2> HIDE DEF new
  <2>4. LocalOK(new)
    BY <1>1, <2>1, <2>3 DEF LocalOK
  <2>5. new.action # "none" => Knows(p, new, rows[new.id])
    <3>1. ~Remembers(new)
      BY <2>3 DEF Remembers
    <3> QED  BY <1>1, <2>3, <3>1 DEF Knows
  <2> QED  BY <1>2, <2>1, <2>2, <2>4, <2>5, CommandAlone
<1> QED  BY <1>4, <1>5, <1>6

LEMMA SettleKeeps ==
  ASSUME Types, CommandInv, NEW p \in Commands, Settle(p)
  PROVE  Types' /\ CommandInv'
<1> DEFINE r == cli[p]
<1>1. /\ r \in CliRecords /\ LocalOK(r) /\ r.at = "written"
      /\ r.action # "none" => r.id \in MachineIds /\ Knows(p, r, rows[r.id])
  BY CommandFacts DEF Settle, At
<1>2. UNCHANGED <<store, world, server>> /\ r.verdict \in {"ok", "failed"}
  BY <1>1 DEF Settle, LocalOK
<1>3. CASE r.verdict = "ok"
  <2>1. PICK code \in {0, 1} : Exit(p, code)
    BY <1>3 DEF Settle
  <2> QED  BY <1>2, <1>3, <2>1, Ends
<1>4. CASE r.verdict = "failed" /\ r.action \notin Credentials
  <2>1. Exit(p, 1)
    BY <1>4 DEF Settle, Credential, Credentials
  <2> QED  BY <1>2, <1>4, <2>1, Ends
<1>5. CASE r.verdict = "failed" /\ r.action \in Credentials
  <2> DEFINE new == [r EXCEPT !.at = "compensate"]
  <2>1. cli' = [cli EXCEPT ![p] = new]
    BY <1>5 DEF Settle, Credential, Credentials, Go, Types
  <2>2. new \in CliRecords
    BY <1>1 DEF CliRecords, Places
  <2>3. /\ new.at = "compensate" /\ new.action = r.action /\ new.id = r.id /\ new.seen = r.seen
        /\ new.version = r.version /\ new.exit = r.exit /\ new.verdict = r.verdict
        /\ new.uncaught = r.uncaught /\ new.owed = r.owed /\ new.listening = r.listening
    BY <1>1 DEF CliRecords
  <2> HIDE DEF new
  <2>4. LocalOK(new)
    BY <1>1, <1>5, <2>3 DEF LocalOK
  <2>5. new.action # "none" => Knows(p, new, rows[new.id])
    <3>1. ~Remembers(new)
      BY <2>3 DEF Remembers
    <3> QED  BY <1>1, <2>3, <3>1 DEF Knows
  <2> QED  BY <1>2, <2>1, <2>2, <2>4, <2>5, CommandAlone
<1> QED  BY <1>2, <1>3, <1>4, <1>5

LEMMA CompensateKeeps ==
  ASSUME Types, CommandInv, NEW p \in Commands, Compensate(p)
  PROVE  Types' /\ CommandInv'
<1> DEFINE r == cli[p]
           row == Decoded(r.id)
<1>1. /\ r \in CliRecords /\ LocalOK(r) /\ r.at = "compensate"
      /\ r.action # "none" => r.id \in MachineIds /\ Knows(p, r, rows[r.id])
  BY CommandFacts DEF Compensate, At
<1>2. /\ r.action \in Credentials /\ r.action # "none" /\ r.id \in MachineIds
      /\ r.verdict = "failed" /\ r.version >= 1 /\ r.exit = -1
  BY <1>1 DEF LocalOK
<1>3. row \in {rows[r.id], NoRow} /\ row \in MachineRows \cup {NoRow}
  BY <1>2, DecodedRow
<1>4. UNCHANGED <<store, world, server>>
  BY DEF Compensate
<1>5. CASE IsExactActive(row, r.version)
  <2> DEFINE new == [r EXCEPT !.at = "disable", !.seen = row]
  <2>1. cli' = [cli EXCEPT ![p] = new]
    BY <1>5 DEF Compensate, Types
  <2>2. new \in CliRecords
    BY <1>1, <1>3 DEF CliRecords, Places
  <2>3. /\ new.at = "disable" /\ new.action = r.action /\ new.id = r.id /\ new.seen = row
        /\ new.version = r.version /\ new.exit = r.exit /\ new.verdict = r.verdict
        /\ new.uncaught = r.uncaught /\ new.owed = r.owed /\ new.listening = r.listening
    BY <1>1 DEF CliRecords
  <2> HIDE DEF new
  <2>4. LocalOK(new)
    BY <1>1, <2>3 DEF LocalOK
  <2>5. Knows(p, new, rows[new.id])
    <3>1. /\ rows[new.id] = row /\ row # NoRow /\ row.status = "active"
          /\ row.version = r.version /\ row.version \in Nat
      BY <1>3, <1>5, <2>3 DEF IsExactActive, MachineRows
    <3>2. Knows(p, r, rows[r.id])
      BY <1>1, <1>2
    <3> HIDE DEF row
    <3> QED  BY <2>3, <3>1, <3>2 DEF Knows, Remembers
  <2> QED  BY <1>4, <2>1, <2>2, <2>4, <2>5, CommandAlone
<1>6. CASE ~IsExactActive(row, r.version)
  <2>1. Exit(p, 2)
    BY <1>6 DEF Compensate
  <2> QED  BY <1>2, <1>4, <2>1, Ends
<1> QED  BY <1>5, <1>6

----------------------------------------------------------------------------
(* The steps that change a machine client, with its audit.                  *)
LEMMA MakersSecret ==
  ASSUME NEW p \in Commands, NEW ends \in {"live", "grace"}
  PROVE  Secret(p, ends) \in StoredSecrets
BY DEF Secret, StoredSecrets

LEMMA ProvisionKeeps ==
  ASSUME StoreInv, NEW p \in Commands, Commit(p), cli[p].action = "provision"
  PROVE  StoreInv'
<1> DEFINE r == cli[p]
           c == r.id
           secret == Secret(p, "live")
           new == [r EXCEPT !.at = "write", !.version = 1]
<1>1. /\ Types /\ CommandInv /\ AuditTellsState /\ StoreBounded
      /\ r \in CliRecords /\ LocalOK(r) /\ r.at = "commit" /\ c \in MachineIds
  <2>1. Types /\ CommandInv /\ AuditTellsState /\ StoreBounded
    BY DEF StoreInv
  <2> QED  BY <2>1, CommandFacts DEF Commit, At
<1>2. /\ CreateMachineClient(c, secret)
      /\ cli' = [cli EXCEPT ![p] = new]
      /\ UNCHANGED <<now, finding>>
  BY <1>1 DEF Commit, Types, world, server
<1>3. secret \in StoredSecrets
  BY MakersSecret
<1>4. /\ StoreTypes' /\ StoreBounded' /\ OnlyMachine(c)
      /\ rows[c] = NoRow /\ rows'[c] = Machine("active", 1, {secret})
      /\ audit'[c] = Append(audit[c], "provision")
  BY <1>1, <1>2, <1>3, CreateKeeps
<1>5. AuditTellsState'
  BY <1>1, <1>3, <1>4, AuditCreated
<1>6. rows'[c] # NoRow /\ rows'[c].version = 1 /\ secret \in rows'[c].secrets
  <2>1. Machine("active", 1, {secret}) \in MachineRows
    BY <1>3 DEF Machine, MachineRows
  <2>2. /\ Machine("active", 1, {secret}).version = 1
        /\ secret \in Machine("active", 1, {secret}).secrets
    BY DEF Machine
  <2>3. Machine("active", 1, {secret}) # NoRow
    BY <2>1, StoreAssumption
  <2> HIDE DEF secret
  <2> QED  BY <1>4, <2>2, <2>3
<1>7. \A d \in MachineIds : Moves(d)
  BY <1>4, <1>6 DEF OnlyMachine, Moves, Ids
<1>8. new \in CliRecords
  BY <1>1 DEF CliRecords, Places
<1>9. /\ new.at = "write" /\ new.action = "provision" /\ new.id = c /\ new.seen = r.seen
      /\ new.version = 1 /\ new.exit = r.exit /\ new.verdict = r.verdict
      /\ new.uncaught = r.uncaught /\ new.owed = r.owed /\ new.listening = r.listening
  BY <1>1 DEF CliRecords
<1> HIDE DEF new
<1>10. LocalOK(new)
  BY <1>1, <1>9 DEF LocalOK, Credentials
<1>11. Knows(p, new, rows'[new.id])
  BY <1>6, <1>9 DEF Knows, Remembers
<1>12. now' \in Nat /\ finding' \in UserIds \cup {NoRow}
  BY <1>1, <1>2 DEF Types
<1>13. Types' /\ CommandInv'
  BY <1>1, <1>2, <1>4, <1>7, <1>8, <1>10, <1>11, <1>12, CommandMoves
<1> QED  BY <1>4, <1>5, <1>13 DEF StoreInv

(* A swap by a command that remembers the row it replaces.                  *)
LEMMA RememberedSwap ==
  ASSUME StoreInv, NEW p \in Commands, Remembers(cli[p]),
         NEW row \in MachineRows, NEW e \in {"rotate", "disable"},
         CompareAndSwap(cli[p].id, cli[p].seen.version, row, e),
         row.version = cli[p].seen.version + 1, e = "disable" <=> row.status = "disabled",
         NEW new \in CliRecords, cli' = [cli EXCEPT ![p] = new],
         LocalOK(new), new.action = cli[p].action, new.id = cli[p].id, ~Remembers(new),
         new.version <= row.version,
         new.version = row.version /\ new.action \in Credentials =>
           Secret(p, "live") \in row.secrets,
         new.at = "exited" => row.status = "disabled",
         UNCHANGED <<now, finding>>
  PROVE  StoreInv'
<1> DEFINE r == cli[p]
           c == r.id
<1>1. /\ Types /\ CommandInv /\ AuditTellsState /\ StoreBounded
      /\ r \in CliRecords /\ LocalOK(r)
      /\ r.action # "none" => c \in MachineIds /\ Knows(p, r, rows[c])
  <2>1. Types /\ CommandInv /\ AuditTellsState /\ StoreBounded
    BY DEF StoreInv
  <2> QED  BY <2>1, CommandFacts
<1>2. r.action # "none"
  BY <1>1 DEF Remembers, LocalOK
<1>3. c \in MachineIds /\ Knows(p, r, rows[c])
  BY <1>1, <1>2
<1>4. /\ r.seen # NoRow /\ r.seen.status = "active"
      /\ rows[c].version = r.seen.version => rows[c] = r.seen
  BY <1>3 DEF Knows
<1>5. rows[c].version = r.seen.version
  BY DEF CompareAndSwap, Swappable
<1>6. rows[c].status = "active"
  BY <1>4, <1>5
<1>7. /\ StoreTypes' /\ StoreBounded' /\ OnlyMachine(c)
      /\ rows[c] # NoRow /\ rows'[c] = row
      /\ audit'[c] = Append(audit[c], e) /\ ValidMachine(row)
  BY <1>1, <1>3, <1>6, SwapKeeps DEF Events
<1>8. AuditTellsState'
  BY <1>1, <1>3, <1>5, <1>6, <1>7, AuditSwapped
<1>9. row # NoRow /\ row.version \in Nat
  BY StoreAssumption DEF MachineRows
<1>10. \A d \in MachineIds : Moves(d)
  BY <1>5, <1>6, <1>7, <1>9 DEF OnlyMachine, Moves, Ids
<1>11. Knows(p, new, row)
  <2>1. new.at # "disable" /\ new.version \in Nat
    BY DEF Remembers, CliRecords
  <2> QED  BY <1>9, <2>1 DEF Knows
<1>12. now' \in Nat /\ finding' \in UserIds \cup {NoRow}
  BY <1>1 DEF Types
<1>13. Types' /\ CommandInv'
  BY <1>1, <1>7, <1>10, <1>11, <1>12, CommandMoves
<1> QED  BY <1>7, <1>8, <1>13 DEF StoreInv

LEMMA CommitKeeps ==
  ASSUME StoreInv, NEW p \in Commands, Commit(p)
  PROVE  StoreInv'
<1> DEFINE r == cli[p]
           new == [r EXCEPT !.at = "write", !.version = r.seen.version + 1]
           row == Changed(p)
<1>1. /\ Types /\ r \in CliRecords /\ LocalOK(r) /\ r.at = "commit"
      /\ r.action # "none" => r.id \in MachineIds /\ Knows(p, r, rows[r.id])
  <2>1. Types /\ CommandInv
    BY DEF StoreInv
  <2> QED  BY <2>1, CommandFacts DEF Commit, At
<1>2. r.action \in Credentials \cup Swaps
  BY <1>1 DEF LocalOK
<1>3. CASE r.action = "provision"
  BY <1>3, ProvisionKeeps
<1>4. CASE r.action \in Swaps
  <2>1. Remembers(r) /\ r.action # "provision" /\ r.action # "none"
    BY <1>1, <1>4 DEF Remembers, Swaps
  <2>2. /\ CompareAndSwap(r.id, r.seen.version, row, r.action)
        /\ cli' = [cli EXCEPT ![p] = new] /\ UNCHANGED <<now, finding>>
    BY <1>1, <2>1 DEF Commit, Types, world, server
  <2>3. r.seen \in MachineRows
    BY <1>1, <2>1 DEF Knows, CliRecords
  <2>4. r.seen.version \in Nat /\ r.seen.secrets \subseteq StoredSecrets
    BY <2>3 DEF MachineRows
  <2>5. /\ row \in MachineRows /\ row.version = r.seen.version + 1
        /\ row.status = (IF r.action = "rotate" THEN "active" ELSE "disabled")
        /\ r.action = "rotate" => Secret(p, "live") \in row.secrets
    <3>1. Graced(r.seen.secrets) \subseteq StoredSecrets
      BY <2>4 DEF Graced, Secret, StoredSecrets
    <3>2. Graced(r.seen.secrets) \cup {Secret(p, "live")} \subseteq StoredSecrets
      BY <3>1, MakersSecret
    <3> QED  BY <2>4, <3>2 DEF Changed, Machine, MachineRows
  <2> HIDE DEF row
  <2>6. new \in CliRecords
    <3> DEFINE v == r.seen.version + 1
    <3>1. v \in Nat
      BY <2>4
    <3> HIDE DEF v
    <3>2. [r EXCEPT !.at = "write", !.version = v] \in CliRecords
      BY <1>1, <3>1 DEF CliRecords, Places
    <3> QED  BY <3>2 DEF v
  <2>7. /\ new.at = "write" /\ new.action = r.action /\ new.id = r.id /\ new.seen = r.seen
        /\ new.version = r.seen.version + 1 /\ new.exit = r.exit /\ new.verdict = r.verdict
        /\ new.uncaught = r.uncaught /\ new.owed = r.owed /\ new.listening = r.listening
    BY <1>1, <2>4 DEF CliRecords
  <2> HIDE DEF new
  <2>8. LocalOK(new)
    BY <1>1, <2>4, <2>7 DEF LocalOK
  <2>9. /\ ~Remembers(new) /\ new.version <= row.version /\ new.at # "exited"
        /\ (new.action \in Credentials => Secret(p, "live") \in row.secrets)
    BY <1>4, <2>4, <2>5, <2>7 DEF Remembers, Credentials, Swaps
  <2>10. /\ r.action \in {"rotate", "disable"}
         /\ r.action = "disable" <=> row.status = "disabled"
    BY <1>4, <2>5 DEF Swaps
  <2> QED  BY <2>1, <2>2, <2>5, <2>6, <2>7, <2>8, <2>9, <2>10, RememberedSwap
<1> QED  BY <1>2, <1>3, <1>4 DEF Credentials, Swaps

LEMMA DisableKeeps ==
  ASSUME StoreInv, NEW p \in Commands, Disable(p)
  PROVE  StoreInv'
<1> DEFINE r == cli[p]
           new == [r EXCEPT !.at = "exited", !.exit = 1]
           row == Machine("disabled", r.seen.version + 1, {})
<1>1. /\ Types /\ r \in CliRecords /\ LocalOK(r) /\ r.at = "disable"
      /\ r.action # "none" => r.id \in MachineIds /\ Knows(p, r, rows[r.id])
  <2>1. Types /\ CommandInv
    BY DEF StoreInv
  <2> QED  BY <2>1, CommandFacts DEF Disable, At
<1>2. r.action \in Credentials /\ r.action # "none" /\ r.verdict = "failed" /\ r.version >= 1
  BY <1>1 DEF LocalOK, Credentials
<1>3. Remembers(r) /\ r.seen \in MachineRows /\ r.seen.version = r.version
  BY <1>1, <1>2 DEF Remembers, Knows, CliRecords
<1>4. r.seen.version \in Nat
  BY <1>3 DEF MachineRows
<1>5. /\ CompareAndSwap(r.id, r.seen.version, row, "disable")
      /\ cli' = [cli EXCEPT ![p] = new] /\ UNCHANGED <<now, finding>>
  BY <1>1, <1>3 DEF Disable, Exit, Types, world, server
<1>6. row \in MachineRows /\ row.version = r.seen.version + 1 /\ row.status = "disabled"
  BY <1>4 DEF Machine, MachineRows
<1> HIDE DEF row
<1>7. new \in CliRecords
  BY <1>1 DEF CliRecords, Places
<1>8. /\ new.at = "exited" /\ new.action = r.action /\ new.id = r.id /\ new.exit = 1
      /\ new.version = r.version /\ new.verdict = r.verdict
      /\ new.uncaught = r.uncaught /\ new.owed = r.owed /\ new.listening = r.listening
  BY <1>1 DEF CliRecords
<1> HIDE DEF new
<1>9. LocalOK(new)
  BY <1>1, <1>2, <1>8 DEF LocalOK
<1>10. ~Remembers(new) /\ new.version <= row.version /\ new.version # row.version
  BY <1>3, <1>4, <1>6, <1>8 DEF Remembers
<1> QED  BY <1>3, <1>5, <1>6, <1>7, <1>8, <1>9, <1>10, RememberedSwap

----------------------------------------------------------------------------
LEMMA CommandKeeps ==
  ASSUME StoreInv, NEW p \in Commands,
         \/ \E action \in Actions, c \in MachineIds : Open(p, action, c)
         \/ OpenFails(p) \/ CommandStep(p) \/ LateError(p) \/ Cleanup(p) \/ Killed(p)
  PROVE  StoreInv'
<1>1. Types /\ CommandInv /\ AuditTellsState /\ StoreBounded
  BY DEF StoreInv
<1>2. CASE \E action \in Actions, c \in MachineIds : Open(p, action, c)
  BY <1>1, <1>2, OpenKeeps, AuditKept DEF StoreInv
<1>3. CASE Commit(p) \/ Disable(p)
  BY <1>3, CommitKeeps, DisableKeeps
<1>4. CASE \/ OpenFails(p) \/ Find(p) \/ CommitFails(p) \/ Write(p) \/ WriteCalledBack(p)
           \/ WriteBroke(p) \/ Settle(p) \/ Compensate(p) \/ DisableFails(p)
           \/ LateError(p) \/ Cleanup(p) \/ Killed(p)
  <2>1. Types' /\ CommandInv'
    BY <1>1, <1>4, FindKeeps, FailsKeeps, WriteKeeps, AsideKeeps, SettleKeeps, CompensateKeeps
  <2>2. UNCHANGED <<rows, audit>>
    BY <1>4 DEF OpenFails, Find, CommitFails, Write, WriteCalledBack, WriteBroke, Settle,
                Compensate, DisableFails, LateError, Cleanup, Killed, store
  <2>3. AuditTellsState' /\ StoreBounded'
    BY <1>1, <2>2 DEF AuditTellsState, ValidMachine, StoreBounded, Stored, StoredUsers,
                      ActiveMachines
  <2> QED  BY <2>1, <2>3 DEF StoreInv
<1> QED  BY <1>2, <1>3, <1>4 DEF CommandStep

LEMMA ServerKeeps ==
  ASSUME StoreInv,
         \/ \E c \in UserIds, uri \in Redirects : ServerSave(c, uri)
         \/ \E c \in UserIds : ServerFind(c)
         \/ ServerTouch \/ ServerSweep
         \/ \E policy \in SUBSET Redirects : Restart(policy)
         \/ Tick
  PROVE  StoreInv'
<1>1. Types /\ CommandInv /\ AuditTellsState /\ StoreBounded
  BY DEF StoreInv
<1>2. /\ StoreTypes' /\ MachinesKept /\ StoreBounded' /\ cli' = cli
      /\ now' \in Nat /\ finding' \in UserIds \cup {NoRow}
  <2>1. ASSUME NEW c \in UserIds, NEW uri \in Redirects, ServerSave(c, uri) PROVE <1>2!:
    <3>1. SaveNew(c, uri) \/ SweepStaleClients
      BY <2>1 DEF ServerSave, SaveAgain
    <3>2. cli' = cli /\ now' \in Nat /\ finding' \in UserIds \cup {NoRow}
      BY <1>1, <2>1 DEF ServerSave, world, server, Types
    <3> QED  BY <1>1, <3>1, <3>2, SaveNewKeeps, SweepKeeps
  <2>2. CASE ServerTouch
    <3>1. finding \in UserIds /\ Touch(finding) /\ UNCHANGED <<cli, now>> /\ finding' = NoRow
      BY <1>1, <2>2 DEF ServerTouch, world, Types
    <3> QED  BY <1>1, <3>1, TouchKeeps DEF Types
  <2>3. CASE ServerSweep
    BY <1>1, <2>3, SweepKeeps DEF ServerSweep, world, server, Types
  <2>4. ASSUME NEW policy \in SUBSET Redirects, Restart(policy) PROVE <1>2!:
    <3>1. SweepStaleClients /\ finding' = NoRow /\ now' = now /\ cli' = cli
      BY <2>4 DEF Restart
    <3> QED  BY <1>1, <3>1, SweepKeeps DEF Types
  <2>5. ASSUME NEW c \in UserIds, ServerFind(c) PROVE <1>2!:
    <3>1. UNCHANGED <<rows, audit, now, cli>> /\ finding' = c
      BY <2>5 DEF ServerFind, store, world
    <3> QED  BY <1>1, <3>1 DEF Types, StoreTypes, MachinesKept, StoreBounded, Stored,
                               StoredUsers, ActiveMachines
  <2>6. CASE Tick
    <3>1. UNCHANGED <<rows, audit, cli, finding>> /\ now' = now + 1
      BY <2>6 DEF Tick, store, server
    <3> QED  BY <1>1, <3>1 DEF Types, StoreTypes, MachinesKept, StoreBounded, Stored,
                               StoredUsers, ActiveMachines
  <2> QED  BY <2>1, <2>2, <2>3, <2>4, <2>5, <2>6
<1>3. Types' /\ CommandInv'
  BY <1>1, <1>2, CommandsStay
<1>4. AuditTellsState'
  BY <1>1, <1>2, AuditKept
<1> QED  BY <1>2, <1>3, <1>4 DEF StoreInv

LEMMA StoreInitially == Init => StoreInv
<1> SUFFICES ASSUME Init PROVE StoreInv
  OBVIOUS
<1> DEFINE first == Machine("active", 1, {Secret("earlier", "live")})
<1>1. first \in MachineRows /\ first # NoRow /\ first.version = 1 /\ first.status = "active"
      /\ first.secrets = {Secret("earlier", "live")}
  <2>1. Secret("earlier", "live") \in StoredSecrets
    BY DEF Secret, StoredSecrets
  <2>2. first \in MachineRows
    BY <2>1 DEF Machine, MachineRows
  <2> QED  BY <2>2, StoreAssumption DEF Machine
<1>2. /\ rows = [c \in Ids |-> IF c \in Provisioned THEN first ELSE NoRow]
      /\ audit = [c \in MachineIds |-> IF c \in Provisioned THEN <<"provision">> ELSE <<>>]
      /\ now = 0 /\ finding = NoRow /\ cli = [p \in Commands |-> Idle]
  BY DEF Init, StoreInit
<1>3. ValidMachine(first)
  <2>1. Cardinality({Secret("earlier", "live")}) = 1
    BY FS_Singleton
  <2>2. Cardinality({Secret("earlier", "live")}) \in 1..2
        /\ Cardinality({Secret("earlier", "live")}) # 2
    BY <2>1
  <2>3. SecretsValid("active", {Secret("earlier", "live")})
    BY <2>2 DEF SecretsValid
  <2> HIDE DEF first
  <2>4. ValidMachine(first) <=> first.version >= 1
                                /\ SecretsValid("active", {Secret("earlier", "live")})
    BY <1>1, Zenon DEF ValidMachine
  <2> QED  BY <1>1, <2>3, <2>4
<1> HIDE DEF first
<1>4. Provisioned \subseteq MachineIds /\ UserIds \cap MachineIds = {} /\ MachineIds \subseteq Ids
      /\ UserIds \subseteq Ids
  BY StoreAssumption DEF Ids
<1>5. Types
  <2>1. Idle \in CliRecords
    BY DEF Idle, CliRecords, Places
  <2>2. <<"provision">> \in Seq(Events) /\ <<>> \in Seq(Events)
    BY DEF Events
  <2>3. audit \in [MachineIds -> Seq(Events)]
    BY <1>2, <2>2
  <2>4. rows \in [Ids -> UserRows \cup MachineRows \cup {NoRow}]
    BY <1>1, <1>2
  <2>5. /\ \A c \in UserIds : rows[c] \in UserRows \cup {NoRow}
        /\ \A c \in MachineIds : rows[c] \in MachineRows \cup {NoRow}
    BY <1>1, <1>2, <1>4
  <2> QED  BY <1>2, <2>1, <2>3, <2>4, <2>5 DEF Types
<1>6. CommandInv
  <2>1. LocalOK(Idle)
    BY DEF LocalOK, Idle
  <2>2. Idle.action = "none"
    BY DEF Idle
  <2> QED  BY <1>2, <2>1, <2>2 DEF CommandInv, CommandOK
<1>7. AuditTellsState
  <2> SUFFICES ASSUME NEW c \in MachineIds PROVE Told(c)
    BY DEF AuditTellsState, Told
  <2>1. CASE c \in Provisioned
    <3>1. rows[c] = first /\ audit[c] = <<"provision">>
      BY <1>2, <1>4, <2>1
    <3>2. Len(audit[c]) = 1 /\ audit[c][1] = "provision"
      BY <3>1
    <3>3. \A i \in 1..1 : i = 1
      OBVIOUS
    <3> QED  BY <1>1, <1>3, <3>1, <3>2, <3>3 DEF Told
  <2>2. CASE c \notin Provisioned
    BY <1>2, <1>4, <2>2 DEF Told
  <2> QED  BY <2>1, <2>2
<1>8. StoreBounded
  <2>1. Stored = Provisioned /\ StoredUsers = {} /\ ActiveMachines \subseteq Provisioned
    BY <1>1, <1>2, <1>4 DEF Stored, StoredUsers, ActiveMachines
  <2>2. IsFiniteSet(Provisioned)
    BY StoreAssumption, FS_Subset
  <2>3. Cardinality(ActiveMachines) <= Cardinality(Provisioned)
        /\ Cardinality(ActiveMachines) \in Nat /\ Cardinality(Provisioned) \in Nat
    BY <2>1, <2>2, FS_Subset, FS_CardinalityType
  <2>4. Cardinality(StoredUsers) = 0
    BY <2>1, FS_EmptySet
  <2> QED  BY <2>1, <2>3, <2>4, StoreAssumption DEF StoreBounded
<1> QED  BY <1>5, <1>6, <1>7, <1>8 DEF StoreInv

(* The store and the commands keep StoreInv whatever comes next.            *)
LEMMA StoreInductive == StoreInv /\ [Next]_vars => StoreInv'
<1> SUFFICES ASSUME StoreInv, [Next]_vars PROVE StoreInv'
  OBVIOUS
<1>1. CASE Quiet \/ UNCHANGED vars
  <2>1. UNCHANGED vars
    BY <1>1 DEF Quiet
  <2> QED  BY <2>1 DEF vars, StoreInv, Types, CommandInv, CommandOK, AuditTellsState,
                       ValidMachine, StoreBounded, Stored, StoredUsers, ActiveMachines
<1> QED  BY <1>1, CommandKeeps, ServerKeeps DEF Next

LEMMA StoreInvariant == Spec => []StoreInv
BY StoreInitially, StoreInductive, PTL DEF Spec

(* The caps of the store hold for any number of clients, commands and       *)
(* server processes: an insert makes its room first, in its transaction     *)
(* (save, createMachineClient), and a swap revives nobody.                  *)
THEOREM CapsHold == Spec => []StoreBounded
<1>1. StoreInv => StoreBounded
  BY DEF StoreInv
<1> QED  BY <1>1, StoreInvariant, PTL

(* The audit of every machine client tells its history, version by version, *)
(* and what is stored can be read back: a compare-and-swap replaces only    *)
(* the version its command has read (compareAndSwapMachineClient).          *)
THEOREM AuditTells == Spec => []AuditTellsState
<1>1. StoreInv => AuditTellsState
  BY DEF StoreInv
<1> QED  BY <1>1, StoreInvariant, PTL

(* An exit code says what is true of the store for ever after, however the  *)
(* stream fails and whoever changes the client meanwhile (machine-client.ts *)
(* and machine-client-stream.ts).                                           *)
THEOREM ExitCodesTruthful == Spec => []ExitTruthful
<1>1. StoreInv => ExitTruthful
  <2> SUFFICES ASSUME StoreInv, NEW p \in Commands, At(p, "exited")
               PROVE  /\ cli[p].exit = 0 => cli[p].verdict = "ok"
                      /\ cli[p].exit = 2 => cli[p].verdict = "failed"
                      /\ cli[p].exit = 1 /\ cli[p].verdict = "failed" /\ Credential(p) =>
                           rows[cli[p].id].status = "disabled"
                      /\ cli[p].verdict = "none" => cli[p].version = 0
                      /\ ~cli[p].uncaught
    BY DEF ExitTruthful
  <2>1. Types /\ CommandInv
    BY DEF StoreInv
  <2>2. /\ LocalOK(cli[p]) /\ cli[p].at = "exited"
        /\ cli[p].action # "none" => Knows(p, cli[p], rows[cli[p].id])
    BY <2>1, CommandFacts DEF At
  <2>3. cli[p].exit = 1 /\ cli[p].verdict = "failed" /\ Credential(p) =>
          rows[cli[p].id].status = "disabled"
    BY <2>2 DEF Knows, Credential, Credentials
  <2> QED  BY <2>2, <2>3 DEF LocalOK
<1> QED  BY <1>1, StoreInvariant, PTL

(* A compensation ends only a client whose current version and secret are   *)
(* those its own command committed (disableExactCredentialVersion).         *)
THEOREM CompensationIsExact == Spec => CompensationExact
<1> DEFINE Exact == \A p \in Commands : At(p, "disable") /\ cli'[p].exit = 1 =>
                      /\ rows[cli[p].id].version = cli[p].version
                      /\ Secret(p, "live") \in rows[cli[p].id].secrets
<1>1. StoreInv /\ [Next]_vars => [Exact]_vars
  <2> SUFFICES ASSUME StoreInv, Next, NEW p \in Commands, At(p, "disable"), cli'[p].exit = 1
               PROVE  /\ rows[cli[p].id].version = cli[p].version
                      /\ Secret(p, "live") \in rows[cli[p].id].secrets
    OBVIOUS
  <2>1. /\ Types /\ CommandInv /\ cli[p] \in CliRecords /\ LocalOK(cli[p]) /\ cli[p].at = "disable"
        /\ cli[p].action # "none" => Knows(p, cli[p], rows[cli[p].id])
    <3>1. Types /\ CommandInv
      BY DEF StoreInv
    <3> QED  BY <3>1, CommandFacts DEF At
  <2>2. /\ cli[p].exit = -1 /\ cli[p].action \in Credentials /\ cli[p].version >= 1
        /\ cli[p].version \in Nat /\ cli \in [Commands -> CliRecords]
    <3>1. cli[p].exit = -1 /\ cli[p].action \in Credentials
      BY <2>1 DEF LocalOK
    <3>2. cli[p].version >= 1
      BY <2>1, <3>1 DEF LocalOK
    <3>3. cli[p].version \in Nat
      BY <2>1 DEF CliRecords
    <3>4. cli \in [Commands -> CliRecords]
      BY <2>1 DEF Types
    <3> QED  BY <3>1, <3>2, <3>3, <3>4
  <2>3. Disable(p)
    <3>1. ASSUME NEW q \in Commands,
                 \/ \E action \in Actions, c \in MachineIds : Open(q, action, c)
                 \/ OpenFails(q) \/ CommandStep(q) \/ LateError(q) \/ Cleanup(q) \/ Killed(q)
          PROVE  Disable(p)
      <4>1. CASE q # p
        <5>1. cli'[p] = cli[p]
          BY <2>2, <3>1, <4>1
          DEF Open, OpenFails, CommandStep, LateError, Cleanup, Killed, Find, Commit, CommitFails,
              Write, WriteCalledBack, Callback, WriteBroke, Settle, Compensate, Disable, DisableFails, Exit, Go
        <5> QED  BY <2>2, <5>1
      <4>2. CASE q = p
        <5>1. \/ Disable(p) \/ DisableFails(p) \/ LateError(p) \/ Cleanup(p) \/ Killed(p)
          BY <2>1, <3>1, <4>2
          DEF Open, OpenFails, CommandStep, Find, Commit, CommitFails,
              Write, WriteCalledBack, WriteBroke, Settle, Compensate, At
        <5>2. CASE DisableFails(p)
          <6>1. cli'[p].exit = 2
            BY <2>1, <2>2, <5>2 DEF DisableFails, Exit, CliRecords
          <6> QED  BY <6>1
        <5>3. CASE LateError(p) \/ Cleanup(p) \/ Killed(p)
          <6>1. cli'[p].exit = cli[p].exit
            BY <2>1, <2>2, <5>3 DEF LateError, Cleanup, Killed, Go, CliRecords
          <6> QED  BY <2>2, <6>1
        <5> QED  BY <5>1, <5>2, <5>3
      <4> QED  BY <4>1, <4>2
    <3>2. CASE cli' = cli
      BY <2>2, <3>2
    <3> QED  BY <3>1, <3>2 DEF Next, ServerSave, ServerFind, ServerTouch, ServerSweep, Restart,
                               Tick, Quiet, vars
  <2>4. rows[cli[p].id].version = cli[p].version
    BY <2>3 DEF Disable, CompareAndSwap, Swappable
  <2>5. Secret(p, "live") \in rows[cli[p].id].secrets
    <3>1. cli[p].action # "none"
      BY <2>2 DEF Credentials
    <3>2. Knows(p, cli[p], rows[cli[p].id])
      BY <2>1, <3>1
    <3> QED  BY <2>2, <2>4, <3>2 DEF Knows
  <2> QED  BY <2>4, <2>5
<1> QED  BY <1>1, StoreInvariant, PTL DEF Spec, CompensationExact
=============================================================================
