--------------------------- MODULE MachineClient ---------------------------
(* The operator's machine-client command (machine-client.ts), run by       *)
(* several processes against the store the server uses.  A command opens   *)
(* the stores, commits one change, writes its one-time secret to stdout,   *)
(* and if that write fails disables exactly the version it committed.  It  *)
(* may be killed between any two steps.  The server registers, finds and   *)
(* sweeps interactive clients meanwhile and may restart with another       *)
(* redirect allowlist.                                                     *)
EXTENDS ClientStore

CONSTANTS
  Commands,     \* the processes, one command each
  MaxNow,       \* bound: ticks of the clock
  MaxRestarts   \* bound: restarts of the server with another allowlist

(* What a row holds.  A secret's maker is a command, or one of before.      *)
StoredSecrets == [by : Commands \cup {"earlier"}, ends : {"live", "grace"}]
UserRows == [uri : Redirects, lastUsed : Nat]
MachineRows ==
  [status : {"active", "disabled"}, version : Nat, secrets : SUBSET StoredSecrets]

(* Identifiers are drawn at random, so the two kinds share none; and the    *)
(* store that earlier commands left is within its caps.                     *)
ASSUME StoreAssumption ==
  /\ IsFiniteSet(UserIds) /\ IsFiniteSet(MachineIds) /\ UserIds \cap MachineIds = {}
  /\ MaxStored \in Nat /\ MaxInteractive \in Nat /\ MaxActiveMachine \in Nat
  /\ Provisioned \subseteq MachineIds
  /\ Cardinality(Provisioned) <= MaxStored
  /\ Cardinality(Provisioned) <= MaxActiveMachine
  /\ NoRow \notin UserIds \cup UserRows \cup MachineRows

VARIABLES
  cli,       \* the commands
  finding,   \* the client the server's find has read and not yet touched
  restarts

vars == <<rows, audit, now, allowed, cli, finding, restarts>>
server == <<finding, restarts>>
store == <<rows, audit>>
world == <<now, allowed>>

Actions == {"provision", "rotate", "disable", "list"}
Ended == {"exited", "killed"}

(* `seen` is the row its find returned, `version` the version it has       *)
(* committed (0: none).  The last four are of writeAndFlush on stdout: the *)
(* verdict its promise settled with, whether its listeners are attached,   *)
(* whether the stream still owes the `error` event of the callback that    *)
(* failed, and whether an `error` event found nobody listening.            *)
Idle == [at |-> "idle", action |-> "none", id |-> "none", seen |-> NoRow,
         version |-> 0, exit |-> -1,
         verdict |-> "none", listening |-> FALSE, owed |-> FALSE, uncaught |-> FALSE]

Init ==
  /\ StoreInit
  /\ cli = [p \in Commands |-> Idle]
  /\ finding = NoRow
  /\ restarts = 0

At(p, place) == cli[p].at = place
Go(p, place) == cli' = [cli EXCEPT ![p].at = place]
Credential(p) == cli[p].action \in {"provision", "rotate"}

(* parseMachineClientArgs and createHostedAuthStore, whose client store    *)
(* sweeps when it is constructed.                                          *)
Open(p, action, c) ==
  /\ At(p, "idle")
  /\ SweepStaleClients
  /\ cli' = [cli EXCEPT ![p] =
       [Idle EXCEPT !.at = CASE action = "provision" -> "commit"
                             [] action = "list" -> "write"
                             [] OTHER -> "find",
                    !.action = action, !.id = c]]
  /\ UNCHANGED <<world, server>>

(* Bad usage, a configuration or a file the open refuses.                  *)
Exit(p, code) == cli' = [cli EXCEPT ![p].at = "exited", ![p].exit = code]

OpenFails(p) ==
  /\ At(p, "idle")
  /\ Exit(p, 1)
  /\ UNCHANGED <<store, world, server>>

(* What the library reads before a rotation or a disable: an active machine *)
(* client, or the command fails.                                           *)
Find(p) ==
  /\ At(p, "find")
  /\ LET row == Decoded(cli[p].id) IN
     IF row # NoRow /\ row.status = "active"
     THEN cli' = [cli EXCEPT ![p].at = "commit", ![p].seen = row]
     ELSE Exit(p, 1)
  /\ UNCHANGED <<store, world, server>>

(* The change a command asks for.  A rotation keeps the live secret for    *)
(* its grace and adds its own.                                             *)
Graced(secrets) == {Secret(s.by, "grace") : s \in {t \in secrets : t.ends = "live"}}

Changed(p) ==
  LET seen == cli[p].seen IN
  IF cli[p].action = "rotate"
  THEN Machine("active", seen.version + 1, Graced(seen.secrets) \cup {Secret(p, "live")})
  ELSE Machine("disabled", seen.version + 1, {})

Commit(p) ==
  /\ At(p, "commit")
  /\ IF cli[p].action = "provision"
     THEN /\ CreateMachineClient(cli[p].id, Secret(p, "live"))
          /\ cli' = [cli EXCEPT ![p].at = "write", ![p].version = 1]
     ELSE /\ CompareAndSwap(cli[p].id, cli[p].seen.version, Changed(p), cli[p].action)
          /\ cli' = [cli EXCEPT ![p].at = "write", ![p].version = cli[p].seen.version + 1]
  /\ UNCHANGED <<world, server>>

(* The identifier is taken, the capacity is reached, the version has moved *)
(* on, or the transaction failed and was rolled back.                      *)
CommitFails(p) ==
  /\ At(p, "commit")
  /\ Exit(p, 1)
  /\ UNCHANGED <<store, world, server>>

(* writeAndFlush(stdout): attach the listeners and write.                  *)
Write(p) ==
  /\ At(p, "write")
  /\ cli' = [cli EXCEPT ![p].at = "writing", ![p].listening = TRUE]
  /\ UNCHANGED <<store, world, server>>

(* The first of the callback, the `error` and the `close` event settles.   *)
(* After a callback the listeners stay to the end of the turn, because a   *)
(* stream emits the `error` of a failed callback just after it.            *)
Callback(p, ok) ==
  cli' = [cli EXCEPT ![p].at = "written", ![p].verdict = IF ok THEN "ok" ELSE "failed",
                     ![p].owed = ~ok]

WriteCalledBack(p) ==
  /\ At(p, "writing")
  /\ \E ok \in BOOLEAN : Callback(p, ok)
  /\ UNCHANGED <<store, world, server>>

WriteBroke(p) ==
  /\ At(p, "writing")
  /\ cli' = [cli EXCEPT ![p].at = "written", ![p].verdict = "failed", ![p].listening = FALSE]
  /\ UNCHANGED <<store, world, server>>

(* The `error` event that follows a failed callback in the same turn, and  *)
(* the deferred removal of the listeners once the turn is over.            *)
LateError(p) ==
  /\ cli[p].owed
  /\ cli' = [cli EXCEPT ![p].owed = FALSE,
                        ![p].uncaught = ~cli[p].listening, ![p].listening = FALSE]
  /\ UNCHANGED <<store, world, server>>

Cleanup(p) ==
  /\ ~At(p, "writing") /\ cli[p].listening /\ ~cli[p].owed
  /\ cli' = [cli EXCEPT ![p].listening = FALSE]
  /\ UNCHANGED <<store, world, server>>

Settle_NoCompensation(p) ==
  /\ At(p, "written")
  /\ \E code \in {0, 1} : Exit(p, code) /\ (code = 0 => cli[p].verdict = "ok")
  /\ UNCHANGED <<store, world, server>>

(* Written: close the stores, whose failure only changes the exit code.    *)
(* Not written: a credential is compensated for, a result is not.          *)
Settle(p) ==
  /\ At(p, "written")
  /\ IF cli[p].verdict = "ok" THEN \E code \in {0, 1} : Exit(p, code)
     ELSE IF Credential(p) THEN Go(p, "compensate") ELSE Exit(p, 1)
  /\ UNCHANGED <<store, world, server>>

(* disableExactCredentialVersion: read, insist on the version committed,   *)
(* and swap that version for its tombstone.                                *)
IsExactActive(row, version) ==
  row # NoRow /\ row.status = "active" /\ row.version = version

Compensate_Retry(p) ==
  /\ At(p, "compensate")
  /\ IsExactActive(Decoded(cli[p].id), cli[p].version)
  /\ cli' = [cli EXCEPT ![p].at = "disable", ![p].seen = Decoded(cli[p].id)]
  /\ UNCHANGED <<store, world, server>>

Compensate(p) ==
  /\ At(p, "compensate")
  /\ LET row == Decoded(cli[p].id) IN
     IF IsExactActive(row, cli[p].version)
     THEN cli' = [cli EXCEPT ![p].at = "disable", ![p].seen = row]
     ELSE Exit(p, 2)
  /\ UNCHANGED <<store, world, server>>

Disable(p) ==
  /\ At(p, "disable")
  /\ CompareAndSwap(cli[p].id, cli[p].version,
                    Machine("disabled", cli[p].seen.version + 1, {}), "disable")
  /\ Exit(p, 1)
  /\ UNCHANGED <<world, server>>

DisableFails(p) ==
  /\ At(p, "disable")
  /\ Exit(p, 2)
  /\ UNCHANGED <<store, world, server>>

Killed(p) ==
  /\ cli[p].at \notin Ended \cup {"idle"}
  /\ Go(p, "killed")
  /\ UNCHANGED <<store, world, server>>

-----------------------------------------------------------------------------
(* The server: registration, find in its two statements, the sweep of the  *)
(* timer and of a restart.                                                 *)
ServerSave(c, uri) ==
  /\ finding = NoRow
  /\ SaveNew(c, uri) \/ SaveAgain(c, uri)
  /\ UNCHANGED <<world, cli, server>>

ServerFind(c) ==
  /\ finding = NoRow
  /\ Decoded(c) # NoRow
  /\ finding' = c
  /\ UNCHANGED <<store, world, cli, restarts>>

ServerTouch ==
  /\ finding # NoRow
  /\ Touch(finding)
  /\ finding' = NoRow
  /\ UNCHANGED <<world, cli, restarts>>

ServerSweep ==
  /\ finding = NoRow
  /\ Unswept # rows
  /\ SweepStaleClients
  /\ UNCHANGED <<world, cli, server>>

Restart(policy) ==
  /\ restarts < MaxRestarts
  /\ allowed' = policy
  /\ restarts' = restarts + 1
  /\ finding' = NoRow
  /\ SweepStaleClients
  /\ UNCHANGED <<now, cli>>

Tick ==
  /\ now < MaxNow
  /\ now' = now + 1
  /\ UNCHANGED <<store, allowed, cli, server>>

(* Every command is over and the clock has reached its bound.              *)
Quiet ==
  /\ \A p \in Commands : cli[p].at \in Ended /\ ~cli[p].owed
  /\ now = MaxNow
  /\ UNCHANGED vars

CommandStep(p) ==
  \/ Find(p) \/ Commit(p) \/ CommitFails(p) \/ Write(p)
  \/ WriteCalledBack(p) \/ WriteBroke(p) \/ Settle(p)
  \/ Compensate(p) \/ Disable(p) \/ DisableFails(p)

Next ==
  \/ \E p \in Commands :
       \/ \E action \in Actions, c \in MachineIds : Open(p, action, c)
       \/ OpenFails(p) \/ CommandStep(p) \/ LateError(p) \/ Cleanup(p) \/ Killed(p)
  \/ \E c \in UserIds, uri \in Redirects : ServerSave(c, uri)
  \/ \E c \in UserIds : ServerFind(c)
  \/ ServerTouch \/ ServerSweep
  \/ \E policy \in SUBSET Redirects : Restart(policy)
  \/ Tick
  \/ Quiet

Spec == Init /\ [][Next]_vars

(* The steps of a command that has begun are taken: every await of it is a *)
(* transaction with a busy timeout or a write that calls back, errs or     *)
(* closes.                                                                 *)
FairSpec == Spec /\ \A p \in Commands : WF_vars(CommandStep(p))

-----------------------------------------------------------------------------
(* What the exit code says is true of the store for ever after.  0: the    *)
(* output was written.  1 after a credential that could not be written:    *)
(* the client is a tombstone, the lost secret is not accepted.  1 without  *)
(* a write: nothing was changed.  And a stream that reports its failure    *)
(* twice, to the callback and as an event, raises no uncaught exception.   *)
ExitTruthful ==
  \A p \in Commands : At(p, "exited") =>
    /\ cli[p].exit = 0 => cli[p].verdict = "ok"
    /\ cli[p].exit = 2 => cli[p].verdict = "failed"
    /\ cli[p].exit = 1 /\ cli[p].verdict = "failed" /\ Credential(p) =>
         rows[cli[p].id].status = "disabled"
    /\ cli[p].verdict = "none" => cli[p].version = 0
    /\ ~cli[p].uncaught

(* A compensation disables only the version whose own secret was lost: it  *)
(* never ends a client whose current secret another command made.          *)
CompensationExact ==
  [][\A p \in Commands : At(p, "disable") /\ cli'[p].exit = 1 =>
        /\ rows[cli[p].id].version = cli[p].version
        /\ Secret(p, "live") \in rows[cli[p].id].secrets]_vars

(* A command that began ends: with an exit code, or killed.                *)
CommandEnds == \A p \in Commands : ~At(p, "idle") ~> cli[p].at \in Ended
============================================================================
