---------------------------- MODULE HostedServer ----------------------------
(* startHostedServer and the HostedServerRuntime it returns: processes that *)
(* boot on one state directory, cut the stored grants over once, listen,    *)
(* and close - or fail or are killed at any step.  mcp-sso's own store is   *)
(* only what the boot opens and closes.                                     *)
EXTENDS BootConfig

CONSTANTS
  Processes,    \* server processes on one state directory
  Environments, \* what the operator may have configured
  Disks,        \* what the first boot may find
  CreatedMode,  \* the mode the umask leaves a new database file: "open" or "private"
  MaxBoots      \* bound on the boots of all processes

VARIABLES
  env,          \* the environment every boot reads
  disk,         \* [dir, auth, clients, rows, marker]: modes, grants, migration marker
  lock,         \* who holds the auth database's write lock
  proc,         \* the processes
  boots,        \* boots so far
  issued        \* has a listening server issued a grant?
server == <<disk, lock, proc, boots, issued>>
vars == <<env, server>>

LEGACY_TABLES == <<"oauth_auth_codes", "oauth_refresh_tokens", "oauth_refresh_token_families">>
Tables == ToSet(LEGACY_TABLES)
Nobody == "nobody"
Resources == {"db", "auth", "clients", "app"}

(* A file or directory is missing, someone else's, readable by others or    *)
(* ours alone; a grant is of before the cutover or of after it.             *)
Modes == {"absent", "foreign", "open", "private"}
Grants == {"legacy", "current"}
StateDirectories ==
  [dir : Modes, auth : Modes, clients : Modes, rows : [Tables -> SUBSET Grants], marker : BOOLEAN]

(* What a boot can find: no file without its directory, and no marker       *)
(* before the cutover.                                                      *)
ASSUME ServerAssumption ==
  /\ Nobody \notin Processes /\ CreatedMode \in {"open", "private"}
  /\ Disks \subseteq StateDirectories
  /\ \A d \in Disks :
       /\ d.marker => \A t \in Tables : "legacy" \notin d.rows[t]
       /\ d.dir = "absent" => d.auth = "absent" /\ d.clients = "absent"

(* res: what was opened, and how often it was closed.  todo: what is left   *)
(* to close.  work: the migration's uncommitted changes.                    *)
Fresh(at) ==
  [at |-> at, res |-> [x \in Resources |-> "none"], todo |-> << >>, timer |-> FALSE,
   busy |-> FALSE, work |-> [rows |-> [t \in Tables |-> {}], marker |-> FALSE], left |-> << >>]

Init ==
  /\ env \in Environments
  /\ disk \in Disks
  /\ lock = Nobody
  /\ proc = [p \in Processes |-> Fresh("down")]
  /\ boots = 0 /\ issued = FALSE

-----------------------------------------------------------------------------
(* validateSqliteStorePaths: what exists must be a real directory and two   *)
(* regular files of this user, with modes 0700 and 0600.                    *)
Trusted(d) ==
  d.dir = "absent" \/ (d.dir = "private" /\ {d.auth, d.clients} \subseteq {"absent", "private"})

Running(p) == proc[p].at \notin {"down", "exited"}
Goes(p, at) == proc' = [proc EXCEPT ![p].at = at]
Opens(p, x, at) == proc' = [proc EXCEPT ![p].at = at, ![p].res[x] = "open"]
Shut(r, x) ==
  [r EXCEPT !.res[x] = CASE @ = "none" -> "none" [] @ = "open" -> "closed" [] OTHER -> "twice"]
Create(mode) == IF mode = "absent" THEN CreatedMode ELSE mode

(* The steps of a boot that can fail, and what each failure closes, in      *)
(* order: nothing, the migration's handle, the two stores, or the app and   *)
(* then the stores.                                                         *)
Owed(at) ==
  CASE at \in {"configured", "prepared"} -> << >>
    [] at \in {"opened", "locked", "migrating"} -> <<"db">>
    [] at = "migrated" -> << >>
    [] at \in {"auth", "clients", "both"} -> <<"clients", "auth">>
    [] at \in {"stores", "built"} -> <<"app", "clients", "auth">>
Booting == {"configured", "prepared", "opened", "locked", "migrating", "migrated", "auth",
            "clients", "both", "stores", "built"}

(* An error leaves the boot: an open transaction is rolled back, and what   *)
(* is owned is closed.                                                      *)
Unwind(p) ==
  /\ proc' = [proc EXCEPT ![p].at = "closing", ![p].todo = Owed(proc[p].at)]
  /\ lock' = IF lock = p THEN Nobody ELSE lock
Aborts(p) == Unwind(p) /\ UNCHANGED <<disk, boots, issued>>

BootFails(p) == proc[p].at \in Booting /\ Aborts(p)

(* resolveBoot: nothing is touched before the whole configuration and the   *)
(* state paths have passed.                                                 *)
ResolveBoot(p) ==
  /\ ~Running(p) /\ boots < MaxBoots
  /\ boots' = boots + 1
  /\ proc' = [proc EXCEPT ![p] =
       Fresh(IF Accepts(env) /\ Trusted(disk) THEN "configured" ELSE "exited")]
  /\ UNCHANGED <<disk, lock, issued>>

(* createHostedAuthStore checks the paths once more and makes the directory.*)
Prepare(p) ==
  /\ proc[p].at = "configured"
  /\ IF Trusted(disk)
     THEN /\ disk' = [disk EXCEPT !.dir = "private"]
          /\ Goes(p, "prepared") /\ UNCHANGED <<lock, boots, issued>>
     ELSE Aborts(p)

(* runStoredDcrMigration: the file, its mode, the lock, the marker's        *)
(* absence, one table after the other, the marker, the commit.              *)
OpenDatabase(p) ==
  /\ proc[p].at = "prepared"
  /\ disk' = [disk EXCEPT !.auth = Create(@)]
  /\ Opens(p, "db", "opened") /\ UNCHANGED <<lock, boots, issued>>
LockFile(p) ==
  /\ proc[p].at = "opened"
  /\ disk' = [disk EXCEPT !.auth = "private"]
  /\ Goes(p, "locked") /\ UNCHANGED <<lock, boots, issued>>

Migration(at) == [at EXCEPT !.at = "migrating",
                            !.work = [rows |-> disk.rows, marker |-> disk.marker],
                            !.left = IF disk.marker THEN << >> ELSE LEGACY_TABLES]
Begin_Deferred(p) ==
  /\ proc[p].at = "locked"
  /\ proc' = [proc EXCEPT ![p] = Migration(@)]
  /\ UNCHANGED <<disk, lock, boots, issued>>
Begin(p) ==
  /\ proc[p].at = "locked" /\ lock = Nobody
  /\ lock' = p
  /\ proc' = [proc EXCEPT ![p] = Migration(@)]
  /\ UNCHANGED <<disk, boots, issued>>
(* busy_timeout: a writer that does not get the lock gives up.              *)
BusyTimeout(p) == proc[p].at = "locked" /\ lock # Nobody /\ Aborts(p)

DeleteTable(p) ==
  /\ proc[p].at = "migrating" /\ proc[p].left # << >>
  /\ proc' = [proc EXCEPT ![p].work.rows[Head(proc[p].left)] = {}, ![p].left = Tail(@)]
  /\ UNCHANGED <<disk, lock, boots, issued>>
Commit(p) ==
  /\ proc[p].at = "migrating" /\ proc[p].left = << >>
  /\ disk' = [disk EXCEPT !.rows = proc[p].work.rows, !.marker = TRUE]
  /\ lock' = IF lock = p THEN Nobody ELSE lock
  /\ proc' = [proc EXCEPT ![p] = Shut([@ EXCEPT !.at = "migrated"], "db")]
  /\ UNCHANGED <<boots, issued>>

OpenAuth(p) ==
  /\ proc[p].at = "migrated"
  /\ Opens(p, "auth", "auth") /\ UNCHANGED <<disk, lock, boots, issued>>
OpenClients(p) ==
  /\ proc[p].at = "auth"
  /\ disk' = [disk EXCEPT !.clients = Create(@)]
  /\ Opens(p, "clients", "clients") /\ UNCHANGED <<lock, boots, issued>>
LockClients(p) ==
  /\ proc[p].at = "clients"
  /\ disk' = [disk EXCEPT !.clients = "private"]
  /\ Goes(p, "both") /\ UNCHANGED <<lock, boots, issued>>
Verify(p) ==
  /\ proc[p].at = "both"
  /\ IF disk.dir = "private" /\ disk.auth = "private" /\ disk.clients = "private"
     THEN Goes(p, "stores") /\ UNCHANGED <<disk, lock, boots, issued>>
     ELSE Aborts(p)

(* createHttpApp, listen, and the sweep that ownedRuntime starts.           *)
CreateApp(p) ==
  /\ proc[p].at = "stores"
  /\ Opens(p, "app", "built") /\ UNCHANGED <<disk, lock, boots, issued>>
Listen(p) ==
  /\ proc[p].at = "built"
  /\ proc' = [proc EXCEPT ![p].at = "listening", ![p].timer = TRUE]
  /\ UNCHANGED <<disk, lock, boots, issued>>

(* A request of a client, answered with a grant of the current generation.  *)
Accept(p) ==
  /\ proc[p].at = "listening" /\ ~proc[p].busy
  /\ proc' = [proc EXCEPT ![p].busy = TRUE]
  /\ UNCHANGED <<disk, lock, boots, issued>>
Grant(p) ==
  /\ proc[p].busy /\ lock = Nobody
  /\ proc' = [proc EXCEPT ![p].busy = FALSE]
  /\ disk' = [disk EXCEPT !.rows = [t \in Tables |-> @[t] \cup {"current"}]]
  /\ issued' = TRUE
  /\ UNCHANGED <<lock, boots>>
Refuse(p) ==
  /\ proc[p].busy
  /\ proc' = [proc EXCEPT ![p].busy = FALSE]
  /\ UNCHANGED <<disk, lock, boots, issued>>

(* The first SIGINT or SIGTERM: the sweep stops, then the app closes when   *)
(* its requests are answered, then the stores; an error of one of them      *)
(* keeps none of the others open.                                           *)
Close(p) ==
  /\ proc[p].at = "listening"
  /\ proc' = [proc EXCEPT ![p].at = "closing", ![p].timer = FALSE,
                          ![p].todo = <<"app", "clients", "auth">>]
  /\ UNCHANGED <<disk, lock, boots, issued>>
AfterClose_Retries(r, failed) ==
  [r EXCEPT !.todo = IF failed THEN Append(Tail(@), Head(@)) ELSE Tail(@)]
AfterClose_StopsAtError(r, failed) == [r EXCEPT !.todo = IF failed THEN << >> ELSE Tail(@)]
AfterClose(r, failed) == [r EXCEPT !.todo = Tail(@)]
CloseNext(p, failed) ==
  /\ proc[p].at = "closing" /\ proc[p].todo # << >>
  /\ LET x == Head(proc[p].todo) IN
     /\ x = "app" => ~proc[p].busy
     /\ proc' = [proc EXCEPT ![p] = AfterClose(Shut(@, x), failed)]
  /\ UNCHANGED <<disk, lock, boots, issued>>
Exit(p) ==
  /\ proc[p].at = "closing" /\ proc[p].todo = << >>
  /\ Goes(p, "exited") /\ UNCHANGED <<disk, lock, boots, issued>>

(* The process is killed: the kernel closes its files, SQLite forgets the   *)
(* transaction that was not committed.                                      *)
Crash(p) ==
  /\ Running(p)
  /\ proc' = [proc EXCEPT ![p] = Fresh("down")]
  /\ lock' = IF lock = p THEN Nobody ELSE lock
  /\ UNCHANGED <<disk, boots, issued>>

Steps(p) ==
  \/ Prepare(p) \/ OpenDatabase(p) \/ LockFile(p) \/ Begin(p) \/ BusyTimeout(p) \/ DeleteTable(p)
  \/ Commit(p) \/ OpenAuth(p) \/ OpenClients(p) \/ LockClients(p) \/ Verify(p) \/ CreateApp(p)
  \/ Listen(p) \/ Exit(p)
  \/ \E failed \in BOOLEAN : CloseNext(p, failed)
Next == env' = env /\ \E p \in Processes :
  \/ ResolveBoot(p) \/ Steps(p) \/ BootFails(p)
  \/ Accept(p) \/ Grant(p) \/ Refuse(p) \/ Close(p) \/ Crash(p)

(* A process that runs takes its next step, and requests end.               *)
Spec == Init /\ [][Next]_vars
FairSpec == Spec /\ \A p \in Processes : WF_server(Steps(p)) /\ WF_server(Grant(p) \/ Refuse(p))

-----------------------------------------------------------------------------
Serving(p) == proc[p].at = "listening"

(* One cutover: no server listens while a grant from before it is stored,   *)
(* and no boot - of this process or another, interrupted or repeated - ever *)
(* deletes a grant that a listening server issued.                          *)
CutoverOnce ==
  /\ (\E p \in Processes : Serving(p)) => \A t \in Tables : "legacy" \notin disk.rows[t]
  /\ issued => \A t \in Tables : "current" \in disk.rows[t]

(* Whatever failed on the way in or out, a server that exits by itself has  *)
(* closed everything it opened, each thing once, and never the stores while *)
(* a request or the sweep may still use them.                               *)
ResourcesOwned == \A p \in Processes :
  LET r == proc[p] IN
  /\ r.at = "exited" => \A x \in Resources : r.res[x] \in {"none", "closed"}
  /\ \A x \in Resources : r.res[x] # "twice"
  /\ r.timer \/ r.busy => r.res["auth"] = "open" /\ r.res["clients"] = "open"

(* A state directory of someone else or one that others may read, and a     *)
(* directory with a store file of someone else, is left as it was found by  *)
(* every boot; so is every directory when a selector is malformed, also one *)
(* of a feature that is switched off.  (A store file that others may read   *)
(* can be one that another boot is about to make private.)                  *)
Foreign(d) == d.dir \in {"foreign", "open"} \/ "foreign" \in {d.auth, d.clients}
Malformed(e) ==
  \/ \E knobs \in {BULK_KNOBS, RENDER_KNOBS, OTHER_KNOBS} : \E name \in DOMAIN knobs :
       ~Absent(e, name) /\ (Raw(e, name).text # "decimal" \/ Raw(e, name).n \notin 1..knobs[name])
  \/ \E name \in SWITCHES : Raw(e, name).text \notin {"", "true", "false"}
UntrustedUntouched == [][Foreign(disk) \/ Malformed(env) => disk' = disk]_disk

(* A gateway that listens never renders in its own process, with its OAuth  *)
(* keys, although the flavor is read in two places and in two ways.         *)
BrowserApart == (\E p \in Processes : Serving(p)) => RendererKind(env) # "in_process"

(* Every boot ends in a listener or in an exit, also while another process  *)
(* migrates, and a server that was told to stop stops.                      *)
EveryBootEnds == \A p \in Processes :
  /\ proc[p].at \in Booting ~> ~(proc[p].at \in Booting)
  /\ proc[p].at = "closing" ~> ~Running(p)
=============================================================================
