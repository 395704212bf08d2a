-------------------------- MODULE HostedServerProofs --------------------------
(* The safety of the hosted server for any environment, any number of       *)
(* processes and boots, and any state directory that can be found.          *)
EXTENDS HostedServer, HostedCalls, SumTheorems, SequenceTheorems, FiniteSetTheorems,
        WellFoundedInduction, TLAPS

-----------------------------------------------------------------------------
(* What the configuration's acceptance means.                               *)

(* An integer selector that is accepted is absent or in its range.          *)
LEMMA StrictInteger ==
  ASSUME NEW e, NEW name, NEW ceiling, EnvStrictInteger(e, name, ceiling), ~Absent(e, name)
  PROVE  Raw(e, name).text = "decimal" /\ Raw(e, name).n \in 1..ceiling
  BY Zenon DEF EnvStrictInteger

(* So is a switch.                                                          *)
LEMMA StrictBoolean ==
  ASSUME NEW e, NEW name, NEW fallback, EnvStrictBoolean(e, name, fallback) # "throws"
  PROVE  Raw(e, name).text \in {"", "true", "false"}
  BY DEF EnvStrictBoolean, Absent

(* A malformed selector refuses the boot, whatever it selects.              *)
LEMMA AcceptedIsWellFormed == ASSUME NEW e, Accepts(e) PROVE ~Malformed(e)
<1>1. /\ AllInRange(e, BULK_KNOBS) /\ AllInRange(e, RENDER_KNOBS) /\ AllInRange(e, OTHER_KNOBS)
      /\ EnvStrictBoolean(e, "CF_ACCESS_ENABLED", "false") = "true"
      /\ EnvStrictBoolean(e, "OAUTH_ALLOW_INSECURE_LOCALHOST", "false") # "throws"
      /\ EnvStrictBoolean(e, "CAPTATUM_BROWSER_INPROCESS_SANDBOX", "true") # "throws"
      /\ EnvStrictBoolean(e, "CAPTATUM_BULK_ENABLED", "true") # "throws"
  BY Zenon DEF Accepts, CreateRenderer, CreateHostedBulk, HostedCloudflareAccess, McpSsoMaterial
<1>2. \A knobs \in {BULK_KNOBS, RENDER_KNOBS, OTHER_KNOBS} : \A name \in DOMAIN knobs :
        Absent(e, name) \/ (Raw(e, name).text = "decimal" /\ Raw(e, name).n \in 1..knobs[name])
  <2>1. ASSUME NEW knobs, AllInRange(e, knobs), NEW name \in DOMAIN knobs
        PROVE  Absent(e, name)
                 \/ (Raw(e, name).text = "decimal" /\ Raw(e, name).n \in 1..knobs[name])
    BY <2>1, StrictInteger, Zenon DEF AllInRange
  <2> QED
    BY <1>1, <2>1, Zenon
<1>3. \A name \in SWITCHES : Raw(e, name).text \in {"", "true", "false"}
  <2>1. EnvStrictBoolean(e, "CF_ACCESS_ENABLED", "false") # "throws"
    BY <1>1
  <2>2. /\ Raw(e, "CF_ACCESS_ENABLED").text \in {"", "true", "false"}
        /\ Raw(e, "OAUTH_ALLOW_INSECURE_LOCALHOST").text \in {"", "true", "false"}
        /\ Raw(e, "CAPTATUM_BROWSER_INPROCESS_SANDBOX").text \in {"", "true", "false"}
        /\ Raw(e, "CAPTATUM_BULK_ENABLED").text \in {"", "true", "false"}
    BY <1>1, <2>1, StrictBoolean, Zenon
  <2> QED
    BY <2>2, Zenon DEF SWITCHES
<1> QED
  BY <1>2, <1>3, Zenon DEF Malformed

(* The two readings of the flavor agree when a boot is accepted.            *)
LEMMA AcceptedRendersElsewhere ==
  ASSUME NEW e, Accepts(e) PROVE RendererKind(e) # "in_process"
<1>1. FlavorWord(e) = Word("hosted")
  <2>1. ReadFlavor(e) = "hosted"
    BY Zenon DEF Accepts
  <2>2. FlavorWord(e) \in {Word("hosted"), Word("local-binary")}
    BY <2>1 DEF ReadFlavor
  <2>3. FlavorWord(e).text = "hosted"
    BY <2>1, <2>2 DEF ReadFlavor
  <2> QED
    BY <2>2, <2>3 DEF Word
<1>2. Word("hosted").text = "hosted" /\ Word("").text = "" /\ Word("local-binary") # Word("hosted")
  BY DEF Word
<1>3. ConfigFlavor(e) = Word("hosted")
  <2>1. CASE "CAPTATUM_FLAVOR" \in DOMAIN e
    BY <1>1, <1>2, <2>1 DEF FlavorWord, ConfigFlavor, EnvString, Absent, Raw
  <2>2. CASE "CAPTATUM_FLAVOR" \notin DOMAIN e
    BY <1>1, <1>2, <2>2 DEF FlavorWord, ConfigFlavor, EnvString, Absent, Raw
  <2> QED
    BY <2>1, <2>2
<1> QED
  BY <1>3 DEF RendererKind

-----------------------------------------------------------------------------
(* The invariant.  It gives every process a record of the right type, ties  *)
(* what it has open, and how often it closed it, to the place it has        *)
(* reached, and ties that place to the state directory.                     *)
Stages == Booting \cup {"down", "listening", "closing", "exited"}
Todo == {<< >>, <<"db">>, <<"clients", "auth">>, <<"app", "clients", "auth">>, <<"auth">>}
ToMigrate ==
  {<< >>, <<"oauth_refresh_token_families">>,
   <<"oauth_refresh_tokens", "oauth_refresh_token_families">>, LEGACY_TABLES}
Records ==
  [at : Stages, res : [Resources -> {"none", "open", "closed", "twice"}], todo : Todo,
   timer : BOOLEAN, busy : BOOLEAN,
   work : [rows : [Tables -> SUBSET Grants], marker : BOOLEAN], left : ToMigrate]

OpenAt(at) ==
  CASE at \in {"opened", "locked", "migrating"} -> {"db"}
    [] at = "auth" -> {"auth"}
    [] at \in {"clients", "both", "stores"} -> {"auth", "clients"}
    [] at \in {"built", "listening"} -> {"auth", "clients", "app"}
    [] OTHER -> {}
OnItsWay(r) ==
  \A x \in Resources :
    IF x \in OpenAt(r.at) THEN r.res[x] = "open"
    ELSE r.res[x] \in {"none"} \cup (IF x = "db" THEN {"closed"} ELSE {})
Pending(todo, x) == \E i \in DOMAIN todo : todo[i] = x
OnItsWayOut(r) ==
  \A x \in Resources :
    r.res[x] \in IF Pending(r.todo, x) THEN {"none", "open"}
                 ELSE {"none", "closed"}
Owned(r) ==
  /\ r.at \notin {"closing", "exited"} => OnItsWay(r)
  /\ r.at \in {"closing", "exited"} => OnItsWayOut(r)
  /\ r.at = "exited" => r.todo = << >>
  /\ r.timer => r.at = "listening"
  /\ r.busy => \/ r.at = "listening"
               \/ /\ r.at = "closing" /\ r.todo = <<"app", "clients", "auth">>
                  /\ r.res["auth"] = "open" /\ r.res["clients"] = "open"

Cleared(rows) == \A t \in Tables : "legacy" \notin rows[t]
AfterCutover == {"migrated", "auth", "clients", "both", "stores", "built", "listening"}
(* The uncommitted work of whoever holds the lock: nothing when the cutover *)
(* was done before, otherwise every table up to the ones left.              *)
Migrates(r, d) ==
  /\ d.marker => r.left = << >> /\ r.work.rows = d.rows
  /\ ~d.marker => \A t \in Tables :
       "legacy" \in r.work.rows[t] => \E i \in DOMAIN r.left : r.left[i] = t
Cut(p, r, d, l) ==
  /\ r.at \in AfterCutover \/ r.busy => d.marker
  /\ r.at = "migrating" => l = p /\ Migrates(r, d)
Active(r) == r.at \notin {"down", "exited"}
Vetted(r, d, e) ==
  /\ Active(r) => ~Foreign(d) /\ Accepts(e)
  /\ r.at \in Booting \ {"configured"} => d.dir = "private"
Stored(d, given) ==
  /\ d.marker => Cleared(d.rows)
  /\ given => d.marker /\ \A t \in Tables : "current" \in d.rows[t]
  /\ d.dir = "absent" => d.auth = "absent" /\ d.clients = "absent"
Good(p, r, d, l, e) == r \in Records /\ Owned(r) /\ Cut(p, r, d, l) /\ Vetted(r, d, e)

ServerInv ==
  /\ disk \in StateDirectories /\ issued \in BOOLEAN
  /\ lock \in Processes \cup {Nobody}
  /\ DOMAIN proc = Processes
  /\ Stored(disk, issued)
  /\ \A p \in Processes : Good(p, proc[p], disk, lock, env)

(* The initial states.                                                      *)
LEMMA ServerInit == Init => ServerInv
<1> SUFFICES ASSUME Init PROVE ServerInv
  OBVIOUS
<1>1. disk \in StateDirectories /\ issued \in BOOLEAN /\ lock \in Processes \cup {Nobody}
  BY ServerAssumption DEF Init
<1>2. Stored(disk, issued)
  BY ServerAssumption DEF Init, Stored, Cleared
<1>3. ASSUME NEW p \in Processes PROVE Good(p, Fresh("down"), disk, lock, env)
  <2>1. Fresh("down") \in Records
    BY DEF Fresh, Records, Stages, Todo, ToMigrate
  <2>2. Owned(Fresh("down"))
    BY DEF Fresh, Owned, OnItsWay, OpenAt
  <2>3. Cut(p, Fresh("down"), disk, lock) /\ Vetted(Fresh("down"), disk, env)
    BY DEF Fresh, Cut, Vetted, AfterCutover, Active, Booting
  <2> QED
    BY <2>1, <2>2, <2>3 DEF Good
<1>4. DOMAIN proc = Processes /\ \A p \in Processes : proc[p] = Fresh("down")
  BY DEF Init
<1> QED
  BY <1>1, <1>2, <1>3, <1>4 DEF ServerInv

(* What a step of one process may do to the directory and the lock without  *)
(* disturbing another one.                                                  *)
Gentle(p) ==
  /\ disk.marker => disk'.marker
  /\ disk.dir = "private" => disk'.dir = "private"
  /\ Foreign(disk') => Foreign(disk)
  /\ \A q \in Processes \ {p} : lock = q => lock' = q /\ disk'.rows = disk.rows
                                            /\ disk'.marker = disk.marker

(* A step of one process keeps the invariant when it is gentle and leaves   *)
(* that process itself in good order.                                       *)
LEMMA OneProcessMoves ==
  ASSUME ServerInv, NEW p \in Processes, NEW r,
         proc' = [proc EXCEPT ![p] = r], env' = env,
         disk' \in StateDirectories, issued' \in BOOLEAN, lock' \in Processes \cup {Nobody},
         Stored(disk', issued'), Gentle(p), Good(p, r, disk', lock', env)
  PROVE  ServerInv'
<1>1. DOMAIN proc' = Processes /\ proc'[p] = r /\ \A q \in Processes \ {p} : proc'[q] = proc[q]
  BY DEF ServerInv
<1>2. ASSUME NEW q \in Processes \ {p} PROVE Good(q, proc[q], disk', lock', env')
  <2> DEFINE s == proc[q]
  <2>1. Good(q, s, disk, lock, env)
    BY DEF ServerInv
  <2> HIDE DEF s
  <2>2. s \in Records /\ Owned(s)
    BY <2>1 DEF Good
  <2>3. Vetted(s, disk', env')
    BY <2>1 DEF Good, Vetted, Gentle
  <2>4. Cut(q, s, disk', lock')
    <3>1. s.at \in AfterCutover \/ s.busy => disk'.marker
      BY <2>1 DEF Good, Cut, Gentle
    <3>2. ASSUME s.at = "migrating" PROVE lock' = q /\ Migrates(s, disk')
      <4>1. lock = q /\ Migrates(s, disk)
        BY <2>1, <3>2 DEF Good, Cut
      <4>2. lock' = q /\ disk'.rows = disk.rows /\ disk'.marker = disk.marker
        BY <4>1 DEF Gentle
      <4> QED
        BY <4>1, <4>2 DEF Migrates
    <3> QED
      BY <3>1, <3>2 DEF Cut
  <2> QED
    BY <2>2, <2>3, <2>4 DEF Good, s
<1>3. \A q \in Processes : Good(q, proc'[q], disk', lock', env')
  BY <1>1, <1>2
<1> QED
  BY <1>1, <1>3 DEF ServerInv

(* In particular when it leaves the directory alone, and the lock of others.*)
Released(p) == IF lock = p THEN Nobody ELSE lock
LEMMA DirectoryUntouched ==
  ASSUME ServerInv, NEW p \in Processes, NEW r,
         proc' = [proc EXCEPT ![p] = r], env' = env, disk' = disk, issued' = issued,
         \/ lock' = lock \/ lock' = Released(p) \/ (lock = Nobody /\ lock' = p),
         Good(p, r, disk, lock', env)
  PROVE  ServerInv'
<1>1. lock' \in Processes \cup {Nobody}
  BY DEF ServerInv, Released
<1>2. Gentle(p)
  BY ServerAssumption DEF Gentle, Released
<1>3. /\ disk' \in StateDirectories /\ issued' \in BOOLEAN /\ Stored(disk', issued')
      /\ Good(p, r, disk', lock', env)
  BY DEF ServerInv
<1> QED
  BY <1>1, <1>2, <1>3, OneProcessMoves

(* When it only makes the directory or a file ours.                         *)
LEMMA ModesChange ==
  ASSUME ServerInv, NEW p \in Processes, NEW r, NEW dir \in Modes, NEW auth \in Modes,
         NEW clients \in Modes,
         proc' = [proc EXCEPT ![p] = r], env' = env, issued' = issued, lock' = lock,
         disk' = [disk EXCEPT !.dir = dir, !.auth = auth, !.clients = clients],
         dir = "private", {auth, clients} \cap {"foreign"} \subseteq {disk.auth, disk.clients},
         r \in Records, Owned(r), ~Foreign(disk), Accepts(env),
         r.at \in Booting \ {"migrating"}, r.at \in AfterCutover => proc[p].at \in AfterCutover,
         ~r.busy
  PROVE  ServerInv'
<1>1. disk \in StateDirectories /\ issued \in BOOLEAN /\ Stored(disk, issued)
  BY DEF ServerInv
<1>2. /\ disk' \in StateDirectories /\ disk'.rows = disk.rows /\ disk'.marker = disk.marker
      /\ disk'.dir = "private" /\ disk'.auth = auth /\ disk'.clients = clients
  BY <1>1 DEF StateDirectories
<1>3. Stored(disk', issued')
  BY <1>1, <1>2 DEF Stored
<1>4. ~Foreign(disk')
  BY <1>2 DEF Foreign
<1>5. Gentle(p)
  BY <1>2, <1>4 DEF Gentle
<1>6. Good(p, r, disk', lock', env)
  <2>1. proc[p].at \in AfterCutover => disk.marker
    BY DEF ServerInv, Good, Cut
  <2>2. Cut(p, r, disk', lock')
    BY <2>1, <1>2 DEF Cut
  <2>3. Vetted(r, disk', env)
    BY <1>2, <1>4 DEF Vetted
  <2> QED
    BY <2>2, <2>3 DEF Good
<1> QED
  BY <1>1, <1>2, <1>3, <1>5, <1>6, OneProcessMoves DEF ServerInv

-----------------------------------------------------------------------------
(* The steps of a boot.                                                     *)
LEMMA ResolveBootKeeps ==
  ASSUME ServerInv, NEW p \in Processes, env' = env, ResolveBoot(p) PROVE ServerInv'
<1> DEFINE ok == Accepts(env) /\ Trusted(disk)
           r == Fresh(IF ok THEN "configured" ELSE "exited")
<1>1. proc' = [proc EXCEPT ![p] = r] /\ disk' = disk /\ issued' = issued /\ lock' = lock
  BY DEF ResolveBoot
<1>2. r \in Records /\ r.at = (IF ok THEN "configured" ELSE "exited") /\ ~r.busy
  BY DEF Fresh, Records, Stages, Booting, Todo, ToMigrate
<1>3. Owned(r)
  BY DEF Fresh, Owned, OnItsWay, OnItsWayOut, OpenAt
<1>4. ok => ~Foreign(disk)
  BY DEF Trusted, Foreign, ServerInv, Stored
<1>5. Cut(p, r, disk, lock) /\ Vetted(r, disk, env)
  BY <1>2, <1>4 DEF Cut, Vetted, AfterCutover, Active, Booting
<1> HIDE DEF r
<1> QED
  BY <1>1, <1>2, <1>3, <1>5, DirectoryUntouched DEF Good

(* A step that fails: what was opened is what is left to close.             *)
LEMMA AbortsKeeps ==
  ASSUME ServerInv, NEW p \in Processes, env' = env, proc[p].at \in Booting, Aborts(p)
  PROVE  ServerInv'
<1> DEFINE r == [proc[p] EXCEPT !.at = "closing", !.todo = Owed(proc[p].at)]
<1>g. Good(p, proc[p], disk, lock, env)
  BY DEF ServerInv
<1>1. /\ proc' = [proc EXCEPT ![p] = r] /\ disk' = disk /\ issued' = issued
      /\ lock' = Released(p)
  BY DEF Aborts, Unwind, Released
<1>2. Owed(proc[p].at) \in Todo
  BY DEF Owed, Todo, Booting
<1>3. /\ r \in Records /\ r.at = "closing" /\ r.todo = Owed(proc[p].at)
      /\ r.res = proc[p].res /\ r.timer = proc[p].timer /\ r.busy = proc[p].busy
  BY <1>g, <1>2 DEF Good, Records, Stages
<1>4. Owned(r)
  <2>1. OnItsWay(proc[p]) /\ ~proc[p].busy /\ ~proc[p].timer
    BY <1>g DEF Good, Owned, Booting
  <2>2. \A x \in OpenAt(proc[p].at) :
          Pending(Owed(proc[p].at), x)
    BY DEF Owed, OpenAt, Booting, Pending
  <2>3. Pending(Owed(proc[p].at), "db") => "db" \in OpenAt(proc[p].at)
    BY DEF Owed, OpenAt, Booting, Pending
  <2>4. OnItsWayOut(r)
    <3> HIDE DEF r
    <3> QED
      BY <1>3, <2>1, <2>2, <2>3 DEF OnItsWay, OnItsWayOut
  <2> QED
    BY <1>3, <2>1, <2>4 DEF Owned
<1>5. Cut(p, r, disk, lock') /\ Vetted(r, disk, env)
  BY <1>g, <1>3 DEF Good, Owned, Cut, Vetted, AfterCutover, Active, Booting
<1> HIDE DEF r
<1> QED
  BY <1>1, <1>3, <1>4, <1>5, DirectoryUntouched DEF Good

LEMMA PrepareKeeps ==
  ASSUME ServerInv, NEW p \in Processes, env' = env, Prepare(p) PROVE ServerInv'
<1> DEFINE r == [proc[p] EXCEPT !.at = "prepared"]
<1>g. Good(p, proc[p], disk, lock, env) /\ disk \in StateDirectories
  BY DEF ServerInv
<1>1. CASE Aborts(p)
  BY <1>1, AbortsKeeps DEF Prepare, Booting
<1>2. CASE ~Aborts(p)
  <2>1. /\ proc[p].at = "configured" /\ proc' = [proc EXCEPT ![p] = r]
        /\ issued' = issued /\ lock' = lock
    BY <1>2 DEF Prepare, Goes
  <2>2. disk' = [disk EXCEPT !.dir = "private", !.auth = disk.auth, !.clients = disk.clients]
    BY <1>2, <1>g DEF Prepare, StateDirectories
  <2>3. r \in Records /\ r.at = "prepared" /\ ~r.busy /\ Owned(r)
    BY <2>1, <1>g DEF Good, Records, Stages, Booting, Owned, OnItsWay, OpenAt
  <2>4. ~Foreign(disk) /\ Accepts(env)
    BY <1>g, <2>1 DEF Good, Vetted, Active
  <2>5. disk.auth \in Modes /\ disk.clients \in Modes /\ "private" \in Modes
    BY <1>g DEF StateDirectories, Modes
  <2> HIDE DEF r
  <2> QED
    BY <2>1, <2>2, <2>3, <2>4, <2>5, ModesChange DEF Booting, AfterCutover
<1> QED
  BY <1>1, <1>2

(* The steps that make or lock one of the two files.                        *)
LEMMA FileStepsKeep ==
  ASSUME ServerInv, NEW p \in Processes, env' = env,
         OpenDatabase(p) \/ LockFile(p) \/ OpenClients(p) \/ LockClients(p)
  PROVE  ServerInv'
<1>g. Good(p, proc[p], disk, lock, env) /\ disk \in StateDirectories
  BY DEF ServerInv
<1>a. /\ proc[p].at \in {"prepared", "opened", "auth", "clients"}
      /\ issued' = issued /\ lock' = lock
  BY DEF OpenDatabase, LockFile, OpenClients, LockClients
<1>b. disk.dir = "private" /\ ~Foreign(disk) /\ Accepts(env) /\ ~proc[p].busy /\ ~proc[p].timer
  BY <1>g, <1>a DEF Good, Vetted, Booting, Active, Owned
<1>c. /\ disk.auth \in Modes /\ disk.clients \in Modes /\ "private" \in Modes
      /\ Create(disk.auth) \in Modes /\ Create(disk.clients) \in Modes
      /\ Create(disk.auth) = "foreign" => disk.auth = "foreign"
      /\ Create(disk.clients) = "foreign" => disk.clients = "foreign"
  BY <1>g, ServerAssumption DEF StateDirectories, Modes, Create
<1>1. CASE OpenDatabase(p)
  <2> DEFINE r == [proc[p] EXCEPT !.at = "opened", !.res["db"] = "open"]
  <2>1. proc[p].at = "prepared" /\ proc' = [proc EXCEPT ![p] = r]
    BY <1>1 DEF OpenDatabase, Opens
  <2>2. disk' = [disk EXCEPT !.dir = "private", !.auth = Create(disk.auth),
                             !.clients = disk.clients]
    BY <1>1, <1>g, <1>b DEF OpenDatabase, StateDirectories
  <2>3. r \in Records /\ r.at = "opened" /\ ~r.busy
    BY <1>b, <1>g DEF Good, Records, Stages, Booting, Resources
  <2>4. Owned(r)
    BY <2>1, <1>b, <1>g DEF Good, Records, Owned, OnItsWay, OpenAt, Resources
  <2> HIDE DEF r
  <2> QED
    BY <1>a, <1>b, <1>c, <2>1, <2>2, <2>3, <2>4, ModesChange DEF Booting, AfterCutover
<1>2. CASE LockFile(p)
  <2> DEFINE r == [proc[p] EXCEPT !.at = "locked"]
  <2>1. proc[p].at = "opened" /\ proc' = [proc EXCEPT ![p] = r]
    BY <1>2 DEF LockFile, Goes
  <2>2. disk' = [disk EXCEPT !.dir = "private", !.auth = "private", !.clients = disk.clients]
    BY <1>2, <1>g, <1>b DEF LockFile, StateDirectories
  <2>3. r \in Records /\ r.at = "locked" /\ ~r.busy
    BY <1>b, <1>g DEF Good, Records, Stages, Booting
  <2>4. Owned(r)
    BY <2>1, <1>b, <1>g DEF Good, Records, Owned, OnItsWay, OpenAt
  <2> HIDE DEF r
  <2> QED
    BY <1>a, <1>b, <1>c, <2>1, <2>2, <2>3, <2>4, ModesChange DEF Booting, AfterCutover
<1>3. CASE OpenClients(p)
  <2> DEFINE r == [proc[p] EXCEPT !.at = "clients", !.res["clients"] = "open"]
  <2>1. proc[p].at = "auth" /\ proc' = [proc EXCEPT ![p] = r]
    BY <1>3 DEF OpenClients, Opens
  <2>2. disk' = [disk EXCEPT !.dir = "private", !.auth = disk.auth,
                             !.clients = Create(disk.clients)]
    BY <1>3, <1>g, <1>b DEF OpenClients, StateDirectories
  <2>3. r \in Records /\ r.at = "clients" /\ ~r.busy
    BY <1>b, <1>g DEF Good, Records, Stages, Booting, Resources
  <2>4. Owned(r)
    BY <2>1, <1>b, <1>g DEF Good, Records, Owned, OnItsWay, OpenAt, Resources
  <2> HIDE DEF r
  <2> QED
    BY <1>a, <1>b, <1>c, <2>1, <2>2, <2>3, <2>4, ModesChange DEF Booting, AfterCutover
<1>4. CASE LockClients(p)
  <2> DEFINE r == [proc[p] EXCEPT !.at = "both"]
  <2>1. proc[p].at = "clients" /\ proc' = [proc EXCEPT ![p] = r]
    BY <1>4 DEF LockClients, Goes
  <2>2. disk' = [disk EXCEPT !.dir = "private", !.auth = disk.auth, !.clients = "private"]
    BY <1>4, <1>g, <1>b DEF LockClients, StateDirectories
  <2>3. r \in Records /\ r.at = "both" /\ ~r.busy
    BY <1>b, <1>g DEF Good, Records, Stages, Booting
  <2>4. Owned(r)
    BY <2>1, <1>b, <1>g DEF Good, Records, Owned, OnItsWay, OpenAt
  <2> HIDE DEF r
  <2> QED
    BY <1>a, <1>b, <1>c, <2>1, <2>2, <2>3, <2>4, ModesChange DEF Booting, AfterCutover
<1> QED
  BY <1>1, <1>2, <1>3, <1>4

(* The migration, under the lock.                                           *)
LEMMA BeginKeeps ==
  ASSUME ServerInv, NEW p \in Processes, env' = env, Begin(p) PROVE ServerInv'
<1> DEFINE r == Migration(proc[p])
<1>g. Good(p, proc[p], disk, lock, env) /\ disk \in StateDirectories
  BY DEF ServerInv
<1>1. /\ proc[p].at = "locked" /\ lock = Nobody /\ lock' = p
      /\ proc' = [proc EXCEPT ![p] = r] /\ disk' = disk /\ issued' = issued
  BY DEF Begin
<1>2. /\ r \in Records /\ r.at = "migrating" /\ ~r.busy /\ ~r.timer /\ r.res = proc[p].res
      /\ r.work.rows = disk.rows /\ r.left = IF disk.marker THEN << >> ELSE LEGACY_TABLES
  <2>1. [rows |-> disk.rows, marker |-> disk.marker]
          \in [rows : [Tables -> SUBSET Grants], marker : BOOLEAN]
    BY <1>g DEF StateDirectories
  <2>2. (IF disk.marker THEN << >> ELSE LEGACY_TABLES) \in ToMigrate
    BY DEF ToMigrate
  <2>3. ~proc[p].busy /\ ~proc[p].timer
    BY <1>g, <1>1 DEF Good, Owned
  <2> QED
    BY <1>g, <2>1, <2>2, <2>3 DEF Good, Migration, Records, Stages, Booting
<1>3. Owned(r)
  BY <1>g, <1>1, <1>2 DEF Good, Owned, OnItsWay, OpenAt
<1>4. Migrates(r, disk)
  <2>1. \A t \in Tables : \E i \in DOMAIN LEGACY_TABLES : LEGACY_TABLES[i] = t
    BY DEF Tables, ToSet
  <2> HIDE DEF r
  <2> QED
    BY <1>2, <2>1 DEF Migrates
<1>5. Cut(p, r, disk, lock') /\ Vetted(r, disk, env)
  BY <1>g, <1>1, <1>2, <1>4 DEF Good, Cut, Vetted, AfterCutover, Active, Booting
<1> HIDE DEF r
<1> QED
  BY <1>1, <1>2, <1>3, <1>5, DirectoryUntouched DEF Good

LEMMA DeleteTableKeeps ==
  ASSUME ServerInv, NEW p \in Processes, env' = env, DeleteTable(p) PROVE ServerInv'
<1> DEFINE old == proc[p]
           r == [old EXCEPT !.work.rows[Head(old.left)] = {}, !.left = Tail(@)]
<1>g. Good(p, old, disk, lock, env)
  BY DEF ServerInv
<1>1. /\ old.at = "migrating" /\ old.left # << >>
      /\ proc' = [proc EXCEPT ![p] = r] /\ disk' = disk /\ issued' = issued /\ lock' = lock
  BY DEF DeleteTable
<1>2. /\ old.left \in ToMigrate \ {<< >>} /\ Tail(old.left) \in ToMigrate
      /\ \A i \in DOMAIN old.left : old.left[i] = Head(old.left)
           \/ \E j \in DOMAIN Tail(old.left) : Tail(old.left)[j] = old.left[i]
  <2>1. old.left \in ToMigrate \ {<< >>}
    BY <1>g, <1>1 DEF Good, Records
  <2>2. CASE old.left = LEGACY_TABLES
    BY <2>2 DEF LEGACY_TABLES, ToMigrate
  <2>3. CASE old.left = <<"oauth_refresh_tokens", "oauth_refresh_token_families">>
    BY <2>3 DEF ToMigrate
  <2>4. CASE old.left = <<"oauth_refresh_token_families">>
    BY <2>4 DEF ToMigrate
  <2> QED
    BY <2>1, <2>2, <2>3, <2>4 DEF ToMigrate
<1>3. /\ r \in Records /\ r.at = "migrating" /\ r.busy = old.busy /\ r.timer = old.timer
      /\ r.res = old.res /\ r.left = Tail(old.left) /\ r.todo = old.todo
      /\ r.work.rows = [old.work.rows EXCEPT ![Head(old.left)] = {}]
  BY <1>g, <1>1, <1>2 DEF Good, Records
<1>4. Owned(r)
  BY <1>g, <1>1, <1>3 DEF Good, Owned, OnItsWay, OpenAt
<1>5. Migrates(r, disk)
  <2>1. Migrates(old, disk) /\ old.work.rows \in [Tables -> SUBSET Grants]
    BY <1>g, <1>1 DEF Good, Cut, Records
  <2>2. ~disk.marker
    BY <1>1, <2>1 DEF Migrates
  <2>3. ASSUME NEW t \in Tables, "legacy" \in r.work.rows[t]
        PROVE  \E j \in DOMAIN r.left : r.left[j] = t
    <3> HIDE DEF r, old
    <3>1. t # Head(old.left) /\ "legacy" \in old.work.rows[t]
      BY <1>3, <2>1, <2>3
    <3>2. PICK i \in DOMAIN old.left : old.left[i] = t
      BY <2>1, <2>2, <3>1 DEF Migrates
    <3> QED
      BY <1>2, <1>3, <3>1, <3>2
  <2> HIDE DEF r
  <2> QED
    BY <2>2, <2>3 DEF Migrates
<1>6. Cut(p, r, disk, lock) /\ Vetted(r, disk, env)
  BY <1>g, <1>1, <1>3, <1>5 DEF Good, Cut, Vetted, AfterCutover, Active, Booting
<1> HIDE DEF r, old
<1> QED
  BY <1>1, <1>3, <1>4, <1>6, DirectoryUntouched DEF Good

(* The commit: what it writes was worked on under the lock, so nothing else *)
(* has been written since.                                                  *)
LEMMA CommitKeeps ==
  ASSUME ServerInv, NEW p \in Processes, env' = env, Commit(p) PROVE ServerInv'
<1> DEFINE old == proc[p]
           r == Shut([old EXCEPT !.at = "migrated"], "db")
<1>g. Good(p, old, disk, lock, env) /\ disk \in StateDirectories /\ Stored(disk, issued)
  BY DEF ServerInv
<1>1. /\ old.at = "migrating" /\ old.left = << >> /\ proc' = [proc EXCEPT ![p] = r]
      /\ disk' = [disk EXCEPT !.rows = old.work.rows, !.marker = TRUE]
      /\ lock' = Released(p) /\ issued' = issued
  BY DEF Commit, Released
<1>2. /\ lock = p /\ Migrates(old, disk) /\ OnItsWay(old) /\ ~old.busy /\ ~old.timer
      /\ old.work.rows \in [Tables -> SUBSET Grants]
  BY <1>g, <1>1 DEF Good, Owned, Cut, Records
<1>3. /\ disk' \in StateDirectories /\ disk'.rows = old.work.rows /\ disk'.marker
      /\ disk'.dir = disk.dir /\ disk'.auth = disk.auth /\ disk'.clients = disk.clients
  BY <1>g, <1>1, <1>2 DEF StateDirectories
<1>4. Stored(disk', issued')
  <2>1. Cleared(old.work.rows)
    BY <1>g, <1>1, <1>2 DEF Stored, Cleared, Migrates
  <2>2. issued => \A t \in Tables : "current" \in old.work.rows[t]
    BY <1>g, <1>2 DEF Stored, Migrates
  <2> QED
    BY <1>g, <1>1, <1>3, <2>1, <2>2 DEF Stored
<1>5. Gentle(p)
  BY <1>2, <1>3 DEF Gentle, Foreign
<1>6. /\ r \in Records /\ r.at = "migrated" /\ ~r.busy /\ ~r.timer
      /\ \A x \in Resources : r.res[x] = IF x = "db" THEN "closed" ELSE old.res[x]
  <2>1. old.res["db"] = "open"
    BY <1>1, <1>2 DEF OnItsWay, OpenAt, Resources
  <2> QED
    BY <1>g, <1>2, <2>1 DEF Good, Shut, Records, Stages, Booting, Resources
<1>7. Owned(r)
  BY <1>1, <1>2, <1>6 DEF Owned, OnItsWay, OpenAt
<1>8. Cut(p, r, disk', lock') /\ Vetted(r, disk', env)
  BY <1>g, <1>1, <1>3, <1>6 DEF Good, Cut, Vetted, Active, Booting, Foreign
<1>9. lock' \in Processes \cup {Nobody} /\ issued' \in BOOLEAN
  BY <1>1 DEF ServerInv, Released
<1> HIDE DEF r, old
<1> QED
  BY <1>1, <1>3, <1>4, <1>5, <1>6, <1>7, <1>8, <1>9, OneProcessMoves DEF Good

(* The steps from the migration to the listener.                            *)
LEMMA OpenStepsKeep ==
  ASSUME ServerInv, NEW p \in Processes, env' = env,
         OpenAuth(p) \/ Verify(p) \/ CreateApp(p) \/ Listen(p)
  PROVE  ServerInv'
<1> DEFINE old == proc[p]
<1>g. Good(p, old, disk, lock, env)
  BY DEF ServerInv
<1>1. ASSUME NEW r \in Records, r.at \in AfterCutover, old.at \in AfterCutover \cap Booting,
             ~r.busy, Owned(r), proc' = [proc EXCEPT ![p] = r],
             disk' = disk, issued' = issued, lock' = lock
      PROVE  ServerInv'
  <2>1. Cut(p, r, disk, lock) /\ Vetted(r, disk, env)
    BY <1>g, <1>1 DEF Good, Cut, Vetted, AfterCutover, Active, Booting
  <2> QED
    BY <1>1, <2>1, DirectoryUntouched DEF Good
<1>2. old.at \in Booting => ~old.busy /\ ~old.timer /\ OnItsWay(old)
  BY <1>g DEF Good, Owned, Booting
<1>3. CASE OpenAuth(p)
  <2> DEFINE r == [old EXCEPT !.at = "auth", !.res["auth"] = "open"]
  <2>1. /\ old.at = "migrated" /\ proc' = [proc EXCEPT ![p] = r]
        /\ disk' = disk /\ issued' = issued /\ lock' = lock
    BY <1>3 DEF OpenAuth, Opens
  <2>2. r \in Records /\ r.at = "auth" /\ ~r.busy
    BY <1>g, <1>2, <2>1 DEF Good, Records, Stages, Booting, Resources
  <2>3. Owned(r)
    BY <1>g, <1>2, <2>1 DEF Good, Records, Booting, Owned, OnItsWay, OpenAt, Resources
  <2> HIDE DEF r
  <2> QED
    BY <1>1, <2>1, <2>2, <2>3 DEF AfterCutover, Booting
<1>4. CASE Verify(p)
  <2> DEFINE r == [old EXCEPT !.at = "stores"]
  <2>1. old.at = "both"
    BY <1>4 DEF Verify
  <2>2. CASE Aborts(p)
    BY <2>1, <2>2, AbortsKeeps DEF Booting
  <2>3. CASE ~Aborts(p)
    <3>1. proc' = [proc EXCEPT ![p] = r] /\ disk' = disk /\ issued' = issued /\ lock' = lock
      BY <1>4, <2>3 DEF Verify, Goes
    <3>2. r \in Records /\ r.at = "stores" /\ ~r.busy
      BY <1>g, <1>2, <2>1 DEF Good, Records, Stages, Booting
    <3>3. Owned(r)
      BY <1>g, <1>2, <2>1 DEF Good, Records, Booting, Owned, OnItsWay, OpenAt
    <3> HIDE DEF r
    <3> QED
      BY <1>1, <2>1, <3>1, <3>2, <3>3 DEF AfterCutover, Booting
  <2> QED
    BY <2>2, <2>3
<1>5. CASE CreateApp(p)
  <2> DEFINE r == [old EXCEPT !.at = "built", !.res["app"] = "open"]
  <2>1. /\ old.at = "stores" /\ proc' = [proc EXCEPT ![p] = r]
        /\ disk' = disk /\ issued' = issued /\ lock' = lock
    BY <1>5 DEF CreateApp, Opens
  <2>2. r \in Records /\ r.at = "built" /\ ~r.busy
    BY <1>g, <1>2, <2>1 DEF Good, Records, Stages, Booting, Resources
  <2>3. Owned(r)
    BY <1>g, <1>2, <2>1 DEF Good, Records, Booting, Owned, OnItsWay, OpenAt, Resources
  <2> HIDE DEF r
  <2> QED
    BY <1>1, <2>1, <2>2, <2>3 DEF AfterCutover, Booting
<1>6. CASE Listen(p)
  <2> DEFINE r == [old EXCEPT !.at = "listening", !.timer = TRUE]
  <2>1. /\ old.at = "built" /\ proc' = [proc EXCEPT ![p] = r]
        /\ disk' = disk /\ issued' = issued /\ lock' = lock
    BY <1>6 DEF Listen
  <2>2. r \in Records /\ r.at = "listening" /\ ~r.busy
    BY <1>g, <1>2, <2>1 DEF Good, Records, Stages, Booting
  <2>3. Owned(r)
    BY <1>g, <1>2, <2>1 DEF Good, Records, Booting, Owned, OnItsWay, OpenAt
  <2> HIDE DEF r
  <2> QED
    BY <1>1, <2>1, <2>2, <2>3 DEF AfterCutover, Booting
<1> QED
  BY <1>3, <1>4, <1>5, <1>6

-----------------------------------------------------------------------------
(* A listener's requests.                                                   *)
LEMMA AcceptKeeps ==
  ASSUME ServerInv, NEW p \in Processes, env' = env, Accept(p) PROVE ServerInv'
<1> DEFINE old == proc[p]
           r == [old EXCEPT !.busy = TRUE]
<1>g. Good(p, old, disk, lock, env)
  BY DEF ServerInv
<1>1. /\ old.at = "listening" /\ proc' = [proc EXCEPT ![p] = r]
      /\ disk' = disk /\ issued' = issued /\ lock' = lock
  BY DEF Accept
<1>2. /\ r \in Records /\ r.at = "listening" /\ r.res = old.res /\ r.timer = old.timer
  BY <1>g, <1>1 DEF Good, Records
<1>3. Owned(r)
  BY <1>g, <1>1, <1>2 DEF Good, Owned, OnItsWay, OpenAt
<1>4. Cut(p, r, disk, lock) /\ Vetted(r, disk, env)
  BY <1>g, <1>1, <1>2 DEF Good, Cut, Vetted, AfterCutover, Active, Booting
<1> HIDE DEF r, old
<1> QED
  BY <1>1, <1>2, <1>3, <1>4, DirectoryUntouched DEF Good

(* What a record is once its request is answered.                           *)
LEMMA Answers ==
  ASSUME NEW p \in Processes, NEW old, NEW d, Good(p, old, d, lock, env)
  PROVE  Good(p, [old EXCEPT !.busy = FALSE], d, lock, env)
<1> DEFINE r == [old EXCEPT !.busy = FALSE]
<1>1. /\ r \in Records /\ r.at = old.at /\ r.res = old.res /\ r.timer = old.timer /\ ~r.busy
      /\ r.todo = old.todo /\ r.work = old.work /\ r.left = old.left
  BY DEF Good, Records
<1> HIDE DEF r
<1>2. Owned(r)
  BY <1>1 DEF Good, Owned, OnItsWay, OnItsWayOut
<1>3. Cut(p, r, d, lock) /\ Vetted(r, d, env)
  BY <1>1 DEF Good, Cut, Migrates, Vetted, Active
<1> QED
  BY <1>1, <1>2, <1>3 DEF Good, r

LEMMA RefuseKeeps ==
  ASSUME ServerInv, NEW p \in Processes, env' = env, Refuse(p) PROVE ServerInv'
<1> DEFINE r == [proc[p] EXCEPT !.busy = FALSE]
<1>1. Good(p, r, disk, lock, env)
  BY Answers DEF ServerInv
<1>2. proc' = [proc EXCEPT ![p] = r] /\ disk' = disk /\ issued' = issued /\ lock' = lock
  BY DEF Refuse
<1> HIDE DEF r
<1> QED
  BY <1>1, <1>2, DirectoryUntouched

LEMMA GrantKeeps ==
  ASSUME ServerInv, NEW p \in Processes, env' = env, Grant(p) PROVE ServerInv'
<1> DEFINE old == proc[p]
           r == [old EXCEPT !.busy = FALSE]
<1>g. Good(p, old, disk, lock, env) /\ disk \in StateDirectories /\ Stored(disk, issued)
  BY DEF ServerInv
<1>1. /\ old.busy /\ lock = Nobody /\ lock' = lock /\ issued' = TRUE
      /\ proc' = [proc EXCEPT ![p] = r]
      /\ disk' = [disk EXCEPT !.rows = [t \in Tables |-> disk.rows[t] \cup {"current"}]]
  BY DEF Grant
<1>2. disk.marker
  BY <1>g, <1>1 DEF Good, Cut
<1>3. /\ disk' \in StateDirectories /\ disk'.marker = disk.marker /\ disk'.dir = disk.dir
      /\ disk'.auth = disk.auth /\ disk'.clients = disk.clients
      /\ \A t \in Tables : disk'.rows[t] = disk.rows[t] \cup {"current"}
  <2>1. [t \in Tables |-> disk.rows[t] \cup {"current"}] \in [Tables -> SUBSET Grants]
    BY <1>g DEF StateDirectories, Grants
  <2> QED
    BY <1>g, <1>1, <2>1 DEF StateDirectories
<1>4. Stored(disk', issued')
  BY <1>g, <1>2, <1>3 DEF Stored, Cleared
<1>5. Gentle(p)
  BY <1>1, <1>3, ServerAssumption DEF Gentle, Foreign
<1>6. old.at # "migrating"
  BY <1>g, <1>1 DEF Good, Owned
<1>7. Good(p, old, disk', lock, env)
  BY <1>g, <1>3, <1>6 DEF Good, Cut, Vetted, Foreign
<1>8. Good(p, r, disk', lock', env)
  BY <1>1, <1>7, Answers
<1> HIDE DEF r, old
<1> QED
  BY <1>1, <1>3, <1>4, <1>5, <1>8, OneProcessMoves DEF ServerInv

-----------------------------------------------------------------------------
(* Closing, one thing after the other.                                      *)
LEMMA CloseKeeps ==
  ASSUME ServerInv, NEW p \in Processes, env' = env, Close(p) PROVE ServerInv'
<1> DEFINE old == proc[p]
           r == [old EXCEPT !.at = "closing", !.timer = FALSE, !.todo = <<"app", "clients", "auth">>]
<1>g. Good(p, old, disk, lock, env)
  BY DEF ServerInv
<1>1. /\ old.at = "listening" /\ proc' = [proc EXCEPT ![p] = r]
      /\ disk' = disk /\ issued' = issued /\ lock' = lock
  BY DEF Close
<1>2. /\ r \in Records /\ r.at = "closing" /\ r.res = old.res /\ ~r.timer
      /\ r.todo = <<"app", "clients", "auth">> /\ r.busy = old.busy
  BY <1>g, <1>1 DEF Good, Records, Stages, Todo
<1>3. Owned(r)
  <2>1. \A x \in {"app", "clients", "auth"} : r.res[x] = "open"
    BY <1>g, <1>1, <1>2 DEF Good, Owned, OnItsWay, OpenAt, Resources
  <2>2. r.res["db"] \in {"none", "closed"}
    BY <1>g, <1>1, <1>2 DEF Good, Owned, OnItsWay, OpenAt, Resources
  <2>3. \A x \in {"app", "clients", "auth"} : Pending(r.todo, x)
    BY <1>2 DEF Pending
  <2>4. ~Pending(r.todo, "db")
    BY <1>2 DEF Pending
  <2> HIDE DEF r
  <2>5. OnItsWayOut(r)
    BY <2>1, <2>2, <2>3, <2>4 DEF OnItsWayOut, Resources
  <2> QED
    BY <1>2, <2>1, <2>5 DEF Owned
<1>4. Cut(p, r, disk, lock) /\ Vetted(r, disk, env)
  BY <1>g, <1>1, <1>2 DEF Good, Cut, Vetted, AfterCutover, Active, Booting
<1> HIDE DEF r, old
<1> QED
  BY <1>1, <1>2, <1>3, <1>4, DirectoryUntouched DEF Good

(* The tail of what is left to close is what is left, without its head.     *)
LEMMA TodoTail ==
  ASSUME NEW todo \in Todo, todo # << >>
  PROVE  /\ Tail(todo) \in Todo /\ Head(todo) \in Resources
         /\ \A x : Pending(todo, x) <=> x = Head(todo) \/ Pending(Tail(todo), x)
         /\ ~Pending(Tail(todo), Head(todo))
<1>1. CASE todo = <<"db">>
  BY <1>1 DEF Todo, Resources, Pending
<1>2. CASE todo = <<"auth">>
  BY <1>2 DEF Todo, Resources, Pending
<1>3. CASE todo = <<"clients", "auth">>
  BY <1>3 DEF Todo, Resources, Pending
<1>4. CASE todo = <<"app", "clients", "auth">>
  BY <1>4 DEF Todo, Resources, Pending
<1> QED
  BY <1>1, <1>2, <1>3, <1>4 DEF Todo

LEMMA CloseNextKeeps ==
  ASSUME ServerInv, NEW p \in Processes, NEW failed, env' = env, CloseNext(p, failed)
  PROVE  ServerInv'
<1> DEFINE old == proc[p]
           x == Head(old.todo)
           r == AfterClose(Shut(old, x), failed)
<1>g. Good(p, old, disk, lock, env)
  BY DEF ServerInv
<1>1. /\ old.at = "closing" /\ old.todo # << >> /\ (x = "app" => ~old.busy)
      /\ proc' = [proc EXCEPT ![p] = r] /\ disk' = disk /\ issued' = issued /\ lock' = lock
  BY DEF CloseNext
<1>2. /\ Tail(old.todo) \in Todo /\ x \in Resources
      /\ \A y : Pending(old.todo, y) <=> y = x \/ Pending(Tail(old.todo), y)
      /\ ~Pending(Tail(old.todo), x)
  BY <1>g, <1>1, TodoTail DEF Good, Records
<1>3. ~old.busy /\ ~old.timer /\ OnItsWayOut(old)
  <2>1. old.busy => old.todo = <<"app", "clients", "auth">>
    BY <1>g, <1>1 DEF Good, Owned
  <2>2. Head(<<"app", "clients", "auth">>) = "app"
    OBVIOUS
  <2> QED
    BY <1>g, <1>1, <2>1, <2>2 DEF Good, Owned, Records
<1>4. old.res[x] \in {"none", "open"}
  BY <1>2, <1>3 DEF OnItsWayOut
<1>5. /\ r \in Records /\ r.at = "closing" /\ ~r.busy /\ ~r.timer /\ r.todo = Tail(old.todo)
      /\ r.res[x] \in {"none", "closed"}
      /\ \A y \in Resources \ {x} : r.res[y] = old.res[y]
  BY <1>g, <1>1, <1>2, <1>3, <1>4 DEF Good, Records, AfterClose, Shut
<1>6. Owned(r)
  <2> HIDE DEF r, x, old
  <2>1. OnItsWayOut(r)
    BY <1>2, <1>3, <1>5 DEF OnItsWayOut
  <2> QED
    BY <1>5, <2>1 DEF Owned
<1>7. Cut(p, r, disk, lock) /\ Vetted(r, disk, env)
  BY <1>g, <1>1, <1>5 DEF Good, Cut, Vetted, AfterCutover, Active, Booting
<1> HIDE DEF r, x, old
<1> QED
  BY <1>1, <1>5, <1>6, <1>7, DirectoryUntouched DEF Good

LEMMA ExitKeeps ==
  ASSUME ServerInv, NEW p \in Processes, env' = env, Exit(p) PROVE ServerInv'
<1> DEFINE old == proc[p]
           r == [old EXCEPT !.at = "exited"]
<1>g. Good(p, old, disk, lock, env)
  BY DEF ServerInv
<1>1. /\ old.at = "closing" /\ old.todo = << >> /\ proc' = [proc EXCEPT ![p] = r]
      /\ disk' = disk /\ issued' = issued /\ lock' = lock
  BY DEF Exit, Goes
<1>2. ~old.busy /\ ~old.timer /\ OnItsWayOut(old)
  BY <1>g, <1>1 DEF Good, Owned, Records
<1>3. /\ r \in Records /\ r.at = "exited" /\ r.res = old.res /\ r.todo = old.todo
      /\ ~r.busy /\ ~r.timer
  BY <1>g, <1>2 DEF Good, Records, Stages
<1>4. Owned(r)
  BY <1>1, <1>2, <1>3 DEF Owned, OnItsWayOut
<1>5. Cut(p, r, disk, lock) /\ Vetted(r, disk, env)
  BY <1>3 DEF Cut, Vetted, AfterCutover, Active, Booting
<1> HIDE DEF r, old
<1> QED
  BY <1>1, <1>3, <1>4, <1>5, DirectoryUntouched DEF Good

LEMMA CrashKeeps ==
  ASSUME ServerInv, NEW p \in Processes, env' = env, Crash(p) PROVE ServerInv'
<1> DEFINE r == Fresh("down")
<1>1. /\ proc' = [proc EXCEPT ![p] = r] /\ disk' = disk /\ issued' = issued
      /\ lock' = Released(p)
  BY DEF Crash, Released
<1>2. r \in Records /\ r.at = "down" /\ ~r.busy
  BY DEF Fresh, Records, Stages, Todo, ToMigrate
<1>3. Owned(r)
  BY DEF Fresh, Owned, OnItsWay, OpenAt
<1>4. Cut(p, r, disk, lock') /\ Vetted(r, disk, env)
  BY <1>2 DEF Cut, Vetted, AfterCutover, Active, Booting
<1> HIDE DEF r
<1> QED
  BY <1>1, <1>2, <1>3, <1>4, DirectoryUntouched DEF Good

-----------------------------------------------------------------------------
(* ServerInv survives every step.                                           *)
LEMMA ServerInductive == ServerInv /\ [Next]_vars => ServerInv'
<1> SUFFICES ASSUME ServerInv, [Next]_vars PROVE ServerInv'
  OBVIOUS
<1>1. CASE UNCHANGED vars
  BY <1>1 DEF vars, server, ServerInv, Stored, Good, Cut, Migrates, Vetted, Foreign
<1>2. ASSUME NEW p \in Processes, env' = env, Steps(p) PROVE ServerInv'
  <2>1. CASE BusyTimeout(p)
    BY <1>2, <2>1, AbortsKeeps DEF BusyTimeout, Booting
  <2>2. CASE \E failed \in BOOLEAN : CloseNext(p, failed)
    BY <1>2, <2>2, CloseNextKeeps
  <2> QED
    BY <1>2, <2>1, <2>2, PrepareKeeps, FileStepsKeep, BeginKeeps, DeleteTableKeeps,
       CommitKeeps, OpenStepsKeep, ExitKeeps, Zenon DEF Steps
<1>3. ASSUME NEW p \in Processes, env' = env, BootFails(p) PROVE ServerInv'
  BY <1>3, AbortsKeeps DEF BootFails
<1>4. ASSUME env' = env, NEW p \in Processes,
             \/ ResolveBoot(p) \/ Accept(p) \/ Grant(p) \/ Refuse(p) \/ Close(p) \/ Crash(p)
      PROVE  ServerInv'
  BY <1>4, ResolveBootKeeps, AcceptKeeps, GrantKeeps, RefuseKeeps, CloseKeeps, CrashKeeps, Zenon
<1> QED
  BY <1>1, <1>2, <1>3, <1>4, Zenon DEF Next

THEOREM ServerInvariant == Spec => []ServerInv
  BY ServerInit, ServerInductive, PTL DEF Spec

(* runStoredDcrMigration cuts the stored grants over once, for any number   *)
(* of processes, boots, failures and crashes on one state directory: a      *)
(* listening server never finds a grant of before, and no boot deletes one  *)
(* that a listening server issued.  The lock that BEGIN IMMEDIATE takes     *)
(* before the marker is read makes the work of a migration the last word on *)
(* the tables until its commit.                                             *)
THEOREM OneCutover == Spec => []CutoverOnce
<1>1. ServerInv => CutoverOnce
  <2> SUFFICES ASSUME ServerInv PROVE CutoverOnce
    OBVIOUS
  <2>1. ASSUME NEW p \in Processes, Serving(p) PROVE disk.marker
    BY <2>1 DEF ServerInv, Good, Cut, Serving, AfterCutover
  <2> QED
    BY <2>1 DEF ServerInv, Stored, Cleared, CutoverOnce
<1> QED
  BY <1>1, ServerInvariant, PTL

(* Wherever a boot or a close of startHostedServer fails, what was opened   *)
(* is closed, each thing once, and never under a request or the sweep.      *)
THEOREM OwnedAndClosed == Spec => []ResourcesOwned
<1>1. ServerInv => ResourcesOwned
  <2> SUFFICES ASSUME ServerInv, NEW p \in Processes
               PROVE  LET r == proc[p] IN
                      /\ r.at = "exited" => \A x \in Resources : r.res[x] \in {"none", "closed"}
                      /\ \A x \in Resources : r.res[x] # "twice"
                      /\ r.timer \/ r.busy => r.res["auth"] = "open" /\ r.res["clients"] = "open"
    BY DEF ResourcesOwned
  <2> DEFINE r == proc[p]
  <2>1. Owned(r)
    BY DEF ServerInv, Good
  <2> HIDE DEF r
  <2>2. r.at = "exited" => \A x \in Resources : r.res[x] \in {"none", "closed"}
    <3>1. \A x : ~Pending(<< >>, x)
      BY DEF Pending
    <3> QED
      BY <2>1, <3>1 DEF Owned, OnItsWayOut
  <2>3. \A x \in Resources : r.res[x] # "twice"
    BY <2>1 DEF Owned, OnItsWay, OnItsWayOut
  <2>4. r.timer \/ r.busy => r.res["auth"] = "open" /\ r.res["clients"] = "open"
    BY <2>1 DEF Owned, OnItsWay, OpenAt, Resources
  <2> QED
    BY <2>2, <2>3, <2>4 DEF r
<1> QED
  BY <1>1, ServerInvariant, PTL

(* Under no environment does a gateway listen that renders in its own       *)
(* process: readFlavor and the configuration's flavor read the same         *)
(* variables differently, and only agree because hosted is spelled exactly. *)
THEOREM RenderedElsewhere == Spec => []BrowserApart
<1>1. ServerInv => BrowserApart
  BY AcceptedRendersElsewhere DEF ServerInv, Good, Vetted, Active, Serving, BrowserApart
<1> QED
  BY <1>1, ServerInvariant, PTL

(* Only a process that passed resolveBoot changes the state directory, so   *)
(* it is left alone where it is not ours or a selector is malformed.        *)
THEOREM LeftAsFound == Spec => UntrustedUntouched
<1>1. ServerInv /\ [Next]_vars => [Foreign(disk) \/ Malformed(env) => disk' = disk]_disk
  <2> SUFFICES ASSUME ServerInv, Next, Foreign(disk) \/ Malformed(env), disk' # disk PROVE FALSE
    BY DEF vars, server
  <2>1. \A p \in Processes : ~Active(proc[p])
    BY AcceptedIsWellFormed DEF ServerInv, Good, Vetted
  <2>2. ASSUME NEW p \in Processes,
               \/ Prepare(p) \/ OpenDatabase(p) \/ LockFile(p) \/ Commit(p)
               \/ OpenClients(p) \/ LockClients(p)
        PROVE  FALSE
    BY <2>1, <2>2 DEF Prepare, OpenDatabase, LockFile, Commit, OpenClients, LockClients, Active
  <2>3. ASSUME NEW p \in Processes, Grant(p) PROVE FALSE
    <3>1. proc[p].busy /\ Owned(proc[p])
      BY <2>3 DEF Grant, ServerInv, Good
    <3> QED
      BY <2>1, <3>1 DEF Owned, Active
  <2>4. ASSUME NEW p \in Processes, Steps(p) PROVE FALSE
    <3>1. CASE \E failed \in BOOLEAN : CloseNext(p, failed)
      BY <3>1 DEF CloseNext
    <3>2. CASE BusyTimeout(p)
      BY <3>2 DEF BusyTimeout, Aborts
    <3>3. CASE Begin(p) \/ DeleteTable(p) \/ OpenAuth(p) \/ CreateApp(p) \/ Listen(p) \/ Exit(p)
      BY <3>3 DEF Begin, DeleteTable, OpenAuth, CreateApp, Listen, Exit
    <3>4. CASE Verify(p)
      BY <3>4 DEF Verify, Aborts
    <3> QED
      BY <2>2, <2>4, <3>1, <3>2, <3>3, <3>4, Zenon DEF Steps
  <2>5. ASSUME NEW p \in Processes,
               \/ ResolveBoot(p) \/ BootFails(p) \/ Accept(p) \/ Refuse(p) \/ Close(p) \/ Crash(p)
        PROVE  FALSE
    BY <2>5 DEF ResolveBoot, BootFails, Aborts, Accept, Refuse, Close, Crash
  <2> QED
    BY <2>3, <2>4, <2>5, Zenon DEF Next
<1> QED
  BY <1>1, ServerInvariant, PTL DEF Spec, UntrustedUntouched

-----------------------------------------------------------------------------
(* The calls the listening server answers.  The admission limiter counts    *)
(* right for any callers, requests, posts and limits; the invariant adds to *)
(* AdmissionExact only that every caller has a record with a state.         *)

Holding == {"running", "throwing"}
Inside == {c \in Callers : call[c].at \in Holding}
CallsShape ==
  /\ DOMAIN call = Callers
  /\ \A c \in Callers : "at" \in DOMAIN call[c]
AdmissionInv == CallsShape /\ AdmissionExact

(* Moving one call moves it in or out of the set of executions, and nothing *)
(* else.                                                                    *)
LEMMA OneCallMoves ==
  ASSUME CallsShape, NEW c \in Callers, NEW r, "at" \in DOMAIN r,
         DOMAIN call' = Callers, call'[c] = r,
         \A d \in Callers \ {c} : call'[d] = call[d]
  PROVE  /\ CallsShape'
         /\ Inside' = IF r.at \in Holding THEN Inside \cup {c} ELSE Inside \ {c}
<1>1. CallsShape'
  BY DEF CallsShape
<1>2. CASE r.at \in Holding
  BY <1>1, <1>2 DEF Inside
<1>3. CASE r.at \notin Holding
  BY <1>1, <1>3 DEF Inside
<1> QED
  BY <1>2, <1>3, <1>1

(* What the counter is when one execution begins or ends.                   *)
LEMMA InsideCount ==
  /\ Cardinality(Inside) \in Nat
  /\ \A c \in Callers \ Inside : Cardinality(Inside \cup {c}) = Cardinality(Inside) + 1
  /\ \A c \in Inside : Cardinality(Inside \ {c}) = Cardinality(Inside) - 1
<1>1. IsFiniteSet(Inside)
  BY FS_Subset, CallsAssumption DEF Inside
<1>2. Cardinality(Inside) \in Nat
  BY <1>1, FS_CardinalityType
<1>3. \A c \in Callers \ Inside : Cardinality(Inside \cup {c}) = Cardinality(Inside) + 1
  BY <1>1, FS_AddElement
<1>4. \A c \in Inside : Cardinality(Inside \ {c}) = Cardinality(Inside) - 1
  BY <1>1, FS_RemoveElement
<1> QED
  BY <1>2, <1>3, <1>4

(* AdmissionExact in terms of Inside.                                       *)
LEMMA ExactInside ==
  AdmissionExact <=> active = Cardinality(Inside) /\ active <= MAX_CONCURRENT_MCP
  BY DEF AdmissionExact, Inside, Holding

LEMMA ExactInsidePrime ==
  AdmissionExact' <=> active' = Cardinality(Inside') /\ active' <= MAX_CONCURRENT_MCP
  BY DEF AdmissionExact, Inside, Holding

(* A call begins: with a slot when it is admitted, without one otherwise.   *)
LEMMA CallToolKeeps ==
  ASSUME AdmissionInv, NEW c \in Callers, NEW q \in Requests, CallTool(c, q)
  PROVE  AdmissionInv'
<1> USE DEF AdmissionInv
<1>i. call[c].at = "idle" /\ c \notin Inside
  BY DEF CallTool, Inside, Holding
<1>1. ASSUME NEW at, NEW error, Starts(c, q, at, error)
      PROVE  /\ CallsShape'
             /\ Inside' = IF at \in Holding THEN Inside \cup {c} ELSE Inside \ {c}
  <2> DEFINE r == NewCall(q, at, error)
  <2>1. "at" \in DOMAIN r /\ r.at = at
    BY DEF NewCall
  <2>2. call' = [call EXCEPT ![c] = r]
    BY <1>1 DEF Starts
  <2> HIDE DEF r
  <2>3. DOMAIN call' = Callers /\ call'[c] = r /\ \A d \in Callers \ {c} : call'[d] = call[d]
    BY <2>2 DEF CallsShape
  <2> QED
    BY <2>1, <2>3, OneCallMoves
<1>2. CASE /\ active < MAX_CONCURRENT_MCP /\ active' = active + 1
           /\ \E at \in Holding, error \in {"none", "bulk_quota_exceeded"} :
                Starts(c, q, at, error)
  <2>1. CallsShape' /\ Inside' = Inside \cup {c}
    BY <1>1, <1>2
  <2>2. Cardinality(Inside') = Cardinality(Inside) + 1
    BY <2>1, <1>i, InsideCount
  <2> QED
    BY <2>1, <2>2, <1>2, InsideCount, ExactInside, ExactInsidePrime, CallsAssumption
<1>3. CASE active' = active /\ \E error : Starts(c, q, "failing", error)
  <2>1. CallsShape' /\ Inside' = Inside
    BY <1>1, <1>3, <1>i DEF Holding
  <2> QED
    BY <2>1, <1>3, ExactInside, ExactInsidePrime
<1>4. active \in Nat
  BY InsideCount, ExactInside
<1>5. ~(active >= MAX_CONCURRENT_MCP) => active < MAX_CONCURRENT_MCP
  BY <1>4, CallsAssumption
<1>6. \/ active' = active /\ \E error : Starts(c, q, "failing", error)
      \/ /\ active < MAX_CONCURRENT_MCP /\ active' = active + 1
         /\ \E at \in Holding, error \in {"none", "bulk_quota_exceeded"} : Starts(c, q, at, error)
  <2>1. CASE ~q.valid \/ RequiredScope(q) \notin q.scopes \/ active >= MAX_CONCURRENT_MCP
    BY <2>1, Zenon DEF CallTool
  <2>2. CASE ~(~q.valid \/ RequiredScope(q) \notin q.scopes \/ active >= MAX_CONCURRENT_MCP)
    <3>1. active < MAX_CONCURRENT_MCP
      BY <2>2, <1>5
    <3>2. active' = active + 1
      BY <2>2, Zenon DEF CallTool
    <3>3. Starts(c, q, "running", "none") \/ Starts(c, q, "throwing", "bulk_quota_exceeded")
      BY <2>2, Zenon DEF CallTool
    <3> QED
      BY <3>1, <3>2, <3>3, Zenon DEF Holding
  <2> QED
    BY <2>1, <2>2
<1> QED
  BY <1>6, <1>2, <1>3

(* A call ends its execution, with a result or not, and returns the slot.   *)
LEMMA LeaveKeeps ==
  ASSUME AdmissionInv, NEW c \in Inside, active' = Leave(TRUE),
         NEW r, "at" \in DOMAIN r, r.at \notin Holding, call' = [call EXCEPT ![c] = r]
  PROVE  AdmissionInv'
<1> USE DEF AdmissionInv
<1>0. c \in Callers
  BY DEF Inside
<1>1. DOMAIN call' = Callers /\ call'[c] = r /\ \A d \in Callers \ {c} : call'[d] = call[d]
  BY <1>0 DEF CallsShape
<1>2. CallsShape' /\ Inside' = Inside \ {c}
  BY <1>0, <1>1, OneCallMoves
<1>3. Cardinality(Inside') = Cardinality(Inside) - 1 /\ Cardinality(Inside') \in Nat
  <2>1. Cardinality(Inside') = Cardinality(Inside) - 1
    BY <1>2, InsideCount
  <2>2. IsFiniteSet(Inside')
    BY <1>2, FS_Subset, CallsAssumption DEF Inside
  <2> QED
    BY <2>1, <2>2, FS_CardinalityType
<1>4. active > 0 /\ active' = active - 1
  BY <1>3, InsideCount, ExactInside DEF Leave
<1>5. active = Cardinality(Inside) /\ active <= MAX_CONCURRENT_MCP
  BY ExactInside
<1>6. active' = Cardinality(Inside')
  BY <1>3, <1>4, <1>5
<1>7. active' <= MAX_CONCURRENT_MCP
  <2>1. active \in Nat
    BY <1>5, InsideCount
  <2>2. MAX_CONCURRENT_MCP \in Nat /\ active <= MAX_CONCURRENT_MCP
    BY <1>5, CallsAssumption
  <2>3. \A n, m \in Nat : n > 0 /\ n <= m => n - 1 <= m
    OBVIOUS
  <2>4. active - 1 <= MAX_CONCURRENT_MCP
    BY <1>4, <2>1, <2>2, <2>3
  <2> QED
    BY <1>4, <2>4, Zenon
<1> QED
  BY <1>2, <1>6, <1>7, ExactInsidePrime

(* A call that holds no slot goes on without one.                           *)
LEMMA OutsideKeeps ==
  ASSUME AdmissionInv, NEW c \in Callers \ Inside, active' = active,
         NEW r, "at" \in DOMAIN r, r.at \notin Holding, call' = [call EXCEPT ![c] = r]
  PROVE  AdmissionInv'
<1> USE DEF AdmissionInv
<1>1. DOMAIN call' = Callers /\ call'[c] = r /\ \A d \in Callers \ {c} : call'[d] = call[d]
  BY DEF CallsShape
<1>2. CallsShape' /\ Inside' = Inside
  BY <1>1, OneCallMoves
<1> QED
  BY <1>2, ExactInside, ExactInsidePrime

(* AdmissionInv survives every step.                                        *)
LEMMA AdmissionInductive == AdmissionInv /\ [CallsNext]_callsVars => AdmissionInv'
<1> SUFFICES ASSUME AdmissionInv, [CallsNext]_callsVars PROVE AdmissionInv'
  OBVIOUS
<1>s. CallsShape
  BY DEF AdmissionInv
<1>1. ASSUME NEW c \in Callers, NEW q \in Requests, CallTool(c, q) PROVE AdmissionInv'
  BY <1>1, CallToolKeeps
<1>2. ASSUME NEW c \in Callers, Throws(c) PROVE AdmissionInv'
  <2> DEFINE r == [call[c] EXCEPT !.at = "failing",
                                  !.error = IF @ = "none" THEN "internal" ELSE @]
  <2>1. c \in Inside /\ active' = Leave(TRUE)
    BY <1>2 DEF Throws, Inside, Holding
  <2>2. call' = [call EXCEPT ![c] = r]
    BY <1>2, <1>s DEF Throws, CallsShape
  <2>3. "at" \in DOMAIN r /\ r.at = "failing"
    BY <1>s DEF CallsShape
  <2> HIDE DEF r
  <2> QED
    BY <2>1, <2>2, <2>3, LeaveKeeps DEF Holding
<1>3. ASSUME NEW c \in Callers, NEW failed, NEW partial, Ends(c, failed, partial)
      PROVE  AdmissionInv'
  <2>1. c \in Inside /\ active' = Leave(TRUE)
    BY <1>3 DEF Ends, Inside, Holding, Leave
  <2>2. PICK result : call' = [call EXCEPT ![c].at = "auditing", ![c].result = result]
    BY <1>3, Zenon DEF Ends
  <2> DEFINE r == [call[c] EXCEPT !.at = "auditing", !.result = result]
  <2>3. call' = [call EXCEPT ![c] = r]
    BY <2>2, <1>s DEF CallsShape
  <2>4. "at" \in DOMAIN r /\ r.at = "auditing"
    BY <1>s DEF CallsShape
  <2> HIDE DEF r
  <2> QED
    BY <2>1, <2>3, <2>4, LeaveKeeps DEF Holding
<1>4. ASSUME NEW c \in Callers, NEW ok \in BOOLEAN, Audit(c, ok) PROVE AdmissionInv'
  <2> DEFINE r == IF call[c].at = "auditing" THEN AuditResult(call[c], ok)
                  ELSE AuditFailure(call[c], ok)
  <2>1. c \in Callers \ Inside /\ active' = active
    BY <1>4 DEF Audit, Inside, Holding
  <2>2. call' = [call EXCEPT ![c] = r]
    BY <1>4 DEF Audit
  <2>3. "at" \in DOMAIN r /\ r.at \in {"auditing", "answered"}
    <3>1. "at" \in DOMAIN call[c] /\ call[c].at \in {"auditing", "failing"}
      BY <1>s, <1>4 DEF CallsShape, Audit
    <3>2. CASE call[c].at = "auditing"
      BY <3>1, <3>2 DEF AuditResult
    <3>3. CASE call[c].at = "failing"
      BY <3>1, <3>3 DEF AuditFailure
    <3> QED
      BY <3>1, <3>2, <3>3
  <2> HIDE DEF r
  <2> QED
    BY <2>1, <2>2, <2>3, OutsideKeeps DEF Holding
<1>5. ASSUME NEW c \in Callers, Return(c) PROVE AdmissionInv'
  <2>1. c \in Callers \ Inside /\ active' = active /\ call' = [call EXCEPT ![c] = Idle]
    BY <1>5 DEF Return, Inside, Holding
  <2>2. "at" \in DOMAIN Idle /\ Idle.at \notin Holding
    BY DEF Idle, Holding
  <2> HIDE DEF Idle
  <2> QED
    BY <2>1, <2>2, OutsideKeeps
<1>6. ASSUME UNCHANGED <<active, call>> PROVE AdmissionInv'
  BY <1>6 DEF AdmissionInv, CallsShape, AdmissionExact
<1>7. ASSUME NEW m \in Posts, OAuthPost(m) PROVE AdmissionInv'
  BY <1>6, <1>7 DEF OAuthPost
<1>8. CASE Tick
  BY <1>6, <1>8 DEF Tick
<1>9. CASE UNCHANGED callsVars
  BY <1>6, <1>9 DEF callsVars
<1> QED
  BY <1>1, <1>2, <1>3, <1>4, <1>5, <1>7, <1>8, <1>9 DEF CallsNext, Proceeds

(* A slot of the admission limiter is held by exactly the executions under  *)
(* way, and never are there more of them than slots, for any number of      *)
(* callers and any limit: callCaptatum and callBulk give back what          *)
(* AdmissionLimiter.tryEnter gave them, whether the execution returns,      *)
(* fails or is refused its quota, and no refused call gives back a slot it  *)
(* never had.                                                               *)
THEOREM AdmissionCounted == CallsSpec => []AdmissionExact
<1>1. CallsInit => AdmissionInv
  <2> SUFFICES ASSUME CallsInit PROVE AdmissionInv
    OBVIOUS
  <2>1. CallsShape
    BY DEF CallsInit, CallsShape, Idle
  <2>2. Inside = {}
    BY DEF CallsInit, Inside, Holding, Idle
  <2>3. Cardinality(Inside) = 0 /\ active = 0
    BY <2>2, FS_EmptySet DEF CallsInit
  <2> QED
    BY <2>1, <2>3, ExactInside, CallsAssumption DEF AdmissionInv
<1>2. AdmissionInv /\ [CallsNext]_callsVars => AdmissionInv'
  BY AdmissionInductive
<1>3. AdmissionInv => AdmissionExact
  BY DEF AdmissionInv
<1> QED
  BY <1>1, <1>2, <1>3, PTL DEF CallsSpec

-----------------------------------------------------------------------------
(* The first n of a set of places are as many as there are, n at most.      *)
LEMMA FirstCount ==
  ASSUME NEW N \in Nat, NEW S \in SUBSET (1..N), NEW n \in Nat
  PROVE  /\ ApplyTotalClamp(S, n) \subseteq S
         /\ Cardinality(ApplyTotalClamp(S, n)) = Least(Cardinality(S), n)
         /\ Cardinality(S) <= n => ApplyTotalClamp(S, n) = S
<1>f. \A k \in Nat : \A X \in SUBSET (1..k) : IsFiniteSet(X) /\ Cardinality(X) \in Nat
  <2> SUFFICES ASSUME NEW k \in Nat, NEW X \in SUBSET (1..k)
               PROVE  IsFiniteSet(X) /\ Cardinality(X) \in Nat
    OBVIOUS
  <2>1. IsFiniteSet(1..k)
    BY FS_Interval
  <2> QED  BY <2>1, FS_Subset, FS_CardinalityType
<1>1. ApplyTotalClamp(S, n) \subseteq S
  BY DEF ApplyTotalClamp
<1>2. ASSUME Cardinality(S) <= n, NEW i \in S PROVE i \in ApplyTotalClamp(S, n)
  <2>1. Before(S, i) \in SUBSET (S \ {i})
    BY DEF Before
  <2>2. IsFiniteSet(S \ {i}) /\ Cardinality(S \ {i}) = Cardinality(S) - 1
    BY <1>f, FS_RemoveElement
  <2>3. Cardinality(Before(S, i)) <= Cardinality(S) - 1 /\ Cardinality(Before(S, i)) \in Nat
    BY <2>1, <2>2, FS_Subset, FS_CardinalityType
  <2>4. Cardinality(S) \in Nat
    BY <1>f
  <2> QED  BY <1>2, <2>3, <2>4 DEF ApplyTotalClamp
<1> DEFINE Counts(X) == Cardinality(ApplyTotalClamp(X, n)) = Least(Cardinality(X), n)
           T == {k \in Nat : \A X \in SUBSET (1..k) : Counts(X)}
<1>3. 0 \in T
  <2>1. \A X \in SUBSET (1..0) : X = {}
    OBVIOUS
  <2>2. ApplyTotalClamp({}, n) = {} /\ Cardinality({}) = 0
    BY FS_EmptySet DEF ApplyTotalClamp
  <2>3. Counts({})
    BY <2>2 DEF Least
  <2> QED  BY <2>1, <2>3
<1>4. ASSUME NEW k \in Nat, k \in T PROVE k + 1 \in T
  <2>1. ASSUME NEW X \in SUBSET (1..(k + 1)) PROVE Counts(X)
    <3>1. CASE k + 1 \notin X
      <4>1. X \in SUBSET (1..k)
        BY <3>1
      <4> QED  BY <4>1, <1>4
    <3>2. CASE k + 1 \in X
      <4> DEFINE Y == X \ {k + 1}
      <4>1. Y \in SUBSET (1..k) /\ Counts(Y)
        <5>1. Y \in SUBSET (1..k)
          OBVIOUS
        <5> QED  BY <5>1, <1>4
      <4>2. \A i \in Y : Before(X, i) = Before(Y, i)
        BY DEF Before
      <4>3. Before(X, k + 1) = Y
        <5>1. \A j \in X : j \in Int /\ j <= k + 1
          BY <2>1
        <5>2. \A j \in X : j < k + 1 <=> j # k + 1
          BY <5>1
        <5> QED  BY <5>2 DEF Before
      <4>4. X = Y \cup {k + 1} /\ k + 1 \notin Y
        BY <3>2
      <4>5. Cardinality(Y) \in Nat /\ IsFiniteSet(Y) /\ IsFiniteSet(ApplyTotalClamp(Y, n))
        <5>1. ApplyTotalClamp(Y, n) \in SUBSET (1..k)
          BY <4>1 DEF ApplyTotalClamp
        <5> QED  BY <5>1, <4>1, <1>f
      <4> HIDE DEF Y
      <4>6. Cardinality(X) = Cardinality(Y) + 1
        BY <4>4, <4>5, FS_AddElement
      <4>7. ApplyTotalClamp(X, n) =
              IF Cardinality(Y) < n THEN ApplyTotalClamp(Y, n) \cup {k + 1}
                                    ELSE ApplyTotalClamp(Y, n)
        BY <4>2, <4>3, <4>4 DEF ApplyTotalClamp
      <4>8. k + 1 \notin ApplyTotalClamp(Y, n)
        BY <4>4 DEF ApplyTotalClamp
      <4>9. Cardinality(ApplyTotalClamp(Y, n) \cup {k + 1}) = Cardinality(ApplyTotalClamp(Y, n)) + 1
        BY <4>5, <4>8, FS_AddElement
      <4> QED  BY <4>1, <4>5, <4>6, <4>7, <4>9 DEF Least
    <3> QED  BY <3>1, <3>2
  <2> HIDE DEF Counts
  <2> QED  BY <2>1
<1>5. Nat \subseteq T
  <2> HIDE DEF T
  <2> QED  BY <1>3, <1>4, NatSetInduction
<1>6. Counts(S)
  BY <1>5
<1> QED  BY <1>1, <1>2, <1>6

(* What the places kept of one host are: the first of them.                 *)
LEMMA HostCapped ==
  ASSUME NEW urls, NEW S, NEW host
  PROVE  OfHost(urls, ApplyPerHostCap(urls, S), host)
           = ApplyTotalClamp(OfHost(urls, S, host), MAX_PER_HOST)
BY DEF OfHost, ApplyPerHostCap, ApplyTotalClamp

(* As many URLs as places, when no two places hold the same.                *)
LEMMA ImageCount ==
  ASSUME NEW f, NEW S, IsFiniteSet(S), \A i, j \in S : f[i] = f[j] => i = j
  PROVE  Cardinality({f[i] : i \in S}) = Cardinality(S)
<1> DEFINE T == {f[i] : i \in S}
           b == [i \in S |-> f[i]]
<1>1. b \in Bijection(S, T)
  BY DEF Bijection, Injection, Surjection, IsInjective
<1>2. ExistsBijection(S, T)
  BY <1>1 DEF ExistsBijection
<1> HIDE DEF T
<1>3. Cardinality(T) = Cardinality(S)
  BY <1>2, FS_Bijection
<1> QED  BY <1>3 DEF T

(* A set of numbers that is not empty has a least one.                     *)
LEMMA LeastPlace ==
  ASSUME NEW S \in SUBSET Nat, S # {}
  PROVE  \E m \in S : \A k \in S : ~(k < m)
<1>1. PICK m \in S : \A k \in S : ~(<<k, m>> \in OpToRel(<, Nat))
  BY NatLessThanWellFounded, WFMin
<1> QED  BY <1>1 DEF OpToRel

(* What the shaping keeps of the URLs of a bulk call.                       *)
Every(q) == OfKind(q.urls, "seed")
Unique(q) == DedupeSeeds(q.urls, Every(q))
Capped(q) == ApplyPerHostCap(q.urls, Unique(q))
Kept(q) == ApplyTotalClamp(Capped(q), MaxUrls(q))

(* shapeBulkInput step by step: the seeds, the first of equal ones, those  *)
(* within the share of their host, those within the cap.                   *)
LEMMA ShapeIs ==
  ASSUME NEW q
  PROVE  ShapeBulkInput(q) =
           [seeds |-> Kept(q), inputUrls |-> Cardinality(Every(q)),
            deduped |-> Cardinality(Every(q)) - Cardinality(Unique(q)),
            truncated |-> Cardinality(Unique(q)) - Cardinality(Capped(q)),
            clampedTo |-> IF Cardinality(Capped(q)) > MaxUrls(q) THEN MaxUrls(q) ELSE 0]
BY DEF ShapeBulkInput, Every, Unique, Capped, Kept

(* The caps are numbers.                                                   *)
LEMMA MaxUrlsNat == ASSUME NEW q PROVE MaxUrls(q) \in Nat /\ MAX_PER_HOST \in Nat
BY CallsAssumption DEF MaxUrls

Bulks == {q \in Requests : q.tool # "captatum"}

(* Every step keeps places of the URLs that the step before kept.          *)
LEMMA Places ==
  ASSUME NEW q \in Bulks
  PROVE  /\ Len(q.urls) \in Nat /\ Every(q) \in SUBSET (1..Len(q.urls))
         /\ Kept(q) \subseteq Capped(q) /\ Capped(q) \subseteq Unique(q)
         /\ Unique(q) \subseteq Every(q)
         /\ \A S \in SUBSET (1..Len(q.urls)) : IsFiniteSet(S) /\ Cardinality(S) \in Nat
<1>1. Len(q.urls) \in Nat /\ DOMAIN q.urls = 1..Len(q.urls)
  BY RequestsAssumption DEF Bulks
<1>2. Every(q) \in SUBSET (1..Len(q.urls))
  BY <1>1 DEF Every, OfKind
<1>3. Kept(q) \subseteq Capped(q) /\ Capped(q) \subseteq Unique(q) /\ Unique(q) \subseteq Every(q)
  BY DEF Kept, Capped, Unique, ApplyTotalClamp, ApplyPerHostCap, DedupeSeeds
<1>4. IsFiniteSet(1..Len(q.urls))
  BY <1>1, FS_Interval
<1> QED  BY <1>1, <1>2, <1>3, <1>4, FS_Subset, FS_CardinalityType

(* Of equal seeds exactly one is kept.                                     *)
LEMMA Unrepeated ==
  ASSUME NEW q \in Bulks
  PROVE  /\ \A i, j \in Unique(q) : q.urls[i] = q.urls[j] => i = j
         /\ \A i \in Every(q) : \E j \in Unique(q) : q.urls[j] = q.urls[i]
<1>1. \A i \in Every(q) : i \in Nat
  BY Places
<1>2. ASSUME NEW i \in Unique(q), NEW j \in Unique(q), q.urls[i] = q.urls[j], i # j
      PROVE  FALSE
  <2>1. i \in Every(q) /\ j \in Every(q) /\ (i < j \/ j < i)
    BY <1>1, <1>2, Places
  <2> QED  BY <1>2, <2>1 DEF Unique, DedupeSeeds, Before
<1>3. ASSUME NEW i \in Every(q) PROVE \E j \in Unique(q) : q.urls[j] = q.urls[i]
  <2> DEFINE Same == {j \in Every(q) : q.urls[j] = q.urls[i]}
  <2>1. Same \in SUBSET Nat /\ i \in Same
    BY <1>1
  <2>2. PICK m \in Same : \A k \in Same : ~(k < m)
    <3> HIDE DEF Same
    <3> QED  BY <2>1, LeastPlace
  <2>3. m \in Unique(q)
    BY <2>2 DEF Unique, DedupeSeeds, Before
  <2> QED  BY <2>2, <2>3
<1> QED  BY <1>2, <1>3

(* Of the clamp, and of the cap for each host.                              *)
LEMMA Clamped ==
  ASSUME NEW q \in Bulks
  PROVE  /\ Cardinality(Kept(q)) = Least(Cardinality(Capped(q)), MaxUrls(q))
         /\ Cardinality(Capped(q)) <= MaxUrls(q) => Kept(q) = Capped(q)
<1>1. Capped(q) \in SUBSET (1..Len(q.urls)) /\ Len(q.urls) \in Nat
  BY Places
<1> QED  BY <1>1, MaxUrlsNat, FirstCount DEF Kept

(* No host has more than its share, and one that lost a seed has all of    *)
(* it.                                                                     *)
LEMMA Shares ==
  ASSUME NEW q \in Bulks, NEW host
  PROVE  /\ Cardinality(OfHost(q.urls, Capped(q), host)) <= MAX_PER_HOST
         /\ \A i \in Unique(q) \ Capped(q) : q.urls[i].host = host =>
              Cardinality(OfHost(q.urls, Capped(q), host)) = MAX_PER_HOST
<1> DEFINE H == OfHost(q.urls, Unique(q), host)
           N == Len(q.urls)
<1>1. H \in SUBSET (1..N) /\ N \in Nat
  BY Places DEF OfHost
<1>2. OfHost(q.urls, Capped(q), host) = ApplyTotalClamp(H, MAX_PER_HOST)
  BY HostCapped DEF Capped
<1>3. Cardinality(ApplyTotalClamp(H, MAX_PER_HOST)) = Least(Cardinality(H), MAX_PER_HOST)
  <2> HIDE DEF H, N
  <2> QED  BY <1>1, MaxUrlsNat, FirstCount
<1>4. Cardinality(H) \in Nat /\ MAX_PER_HOST \in Nat /\ IsFiniteSet(H)
  BY <1>1, Places, MaxUrlsNat
<1>5. ASSUME NEW i \in Unique(q) \ Capped(q), q.urls[i].host = host
      PROVE  Cardinality(H) > MAX_PER_HOST
  <2>1. ~(Cardinality(Before(H, i)) < MAX_PER_HOST) /\ i \in H
    BY <1>5 DEF Capped, ApplyPerHostCap, OfHost
  <2>2. Before(H, i) \in SUBSET (H \ {i})
    <3>1. i \in Nat
      BY <1>1, <2>1
    <3> QED  BY <3>1 DEF Before
  <2> HIDE DEF H
  <2>3. IsFiniteSet(H \ {i}) /\ Cardinality(H \ {i}) = Cardinality(H) - 1
    BY <1>4, <2>1, FS_RemoveElement
  <2>4. Cardinality(Before(H, i)) <= Cardinality(H) - 1 /\ Cardinality(Before(H, i)) \in Nat
    BY <2>2, <2>3, FS_Subset, FS_CardinalityType
  <2> QED  BY <2>1, <2>4, <1>4
<1> HIDE DEF H
<1> QED  BY <1>2, <1>3, <1>4, <1>5 DEF Least

(* The share of a host among the URLs that are sent.                        *)
LEMMA SentShare ==
  ASSUME NEW q \in Bulks, NEW host
  PROVE  Cardinality({u \in {q.urls[i] : i \in Kept(q)} : u.host = host})
           = Cardinality(OfHost(q.urls, Kept(q), host))
<1> DEFINE H == OfHost(q.urls, Kept(q), host)
<1>1. IsFiniteSet(H) /\ H \subseteq Unique(q)
  BY Places DEF OfHost
<1>2. {u \in {q.urls[i] : i \in Kept(q)} : u.host = host} = {q.urls[i] : i \in H}
  BY DEF OfHost
<1>3. \A i, j \in H : q.urls[i] = q.urls[j] => i = j
  BY <1>1, Unrepeated
<1> HIDE DEF H
<1>4. Cardinality({q.urls[i] : i \in H}) = Cardinality(H)
  <2> DEFINE f == q.urls
  <2>1. \A i, j \in H : f[i] = f[j] => i = j
    BY <1>3
  <2> HIDE DEF f
  <2>2. Cardinality({f[i] : i \in H}) = Cardinality(H)
    BY <1>1, <2>1, ImageCount
  <2> QED  BY <2>2 DEF f
<1> QED  BY <1>2, <1>4 DEF H

(* As many URLs are sent as places are kept.                               *)
LEMMA SentCount ==
  ASSUME NEW q \in Bulks
  PROVE  Cardinality({q.urls[i] : i \in Kept(q)}) = Cardinality(Kept(q))
<1> DEFINE f == q.urls
           K == Kept(q)
<1>1. \A i, j \in K : f[i] = f[j] => i = j
  BY Places, Unrepeated
<1>2. IsFiniteSet(K)
  BY Places
<1> HIDE DEF f, K
<1>3. Cardinality({f[i] : i \in K}) = Cardinality(K)
  BY <1>1, <1>2, ImageCount
<1> QED  BY <1>3 DEF f, K

(* The URLs that are left out.                                              *)
LEMMA LeftOut ==
  ASSUME NEW q \in Bulks, NEW u \in {q.urls[i] : i \in Every(q)} \ {q.urls[i] : i \in Kept(q)}
  PROVE  \/ /\ Cardinality(OfHost(q.urls, Kept(q), u.host)) = MAX_PER_HOST
            /\ Cardinality(Unique(q)) - Cardinality(Capped(q)) > 0
         \/ /\ Cardinality(Capped(q)) > MaxUrls(q)
            /\ Cardinality(Kept(q)) = MaxUrls(q)
<1>1. PICK i \in Unique(q) : q.urls[i] = u
  BY Unrepeated
<1>2. i \notin Kept(q)
  BY <1>1
<1>c. /\ Cardinality(Capped(q)) \in Nat /\ Cardinality(Unique(q)) \in Nat /\ MaxUrls(q) \in Nat
      /\ IsFiniteSet(Unique(q)) /\ IsFiniteSet(Capped(q))
  BY Places, MaxUrlsNat
<1>3. CASE Cardinality(Capped(q)) <= MaxUrls(q)
  <2>1. Kept(q) = Capped(q) /\ i \in Unique(q) \ Capped(q)
    BY <1>1, <1>2, <1>3, Clamped
  <2>2. Cardinality(OfHost(q.urls, Kept(q), u.host)) = MAX_PER_HOST
    BY <1>1, <2>1, Shares
  <2>3. Capped(q) \in SUBSET Unique(q) /\ Capped(q) # Unique(q)
    BY <2>1, Places
  <2>4. Cardinality(Capped(q)) <= Cardinality(Unique(q)) /\ Cardinality(Capped(q)) # Cardinality(Unique(q))
    BY <1>c, <2>3, FS_Subset
  <2> QED  BY <1>c, <2>2, <2>4
<1>4. CASE ~(Cardinality(Capped(q)) <= MaxUrls(q))
  BY <1>c, <1>4, Clamped DEF Least
<1> QED  BY <1>3, <1>4

(* The URLs that are no seeds.                                              *)
LEMMA Rejects ==
  ASSUME NEW q \in Bulks
  PROVE  Cardinality({i \in DOMAIN q.urls : q.urls[i].kind # "seed"})
           = Len(q.urls) - Cardinality(Every(q))
<1>1. DOMAIN q.urls = 1..Len(q.urls) /\ Len(q.urls) \in Nat
  BY RequestsAssumption DEF Bulks
<1>2. {i \in DOMAIN q.urls : q.urls[i].kind # "seed"} = (1..Len(q.urls)) \ Every(q)
  BY <1>1 DEF Every, OfKind
<1>3. (1..Len(q.urls)) \cap Every(q) = Every(q)
  BY Places
<1>4. IsFiniteSet(1..Len(q.urls)) /\ Cardinality(1..Len(q.urls)) = Len(q.urls)
  BY <1>1, FS_Interval
<1>5. Cardinality((1..Len(q.urls)) \ Every(q))
        = Cardinality(1..Len(q.urls)) - Cardinality((1..Len(q.urls)) \cap Every(q))
  BY <1>4, FS_Difference
<1> QED  BY <1>2, <1>3, <1>4, <1>5

(* The guard: one wave of seeds stays below the caller's cap.               *)
LEMMA GuardHolds ==
  ASSUME NEW q \in Bulks
  PROVE  LET g == ResolveBulkGuard(q) IN
         /\ CONCURRENCY * g.seed <= g.cost /\ g.cost <= MAX_COST
         /\ g.cost < q.maxCost => "maxTransformCostUsd" \in g.clamped
         /\ g.seed < q.seedCost => "perSeedTransformCostUsd" \in g.clamped
<1> DEFINE cost == Least(q.maxCost, MAX_COST)
           seed == Least(q.seedCost, SEED_COST)
           safe == cost \div CONCURRENCY
<1>1. /\ q.maxCost \in Nat /\ q.seedCost \in Nat /\ MAX_COST \in Nat /\ SEED_COST \in Nat
      /\ CONCURRENCY \in Nat \ {0}
  BY CallsAssumption, RequestsAssumption DEF Bulks
<1>2. cost \in Nat /\ seed \in Nat /\ cost <= MAX_COST /\ (cost < q.maxCost => q.maxCost > MAX_COST)
  BY <1>1 DEF Least
<1>3. safe \in Nat /\ CONCURRENCY * safe <= cost
  <2> HIDE DEF cost
  <2>1. \A n \in Nat, d \in Nat \ {0} : n \div d \in Nat /\ d * (n \div d) <= n
    BY Z3
  <2> QED  BY <1>1, <1>2, <2>1
<1>4. CONCURRENCY * Least(seed, safe) <= cost
  <2> HIDE DEF cost, seed, safe
  <2>1. Least(seed, safe) \in Nat /\ Least(seed, safe) <= safe
    BY <1>2, <1>3 DEF Least
  <2>2. \A a, b, c \in Nat : a <= b => c * a <= c * b
    OBVIOUS
  <2>3. CONCURRENCY * Least(seed, safe) <= CONCURRENCY * safe
    BY <1>1, <1>3, <2>1, <2>2
  <2>4. CONCURRENCY * Least(seed, safe) \in Nat /\ CONCURRENCY * safe \in Nat
    BY <1>1, <1>3, <2>1
  <2> QED  BY <1>2, <1>3, <2>3, <2>4
<1>5. Least(seed, safe) < q.seedCost => q.seedCost > SEED_COST \/ seed > safe
  <2> HIDE DEF safe, cost
  <2> QED  BY <1>1, <1>3 DEF Least
<1> HIDE DEF cost, seed, safe
<1>6. ResolveBulkGuard(q) =
        [cost |-> cost, seed |-> Least(seed, safe),
         clamped |-> (IF q.maxCost > MAX_COST THEN {"maxTransformCostUsd"} ELSE {})
                     \cup (IF q.seedCost > SEED_COST \/ seed > safe
                           THEN {"perSeedTransformCostUsd"} ELSE {})]
  BY DEF ResolveBulkGuard, cost, seed, safe
<1> QED  BY <1>2, <1>4, <1>5, <1>6

(* Whatever of its seeds fails, the receipt of a call is truthful.          *)
LEMMA ReceiptHolds ==
  ASSUME NEW q \in Bulks, NEW failed \in Nat, NEW partial \in Nat,
         failed + partial <= Cardinality(ShapeBulkInput(q).seeds)
  PROVE  Receipt(q, AssembleBulkResult(q, failed, partial))
<1> DEFINE r == AssembleBulkResult(q, failed, partial)
           all == Cardinality(Every(q))
           unique == Cardinality(Unique(q))
           capped == Cardinality(Capped(q))
           kept == Cardinality(Kept(q))
           rejects == Len(q.urls) - all
           g == ResolveBulkGuard(q)
<1>1. /\ all \in Nat /\ unique \in Nat /\ capped \in Nat /\ kept \in Nat /\ Len(q.urls) \in Nat
      /\ MaxUrls(q) \in Nat /\ MAX_PER_HOST \in Nat /\ all <= Len(q.urls)
  <2>1. Cardinality(Every(q)) <= Cardinality(1..Len(q.urls)) /\ Len(q.urls) \in Nat
    BY Places, FS_Subset, FS_Interval
  <2>2. Cardinality(1..Len(q.urls)) = Len(q.urls)
    BY <2>1, FS_Interval
  <2> QED  BY <2>1, <2>2, Places, MaxUrlsNat
<1>2. failed + partial <= kept
  BY ShapeIs
<1>3. r = [status |-> ClassifyBulkStatus(kept + rejects, failed + rejects, partial),
           count |-> kept, passed |-> kept - failed, failed |-> failed + rejects,
           truncated |-> unique - capped, deduped |-> all - unique, inputUrls |-> all,
           afterPerHostCap |-> all - (all - unique) - (unique - capped),
           clampedTo |-> IF capped > MaxUrls(q) THEN MaxUrls(q) ELSE 0,
           seeds |-> Kept(q), guard |-> g, warnings |-> g.clamped]
  BY ShapeIs DEF AssembleBulkResult
<1>4. rejects \in Nat /\ Cardinality({i \in DOMAIN q.urls : q.urls[i].kind # "seed"}) = rejects
  BY <1>1, Rejects
<1>5. /\ r.status = ClassifyBulkStatus(kept + rejects, failed + rejects, partial)
      /\ r.count = kept /\ r.passed = kept - failed /\ r.failed = failed + rejects
      /\ r.truncated = unique - capped /\ r.deduped = all - unique
      /\ r.afterPerHostCap = all - (all - unique) - (unique - capped)
      /\ r.clampedTo = (IF capped > MaxUrls(q) THEN MaxUrls(q) ELSE 0)
      /\ r.seeds = Kept(q) /\ r.guard = g /\ r.warnings = g.clamped
  BY <1>3
<1> HIDE DEF r, g
<1> DEFINE given == {q.urls[i] : i \in Every(q)}
           sent == {q.urls[i] : i \in Kept(q)}
<1>6. Cardinality(sent) = r.count /\ sent \subseteq given
  BY <1>5, SentCount, Places
<1>7. r.count <= MaxUrls(q)
  BY <1>1, <1>5, Clamped DEF Least
<1>8. ASSUME NEW u \in given \ sent
      PROVE  \/ Cardinality({v \in sent : v.host = u.host}) = MAX_PER_HOST /\ r.truncated > 0
             \/ r.count = r.clampedTo
  BY <1>5, LeftOut, SentShare
<1>9. ASSUME NEW u \in sent PROVE Cardinality({v \in sent : v.host = u.host}) <= MAX_PER_HOST
  <2> DEFINE K == OfHost(q.urls, Kept(q), u.host)
             C == OfHost(q.urls, Capped(q), u.host)
  <2>1. K \in SUBSET C /\ IsFiniteSet(C) /\ IsFiniteSet(K)
    BY Places DEF OfHost
  <2>2. Cardinality(C) <= MAX_PER_HOST
    BY Shares
  <2> HIDE DEF K, C
  <2>3. Cardinality(K) <= Cardinality(C) /\ Cardinality(K) \in Nat /\ Cardinality(C) \in Nat
    BY <2>1, FS_Subset, FS_CardinalityType
  <2>4. Cardinality({v \in sent : v.host = u.host}) = Cardinality(K)
    BY SentShare DEF K
  <2> QED  BY <1>1, <2>2, <2>3, <2>4
<1>10. /\ r.afterPerHostCap + r.deduped + r.truncated + rejects = Len(q.urls)
       /\ r.passed + r.failed = r.count + rejects
  <2>1. Len(q.urls) \in Nat /\ rejects = Len(q.urls) - all
    BY <1>1
  <2> HIDE DEF all, unique, capped, kept, rejects
  <2>2. /\ all \in Nat /\ unique \in Nat /\ capped \in Nat /\ kept \in Nat /\ rejects \in Nat
    BY <1>1, <1>4 DEF all, unique, capped, kept, rejects
  <2>3. all - (all - unique) - (unique - capped) + (all - unique) + (unique - capped) + rejects
          = Len(q.urls)
    BY <2>1, <2>2
  <2>4. kept - failed + (failed + rejects) = kept + rejects
    BY <2>2
  <2>5. /\ r.afterPerHostCap = all - (all - unique) - (unique - capped)
        /\ r.deduped = all - unique /\ r.truncated = unique - capped
        /\ r.passed = kept - failed /\ r.failed = failed + rejects /\ r.count = kept
    BY <1>5
  <2> QED  BY <2>3, <2>4, <2>5
<1>11. /\ r.status = "pass" => rejects = 0 /\ r.passed = r.count
       /\ r.passed = 0 <=> r.status = "fail"
  <2>1. r.status = "fail" <=> failed + rejects = kept + rejects
    BY <1>5 DEF ClassifyBulkStatus
  <2>2. r.status = "pass" => failed + rejects + partial = 0
    BY <1>5 DEF ClassifyBulkStatus
  <2> HIDE DEF kept, rejects
  <2>3. kept \in Nat /\ rejects \in Nat
    BY <1>1, <1>4
  <2>4. failed + rejects = kept + rejects <=> kept - failed = 0
    BY <2>3
  <2>5. failed + rejects + partial = 0 => rejects = 0 /\ kept - failed = kept
    BY <2>3
  <2> QED  BY <2>1, <2>2, <2>4, <2>5, <1>5
<1>12. /\ CONCURRENCY * r.guard.seed <= r.guard.cost /\ r.guard.cost <= MAX_COST
       /\ r.guard.cost < q.maxCost => "maxTransformCostUsd" \in r.warnings
       /\ r.guard.seed < q.seedCost => "perSeedTransformCostUsd" \in r.warnings
  BY <1>5, GuardHolds DEF g
<1>13. /\ Cardinality({q.urls[i] : i \in r.seeds}) = r.count
       /\ {q.urls[i] : i \in r.seeds} \subseteq {q.urls[i] : i \in Every(q)}
       /\ r.seeds = Kept(q)
  BY <1>5, <1>6
<1> HIDE DEF rejects
<1>14. Receipt(q, r)
  BY <1>4, <1>7, <1>8, <1>9, <1>10, <1>11, <1>12, <1>13 DEF Receipt, Every
<1> QED  BY <1>14 DEF r

(* What a call has brought, and what its record says at each place.         *)
Delivered(k) ==
  \/ k.request.tool = "captatum" /\ k.result = [status |-> "fetched"]
  \/ /\ k.request \in Bulks
     /\ \E failed, partial \in Nat :
          /\ failed + partial <= Cardinality(ShapeBulkInput(k.request).seeds)
          /\ k.result = AssembleBulkResult(k.request, failed, partial)
Settled(k) ==
  /\ ~k.lost => k.events = IF k.result = NoResult THEN 1 ELSE Events(k)
  /\ k.result # NoResult <=> k.answer = "result"
  /\ k.result = NoResult /\ ~k.lost => k.answer = k.error
CallFields == {"at", "request", "error", "result", "events", "lost", "answer"}
CallOK(k) ==
  /\ "at" \in DOMAIN k
  /\ k.at \in {"idle", "running", "throwing", "failing", "auditing", "answered"}
  /\ k.at # "idle" =>
       /\ CallFields \subseteq DOMAIN k /\ k.request \in Requests /\ k.error # "result"
       /\ k.at \in {"running", "throwing", "failing"} => k.result = NoResult /\ k.events = 0
       /\ k.at = "auditing" => Delivered(k) /\ k.events \in Nat /\ k.events < Events(k)
       /\ k.at = "answered" => (k.result = NoResult \/ Delivered(k)) /\ Settled(k)
RecordsInv == DOMAIN call = Callers /\ \A c \in Callers : CallOK(call[c])

(* A result is no missing result, has a number of events, and of a bulk    *)
(* call is a truthful receipt.                                             *)
LEMMA DeliveredFacts ==
  ASSUME NEW k, k.request \in Requests, Delivered(k)
  PROVE  /\ k.result # NoResult /\ Events(k) \in Nat /\ Events(k) >= 1
         /\ k.result.status \in {"pass", "partial", "fail"} =>
              k.request \in Bulks /\ Receipt(k.request, k.result)
<1>1. CASE k.request.tool = "captatum" /\ k.result = [status |-> "fetched"]
  BY <1>1 DEF NoResult, Events
<1>2. CASE k.request \in Bulks
  <2>0. ~(k.request.tool = "captatum")
    BY <1>2 DEF Bulks
  <2>1. PICK failed \in Nat, partial \in Nat :
          /\ failed + partial <= Cardinality(ShapeBulkInput(k.request).seeds)
          /\ k.result = AssembleBulkResult(k.request, failed, partial)
    BY <2>0 DEF Delivered
  <2>2. Receipt(k.request, k.result)
    BY <1>2, <2>1, ReceiptHolds
  <2>3. k.result.count = Cardinality(Kept(k.request))
    BY <2>1, ShapeIs DEF AssembleBulkResult
  <2>4. k.result.count \in Nat
    BY <1>2, <2>3, Places
  <2>5. k.result.status \in {"pass", "partial", "fail"}
    BY <2>1 DEF AssembleBulkResult, ClassifyBulkStatus
  <2>6. k.result # NoResult
    BY <2>5 DEF NoResult
  <2>7. Events(k) = k.result.count + 1
    BY <2>0 DEF Events
  <2> QED  BY <1>2, <2>2, <2>4, <2>6, <2>7
<1> QED  BY <1>1, <1>2 DEF Delivered

(* The audit of a result or of a failure: an answer follows the last       *)
(* event, or the first that the sink rejects.                              *)
LEMMA AuditKeeps ==
  ASSUME NEW k, CallOK(k), NEW ok \in BOOLEAN, k.at \in {"auditing", "failing"}
  PROVE  CallOK(IF k.at = "auditing" THEN AuditResult(k, ok) ELSE AuditFailure(k, ok))
<1>1. /\ CallFields \subseteq DOMAIN k /\ k.request \in Requests /\ k.error # "result"
      /\ "at" \in DOMAIN k
  BY DEF CallOK
<1>2. CASE k.at = "auditing"
  <2>1. Delivered(k) /\ k.events \in Nat /\ k.events < Events(k)
    BY <1>2 DEF CallOK
  <2>2. k.result # NoResult /\ Events(k) \in Nat
    BY <1>1, <2>1, DeliveredFacts
  <2>3. ASSUME NEW q, q.request = k.request, q.result = k.result
        PROVE  Delivered(q) /\ Events(q) = Events(k)
    BY <2>1, <2>3 DEF Delivered, Events
  <2>4. CASE ok /\ k.events + 1 < Events(k)
    <3> DEFINE q == [k EXCEPT !.events = @ + 1]
    <3>1. AuditResult(k, ok) = q
      BY <2>4 DEF AuditResult
    <3>2. /\ CallFields \subseteq DOMAIN q /\ "at" \in DOMAIN q /\ q.at = "auditing"
          /\ q.request = k.request /\ q.error = k.error
          /\ q.result = k.result /\ q.events = k.events + 1
      BY <1>1, <1>2 DEF CallFields
    <3> HIDE DEF q
    <3>3. Delivered(q) /\ Events(q) = Events(k)
      BY <2>3, <3>2
    <3>4. CallOK(q)
      BY <1>1, <2>1, <2>4, <3>2, <3>3 DEF CallOK
    <3> QED  BY <1>2, <3>1, <3>4
  <2>5. CASE ~(ok /\ k.events + 1 < Events(k))
    <3> DEFINE q == [k EXCEPT !.at = "answered", !.answer = "result", !.lost = ~ok,
                             !.events = IF ok THEN @ + 1 ELSE @]
    <3>1. AuditResult(k, ok) = q
      BY <2>5 DEF AuditResult
    <3>2. /\ CallFields \subseteq DOMAIN q /\ "at" \in DOMAIN q /\ q.at = "answered"
          /\ q.request = k.request /\ q.error = k.error /\ q.answer = "result"
          /\ q.result = k.result /\ (q.lost <=> ~ok) /\ (ok => q.events = k.events + 1)
      BY <1>1 DEF CallFields
    <3> HIDE DEF q
    <3>3. Delivered(q) /\ Events(q) = Events(k)
      BY <2>3, <3>2
    <3>4. ok => k.events + 1 = Events(k)
      BY <2>1, <2>2, <2>5
    <3>5. Settled(q)
      BY <2>2, <3>2, <3>3, <3>4 DEF Settled
    <3>6. CallOK(q)
      BY <1>1, <3>2, <3>3, <3>5 DEF CallOK
    <3> QED  BY <1>2, <3>1, <3>6
  <2> QED  BY <2>4, <2>5
<1>3. CASE k.at = "failing"
  <2>1. k.result = NoResult /\ k.events = 0
    BY <1>3 DEF CallOK
  <2> DEFINE events == IF ok THEN k.events + 1 ELSE k.events
             answer == IF ok THEN k.error ELSE "internal"
             q == [k EXCEPT !.at = "answered", !.lost = ~ok, !.events = events, !.answer = answer]
  <2>2. AuditFailure(k, ok) = q
    BY DEF AuditFailure
  <2>3. (ok => events = 1 /\ answer = k.error) /\ (~ok => answer = "internal")
    BY <2>1
  <2> HIDE DEF events, answer
  <2>4. /\ CallFields \subseteq DOMAIN q /\ "at" \in DOMAIN q /\ q.at = "answered"
        /\ q.request = k.request /\ q.error = k.error /\ (q.lost <=> ~ok)
        /\ q.result = k.result /\ q.events = events /\ q.answer = answer
    BY <1>1 DEF CallFields
  <2> HIDE DEF q
  <2>5. Settled(q)
    BY <1>1, <2>1, <2>3, <2>4 DEF Settled
  <2>6. CallOK(q)
    BY <1>1, <2>1, <2>4, <2>5 DEF CallOK
  <2> QED  BY <1>3, <2>2, <2>6
<1> QED  BY <1>2, <1>3

(* An execution that ends brings a result.                                 *)
LEMMA EndKeeps ==
  ASSUME NEW k, CallOK(k), k.at = "running", NEW failed \in Nat, NEW partial \in Nat,
         failed + partial <= IF k.request.tool = "captatum" THEN 1
                             ELSE Cardinality(ShapeBulkInput(k.request).seeds)
  PROVE  CallOK([k EXCEPT !.at = "auditing",
                          !.result = IF k.request.tool = "captatum" THEN [status |-> "fetched"]
                                     ELSE AssembleBulkResult(k.request, failed, partial)])
<1> DEFINE result == IF k.request.tool = "captatum" THEN [status |-> "fetched"]
                     ELSE AssembleBulkResult(k.request, failed, partial)
           q == [k EXCEPT !.at = "auditing", !.result = result]
<1>1. /\ CallFields \subseteq DOMAIN k /\ k.request \in Requests /\ k.error # "result"
      /\ k.events = 0
  BY DEF CallOK
<1>2. /\ CallFields \subseteq DOMAIN q /\ "at" \in DOMAIN q /\ q.at = "auditing"
      /\ q.request = k.request /\ q.error = k.error /\ q.result = result /\ q.events = 0
  <2> HIDE DEF result
  <2> QED  BY <1>1 DEF CallFields
<1> HIDE DEF q
<1>3. Delivered(q)
  BY <1>1, <1>2 DEF Delivered, Bulks
<1>4. Events(q) \in Nat /\ Events(q) >= 1
  BY <1>1, <1>2, <1>3, DeliveredFacts
<1>5. CallOK(q)
  BY <1>1, <1>2, <1>3, <1>4 DEF CallOK
<1> QED  BY <1>5 DEF q, result

(* A step changes the record of one call.                                  *)
LEMMA OneRecordMoves ==
  ASSUME RecordsInv, NEW c \in Callers, NEW r, CallOK(r), call' = [call EXCEPT ![c] = r]
  PROVE  RecordsInv'
<1>1. DOMAIN call' = Callers /\ call'[c] = r /\ \A d \in Callers \ {c} : call'[d] = call[d]
  BY DEF RecordsInv
<1>2. \A d \in Callers : CallOK(call'[d])
  BY <1>1 DEF RecordsInv
<1> QED  BY <1>1, <1>2 DEF RecordsInv

(* A new call has no result and no event.                                  *)
LEMMA NewCallOK ==
  ASSUME NEW q \in Requests, NEW at \in {"running", "throwing", "failing"}, NEW error,
         error # "result"
  PROVE  CallOK(NewCall(q, at, error))
<1> DEFINE r == NewCall(q, at, error)
<1>1. /\ CallFields \subseteq DOMAIN r /\ "at" \in DOMAIN r /\ r.at = at /\ r.request = q
      /\ r.error = error /\ r.result = NoResult /\ r.events = 0
  BY DEF NewCall, CallFields
<1> HIDE DEF r
<1>2. CallOK(r)
  BY <1>1 DEF CallOK
<1> QED  BY <1>2 DEF r

(* RecordsInv survives every step.                                         *)
LEMMA RecordsInductive == RecordsInv /\ [CallsNext]_callsVars => RecordsInv'
<1> SUFFICES ASSUME RecordsInv, [CallsNext]_callsVars PROVE RecordsInv'
  OBVIOUS
<1>s. DOMAIN call = Callers /\ \A c \in Callers : CallOK(call[c])
  BY DEF RecordsInv
<1>1. ASSUME NEW c \in Callers, NEW q \in Requests, CallTool(c, q) PROVE RecordsInv'
  <2>1. ASSUME NEW at \in {"running", "throwing", "failing"}, NEW error, error # "result",
               Starts(c, q, at, error)
        PROVE  RecordsInv'
    <3> DEFINE r == NewCall(q, at, error)
    <3>1. CallOK(r) /\ call' = [call EXCEPT ![c] = r]
      BY <2>1, NewCallOK DEF Starts
    <3> HIDE DEF r
    <3> QED  BY <3>1, OneRecordMoves
  <2>2. Refusal(q) # "result"
    BY DEF Refusal
  <2>3. \/ Starts(c, q, "failing", Refusal(q)) \/ Starts(c, q, "running", "none")
        \/ Starts(c, q, "throwing", "bulk_quota_exceeded")
    BY <1>1, Zenon DEF CallTool
  <2> QED  BY <2>1, <2>2, <2>3
<1>2. ASSUME NEW c \in Callers, Throws(c) PROVE RecordsInv'
  <2> DEFINE error == IF call[c].error = "none" THEN "internal" ELSE call[c].error
             r == [call[c] EXCEPT !.at = "failing", !.error = error]
  <2>0. CallOK(call[c]) /\ call[c].at \in {"running", "throwing"}
    BY <1>2, <1>s DEF Throws
  <2>1. call' = [call EXCEPT ![c] = r]
    BY <1>2, <1>s DEF Throws
  <2>2. /\ CallFields \subseteq DOMAIN call[c] /\ call[c].request \in Requests
        /\ call[c].result = NoResult /\ call[c].events = 0 /\ error # "result"
        /\ "at" \in DOMAIN call[c]
    BY <2>0 DEF CallOK
  <2> HIDE DEF error
  <2>3. /\ CallFields \subseteq DOMAIN r /\ "at" \in DOMAIN r /\ r.at = "failing"
        /\ r.request \in Requests /\ r.error # "result" /\ r.result = NoResult /\ r.events = 0
    BY <2>2 DEF CallFields
  <2> HIDE DEF r
  <2>4. CallOK(r)
    BY <2>3 DEF CallOK
  <2> QED  BY <2>1, <2>4, OneRecordMoves
<1>3. ASSUME NEW c \in Callers, NEW failed \in 0..RAW_MAX_URLS, NEW partial \in 0..1,
             Ends(c, failed, partial)
      PROVE  RecordsInv'
  <2> DEFINE k == call[c]
             r == [k EXCEPT !.at = "auditing",
                     !.result = IF k.request.tool = "captatum" THEN [status |-> "fetched"]
                                ELSE AssembleBulkResult(k.request, failed, partial)]
  <2>0. CallOK(k) /\ k.at = "running"
    BY <1>3, <1>s DEF Ends
  <2>1. failed \in Nat /\ partial \in Nat
    BY CallsAssumption
  <2>2. failed + partial <= IF k.request.tool = "captatum" THEN 1
                            ELSE Cardinality(ShapeBulkInput(k.request).seeds)
    BY <1>3 DEF Ends
  <2>3. call' = [call EXCEPT ![c].at = "auditing",
             ![c].result = IF k.request.tool = "captatum" THEN [status |-> "fetched"]
                           ELSE AssembleBulkResult(k.request, failed, partial)]
    BY <1>3 DEF Ends
  <2>4. call' = [call EXCEPT ![c] = r]
    BY <2>3, <1>s
  <2>5. CallOK(r)
    <3> HIDE DEF k
    <3> QED  BY <2>0, <2>1, <2>2, EndKeeps
  <2> HIDE DEF r
  <2> QED  BY <2>4, <2>5, OneRecordMoves
<1>4. ASSUME NEW c \in Callers, NEW ok \in BOOLEAN, Audit(c, ok) PROVE RecordsInv'
  <2> DEFINE r == IF call[c].at = "auditing" THEN AuditResult(call[c], ok)
                  ELSE AuditFailure(call[c], ok)
  <2>1. call' = [call EXCEPT ![c] = r] /\ call[c].at \in {"auditing", "failing"}
    BY <1>4 DEF Audit
  <2>2. CallOK(r)
    BY <2>1, <1>s, AuditKeeps
  <2> HIDE DEF r
  <2> QED  BY <2>1, <2>2, OneRecordMoves
<1>5. ASSUME NEW c \in Callers, Return(c) PROVE RecordsInv'
  <2>1. call' = [call EXCEPT ![c] = Idle] /\ CallOK(Idle)
    BY <1>5 DEF Return, Idle, CallOK
  <2> HIDE DEF Idle
  <2> QED  BY <2>1, OneRecordMoves
<1>6. ASSUME UNCHANGED call PROVE RecordsInv'
  BY <1>6 DEF RecordsInv
<1>7. ASSUME NEW m \in Posts, OAuthPost(m) PROVE RecordsInv'
  BY <1>6, <1>7 DEF OAuthPost
<1>8. CASE Tick
  BY <1>6, <1>8 DEF Tick
<1>9. CASE UNCHANGED callsVars
  BY <1>6, <1>9 DEF callsVars
<1> QED
  BY <1>1, <1>2, <1>3, <1>4, <1>5, <1>7, <1>8, <1>9 DEF CallsNext, Proceeds

(* It holds from the first state on.                                       *)
LEMMA RecordsInvariant == CallsSpec => []RecordsInv
<1>1. CallsInit => RecordsInv
  BY DEF CallsInit, RecordsInv, CallOK, Idle
<1> QED  BY <1>1, RecordsInductive, PTL DEF CallsSpec

(* Every call that callCaptatum or callBulk answers has left its events in *)
(* the audit sink unless the sink rejected one, a result is never turned   *)
(* into an error by a sink that rejects, and the caller of a failed call   *)
(* is told its error: for any number of callers, any requests and any      *)
(* outcome of an execution.                                                *)
THEOREM EveryCallAudited == CallsSpec => []AuditedAndAnswered
<1>1. RecordsInv => AuditedAndAnswered
  <2> SUFFICES ASSUME RecordsInv, NEW c \in Answered PROVE Settled(call[c])
    BY DEF AuditedAndAnswered, Settled
  <2> QED  BY DEF Answered, RecordsInv, CallOK
<1> QED  BY <1>1, RecordsInvariant, PTL

(* Every receipt of a bulk call accounts for every URL it was given, for   *)
(* any list of URLs, any caps, prices and shares, and any number of seeds  *)
(* that fail: shapeBulkInput loses none between its steps, no host is      *)
(* asked more than its share, and resolveBulkGuard discloses what it       *)
(* clamps.                                                                 *)
THEOREM ReceiptsAddUp == CallsSpec => []ReceiptTruthful
<1>1. RecordsInv => ReceiptTruthful
  <2> SUFFICES ASSUME RecordsInv, NEW c \in Callers,
                      call[c].at \in {"auditing", "answered"},
                      call[c].result.status \in {"pass", "partial", "fail"}
               PROVE  Receipt(call[c].request, call[c].result)
    BY DEF ReceiptTruthful
  <2> DEFINE k == call[c]
  <2>1. CallOK(k) /\ k.at \in {"auditing", "answered"}
    BY DEF RecordsInv
  <2>2. k.result # NoResult
    BY DEF NoResult
  <2>3. k.request \in Requests /\ Delivered(k)
    BY <2>1, <2>2 DEF CallOK
  <2> HIDE DEF k
  <2>4. k.result.status \in {"pass", "partial", "fail"} =>
              k.request \in Bulks /\ Receipt(k.request, k.result)
    BY <2>3, DeliveredFacts
  <2> QED  BY <2>4 DEF k
<1> QED  BY <1>1, RecordsInvariant, PTL

-----------------------------------------------------------------------------
(* The seed quota.                                                          *)
Reservations == [nth : Nat, at : Nat, seeds : Nat]
Until(g, until) == {r \in g : r.at + QUOTA_WINDOW >= until}

(* Fewer reservations hold no more seeds.                                  *)
LEMMA SeedsMonotone ==
  ASSUME NEW S \in SUBSET Reservations, IsFiniteSet(S), NEW T \in SUBSET S
  PROVE  /\ Seeds(S) \in Nat /\ Seeds(T) \in Nat /\ Seeds(T) <= Seeds(S) /\ IsFiniteSet(T)
<1> DEFINE f == [r \in S |-> r.seeds]
           h == [r \in T |-> r.seeds]
<1>1. f \in [S -> Nat] /\ h \in [T -> Nat] /\ f \in [S -> Int] /\ h \in [T -> Int]
  BY DEF Reservations
<1>2. \A r \in T : h[r] = f[r]
  OBVIOUS
<1>3. IsFiniteSet(T)
  BY FS_Subset
<1>4. (\A r \in S : f[r] >= 0) /\ (\A r \in T : h[r] >= 0)
  BY <1>1
<1>5. Seeds(S) = SumFunction(f) /\ Seeds(T) = SumFunction(h)
  BY DEF Seeds
<1> HIDE DEF f, h
<1>6. SumFunction(h) <= SumFunction(f)
  BY <1>1, <1>2, SumSubset
<1>7. SumFunction(f) \in Int /\ SumFunction(f) >= 0 /\ SumFunction(h) \in Int /\ SumFunction(h) >= 0
  BY <1>1, <1>3, <1>4, SumType
<1> QED  BY <1>3, <1>5, <1>6, <1>7

(* One more reservation adds its seeds.                                    *)
LEMMA SeedsAdd ==
  ASSUME NEW S \in SUBSET Reservations, IsFiniteSet(S), NEW r \in Reservations, r \notin S
  PROVE  Seeds(S \cup {r}) = Seeds(S) + r.seeds
<1> DEFINE f == [x \in S \cup {r} |-> x.seeds]
           h == [x \in S |-> x.seeds]
<1>1. f \in [S \cup {r} -> Int] /\ h \in [S -> Int]
  BY DEF Reservations
<1>2. (\A x \in S : h[x] = f[x]) /\ f[r] = r.seeds
  OBVIOUS
<1>3. Seeds(S \cup {r}) = SumFunction(f) /\ Seeds(S) = SumFunction(h)
  BY DEF Seeds
<1> HIDE DEF f, h
<1> QED  BY <1>1, <1>2, <1>3, SumInsert

(* No reservation, no seeds.                                               *)
LEMMA NoSeeds == Seeds({}) = 0
<1> DEFINE f == [r \in {} |-> r.seeds]
<1>1. f \in [{} -> Int] /\ \A x \in {} : f[x] = 0
  OBVIOUS
<1>2. IsFiniteSet({})
  BY FS_EmptySet
<1>3. Seeds({}) = SumFunction(f)
  BY DEF Seeds
<1> HIDE DEF f
<1> QED  BY <1>1, <1>2, <1>3, SumType

(* What stands for a tenant and what was granted to it; a hint that is not *)
(* over: with what stands until then there is no room.                     *)
WindowOK(w, g) ==
  /\ w \in SUBSET Reservations /\ IsFiniteSet(w)
  /\ \A r \in w : r.at <= now /\ r.nth > left.calls
  /\ g = Purged(w, now) /\ Seeds(g) <= QUOTA_LIMIT
HintOK(h) ==
  /\ h.tenant \in Tenants /\ h.seeds \in Nat /\ h.until \in Nat /\ h.until > now
  /\ Seeds(Until(past.granted[h.tenant], h.until)) + h.seeds > QUOTA_LIMIT
QuotaInv ==
  /\ now \in Nat /\ "calls" \in DOMAIN left /\ left.calls \in Nat
  /\ DOMAIN windows = Tenants /\ DOMAIN past = {"granted", "hints", "posts"}
  /\ DOMAIN past.granted = Tenants
  /\ \A t \in Tenants : WindowOK(windows[t], past.granted[t])
  /\ \A h \in past.hints : HintOK(h)

(* The hint of a refusal.                                                   *)
LEMMA HintIs ==
  ASSUME NEW S \in SUBSET Reservations, S # {}
  PROVE  /\ Hint(S) \in Nat /\ Until(S, Hint(S)) = S
         /\ \A t \in Nat : (\A r \in S : r.at > t - QUOTA_WINDOW) => Hint(S) > t
<1> DEFINE A == {r.at : r \in S}
<1>1. A \in SUBSET Nat /\ A # {}
  BY DEF Reservations
<1>2. PICK m \in A : \A k \in A : ~(k < m)
  BY <1>1, LeastPlace
<1>3. \A k \in A : m <= k
  BY <1>1, <1>2
<1>4. Min(A) \in A /\ \A k \in A : Min(A) <= k
  BY <1>2, <1>3 DEF Min
<1>5. Hint(S) = Min(A) + QUOTA_WINDOW
  BY DEF Hint
<1>6. QUOTA_WINDOW \in Nat \ {0}
  BY CallsAssumption
<1>7. \A r \in S : r.at \in A
  OBVIOUS
<1>8. PICK x \in S : Min(A) = x.at
  BY <1>4
<1> HIDE DEF A
<1>9. Min(A) \in Nat
  BY <1>1, <1>4
<1>10. Until(S, Hint(S)) = S
  <2>1. \A r \in S : r.at + QUOTA_WINDOW >= Hint(S)
    <3> SUFFICES ASSUME NEW r \in S PROVE r.at + QUOTA_WINDOW >= Hint(S)
      OBVIOUS
    <3>1. r.at \in Nat /\ Min(A) <= r.at
      BY <1>1, <1>4, <1>7
    <3> QED  BY <1>5, <1>6, <1>9, <3>1
  <2> QED  BY <2>1 DEF Until
<1> QED  BY <1>5, <1>6, <1>8, <1>9, <1>10

(* A reservation: the window keeps what stands, with the new one when it    *)
(* fits; when it does not, with what stands until the hint it would not.    *)
LEMMA ReserveIs ==
  ASSUME QuotaInv, NEW t \in Tenants, NEW n \in Nat, left.calls > 0
  PROVE  LET g == past.granted[t]
             r == TryReserve(t, n)
         IN /\ g \in SUBSET Reservations /\ IsFiniteSet(g) /\ Purged(g, now) = g
            /\ \A x \in g : x.at <= now /\ x.nth > left.calls
            /\ Reservation(n) \in Reservations /\ Reservation(n) \notin g
            /\ r.ok => r.window = g \cup {Reservation(n)} /\ Seeds(g) + n <= QUOTA_LIMIT
            /\ ~r.ok => /\ r.window = g
                        /\ r.until # 0 => /\ r.until \in Nat /\ r.until > now
                                          /\ Seeds(Until(g, r.until)) + n > QUOTA_LIMIT
<1> DEFINE g == past.granted[t]
           r == TryReserve(t, n)
<1>1. WindowOK(windows[t], g) /\ now \in Nat /\ left.calls \in Nat
  BY DEF QuotaInv
<1>2. r = Reserved(g, n)
  BY <1>1 DEF TryReserve, WindowOK
<1>3. /\ g \in SUBSET Reservations /\ g \subseteq windows[t] /\ IsFiniteSet(g)
      /\ \A x \in g : x.at <= now /\ x.nth > left.calls /\ x.at > now - QUOTA_WINDOW
  BY <1>1, FS_Subset DEF WindowOK, Purged
<1>4. Purged(g, now) = g
  BY <1>3 DEF Purged
<1>5. Reservation(n) \in Reservations /\ Reservation(n).nth = left.calls
  BY <1>1 DEF Reservation, Reservations
<1>6. Reservation(n) \notin g
  BY <1>1, <1>3, <1>5
<1>7. Seeds(g) \in Nat /\ QUOTA_LIMIT \in Nat
  BY <1>3, SeedsMonotone, CallsAssumption
<1>f. r.ok <=> Seeds(g) + n <= QUOTA_LIMIT
  <2> HIDE DEF g, r
  <2>1. ASSUME NEW a, NEW b, NEW w PROVE [ok |-> a, until |-> b, window |-> w].ok = a
    OBVIOUS
  <2> DEFINE fits == Seeds(g) + n <= QUOTA_LIMIT
             b == IF fits \/ g = {} THEN 0 ELSE Hint(g)
             w == IF fits THEN g \cup {Reservation(n)} ELSE g
  <2>2. r = [ok |-> fits, until |-> b, window |-> w]
    BY <1>2, Zenon DEF Reserved
  <2> HIDE DEF b, w
  <2>3. r.ok = fits
    BY <2>2, Zenon
  <2> QED  BY <2>3
<1>8. r.ok => r.window = g \cup {Reservation(n)} /\ Seeds(g) + n <= QUOTA_LIMIT
  <2>1. Seeds(g) + n <= QUOTA_LIMIT => r.window = g \cup {Reservation(n)}
    <3> HIDE DEF g
    <3> QED  BY <1>2 DEF Reserved
  <2> QED  BY <1>f, <2>1
<1>9. ~r.ok => /\ r.window = g /\ Seeds(g) + n > QUOTA_LIMIT
               /\ r.until # 0 => g # {} /\ r.until = Hint(g)
  <2>1. ~(Seeds(g) + n <= QUOTA_LIMIT) =>
          r.window = g /\ (r.until # 0 => g # {} /\ r.until = Hint(g))
    <3> HIDE DEF g
    <3> QED  BY <1>2 DEF Reserved
  <2>2. ~(Seeds(g) + n <= QUOTA_LIMIT) => Seeds(g) + n > QUOTA_LIMIT
    BY <1>7
  <2> QED  BY <1>f, <2>1, <2>2
<1> HIDE DEF g, r
<1>10. g # {} => /\ Hint(g) \in Nat /\ Until(g, Hint(g)) = g /\ Hint(g) > now
  BY <1>1, <1>3, HintIs
<1>11. ~r.ok /\ r.until # 0 => /\ r.until \in Nat /\ r.until > now
                               /\ Seeds(Until(g, r.until)) + n > QUOTA_LIMIT
  BY <1>9, <1>10
<1> QED  BY <1>3, <1>4, <1>5, <1>6, <1>8, <1>9, <1>11 DEF g, r

(* A step that leaves a tenant's reservations and what was granted to it    *)
(* alone, and the time.                                                     *)
LEMMA WindowStays ==
  ASSUME QuotaInv, now' = now, left'.calls \in Nat, left'.calls <= left.calls,
         NEW t \in Tenants, windows'[t] = windows[t], past'.granted[t] = past.granted[t]
  PROVE  WindowOK(windows[t], past.granted[t])'
<1> DEFINE w == windows[t]
           g == past.granted[t]
<1>1. WindowOK(w, g) /\ left.calls \in Nat
  BY DEF QuotaInv
<1>2. w' = w /\ g' = g
  OBVIOUS
<1> HIDE DEF w, g
<1>3. \A r \in w : r.nth > left'.calls
  <2> SUFFICES ASSUME NEW r \in w PROVE r.nth > left'.calls
    OBVIOUS
  <2>1. r.nth \in Nat /\ r.nth > left.calls
    BY <1>1 DEF WindowOK, Reservations
  <2> QED  BY <1>1, <2>1
<1>4. WindowOK(w, g)'
  BY <1>1, <1>2, <1>3 DEF WindowOK, Purged, Seeds
<1> QED  BY <1>4 DEF w, g

(* A hint holds as long as the time and what its tenant was granted stay.  *)
LEMMA HintStays ==
  ASSUME QuotaInv, now' = now, NEW h \in past.hints,
         past'.granted[h.tenant] = past.granted[h.tenant]
  PROVE  HintOK(h)'
  BY DEF QuotaInv, HintOK, Until, Seeds

(* A call that is refused, or that is no bulk call, reserves nothing.       *)
LEMMA NothingReserved ==
  ASSUME QuotaInv, now' = now, windows' = windows, past' = past,
         left' = left \/ (left' = [left EXCEPT !.calls = @ - 1] /\ left.calls > 0)
  PROVE  QuotaInv'
<1>1. left'.calls \in Nat /\ left'.calls <= left.calls /\ "calls" \in DOMAIN left'
  BY DEF QuotaInv
<1>2. \A t \in Tenants : WindowOK(windows[t], past.granted[t])'
  BY <1>1, WindowStays
<1>3. \A h \in past.hints : HintOK(h)'
  BY HintStays
<1> QED  BY <1>1, <1>2, <1>3 DEF QuotaInv

(* A bulk call that is admitted: what it is granted comes after every hint  *)
(* it would have to heed.                                                   *)
LEMMA ReserveKeeps ==
  ASSUME QuotaInv, NEW t \in Tenants, NEW n \in Nat, left.calls > 0, now' = now,
         left' = [left EXCEPT !.calls = @ - 1],
         windows' = [windows EXCEPT ![t] = TryReserve(t, n).window],
         IF TryReserve(t, n).ok
         THEN past' = [past EXCEPT !.granted[t] = @ \cup {Reservation(n)}]
         ELSE past' = [past EXCEPT !.hints = @ \cup
                        IF TryReserve(t, n).until = 0 THEN {}
                        ELSE {[tenant |-> t, seeds |-> n, until |-> TryReserve(t, n).until]}]
  PROVE  /\ QuotaInv'
         /\ \A u \in Tenants : \A r \in past'.granted[u] \ past.granted[u], h \in past.hints :
              ~(h.tenant = u /\ h.seeds <= r.seeds)
<1> DEFINE g == past.granted[t]
           r == TryReserve(t, n)
           new == Reservation(n)
<1>1. /\ g \in SUBSET Reservations /\ IsFiniteSet(g) /\ Purged(g, now) = g
      /\ \A x \in g : x.at <= now /\ x.nth > left.calls
      /\ new \in Reservations /\ new \notin g
      /\ r.ok => r.window = g \cup {new} /\ Seeds(g) + n <= QUOTA_LIMIT
      /\ ~r.ok => /\ r.window = g
                  /\ r.until # 0 => /\ r.until \in Nat /\ r.until > now
                                    /\ Seeds(Until(g, r.until)) + n > QUOTA_LIMIT
  BY ReserveIs
<1>2. /\ now \in Nat /\ left.calls \in Nat /\ left'.calls \in Nat /\ left'.calls = left.calls - 1
      /\ "calls" \in DOMAIN left' /\ DOMAIN windows = Tenants /\ DOMAIN windows' = Tenants
      /\ QUOTA_LIMIT \in Nat /\ QUOTA_WINDOW \in Nat \ {0} /\ Seeds(g) <= QUOTA_LIMIT
      /\ DOMAIN past = {"granted", "hints", "posts"} /\ DOMAIN past.granted = Tenants
  BY CallsAssumption DEF QuotaInv, WindowOK
<1>3. windows'[t] = r.window /\ \A u \in Tenants \ {t} : windows'[u] = windows[u]
  BY <1>2
<1>4. new.nth = left.calls /\ new.at = now /\ new.seeds = n
  BY DEF Reservation
<1>o. \A u \in Tenants \ {t} : past'.granted[u] = past.granted[u] => WindowOK(windows[u], past.granted[u])'
  BY <1>2, <1>3, WindowStays
<1>5. CASE r.ok
  <2>1. past' = [past EXCEPT !.granted[t] = @ \cup {new}]
    BY <1>5
  <2>2. /\ past'.granted[t] = g \cup {new} /\ past'.hints = past.hints
        /\ DOMAIN past' = {"granted", "hints", "posts"} /\ DOMAIN past'.granted = Tenants
        /\ \A u \in Tenants \ {t} : past'.granted[u] = past.granted[u]
    BY <1>2, <2>1
  <2> HIDE DEF g, r, new
  <2>3. Seeds(g \cup {new}) = Seeds(g) + n /\ IsFiniteSet(g \cup {new})
    BY <1>1, <1>4, SeedsAdd, FS_AddElement
  <2>4. WindowOK(windows[t], past.granted[t])'
    <3>1. windows'[t] = g \cup {new}
      BY <1>1, <1>3, <1>5
    <3>2. \A x \in g \cup {new} : x.at <= now /\ x.nth > left'.calls
      <4>1. ASSUME NEW x \in g PROVE x.at <= now /\ x.nth > left'.calls
        <5>1. x.nth \in Nat /\ x.nth > left.calls /\ x.at <= now
          BY <1>1 DEF Reservations
        <5> QED  BY <1>2, <5>1
      <4> QED  BY <1>2, <1>4, <4>1
    <3>3. Purged(g \cup {new}, now) = g \cup {new}
      <4>1. new.at > now - QUOTA_WINDOW
        BY <1>2, <1>4
      <4> QED  BY <1>1, <4>1 DEF Purged
    <3>4. Seeds(g \cup {new}) <= QUOTA_LIMIT
      BY <1>1, <1>5, <2>3
    <3> DEFINE both == g \cup {new}
    <3>5. both \in SUBSET Reservations /\ IsFiniteSet(both)
      BY <1>1, <2>3
    <3>6. Purged(both, now') = both
      BY <3>3
    <3> HIDE DEF both
    <3>7. /\ windows'[t] = both /\ past'.granted[t] = both /\ Seeds(both) <= QUOTA_LIMIT
          /\ \A x \in both : x.at <= now' /\ x.nth > left'.calls
      BY <2>2, <3>1, <3>2, <3>4 DEF both
    <3> QED  BY <3>5, <3>6, <3>7 DEF WindowOK, Purged, Seeds
  <2>5. ASSUME NEW h \in past.hints PROVE HintOK(h)' /\ (h.tenant = t => n < h.seeds)
    <3>1. HintOK(h)
      BY DEF QuotaInv
    <3>2. CASE h.tenant # t
      BY <2>2, <3>1, <3>2, HintStays DEF HintOK
    <3>3. CASE h.tenant = t
      <4> DEFINE old == Until(g, h.until)
                 all == Until(g \cup {new}, h.until)
      <4>1. old \in SUBSET all /\ all \in SUBSET (g \cup {new}) /\ old \in SUBSET g
        BY DEF Until
      <4>2. g \cup {new} \in SUBSET Reservations
        BY <1>1
      <4>3. all \in SUBSET Reservations /\ IsFiniteSet(all)
        BY <2>3, <4>1, <4>2, FS_Subset
      <4>4. Seeds(all) \in Nat /\ Seeds(old) \in Nat /\ Seeds(old) <= Seeds(all)
        BY <4>1, <4>3, SeedsMonotone
      <4>5. Seeds(old) <= Seeds(g) /\ Seeds(g) \in Nat
        BY <1>1, <4>1, SeedsMonotone
      <4>6. Seeds(old) + h.seeds > QUOTA_LIMIT /\ h.seeds \in Nat
        BY <3>1, <3>3 DEF HintOK, g
      <4>7. n < h.seeds
        BY <1>1, <1>2, <1>5, <4>4, <4>5, <4>6
      <4>8. Seeds(all) + h.seeds > QUOTA_LIMIT
        BY <1>2, <4>4, <4>6
      <4>9. Until(past.granted[h.tenant], h.until)' = all
        BY <2>2, <3>3 DEF Until
      <4> HIDE DEF all
      <4>10. HintOK(h)'
        BY <3>1, <4>8, <4>9 DEF HintOK, Seeds
      <4> QED  BY <4>7, <4>10
    <3> QED  BY <3>2, <3>3
  <2>6. \A u \in Tenants : WindowOK(windows[u], past.granted[u])'
    BY <1>o, <2>2, <2>4
  <2>7. QuotaInv'
    BY <1>2, <2>2, <2>5, <2>6 DEF QuotaInv
  <2>8. ASSUME NEW u \in Tenants, NEW x \in past'.granted[u] \ past.granted[u],
               NEW h \in past.hints, h.tenant = u, h.seeds <= x.seeds
        PROVE  FALSE
    <3>1. u = t /\ x = new
      BY <2>2, <2>8 DEF g
    <3>2. n < h.seeds /\ h.seeds \in Nat /\ x.seeds = n
      BY <1>4, <2>5, <2>8, <3>1 DEF QuotaInv, HintOK
    <3> QED  BY <2>8, <3>2
  <2> QED  BY <2>7, <2>8
<1>6. CASE ~r.ok
  <2> DEFINE told == IF r.until = 0 THEN {}
                     ELSE {[tenant |-> t, seeds |-> n, until |-> r.until]}
  <2>1. past' = [past EXCEPT !.hints = @ \cup told]
    BY <1>6
  <2>2. ASSUME NEW h \in told
        PROVE  h.tenant = t /\ h.seeds = n /\ h.until = r.until /\ r.until # 0
    OBVIOUS
  <2> HIDE DEF told
  <2>3. /\ past'.granted = past.granted /\ past'.hints = past.hints \cup told
        /\ DOMAIN past' = {"granted", "hints", "posts"}
    BY <1>2, <2>1
  <2> HIDE DEF r, new
  <2>4. WindowOK(windows[t], past.granted[t])'
    <3>1. windows'[t] = g /\ past'.granted[t] = g
      BY <1>1, <1>3, <1>6, <2>3
    <3>2. \A x \in g : x.at <= now /\ x.nth > left'.calls
      <4> SUFFICES ASSUME NEW x \in g PROVE x.at <= now /\ x.nth > left'.calls
        OBVIOUS
      <4>1. x.nth \in Nat /\ x.nth > left.calls /\ x.at <= now
        BY <1>1 DEF Reservations
      <4> QED  BY <1>2, <4>1
    <3> HIDE DEF g
    <3> QED  BY <1>1, <1>2, <3>1, <3>2 DEF WindowOK, Purged, Seeds
  <2>5. ASSUME NEW h \in past.hints PROVE HintOK(h)'
    BY <2>3, HintStays
  <2>6. ASSUME NEW h \in told PROVE HintOK(h)'
    <3>1. past'.granted[h.tenant] = g
      BY <2>2, <2>3
    <3>2. /\ r.until \in Nat /\ r.until > now /\ Seeds(Until(g, r.until)) + n > QUOTA_LIMIT
          /\ h.tenant = t /\ h.seeds = n /\ h.until = r.until
      BY <1>1, <1>6, <2>2
    <3> HIDE DEF g
    <3> QED  BY <3>1, <3>2 DEF HintOK, Until, Seeds
  <2>7. \A u \in Tenants : WindowOK(windows[u], past.granted[u])'
    BY <1>o, <2>3, <2>4
  <2>8. QuotaInv'
    BY <1>2, <2>3, <2>5, <2>6, <2>7 DEF QuotaInv
  <2> QED  BY <2>3, <2>8
<1> QED  BY <1>5, <1>6

(* Time passes: reservations leave the window, and hints are over before    *)
(* those that they count do.                                                *)
LEMMA TickKeepsQuota ==
  ASSUME QuotaInv, Tick
  PROVE  QuotaInv'
<1>1. /\ now \in Nat /\ now' = now + 1 /\ windows' = windows /\ left' = left
      /\ DOMAIN past' = {"granted", "hints", "posts"} /\ DOMAIN past'.granted = Tenants
      /\ \A t \in Tenants : past'.granted[t] = Purged(past.granted[t], now')
      /\ past'.hints = {h \in past.hints : h.until > now'}
  BY DEF Tick, QuotaInv
<1>2. QUOTA_WINDOW \in Nat \ {0} /\ QUOTA_LIMIT \in Nat
  BY CallsAssumption
<1>3. ASSUME NEW t \in Tenants PROVE WindowOK(windows[t], past.granted[t])'
  <2> DEFINE w == windows[t]
             g == past.granted[t]
  <2>1. WindowOK(w, g)
    BY DEF QuotaInv
  <2>2. windows'[t] = w /\ past'.granted[t] = Purged(g, now')
    BY <1>1
  <2> HIDE DEF w, g
  <2>3. Purged(g, now') = Purged(w, now')
    <3>1. \A r \in w : r.at > now' - QUOTA_WINDOW => r.at > now - QUOTA_WINDOW
      <4> SUFFICES ASSUME NEW r \in w, r.at > now' - QUOTA_WINDOW PROVE r.at > now - QUOTA_WINDOW
        OBVIOUS
      <4>1. r.at \in Nat
        BY <2>1 DEF WindowOK, Reservations
      <4> QED  BY <1>1, <1>2, <4>1
    <3> QED  BY <2>1, <3>1 DEF WindowOK, Purged
  <2>4. Seeds(Purged(g, now')) <= QUOTA_LIMIT
    <3>1. g \in SUBSET Reservations /\ IsFiniteSet(g) /\ Seeds(g) <= QUOTA_LIMIT
      BY <2>1, FS_Subset DEF WindowOK, Purged
    <3>2. Purged(g, now') \in SUBSET g
      BY DEF Purged
    <3>3. Seeds(Purged(g, now')) <= Seeds(g) /\ Seeds(g) \in Nat /\ Seeds(Purged(g, now')) \in Nat
      BY <3>1, <3>2, SeedsMonotone
    <3> QED  BY <1>2, <3>1, <3>3
  <2>5. \A r \in w : r.at <= now' /\ r.nth > left'.calls
    <3> SUFFICES ASSUME NEW r \in w PROVE r.at <= now' /\ r.nth > left'.calls
      OBVIOUS
    <3>1. r.at \in Nat /\ r.at <= now /\ r.nth > left.calls
      BY <2>1 DEF WindowOK, Reservations
    <3> QED  BY <1>1, <3>1
  <2> DEFINE p == Purged(g, now')
  <2>6. w \in SUBSET Reservations /\ IsFiniteSet(w)
    BY <2>1 DEF WindowOK
  <2>7. past'.granted[t] = p /\ p = Purged(w, now') /\ Seeds(p) <= QUOTA_LIMIT
    BY <2>2, <2>3, <2>4
  <2> HIDE DEF p
  <2>8. WindowOK(windows[t], past.granted[t])' <=>
          /\ w \in SUBSET Reservations /\ IsFiniteSet(w)
          /\ \A r \in w : r.at <= now' /\ r.nth > left'.calls
          /\ p = Purged(w, now') /\ Seeds(p) <= QUOTA_LIMIT
    BY <2>2, <2>7 DEF WindowOK, Purged, Seeds
  <2> QED  BY <2>5, <2>6, <2>7, <2>8
<1>4. ASSUME NEW h \in past.hints, h.until > now' PROVE HintOK(h)'
  <2> DEFINE g == past.granted[h.tenant]
  <2>1. HintOK(h)
    BY <1>4 DEF QuotaInv
  <2>2. h.tenant \in Tenants /\ h.until \in Nat
    BY <2>1 DEF HintOK
  <2>3. past'.granted[h.tenant] = Purged(g, now')
    BY <1>1, <2>2
  <2>4. g \in SUBSET Reservations
    BY <2>2 DEF QuotaInv, WindowOK, Purged
  <2> HIDE DEF g
  <2>5. Until(Purged(g, now'), h.until) = Until(g, h.until)
    <3>1. \A r \in g : r.at + QUOTA_WINDOW >= h.until => r.at > now' - QUOTA_WINDOW
      <4> SUFFICES ASSUME NEW r \in g, r.at + QUOTA_WINDOW >= h.until
                   PROVE  r.at > now' - QUOTA_WINDOW
        OBVIOUS
      <4>1. r.at \in Nat
        BY <2>4 DEF Reservations
      <4> QED  BY <1>1, <1>2, <1>4, <2>2, <4>1
    <3> QED  BY <3>1 DEF Until, Purged
  <2>6. Seeds(Until(g, h.until)) + h.seeds > QUOTA_LIMIT
    BY <2>1 DEF HintOK, g
  <2>7. Until(past.granted[h.tenant], h.until)' = Until(g, h.until)
    BY <2>3, <2>5 DEF Until
  <2> QED  BY <1>4, <2>1, <2>6, <2>7 DEF HintOK, Seeds
<1>5. \A h \in past'.hints : HintOK(h)'
  BY <1>1, <1>4
<1>6. \A t \in Tenants : WindowOK(windows[t], past.granted[t])'
  BY <1>3
<1>7. DOMAIN windows = Tenants /\ "calls" \in DOMAIN left /\ left.calls \in Nat
  BY DEF QuotaInv
<1> QED  BY <1>1, <1>5, <1>6, <1>7 DEF QuotaInv

Heeded ==
  \A t \in Tenants : \A r \in past'.granted[t] \ past.granted[t], h \in past.hints :
    h.tenant = t /\ h.seeds <= r.seeds => now >= h.until

(* QuotaInv survives every step, and no step grants what a hint ruled out. *)
LEMMA QuotaStep ==
  ASSUME QuotaInv, [CallsNext]_callsVars
  PROVE  QuotaInv' /\ Heeded
<1>0. past'.granted = past.granted => Heeded
  BY DEF Heeded
<1>1. ASSUME NEW c \in Callers, NEW q \in Requests, CallTool(c, q) PROVE QuotaInv' /\ Heeded
  <2>1. now' = now /\ left.calls > 0 /\ left' = [left EXCEPT !.calls = @ - 1]
    BY <1>1, Zenon DEF CallTool, Starts
  <2>2. CASE windows' = windows /\ past' = past
    BY <1>0, <2>1, <2>2, NothingReserved
  <2>3. CASE ~(windows' = windows /\ past' = past)
    <3> DEFINE n == Cardinality(ShapeBulkInput(q).seeds)
    <3>1. ~(~q.valid \/ RequiredScope(q) \notin q.scopes \/ active >= MAX_CONCURRENT_MCP)
      BY <1>1, <2>3, Zenon DEF CallTool
    <3>2. q.tool # "captatum"
      BY <1>1, <2>3, <3>1, Zenon DEF CallTool
    <3>3. n \in Nat
      BY <3>2, ShapeIs, Places DEF Bulks
    <3>4. /\ windows' = [windows EXCEPT ![q.tenant] = TryReserve(q.tenant, n).window]
          /\ IF TryReserve(q.tenant, n).ok
             THEN past' = [past EXCEPT !.granted[q.tenant] = @ \cup {Reservation(n)}]
             ELSE past' = [past EXCEPT !.hints = @ \cup
                            IF TryReserve(q.tenant, n).until = 0 THEN {}
                            ELSE {[tenant |-> q.tenant, seeds |-> n,
                                   until |-> TryReserve(q.tenant, n).until]}]
      BY <1>1, <3>1, <3>2, Zenon DEF CallTool
    <3>5. q.tenant \in Tenants
      BY DEF Tenants
    <3> HIDE DEF n
    <3>6. QuotaInv' /\ \A u \in Tenants : \A r \in past'.granted[u] \ past.granted[u],
                           h \in past.hints : ~(h.tenant = u /\ h.seeds <= r.seeds)
      <4> DEFINE t == q.tenant
      <4>1. t \in Tenants
        BY <3>5
      <4>2. /\ windows' = [windows EXCEPT ![t] = TryReserve(t, n).window]
            /\ IF TryReserve(t, n).ok
               THEN past' = [past EXCEPT !.granted[t] = @ \cup {Reservation(n)}]
               ELSE past' = [past EXCEPT !.hints = @ \cup
                              IF TryReserve(t, n).until = 0 THEN {}
                              ELSE {[tenant |-> t, seeds |-> n, until |-> TryReserve(t, n).until]}]
        BY <3>4
      <4> HIDE DEF t
      <4> QED  BY <2>1, <3>3, <4>1, <4>2, ReserveKeeps
    <3> QED  BY <3>6 DEF Heeded
  <2> QED  BY <2>2, <2>3
<1>2. ASSUME NEW c \in Callers, Proceeds(c) \/ Return(c) PROVE QuotaInv' /\ Heeded
  <2>1. UNCHANGED <<now, windows, left, past>>
    BY <1>2 DEF Proceeds, Return, Throws, Ends, Audit
  <2>2. now' = now /\ windows' = windows /\ past' = past /\ left' = left
    BY <2>1
  <2>3. QuotaInv'
    BY <2>2, NothingReserved
  <2> QED  BY <1>0, <2>2, <2>3
<1>3. ASSUME NEW m \in Posts, OAuthPost(m) PROVE QuotaInv' /\ Heeded
  <2>1. UNCHANGED <<now, windows>> /\ left' = [left EXCEPT !.posts = @ - 1]
    BY <1>3 DEF OAuthPost
  <2>2. past' = past \/ \E e : past' = [past EXCEPT !.posts = @ \cup e]
    BY <1>3, Zenon DEF OAuthPost
  <2>3. /\ DOMAIN past' = DOMAIN past /\ past'.granted = past.granted /\ past'.hints = past.hints
    BY <2>2 DEF QuotaInv
  <2>4. left'.calls = left.calls /\ "calls" \in DOMAIN left'
    BY <2>1 DEF QuotaInv
  <2>5. left.calls \in Nat
    BY DEF QuotaInv
  <2>6. left'.calls \in Nat /\ left'.calls <= left.calls
    BY <2>4, <2>5
  <2>7. \A t \in Tenants : WindowOK(windows[t], past.granted[t])'
    BY <2>1, <2>3, <2>6, WindowStays
  <2>8. \A h \in past.hints : HintOK(h)'
    BY <2>1, <2>3, HintStays
  <2> QED  BY <1>0, <2>1, <2>3, <2>4, <2>7, <2>8 DEF QuotaInv
<1>4. CASE Tick
  <2>1. QuotaInv'
    BY <1>4, TickKeepsQuota
  <2>2. \A t \in Tenants : past'.granted[t] \subseteq past.granted[t]
    BY <1>4 DEF Tick, Purged
  <2> QED  BY <2>1, <2>2 DEF Heeded
<1>5. CASE UNCHANGED callsVars
  BY <1>0, <1>5, NothingReserved DEF callsVars
<1> QED  BY <1>1, <1>2, <1>3, <1>4, <1>5 DEF CallsNext

(* At first nothing is reserved.                                           *)
LEMMA QuotaInit == CallsInit => QuotaInv
<1> SUFFICES ASSUME CallsInit PROVE QuotaInv
  OBVIOUS
<1>1. /\ now = 0 /\ left \in Budgets /\ windows = [t \in Tenants |-> {}]
      /\ past = [granted |-> [t \in Tenants |-> {}], hints |-> {}, posts |-> {}]
  BY DEF CallsInit
<1>2. "calls" \in DOMAIN left /\ left.calls \in Nat /\ QUOTA_LIMIT \in Nat
  BY <1>1, CallsAssumption
<1>3. ASSUME NEW t \in Tenants PROVE WindowOK(windows[t], past.granted[t])
  <2>1. windows[t] = {} /\ past.granted[t] = {}
    BY <1>1
  <2>2. Purged({}, now) = {}
    BY DEF Purged
  <2> QED  BY <1>2, <2>1, <2>2, NoSeeds, FS_EmptySet DEF WindowOK
<1> QED  BY <1>1, <1>2, <1>3 DEF QuotaInv

(* In any window of time no tenant is granted more seeds than the limit,   *)
(* and no call is granted before the hint of a refusal that asked for no   *)
(* more, for any limit, window and tenants: tryReserve forgets a           *)
(* reservation exactly when it has left the window.                        *)
THEOREM QuotaHolds == CallsSpec => QuotaBounded
<1>1. QuotaInv /\ [CallsNext]_callsVars => QuotaInv' /\ [Heeded]_callsVars
  BY QuotaStep
<1>2. QuotaInv => \A t \in Tenants : Seeds(past.granted[t]) <= QUOTA_LIMIT
  BY DEF QuotaInv, WindowOK
<1>3. CallsSpec => [](\A t \in Tenants : Seeds(past.granted[t]) <= QUOTA_LIMIT)
                   /\ [][Heeded]_callsVars
  BY <1>1, <1>2, QuotaInit, PTL DEF CallsSpec
<1> QED  BY <1>3, Zenon DEF QuotaBounded, Heeded

-----------------------------------------------------------------------------
(* The flood limiter.                                                       *)
Keys == {<<m.surface, m.client>> : m \in Posts}
Of(posts, key) == {x \in posts : <<x.surface, x.client>> = key}
From(p, t) == {x \in p : x.at >= t}
After(p, t) == {x \in p : x.at > t}
Prior(p, t) == {x \in p : x.at < t}

(* What went through of a key in the last window: what its bucket counts,   *)
(* and less than the limit before the bucket began.                         *)
BucketOK(p, b, t) ==
  /\ b \in [count : Nat \ {0}, resetAt : Nat]
  /\ FLOOD_WINDOW <= b.resetAt /\ b.resetAt <= t + FLOOD_WINDOW
  /\ Cardinality(From(p, b.resetAt - FLOOD_WINDOW)) <= Least(b.count, FLOOD_LIMIT)
  /\ Cardinality(After(p, b.resetAt - FLOOD_WINDOW)) <= Least(b.count, FLOOD_LIMIT) - 1
  /\ Cardinality(Prior(p, b.resetAt - FLOOD_WINDOW)) <= FLOOD_LIMIT - 1
  /\ \A x \in p : x.at < b.resetAt
Spent(p, t) == Cardinality(p) <= FLOOD_LIMIT - 1 /\ \A x \in p : x.at < t
KeyOK(k) ==
  /\ k \in DOMAIN buckets => BucketOK(Of(past.posts, k), buckets[k], now)
  /\ k \notin DOMAIN buckets => Spent(Of(past.posts, k), now)
PostOK(x) ==
  /\ x.nth \in Nat /\ x.nth > left.posts /\ <<x.surface, x.client>> \in Keys
  /\ x.at \in Nat /\ x.at <= now /\ x.at > now - FLOOD_WINDOW
FloodInv ==
  /\ now \in Nat /\ "posts" \in DOMAIN left /\ left.posts \in Nat
  /\ DOMAIN past = {"granted", "hints", "posts"}
  /\ IsFiniteSet(past.posts) /\ \A x \in past.posts : PostOK(x)
  /\ DOMAIN buckets \in SUBSET Keys /\ IsFiniteSet(DOMAIN buckets)
  /\ Cardinality(DOMAIN buckets) <= MAX_KEYS
  /\ \A k \in Keys : KeyOK(k)

(* The limits of the flood limiter.                                        *)
LEMMA FloodConstants ==
  /\ FLOOD_LIMIT \in Nat \ {0} /\ FLOOD_WINDOW \in Nat \ {0} /\ MAX_KEYS \in Nat
  /\ FLOOD_LIMIT \in Nat /\ FLOOD_WINDOW \in Nat
BY CallsAssumption

(* The parts of a finite set of posts.                                      *)
LEMMA Fewer ==
  ASSUME NEW p, IsFiniteSet(p), NEW s \in SUBSET p
  PROVE  IsFiniteSet(s) /\ Cardinality(s) \in Nat /\ Cardinality(p) \in Nat
         /\ Cardinality(s) <= Cardinality(p)
BY FS_Subset, FS_CardinalityType

(* What the invariant says of the posts of a key.                          *)
LEMMA PostsOf ==
  ASSUME FloodInv, NEW k
  PROVE  IsFiniteSet(Of(past.posts, k)) /\ \A x \in Of(past.posts, k) : PostOK(x)
<1>1. Of(past.posts, k) \in SUBSET past.posts
  BY DEF Of
<1> QED  BY <1>1, Fewer DEF FloodInv

(* A key without a live bucket had less than the limit in the last window:  *)
(* the first post that an old bucket counted has left it.                   *)
LEMMA NotLive ==
  ASSUME FloodInv, NEW k \in Keys, k \notin Live(now)
  PROVE  Spent(Of(past.posts, k), now)
<1> DEFINE p == Of(past.posts, k)
<1>1. KeyOK(k) /\ now \in Nat
  BY DEF FloodInv
<1>2. CASE k \notin DOMAIN buckets
  BY <1>1, <1>2 DEF KeyOK
<1>3. CASE k \in DOMAIN buckets
  <2> DEFINE b == buckets[k]
  <2>1. BucketOK(p, b, now)
    BY <1>1, <1>3 DEF KeyOK
  <2>2. ~(b.resetAt > now)
    BY <1>3 DEF Live
  <2>3. \A x \in p : PostOK(x)
    BY PostsOf
  <2> HIDE DEF p, b
  <2>4. b.resetAt \in Nat /\ b.count \in Nat /\ b.resetAt <= now
    BY <1>1, <2>1, <2>2 DEF BucketOK
  <2>5. ASSUME NEW x \in p PROVE x.at > b.resetAt - FLOOD_WINDOW /\ x.at < now
    <3>1. /\ x.at \in Nat /\ x.at > now - FLOOD_WINDOW /\ x.at < b.resetAt
      BY <2>1, <2>3 DEF PostOK, BucketOK
    <3> QED  BY <1>1, <2>4, <3>1, FloodConstants
  <2>6. After(p, b.resetAt - FLOOD_WINDOW) = p
    BY <2>5 DEF After
  <2>7. Cardinality(p) <= Least(b.count, FLOOD_LIMIT) - 1
    BY <2>1, <2>6 DEF BucketOK
  <2>8. IsFiniteSet(p)
    BY PostsOf DEF p
  <2>9. Cardinality(p) \in Nat
    BY <2>8, FS_CardinalityType
  <2>10. Cardinality(p) <= FLOOD_LIMIT - 1
    BY <2>4, <2>7, <2>9, FloodConstants DEF Least
  <2> QED  BY <2>5, <2>10 DEF Spent, p
<1> QED  BY <1>2, <1>3

(* Time passes, or a key is left alone by a post, its bucket kept or, when  *)
(* it is over, removed.                                                     *)
LEMMA BucketStays ==
  ASSUME NEW p, IsFiniteSet(p), NEW b, NEW t \in Nat, NEW u \in Nat, t <= u,
         BucketOK(p, b, t), NEW s \in SUBSET p
  PROVE  BucketOK(s, b, u)
<1> DEFINE z == b.resetAt - FLOOD_WINDOW
<1>1. /\ From(s, z) \in SUBSET From(p, z) /\ After(s, z) \in SUBSET After(p, z)
      /\ Prior(s, z) \in SUBSET Prior(p, z)
  BY DEF From, After, Prior
<1>2. From(p, z) \in SUBSET p /\ After(p, z) \in SUBSET p /\ Prior(p, z) \in SUBSET p
  BY DEF From, After, Prior
<1>3. /\ b \in [count : Nat \ {0}, resetAt : Nat]
      /\ FLOOD_WINDOW <= b.resetAt /\ b.resetAt <= t + FLOOD_WINDOW
      /\ Cardinality(From(p, z)) <= Least(b.count, FLOOD_LIMIT)
      /\ Cardinality(After(p, z)) <= Least(b.count, FLOOD_LIMIT) - 1
      /\ Cardinality(Prior(p, z)) <= FLOOD_LIMIT - 1
      /\ \A x \in p : x.at < b.resetAt
  BY DEF BucketOK
<1> HIDE DEF z
<1>4. /\ Cardinality(From(s, z)) \in Nat /\ Cardinality(From(s, z)) <= Cardinality(From(p, z))
      /\ Cardinality(After(s, z)) \in Nat /\ Cardinality(After(s, z)) <= Cardinality(After(p, z))
      /\ Cardinality(Prior(s, z)) \in Nat /\ Cardinality(Prior(s, z)) <= Cardinality(Prior(p, z))
      /\ Cardinality(From(p, z)) \in Nat /\ Cardinality(After(p, z)) \in Nat
      /\ Cardinality(Prior(p, z)) \in Nat
  BY <1>1, <1>2, Fewer
<1>5. Least(b.count, FLOOD_LIMIT) \in Nat /\ b.resetAt \in Nat
  BY <1>3, FloodConstants DEF Least
<1>6. /\ Cardinality(From(s, z)) <= Least(b.count, FLOOD_LIMIT)
      /\ Cardinality(After(s, z)) <= Least(b.count, FLOOD_LIMIT) - 1
      /\ Cardinality(Prior(s, z)) <= FLOOD_LIMIT - 1
  BY <1>3, <1>4, <1>5, FloodConstants
<1>7. b.resetAt <= u + FLOOD_WINDOW
  BY <1>3, <1>5, FloodConstants
<1> QED  BY <1>3, <1>6, <1>7 DEF BucketOK, z

(* The same for a key without a bucket.                                    *)
LEMMA SpentStays ==
  ASSUME NEW p, IsFiniteSet(p), \A x \in p : x.at \in Nat, NEW t \in Nat, NEW u \in Nat, t <= u,
         Spent(p, t), NEW s \in SUBSET p
  PROVE  Spent(s, u)
<1>1. Cardinality(s) \in Nat /\ Cardinality(p) \in Nat /\ Cardinality(s) <= Cardinality(p)
  BY Fewer
<1>2. Cardinality(s) <= FLOOD_LIMIT - 1
  BY <1>1, FloodConstants DEF Spent
<1>3. ASSUME NEW x \in s PROVE x.at < u
  <2>1. x.at \in Nat /\ x.at < t
    BY DEF Spent
  <2> QED  BY <2>1
<1> QED  BY <1>2, <1>3 DEF Spent

(* Hence a key of which no new post goes through stays in order.           *)
LEMMA KeyStays ==
  ASSUME FloodInv, now' \in Nat, now <= now', NEW k \in Keys,
         Of(past'.posts, k) \in SUBSET Of(past.posts, k),
         k \in DOMAIN buckets' => k \in DOMAIN buckets /\ buckets'[k] = buckets[k],
         k \in DOMAIN buckets /\ k \notin DOMAIN buckets' => k \notin Live(now)
  PROVE  KeyOK(k)'
<1> DEFINE p == Of(past.posts, k)
           s == Of(past'.posts, k)
<1>1. IsFiniteSet(p) /\ (\A x \in p : x.at \in Nat) /\ KeyOK(k) /\ now \in Nat
  BY PostsOf DEF FloodInv, PostOK
<1>2. s \in SUBSET p
  OBVIOUS
<1>3. CASE k \in DOMAIN buckets'
  <2>1. BucketOK(p, buckets[k], now)
    BY <1>1, <1>3 DEF KeyOK
  <2>2. BucketOK(s, buckets'[k], now')
    <3> DEFINE b == buckets[k]
    <3>1. BucketOK(p, b, now) /\ buckets'[k] = b
      BY <1>3, <2>1
    <3> HIDE DEF p, s, b
    <3>2. BucketOK(s, b, now')
      BY <1>1, <1>2, <3>1, BucketStays
    <3> QED  BY <3>1, <3>2
  <2> QED  BY <1>3, <2>2 DEF KeyOK, Of, BucketOK
<1>4. CASE k \notin DOMAIN buckets'
  <2>1. Spent(p, now)
    BY <1>1, <1>4, NotLive DEF KeyOK
  <2>2. Spent(s, now')
    <3> HIDE DEF p, s
    <3> QED  BY <1>1, <1>2, <2>1, SpentStays
  <2> QED  BY <1>4, <2>2 DEF KeyOK, Of, Spent
<1> QED  BY <1>3, <1>4

(* Who is let in is counted as the client it is.                            *)
LEMMA KeyOfClient ==
  ASSUME NEW m \in Posts, AuthenticateProxyHeaders(m) # "reject"
  PROVE  Key(m) = <<m.surface, m.client>> /\ Key(m) \in Keys
<1>1. \/ m.secret = "right" \/ (m.secret = "absent" /\ m.forwarded = NoClaim)
  BY DEF AuthenticateProxyHeaders
<1>2. CASE m.secret = "right"
  BY <1>2, PostsAssumption DEF Key, Keys
<1>3. CASE m.secret = "absent" /\ m.forwarded = NoClaim
  BY <1>3, PostsAssumption DEF Key, Keys
<1> QED  BY <1>1, <1>2, <1>3

(* The two fields of its answer.                                            *)
LEMMA OkField ==
  ASSUME NEW a, NEW b PROVE [ok |-> a, buckets |-> b].ok = a /\ [ok |-> a, buckets |-> b].buckets = b
OBVIOUS

Full(key) == key \notin DOMAIN buckets /\ Cardinality(Live(now)) >= MAX_KEYS
(* What the limiter does: one more in a live bucket; nothing for a new key *)
(* when the table is full; otherwise a new bucket.                         *)
LEMMA CheckIs ==
  ASSUME NEW key
  PROVE  LET r == Check(key) IN
         /\ key \in Live(now) =>
              /\ r.ok <=> buckets[key].count + 1 <= FLOOD_LIMIT
              /\ r.buckets = [buckets EXCEPT ![key].count = @ + 1]
         /\ key \notin Live(now) /\ Full(key) => ~r.ok /\ r.buckets = [k \in Live(now) |-> buckets[k]]
         /\ key \notin Live(now) /\ ~Full(key) =>
              r.ok /\ r.buckets = [k \in Live(now) \cup {key} |-> IF k = key THEN Bucket ELSE buckets[k]]
<1> DEFINE r == Check(key)
<1>1. CASE key \in Live(now)
  <2> DEFINE fits == buckets[key].count + 1 <= FLOOD_LIMIT
             more == [buckets EXCEPT ![key].count = @ + 1]
  <2>1. r = [ok |-> fits, buckets |-> more]
    BY <1>1 DEF Check
  <2> HIDE DEF r, more
  <2>2. r.ok = fits /\ r.buckets = more
    BY <2>1, OkField, Zenon
  <2>3. r.ok <=> fits
    BY <2>2
  <2> HIDE DEF fits
  <2> QED  BY <1>1, <2>2, <2>3 DEF fits, more, r
<1>2. CASE key \notin Live(now) /\ Full(key)
  <2>1. r = [ok |-> FALSE, buckets |-> Restrict(buckets, Live(now))]
    BY <1>2 DEF Check, Admit, Full
  <2>2. ~r.ok /\ r.buckets = [k \in Live(now) |-> buckets[k]]
    BY <2>1 DEF Restrict
  <2> QED  BY <1>2, <2>2
<1>3. CASE key \notin Live(now) /\ ~Full(key)
  <2> DEFINE new == [k \in Live(now) \cup {key} |-> IF k = key THEN Bucket ELSE buckets[k]]
  <2>1. r = [ok |-> TRUE, buckets |-> new]
    BY <1>3 DEF Check, Admit, Full
  <2> HIDE DEF new, r
  <2>2. r.ok /\ r.buckets = new
    BY <2>1
  <2> QED  BY <1>3, <2>2 DEF new, r
<1> QED  BY <1>1, <1>2, <1>3

(* Nothing is counted.                                                      *)
LEMMA NothingCounted ==
  ASSUME FloodInv, buckets' = buckets, now' = now, past'.posts = past.posts,
         DOMAIN past' = DOMAIN past, "posts" \in DOMAIN left', left'.posts \in Nat,
         left'.posts <= left.posts
  PROVE  FloodInv'
<1>1. ASSUME NEW k \in Keys PROVE KeyOK(k)'
  <2>1. Of(past'.posts, k) \in SUBSET Of(past.posts, k) /\ now <= now' /\ now' \in Nat
    BY DEF FloodInv
  <2> QED  BY <2>1, KeyStays
<1>2. ASSUME NEW x \in past.posts PROVE PostOK(x)'
  <2>1. PostOK(x) /\ left.posts \in Nat
    BY DEF FloodInv
  <2> QED  BY <2>1 DEF PostOK
<1> QED  BY <1>1, <1>2 DEF FloodInv

(* Time passes.                                                            *)
LEMMA TickKeepsFlood ==
  ASSUME FloodInv, Tick
  PROVE  FloodInv'
<1>1. /\ now \in Nat /\ now' = now + 1 /\ now' \in Nat /\ now <= now'
      /\ buckets' = buckets /\ left' = left
      /\ DOMAIN past' = {"granted", "hints", "posts"}
      /\ past'.posts = {x \in past.posts : x.at > now' - FLOOD_WINDOW}
  BY DEF Tick, FloodInv
<1>2. IsFiniteSet(past'.posts)
  BY <1>1, FS_Subset DEF FloodInv
<1>3. ASSUME NEW x \in past'.posts PROVE PostOK(x)'
  <2>1. PostOK(x) /\ x.at > now' - FLOOD_WINDOW
    BY <1>1 DEF FloodInv
  <2> QED  BY <1>1, <2>1 DEF PostOK
<1>4. ASSUME NEW k \in Keys PROVE KeyOK(k)'
  <2>1. Of(past'.posts, k) \in SUBSET Of(past.posts, k)
    BY <1>1 DEF Of
  <2> QED  BY <1>1, <2>1, KeyStays
<1> QED  BY <1>1, <1>2, <1>3, <1>4 DEF FloodInv

(* One more is counted, and goes through while there is room.               *)
LEMMA OneMore ==
  ASSUME NEW p, IsFiniteSet(p), NEW b, NEW n \in Nat, BucketOK(p, b, n), b.resetAt > n,
         NEW e, e \notin p, e.at = n, NEW c, c = [b EXCEPT !.count = @ + 1]
  PROVE  /\ BucketOK(p, c, n)
         /\ b.count + 1 <= FLOOD_LIMIT => BucketOK(p \cup {e}, c, n)
<1> DEFINE t == b.resetAt - FLOOD_WINDOW
           s == p \cup {e}
<1>1. /\ b \in [count : Nat \ {0}, resetAt : Nat]
      /\ FLOOD_WINDOW <= b.resetAt /\ b.resetAt <= n + FLOOD_WINDOW
      /\ Cardinality(From(p, t)) <= Least(b.count, FLOOD_LIMIT)
      /\ Cardinality(After(p, t)) <= Least(b.count, FLOOD_LIMIT) - 1
      /\ Cardinality(Prior(p, t)) <= FLOOD_LIMIT - 1
      /\ \A x \in p : x.at < b.resetAt
  BY DEF BucketOK
<1>2. /\ c.resetAt = b.resetAt /\ c.count = b.count + 1 /\ c \in [count : Nat \ {0}, resetAt : Nat]
  BY <1>1
<1>3. t \in Int /\ t <= n /\ b.resetAt \in Nat
  BY <1>1, FloodConstants
<1>4. c.resetAt - FLOOD_WINDOW = t
  BY <1>2
<1> HIDE DEF t
<1>5. /\ From(p, t) \in SUBSET p /\ After(p, t) \in SUBSET p
      /\ e \notin From(p, t) /\ e \notin After(p, t)
  BY DEF From, After
<1>6. /\ IsFiniteSet(From(p, t)) /\ Cardinality(From(p, t)) \in Nat
      /\ IsFiniteSet(After(p, t)) /\ Cardinality(After(p, t)) \in Nat
  BY <1>5, Fewer
<1>7. /\ Cardinality(From(p, t) \cup {e}) = Cardinality(From(p, t)) + 1
      /\ Cardinality(After(p, t) \cup {e}) = Cardinality(After(p, t)) + 1
  BY <1>5, <1>6, FS_AddElement
<1>8. BucketOK(p, c, n)
  <2>1. /\ Least(b.count, FLOOD_LIMIT) <= Least(c.count, FLOOD_LIMIT)
        /\ Least(b.count, FLOOD_LIMIT) \in Nat /\ Least(c.count, FLOOD_LIMIT) \in Nat
    BY <1>1, <1>2, FloodConstants DEF Least
  <2>2. /\ Cardinality(From(p, t)) <= Least(c.count, FLOOD_LIMIT)
        /\ Cardinality(After(p, t)) <= Least(c.count, FLOOD_LIMIT) - 1
    BY <1>1, <1>6, <2>1
  <2> QED  BY <1>1, <1>2, <1>4, <2>2 DEF BucketOK
<1>9. ASSUME b.count + 1 <= FLOOD_LIMIT PROVE BucketOK(s, c, n)
  <2>1. From(s, t) = From(p, t) \cup {e} /\ Prior(s, t) = Prior(p, t)
    BY <1>3 DEF From, Prior
  <2>2. After(s, t) = After(p, t) \cup {e} \/ After(s, t) = After(p, t)
    BY <1>3 DEF After
  <2>3. Least(b.count, FLOOD_LIMIT) = b.count /\ Least(c.count, FLOOD_LIMIT) = b.count + 1
    BY <1>1, <1>2, <1>9, FloodConstants DEF Least
  <2>4. Cardinality(From(s, t)) <= Least(c.count, FLOOD_LIMIT)
    <3>1. b.count \in Nat /\ Cardinality(From(p, t)) <= b.count
      BY <1>1, <2>3
    <3>2. Cardinality(From(s, t)) = Cardinality(From(p, t)) + 1
      BY <1>7, <2>1
    <3> QED  BY <1>6, <2>3, <3>1, <3>2
  <2>5. Cardinality(After(s, t)) <= Least(c.count, FLOOD_LIMIT) - 1
    <3>1. b.count \in Nat /\ Cardinality(After(p, t)) <= b.count - 1
      BY <1>1, <2>3
    <3>2. Cardinality(After(s, t)) = Cardinality(After(p, t)) + 1
            \/ Cardinality(After(s, t)) = Cardinality(After(p, t))
      BY <1>7, <2>2
    <3> QED  BY <1>6, <2>3, <3>1, <3>2
  <2>6. Cardinality(Prior(s, t)) <= FLOOD_LIMIT - 1
    BY <1>1, <2>1
  <2>7. \A x \in s : x.at < c.resetAt
    BY <1>1, <1>2, <1>3
  <2> HIDE DEF s
  <2> QED  BY <1>1, <1>2, <1>4, <2>4, <2>5, <2>6, <2>7 DEF BucketOK
<1> QED  BY <1>8, <1>9 DEF s

(* A new bucket begins when what is left of the old one is all before it.   *)
LEMMA FirstOne ==
  ASSUME NEW p, IsFiniteSet(p), NEW n \in Nat, \A x \in p : x.at \in Nat, Spent(p, n),
         NEW e, e.at = n
  PROVE  BucketOK(p \cup {e}, [count |-> 1, resetAt |-> n + FLOOD_WINDOW], n)
<1> DEFINE s == p \cup {e}
           b == [count |-> 1, resetAt |-> n + FLOOD_WINDOW]
<1>1. /\ b \in [count : Nat \ {0}, resetAt : Nat] /\ b.count = 1 /\ b.resetAt = n + FLOOD_WINDOW
      /\ b.resetAt - FLOOD_WINDOW = n /\ FLOOD_WINDOW <= b.resetAt
  BY FloodConstants
<1>2. From(s, n) = {e} /\ After(s, n) = {} /\ Prior(s, n) = p
  BY DEF From, After, Prior, Spent
<1>3. Cardinality({e}) = 1 /\ Cardinality({}) = 0
  BY FS_EmptySet, FS_Singleton
<1>4. Least(1, FLOOD_LIMIT) = 1
  BY FloodConstants DEF Least
<1>5. \A x \in s : x.at < n + FLOOD_WINDOW
  <2>1. ASSUME NEW x \in p PROVE x.at < n + FLOOD_WINDOW
    <3>1. x.at \in Nat /\ x.at < n
      BY DEF Spent
    <3> QED  BY <3>1, FloodConstants
  <2>2. n < n + FLOOD_WINDOW
    BY FloodConstants
  <2> QED  BY <2>1, <2>2
<1>6. Cardinality(p) <= FLOOD_LIMIT - 1
  BY DEF Spent
<1> HIDE DEF s, b
<1>7. /\ Cardinality(From(s, n)) <= Least(b.count, FLOOD_LIMIT)
      /\ Cardinality(After(s, n)) <= Least(b.count, FLOOD_LIMIT) - 1
  BY <1>1, <1>2, <1>3, <1>4
<1>8. /\ Cardinality(Prior(s, n)) <= FLOOD_LIMIT - 1
      /\ b.resetAt <= n + FLOOD_WINDOW /\ \A x \in s : x.at < b.resetAt
  <2>1. n + FLOOD_WINDOW \in Nat
    BY FloodConstants
  <2> QED  BY <1>1, <1>2, <1>5, <1>6, <2>1
<1>9. BucketOK(s, b, n)
  <2>1. /\ Cardinality(From(s, b.resetAt - FLOOD_WINDOW)) <= Least(b.count, FLOOD_LIMIT)
        /\ Cardinality(After(s, b.resetAt - FLOOD_WINDOW)) <= Least(b.count, FLOOD_LIMIT) - 1
        /\ Cardinality(Prior(s, b.resetAt - FLOOD_WINDOW)) <= FLOOD_LIMIT - 1
    BY <1>1, <1>7, <1>8
  <2> QED  BY <1>1, <1>8, <2>1 DEF BucketOK
<1> QED  BY <1>9 DEF s, b

(* A post: its own key by what the limiter does with it, the others        *)
(* unmoved but for buckets that are over.                                  *)
LEMMA PostKeeps ==
  ASSUME FloodInv, NEW m \in Posts, OAuthPost(m)
  PROVE  FloodInv'
<1>1. /\ now' = now /\ now \in Nat /\ left' = [left EXCEPT !.posts = @ - 1] /\ left.posts > 0
      /\ left.posts \in Nat /\ "posts" \in DOMAIN left
  BY DEF OAuthPost, FloodInv
<1>2. /\ "posts" \in DOMAIN left' /\ left'.posts = left.posts - 1 /\ left'.posts \in Nat
      /\ left'.posts <= left.posts
  BY <1>1
<1>3. CASE AuthenticateProxyHeaders(m) = "reject"
  <2>1. buckets' = buckets /\ past' = past
    BY <1>3 DEF OAuthPost
  <2> QED  BY <1>1, <1>2, <2>1, NothingCounted
<1>4. CASE AuthenticateProxyHeaders(m) # "reject"
  <2> DEFINE key == Key(m)
             r == Check(key)
             p == Of(past.posts, key)
  <2>0. PICK e : e = [nth |-> left.posts, client |-> m.client, surface |-> m.surface, at |-> now]
    OBVIOUS
  <2>1. key = <<m.surface, m.client>> /\ key \in Keys
    BY <1>4, KeyOfClient
  <2>2. /\ buckets' = r.buckets
        /\ past' = IF r.ok THEN [past EXCEPT !.posts = @ \cup {e}] ELSE past
    BY <1>4, <2>0 DEF OAuthPost
  <2>3. /\ e.nth = left.posts /\ <<e.surface, e.client>> = key /\ e.at = now
    BY <2>0, <2>1
  <2>4. /\ DOMAIN past = {"granted", "hints", "posts"} /\ IsFiniteSet(past.posts)
        /\ (\A x \in past.posts : PostOK(x)) /\ (\A k \in Keys : KeyOK(k))
        /\ IsFiniteSet(DOMAIN buckets) /\ Cardinality(DOMAIN buckets) <= MAX_KEYS
        /\ DOMAIN buckets \in SUBSET Keys
    BY DEF FloodInv
  <2>5. DOMAIN past' = DOMAIN past /\ past'.posts = IF r.ok THEN past.posts \cup {e} ELSE past.posts
    BY <2>2, <2>4
  <2>6. e \notin past.posts
    BY <1>1, <2>3, <2>4 DEF PostOK
  <2>7. IsFiniteSet(past'.posts) /\ \A x \in past'.posts : PostOK(x)'
    <3>1. ASSUME NEW x \in past.posts PROVE PostOK(x)'
      <4>1. PostOK(x)
        BY <2>4
      <4> QED  BY <1>1, <1>2, <4>1 DEF PostOK
    <3>2. PostOK(e)'
      BY <1>1, <1>2, <2>1, <2>3, FloodConstants DEF PostOK
    <3>3. IsFiniteSet(past.posts \cup {e})
      BY <2>4, FS_AddElement
    <3> HIDE DEF r
    <3>4. CASE r.ok
      BY <2>5, <3>1, <3>2, <3>3, <3>4
    <3>5. CASE ~r.ok
      BY <2>4, <2>5, <3>1, <3>5
    <3> QED  BY <3>4, <3>5
  <2>8. ASSUME NEW k \in Keys, k # key PROVE Of(past'.posts, k) = Of(past.posts, k)
    <3> HIDE DEF r, key
    <3> QED  BY <2>3, <2>5, <2>8 DEF Of
  <2>9. Of(past'.posts, key) = IF r.ok THEN p \cup {e} ELSE p
    <3> HIDE DEF r, key
    <3> QED  BY <2>3, <2>5 DEF Of
  <2>10. /\ IsFiniteSet(p) /\ (\A x \in p : PostOK(x)) /\ e \notin p
    BY <2>6, PostsOf DEF Of
  <2>11. /\ key \in Live(now) =>
              /\ r.ok <=> buckets[key].count + 1 <= FLOOD_LIMIT
              /\ r.buckets = [buckets EXCEPT ![key].count = @ + 1]
         /\ key \notin Live(now) /\ Full(key) => ~r.ok /\ r.buckets = [k \in Live(now) |-> buckets[k]]
         /\ key \notin Live(now) /\ ~Full(key) =>
              r.ok /\ r.buckets = [k \in Live(now) \cup {key} |-> IF k = key THEN Bucket ELSE buckets[k]]
    BY CheckIs
  <2>12. Live(now) \in SUBSET DOMAIN buckets
    BY DEF Live
  <2> HIDE DEF r, key, p
  <2>13. ASSUME NEW k \in Keys, k # key PROVE KeyOK(k)'
    <3>1. Of(past'.posts, k) \in SUBSET Of(past.posts, k) /\ now <= now' /\ now' \in Nat
      BY <1>1, <2>8, <2>13
    <3>2. k \in DOMAIN buckets' => k \in DOMAIN buckets /\ buckets'[k] = buckets[k]
      <4>1. CASE key \in Live(now)
        BY <2>2, <2>11, <2>12, <2>13, <4>1
      <4>2. CASE key \notin Live(now) /\ Full(key)
        BY <2>2, <2>11, <2>12, <4>2
      <4>3. CASE key \notin Live(now) /\ ~Full(key)
        BY <2>2, <2>11, <2>12, <2>13, <4>3
      <4> QED  BY <4>1, <4>2, <4>3
    <3>3. k \in DOMAIN buckets /\ k \notin DOMAIN buckets' => k \notin Live(now)
      BY <2>2, <2>11, <2>12
    <3> QED  BY <3>1, <3>2, <3>3, KeyStays
  <2>14. /\ key \in DOMAIN buckets' => BucketOK(Of(past'.posts, key), buckets'[key], now)
         /\ key \notin DOMAIN buckets' => Spent(Of(past'.posts, key), now)
    <3>1. CASE key \in Live(now)
      <4> DEFINE b == buckets[key]
      <4>1. key \in DOMAIN buckets /\ key \in DOMAIN buckets' /\ b.resetAt > now
        BY <2>2, <2>11, <3>1 DEF Live
      <4>2. BucketOK(p, b, now)
        BY <2>1, <2>4, <4>1 DEF KeyOK, p
      <4>3. buckets'[key] = [b EXCEPT !.count = @ + 1]
        BY <2>2, <2>11, <3>1, <4>1, <4>2 DEF BucketOK
      <4>4. r.ok <=> b.count + 1 <= FLOOD_LIMIT
        BY <2>11, <3>1
      <4> HIDE DEF b
      <4>5. /\ BucketOK(p, buckets'[key], now)
            /\ b.count + 1 <= FLOOD_LIMIT => BucketOK(p \cup {e}, buckets'[key], now)
        BY <1>1, <2>3, <2>10, <4>1, <4>2, <4>3, OneMore
      <4>6. BucketOK(Of(past'.posts, key), buckets'[key], now)
        BY <2>9, <4>4, <4>5
      <4> QED  BY <4>1, <4>6
    <3>2. CASE key \notin Live(now) /\ Full(key)
      <4>1. Spent(p, now)
        BY <2>1, <3>2, NotLive DEF p
      <4>2. key \notin DOMAIN buckets' /\ Of(past'.posts, key) = p
        BY <2>2, <2>9, <2>11, <3>2
      <4> QED  BY <4>1, <4>2
    <3>3. CASE key \notin Live(now) /\ ~Full(key)
      <4>1. Spent(p, now) /\ \A x \in p : x.at \in Nat
        BY <2>1, <2>10, <3>3, NotLive DEF p, PostOK
      <4>2. /\ Of(past'.posts, key) = p \cup {e} /\ key \in DOMAIN buckets'
            /\ buckets'[key] = [count |-> 1, resetAt |-> now + FLOOD_WINDOW]
        BY <2>2, <2>9, <2>11, <3>3 DEF Bucket
      <4>3. BucketOK(p \cup {e}, [count |-> 1, resetAt |-> now + FLOOD_WINDOW], now)
        BY <1>1, <2>3, <2>10, <4>1, FirstOne
      <4>4. BucketOK(Of(past'.posts, key), buckets'[key], now)
        BY <4>2, <4>3
      <4> QED  BY <4>2, <4>4
    <3> QED  BY <3>1, <3>2, <3>3
  <2>15. /\ DOMAIN buckets' \in SUBSET Keys /\ IsFiniteSet(DOMAIN buckets')
         /\ Cardinality(DOMAIN buckets') <= MAX_KEYS
    <3>1. CASE key \in Live(now)
      <4>1. DOMAIN buckets' = DOMAIN buckets
        BY <2>2, <2>11, <3>1
      <4> QED  BY <2>4, <4>1
    <3>2. CASE key \notin Live(now) /\ Full(key)
      <4>1. DOMAIN buckets' = Live(now)
        BY <2>2, <2>11, <3>2
      <4>2. IsFiniteSet(Live(now)) /\ Cardinality(Live(now)) <= Cardinality(DOMAIN buckets)
            /\ Cardinality(Live(now)) \in Nat /\ Cardinality(DOMAIN buckets) \in Nat
        BY <2>4, <2>12, Fewer
      <4> QED  BY <2>4, <2>12, <4>1, <4>2, FloodConstants
    <3>3. CASE key \notin Live(now) /\ ~Full(key)
      <4>1. DOMAIN buckets' = Live(now) \cup {key}
        BY <2>2, <2>11, <3>3
      <4>2. /\ IsFiniteSet(Live(now)) /\ Cardinality(Live(now)) \in Nat
            /\ Cardinality(DOMAIN buckets) \in Nat
        BY <2>4, <2>12, Fewer
      <4>3. /\ IsFiniteSet(Live(now) \cup {key})
            /\ Cardinality(Live(now) \cup {key}) = Cardinality(Live(now)) + 1
        BY <3>3, <4>2, FS_AddElement
      <4>4. CASE key \in DOMAIN buckets
        <5>1. Live(now) \cup {key} \in SUBSET DOMAIN buckets
          BY <2>12, <4>4
        <5>2. Cardinality(Live(now) \cup {key}) <= Cardinality(DOMAIN buckets)
          BY <2>4, <5>1, Fewer
        <5> QED  BY <2>4, <4>1, <4>2, <4>3, <5>1, <5>2, FloodConstants
      <4>5. CASE key \notin DOMAIN buckets
        <5>1. ~(Cardinality(Live(now)) >= MAX_KEYS)
          BY <3>3, <4>5 DEF Full
        <5> QED  BY <2>1, <2>4, <2>12, <4>1, <4>2, <4>3, <5>1, FloodConstants
      <4> QED  BY <4>4, <4>5
    <3> QED  BY <3>1, <3>2, <3>3
  <2>16. ASSUME NEW k \in Keys PROVE KeyOK(k)'
    <3>1. CASE k = key
      <4>1. /\ k \in DOMAIN buckets' => BucketOK(Of(past'.posts, k), buckets'[k], now')
            /\ k \notin DOMAIN buckets' => Spent(Of(past'.posts, k), now')
        BY <1>1, <2>14, <3>1
      <4> QED  BY <4>1 DEF KeyOK, Of, BucketOK, Spent
    <3> QED  BY <2>13, <3>1
  <2> QED  BY <1>1, <1>2, <2>4, <2>5, <2>7, <2>15, <2>16 DEF FloodInv
<1> QED  BY <1>3, <1>4

(* FloodInv survives every step.                                           *)
LEMMA FloodInductive == FloodInv /\ [CallsNext]_callsVars => FloodInv'
<1> SUFFICES ASSUME FloodInv, [CallsNext]_callsVars PROVE FloodInv'
  OBVIOUS
<1>0. /\ "posts" \in DOMAIN left /\ left.posts \in Nat /\ left.posts <= left.posts
      /\ DOMAIN past = {"granted", "hints", "posts"}
  BY DEF FloodInv
<1>1. ASSUME NEW c \in Callers, NEW q \in Requests, CallTool(c, q) PROVE FloodInv'
  <2>1. buckets' = buckets /\ now' = now /\ left' = [left EXCEPT !.calls = @ - 1]
    BY <1>1, Zenon DEF CallTool, Starts
  <2>2. \/ past' = past \/ (\E t, g : past' = [past EXCEPT !.granted[t] = g])
        \/ \E h : past' = [past EXCEPT !.hints = h]
    BY <1>1, Zenon DEF CallTool
  <2>3. past'.posts = past.posts /\ DOMAIN past' = DOMAIN past
    BY <1>0, <2>2
  <2>4. left'.posts = left.posts /\ "posts" \in DOMAIN left'
    BY <1>0, <2>1
  <2> QED  BY <1>0, <2>1, <2>3, <2>4, NothingCounted
<1>2. ASSUME UNCHANGED <<now, buckets, left, past>> PROVE FloodInv'
  BY <1>0, <1>2, NothingCounted
<1>3. ASSUME NEW c \in Callers, Proceeds(c) \/ Return(c) PROVE FloodInv'
  BY <1>2, <1>3 DEF Proceeds, Return, Throws, Ends, Audit
<1>4. ASSUME NEW m \in Posts, OAuthPost(m) PROVE FloodInv'
  BY <1>4, PostKeeps
<1>5. CASE Tick
  BY <1>5, TickKeepsFlood
<1>6. CASE UNCHANGED callsVars
  BY <1>2, <1>6 DEF callsVars
<1> QED  BY <1>1, <1>3, <1>4, <1>5, <1>6 DEF CallsNext

(* At first the table is empty.                                            *)
LEMMA FloodInit == CallsInit => FloodInv
<1> SUFFICES ASSUME CallsInit PROVE FloodInv
  OBVIOUS
<1>1. /\ now = 0 /\ left \in Budgets /\ buckets = << >>
      /\ past = [granted |-> [t \in Tenants |-> {}], hints |-> {}, posts |-> {}]
  BY DEF CallsInit
<1>2. "posts" \in DOMAIN left /\ left.posts \in Nat /\ FLOOD_LIMIT \in Nat \ {0} /\ MAX_KEYS \in Nat
  BY <1>1, CallsAssumption
<1>3. DOMAIN buckets = {} /\ past.posts = {} /\ Cardinality({}) = 0 /\ IsFiniteSet({})
  BY <1>1, FS_EmptySet
<1>4. ASSUME NEW k \in Keys PROVE KeyOK(k)
  <2>1. Of(past.posts, k) = {}
    BY <1>3 DEF Of
  <2>2. k \notin DOMAIN buckets
    BY <1>3
  <2>3. Spent({}, now)
    BY <1>2, <1>3 DEF Spent
  <2> QED  BY <2>1, <2>2, <2>3 DEF KeyOK
<1> QED  BY <1>1, <1>2, <1>3, <1>4 DEF FloodInv

(* What a bucket counts and what was before it are together less than      *)
(* twice the limit.                                                        *)
LEMMA FloodImplies == FloodInv => FloodBounded
<1> SUFFICES ASSUME FloodInv, NEW e \in past.posts
             PROVE  Cardinality({x \in past.posts : x.client = e.client /\ x.surface = e.surface})
                      < 2 * FLOOD_LIMIT
  BY DEF FloodInv, FloodBounded
<1> DEFINE k == <<e.surface, e.client>>
           p == Of(past.posts, k)
<1>1. {x \in past.posts : x.client = e.client /\ x.surface = e.surface} = p
  BY DEF Of
<1>2. k \in Keys /\ KeyOK(k) /\ now \in Nat
  BY DEF FloodInv, PostOK
<1>3. IsFiniteSet(p) /\ \A x \in p : x.at \in Nat
  BY PostsOf DEF PostOK
<1>4. CASE k \notin DOMAIN buckets
  <2>1. Cardinality(p) <= FLOOD_LIMIT - 1 /\ Cardinality(p) \in Nat
    BY <1>2, <1>3, <1>4, FS_CardinalityType DEF KeyOK, Spent
  <2> HIDE DEF p
  <2>2. Cardinality(p) < 2 * FLOOD_LIMIT
    BY <2>1, FloodConstants
  <2> QED  BY <1>1, <2>2
<1>5. CASE k \in DOMAIN buckets
  <2> DEFINE b == buckets[k]
             t == b.resetAt - FLOOD_WINDOW
  <2>1. BucketOK(p, b, now)
    BY <1>2, <1>5 DEF KeyOK
  <2> HIDE DEF p, b, k
  <2>2. /\ Cardinality(From(p, t)) <= Least(b.count, FLOOD_LIMIT) /\ b.count \in Nat
        /\ Cardinality(Prior(p, t)) <= FLOOD_LIMIT - 1 /\ b.resetAt \in Nat
    BY <2>1 DEF BucketOK
  <2>3. t \in Int
    BY <2>2, FloodConstants
  <2> HIDE DEF t
  <2>4. From(p, t) \cup Prior(p, t) = p /\ From(p, t) \cap Prior(p, t) = {}
    BY <1>3, <2>3 DEF From, Prior
  <2>5. /\ IsFiniteSet(From(p, t)) /\ IsFiniteSet(Prior(p, t))
        /\ Cardinality(From(p, t)) \in Nat /\ Cardinality(Prior(p, t)) \in Nat
    BY <1>3, <2>4, Fewer
  <2>6. Cardinality(p) = Cardinality(From(p, t)) + Cardinality(Prior(p, t))
    <3>1. Cardinality(From(p, t) \cup Prior(p, t)) =
            Cardinality(From(p, t)) + Cardinality(Prior(p, t)) - Cardinality(From(p, t) \cap Prior(p, t))
      BY <2>5, FS_Union
    <3>2. Cardinality(From(p, t) \cap Prior(p, t)) = 0
      BY <2>4, FS_EmptySet
    <3> DEFINE a == Cardinality(From(p, t))
               b2 == Cardinality(Prior(p, t))
    <3>3. a \in Nat /\ b2 \in Nat /\ Cardinality(p) = a + b2 - 0
      BY <2>4, <2>5, <3>1, <3>2
    <3> HIDE DEF a, b2
    <3>4. Cardinality(p) = a + b2
      BY <3>3
    <3> QED  BY <3>4 DEF a, b2
  <2>7. Least(b.count, FLOOD_LIMIT) <= FLOOD_LIMIT /\ Least(b.count, FLOOD_LIMIT) \in Nat
    BY <2>2, FloodConstants DEF Least
  <2>8. Cardinality(p) < 2 * FLOOD_LIMIT
    BY <2>2, <2>5, <2>6, <2>7, FloodConstants
  <2> QED  BY <1>1, <2>8
<1> QED  BY <1>4, <1>5

(* No client gets twice the limit through on one surface in any window,    *)
(* and the table stays within its size, for any limits and any requests    *)
(* that PostsAssumption admits: who claims an address without the secret   *)
(* is refused before check counts, and when a bucket is forgotten the      *)
(* first post that it counted has left the window.                         *)
THEOREM FloodHeld == CallsSpec => []FloodBounded
BY FloodInit, FloodInductive, FloodImplies, PTL DEF CallsSpec
=============================================================================
