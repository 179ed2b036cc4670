------------------------------ MODULE Startup ------------------------------
(***************************************************************************)
(* Servers and command line tools that start against one database, at the  *)
(* same time and again after they died: the migrations (core/database,     *)
(* connectme-migrate), the first administrator (core/bootstrap, identity)  *)
(* and connectmectl create-admin, with the audit records they write.       *)
(***************************************************************************)
EXTENDS AuditChain

CONSTANTS
  Servers,              \* the others are command line tools
  Migrating,            \* servers with CONNECTME_DATABASE_MIGRATE_ON_START
  Modules, Versions, Sums,
  Plan,                 \* the migrations embedded in the build of a process
  DefaultAdmin,
  OperatorAccounts,     \* accounts connectmectl is asked to create
  MaxFaults             \* bounds the statements that fail and the crashes

Entries == [module : Modules, version : Versions, sum : Sums]
Accounts == {DefaultAdmin} \cup OperatorAccounts

ASSUME ProcessAssumption == Servers \subseteq Processes /\ Migrating \subseteq Servers
ASSUME PlanAssumption ==
  /\ Plan \in [Processes -> Seq(Entries)]
  /\ \A p \in Processes : Plan[p] # <<>>
ASSUME SumAssumption == None \notin Sums \cup Accounts
ASSUME FaultAssumption == MaxFaults \in Nat

VARIABLES
  rows,        \* core.schema_migrations: the checksum of what was applied
  migrator,    \* the process whose session has the advisory lock, or None
  ensurer,     \* the process whose transaction has the other one, or None
  creator,     \* which process has created an account, None if it is not there
  roles,       \* accounts that are administrators
  pc,
  pos,         \* how far a process is in its plan
  mine,        \* the account a process has created and will make administrator
  granted,     \* whether it has done so
  faults,
  abandoned    \* accounts whose creator died before it made them administrators

db == <<rows, migrator, ensurer, creator, roles>>
run == <<pos, mine, granted>>
vars == <<db, run, pc, faults, abandoned, auditVars>>

Starting == {"lock", "check", "apply", "ensure", "count", "insert", "create",
             "record", "grant"}
accounts == {a \in Accounts : creator[a] # None}

StartTypeOK ==
  /\ rows \in [Modules -> [Versions -> Sums \cup {None}]]
  /\ migrator \in Processes \cup {None}
  /\ ensurer \in Processes \cup {None}
  /\ creator \in [Accounts -> Processes \cup {None}]
  /\ roles \subseteq accounts
  /\ pc \in [Processes -> {"off", "serving"} \cup Starting]
  /\ pos \in [Processes -> Nat]
  /\ \A p \in Processes : pc[p] \in {"lock", "check", "apply"} => pos[p] \in DOMAIN Plan[p]
  /\ mine \in [Processes -> Accounts \cup {None}]
  /\ \A p \in Processes : pc[p] \in {"record", "grant"} => mine[p] \in accounts
  /\ granted \in [Processes -> BOOLEAN]
  /\ faults \in 0..MaxFaults
  /\ abandoned \subseteq accounts \ roles
  /\ \A p \in Processes : at[p] # "out" => pc[p] = "record"

TypeOK == StartTypeOK /\ AuditTypeOK

Init ==
  /\ rows = [m \in Modules |-> [v \in Versions |-> None]]
  /\ migrator = None /\ ensurer = None
  /\ creator = [a \in Accounts |-> None]
  /\ roles = {}
  /\ pc = [p \in Processes |-> "off"]
  /\ pos = [p \in Processes |-> 1]
  /\ mine = [p \in Processes |-> None]
  /\ granted = [p \in Processes |-> FALSE]
  /\ faults = 0
  /\ abandoned = {}
  /\ AuditInit

Goto(p, from, to) == pc[p] = from /\ pc' = [pc EXCEPT ![p] = to]
Entry(p) == Plan[p][pos[p]]
Applied(e) == rows[e.module][e.version]

\* The tables of module m are as the build of p expects them.
Has(p, m) == \A i \in DOMAIN Plan[p] : Plan[p][i].module = m => Applied(Plan[p][i]) # None

Unlock(lock, p) == IF lock = p THEN None ELSE lock

\* A process ends: its connections close, which ends its locks and transactions.
End(p) ==
  /\ pc' = [pc EXCEPT ![p] = "off"]
  /\ migrator' = Unlock(migrator, p)
  /\ ensurer' = Unlock(ensurer, p)
  /\ mine' = [mine EXCEPT ![p] = None]
  /\ granted' = [granted EXCEPT ![p] = FALSE]
  /\ abandoned' = abandoned \cup ({mine[p]} \ (roles \cup {None}))
  /\ Undo(p)
  /\ UNCHANGED <<rows, creator, roles, pos>>

-----------------------------------------------------------------------------
(* Migrations                                                              *)

Launch(p) ==
  /\ p \in Servers
  /\ Goto(p, "off", IF p \in Migrating THEN "lock" ELSE "ensure")
  /\ pos' = [pos EXCEPT ![p] = 1]
  /\ UNCHANGED <<db, mine, granted, faults, abandoned, auditVars>>

\* connectme-migrate or connectmectl is run, the tools of one build.
LaunchTool(p) ==
  /\ p \notin Servers
  /\ Goto(p, "off", "lock") \/ Goto(p, "off", "create")
  /\ pos' = [pos EXCEPT ![p] = 1]
  /\ UNCHANGED <<db, mine, granted, faults, abandoned, auditVars>>

FaultyLock(p) ==  \* no advisory lock
  /\ Goto(p, "lock", "check")
  /\ UNCHANGED <<db, run, faults, abandoned, auditVars>>

\* Migrate is called for one module at a time and holds the lock meanwhile.
Lock(p) ==
  /\ Goto(p, "lock", "check")
  /\ migrator = None /\ migrator' = p
  /\ UNCHANGED <<rows, ensurer, creator, roles, run, faults, abandoned, auditVars>>

LastOfModule(p) ==
  pos[p] = Len(Plan[p]) \/ Plan[p][pos[p] + 1].module # Entry(p).module

FaultyOnwards(p) ==  \* the lock stays with the pooled connection
  /\ pc' = [pc EXCEPT ![p] = IF ~ LastOfModule(p) THEN "check"
                             ELSE IF pos[p] < Len(Plan[p]) THEN "lock"
                             ELSE IF p \in Servers THEN "ensure" ELSE "off"]
  /\ pos' = [pos EXCEPT ![p] = @ + 1]
  /\ UNCHANGED migrator

\* Where a process that has dealt with its entry goes on, and with what lock.
Onwards(p) ==
  /\ pc' = [pc EXCEPT ![p] = IF ~ LastOfModule(p) THEN "check"
                             ELSE IF pos[p] < Len(Plan[p]) THEN "lock"
                             ELSE IF p \in Servers THEN "ensure" ELSE "off"]
  /\ migrator' = IF LastOfModule(p) THEN Unlock(migrator, p) ELSE migrator
  /\ pos' = [pos EXCEPT ![p] = @ + 1]

CheckMissing(p) ==
  /\ Goto(p, "check", "apply")
  /\ Applied(Entry(p)) = None
  /\ UNCHANGED <<db, run, faults, abandoned, auditVars>>

CheckPresent(p) ==
  /\ pc[p] = "check"
  /\ Applied(Entry(p)) = Entry(p).sum
  /\ Onwards(p)
  /\ UNCHANGED <<rows, ensurer, creator, roles, mine, granted, faults, abandoned, auditVars>>

FaultyCheckDivergent(p) ==  \* skips what is there
  /\ pc[p] = "check"
  /\ Applied(Entry(p)) \notin {None, Entry(p).sum}
  /\ Onwards(p)
  /\ UNCHANGED <<rows, ensurer, creator, roles, mine, granted, faults, abandoned, auditVars>>

\* Another build has applied another text under this version.
CheckDivergent(p) ==
  /\ pc[p] = "check"
  /\ Applied(Entry(p)) \notin {None, Entry(p).sum}
  /\ End(p)
  /\ UNCHANGED faults

\* One transaction runs the SQL and inserts the row.
Apply(p) ==
  /\ pc[p] = "apply"
  /\ rows' = [rows EXCEPT ![Entry(p).module][Entry(p).version] = Entry(p).sum]
  /\ Onwards(p)
  /\ UNCHANGED <<ensurer, creator, roles, mine, granted, faults, abandoned, auditVars>>

Migrate(p) == Lock(p) \/ CheckMissing(p) \/ CheckPresent(p) \/ CheckDivergent(p) \/ Apply(p)

-----------------------------------------------------------------------------
(* The first administrator                                                 *)

EnsureLock(p) ==
  /\ Goto(p, "ensure", "count")
  /\ ensurer = None /\ ensurer' = p
  /\ UNCHANGED <<rows, migrator, creator, roles, run, faults, abandoned, auditVars>>

\* There are no tables to count in: the server is ahead of the migrations.
EnsureFails(p) ==
  /\ pc[p] = "count"
  /\ ~ Has(p, "identity")
  /\ End(p)
  /\ UNCHANGED faults

FaultyEnsureCount(p) ==  \* always inserts
  /\ Goto(p, "count", "insert")
  /\ Has(p, "identity")
  /\ UNCHANGED <<db, run, faults, abandoned, auditVars>>

EnsureCount(p) ==
  /\ Goto(p, "count", IF accounts = {} THEN "insert" ELSE "serving")
  /\ Has(p, "identity")
  /\ ensurer' = IF accounts = {} THEN ensurer ELSE Unlock(ensurer, p)
  /\ UNCHANGED <<rows, migrator, creator, roles, run, faults, abandoned, auditVars>>

\* The unique index on the name refuses an account that exists.
Insert(p, a) ==
  /\ a \notin accounts
  /\ creator' = [creator EXCEPT ![a] = p]
  /\ mine' = [mine EXCEPT ![p] = a]
  /\ ensurer' = Unlock(ensurer, p)
  /\ Record(p)
  /\ UNCHANGED <<rows, migrator, roles, pos, granted, faults, abandoned>>

EnsureInsert(p) == Goto(p, "insert", "record") /\ Insert(p, DefaultAdmin)

EnsureRefused(p) ==
  /\ pc[p] = "insert"
  /\ DefaultAdmin \in accounts
  /\ End(p)
  /\ UNCHANGED faults

FaultyRecordCreated(p) ==  \* an error of the audit record would end Build
  /\ pc[p] = "record" /\ at[p] = "out"
  /\ pc' = [pc EXCEPT ![p] = IF p \in Servers THEN "serving" ELSE "off"]
  /\ mine' = [mine EXCEPT ![p] = None]
  /\ granted' = [granted EXCEPT ![p] = FALSE]
  /\ UNCHANGED <<db, pos, faults, abandoned, auditVars>>

\* The transaction of the audit record, while its caller waits.
Recording(p) ==
  /\ ReadHead(p) \/ Write(p)
  /\ UNCHANGED <<db, run, pc, faults, abandoned>>
RecordFails(p) ==
  /\ at[p] # "out" /\ Undo(p)
  /\ faults < MaxFaults /\ faults' = faults + 1
  /\ UNCHANGED <<db, run, pc, abandoned>>

\* Whether the record has failed is of no consequence.
RecordCreated(p) ==
  /\ Goto(p, "record", "grant")
  /\ at[p] = "out" /\ ~ granted[p]
  /\ UNCHANGED <<db, run, faults, abandoned, auditVars>>

RecordGranted(p) ==
  /\ Goto(p, "record", IF p \in Servers THEN "serving" ELSE "off")
  /\ at[p] = "out" /\ granted[p]
  /\ mine' = [mine EXCEPT ![p] = None]
  /\ granted' = [granted EXCEPT ![p] = FALSE]
  /\ UNCHANGED <<db, pos, faults, abandoned, auditVars>>

Grant(p) ==
  /\ Goto(p, "grant", "record")
  /\ Has(p, "authorization")
  /\ roles' = roles \cup {mine[p]}
  /\ granted' = [granted EXCEPT ![p] = TRUE]
  /\ abandoned' = abandoned \ {mine[p]}
  /\ Record(p)
  /\ UNCHANGED <<rows, migrator, ensurer, creator, pos, mine, faults>>

GrantFails(p) ==
  /\ pc[p] = "grant"
  /\ ~ Has(p, "authorization")
  /\ End(p)
  /\ UNCHANGED faults

Ensure(p) ==
  EnsureLock(p) \/ EnsureFails(p) \/ EnsureCount(p) \/ EnsureInsert(p) \/ EnsureRefused(p)
AfterInsert(p) ==
  Recording(p) \/ RecordCreated(p) \/ Grant(p) \/ GrantFails(p) \/ RecordGranted(p)

\* connectmectl create-admin neither migrates nor looks at the lock.
Create(p) ==
  /\ Goto(p, "create", "record")
  /\ Has(p, "identity")
  /\ \E a \in OperatorAccounts : Insert(p, a)

CreateRefused(p) ==
  /\ pc[p] = "create"
  /\ Has(p, "identity") => OperatorAccounts \cap accounts # {}
  /\ End(p)
  /\ UNCHANGED faults

-----------------------------------------------------------------------------

Stop(p) ==
  /\ pc[p] = "serving"
  /\ End(p)
  /\ UNCHANGED faults

\* A statement fails or the operating system ends the process.
Die(p) ==
  /\ pc[p] # "off"
  /\ faults < MaxFaults /\ faults' = faults + 1
  /\ End(p)

Step(p) ==
  Migrate(p) \/ Ensure(p) \/ AfterInsert(p) \/ Create(p) \/ CreateRefused(p)

Next ==
  \E p \in Processes :
    \/ Launch(p) \/ LaunchTool(p)
    \/ Step(p)
    \/ RecordFails(p)
    \/ Stop(p)
    \/ Die(p)

Spec == Init /\ [][Next]_vars

\* Statements end, PostgreSQL serves those who wait for a lock in turn (every
\* other step stays possible until it is taken), and the container of a server is
\* restarted (docker/compose.yaml:19).
Fairness ==
  \A p \in Processes : SF_vars(Step(p) \/ Launch(p))

FairSpec == Spec /\ Fairness

-----------------------------------------------------------------------------

\* Two processes that start at the same time never stumble over each other: who
\* runs a migration finds it missing, and who inserts the default administrator
\* does not find another server's (the locks of migrate.go:52 and service.go:62).
StartsDoNotCollide ==
  \A p \in Processes :
    /\ pc[p] = "apply" => Applied(Entry(p)) = None
    /\ pc[p] = "insert" => creator[DefaultAdmin] \notin Servers

\* A server that migrates serves only with every migration of its build, each of
\* them with the text its build has (Migrate, migrate.go:59-85).
ServedSchema ==
  \A p \in Migrating : pc[p] = "serving" =>
    \A i \in DOMAIN Plan[p] : Applied(Plan[p][i]) = Plan[p][i].sum

\* An account made at the start is an administrator, unless its creator is on its
\* way to that or has died on it (Build, bootstrap.go:76-87; connectmectl).
AdminsExplained ==
  accounts \ roles \subseteq abandoned \cup {mine[p] : p \in Processes}

\* Who waits for a lock that q has.
WaitsFor(p, q) ==
  \/ pc[p] = "lock" /\ migrator = q
  \/ pc[p] = "ensure" /\ ensurer = q
  \/ at[p] = "read" /\ holder = q

\* Whoever is waited for does not wait: a process has one lock at a time, also that of
\* the audit log, which it wants when the administrator is committed, and a process
\* that goes on or ends leaves none behind (migrate.go:52-56, service.go:62-86).
HoldersDoNotWait ==
  \A p, q, r \in Processes : WaitsFor(p, q) => ~ WaitsFor(q, r)

\* Whoever starts comes to an end or serves, although others die with a lock.
StartsEnd == \A p \in Processes : pc[p] \in Starting ~> pc[p] \in {"off", "serving"}

\* A server that migrates serves again and again, whatever dies and whoever else
\* creates accounts, unless another build's text stands in its way.
Refused(p) == \E i \in DOMAIN Plan[p] : Applied(Plan[p][i]) \notin {None, Plan[p][i].sum}
ServersServe == \A p \in Migrating : []<>(pc[p] = "serving" \/ Refused(p))
=============================================================================
