--------------------------- MODULE Startup_proofs ---------------------------
(***************************************************************************)
(* Proofs about AuditChain and Startup, for any number of servers and      *)
(* tools, any migrations in any order, any accounts and any faults.        *)
(***************************************************************************)
EXTENDS Startup, TLAPS

-----------------------------------------------------------------------------
(* The audit log                                                           *)

\* Who is about to write has the head's row, so that what it has read is still there.
HeadLocked == \A p \in Processes : at[p] = "write" => holder = p /\ read[p] = head

\* Hashes are numbered as they are drawn.
HashesCount == \A i \in DOMAIN events : \E p \in Processes : events[i].hash = <<p, i - 1>>

AuditInv == AuditTypeOK /\ HeadLocked /\ HashesCount /\ ChainIntact

LEMMA AuditInitHolds == AuditInit => AuditInv
<1> SUFFICES ASSUME AuditInit PROVE AuditInv
  OBVIOUS
<1>1. AuditTypeOK
  BY NoneAssumption DEF AuditInit, AuditTypeOK
<1>2. HeadLocked /\ HashesCount /\ ChainIntact
  BY DEF AuditInit, HeadLocked, HashesCount, ChainIntact
<1> QED BY <1>1, <1>2 DEF AuditInv

\* The event that is written follows the head, and its hash is like none before.
LEMMA WritePreserves ==
  ASSUME AuditInv, NEW p \in Processes, Write(p)
  PROVE  AuditInv'
<1> DEFINE e == [hash |-> <<p, Len(events)>>, previous |-> read[p]]
<1>1. /\ AuditTypeOK /\ HeadLocked /\ HashesCount /\ ChainIntact
      /\ events' = Append(events, e) /\ head' = <<p, Len(events)>>
      /\ at[p] = "write" /\ at' = [at EXCEPT ![p] = "out"]
      /\ read' = [read EXCEPT ![p] = None]
      /\ holder = p /\ holder' = None /\ read[p] = head
  BY DEF AuditInv, Write, Hash, Unlocked, HeadLocked
<1>2. events \in Seq([hash : Hashes, previous : Hashes \cup {Genesis}])
  BY <1>1 DEF AuditTypeOK
<1>3. Len(events) \in Nat /\ <<p, Len(events)>> \in Hashes
  BY <1>2 DEF Hashes
<1>4. e \in [hash : Hashes, previous : Hashes \cup {Genesis}]
  BY <1>1, <1>3 DEF AuditTypeOK
<1>5. /\ events' \in Seq([hash : Hashes, previous : Hashes \cup {Genesis}])
      /\ DOMAIN events' = 1..(Len(events) + 1)
      /\ Len(events') = Len(events) + 1
      /\ \A i \in 1..Len(events) : events'[i] = events[i]
      /\ events'[Len(events) + 1] = e
      /\ DOMAIN events = 1..Len(events)
  BY <1>1, <1>2, <1>3, <1>4
<1>6. AuditTypeOK'
  BY <1>1, <1>3, <1>5, NoneAssumption DEF AuditTypeOK
<1>7. HeadLocked'
  BY <1>1 DEF HeadLocked, AuditTypeOK
<1>8. HashesCount'
  BY <1>1, <1>3, <1>5 DEF HashesCount
<1>9. ChainIntact'
  <2>1. \A i, j \in DOMAIN events' : events'[i].hash = events'[j].hash => i = j
    <3> SUFFICES ASSUME NEW i \in DOMAIN events', NEW j \in DOMAIN events',
                        events'[i].hash = events'[j].hash
                 PROVE  i = j
      OBVIOUS
    <3>1. PICK q \in Processes : events'[i].hash = <<q, i - 1>>
      BY <1>8 DEF HashesCount
    <3>2. PICK s \in Processes : events'[j].hash = <<s, j - 1>>
      BY <1>8 DEF HashesCount
    <3>3. <<q, i - 1>> = <<s, j - 1>>
      BY <3>1, <3>2
    <3>4. i - 1 = j - 1
      BY ONLY <3>3
    <3> QED BY <1>3, <1>5, <3>4
  <2>2. \A i \in DOMAIN events' :
          events'[i].previous = IF i = 1 THEN Genesis ELSE events'[i - 1].hash
    <3>1. CASE events = <<>>
      BY <1>1, <1>5, <3>1 DEF ChainIntact
    <3>2. CASE events # <<>>
      <4>1. head = events[Len(events)].hash /\ Len(events) >= 1
        BY <1>1, <1>2, <3>2 DEF ChainIntact
      <4>2. events'[Len(events) + 1].previous = events'[Len(events)].hash
        BY <1>1, <1>3, <1>5, <4>1
      <4>3. \A i \in 1..Len(events) :
              events'[i].previous = IF i = 1 THEN Genesis ELSE events'[i - 1].hash
        <5> SUFFICES ASSUME NEW i \in 1..Len(events)
                     PROVE  events'[i].previous = IF i = 1 THEN Genesis ELSE events'[i - 1].hash
          OBVIOUS
        <5>1. events[i].previous = IF i = 1 THEN Genesis ELSE events[i - 1].hash
          BY <1>1, <1>5 DEF ChainIntact
        <5>2. events'[i] = events[i] /\ (i # 1 => events'[i - 1] = events[i - 1])
          BY <1>3, <1>5
        <5> QED BY <5>1, <5>2
      <4> QED BY <1>3, <1>5, <4>1, <4>2, <4>3
    <3> QED BY <3>1, <3>2
  <2>3. head' = IF events' = <<>> THEN Genesis ELSE events'[Len(events')].hash
    BY <1>1, <1>3, <1>5
  <2> QED BY <2>1, <2>2, <2>3 DEF ChainIntact
<1> QED BY <1>6, <1>7, <1>8, <1>9 DEF AuditInv

LEMMA AuditStepPreserves == AuditInv /\ [AuditNext]_auditVars => AuditInv'
<1> SUFFICES ASSUME AuditInv, [AuditNext]_auditVars PROVE AuditInv'
  OBVIOUS
<1>1. CASE UNCHANGED auditVars
  BY <1>1 DEF auditVars, AuditInv, AuditTypeOK, HeadLocked, HashesCount, ChainIntact
<1>2. ASSUME NEW p \in Processes, Record(p) \/ ReadHead(p) \/ Undo(p)
      PROVE  AuditInv'
  <2>1. events' = events /\ head' = head
    BY <1>2 DEF Record, ReadHead, Undo
  <2>2. HashesCount' /\ ChainIntact'
    BY <2>1 DEF AuditInv, HashesCount, ChainIntact
  <2>3. AuditTypeOK'
    BY <1>2, <2>1, NoneAssumption
       DEF AuditInv, AuditTypeOK, Record, ReadHead, Undo, Unlocked
  <2>4. HeadLocked'
    BY <1>2, <2>1, NoneAssumption
       DEF AuditInv, AuditTypeOK, HeadLocked, Record, ReadHead, Undo, Unlocked
  <2> QED BY <2>2, <2>3, <2>4 DEF AuditInv
<1> QED BY <1>1, <1>2, WritePreserves DEF AuditNext

\* However many processes record at the same time, the log is one chain.
THEOREM AuditChainHolds == AuditSpec => []ChainIntact
<1>1. AuditInv => ChainIntact
  BY DEF AuditInv
<1> QED BY AuditInitHolds, AuditStepPreserves, <1>1, PTL DEF AuditSpec

-----------------------------------------------------------------------------
(* The start of servers and tools                                          *)

\* Who has the locks, and who is a server.
Locks ==
  \A p \in Processes :
    /\ pc[p] \in {"check", "apply"} => migrator = p
    /\ pc[p] \in {"count", "insert"} => ensurer = p
    /\ pc[p] \in {"ensure", "count", "insert", "serving"} => p \in Servers
    /\ pc[p] = "create" => p \notin Servers

\* The account a process is about, until it has been made administrator and that
\* is recorded.
MineKnown ==
  \A p \in Processes :
    /\ mine[p] # None <=> pc[p] \in {"record", "grant"}
    /\ granted[p] => pc[p] = "record" /\ mine[p] \in roles

\* How far a server that migrates has come: all of its plan, once it looks for users.
Reached(p) ==
  IF pc[p] \in {"lock", "check", "apply"} THEN 1..(pos[p] - 1)
  ELSE IF pc[p] = "off" THEN {} ELSE DOMAIN Plan[p]
Migrated ==
  \A p \in Migrating : \A i \in Reached(p) \cap DOMAIN Plan[p] : Applied(Plan[p][i]) = Plan[p][i].sum

StartInv == /\ StartTypeOK /\ Locks /\ MineKnown /\ Migrated
            /\ StartsDoNotCollide /\ AdminsExplained
IInv == StartInv /\ AuditInv

\* Every step of a start is one of the audit log, or leaves it alone.
LEMMA StepRecords == [Next]_vars => [AuditNext]_auditVars
<1> SUFFICES ASSUME [Next]_vars PROVE [AuditNext]_auditVars
  OBVIOUS
<1>1. CASE UNCHANGED vars
  BY <1>1 DEF vars
<1>2. ASSUME NEW p \in Processes,
             Launch(p) \/ LaunchTool(p) \/ Step(p) \/ RecordFails(p) \/ Stop(p) \/ Die(p)
      PROVE  [AuditNext]_auditVars
  <2>1. CASE Launch(p) \/ LaunchTool(p) \/ Lock(p) \/ CheckMissing(p) \/ CheckPresent(p) \/ Apply(p)
    BY <2>1 DEF Launch, LaunchTool, Lock, CheckMissing, CheckPresent, Apply
  <2>2. CASE CheckDivergent(p) \/ EnsureFails(p) \/ EnsureRefused(p) \/ GrantFails(p)
             \/ CreateRefused(p) \/ Stop(p) \/ Die(p)
    BY <2>2 DEF CheckDivergent, EnsureFails, EnsureRefused, GrantFails, CreateRefused, Stop, Die,
                End, AuditNext
  <2>3. CASE EnsureLock(p) \/ EnsureCount(p) \/ RecordCreated(p) \/ RecordGranted(p)
    BY <2>3 DEF EnsureLock, EnsureCount, RecordCreated, RecordGranted
  <2>4. CASE EnsureInsert(p) \/ Create(p) \/ Grant(p)
    BY <2>4 DEF EnsureInsert, Create, Insert, Grant, AuditNext
  <2>5. CASE Recording(p) \/ RecordFails(p)
    BY <2>5 DEF Recording, RecordFails, AuditNext
  <2> QED BY <1>2, <2>1, <2>2, <2>3, <2>4, <2>5 DEF Step, Migrate, Ensure, AfterInsert
<1> QED BY <1>1, <1>2 DEF Next

LEMMA StepKeepsAudit == IInv /\ [Next]_vars => AuditInv'
BY StepRecords, AuditStepPreserves DEF IInv

LEMMA InitHolds == Init => IInv
<1> SUFFICES ASSUME Init PROVE IInv
  OBVIOUS
<1>1. AuditInv
  BY AuditInitHolds DEF Init
<1>2. StartTypeOK
  BY FaultAssumption DEF Init, AuditInit, StartTypeOK, accounts, Starting
<1>3. Locks /\ MineKnown /\ StartsDoNotCollide
  BY DEF Init, Locks, MineKnown, StartsDoNotCollide
<1>4. Migrated
  BY ProcessAssumption DEF Init, Migrated, Reached
<1>5. AdminsExplained
  BY DEF Init, AdminsExplained, accounts
<1> QED BY <1>1, <1>2, <1>3, <1>4, <1>5 DEF IInv, StartInv

\* A process ends: what it had is free, and what it leaves behind is explained.
LEMMA EndPreserves ==
  ASSUME IInv, NEW p \in Processes, End(p), faults' \in 0..MaxFaults
  PROVE  StartInv'
<1>1. /\ pc' = [pc EXCEPT ![p] = "off"]
      /\ migrator' = (IF migrator = p THEN None ELSE migrator)
      /\ ensurer' = (IF ensurer = p THEN None ELSE ensurer)
      /\ mine' = [mine EXCEPT ![p] = None]
      /\ granted' = [granted EXCEPT ![p] = FALSE]
      /\ abandoned' = abandoned \cup ({mine[p]} \ (roles \cup {None}))
      /\ at' = [at EXCEPT ![p] = "out"]
      /\ UNCHANGED <<rows, creator, roles, pos>>
  BY DEF End, Undo, Unlock
<1>2. /\ StartTypeOK /\ Locks /\ MineKnown /\ Migrated /\ StartsDoNotCollide /\ AdminsExplained
      /\ at \in [Processes -> {"out", "read", "write"}]
  BY DEF IInv, StartInv, AuditInv, AuditTypeOK
<1>3. accounts' = accounts
  BY <1>1 DEF accounts
<1>4. StartTypeOK'
  <2>1. abandoned' \subseteq accounts' \ roles'
    BY <1>1, <1>2, <1>3 DEF StartTypeOK, MineKnown
  <2> QED BY <1>1, <1>2, <1>3, <2>1 DEF StartTypeOK
<1>5. Locks' /\ MineKnown' /\ StartsDoNotCollide'
  BY <1>1, <1>2 DEF StartTypeOK, Locks, MineKnown, StartsDoNotCollide, Applied, Entry
<1>6. Migrated'
  BY <1>1, <1>2, ProcessAssumption DEF StartTypeOK, Migrated, Reached, Applied
<1>7. AdminsExplained'
  BY <1>1, <1>2, <1>3 DEF StartTypeOK, MineKnown, AdminsExplained
<1> QED BY <1>4, <1>5, <1>6, <1>7 DEF StartInv

LEMMA EndingPreserves ==
  ASSUME IInv, NEW p \in Processes,
         CheckDivergent(p) \/ EnsureFails(p) \/ EnsureRefused(p) \/ GrantFails(p)
         \/ CreateRefused(p) \/ Stop(p) \/ Die(p)
  PROVE  StartInv'
<1>1. End(p)
  BY DEF CheckDivergent, EnsureFails, EnsureRefused, GrantFails, CreateRefused, Stop, Die
<1>2. faults' = faults \/ (faults < MaxFaults /\ faults' = faults + 1)
  BY DEF CheckDivergent, EnsureFails, EnsureRefused, GrantFails, CreateRefused, Stop, Die
<1>3. faults' \in 0..MaxFaults
  BY <1>2, FaultAssumption DEF IInv, StartInv, StartTypeOK
<1> QED BY <1>1, <1>3, EndPreserves

LEMMA LaunchPreserves ==
  ASSUME IInv, NEW p \in Processes, Launch(p) \/ LaunchTool(p)
  PROVE  StartInv'
<1>1. PICK to \in {"lock", "ensure", "create"} :
        /\ pc[p] = "off" /\ pc' = [pc EXCEPT ![p] = to]
        /\ to = "ensure" => p \in Servers \ Migrating
        /\ to = "create" => p \notin Servers
  BY DEF Launch, LaunchTool, Goto
<1>2. /\ pos' = [pos EXCEPT ![p] = 1]
      /\ UNCHANGED <<db, mine, granted, faults, abandoned, auditVars>>
  BY DEF Launch, LaunchTool
<1>3. /\ StartTypeOK /\ Locks /\ MineKnown /\ Migrated /\ StartsDoNotCollide /\ AdminsExplained
      /\ Plan[p] \in Seq(Entries) /\ Plan[p] # <<>>
  BY PlanAssumption DEF IInv, StartInv
<1>4. 1 \in DOMAIN Plan[p]
  BY <1>3
<1>5. StartTypeOK'
  BY <1>1, <1>2, <1>3, <1>4 DEF StartTypeOK, Starting, accounts, db, auditVars
<1>6. Locks' /\ MineKnown' /\ StartsDoNotCollide'
  BY <1>1, <1>2, <1>3
     DEF StartTypeOK, Locks, MineKnown, StartsDoNotCollide, Applied, Entry, db
<1>7. Migrated'
  BY <1>1, <1>2, <1>3, ProcessAssumption DEF StartTypeOK, Migrated, Reached, Applied, db
<1>8. AdminsExplained'
  BY <1>2, <1>3 DEF AdminsExplained, accounts, db
<1> QED BY <1>5, <1>6, <1>7, <1>8 DEF StartInv

\* Steps that take a lock and change nothing else.
LEMMA LockPreserves ==
  ASSUME IInv, NEW p \in Processes, Lock(p) \/ EnsureLock(p)
  PROVE  StartInv'
<1>1. /\ StartTypeOK /\ Locks /\ MineKnown /\ Migrated /\ StartsDoNotCollide /\ AdminsExplained
  BY DEF IInv, StartInv
<1>2. UNCHANGED <<rows, creator, roles, run, faults, abandoned, auditVars>>
  BY DEF Lock, EnsureLock
<1>3. \/ Goto(p, "lock", "check") /\ migrator = None /\ migrator' = p /\ ensurer' = ensurer
      \/ Goto(p, "ensure", "count") /\ ensurer = None /\ ensurer' = p /\ migrator' = migrator
  BY DEF Lock, EnsureLock
<1>4. StartTypeOK'
  BY <1>1, <1>2, <1>3 DEF StartTypeOK, Goto, Starting, accounts, run, auditVars
<1>5. Locks'
  BY <1>1, <1>3, NoneAssumption DEF StartTypeOK, Locks, Goto
<1>6. MineKnown' /\ StartsDoNotCollide'
  BY <1>1, <1>2, <1>3
     DEF StartTypeOK, MineKnown, StartsDoNotCollide, Goto, run, Applied, Entry
<1>7. Migrated'
  BY <1>1, <1>2, <1>3, ProcessAssumption
     DEF StartTypeOK, Migrated, Reached, Goto, run, Applied
<1>8. AdminsExplained'
  BY <1>1, <1>2 DEF AdminsExplained, accounts, run
<1> QED BY <1>4, <1>5, <1>6, <1>7, <1>8 DEF StartInv

LEMMA CheckMissingPreserves ==
  ASSUME IInv, NEW p \in Processes, CheckMissing(p)
  PROVE  StartInv'
<1>1. /\ StartTypeOK /\ Locks /\ MineKnown /\ Migrated /\ StartsDoNotCollide /\ AdminsExplained
  BY DEF IInv, StartInv
<1>2. /\ pc[p] = "check" /\ pc' = [pc EXCEPT ![p] = "apply"] /\ Applied(Entry(p)) = None
      /\ UNCHANGED <<db, run, faults, abandoned, auditVars>>
  BY DEF CheckMissing, Goto
<1>3. StartTypeOK'
  BY <1>1, <1>2 DEF StartTypeOK, Starting, accounts, db, run, auditVars
<1>4. Locks' /\ MineKnown' /\ StartsDoNotCollide'
  BY <1>1, <1>2
     DEF StartTypeOK, Locks, MineKnown, StartsDoNotCollide, Applied, Entry, db, run
<1>5. Migrated'
  BY <1>1, <1>2, ProcessAssumption DEF StartTypeOK, Migrated, Reached, Applied, db, run
<1>6. AdminsExplained'
  BY <1>1, <1>2 DEF AdminsExplained, accounts, db, run
<1> QED BY <1>3, <1>4, <1>5, <1>6 DEF StartInv

\* What is applied stays as it is, and the entry of the plan is applied.
LEMMA EntryApplied ==
  ASSUME IInv, NEW p \in Processes, CheckPresent(p) \/ Apply(p)
  PROVE  \E e \in Entries :
           /\ pos[p] \in DOMAIN Plan[p] /\ e = Plan[p][pos[p]]
           /\ rows' \in [Modules -> [Versions -> Sums \cup {None}]]
           /\ rows'[e.module][e.version] = e.sum
           /\ \A m \in Modules, v \in Versions : rows[m][v] # None => rows'[m][v] = rows[m][v]
<1>1. /\ StartTypeOK /\ StartsDoNotCollide
      /\ pc[p] \in {"check", "apply"}
  BY DEF IInv, StartInv, CheckPresent, Apply
<1> DEFINE e == Plan[p][pos[p]]
<1>2. pos[p] \in DOMAIN Plan[p] /\ Plan[p] \in Seq(Entries)
  BY <1>1, PlanAssumption DEF StartTypeOK
<1>3. e \in Entries
  BY <1>2
<1>4. e.module \in Modules /\ e.version \in Versions /\ e.sum \in Sums
  BY <1>3 DEF Entries
<1>5. CASE CheckPresent(p)
  BY <1>1, <1>2, <1>3, <1>4, <1>5 DEF CheckPresent, Applied, Entry, StartTypeOK
<1>6. CASE Apply(p)
  <2>1. rows[e.module][e.version] = None
    BY <1>1, <1>6 DEF Apply, StartsDoNotCollide, Applied, Entry
  <2>2. rows' = [rows EXCEPT ![e.module][e.version] = e.sum]
    BY <1>6 DEF Apply, Entry
  <2> QED BY <1>1, <1>2, <1>3, <1>4, <2>1, <2>2 DEF StartTypeOK
<1> QED BY <1>5, <1>6

LEMMA ForwardPreserves ==
  ASSUME IInv, NEW p \in Processes, CheckPresent(p) \/ Apply(p)
  PROVE  StartInv'
<1>1. /\ StartTypeOK /\ Locks /\ MineKnown /\ Migrated /\ StartsDoNotCollide /\ AdminsExplained
      /\ Plan \in [Processes -> Seq(Entries)]
  BY PlanAssumption DEF IInv, StartInv
<1>2. PICK e \in Entries :
        /\ pos[p] \in DOMAIN Plan[p] /\ e = Plan[p][pos[p]]
        /\ rows' \in [Modules -> [Versions -> Sums \cup {None}]]
        /\ rows'[e.module][e.version] = e.sum
        /\ \A m \in Modules, v \in Versions : rows[m][v] # None => rows'[m][v] = rows[m][v]
  BY EntryApplied
<1>3. /\ UNCHANGED <<ensurer, creator, roles, mine, granted, faults, abandoned, auditVars>>
      /\ pc[p] \in {"check", "apply"} /\ migrator = p
      /\ pos' = [pos EXCEPT ![p] = pos[p] + 1]
  BY <1>1 DEF CheckPresent, Apply, Onwards, Locks
<1>4. PICK to \in {"check", "lock", "ensure", "off"} :
        /\ pc' = [pc EXCEPT ![p] = to]
        /\ to \in {"check", "lock"} => pos[p] # Len(Plan[p])
        /\ to = "ensure" => p \in Servers /\ ~ (pos[p] < Len(Plan[p]))
        /\ migrator' \in {p, None} /\ (to = "check" => migrator' = p)
  BY <1>3 DEF CheckPresent, Apply, Onwards, LastOfModule, Unlock
<1>5. /\ Len(Plan[p]) \in Nat /\ DOMAIN Plan[p] = 1..Len(Plan[p]) /\ pos[p] \in Nat
      /\ to \in {"check", "lock"} => pos[p] + 1 \in DOMAIN Plan[p]
  BY <1>1, <1>2, <1>4 DEF StartTypeOK
<1>6. StartTypeOK'
  <2>1. /\ pos' \in [Processes -> Nat] /\ migrator' \in Processes \cup {None}
        /\ pc' \in [Processes -> {"off", "serving"} \cup Starting]
    BY <1>1, <1>3, <1>4, <1>5 DEF StartTypeOK, Starting
  <2>2. \A q \in Processes : pc'[q] \in {"lock", "check", "apply"} => pos'[q] \in DOMAIN Plan[q]
    BY <1>1, <1>3, <1>4, <1>5 DEF StartTypeOK
  <2>3. \A q \in Processes : /\ pc'[q] \in {"record", "grant"} => mine'[q] \in accounts'
                             /\ at'[q] # "out" => pc'[q] = "record"
    BY <1>1, <1>3, <1>4 DEF StartTypeOK, accounts, auditVars
  <2> QED BY <1>1, <1>2, <1>3, <2>1, <2>2, <2>3 DEF StartTypeOK, accounts
<1>7. Locks' /\ MineKnown'
  BY <1>1, <1>3, <1>4 DEF StartTypeOK, Locks, MineKnown
<1>8. StartsDoNotCollide'
  BY <1>1, <1>3, <1>4 DEF StartTypeOK, StartsDoNotCollide, Locks
<1>9. Migrated'
  <2> SUFFICES ASSUME NEW q \in Migrating, NEW i \in Reached(q)' \cap DOMAIN Plan[q]
               PROVE  rows'[Plan[q][i].module][Plan[q][i].version] = Plan[q][i].sum
    BY DEF Migrated, Applied
  <2>1. q \in Processes /\ Plan[q] \in Seq(Entries) /\ Plan[q][i] \in Entries
    BY <1>1, ProcessAssumption
  <2>2. Plan[q][i].module \in Modules /\ Plan[q][i].version \in Versions /\ Plan[q][i].sum \in Sums
    BY <2>1 DEF Entries
  <2>3. CASE i \in Reached(q)
    <3>1. rows[Plan[q][i].module][Plan[q][i].version] = Plan[q][i].sum
      BY <1>1, <2>3 DEF Migrated, Applied
    <3> QED BY <1>2, <2>2, <3>1, SumAssumption
  <2>4. CASE i \notin Reached(q)
    <3>1. q = p
      BY <1>1, <1>3, <1>4, <2>1, <2>4 DEF Reached, StartTypeOK
    <3>2. i = pos[p]
      BY <1>1, <1>3, <1>4, <1>5, <2>4, <3>1 DEF Reached, StartTypeOK
    <3> QED BY <1>2, <3>1, <3>2
  <2> QED BY <2>3, <2>4
<1>10. AdminsExplained'
  BY <1>1, <1>3 DEF AdminsExplained, accounts
<1> QED BY <1>6, <1>7, <1>8, <1>9, <1>10 DEF StartInv

\* Who finds no account inserts one, and only tools insert any besides.
LEMMA EnsureCountPreserves ==
  ASSUME IInv, NEW p \in Processes, EnsureCount(p)
  PROVE  StartInv'
<1>1. /\ StartTypeOK /\ Locks /\ MineKnown /\ Migrated /\ StartsDoNotCollide /\ AdminsExplained
  BY DEF IInv, StartInv
<1>2. PICK to \in {"insert", "serving"} :
        /\ pc[p] = "count" /\ pc' = [pc EXCEPT ![p] = to]
        /\ to = "insert" => accounts = {} /\ ensurer' = ensurer
        /\ ensurer' \in {ensurer, None}
        /\ ensurer # p => ensurer' = ensurer
  BY DEF EnsureCount, Goto, Unlock
<1>3. UNCHANGED <<rows, migrator, creator, roles, run, faults, abandoned, auditVars>>
  BY DEF EnsureCount
<1>4. StartTypeOK'
  BY <1>1, <1>2, <1>3 DEF StartTypeOK, Starting, accounts, run, auditVars
<1>5. Locks' /\ MineKnown'
  BY <1>1, <1>2, <1>3 DEF StartTypeOK, Locks, MineKnown, run
<1>6. StartsDoNotCollide'
  <2>1. to = "insert" => creator[DefaultAdmin] = None /\ None \notin Servers
    BY <1>2, NoneAssumption, ProcessAssumption DEF accounts, Accounts
  <2> QED BY <1>1, <1>2, <1>3, <2>1 DEF StartTypeOK, StartsDoNotCollide, Applied, Entry, run
<1>7. Migrated'
  BY <1>1, <1>2, <1>3, ProcessAssumption DEF StartTypeOK, Migrated, Reached, Applied, run
<1>8. AdminsExplained'
  BY <1>1, <1>3 DEF AdminsExplained, accounts, run
<1> QED BY <1>4, <1>5, <1>6, <1>7, <1>8 DEF StartInv

\* A new account is its creator's, who had none.
LEMMA InsertPreserves ==
  ASSUME IInv, NEW p \in Processes, EnsureInsert(p) \/ Create(p)
  PROVE  StartInv'
<1>1. /\ StartTypeOK /\ Locks /\ MineKnown /\ Migrated /\ StartsDoNotCollide /\ AdminsExplained
      /\ at \in [Processes -> {"out", "read", "write"}]
  BY DEF IInv, StartInv, AuditInv, AuditTypeOK
<1>2. PICK a \in Accounts : Insert(p, a)
  BY DEF EnsureInsert, Create, Accounts
<1>3. /\ a \notin accounts /\ creator' = [creator EXCEPT ![a] = p]
      /\ mine' = [mine EXCEPT ![p] = a]
      /\ ensurer' = (IF ensurer = p THEN None ELSE ensurer)
      /\ at' = [at EXCEPT ![p] = "read"]
      /\ UNCHANGED <<rows, migrator, roles, pos, granted, faults, abandoned>>
  BY <1>2 DEF Insert, Record, Unlock
<1>4. /\ pc[p] \in {"insert", "create"} /\ pc' = [pc EXCEPT ![p] = "record"]
      /\ a # None /\ p # None
  BY NoneAssumption, SumAssumption DEF EnsureInsert, Create, Goto
<1>5. accounts' = accounts \cup {a}
  BY <1>1, <1>3, <1>4 DEF StartTypeOK, accounts
<1>6. StartTypeOK'
  BY <1>1, <1>3, <1>4, <1>5 DEF StartTypeOK, Starting
<1>7. Locks' /\ MineKnown'
  BY <1>1, <1>3, <1>4 DEF StartTypeOK, Locks, MineKnown
<1>8. StartsDoNotCollide'
  <2> SUFFICES ASSUME NEW q \in Processes
               PROVE  /\ pc'[q] = "apply" => Applied(Entry(q))' = None
                      /\ pc'[q] = "insert" => creator'[DefaultAdmin] \notin Servers
    BY DEF StartsDoNotCollide
  <2>1. pc'[q] = "apply" => Applied(Entry(q))' = None
    BY <1>1, <1>3, <1>4 DEF StartTypeOK, StartsDoNotCollide, Applied, Entry
  <2>2. pc'[q] = "insert" => p \notin Servers /\ creator[DefaultAdmin] \notin Servers
    BY <1>1, <1>4 DEF StartTypeOK, StartsDoNotCollide, Locks
  <2> QED BY <1>1, <1>3, <2>1, <2>2 DEF StartTypeOK
<1>9. Migrated'
  BY <1>1, <1>3, <1>4, ProcessAssumption DEF StartTypeOK, Locks, Migrated, Reached, Applied
<1>10. AdminsExplained'
  <2>1. mine[p] = None
    BY <1>1, <1>4 DEF MineKnown
  <2> SUFFICES ASSUME NEW b \in accounts' \ roles'
               PROVE  b \in abandoned' \/ \E q \in Processes : mine'[q] = b
    BY DEF AdminsExplained
  <2>2. CASE b = a
    BY <1>1, <1>3, <2>2 DEF StartTypeOK
  <2>3. CASE b # a
    <3>1. b \in accounts \ roles /\ b # None
      BY <1>3, <1>5, <2>3, SumAssumption DEF accounts
    <3>2. CASE b \in abandoned
      BY <1>3, <3>2
    <3>3. ASSUME NEW q \in Processes, mine[q] = b
          PROVE  mine'[q] = b
      BY <1>1, <1>3, <2>1, <3>1, <3>3 DEF StartTypeOK
    <3> QED BY <1>1, <3>1, <3>2, <3>3 DEF AdminsExplained
  <2> QED BY <2>2, <2>3
<1> QED BY <1>6, <1>7, <1>8, <1>9, <1>10 DEF StartInv

\* The statements of a record, and its failure, concern the log only.
LEMMA RecordingPreserves ==
  ASSUME IInv, NEW p \in Processes, Recording(p) \/ RecordFails(p)
  PROVE  StartInv'
<1>1. /\ StartTypeOK /\ Locks /\ MineKnown /\ Migrated /\ StartsDoNotCollide /\ AdminsExplained
      /\ at \in [Processes -> {"out", "read", "write"}]
  BY DEF IInv, StartInv, AuditInv, AuditTypeOK
<1>2. /\ at[p] # "out" /\ \E to \in {"read", "write", "out"} : at' = [at EXCEPT ![p] = to]
      /\ UNCHANGED <<db, run, pc, abandoned>>
  BY DEF Recording, RecordFails, ReadHead, Write, Undo
<1>3. faults' \in 0..MaxFaults
  BY <1>1, FaultAssumption DEF Recording, RecordFails, StartTypeOK
<1>4. StartTypeOK'
  BY <1>1, <1>2, <1>3 DEF StartTypeOK, accounts, db, run
<1>5. Locks' /\ MineKnown' /\ StartsDoNotCollide'
  BY <1>1, <1>2 DEF Locks, MineKnown, StartsDoNotCollide, Applied, Entry, db, run
<1>6. Migrated' /\ AdminsExplained'
  BY <1>1, <1>2 DEF Migrated, Reached, Applied, AdminsExplained, accounts, db, run
<1> QED BY <1>4, <1>5, <1>6 DEF StartInv

\* Between the records the account becomes an administrator.
LEMMA RecordedPreserves ==
  ASSUME IInv, NEW p \in Processes, RecordCreated(p) \/ RecordGranted(p)
  PROVE  StartInv'
<1>1. /\ StartTypeOK /\ Locks /\ MineKnown /\ Migrated /\ StartsDoNotCollide /\ AdminsExplained
  BY DEF IInv, StartInv
<1>2. /\ pc[p] = "record" /\ at[p] = "out"
      /\ UNCHANGED <<db, pos, faults, abandoned, auditVars>>
  BY DEF RecordCreated, RecordGranted, Goto, run
<1>3. \/ /\ pc' = [pc EXCEPT ![p] = "grant"] /\ ~ granted[p]
         /\ UNCHANGED <<mine, granted>>
      \/ /\ pc' = [pc EXCEPT ![p] = IF p \in Servers THEN "serving" ELSE "off"]
         /\ mine' = [mine EXCEPT ![p] = None] /\ granted' = [granted EXCEPT ![p] = FALSE]
         /\ mine[p] \in roles
  BY <1>1 DEF RecordCreated, RecordGranted, Goto, run, MineKnown
<1>4. StartTypeOK'
  <2>1. /\ pc' \in [Processes -> {"off", "serving"} \cup Starting]
        /\ mine' \in [Processes -> Accounts \cup {None}]
        /\ granted' \in [Processes -> BOOLEAN]
    BY <1>1, <1>3 DEF StartTypeOK, Starting
  <2>2. \A q \in Processes :
          /\ pc'[q] \in {"lock", "check", "apply"} => pos'[q] \in DOMAIN Plan[q]
          /\ pc'[q] \in {"record", "grant"} => mine'[q] \in accounts'
          /\ at'[q] # "out" => pc'[q] = "record"
    BY <1>1, <1>2, <1>3 DEF StartTypeOK, accounts, db, auditVars
  <2>3. /\ accounts' = accounts
        /\ UNCHANGED <<rows, migrator, ensurer, creator, roles, pos, faults, abandoned>>
    BY <1>2 DEF accounts, db
  <2> QED BY <1>1, <2>1, <2>2, <2>3 DEF StartTypeOK
<1>5. Locks'
  BY <1>1, <1>2, <1>3 DEF StartTypeOK, Locks, db
<1>6. MineKnown'
  BY <1>1, <1>2, <1>3 DEF StartTypeOK, MineKnown, db
<1>7. StartsDoNotCollide'
  BY <1>1, <1>2, <1>3 DEF StartTypeOK, StartsDoNotCollide, Applied, Entry, db
<1>8. Migrated'
  BY <1>1, <1>2, <1>3, ProcessAssumption DEF StartTypeOK, Migrated, Reached, Applied, db
<1>9. AdminsExplained'
  BY <1>1, <1>2, <1>3 DEF StartTypeOK, AdminsExplained, accounts, db
<1> QED BY <1>4, <1>5, <1>6, <1>7, <1>8, <1>9 DEF StartInv

LEMMA GrantPreserves ==
  ASSUME IInv, NEW p \in Processes, Grant(p)
  PROVE  StartInv'
<1>1. /\ StartTypeOK /\ Locks /\ MineKnown /\ Migrated /\ StartsDoNotCollide /\ AdminsExplained
      /\ at \in [Processes -> {"out", "read", "write"}]
  BY DEF IInv, StartInv, AuditInv, AuditTypeOK
<1>2. /\ pc[p] = "grant" /\ pc' = [pc EXCEPT ![p] = "record"]
      /\ roles' = roles \cup {mine[p]} /\ abandoned' = abandoned \ {mine[p]}
      /\ granted' = [granted EXCEPT ![p] = TRUE]
      /\ at' = [at EXCEPT ![p] = "read"]
      /\ UNCHANGED <<rows, migrator, ensurer, creator, pos, mine, faults>>
  BY DEF Grant, Goto, Record
<1>3. accounts' = accounts
  BY <1>2 DEF accounts
<1>4. StartTypeOK'
  BY <1>1, <1>2, <1>3 DEF StartTypeOK, Starting
<1>5. Locks' /\ MineKnown' /\ StartsDoNotCollide'
  BY <1>1, <1>2
     DEF StartTypeOK, Locks, MineKnown, StartsDoNotCollide, Applied, Entry
<1>6. Migrated'
  BY <1>1, <1>2, ProcessAssumption DEF StartTypeOK, Migrated, Reached, Applied
<1>7. AdminsExplained'
  BY <1>1, <1>2, <1>3 DEF AdminsExplained
<1> QED BY <1>4, <1>5, <1>6, <1>7 DEF StartInv

-----------------------------------------------------------------------------

LEMMA StepPreserves == IInv /\ [Next]_vars => IInv'
<1> SUFFICES ASSUME IInv, [Next]_vars PROVE IInv'
  OBVIOUS
<1>1. AuditInv'
  BY StepKeepsAudit
<1>2. CASE UNCHANGED vars
  <2>1. StartTypeOK' /\ Locks' /\ MineKnown' /\ StartsDoNotCollide'
    BY <1>2 DEF IInv, StartInv, StartTypeOK, Locks, MineKnown, StartsDoNotCollide, Applied, Entry,
                accounts, vars, db, run, auditVars
  <2>2. Migrated' /\ AdminsExplained'
    BY <1>2 DEF IInv, StartInv, Migrated, Reached, Applied, AdminsExplained, accounts, vars, db, run
  <2> QED BY <1>1, <2>1, <2>2 DEF IInv, StartInv
<1>3. ASSUME NEW p \in Processes,
             Launch(p) \/ LaunchTool(p) \/ Step(p) \/ RecordFails(p) \/ Stop(p) \/ Die(p)
      PROVE  StartInv'
  <2>1. CASE Launch(p) \/ LaunchTool(p) \/ Lock(p) \/ EnsureLock(p)
    BY <2>1, LaunchPreserves, LockPreserves
  <2>2. CASE CheckMissing(p) \/ CheckPresent(p) \/ Apply(p) \/ EnsureCount(p)
    BY <2>2, CheckMissingPreserves, ForwardPreserves, EnsureCountPreserves
  <2>3. CASE EnsureInsert(p) \/ Create(p) \/ Recording(p) \/ RecordFails(p)
    BY <2>3, InsertPreserves, RecordingPreserves
  <2>4. CASE RecordCreated(p) \/ RecordGranted(p) \/ Grant(p)
    BY <2>4, RecordedPreserves, GrantPreserves
  <2>5. CASE CheckDivergent(p) \/ EnsureFails(p) \/ EnsureRefused(p) \/ GrantFails(p)
             \/ CreateRefused(p) \/ Stop(p) \/ Die(p)
    BY <2>5, EndingPreserves
  <2> QED BY <1>3, <2>1, <2>2, <2>3, <2>4, <2>5 DEF Step, Migrate, Ensure, AfterInsert
<1> QED BY <1>1, <1>2, <1>3 DEF Next, IInv

LEMMA Invariance == Spec => []IInv
BY InitHolds, StepPreserves, PTL DEF Spec

\* Every variable keeps its type.
THEOREM StartupTypes == Spec => []TypeOK
<1>1. IInv => TypeOK
  BY DEF IInv, StartInv, AuditInv, TypeOK
<1> QED BY Invariance, <1>1, PTL

\* The log is one chain in every start of any number of servers and tools.
THEOREM ChainHolds == Spec => []ChainIntact
<1>1. IInv => ChainIntact
  BY DEF IInv, AuditInv
<1> QED BY Invariance, <1>1, PTL

\* No two processes apply the same migration or both insert the default administrator.
THEOREM StartsDoNotCollideHolds == Spec => []StartsDoNotCollide
<1>1. IInv => StartsDoNotCollide
  BY DEF IInv, StartInv
<1> QED BY Invariance, <1>1, PTL

\* A server that migrates serves with all of its plan and its own texts of it.
THEOREM ServedSchemaHolds == Spec => []ServedSchema
<1>1. IInv => ServedSchema
  BY DEF IInv, StartInv, Migrated, Reached, ServedSchema
<1> QED BY Invariance, <1>1, PTL

\* An account without the role was abandoned, or its creator is on its way.
THEOREM AdminsExplainedHolds == Spec => []AdminsExplained
<1>1. IInv => AdminsExplained
  BY DEF IInv, StartInv
<1> QED BY Invariance, <1>1, PTL

\* The start of servers and tools implements the audit log by itself.
THEOREM StartupRecords == Spec => AuditSpec
<1>1. Init => AuditInit
  BY DEF Init
<1> QED BY <1>1, StepRecords, PTL DEF Spec, AuditSpec

-----------------------------------------------------------------------------
(* Locks                                                                   *)

\* A lock is held where its work is done and nowhere else.
HoldersWork ==
  \A p \in Processes :
    /\ migrator = p => pc[p] \in {"check", "apply"}
    /\ ensurer = p => pc[p] \in {"count", "insert"}
    /\ holder = p => at[p] = "write"

LEMMA HoldersStep ==
  ASSUME IInv, HoldersWork, [Next]_vars
  PROVE  HoldersWork'
<1>0. /\ pc \in [Processes -> {"off", "serving"} \cup Starting]
      /\ at \in [Processes -> {"out", "read", "write"}]
      /\ \A p \in Processes : at[p] # "out" => pc[p] = "record"
      /\ \A p \in Processes : p # None
  BY NoneAssumption DEF IInv, StartInv, StartTypeOK, AuditInv, AuditTypeOK
<1>1. CASE UNCHANGED vars
  BY <1>1 DEF HoldersWork, vars, db, auditVars
<1>2. ASSUME NEW p \in Processes, Launch(p) \/ LaunchTool(p) \/ RecordCreated(p) \/ RecordGranted(p)
      PROVE  HoldersWork'
  <2>1. /\ pc[p] \in {"off", "record"} /\ UNCHANGED <<migrator, ensurer, holder, at>>
        /\ \A q \in Processes \ {p} : pc'[q] = pc[q]
    BY <1>0, <1>2 DEF Launch, LaunchTool, RecordCreated, RecordGranted, Goto, db, auditVars
  <2> QED BY <2>1 DEF HoldersWork
<1>3. ASSUME NEW p \in Processes, Lock(p) \/ EnsureLock(p) PROVE HoldersWork'
  BY <1>0, <1>3 DEF Lock, EnsureLock, Goto, HoldersWork, auditVars
<1>4. ASSUME NEW p \in Processes, CheckMissing(p) \/ CheckPresent(p) \/ Apply(p)
      PROVE  HoldersWork'
  <2>1. /\ pc[p] \in {"check", "apply"} /\ UNCHANGED <<ensurer, holder, at>>
        /\ \/ migrator' = migrator /\ pc'[p] \in {"check", "apply"}
           \/ migrator' = Unlock(migrator, p)
        /\ \A q \in Processes \ {p} : pc'[q] = pc[q]
    BY <1>0, <1>4 DEF CheckMissing, CheckPresent, Apply, Onwards, Goto, db, auditVars
  <2> QED BY <1>0, <2>1 DEF HoldersWork, Unlock
<1>5. ASSUME NEW p \in Processes, EnsureCount(p) PROVE HoldersWork'
  BY <1>0, <1>5 DEF EnsureCount, Goto, HoldersWork, Unlock, auditVars
<1>6. ASSUME NEW p \in Processes, EnsureInsert(p) \/ Create(p) \/ Grant(p) PROVE HoldersWork'
  <2>1. /\ pc[p] \in {"insert", "create", "grant"} /\ UNCHANGED <<migrator, holder>>
        /\ pc'[p] = "record" /\ at[p] = "out"
        /\ ensurer' = Unlock(ensurer, p) \/ (pc[p] = "grant" /\ ensurer' = ensurer)
        /\ \A q \in Processes \ {p} : pc'[q] = pc[q] /\ at'[q] = at[q]
    BY <1>0, <1>6 DEF EnsureInsert, Create, Grant, Insert, Record, Goto
  <2> QED BY <1>0, <2>1 DEF HoldersWork, Unlock
<1>7. ASSUME NEW p \in Processes, Recording(p) \/ RecordFails(p) PROVE HoldersWork'
  BY <1>0, <1>7
     DEF Recording, RecordFails, ReadHead, Write, Undo, Unlocked, HoldersWork, db
<1>8. ASSUME NEW p \in Processes, End(p) PROVE HoldersWork'
  BY <1>0, <1>8 DEF End, Undo, Unlock, Unlocked, HoldersWork
<1>9. ASSUME NEW p \in Processes,
             CheckDivergent(p) \/ EnsureFails(p) \/ EnsureRefused(p) \/ GrantFails(p)
             \/ CreateRefused(p) \/ Stop(p) \/ Die(p)
      PROVE  End(p)
  BY <1>9 DEF CheckDivergent, EnsureFails, EnsureRefused, GrantFails, CreateRefused, Stop, Die
<1> QED BY <1>1, <1>2, <1>3, <1>4, <1>5, <1>6, <1>7, <1>8, <1>9
        DEF Next, Step, Migrate, Ensure, AfterInsert

\* However many processes start, none that has a lock waits for another: there is no
\* deadlock, and whoever waits, waits for work that is under way.
THEOREM HoldersDoNotWaitHolds == Spec => []HoldersDoNotWait
<1>1. Init => HoldersWork
  <2>1. \A p \in Processes : p # None
    BY NoneAssumption
  <2> QED BY <2>1 DEF Init, AuditInit, HoldersWork
<1>2. IInv /\ HoldersWork /\ [Next]_vars => HoldersWork'
  BY HoldersStep
<1>3. IInv /\ HoldersWork => HoldersDoNotWait
  BY DEF IInv, StartInv, StartTypeOK, HoldersWork, HoldersDoNotWait, WaitsFor
<1> QED BY <1>1, <1>2, <1>3, Invariance, PTL DEF Spec
=============================================================================
