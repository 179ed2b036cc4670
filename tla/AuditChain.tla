----------------------------- MODULE AuditChain -----------------------------
(***************************************************************************)
(* The audit log (modules/audit): every record is a transaction that reads *)
(* the hash of the last event, inserts an event with that hash in it and   *)
(* makes the new event the last.  Processes record at the same time, any   *)
(* statement can fail, and a process can die with its transaction open.    *)
(***************************************************************************)
EXTENDS Naturals, Sequences

CONSTANTS
  Processes,   \* who records: servers and command line tools
  Genesis,     \* the hash the migration puts at the head of an empty log
  None

Hashes == Processes \X Nat

ASSUME GenesisAssumption == Genesis \notin Hashes
ASSUME NoneAssumption == None \notin Hashes \cup {Genesis} \cup Processes

VARIABLES
  events,   \* audit.events in the order of their commits
  head,     \* event_hash of the row audit.chain_heads has
  holder,   \* the process whose transaction has locked that row, or None
  at,       \* where in Record a process is
  read      \* the hash it has read

auditVars == <<events, head, holder, at, read>>

AuditTypeOK ==
  /\ events \in Seq([hash : Hashes, previous : Hashes \cup {Genesis}])
  /\ head \in Hashes \cup {Genesis}
  /\ holder \in Processes \cup {None}
  /\ at \in [Processes -> {"out", "read", "write"}]
  /\ read \in [Processes -> Hashes \cup {Genesis, None}]
  /\ \A p \in Processes : at[p] = "write" <=> read[p] # None

AuditInit ==
  /\ events = <<>>
  /\ head = Genesis
  /\ holder = None
  /\ at = [p \in Processes |-> "out"]
  /\ read = [p \in Processes |-> None]

Record(p) ==
  /\ at[p] = "out"
  /\ at' = [at EXCEPT ![p] = "read"]
  /\ UNCHANGED <<events, head, holder, read>>

FaultyReadHead(p) ==  \* without FOR UPDATE
  /\ at[p] = "read"
  /\ at' = [at EXCEPT ![p] = "write"]
  /\ read' = [read EXCEPT ![p] = head]
  /\ UNCHANGED <<events, head, holder>>

\* SELECT ... FOR UPDATE waits for the transaction that has the row.  An error
\* is ignored, but PostgreSQL then refuses the INSERT, which ends in Undo.
ReadHead(p) ==
  /\ at[p] = "read"
  /\ at' = [at EXCEPT ![p] = "write"]
  /\ holder = None /\ holder' = p
  /\ read' = [read EXCEPT ![p] = head]
  /\ UNCHANGED <<events, head>>

Unlocked(p) == IF holder = p THEN None ELSE holder

\* The hash covers a new id, the time and the previous hash: it is like none before.
Hash(p) == <<p, Len(events)>>

\* The insertion and the upsert of the head, which others see at the commit.
Write(p) ==
  /\ at[p] = "write"
  /\ events' = Append(events, [hash |-> Hash(p), previous |-> read[p]])
  /\ head' = Hash(p)
  /\ holder' = Unlocked(p)
  /\ at' = [at EXCEPT ![p] = "out"]
  /\ read' = [read EXCEPT ![p] = None]

\* A statement fails or the process dies: the transaction is rolled back.
Undo(p) ==
  /\ at' = [at EXCEPT ![p] = "out"]
  /\ read' = [read EXCEPT ![p] = None]
  /\ holder' = Unlocked(p)
  /\ UNCHANGED <<events, head>>

AuditNext == \E p \in Processes : Record(p) \/ ReadHead(p) \/ Write(p) \/ Undo(p)

AuditSpec == AuditInit /\ [][AuditNext]_auditVars

-----------------------------------------------------------------------------

\* The events form one chain that begins at the migration's row and ends at
\* the head: no event is lost and no two claim the same predecessor, whoever
\* records at the same time and wherever one dies (Record, audit/module.go:29-59).
ChainIntact ==
  /\ \A i \in DOMAIN events :
       events[i].previous = IF i = 1 THEN Genesis ELSE events[i - 1].hash
  /\ \A i, j \in DOMAIN events : events[i].hash = events[j].hash => i = j
  /\ head = IF events = <<>> THEN Genesis ELSE events[Len(events)].hash
=============================================================================
