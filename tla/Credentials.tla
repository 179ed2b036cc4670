---------------------------- MODULE Credentials ----------------------------
(***************************************************************************)
(* The stored secrets (modules/credentials).  A secret is sealed for the   *)
(* type and the key version its row had when it was written: who reads the *)
(* row later needs the same two to open it.                                *)
(***************************************************************************)
EXTENDS Naturals

CONSTANTS
  Requests,
  Creds, Types,    \* ids of secret_refs; password, windows or ssh-key
  MaxChanges,      \* bounds the edits of rows
  None

ASSUME ChangesAssumption == MaxChanges \in Nat
ASSUME CredAssumption == None \notin Requests \cup Creds \cup Types

VARIABLES
  secret,       \* credentials.secret_refs
  credHolder,   \* the request whose transaction has locked a row, or None
  pc,
  row,          \* the id a request is about
  oldType,      \* the type an edit has read
  changes

credVars == <<secret, credHolder, oldType>>

States == {"absent", "on", "off", "deleted"}
Present == States \ {"absent"}
Alive(s) == s \in {"on", "off"}
Seals == [type : Types, version : {1, 2}]
Seal(t, v) == [type |-> t, version |-> v]
AbsentSecret == [state |-> "absent", type |-> None, version |-> 1, sealed |-> None]

CredTypeOK ==
  /\ secret \in [Creds -> {AbsentSecret} \cup [state : Present, type : Types, version : {1, 2},
                                               sealed : Seals \cup {None}]]
  /\ credHolder \in [Creds -> Requests \cup {None}]
  /\ oldType \in [Requests -> Types \cup {None}]
  /\ changes \in 0..MaxChanges

CredInit ==
  /\ secret = [k \in Creds |-> AbsentSecret]
  /\ credHolder = [k \in Creds |-> None]
  /\ oldType = [r \in Requests |-> None]
  /\ changes = 0

Goto(r, from, to) == pc[r] = from /\ pc' = [pc EXCEPT ![r] = to]
Change == changes < MaxChanges /\ changes' = changes + 1

\* The end of a request, which gives back the row it has locked.
Idle(r) ==
  /\ row' = [row EXCEPT ![r] = None]
  /\ oldType' = [oldType EXCEPT ![r] = None]
  /\ credHolder' = [k \in Creds |-> IF credHolder[k] = r THEN None ELSE credHolder[k]]

Store(k) ==
  /\ secret[k].state = "absent"
  /\ \E t \in Types :
       secret' = [secret EXCEPT ![k] = [state |-> "on", type |-> t, version |-> 1,
                                        sealed |-> Seal(t, 1)]]
  /\ UNCHANGED <<credHolder, oldType, pc, row, changes>>

FaultyEditLock(r, k) ==  \* without FOR UPDATE
  /\ Goto(r, "idle", "edit")
  /\ Alive(secret[k].state)
  /\ row' = [row EXCEPT ![r] = k]
  /\ oldType' = [oldType EXCEPT ![r] = secret[k].type]
  /\ UNCHANGED <<secret, credHolder, changes>>

\* SELECT type ... FOR UPDATE, which waits for the row and then looks again.
EditLock(r, k) ==
  /\ Goto(r, "idle", "edit")
  /\ Alive(secret[k].state)
  /\ credHolder[k] = None /\ credHolder' = [credHolder EXCEPT ![k] = r]
  /\ row' = [row EXCEPT ![r] = k]
  /\ oldType' = [oldType EXCEPT ![r] = secret[k].type]
  /\ UNCHANGED <<secret, changes>>

\* Both UPDATEs and the commit; neither looks at deleted_at.  With v the request
\* brings a value, which a new type requires.
Edit(r) ==
  /\ Goto(r, "edit", "idle")
  /\ Change
  /\ \E t \in Types, s \in {"on", "off"}, v \in BOOLEAN :
       /\ t # oldType[r] => v
       /\ secret' = [secret EXCEPT ![row[r]] =
            [state |-> IF @.state = "deleted" THEN "deleted" ELSE s,
             type |-> t,
             version |-> IF v THEN 1 ELSE @.version,
             sealed |-> IF v THEN Seal(t, 1) ELSE @.sealed]]
  /\ Idle(r)

\* Rotate keeps the type it retrieves, unless it is given one.
RotateRead(r, k) ==
  /\ Goto(r, "idle", "rotate")
  /\ Alive(secret[k].state)
  /\ row' = [row EXCEPT ![r] = k]
  /\ UNCHANGED <<secret, credHolder, oldType, changes>>

RotateWrite(r) ==
  /\ Goto(r, "rotate", "idle")
  /\ Change
  /\ Alive(secret[row[r]].state) /\ credHolder[row[r]] = None
  /\ \E t \in Types :
       secret' = [secret EXCEPT ![row[r]] =
         [@ EXCEPT !.type = t, !.version = 2, !.sealed = Seal(t, 2)]]
  /\ Idle(r)

Delete(k) ==
  /\ Change
  /\ Alive(secret[k].state) /\ credHolder[k] = None
  /\ secret' = [secret EXCEPT ![k].state = "deleted", ![k].sealed = None]
  /\ UNCHANGED <<credHolder, oldType, pc, row>>

\* The end of validateWithTrust, and then the secret itself: it is opened for the
\* type and the version that are read with it.
Metadata(r, k) ==
  /\ Goto(r, "metadata", "retrieve")
  /\ secret[k].state = "on"
  /\ row' = [row EXCEPT ![r] = k]
  /\ UNCHANGED <<secret, credHolder, oldType, changes>>

Retrieve(r) ==
  /\ Goto(r, "retrieve", "open")
  /\ LET s == secret[row[r]]
     IN Alive(s.state) /\ s.sealed = Seal(s.type, s.version)
  /\ UNCHANGED <<secret, credHolder, row, oldType, changes>>

CredNext ==
  \/ \E k \in Creds : Store(k) \/ Delete(k)
  \/ \E r \in Requests :
       \/ Edit(r) \/ RotateWrite(r) \/ Retrieve(r)
       \/ \E k \in Creds : EditLock(r, k) \/ RotateRead(r, k)

-----------------------------------------------------------------------------

\* Whatever edits, rotations and deletions interleave, a secret opens with the type
\* and the key version of its row until it is deleted, and its ciphertext is not
\* kept then (Retrieve, credentials/module.go:101-105; Delete, 139; update,
\* edit.go:46-74). The wrapped data key stays in the row.
SecretsIntact ==
  \A k \in Creds :
    /\ Alive(secret[k].state) => secret[k].sealed = Seal(secret[k].type, secret[k].version)
    /\ secret[k].state = "deleted" => secret[k].sealed = None
=============================================================================
