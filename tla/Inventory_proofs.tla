-------------------------- MODULE Inventory_proofs --------------------------
(***************************************************************************)
(* Proofs about Credentials and Inventory, for any number of rows and      *)
(* requests and whatever DNS answers.                                      *)
(***************************************************************************)
EXTENDS Inventory, TLAPS

InSession(r) ==
  \/ pc[r] \in {"find", "metadata", "retrieve", "open"}
  \/ pc[r] \in {"networks", "resolve"} /\ task[r] = "session"

\* What a request knows where it is.
Shaped(r) ==
  /\ pc[r] = "find" => task[r] = "session"
  /\ pc[r] \in {"networks", "resolve", "write", "metadata", "retrieve", "open"} =>
       want[r] \in HostValues
  /\ pc[r] = "write" => want[r].pinned \in IPs
  /\ pc[r] \in {"networks", "resolve", "write"} /\ task[r] = "update" => row[r] \in Hosts
  /\ pc[r] \in {"exists", "credential", "save"} =>
       target[r] \in ConnectionRows /\ (task[r] = "update" => ref[r] \in Connections)
  /\ InSession(r) => target[r] \in ConnectionRows /\ ref[r] \in Connections
  /\ pc[r] \in {"edit", "rotate"} => row[r] \in Creds

\* The transaction of an edit has locked its row, so that the type stays.
EditLocked(r) ==
  pc[r] = "edit" =>
    /\ credHolder[row[r]] = r
    /\ oldType[r] = secret[row[r]].type
    /\ Alive(secret[row[r]].state)

\* The values were accepted by ValidateDestination when a host was saved, and a
\* session that has passed it again goes to the same address.
Proved(r) ==
  /\ pc[r] = "write" /\ want[r].state = "on" => proof[r] = At(want[r])
  /\ pc[r] \in {"networks", "resolve"} /\ task[r] = "session" => proof[r] = At(want[r])
  /\ pc[r] \in {"metadata", "retrieve", "open"} =>
       proof[r] = At(want[r]) /\ want[r].pinned \notin Denied \cup Blocked

\* Whatever a session has found was there when it began.
There(r) ==
  /\ gone[r] \subseteq Deleted
  /\ InSession(r) => ref[r] \notin gone[r]
  /\ InSession(r) /\ pc[r] # "find" => target[r].host \notin gone[r]
  /\ pc[r] = "resolve" /\ task[r] = "session" /\ allowed[r] # {} => want[r].location \notin gone[r]
  /\ pc[r] \in {"metadata", "retrieve", "open"} => want[r].location \notin gone[r]
  /\ pc[r] \in {"retrieve", "open"} => target[r].cred \notin gone[r]

ReqInv(r) == Shaped(r) /\ EditLocked(r) /\ Proved(r) /\ There(r)
IInv == TypeOK /\ SecretsIntact /\ EnabledHostPinned /\ \A r \in Requests : ReqInv(r)

\* A step that leaves a request where it is.
Same(q) ==
  /\ pc'[q] = pc[q]         /\ row'[q] = row[q]   /\ oldType'[q] = oldType[q]
  /\ task'[q] = task[q]     /\ want'[q] = want[q] /\ target'[q] = target[q]
  /\ ref'[q] = ref[q]       /\ proof'[q] = proof[q]
  /\ allowed'[q] = allowed[q] /\ gone'[q] = gone[q]

-----------------------------------------------------------------------------

LEMMA InitHolds == Init => IInv
<1> SUFFICES ASSUME Init PROVE IInv
  OBVIOUS
<1>1. TypeOK
  BY ChangesAssumption
     DEF Init, CredInit, TypeOK, CredTypeOK, RowTypeOK, ReqTypeOK, States
<1>2. SecretsIntact /\ EnabledHostPinned
  BY DEF Init, CredInit, SecretsIntact, EnabledHostPinned, AbsentSecret, AbsentHost, Alive
<1>3. ASSUME NEW r \in Requests PROVE ReqInv(r)
  BY DEF Init, ReqInv, Shaped, EditLocked, Proved, There, InSession
<1> QED BY <1>1, <1>2, <1>3 DEF IInv

\* A request that takes no step keeps what it knows, if nothing comes back and the
\* row it has locked stays.
LEMMA OthersKeep ==
  ASSUME NEW q \in Requests, ReqInv(q), Same(q), Deleted \subseteq Deleted',
         pc[q] = "edit" => /\ credHolder'[row[q]] = credHolder[row[q]]
                           /\ secret'[row[q]] = secret[row[q]]
  PROVE  ReqInv(q)'
<1>1. InSession(q)' = InSession(q)
  BY DEF Same, InSession
<1>2. Shaped(q)'
  BY <1>1 DEF ReqInv, Shaped, Same
<1>3. EditLocked(q)'
  BY DEF ReqInv, EditLocked, Same
<1>4. Proved(q)'
  BY DEF ReqInv, Proved, Same
<1>5. There(q)'
  BY <1>1 DEF ReqInv, There, Same
<1> QED BY <1>2, <1>3, <1>4, <1>5 DEF ReqInv

LEMMA IdleKnows ==
  ASSUME NEW r \in Requests, pc'[r] = "idle", gone'[r] \subseteq Deleted'
  PROVE  ReqInv(r)'
BY DEF ReqInv, Shaped, EditLocked, Proved, There, InSession

\* A step of one request that leaves all rows as they are.
LEMMA LocalPreserves ==
  ASSUME IInv, NEW r \in Requests,
         UNCHANGED <<secret, rowVars, dns, approved>>,
         CredTypeOK', ReqTypeOK', ReqInv(r)',
         \A q \in Requests \ {r} :
           Same(q) /\ \A k \in Creds : credHolder[k] = q => credHolder'[k] = q
  PROVE  IInv' /\ Deleted' = Deleted
<1>1. Deleted' = Deleted
  BY DEF Deleted, rowVars
<1>2. TypeOK'
  BY DEF IInv, TypeOK, RowTypeOK, rowVars
<1>3. SecretsIntact' /\ EnabledHostPinned'
  BY DEF IInv, SecretsIntact, EnabledHostPinned, rowVars
<1>4. ASSUME NEW q \in Requests, q # r
      PROVE  ReqInv(q)'
  <2>1. ReqInv(q) /\ Same(q)
    BY <1>4 DEF IInv
  <2>2. pc[q] = "edit" => credHolder'[row[q]] = credHolder[row[q]] /\ secret'[row[q]] = secret[row[q]]
    BY <1>4, <2>1 DEF ReqInv, EditLocked, Shaped
  <2> QED BY <1>1, <2>1, <2>2, OthersKeep
<1> QED BY <1>1, <1>2, <1>3, <1>4 DEF IInv

-----------------------------------------------------------------------------
(* ValidateDestination                                                     *)

LEMMA ReadNetworksPreserves ==
  ASSUME IInv, NEW r \in Requests, ReadNetworks(r)
  PROVE  IInv' /\ Deleted' = Deleted
<1>1. /\ pc[r] = "networks" /\ pc' = [pc EXCEPT ![r] = "resolve"]
      /\ allowed' = [allowed EXCEPT ![r] = AllowedIn(want[r].location)]
      /\ UNCHANGED <<credVars, row, changes, rowVars, dns, task, want, target, ref, gone, proof,
                     approved>>
  BY DEF ReadNetworks, Goto, stillVars
<1>2. /\ CredTypeOK /\ RowTypeOK /\ ReqTypeOK
      /\ Shaped(r) /\ Proved(r) /\ There(r)
  BY DEF IInv, TypeOK, ReqInv
<1>3. AllowedIn(want[r].location) \subseteq IPs
  BY <1>2, InventoryAssumption DEF AllowedIn, RowTypeOK, AbsentNetwork
<1>4. AllowedIn(want[r].location) # {} => want[r].location \notin Deleted
  <2>1. AllowedIn(want[r].location) # {} => location[want[r].location] = "on"
    BY DEF AllowedIn
  <2>2. want[r].location \in Locations
    BY <1>1, <1>2 DEF Shaped, HostValues
  <2> QED BY <2>1, <2>2, IdsAssumption DEF Deleted
<1>5. CredTypeOK' /\ ReqTypeOK'
  BY <1>1, <1>2, <1>3 DEF CredTypeOK, ReqTypeOK, credVars
<1>6. Deleted' = Deleted
  BY <1>1 DEF Deleted, rowVars, credVars
<1>7. ReqInv(r)'
  <2>1. pc'[r] = "resolve" /\ allowed'[r] = AllowedIn(want[r].location)
    BY <1>1, <1>2 DEF ReqTypeOK
  <2>2. Shaped(r)' /\ EditLocked(r)' /\ Proved(r)'
    BY <1>1, <1>2, <2>1 DEF Shaped, EditLocked, Proved, InSession
  <2>3. There(r)'
    BY <1>1, <1>2, <1>4, <1>6, <2>1 DEF There, InSession
  <2> QED BY <2>2, <2>3 DEF ReqInv
<1>8. \A q \in Requests \ {r} :
        Same(q) /\ \A k \in Creds : credHolder[k] = q => credHolder'[k] = q
  BY <1>1, <1>2 DEF Same, ReqTypeOK, credVars
<1> QED BY <1>1, <1>5, <1>7, <1>8, LocalPreserves DEF credVars

\* What is accepted is allowed, and so no address that is blocked.
LEMMA DestinationsAllowed ==
  ASSUME NEW r \in Requests, NEW ip \in Destinations(r)
  PROVE  ip \in allowed[r] \ Blocked
BY DEF Destinations

LEMMA ResolveHostPreserves ==
  ASSUME IInv, NEW r \in Requests, ResolveHost(r)
  PROVE  IInv' /\ Deleted' = Deleted
<1>1. PICK ip \in Destinations(r) :
        /\ want' = [want EXCEPT ![r].pinned = ip]
        /\ proof' = [proof EXCEPT ![r] = At(want'[r])]
  BY DEF ResolveHost
<1>2. /\ pc[r] = "resolve" /\ pc' = [pc EXCEPT ![r] = "write"] /\ task[r] # "session"
      /\ allowed' = [allowed EXCEPT ![r] = {}]
      /\ UNCHANGED <<credVars, row, changes, rowVars, dns, task, target, ref, gone, approved>>
  BY DEF ResolveHost, Goto, stillVars
<1>3. /\ CredTypeOK /\ RowTypeOK /\ ReqTypeOK
      /\ Shaped(r) /\ Proved(r) /\ There(r)
  BY DEF IInv, TypeOK, ReqInv
<1>4. ip \in IPs
  BY <1>3, DestinationsAllowed DEF ReqTypeOK
<1>5. want[r] \in HostValues
  BY <1>2, <1>3 DEF Shaped
<1>6. want'[r] \in HostValues /\ want'[r].pinned = ip /\ At(want'[r]) \in Destination
  BY <1>1, <1>3, <1>4, <1>5 DEF HostValues, At, Destination, ReqTypeOK
<1>7. CredTypeOK' /\ ReqTypeOK'
  <2>1. CredTypeOK'
    BY <1>2, <1>3 DEF CredTypeOK, credVars
  <2>2. \A q \in Requests \ {r} : want'[q] = want[q]
    BY <1>1, <1>3 DEF ReqTypeOK
  <2>3. want' \in [Requests -> HostValues \cup {None}]
    BY <1>1, <1>3, <1>6, <2>2 DEF ReqTypeOK
  <2> QED BY <1>1, <1>2, <1>3, <1>6, <2>1, <2>3 DEF ReqTypeOK
<1>8. Deleted' = Deleted
  BY <1>2 DEF Deleted, rowVars, credVars
<1>9. ReqInv(r)'
  <2>1. pc'[r] = "write" /\ proof'[r] = At(want'[r])
    BY <1>1, <1>2, <1>3 DEF ReqTypeOK
  <2>2. Shaped(r)' /\ EditLocked(r)'
    BY <1>2, <1>3, <1>4, <1>6, <2>1 DEF Shaped, EditLocked, InSession
  <2>3. Proved(r)'
    BY <2>1 DEF Proved, At
  <2>4. There(r)'
    BY <1>2, <1>3, <1>8, <2>1 DEF There, InSession
  <2> QED BY <2>2, <2>3, <2>4 DEF ReqInv
<1>10. \A q \in Requests \ {r} :
         Same(q) /\ \A k \in Creds : credHolder[k] = q => credHolder'[k] = q
  BY <1>1, <1>2, <1>3 DEF Same, ReqTypeOK, credVars
<1> QED BY <1>2, <1>7, <1>9, <1>10, LocalPreserves DEF credVars

LEMMA ResolveSessionPreserves ==
  ASSUME IInv, NEW r \in Requests, ResolveSession(r)
  PROVE  IInv' /\ Deleted' = Deleted
<1>1. /\ pc[r] = "resolve" /\ pc' = [pc EXCEPT ![r] = "metadata"] /\ task[r] = "session"
      /\ want[r].pinned \in Destinations(r) \ Denied
      /\ allowed' = [allowed EXCEPT ![r] = {}]
      /\ UNCHANGED <<credVars, row, changes, rowVars, dns, task, want, target, ref, gone, proof,
                     approved>>
  BY DEF ResolveSession, Goto, stillVars
<1>2. /\ CredTypeOK /\ RowTypeOK /\ ReqTypeOK
      /\ Shaped(r) /\ Proved(r) /\ There(r)
  BY DEF IInv, TypeOK, ReqInv
<1>3. want[r].pinned \notin Denied \cup Blocked /\ allowed[r] # {}
  BY <1>1, DestinationsAllowed
<1>4. CredTypeOK' /\ ReqTypeOK'
  BY <1>1, <1>2 DEF CredTypeOK, ReqTypeOK, credVars
<1>5. Deleted' = Deleted
  BY <1>1 DEF Deleted, rowVars, credVars
<1>6. ReqInv(r)'
  <2>1. pc'[r] = "metadata" /\ InSession(r) /\ InSession(r)'
    BY <1>1, <1>2 DEF ReqTypeOK, InSession
  <2>2. Shaped(r)' /\ EditLocked(r)' /\ Proved(r)'
    BY <1>1, <1>2, <1>3, <2>1 DEF Shaped, EditLocked, Proved
  <2>3. There(r)'
    BY <1>1, <1>2, <1>3, <1>5, <2>1 DEF There
  <2> QED BY <2>2, <2>3 DEF ReqInv
<1>7. \A q \in Requests \ {r} :
        Same(q) /\ \A k \in Creds : credHolder[k] = q => credHolder'[k] = q
  BY <1>1, <1>2 DEF Same, ReqTypeOK, credVars
<1> QED BY <1>1, <1>4, <1>6, <1>7, LocalPreserves DEF credVars

-----------------------------------------------------------------------------
(* The first steps of requests                                             *)

LEMMA BeginHostPreserves ==
  ASSUME IInv, NEW r \in Requests, CreateHost(r) \/ \E h \in Hosts : EditHost(r, h)
  PROVE  IInv' /\ Deleted' = Deleted
<1>1. /\ CredTypeOK /\ RowTypeOK /\ ReqTypeOK /\ There(r)
  BY DEF IInv, TypeOK, ReqInv
<1>2. PICK to \in {"networks", "write"}, t \in {"create", "update"}, w \in HostValues,
           o \in Hosts \cup Creds \cup {None} :
        /\ pc[r] = "idle" /\ pc' = [pc EXCEPT ![r] = to]
        /\ task' = [task EXCEPT ![r] = t] /\ want' = [want EXCEPT ![r] = w]
        /\ row' = [row EXCEPT ![r] = o]
        /\ t = "update" => o \in Hosts
        /\ to = "write" => w.state = "off" /\ w.pinned \in IPs
  <2>1. CASE CreateHost(r)
    <3>1. PICK l \in Locations, a \in Addresses :
            want' = [want EXCEPT ![r] =
                       [state |-> "on", location |-> l, address |-> a, pinned |-> None]]
      BY <2>1 DEF CreateHost
    <3>2. [state |-> "on", location |-> l, address |-> a, pinned |-> None] \in HostValues
      BY DEF HostValues
    <3>3. row' = [row EXCEPT ![r] = row[r]] /\ row[r] \in Hosts \cup Creds \cup {None}
      BY <1>1, <2>1 DEF CreateHost, stillVars, ReqTypeOK
    <3>4. /\ pc[r] = "idle" /\ pc' = [pc EXCEPT ![r] = "networks"]
          /\ task' = [task EXCEPT ![r] = "create"]
      BY <2>1 DEF CreateHost, Goto
    <3> QED BY <3>1, <3>2, <3>3, <3>4
  <2>2. ASSUME NEW h \in Hosts, EditHost(r, h)
        PROVE  \E to \in {"networks", "write"}, w \in HostValues :
                 /\ pc[r] = "idle" /\ pc' = [pc EXCEPT ![r] = to]
                 /\ task' = [task EXCEPT ![r] = "update"] /\ want' = [want EXCEPT ![r] = w]
                 /\ row' = [row EXCEPT ![r] = h]
                 /\ to = "write" => w.state = "off" /\ w.pinned \in IPs
    <3>1. PICK l \in Locations, a \in Addresses, s \in {"on", "off"} :
            /\ Goto(r, "idle", IF s = "on" THEN "networks" ELSE "write")
            /\ want' = [want EXCEPT ![r] =
                 [state |-> s, location |-> l, address |-> a, pinned |-> host[h].pinned]]
      BY <2>2 DEF EditHost
    <3>2. host[h].pinned \in IPs
      BY <1>1, <2>2 DEF EditHost, RowTypeOK, HostRows, AbsentHost, Alive
    <3> DEFINE w == [state |-> s, location |-> l, address |-> a, pinned |-> host[h].pinned]
    <3>3. w \in HostValues
      BY <3>2 DEF HostValues
    <3>4. task' = [task EXCEPT ![r] = "update"] /\ row' = [row EXCEPT ![r] = h]
      BY <2>2 DEF EditHost
    <3>5. CASE s = "on"
      BY <3>1, <3>3, <3>4, <3>5 DEF Goto
    <3>6. CASE s = "off"
      BY <3>1, <3>2, <3>3, <3>4, <3>6 DEF Goto
    <3> QED BY <3>5, <3>6
  <2> QED BY <2>1, <2>2
<1>3. UNCHANGED <<credVars, changes, rowVars, dns, target, ref, allowed, gone, proof, approved>>
  BY DEF CreateHost, EditHost, stillVars
<1>4. CredTypeOK' /\ ReqTypeOK'
  BY <1>1, <1>2, <1>3 DEF CredTypeOK, ReqTypeOK, credVars
<1>5. Deleted' = Deleted
  BY <1>3 DEF Deleted, rowVars, credVars
<1>6. ReqInv(r)'
  <2>1. pc'[r] = to /\ task'[r] = t /\ want'[r] = w /\ row'[r] = o
    BY <1>1, <1>2 DEF ReqTypeOK
  <2>2. Shaped(r)' /\ EditLocked(r)' /\ Proved(r)'
    BY <1>2, <2>1 DEF Shaped, EditLocked, Proved, InSession
  <2>3. There(r)'
    BY <1>1, <1>2, <1>3, <1>5, <2>1 DEF There, InSession
  <2> QED BY <2>2, <2>3 DEF ReqInv
<1>7. \A q \in Requests \ {r} :
        Same(q) /\ \A k \in Creds : credHolder[k] = q => credHolder'[k] = q
  BY <1>1, <1>2, <1>3 DEF Same, ReqTypeOK, credVars
<1> QED BY <1>3, <1>4, <1>6, <1>7, LocalPreserves DEF credVars

LEMMA BeginConnectionPreserves ==
  ASSUME IInv, NEW r \in Requests,
         CreateConnection(r) \/ \E c \in Connections : EditConnection(r, c)
  PROVE  IInv' /\ Deleted' = Deleted
<1>1. /\ CredTypeOK /\ RowTypeOK /\ ReqTypeOK /\ There(r)
  BY DEF IInv, TypeOK, ReqInv
<1>2. PICK t \in {"create", "update"}, w \in ConnectionRows, o \in Connections \cup {None} :
        /\ task' = [task EXCEPT ![r] = t] /\ target' = [target EXCEPT ![r] = w]
        /\ ref' = [ref EXCEPT ![r] = o]
        /\ t = "update" => o \in Connections
  <2>1. CASE CreateConnection(r)
    <3>1. PICK h \in Hosts, k \in Creds :
            target' = [target EXCEPT ![r] = [state |-> "on", host |-> h, cred |-> k]]
      BY <2>1 DEF CreateConnection
    <3>2. [state |-> "on", host |-> h, cred |-> k] \in ConnectionRows
      BY DEF ConnectionRows, Present, States
    <3>3. ref' = [ref EXCEPT ![r] = ref[r]] /\ ref[r] \in Connections \cup {None}
      BY <1>1, <2>1 DEF CreateConnection, ReqTypeOK
    <3>4. task' = [task EXCEPT ![r] = "create"]
      BY <2>1 DEF CreateConnection
    <3> QED BY <3>1, <3>2, <3>3, <3>4
  <2>2. ASSUME NEW c \in Connections, EditConnection(r, c)
        PROVE  \E w \in ConnectionRows :
                 /\ task' = [task EXCEPT ![r] = "update"] /\ target' = [target EXCEPT ![r] = w]
                 /\ ref' = [ref EXCEPT ![r] = c]
    <3>1. PICK h \in Hosts, k \in Creds, s \in {"on", "off"} :
            target' = [target EXCEPT ![r] = [state |-> s, host |-> h, cred |-> k]]
      BY <2>2 DEF EditConnection
    <3>2. [state |-> s, host |-> h, cred |-> k] \in ConnectionRows
      BY DEF ConnectionRows, Present, States
    <3> QED BY <2>2, <3>1, <3>2 DEF EditConnection
  <2> QED BY <2>1, <2>2
<1>3. /\ pc[r] = "idle" /\ pc' = [pc EXCEPT ![r] = "exists"]
      /\ UNCHANGED <<credVars, row, changes, rowVars, dns, want, allowed, gone, proof, approved>>
  BY DEF CreateConnection, EditConnection, Goto, stillVars
<1>4. CredTypeOK' /\ ReqTypeOK'
  BY <1>1, <1>2, <1>3 DEF CredTypeOK, ReqTypeOK, credVars
<1>5. Deleted' = Deleted
  BY <1>3 DEF Deleted, rowVars, credVars
<1>6. ReqInv(r)'
  <2>1. pc'[r] = "exists" /\ task'[r] = t /\ target'[r] = w /\ ref'[r] = o
    BY <1>1, <1>2, <1>3 DEF ReqTypeOK
  <2>2. Shaped(r)' /\ EditLocked(r)' /\ Proved(r)'
    BY <1>2, <2>1 DEF Shaped, EditLocked, Proved, InSession
  <2>3. There(r)'
    BY <1>1, <1>3, <1>5, <2>1 DEF There, InSession
  <2> QED BY <2>2, <2>3 DEF ReqInv
<1>7. \A q \in Requests \ {r} :
        Same(q) /\ \A k \in Creds : credHolder[k] = q => credHolder'[k] = q
  BY <1>1, <1>2, <1>3 DEF Same, ReqTypeOK, credVars
<1> QED BY <1>3, <1>4, <1>6, <1>7, LocalPreserves DEF credVars

LEMMA ExistsPreserves ==
  ASSUME IInv, NEW r \in Requests, HostExists(r) \/ CredentialExists(r)
  PROVE  IInv' /\ Deleted' = Deleted
<1>1. /\ CredTypeOK /\ RowTypeOK /\ ReqTypeOK
      /\ Shaped(r) /\ There(r)
  BY DEF IInv, TypeOK, ReqInv
<1>2. PICK to \in {"credential", "save"} : pc' = [pc EXCEPT ![r] = to]
  BY DEF HostExists, CredentialExists, Goto
<1>3. /\ pc[r] \in {"exists", "credential"}
      /\ UNCHANGED <<credVars, row, changes, rowVars, dns, reqVars, approved>>
  BY DEF HostExists, CredentialExists, Goto, stillVars
<1>4. CredTypeOK' /\ ReqTypeOK'
  BY <1>1, <1>2, <1>3 DEF CredTypeOK, ReqTypeOK, credVars, reqVars
<1>5. Deleted' = Deleted
  BY <1>3 DEF Deleted, rowVars, credVars
<1>6. ReqInv(r)'
  <2>1. pc'[r] = to
    BY <1>1, <1>2 DEF ReqTypeOK
  <2>2. Shaped(r)' /\ EditLocked(r)' /\ Proved(r)'
    BY <1>1, <1>3, <2>1 DEF Shaped, EditLocked, Proved, InSession, reqVars
  <2>3. There(r)'
    BY <1>1, <1>3, <1>5, <2>1 DEF There, InSession, reqVars
  <2> QED BY <2>2, <2>3 DEF ReqInv
<1>7. \A q \in Requests \ {r} :
        Same(q) /\ \A k \in Creds : credHolder[k] = q => credHolder'[k] = q
  BY <1>1, <1>2, <1>3 DEF Same, ReqTypeOK, credVars, reqVars
<1> QED BY <1>3, <1>4, <1>6, <1>7, LocalPreserves DEF credVars

LEMMA SessionPreserves ==
  ASSUME IInv, NEW r \in Requests, NEW c \in Connections, Session(r, c)
  PROVE  IInv' /\ Deleted' = Deleted
<1>1. /\ CredTypeOK /\ RowTypeOK /\ ReqTypeOK
  BY DEF IInv, TypeOK
<1>2. /\ pc[r] = "idle" /\ pc' = [pc EXCEPT ![r] = "find"] /\ connection[c].state = "on"
      /\ task' = [task EXCEPT ![r] = "session"] /\ ref' = [ref EXCEPT ![r] = c]
      /\ target' = [target EXCEPT ![r] = connection[c]]
      /\ gone' = [gone EXCEPT ![r] = Deleted]
      /\ UNCHANGED <<credVars, row, changes, rowVars, dns, want, allowed, proof, approved>>
  BY DEF Session, Goto, stillVars
<1>3. connection[c] \in ConnectionRows
  BY <1>1, <1>2 DEF RowTypeOK, AbsentConnection
<1>4. Deleted \subseteq Ids /\ c \notin Deleted
  BY <1>2, IdsAssumption DEF Deleted, Ids
<1>5. CredTypeOK' /\ ReqTypeOK'
  BY <1>1, <1>2, <1>3, <1>4 DEF CredTypeOK, ReqTypeOK, credVars
<1>6. Deleted' = Deleted
  BY <1>2 DEF Deleted, rowVars, credVars
<1>7. ReqInv(r)'
  <2>1. /\ pc'[r] = "find" /\ task'[r] = "session" /\ ref'[r] = c
        /\ target'[r] = connection[c] /\ gone'[r] = Deleted
    BY <1>1, <1>2 DEF ReqTypeOK
  <2>2. Shaped(r)' /\ EditLocked(r)' /\ Proved(r)'
    BY <1>3, <2>1 DEF Shaped, EditLocked, Proved
  <2>3. There(r)'
    BY <1>4, <1>6, <2>1 DEF There
  <2> QED BY <2>2, <2>3 DEF ReqInv
<1>8. \A q \in Requests \ {r} :
        Same(q) /\ \A k \in Creds : credHolder[k] = q => credHolder'[k] = q
  BY <1>1, <1>2 DEF Same, ReqTypeOK, credVars
<1> QED BY <1>2, <1>5, <1>7, <1>8, LocalPreserves DEF credVars

-----------------------------------------------------------------------------
(* The other steps of a session                                            *)

\* A host that is enabled has been validated for what it has.
LEMMA FindHostPreserves ==
  ASSUME IInv, NEW r \in Requests, FindHost(r)
  PROVE  IInv' /\ Deleted' = Deleted
<1> DEFINE h == target[r].host
<1>1. /\ CredTypeOK /\ RowTypeOK /\ ReqTypeOK /\ EnabledHostPinned
      /\ Shaped(r) /\ There(r)
  BY DEF IInv, TypeOK, ReqInv
<1>2. /\ pc[r] = "find" /\ pc' = [pc EXCEPT ![r] = "networks"] /\ host[h].state = "on"
      /\ want' = [want EXCEPT ![r] = host[h]]
      /\ proof' = [proof EXCEPT ![r] = approved[h]]
      /\ UNCHANGED <<credVars, row, changes, rowVars, dns, task, target, ref, allowed, gone, approved>>
  BY DEF FindHost, Goto, stillVars
<1>3. h \in Hosts /\ task[r] = "session" /\ ref[r] \notin gone[r]
  BY <1>1, <1>2 DEF Shaped, InSession, ConnectionRows, There
<1>4. host[h] \in HostValues /\ approved[h] = At(host[h]) /\ approved[h] \in Destination \cup {None}
  BY <1>1, <1>2, <1>3
     DEF RowTypeOK, HostRows, AbsentHost, HostValues, EnabledHostPinned
<1>5. h \notin Deleted
  BY <1>2, <1>3, IdsAssumption DEF Deleted
<1>6. CredTypeOK' /\ ReqTypeOK'
  BY <1>1, <1>2, <1>4 DEF CredTypeOK, ReqTypeOK, credVars
<1>7. Deleted' = Deleted
  BY <1>2 DEF Deleted, rowVars, credVars
<1>8. ReqInv(r)'
  <2>1. pc'[r] = "networks" /\ want'[r] = host[h] /\ proof'[r] = approved[h]
    BY <1>1, <1>2 DEF ReqTypeOK
  <2>2. Shaped(r)' /\ EditLocked(r)' /\ Proved(r)'
    BY <1>1, <1>2, <1>3, <1>4, <2>1 DEF Shaped, EditLocked, Proved, InSession
  <2>3. There(r)'
    BY <1>1, <1>2, <1>3, <1>5, <1>7, <2>1 DEF There, InSession
  <2> QED BY <2>2, <2>3 DEF ReqInv
<1>9. \A q \in Requests \ {r} :
        Same(q) /\ \A k \in Creds : credHolder[k] = q => credHolder'[k] = q
  BY <1>1, <1>2 DEF Same, ReqTypeOK, credVars
<1> QED BY <1>2, <1>6, <1>8, <1>9, LocalPreserves DEF credVars

LEMMA AcceptPreserves ==
  ASSUME IInv, NEW r \in Requests,
         ReadMetadata(r) \/ (Retrieve(r) /\ UNCHANGED <<rowVars, dns, reqVars, approved>>)
  PROVE  IInv' /\ Deleted' = Deleted
<1> DEFINE k == target[r].cred
<1>1. /\ CredTypeOK /\ RowTypeOK /\ ReqTypeOK
      /\ Shaped(r) /\ Proved(r) /\ There(r)
  BY DEF IInv, TypeOK, ReqInv
<1>2. /\ InSession(r) /\ pc[r] \in {"metadata", "retrieve"}
      /\ UNCHANGED <<credVars, changes, rowVars, dns, reqVars, approved>>
  BY DEF ReadMetadata, Metadata, Retrieve, Goto, InSession, credVars
<1>3. k \in Creds
  BY <1>1, <1>2 DEF Shaped, ConnectionRows
<1>4. PICK to \in {"retrieve", "open"}, o \in Creds \cup Hosts \cup {None} :
        /\ pc' = [pc EXCEPT ![r] = to] /\ row' = [row EXCEPT ![r] = o]
  <2>1. row = [row EXCEPT ![r] = row[r]] /\ row[r] \in Creds \cup Hosts \cup {None}
    BY <1>1 DEF ReqTypeOK
  <2> QED BY <1>3, <2>1 DEF ReadMetadata, Metadata, Retrieve, Goto
<1>5. k \notin gone[r]
  <2>1. CASE ReadMetadata(r)
    <3>1. k \notin Deleted
      BY <1>3, <2>1, IdsAssumption DEF ReadMetadata, Metadata, Deleted
    <3> QED BY <1>1, <3>1 DEF There
  <2>2. CASE Retrieve(r)
    BY <1>1, <2>2 DEF Retrieve, Goto, There
  <2> QED BY <2>1, <2>2
<1>6. CredTypeOK' /\ ReqTypeOK'
  BY <1>1, <1>2, <1>4 DEF CredTypeOK, ReqTypeOK, credVars, reqVars
<1>7. Deleted' = Deleted
  BY <1>2 DEF Deleted, rowVars, credVars
<1>8. ReqInv(r)'
  <2>1. pc'[r] = to
    BY <1>1, <1>4 DEF ReqTypeOK
  <2>2. Shaped(r)' /\ EditLocked(r)' /\ Proved(r)'
    BY <1>1, <1>2, <2>1 DEF Shaped, EditLocked, Proved, InSession, reqVars
  <2>3. There(r)'
    BY <1>1, <1>2, <1>5, <1>7, <2>1 DEF There, InSession, reqVars
  <2> QED BY <2>2, <2>3 DEF ReqInv
<1>9. \A q \in Requests \ {r} :
        Same(q) /\ \A j \in Creds : credHolder[j] = q => credHolder'[j] = q
  BY <1>1, <1>2, <1>4 DEF Same, ReqTypeOK, credVars, reqVars
<1> QED BY <1>2, <1>6, <1>8, <1>9, LocalPreserves DEF credVars

-----------------------------------------------------------------------------
(* Locks of stored secrets, and the end of a request                       *)

LEMMA BeginSecretPreserves ==
  ASSUME IInv, NEW r \in Requests, NEW k \in Creds, EditLock(r, k) \/ RotateRead(r, k),
         UNCHANGED <<rowVars, dns, reqVars, approved>>
  PROVE  IInv' /\ Deleted' = Deleted
<1>1. /\ CredTypeOK /\ RowTypeOK /\ ReqTypeOK /\ There(r)
  BY DEF IInv, TypeOK, ReqInv
<1>2. /\ pc[r] = "idle" /\ row' = [row EXCEPT ![r] = k]
      /\ Alive(secret[k].state) /\ UNCHANGED <<secret, changes>>
  BY DEF EditLock, RotateRead, Goto
<1>3. secret[k].type \in Types
  BY <1>1, <1>2 DEF CredTypeOK, AbsentSecret, Alive
<1>4. \/ /\ pc' = [pc EXCEPT ![r] = "edit"]
         /\ credHolder[k] = None /\ credHolder' = [credHolder EXCEPT ![k] = r]
         /\ oldType' = [oldType EXCEPT ![r] = secret[k].type]
      \/ pc' = [pc EXCEPT ![r] = "rotate"] /\ UNCHANGED <<credHolder, oldType>>
  BY DEF EditLock, RotateRead, Goto
<1>5. CredTypeOK' /\ ReqTypeOK'
  BY <1>1, <1>2, <1>3, <1>4 DEF CredTypeOK, ReqTypeOK, reqVars
<1>6. Deleted' = Deleted
  BY <1>2 DEF Deleted, rowVars
<1>7. ReqInv(r)'
  <2>1. row'[r] = k /\ pc'[r] \in {"edit", "rotate"}
    BY <1>1, <1>2, <1>4 DEF ReqTypeOK
  <2>2. pc'[r] = "edit" => credHolder'[k] = r /\ oldType'[r] = secret[k].type
    BY <1>1, <1>4 DEF CredTypeOK, ReqTypeOK
  <2>3. Shaped(r)' /\ EditLocked(r)' /\ Proved(r)'
    BY <1>2, <2>1, <2>2 DEF Shaped, EditLocked, Proved, InSession
  <2>4. There(r)'
    BY <1>1, <1>6, <2>1 DEF There, InSession, reqVars
  <2> QED BY <2>3, <2>4 DEF ReqInv
<1>8. \A q \in Requests \ {r} :
        Same(q) /\ \A j \in Creds : credHolder[j] = q => credHolder'[j] = q
  BY <1>1, <1>2, <1>4, CredAssumption DEF Same, CredTypeOK, ReqTypeOK, reqVars
<1> QED BY <1>2, <1>5, <1>7, <1>8, LocalPreserves

\* What the end of a request does to it and to the others.
LEMMA IdleTypes ==
  ASSUME TypeOK, NEW r \in Requests, Idle(r)
  PROVE  /\ row' \in [Requests -> Hosts \cup Creds \cup {None}]
         /\ oldType' \in [Requests -> Types \cup {None}]
         /\ credHolder' \in [Creds -> Requests \cup {None}]
         /\ \A q \in Requests \ {r} :
              /\ row'[q] = row[q] /\ oldType'[q] = oldType[q]
              /\ \A k \in Creds : credHolder[k] = q => credHolder'[k] = q
BY DEF TypeOK, CredTypeOK, ReqTypeOK, Idle

LEMMA DoneTypes ==
  ASSUME TypeOK, NEW r \in Requests, pc' = [pc EXCEPT ![r] = "idle"], Done(r)
  PROVE  /\ ReqTypeOK' /\ gone'[r] = {} /\ pc'[r] = "idle"
         /\ oldType' \in [Requests -> Types \cup {None}]
         /\ credHolder' \in [Creds -> Requests \cup {None}]
         /\ \A q \in Requests \ {r} :
              Same(q) /\ \A k \in Creds : credHolder[k] = q => credHolder'[k] = q
<1>1. Idle(r)
  BY DEF Done
<1>2. \A q \in Requests \ {r} : Same(q)
  BY <1>1, IdleTypes DEF Done, TypeOK, ReqTypeOK, Same
<1>3. ReqTypeOK' /\ gone'[r] = {} /\ pc'[r] = "idle"
  BY <1>1, IdleTypes DEF Done, TypeOK, ReqTypeOK
<1> QED BY <1>1, <1>2, <1>3, IdleTypes

LEMMA EndPreserves ==
  ASSUME IInv, NEW r \in Requests, End(r)
  PROVE  IInv' /\ Deleted' = Deleted
<1>1. TypeOK /\ pc' = [pc EXCEPT ![r] = "idle"] /\ Done(r)
      /\ UNCHANGED <<secret, changes, rowVars, dns, approved>>
  BY DEF IInv, End
<1>2. CredTypeOK'
  BY <1>1, DoneTypes DEF TypeOK, CredTypeOK
<1>3. ReqInv(r)'
  BY <1>1, DoneTypes, IdleKnows
<1> QED BY <1>1, <1>2, <1>3, DoneTypes, LocalPreserves

-----------------------------------------------------------------------------
(* Steps that write a row                                                  *)

\* A request that ends with its write knows nothing any more, and the others keep
\* what they know.
LEMMA WritePreserves ==
  ASSUME IInv, TypeOK', SecretsIntact', EnabledHostPinned', Deleted \subseteq Deleted',
         \A q \in Requests :
           \/ pc'[q] = "idle" /\ gone'[q] \subseteq Deleted'
           \/ /\ Same(q)
              /\ pc[q] = "edit" => /\ credHolder'[row[q]] = credHolder[row[q]]
                                   /\ secret'[row[q]] = secret[row[q]]
  PROVE  IInv'
<1>1. ASSUME NEW q \in Requests PROVE ReqInv(q)'
  <2>1. CASE pc'[q] = "idle" /\ gone'[q] \subseteq Deleted'
    BY <2>1, IdleKnows
  <2>2. CASE /\ Same(q)
             /\ pc[q] = "edit" => /\ credHolder'[row[q]] = credHolder[row[q]]
                                  /\ secret'[row[q]] = secret[row[q]]
    BY <2>2, OthersKeep DEF IInv
  <2> QED BY <2>1, <2>2
<1> QED BY <1>1 DEF IInv

LEMMA PlacePreserves ==
  ASSUME IInv, Place
  PROVE  IInv' /\ Deleted \subseteq Deleted'
<1>1. CredTypeOK /\ RowTypeOK /\ ReqTypeOK /\ SecretsIntact /\ EnabledHostPinned
  BY DEF IInv, TypeOK
<1>2. UNCHANGED <<credVars, pc, row, host, connection, dns, reqVars, approved>>
  BY DEF Place
<1>3. /\ location' \in [Locations -> States]
      /\ \A l \in Locations : location[l] = "deleted" => location'[l] = "deleted"
  <2>1. ASSUME NEW l \in Locations, CreateLocation(l) PROVE <1>3!1 /\ <1>3!2
    BY <1>1, <2>1 DEF CreateLocation, RowTypeOK, States
  <2>2. ASSUME NEW l \in Locations, EditLocation(l) PROVE <1>3!1 /\ <1>3!2
    BY <1>1, <2>2 DEF EditLocation, RowTypeOK, States, Present, Alive
  <2>3. ASSUME NEW n \in Networks, AddNetwork(n) \/ EditNetwork(n) \/ RemoveNetwork(n)
        PROVE <1>3!1 /\ <1>3!2
    BY <1>1, <2>3 DEF AddNetwork, EditNetwork, RemoveNetwork, RowTypeOK
  <2> QED BY <2>1, <2>2, <2>3 DEF Place
<1>4. network' \in [Networks -> {AbsentNetwork}
                                \cup [state : Present, location : Locations, cidr : Cidrs]]
  <2> DEFINE Row == [state : Present, location : Locations, cidr : Cidrs]
  <2>1. ASSUME NEW l \in Locations, CreateLocation(l) \/ EditLocation(l)
        PROVE  network' \in [Networks -> {AbsentNetwork} \cup Row]
    BY <1>1, <2>1 DEF CreateLocation, EditLocation, RowTypeOK
  <2>2. ASSUME NEW n \in Networks, AddNetwork(n) \/ EditNetwork(n)
        PROVE  network' \in [Networks -> {AbsentNetwork} \cup Row]
    <3>1. PICK s \in {"on", "off"}, l \in Locations, c \in Cidrs :
            network' = [network EXCEPT ![n] = [state |-> s, location |-> l, cidr |-> c]]
      BY <2>2 DEF AddNetwork, EditNetwork
    <3>2. [state |-> s, location |-> l, cidr |-> c] \in Row
      BY DEF Present, States
    <3> QED BY <1>1, <3>1, <3>2 DEF RowTypeOK
  <2>3. ASSUME NEW n \in Networks, RemoveNetwork(n)
        PROVE  network' \in [Networks -> {AbsentNetwork} \cup Row]
    <3>1. network[n] \in Row
      BY <1>1, <2>3 DEF RemoveNetwork, RowTypeOK, AbsentNetwork, Alive
    <3>2. [network[n] EXCEPT !.state = "deleted"] \in Row
      BY <3>1 DEF Present, States
    <3>3. network' = [network EXCEPT ![n] = [network[n] EXCEPT !.state = "deleted"]]
      BY <1>1, <2>3 DEF RemoveNetwork, RowTypeOK
    <3> QED BY <1>1, <3>2, <3>3 DEF RowTypeOK
  <2> QED BY <2>1, <2>2, <2>3 DEF Place
<1>5. changes' \in 0..MaxChanges
  <2>1. changes' = changes \/ (changes < MaxChanges /\ changes' = changes + 1)
    BY DEF Place, CreateLocation, EditLocation, AddNetwork, EditNetwork, RemoveNetwork, Change
  <2> QED BY <1>1, <2>1, ChangesAssumption DEF CredTypeOK
<1>6. TypeOK'
  BY <1>1, <1>2, <1>3, <1>4, <1>5
     DEF TypeOK, CredTypeOK, RowTypeOK, ReqTypeOK, credVars, reqVars
<1>7. Deleted \subseteq Deleted'
  BY <1>2, <1>3 DEF Deleted, credVars
<1>8. SecretsIntact' /\ EnabledHostPinned'
  BY <1>1, <1>2 DEF SecretsIntact, EnabledHostPinned, credVars
<1>9. \A q \in Requests :
        /\ Same(q) /\ credHolder'[row[q]] = credHolder[row[q]] /\ secret'[row[q]] = secret[row[q]]
  BY <1>2 DEF Same, credVars, reqVars
<1> QED BY <1>6, <1>7, <1>8, <1>9, WritePreserves

\* The last step of a request that saves a host or a connection.
LEMMA SavePreserves ==
  ASSUME IInv, NEW r \in Requests, pc' = [pc EXCEPT ![r] = "idle"], Done(r),
         RowTypeOK', EnabledHostPinned', Deleted \subseteq Deleted',
         secret' = secret, changes' \in 0..MaxChanges
  PROVE  IInv'
<1>1. TypeOK /\ SecretsIntact
  BY DEF IInv
<1>2. TypeOK' /\ SecretsIntact'
  BY <1>1, DoneTypes DEF TypeOK, CredTypeOK, SecretsIntact
<1>3. ASSUME NEW q \in Requests
      PROVE  \/ pc'[q] = "idle" /\ gone'[q] \subseteq Deleted'
             \/ /\ Same(q)
                /\ pc[q] = "edit" => /\ credHolder'[row[q]] = credHolder[row[q]]
                                     /\ secret'[row[q]] = secret[row[q]]
  <2>1. CASE q = r
    BY <1>1, <2>1, DoneTypes
  <2>2. CASE q # r
    <3>1. Same(q) /\ \A k \in Creds : credHolder[k] = q => credHolder'[k] = q
      BY <1>1, <2>2, DoneTypes
    <3>2. pc[q] = "edit" => row[q] \in Creds /\ credHolder[row[q]] = q
      BY DEF IInv, ReqInv, Shaped, EditLocked
    <3> QED BY <3>1, <3>2
  <2> QED BY <2>1, <2>2
<1> QED BY <1>2, <1>3, WritePreserves

LEMMA ChangeBounded == IInv /\ (Change \/ changes' = changes) => changes' \in 0..MaxChanges
BY ChangesAssumption DEF IInv, TypeOK, CredTypeOK, Change

\* A host that is saved enabled has been validated for what it gets.
LEMMA SaveHostPreserves ==
  ASSUME IInv, NEW r \in Requests, InsertHost(r) \/ UpdateHost(r)
  PROVE  IInv' /\ Deleted \subseteq Deleted'
<1>1. TypeOK /\ RowTypeOK /\ ReqTypeOK /\ EnabledHostPinned /\ Shaped(r) /\ Proved(r)
  BY DEF IInv, TypeOK, ReqInv
<1>2. /\ pc[r] = "write" /\ pc' = [pc EXCEPT ![r] = "idle"] /\ Done(r)
      /\ UNCHANGED <<secret, location, network, connection, dns>>
      /\ changes' \in 0..MaxChanges
  BY ChangeBounded DEF InsertHost, UpdateHost, Goto
<1>3. PICK h \in Hosts :
        /\ host[h].state # "deleted"
        /\ host' = [host EXCEPT ![h] = want[r]] /\ approved' = [approved EXCEPT ![h] = proof[r]]
  <2>1. CASE InsertHost(r)
    BY <2>1 DEF InsertHost
  <2>2. CASE UpdateHost(r)
    <3>1. row[r] \in Hosts
      BY <1>1, <1>2, <2>2 DEF UpdateHost, Shaped
    <3> QED BY <2>2, <3>1 DEF UpdateHost, Alive
  <2> QED BY <2>1, <2>2
<1>4. /\ want[r] \in HostRows
      /\ want[r].state = "on" => proof[r] = At(want[r])
      /\ proof[r] \in Destination \cup {None}
  BY <1>1, <1>2 DEF Shaped, Proved, HostValues, HostRows, Present, States, ReqTypeOK
<1>5. RowTypeOK'
  BY <1>1, <1>2, <1>3, <1>4 DEF RowTypeOK
<1>6. EnabledHostPinned'
  BY <1>1, <1>3, <1>4 DEF RowTypeOK, EnabledHostPinned, At
<1>7. Deleted \subseteq Deleted'
  <2>1. \A g \in Hosts : host[g].state = "deleted" => host'[g].state = "deleted"
    BY <1>1, <1>3 DEF RowTypeOK
  <2> QED BY <1>2, <2>1 DEF Deleted
<1> QED BY <1>2, <1>5, <1>6, <1>7, SavePreserves

LEMMA SaveConnectionPreserves ==
  ASSUME IInv, NEW r \in Requests, InsertConnection(r) \/ UpdateConnection(r)
  PROVE  IInv' /\ Deleted \subseteq Deleted'
<1>1. TypeOK /\ RowTypeOK /\ ReqTypeOK /\ EnabledHostPinned /\ Shaped(r)
  BY DEF IInv, TypeOK, ReqInv
<1>2. /\ pc[r] = "save" /\ pc' = [pc EXCEPT ![r] = "idle"] /\ Done(r)
      /\ UNCHANGED <<secret, location, network, host, dns, approved>>
      /\ changes' \in 0..MaxChanges
  BY ChangeBounded DEF InsertConnection, UpdateConnection, Goto
<1>3. PICK c \in Connections :
        connection[c].state # "deleted" /\ connection' = [connection EXCEPT ![c] = target[r]]
  <2>1. CASE InsertConnection(r)
    BY <2>1 DEF InsertConnection
  <2>2. CASE UpdateConnection(r)
    <3>1. ref[r] \in Connections
      BY <1>1, <1>2, <2>2 DEF UpdateConnection, Shaped
    <3> QED BY <2>2, <3>1 DEF UpdateConnection, Alive
  <2> QED BY <2>1, <2>2
<1>4. target[r] \in ConnectionRows
  BY <1>1, <1>2 DEF Shaped
<1>5. RowTypeOK' /\ EnabledHostPinned'
  BY <1>1, <1>2, <1>3, <1>4 DEF RowTypeOK, EnabledHostPinned
<1>6. Deleted \subseteq Deleted'
  <2>1. \A d \in Connections : connection[d].state = "deleted" => connection'[d].state = "deleted"
    BY <1>1, <1>3 DEF RowTypeOK
  <2> QED BY <1>2, <2>1 DEF Deleted
<1> QED BY <1>2, <1>5, <1>6, SavePreserves

LEMMA RemovePreserves ==
  ASSUME IInv, Redirect \/ (\E h \in Hosts : RemoveHost(h)) \/ \E c \in Connections : RemoveConnection(c)
  PROVE  IInv' /\ Deleted \subseteq Deleted'
<1>1. CredTypeOK /\ RowTypeOK /\ ReqTypeOK /\ SecretsIntact /\ EnabledHostPinned
  BY DEF IInv, TypeOK
<1>2. /\ UNCHANGED <<credVars, pc, row, location, network, reqVars, approved>>
      /\ changes' \in 0..MaxChanges
  BY ChangeBounded DEF Redirect, RemoveHost, RemoveConnection, rowVars
<1>3. /\ RowTypeOK'
      /\ \A h \in Hosts : host'[h] = host[h] \/ host'[h].state = "deleted"
      /\ \A c \in Connections : connection'[c] = connection[c] \/ connection'[c].state = "deleted"
  <2>1. CASE Redirect
    <3>1. UNCHANGED rowVars /\ dns' \in [DnsNames -> Answers]
      BY <1>1, <2>1 DEF Redirect, RowTypeOK
    <3> QED BY <1>1, <1>2, <3>1 DEF RowTypeOK, rowVars
  <2>2. ASSUME NEW h \in Hosts, RemoveHost(h)
        PROVE  host' \in [Hosts -> {AbsentHost} \cup HostRows] /\ UNCHANGED <<connection, dns>>
               /\ \A g \in Hosts : host'[g] = host[g] \/ host'[g].state = "deleted"
    <3>1. host[h] \in HostRows
      BY <1>1, <2>2 DEF RemoveHost, RowTypeOK, AbsentHost, Alive
    <3>2. [host[h] EXCEPT !.state = "deleted"] \in HostRows
      BY <3>1 DEF HostRows, Present, States
    <3>3. [host[h] EXCEPT !.state = "deleted"].state = "deleted"
      BY <3>1 DEF HostRows
    <3>4. host' = [host EXCEPT ![h] = [host[h] EXCEPT !.state = "deleted"]]
      BY <1>1, <2>2 DEF RemoveHost, RowTypeOK
    <3> QED BY <1>1, <2>2, <3>2, <3>3, <3>4 DEF RemoveHost, RowTypeOK
  <2>3. ASSUME NEW c \in Connections, RemoveConnection(c)
        PROVE  connection' \in [Connections -> {AbsentConnection} \cup ConnectionRows]
               /\ UNCHANGED <<host, dns>>
               /\ \A d \in Connections :
                    connection'[d] = connection[d] \/ connection'[d].state = "deleted"
    <3>1. connection[c] \in ConnectionRows
      BY <1>1, <2>3 DEF RemoveConnection, RowTypeOK, AbsentConnection, Alive
    <3>2. [connection[c] EXCEPT !.state = "deleted"] \in ConnectionRows
      BY <3>1 DEF ConnectionRows, Present, States
    <3>3. [connection[c] EXCEPT !.state = "deleted"].state = "deleted"
      BY <3>1 DEF ConnectionRows
    <3>4. connection' = [connection EXCEPT ![c] = [connection[c] EXCEPT !.state = "deleted"]]
      BY <1>1, <2>3 DEF RemoveConnection, RowTypeOK
    <3> QED BY <1>1, <2>3, <3>2, <3>3, <3>4 DEF RemoveConnection, RowTypeOK
  <2> QED BY <1>1, <1>2, <2>1, <2>2, <2>3 DEF RowTypeOK
<1>4. TypeOK'
  BY <1>1, <1>2, <1>3 DEF TypeOK, CredTypeOK, ReqTypeOK, credVars, reqVars
<1>5. Deleted \subseteq Deleted'
  BY <1>2, <1>3 DEF Deleted, credVars
<1>6. SecretsIntact' /\ EnabledHostPinned'
  BY <1>1, <1>2, <1>3 DEF SecretsIntact, EnabledHostPinned, credVars
<1>7. \A q \in Requests :
        Same(q) /\ credHolder'[row[q]] = credHolder[row[q]] /\ secret'[row[q]] = secret[row[q]]
  BY <1>2 DEF Same, credVars, reqVars
<1> QED BY <1>4, <1>5, <1>6, <1>7, WritePreserves

-----------------------------------------------------------------------------
(* Steps that write a stored secret                                        *)

Places == {"idle", "edit", "rotate", "networks", "resolve", "write", "exists",
           "credential", "save", "find", "metadata", "retrieve", "open"}
Secrets == [state : Present, type : Types, version : {1, 2}, sealed : Seals \cup {None}]

\* A write of one secret that nobody else has locked.
LEMMA SecretPreserves ==
  ASSUME IInv, NEW k \in Creds, NEW s \in Secrets,
         secret' = [secret EXCEPT ![k] = s],
         Alive(s.state) => s.sealed = Seal(s.type, s.version),
         s.state = "deleted" => s.sealed = None,
         secret[k].state = "deleted" => s.state = "deleted",
         UNCHANGED <<rowVars, dns, reqVars, approved>>, changes' \in 0..MaxChanges,
         credHolder' \in [Creds -> Requests \cup {None}],
         oldType' \in [Requests -> Types \cup {None}],
         row' \in [Requests -> Hosts \cup Creds \cup {None}], pc' \in [Requests -> Places],
         \A q \in Requests :
           \/ pc'[q] = "idle"
           \/ /\ pc'[q] = pc[q] /\ row'[q] = row[q] /\ oldType'[q] = oldType[q]
              /\ \A j \in Creds : credHolder[j] = q => credHolder'[j] = q
              /\ pc[q] = "edit" => row[q] # k
  PROVE  IInv' /\ Deleted \subseteq Deleted'
<1>1. CredTypeOK /\ RowTypeOK /\ ReqTypeOK /\ SecretsIntact /\ EnabledHostPinned
  BY DEF IInv, TypeOK
<1>2. \A j \in Creds : secret'[j] = IF j = k THEN s ELSE secret[j]
  BY <1>1 DEF CredTypeOK
<1>3. Deleted \subseteq Deleted'
  BY <1>2 DEF Deleted, rowVars
<1>4. TypeOK'
  <2>1. CredTypeOK'
    BY <1>1 DEF CredTypeOK, Secrets
  <2> QED BY <1>1, <2>1 DEF Places, TypeOK, RowTypeOK, ReqTypeOK, rowVars, reqVars
<1>5. SecretsIntact' /\ EnabledHostPinned'
  BY <1>1, <1>2 DEF SecretsIntact, EnabledHostPinned, rowVars
<1>6. ASSUME NEW q \in Requests
      PROVE  \/ pc'[q] = "idle" /\ gone'[q] \subseteq Deleted'
             \/ /\ Same(q)
                /\ pc[q] = "edit" => /\ credHolder'[row[q]] = credHolder[row[q]]
                                     /\ secret'[row[q]] = secret[row[q]]
  <2>1. gone'[q] \subseteq Deleted' /\ (pc[q] = "edit" => row[q] \in Creds /\ credHolder[row[q]] = q)
    BY <1>3 DEF IInv, ReqInv, There, Shaped, EditLocked, reqVars
  <2>2. CASE pc'[q] = "idle"
    BY <2>1, <2>2
  <2>3. CASE pc'[q] # "idle"
    BY <1>2, <2>1, <2>3 DEF Same, reqVars
  <2> QED BY <2>2, <2>3
<1> QED BY <1>3, <1>4, <1>5, <1>6, WritePreserves

LEMMA StorePreserves ==
  ASSUME IInv, NEW k \in Creds, Store(k), UNCHANGED <<rowVars, dns, reqVars, approved>>
  PROVE  IInv' /\ Deleted \subseteq Deleted'
<1>1. CredTypeOK /\ ReqTypeOK
  BY DEF IInv, TypeOK
<1>2. PICK t \in Types :
        secret' = [secret EXCEPT ![k] = [state |-> "on", type |-> t, version |-> 1,
                                         sealed |-> Seal(t, 1)]]
  BY DEF Store
<1> DEFINE s == [state |-> "on", type |-> t, version |-> 1, sealed |-> Seal(t, 1)]
<1>3. s \in Secrets
  BY DEF Secrets, Seals, Seal, Present, States
<1>4. secret[k].state = "absent" /\ UNCHANGED <<credHolder, oldType, pc, row, changes>>
  BY DEF Store
<1>5. \A q \in Requests : pc[q] = "edit" => row[q] # k
  BY <1>4 DEF IInv, ReqInv, EditLocked, Alive
<1>6. /\ changes' \in 0..MaxChanges /\ pc' \in [Requests -> Places]
      /\ credHolder' \in [Creds -> Requests \cup {None}]
      /\ oldType' \in [Requests -> Types \cup {None}]
      /\ row' \in [Requests -> Hosts \cup Creds \cup {None}]
  BY <1>1, <1>4 DEF CredTypeOK, ReqTypeOK, Places
<1> QED BY <1>2, <1>3, <1>4, <1>5, <1>6, SecretPreserves

LEMMA DeletePreserves ==
  ASSUME IInv, NEW k \in Creds, Delete(k), UNCHANGED <<rowVars, dns, reqVars, approved>>
  PROVE  IInv' /\ Deleted \subseteq Deleted'
<1>1. CredTypeOK /\ ReqTypeOK
  BY DEF IInv, TypeOK
<1>2. /\ Alive(secret[k].state) /\ credHolder[k] = None
      /\ UNCHANGED <<credHolder, oldType, pc, row>>
  BY DEF Delete
<1>3. secret[k] \in Secrets
  BY <1>1, <1>2 DEF CredTypeOK, Secrets, AbsentSecret, Alive
<1> DEFINE s == [secret[k] EXCEPT !.state = "deleted", !.sealed = None]
<1>4. s \in Secrets /\ s.state = "deleted" /\ s.sealed = None
  BY <1>3 DEF Secrets, Present, States
<1>5. secret' = [secret EXCEPT ![k] = s]
  BY <1>1 DEF Delete, CredTypeOK
<1>6. \A q \in Requests : pc[q] = "edit" => row[q] # k
  BY <1>2, CredAssumption DEF IInv, ReqInv, EditLocked
<1>7. /\ changes' \in 0..MaxChanges /\ pc' \in [Requests -> Places]
      /\ credHolder' \in [Creds -> Requests \cup {None}]
      /\ oldType' \in [Requests -> Types \cup {None}]
      /\ row' \in [Requests -> Hosts \cup Creds \cup {None}]
  BY <1>1, <1>2, ChangeBounded DEF CredTypeOK, ReqTypeOK, Delete, Places
<1> HIDE DEF s
<1> QED BY <1>2, <1>4, <1>5, <1>6, <1>7, SecretPreserves DEF Alive

\* The type an edit compares with is still that of the row, which it has locked: a
\* value that stays is sealed for the type that stays.
LEMMA EditPreserves ==
  ASSUME IInv, NEW r \in Requests, Edit(r), UNCHANGED <<rowVars, dns, reqVars, approved>>
  PROVE  IInv' /\ Deleted \subseteq Deleted'
<1> DEFINE k == row[r]
<1>1. TypeOK /\ CredTypeOK /\ ReqTypeOK /\ Shaped(r) /\ EditLocked(r) /\ SecretsIntact
  BY DEF IInv, TypeOK, ReqInv
<1>2. pc[r] = "edit" /\ pc' = [pc EXCEPT ![r] = "idle"] /\ Idle(r) /\ changes' \in 0..MaxChanges
  BY ChangeBounded DEF Edit, Goto
<1>3. /\ k \in Creds /\ credHolder[k] = r /\ oldType[r] = secret[k].type
      /\ Alive(secret[k].state)
  BY <1>1, <1>2 DEF Shaped, EditLocked
<1>4. secret[k] \in Secrets /\ secret[k].sealed = Seal(secret[k].type, secret[k].version)
  BY <1>1, <1>3 DEF CredTypeOK, Secrets, AbsentSecret, Alive, SecretsIntact
<1>5. PICK t \in Types, x \in {"on", "off"}, v \in BOOLEAN :
        /\ t # oldType[r] => v
        /\ secret' = [secret EXCEPT ![k] =
             [state |-> IF secret[k].state = "deleted" THEN "deleted" ELSE x,
              type |-> t,
              version |-> IF v THEN 1 ELSE secret[k].version,
              sealed |-> IF v THEN Seal(t, 1) ELSE secret[k].sealed]]
  BY <1>1, <1>3 DEF Edit, CredTypeOK
<1> DEFINE s == [state |-> IF secret[k].state = "deleted" THEN "deleted" ELSE x,
                 type |-> t,
                 version |-> IF v THEN 1 ELSE secret[k].version,
                 sealed |-> IF v THEN Seal(t, 1) ELSE secret[k].sealed]
<1>6. s \in Secrets /\ s.sealed = Seal(s.type, s.version) /\ s.state # "deleted"
      /\ secret[k].state # "deleted"
  BY <1>3, <1>4, <1>5 DEF Secrets, Seals, Seal, Present, States, Alive
<1>7. \A q \in Requests \ {r} : pc[q] = "edit" => row[q] # k
  BY <1>3 DEF IInv, ReqInv, EditLocked
<1>8. /\ pc' \in [Requests -> Places] /\ pc'[r] = "idle"
      /\ \A q \in Requests \ {r} : pc'[q] = pc[q]
  BY <1>1, <1>2 DEF ReqTypeOK, Places
<1>9. secret' = [secret EXCEPT ![k] = s]
  BY <1>5
<1>10. /\ row' \in [Requests -> Hosts \cup Creds \cup {None}]
       /\ oldType' \in [Requests -> Types \cup {None}]
       /\ credHolder' \in [Creds -> Requests \cup {None}]
       /\ \A q \in Requests \ {r} :
            /\ row'[q] = row[q] /\ oldType'[q] = oldType[q]
            /\ \A j \in Creds : credHolder[j] = q => credHolder'[j] = q
  BY <1>1, <1>2, IdleTypes
<1>11. \A q \in Requests :
         \/ pc'[q] = "idle"
         \/ /\ pc'[q] = pc[q] /\ row'[q] = row[q] /\ oldType'[q] = oldType[q]
            /\ \A j \in Creds : credHolder[j] = q => credHolder'[j] = q
            /\ pc[q] = "edit" => row[q] # k
  BY <1>7, <1>8, <1>10
<1>12. /\ Alive(s.state) => s.sealed = Seal(s.type, s.version)
       /\ s.state = "deleted" => s.sealed = None
       /\ secret[k].state = "deleted" => s.state = "deleted"
  BY <1>6
<1> HIDE DEF s, k
<1> QED BY <1>2, <1>3, <1>6, <1>8, <1>9, <1>10, <1>11, <1>12, SecretPreserves

LEMMA RotatePreserves ==
  ASSUME IInv, NEW r \in Requests, RotateWrite(r), UNCHANGED <<rowVars, dns, reqVars, approved>>
  PROVE  IInv' /\ Deleted \subseteq Deleted'
<1> DEFINE k == row[r]
<1>1. TypeOK /\ CredTypeOK /\ ReqTypeOK /\ Shaped(r)
  BY DEF IInv, TypeOK, ReqInv
<1>2. /\ pc[r] = "rotate" /\ pc' = [pc EXCEPT ![r] = "idle"] /\ Idle(r)
      /\ changes' \in 0..MaxChanges
      /\ Alive(secret[k].state) /\ credHolder[k] = None
  BY ChangeBounded DEF RotateWrite, Goto
<1>3. k \in Creds
  BY <1>1, <1>2 DEF Shaped
<1>4. secret[k] \in Secrets
  BY <1>1, <1>2, <1>3 DEF CredTypeOK, Secrets, AbsentSecret, Alive
<1>5. PICK t \in Types :
        secret' = [secret EXCEPT ![k] =
                     [secret[k] EXCEPT !.type = t, !.version = 2, !.sealed = Seal(t, 2)]]
  BY <1>1, <1>3 DEF RotateWrite, CredTypeOK
<1> DEFINE s == [secret[k] EXCEPT !.type = t, !.version = 2, !.sealed = Seal(t, 2)]
<1>6. s \in Secrets /\ s.sealed = Seal(s.type, s.version) /\ s.state = secret[k].state
      /\ s.state # "deleted"
  BY <1>2, <1>4, <1>5 DEF Secrets, Seals, Seal, Alive
<1>7. \A q \in Requests \ {r} : pc[q] = "edit" => row[q] # k
  BY <1>2, CredAssumption DEF IInv, ReqInv, EditLocked
<1>8. /\ pc' \in [Requests -> Places] /\ pc'[r] = "idle"
      /\ \A q \in Requests \ {r} : pc'[q] = pc[q]
  BY <1>1, <1>2 DEF ReqTypeOK, Places
<1>9. secret' = [secret EXCEPT ![k] = s]
  BY <1>5
<1>10. /\ row' \in [Requests -> Hosts \cup Creds \cup {None}]
       /\ oldType' \in [Requests -> Types \cup {None}]
       /\ credHolder' \in [Creds -> Requests \cup {None}]
       /\ \A q \in Requests \ {r} :
            /\ row'[q] = row[q] /\ oldType'[q] = oldType[q]
            /\ \A j \in Creds : credHolder[j] = q => credHolder'[j] = q
  BY <1>1, <1>2, IdleTypes
<1>11. \A q \in Requests :
         \/ pc'[q] = "idle"
         \/ /\ pc'[q] = pc[q] /\ row'[q] = row[q] /\ oldType'[q] = oldType[q]
            /\ \A j \in Creds : credHolder[j] = q => credHolder'[j] = q
            /\ pc[q] = "edit" => row[q] # k
  BY <1>7, <1>8, <1>10
<1>12. /\ Alive(s.state) => s.sealed = Seal(s.type, s.version)
       /\ s.state = "deleted" => s.sealed = None
       /\ secret[k].state = "deleted" => s.state = "deleted"
  BY <1>6
<1> HIDE DEF s, k
<1> QED BY <1>2, <1>3, <1>6, <1>8, <1>9, <1>10, <1>11, <1>12, SecretPreserves

-----------------------------------------------------------------------------

LEMMA CredPreserves ==
  ASSUME IInv, CredNext, UNCHANGED <<rowVars, dns, reqVars, approved>>
  PROVE  IInv' /\ Deleted \subseteq Deleted'
<1>1. ASSUME NEW k \in Creds, Store(k) \/ Delete(k) PROVE IInv' /\ Deleted \subseteq Deleted'
  BY <1>1, StorePreserves, DeletePreserves
<1>2. ASSUME NEW r \in Requests, Edit(r) \/ RotateWrite(r) \/ Retrieve(r)
      PROVE  IInv' /\ Deleted \subseteq Deleted'
  BY <1>2, EditPreserves, RotatePreserves, AcceptPreserves
<1>3. ASSUME NEW r \in Requests, NEW k \in Creds, EditLock(r, k) \/ RotateRead(r, k)
      PROVE  IInv' /\ Deleted \subseteq Deleted'
  BY <1>3, BeginSecretPreserves
<1> QED BY <1>1, <1>2, <1>3 DEF CredNext

LEMMA StepPreserves == IInv /\ [Next]_vars => IInv' /\ Deleted \subseteq Deleted'
<1> SUFFICES ASSUME IInv, [Next]_vars PROVE IInv' /\ Deleted \subseteq Deleted'
  OBVIOUS
<1>1. CASE UNCHANGED vars
  <2>1. TypeOK' /\ SecretsIntact' /\ EnabledHostPinned' /\ Deleted' = Deleted
    BY <1>1 DEF IInv, TypeOK, CredTypeOK, RowTypeOK, ReqTypeOK, SecretsIntact, EnabledHostPinned,
                Deleted, vars, credVars, rowVars, reqVars
  <2>2. \A q \in Requests :
          Same(q) /\ credHolder'[row[q]] = credHolder[row[q]] /\ secret'[row[q]] = secret[row[q]]
    BY <1>1 DEF Same, vars, credVars, rowVars, reqVars
  <2> QED BY <2>1, <2>2, WritePreserves
<1>2. ASSUME NEW r \in Requests, Request(r) PROVE IInv' /\ Deleted \subseteq Deleted'
  <2>1. CASE ReadNetworks(r) \/ ResolveHost(r) \/ ResolveSession(r) \/ FindHost(r)
    BY <2>1, ReadNetworksPreserves, ResolveHostPreserves, ResolveSessionPreserves, FindHostPreserves
  <2>2. CASE CreateHost(r) \/ \E h \in Hosts : EditHost(r, h)
    BY <2>2, BeginHostPreserves
  <2>3. CASE CreateConnection(r) \/ \E c \in Connections : EditConnection(r, c)
    BY <2>3, BeginConnectionPreserves
  <2>4. CASE InsertHost(r) \/ UpdateHost(r) \/ InsertConnection(r) \/ UpdateConnection(r)
    BY <2>4, SaveHostPreserves, SaveConnectionPreserves
  <2>5. CASE HostExists(r) \/ CredentialExists(r) \/ ReadMetadata(r) \/ End(r)
    BY <2>5, ExistsPreserves, AcceptPreserves, EndPreserves
  <2>6. ASSUME NEW c \in Connections, Session(r, c) PROVE IInv' /\ Deleted \subseteq Deleted'
    BY <2>6, SessionPreserves
  <2> QED BY <1>2, <2>1, <2>2, <2>3, <2>4, <2>5, <2>6 DEF Request
<1> QED BY <1>1, <1>2, PlacePreserves, RemovePreserves, CredPreserves DEF Next

LEMMA Invariance == Spec => []IInv
BY InitHolds, StepPreserves, PTL DEF Spec

\* Every variable keeps its type.
THEOREM InventoryTypes == Spec => []TypeOK
<1>1. IInv => TypeOK
  BY DEF IInv
<1> QED BY Invariance, <1>1, PTL

\* A secret opens with its row until it is deleted, and is erased then.
THEOREM SecretsIntactHolds == Spec => []SecretsIntact
<1>1. IInv => SecretsIntact
  BY DEF IInv
<1> QED BY Invariance, <1>1, PTL

\* An enabled host has the address that was validated for what it has.
THEOREM EnabledHostPinnedHolds == Spec => []EnabledHostPinned
<1>1. IInv => EnabledHostPinned
  BY DEF IInv
<1> QED BY Invariance, <1>1, PTL

\* A session only goes where its host was validated to lead.
THEOREM AcceptedPinnedHolds == Spec => []AcceptedPinned
<1>1. IInv => AcceptedPinned
  BY DEF IInv, ReqInv, Proved, AcceptedPinned, Accepted
<1> QED BY Invariance, <1>1, PTL

\* A session is refused when a row of it had been removed.
THEOREM RemovedRefusedHolds == Spec => []RemovedRefused
<1>1. IInv => RemovedRefused
  BY DEF IInv, ReqInv, There, InSession, RemovedRefused, Accepted
<1> QED BY Invariance, <1>1, PTL

\* No edit brings back what was removed.
THEOREM NoResurrectionHolds == Spec => NoResurrection
<1>1. IInv /\ [Next]_vars => [Deleted \subseteq Deleted']_vars
  BY StepPreserves
<1> QED BY <1>1, Invariance, PTL DEF Spec, NoResurrection
=============================================================================
