----------------------------- MODULE Inventory ------------------------------
(***************************************************************************)
(* Locations with their networks, hosts, connections and stored secrets,   *)
(* as requests of administrators write them (modules/locations, hosts,     *)
(* connections, credentials), and the validation of a remote session that  *)
(* reads all of them (validateWithTrust, modules/remote).  Names resolve   *)
(* to whatever DNS answers at the moment (pkg/validation).  Each statement *)
(* is a step; no two of a request share a transaction, except Credentials' *)
(***************************************************************************)
EXTENDS Credentials, FiniteSets

CONSTANTS
  Locations, Networks, Hosts, Connections,   \* ids of rows
  IPs,
  Blocked,         \* addresses no destination may have
  Denied,          \* CONNECTME_REMOTE_DENY_CIDRS
  Cidrs,           \* the sets of addresses networks can be
  DnsNames, Answers,   \* names, and what they can resolve to
  Addresses            \* of hosts: names or IPs

Ids == Locations \cup Networks \cup Hosts \cup Connections \cup Creds

ASSUME InventoryAssumption ==
  /\ Blocked \cup Denied \subseteq IPs /\ Cidrs \cup Answers \subseteq SUBSET IPs
  /\ Addresses \subseteq DnsNames \cup IPs /\ DnsNames \cap IPs = {} /\ None \notin Addresses \cup Ids

\* Rows have ids of their own.
ASSUME IdsAssumption ==
  /\ Locations \cap (Hosts \cup Connections \cup Creds) = {}
  /\ Hosts \cap (Connections \cup Creds) = {}
  /\ Connections \cap Creds = {}

VARIABLES
  location, network, host, connection,   \* the rows
  dns,         \* what the names resolve to
  task,        \* what a request is for
  want,        \* the values a host is to get, or a session has read
  target,      \* the host and the credential a connection is to get, or has
  ref,         \* the connection a request is about
  allowed,     \* the addresses the networks of the location allowed when read
  \* history
  proof,       \* what ValidateDestination has accepted for a request, or for the host it reads
  approved,    \* and for a host by the last edit, None if it does not enable the host
  gone         \* the rows that were deleted when a session's validation began

rowVars == <<location, network, host, connection>>
reqVars == <<task, want, target, ref, allowed, gone, proof>>
stillVars == <<credVars, row, changes, rowVars, dns>>
vars == <<credVars, pc, row, changes, rowVars, dns, reqVars, approved>>

AbsentHost == [state |-> "absent", location |-> None, address |-> None, pinned |-> None]
AbsentNetwork == [state |-> "absent", location |-> None, cidr |-> {}]
AbsentConnection == [state |-> "absent", host |-> None, cred |-> None]
HostRows == [state : Present, location : Locations, address : Addresses, pinned : IPs]
HostValues == [state : {"on", "off"}, location : Locations, address : Addresses,
               pinned : IPs \cup {None}]
ConnectionRows == [state : Present, host : Hosts, cred : Creds]
Destination == [location : Locations, address : Addresses, ip : IPs]
At(v) == [location |-> v.location, address |-> v.address, ip |-> v.pinned]

RowTypeOK ==
  /\ location \in [Locations -> States]
  /\ network \in [Networks -> {AbsentNetwork}
                              \cup [state : Present, location : Locations, cidr : Cidrs]]
  /\ host \in [Hosts -> {AbsentHost} \cup HostRows]
  /\ connection \in [Connections -> {AbsentConnection} \cup ConnectionRows]
  /\ dns \in [DnsNames -> Answers]
  /\ approved \in [Hosts -> Destination \cup {None}]

ReqTypeOK ==
  /\ pc \in [Requests -> {"idle", "edit", "rotate", "networks", "resolve", "write", "exists",
                          "credential", "save", "find", "metadata", "retrieve", "open"}]
  /\ row \in [Requests -> Hosts \cup Creds \cup {None}]
  /\ task \in [Requests -> {"create", "update", "session", "none"}]
  /\ want \in [Requests -> HostValues \cup {None}]
  /\ target \in [Requests -> ConnectionRows \cup {None}]
  /\ ref \in [Requests -> Connections \cup {None}]
  /\ allowed \in [Requests -> SUBSET IPs]
  /\ proof \in [Requests -> Destination \cup {None}]
  /\ gone \in [Requests -> SUBSET Ids]

TypeOK == CredTypeOK /\ RowTypeOK /\ ReqTypeOK

Init ==
  /\ CredInit
  /\ location = [l \in Locations |-> "absent"]
  /\ network = [n \in Networks |-> AbsentNetwork]
  /\ host = [h \in Hosts |-> AbsentHost]
  /\ connection = [c \in Connections |-> AbsentConnection]
  /\ dns \in [DnsNames -> Answers]
  /\ pc = [r \in Requests |-> "idle"]
  /\ row = [r \in Requests |-> None]
  /\ task = [r \in Requests |-> "none"]
  /\ want = [r \in Requests |-> None]
  /\ target = [r \in Requests |-> None]
  /\ ref = [r \in Requests |-> None]
  /\ allowed = [r \in Requests |-> {}]
  /\ gone = [r \in Requests |-> {}]
  /\ proof = [r \in Requests |-> None]
  /\ approved = [h \in Hosts |-> None]

\* The end of a request, answered or failed.
Done(r) ==
  /\ Idle(r)
  /\ task' = [task EXCEPT ![r] = "none"]
  /\ want' = [want EXCEPT ![r] = None]
  /\ target' = [target EXCEPT ![r] = None]
  /\ ref' = [ref EXCEPT ![r] = None]
  /\ allowed' = [allowed EXCEPT ![r] = {}]
  /\ gone' = [gone EXCEPT ![r] = {}]
  /\ proof' = [proof EXCEPT ![r] = None]

-----------------------------------------------------------------------------

(* Locations and networks: one statement each. *)

CreateLocation(l) ==
  /\ location[l] = "absent"
  /\ location' = [location EXCEPT ![l] = "on"]
  /\ UNCHANGED <<changes, network>>

EditLocation(l) ==
  /\ Change
  /\ Alive(location[l])
  /\ \E s \in Present : location' = [location EXCEPT ![l] = s]
  /\ UNCHANGED network

\* The foreign key accepts a deleted location.
AddNetwork(n) ==
  /\ network[n].state = "absent"
  /\ \E l \in Locations, c \in Cidrs :
       /\ location[l] # "absent"
       /\ network' = [network EXCEPT ![n] = [state |-> "on", location |-> l, cidr |-> c]]
  /\ UNCHANGED <<changes, location>>

EditNetwork(n) ==
  /\ Change
  /\ Alive(network[n].state)
  /\ \E l \in Locations, c \in Cidrs, s \in {"on", "off"} :
       /\ location[l] # "absent"
       /\ network' = [network EXCEPT ![n] = [state |-> s, location |-> l, cidr |-> c]]
  /\ UNCHANGED location

RemoveNetwork(n) ==
  /\ Change
  /\ Alive(network[n].state)
  /\ network' = [network EXCEPT ![n].state = "deleted"]
  /\ UNCHANGED location

Place ==
  /\ \/ \E l \in Locations : CreateLocation(l) \/ EditLocation(l)
     \/ \E n \in Networks : AddNetwork(n) \/ EditNetwork(n) \/ RemoveNetwork(n)
  /\ UNCHANGED <<credVars, pc, row, host, connection, dns, reqVars, approved>>

\* A name is given other addresses.
Redirect ==
  /\ Change
  /\ \E n \in DnsNames, a \in Answers : dns' = [dns EXCEPT ![n] = a]
  /\ UNCHANGED <<credVars, pc, row, rowVars, reqVars, approved>>

-----------------------------------------------------------------------------

(* ValidateDestination, for a host or for a session. *)

AllowedIn(l) ==
  UNION {network[n].cidr : n \in {m \in Networks : /\ network[m].state = "on"
                                                   /\ network[m].location = l
                                                   /\ location[l] = "on"}}

ReadNetworks(r) ==
  /\ Goto(r, "networks", "resolve")
  /\ allowed' = [allowed EXCEPT ![r] = AllowedIn(want[r].location)]
  /\ UNCHANGED <<stillVars, task, want, target, ref, gone, proof, approved>>

Answer(a) == IF a \in IPs THEN {a} ELSE dns[a]

\* Every address of the answer has to be allowed, and the first is taken.
Destinations(r) ==
  LET ips == Answer(want[r].address)
  IN IF ips \subseteq allowed[r] \ Blocked THEN ips ELSE {}

ResolveHost(r) ==
  /\ Goto(r, "resolve", "write")
  /\ task[r] # "session"
  /\ \E ip \in Destinations(r) :
       /\ want' = [want EXCEPT ![r].pinned = ip]
       /\ proof' = [proof EXCEPT ![r] = At(want'[r])]
  /\ allowed' = [allowed EXCEPT ![r] = {}]
  /\ UNCHANGED <<stillVars, task, target, ref, gone, approved>>

FaultyResolveSession(r) ==  \* goes to whatever the name resolves to now
  /\ Goto(r, "resolve", "metadata")
  /\ task[r] = "session"
  /\ \E ip \in Destinations(r) \ Denied : want' = [want EXCEPT ![r].pinned = ip]
  /\ allowed' = [allowed EXCEPT ![r] = {}]
  /\ UNCHANGED <<stillVars, task, target, ref, gone, proof, approved>>

\* A session only goes to the address its host was given.
ResolveSession(r) ==
  /\ Goto(r, "resolve", "metadata")
  /\ task[r] = "session"
  /\ want[r].pinned \in Destinations(r) \ Denied
  /\ allowed' = [allowed EXCEPT ![r] = {}]
  /\ UNCHANGED <<stillVars, task, want, target, ref, gone, proof, approved>>

-----------------------------------------------------------------------------

(* Hosts: an edit that enables one validates its address first. *)

CreateHost(r) ==
  /\ Goto(r, "idle", "networks")
  /\ task' = [task EXCEPT ![r] = "create"]
  /\ \E l \in Locations, a \in Addresses :
       want' = [want EXCEPT ![r] = [state |-> "on", location |-> l, address |-> a, pinned |-> None]]
  /\ UNCHANGED <<stillVars, target, ref, allowed, gone, proof, approved>>

EditHost(r, h) ==
  /\ Alive(host[h].state)
  /\ row' = [row EXCEPT ![r] = h]
  /\ task' = [task EXCEPT ![r] = "update"]
  /\ \E l \in Locations, a \in Addresses, s \in {"on", "off"} :
       /\ Goto(r, "idle", IF s = "on" THEN "networks" ELSE "write")
       /\ want' = [want EXCEPT ![r] =
            [state |-> s, location |-> l, address |-> a, pinned |-> host[h].pinned]]
  /\ UNCHANGED <<credVars, changes, rowVars, dns, target, ref, allowed, gone, proof, approved>>

InsertHost(r) ==
  /\ Goto(r, "write", "idle")
  /\ task[r] = "create"
  /\ \E h \in Hosts :
       /\ host[h].state = "absent"
       /\ host' = [host EXCEPT ![h] = want[r]]
       /\ approved' = [approved EXCEPT ![h] = proof[r]]
  /\ Done(r)
  /\ UNCHANGED <<secret, changes, location, network, connection, dns>>

FaultyUpdateHost(r) ==  \* WHERE id=$1
  /\ Goto(r, "write", "idle")
  /\ Change
  /\ task[r] = "update"
  /\ host' = [host EXCEPT ![row[r]] = want[r]]
  /\ approved' = [approved EXCEPT ![row[r]] = proof[r]]
  /\ Done(r)
  /\ UNCHANGED <<secret, location, network, connection, dns>>

UpdateHost(r) ==
  /\ Goto(r, "write", "idle")
  /\ Change
  /\ task[r] = "update"
  /\ Alive(host[row[r]].state)
  /\ host' = [host EXCEPT ![row[r]] = want[r]]
  /\ approved' = [approved EXCEPT ![row[r]] = proof[r]]
  /\ Done(r)
  /\ UNCHANGED <<secret, location, network, connection, dns>>

RemoveHost(h) ==
  /\ Change
  /\ Alive(host[h].state)
  /\ host' = [host EXCEPT ![h].state = "deleted"]
  /\ UNCHANGED <<credVars, pc, row, location, network, connection, dns, reqVars, approved>>

-----------------------------------------------------------------------------

(* Connections: no foreign key leads to the host or to the credential. *)

CreateConnection(r) ==
  /\ Goto(r, "idle", "exists")
  /\ task' = [task EXCEPT ![r] = "create"]
  /\ \E h \in Hosts, k \in Creds :
       target' = [target EXCEPT ![r] = [state |-> "on", host |-> h, cred |-> k]]
  /\ UNCHANGED <<stillVars, want, ref, allowed, gone, proof, approved>>

EditConnection(r, c) ==
  /\ Goto(r, "idle", "exists")
  /\ task' = [task EXCEPT ![r] = "update"]
  /\ ref' = [ref EXCEPT ![r] = c]
  /\ \E h \in Hosts, k \in Creds, s \in {"on", "off"} :
       target' = [target EXCEPT ![r] = [state |-> s, host |-> h, cred |-> k]]
  /\ UNCHANGED <<stillVars, want, allowed, gone, proof, approved>>

HostExists(r) ==
  /\ Goto(r, "exists", "credential")
  /\ target[r].state = "on" => host[target[r].host].state = "on"
  /\ UNCHANGED <<stillVars, reqVars, approved>>

CredentialExists(r) ==
  /\ Goto(r, "credential", "save")
  /\ target[r].state = "on" => secret[target[r].cred].state = "on"
  /\ UNCHANGED <<stillVars, reqVars, approved>>

InsertConnection(r) ==
  /\ Goto(r, "save", "idle")
  /\ task[r] = "create"
  /\ \E c \in Connections :
       connection[c].state = "absent" /\ connection' = [connection EXCEPT ![c] = target[r]]
  /\ Done(r)
  /\ UNCHANGED <<secret, changes, location, network, host, dns, approved>>

UpdateConnection(r) ==
  /\ Goto(r, "save", "idle")
  /\ Change
  /\ task[r] = "update"
  /\ Alive(connection[ref[r]].state)
  /\ connection' = [connection EXCEPT ![ref[r]] = target[r]]
  /\ Done(r)
  /\ UNCHANGED <<secret, location, network, host, dns, approved>>

RemoveConnection(c) ==
  /\ Change
  /\ Alive(connection[c].state)
  /\ connection' = [connection EXCEPT ![c].state = "deleted"]
  /\ UNCHANGED <<credVars, pc, row, location, network, host, dns, reqVars, approved>>

-----------------------------------------------------------------------------

(* A remote session: its connection, then the host of it, the destination, *)
(* and the metadata and the secret of its credential (Credentials).        *)

Deleted == {l \in Locations : location[l] = "deleted"}
           \cup {h \in Hosts : host[h].state = "deleted"}
           \cup {c \in Connections : connection[c].state = "deleted"}
           \cup {k \in Creds : secret[k].state = "deleted"}

Session(r, c) ==
  /\ Goto(r, "idle", "find")
  /\ connection[c].state = "on"
  /\ task' = [task EXCEPT ![r] = "session"]
  /\ ref' = [ref EXCEPT ![r] = c]
  /\ target' = [target EXCEPT ![r] = connection[c]]
  /\ gone' = [gone EXCEPT ![r] = Deleted]
  /\ UNCHANGED <<stillVars, want, allowed, proof, approved>>

FaultyFindHost(r) ==  \* trusts the connection to lead to a host that is there
  /\ Goto(r, "find", "networks")
  /\ host[target[r].host].state # "absent"
  /\ want' = [want EXCEPT ![r] = [host[target[r].host] EXCEPT !.state = "on"]]
  /\ proof' = [proof EXCEPT ![r] = approved[target[r].host]]
  /\ UNCHANGED <<stillVars, task, target, ref, allowed, gone, approved>>

FindHost(r) ==
  /\ Goto(r, "find", "networks")
  /\ host[target[r].host].state = "on"
  /\ want' = [want EXCEPT ![r] = host[target[r].host]]
  /\ proof' = [proof EXCEPT ![r] = approved[target[r].host]]
  /\ UNCHANGED <<stillVars, task, target, ref, allowed, gone, approved>>

ReadMetadata(r) ==
  /\ Metadata(r, target[r].cred)
  /\ UNCHANGED <<rowVars, dns, reqVars, approved>>

\* A request that was refused, that failed or whose session has ended.
End(r) ==
  /\ pc[r] # "idle" /\ pc' = [pc EXCEPT ![r] = "idle"]
  /\ Done(r)
  /\ UNCHANGED <<secret, changes, rowVars, dns, approved>>

Request(r) ==
  \/ ReadNetworks(r) \/ ResolveHost(r) \/ ResolveSession(r)
  \/ CreateHost(r) \/ InsertHost(r) \/ UpdateHost(r)
  \/ CreateConnection(r) \/ HostExists(r) \/ CredentialExists(r)
  \/ InsertConnection(r) \/ UpdateConnection(r)
  \/ FindHost(r) \/ ReadMetadata(r) \/ End(r)
  \/ \E h \in Hosts : EditHost(r, h)
  \/ \E c \in Connections : EditConnection(r, c) \/ Session(r, c)

Next ==
  \/ Place \/ Redirect
  \/ \E h \in Hosts : RemoveHost(h)
  \/ \E c \in Connections : RemoveConnection(c)
  \/ \E r \in Requests : Request(r)
  \/ CredNext /\ UNCHANGED <<rowVars, dns, reqVars, approved>>

Spec == Init /\ [][Next]_vars

-----------------------------------------------------------------------------

\* However edits of a host interleave, one that is enabled has the address that was
\* validated for exactly the location and the name it has (hosts/edit.go:29-45).
EnabledHostPinned == \A h \in Hosts : host[h].state = "on" => approved[h] = At(host[h])

Accepted == {r \in Requests : pc[r] \in {"retrieve", "open"}}

\* A session only leads where its host was validated to lead: not where DNS has
\* turned to since, nor to an address the operator denies (module.go:160-169).
AcceptedPinned ==
  \A r \in Accepted : want[r].pinned \notin Denied \cup Blocked /\ proof[r] = At(want[r])

\* No session is accepted with a row that had been removed when it began, though
\* connections keep leading to hosts and credentials that are no more
\* (connections/edit.go:31-41; validateWithTrust, module.go:152-173).
RemovedRefused ==
  \A r \in Accepted :
    gone[r] \cap {ref[r], target[r].host, target[r].cred, want[r].location} = {}

\* What was removed stays removed, whatever edits of it were under way
\* (the UPDATEs of locations, hosts, connections and credentials).
NoResurrection == [][Deleted \subseteq Deleted']_vars
=============================================================================
