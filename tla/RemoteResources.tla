-------------------------- MODULE RemoteResources --------------------------
(***************************************************************************)
(* The rows of the database that decide whether a remote session may run:  *)
(* the connection with the host and the location it names, the credential, *)
(* the trusted SSH keys, and the web sessions of the operators.            *)
(*                                                                         *)
(* Other requests change these rows at any moment.  validateWithTrust      *)
(* (modules/remote/module.go) reads them one query after another, without  *)
(* a transaction, and hashes what it read into a fingerprint.              *)
(***************************************************************************)
EXTENDS Naturals

CONSTANTS
  Owners,        \* web sessions: the cookie whose hash is lease.Owner
  Connections,   \* rows of connections.connections
  Endpoints,     \* protocol, pinned address, port and options of a connection
  SshEndpoints,  \* those whose protocol is ssh
  DriveEndpoints,\* those that are rdp and move files
  Keys,          \* public host keys
  NoKey,         \* no row in connections.ssh_host_keys
  Blocked,       \* disabled or deleted row, or a destination no longer allowed
  MaxEdits       \* bound on the edits the administrators make

ASSUME ResourceAssumption ==
  /\ SshEndpoints \subseteq Endpoints
  /\ DriveEndpoints \subseteq Endpoints \ SshEndpoints
  /\ Blocked \notin Endpoints
  /\ NoKey \notin Keys
  /\ MaxEdits \in Nat

VARIABLES
  endpoint,  \* what connection, host and location say, per connection
  rotation,  \* which secret its credential has: rotated_at, new with each one
  enabled,   \* whether the credential is enabled
  trusted,   \* the key registered for a connection at an SSH endpoint
  revoked,   \* web sessions revoked, or whose user lost the permission
  edits      \* how many edits were made

resourceVars == <<endpoint, rotation, enabled, trusted, revoked, edits>>

\* What validateWithTrust hashes: the connection and host rows, the metadata
\* of the credential (rotated_at among them) and the trusted key.
Fingerprints ==
  [endpoint : Endpoints \cup {Blocked}, rotation : Nat, key : Keys \cup {NoKey}]

NoFingerprint == [endpoint |-> Blocked, rotation |-> 0, key |-> NoKey]

ResourceTypeOK ==
  /\ endpoint \in [Connections -> Endpoints \cup {Blocked}]
  /\ rotation \in [Connections -> Nat]
  /\ enabled \in [Connections -> BOOLEAN]
  /\ trusted \in [Connections -> [Endpoints -> Keys \cup {NoKey}]]
  /\ revoked \subseteq Owners
  /\ edits \in 0..MaxEdits

\* Every connection starts usable; which keys are trusted already is open.
ResourceInit ==
  /\ endpoint \in [Connections -> Endpoints]
  /\ rotation = [c \in Connections |-> 0]
  /\ enabled = [c \in Connections |-> TRUE]
  /\ trusted \in [Connections -> [Endpoints -> Keys \cup {NoKey}]]
  /\ \A c \in Connections, e \in Endpoints \ SshEndpoints : trusted[c][e] = NoKey
  /\ revoked = {}
  /\ edits = 0

-----------------------------------------------------------------------------
(* What validate would answer if it read every row now.                    *)

\* The key storedSSHHostKey hands out; the other protocols have none.
KeyFor(c) == IF endpoint[c] \in SshEndpoints THEN trusted[c][endpoint[c]] ELSE NoKey

Usable(c) ==
  /\ endpoint[c] # Blocked
  /\ enabled[c]
  /\ endpoint[c] \in SshEndpoints => trusted[c][endpoint[c]] # NoKey

CurrentFingerprint(c) ==
  [endpoint |-> endpoint[c], rotation |-> rotation[c], key |-> KeyFor(c)]

-----------------------------------------------------------------------------
(* Edits by other requests.  Each is one committed statement or            *)
(* transaction.  An edit can be undone by a later one, except that         *)
(* rotated_at never takes a value it had before.                           *)

Edit == edits < MaxEdits /\ edits' = edits + 1

\* PUT or DELETE on the connection, its host, its location or a network: the
\* connection leads somewhere else, is blocked, or is unblocked again.
EditEndpoint(c, e) ==
  /\ Edit
  /\ e # endpoint[c]
  /\ endpoint' = [endpoint EXCEPT ![c] = e]
  /\ UNCHANGED <<rotation, enabled, trusted, revoked>>

\* PUT on the credential with a new value; the same transaction writes enabled.
RotateSecret(c, on) ==
  /\ Edit
  /\ rotation' = [rotation EXCEPT ![c] = @ + 1]
  /\ enabled' = [enabled EXCEPT ![c] = on]
  /\ UNCHANGED <<endpoint, trusted, revoked>>

\* PUT on the credential without a new value.
EnableCredential(c, on) ==
  /\ Edit
  /\ on # enabled[c]
  /\ enabled' = [enabled EXCEPT ![c] = on]
  /\ UNCHANGED <<endpoint, rotation, trusted, revoked>>

\* SaveSSHKey commits: first use, or a change an operator approved.
SaveSSHKey(c, e, k) ==
  /\ Edit
  /\ k # trusted[c][e]
  /\ trusted' = [trusted EXCEPT ![c][e] = k]
  /\ UNCHANGED <<endpoint, rotation, enabled, revoked>>

\* Logout, password change or reset, a blocked or removed user, idle expiry,
\* a permission withdrawn.  revoked_at is never cleared.
RevokeOwner(o) ==
  /\ Edit
  /\ o \notin revoked
  /\ revoked' = revoked \cup {o}
  /\ UNCHANGED <<endpoint, rotation, enabled, trusted>>

ResourceNext ==
  \/ \E c \in Connections, e \in Endpoints \cup {Blocked} : EditEndpoint(c, e)
  \/ \E c \in Connections, on \in BOOLEAN : RotateSecret(c, on)
  \/ \E c \in Connections, on \in BOOLEAN : EnableCredential(c, on)
  \/ \E c \in Connections, e \in SshEndpoints, k \in Keys : SaveSSHKey(c, e, k)
  \/ \E o \in Owners : RevokeOwner(o)
=============================================================================
