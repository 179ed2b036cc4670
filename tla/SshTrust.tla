------------------------------ MODULE SshTrust ------------------------------
(***************************************************************************)
(* Enrollment of SSH host keys: sshIdentity in                             *)
(* modules/remote/ssh_enrollment.go and SaveSSHKey in                      *)
(* modules/connections/ssh_trust.go.                                       *)
(*                                                                         *)
(* A request reads where the connection leads and which key is trusted     *)
(* there, asks the server for its key, reads again where the connection    *)
(* leads, and stores the key.  Requests run concurrently, administrators   *)
(* edit the rows and servers change their keys meanwhile.  Any query or    *)
(* the probe may fail, in which case the request answers an error.         *)
(*                                                                         *)
(* There is one connection: trust is kept per connection and no step       *)
(* reads or writes that of another.                                        *)
(*                                                                         *)
(* The operators Faulty... are not part of the specification: each is the  *)
(* operator after it with one mistake, for testing the properties.         *)
(***************************************************************************)
EXTENDS Naturals, Sequences

CONSTANTS
  Hosts, Ports, Addresses,
  Keys,       \* public host keys; equal fingerprints mean equal keys
  NoKey,      \* no row in connections.ssh_host_keys
  Requests,   \* goroutines that run sshIdentity
  MaxEdits,   \* bound on edits of rows and changes of server keys
  MaxSaves    \* bound on the keys saved per destination

ASSUME TrustAssumption ==
  /\ Hosts # {} /\ Ports # {} /\ Addresses # {}
  /\ NoKey \notin Keys
  /\ MaxEdits \in Nat /\ MaxSaves \in Nat

VARIABLES
  row,        \* the connection: its host and its port
  pinned,     \* hosts.pinned_ip
  offered,    \* the key the server at a destination presents
  trusted,    \* connections.ssh_host_keys, per destination
  history,    \* connections.ssh_host_key_events, per destination
  edits,
  pc,         \* where a request is
  req         \* what it has read so far

rowVars == <<row, pinned, offered, edits>>
storeVars == <<trusted, history>>
vars == <<rowVars, storeVars, pc, req>>

Rows == [host : Hosts, port : Ports]
Destinations == Addresses \X Ports
Events == [previous : Keys \cup {NoKey}, key : Keys]
\* Approving a key in the place of itself is no approval.
Approvals == {c \in Keys \X Keys : c[1] # c[2]} \cup {<<NoKey, NoKey>>}
Steps == {"host", "key", "probe", "recheck", "rechost", "confirm", "save"}

\* The local variables of sshIdentity: previous and approve of the body, c,
\* h.PinnedIP, the trusted key, the probed key, and the connection that the
\* second validateWithTrust reads.
Reading ==
  [approval : Approvals, conn : Rows, addr : Addresses, previous : Keys \cup {NoKey},
   observed : Keys \cup {NoKey}, again : Rows]

Nothing ==
  [approval |-> <<NoKey, NoKey>>, conn |-> CHOOSE v \in Rows : TRUE,
   addr |-> CHOOSE a \in Addresses : TRUE, previous |-> NoKey, observed |-> NoKey,
   again |-> CHOOSE v \in Rows : TRUE]

\* The destination the connection leads to now, and the one a request read.
Current == <<pinned[row.host], row.port>>
Target(r) == <<req[r].addr, req[r].conn.port>>

TypeOK ==
  /\ row \in Rows
  /\ pinned \in [Hosts -> Addresses]
  /\ offered \in [Destinations -> Keys]
  /\ trusted \in [Destinations -> Keys \cup {NoKey}]
  /\ history \in [Destinations -> Seq(Events)]
  /\ edits \in 0..MaxEdits
  /\ pc \in [Requests -> {"idle"} \cup Steps]
  /\ req \in [Requests -> Reading]

\* No key is trusted in a new installation.
Init ==
  /\ row \in Rows
  /\ pinned \in [Hosts -> Addresses]
  /\ offered \in [Destinations -> Keys]
  /\ trusted = [d \in Destinations |-> NoKey]
  /\ history = [d \in Destinations |-> << >>]
  /\ edits = 0
  /\ pc = [r \in Requests |-> "idle"]
  /\ req = [r \in Requests |-> Nothing]

Goto(r, from, to) == pc[r] = from /\ pc' = [pc EXCEPT ![r] = to]

\* The handler answers.
Answer(r, from) == Goto(r, from, "idle") /\ req' = [req EXCEPT ![r] = Nothing]

-----------------------------------------------------------------------------
(* sshIdentity                                                             *)

\* The body is decoded and validateWithTrust reads the connection.  The body
\* may approve any change, whether or not the panel has shown it.
Begin(r, a) ==
  /\ Goto(r, "idle", "host")
  /\ req' = [req EXCEPT ![r].approval = a, ![r].conn = row]
  /\ UNCHANGED <<rowVars, storeVars>>

ReadHost(r) ==
  /\ Goto(r, "host", "key")
  /\ req' = [req EXCEPT ![r].addr = pinned[req[r].conn.host]]
  /\ UNCHANGED <<rowVars, storeVars>>

ReadKey(r) ==
  /\ Goto(r, "key", "probe")
  /\ req' = [req EXCEPT ![r].previous = trusted[Target(r)]]
  /\ UNCHANGED <<rowVars, storeVars>>

FaultyApproves(r, old, new) ==  \* any approval will do
  old \notin {NoKey, new} => req[r].approval # <<NoKey, NoKey>>

\* A key other than the trusted one needs the approval of exactly this change.
Approves(r, old, new) == old \notin {NoKey, new} => req[r].approval = <<old, new>>

Probe(r) ==
  LET k == offered[Target(r)] IN
  /\ Goto(r, "probe", "recheck")
  /\ Approves(r, req[r].previous, k)
  /\ req' = [req EXCEPT ![r].observed = k]
  /\ UNCHANGED <<rowVars, storeVars>>

\* The answer shows the operator both fingerprints; nothing is stored.
ProbeChanged(r) ==
  /\ Answer(r, "probe")
  /\ ~ Approves(r, req[r].previous, offered[Target(r)])
  /\ UNCHANGED <<rowVars, storeVars>>

\* Recheck after the probe: validateWithTrust reads connection and host again,
RecheckConnection(r) ==
  /\ Goto(r, "recheck", "rechost")
  /\ req' = [req EXCEPT ![r].again = row]
  /\ UNCHANGED <<rowVars, storeVars>>

RecheckHost(r) ==
  /\ Goto(r, "rechost", "confirm")
  /\ pinned[req[r].again.host] = req[r].addr
  /\ UNCHANGED <<rowVars, storeVars, req>>

\* and then the connection is read alone.
Confirm(r) ==
  /\ Goto(r, "confirm", "save")
  /\ row = req[r].conn
  /\ req[r].previous # req[r].observed
  /\ UNCHANGED <<rowVars, storeVars, req>>

\* A key that is trusted already is not stored again.
ConfirmUnchanged(r) ==
  /\ Answer(r, "confirm")
  /\ row = req[r].conn
  /\ req[r].previous = req[r].observed
  /\ UNCHANGED <<rowVars, storeVars>>

\* One transaction: an INSERT when no key was trusted, otherwise an UPDATE of
\* the row that still has the previous key; and the event.
Store(r) ==
  LET d == Target(r) IN
  /\ Len(history[d]) < MaxSaves
  /\ trusted' = [trusted EXCEPT ![d] = req[r].observed]
  /\ history' = [history EXCEPT ![d] =
                   Append(@, [previous |-> req[r].previous, key |-> req[r].observed])]

FaultySave(r) ==  \* whatever is trusted by now
  /\ Answer(r, "save")
  /\ Store(r)
  /\ UNCHANGED rowVars

Save(r) ==
  /\ Answer(r, "save")
  /\ trusted[Target(r)] = req[r].previous
  /\ Store(r)
  /\ UNCHANGED rowVars

\* Every error, the conflicts among them, only answers.
Reject(r) ==
  /\ \E s \in Steps : Answer(r, s)
  /\ UNCHANGED <<rowVars, storeVars>>

Request(r) ==
  \/ \E a \in Approvals : Begin(r, a)
  \/ ReadHost(r) \/ ReadKey(r) \/ Probe(r) \/ ProbeChanged(r)
  \/ RecheckConnection(r) \/ RecheckHost(r) \/ Confirm(r) \/ ConfirmUnchanged(r)
  \/ Save(r) \/ Reject(r)

-----------------------------------------------------------------------------
(* Others                                                                  *)

Edit == edits < MaxEdits /\ edits' = edits + 1

EditConnection(v) ==
  /\ Edit /\ v # row
  /\ row' = v
  /\ UNCHANGED <<pinned, offered, storeVars, pc, req>>

EditHost(h, a) ==
  /\ Edit /\ a # pinned[h]
  /\ pinned' = [pinned EXCEPT ![h] = a]
  /\ UNCHANGED <<row, offered, storeVars, pc, req>>

\* The server at d is reinstalled, or something else answers for it.
Rekey(d, k) ==
  /\ Edit /\ k # offered[d]
  /\ offered' = [offered EXCEPT ![d] = k]
  /\ UNCHANGED <<row, pinned, storeVars, pc, req>>

Next ==
  \/ \E r \in Requests : Request(r)
  \/ \E v \in Rows : EditConnection(v)
  \/ \E h \in Hosts, a \in Addresses : EditHost(h, a)
  \/ \E d \in Destinations, k \in Keys : Rekey(d, k)

Spec == Init /\ [][Next]_vars

-----------------------------------------------------------------------------
(* Properties                                                              *)

\* The events of a destination lead, without gap or fork, from no key to the
\* key trusted now, however enrollments interleave (the compare-and-swap and
\* the event are one transaction in SaveSSHKey).
HistoryAgrees ==
  \A d \in Destinations :
    LET h == history[d] IN
    /\ \A n \in 1..Len(h) : h[n].previous = IF n = 1 THEN NoKey ELSE h[n - 1].key
    /\ trusted[d] = IF h = << >> THEN NoKey ELSE h[Len(h)].key

\* A trusted key is only ever replaced by a request that approves exactly this
\* replacement ("must never silently replace a different host key",
\* modules/connections/ssh_trust.go:20-21).
Replacements ==
  \A d \in Destinations :
    trusted[d] # NoKey /\ trusted'[d] # trusted[d] =>
      \E r \in Requests : pc[r] = "save" /\ req[r].approval = <<trusted[d], trusted'[d]>>

NoSilentReplacement == [][Replacements]_vars

\* A key is only stored for the destination the connection leads to ("Recheck
\* host configuration after network I/O; never save trust for stale UI",
\* modules/remote/ssh_enrollment.go:96).
TrustIsCurrent ==
  [][\A d \in Destinations : trusted'[d] # trusted[d] => d = Current]_vars
=============================================================================
