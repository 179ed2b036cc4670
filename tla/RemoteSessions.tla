--------------------------- MODULE RemoteSessions ---------------------------
(***************************************************************************)
(* The remote session manager, modules/remote/module.go and gateway.go.    *)
(*                                                                         *)
(* launch validates a connection, obtains a gateway token and a directory  *)
(* for files, and records a lease.  serve runs the one tunnel of a lease.  *)
(* closeSession, the ticker and every launch remove leases; what a removed *)
(* lease owned is given back afterwards, outside the mutex.  Every handler *)
(* is a goroutine of its own, and one step here is what it does between    *)
(* two points at which others can run: one query, one gateway call, one    *)
(* file system call, or one critical section of Module.mu.                 *)
(*                                                                         *)
(* A launch is named by the random session id it draws, so OwnerOf and     *)
(* ConnOf say which web session sends it and which connection it opens.    *)
(*                                                                         *)
(* The operators Faulty... and Stale... are not part of the specification: *)
(* each is the operator after it with one mistake, for testing that the    *)
(* properties notice the mistake.                                          *)
(***************************************************************************)
EXTENDS RemoteResources, FiniteSets

CONSTANTS
  Ids,        \* session ids, each drawn by one launch
  OwnerOf,    \* the web session that launches an id
  ConnOf,     \* the connection it opens
  Requests,   \* goroutines that run serve
  MaxLeases,  \* sessions a web session may hold, 8 in launch
  Ticker,     \* the goroutine Start spawns
  Stopper,    \* the goroutine that runs Module.Stop
  None        \* no session

ASSUME SessionAssumption ==
  /\ IsFiniteSet(Ids)
  /\ OwnerOf \in [Ids -> Owners]
  /\ ConnOf \in [Ids -> Connections]
  /\ MaxLeases \in Nat \ {0}
  /\ Ticker \notin Ids /\ Stopper \notin Ids /\ Ticker # Stopper
  /\ None \notin Ids

VARIABLES
  mode,       \* of the process: up, draining (HTTP.Shutdown), stopped, down
  pc,         \* where the launch of an id is
  fp,         \* the fingerprint launch computes and the lease keeps
  sent,       \* what launch puts into the data the gateway signs a token for
  leases,     \* the ids Module.leases has a lease for
  active,     \* those whose lease.Active is set
  elapsed,    \* those whose lease.Expires has passed
  disposal,   \* what is still to be given back of a removed lease
  batch,      \* the leases a goroutine removed and is disposing of
  spc,        \* where a serve request is
  sid,        \* the session it asked for
  sfp,        \* the fingerprint it is computing
  dirs,       \* session directories on the transfer volume
  leftover,   \* those close has tried to delete, without success (history)
  token,      \* the gateway's authentication token of a session
  forgotten   \* sessions with a token nobody is going to revoke any more,
              \* for a gateway call failed or the process stopped (history)

launchVars == <<pc, fp, sent>>
leaseVars == <<leases, active, elapsed, disposal, batch>>
serveVars == <<spc, sid, sfp>>
outsideVars == <<dirs, leftover, token, forgotten>>
vars == <<resourceVars, mode, launchVars, leaseVars, serveVars, outsideVars>>

Sweepers == Ids \cup {Ticker, Stopper}

LaunchReading == {"credential", "key", "secret", "hostkey", "create"}
LaunchHolding == {"post", "list", "drop", "sweep", "commit", "undo"}
LaunchEnded == {"idle", "done", "refused", "lost"}
Tunnelling == {"open", "cancelled"}
ServeReading == {"lookup", "endpoint", "credential", "key", "claim"}

TypeOK ==
  /\ ResourceTypeOK
  /\ mode \in {"up", "draining", "stopped", "down"}
  /\ pc \in [Ids -> LaunchReading \cup LaunchHolding \cup LaunchEnded]
  /\ fp \in [Ids -> Fingerprints]
  /\ sent \in [Ids -> Fingerprints]
  /\ leases \subseteq Ids
  /\ active \subseteq leases
  /\ elapsed \subseteq Ids
  /\ disposal \in [Ids -> {"none", "revoke", "close"}]
  /\ batch \in [Sweepers -> SUBSET Ids]
  /\ spc \in [Requests -> {"idle"} \cup ServeReading \cup Tunnelling]
  /\ sid \in [Requests -> Ids \cup {None}]
  /\ sfp \in [Requests -> Fingerprints]
  /\ dirs \subseteq Ids /\ leftover \subseteq dirs
  /\ token \in [Ids -> {"none", "live", "revoked"}]
  /\ forgotten \subseteq Ids

Init ==
  /\ ResourceInit
  /\ mode = "up"
  /\ pc = [i \in Ids |-> "idle"]
  /\ fp = [i \in Ids |-> NoFingerprint]
  /\ sent = [i \in Ids |-> NoFingerprint]
  /\ leases = {} /\ active = {} /\ elapsed = {}
  /\ disposal = [i \in Ids |-> "none"]
  /\ batch = [w \in Sweepers |-> {}]
  /\ spc = [t \in Requests |-> "idle"]
  /\ sid = [t \in Requests |-> None]
  /\ sfp = [t \in Requests |-> NoFingerprint]
  /\ dirs = {} /\ leftover = {}
  /\ token = [i \in Ids |-> "none"]
  /\ forgotten = {}

Owned(o) == {i \in leases : OwnerOf[i] = o}

FaultyDisposed(w) == batch[w] = {}  \* waits for a batch that is never cleared

\* Goroutine w has given back everything it removed.
Disposed(w) == \A i \in batch[w] : disposal[i] = "none"

\* A DELETE of a token, bounded by a timeout.  An error is ignored: the
\* gateway may have acted on the call or not.
Revoke(i) ==
  \/ /\ token' = [token EXCEPT ![i] = "revoked"]
     /\ UNCHANGED forgotten
  \/ /\ UNCHANGED token
     /\ forgotten' = forgotten \cup {i}

\* fileSpace.close ignores the error of os.RemoveAll: what the drive adds meanwhile,
\* or the volume, may keep the directory.
CloseFiles(i) ==
  \/ dirs' = dirs \ {i} /\ leftover' = leftover \ {i}
  \/ /\ i \in dirs
     /\ leftover' = leftover \cup {i} /\ UNCHANGED dirs

\* Under the mutex: take the leases S out of the map.
Remove(S, w, step) ==
  /\ leases' = leases \ S
  /\ active' = active \ S
  /\ disposal' = [i \in Ids |-> IF i \in S THEN step ELSE disposal[i]]
  /\ batch' = [batch EXCEPT ![w] = S]
  /\ UNCHANGED elapsed

-----------------------------------------------------------------------------
(* launch                                                                  *)

LaunchGoto(i, from, to) == pc[i] = from /\ pc' = [pc EXCEPT ![i] = to]

\* Any launch that fails before it has a directory only answers an error: a
\* row that is missing or disabled, VNC, a credential of the wrong type, a
\* secret that does not decrypt, a directory that cannot be made.
LaunchRefuse(i) ==
  /\ pc[i] \in LaunchReading
  /\ pc' = [pc EXCEPT ![i] = "refused"]
  /\ UNCHANGED <<resourceVars, mode, fp, sent, leaseVars, serveVars, outsideVars>>

\* Protect lets the request through; validate reads connection, host, networks.
LaunchReadEndpoint(i) ==
  LET c == ConnOf[i] IN
  /\ mode = "up"
  /\ OwnerOf[i] \notin revoked
  /\ endpoint[c] # Blocked
  /\ LaunchGoto(i, "idle", "credential")
  /\ fp' = [fp EXCEPT ![i].endpoint = endpoint[c]]
  /\ UNCHANGED <<resourceVars, mode, sent, leaseVars, serveVars, outsideVars>>

LaunchReadCredential(i) ==
  LET c == ConnOf[i] IN
  /\ enabled[c]
  /\ LaunchGoto(i, "credential",
                IF fp[i].endpoint \in SshEndpoints THEN "key" ELSE "secret")
  /\ fp' = [fp EXCEPT ![i].rotation = rotation[c]]
  /\ UNCHANGED <<resourceVars, mode, sent, leaseVars, serveVars, outsideVars>>

LaunchReadKey(i) ==
  LET k == trusted[ConnOf[i]][fp[i].endpoint] IN
  /\ LaunchGoto(i, "key", "secret")
  /\ k # NoKey
  /\ fp' = [fp EXCEPT ![i].key = k]
  /\ UNCHANGED <<resourceVars, mode, sent, leaseVars, serveVars, outsideVars>>

\* Retrieve reads the secret in a query of its own, whatever enabled says now.
LaunchRetrieve(i) ==
  LET e == fp[i].endpoint IN
  /\ LaunchGoto(i, "secret", IF e \in SshEndpoints THEN "hostkey"
                             ELSE IF e \in DriveEndpoints THEN "create" ELSE "post")
  /\ sent' = [sent EXCEPT ![i] =
                [endpoint |-> e, rotation |-> rotation[ConnOf[i]], key |-> NoKey]]
  /\ UNCHANGED <<resourceVars, mode, fp, leaseVars, serveVars, outsideVars>>

\* The host-key parameter comes from a second read of the trusted key.
LaunchHostKey(i) ==
  LET k == trusted[ConnOf[i]][fp[i].endpoint] IN
  /\ LaunchGoto(i, "hostkey", "post")
  /\ k # NoKey
  /\ sent' = [sent EXCEPT ![i].key = k]
  /\ UNCHANGED <<resourceVars, mode, fp, leaseVars, serveVars, outsideVars>>

LaunchCreateFiles(i) ==
  /\ LaunchGoto(i, "create", "post")
  /\ i \notin dirs
  /\ dirs' = dirs \cup {i}
  /\ UNCHANGED <<resourceVars, mode, fp, sent, leaseVars, serveVars, leftover, token,
                 forgotten>>

\* POST of the signed data.  When the answer is lost the gateway may hold a
\* token that launch never learns of.
LaunchPost(i) ==
  /\ \/ /\ LaunchGoto(i, "post", "list")
        /\ token' = [token EXCEPT ![i] = "live"]
        /\ UNCHANGED forgotten
     \/ /\ LaunchGoto(i, "post", "undo")
        /\ \E s \in {"none", "live"} : token' = [token EXCEPT ![i] = s]
        /\ forgotten' = forgotten \cup {i}
  /\ UNCHANGED <<resourceVars, mode, fp, sent, leaseVars, serveVars, dirs, leftover>>

\* GET of the connections the token gives access to.
LaunchList(i) ==
  /\ LaunchGoto(i, "list", "sweep") \/ LaunchGoto(i, "list", "drop")
  /\ UNCHANGED <<resourceVars, mode, fp, sent, leaseVars, serveVars, outsideVars>>

\* The launch calls expireSessions before it counts.
LaunchSweep(i) ==
  /\ LaunchGoto(i, "sweep", "commit")
  /\ Remove(leases \cap elapsed, i, "revoke")
  /\ UNCHANGED <<resourceVars, mode, fp, sent, serveVars, outsideVars>>

FaultyHasRoom(i) == Cardinality(Owned(OwnerOf[i])) <= MaxLeases

\* Under the mutex: count the leases of the owner, then record the new one.
HasRoom(i) == Cardinality(Owned(OwnerOf[i])) < MaxLeases

LaunchCommit(i) ==
  /\ LaunchGoto(i, "commit", "done")
  /\ Disposed(i)
  /\ HasRoom(i)
  /\ leases' = leases \cup {i}
  /\ UNCHANGED <<resourceVars, mode, fp, sent, active, elapsed, disposal, batch,
                 serveVars, outsideVars>>

LaunchLimit(i) ==
  /\ LaunchGoto(i, "commit", "drop")
  /\ Disposed(i)
  /\ ~ HasRoom(i)
  /\ UNCHANGED <<resourceVars, mode, fp, sent, leaseVars, serveVars, outsideVars>>

\* The token is of no use: authorize found no connection, or the limit.
LaunchDrop(i) ==
  /\ LaunchGoto(i, "drop", "undo")
  /\ Revoke(i)
  /\ UNCHANGED <<resourceVars, mode, fp, sent, leaseVars, serveVars, dirs, leftover>>

FaultyLaunchUndo(i) ==  \* keeps the directory
  /\ LaunchGoto(i, "undo", "refused")
  /\ UNCHANGED <<resourceVars, mode, fp, sent, leaseVars, serveVars, outsideVars>>

\* The deferred call closes the files of a launch that retained nothing.
LaunchUndo(i) ==
  /\ LaunchGoto(i, "undo", "refused")
  /\ CloseFiles(i)
  /\ UNCHANGED <<resourceVars, mode, fp, sent, leaseVars, serveVars, token, forgotten>>

Launch(i) ==
  \/ LaunchReadEndpoint(i) \/ LaunchReadCredential(i) \/ LaunchReadKey(i)
  \/ LaunchRefuse(i)       \/ LaunchRetrieve(i)       \/ LaunchHostKey(i)
  \/ LaunchCreateFiles(i)  \/ LaunchPost(i)           \/ LaunchList(i)
  \/ LaunchSweep(i)        \/ LaunchCommit(i)         \/ LaunchLimit(i)
  \/ LaunchDrop(i)         \/ LaunchUndo(i)

-----------------------------------------------------------------------------
(* Leases end.                                                             *)

\* Thirty minutes have passed since the launch.
Elapse(i) ==
  /\ pc[i] = "done"
  /\ i \notin elapsed
  /\ elapsed' = elapsed \cup {i}
  /\ UNCHANGED <<resourceVars, mode, launchVars, leases, active, disposal, batch,
                 serveVars, outsideVars>>

\* DELETE on the session with the cookie it was opened with.  Protect may have
\* let the request through before that cookie was revoked.
CloseSession(i) ==
  /\ mode # "down"
  /\ i \in leases
  /\ leases' = leases \ {i}
  /\ active' = active \ {i}
  /\ disposal' = [disposal EXCEPT ![i] = "revoke"]
  /\ UNCHANGED <<resourceVars, mode, launchVars, elapsed, batch, serveVars, outsideVars>>

\* Every 30 seconds, one sweep after the other.
Tick ==
  /\ mode \in {"up", "draining"}
  /\ Disposed(Ticker)
  /\ leases \cap elapsed # {}
  /\ Remove(leases \cap elapsed, Ticker, "revoke")
  /\ UNCHANGED <<resourceVars, mode, launchVars, serveVars, outsideVars>>

FaultyDisposeToken(i) ==  \* an error of the revocation ends the disposal
  /\ disposal[i] = "revoke"
  /\ \E step \in {"close", "none"} : disposal' = [disposal EXCEPT ![i] = step]
  /\ Revoke(i)
  /\ UNCHANGED <<resourceVars, mode, launchVars, leases, active, elapsed, batch,
                 serveVars, dirs, leftover>>

\* Outside the mutex whoever removed the lease revokes its token,
DisposeToken(i) ==
  /\ disposal[i] = "revoke"
  /\ disposal' = [disposal EXCEPT ![i] = "close"]
  /\ Revoke(i)
  /\ UNCHANGED <<resourceVars, mode, launchVars, leases, active, elapsed, batch,
                 serveVars, dirs, leftover>>

\* and then closes its files.
DisposeFiles(i) ==
  /\ disposal[i] = "close"
  /\ disposal' = [disposal EXCEPT ![i] = "none"]
  /\ CloseFiles(i)
  /\ UNCHANGED <<resourceVars, mode, launchVars, leases, active, elapsed, batch,
                 serveVars, token, forgotten>>

-----------------------------------------------------------------------------
(* serve                                                                   *)

ServeGoto(t, from, to) == spc[t] = from /\ spc' = [spc EXCEPT ![t] = to]

\* Authenticate and Allowed pass.  Only the cookie a session was opened with
\* finds its lease, so the request is one of the owner of i.
ServeBegin(t, i) ==
  /\ mode = "up"
  /\ OwnerOf[i] \notin revoked
  /\ ServeGoto(t, "idle", "lookup")
  /\ sid' = [sid EXCEPT ![t] = i]
  /\ UNCHANGED <<resourceVars, mode, launchVars, leaseVars, sfp, outsideVars>>

\* Any request that fails only answers an error.
ServeReject(t) ==
  /\ spc[t] \in ServeReading
  /\ spc' = [spc EXCEPT ![t] = "idle"]
  /\ sid' = [sid EXCEPT ![t] = None]
  /\ sfp' = [sfp EXCEPT ![t] = NoFingerprint]
  /\ UNCHANGED <<resourceVars, mode, launchVars, leaseVars, outsideVars>>

ServeLookup(t) ==
  /\ ServeGoto(t, "lookup", "endpoint")
  /\ sid[t] \in leases \ elapsed
  /\ UNCHANGED <<resourceVars, mode, launchVars, leaseVars, sid, sfp, outsideVars>>

ServeReadEndpoint(t) ==
  LET c == ConnOf[sid[t]] IN
  /\ ServeGoto(t, "endpoint", "credential")
  /\ endpoint[c] # Blocked
  /\ sfp' = [sfp EXCEPT ![t].endpoint = endpoint[c]]
  /\ UNCHANGED <<resourceVars, mode, launchVars, leaseVars, sid, outsideVars>>

ServeReadCredential(t) ==
  LET c == ConnOf[sid[t]] IN
  /\ ServeGoto(t, "credential", "key")
  /\ enabled[c]
  /\ sfp' = [sfp EXCEPT ![t].rotation = rotation[c]]
  /\ UNCHANGED <<resourceVars, mode, launchVars, leaseVars, sid, outsideVars>>

FaultyServeReadKey(t) ==  \* does not compare the fingerprints
  LET e == sfp[t].endpoint
      k == IF e \in SshEndpoints THEN trusted[ConnOf[sid[t]]][e] ELSE NoKey
  IN
  /\ ServeGoto(t, "key", "claim")
  /\ e \in SshEndpoints => k # NoKey
  /\ sfp' = [sfp EXCEPT ![t].key = k]
  /\ UNCHANGED <<resourceVars, mode, launchVars, leaseVars, sid, outsideVars>>

\* The last read of validate, and the comparison with the lease.
ServeReadKey(t) ==
  LET e == sfp[t].endpoint
      k == IF e \in SshEndpoints THEN trusted[ConnOf[sid[t]]][e] ELSE NoKey
  IN
  /\ ServeGoto(t, "key", "claim")
  /\ e \in SshEndpoints => k # NoKey
  /\ [sfp[t] EXCEPT !.key = k] = fp[sid[t]]
  /\ sfp' = [sfp EXCEPT ![t].key = k]
  /\ UNCHANGED <<resourceVars, mode, launchVars, leaseVars, sid, outsideVars>>

ClaimUnder(t, usable) ==
  /\ ServeGoto(t, "claim", "open")
  /\ sid[t] \in usable
  /\ active' = active \cup {sid[t]}
  /\ UNCHANGED <<resourceVars, mode, launchVars, leases, elapsed, disposal, batch,
                 sid, sfp, outsideVars>>

FaultyServeClaim(t) == ClaimUnder(t, leases)       \* ignores Active
StaleServeClaim(t) == ClaimUnder(t, Ids \ active)  \* trusts the first lookup

\* Under the mutex again: the lease is still there and nobody else uses it.
ServeClaim(t) == ClaimUnder(t, leases \ active)

\* What the watchdog of a tunnel looks at every two seconds.
Withdrawn(t) ==
  LET i == sid[t] IN
  \/ i \notin leases
  \/ OwnerOf[i] \in revoked
  \/ ~ Usable(ConnOf[i])
  \/ CurrentFingerprint(ConnOf[i]) # sfp[t]

FaultyWatch(t) ==  \* only notices a lease that was removed
  /\ ServeGoto(t, "open", "cancelled")
  /\ sid[t] \notin leases
  /\ UNCHANGED <<resourceVars, mode, launchVars, leaseVars, sid, sfp, outsideVars>>

\* The watchdog cancels the context of the tunnel.  Its queries are taken as
\* one: what stays wrong is seen by the next tick at the latest.
Watch(t) ==
  /\ ServeGoto(t, "open", "cancelled")
  /\ Withdrawn(t)
  /\ UNCHANGED <<resourceVars, mode, launchVars, leaseVars, sid, sfp, outsideVars>>

\* The proxy returns and the deferred call clears Active.
EndTunnel(t) ==
  /\ spc' = [spc EXCEPT ![t] = "idle"]
  /\ sid' = [sid EXCEPT ![t] = None]
  /\ sfp' = [sfp EXCEPT ![t] = NoFingerprint]
  /\ active' = active \ {sid[t]}
  /\ UNCHANGED <<resourceVars, mode, launchVars, leases, elapsed, disposal, batch,
                 outsideVars>>

FaultyServeDone(t) ==  \* the proxy does not listen to the context's cancellation
  /\ spc[t] = "open" /\ sid[t] \in elapsed
  /\ EndTunnel(t)

\* It returns because the context is done: cancelled, or at its deadline.
ServeDone(t) ==
  /\ spc[t] = "cancelled" \/ (spc[t] = "open" /\ sid[t] \in elapsed)
  /\ EndTunnel(t)

\* It returns because the browser or the gateway hangs up.
ServeHangUp(t) ==
  /\ spc[t] = "open"
  /\ EndTunnel(t)

Serve(t) ==
  \/ \E i \in Ids : ServeBegin(t, i)
  \/ ServeReject(t)   \/ ServeLookup(t)  \/ ServeReadEndpoint(t)
  \/ ServeReadCredential(t) \/ ServeReadKey(t) \/ ServeClaim(t)
  \/ Watch(t)         \/ ServeDone(t)    \/ ServeHangUp(t)

-----------------------------------------------------------------------------
(* The process: App.Run in core/bootstrap, Module.Stop, newFileStore.      *)

\* A signal: HTTP.Shutdown stops accepting requests.  It waits for launches,
\* but only until its timeout, and never for hijacked tunnels.
Shutdown ==
  /\ mode = "up"
  /\ mode' = "draining"
  /\ UNCHANGED <<resourceVars, launchVars, leaseVars, serveVars, outsideVars>>

\* Stop empties the map and closes the files; it revokes no token.
Stop ==
  /\ mode = "draining"
  /\ mode' = "stopped"
  /\ Remove(leases, Stopper, "close")
  /\ forgotten' = forgotten \cup leases
  /\ UNCHANGED <<resourceVars, launchVars, serveVars, dirs, leftover, token>>

\* Everything in memory is gone; directories and tokens are not.
Vanish ==
  /\ mode' = "down"
  /\ pc' = [i \in Ids |-> IF pc[i] \in LaunchEnded THEN pc[i] ELSE "lost"]
  /\ leases' = {} /\ active' = {} /\ elapsed' = elapsed
  /\ disposal' = [i \in Ids |-> "none"]
  /\ batch' = [w \in Sweepers |-> {}]
  /\ spc' = [t \in Requests |-> "idle"]
  /\ sid' = [t \in Requests |-> None]
  /\ sfp' = [t \in Requests |-> NoFingerprint]
  /\ forgotten' = forgotten \cup {i \in Ids : token[i] = "live"}
  /\ UNCHANGED <<resourceVars, fp, sent, dirs, leftover, token>>

Exit == mode = "stopped" /\ Disposed(Stopper) /\ Vanish

Crash == mode # "down" /\ Vanish

\* newFileStore removes the directories an earlier process left.
Boot ==
  /\ mode = "down"
  /\ mode' = "up"
  /\ dirs' = {} /\ leftover' = {}
  /\ UNCHANGED <<resourceVars, launchVars, leaseVars, serveVars, token, forgotten>>

-----------------------------------------------------------------------------

Administer ==
  /\ ResourceNext
  /\ UNCHANGED <<mode, launchVars, leaseVars, serveVars, outsideVars>>

Next ==
  \/ Administer
  \/ \E i \in Ids : \/ Launch(i) \/ Elapse(i) \/ CloseSession(i)
                    \/ DisposeToken(i) \/ DisposeFiles(i)
  \/ Tick
  \/ \E t \in Requests : Serve(t)
  \/ Shutdown \/ Stop \/ Exit \/ Crash \/ Boot

Spec == Init /\ [][Next]_vars

\* Every gateway call has a timeout, every goroutine runs, the ticker and the
\* watchdogs tick, a cancelled proxy returns, and the container is restarted.
Fairness ==
  /\ \A i \in Ids : /\ WF_vars(pc[i] # "idle" /\ Launch(i))
                    /\ WF_vars(DisposeToken(i)) /\ WF_vars(DisposeFiles(i))
  /\ WF_vars(Tick)
  /\ \A t \in Requests : WF_vars(Watch(t)) /\ WF_vars(ServeDone(t))
  /\ WF_vars(Exit) /\ WF_vars(Boot)

FairSpec == Spec /\ Fairness

-----------------------------------------------------------------------------
(* Safety                                                                  *)

\* No web session holds more than MaxLeases leases, however many launches pass
\* their checks at once (the count and the insertion in launch).
LeaseLimit == \A o \in Owners : Cardinality(Owned(o)) <= MaxLeases

Tunnels(i) == {t \in Requests : spc[t] \in Tunnelling /\ sid[t] = i}

\* A session has one tunnel at most, even while it is being closed, and its
\* lease is marked Active exactly as long as it has one: no second tunnel can
\* start, and a lease never stays unusable after its tunnel ended.
OneTunnel ==
  \A i \in Ids :
    /\ \A t, u \in Tunnels(i) : t = u
    /\ i \in leases => (i \in active <=> Tunnels(i) # {})

\* While the process runs, every session directory belongs to a launch that has
\* not finished, to a lease, or to a removed lease whose files are about to be
\* closed, unless close has tried to delete it: whichever gateway call or read
\* fails, no directory is forgotten (the deferred call of launch, expireSessions).
FilesAccounted ==
  mode # "down" =>
    \A i \in dirs \ leftover :
      pc[i] \in LaunchHolding \/ i \in leases \/ disposal[i] # "none"

\* The lease of a session that moves files has its directory, which nobody has
\* closed, and a token the gateway accepts: neither a late failure nor another
\* goroutine takes away what a lease still uses.
LeaseBacked ==
  \A i \in leases :
    /\ token[i] = "live"
    /\ fp[i].endpoint \in DriveEndpoints => i \in dirs \ leftover

\* A token the gateway still accepts is known to a launch, to a lease, or to
\* the goroutine that will revoke it, unless a call to the gateway failed or
\* the process stopped in between (Stop and a crash revoke nothing): no path
\* through launch, close and expiry forgets a token of its own accord.
TokensAccounted ==
  \A i \in Ids :
    token[i] = "live" =>
      \/ pc[i] \in {"list", "drop", "sweep", "commit"}
      \/ i \in leases
      \/ disposal[i] = "revoke"
      \/ i \in forgotten

\* Nothing a session holds is forgotten or taken from it: the three together.
NothingForgotten == FilesAccounted /\ LeaseBacked /\ TokensAccounted

\* A tunnel is only ever given a token that was made for what the lease was
\* validated for: the same destination, and the secret of the same rotation,
\* although launch reads the secret after it computed the fingerprint.
TunnelMatchesToken ==
  \A t \in Requests :
    spc[t] \in Tunnelling =>
      /\ sfp[t] = fp[sid[t]]
      /\ sent[sid[t]].endpoint = sfp[t].endpoint
      /\ sent[sid[t]].rotation = sfp[t].rotation

-----------------------------------------------------------------------------
(* Liveness, under FairSpec                                                *)

\* A tunnel whose lease is removed, whose web session is revoked or whose
\* resources changed ends, unless the change is undone first (the comment in
\* serve: close long-running tunnels when ... are revoked/edited).
WithdrawnTunnelEnds ==
  \A t \in Requests, i \in Ids :
    (t \in Tunnels(i) /\ Withdrawn(t)) ~> (t \notin Tunnels(i) \/ ~ Withdrawn(t))

\* The directory of a session whose time is over goes, unless close has failed to
\* delete it: the sweep comes to it although revocations fail, and when the process
\* stops or crashes meanwhile, the next start does (expireSessions, newFileStore).
FilesReclaimed == \A i \in Ids : i \in elapsed ~> i \notin dirs \ leftover

\* A launch comes to an end, although it waits for the leases it swept.
LaunchSettles == \A i \in Ids : pc[i] # "idle" ~> pc[i] \in LaunchEnded

-----------------------------------------------------------------------------
(* What is promised                                                        *)

Access == INSTANCE RemoteAccess WITH
            granted <- leases,
            spent <- {i \in Ids : pc[i] = "done"} \ leases,
            users <- [i \in Ids |-> Tunnels(i)]

\* The session manager implements RemoteAccess.
ImplementsAccess == Access!Spec

\* It also implements its fairness: withdrawn sessions lose their tunnels.
ImplementsFairAccess == Access!FairSpec
=============================================================================
