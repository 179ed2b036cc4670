# ConnectMe in TLA+

ConnectMe gives the operators of a network a browser console: they keep hosts,
credentials and connections in PostgreSQL and open RDP or SSH sessions to them
through an Apache Guacamole gateway.  The server is one Go process, `src/` of
this repository.  This directory holds TLA+ modules that model its core, the TLC
configurations that check them and the proofs TLAPS checks.

## 1. The system

### Components, their state and their operations

| component | code | state | operations |
|---|---|---|---|
| remote sessions | `modules/remote/module.go`, `gateway.go` | `Module.leases` under `Module.mu`, the gateway's tokens | `launch`, `serve` with its watchdog, `closeSession`, `expireSessions`, `Start`, `Stop` |
| session file spaces | `modules/remote/storage.go` | a directory per session, `fileSpace.closed`, `.pending` files | `newFileStore`, `create`, `upload`, `download`, `list`, `close` |
| file transfer API | `modules/remote/transfers.go` | none of its own | list, upload, download, clipboard event; each audited first |
| SSH trust | `modules/remote/ssh_enrollment.go`, `modules/connections/ssh_trust.go` | `connections.ssh_host_keys`, `ssh_host_key_events` | `sshIdentity`, `SSHKey`, `SaveSSHKey` |
| destination policy | `modules/remote/policy.go`, `pkg/validation/network.go` | approved networks | `destinationAllowed`, `Destination` |
| identity | `modules/identity` | users, web sessions, MFA secrets, login attempts | `Login`, `Authenticate`, `Logout`, `ChangePassword`, `BeginMFA`, `ConfirmMFA`, `editUser`, `createUser` |
| authorization | `modules/authorization` | roles | `Allowed`, `GrantAdministrator` |
| audit | `modules/audit` | a hash chain of events | `Record` |
| inventory | `modules/{locations,hosts,connections}` | rows, soft deletion | create, update, remove, list |
| credential secrets | `modules/credentials`, `core/encryption` | wrapped data keys, ciphertexts | `Store`, `Retrieve`, `Rotate`, `Delete` |
| module registry | `core/modules` | the module graph | `Add`, `Resolve`, `Register`, `Start`, `Stop`, `Check` |
| bootstrap, migrations, tools | `core/bootstrap`, `core/database`, `cmd/*` | applied migrations, the default administrator | `Build`, `Run`, `Migrate`, `EnsureDefaultAdmin`, `create-admin` |
| event bus, HTTP, config, logs, metrics, console | `core/*`, `pkg/webapi`, `modules/system` | none that matters over time | |

### How they interact

A request goes through `identity.Protect`, which authenticates the cookie and asks
authorization for a permission.  `launch` reads the connection, the host, the
location, the credential and the trusted SSH key, one query after another and
without a transaction, hashes them into a fingerprint, reads the secret, asks the
gateway for a token, and records a lease.  `serve` finds the lease by the cookie,
reads everything again, compares fingerprints, marks the lease Active and runs the
tunnel; a watchdog repeats the reads every two seconds and cancels the tunnel when
they differ.  Meanwhile other requests edit those rows, close sessions or revoke
web sessions, and a ticker sweeps expired leases.

### What is hard

- Handlers share the database through transactions at READ COMMITTED, in different
  orders; only `editUser` takes a lock of its own.
- Every handler is a goroutine.  `Module.mu` is held only for map accesses, never
  across a query or a gateway call, so everything read is stale when it is used.
- What a lease owns lives outside the process: a token in the gateway, a directory
  on a volume.  Every failure path has to give both back, and a crash cannot.
- The gateway's answers get lost; errors of a revocation are ignored.
- `HTTP.Shutdown` gives up waiting, and never waits for tunnels: handlers still run
  when `Stop` empties the map.

### What makes the components correct

- remote sessions: at most eight leases per web session; one tunnel per lease; a
  token made for what was validated; no directory or token without an owner;
  tunnels end when their reasons do.
- file spaces: nothing is written after close; the quota holds; every transfer has
  an audit record before it.
- SSH trust: a registered key is never replaced without approval of exactly that
  change; history agrees with the current keys.
- identity: a change of password or status ends the user's sessions; there is
  always an administrator; a recovery code is used once.
- second factor: what is active was verified, the codes shown last work, and no
  stretch of a minute has more than ten logins from one address.
- audit: one chain, no forks, and nobody who waits for ever behind one who died.
- start: processes of different builds that start together do not stumble over each
  other; a server serves only the schema of its build; an account without its role has
  a creator who died on the way.
- registry: dependencies first, stop in reverse order, HTTP only while all of it runs.
- secrets: what is stored can be opened as what its row says it is.
- inventory and destinations: a session leads only where its host was validated to
  lead, through rows that are there; nothing removed comes back.

## 2. The modules

| module | what it is |
|---|---|
| `RemoteResources` | the database rows a remote session depends on, and the edits of them |
| `RemoteSessions` | the remote session manager; extends `RemoteResources` |
| `RemoteAccess` | what the session manager promises its users |
| `MCRemoteSessions` | instances for TLC |
| `RemoteSessions_proofs` | theorems about `RemoteSessions` |
| `SshTrust` | enrollment of SSH host keys |
| `MCSshTrust`, `SshTrust_proofs` | its instance for TLC, theorems about it |
| `Identity`, `Identity_proofs` | users, passwords, web sessions and the administration of users; theorems |
| `LoginRate` | the limit of logins per address |
| `SecondFactor` | setup and use of the second factor; extends `LoginRate` |
| `MCSecondFactor`, `SecondFactor_proofs` | its instance for TLC, theorems about it |
| `FileSpace` | the files of a remote session and the transfers |
| `SessionFiles` | what `FileSpace` promises: a store in which an upload is one step |
| `MCFileSpace`, `FileSpace_proofs` | its instances for TLC, theorems about it |
| `AuditChain` | the audit log: an abstract log any process may extend |
| `Startup` | migrations, first administrator and tools; extends `AuditChain` and implements it |
| `MCStartup`, `Startup_proofs` | its instance for TLC, theorems about both |
| `Registry`, `Registry_proofs` | the module registry and the life of a server; theorems |
| `Credentials` | stored secrets |
| `Inventory` | locations, networks, hosts, connections, destinations; extends `Credentials` |
| `MCInventory`, `Inventory_proofs` | its instance for TLC, theorems about both |

### RemoteResources

`endpoint[c]` is everything the connection, its host, its location and the approved
networks say together (protocol, pinned address, port, options), or `Blocked` when
any of them is disabled, deleted or refused.  `rotation` and `enabled` are the
credential's, `trusted` is `connections.ssh_host_keys`, `revoked` are the web
sessions that `Authenticate` or `Allowed` refuse.  A fingerprint is a record of
what was hashed, so fingerprints are equal exactly when the hashes are (SHA-256 is
taken to be injective).  `rotated_at` is the time the rotating transaction began;
it takes a new value at every rotation, so a counter stands for it.

### RemoteSessions

A launch is identified with the random session id it draws.  Its `pc` goes

    idle > credential > key > secret > hostkey > create > post > list > sweep > commit > done

skipping `key` and `hostkey` unless the protocol is SSH and `create` unless files
are moved.  The failure paths join at `drop` (revoke the token) and `undo` (close
the files).  Each step is what the code does between two points where others may
run.  `sent` is what the signed data for the gateway contains.  A serve request
has `spc`, `sid` and the fingerprint `sfp` it is computing.  `Remove` takes leases
out of the map under the mutex; `disposal` and `batch` are the loop that revokes and
closes afterwards, run by the closing request, the ticker, a launch or `Stop`.

| code | actions |
|---|---|
| `launch`, `authorize` | `LaunchReadEndpoint` ... `LaunchUndo` |
| `serve` | `ServeBegin`, `ServeReject`, `ServeLookup`, `ServeRead...`, `ServeClaim` |
| watchdog, deferred function | `Watch`, `ServeDone`, `ServeHangUp` |
| `closeSession`, `expireSessions`, `Start` | `CloseSession`, `LaunchSweep`, `Tick`, `DisposeToken`, `DisposeFiles` |
| `App.Run`, `Stop`, `newFileStore` | `Shutdown`, `Stop`, `Exit`, `Crash`, `Boot` |
| edits by other requests | `Administer` |

Abstractions, each of which adds behaviours or leaves out what no property tells
apart: time is the action `Elapse` (only once the launch is over: it takes
seconds, a lease lasts thirty minutes); the reads of connection, host and networks
are one step; so are the watchdog's reads; gateway tokens do not expire by
themselves; sessions without a file space have no directory and `close` does
nothing for them.

`CloseFiles` is `fileSpace.close`, which ignores the error of `os.RemoveAll`: the
directory goes or it stays.  `leftover` is history: the directories that stayed.
Only `Boot` deletes those.

### RemoteAccess

Grant, Withdraw, Attach, Detach, Halt: five actions on three variables, without
goroutines, gateway or files.  `RemoteSessions` maps onto it with `granted` as the
leases, `spent` as the launches that are over and have no lease, and `users` as the
tunnels of each session.

### SessionFiles

Put, DriveWrite, DriveDelete, Close, Clear, Open: six actions on two variables, without
requests, mutexes, temporary files, watchdogs or crashes.  `FileSpace` maps onto it with
the directory's files as `files` and, as `open`, that the process runs, the directory
exists and `closed` is not set.  An upload is one step there, `Put`: under a free name,
within the quota, while the session is open.

### SshTrust

`sshIdentity` for one connection, one step per query, probe or transaction:

    idle > host > key > probe > recheck > rechost > confirm > save > idle

`req[r]` are the handler's local variables, `row` and `pinned` the rows it reads
twice, `offered` what servers answer to the probe, `trusted` and `history` the two
tables `SaveSSHKey` writes in one transaction.  `Begin`, `ReadHost`, `RecheckConnection` and
`RecheckHost` are the queries of `validateWithTrust`, `Confirm` is the `Get` after it.
`Reject` is every error answer: a failed query, a disabled row, a conflict.  Whether
rows are enabled is therefore not part of the state, and neither is the protocol,
which is looked at once.  Keys stand for their fingerprints.  `RemoteSessions` sees
all of this as the one edit `SaveSSHKey` of `RemoteResources`: a key appears for the
destination the connection leads to.

### Identity

The four tables `modules/identity` keeps about a user, and the handlers as
transactions at PostgreSQL's READ COMMITTED.  A transaction's statements take row
locks (`rowHolder`, `hashHolder`), its writes appear in `Commit`, and `Reject` is every
error and its rollback.

| code | steps |
|---|---|
| `Login` | `LoginRead`, then `LoginFail`, or `LoginReset` (whose error is ignored) and `LoginOpen` |
| `ChangePassword` | `BeginChange`, `UpdateHash`, `ChangeRow`, `Revoke`, `Commit` |
| `editUser` | `BeginEdit`, `EditLock`, `EditActive`, `EditTarget`, `UpdateHash` if a password is set, `Revoke` if sessions end, `Commit` |
| `createUser` | `BeginCreate`, `Create` |
| `Logout`, expiry, idleness | `EndSession` |

`Admins` are the users whose roles permit `users.manage`: `GrantAdministrator` is only
called at the first start and by `connectmectl`, and no code takes a role away.
`epoch` and the fields `since` and `late` are history: how often a user's sessions
were to end, what a login has read of that, and whether it overlapped a change.  A
wrong second factor is a `Reject` of the login.  The failure counter saturates at the
limit, which is all that is asked of it.  A session id is free again when its
session has ended.

### FileSpace

The directory of one session, the requests that use it, the goroutine that closes
it, the gateway's drive and the process.

    upload:    lookup > validate > audit > lock > stat > copy > check > walk > link > finish > report
    download:  lookup > validate > open > audit > send > report
    list:      lookup > validate > open
    clipboard: lookup > validate > audit > report

| code | actions |
|---|---|
| `operation` and its watchdog | `Begin`, `Lookup`, `Validate`, `Refuse`, `Watch`, `TimeOut`, `Answer` |
| `transferAudit` | `AuditStart`, `AuditFails`, `Report` |
| `fileSpace.upload` | `UploadLock` ... `UploadFinish`, each a call between which the drive may act |
| `fileSpace.download`, `list` | `Open`, `OpenFails`; `Send` is the copy to the client |
| `closeSession`, `expireSessions`, `Stop`, `fileSpace.close` | `CloseRemove` ... `CloseRmdir` |
| `newFileStore`, `create` | `Boot`, `Create` |
| gateway | `DriveWrite`, `DriveDelete` |

`mu` is `fileSpace.mu`, `done` and `closed` are the two marks of a closed space:
`done` is set before the mutex is taken and makes watchdogs abort transfers,
`closed` is set under it.  `withdrawn` is any reason for which the watchdog's
queries fail.  Names and contents are not looked into; a file is who wrote it and
its size.  Symbolic links, directories, the limit of 4096 entries and renaming by
the drive are left out; counting the files is one step.  `RemoteSessions` sees the
directory of each session as created and deleted only, and there a deletion may fail
at any time.  Here it fails as `RemoveAll` does: its first attempt takes an empty
directory, after which it deletes the files it has read and the directory, unless the
drive has added one meanwhile.  One session follows the other: no two share files.

### LoginRate and SecondFactor

`attempts` is the list `allowLogin` keeps for one address, with the clock `now`; `Kept`
is its pruning, done only when the next attempt comes.  `allowed` is history.

`SecondFactor` has the row of `identity.totp_factors` and the recovery codes of one
user.  A confirmation goes

    idle > begin > delete > activate > commit > idle

and a login `idle > check > code > open > idle`, or directly to `open` without a factor.

| code | steps |
|---|---|
| `BeginMFA` | `Begin`, one upsert that waits for the row and looks at `pending` again |
| `ConfirmMFA` | `ConfirmRead` (the secret, and the code verified with it), `ConfirmSnapshot`, `ConfirmDelete`, `ConfirmActivate`, `ConfirmCommit` |
| `Login`, `verifySecondFactor` | `LoginRead` behind `Allow`, `LoginDenied`, `LoginCheck`, `LoginCode`, `LoginOpen` |
| errors, refusals | `Fail` |

A `DELETE` at READ COMMITTED sees what was committed when it began: `ConfirmSnapshot`
takes that picture, `ConfirmDelete` waits for the locked rows of it.  A code stands for
the ten of one confirmation, since they are inserted and deleted together.
`crossed`, `mixed`, `proved`, `shown` and `accepted` are history: they remember which
setups came between a verification and its activation.  `UPDATE ... SET pending=false`
does not look at the secret, so a factor can become active with one that was never
verified; `ActiveVerified` says that nothing but this overlap of two setups by the same
user leads there.

### AuditChain and Startup

`Record` locks the row of `audit.chain_heads`, inserts an event with its hash and
replaces it.  `ReadHead` waits for the lock, `Write` is the insertion, the upsert and
the commit, `Undo` is every error and every death.  The code ignores the error of
the `SELECT`, but PostgreSQL then refuses the rest of the transaction.

`Startup` puts servers and command line tools around it, each with the migrations
embedded in its build (`Plan`).

    server:           off > lock > check > apply ... > ensure > count > insert > record > grant > record > serving
    connectme-migrate: off > lock > check > apply ... > off
    create-admin:     off > create > record > grant > record > off

| code | actions |
|---|---|
| `Migrate` | `Lock`, `CheckMissing`, `CheckPresent`, `CheckDivergent`, `Apply`, with `Onwards` to the next entry, module or phase |
| `EnsureDefaultAdmin` | `EnsureLock`, `EnsureFails`, `EnsureCount`, `EnsureInsert`, `EnsureRefused` |
| `Build`, `GrantAdministrator` | `RecordCreated`, `Grant`, `GrantFails`, `RecordGranted` |
| `connectmectl create-admin` | `Create`, `CreateRefused` |
| the operating system, Docker | `Die`, `Stop`, `Launch`, `LaunchTool` |

`creator` says which process inserted an account.  When a process ends its session
and transaction end with it, and so do its locks (`End`).  Migrations are pairs of
a module and a version with a checksum; what the SQL does is whether the tables
of its module are there (`Has`).

### Registry

`added`, `deps`, `critical` and `off` are chosen at the start and stay.  `Resolve` is a
depth-first search: `mark` is the code's `state`, `path` the calls of `visit` under way,
`left` what the loop of each has still to look at, `roots` what is left of the outer one.
`Again`, `Refuse`, `Descend` and `Place` are the outcomes of a call and its end.  Then come
`Register`, `StartModule`, `Started`, `Listen` (a goroutine of its own), `Signal`, `Drained`,
`StopModule`, `Stopped`, `Return`.  `StartFails`, `ListenFailed` and `Fail` end the process
without stopping anything, as the code does.  Names are numbers, for their order.

Each of `Handlers` is free, runs, or runs with a connection of the pool (`Accept`,
`Answer`, `Acquire`, `Release`).  `DB.Close` is two steps: from `Stopped` on the pool
refuses connections, and `Return` comes when none is out.  That `pgxpool` also waits for
connections it is establishing, which end by themselves, is left out.

### Credentials and Inventory

A secret is sealed for the type and the key version its row had when it was
written (the associated data of the cipher): `sealed` is that pair.  `EditLock` and `Edit`
are `update`, whose `SELECT ... FOR UPDATE` keeps others away; `RotateRead` and
`RotateWrite` are `Rotate`, `Delete` empties the ciphertext, `Metadata` and `Retrieve` read.

`Inventory` has the rows of locations, networks, hosts and connections, and what DNS
answers.  An edit of a host that enables it, and a session, go

    edit:    idle > networks > resolve > write > idle
    session: idle > find > networks > resolve > metadata > retrieve > open
    connection: idle > exists > credential > save > idle

Each step is one statement; none of these requests has a transaction.

| code | actions |
|---|---|
| `locations` handlers | `CreateLocation`, `EditLocation`, `AddNetwork`, `EditNetwork`, `RemoveNetwork` |
| `ValidateDestination`, `Destination` | `ReadNetworks`, `ResolveHost`, `ResolveSession` with `Answer` and `Destinations` |
| `hosts`: `Create`, `Update`, `remove` | `CreateHost`, `EditHost`, `InsertHost`, `UpdateHost`, `RemoveHost` |
| `connections`: `Create`, `update`, `remove` | `CreateConnection`, `EditConnection`, `HostExists`, `CredentialExists`, `InsertConnection`, `UpdateConnection`, `RemoveConnection` |
| `validateWithTrust` | `Session`, `FindHost`, `ReadNetworks`, `ResolveSession`, `ReadMetadata`, then `Retrieve` |
| errors, answers | `End` |

`Redirect` changes the answers of DNS.  `approved` (for a host), `proof` and `gone` (for a
request) are history: what the last validation accepted, and what had been removed
when the session's validation began.  Prefixes are sets of addresses.  Names, ports,
protocols, and that a location has each network once, are left out.  Every answer of
DNS is held against the networks of the location and the addresses that are always blocked
(`pkg/validation/network.go`); the addresses the operator denies (`policy.go`) are held
against the pinned one only, and `AcceptedPinned` says no more of them.
`RemoteSessions` sees all of this as the edits of `RemoteResources`.

## 3. The runs

| run | question | size |
|---|---|---|
| `sessions_leases` | do concurrent launches, closes, sweeps, failures, shutdown and crashes keep the limit and lose nothing, and does everything end? | 2 launches of one web session, limit 1, 1 serve request, no edits, fairness |
| `sessions_tunnels` | do racing tunnels, edits and closes keep one tunnel per session on the right token, and does it end when its reasons do? | 1 session, 2 serve requests, RDP and SSH endpoint, one key, 1 edit, fairness |
| `identity` | who is still an administrator, who is still logged in, and is every request answered? | 2 administrators, 1 user, 2 sessions, 2 requests, 2 changes, fairness |
| `second_factor` | which secret and which codes survive overlapping setups, and does the limit per address hold? | 3 requests, 4 secrets, 3 codes, limit 2, window 2, a clock from 2 to 4 |
| `ssh_trust` | can racing enrollments replace a key silently or fork its history? | 2 requests, 2 hosts, 2 addresses, 1 port, 2 keys, 2 edits, 2 saves per destination |
| `ssh_trust_stale` | is a key stored only for where the connection leads? (no) | 1 request, 1 edit |
| `file_space` | do transfers overwrite, exceed the quota, survive close, leave temporary files, or go unrecorded? | 2 names, 2 requests, files up to 1, quota 1, crashes |
| `file_space_ends` | do close and transfers end although clients stall? | 1 name, 2 requests, fairness |
| `file_space_leftover` | is the directory gone when the session is closed? (no) | 1 name, 2 requests |
| `startup` | do processes of different builds that start, fail and die together leave a sound database, and do they get anywhere? | a migrating server, an older one that does not, tools of a third build, 1 fault, fairness |
| `registry` | is every configuration resolved as it should be, and started, served and stopped in order? | every set of up to 3 modules with every dependency relation, every switch and every choice of critical ones, 2 handlers, fairness |
| `inventory` | can a session lead elsewhere than its host was validated for, use what was removed, or open the wrong secret? | 2 requests, 1 row of each kind, 3 addresses (one blocked, one denied), 1 name with 2 answers, 2 types, 2 changes |

What each run checks:

| run | properties |
|---|---|
| `sessions_leases` | `LeaseLimit`, `NothingForgotten`, `FilesReclaimed`, `LaunchSettles` |
| `sessions_tunnels` | `OneTunnel`, `TunnelMatchesToken`, `WithdrawnTunnelEnds`, `ImplementsAccess`, `ImplementsFairAccess` |
| `identity` | `AlwaysAdmin`, `SessionsEnd`, `RequestsAnswered` |
| `second_factor` | `ActiveVerified`, `LastCodesWork`, `CodesOnce`, `RateLimited`, `NoLockout` |
| `ssh_trust` | `HistoryAgrees`, `NoSilentReplacement` |
| `file_space`, `file_space_ends` | `UploadQuota`, `ClosedIsEmpty`, `PendingAccounted`, `ImplementsSessionFiles`, `AuditedFirst`; `CloseCompletes`, `TransfersEnd` |
| `startup` | `StartsDoNotCollide`, `ServedSchema`, `AdminsExplained`, `ChainIntact`, `StartsEnd`, `ServersServe` |
| `registry` | `ResolveAgrees`, `DependenciesUp`, `ServedWhole`, `ShutdownEnds` |
| `inventory` | `SecretsIntact`, `AcceptedPinned`, `RemovedRefused`, `NoResurrection` |

`NothingForgotten` is the conjunction of `FilesAccounted`, `LeaseBacked` and `TokensAccounted`.
`FilesAccounted` and `FilesReclaimed` speak of the directories whose deletion has not
failed: a session that ends, however it does, comes to `close`, and no directory is
forgotten before.  That `close` may leave one behind is what `file_space_leftover` shows.
`ImplementsSessionFiles` is the refinement of `SessionFiles`.  The type invariants of
all modules are theorems (section 4), and so are four properties that no run lists:
`NoOverwrite` and `EnabledHostPinned`, whose consequences `ImplementsSessionFiles` and
`AcceptedPinned` check, and `DeadlocksArePairs` and
`HoldersDoNotWait`, the safety behind `RequestsAnswered` and `StartsEnd`.

Two launches against a limit of one let the second find the map full with the first
in any phase.  Two serve requests are what a race for a lease needs.  `MaxEdits` bounds
the edits.  One session is enough for tunnels since no property or guard relates
the tunnels of two sessions.

In `identity` users are created and log in before anything can be changed; two changes
are two administrators who edit each other, or a change of password or status that
meets a login.  `MaxFailures` is 2 so that an account locks.  `MaxChanges` bounds the
changes.

In `second_factor` three requests are two confirmations and a login, or two logins and a
confirmation that deletes the code they offer; the fourth secret lets a setup come
after all three have read one.  With a limit and a window of two, attempts of different
ages fill the list, and one of them leaves the window before the other.

In `startup` the server, the older server and the tools differ in their plans: the tools
have another text for one version, so `CheckDivergent` happens.  One fault, wherever it
hits, is a statement that fails or a process that dies; servers and tools start
again without bound.

In `registry` three modules are enough for a cycle that does not go through where the
search begins, for a missing dependency of a dependency, and for diamonds with
their tip missing.  Either of two handlers may hang, with a connection of the pool or
without, while the other goes on; the drain's timeout passes over both, the closing of
the pool over none that has a connection.

In `inventory` one host, location, connection and secret make every request a
conflict; changes are two, since the shortest wrong story found with a
weakened code has two.  Creations are not counted, each row being created once.

In `ssh_trust` two requests make the race for a destination, two hosts and
addresses let an edit move the connection away and back, and two saves allow a
first registration and an approved replacement.  Requests and keys are symmetric:
the specification only compares them.

In the file space runs two requests are an upload and one that waits for its mutex.
One name makes every file a conflict; for the quota two files have to exist, so
there are two names, and one file of the largest size fills it.  Nothing is bounded but
sizes: sessions follow each other without end, and crash at any moment.

**Two divergences.**  `ssh_enrollment.go:96` promises "Recheck host configuration after
network I/O; never save trust for stale UI".  The recheck is three queries and the
save a transaction of its own that compares only the trusted key, so an edit that
commits in between leaves a key stored for a destination the connection no longer
leads to (`ssh_trust_stale`).  The key stays bound to the address and port it was
probed at, so nothing connects to the new destination with it.

`docs/CLIPBOARD.md:79` says of the files that they "são removidos ao encerrar".
`fileSpace.close` ignores the error of `os.RemoveAll`, which fails when the drive
adds a file after the others were deleted; `Stop` closes the files without revoking
the gateway's token, and `revoke` ignores errors.  The directory then stays until the
next start (`file_space_leftover`).  What uploads have written is gone in any case
(`ClosedIsEmpty`).

Fairness (`Fairness` in `RemoteSessions`): a started launch, disposal, the ticker, a
watchdog, a cancelled proxy, `Exit` and `Boot` eventually take their step.  Go
schedules every goroutine; every gateway call has a timeout (`gateway.go:18`, `:56`);
tickers keep ticking; the reverse proxy returns when its context is done; and
`docker/compose.yaml` restarts the container (`restart: unless-stopped`).  Nothing is
assumed of users, of edits, or of hang-ups.  In `Identity` statements and commits end
and PostgreSQL aborts one of two transactions that wait for each other; that a
statement fails, or that a session ends, is never assumed.  In `FileSpace` requests
and the closer run and watchdogs look; a client need not send or receive anything
unless its connection has been ended (the watchdog sets both deadlines to now), and
the deadline of two minutes is never needed.  In `Startup` each statement of a process that
could go on again and again is taken in the end (PostgreSQL serves those who wait
for a lock in turn), and servers are started again (`docker/compose.yaml:19`); tools
are never run if nobody does.  In `Registry` the main goroutine runs; no handler has to
end or to return a connection, and no signal has to come: `ShutdownEnds` says that modules
are stopped in any case and that the process ends unless a connection is kept for ever.  `SecondFactor`, `SshTrust` and `Inventory` state none.

## 4. The proofs

`RemoteSessions_proofs` proves, for all values of the constants that satisfy
`ResourceAssumption` and `SessionAssumption`:

- `TypeCorrect`, `LimitHolds`, `OneTunnelHolds`, `OwnershipHolds` (`NothingForgotten`) and
  `TokenMatches`: the safety invariants the runs check;
- `AccessImplemented`: `RemoteSessions` implements `RemoteAccess`.

None of the invariants is inductive alone.  `IInv` adds: where `fp` holds an SSH
endpoint (`KeyWanted`), that requests ask for sessions that were launched
(`SidKnown`, `SidLaunched`), that a session is in one phase at a time
(`LeasePhase`), that nothing is in memory while the process is down (`DownQuiet`),
what a launch owns on its way, among it a directory whose deletion has not been tried
(`LaunchBacked`), and for the token's contents an
ordering argument (`TokenContents`): the secret is read after the metadata and
before any `serve` validates, rotations never return, so when `serve` finds the same
`rotated_at` again no rotation can have happened when the secret was read.

`SshTrust_proofs` proves, for all sets of hosts, keys and requests, `SshTrustTypes`,
`HistoryHolds` (the events of a destination lead from no key to the trusted one) and
`NoSilentReplacementHolds`.  Their invariant adds `Probed`: past the probe a request
holds a key and has the approval that key needs.  It holds whatever others do,
because approval compares two values the request keeps; the compare-and-swap then
makes the kept previous key the trusted one.

`Identity_proofs` proves, for all sets of users, administrators and requests,
`IdentityTypes`, `AlwaysAdminHolds`, `SessionsEndHolds` and `DeadlocksArePairsHolds`.  `AlwaysAdmin` rests on
`EditGuarded`: past its second look at the actor an edit has the advisory lock, its
actor is active and an administrator, and it does not deprive its own actor.  No
other step makes an active user inactive, so the actor is active until the commit
and after it.  `SessionsEnd` rests on two facts about requests under way: a login
that is not late has read the current epoch (`Current`), and the sessions that a
committing change has not doomed belong to late logins (`Doom`).

`DeadlocksArePairs` is why `Aborted` looks at two requests that wait for each other and
no more: it says that of all the waits `Waits` names, for the advisory lock and the rows of a
user and of its password, none leads to a longer cycle, however many requests there
are.  Its invariant `LockInv` says that each lock is held exactly by the request whose
place in its transaction is past taking it.

`FileSpace_proofs` proves, for all sets of names and requests, `FileTypes`,
`ClosedIsEmptyHolds`, `PendingAccountedHolds`, `NoOverwriteHolds`, `AuditedFirstHolds`,
`UploadQuotaHolds` and `SessionFilesImplemented`.  The invariant adds that an upload has the
mutex from its first look at the directory to its end, that the closer deletes exactly
while it has the mutex and that no upload has it once `closed` is set
(`ClosedUnderMutex`), and that a request past its audit has a record (`RequestsKnown`).
Uploads publish under the mutex, so none does after the deletion.

- `UploadQuotaHolds`: the code compares the sum of the whole directory, which the drive
  changes between the check and the link, so that sum may exceed the quota.  What
  uploads have stored may not: `QuotaInv` says that an upload about to link has room
  beside it, since only uploads add to it and they wait for the mutex.  Lemmas on
  `MapThenSumSet` say what a change of one file does to a sum.
- `SessionFilesImplemented`: each step is one of `SessionFiles` or a stutter.  `UploadLink` is
  `Put`, `CloseLock` and `Crash` are `Close`, deletions are `Clear` or one of the drive's.
  `SpaceInv` adds that nothing runs while the process is down, that a directory that is
  gone held nothing, and that close deletes only once `closed` is set.

`SecondFactor_proofs` proves, for all sets of requests, secrets and codes, `SecondFactorTypes`,
`CodesOnceHolds`, `ActiveVerifiedHolds`, `LastCodesWorkHolds`, `RateLimitedHolds` and
`NoLockoutHolds`.  The invariant adds that a confirmation
knows the row's secret unless a setup has crossed it (`SetupsKnown`), and that what
transactions have inserted or deleted is theirs alone (`InsertedApart`, `DeletedApart`):
the codes shown last survive because codes only go with a commit that shows others.

For the limit the code remembers at most `Limit` attempts and forgets the others.
`RateInv` says that what it remembers is the end of what it has allowed and that the
rest is older than the window (`Remembered`), and so that an allowed attempt comes at
least a window after the one `Limit` places before it (`Spaced`).  Any stretch as long as a
window then has `Limit` of them at most.  Since what it remembers it has allowed, a
refusal has as many allowed attempts behind it as the limit (`NoLockoutHolds`): denied
ones leave no trace, however many they are.

`Startup_proofs` proves, for all sets of processes, builds and accounts:

- `AuditChainHolds`: any number of recording processes leave one chain.  The invariant
  adds that whoever has read the head holds its lock and has read the current one
  (`HeadLocked`), and that hashes count the events (`HashesCount`);
- `StartupRecords`: a start implements `AuditSpec`, and so `ChainHolds`;
- `HoldersDoNotWaitHolds`: whoever is waited for, for the migration lock, the lock of the
  first administrator or the head of the log, does not wait, so there is no deadlock;
  by `HoldersWork`, a lock is held where its work is done and nowhere else;
- `StartupTypes`, `StartsDoNotCollideHolds`, `ServedSchemaHolds`, `AdminsExplainedHolds`.  They
  rest on `Locks` (between two looks at the database its lock is held, so what was
  missing still is), `MineKnown` (whose account a process is about to grant the role) and
  `Reached` (the entries before a server's position are applied with its checksums; rows
  are never replaced).

`Registry_proofs` proves, for any set of modules with any dependencies, cycles included,
`RegistryTypes`, `DependenciesFirstHolds`, `ResolveAgreesHolds`, `DependenciesUpHolds` and
`ServedWholeHolds`.  The
search's invariant says that the marks are those of the path and of the order
(`PathMarked`, `OrderFirst`) and that a loop has visited everything it has not left, but for
the visit under way (`LoopsKeep`); so a module is placed after all it depends on.
`Cursor` says that the modules before the cursor are those that run, and a prefix of
the order is closed under dependencies.

`ResolveAgreesHolds` is the correctness of the depth-first search: it fails exactly if a
module that is needed is missing or off, needs itself, or a critical one is off.
`PathLinked` says that the path follows dependencies and that the modules with mark 1
are those on it, so one that is met again closes a cycle (`MetAgainIsCyclic`), and what is
left of a finished search is closed under dependencies and in an order, so no set
of its modules is a cycle (`AcceptedIsUsable`).  `Verdict` keeps the outcome.
`Needed` is stated without a closure operator, as what is in every set that has the
modules that are on and the dependencies of its members.

`Inventory_proofs` proves, for any number of requests and rows, `InventoryTypes`,
`SecretsIntactHolds`, `EnabledHostPinnedHolds`, `AcceptedPinnedHolds`, `RemovedRefusedHolds` and
`NoResurrectionHolds`.  The invariant has a part for each request (`ReqInv`): what it knows
in which phase (`Shaped`), that an edit of a secret has the lock of its row and the type
it has read is still the row's (`EditLocked`), that what a validation has accepted is
for the values at hand (`Proved`), and that what a session has found had not been removed
when it began (`There`).

Assumed of the constants are the named assumptions of each module: sets of ids
that do not contain `None` or overlap, bounds that are natural numbers, plans that
are not empty.  The bounds (`MaxEdits`, `MaxChanges`, `MaxFaults`, `MaxTime`) can
have any value.  Two assumptions are more than typing.  `NamesFinite`: a file's name has at
most 160 bytes (`storage.go:115`), so there are finitely many, and a sum over them means
something.  `ClockAssumption`: the clock starts a window after zero, so that no time in the
model is negative, and its bound must leave room for that; the code's clock is decades
past its zero.

Induction over numbers and finite sets, for the sums, the pruning loop and the order of
the search, is done without a schema: `NatMin` (every nonempty set of numbers has a
least one, from the well-foundedness of the strict subsets of finite sets) gives a least
counterexample, and its predecessor contradicts it.  This reaches whatever is
stated as a set of counterexamples and is short of recursion over arbitrary data, which
these modules do not have.

### Only model-checked

Liveness, since fairness and `ENABLED` are out of the prover's reach: `WithdrawnTunnelEnds`,
`FilesReclaimed`, `LaunchSettles`, `ImplementsFairAccess`, `RequestsAnswered`, `CloseCompletes`,
`TransfersEnd`, `StartsEnd`, `ServersServe`, `ShutdownEnds`.  For three of them the safety that
makes them possible is proved: `AccessImplemented`, `DeadlocksArePairsHolds` and
`HoldersDoNotWaitHolds`.  Every invariant and every action property of a passing run is
stated by a theorem.

The two divergences of section 3 are counterexamples, so there is nothing to prove.

## 5. The plan

Written, in this order, each with its run and its proofs:

1. `RemoteResources`, `RemoteSessions`, `RemoteAccess`.
2. `SshTrust`.
3. `Identity`, then `LoginRate` and `SecondFactor`.
4. `FileSpace`, `SessionFiles`.
5. `AuditChain`, `Startup`, `Registry`.
6. `Credentials`, `Inventory`.

What could follow: roles that can be taken away, should the code learn to;
`Inventory` under `RemoteSessions` by a refinement mapping instead of the edits of
`RemoteResources`, which would need the edits of several rows by one transaction in both;
the renewal of keys if more than two versions come; variants (what each step of a
shutdown or of a transfer makes smaller) for the liveness that is only checked.

## 6. Not modelled

- The event bus (`core/events`): no module subscribes or publishes, so nothing depends on
  the order of its calls.
- The HTTP server and `pkg/webapi`: headers, JSON and timeouts without state of their own;
  what matters of them, `Listen`, `Accept` and `Shutdown`, is in `Registry`.
- Configuration (`core/config`): read once, no behaviour over time.  What it decides is in
  constants (`Denied`, `Migrating`) and in `off`.
- Logging and metrics: output only.  The health checks of modules change nothing but the
  last answer.
- `modules/system`: status pages and the browser console.
- Docker and Kubernetes files, except for the restart of the container, which is why
  restarts are fair.
- Ciphers, hashes, TOTP and the SSH key exchange: external, taken to be injective or
  to succeed exactly for what they were made for.
- Details no property tells apart: cookies, names, ports, branding, pagination, the
  syntax of prefixes, the wording of errors.
