------------------------------ MODULE Identity ------------------------------
(***************************************************************************)
(* Users, passwords and web sessions of modules/identity: Login,           *)
(* Authenticate, Logout, ChangePassword and CreateAdmin in service.go,     *)
(* editUser in edit.go, Protect in module.go.                              *)
(*                                                                         *)
(* Handlers are goroutines that issue SQL statements; a step is what one   *)
(* statement does.  Transactions run at READ COMMITTED: a statement sees   *)
(* what is committed, an UPDATE waits for the transaction that updated the *)
(* row before, and PostgreSQL aborts a transaction when two wait for each  *)
(* other.  A transaction's writes appear when it commits.                  *)
(*                                                                         *)
(* The operators Faulty... are not part of the specification: each is the  *)
(* operator after it with one mistake, for testing the properties.         *)
(***************************************************************************)
EXTENDS Naturals

CONSTANTS
  Users,
  Admins,       \* users whose roles permit users.manage; no code takes a role away
  Passwords,
  SessionIds,
  Requests,     \* goroutines
  MaxFailures,  \* 5: failed logins that lock an account
  MaxChanges,   \* bound on the changes requested
  None

ASSUME IdentityAssumption ==
  /\ Admins \subseteq Users /\ Admins # {}
  /\ None \notin Users \cup Passwords \cup SessionIds \cup Requests
  /\ MaxFailures \in Nat \ {0} /\ MaxChanges \in Nat

VARIABLES
  status, must, failed, locked,  \* identity.users: enabled and deleted_at,
                                 \* must_change_password, failed_attempts, locked_until
  password,                      \* identity.password_credentials
  sessions,                      \* identity.sessions
  editing,                       \* who holds the advisory lock of editUser
  rowHolder, hashHolder,         \* whose transaction has updated a user or a password
  pc, req,                       \* where a request is, and its local variables
  epoch,                         \* history: how often a user's sessions were to end
  changes                        \* number of changes requested

userVars == <<status, must, failed, locked>>
lockVars == <<editing, rowHolder, hashHolder>>
vars == <<userVars, password, sessions, lockVars, pc, req, epoch, changes>>

\* What a body of editUser asks for, and a change of one's own password.
Edits == [kind : {"enable", "disable"}, password : Passwords \cup {None}]
           \cup [kind : {"remove"}, password : {None}]
Changes == [kind : {"change", "create"}, password : Passwords]

\* A session that is neither revoked nor expired: whose it is and, for the
\* history, the epoch its login has read and whether that login met a change.
SessionRows == [user : Users, since : Nat, late : BOOLEAN]

\* user is who logs in or who acts; target whom the change is about.
Locals ==
  [user : Users \cup {None}, target : Users \cup {None},
   change : Edits \cup Changes \cup {None}, session : SessionIds \cup {None},
   doomed : SUBSET SessionIds, since : Nat, late : BOOLEAN]

Blank == [user |-> None, target |-> None, change |-> None, session |-> None,
          doomed |-> {}, since |-> 0, late |-> FALSE]

LoginSteps == {"fail", "reset", "open"}
Steps == LoginSteps \cup
         {"hash", "row", "revoke", "commit", "lock", "active", "target", "create"}

TypeOK ==
  /\ status \in [Users -> {"absent", "enabled", "disabled", "deleted"}]
  /\ must \in [Users -> BOOLEAN]
  /\ failed \in [Users -> 0..MaxFailures]
  /\ locked \in [Users -> BOOLEAN]
  /\ password \in [Users -> Passwords \cup {None}]
  /\ \A u \in Users : status[u] = "absent" <=> password[u] = None
  /\ sessions \in [SessionIds -> SessionRows \cup {None}]
  /\ editing \in Requests \cup {None}
  /\ rowHolder \in [Users -> Requests \cup {None}]
  /\ hashHolder \in [Users -> Requests \cup {None}]
  /\ pc \in [Requests -> {"idle"} \cup Steps]
  /\ req \in [Requests -> Locals]
  /\ epoch \in [Users -> Nat]
  /\ changes \in 0..MaxChanges

\* An installation whose administrators have been created and have changed
\* their first password.
Init ==
  /\ status = [u \in Users |-> IF u \in Admins THEN "enabled" ELSE "absent"]
  /\ must = [u \in Users |-> FALSE]
  /\ failed = [u \in Users |-> 0]
  /\ locked = [u \in Users |-> FALSE]
  /\ \E p \in Passwords : password = [u \in Users |-> IF u \in Admins THEN p ELSE None]
  /\ sessions = [s \in SessionIds |-> None]
  /\ editing = None
  /\ rowHolder = [u \in Users |-> None]
  /\ hashHolder = [u \in Users |-> None]
  /\ pc = [r \in Requests |-> "idle"]
  /\ req = [r \in Requests |-> Blank]
  /\ epoch = [u \in Users |-> 0]
  /\ changes = 0

Goto(r, from, to) == pc[r] = from /\ pc' = [pc EXCEPT ![r] = to]
Answer(r, from) == Goto(r, from, "idle") /\ req' = [req EXCEPT ![r] = Blank]
Exists(u) == status[u] \in {"enabled", "disabled"}
SessionsOf(u) == {s \in SessionIds : sessions[s] # None /\ sessions[s].user = u}

-----------------------------------------------------------------------------
(* Login                                                                   *)

\* One query reads the account and the hash; the second factor, if there is
\* one, is checked next (a wrong one is a Reject).  The session's id is random,
\* and another one than any in use.
LoginRead(r, u, p, s) ==
  LET good == status[u] = "enabled" /\ ~ locked[u] /\ password[u] = p IN
  /\ Exists(u)
  /\ sessions[s] = None /\ \A q \in Requests : req[q].session # s /\ s \notin req[q].doomed
  /\ Goto(r, "idle", IF good THEN "reset" ELSE "fail")
  /\ req' = [req EXCEPT ![r] = [Blank EXCEPT !.user = u, !.session = s, !.since = epoch[u]]]
  /\ UNCHANGED <<userVars, password, sessions, lockVars, epoch, changes>>

\* The counter saturates: only its reaching the limit matters.
LoginFail(r) ==
  LET u == req[r].user
      n == IF failed[u] < MaxFailures THEN failed[u] + 1 ELSE MaxFailures IN
  /\ Answer(r, "fail")
  /\ rowHolder[u] = None
  /\ failed' = [failed EXCEPT ![u] = n]
  /\ locked' = [locked EXCEPT ![u] = @ \/ n = MaxFailures]
  /\ UNCHANGED <<status, must, password, sessions, lockVars, epoch, changes>>

LoginReset(r) ==
  LET u == req[r].user IN
  /\ Goto(r, "reset", "open")
  /\ rowHolder[u] = None
  /\ failed' = [failed EXCEPT ![u] = 0]
  /\ locked' = [locked EXCEPT ![u] = FALSE]
  /\ UNCHANGED <<status, must, password, sessions, lockVars, req, epoch, changes>>

\* The error of that statement is ignored.
LoginResetFails(r) ==
  /\ Goto(r, "reset", "open")
  /\ UNCHANGED <<userVars, password, sessions, lockVars, req, epoch, changes>>

\* Some transaction has revoked the sessions of u and will commit.
Revoking(u) == \E q \in Requests : pc[q] = "commit" /\ req[q].target = u

LoginOpen(r) ==
  LET u == req[r].user IN
  /\ Answer(r, "open")
  /\ sessions' = [sessions EXCEPT ![req[r].session] =
       [user |-> u, since |-> req[r].since, late |-> req[r].late \/ Revoking(u)]]
  /\ UNCHANGED <<userVars, password, lockVars, epoch, changes>>

\* Logout, expiry and idleness.
EndSession(s) ==
  /\ sessions[s] # None
  /\ sessions' = [sessions EXCEPT ![s] = None]
  /\ UNCHANGED <<userVars, password, lockVars, pc, req, epoch, changes>>

\* locked_until passes.
Unlock(u) ==
  /\ locked[u]
  /\ locked' = [locked EXCEPT ![u] = FALSE]
  /\ UNCHANGED <<status, must, failed, password, sessions, lockVars, pc, req, epoch, changes>>

-----------------------------------------------------------------------------
(* Requests of users                                                       *)

\* Authenticate finds a session of u; Protect also wants the permission and a
\* password that need not be changed.
Authenticated(u) ==
  status[u] = "enabled" /\ SessionsOf(u) # {}
Permitted(u) == Authenticated(u) /\ u \in Admins /\ ~ must[u]

Begin(r, a, u, c, first) ==
  /\ Goto(r, "idle", first)
  /\ changes < MaxChanges /\ changes' = changes + 1
  /\ req' = [req EXCEPT ![r] = [Blank EXCEPT !.user = a, !.target = u, !.change = c]]
  /\ UNCHANGED <<userVars, password, sessions, lockVars, epoch>>

\* The current password is read and compares (otherwise a Reject); what was
\* read is not used again.
BeginChange(r, u, p) ==
  /\ Authenticated(u)
  /\ Begin(r, u, u, [kind |-> "change", password |-> p], "hash")

\* Whom an edit deprives of the sessions.
Ends(c) == c.kind # "enable" \/ c.password # None

BeginEdit(r, a, u, e) ==
  /\ Permitted(a)
  /\ ~ (u = a /\ Ends(e))
  /\ Begin(r, a, u, e, "lock")

BeginCreate(r, a, u, p) ==
  /\ Permitted(a)
  /\ Begin(r, a, u, [kind |-> "create", password |-> p], "create")

\* Both rows are inserted in one transaction.
Create(r) ==
  LET u == req[r].target IN
  /\ Answer(r, "create")
  /\ status[u] = "absent"
  /\ status' = [status EXCEPT ![u] = "enabled"]
  /\ password' = [password EXCEPT ![u] = req[r].change.password]
  /\ UNCHANGED <<must, failed, locked, sessions, lockVars, epoch, changes>>

EditLock(r) ==
  /\ Goto(r, "lock", "active")
  /\ editing = None /\ editing' = r
  /\ UNCHANGED <<userVars, password, sessions, rowHolder, hashHolder, req, epoch, changes>>

FaultyEditActive(r) ==  \* trusts Authenticate
  /\ Goto(r, "active", "target")
  /\ UNCHANGED <<userVars, password, sessions, lockVars, req, epoch, changes>>

\* The actor may have been disabled since Authenticate.
EditActive(r) ==
  /\ Goto(r, "active", "target")
  /\ status[req[r].user] = "enabled"
  /\ UNCHANGED <<userVars, password, sessions, lockVars, req, epoch, changes>>

AfterTarget(c) ==
  IF c.password # None THEN "hash" ELSE IF Ends(c) THEN "revoke" ELSE "commit"

\* UPDATE of identity.users, first in editUser and second in ChangePassword,
EditTarget(r) ==
  LET u == req[r].target IN
  /\ Goto(r, "target", AfterTarget(req[r].change))
  /\ Exists(u)
  /\ rowHolder[u] = None /\ rowHolder' = [rowHolder EXCEPT ![u] = r]
  /\ UNCHANGED <<userVars, password, sessions, editing, hashHolder, req, epoch, changes>>

ChangeRow(r) ==
  LET u == req[r].target IN
  /\ Goto(r, "row", "revoke")
  /\ rowHolder[u] = None /\ rowHolder' = [rowHolder EXCEPT ![u] = r]
  /\ UNCHANGED <<userVars, password, sessions, editing, hashHolder, req, epoch, changes>>

\* and of identity.password_credentials, the other way round.
UpdateHash(r) ==
  LET u == req[r].target IN
  /\ Goto(r, "hash", IF req[r].change.kind = "change" THEN "row" ELSE "revoke")
  /\ hashHolder[u] = None /\ hashHolder' = [hashHolder EXCEPT ![u] = r]
  /\ UNCHANGED <<userVars, password, sessions, editing, rowHolder, req, epoch, changes>>

FaultyRevoke(r) ==  \* the sessions of the actor
  /\ Goto(r, "revoke", "commit")
  /\ req' = [req EXCEPT ![r].doomed = SessionsOf(req[r].user)]
  /\ UNCHANGED <<userVars, password, sessions, lockVars, epoch, changes>>

\* UPDATE of the sessions that are committed now.
Revoke(r) ==
  /\ Goto(r, "revoke", "commit")
  /\ req' = [req EXCEPT ![r].doomed = SessionsOf(req[r].target)]
  /\ UNCHANGED <<userVars, password, sessions, lockVars, epoch, changes>>

\* Commit and Rollback end the locks.
Release(r) ==
  /\ editing' = IF editing = r THEN None ELSE editing
  /\ rowHolder' = [u \in Users |-> IF rowHolder[u] = r THEN None ELSE rowHolder[u]]
  /\ hashHolder' = [u \in Users |-> IF hashHolder[u] = r THEN None ELSE hashHolder[u]]

NewStatus(c, old) ==
  CASE c.kind = "enable" -> "enabled" [] c.kind = "disable" -> "disabled"
    [] c.kind = "remove" -> "deleted" [] OTHER -> old

NewPassword(c, old) == IF c.password = None THEN old ELSE c.password

\* Logins that are under way while sessions end are marked as late.
Commit(r) ==
  LET u == req[r].target
      c == req[r].change
      ends == Ends(c) IN
  /\ Goto(r, "commit", "idle")
  /\ status' = [status EXCEPT ![u] = NewStatus(c, @)]
  /\ must' = [must EXCEPT ![u] = IF c.password = None THEN @ ELSE c.kind # "change"]
  /\ password' = [password EXCEPT ![u] = NewPassword(c, @)]
  /\ sessions' = [s \in SessionIds |->
       IF s \in req[r].doomed THEN None ELSE sessions[s]]
  /\ epoch' = [epoch EXCEPT ![u] = IF ends THEN @ + 1 ELSE @]
  /\ req' = [q \in Requests |->
       IF q = r THEN Blank
       ELSE IF ends /\ pc[q] \in LoginSteps /\ req[q].user = u
            THEN [req[q] EXCEPT !.late = TRUE] ELSE req[q]]
  /\ Release(r)
  /\ UNCHANGED <<failed, locked, changes>>

FaultyReject(r) ==  \* the transaction stays open
  /\ \E s \in Steps : Answer(r, s)
  /\ UNCHANGED <<userVars, password, sessions, lockVars, epoch, changes>>

\* Every error, an aborted transaction among them, rolls back and answers.
Reject(r) ==
  /\ \E s \in Steps : Answer(r, s)
  /\ Release(r)
  /\ UNCHANGED <<userVars, password, sessions, epoch, changes>>

\* r and q wait for the rows the other one has updated: PostgreSQL aborts one.
WaitsFor(r, q) ==
  LET u == req[r].target IN
  \/ pc[r] \in {"target", "row"} /\ rowHolder[u] = q
  \/ pc[r] = "hash" /\ hashHolder[u] = q
Aborted(r) == (\E q \in Requests : WaitsFor(r, q) /\ WaitsFor(q, r)) /\ Reject(r)

\* A request that finds no such user, or itself disabled, ends.
Refused(r) ==
  /\ \/ pc[r] = "active" /\ status[req[r].user] # "enabled"
     \/ pc[r] = "target" /\ ~ Exists(req[r].target)
     \/ pc[r] = "create" /\ status[req[r].target] # "absent"
  /\ Reject(r)

Progress(r) ==
  \/ LoginFail(r) \/ LoginReset(r) \/ LoginOpen(r)
  \/ Create(r) \/ EditLock(r) \/ EditActive(r) \/ EditTarget(r) \/ ChangeRow(r)
  \/ UpdateHash(r) \/ Revoke(r) \/ Commit(r) \/ Aborted(r) \/ Refused(r)

Next ==
  \/ \E r \in Requests :
       \/ \E u \in Users, p \in Passwords, s \in SessionIds : LoginRead(r, u, p, s)
       \/ \E u \in Users, p \in Passwords : BeginChange(r, u, p)
       \/ \E a, u \in Users, e \in Edits : BeginEdit(r, a, u, e)
       \/ \E a, u \in Users, p \in Passwords : BeginCreate(r, a, u, p)
       \/ Progress(r)
       \/ LoginResetFails(r)
       \/ Reject(r)
  \/ \E s \in SessionIds : EndSession(s)
  \/ \E u \in Users : Unlock(u)

Spec == Init /\ [][Next]_vars

\* Statements and commits end, and PostgreSQL finds deadlocks.
Fairness == \A r \in Requests : WF_vars(Progress(r))
FairSpec == Spec /\ Fairness

-----------------------------------------------------------------------------
(* Properties                                                              *)

\* Administrators who remove or disable one another, at the same time too,
\* always leave one who can log in (the advisory lock, the second look at the
\* actor and the protection of one's own account in editUser, edit.go:22-53).
AlwaysAdmin == \E a \in Admins : status[a] = "enabled"

\* Disabling, removing and resetting a user, and changing one's password, end
\* every session of that user but those of logins that were under way
\* (edit.go:71-73, service.go:207-209).
SessionsEnd ==
  \A u \in Users : \A s \in SessionsOf(u) : sessions[s].late \/ sessions[s].since = epoch[u]

\* Who waits for whom: also for the advisory lock, and a login for the row.
Waits(r, q) ==
  \/ WaitsFor(r, q)
  \/ pc[r] = "lock" /\ editing = q
  \/ pc[r] \in {"fail", "reset"} /\ rowHolder[req[r].user] = q

\* Requests deadlock in pairs at most, and over the two rows of one user: in a chain
\* of waiting requests the fourth is the second again.  To abort one of two that
\* wait for each other is therefore to end every deadlock, and the advisory lock,
\* which is taken first, is in none (edit.go:45, 60-66, service.go:204-205).
DeadlocksArePairs ==
  \A r, q, p, s \in Requests :
    /\ Waits(r, q) /\ Waits(q, p) /\ Waits(p, s) => s = q
    /\ Waits(r, q) /\ Waits(q, r) => WaitsFor(r, q) /\ WaitsFor(q, r)

\* Every request is answered, although editUser and ChangePassword update the
\* rows of a user in opposite orders (edit.go:60-66, service.go:204-205).
RequestsAnswered == \A r \in Requests : pc[r] # "idle" ~> pc[r] = "idle"
=============================================================================
