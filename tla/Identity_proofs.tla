-------------------------- MODULE Identity_proofs --------------------------
(***************************************************************************)
(* Proofs about Identity, for every set of users, administrators, sessions *)
(* and requests and every bound.                                           *)
(***************************************************************************)
EXTENDS Identity, TLAPS

\* What a request is about, by where it is.
ChangeKnown ==
  \A r \in Requests :
    /\ pc[r] \in Steps => req[r].user \in Users
    /\ pc[r] \in LoginSteps => req[r].session \in SessionIds
    /\ pc[r] \in Steps \ LoginSteps => req[r].target \in Users
    /\ pc[r] = "create" => req[r].change \in Changes
    /\ pc[r] = "row" => req[r].change \in Changes /\ req[r].change.kind = "change"
    /\ pc[r] \in {"lock", "active", "target"} => req[r].change \in Edits
    /\ pc[r] \in {"hash", "revoke", "commit"} =>
         req[r].change \in Edits \/ (req[r].change \in Changes /\ req[r].change.kind = "change")
    /\ pc[r] \in {"hash", "row", "revoke", "commit"} => status[req[r].target] # "absent"

\* An edit past its lock.
Editing(r) ==
  \/ pc[r] \in {"active", "target"}
  \/ pc[r] \in {"hash", "revoke", "commit"} /\ req[r].change.kind # "change"

\* It has the advisory lock, it has seen its actor active since, and it does not
\* deprive its actor.
EditGuarded ==
  \A r \in Requests :
    /\ Editing(r) => editing = r
    /\ Editing(r) /\ pc[r] # "active" => status[req[r].user] = "enabled"
    /\ Editing(r) \/ pc[r] = "lock" =>
         /\ req[r].user \in Admins
         /\ req[r].user = req[r].target => req[r].change.kind = "enable"

\* A login that has met no change has read the current epoch; the sessions that
\* a committing change has not doomed are those of late logins.
Current(r) == pc[r] \in LoginSteps => req[r].late \/ req[r].since = epoch[req[r].user]
Doom(r) ==
  pc[r] = "commit" /\ Ends(req[r].change) =>
    \A s \in SessionsOf(req[r].target) : s \in req[r].doomed \/ sessions[s].late

SessionInv ==
  /\ TypeOK /\ ChangeKnown
  /\ \A r \in Requests : Current(r) /\ Doom(r)
  /\ SessionsEnd

AdminInv == TypeOK /\ ChangeKnown /\ EditGuarded /\ AlwaysAdmin

LEMMA BlankType == Blank \in Locals
BY DEF Blank, Locals

\* What the steps of a request have in common.
LEMMA Frame ==
  ASSUME TypeOK, NEW r \in Requests, NEW to \in {"idle"} \cup Steps,
         pc' = [pc EXCEPT ![r] = to]
  PROVE  /\ pc' \in [Requests -> {"idle"} \cup Steps]
         /\ pc'[r] = to
         /\ \A q \in Requests \ {r} : pc'[q] = pc[q]
BY DEF TypeOK

LEMMA RequestTypes ==
  ASSUME TypeOK, ChangeKnown, NEW r \in Requests, Progress(r) \/ LoginResetFails(r) \/ Reject(r)
  PROVE  /\ pc' \in [Requests -> {"idle"} \cup Steps]
         /\ req' \in [Requests -> Locals]
<1>1. pc' \in [Requests -> {"idle"} \cup Steps]
  <2>1. \E to \in {"idle"} \cup Steps : pc' = [pc EXCEPT ![r] = to]
    BY DEF Progress, LoginFail, LoginReset, LoginResetFails, LoginOpen, Create, EditLock,
           EditActive, EditTarget, AfterTarget, ChangeRow, UpdateHash, Revoke, Commit, Aborted,
           Refused, Reject, Answer, Goto, Steps, LoginSteps
  <2> QED BY <2>1, Frame
<1>2. req' \in [Requests -> Locals]
  <2>0. req \in [Requests -> Locals]
    BY DEF TypeOK
  <2>1. CASE req' = req
    BY <2>0, <2>1
  <2>2. CASE req' = [req EXCEPT ![r] = Blank]
    BY <2>0, <2>2, BlankType
  <2>3. CASE Revoke(r)
    <3>1. SessionsOf(req[r].target) \in SUBSET SessionIds
      BY DEF SessionsOf
    <3> QED BY <2>0, <2>3, <3>1 DEF Revoke, Locals
  <2>4. CASE Commit(r)
    BY <2>0, <2>4, BlankType DEF Commit, Locals
  <2> QED
    BY <2>1, <2>2, <2>3, <2>4
       DEF Progress, LoginFail, LoginReset, LoginResetFails, LoginOpen, Create, EditLock,
           EditActive, EditTarget, ChangeRow, UpdateHash, Aborted, Refused, Reject, Answer
<1> QED BY <1>1, <1>2

LEMMA LockTypes ==
  ASSUME TypeOK, NEW r \in Requests,
         \/ UNCHANGED lockVars \/ Release(r)
         \/ editing' = r /\ UNCHANGED <<rowHolder, hashHolder>>
         \/ \E u \in Users : rowHolder' = [rowHolder EXCEPT ![u] = r] /\ UNCHANGED <<editing, hashHolder>>
         \/ \E u \in Users : hashHolder' = [hashHolder EXCEPT ![u] = r] /\ UNCHANGED <<editing, rowHolder>>
  PROVE  /\ editing' \in Requests \cup {None}
         /\ rowHolder' \in [Users -> Requests \cup {None}]
         /\ hashHolder' \in [Users -> Requests \cup {None}]
BY DEF TypeOK, Release, lockVars

\* Steps that leave the tables alone.
LEMMA Apart ==
  ASSUME TypeOK, NEW r \in Requests,
         \/ EditLock(r) \/ EditActive(r) \/ EditTarget(r) \/ ChangeRow(r) \/ UpdateHash(r)
         \/ Revoke(r) \/ LoginResetFails(r) \/ Reject(r) \/ Aborted(r) \/ Refused(r),
         ChangeKnown
  PROVE  /\ UNCHANGED <<userVars, password, sessions, epoch, changes>>
         /\ editing' \in Requests \cup {None}
         /\ rowHolder' \in [Users -> Requests \cup {None}]
         /\ hashHolder' \in [Users -> Requests \cup {None}]
<1>1. UNCHANGED <<userVars, password, sessions, epoch, changes>>
  BY DEF EditLock, EditActive, EditTarget, ChangeRow, UpdateHash, Revoke, LoginResetFails,
         Reject, Aborted, Refused
<1>2. CASE EditLock(r) \/ EditActive(r) \/ Revoke(r) \/ LoginResetFails(r)
  BY <1>1, <1>2, LockTypes DEF EditLock, EditActive, Revoke, LoginResetFails
<1>3. CASE Reject(r) \/ Aborted(r) \/ Refused(r)
  BY <1>1, <1>3, LockTypes DEF Reject, Aborted, Refused
<1>4. CASE EditTarget(r) \/ ChangeRow(r) \/ UpdateHash(r)
  <2>1. req[r].target \in Users
    BY <1>4 DEF EditTarget, ChangeRow, UpdateHash, Goto, ChangeKnown, Steps, LoginSteps
  <2> QED BY <1>1, <1>4, <2>1, LockTypes DEF EditTarget, ChangeRow, UpdateHash
<1> QED BY <1>1, <1>2, <1>3, <1>4

LEMMA CommitTypes ==
  ASSUME TypeOK, ChangeKnown, NEW r \in Requests, Commit(r)
  PROVE  TypeOK'
<1> DEFINE u == req[r].target
           c == req[r].change
<1>1. /\ u \in Users /\ status[u] # "absent"
      /\ c \in Edits \/ (c \in Changes /\ c.kind = "change")
  BY DEF Commit, Goto, ChangeKnown, Steps, LoginSteps
<1>2. /\ c.password \in Passwords \cup {None}
      /\ c.kind \in {"enable", "disable", "remove", "change"}
  BY <1>1 DEF Edits, Changes
<1>3. /\ status' = [status EXCEPT ![u] = NewStatus(c, @)]
      /\ password' = [password EXCEPT ![u] = NewPassword(c, @)]
      /\ must' = [must EXCEPT ![u] = IF c.password = None THEN @ ELSE c.kind # "change"]
      /\ sessions' = [s \in SessionIds |-> IF s \in req[r].doomed THEN None ELSE sessions[s]]
      /\ epoch' = [epoch EXCEPT ![u] = IF Ends(c) THEN @ + 1 ELSE @]
      /\ UNCHANGED <<failed, locked, changes>> /\ Release(r)
  BY DEF Commit
<1> HIDE DEF u, c
<1>4. /\ NewStatus(c, status[u]) \in {"enabled", "disabled", "deleted"}
      /\ password[u] # None /\ password[u] \in Passwords
  BY <1>1, <1>2 DEF TypeOK, NewStatus
<1>5. NewPassword(c, password[u]) \in Passwords
  BY <1>2, <1>4 DEF NewPassword
<1>6. \A v \in Users : status'[v] = "absent" <=> password'[v] = None
  <2> SUFFICES ASSUME NEW v \in Users PROVE status'[v] = "absent" <=> password'[v] = None
    OBVIOUS
  <2>1. CASE v = u
    BY <1>1, <1>3, <1>4, <1>5, <2>1, IdentityAssumption DEF TypeOK
  <2>2. CASE v # u
    BY <1>1, <1>3, <2>2 DEF TypeOK
  <2> QED BY <2>1, <2>2
<1>7. /\ status' \in [Users -> {"absent", "enabled", "disabled", "deleted"}]
      /\ password' \in [Users -> Passwords \cup {None}]
  BY <1>3, <1>4, <1>5 DEF TypeOK
<1>8. must' \in [Users -> BOOLEAN]
  BY <1>3 DEF TypeOK
<1>9. sessions' \in [SessionIds -> SessionRows \cup {None}]
  BY <1>3 DEF TypeOK
<1>10. epoch' \in [Users -> Nat]
  BY <1>1, <1>3 DEF TypeOK
<1> QED BY <1>3, <1>6, <1>7, <1>8, <1>9, <1>10, RequestTypes, LockTypes DEF TypeOK, Progress

LEMMA BeginTypes ==
  ASSUME TypeOK, NEW r \in Requests, NEW a \in Users, NEW u \in Users,
         NEW c \in Edits \cup Changes, NEW first \in Steps, Begin(r, a, u, c, first)
  PROVE  /\ TypeOK' /\ pc[r] = "idle"
         /\ req' = [req EXCEPT ![r] = [Blank EXCEPT !.user = a, !.target = u, !.change = c]]
         /\ pc' = [pc EXCEPT ![r] = first]
         /\ UNCHANGED <<userVars, password, sessions, lockVars, epoch>>
<1>1. [Blank EXCEPT !.user = a, !.target = u, !.change = c] \in Locals
  BY DEF Blank, Locals
<1>2. changes' \in 0..MaxChanges
  BY IdentityAssumption DEF Begin, TypeOK
<1> QED BY <1>1, <1>2 DEF Begin, Goto, TypeOK, userVars, lockVars

LEMMA LoginReadTypes ==
  ASSUME TypeOK, NEW r \in Requests, NEW u \in Users, NEW p \in Passwords, NEW s \in SessionIds,
         LoginRead(r, u, p, s)
  PROVE  TypeOK' /\ pc[r] = "idle" /\ (\E to \in {"fail", "reset"} : pc' = [pc EXCEPT ![r] = to])
<1>1. [Blank EXCEPT !.user = u, !.session = s, !.since = epoch[u]] \in Locals
  BY DEF Blank, Locals, TypeOK
<1>2. req' \in [Requests -> Locals]
  BY <1>1 DEF LoginRead, TypeOK
<1>3. \E to \in {"fail", "reset"} : pc[r] = "idle" /\ pc' = [pc EXCEPT ![r] = to]
  BY DEF LoginRead, Goto
<1> QED BY <1>2, <1>3 DEF LoginRead, TypeOK, userVars, lockVars, Steps, LoginSteps

LEMMA TypeStep ==
  ASSUME TypeOK, ChangeKnown, [Next]_vars
  PROVE  TypeOK'
<1>1. ASSUME NEW r \in Requests, NEW u \in Users, NEW p \in Passwords, NEW s \in SessionIds,
             LoginRead(r, u, p, s)
      PROVE  TypeOK'
  BY <1>1, LoginReadTypes
<1>2. ASSUME NEW r \in Requests, NEW u \in Users, NEW p \in Passwords, BeginChange(r, u, p)
      PROVE  TypeOK'
  <2>1. [kind |-> "change", password |-> p] \in Edits \cup Changes /\ "hash" \in Steps
    BY DEF Changes, Steps
  <2> QED BY <1>2, <2>1, BeginTypes DEF BeginChange
<1>3. ASSUME NEW r \in Requests, NEW a \in Users, NEW u \in Users, NEW e \in Edits,
             BeginEdit(r, a, u, e)
      PROVE  TypeOK'
  BY <1>3, BeginTypes DEF BeginEdit, Steps
<1>4. ASSUME NEW r \in Requests, NEW a \in Users, NEW u \in Users, NEW p \in Passwords,
             BeginCreate(r, a, u, p)
      PROVE  TypeOK'
  <2>1. [kind |-> "create", password |-> p] \in Edits \cup Changes /\ "create" \in Steps
    BY DEF Changes, Steps
  <2> QED BY <1>4, <2>1, BeginTypes DEF BeginCreate
<1>5. ASSUME NEW r \in Requests,
             \/ EditLock(r) \/ EditActive(r) \/ EditTarget(r) \/ ChangeRow(r) \/ UpdateHash(r)
             \/ Revoke(r) \/ LoginResetFails(r) \/ Reject(r) \/ Aborted(r) \/ Refused(r)
      PROVE  TypeOK'
  <2>1. /\ pc' \in [Requests -> {"idle"} \cup Steps]
        /\ req' \in [Requests -> Locals]
    BY <1>5, RequestTypes DEF Progress
  <2> QED BY <1>5, <2>1, Apart DEF TypeOK, userVars
<1>6. ASSUME NEW r \in Requests, LoginFail(r) \/ LoginReset(r) PROVE TypeOK'
  <2>1. /\ pc' \in [Requests -> {"idle"} \cup Steps]
        /\ req' \in [Requests -> Locals]
    BY <1>6, RequestTypes DEF Progress
  <2>2. req[r].user \in Users /\ failed[req[r].user] \in 0..MaxFailures /\ MaxFailures \in Nat \ {0}
    BY <1>6, IdentityAssumption
       DEF LoginFail, LoginReset, Answer, Goto, ChangeKnown, Steps, LoginSteps, TypeOK
  <2>3. failed' \in [Users -> 0..MaxFailures]
    <3>1. CASE LoginFail(r)
      BY <2>2, <3>1 DEF LoginFail, TypeOK
    <3>2. CASE LoginReset(r)
      BY <2>2, <3>2 DEF LoginReset, TypeOK
    <3> QED BY <1>6, <3>1, <3>2
  <2>4. locked' \in [Users -> BOOLEAN]
    BY <1>6 DEF LoginFail, LoginReset, TypeOK
  <2> QED BY <1>6, <2>1, <2>3, <2>4 DEF LoginFail, LoginReset, TypeOK, lockVars
<1>7. ASSUME NEW r \in Requests, LoginOpen(r) PROVE TypeOK'
  <2>1. /\ pc' \in [Requests -> {"idle"} \cup Steps]
        /\ req' \in [Requests -> Locals]
    BY <1>7, RequestTypes DEF Progress
  <2>2. /\ req[r].user \in Users /\ req[r].since \in Nat
        /\ req[r].late \/ Revoking(req[r].user) \in BOOLEAN
    BY <1>7 DEF LoginOpen, Answer, Goto, ChangeKnown, Steps, LoginSteps, TypeOK, Locals, Revoking
  <2>3. sessions' \in [SessionIds -> SessionRows \cup {None}]
    BY <1>7, <2>2 DEF LoginOpen, TypeOK, SessionRows
  <2> QED BY <1>7, <2>1, <2>3 DEF LoginOpen, TypeOK, userVars, lockVars
<1>8. ASSUME NEW r \in Requests, Create(r) PROVE TypeOK'
  <2>1. /\ pc' \in [Requests -> {"idle"} \cup Steps]
        /\ req' \in [Requests -> Locals]
    BY <1>8, RequestTypes DEF Progress
  <2>2. req[r].target \in Users /\ req[r].change.password \in Passwords
    BY <1>8 DEF Create, Answer, Goto, ChangeKnown, Steps, LoginSteps, Changes
  <2>3. /\ status' \in [Users -> {"absent", "enabled", "disabled", "deleted"}]
        /\ password' \in [Users -> Passwords \cup {None}]
        /\ \A u \in Users : status'[u] = "absent" <=> password'[u] = None
    BY <1>8, <2>2, IdentityAssumption DEF Create, TypeOK
  <2> QED BY <1>8, <2>1, <2>3 DEF Create, TypeOK, lockVars
<1>9. ASSUME NEW s \in SessionIds, EndSession(s) PROVE TypeOK'
  BY <1>9 DEF EndSession, TypeOK, userVars, lockVars
<1>10. ASSUME NEW u \in Users, Unlock(u) PROVE TypeOK'
  BY <1>10 DEF Unlock, TypeOK, lockVars
<1>11. CASE UNCHANGED vars
  BY <1>11 DEF vars, userVars, lockVars, TypeOK
<1> QED
  BY <1>1, <1>2, <1>3, <1>4, <1>5, <1>6, <1>7, <1>8, <1>9, <1>10, <1>11, CommitTypes
     DEF Next, Progress

\* What a request's step leaves of the others.
LEMMA OthersKept ==
  ASSUME TypeOK, NEW r \in Requests, Progress(r) \/ LoginResetFails(r) \/ Reject(r)
  PROVE  \A q \in Requests \ {r} :
           /\ pc'[q] = pc[q]
           /\ req'[q].user = req[q].user /\ req'[q].target = req[q].target
           /\ req'[q].change = req[q].change /\ req'[q].session = req[q].session
           /\ req'[q].doomed = req[q].doomed /\ req'[q].since = req[q].since
<1>1. ASSUME NEW q \in Requests \ {r} PROVE pc'[q] = pc[q]
  BY DEF Progress, LoginFail, LoginReset, LoginResetFails, LoginOpen, Create, EditLock,
         EditActive, EditTarget, ChangeRow, UpdateHash, Revoke, Commit, Aborted,
         Refused, Reject, Answer, Goto, TypeOK
<1>2. CASE Commit(r)
  BY <1>1, <1>2 DEF Commit, TypeOK, Locals
<1>3. CASE ~ Commit(r)
  <2>1. ASSUME NEW q \in Requests \ {r} PROVE req'[q] = req[q]
    BY <1>3 DEF Progress, LoginFail, LoginReset, LoginResetFails, LoginOpen, Create, EditLock,
           EditActive, EditTarget, ChangeRow, UpdateHash, Revoke, Aborted,
           Refused, Reject, Answer, Goto, TypeOK
  <2> QED BY <1>1, <2>1
<1> QED BY <1>2, <1>3

\* No user becomes absent.
LEMMA StatusKept ==
  ASSUME TypeOK, ChangeKnown, [Next]_vars
  PROVE  \A u \in Users : status[u] # "absent" => status'[u] # "absent"
<1>1. ASSUME NEW r \in Requests, Create(r)
      PROVE  \A u \in Users : status[u] # "absent" => status'[u] # "absent"
  BY <1>1 DEF Create, TypeOK
<1>2. ASSUME NEW r \in Requests, Commit(r)
      PROVE  \A u \in Users : status[u] # "absent" => status'[u] # "absent"
  BY <1>2 DEF Commit, NewStatus, TypeOK
<1>3. ASSUME \A r \in Requests : ~ Create(r) /\ ~ Commit(r)
      PROVE  UNCHANGED status
  BY <1>3 DEF Next, Progress, LoginRead, BeginChange, BeginEdit, BeginCreate, Begin, LoginFail,
              LoginReset, LoginResetFails, LoginOpen, EditLock, EditActive, EditTarget, ChangeRow,
              UpdateHash, Revoke, Aborted, Refused, Reject, EndSession, Unlock, vars, userVars
<1> QED BY <1>1, <1>2, <1>3

LEMMA KnownStep ==
  ASSUME TypeOK, ChangeKnown, [Next]_vars
  PROVE  ChangeKnown'
<1> DEFINE Known(r) ==
      /\ pc[r] \in Steps => req[r].user \in Users
      /\ pc[r] \in LoginSteps => req[r].session \in SessionIds
      /\ pc[r] \in Steps \ LoginSteps => req[r].target \in Users
      /\ pc[r] = "create" => req[r].change \in Changes
      /\ pc[r] = "row" => req[r].change \in Changes /\ req[r].change.kind = "change"
      /\ pc[r] \in {"lock", "active", "target"} => req[r].change \in Edits
      /\ pc[r] \in {"hash", "revoke", "commit"} =>
           req[r].change \in Edits \/ (req[r].change \in Changes /\ req[r].change.kind = "change")
      /\ pc[r] \in {"hash", "row", "revoke", "commit"} => status[req[r].target] # "absent"
<1>1. ASSUME NEW q \in Requests, pc'[q] = pc[q], req'[q].user = req[q].user,
             req'[q].target = req[q].target, req'[q].change = req[q].change,
             req'[q].session = req[q].session
      PROVE  Known(q)'
  BY <1>1, StatusKept DEF ChangeKnown, Steps, LoginSteps
<1>2. ASSUME NEW r \in Requests, pc'[r] = "idle" PROVE Known(r)'
  BY <1>2 DEF Steps, LoginSteps
<1>3. ASSUME NEW r \in Requests, Progress(r) \/ LoginResetFails(r) \/ Reject(r)
      PROVE  Known(r)'
  <2>1. CASE pc'[r] = "idle"
    BY <1>2, <2>1
  <2>2. CASE LoginReset(r) \/ LoginResetFails(r)
    BY <2>2 DEF LoginReset, LoginResetFails, Goto, TypeOK, ChangeKnown, Steps, LoginSteps
  <2>3. CASE EditLock(r) \/ EditActive(r)
    BY <2>3 DEF EditLock, EditActive, Goto, TypeOK, ChangeKnown, Steps, LoginSteps
  <2>4. CASE EditTarget(r)
    BY <2>4, StatusKept DEF EditTarget, AfterTarget, Exists, Goto, TypeOK, ChangeKnown, Steps, LoginSteps
  <2>5. CASE ChangeRow(r) \/ UpdateHash(r)
    <3>1. pc[r] \in {"hash", "row"} /\ req' = req /\ pc'[r] \in {"row", "revoke"}
      BY <2>5 DEF ChangeRow, UpdateHash, Goto, TypeOK
    <3>2. pc'[r] = "row" => req[r].change.kind = "change"
      BY <2>5 DEF ChangeRow, UpdateHash, Goto, TypeOK
    <3>3. req[r].change.kind = "change" => req[r].change \notin Edits
      BY DEF Edits
    <3> QED BY <3>1, <3>2, <3>3, StatusKept DEF ChangeKnown, Steps, LoginSteps
  <2>6. CASE Revoke(r)
    <3>1. /\ pc[r] = "revoke" /\ pc'[r] = "commit"
          /\ req'[r].user = req[r].user /\ req'[r].target = req[r].target
          /\ req'[r].change = req[r].change
      BY <2>6 DEF Revoke, Goto, TypeOK, Locals
    <3> QED BY <3>1, StatusKept DEF ChangeKnown, Steps, LoginSteps
  <2> QED
    BY <1>3, <2>1, <2>2, <2>3, <2>4, <2>5, <2>6
       DEF Progress, LoginFail, LoginOpen, Create, Commit, Aborted, Refused, Reject, Answer, Goto,
           TypeOK
<1>4. ASSUME NEW r \in Requests, NEW a \in Users, NEW u \in Users, NEW c \in Edits \cup Changes,
             NEW first \in {"hash", "lock", "create"}, Begin(r, a, u, c, first),
             first = "hash" => c \in Changes /\ c.kind = "change" /\ status[u] # "absent",
             first = "lock" => c \in Edits,
             first = "create" => c \in Changes
      PROVE  ChangeKnown'
  <2>1. /\ pc' = [pc EXCEPT ![r] = first]
        /\ req' = [req EXCEPT ![r] = [Blank EXCEPT !.user = a, !.target = u, !.change = c]]
        /\ UNCHANGED status
    BY <1>4 DEF Begin, Goto, userVars
  <2>2. /\ pc'[r] = first /\ req'[r].user = a /\ req'[r].target = u /\ req'[r].change = c
        /\ \A q \in Requests \ {r} : pc'[q] = pc[q] /\ req'[q] = req[q]
    BY <2>1 DEF TypeOK, Blank
  <2>3. Known(r)'
    BY <1>4, <2>1, <2>2 DEF Steps, LoginSteps
  <2> QED BY <1>1, <2>2, <2>3 DEF ChangeKnown
<1>5. ASSUME NEW r \in Requests, NEW u \in Users, NEW p \in Passwords, BeginChange(r, u, p)
      PROVE  ChangeKnown'
  <2> DEFINE c == [kind |-> "change", password |-> p]
  <2>1. c \in Changes /\ c.kind = "change"
    BY DEF Changes
  <2>2. status[u] # "absent" /\ Begin(r, u, u, c, "hash")
    BY <1>5 DEF BeginChange, Authenticated
  <2> HIDE DEF c
  <2> QED BY <1>4, <2>1, <2>2
<1>6. ASSUME NEW r \in Requests, NEW a \in Users, NEW u \in Users, NEW e \in Edits,
             BeginEdit(r, a, u, e)
      PROVE  ChangeKnown'
  BY <1>4, <1>6 DEF BeginEdit
<1>7. ASSUME NEW r \in Requests, NEW a \in Users, NEW u \in Users, NEW p \in Passwords,
             BeginCreate(r, a, u, p)
      PROVE  ChangeKnown'
  <2> DEFINE c == [kind |-> "create", password |-> p]
  <2>1. c \in Changes /\ Begin(r, a, u, c, "create")
    BY <1>7 DEF Changes, BeginCreate
  <2> HIDE DEF c
  <2> QED BY <1>4, <2>1
<1>8. ASSUME NEW r \in Requests, NEW u \in Users, NEW p \in Passwords, NEW s \in SessionIds,
             LoginRead(r, u, p, s)
      PROVE  ChangeKnown'
  <2>1. /\ req' = [req EXCEPT ![r] = [Blank EXCEPT !.user = u, !.session = s, !.since = epoch[u]]]
        /\ UNCHANGED status
    BY <1>8 DEF LoginRead, userVars
  <2>2. /\ pc'[r] \in {"fail", "reset"} /\ req'[r].user = u /\ req'[r].session = s
        /\ \A q \in Requests \ {r} : pc'[q] = pc[q] /\ req'[q] = req[q]
    BY <1>8, <2>1 DEF LoginRead, Goto, TypeOK, Blank
  <2>3. Known(r)'
    BY <2>2 DEF Steps, LoginSteps
  <2> QED BY <1>1, <2>2, <2>3 DEF ChangeKnown
<1>9. ASSUME UNCHANGED <<pc, req>> PROVE ChangeKnown'
  BY <1>1, <1>9 DEF ChangeKnown
<1>10. ASSUME NEW r \in Requests, Progress(r) \/ LoginResetFails(r) \/ Reject(r)
       PROVE  ChangeKnown'
  <2>1. ASSUME NEW q \in Requests \ {r} PROVE Known(q)'
    BY <1>1, <1>10, OthersKept
  <2> HIDE DEF Known
  <2>2. \A q \in Requests : Known(q)'
    BY <1>3, <1>10, <2>1
  <2> QED BY <2>2 DEF ChangeKnown, Known
<1> QED BY <1>5, <1>6, <1>7, <1>8, <1>9, <1>10 DEF Next, EndSession, Unlock, vars

\* The status of a user changes when one is created and when an edit commits.
LEMMA StatusStep ==
  ASSUME TypeOK, ChangeKnown, [Next]_vars
  PROVE  \/ UNCHANGED status
         \/ \E r \in Requests : Create(r)
         \/ \E r \in Requests : Commit(r) /\ Editing(r)
<1>1. ASSUME NEW r \in Requests, Commit(r), req[r].change.kind = "change" PROVE UNCHANGED status
  BY <1>1 DEF Commit, NewStatus, TypeOK
<1>2. ASSUME NEW r \in Requests, Commit(r), req[r].change.kind # "change" PROVE Editing(r)
  BY <1>2 DEF Commit, Goto, Editing
<1> QED
  BY <1>1, <1>2
     DEF Next, Progress, LoginRead, BeginChange, BeginEdit, BeginCreate, Begin, LoginFail,
         LoginReset, LoginResetFails, LoginOpen, EditLock, EditActive, EditTarget, ChangeRow,
         UpdateHash, Revoke, Aborted, Refused, Reject, EndSession, Unlock, vars, userVars

\* The advisory lock changes hands through no one.
LEMMA EditingStep ==
  ASSUME TypeOK, [Next]_vars, NEW q \in Requests, editing = q
  PROVE  \/ editing' = q
         \/ (Reject(q) \/ Commit(q)) /\ editing' = None
<1>1. q # None
  BY IdentityAssumption
<1>2. ASSUME NEW r \in Requests, Reject(r) \/ Commit(r)
      PROVE  editing' = q \/ (r = q /\ editing' = None)
  BY <1>2 DEF Reject, Commit, Release
<1>3. ASSUME NEW r \in Requests, Aborted(r) \/ Refused(r) PROVE Reject(r)
  BY <1>3 DEF Aborted, Refused
<1> QED
  BY <1>1, <1>2, <1>3
     DEF Next, Progress, LoginRead, BeginChange, BeginEdit, BeginCreate, Begin, LoginFail,
         LoginReset, LoginResetFails, LoginOpen, Create, EditLock, EditActive, EditTarget,
         ChangeRow, UpdateHash, Revoke, EndSession, Unlock, vars, lockVars

LEMMA AdminStep ==
  ASSUME AdminInv, [Next]_vars
  PROVE  AlwaysAdmin'
<1> USE DEF AdminInv
<1>1. ASSUME NEW r \in Requests, Create(r) PROVE AlwaysAdmin'
  BY <1>1 DEF Create, AlwaysAdmin, TypeOK
<1>2. ASSUME NEW r \in Requests, Commit(r), Editing(r) PROVE AlwaysAdmin'
  <2> DEFINE a == req[r].user
  <2>1. /\ a \in Admins /\ a \in Users /\ status[a] = "enabled"
        /\ a = req[r].target => req[r].change.kind = "enable"
    BY <1>2, IdentityAssumption DEF EditGuarded, Commit, Goto
  <2>2. status' = [status EXCEPT ![req[r].target] = NewStatus(req[r].change, @)]
    BY <1>2 DEF Commit
  <2>3. status'[a] = "enabled"
    BY <2>1, <2>2 DEF NewStatus, TypeOK
  <2> QED BY <2>1, <2>3 DEF AlwaysAdmin
<1> QED BY <1>1, <1>2, StatusStep DEF AlwaysAdmin

\* An active actor stays active while it has the lock.
LEMMA ActorKept ==
  ASSUME AdminInv, [Next]_vars, NEW q \in Requests, Editing(q), pc[q] # "active"
  PROVE  status'[req[q].user] = "enabled" \/ Commit(q)
<1>1. status[req[q].user] = "enabled" /\ editing = q /\ req[q].user \in Users
  BY IdentityAssumption DEF AdminInv, EditGuarded
<1>2. ASSUME NEW r \in Requests, Create(r) PROVE status'[req[q].user] = "enabled"
  BY <1>1, <1>2 DEF Create, AdminInv, TypeOK
<1>3. ASSUME NEW r \in Requests, Commit(r), Editing(r) PROVE r = q
  BY <1>1, <1>3 DEF AdminInv, EditGuarded
<1> QED BY <1>1, <1>2, <1>3, StatusStep DEF AdminInv

LEMMA GuardStep ==
  ASSUME AdminInv, [Next]_vars
  PROVE  EditGuarded'
<1> DEFINE Guarded(r) ==
      /\ Editing(r) => editing = r
      /\ Editing(r) /\ pc[r] # "active" => status[req[r].user] = "enabled"
      /\ Editing(r) \/ pc[r] = "lock" =>
           /\ req[r].user \in Admins
           /\ req[r].user = req[r].target => req[r].change.kind = "enable"
<1>0. TypeOK /\ ChangeKnown /\ \A r \in Requests : Guarded(r)
  BY DEF AdminInv, EditGuarded
<1>1. ASSUME NEW q \in Requests, pc'[q] = pc[q], req'[q].user = req[q].user,
             req'[q].target = req[q].target, req'[q].change = req[q].change
      PROVE  Guarded(q)'
  <2>1. Editing(q)' <=> Editing(q)
    BY <1>1 DEF Editing
  <2>2. CASE Editing(q)
    <3>1. editing = q /\ pc[q] # "idle"
      BY <1>0, <2>2 DEF Editing
    <3>2. ~ Reject(q) /\ ~ Commit(q)
      BY <1>1, <3>1, <1>0 DEF Reject, Answer, Commit, Goto, TypeOK
    <3>3. editing' = q
      BY <1>0, <3>1, <3>2, EditingStep
    <3> QED BY <1>0, <1>1, <2>1, <2>2, <3>2, <3>3, ActorKept DEF Editing
  <2>3. CASE ~ Editing(q)
    BY <1>0, <1>1, <2>1, <2>3
  <2> QED BY <2>2, <2>3
<1>2. ASSUME NEW r \in Requests, Progress(r) \/ LoginResetFails(r) \/ Reject(r)
      PROVE  Guarded(r)'
  <2>1. CASE EditLock(r)
    BY <1>0, <2>1 DEF EditLock, Goto, Editing, TypeOK
  <2>2. CASE EditActive(r)
    BY <1>0, <2>2 DEF EditActive, Goto, Editing, TypeOK, lockVars, userVars
  <2>3. CASE EditTarget(r) \/ UpdateHash(r) \/ ChangeRow(r)
    <3>1. /\ pc[r] \in {"target", "hash", "row"} /\ req' = req /\ UNCHANGED <<editing, status>>
          /\ pc'[r] \in {"row", "hash", "revoke", "commit"}
          /\ pc[r] = "hash" => pc'[r] \in {"row", "revoke"}
      BY <1>0, <2>3 DEF EditTarget, AfterTarget, UpdateHash, ChangeRow, Goto, TypeOK, userVars
    <3>2. pc[r] = "row" => req[r].change.kind = "change"
      BY <1>0 DEF ChangeKnown
    <3>3. Editing(r)' => Editing(r) /\ pc[r] # "active"
      BY <3>1, <3>2 DEF Editing
    <3> QED BY <1>0, <3>1, <3>3
  <2>4. CASE Revoke(r)
    <3>1. /\ pc[r] = "revoke" /\ pc'[r] = "commit" /\ UNCHANGED <<editing, status>>
          /\ req'[r].user = req[r].user /\ req'[r].target = req[r].target
          /\ req'[r].change = req[r].change
      BY <1>0, <2>4 DEF Revoke, Goto, TypeOK, Locals, userVars, lockVars
    <3> QED BY <1>0, <3>1 DEF Editing
  <2>5. CASE pc'[r] \in {"idle", "open"}
    BY <2>5 DEF Editing
  <2> QED
    BY <1>0, <1>2, <2>1, <2>2, <2>3, <2>4, <2>5
       DEF Progress, LoginFail, LoginReset, LoginResetFails, LoginOpen, Create, Commit, Aborted,
           Refused, Reject, Answer, Goto, TypeOK
<1>3. ASSUME NEW r \in Requests, NEW a \in Users, NEW u \in Users, NEW c \in Edits \cup Changes,
             NEW first \in {"hash", "lock", "create"}, Begin(r, a, u, c, first),
             first = "hash" => c.kind = "change",
             first = "lock" => a \in Admins /\ (u = a => c.kind = "enable")
      PROVE  EditGuarded'
  <2>1. /\ pc' = [pc EXCEPT ![r] = first]
        /\ req' = [req EXCEPT ![r] = [Blank EXCEPT !.user = a, !.target = u, !.change = c]]
    BY <1>3 DEF Begin, Goto
  <2>2. /\ pc'[r] = first /\ req'[r].user = a /\ req'[r].target = u /\ req'[r].change = c
        /\ \A q \in Requests \ {r} : pc'[q] = pc[q] /\ req'[q] = req[q]
    BY <1>0, <2>1 DEF TypeOK, Blank
  <2>3. Guarded(r)'
    BY <1>3, <2>2 DEF Editing
  <2> QED BY <1>1, <2>2, <2>3 DEF EditGuarded
<1>4. ASSUME NEW r \in Requests, NEW u \in Users, NEW p \in Passwords, BeginChange(r, u, p)
      PROVE  EditGuarded'
  <2> DEFINE c == [kind |-> "change", password |-> p]
  <2>1. c \in Changes /\ c.kind = "change" /\ Begin(r, u, u, c, "hash")
    BY <1>4 DEF Changes, BeginChange
  <2> HIDE DEF c
  <2> QED BY <1>3, <2>1
<1>5. ASSUME NEW r \in Requests, NEW a \in Users, NEW u \in Users, NEW e \in Edits,
             BeginEdit(r, a, u, e)
      PROVE  EditGuarded'
  BY <1>3, <1>5 DEF BeginEdit, Permitted, Ends
<1>6. ASSUME NEW r \in Requests, NEW a \in Users, NEW u \in Users, NEW p \in Passwords,
             BeginCreate(r, a, u, p)
      PROVE  EditGuarded'
  <2> DEFINE c == [kind |-> "create", password |-> p]
  <2>1. c \in Changes /\ Begin(r, a, u, c, "create")
    BY <1>6 DEF Changes, BeginCreate
  <2> HIDE DEF c
  <2> QED BY <1>3, <2>1
<1>7. ASSUME NEW r \in Requests, NEW u \in Users, NEW p \in Passwords, NEW s \in SessionIds,
             LoginRead(r, u, p, s)
      PROVE  EditGuarded'
  <2>1. /\ pc'[r] \in {"fail", "reset"}
        /\ \A q \in Requests \ {r} : pc'[q] = pc[q] /\ req'[q] = req[q]
    BY <1>0, <1>7 DEF LoginRead, Goto, TypeOK
  <2>2. Guarded(r)'
    BY <2>1 DEF Editing
  <2> QED BY <1>1, <2>1, <2>2 DEF EditGuarded
<1>8. ASSUME UNCHANGED <<pc, req>> PROVE EditGuarded'
  BY <1>1, <1>8 DEF EditGuarded
<1>9. ASSUME NEW r \in Requests, Progress(r) \/ LoginResetFails(r) \/ Reject(r)
      PROVE  EditGuarded'
  <2>1. ASSUME NEW q \in Requests \ {r} PROVE Guarded(q)'
    BY <1>0, <1>1, <1>9, OthersKept
  <2> HIDE DEF Guarded
  <2>2. \A q \in Requests : Guarded(q)'
    BY <1>2, <1>9, <2>1
  <2> QED BY <2>2 DEF EditGuarded, Guarded
<1> QED BY <1>4, <1>5, <1>6, <1>7, <1>8, <1>9 DEF Next, EndSession, Unlock, vars

LEMMA AdminInit == Init => AdminInv
<1> SUFFICES ASSUME Init PROVE AdminInv
  OBVIOUS
<1>1. TypeOK
  BY BlankType, IdentityAssumption DEF Init, TypeOK
<1>2. ChangeKnown /\ EditGuarded
  BY DEF Init, ChangeKnown, EditGuarded, Editing, Steps, LoginSteps
<1>3. AlwaysAdmin
  BY IdentityAssumption DEF Init, AlwaysAdmin
<1> QED BY <1>1, <1>2, <1>3 DEF AdminInv

LEMMA AdminInvariance == Spec => []AdminInv
<1>1. AdminInv /\ [Next]_vars => AdminInv'
  BY TypeStep, KnownStep, GuardStep, AdminStep DEF AdminInv
<1> QED BY AdminInit, <1>1, PTL DEF Spec

\* Every variable keeps its type, and exactly the users that exist have a password.
THEOREM IdentityTypes == Spec => []TypeOK
<1>1. AdminInv => TypeOK
  BY DEF AdminInv
<1> QED BY AdminInvariance, <1>1, PTL

\* However administrators edit one another, one of them is active.
THEOREM AlwaysAdminHolds == Spec => []AlwaysAdmin
<1>1. AdminInv => AlwaysAdmin
  BY DEF AdminInv
<1> QED BY AdminInvariance, <1>1, PTL

-----------------------------------------------------------------------------
(* Sessions                                                                *)

\* Epochs and sessions change where a session is opened or ends or a change
\* commits.
LEMMA SessionSteps ==
  ASSUME [Next]_vars
  PROVE  \/ UNCHANGED <<sessions, epoch>>
         \/ \E r \in Requests : LoginOpen(r) \/ Commit(r)
         \/ \E s \in SessionIds : EndSession(s)
<1> SUFFICES ASSUME \A r \in Requests : ~ LoginOpen(r) /\ ~ Commit(r),
                    \A s \in SessionIds : ~ EndSession(s)
             PROVE  UNCHANGED <<sessions, epoch>>
  OBVIOUS
<1>1. ASSUME NEW r \in Requests, Progress(r) \/ LoginResetFails(r) \/ Reject(r)
      PROVE  UNCHANGED <<sessions, epoch>>
  BY <1>1 DEF Progress, LoginFail, LoginReset, LoginResetFails, Create, EditLock, EditActive,
              EditTarget, ChangeRow, UpdateHash, Revoke, Aborted, Refused, Reject
<1> QED
  BY <1>1 DEF Next, LoginRead, BeginChange, BeginEdit, BeginCreate, Begin, Unlock, vars

\* The commit of a change ends all sessions but the late ones.
LEMMA CommitEnds ==
  ASSUME SessionInv, NEW r \in Requests, Commit(r)
  PROVE  /\ SessionsEnd'
         /\ \A q \in Requests : Current(q)' /\ Doom(q)'
<1> DEFINE u == req[r].target
           c == req[r].change
<1>1. /\ sessions' = [s \in SessionIds |-> IF s \in req[r].doomed THEN None ELSE sessions[s]]
      /\ epoch' = [epoch EXCEPT ![u] = IF Ends(c) THEN @ + 1 ELSE @]
      /\ req' = [q \in Requests |->
           IF q = r THEN Blank
           ELSE IF Ends(c) /\ pc[q] \in LoginSteps /\ req[q].user = u
                THEN [req[q] EXCEPT !.late = TRUE] ELSE req[q]]
      /\ pc[r] = "commit" /\ pc' = [pc EXCEPT ![r] = "idle"]
  BY DEF Commit, Goto
<1>2. TypeOK /\ (\A q \in Requests : Current(q) /\ Doom(q)) /\ SessionsEnd
  BY DEF SessionInv
<1> HIDE DEF u, c
<1>3. SessionsEnd'
  <2> SUFFICES ASSUME NEW v \in Users, NEW s \in SessionsOf(v)'
               PROVE  sessions'[s].late \/ sessions'[s].since = epoch'[v]
    BY DEF SessionsEnd
  <2>1. s \in SessionIds /\ s \notin req[r].doomed /\ s \in SessionsOf(v) /\ sessions'[s] = sessions[s]
    BY <1>1 DEF SessionsOf
  <2>2. CASE Ends(c) /\ v = u
    BY <1>1, <1>2, <2>1, <2>2 DEF Doom, u, c
  <2>3. CASE ~ (Ends(c) /\ v = u)
    <3>1. epoch'[v] = epoch[v]
      BY <1>1, <1>2, <2>3 DEF TypeOK
    <3> QED BY <1>2, <2>1, <3>1 DEF SessionsEnd
  <2> QED BY <2>2, <2>3
<1>4. ASSUME NEW q \in Requests PROVE Current(q)' /\ Doom(q)'
  <2>1. CASE q = r
    BY <1>1, <1>2, <2>1 DEF TypeOK, Current, Doom, LoginSteps
  <2>2. CASE q # r
    <3>1. /\ pc'[q] = pc[q] /\ req'[q].user = req[q].user /\ req'[q].since = req[q].since
          /\ req'[q].target = req[q].target /\ req'[q].change = req[q].change
          /\ req'[q].doomed = req[q].doomed
      BY <1>1, <1>2, <2>2 DEF TypeOK, Locals
    <3>2. Current(q)'
      <4>1. CASE Ends(c) /\ pc[q] \in LoginSteps /\ req[q].user = u
        BY <1>1, <1>2, <2>2, <4>1 DEF Current, TypeOK, Locals
      <4>2. CASE ~ (Ends(c) /\ pc[q] \in LoginSteps /\ req[q].user = u)
        <5>1. req'[q] = req[q]
          BY <1>1, <2>2, <4>2
        <5>2. pc[q] \in LoginSteps => epoch'[req[q].user] = epoch[req[q].user]
          BY <1>1, <1>2, <4>2 DEF TypeOK
        <5> QED BY <1>2, <3>1, <5>1, <5>2 DEF Current
      <4> QED BY <4>1, <4>2
    <3>3. Doom(q)'
      <4>1. \A s \in SessionsOf(req[q].target)' :
              s \in SessionsOf(req[q].target) /\ sessions'[s] = sessions[s]
        BY <1>1, <3>1 DEF SessionsOf
      <4> QED BY <1>2, <3>1, <4>1 DEF Doom, SessionsOf
    <3> QED BY <3>2, <3>3
  <2> QED BY <2>1, <2>2
<1> QED BY <1>3, <1>4

\* A session that is opened while one is about to lose its sessions is late.
LEMMA OpenIsLate ==
  ASSUME SessionInv, NEW r \in Requests, LoginOpen(r)
  PROVE  /\ SessionsEnd'
         /\ \A q \in Requests \ {r} : Doom(q)'
<1> DEFINE u == req[r].user
           id == req[r].session
           new == [user |-> u, since |-> req[r].since, late |-> req[r].late \/ Revoking(u)]
<1>1. /\ TypeOK /\ SessionsEnd /\ pc[r] = "open"
      /\ \A q \in Requests : Current(q) /\ Doom(q)
  BY DEF SessionInv, LoginOpen, Answer, Goto
<1>2. u \in Users /\ (req[r].late \/ req[r].since = epoch[u])
  BY <1>1 DEF Current, SessionInv, ChangeKnown, Steps, LoginSteps
<1>3. /\ sessions' = [sessions EXCEPT ![id] = new] /\ UNCHANGED epoch
      /\ \A q \in Requests \ {r} : pc'[q] = pc[q] /\ req'[q] = req[q]
  BY <1>1 DEF LoginOpen, Answer, Goto, TypeOK
<1>4. \A s \in SessionIds : sessions'[s] = IF s = id THEN new ELSE sessions[s]
  BY <1>1, <1>3 DEF TypeOK
<1>5. /\ new.user = u /\ new.since = req[r].since
      /\ new.late <=> req[r].late \/ Revoking(u)
  OBVIOUS
<1> HIDE DEF u, id, new
<1>6. SessionsEnd'
  BY <1>1, <1>2, <1>3, <1>4, <1>5 DEF SessionsEnd, SessionsOf
<1>7. ASSUME NEW q \in Requests \ {r} PROVE Doom(q)'
  <2> SUFFICES ASSUME pc[q] = "commit", Ends(req[q].change),
                      NEW s \in SessionsOf(req[q].target)'
               PROVE  s \in req[q].doomed \/ sessions'[s].late
    BY <1>3 DEF Doom, SessionsOf
  <2>1. CASE s = id
    <3>1. req[q].target = u
      BY <1>3, <1>4, <1>5, <2>1 DEF SessionsOf
    <3> QED BY <1>4, <1>5, <2>1, <3>1 DEF SessionsOf, Revoking
  <2>2. CASE s # id
    BY <1>1, <1>3, <1>4, <2>2 DEF Doom, SessionsOf
  <2> QED BY <2>1, <2>2
<1> QED BY <1>6, <1>7

LEMMA SessionInvStep ==
  ASSUME SessionInv, [Next]_vars
  PROVE  SessionInv'
<1>0. /\ TypeOK /\ ChangeKnown /\ SessionsEnd
      /\ \A r \in Requests : Current(r) /\ Doom(r)
  BY DEF SessionInv
<1>1. TypeOK' /\ ChangeKnown'
  BY <1>0, TypeStep, KnownStep
<1>2. ASSUME NEW r \in Requests, Commit(r) PROVE SessionInv'
  BY <1>1, <1>2, CommitEnds DEF SessionInv
\* A request that stays where it is.
<1>3. ASSUME NEW q \in Requests, pc'[q] = pc[q], req'[q] = req[q], UNCHANGED epoch,
             \A s \in SessionIds : sessions'[s] \in {sessions[s], None}
      PROVE  Current(q)' /\ Doom(q)'
  <2>1. \A s \in SessionsOf(req[q].target)' :
          s \in SessionsOf(req[q].target) /\ sessions'[s] = sessions[s]
    BY <1>3 DEF SessionsOf
  <2> QED BY <1>0, <1>3, <2>1 DEF Current, Doom, SessionsOf
<1>4. ASSUME NEW r \in Requests, LoginOpen(r) PROVE SessionInv'
  <2>1. /\ pc'[r] = "idle" /\ UNCHANGED epoch
        /\ \A q \in Requests \ {r} : pc'[q] = pc[q] /\ req'[q] = req[q]
    BY <1>0, <1>4 DEF LoginOpen, Answer, Goto, TypeOK
  <2>2. Current(r)' /\ Doom(r)' /\ \A q \in Requests \ {r} : Current(q)'
    BY <1>0, <2>1 DEF Current, Doom, LoginSteps
  <2> QED BY <1>1, <1>4, <2>2, OpenIsLate DEF SessionInv
<1>5. ASSUME NEW s \in SessionIds, EndSession(s) PROVE SessionInv'
  <2>1. /\ UNCHANGED <<pc, req, epoch>>
        /\ \A t \in SessionIds : sessions'[t] \in {sessions[t], None}
    BY <1>0, <1>5 DEF EndSession, TypeOK
  <2>2. SessionsEnd'
    BY <1>0, <2>1 DEF SessionsEnd, SessionsOf
  <2>3. \A q \in Requests : Current(q)' /\ Doom(q)'
    BY <1>3, <2>1
  <2> QED BY <1>1, <2>2, <2>3 DEF SessionInv
<1>6. ASSUME UNCHANGED <<sessions, epoch>>, NEW r \in Requests,
             \A q \in Requests \ {r} : pc'[q] = pc[q] /\ req'[q] = req[q],
             Current(r)' /\ Doom(r)'
      PROVE  SessionInv'
  <2>1. SessionsEnd'
    BY <1>0, <1>6 DEF SessionsEnd, SessionsOf
  <2>2. \A q \in Requests \ {r} : Current(q)' /\ Doom(q)'
    BY <1>3, <1>6
  <2> QED BY <1>1, <1>6, <2>1, <2>2 DEF SessionInv
\* The other steps of requests.
<1>7. ASSUME NEW r \in Requests, Progress(r) \/ LoginResetFails(r) \/ Reject(r),
             ~ Commit(r), ~ LoginOpen(r)
      PROVE  SessionInv'
  <2>1. UNCHANGED <<sessions, epoch>>
    BY <1>7 DEF Progress, LoginFail, LoginReset, LoginResetFails, Create, EditLock, EditActive,
                EditTarget, ChangeRow, UpdateHash, Revoke, Aborted, Refused, Reject
  <2>2. \A q \in Requests \ {r} : pc'[q] = pc[q] /\ req'[q] = req[q]
    BY <1>0, <1>7
       DEF Progress, LoginFail, LoginReset, LoginResetFails, Create, EditLock, EditActive,
           EditTarget, ChangeRow, UpdateHash, Revoke, Aborted, Refused, Reject, Answer, Goto, TypeOK
  <2>3. Current(r)' /\ Doom(r)'
    <3>1. CASE LoginReset(r) \/ LoginResetFails(r)
      BY <1>0, <2>1, <3>1 DEF LoginReset, LoginResetFails, Goto, TypeOK, Current, Doom, LoginSteps
    <3>2. CASE Revoke(r)
      <4>1. /\ pc'[r] = "commit" /\ req'[r].target = req[r].target
            /\ req'[r].doomed = SessionsOf(req[r].target)
        BY <1>0, <3>2 DEF Revoke, Goto, TypeOK, Locals
      <4> QED BY <2>1, <4>1 DEF Current, Doom, LoginSteps, SessionsOf
    <3>3. CASE EditTarget(r)
      <4>1. req' = req /\ pc'[r] = AfterTarget(req[r].change)
        BY <1>0, <3>3 DEF EditTarget, Goto, TypeOK
      <4> QED BY <4>1 DEF AfterTarget, Current, Doom, LoginSteps
    <3>4. CASE pc'[r] \notin LoginSteps \cup {"commit"}
      BY <3>4 DEF Current, Doom
    <3> QED
      BY <1>0, <1>7, <3>1, <3>2, <3>3, <3>4
         DEF Progress, LoginFail, Create, EditLock, EditActive, ChangeRow, UpdateHash, Aborted,
             Refused, Reject, Answer, Goto, TypeOK, LoginSteps
  <2> QED BY <1>6, <2>1, <2>2, <2>3
<1>8. ASSUME NEW r \in Requests, NEW a \in Users, NEW u \in Users, NEW c, NEW first \in Steps,
             first \notin LoginSteps \cup {"commit"}, Begin(r, a, u, c, first)
      PROVE  SessionInv'
  <2>1. /\ pc'[r] = first /\ UNCHANGED <<sessions, epoch>>
        /\ \A q \in Requests \ {r} : pc'[q] = pc[q] /\ req'[q] = req[q]
    BY <1>0, <1>8 DEF Begin, Goto, TypeOK
  <2>2. Current(r)' /\ Doom(r)'
    BY <1>8, <2>1 DEF Current, Doom
  <2> QED BY <1>6, <2>1, <2>2
<1>9. ASSUME NEW r \in Requests, NEW u \in Users, NEW p \in Passwords, NEW s \in SessionIds,
             LoginRead(r, u, p, s)
      PROVE  SessionInv'
  <2>1. /\ pc'[r] \in {"fail", "reset"} /\ UNCHANGED <<sessions, epoch>>
        /\ req'[r].user = u /\ req'[r].since = epoch[u]
        /\ \A q \in Requests \ {r} : pc'[q] = pc[q] /\ req'[q] = req[q]
    BY <1>0, <1>9 DEF LoginRead, Goto, TypeOK, Blank
  <2>2. Current(r)' /\ Doom(r)'
    BY <2>1 DEF Current, Doom
  <2> QED BY <1>6, <2>1, <2>2
<1>10. ASSUME UNCHANGED <<pc, req, sessions, epoch>> PROVE SessionInv'
  <2>1. \A q \in Requests : Current(q)' /\ Doom(q)'
    BY <1>3, <1>10
  <2> QED BY <1>0, <1>1, <1>10, <2>1 DEF SessionInv, SessionsEnd, SessionsOf
<1> QED
  BY <1>2, <1>4, <1>5, <1>7, <1>8, <1>9, <1>10
     DEF Next, Unlock, vars, BeginChange, BeginEdit, BeginCreate, Steps, LoginSteps

\* A change that is to end a user's sessions ends all but those of the logins
\* it has met under way.
THEOREM SessionsEndHolds == Spec => []SessionsEnd
<1>1. Init => SessionInv
  BY AdminInit DEF Init, AdminInv, SessionInv, SessionsEnd, SessionsOf, Current, Doom, LoginSteps
<1>2. SessionInv /\ [Next]_vars => SessionInv'
  BY SessionInvStep
<1>3. SessionInv => SessionsEnd
  BY DEF SessionInv
<1> QED BY <1>1, <1>2, <1>3, PTL DEF Spec
-----------------------------------------------------------------------------
(* Deadlocks                                                               *)

\* Both transactions have the user's row when they revoke and commit.  The edit has
\* taken it first and ChangePassword second, so that between the two the edit has the
\* row and ChangePassword the hash.
RowHeld(r) ==
  pc[r] \in {"revoke", "commit"} \/ (pc[r] = "hash" /\ req[r].change.kind # "change")
HashHeld(r) ==
  pc[r] = "row" \/ (pc[r] \in {"revoke", "commit"} /\ req[r].change.password # None)

\* A request has the locks of its place, and those of its target only.
Locked(r) ==
  /\ editing = r <=> Editing(r)
  /\ \A u \in Users :
       /\ rowHolder[u] = r <=> RowHeld(r) /\ req[r].target = u
       /\ hashHolder[u] = r <=> HashHeld(r) /\ req[r].target = u
  /\ pc[r] = "hash" => req[r].change.password # None

LockInv == \A r \in Requests : Locked(r)

\* No step takes a lock from another request.
LEMMA OthersLocked ==
  ASSUME TypeOK, ChangeKnown, NEW r \in Requests,
         Progress(r) \/ LoginResetFails(r) \/ Reject(r), NEW q \in Requests \ {r}, Locked(q)
  PROVE  Locked(q)'
<1>1. /\ editing' = q <=> editing = q
      /\ \A u \in Users : /\ rowHolder'[u] = q <=> rowHolder[u] = q
                          /\ hashHolder'[u] = q <=> hashHolder[u] = q
  <2>1. CASE UNCHANGED lockVars
    BY <2>1 DEF lockVars
  <2>2. CASE Release(r)
    BY <2>2, IdentityAssumption DEF Release
  <2>3. CASE EditLock(r)
    BY <2>3, IdentityAssumption DEF EditLock
  <2>4. CASE EditTarget(r) \/ ChangeRow(r)
    BY <2>4, IdentityAssumption DEF EditTarget, ChangeRow, TypeOK
  <2>5. CASE UpdateHash(r)
    BY <2>5, IdentityAssumption DEF UpdateHash, TypeOK
  <2> QED
    BY <2>1, <2>2, <2>3, <2>4, <2>5
       DEF Progress, LoginFail, LoginReset, LoginResetFails, LoginOpen, Create, EditActive,
           Revoke, Commit, Aborted, Refused, Reject
<1>2. pc'[q] = pc[q] /\ req'[q].target = req[q].target /\ req'[q].change = req[q].change
  BY OthersKept
<1> QED BY <1>1, <1>2 DEF Locked, Editing, RowHeld, HashHeld

\* Whoever is before or after its transaction has no lock.
Lockless == LoginSteps \cup {"idle", "create", "lock"}

LEMMA LocklessHolds ==
  ASSUME NEW r \in Requests, pc[r] \in Lockless \/ (pc[r] = "hash" /\ req[r].change.kind = "change")
  PROVE  ~ Editing(r) /\ ~ RowHeld(r) /\ ~ HashHeld(r)
BY DEF Lockless, LoginSteps, Editing, RowHeld, HashHeld

LEMMA LocksTaken ==
  ASSUME TypeOK, ChangeKnown, NEW r \in Requests, Locked(r),
         Progress(r) \/ LoginResetFails(r) \/ Reject(r)
  PROVE  Locked(r)'
<1>0. /\ r # None /\ pc \in [Requests -> {"idle"} \cup Steps]
      /\ req \in [Requests -> Locals]
      /\ rowHolder \in [Users -> Requests \cup {None}]
      /\ hashHolder \in [Users -> Requests \cup {None}]
  BY IdentityAssumption DEF TypeOK
<1>1. ASSUME pc'[r] = "idle", Release(r) PROVE Locked(r)'
  BY <1>0, <1>1 DEF Release, Locked, Editing, RowHeld, HashHeld
<1>2. CASE LoginFail(r) \/ LoginReset(r) \/ LoginResetFails(r) \/ LoginOpen(r) \/ Create(r)
  <2>1. pc[r] \in Lockless /\ pc'[r] \in Lockless /\ UNCHANGED lockVars
    BY <1>0, <1>2
       DEF LoginFail, LoginReset, LoginResetFails, LoginOpen, Create, Answer, Goto, Lockless,
           LoginSteps
  <2>2. ~ Editing(r)' /\ ~ RowHeld(r)' /\ ~ HashHeld(r)'
    BY <2>1 DEF Lockless, LoginSteps, Editing, RowHeld, HashHeld
  <2>3. ~ Editing(r) /\ ~ RowHeld(r) /\ ~ HashHeld(r) /\ pc'[r] # "hash"
    BY <2>1, LocklessHolds DEF Lockless, LoginSteps
  <2> QED BY <2>1, <2>2, <2>3 DEF Locked, lockVars
<1>3. CASE EditLock(r)
  BY <1>0, <1>3 DEF EditLock, Goto, Locked, Editing, RowHeld, HashHeld
<1>4. CASE EditActive(r)
  BY <1>0, <1>4 DEF EditActive, Goto, Locked, Editing, RowHeld, HashHeld, lockVars
<1>5. CASE EditTarget(r)
  <2>1. /\ pc[r] = "target" /\ pc'[r] = AfterTarget(req[r].change) /\ UNCHANGED <<editing, hashHolder, req>>
        /\ req[r].change \in Edits /\ req[r].target \in Users
        /\ rowHolder' = [rowHolder EXCEPT ![req[r].target] = r]
    BY <1>0, <1>5 DEF EditTarget, Goto, ChangeKnown, Steps, LoginSteps
  <2>2. /\ req[r].change.kind # "change" /\ pc'[r] \in {"hash", "revoke", "commit"}
        /\ pc'[r] = "hash" <=> req[r].change.password # None
    BY <2>1 DEF Edits, AfterTarget
  <2> QED BY <1>0, <2>1, <2>2 DEF Locked, Editing, RowHeld, HashHeld
<1>6. CASE ChangeRow(r)
  <2>1. /\ pc[r] = "row" /\ pc'[r] = "revoke" /\ UNCHANGED <<editing, hashHolder, req>>
        /\ req[r].change \in Changes /\ req[r].change.kind = "change" /\ req[r].target \in Users
        /\ rowHolder' = [rowHolder EXCEPT ![req[r].target] = r]
    BY <1>0, <1>6 DEF ChangeRow, Goto, ChangeKnown, Steps, LoginSteps
  <2>2. req[r].change.password # None
    BY <2>1, IdentityAssumption DEF Changes
  <2> QED BY <1>0, <2>1, <2>2 DEF Locked, Editing, RowHeld, HashHeld
<1>7. CASE UpdateHash(r)
  <2>1. /\ pc[r] = "hash" /\ UNCHANGED <<editing, rowHolder, req>> /\ req[r].target \in Users
        /\ pc'[r] = IF req[r].change.kind = "change" THEN "row" ELSE "revoke"
        /\ hashHolder' = [hashHolder EXCEPT ![req[r].target] = r]
    BY <1>0, <1>7 DEF UpdateHash, Goto, ChangeKnown, Steps, LoginSteps
  <2>2. req[r].change.password # None
    BY <2>1 DEF Locked
  <2> QED BY <1>0, <2>1, <2>2 DEF Locked, Editing, RowHeld, HashHeld
<1>8. CASE Revoke(r)
  <2>1. /\ pc[r] = "revoke" /\ pc'[r] = "commit" /\ UNCHANGED lockVars
        /\ req'[r].target = req[r].target /\ req'[r].change = req[r].change
    BY <1>0, <1>8 DEF Revoke, Goto, Locals
  <2> QED BY <2>1 DEF Locked, Editing, RowHeld, HashHeld, lockVars
<1>9. CASE Commit(r) \/ Reject(r) \/ Aborted(r) \/ Refused(r)
  BY <1>0, <1>1, <1>9 DEF Commit, Aborted, Refused, Reject, Answer, Goto
<1> QED BY <1>2, <1>3, <1>4, <1>5, <1>6, <1>7, <1>8, <1>9 DEF Progress

LEMMA LockStep ==
  ASSUME TypeOK, ChangeKnown, LockInv, [Next]_vars
  PROVE  LockInv'
<1>1. ASSUME NEW r \in Requests, Progress(r) \/ LoginResetFails(r) \/ Reject(r) PROVE LockInv'
  <2>1. \A q \in Requests : Locked(q)
    BY DEF LockInv
  <2>2. Locked(r)'
    BY <1>1, <2>1, LocksTaken
  <2>3. \A q \in Requests \ {r} : Locked(q)'
    BY <1>1, <2>1, OthersLocked
  <2> QED BY <2>2, <2>3 DEF LockInv
<1>2. ASSUME UNCHANGED <<lockVars, pc, req>> PROVE LockInv'
  BY <1>2 DEF LockInv, Locked, Editing, RowHeld, HashHeld, lockVars
<1>3. ASSUME NEW r \in Requests, pc[r] = "idle", UNCHANGED lockVars,
             \A q \in Requests \ {r} : pc'[q] = pc[q] /\ req'[q] = req[q],
             \/ pc'[r] \in {"fail", "reset", "lock", "create"}
             \/ /\ pc'[r] = "hash" /\ req'[r].change.kind = "change"
                /\ req'[r].change.password # None
      PROVE  LockInv'
  <2>1. Locked(r) /\ ~ Editing(r) /\ ~ RowHeld(r) /\ ~ HashHeld(r)
    BY <1>3, LocklessHolds DEF LockInv, Lockless
  <2>2. ~ Editing(r)' /\ ~ RowHeld(r)' /\ ~ HashHeld(r)'
    BY <1>3 DEF Editing, RowHeld, HashHeld
  <2>3. Locked(r)'
    BY <1>3, <2>1, <2>2 DEF Locked, lockVars
  <2>4. ASSUME NEW q \in Requests \ {r} PROVE Locked(q)'
    <3>1. Locked(q)
      BY DEF LockInv
    <3> QED BY <1>3, <3>1 DEF Locked, Editing, RowHeld, HashHeld, lockVars
  <2> QED BY <2>3, <2>4 DEF LockInv
<1>4. ASSUME NEW r \in Requests, NEW a \in Users, NEW u \in Users, NEW c \in Edits \cup Changes,
             NEW first \in {"hash", "lock", "create"}, Begin(r, a, u, c, first),
             first = "hash" => c.kind = "change" /\ c.password # None
      PROVE  LockInv'
  <2>1. /\ pc[r] = "idle" /\ pc'[r] = first /\ req'[r].change = c /\ UNCHANGED lockVars
        /\ \A q \in Requests \ {r} : pc'[q] = pc[q] /\ req'[q] = req[q]
    BY <1>4 DEF Begin, Goto, Blank, TypeOK
  <2> QED BY <1>3, <1>4, <2>1
<1>5. ASSUME NEW r \in Requests, NEW u \in Users, NEW p \in Passwords, BeginChange(r, u, p)
      PROVE  LockInv'
  <2> DEFINE c == [kind |-> "change", password |-> p]
  <2>1. c \in Edits \cup Changes /\ c.kind = "change" /\ c.password # None
    BY IdentityAssumption DEF Changes
  <2>2. Begin(r, u, u, c, "hash")
    BY <1>5 DEF BeginChange
  <2> HIDE DEF c
  <2> QED BY <1>4, <2>1, <2>2
<1>6. ASSUME NEW r \in Requests, NEW a \in Users, NEW u \in Users, NEW e \in Edits,
             BeginEdit(r, a, u, e)
      PROVE  LockInv'
  BY <1>4, <1>6 DEF BeginEdit
<1>7. ASSUME NEW r \in Requests, NEW a \in Users, NEW u \in Users, NEW p \in Passwords,
             BeginCreate(r, a, u, p)
      PROVE  LockInv'
  <2> DEFINE c == [kind |-> "create", password |-> p]
  <2>1. c \in Edits \cup Changes
    BY DEF Changes
  <2>2. Begin(r, a, u, c, "create")
    BY <1>7 DEF BeginCreate
  <2> HIDE DEF c
  <2> QED BY <1>4, <2>1, <2>2
<1>8. ASSUME NEW r \in Requests, NEW u \in Users, NEW p \in Passwords, NEW s \in SessionIds,
             LoginRead(r, u, p, s)
      PROVE  LockInv'
  <2>1. /\ pc[r] = "idle" /\ pc'[r] \in {"fail", "reset"} /\ UNCHANGED lockVars
        /\ \A q \in Requests \ {r} : pc'[q] = pc[q] /\ req'[q] = req[q]
    BY <1>8 DEF LoginRead, Goto, TypeOK
  <2> QED BY <1>3, <2>1
<1> QED BY <1>1, <1>2, <1>5, <1>6, <1>7, <1>8 DEF Next, EndSession, Unlock, vars

LEMMA LockInvariance == Spec => []LockInv
<1>1. Init => LockInv
  BY IdentityAssumption DEF Init, LockInv, Locked, Editing, RowHeld, HashHeld
<1>2. AdminInv /\ LockInv /\ [Next]_vars => LockInv'
  BY LockStep DEF AdminInv
<1> QED BY <1>1, <1>2, AdminInvariance, PTL DEF Spec

\* Who is waited for by one that has to wait itself: an edit that has the advisory lock
\* only, or one side of a deadlock.
LEMMA WaitingHolder ==
  ASSUME TypeOK, ChangeKnown, LockInv, NEW r \in Requests, NEW q \in Requests,
         NEW p \in Requests, Waits(r, q), Waits(q, p)
  PROVE  /\ req[q].target \in Users /\ req[p].target = req[q].target
         /\ \/ pc[q] = "target" /\ pc[r] = "lock" /\ RowHeld(p)
            \/ pc[q] = "hash" /\ rowHolder[req[q].target] = q /\ HashHeld(p)
            \/ pc[q] = "row" /\ hashHolder[req[q].target] = q /\ RowHeld(p)
<1>1. Locked(r) /\ Locked(q) /\ Locked(p)
  BY DEF LockInv
<1>2. pc[q] \in {"target", "row", "hash", "lock", "fail", "reset"}
  BY DEF Waits, WaitsFor
<1>3. /\ pc[r] \in {"target", "row", "hash"} => req[r].target \in Users
      /\ pc[r] \in {"fail", "reset"} => req[r].user \in Users
      /\ pc[q] \in {"target", "row", "hash"} => req[q].target \in Users
  BY DEF ChangeKnown, Steps, LoginSteps
<1>4. (pc[r] = "lock" /\ Editing(q)) \/ RowHeld(q) \/ HashHeld(q)
  BY <1>1, <1>3 DEF Waits, WaitsFor, Locked
<1>5. CASE pc[q] = "target"
  BY <1>1, <1>3, <1>4, <1>5 DEF Waits, WaitsFor, Locked, RowHeld, HashHeld
<1>6. CASE pc[q] = "hash"
  BY <1>1, <1>3, <1>4, <1>6 DEF Waits, WaitsFor, Locked, RowHeld, HashHeld, Editing
<1>7. CASE pc[q] = "row"
  BY <1>1, <1>3, <1>7 DEF Waits, WaitsFor, Locked, RowHeld, HashHeld
<1>8. CASE pc[q] \in {"lock", "fail", "reset"}
  BY <1>4, <1>8 DEF RowHeld, HashHeld, Editing
<1> QED BY <1>2, <1>5, <1>6, <1>7, <1>8

\* For any number of requests, deadlocks are between two, an edit and a change of the
\* same user's password, which is what PostgreSQL is left to resolve.
THEOREM DeadlocksArePairsHolds == Spec => []DeadlocksArePairs
<1>1. ASSUME TypeOK, ChangeKnown, LockInv PROVE DeadlocksArePairs
  <2> SUFFICES ASSUME NEW r \in Requests, NEW q \in Requests, NEW p \in Requests,
                      NEW s \in Requests, Waits(r, q)
               PROVE  /\ Waits(q, p) /\ Waits(p, s) => s = q
                      /\ Waits(q, r) => WaitsFor(r, q) /\ WaitsFor(q, r)
    BY DEF DeadlocksArePairs
  <2>1. ASSUME Waits(q, p), Waits(p, s) PROVE s = q
    <3>1. req[q].target \in Users /\ req[p].target = req[q].target /\ req[s].target = req[p].target
      BY <1>1, <2>1, WaitingHolder
    <3>2. Locked(q) /\ Locked(p) /\ Locked(s)
      BY <1>1 DEF LockInv
    <3>3. CASE pc[p] = "target"
      BY <1>1, <2>1, <3>3, WaitingHolder DEF RowHeld, HashHeld
    <3>4. CASE pc[p] = "hash"
      <4>1. pc[q] # "hash"
        BY <1>1, <2>1, <3>4, WaitingHolder DEF HashHeld
      <4>2. pc[q] # "target"
        BY <1>1, <2>1, <3>2, <3>4, WaitingHolder DEF Locked, Editing, RowHeld
      <4>3. hashHolder[req[q].target] = q
        BY <1>1, <2>1, <4>1, <4>2, WaitingHolder
      <4>4. HashHeld(s)
        BY <1>1, <2>1, <3>4, WaitingHolder
      <4> QED BY <3>1, <3>2, <4>3, <4>4 DEF Locked
    <3>5. CASE pc[p] = "row"
      <4>1. pc[q] = "hash" /\ rowHolder[req[q].target] = q
        BY <1>1, <2>1, <3>5, WaitingHolder DEF RowHeld
      <4>2. RowHeld(s)
        BY <1>1, <2>1, <3>5, WaitingHolder
      <4> QED BY <3>1, <3>2, <4>1, <4>2 DEF Locked
    <3> QED BY <1>1, <2>1, <3>3, <3>4, <3>5, WaitingHolder
  <2>2. ASSUME Waits(q, r) PROVE WaitsFor(r, q) /\ WaitsFor(q, r)
    BY <1>1, <2>2, WaitingHolder DEF Waits
  <2> QED BY <2>1, <2>2
<1>2. AdminInv => TypeOK /\ ChangeKnown
  BY DEF AdminInv
<1> QED BY <1>1, <1>2, AdminInvariance, LockInvariance, PTL
=============================================================================
