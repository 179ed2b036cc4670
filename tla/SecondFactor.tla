---------------------------- MODULE SecondFactor ----------------------------
(***************************************************************************)
(* The second factor of one user (modules/identity): its setup and its     *)
(* confirmation, the recovery codes, and logins that need them.  Requests  *)
(* interleave at every statement, at READ COMMITTED.  Logins pass the      *)
(* limiter of LoginRate first.                                             *)
(***************************************************************************)
EXTENDS LoginRate

CONSTANTS
  Requests,
  Secrets,   \* TOTP secrets
  Codes,     \* each stands for the ten recovery codes of one confirmation
  None

ASSUME NoneAssumption == None \notin Requests \cup Secrets \cup Codes

VARIABLES
  secret, pending,   \* the row of identity.totp_factors; None without a row
  codes, used,       \* identity.recovery_codes, and those with used_at
  rowHolder,         \* the request whose transaction has locked the factor's row
  pc,
  got,               \* the secret a confirmation has read and verified
  seen,              \* the codes the snapshot of its DELETE has
  deleted,           \* the codes its transaction has deleted
  inserted,          \* and inserted
  \* history
  proved,            \* secrets with whose verification a confirmation has ended
  crossed,           \* requests during whose confirmation a setup has committed
  mixed,             \* whether one of these has activated the factor
  shown,             \* the codes of the last confirmation
  accepted           \* how often a code was accepted

factorVars == <<secret, pending, codes, used, rowHolder, pc, got, seen, deleted, inserted,
                proved, crossed, mixed, shown, accepted>>
vars == <<factorVars, rateVars>>

Active == secret # None /\ ~ pending

FactorTypeOK ==
  /\ secret \in Secrets \cup {None} /\ pending \in BOOLEAN
  /\ used \subseteq codes /\ codes \subseteq Codes
  /\ rowHolder \in Requests \cup {None}
  /\ pc \in [Requests -> {"idle", "begin", "delete", "activate", "commit", "check", "code", "open"}]
  /\ got \in [Requests -> Secrets \cup {None}]
  /\ seen \in [Requests -> SUBSET Codes]
  /\ deleted \in [Requests -> SUBSET codes]
  /\ inserted \in [Requests -> Codes \cup {None}]
  /\ proved \subseteq Secrets
  /\ crossed \subseteq Requests /\ mixed \in BOOLEAN
  /\ shown \in Codes \cup {None}
  /\ accepted \in [Codes -> Nat]

TypeOK == RateTypeOK /\ FactorTypeOK

Init ==
  /\ RateInit
  /\ secret = None /\ pending = TRUE
  /\ codes = {} /\ used = {}
  /\ rowHolder = None
  /\ pc = [r \in Requests |-> "idle"]
  /\ got = [r \in Requests |-> None]
  /\ seen = [r \in Requests |-> {}]
  /\ deleted = [r \in Requests |-> {}]
  /\ inserted = [r \in Requests |-> None]
  /\ proved = {}
  /\ crossed = {} /\ mixed = FALSE
  /\ shown = None
  /\ accepted = [c \in Codes |-> 0]

Goto(r, from, to) == pc[r] = from /\ pc' = [pc EXCEPT ![r] = to]
Confirming == {r \in Requests : pc[r] \in {"begin", "delete", "activate", "commit"}}

\* Uncommitted statements of other requests that have locked a code.
CodeLocked(c) == \E q \in Requests : c \in deleted[q]

-----------------------------------------------------------------------------
(* BeginMFA and ConfirmMFA                                                 *)

FaultyBegin(r) ==  \* the upsert without WHERE pending
  /\ pc[r] = "idle"
  /\ rowHolder = None
  /\ \E s \in Secrets \ {secret} :
       /\ \A q \in Requests : got[q] # s
       /\ secret' = s
  /\ crossed' = crossed \cup Confirming
  /\ UNCHANGED <<pending, codes, used, rowHolder, pc, got, seen, deleted, inserted,
                 proved, mixed, shown, accepted, rateVars>>

\* The upsert waits for the row and then looks at pending again.
Begin(r) ==
  /\ pc[r] = "idle"
  /\ rowHolder = None
  /\ pending
  /\ \E s \in Secrets \ {secret} :
       /\ \A q \in Requests : got[q] # s
       /\ secret' = s
  /\ crossed' = crossed \cup Confirming
  /\ UNCHANGED <<pending, codes, used, rowHolder, pc, got, seen, deleted, inserted,
                 proved, mixed, shown, accepted, rateVars>>

\* The pending secret is read and the code of the request verified with it.
ConfirmRead(r) ==
  /\ Goto(r, "idle", "begin")
  /\ secret # None /\ pending
  /\ got' = [got EXCEPT ![r] = secret]
  /\ crossed' = crossed \ {r}
  /\ UNCHANGED <<secret, pending, codes, used, rowHolder, seen, deleted, inserted,
                 proved, mixed, shown, accepted, rateVars>>

\* The transaction begins and its DELETE looks at the codes there are.
ConfirmSnapshot(r) ==
  /\ Goto(r, "begin", "delete")
  /\ seen' = [seen EXCEPT ![r] = codes]
  /\ UNCHANGED <<secret, pending, codes, used, rowHolder, got, deleted, inserted,
                 proved, crossed, mixed, shown, accepted, rateVars>>

NewCode(c) == c \notin codes /\ accepted[c] = 0 /\ \A q \in Requests : inserted[q] # c

FaultyConfirmDelete(r) ==  \* outside of the transaction
  /\ Goto(r, "delete", "activate")
  /\ codes' = codes \ seen[r]
  /\ used' = used \ seen[r]
  /\ \E c \in Codes : NewCode(c) /\ inserted' = [inserted EXCEPT ![r] = c]
  /\ UNCHANGED <<secret, pending, rowHolder, got, seen, deleted,
                 proved, crossed, mixed, shown, accepted, rateVars>>

\* The DELETE waits for rows that others delete, and leaves alone what they have
\* inserted meanwhile.  The INSERTs of the new codes follow.
ConfirmDelete(r) ==
  /\ Goto(r, "delete", "activate")
  /\ \A c \in seen[r] : ~ CodeLocked(c)
  /\ deleted' = [deleted EXCEPT ![r] = seen[r] \cap codes]
  /\ \E c \in Codes : NewCode(c) /\ inserted' = [inserted EXCEPT ![r] = c]
  /\ UNCHANGED <<secret, pending, codes, used, rowHolder, got, seen,
                 proved, crossed, mixed, shown, accepted, rateVars>>

\* UPDATE ... SET pending=false of whatever secret the row now has.
ConfirmActivate(r) ==
  /\ Goto(r, "activate", "commit")
  /\ rowHolder = None /\ rowHolder' = r
  /\ UNCHANGED <<secret, pending, codes, used, got, seen, deleted, inserted,
                 proved, crossed, mixed, shown, accepted, rateVars>>

Forget(r) ==
  /\ got' = [got EXCEPT ![r] = None]
  /\ seen' = [seen EXCEPT ![r] = {}]
  /\ deleted' = [deleted EXCEPT ![r] = {}]
  /\ inserted' = [inserted EXCEPT ![r] = None]
  /\ rowHolder' = IF rowHolder = r THEN None ELSE rowHolder

ConfirmCommit(r) ==
  /\ Goto(r, "commit", "idle")
  /\ pending' = FALSE
  /\ codes' = (codes \ deleted[r]) \cup {inserted[r]}
  /\ used' = used \ deleted[r]
  /\ Forget(r)
  /\ proved' = proved \cup {got[r]}
  /\ mixed' = IF pending THEN r \in crossed ELSE mixed
  /\ shown' = inserted[r]
  /\ UNCHANGED <<secret, crossed, accepted, rateVars>>

\* A statement fails, the client goes away, or a code is refused.
Fail(r) ==
  /\ pc[r] # "idle"
  /\ pc' = [pc EXCEPT ![r] = "idle"]
  /\ Forget(r)
  /\ UNCHANGED <<secret, pending, codes, used, proved, crossed, mixed, shown,
                 accepted, rateVars>>

-----------------------------------------------------------------------------
(* Login                                                                   *)

\* The limiter lets the request pass and the user's row is read.
LoginRead(r) ==
  /\ Goto(r, "idle", IF Active THEN "check" ELSE "open")
  /\ Allow
  /\ UNCHANGED <<secret, pending, codes, used, rowHolder, got, seen, deleted, inserted,
                 proved, crossed, mixed, shown, accepted>>

LoginDenied == Deny /\ UNCHANGED factorVars

\* verifySecondFactor: the secret's code, or else one of the recovery codes.
LoginCheck(r) ==
  /\ Goto(r, "check", "open") \/ Goto(r, "check", "code")
  /\ UNCHANGED <<secret, pending, codes, used, rowHolder, got, seen, deleted, inserted,
                 proved, crossed, mixed, shown, accepted, rateVars>>

FaultyLoginCode(r) ==  \* without used_at IS NULL
  /\ Goto(r, "code", "open")
  /\ \E c \in codes :
       /\ ~ CodeLocked(c)
       /\ used' = used \cup {c}
       /\ accepted' = [accepted EXCEPT ![c] = @ + 1]
  /\ UNCHANGED <<secret, pending, codes, rowHolder, got, seen, deleted, inserted,
                 proved, crossed, mixed, shown, rateVars>>

\* One UPDATE that looks at used_at and sets it.
LoginCode(r) ==
  /\ Goto(r, "code", "open")
  /\ \E c \in codes \ used :
       /\ ~ CodeLocked(c)
       /\ used' = used \cup {c}
       /\ accepted' = [accepted EXCEPT ![c] = @ + 1]
  /\ UNCHANGED <<secret, pending, codes, rowHolder, got, seen, deleted, inserted,
                 proved, crossed, mixed, shown, rateVars>>

\* Identity has what follows.
LoginOpen(r) ==
  /\ Goto(r, "open", "idle")
  /\ UNCHANGED <<secret, pending, codes, used, rowHolder, got, seen, deleted, inserted,
                 proved, crossed, mixed, shown, accepted, rateVars>>

-----------------------------------------------------------------------------

Progress(r) ==
  \/ ConfirmSnapshot(r) \/ ConfirmDelete(r) \/ ConfirmActivate(r) \/ ConfirmCommit(r)
  \/ LoginCheck(r) \/ LoginCode(r) \/ LoginOpen(r)

Next ==
  \/ Tick /\ UNCHANGED factorVars
  \/ LoginDenied
  \/ \E r \in Requests :
       Begin(r) \/ ConfirmRead(r) \/ LoginRead(r) \/ Progress(r) \/ Fail(r)

Spec == Init /\ [][Next]_vars

-----------------------------------------------------------------------------

\* An active factor is one the user has proved to have, unless another setup of
\* the same user has come between the proof and the activation, and nothing ever
\* replaces it (BeginMFA and ConfirmMFA, service.go:232 and 240-263).
ActiveVerified == Active => mixed \/ secret \in proved

\* The recovery codes that were shown last are stored, used or not, whichever
\* confirmations overlapped and whichever of them failed (service.go:253-266).
LastCodesWork == shown # None => shown \in codes

\* A recovery code is accepted once, however many logins offer it at the same time
\* (verifySecondFactor, service.go:278).
CodesOnce == \A c \in Codes : accepted[c] <= 1
=============================================================================
