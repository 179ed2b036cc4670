----------------------------- MODULE LoginRate ------------------------------
(***************************************************************************)
(* The limit of logins per client address (allowLogin, identity/module.go) *)
(* for one address: the times of the last attempts, pruned when the next   *)
(* one comes, all of it under one mutex.                                   *)
(***************************************************************************)
EXTENDS Naturals, Sequences, FiniteSets

CONSTANTS
  Limit,     \* ten
  Window,    \* one minute
  MaxTime    \* bounds the clock of a run

ASSUME RateAssumption == Limit \in Nat \ {0} /\ Window \in Nat \ {0} /\ MaxTime \in Nat
ASSUME ClockAssumption == Window <= MaxTime

VARIABLES
  now,        \* the clock
  attempts,   \* Module.attempts of the address
  allowed     \* history: the times of all attempts that were allowed

rateVars == <<now, attempts, allowed>>

RateTypeOK ==
  /\ now \in 0..MaxTime
  /\ attempts \in Seq(0..now) /\ Len(attempts) <= Limit
  /\ allowed \in Seq(0..now)

RateInit == now = Window /\ attempts = <<>> /\ allowed = <<>>

Tick ==
  /\ now < MaxTime /\ now' = now + 1
  /\ UNCHANGED <<attempts, allowed>>

FaultyKept ==  \* counts from the first attempt
  IF attempts # <<>> /\ attempts[1] > now - Window THEN attempts ELSE <<>>
\* The loop over the attempts appends those that are recent, here for the first n.
Kept ==
  LET kept[n \in 0..Len(attempts)] ==
        IF n = 0 THEN <<>>
        ELSE IF attempts[n] > now - Window THEN Append(kept[n - 1], attempts[n])
        ELSE kept[n - 1]
  IN  kept[Len(attempts)]

Allow ==
  /\ Len(Kept) < Limit
  /\ attempts' = Append(Kept, now)
  /\ allowed' = Append(allowed, now)
  /\ UNCHANGED now

FaultyDeny ==  \* denied attempts are remembered as well
  /\ Len(Kept) >= Limit
  /\ attempts' = Append(Kept, now)
  /\ UNCHANGED <<now, allowed>>

Deny ==
  /\ Len(Kept) >= Limit
  /\ attempts' = Kept
  /\ UNCHANGED <<now, allowed>>

-----------------------------------------------------------------------------

\* No stretch of time as long as the window has more attempts than the limit,
\* wherever it begins: pruning, which is done only when the next one comes, forgets
\* nothing that still counts (allowLogin, identity/module.go:200-216).
RateLimited ==
  \A t \in 0..now : Cardinality({i \in DOMAIN allowed : allowed[i] \in t..(t + Window - 1)}) <= Limit

\* An attempt is denied only if as many as the limit were allowed in the window before
\* it: denied attempts do not count, so an address that keeps trying is not locked
\* out for longer than one that waits (allowLogin, identity/module.go:204-213).
NoLockout ==
  Len(Kept) >= Limit => Cardinality({i \in DOMAIN allowed : allowed[i] > now - Window}) >= Limit
=============================================================================
