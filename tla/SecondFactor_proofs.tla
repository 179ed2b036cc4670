------------------------ MODULE SecondFactor_proofs -------------------------
(***************************************************************************)
(* Proofs about SecondFactor, for any number of requests that set up,      *)
(* confirm and use the second factor, and any limit of logins.             *)
(***************************************************************************)
EXTENDS SecondFactor, SequenceTheorems, FiniteSetTheorems, WellFoundedInduction, TLAPS

\* A confirmation knows a secret.  It is the row's, unless a setup has come in
\* between or the factor has become active, which ends all setups.
SetupsKnown ==
  \A r \in Confirming :
    /\ got[r] \in Secrets
    /\ pending => r \in crossed \/ got[r] = secret

\* The codes a transaction has inserted: new, its own, and used by nobody.
InsertedApart ==
  /\ \A r \in Requests : pc[r] \in {"activate", "commit"} => inserted[r] # None
  /\ \A r \in Requests :
       inserted[r] # None => inserted[r] \notin codes /\ accepted[inserted[r]] = 0
  /\ \A q, r \in Requests : q # r /\ inserted[q] # None => inserted[q] # inserted[r]

\* No two transactions delete the same code.
DeletedApart == \A q, r \in Requests : q # r => deleted[q] \cap deleted[r] = {}

\* A code that is still free was never accepted.
FreeUnused == \A c \in codes \ used : accepted[c] = 0

CodesInv == InsertedApart /\ DeletedApart /\ FreeUnused /\ CodesOnce
IInv == FactorTypeOK /\ SetupsKnown /\ ActiveVerified /\ CodesInv /\ LastCodesWork

-----------------------------------------------------------------------------

LEMMA InitHolds == Init => IInv
<1> SUFFICES ASSUME Init PROVE IInv
  OBVIOUS
<1>1. FactorTypeOK
  BY DEF Init, FactorTypeOK
<1>2. SetupsKnown /\ ActiveVerified /\ LastCodesWork
  BY DEF Init, SetupsKnown, Confirming, ActiveVerified, Active, LastCodesWork
<1>3. CodesInv
  BY DEF Init, CodesInv, InsertedApart, DeletedApart, FreeUnused, CodesOnce
<1> QED BY <1>1, <1>2, <1>3 DEF IInv

\* Steps that change nothing but where a request is, and the limiter.
Quiet(r) == LoginRead(r) \/ LoginCheck(r) \/ LoginOpen(r)

LEMMA StillPreserves ==
  ASSUME IInv, UNCHANGED factorVars
  PROVE  IInv'
<1> USE DEF factorVars
<1>1. FactorTypeOK' /\ SetupsKnown' /\ ActiveVerified' /\ LastCodesWork'
  BY DEF IInv, FactorTypeOK, SetupsKnown, Confirming, ActiveVerified, Active, LastCodesWork
<1>2. CodesInv'
  BY DEF IInv, CodesInv, InsertedApart, DeletedApart, FreeUnused, CodesOnce
<1> QED BY <1>1, <1>2 DEF IInv

LEMMA QuietPreserves ==
  ASSUME IInv, NEW r \in Requests, Quiet(r)
  PROVE  IInv'
<1>1. /\ UNCHANGED <<secret, pending, codes, used, rowHolder, got, seen, deleted, inserted,
                     proved, crossed, mixed, shown, accepted>>
      /\ \E to \in {"check", "open", "code", "idle"} : pc' = [pc EXCEPT ![r] = to]
  BY DEF Quiet, LoginRead, LoginCheck, LoginOpen, Goto
<1>2. FactorTypeOK'
  BY <1>1 DEF IInv, FactorTypeOK
<1>3. SetupsKnown' /\ ActiveVerified' /\ LastCodesWork'
  BY <1>1 DEF IInv, FactorTypeOK, SetupsKnown, Confirming, ActiveVerified, Active, LastCodesWork
<1>4. CodesInv'
  BY <1>1 DEF IInv, CodesInv, FactorTypeOK, InsertedApart, DeletedApart, FreeUnused, CodesOnce
<1> QED BY <1>2, <1>3, <1>4 DEF IInv

-----------------------------------------------------------------------------
(* Setups and confirmations                                                *)

LEMMA BeginPreserves ==
  ASSUME IInv, NEW r \in Requests, Begin(r)
  PROVE  IInv'
<1> USE DEF Begin
<1>1. FactorTypeOK'
  BY DEF IInv, FactorTypeOK, Confirming
<1>2. SetupsKnown' /\ ActiveVerified' /\ LastCodesWork'
  BY DEF IInv, SetupsKnown, Confirming, ActiveVerified, Active, LastCodesWork
<1>3. CodesInv'
  BY DEF IInv, CodesInv, InsertedApart, DeletedApart, FreeUnused, CodesOnce
<1> QED BY <1>1, <1>2, <1>3 DEF IInv

LEMMA ConfirmReadPreserves ==
  ASSUME IInv, NEW r \in Requests, ConfirmRead(r)
  PROVE  IInv'
<1> USE DEF ConfirmRead, Goto
<1>1. FactorTypeOK'
  BY DEF IInv, FactorTypeOK
<1>2. SetupsKnown'
  BY DEF IInv, FactorTypeOK, SetupsKnown, Confirming
<1>3. ActiveVerified' /\ LastCodesWork'
  BY DEF IInv, ActiveVerified, Active, LastCodesWork
<1>4. CodesInv'
  BY DEF IInv, CodesInv, FactorTypeOK, InsertedApart, DeletedApart, FreeUnused, CodesOnce
<1> QED BY <1>1, <1>2, <1>3, <1>4 DEF IInv

LEMMA ConfirmSnapshotPreserves ==
  ASSUME IInv, NEW r \in Requests, ConfirmSnapshot(r)
  PROVE  IInv'
<1> USE DEF ConfirmSnapshot, Goto
<1>1. FactorTypeOK'
  BY DEF IInv, FactorTypeOK
<1>2. SetupsKnown'
  BY DEF IInv, FactorTypeOK, SetupsKnown, Confirming
<1>3. ActiveVerified' /\ LastCodesWork'
  BY DEF IInv, ActiveVerified, Active, LastCodesWork
<1>4. CodesInv'
  BY DEF IInv, CodesInv, FactorTypeOK, InsertedApart, DeletedApart, FreeUnused, CodesOnce
<1> QED BY <1>1, <1>2, <1>3, <1>4 DEF IInv

\* The new code is none that is stored, inserted or was ever accepted, and what is
\* deleted was locked by nobody.
LEMMA ConfirmDeletePreserves ==
  ASSUME IInv, NEW r \in Requests, ConfirmDelete(r)
  PROVE  IInv'
<1>1. PICK c \in Codes : NewCode(c) /\ inserted' = [inserted EXCEPT ![r] = c]
  BY DEF ConfirmDelete
<1>2. /\ pc[r] = "delete" /\ pc' = [pc EXCEPT ![r] = "activate"]
      /\ \A d \in seen[r], q \in Requests : d \notin deleted[q]
      /\ deleted' = [deleted EXCEPT ![r] = seen[r] \cap codes]
      /\ UNCHANGED <<secret, pending, codes, used, rowHolder, got, seen,
                     proved, crossed, mixed, shown, accepted>>
  BY DEF ConfirmDelete, CodeLocked, Goto
<1>3. FactorTypeOK'
  BY <1>1, <1>2 DEF IInv, FactorTypeOK
<1>4. SetupsKnown'
  BY <1>2 DEF IInv, FactorTypeOK, SetupsKnown, Confirming
<1>5. ActiveVerified' /\ LastCodesWork'
  BY <1>2 DEF IInv, ActiveVerified, Active, LastCodesWork
<1>6. InsertedApart'
  BY <1>1, <1>2, NoneAssumption DEF IInv, CodesInv, FactorTypeOK, InsertedApart, NewCode
<1>7. DeletedApart' /\ FreeUnused' /\ CodesOnce'
  BY <1>2 DEF IInv, CodesInv, FactorTypeOK, DeletedApart, FreeUnused, CodesOnce
<1> QED BY <1>3, <1>4, <1>5, <1>6, <1>7 DEF IInv, CodesInv

LEMMA ConfirmActivatePreserves ==
  ASSUME IInv, NEW r \in Requests, ConfirmActivate(r)
  PROVE  IInv'
<1> USE DEF ConfirmActivate, Goto
<1>1. FactorTypeOK'
  BY DEF IInv, FactorTypeOK
<1>2. SetupsKnown'
  BY DEF IInv, FactorTypeOK, SetupsKnown, Confirming
<1>3. ActiveVerified' /\ LastCodesWork'
  BY DEF IInv, ActiveVerified, Active, LastCodesWork
<1>4. CodesInv'
  BY DEF IInv, CodesInv, FactorTypeOK, InsertedApart, DeletedApart, FreeUnused, CodesOnce
<1> QED BY <1>1, <1>2, <1>3, <1>4 DEF IInv

\* The commit publishes the one code and removes those no other transaction holds.
LEMMA ConfirmCommitPreserves ==
  ASSUME IInv, NEW r \in Requests, ConfirmCommit(r)
  PROVE  IInv'
<1>1. /\ pc[r] = "commit" /\ pc' = [pc EXCEPT ![r] = "idle"]
      /\ pending' = FALSE
      /\ codes' = (codes \ deleted[r]) \cup {inserted[r]}
      /\ used' = used \ deleted[r]
      /\ got' = [got EXCEPT ![r] = None]
      /\ seen' = [seen EXCEPT ![r] = {}]
      /\ deleted' = [deleted EXCEPT ![r] = {}]
      /\ inserted' = [inserted EXCEPT ![r] = None]
      /\ rowHolder' = IF rowHolder = r THEN None ELSE rowHolder
      /\ proved' = proved \cup {got[r]}
      /\ mixed' = IF pending THEN r \in crossed ELSE mixed
      /\ shown' = inserted[r]
      /\ UNCHANGED <<secret, crossed, accepted>>
  BY DEF ConfirmCommit, Forget, Goto
<1>2. FactorTypeOK /\ SetupsKnown /\ ActiveVerified /\ InsertedApart /\ DeletedApart
      /\ FreeUnused /\ CodesOnce
  BY DEF IInv, CodesInv
<1>3. /\ inserted[r] \in Codes \ codes /\ accepted[inserted[r]] = 0
      /\ r \in Confirming /\ got[r] \in Secrets
  BY <1>1, <1>2 DEF FactorTypeOK, SetupsKnown, InsertedApart, Confirming
<1>4. \A q \in Requests : deleted'[q] \subseteq codes'
  BY <1>1, <1>2 DEF FactorTypeOK, DeletedApart
<1>5. FactorTypeOK'
  <2>1. secret' \in Secrets \cup {None} /\ pending' \in BOOLEAN /\ rowHolder' \in Requests \cup {None}
    BY <1>1, <1>2 DEF FactorTypeOK
  <2>2. used' \subseteq codes' /\ codes' \subseteq Codes /\ shown' \in Codes \cup {None}
    BY <1>1, <1>2, <1>3 DEF FactorTypeOK
  <2>3. /\ pc' \in [Requests -> {"idle", "begin", "delete", "activate", "commit", "check",
                                 "code", "open"}]
        /\ got' \in [Requests -> Secrets \cup {None}]
        /\ seen' \in [Requests -> SUBSET Codes]
        /\ inserted' \in [Requests -> Codes \cup {None}]
    BY <1>1, <1>2 DEF FactorTypeOK
  <2>4. deleted' \in [Requests -> SUBSET codes']
    BY <1>1, <1>2, <1>4 DEF FactorTypeOK
  <2>5. mixed' \in BOOLEAN
    <3>1. CASE pending /\ r \in crossed
      BY <1>1, <3>1
    <3>2. CASE pending /\ r \notin crossed
      BY <1>1, <3>2
    <3>3. CASE ~ pending
      <4>1. mixed' = mixed
        BY <1>1, <3>3
      <4> QED BY <1>2, <4>1 DEF FactorTypeOK
    <3> QED BY <3>1, <3>2, <3>3
  <2>6. proved' \subseteq Secrets /\ crossed' \subseteq Requests /\ accepted' \in [Codes -> Nat]
    BY <1>1, <1>2, <1>3 DEF FactorTypeOK
  <2> QED BY <2>1, <2>2, <2>3, <2>4, <2>5, <2>6 DEF FactorTypeOK
<1>6. SetupsKnown'
  BY <1>1, <1>2 DEF FactorTypeOK, SetupsKnown, Confirming
<1>7. ActiveVerified'
  <2>1. CASE pending
    <3>1. r \in crossed \/ secret \in proved'
      BY <1>1, <1>2, <1>3, <2>1 DEF SetupsKnown
    <3>2. mixed' = (r \in crossed)
      BY <1>1, <2>1
    <3> QED BY <1>1, <3>1, <3>2 DEF ActiveVerified
  <2>2. CASE ~ pending
    <3>1. mixed' = mixed /\ secret' = secret /\ (Active' => Active)
      BY <1>1, <2>2 DEF Active
    <3> QED BY <1>1, <1>2, <3>1 DEF ActiveVerified
  <2> QED BY <2>1, <2>2
<1>8. CodesInv'
  <2>1. InsertedApart'
    BY <1>1, <1>2, <1>3 DEF FactorTypeOK, InsertedApart
  <2>2. DeletedApart' /\ CodesOnce'
    BY <1>1, <1>2 DEF FactorTypeOK, DeletedApart, CodesOnce
  <2>3. FreeUnused'
    BY <1>1, <1>2, <1>3 DEF FactorTypeOK, FreeUnused
  <2> QED BY <2>1, <2>2, <2>3 DEF CodesInv
<1>9. LastCodesWork'
  BY <1>1 DEF LastCodesWork
<1> QED BY <1>5, <1>6, <1>7, <1>8, <1>9 DEF IInv

LEMMA FailPreserves ==
  ASSUME IInv, NEW r \in Requests, Fail(r)
  PROVE  IInv'
<1> USE DEF Fail, Forget
<1>1. FactorTypeOK'
  BY DEF IInv, FactorTypeOK
<1>2. SetupsKnown'
  BY DEF IInv, FactorTypeOK, SetupsKnown, Confirming
<1>3. ActiveVerified' /\ LastCodesWork'
  BY DEF IInv, ActiveVerified, Active, LastCodesWork
<1>4. CodesInv'
  BY DEF IInv, CodesInv, FactorTypeOK, InsertedApart, DeletedApart, FreeUnused, CodesOnce
<1> QED BY <1>1, <1>2, <1>3, <1>4 DEF IInv

\* Only a free code is accepted, and it is not free afterwards.
LEMMA LoginCodePreserves ==
  ASSUME IInv, NEW r \in Requests, LoginCode(r)
  PROVE  IInv'
<1>1. PICK c \in codes \ used : /\ used' = used \cup {c}
                                /\ accepted' = [accepted EXCEPT ![c] = @ + 1]
  BY DEF LoginCode
<1>2. /\ pc[r] = "code" /\ pc' = [pc EXCEPT ![r] = "open"]
      /\ UNCHANGED <<secret, pending, codes, rowHolder, got, seen, deleted, inserted,
                     proved, crossed, mixed, shown>>
  BY DEF LoginCode, Goto
<1>3. FactorTypeOK'
  BY <1>1, <1>2 DEF IInv, FactorTypeOK
<1>4. SetupsKnown'
  BY <1>2 DEF IInv, FactorTypeOK, SetupsKnown, Confirming
<1>5. ActiveVerified' /\ LastCodesWork'
  BY <1>2 DEF IInv, ActiveVerified, Active, LastCodesWork
<1>6. InsertedApart' /\ DeletedApart'
  BY <1>1, <1>2 DEF IInv, CodesInv, FactorTypeOK, InsertedApart, DeletedApart
<1>7. FreeUnused' /\ CodesOnce'
  BY <1>1, <1>2 DEF IInv, CodesInv, FactorTypeOK, FreeUnused, CodesOnce
<1> QED BY <1>3, <1>4, <1>5, <1>6, <1>7 DEF IInv, CodesInv

-----------------------------------------------------------------------------

LEMMA StepPreserves == IInv /\ [Next]_vars => IInv'
<1> SUFFICES ASSUME IInv, [Next]_vars PROVE IInv'
  OBVIOUS
<1>1. CASE (Tick /\ UNCHANGED factorVars) \/ LoginDenied \/ UNCHANGED vars
  BY <1>1, StillPreserves DEF LoginDenied, vars
<1>2. ASSUME NEW r \in Requests,
             Begin(r) \/ ConfirmRead(r) \/ LoginRead(r) \/ Progress(r) \/ Fail(r)
      PROVE  IInv'
  <2>1. CASE Quiet(r)
    BY <2>1, QuietPreserves
  <2>2. CASE Begin(r) \/ ConfirmRead(r) \/ ConfirmSnapshot(r) \/ ConfirmDelete(r)
    BY <2>2, BeginPreserves, ConfirmReadPreserves, ConfirmSnapshotPreserves,
       ConfirmDeletePreserves
  <2>3. CASE ConfirmActivate(r) \/ ConfirmCommit(r) \/ LoginCode(r) \/ Fail(r)
    BY <2>3, ConfirmActivatePreserves, ConfirmCommitPreserves, LoginCodePreserves, FailPreserves
  <2> QED BY <1>2, <2>1, <2>2, <2>3 DEF Progress, Quiet
<1> QED BY <1>1, <1>2 DEF Next

LEMMA Invariance == Spec => []IInv
BY InitHolds, StepPreserves, PTL DEF Spec

\* A recovery code is accepted once, for any number of logins at the same time.
THEOREM CodesOnceHolds == Spec => []CodesOnce
<1>1. IInv => CodesOnce
  BY DEF IInv, CodesInv
<1> QED BY Invariance, <1>1, PTL

\* The active secret was proved, or its activation crossed another setup.
THEOREM ActiveVerifiedHolds == Spec => []ActiveVerified
<1>1. IInv => ActiveVerified
  BY DEF IInv
<1> QED BY Invariance, <1>1, PTL

\* The codes that were shown last are stored, however confirmations overlap.
THEOREM LastCodesWorkHolds == Spec => []LastCodesWork
<1>1. IInv => LastCodesWork
  BY DEF IInv
<1> QED BY Invariance, <1>1, PTL

-----------------------------------------------------------------------------
(* The limiter                                                             *)

\* Every nonempty set of numbers has a least one; induction is the choice of a least
\* counterexample.
LEMMA NatMin ==
  ASSUME NEW T \in SUBSET Nat, T # {}
  PROVE  \E n \in T : \A m \in T : n <= m
<1> DEFINE Cuts == {1..n : n \in T}
<1>1. \A n \in T : 1..n \in FiniteSubsetsOf(Nat)
  BY FS_Interval DEF FiniteSubsetsOf
<1>2. PICK c \in Cuts : \A d \in Cuts : <<d, c>> \notin StrictSubsetOrdering(Nat)
  <2>1. IsWellFoundedOn(StrictSubsetOrdering(Nat), FiniteSubsetsOf(Nat))
    BY FS_StrictSubsetOrderingWellFounded
  <2>2. Cuts \subseteq FiniteSubsetsOf(Nat) /\ Cuts # {}
    BY <1>1
  <2> HIDE DEF Cuts
  <2> QED BY <2>1, <2>2, WFMin
<1>3. PICK n \in T : c = 1..n
  OBVIOUS
<1>4. ASSUME NEW m \in T, ~ (n <= m) PROVE FALSE
  <2>1. 1..m \subseteq 1..n /\ n \in 1..n /\ n \notin 1..m
    BY <1>4
  <2>2. 1..m # 1..n /\ 1..m \in SUBSET Nat /\ 1..n \in SUBSET Nat
    BY <2>1
  <2>3. <<1..m, c>> \in StrictSubsetOrdering(Nat)
    BY <2>1, <2>2, <1>3 DEF StrictSubsetOrdering
  <2> QED BY <2>3, <1>2
<1> QED BY <1>4

\* Times are never before those that were written earlier.
InOrder(s) == \A i, j \in 1..Len(s) : i <= j => s[i] <= s[j]

Old(t) == t <= now - Window

\* What is remembered is the end of what was allowed, and the rest is old.
Remembered ==
  /\ Len(attempts) <= Len(allowed)
  /\ \A i \in 1..Len(attempts) : attempts[i] = allowed[Len(allowed) - Len(attempts) + i]
  /\ \A i \in 1..(Len(allowed) - Len(attempts)) : Old(allowed[i])

\* An attempt is as late as the window after the one Limit places before it.
Spaced == \A i \in 1..Len(allowed) : i > Limit => allowed[i - Limit] + Window <= allowed[i]

RateInv ==
  /\ now \in Nat /\ Window <= now /\ now <= MaxTime
  /\ attempts \in Seq(Nat) /\ allowed \in Seq(Nat) /\ Len(attempts) <= Limit
  /\ \A i \in 1..Len(allowed) : allowed[i] <= now
  /\ InOrder(allowed) /\ Remembered /\ Spaced

LEMMA SubSeqGrows ==
  ASSUME NEW s \in Seq(Nat), NEW p \in 1..Len(s), NEW n \in p..Len(s)
  PROVE  Append(SubSeq(s, p, n - 1), s[n]) = SubSeq(s, p, n)
<1>1. SubSeq(s, p, n) = SubSeq(s, p, n - 1) \o <<s[n]>>
  BY SubSeqRecursiveSecond
<1>2. n - 1 \in Int /\ \A i \in p..(n - 1) : s[i] \in Nat
  OBVIOUS
<1>3. SubSeq(s, p, n - 1) \in Seq(Nat)
  BY <1>2, SubSeqProperties
<1>4. s[n] \in Nat
  OBVIOUS
<1>5. Append(SubSeq(s, p, n - 1), s[n]) = SubSeq(s, p, n - 1) \o <<s[n]>>
  BY <1>3, <1>4, AppendIsConcat
<1> QED BY <1>1, <1>5

\* The loop of Kept, after any number of turns, has what it has met since the first
\* attempt that is not old.
LEMMA LoopKeeps ==
  ASSUME attempts \in Seq(Nat), now \in Nat, InOrder(attempts),
         NEW p \in 1..(Len(attempts) + 1),
         \A i \in 1..Len(attempts) : i < p <=> Old(attempts[i])
  PROVE  Kept = SubSeq(attempts, p, Len(attempts))
<1> DEFINE L == Len(attempts)
           Body(f) == [n \in 0..L |->
                         IF n = 0 THEN <<>>
                         ELSE IF attempts[n] > now - Window THEN Append(f[n - 1], attempts[n])
                         ELSE f[n - 1]]
           Result == [n \in 0..L |-> SubSeq(attempts, p, n)]
           kept == CHOOSE f : f = Body(f)
<1>0. L \in Nat /\ RateAssumption
  BY RateAssumption
<1>1. ASSUME NEW n \in 0..L
      PROVE  Result[n] = Body(Result)[n]
  <2>1. CASE n < p
    <3>1. n \in Int /\ n - 1 \in Int /\ p \in Int /\ n - 1 < p
      BY <2>1, <1>0
    <3>2. SubSeq(attempts, p, n) = <<>> /\ SubSeq(attempts, p, n - 1) = <<>>
      BY <2>1, <3>1, SubSeqEmpty
    <3>3. n # 0 => ~ (attempts[n] > now - Window)
      BY <2>1, <1>0 DEF Old
    <3>4. n # 0 => n - 1 \in 0..L
      BY <1>0
    <3> QED BY <3>2, <3>3, <3>4
  <2>2. CASE n >= p
    <3>1. n # 0 /\ n - 1 \in 0..L /\ attempts[n] > now - Window
      BY <2>2, <1>0 DEF Old
    <3>2. p \in 1..Len(attempts) /\ n \in p..Len(attempts)
      BY <2>2, <1>0
    <3>3. Append(SubSeq(attempts, p, n - 1), attempts[n]) = SubSeq(attempts, p, n)
      BY <3>2, SubSeqGrows
    <3> QED BY <3>1, <3>3
  <2>3. n < p \/ n >= p
    BY <1>0
  <2> QED BY <2>1, <2>2, <2>3
<1>2. Result = Body(Result)
  BY <1>1
<1>3. kept = Body(kept)
  <2> HIDE DEF Body, Result
  <2> QED BY <1>2
<1>4. \A n \in 0..L : kept[n] = Result[n]
  <2> SUFFICES ASSUME {n \in 0..L : kept[n] # Result[n]} # {} PROVE FALSE
    OBVIOUS
  <2>1. PICK n \in {m \in 0..L : kept[m] # Result[m]} :
               \A m \in {k \in 0..L : kept[k] # Result[k]} : n <= m
    <3> DEFINE Wrong == {n \in 0..L : kept[n] # Result[n]}
    <3> HIDE DEF kept, Result
    <3>1. Wrong \in SUBSET Nat /\ Wrong # {}
      BY <1>0
    <3>2. \E n \in Wrong : \A m \in Wrong : n <= m
      <4> HIDE DEF Wrong
      <4> QED BY <3>1, NatMin
    <3> QED BY <3>2
  <2> HIDE DEF kept, Result
  <2>2. kept[n] = Body(kept)[n] /\ Result[n] = Body(Result)[n]
    BY <1>2, <1>3
  <2>3. n # 0 => kept[n - 1] = Result[n - 1]
    BY <2>1, <1>0
  <2> QED BY <2>1, <2>2, <2>3
<1>5. Kept = kept[L]
  BY DEF Kept
<1> HIDE DEF kept
<1> QED BY <1>4, <1>5, <1>0

\* Because times are in order, what is not old is the end of what was remembered.
LEMMA KeptIsTheEnd ==
  ASSUME RateInv
  PROVE  \E p \in 1..(Len(attempts) + 1) :
           /\ \A i \in 1..Len(attempts) : i < p <=> Old(attempts[i])
           /\ Kept = SubSeq(attempts, p, Len(attempts))
<1> DEFINE L == Len(attempts)
           d == Len(allowed) - L
<1>0. /\ L \in Nat /\ now \in Nat /\ attempts \in Seq(Nat) /\ Len(allowed) \in Nat
      /\ d \in Nat /\ \A i \in 1..Len(allowed) : allowed[i] \in Nat
      /\ \A i \in 1..L : attempts[i] = allowed[d + i] /\ attempts[i] \in Nat
  BY DEF RateInv, Remembered
<1>1. InOrder(attempts)
  <2> SUFFICES ASSUME NEW i \in 1..L, NEW j \in 1..L, i <= j PROVE attempts[i] <= attempts[j]
    BY DEF InOrder
  <2>1. d + i \in 1..Len(allowed) /\ d + j \in 1..Len(allowed) /\ d + i <= d + j
    BY <1>0
  <2>2. allowed[d + i] <= allowed[d + j]
    BY <2>1 DEF RateInv, InOrder
  <2> HIDE DEF d
  <2> QED BY <2>2, <1>0
<1> DEFINE Fresh == {i \in 1..(L + 1) : i = L + 1 \/ ~ Old(attempts[i])}
<1>2. PICK p \in Fresh : \A i \in Fresh : p <= i
  <2>1. L + 1 \in Fresh /\ Fresh \in SUBSET Nat
    BY <1>0
  <2> HIDE DEF Fresh
  <2> QED BY <2>1, NatMin
<1>3. p \in 1..(L + 1)
  OBVIOUS
<1>4. ASSUME NEW i \in 1..L PROVE i < p <=> Old(attempts[i])
  <2>1. ASSUME i < p PROVE Old(attempts[i])
    BY <2>1, <1>2, <1>0
  <2>2. ASSUME i >= p PROVE ~ Old(attempts[i])
    <3>1. p \in 1..L /\ ~ Old(attempts[p])
      BY <2>2, <1>0, <1>2
    <3>2. attempts[p] <= attempts[i]
      BY <3>1, <2>2, <1>1 DEF InOrder
    <3> QED BY <3>1, <3>2, <1>0, RateAssumption DEF Old
  <2> QED BY <2>1, <2>2, <1>3, <1>0
<1>5. Kept = SubSeq(attempts, p, L)
  BY <1>0, <1>1, <1>3, <1>4, LoopKeeps
<1> QED BY <1>3, <1>4, <1>5

\* What is kept is remembered in the sense of Remembered, not longer, and is recent.
LEMMA KeptRemembers ==
  ASSUME RateInv
  PROVE  /\ Kept \in Seq(Nat) /\ Len(Kept) <= Len(attempts) /\ Len(Kept) <= Len(allowed)
         /\ \A i \in 1..Len(Kept) : Kept[i] = allowed[Len(allowed) - Len(Kept) + i]
         /\ \A i \in 1..(Len(allowed) - Len(Kept)) : Old(allowed[i])
         /\ \A i \in 1..Len(Kept) : ~ Old(Kept[i])
<1>1. PICK p \in 1..(Len(attempts) + 1) :
         /\ \A i \in 1..Len(attempts) : i < p <=> Old(attempts[i])
         /\ Kept = SubSeq(attempts, p, Len(attempts))
  BY KeptIsTheEnd
<1> DEFINE L == Len(attempts)
           A == Len(allowed)
           d == A - L
<1>0. /\ L \in Nat /\ A \in Nat /\ d \in Nat /\ attempts \in Seq(Nat)
      /\ \A i \in 1..L : attempts[i] = allowed[d + i] /\ attempts[i] \in Nat
      /\ \A i \in 1..d : Old(allowed[i])
  BY DEF RateInv, Remembered
<1>2. /\ Kept \in Seq(Nat)
      /\ Len(Kept) = IF p <= L THEN L - p + 1 ELSE 0
      /\ \A i \in 1..(L - p + 1) : Kept[i] = attempts[p + i - 1]
  <2>1. p \in Int /\ L \in Int /\ \A i \in p..L : attempts[i] \in Nat
    BY <1>0
  <2> QED BY <2>1, <1>1, SubSeqProperties
<1> HIDE DEF L, A
<1>3. Len(Kept) = L - p + 1 /\ p \in 1..(L + 1)
  BY <1>0, <1>2, <1>1 DEF L
<1>4. Len(Kept) <= L /\ Len(Kept) <= A /\ Len(Kept) \in Nat
  BY <1>0, <1>3
<1>5. ASSUME NEW i \in 1..Len(Kept) PROVE Kept[i] = allowed[A - Len(Kept) + i]
  <2>1. Kept[i] = attempts[p + i - 1] /\ p + i - 1 \in 1..L
    BY <1>0, <1>2, <1>3
  <2>2. attempts[p + i - 1] = allowed[d + (p + i - 1)]
    BY <2>1, <1>0
  <2>3. d + (p + i - 1) = A - Len(Kept) + i
    BY <1>0, <1>3
  <2> QED BY <2>1, <2>2, <2>3
<1>6. ASSUME NEW i \in 1..(A - Len(Kept)) PROVE Old(allowed[i])
  <2>1. CASE i <= d
    BY <2>1, <1>0
  <2>2. CASE i > d
    <3>1. i - d \in 1..L /\ i - d < p /\ d + (i - d) = i
      BY <2>2, <1>0, <1>3
    <3>2. Old(attempts[i - d]) /\ attempts[i - d] = allowed[i]
      <4>1. attempts[i - d] = allowed[d + (i - d)]
        BY <3>1, <1>0
      <4> QED BY <4>1, <3>1, <1>1 DEF L
    <3> QED BY <3>2
  <2> QED BY <2>1, <2>2, <1>0, <1>3
<1>7. ASSUME NEW i \in 1..Len(Kept) PROVE ~ Old(Kept[i])
  <2>1. p + i - 1 \in 1..L /\ ~ (p + i - 1 < p) /\ Kept[i] = attempts[p + i - 1]
    BY <1>0, <1>2, <1>3
  <2> QED BY <2>1, <1>1 DEF L
<1> QED BY <1>2, <1>4, <1>5, <1>6, <1>7 DEF A, L

LEMMA TickKeepsRate ==
  ASSUME RateInv, Tick
  PROVE  RateInv'
<1>1. now' = now + 1 /\ now < MaxTime /\ UNCHANGED <<attempts, allowed>> /\ now \in Nat
  BY DEF Tick, RateInv
<1>2. /\ now' \in Nat /\ Window <= now' /\ now' <= MaxTime
      /\ \A i \in 1..Len(allowed) : allowed[i] \in Nat /\ allowed[i] <= now'
  BY <1>1, RateAssumption DEF RateInv
<1>3. Remembered'
  <2>1. Len(allowed) - Len(attempts) \in Nat /\ Len(allowed) \in Nat /\ Len(attempts) \in Nat
    BY DEF RateInv, Remembered
  <2>2. ASSUME NEW i \in 1..(Len(allowed) - Len(attempts)) PROVE allowed[i] <= now' - Window
    <3>1. i \in 1..Len(allowed)
      BY <2>1
    <3>2. allowed[i] <= now - Window /\ allowed[i] \in Nat
      BY <3>1, <1>2 DEF RateInv, Remembered, Old
    <3> QED BY <3>2, <1>1, RateAssumption
  <2> QED BY <2>2, <1>1 DEF RateInv, Remembered, Old
<1>4. InOrder(allowed)' /\ Spaced'
  BY <1>1 DEF RateInv, InOrder, Spaced
<1> QED BY <1>1, <1>2, <1>3, <1>4 DEF RateInv

LEMMA DenyKeepsRate ==
  ASSUME RateInv, Deny
  PROVE  RateInv'
<1>1. attempts' = Kept /\ UNCHANGED <<now, allowed>>
  BY DEF Deny
<1>2. Remembered'
  BY <1>1, KeptRemembers DEF Remembered, Old
<1>3. attempts' \in Seq(Nat) /\ Len(attempts') <= Limit
  <2>1. Len(attempts) \in Nat /\ Len(Kept) \in Nat
    BY KeptRemembers DEF RateInv
  <2> QED BY <1>1, <2>1, KeptRemembers, RateAssumption DEF RateInv
<1>4. InOrder(allowed)' /\ Spaced'
  BY <1>1 DEF RateInv, InOrder, Spaced
<1> QED BY <1>1, <1>2, <1>3, <1>4 DEF RateInv

\* The attempt Limit places before a new one is not among the fewer than Limit kept.
LEMMA AllowKeepsRate ==
  ASSUME RateInv, Allow
  PROVE  RateInv'
<1> DEFINE A == Len(allowed)
           K == Len(Kept)
<1>1. /\ K < Limit /\ attempts' = Append(Kept, now) /\ allowed' = Append(allowed, now)
      /\ now' = now
  BY DEF Allow
<1>0. /\ A \in Nat /\ K \in Nat /\ K <= A /\ now \in Nat /\ Limit \in Nat /\ Limit > 0
      /\ Window \in Nat /\ allowed \in Seq(Nat) /\ Kept \in Seq(Nat)
      /\ \A i \in 1..A : allowed[i] \in Nat /\ allowed[i] <= now
  BY KeptRemembers, RateAssumption DEF RateInv
<1>2. /\ allowed' \in Seq(Nat) /\ Len(allowed') = A + 1 /\ allowed'[A + 1] = now
      /\ \A i \in 1..A : allowed'[i] = allowed[i]
  BY <1>0, <1>1
<1>3. /\ attempts' \in Seq(Nat) /\ Len(attempts') = K + 1 /\ attempts'[K + 1] = now
      /\ \A i \in 1..K : attempts'[i] = Kept[i]
  BY <1>0, <1>1
<1>k. /\ \A i \in 1..K : Kept[i] = allowed[A - K + i]
      /\ \A i \in 1..(A - K) : Old(allowed[i])
  BY KeptRemembers
<1>a. InOrder(allowed) /\ Spaced
  BY DEF RateInv
<1> HIDE DEF A, K
<1>4. Len(attempts') <= Limit
  BY <1>0, <1>1, <1>3
<1>5. ASSUME NEW i \in 1..(A + 1) PROVE allowed'[i] <= now
  <2>1. CASE i = A + 1
    BY <2>1, <1>0, <1>2
  <2>2. CASE i # A + 1
    <3>1. i \in 1..A
      BY <2>2, <1>0
    <3> QED BY <3>1, <1>0, <1>2
  <2> QED BY <2>1, <2>2
<1>6. InOrder(allowed)'
  <2> SUFFICES ASSUME NEW i \in 1..(A + 1), NEW j \in 1..(A + 1), i <= j
               PROVE  allowed'[i] <= allowed'[j]
    BY <1>2 DEF InOrder
  <2>1. CASE j = A + 1
    BY <2>1, <1>2, <1>5
  <2>2. CASE j # A + 1
    <3>1. i \in 1..A /\ j \in 1..A
      BY <2>2, <1>0
    <3> QED BY <3>1, <1>2, <1>a DEF InOrder, A
  <2> QED BY <2>1, <2>2
<1>7. Remembered'
  <2>1. Len(attempts') <= Len(allowed') /\ Len(allowed') - Len(attempts') = A - K
    BY <1>0, <1>2, <1>3
  <2>2. ASSUME NEW i \in 1..(K + 1) PROVE attempts'[i] = allowed'[A - K + i]
    <3>1. CASE i = K + 1
      <4>1. A - K + i = A + 1
        BY <3>1, <1>0
      <4> QED BY <3>1, <4>1, <1>2, <1>3
    <3>2. CASE i # K + 1
      <4>1. i \in 1..K /\ A - K + i \in 1..A
        BY <3>2, <1>0
      <4> QED BY <4>1, <1>2, <1>3, <1>k
    <3> QED BY <3>1, <3>2
  <2>3. ASSUME NEW i \in 1..(A - K) PROVE allowed'[i] <= now' - Window
    <3>1. i \in 1..A
      BY <1>0
    <3> QED BY <3>1, <1>1, <1>2, <1>k DEF Old
  <2> QED BY <2>1, <2>2, <2>3, <1>3 DEF Remembered, Old
<1>8. Spaced'
  <2> SUFFICES ASSUME NEW i \in 1..(A + 1), i > Limit
               PROVE  allowed'[i - Limit] + Window <= allowed'[i]
    BY <1>2 DEF Spaced
  <2>1. CASE i = A + 1
    <3>1. i - Limit \in 1..(A - K) /\ i - Limit \in 1..A
      BY <2>1, <1>0, <1>1
    <3>2. allowed'[i - Limit] = allowed[i - Limit] /\ allowed[i - Limit] <= now - Window
      BY <3>1, <1>2, <1>k DEF Old
    <3>3. allowed[i - Limit] \in Nat
      BY <3>1, <1>0
    <3>4. allowed[i - Limit] + Window <= now
      BY <3>2, <3>3, <1>0
    <3> QED BY <3>2, <3>4, <2>1, <1>2
  <2>2. CASE i # A + 1
    <3>1. i \in 1..A /\ i - Limit \in 1..A
      BY <2>2, <1>0
    <3>2. allowed[i - Limit] + Window <= allowed[i]
      BY <3>1, <1>a DEF Spaced, A
    <3> QED BY <3>1, <3>2, <1>2
  <2> QED BY <2>1, <2>2
<1> QED BY <1>1, <1>2, <1>3, <1>4, <1>5, <1>6, <1>7, <1>8 DEF RateInv

LEMMA RateInvariance == Spec => []RateInv
<1>1. Init => RateInv
  <2> SUFFICES ASSUME Init PROVE RateInv
    OBVIOUS
  <2>1. /\ attempts \in Seq(Nat) /\ allowed \in Seq(Nat)
        /\ Len(attempts) = 0 /\ Len(allowed) = 0 /\ now = Window
    BY EmptySeq DEF Init, RateInit
  <2> QED BY <2>1, RateAssumption, ClockAssumption
          DEF RateInv, InOrder, Remembered, Spaced
<1>2. RateInv /\ [Next]_vars => RateInv'
  <2> SUFFICES ASSUME RateInv, [Next]_vars PROVE RateInv'
    OBVIOUS
  <2>1. CASE Tick
    BY <2>1, TickKeepsRate
  <2>2. CASE Deny
    BY <2>2, DenyKeepsRate
  <2>3. CASE Allow
    BY <2>3, AllowKeepsRate
  <2>4. CASE UNCHANGED rateVars
    BY <2>4 DEF rateVars, RateInv, InOrder, Remembered, Old, Spaced
  <2> QED BY <2>1, <2>2, <2>3, <2>4
       DEF Next, LoginDenied, Begin, ConfirmRead, LoginRead, Progress, ConfirmSnapshot,
           ConfirmDelete, ConfirmActivate, ConfirmCommit, LoginCheck, LoginCode, LoginOpen,
           Fail, vars
<1> QED BY <1>1, <1>2, PTL DEF Spec

\* No stretch of a window has more attempts than the limit, for every limit, window
\* and history of attempts (allowLogin, identity/module.go:200-216).
THEOREM RateLimitedHolds == Spec => []RateLimited
<1>1. RateInv => RateLimited
  <2> SUFFICES ASSUME RateInv, NEW t \in 0..now
               PROVE  Cardinality({i \in DOMAIN allowed : allowed[i] \in t..(t + Window - 1)}) <= Limit
    BY DEF RateLimited
  <2> DEFINE I == {i \in DOMAIN allowed : allowed[i] \in t..(t + Window - 1)}
  <2> SUFFICES Cardinality(I) <= Limit
    OBVIOUS
  <2>0. /\ Limit \in Nat /\ Limit > 0 /\ Window \in Nat /\ now \in Nat
        /\ DOMAIN allowed = 1..Len(allowed) /\ Len(allowed) \in Nat
        /\ \A i \in 1..Len(allowed) : allowed[i] \in Nat
    BY RateAssumption DEF RateInv
  <2>1. CASE I = {}
    <3>1. Cardinality(I) = 0
      BY <2>1, FS_EmptySet
    <3> HIDE DEF I
    <3> QED BY <3>1, <2>0
  <2>2. CASE I # {}
    <3>1. PICK m \in I : \A i \in I : m <= i
      <4>1. I \in SUBSET Nat
        BY <2>0
      <4> HIDE DEF I
      <4> QED BY <4>1, <2>2, NatMin
    <3>2. ASSUME NEW i \in I PROVE i \in m..(m + Limit - 1)
      <4>0. i \in 1..Len(allowed) /\ m \in 1..Len(allowed) /\ m <= i
        BY <3>1, <2>0
      <4>1. CASE i >= m + Limit
        <5>1. i > Limit /\ i - Limit \in 1..Len(allowed) /\ m <= i - Limit
          BY <4>0, <4>1, <2>0
        <5>2. allowed[m] <= allowed[i - Limit]
          BY <4>0, <5>1 DEF RateInv, InOrder
        <5>3. allowed[i - Limit] + Window <= allowed[i]
          BY <4>0, <5>1 DEF RateInv, Spaced
        <5>4. t <= allowed[m] /\ allowed[i] <= t + Window - 1
          OBVIOUS
        <5>5. allowed[m] \in Nat /\ allowed[i] \in Nat /\ allowed[i - Limit] \in Nat /\ t \in Nat
          BY <4>0, <5>1, <2>0
        <5> QED BY <5>2, <5>3, <5>4, <5>5, <2>0
      <4> QED BY <4>0, <4>1, <2>0
    <3>3. m \in Int /\ m + Limit - 1 \in Int
      BY <2>0
    <3>4. IsFiniteSet(m..(m + Limit - 1)) /\ Cardinality(m..(m + Limit - 1)) = Limit
      <4> DEFINE a == m  b == m + Limit - 1
      <4>1. IsFiniteSet(a..b) /\ Cardinality(a..b) = IF a > b THEN 0 ELSE b - a + 1
        <5> HIDE DEF a, b
        <5> QED BY <3>3, FS_Interval DEF a, b
      <4>2. ~ (a > b) /\ b - a + 1 = Limit
        BY <3>3, <2>0
      <4> HIDE DEF a, b
      <4> QED BY <4>1, <4>2 DEF a, b
    <3>5. IsFiniteSet(I) /\ Cardinality(I) <= Cardinality(m..(m + Limit - 1))
      <4>1. I \in SUBSET (m..(m + Limit - 1))
        BY <3>2
      <4> HIDE DEF I
      <4> QED BY <4>1, <3>4, FS_Subset
    <3> QED BY <3>4, <3>5
  <2> QED BY <2>1, <2>2
<1> QED BY <1>1, RateInvariance, PTL

LEMMA BoundedSeq ==
  ASSUME NEW s \in Seq(Nat), NEW k \in Nat, \A i \in 1..Len(s) : s[i] <= k
  PROVE  s \in Seq(0..k)
<1>1. Len(s) \in Nat /\ s \in [1..Len(s) -> Nat]
  OBVIOUS
<1>2. s \in [1..Len(s) -> 0..k]
  BY <1>1
<1> QED BY <1>1, <1>2, SeqDef

\* Every variable of the limiter and of the second factor keeps its type
\* (Module.attempts, identity/module.go:200, and the tables of the factor).
THEOREM SecondFactorTypes == Spec => []TypeOK
<1>1. RateInv => RateTypeOK
  <2> SUFFICES ASSUME RateInv PROVE RateTypeOK
    OBVIOUS
  <2>0. /\ now \in Nat /\ attempts \in Seq(Nat) /\ allowed \in Seq(Nat)
        /\ Len(attempts) \in Nat /\ Len(allowed) \in Nat
        /\ now \in 0..MaxTime /\ Len(attempts) <= Limit
    BY RateAssumption DEF RateInv
  <2>1. \A i \in 1..Len(allowed) : allowed[i] <= now
    BY DEF RateInv
  <2>2. ASSUME NEW i \in 1..Len(attempts) PROVE attempts[i] <= now
    <3>1. Len(allowed) - Len(attempts) + i \in 1..Len(allowed)
      BY <2>0 DEF RateInv, Remembered
    <3> QED BY <3>1, <2>1 DEF RateInv, Remembered
  <2>3. attempts \in Seq(0..now) /\ allowed \in Seq(0..now)
    BY <2>0, <2>1, <2>2, BoundedSeq
  <2> QED BY <2>0, <2>3 DEF RateTypeOK
<1>2. IInv => FactorTypeOK
  BY DEF IInv
<1> QED BY <1>1, <1>2, RateInvariance, Invariance, PTL DEF TypeOK

\* An attempt is denied only for attempts that were allowed in the window before it, for
\* every limit, window and history (allowLogin, identity/module.go:204-213).
THEOREM NoLockoutHolds == Spec => []NoLockout
<1>1. RateInv => NoLockout
  <2> SUFFICES ASSUME RateInv, Len(Kept) >= Limit
               PROVE  Cardinality({i \in DOMAIN allowed : allowed[i] > now - Window}) >= Limit
    BY DEF NoLockout
  <2> DEFINE A == Len(allowed)
             K == Len(Kept)
             R == {i \in DOMAIN allowed : allowed[i] > now - Window}
  <2>0. /\ A \in Nat /\ K \in Nat /\ K <= A /\ K >= Limit /\ Limit \in Nat
        /\ now \in Nat /\ Window \in Nat
        /\ DOMAIN allowed = 1..A /\ \A i \in 1..A : allowed[i] \in Nat
    <3>1. Kept \in Seq(Nat) /\ allowed \in Seq(Nat) /\ now \in Nat /\ K <= A
      BY KeptRemembers DEF RateInv
    <3>2. A \in Nat /\ K \in Nat /\ DOMAIN allowed = 1..A /\ \A i \in 1..A : allowed[i] \in Nat
      BY <3>1
    <3> QED BY <3>1, <3>2, RateAssumption
  <2>k. \A i \in 1..K : Kept[i] = allowed[A - K + i] /\ ~ Old(Kept[i])
    BY KeptRemembers
  <2> HIDE DEF A, K
  <2>1. ASSUME NEW i \in (A - K + 1)..A PROVE i \in R
    <3>1. i - (A - K) \in 1..K /\ A - K + (i - (A - K)) = i /\ i \in 1..A
      BY <2>0
    <3>2. ~ Old(allowed[i])
      <4>1. Kept[i - (A - K)] = allowed[A - K + (i - (A - K))] /\ ~ Old(Kept[i - (A - K)])
        BY <3>1, <2>k
      <4> QED BY <4>1, <3>1
    <3> QED BY <3>1, <3>2, <2>0 DEF Old
  <2>2. IsFiniteSet(1..A) /\ Cardinality((A - K + 1)..A) = K
    <3> DEFINE a == A - K + 1
    <3>1. a \in Int /\ A \in Int /\ 1 \in Int /\ (IF a > A THEN 0 ELSE A - a + 1) = K
      BY <2>0
    <3> HIDE DEF a
    <3>2. Cardinality(a..A) = K /\ IsFiniteSet(1..A)
      BY <3>1, FS_Interval
    <3> QED BY <3>2 DEF a
  <2>3. R \subseteq 1..A /\ (A - K + 1)..A \subseteq R
    BY <2>0, <2>1
  <2> SUFFICES Cardinality(R) >= Limit
    OBVIOUS
  <2> HIDE DEF R
  <2>4. IsFiniteSet(R)
    BY <2>2, <2>3, FS_Subset
  <2>5. Cardinality((A - K + 1)..A) <= Cardinality(R) /\ Cardinality(R) \in Nat
    BY <2>3, <2>4, FS_Subset, FS_CardinalityType
  <2> QED BY <2>0, <2>2, <2>5
<1> QED BY RateInvariance, <1>1, PTL
=============================================================================
