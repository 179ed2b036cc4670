-------------------------- MODULE FileSpace_proofs --------------------------
(***************************************************************************)
(* Proofs about FileSpace, for every set of names and requests, every      *)
(* limit of a file and every quota.                                        *)
(***************************************************************************)
EXTENDS FileSpace, FiniteSetTheorems, WellFoundedInduction, TLAPS

\* A request that runs has its parameters, and past the audit a record.
RequestsKnown ==
  \A r \in Requests :
    /\ pc[r] # "idle" => req[r] \in Locals
    /\ pc[r] \in {"lock", "send"} \cup Uploading => r \in started

\* An upload has the mutex from its first look at the directory to its end.  The
\* closer deletes under it, and no upload has it afterwards.
ClosedUnderMutex ==
  /\ \A r \in Requests : pc[r] \in Uploading <=> mu = r
  /\ mu = Closer <=> cpc \in {"unlink", "rmdir"}
  /\ closed => mu \notin Requests

IInv == TypeOK /\ RequestsKnown /\ ClosedUnderMutex /\ ClosedIsEmpty /\ PendingAccounted

\* Steps of a request with none of its variables in the way of others.
Quiet(r) ==
  \/ \E k \in Kinds, n \in Names : Begin(r, k, n)
  \/ Lookup(r)     \/ Validate(r)   \/ Refuse(r)    \/ Watch(r) \/ TimeOut(r)
  \/ AuditStart(r) \/ AuditFails(r) \/ Report(r)
  \/ Open(r)       \/ OpenFails(r)  \/ Send(r)

Unlocked == {"idle", "lookup", "validate", "audit", "lock", "open", "send", "report"}

LEMMA LocalsUpdate ==
  ASSUME TypeOK, NEW r \in Requests
  PROVE  /\ \A k \in Kinds, n \in Names :
              /\ [kind |-> k, name |-> n, size |-> 0] \in Locals
              /\ [req EXCEPT ![r] = [kind |-> k, name |-> n, size |-> 0]]
                   \in [Requests -> Locals \cup {None}]
         /\ [req EXCEPT ![r] = None] \in [Requests -> Locals \cup {None}]
<1>1. \A k \in Kinds, n \in Names : [kind |-> k, name |-> n, size |-> 0] \in Locals
  BY FileAssumption DEF Locals
<1> QED BY <1>1 DEF TypeOK

\* What a quiet step does to the request.
LEMMA QuietStep ==
  ASSUME IInv, NEW r \in Requests, Quiet(r)
  PROVE  /\ UNCHANGED <<leaseVars, diskVars, mu, closeVars>>
         /\ req' \in [Requests -> Locals \cup {None}]
         /\ aborted' \subseteq Requests /\ started' \subseteq Requests
         /\ \A q \in Requests \ {r} : req'[q] = req[q] /\ (q \in started' <=> q \in started)
         /\ \/ pc' = pc /\ req' = req /\ started' = started
            \/ \E to \in Unlocked :
                 /\ pc[r] \in Unlocked /\ pc' = [pc EXCEPT ![r] = to]
                 /\ to # "idle" => req'[r] \in Locals
                 /\ to \in {"lock", "send"} => r \in started'
<1>1. TypeOK /\ RequestsKnown
  BY DEF IInv
<1>2. CASE \E k \in Kinds, n \in Names : Begin(r, k, n)
  <2>1. PICK k \in Kinds, n \in Names : Begin(r, k, n)
    BY <1>2
  <2> QED BY <1>1, <2>1, LocalsUpdate DEF Begin, Goto, Unlocked, TypeOK
<1>3. CASE Watch(r) \/ TimeOut(r)
  BY <1>1, <1>3 DEF Watch, TimeOut, TypeOK
<1>4. CASE Lookup(r) \/ Validate(r) \/ AuditStart(r) \/ Send(r)
  BY <1>1, <1>4
     DEF Lookup, Validate, AuditStart, Send, AfterAudit, Goto, Unlocked, TypeOK,
         RequestsKnown, reqVars
<1>5. CASE Refuse(r) \/ AuditFails(r) \/ Report(r) \/ OpenFails(r)
  BY <1>1, <1>5, LocalsUpdate
     DEF Refuse, AuditFails, Report, OpenFails, Answer, Goto, Unlocked, TypeOK
<1>6. CASE Open(r)
  BY <1>1, <1>6, LocalsUpdate
     DEF Open, Answer, Goto, Unlocked, TypeOK, RequestsKnown, reqVars
<1> QED BY <1>2, <1>3, <1>4, <1>5, <1>6 DEF Quiet

LEMMA QuietPreserves ==
  ASSUME IInv, NEW r \in Requests, Quiet(r)
  PROVE  IInv'
<1>1. TypeOK /\ RequestsKnown /\ ClosedUnderMutex /\ ClosedIsEmpty /\ PendingAccounted
  BY DEF IInv
<1>2. UNCHANGED <<leaseVars, diskVars, mu, closeVars>>
  BY QuietStep
<1>3. Unlocked \cap Uploading = {} /\ Unlocked \subseteq {"idle"} \cup Steps
  BY DEF Unlocked, Uploading, Steps
<1>4. pc \in [Requests -> {"idle"} \cup Steps]
  BY <1>1 DEF TypeOK
<1>5. pc' \in [Requests -> {"idle"} \cup Steps]
  BY <1>3, <1>4, QuietStep
<1>6. \A q \in Requests : pc'[q] # pc[q] => pc'[q] \in Unlocked /\ pc[q] \in Unlocked
  BY <1>4, QuietStep
<1>7. TypeOK'
  <2> HIDE DEF Locals, Steps, Uploading, Files
  <2> QED BY <1>1, <1>2, <1>3, <1>5, <1>6, QuietStep DEF TypeOK, leaseVars, diskVars, closeVars
<1>8. RequestsKnown'
  <2> SUFFICES ASSUME NEW q \in Requests
               PROVE  /\ pc'[q] # "idle" => req'[q] \in Locals
                      /\ pc'[q] \in {"lock", "send"} \cup Uploading => q \in started'
    BY DEF RequestsKnown
  <2>1. CASE q = r
    BY <1>1, <1>3, <1>4, <2>1, QuietStep DEF RequestsKnown
  <2>2. CASE q # r
    <3>1. pc'[q] = pc[q] /\ req'[q] = req[q] /\ (q \in started' <=> q \in started)
      BY <1>4, <2>2, QuietStep
    <3> QED BY <1>1, <3>1 DEF RequestsKnown
  <2> QED BY <2>1, <2>2
<1>9. ClosedUnderMutex' /\ ClosedIsEmpty'
  BY <1>1, <1>2, <1>3, <1>6 DEF ClosedUnderMutex, ClosedIsEmpty, FromUpload, closeVars, diskVars
<1>10. PendingAccounted'
  <2>1. temp \subseteq Requests /\ UNCHANGED <<up, temp>>
    BY <1>1, <1>2 DEF TypeOK, leaseVars, diskVars
  <2> QED BY <1>1, <1>3, <1>6, <2>1 DEF PendingAccounted
<1> QED BY <1>7, <1>8, <1>9, <1>10 DEF IInv

-----------------------------------------------------------------------------
(* Uploads                                                                 *)

Upload(r) ==
  \/ UploadLock(r)  \/ UploadStat(r) \/ \E n \in 0..(MaxFile + 1) : UploadCopy(r, n)
  \/ UploadCheck(r) \/ UploadWalk(r) \/ UploadLink(r)
  \/ UploadFails(r) \/ UploadFinish(r)

\* What a step of an upload does to the request and to its temporary file.
LEMMA UploadStep ==
  ASSUME IInv, NEW r \in Requests, Upload(r)
  PROVE  /\ UNCHANGED <<leaseVars, exists, closeVars, aborted, started>>
         /\ r \in started
         /\ req' \in [Requests -> Locals \cup {None}] /\ req'[r] \in Locals
         /\ \A q \in Requests \ {r} : req'[q] = req[q]
         /\ \E to \in Uploading \cup {"report"} :
              /\ pc' = [pc EXCEPT ![r] = to]
              /\ \/ /\ pc[r] = "lock" /\ mu = None /\ temp' = temp
                    /\ \/ to = "report" /\ mu' = mu
                       \/ to = "stat" /\ mu' = r /\ ~ closed
                 \/ /\ pc[r] \in Uploading
                    /\ \/ to = "report" /\ mu' = None /\ temp' = temp \ {r}
                       \/ /\ to \in Uploading \ {"stat"} /\ mu' = mu
                          /\ temp' = temp \/ temp' = temp \cup {r}
<1>1. /\ pc \in [Requests -> {"idle"} \cup Steps]
      /\ req \in [Requests -> Locals \cup {None}]
      /\ pc[r] # "idle" => req[r] \in Locals
      /\ pc[r] \in {"lock"} \cup Uploading => r \in started
  BY DEF IInv, TypeOK, RequestsKnown
<1>2. CASE UploadLock(r)
  BY <1>1, <1>2 DEF UploadLock, Goto, Uploading, diskVars, reqVars
<1>3. CASE UploadStat(r)
  BY <1>1, <1>3 DEF UploadStat, Goto, Uploading, reqVars
<1>4. CASE \E n \in 0..(MaxFile + 1) : UploadCopy(r, n)
  <2>1. PICK n \in 0..(MaxFile + 1) : UploadCopy(r, n)
    BY <1>4
  <2>2. n \in 0..MaxFile /\ req[r] \in Locals
    BY <1>1, <2>1, FileAssumption DEF UploadCopy, Goto
  <2>3. [req[r] EXCEPT !.size = n] \in Locals
    BY <2>2 DEF Locals
  <2>4. req' = [req EXCEPT ![r] = [req[r] EXCEPT !.size = n]]
    BY <2>1 DEF UploadCopy
  <2> QED BY <1>1, <2>1, <2>3, <2>4 DEF UploadCopy, Goto, Uploading, diskVars
<1>5. CASE UploadCheck(r) \/ UploadWalk(r) \/ UploadFails(r)
  BY <1>1, <1>5
     DEF UploadCheck, UploadWalk, UploadFails, Goto, Uploading, diskVars, reqVars
<1>6. CASE UploadLink(r)
  BY <1>1, <1>6 DEF UploadLink, Goto, Uploading, reqVars
<1>7. CASE UploadFinish(r)
  BY <1>1, <1>7 DEF UploadFinish, Goto, Uploading, reqVars
<1> QED BY <1>2, <1>3, <1>4, <1>5, <1>6, <1>7 DEF Upload

\* Only UploadLink changes the directory, under a name that was free.
LEMMA UploadDir ==
  ASSUME IInv, NEW r \in Requests, Upload(r)
  PROVE  \/ dir' = dir
         \/ \E n \in Names, f \in Files :
              /\ pc[r] = "link" /\ f.from = r
              /\ dir[n] = None /\ dir' = [dir EXCEPT ![n] = f]
<1>1. CASE UploadLink(r)
  <2>1. req[r] \in Locals
    BY <1>1 DEF UploadLink, Goto, IInv, RequestsKnown
  <2>2. [from |-> r, size |-> req[r].size] \in Files /\ req[r].name \in Names
    BY <2>1, FileAssumption DEF Locals, Files
  <2> QED BY <1>1, <2>2 DEF UploadLink, Goto
<1>2. CASE ~ UploadLink(r)
  BY <1>2
     DEF Upload, UploadLock, UploadStat, UploadCopy, UploadCheck, UploadWalk,
         UploadFails, UploadFinish, diskVars
<1> QED BY <1>1, <1>2

LEMMA UploadPreserves ==
  ASSUME IInv, NEW r \in Requests, Upload(r)
  PROVE  IInv'
<1>1. TypeOK /\ RequestsKnown /\ ClosedUnderMutex /\ ClosedIsEmpty /\ PendingAccounted
  BY DEF IInv
<1>2. PICK to \in Uploading \cup {"report"} :
        /\ pc' = [pc EXCEPT ![r] = to]
        /\ \/ /\ pc[r] = "lock" /\ mu = None /\ temp' = temp
              /\ \/ to = "report" /\ mu' = mu
                 \/ to = "stat" /\ mu' = r /\ ~ closed
           \/ /\ pc[r] \in Uploading
              /\ \/ to = "report" /\ mu' = None /\ temp' = temp \ {r}
                 \/ /\ to \in Uploading \ {"stat"} /\ mu' = mu
                    /\ temp' = temp \/ temp' = temp \cup {r}
  BY UploadStep
<1>3. /\ Uploading \cup {"report"} \subseteq Steps
      /\ "lock" \notin Uploading /\ "report" \notin Uploading /\ "idle" \notin Uploading
      /\ "stat" \in Uploading /\ "link" \in Uploading /\ "send" \notin Uploading
  BY DEF Steps, Uploading
<1>4. /\ pc \in [Requests -> {"idle"} \cup Steps]
      /\ \A q \in Requests : pc[q] \in Uploading <=> mu = q
      /\ dir \in [Names -> Files \cup {None}] /\ temp \subseteq Requests
  BY <1>1 DEF TypeOK, ClosedUnderMutex
<1>5. /\ pc'[r] = to /\ \A q \in Requests \ {r} : pc'[q] = pc[q]
      /\ pc' \in [Requests -> {"idle"} \cup Steps]
  BY <1>2, <1>3, <1>4
<1>6. UNCHANGED <<up, present, withdrawn, exists, done, closed, cpc, aborted, started>>
  BY UploadStep DEF leaseVars, closeVars
<1>7. /\ mu' \in Requests \cup {None}
      /\ \A q \in Requests : pc'[q] \in Uploading <=> mu' = q
  BY <1>2, <1>3, <1>4, <1>5, FileAssumption
<1>8. dir' \in [Names -> Files \cup {None}] /\ temp' \subseteq Requests
  BY <1>2, <1>4, UploadDir
<1>9. TypeOK'
  <2> HIDE DEF Locals, Steps, Uploading, Files
  <2> QED BY <1>1, <1>5, <1>6, <1>7, <1>8, UploadStep DEF TypeOK
<1>10. RequestsKnown'
  BY <1>1, <1>3, <1>5, <1>6, UploadStep DEF RequestsKnown
<1>11. ClosedUnderMutex'
  BY <1>1, <1>2, <1>4, <1>6, <1>7, FileAssumption DEF ClosedUnderMutex
<1>12. ClosedIsEmpty'
  <2>1. CASE dir' = dir
    BY <1>1, <1>6, <2>1 DEF ClosedIsEmpty, FromUpload
  <2>2. CASE pc[r] = "link"
    BY <1>1, <1>3, <1>4, <1>6, <2>2 DEF ClosedIsEmpty, ClosedUnderMutex
  <2> QED BY <2>1, <2>2, UploadDir
<1>13. PendingAccounted'
  BY <1>1, <1>2, <1>3, <1>4, <1>5, <1>6 DEF PendingAccounted
<1> QED BY <1>9, <1>10, <1>11, <1>12, <1>13 DEF IInv

-----------------------------------------------------------------------------
(* The session, the drive and the process                                  *)

LEMMA OthersPreserve ==
  ASSUME IInv, Withdraw \/ Close \/ DriveStep \/ Crash \/ Boot \/ Create
  PROVE  IInv'
<1>1. TypeOK /\ RequestsKnown /\ ClosedUnderMutex /\ ClosedIsEmpty /\ PendingAccounted
  BY DEF IInv
<1>2. Empty \in [Names -> Files \cup {None}] /\ \A n \in Names : Empty[n] = None
  BY DEF Empty
<1>3. "idle" \notin Uploading \cup {"lock", "send"}
  BY DEF Uploading
<1>4. CASE Withdraw
  <2> HIDE DEF Locals, Steps, Uploading, Files
  <2> QED BY <1>1, <1>4
       DEF IInv, TypeOK, RequestsKnown, ClosedUnderMutex, ClosedIsEmpty, FromUpload,
           PendingAccounted, Withdraw, diskVars, closeVars, reqVars
<1>5. CASE CloseRemove \/ CloseDone
  <2>1. /\ UNCHANGED <<up, withdrawn, diskVars, mu, closed, pc, reqVars>>
        /\ cpc \in {"off", "close"} /\ cpc' \in {"close", "lock"}
        /\ present' \in BOOLEAN /\ done' \in BOOLEAN
    BY <1>1, <1>5 DEF CloseRemove, CloseDone, CloseStep, leaseVars, TypeOK
  <2> HIDE DEF Locals, Steps, Uploading, Files
  <2> QED BY <1>1, <2>1
       DEF IInv, TypeOK, RequestsKnown, ClosedUnderMutex, ClosedIsEmpty, FromUpload,
           PendingAccounted, diskVars, reqVars
<1>6. CASE CloseLock
  BY <1>1, <1>6, FileAssumption
     DEF IInv, TypeOK, RequestsKnown, ClosedUnderMutex, ClosedIsEmpty, FromUpload,
         PendingAccounted, CloseLock, CloseStep, leaseVars, diskVars, reqVars
<1>7. CASE CloseUnlink
  BY <1>1, <1>2, <1>7
     DEF IInv, TypeOK, RequestsKnown, ClosedUnderMutex, ClosedIsEmpty, FromUpload,
         PendingAccounted, CloseUnlink, CloseStep, leaseVars, reqVars
<1>8. CASE CloseRmdir
  <2>1. /\ cpc \in {"unlink", "rmdir"} /\ cpc' = "off" /\ mu' = None /\ exists' \in BOOLEAN
        /\ cpc = "unlink" => dir = Empty
        /\ UNCHANGED <<leaseVars, dir, temp, done, closed, pc, reqVars>>
    BY <1>8 DEF CloseRmdir, CloseStep
  <2>2. mu = Closer
    BY <1>1, <2>1 DEF ClosedUnderMutex
  <2> HIDE DEF Locals, Steps, Uploading, Files
  <2>3. TypeOK'
    BY <1>1, <2>1 DEF TypeOK, leaseVars, reqVars
  <2>4. RequestsKnown' /\ PendingAccounted'
    BY <1>1, <2>1 DEF TypeOK, RequestsKnown, PendingAccounted, leaseVars, reqVars
  <2>5. ClosedUnderMutex'
    BY <1>1, <2>1, <2>2, FileAssumption DEF ClosedUnderMutex, TypeOK
  <2>6. ClosedIsEmpty'
    BY <1>1, <1>2, <2>1 DEF ClosedIsEmpty, FromUpload
  <2> QED BY <2>3, <2>4, <2>5, <2>6 DEF IInv
<1>9. CASE DriveStep
  <2>1. PICK n \in Names, f \in Files \cup {None} :
          /\ f # None => f.from = Drive
          /\ dir' = [dir EXCEPT ![n] = f]
          /\ UNCHANGED <<leaseVars, exists, temp, mu, closeVars, pc, reqVars>>
    <3>1. \A size \in 0..(MaxFile + 1) : [from |-> Drive, size |-> size] \in Files
      BY DEF Files
    <3> QED BY <1>9, <3>1 DEF DriveStep, DriveWrite, DriveDelete
  <2>2. \A m \in Names : FromUpload(m)' => FromUpload(m)
    BY <1>1, <2>1, FileAssumption DEF FromUpload, TypeOK
  <2>3. dir' \in [Names -> Files \cup {None}]
    BY <1>1, <2>1 DEF TypeOK
  <2> HIDE DEF Locals, Steps, Uploading, Files, FromUpload
  <2> QED BY <1>1, <2>1, <2>2, <2>3
       DEF IInv, TypeOK, RequestsKnown, ClosedUnderMutex, ClosedIsEmpty,
           PendingAccounted, leaseVars, closeVars, reqVars
<1>10. CASE Crash
  BY <1>1, <1>3, <1>10, FileAssumption
     DEF IInv, TypeOK, RequestsKnown, ClosedUnderMutex, ClosedIsEmpty,
         PendingAccounted, Crash, diskVars
<1>11. CASE Boot
  BY <1>1, <1>2, <1>11
     DEF IInv, TypeOK, RequestsKnown, ClosedUnderMutex, ClosedIsEmpty, FromUpload,
         PendingAccounted, Boot, closeVars, reqVars
<1>12. CASE Create
  BY <1>1, <1>12
     DEF IInv, TypeOK, RequestsKnown, ClosedUnderMutex, ClosedIsEmpty,
         PendingAccounted, Create, reqVars
<1> QED BY <1>4, <1>5, <1>6, <1>7, <1>8, <1>9, <1>10, <1>11, <1>12, <1>1 DEF Close

-----------------------------------------------------------------------------
(* The theorems                                                            *)

LEMMA NextKinds ==
  ASSUME Next
  PROVE  \/ \E r \in Requests : Quiet(r) \/ Upload(r)
         \/ Withdraw \/ Close \/ DriveStep \/ Crash \/ Boot \/ Create
BY DEF Next, Proceed, Transfer, Quiet, Upload

LEMMA Invariance == Spec => []IInv
<1>1. Init => IInv
  <2>1. Init => TypeOK
    BY FileAssumption DEF Init, TypeOK, Empty, Steps, Uploading
  <2> QED BY <2>1, FileAssumption
       DEF Init, IInv, RequestsKnown, ClosedUnderMutex, ClosedIsEmpty, PendingAccounted,
           Uploading
<1>2. ASSUME IInv, [Next]_vars PROVE IInv'
  <2>1. CASE UNCHANGED vars
    <3>1. TypeOK'
      BY <1>2, <2>1
         DEF IInv, TypeOK, vars, leaseVars, diskVars, closeVars, reqVars
    <3> QED BY <1>2, <2>1, <3>1
         DEF IInv, RequestsKnown, ClosedUnderMutex, ClosedIsEmpty, FromUpload,
             PendingAccounted, vars, leaseVars, diskVars, closeVars, reqVars
  <2>2. CASE Next
    BY <1>2, <2>2, NextKinds, QuietPreserves, UploadPreserves, OthersPreserve
  <2> QED BY <1>2, <2>1, <2>2
<1> QED BY <1>1, <1>2, PTL DEF Spec

\* Every variable keeps its type: no upload is larger than maxFileBytes.
THEOREM FileTypes == Spec => []TypeOK
<1>1. IInv => TypeOK
  BY DEF IInv
<1> QED BY Invariance, <1>1, PTL

\* fileSpace.close leaves no uploaded file: the uploads it has overtaken find
\* the space closed, and the one it waits for finds done closed or is deleted.
THEOREM ClosedIsEmptyHolds == Spec => []ClosedIsEmpty
<1>1. IInv => ClosedIsEmpty
  BY DEF IInv
<1> QED BY Invariance, <1>1, PTL

\* Every way out of an upload removes its temporary file, and a start what a
\* crash has left.
THEOREM PendingAccountedHolds == Spec => []PendingAccounted
<1>1. IInv => PendingAccounted
  BY DEF IInv
<1> QED BY Invariance, <1>1, PTL

\* A publication is the step of an upload that has a record and a free name.
LEMMA Publication ==
  ASSUME IInv, [Next]_vars, NEW r \in Requests, NEW n \in Names, Publishes(r, n)
  PROVE  dir[n] = None /\ r \in started
<1>1. CASE \E q \in Requests : Upload(q)
  <2>1. PICK q \in Requests : Upload(q)
    BY <1>1
  <2>2. PICK m \in Names, f \in Files :
          f.from = q /\ dir[m] = None /\ dir' = [dir EXCEPT ![m] = f]
    BY <2>1, UploadDir DEF Publishes
  <2>3. n = m /\ q = r
    BY <2>2 DEF Publishes, IInv, TypeOK
  <2> QED BY <2>1, <2>2, <2>3, UploadStep
<1>2. CASE DriveStep
  BY <1>2, FileAssumption
     DEF DriveStep, DriveWrite, DriveDelete, Publishes, IInv, TypeOK
<1>3. CASE dir' = dir \/ dir' = Empty
  BY <1>3 DEF Publishes, Empty
<1>4. (\E q \in Requests : Upload(q)) \/ DriveStep \/ dir' = dir \/ dir' = Empty
  <2>1. CASE \E q \in Requests : Quiet(q)
    BY <2>1, QuietStep DEF diskVars
  <2>2. CASE Withdraw \/ Close \/ Crash \/ Boot \/ Create
    BY <2>2
       DEF Withdraw, Close, CloseRemove, CloseDone, CloseLock, CloseUnlink, CloseRmdir,
           Crash, Boot, Create, diskVars
  <2>3. CASE UNCHANGED vars
    BY <2>3 DEF vars, diskVars
  <2> QED BY <2>1, <2>2, <2>3, NextKinds
<1> QED BY <1>1, <1>2, <1>3, <1>4

\* A name that an upload publishes was free at that moment, whatever the drive
\* does while the body is read.
THEOREM NoOverwriteHolds == Spec => NoOverwrite
<1>1. IInv /\ [Next]_vars
        => [\A r \in Requests, n \in Names : Publishes(r, n) => dir[n] = None]_vars
  BY Publication
<1> QED BY Invariance, <1>1, PTL DEF Spec, NoOverwrite

\* Whatever is published or sent has its record.
THEOREM AuditedFirstHolds == Spec => AuditedFirst
<1>1. IInv /\ [Next]_vars
        => [\A r \in Requests :
              pc[r] = "send" \/ (\E n \in Names : Publishes(r, n)) => r \in started]_vars
  BY Publication DEF IInv, RequestsKnown
<1> QED BY Invariance, <1>1, PTL DEF Spec, AuditedFirst

-----------------------------------------------------------------------------
(* Induction                                                               *)

\* Every nonempty set of numbers has a least one; induction is the choice of a least
\* counterexample.
LEMMA NatMin ==
  ASSUME NEW T \in SUBSET Nat, T # {}
  PROVE  \E n \in T : \A m \in T : n <= m
<1> DEFINE Cuts == {1..n : n \in T}
<1>1. \A n \in T : 1..n \in FiniteSubsetsOf(Nat)
  BY FS_Interval DEF FiniteSubsetsOf
<1>2. PICK c \in Cuts : \A d \in Cuts : <<d, c>> \notin StrictSubsetOrdering(Nat)
  <2>1. IsWellFoundedOn(StrictSubsetOrdering(Nat), FiniteSubsetsOf(Nat))
    BY FS_StrictSubsetOrderingWellFounded
  <2>2. Cuts \subseteq FiniteSubsetsOf(Nat) /\ Cuts # {}
    BY <1>1
  <2> HIDE DEF Cuts
  <2> QED BY <2>1, <2>2, WFMin
<1>3. PICK n \in T : c = 1..n
  OBVIOUS
<1>4. ASSUME NEW m \in T, ~ (n <= m) PROVE FALSE
  <2>1. 1..m \subseteq 1..n /\ n \in 1..n /\ n \notin 1..m
    BY <1>4
  <2>2. 1..m # 1..n /\ 1..m \in SUBSET Nat /\ 1..n \in SUBSET Nat
    BY <2>1
  <2>3. <<1..m, c>> \in StrictSubsetOrdering(Nat)
    BY <2>1, <2>2, <1>3 DEF StrictSubsetOrdering
  <2> QED BY <2>3, <1>2
<1> QED BY <1>4

-----------------------------------------------------------------------------
(* Sums                                                                    *)

Pick(s) == CHOOSE x \in s : TRUE

\* The equation of MapThenSumSet, for the sizes F.
SumsUp(it, F) ==
  it = [s \in SUBSET Names |-> IF s = {} THEN 0 ELSE F[Pick(s)] + it[s \ {Pick(s)}]]

Sum(F) == CHOOSE it : SumsUp(it, F)
Total(F) == Sum(F)[Names]

Sizes == [n \in Names |-> Size(n)]
SizesOf(d) == [n \in Names |-> IF d[n] # None /\ d[n].from \in Requests THEN d[n].size ELSE 0]
Uploaded == Total(SizesOf(dir))

LEMMA PickIn == \A s : s # {} => Pick(s) \in s
  BY DEF Pick

LEMMA SmallSubsets ==
  ASSUME NEW s \in SUBSET Names
  PROVE  /\ Cardinality(s) \in Nat /\ Cardinality(s) <= Cardinality(Names)
         /\ Cardinality(Names) \in Nat
         /\ Cardinality(s) = 0 <=> s = {}
         /\ s # {} => Cardinality(s \ {Pick(s)}) = Cardinality(s) - 1
<1>1. IsFiniteSet(s) /\ Cardinality(s) <= Cardinality(Names)
  BY NamesFinite, FS_Subset
<1>2. Cardinality(s) \in Nat /\ Cardinality(Names) \in Nat
  BY <1>1, NamesFinite, FS_CardinalityType
<1>3. Cardinality(s) = 0 <=> s = {}
  BY <1>1, FS_EmptySet
<1>4. ASSUME s # {} PROVE Cardinality(s \ {Pick(s)}) = Cardinality(s) - 1
  BY <1>1, <1>4, PickIn, FS_RemoveElement
<1> QED BY <1>1, <1>2, <1>3, <1>4

\* There is a function that solves the equation: one that does so for sets of a size
\* gives one for the sets of the next size.
LEMMA SumExists ==
  ASSUME NEW F \in [Names -> Nat]
  PROVE  \E it \in [SUBSET Names -> Nat] : SumsUp(it, F)
<1> DEFINE Up(it, s) == IF s = {} THEN 0 ELSE F[Pick(s)] + it[s \ {Pick(s)}]
           Good(k) == \E it \in [SUBSET Names -> Nat] :
                        \A s \in SUBSET Names : Cardinality(s) <= k => it[s] = Up(it, s)
           Bad == {k \in Nat : ~ Good(k)}
<1>0. \A s \in SUBSET Names : s # {} => F[Pick(s)] \in Nat /\ s \ {Pick(s)} \in SUBSET Names
  BY PickIn
<1>1. Good(0)
  <2> DEFINE zero == [s \in SUBSET Names |-> 0]
  <2>1. ASSUME NEW s \in SUBSET Names, Cardinality(s) <= 0 PROVE s = {}
    <3>1. Cardinality(s) \in Nat /\ (Cardinality(s) = 0 <=> s = {})
      BY SmallSubsets
    <3> QED BY <2>1, <3>1
  <2>2. zero \in [SUBSET Names -> Nat]
    OBVIOUS
  <2>3. \A s \in SUBSET Names : Cardinality(s) <= 0 => zero[s] = Up(zero, s)
    BY <2>1
  <2> HIDE DEF zero, Up
  <2> QED BY <2>2, <2>3
<1>2. ASSUME NEW k \in Nat, Good(k) PROVE Good(k + 1)
  <2>1. PICK it \in [SUBSET Names -> Nat] :
          \A s \in SUBSET Names : Cardinality(s) <= k => it[s] = Up(it, s)
    BY <1>2
  <2> DEFINE jt == [s \in SUBSET Names |-> Up(it, s)]
  <2>2. jt \in [SUBSET Names -> Nat]
    BY <1>0
  <2>3. ASSUME NEW s \in SUBSET Names, Cardinality(s) <= k + 1, s # {}
        PROVE  jt[s \ {Pick(s)}] = it[s \ {Pick(s)}]
    <3>1. s \ {Pick(s)} \in SUBSET Names /\ Cardinality(s \ {Pick(s)}) <= k
      BY <2>3, SmallSubsets
    <3> QED BY <3>1, <2>1
  <2>4. \A s \in SUBSET Names : Cardinality(s) <= k + 1 => jt[s] = Up(jt, s)
    BY <2>3
  <2> HIDE DEF jt
  <2> QED BY <2>2, <2>4
<1>3. \A k \in Nat : Good(k)
  <2> SUFFICES ASSUME Bad # {} PROVE FALSE
    OBVIOUS
  <2>1. PICK k \in Bad : \A m \in Bad : k <= m
    <3>1. Bad \in SUBSET Nat
      OBVIOUS
    <3> HIDE DEF Bad
    <3> QED BY <3>1, NatMin
  <2> HIDE DEF Good
  <2>2. k \in Nat /\ ~ Good(k) /\ k # 0
    BY <1>1
  <2>3. k - 1 \in Nat /\ k - 1 \notin Bad /\ (k - 1) + 1 = k
    BY <2>1, <2>2
  <2> QED BY <2>2, <2>3, <1>2
<1>4. PICK it \in [SUBSET Names -> Nat] :
        \A s \in SUBSET Names : Cardinality(s) <= Cardinality(Names) => it[s] = Up(it, s)
  BY <1>3, SmallSubsets
<1>5. \A s \in SUBSET Names : it[s] = Up(it, s)
  BY <1>4, SmallSubsets
<1>6. it = [s \in SUBSET Names |-> Up(it, s)]
  BY <1>5
<1> QED BY <1>6 DEF SumsUp

LEMMA SumStep ==
  ASSUME NEW F, NEW it, SumsUp(it, F), NEW s \in SUBSET Names
  PROVE  it[s] = IF s = {} THEN 0 ELSE F[Pick(s)] + it[s \ {Pick(s)}]
<1> DEFINE Up(jt, u) == IF u = {} THEN 0 ELSE F[Pick(u)] + jt[u \ {Pick(u)}]
<1>1. it = [u \in SUBSET Names |-> Up(it, u)]
  BY DEF SumsUp
<1> HIDE DEF Up
<1>2. it[s] = Up(it, s)
  BY <1>1
<1> QED BY <1>2 DEF Up

\* A set of sets of names has one with none of the others inside.
LEMMA SetMin ==
  ASSUME NEW T \in SUBSET (SUBSET Names), T # {}
  PROVE  \E s \in T : \A u \in T : u \subseteq s => u = s
<1>1. IsWellFoundedOn(StrictSubsetOrdering(Names), SUBSET Names)
  BY FS_StrictSubsetOrderingWellFounded, FS_FiniteSubsetsOfFinite, NamesFinite
<1>2. PICK s \in T : \A u \in T : <<u, s>> \notin StrictSubsetOrdering(Names)
  BY <1>1, WFMin
<1> QED BY <1>2 DEF StrictSubsetOrdering

LEMMA SumType ==
  ASSUME NEW F \in [Names -> Nat], NEW it, SumsUp(it, F)
  PROVE  \A s \in SUBSET Names : it[s] \in Nat
<1> DEFINE Bad == {s \in SUBSET Names : it[s] \notin Nat}
<1> SUFFICES ASSUME Bad # {} PROVE FALSE
  OBVIOUS
<1>1. PICK s \in Bad : \A u \in Bad : u \subseteq s => u = s
  <2>1. Bad \in SUBSET (SUBSET Names)
    OBVIOUS
  <2> HIDE DEF Bad
  <2> QED BY <2>1, SetMin
<1>2. it[s] = IF s = {} THEN 0 ELSE F[Pick(s)] + it[s \ {Pick(s)}]
  <2>1. s \in SUBSET Names
    OBVIOUS
  <2> HIDE DEF Bad
  <2> QED BY <2>1, SumStep
<1>3. s # {}
  BY <1>2
<1>4. Pick(s) \in s /\ F[Pick(s)] \in Nat
  BY <1>3, PickIn
<1>5. it[s \ {Pick(s)}] \in Nat
  BY <1>1, <1>4
<1> QED BY <1>2, <1>3, <1>4, <1>5

\* Smaller sizes have a smaller sum.
LEMMA SumMonotonic ==
  ASSUME NEW F \in [Names -> Nat], NEW it, SumsUp(it, F),
         NEW G \in [Names -> Nat], NEW jt, SumsUp(jt, G),
         NEW S \in SUBSET Names, \A n \in S : F[n] <= G[n]
  PROVE  it[S] <= jt[S]
<1> DEFINE Bad == {s \in SUBSET S : ~ (it[s] <= jt[s])}
<1> SUFFICES ASSUME Bad # {} PROVE FALSE
  OBVIOUS
<1>1. PICK s \in Bad : \A u \in Bad : u \subseteq s => u = s
  <2>1. Bad \in SUBSET (SUBSET Names)
    OBVIOUS
  <2> HIDE DEF Bad
  <2> QED BY <2>1, SetMin
<1>2. /\ it[s] = IF s = {} THEN 0 ELSE F[Pick(s)] + it[s \ {Pick(s)}]
      /\ jt[s] = IF s = {} THEN 0 ELSE G[Pick(s)] + jt[s \ {Pick(s)}]
  BY SumStep
<1>3. s # {}
  BY <1>2
<1>4. Pick(s) \in s /\ F[Pick(s)] \in Nat /\ G[Pick(s)] \in Nat /\ F[Pick(s)] <= G[Pick(s)]
  BY <1>3, PickIn
<1>5. it[s \ {Pick(s)}] <= jt[s \ {Pick(s)}]
  BY <1>1, <1>4
<1>6. it[s \ {Pick(s)}] \in Nat /\ jt[s \ {Pick(s)}] \in Nat
  <2>1. s \ {Pick(s)} \in SUBSET Names
    OBVIOUS
  <2> QED BY <2>1, SumType
<1>7. F[Pick(s)] + it[s \ {Pick(s)}] <= G[Pick(s)] + jt[s \ {Pick(s)}]
  BY <1>4, <1>5, <1>6
<1> QED BY <1>2, <1>3, <1>7

\* Any element may be taken out first.
LEMMA SumTakeOut ==
  ASSUME NEW F \in [Names -> Nat], NEW it, SumsUp(it, F),
         NEW S \in SUBSET Names, NEW x \in S
  PROVE  it[S] = F[x] + it[S \ {x}]
<1> DEFINE Bad == {s \in SUBSET Names : \E n \in s : it[s] # F[n] + it[s \ {n}]}
<1> SUFFICES ASSUME Bad # {} PROVE FALSE
  OBVIOUS
<1>1. PICK s \in Bad : \A u \in Bad : u \subseteq s => u = s
  <2>1. Bad \in SUBSET (SUBSET Names)
    OBVIOUS
  <2> HIDE DEF Bad
  <2> QED BY <2>1, SetMin
<1>2. PICK n \in s : it[s] # F[n] + it[s \ {n}]
  OBVIOUS
<1> DEFINE p == Pick(s)
<1>3. p \in s /\ it[s] = F[p] + it[s \ {p}]
  BY <1>2, PickIn, SumStep
<1>4. n # p
  BY <1>2, <1>3
<1> HIDE DEF p
<1>5. s \ {p} \notin Bad /\ s \ {n} \notin Bad
  BY <1>1, <1>3
<1>6. /\ it[s \ {p}] = F[n] + it[(s \ {p}) \ {n}]
      /\ it[s \ {n}] = F[p] + it[(s \ {n}) \ {p}]
  BY <1>3, <1>4, <1>5
<1>7. (s \ {p}) \ {n} = (s \ {n}) \ {p}
  OBVIOUS
<1>8. F[n] \in Nat /\ F[p] \in Nat /\ it[(s \ {n}) \ {p}] \in Nat
  <2>1. (s \ {n}) \ {p} \in SUBSET Names
    OBVIOUS
  <2> QED BY <1>3, <2>1, SumType
<1> QED
  <2> DEFINE a == it[(s \ {n}) \ {p}]
  <2>1. it[s] = F[p] + (F[n] + a) /\ it[s \ {n}] = F[p] + a /\ a \in Nat
    BY <1>3, <1>6, <1>7, <1>8
  <2> HIDE DEF a
  <2>2. it[s] = F[n] + it[s \ {n}]
    BY <2>1, <1>8
  <2> QED BY <2>2, <1>2

-----------------------------------------------------------------------------
(* Totals                                                                  *)

LEMMA TotalOf ==
  ASSUME NEW F \in [Names -> Nat]
  PROVE  SumsUp(Sum(F), F) /\ Total(F) \in Nat
<1>1. SumsUp(Sum(F), F)
  BY SumExists DEF Sum
<1> QED BY <1>1, SumType DEF Total

LEMMA TotalUnique ==
  ASSUME NEW F \in [Names -> Nat], NEW it, SumsUp(it, F)
  PROVE  it[Names] = Total(F)
<1>1. SumsUp(Sum(F), F) /\ Total(F) \in Nat /\ it[Names] \in Nat
  BY TotalOf, SumType
<1>2. it[Names] <= Sum(F)[Names] /\ Sum(F)[Names] <= it[Names]
  BY <1>1, SumMonotonic
<1> QED BY <1>1, <1>2 DEF Total

LEMMA TotalMonotonic ==
  ASSUME NEW F \in [Names -> Nat], NEW G \in [Names -> Nat], \A n \in Names : F[n] <= G[n]
  PROVE  Total(F) <= Total(G)
  BY TotalOf, SumMonotonic DEF Total

\* One size that was nothing has grown.
LEMMA TotalGrows ==
  ASSUME NEW F \in [Names -> Nat], NEW x \in Names, F[x] = 0, NEW v \in Nat
  PROVE  Total([F EXCEPT ![x] = v]) = Total(F) + v
<1> DEFINE G == [F EXCEPT ![x] = v]
           R == Names \ {x}
<1>1. G \in [Names -> Nat] /\ G[x] = v /\ \A n \in R : G[n] = F[n] /\ F[n] \in Nat
  OBVIOUS
<1> HIDE DEF G
<1>2. SumsUp(Sum(F), F) /\ SumsUp(Sum(G), G)
  BY <1>1, TotalOf
<1>3. Total(F) = F[x] + Sum(F)[R] /\ Total(G) = G[x] + Sum(G)[R]
  BY <1>1, <1>2, SumTakeOut DEF Total
<1>4. Sum(F)[R] <= Sum(G)[R] /\ Sum(G)[R] <= Sum(F)[R]
  <2>1. \A n \in R : F[n] <= G[n] /\ G[n] <= F[n]
    BY <1>1
  <2> HIDE DEF R
  <2>2. R \in SUBSET Names
    BY DEF R
  <2> QED BY <2>1, <2>2, <1>1, <1>2, SumMonotonic
<1>5. Sum(F)[R] \in Nat /\ Sum(G)[R] \in Nat
  BY <1>1, <1>2, SumType
<1>6. Total(G) = v + Sum(G)[R] /\ Total(F) = Sum(F)[R] /\ Sum(F)[R] = Sum(G)[R]
  BY <1>1, <1>3, <1>4, <1>5
<1>7. Total(G) = Total(F) + v
  BY <1>5, <1>6
<1> QED BY <1>7 DEF G

LEMMA SizesTyped ==
  ASSUME NEW d \in [Names -> Files \cup {None}]
  PROVE  SizesOf(d) \in [Names -> Nat]
<1>1. \A n \in Names : d[n] # None => d[n].size \in Nat
  BY FileAssumption DEF Files
<1> QED BY <1>1 DEF SizesOf

LEMMA UsedIsTotal ==
  ASSUME Sizes \in [Names -> Nat]
  PROVE  Used = Total(Sizes)
<1> DEFINE Body(g) == [s \in SUBSET Names |->
                         IF s = {} THEN 0
                         ELSE Size(CHOOSE x \in s : TRUE) + g[s \ {CHOOSE x \in s : TRUE}]]
           iter == CHOOSE g : g = Body(g)
<1>1. Used = iter[Names]
  BY DEF Used, MapThenSumSet, MapThenFoldSet
<1>2. PICK it : SumsUp(it, Sizes)
  BY SumExists
<1>3. \A g : Body(g) = [s \in SUBSET Names |->
                          IF s = {} THEN 0 ELSE Sizes[Pick(s)] + g[s \ {Pick(s)}]]
  <2>1. \A s \in SUBSET Names : s # {} => Sizes[Pick(s)] = Size(CHOOSE x \in s : TRUE)
    BY PickIn DEF Sizes, Pick
  <2> QED BY <2>1 DEF Pick
<1>4. it = Body(it)
  BY <1>2, <1>3 DEF SumsUp
<1>5. iter = Body(iter)
  <2> HIDE DEF Body
  <2> QED BY <1>4
<1>6. SumsUp(iter, Sizes)
  <2> HIDE DEF iter, Body
  <2> QED BY <1>3, <1>5 DEF SumsUp
<1> HIDE DEF iter
<1> QED BY <1>1, <1>6, TotalUnique

LEMMA UploadedIsTotal ==
  ASSUME TypeOK
  PROVE  UploadQuota <=> Uploaded <= Quota
<1> DEFINE UploadSize(n) == IF FromUpload(n) THEN dir[n].size ELSE 0
           Body(g) == [s \in SUBSET Names |->
                         IF s = {} THEN 0
                         ELSE UploadSize(CHOOSE x \in s : TRUE) + g[s \ {CHOOSE x \in s : TRUE}]]
           iter == CHOOSE g : g = Body(g)
<1>0. SizesOf(dir) \in [Names -> Nat]
  BY SizesTyped DEF TypeOK
<1>1. UploadQuota <=> iter[Names] <= Quota
  BY DEF UploadQuota, MapThenSumSet, MapThenFoldSet
<1>2. PICK it : SumsUp(it, SizesOf(dir))
  BY <1>0, SumExists
<1>3. \A g : Body(g) = [s \in SUBSET Names |->
                          IF s = {} THEN 0 ELSE SizesOf(dir)[Pick(s)] + g[s \ {Pick(s)}]]
  <2>1. \A s \in SUBSET Names :
          s # {} => SizesOf(dir)[Pick(s)] = UploadSize(CHOOSE x \in s : TRUE)
    BY PickIn DEF SizesOf, Pick, FromUpload
  <2> QED BY <2>1 DEF Pick
<1>4. it = Body(it)
  BY <1>2, <1>3 DEF SumsUp
<1>5. iter = Body(iter)
  <2> HIDE DEF Body
  <2> QED BY <1>4
<1>6. SumsUp(iter, SizesOf(dir))
  <2> HIDE DEF iter, Body
  <2> QED BY <1>3, <1>5 DEF SumsUp
<1> HIDE DEF iter
<1> QED BY <1>0, <1>1, <1>6, TotalUnique DEF Uploaded

-----------------------------------------------------------------------------
(* The quota                                                               *)

\* An upload that is about to publish its file has room for it, because only uploads
\* add to what uploads have stored, and they wait for the mutex.
QuotaInv ==
  /\ Uploaded <= Quota
  /\ \A r \in Requests : pc[r] = "link" => Uploaded + req[r].size <= Quota

LEMMA UploadedWithinUsed ==
  ASSUME TypeOK
  PROVE  Uploaded <= Used /\ Uploaded \in Nat /\ Used \in Nat
<1>1. SizesOf(dir) \in [Names -> Nat] /\ Sizes \in [Names -> Nat]
  BY SizesTyped DEF TypeOK, Sizes, Size, Files
<1>2. \A n \in Names : SizesOf(dir)[n] <= Sizes[n]
  <2>1. \A n \in Names : dir[n] # None => dir[n].size \in Nat
    BY DEF TypeOK, Files
  <2> QED BY <2>1 DEF SizesOf, Sizes, Size
<1>3. Total(SizesOf(dir)) <= Total(Sizes)
  BY <1>1, <1>2, TotalMonotonic
<1>4. Total(SizesOf(dir)) \in Nat /\ Total(Sizes) \in Nat
  BY <1>1, TotalOf
<1> QED BY <1>1, <1>3, <1>4, UsedIsTotal DEF Uploaded

LEMMA LinkGrows ==
  ASSUME TypeOK, NEW n \in Names, dir[n] = None, NEW f \in Files, f.from \in Requests,
         dir' = [dir EXCEPT ![n] = f]
  PROVE  Uploaded' <= Uploaded + f.size
<1>1. SizesOf(dir) \in [Names -> Nat] /\ SizesOf(dir)[n] = 0 /\ f.size \in Nat
  BY SizesTyped DEF TypeOK, SizesOf, Files
<1>2. Total(SizesOf(dir)) \in Nat
  BY <1>1, TotalOf
<1>3. CASE f = None
  <2>1. dir' = dir
    BY <1>3 DEF TypeOK
  <2>2. Uploaded' = Total(SizesOf(dir))
    BY <2>1 DEF Uploaded
  <2> QED BY <1>1, <1>2, <2>2 DEF Uploaded
<1>4. CASE f # None
  <2>1. SizesOf(dir') = [SizesOf(dir) EXCEPT ![n] = f.size]
    BY <1>4 DEF TypeOK, SizesOf
  <2>2. Total(SizesOf(dir')) = Total(SizesOf(dir)) + f.size
    <3> DEFINE F == SizesOf(dir)  v == f.size
    <3>1. F \in [Names -> Nat] /\ F[n] = 0 /\ v \in Nat /\ SizesOf(dir') = [F EXCEPT ![n] = v]
      BY <1>1, <2>1
    <3> HIDE DEF F, v
    <3>2. Total([F EXCEPT ![n] = v]) = Total(F) + v
      BY <3>1, TotalGrows
    <3> QED BY <3>1, <3>2 DEF F, v
  <2> QED BY <1>1, <1>2, <2>2 DEF Uploaded
<1> QED BY <1>3, <1>4

\* Who deletes or writes over a file takes away from what uploads have stored.
LEMMA OthersShrink ==
  ASSUME TypeOK, TypeOK',
         \A n \in Names : dir'[n] # None /\ dir'[n].from \in Requests => dir'[n] = dir[n]
  PROVE  Uploaded' <= Uploaded
<1>1. SizesOf(dir) \in [Names -> Nat] /\ SizesOf(dir') \in [Names -> Nat]
  BY SizesTyped DEF TypeOK
<1>2. \A n \in Names : SizesOf(dir')[n] <= SizesOf(dir)[n]
  <2>1. \A n \in Names : SizesOf(dir)[n] \in Nat
    BY <1>1
  <2> QED BY <2>1 DEF SizesOf
<1> QED BY <1>1, <1>2, TotalMonotonic DEF Uploaded

LEMMA QuotaKept ==
  ASSUME IInv, QuotaInv, [Next]_vars, IInv'
  PROVE  QuotaInv'
<1>t. /\ TypeOK /\ TypeOK' /\ Quota \in Nat
      /\ Uploaded \in Nat /\ Uploaded' \in Nat
  <2>1. TypeOK /\ TypeOK' /\ Quota \in Nat
    BY FileAssumption DEF IInv
  <2>2. SizesOf(dir) \in [Names -> Nat] /\ SizesOf(dir') \in [Names -> Nat]
    BY <2>1, SizesTyped DEF TypeOK
  <2> QED BY <2>1, <2>2, TotalOf DEF Uploaded
<1>0. \A r \in Requests : pc[r] = "link" => req[r].size \in Nat
  BY FileAssumption DEF IInv, RequestsKnown, Locals
<1>1. ASSUME NEW r \in Requests, UploadWalk(r) PROVE QuotaInv'
  <2>1. /\ pc[r] = "walk" /\ pc' = [pc EXCEPT ![r] = "link"] /\ UNCHANGED <<dir, req>>
        /\ Used + req[r].size <= Quota
    BY <1>1 DEF UploadWalk, Goto, diskVars, reqVars
  <2>2. req[r] \in Locals
    BY <2>1 DEF IInv, RequestsKnown
  <2>3. req[r].size \in Nat
    BY <2>2, FileAssumption DEF Locals
  <2>4. Uploaded + req[r].size <= Quota
    BY <1>t, <2>1, <2>3, UploadedWithinUsed
  <2>5. Uploaded' = Uploaded
    BY <2>1 DEF Uploaded
  <2> QED BY <2>1, <2>4, <2>5 DEF QuotaInv, IInv, TypeOK
<1>2. ASSUME NEW r \in Requests, UploadLink(r) PROVE QuotaInv'
  <2>1. /\ pc[r] = "link" /\ pc' = [pc EXCEPT ![r] = "finish"] /\ UNCHANGED req
        /\ dir[req[r].name] = None
        /\ dir' = [dir EXCEPT ![req[r].name] = [from |-> r, size |-> req[r].size]]
    BY <1>2 DEF UploadLink, Goto, reqVars
  <2>2. req[r] \in Locals
    BY <2>1 DEF IInv, RequestsKnown
  <2> DEFINE f == [from |-> r, size |-> req[r].size]
  <2>3. f \in Files /\ f.from \in Requests /\ f.size = req[r].size /\ req[r].name \in Names
    BY <2>2, FileAssumption DEF Locals, Files
  <2>5. Uploaded' <= Uploaded + req[r].size
    <3> HIDE DEF f
    <3>1. dir' = [dir EXCEPT ![req[r].name] = f]
      BY <2>1 DEF f
    <3>2. Uploaded' <= Uploaded + f.size
      BY <1>t, <2>1, <2>3, <3>1, LinkGrows
    <3> QED BY <3>2, <2>3
  <2>6. Uploaded' <= Quota
    <3>1. Uploaded + req[r].size <= Quota /\ req[r].size \in Nat
      BY <1>0, <2>1 DEF QuotaInv
    <3> QED BY <1>t, <2>5, <3>1
  <2>7. \A q \in Requests : pc'[q] # "link"
    BY <2>1 DEF IInv, TypeOK, ClosedUnderMutex, Uploading
  <2> QED BY <2>6, <2>7 DEF QuotaInv
<1>3. ASSUME Uploaded' <= Uploaded,
             \A r \in Requests : pc'[r] = "link" => pc[r] = "link" /\ req'[r] = req[r]
      PROVE  QuotaInv'
  <2>1. Uploaded' <= Quota
    BY <1>t, <1>3 DEF QuotaInv
  <2>2. ASSUME NEW r \in Requests, pc'[r] = "link" PROVE Uploaded' + req'[r].size <= Quota
    <3>1. Uploaded + req[r].size <= Quota /\ req'[r] = req[r] /\ req[r].size \in Nat
      BY <1>0, <1>3, <2>2 DEF QuotaInv
    <3> QED BY <1>t, <1>3, <3>1
  <2> QED BY <2>1, <2>2 DEF QuotaInv
<1>4. ASSUME dir' = dir PROVE Uploaded' <= Uploaded
  BY <1>t, <1>4 DEF Uploaded
<1>5. ASSUME NEW r \in Requests, Upload(r), ~ UploadWalk(r), ~ UploadLink(r) PROVE QuotaInv'
  <2>1. dir' = dir
    BY <1>5
       DEF Upload, UploadLock, UploadStat, UploadCopy, UploadCheck, UploadFails,
           UploadFinish, diskVars
  <2>2. pc'[r] # "link"
    BY <1>5
       DEF Upload, UploadLock, UploadStat, UploadCopy, UploadCheck, UploadFails,
           UploadFinish, Goto, IInv, TypeOK
  <2>3. \A q \in Requests \ {r} : pc'[q] = pc[q] /\ req'[q] = req[q]
    BY <1>5, UploadStep DEF IInv, TypeOK
  <2> QED BY <2>1, <2>2, <2>3, <1>3, <1>4
<1>6. ASSUME NEW r \in Requests, Quiet(r) PROVE QuotaInv'
  <2>1. dir' = dir
    BY <1>6, QuietStep DEF diskVars
  <2>2. \A q \in Requests : pc'[q] = "link" => pc[q] = "link" /\ req'[q] = req[q]
    <3>1. pc \in [Requests -> {"idle"} \cup Steps] /\ "link" \notin Unlocked
      BY DEF IInv, TypeOK, Unlocked
    <3> QED BY <1>6, <3>1, QuietStep
  <2> QED BY <2>1, <2>2, <1>3, <1>4
<1>7. CASE Withdraw \/ Close \/ DriveStep \/ Crash \/ Boot \/ Create
  <2>1. \A q \in Requests : pc'[q] = "link" => pc[q] = "link" /\ req'[q] = req[q]
    BY <1>7
       DEF Withdraw, Close, CloseRemove, CloseDone, CloseLock, CloseUnlink, CloseRmdir,
           DriveStep, DriveWrite, DriveDelete, Crash, Boot, Create, reqVars
  <2>2. \A n \in Names : dir'[n] # None /\ dir'[n].from \in Requests => dir'[n] = dir[n]
    <3>1. CASE DriveStep
      BY <1>t, <3>1, FileAssumption DEF DriveStep, DriveWrite, DriveDelete, TypeOK
    <3>2. CASE Withdraw \/ Close \/ Crash \/ Boot \/ Create
      BY <3>2
         DEF Withdraw, Close, CloseRemove, CloseDone, CloseLock, CloseUnlink, CloseRmdir,
             Crash, Boot, Create, diskVars, Empty
    <3> QED BY <1>7, <3>1, <3>2
  <2> QED BY <1>t, <2>1, <2>2, <1>3, OthersShrink
<1>8. CASE UNCHANGED vars
  BY <1>8, <1>3, <1>4 DEF vars, diskVars, reqVars
<1> QED BY <1>1, <1>2, <1>5, <1>6, <1>7, <1>8, NextKinds

LEMMA QuotaHolds == Spec => []QuotaInv
<1>1. Init => QuotaInv
  <2> SUFFICES ASSUME Init PROVE QuotaInv
    OBVIOUS
  <2> DEFINE zero == [n \in Names |-> 0]
  <2>1. SizesOf(dir) = zero /\ Quota \in Nat
    BY FileAssumption DEF Init, Empty, SizesOf
  <2>2. Total(zero) = 0
    <3> DEFINE it == [s \in SUBSET Names |-> 0]
    <3>1. SumsUp(it, zero)
      <4>1. \A s \in SUBSET Names : s # {} => zero[Pick(s)] = 0 /\ s \ {Pick(s)} \in SUBSET Names
        BY PickIn
      <4> QED BY <4>1 DEF SumsUp
    <3>2. zero \in [Names -> Nat] /\ it[Names] = 0
      OBVIOUS
    <3> HIDE DEF zero, it
    <3> QED BY <3>1, <3>2, TotalUnique
  <2>3. \A r \in Requests : pc[r] # "link"
    BY DEF Init
  <2> QED BY <2>1, <2>2, <2>3 DEF QuotaInv, Uploaded
<1>2. IInv /\ QuotaInv /\ [Next]_vars /\ IInv' => QuotaInv'
  BY QuotaKept
<1> QED BY <1>1, <1>2, Invariance, PTL DEF Spec

\* What uploads have put into a session stays within its quota, for every quota, set of
\* names and number of uploads, whatever the drive does (upload, storage.go).
THEOREM UploadQuotaHolds == Spec => []UploadQuota
<1>1. IInv /\ QuotaInv => UploadQuota
  BY UploadedIsTotal DEF IInv, QuotaInv
<1> QED BY <1>1, Invariance, QuotaHolds, PTL

-----------------------------------------------------------------------------
(* What is promised                                                        *)

\* Nothing runs while the process is down, a directory that is gone held nothing, and
\* close deletes only after it has set closed.
SpaceInv ==
  /\ ~ up => \A r \in Requests : pc[r] = "idle"
  /\ ~ exists => dir = Empty
  /\ cpc \in {"unlink", "rmdir"} => closed

LEMMA SpaceKept ==
  ASSUME IInv, SpaceInv, [Next]_vars
  PROVE  SpaceInv'
<1>1. ASSUME NEW r \in Requests, Quiet(r) PROVE SpaceInv'
  <2>1. UNCHANGED <<up, exists, dir, closed, cpc>>
    BY <1>1, QuietStep DEF leaseVars, diskVars, closeVars
  <2>2. CASE up
    BY <2>1, <2>2 DEF SpaceInv
  <2>3. CASE ~ up
    <3>1. pc[r] = "idle"
      BY <2>3 DEF SpaceInv
    <3> QED BY <1>1, <2>3, <3>1
         DEF Quiet, Begin, Lookup, Validate, Refuse, Watch, TimeOut, AuditStart, AuditFails,
             Report, Open, OpenFails, Send, Answer, Goto, Steps, Uploading
  <2> QED BY <2>2, <2>3
<1>2. ASSUME NEW r \in Requests, Upload(r) PROVE SpaceInv'
  <2>1. up /\ UNCHANGED <<up, exists, closed, cpc>>
    <3>1. pc[r] # "idle"
      BY <1>2, UploadStep DEF Uploading
    <3> QED BY <1>2, <3>1, UploadStep DEF SpaceInv, leaseVars, closeVars
  <2>2. ~ exists => dir' = dir
    BY <1>2
       DEF Upload, UploadLock, UploadStat, UploadCopy, UploadCheck, UploadWalk, UploadLink,
           UploadFails, UploadFinish, diskVars
  <2> QED BY <2>1, <2>2 DEF SpaceInv
<1>3. CASE Withdraw \/ CloseRemove \/ CloseDone \/ CloseLock
  BY <1>3
     DEF SpaceInv, Withdraw, CloseRemove, CloseDone, CloseLock, CloseStep, leaseVars,
         diskVars, closeVars, Empty
<1>4. CASE CloseUnlink \/ CloseRmdir
  BY <1>4 DEF SpaceInv, CloseUnlink, CloseRmdir, CloseStep, leaseVars, Empty
<1>5. CASE DriveStep
  BY <1>5 DEF SpaceInv, DriveStep, DriveWrite, DriveDelete, leaseVars, closeVars
<1>6. CASE Crash \/ Boot \/ Create
  BY <1>6 DEF SpaceInv, Crash, Boot, Create, diskVars, closeVars, Empty
<1>7. CASE UNCHANGED vars
  BY <1>7 DEF SpaceInv, vars, leaseVars, diskVars, closeVars, Empty
<1> QED BY <1>1, <1>2, <1>3, <1>4, <1>5, <1>6, <1>7, NextKinds DEF Close

LEMMA StoredIsUploaded ==
  ASSUME TypeOK
  PROVE  Promised!Stored = Uploaded
<1> DEFINE Body(g) == [s \in SUBSET Names |->
                         IF s = {} THEN 0
                         ELSE Promised!StoredSize(CHOOSE x \in s : TRUE)
                              + g[s \ {CHOOSE x \in s : TRUE}]]
           iter == CHOOSE g : g = Body(g)
<1>0. SizesOf(dir) \in [Names -> Nat]
  BY SizesTyped DEF TypeOK
<1>1. Promised!Stored = iter[Names]
  BY DEF Promised!Stored, Promised!MapThenSumSet, Promised!MapThenFoldSet
<1>2. PICK it : SumsUp(it, SizesOf(dir))
  BY <1>0, SumExists
<1>3. \A g : Body(g) = [s \in SUBSET Names |->
                          IF s = {} THEN 0 ELSE SizesOf(dir)[Pick(s)] + g[s \ {Pick(s)}]]
  <2>1. \A s \in SUBSET Names :
          s # {} => SizesOf(dir)[Pick(s)] = Promised!StoredSize(CHOOSE x \in s : TRUE)
    BY PickIn DEF SizesOf, Pick, Promised!StoredSize
  <2> QED BY <2>1 DEF Pick
<1>4. it = Body(it)
  BY <1>2, <1>3 DEF SumsUp
<1>5. iter = Body(iter)
  <2> HIDE DEF Body
  <2> QED BY <1>4
<1>6. SumsUp(iter, SizesOf(dir))
  <2> HIDE DEF iter, Body
  <2> QED BY <1>3, <1>5 DEF SumsUp
<1> HIDE DEF iter
<1> QED BY <1>0, <1>1, <1>6, TotalUnique DEF Uploaded

Opened == up /\ exists /\ ~ closed

LEMMA PutMaps ==
  ASSUME IInv, QuotaInv, SpaceInv, NEW r \in Requests, UploadLink(r)
  PROVE  Promised!Next
<1>1. /\ pc[r] = "link" /\ exists /\ dir[req[r].name] = None
      /\ dir' = [dir EXCEPT ![req[r].name] = [from |-> r, size |-> req[r].size]]
      /\ UNCHANGED <<up, exists, closed>>
  BY DEF UploadLink, Goto, leaseVars, closeVars
<1>2. up /\ ~ closed
  <2>1. mu = r
    BY <1>1 DEF IInv, ClosedUnderMutex, Uploading
  <2> QED BY <1>1, <2>1 DEF IInv, ClosedUnderMutex, SpaceInv
<1>3. req[r] \in Locals
  BY <1>1 DEF IInv, RequestsKnown
<1>4. req[r].name \in Names /\ req[r].size \in 0..MaxFile /\ req[r].size <= MaxFile
  BY <1>3, FileAssumption DEF Locals
<1>5. Promised!Stored + req[r].size <= Quota
  BY <1>1, StoredIsUploaded DEF QuotaInv, IInv
<1>6. Promised!Put(r, req[r].name, req[r].size)
  BY <1>1, <1>2, <1>4, <1>5 DEF Promised!Put
<1> QED BY <1>4, <1>6 DEF Promised!Next

LEMMA DriveMaps ==
  ASSUME IInv, DriveStep
  PROVE  Promised!Next
<1>1. PICK n \in Names : DriveDelete(n) \/ \E size \in 0..(MaxFile + 1) : DriveWrite(n, size)
  BY DEF DriveStep
<1>2. CASE DriveDelete(n)
  BY <1>2 DEF DriveDelete, Promised!Next, Promised!DriveDelete, leaseVars, closeVars
<1>3. CASE \E size \in 0..(MaxFile + 1) : DriveWrite(n, size)
  <2>1. PICK size \in 0..(MaxFile + 1) : DriveWrite(n, size)
    BY <1>3
  <2>2. Promised!DriveWrite(n, size)
    BY <2>1 DEF DriveWrite, Promised!DriveWrite, leaseVars, closeVars
  <2> QED BY <2>2 DEF Promised!Next
<1> QED BY <1>1, <1>2, <1>3

LEMMA PromiseKept ==
  ASSUME IInv, QuotaInv, SpaceInv, [Next]_vars
  PROVE  [Promised!Next]_(Promised!vars)
<1>1. ASSUME dir' = dir, Opened' <=> Opened PROVE UNCHANGED Promised!vars
  BY <1>1 DEF Promised!vars, Opened
<1>2. ASSUME dir' = dir, ~ Opened' PROVE [Promised!Next]_(Promised!vars)
  BY <1>1, <1>2 DEF Opened, Promised!Next, Promised!Close
<1>3. ASSUME NEW r \in Requests, Quiet(r) PROVE UNCHANGED Promised!vars
  BY <1>1, <1>3, QuietStep DEF Opened, leaseVars, diskVars, closeVars
<1>4. ASSUME NEW r \in Requests, Upload(r), ~ UploadLink(r) PROVE UNCHANGED Promised!vars
  <2>1. dir' = dir
    BY <1>4
       DEF Upload, UploadLock, UploadStat, UploadCopy, UploadCheck, UploadWalk, UploadFails,
           UploadFinish, diskVars
  <2> QED BY <1>1, <1>4, <2>1, UploadStep DEF Opened, leaseVars, closeVars
<1>5. CASE Withdraw \/ CloseRemove \/ CloseDone
  BY <1>1, <1>5
     DEF Opened, Withdraw, CloseRemove, CloseDone, leaseVars, diskVars, closeVars
<1>6. CASE CloseLock
  BY <1>2, <1>6 DEF Opened, CloseLock, diskVars
<1>7. CASE CloseUnlink \/ Boot
  <2>1. ~ Opened /\ ~ Opened' /\ dir' = Promised!NoFiles
    BY <1>7
       DEF Opened, CloseUnlink, CloseStep, Boot, SpaceInv, leaseVars, Empty, Promised!NoFiles
  <2> QED BY <2>1 DEF Opened, Promised!Next, Promised!Clear
<1>8. CASE CloseRmdir
  BY <1>2, <1>8 DEF Opened, CloseRmdir, CloseStep, SpaceInv
<1>9. CASE Crash
  BY <1>2, <1>9 DEF Opened, Crash, diskVars
<1>10. CASE Create
  <2>1. ~ Opened /\ Opened' /\ dir' = dir /\ dir = Promised!NoFiles
    BY <1>10 DEF Opened, Create, SpaceInv, Empty, Promised!NoFiles
  <2> QED BY <2>1 DEF Opened, Promised!Next, Promised!Open
<1>11. CASE UNCHANGED vars
  BY <1>1, <1>11 DEF Opened, vars, leaseVars, diskVars, closeVars
<1> QED BY <1>3, <1>4, <1>5, <1>6, <1>7, <1>8, <1>9, <1>10, <1>11, NextKinds, PutMaps,
           DriveMaps DEF Close

\* The file space is a store in which an upload is one step: whatever uploads, the
\* drive, close, crashes and starts do meanwhile, each step is a step of SessionFiles
\* or changes nothing there.
THEOREM SessionFilesImplemented == Spec => ImplementsSessionFiles
<1>1. Init => SpaceInv /\ Promised!Init
  BY DEF Init, SpaceInv, Promised!Init, Promised!NoFiles, Empty
<1>2. IInv /\ SpaceInv /\ [Next]_vars => SpaceInv'
  BY SpaceKept
<1>3. IInv /\ QuotaInv /\ SpaceInv /\ [Next]_vars => [Promised!Next]_(Promised!vars)
  BY PromiseKept
<1> QED BY <1>1, <1>2, <1>3, Invariance, QuotaHolds, PTL
        DEF Spec, Promised!Spec, ImplementsSessionFiles
=============================================================================
