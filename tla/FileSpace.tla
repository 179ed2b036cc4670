------------------------------ MODULE FileSpace ------------------------------
(***************************************************************************)
(* The files of a remote session: fileStore and fileSpace in               *)
(* modules/remote/storage.go and the transfers in                          *)
(* modules/remote/transfers.go.                                            *)
(*                                                                         *)
(* A session has a directory.  Uploads, downloads, lists and clipboard     *)
(* events are requests that run while others close the session; the RDP    *)
(* drive of the gateway writes to the same directory; the process may      *)
(* crash.  There is one session at a time: sessions share no files, and    *)
(* the next one is created when no request knows the last one.             *)
(*                                                                         *)
(* The operators Faulty... are not part of the specification: each is the  *)
(* operator after it with one mistake, for testing the properties.         *)
(***************************************************************************)
EXTENDS Naturals, FiniteSetsExt

CONSTANTS
  Names,      \* valid file names, of a bounded length
  Requests,
  MaxFile,    \* maxFileBytes, in some unit
  Quota,      \* sessionFileQuota
  Closer,     \* the goroutine that closes the session
  Drive,      \* the gateway's drive
  None

ASSUME FileAssumption ==
  /\ MaxFile \in Nat \ {0} /\ Quota \in Nat
  /\ {Closer, Drive, None} \cap Requests = {} /\ Closer # None
ASSUME NamesFinite == IsFiniteSet(Names)

VARIABLES
  up,         \* the process runs
  present,    \* the session's lease is in Module.leases
  withdrawn,  \* its connection, user or web session no longer allows it
  exists,     \* the directory
  dir,        \* the files in it
  temp,       \* files in .pending, named after their uploads
  mu,         \* who holds fileSpace.mu
  done,       \* fileSpace.done is closed
  closed,     \* fileSpace.closed
  cpc,        \* where the closer is
  pc, req,    \* where a request is, and what it is about
  aborted,    \* requests whose context and deadlines have been ended
  started     \* requests with an audit record that they start

leaseVars == <<up, present, withdrawn>>
diskVars == <<exists, dir, temp>>
closeVars == <<done, closed, cpc>>
reqVars == <<req, aborted, started>>
vars == <<leaseVars, diskVars, mu, closeVars, pc, reqVars>>

Files == [from : Requests \cup {Drive}, size : 0..(MaxFile + 1)]
Kinds == {"upload", "download", "list", "clipboard"}
Locals == [kind : Kinds, name : Names, size : 0..MaxFile]
Uploading == {"stat", "copy", "check", "walk", "link", "finish"}  \* under the mutex
Steps == {"lookup", "validate", "audit", "lock", "open", "send", "report"} \cup Uploading

TypeOK ==
  /\ {up, present, withdrawn, exists, done, closed} \subseteq BOOLEAN
  /\ dir \in [Names -> Files \cup {None}]
  /\ temp \subseteq Requests
  /\ mu \in Requests \cup {Closer, None}
  /\ cpc \in {"off", "close", "lock", "unlink", "rmdir"}
  /\ pc \in [Requests -> {"idle"} \cup Steps]
  /\ req \in [Requests -> Locals \cup {None}]
  /\ aborted \subseteq Requests /\ started \subseteq Requests

Empty == [n \in Names |-> None]

\* A session has been launched.
Init ==
  /\ up = TRUE /\ present = TRUE /\ withdrawn = FALSE
  /\ exists = TRUE /\ dir = Empty /\ temp = {}
  /\ mu = None /\ done = FALSE /\ closed = FALSE /\ cpc = "off"
  /\ pc = [r \in Requests |-> "idle"]
  /\ req = [r \in Requests |-> None]
  /\ aborted = {} /\ started = {}

Goto(r, from, to) == pc[r] = from /\ pc' = [pc EXCEPT ![r] = to]

\* The handler ends: it cancels its context and waits for its watchdog.
Answer(r, from) ==
  /\ Goto(r, from, "idle")
  /\ req' = [req EXCEPT ![r] = None]
  /\ aborted' = aborted \ {r} /\ started' = started \ {r}

-----------------------------------------------------------------------------
(* What every transfer does first                                          *)

Begin(r, k, n) ==
  /\ up
  /\ Goto(r, "idle", "lookup")
  /\ req' = [req EXCEPT ![r] = [kind |-> k, name |-> n, size |-> 0]]
  /\ UNCHANGED <<leaseVars, diskVars, mu, closeVars, aborted, started>>

Lookup(r) ==
  /\ Goto(r, "lookup", "validate")
  /\ present
  /\ UNCHANGED <<leaseVars, diskVars, mu, closeVars, reqVars>>

\* The queries of validate; then the watchdog starts.
Validate(r) ==
  /\ Goto(r, "validate", IF req[r].kind \in {"download", "list"} THEN "open" ELSE "audit")
  /\ ~ withdrawn
  /\ UNCHANGED <<leaseVars, diskVars, mu, closeVars, reqVars>>

\* Not found, not valid, or not allowed.
Refuse(r) ==
  /\ Answer(r, "lookup") \/ Answer(r, "validate")
  /\ UNCHANGED <<leaseVars, diskVars, mu, closeVars>>

FaultyWatch(r) ==  \* looks at the rows only
  /\ pc[r] \in Steps \ {"lookup", "validate"} /\ r \notin aborted
  /\ withdrawn
  /\ aborted' = aborted \cup {r}
  /\ UNCHANGED <<leaseVars, diskVars, mu, closeVars, pc, req, started>>

\* The watchdog looks every two seconds, and when done is closed.
Watch(r) ==
  /\ pc[r] \in Steps \ {"lookup", "validate"} /\ r \notin aborted
  /\ done \/ ~ present \/ withdrawn
  /\ aborted' = aborted \cup {r}
  /\ UNCHANGED <<leaseVars, diskVars, mu, closeVars, pc, req, started>>

\* The deadline of two minutes, or an error the watchdog takes for a refusal.
TimeOut(r) ==
  /\ pc[r] \in Steps \ {"lookup", "validate"} /\ r \notin aborted
  /\ aborted' = aborted \cup {r}
  /\ UNCHANGED <<leaseVars, diskVars, mu, closeVars, pc, req, started>>

AfterAudit(k) ==
  CASE k = "upload" -> "lock" [] k = "download" -> "send" [] OTHER -> "report"

FaultyAuditStart(r) ==  \* an error of the audit is ignored
  /\ Goto(r, "audit", AfterAudit(req[r].kind))
  /\ started' = started \cup {r} \/ started' = started
  /\ UNCHANGED <<leaseVars, diskVars, mu, closeVars, req, aborted>>

\* The record is written with a context of its own; an error ends the request.
AuditStart(r) ==
  /\ Goto(r, "audit", AfterAudit(req[r].kind))
  /\ started' = started \cup {r}
  /\ UNCHANGED <<leaseVars, diskVars, mu, closeVars, req, aborted>>

AuditFails(r) ==
  /\ Answer(r, "audit")
  /\ UNCHANGED <<leaseVars, diskVars, mu, closeVars>>

\* The last record, if there is one, whose error is ignored, and the answer.
Report(r) ==
  /\ Answer(r, "report")
  /\ UNCHANGED <<leaseVars, diskVars, mu, closeVars>>

-----------------------------------------------------------------------------
(* Downloads and lists                                                     *)

\* fileSpace.download and list take the mutex for this step only.
Open(r) ==
  LET f == dir[req[r].name] IN
  /\ pc[r] = "open" /\ mu = None
  /\ ~ closed
  /\ \/ /\ req[r].kind = "list"
        /\ Answer(r, "open")
     \/ /\ req[r].kind = "download" /\ f # None /\ f.size <= MaxFile
        /\ Goto(r, "open", "audit") /\ UNCHANGED reqVars
  /\ UNCHANGED <<leaseVars, diskVars, mu, closeVars>>

OpenFails(r) ==
  /\ mu = None
  /\ Answer(r, "open")
  /\ UNCHANGED <<leaseVars, diskVars, mu, closeVars>>

\* The file is open; it is sent, or the client or the abort ends it.
Send(r) ==
  /\ Goto(r, "send", "report")
  /\ UNCHANGED <<leaseVars, diskVars, mu, closeVars, reqVars>>

-----------------------------------------------------------------------------
(* Uploads                                                                 *)

UploadLock(r) ==
  /\ mu = None
  /\ IF closed
     THEN Goto(r, "lock", "report") /\ UNCHANGED mu
     ELSE Goto(r, "lock", "stat") /\ mu' = r
  /\ UNCHANGED <<leaseVars, diskVars, closeVars, reqVars>>

UploadStat(r) ==
  /\ Goto(r, "stat", "copy")
  /\ dir[req[r].name] = None
  /\ temp' = temp \cup {r}
  /\ UNCHANGED <<leaseVars, exists, dir, mu, closeVars, reqVars>>

\* The body has been read, one byte more than is allowed at most.
UploadCopy(r, n) ==
  /\ Goto(r, "copy", "check")
  /\ n <= MaxFile
  /\ req' = [req EXCEPT ![r].size = n]
  /\ UNCHANGED <<leaseVars, diskVars, mu, closeVars, aborted, started>>

UploadCheck(r) ==
  /\ Goto(r, "check", "walk")
  /\ ~ done
  /\ UNCHANGED <<leaseVars, diskVars, mu, closeVars, reqVars>>

Size(n) == IF dir[n] = None THEN 0 ELSE dir[n].size
Used == MapThenSumSet(Size, Names)

FaultyUploadWalk(r) ==  \* without the file itself
  /\ Goto(r, "walk", "link")
  /\ Used <= Quota
  /\ UNCHANGED <<leaseVars, diskVars, mu, closeVars, reqVars>>

UploadWalk(r) ==
  /\ Goto(r, "walk", "link")
  /\ Used + req[r].size <= Quota
  /\ UNCHANGED <<leaseVars, diskVars, mu, closeVars, reqVars>>

FaultyUploadLink(r) ==  \* os.Rename
  /\ Goto(r, "link", "finish")
  /\ exists
  /\ dir' = [dir EXCEPT ![req[r].name] = [from |-> r, size |-> req[r].size]]
  /\ UNCHANGED <<leaseVars, exists, temp, mu, closeVars, reqVars>>

\* os.Link fails when the name exists, which the drive may have created.
UploadLink(r) ==
  /\ Goto(r, "link", "finish")
  /\ exists /\ dir[req[r].name] = None
  /\ dir' = [dir EXCEPT ![req[r].name] = [from |-> r, size |-> req[r].size]]
  /\ UNCHANGED <<leaseVars, exists, temp, mu, closeVars, reqVars>>

\* Any step may fail.
UploadFails(r) ==
  /\ \E s \in Uploading \ {"finish"} : Goto(r, s, "finish")
  /\ UNCHANGED <<leaseVars, diskVars, mu, closeVars, reqVars>>

\* The deferred calls.
UploadFinish(r) ==
  /\ Goto(r, "finish", "report")
  /\ temp' = temp \ {r}
  /\ mu' = None
  /\ UNCHANGED <<leaseVars, exists, dir, closeVars, reqVars>>

\* What a request does without waiting for its client.
Proceed(r) ==
  \/ Lookup(r)     \/ Validate(r)   \/ Refuse(r)
  \/ AuditStart(r) \/ AuditFails(r) \/ Report(r)
  \/ Open(r)       \/ OpenFails(r)
  \/ UploadLock(r) \/ UploadStat(r) \/ UploadCheck(r)
  \/ UploadWalk(r) \/ UploadLink(r) \/ UploadFinish(r)
  \/ pc[r] # "copy" /\ UploadFails(r)

\* The client sends and receives, or its connection is ended.
Transfer(r) ==
  \/ Send(r)
  \/ \E n \in 0..(MaxFile + 1) : UploadCopy(r, n)
  \/ pc[r] = "copy" /\ UploadFails(r)

-----------------------------------------------------------------------------
(* The session ends: closeSession, expireSessions and Stop, each of which  *)
(* removes the lease and then calls fileSpace.close.                       *)

\* The connection, the user or the web session no longer allows the session.
Withdraw ==
  /\ present
  /\ withdrawn' = TRUE
  /\ UNCHANGED <<up, present, diskVars, mu, closeVars, pc, reqVars>>

CloseStep(from, to) == cpc = from /\ cpc' = to

CloseRemove ==
  /\ present
  /\ CloseStep("off", "close")
  /\ present' = FALSE
  /\ UNCHANGED <<up, withdrawn, diskVars, mu, done, closed, pc, reqVars>>

CloseDone ==
  /\ CloseStep("close", "lock")
  /\ done' = TRUE
  /\ UNCHANGED <<leaseVars, diskVars, mu, closed, pc, reqVars>>

FaultyCloseLock ==  \* does not take the mutex
  /\ CloseStep("lock", "unlink")
  /\ closed' = TRUE
  /\ UNCHANGED <<leaseVars, diskVars, mu, done, pc, reqVars>>

CloseLock ==
  /\ mu = None
  /\ CloseStep("lock", "unlink")
  /\ mu' = Closer /\ closed' = TRUE
  /\ UNCHANGED <<leaseVars, diskVars, done, pc, reqVars>>

\* os.RemoveAll deletes what it finds in a directory that is not empty ...
CloseUnlink ==
  /\ CloseStep("unlink", "rmdir")
  /\ dir # Empty
  /\ dir' = Empty
  /\ UNCHANGED <<leaseVars, exists, temp, mu, done, closed, pc, reqVars>>

\* ... and then the directory, if it is still empty, or at once if it is empty anyway.
\* The error is ignored.
CloseRmdir ==
  /\ CloseStep("rmdir", "off") \/ (dir = Empty /\ CloseStep("unlink", "off"))
  /\ exists' = (dir # Empty)
  /\ mu' = None
  /\ UNCHANGED <<leaseVars, dir, temp, done, closed, pc, reqVars>>

Close == CloseRemove \/ CloseDone \/ CloseLock \/ CloseUnlink \/ CloseRmdir

-----------------------------------------------------------------------------
(* The drive, which needs the directory but knows nothing of the process:  *)
(* the code revokes the gateway's token at most, and ignores errors.       *)
(* Renaming is left out.                                                   *)

DriveWrite(n, size) ==
  /\ exists
  /\ dir' = [dir EXCEPT ![n] = [from |-> Drive, size |-> size]]
  /\ UNCHANGED <<leaseVars, exists, temp, mu, closeVars, pc, reqVars>>

DriveDelete(n) ==
  /\ exists /\ dir[n] # None
  /\ dir' = [dir EXCEPT ![n] = None]
  /\ UNCHANGED <<leaseVars, exists, temp, mu, closeVars, pc, reqVars>>

DriveStep ==
  \E n \in Names :
    \/ DriveDelete(n)
    \/ \E size \in 0..(MaxFile + 1) : DriveWrite(n, size)

-----------------------------------------------------------------------------
(* The process                                                             *)

\* The disk keeps what it has; everything else is gone.
Crash ==
  /\ up
  /\ up' = FALSE /\ present' = FALSE
  /\ mu' = None /\ done' = FALSE /\ closed' = FALSE /\ cpc' = "off"
  /\ pc' = [r \in Requests |-> "idle"]
  /\ req' = [r \in Requests |-> None]
  /\ aborted' = {} /\ started' = {}
  /\ UNCHANGED <<withdrawn, diskVars>>

FaultyBoot ==  \* looks for session directories only
  /\ ~ up
  /\ up' = TRUE
  /\ exists' = FALSE /\ dir' = Empty
  /\ UNCHANGED <<present, withdrawn, temp, mu, closeVars, pc, reqVars>>

\* newFileStore
Boot ==
  /\ ~ up
  /\ up' = TRUE
  /\ exists' = FALSE /\ dir' = Empty /\ temp' = {}
  /\ UNCHANGED <<present, withdrawn, mu, closeVars, pc, reqVars>>

\* The next session is launched.
Create ==
  /\ up /\ ~ present /\ ~ exists /\ cpc = "off"
  /\ \A r \in Requests : pc[r] = "idle"
  /\ present' = TRUE /\ withdrawn' = FALSE /\ exists' = TRUE
  /\ done' = FALSE /\ closed' = FALSE
  /\ UNCHANGED <<up, dir, temp, mu, cpc, pc, reqVars>>

Next ==
  \/ \E r \in Requests :
       \/ \E k \in Kinds, n \in Names : Begin(r, k, n)
       \/ Proceed(r) \/ Transfer(r) \/ Watch(r) \/ TimeOut(r)
  \/ Withdraw \/ Close \/ DriveStep \/ Crash \/ Boot \/ Create

\* Goroutines run, and so do watchdogs.  A client may stall for ever, but not
\* on a connection that was ended.  Nobody need close a session, and no
\* deadline is needed.
Fairness ==
  /\ \A r \in Requests :
       /\ WF_vars(Proceed(r))
       /\ WF_vars(Watch(r))
       /\ WF_vars(r \in aborted /\ Transfer(r))
  /\ WF_vars(~ present /\ Close)

Spec == Init /\ [][Next]_vars
FairSpec == Spec /\ Fairness

-----------------------------------------------------------------------------
(* Properties                                                              *)

Publishes(r, n) == dir'[n] # dir[n] /\ dir'[n] # None /\ dir'[n].from = r
FromUpload(n) == dir[n] # None /\ dir[n].from \in Requests

\* The drive may fill the directory while uploads run, but what uploads have
\* put there stays within the quota of the session: each counts the files and
\* adds its own without another upload between the two.
UploadQuota ==
  LET UploadSize(n) == IF FromUpload(n) THEN dir[n].size ELSE 0
  IN  MapThenSumSet(UploadSize, Names) <= Quota

\* Once close has emptied the directory, no upload that was under way when the
\* session ended puts a file there.
ClosedIsEmpty ==
  closed /\ cpc # "unlink" => \A n \in Names : ~ FromUpload(n)

\* A temporary file belongs to an upload that runs, unless a crash has left it
\* and the process has not started since.
PendingAccounted ==
  up => \A r \in temp : pc[r] \in Uploading \ {"stat"}

\* "Hard-link publication is atomic and never overwrites an existing target":
\* whoever creates the file while an upload reads its body, the upload fails.
NoOverwrite ==
  [][\A r \in Requests, n \in Names : Publishes(r, n) => dir[n] = None]_vars

\* No file is published or sent before a record says that this is started.
AuditedFirst ==
  [][\A r \in Requests :
       pc[r] = "send" \/ (\E n \in Names : Publishes(r, n)) => r \in started]_vars

\* close does not wait for ever for the mutex that an upload holds while it
\* reads from its client, although no deadline is assumed to end the upload.
CloseCompletes == done ~> (~ up \/ (closed /\ cpc = "off"))

\* A transfer ends when its session has ended or is no longer allowed.
TransfersEnd ==
  \A r \in Requests :
    (pc[r] # "idle" /\ (withdrawn \/ ~ present)) ~> pc[r] = "idle"

\* What docs/CLIPBOARD.md says: the files are removed when the session ends.
RemovedOnClose == closed /\ cpc = "off" => ~ exists

-----------------------------------------------------------------------------
(* What is promised                                                        *)

Promised == INSTANCE SessionFiles WITH
              files <- dir,
              open <- up /\ exists /\ ~ closed,
              Uploads <- Requests

\* The file space of a session implements SessionFiles: an upload, which holds the
\* mutex while it reads from its client and may be overtaken by the drive, by close
\* and by a crash, takes effect in the one step that links its file, or not at all.
ImplementsSessionFiles == Promised!Spec
=============================================================================
