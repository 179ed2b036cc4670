---------------------------- MODULE SessionFiles ----------------------------
(***************************************************************************)
(* What a remote session promises about its files: uploads appear whole,   *)
(* one at a time, under free names and within a quota, and only while the  *)
(* session is open; what is left of one session is gone before the next is *)
(* opened.  The operator's drive writes and deletes as it likes.           *)
(***************************************************************************)
EXTENDS Naturals, FiniteSetsExt

CONSTANTS Names, Uploads, Drive, MaxFile, Quota, None

VARIABLES
  files,  \* by name
  open    \* whether the session takes uploads

vars == <<files, open>>

NoFiles == [n \in Names |-> None]

Init == open = TRUE /\ files = NoFiles

StoredSize(n) == IF files[n] # None /\ files[n].from \in Uploads THEN files[n].size ELSE 0
Stored == MapThenSumSet(StoredSize, Names)

\* An upload that waits, reads, checks and links is one step.
Put(u, n, size) ==
  /\ open
  /\ files[n] = None
  /\ size <= MaxFile /\ Stored + size <= Quota
  /\ files' = [files EXCEPT ![n] = [from |-> u, size |-> size]]
  /\ UNCHANGED open

DriveWrite(n, size) ==
  /\ files' = [files EXCEPT ![n] = [from |-> Drive, size |-> size]]
  /\ UNCHANGED open

DriveDelete(n) ==
  /\ files' = [files EXCEPT ![n] = None]
  /\ UNCHANGED open

\* The session has ended, or the process.
Close ==
  /\ open /\ open' = FALSE
  /\ UNCHANGED files

Clear ==
  /\ ~ open
  /\ files' = NoFiles
  /\ UNCHANGED open

\* The next session.
Open ==
  /\ ~ open /\ open' = TRUE
  /\ files = NoFiles
  /\ UNCHANGED files

Next ==
  \/ \E u \in Uploads, n \in Names, size \in 0..MaxFile : Put(u, n, size)
  \/ \E n \in Names :
       DriveDelete(n) \/ \E size \in 0..(MaxFile + 1) : DriveWrite(n, size)
  \/ Close \/ Clear \/ Open

Spec == Init /\ [][Next]_vars
=============================================================================
