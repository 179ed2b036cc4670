---------------------------- MODULE RemoteAccess ----------------------------
(***************************************************************************)
(* What the remote session manager promises its users: a web session holds *)
(* a bounded number of remote sessions, a remote session has one tunnel at *)
(* a time, a session that was withdrawn never comes back, and a tunnel     *)
(* does not outlive the withdrawal of its session for long.                *)
(***************************************************************************)
EXTENDS Naturals, FiniteSets

CONSTANTS Ids, Owners, OwnerOf, Requests, MaxLeases

VARIABLES
  granted,  \* sessions that may be used
  spent,    \* sessions withdrawn
  users     \* the tunnels of each session

vars == <<granted, spent, users>>

Init ==
  /\ granted = {}
  /\ spent = {}
  /\ users = [i \in Ids |-> {}]

Grant(i) ==
  /\ i \notin granted \cup spent
  /\ Cardinality({j \in granted : OwnerOf[j] = OwnerOf[i]}) < MaxLeases
  /\ granted' = granted \cup {i}
  /\ UNCHANGED <<spent, users>>

Withdraw(S) ==
  /\ granted' = granted \ S
  /\ spent' = spent \cup S
  /\ UNCHANGED users

Attach(i, t) ==
  /\ i \in granted
  /\ users[i] = {}
  /\ users' = [users EXCEPT ![i] = {t}]
  /\ UNCHANGED <<granted, spent>>

Detach(i, t) ==
  /\ t \in users[i]
  /\ users' = [users EXCEPT ![i] = @ \ {t}]
  /\ UNCHANGED <<granted, spent>>

\* The process is gone, and every session with it.
Halt ==
  /\ granted' = {}
  /\ spent' = spent \cup granted
  /\ users' = [i \in Ids |-> {}]

Next ==
  \/ \E i \in Ids : Grant(i)
  \/ \E S \in SUBSET granted : Withdraw(S)
  \/ \E i \in Ids, t \in Requests : Attach(i, t) \/ Detach(i, t)
  \/ Halt

Spec == Init /\ [][Next]_vars

\* A tunnel of a withdrawn session is ended.
Fairness ==
  \A i \in Ids, t \in Requests : WF_vars(i \notin granted /\ Detach(i, t))

FairSpec == Spec /\ Fairness
=============================================================================
