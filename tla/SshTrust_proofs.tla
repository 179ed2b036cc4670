-------------------------- MODULE SshTrust_proofs --------------------------
(***************************************************************************)
(* Proofs about SshTrust, for every set of hosts, ports, addresses, keys   *)
(* and requests and every bound.                                           *)
(***************************************************************************)
EXTENDS SshTrust, TLAPS

\* Past the probe a request holds a key, and has the approval it needs.
Probed ==
  \A r \in Requests :
    /\ pc[r] \in {"recheck", "rechost", "confirm", "save"} =>
         req[r].observed \in Keys /\ Approves(r, req[r].previous, req[r].observed)
    /\ pc[r] = "save" => req[r].previous # req[r].observed

IInv == TypeOK /\ HistoryAgrees /\ Probed

LEMMA NothingType == Nothing \in Reading
<1>1. (CHOOSE v \in Rows : TRUE) \in Rows
  <2>1. PICK h \in Hosts, p \in Ports : TRUE
    BY TrustAssumption
  <2>2. [host |-> h, port |-> p] \in Rows
    BY <2>1 DEF Rows
  <2> HIDE DEF Rows
  <2> QED BY <2>2
<1>2. (CHOOSE a \in Addresses : TRUE) \in Addresses
  BY TrustAssumption
<1> HIDE DEF Rows
<1> QED BY <1>1, <1>2 DEF Nothing, Reading, Approvals

LEMMA TargetType ==
  ASSUME TypeOK, NEW r \in Requests
  PROVE  Target(r) \in Destinations /\ req[r] \in Reading
BY DEF TypeOK, Target, Destinations, Reading, Rows

\* A request whose variables stay in their types keeps Reading.
LEMMA ReadingUpdate ==
  ASSUME TypeOK, NEW r \in Requests
  PROVE  /\ \A a \in Approvals, v \in Rows :
              [req EXCEPT ![r].approval = a, ![r].conn = v] \in [Requests -> Reading]
         /\ \A a \in Addresses : [req EXCEPT ![r].addr = a] \in [Requests -> Reading]
         /\ \A k \in Keys \cup {NoKey} : [req EXCEPT ![r].previous = k] \in [Requests -> Reading]
         /\ \A k \in Keys : [req EXCEPT ![r].observed = k] \in [Requests -> Reading]
         /\ \A v \in Rows : [req EXCEPT ![r].again = v] \in [Requests -> Reading]
         /\ [req EXCEPT ![r] = Nothing] \in [Requests -> Reading]
<1>1. req \in [Requests -> Reading]
  BY DEF TypeOK
<1> HIDE DEF Rows, Approvals
<1> QED BY <1>1, NothingType DEF Reading

\* Steps of a request other than Save leave the store alone.
LEMMA RequestTypes ==
  ASSUME TypeOK, NEW r \in Requests, Request(r)
  PROVE  /\ pc' \in [Requests -> {"idle"} \cup Steps]
         /\ req' \in [Requests -> Reading]
<1>1. \E to \in {"idle"} \cup Steps : pc' = [pc EXCEPT ![r] = to]
  BY DEF Request, Begin, ReadHost, ReadKey, Probe, ProbeChanged, RecheckConnection,
         RecheckHost, Confirm, ConfirmUnchanged, Save, Reject, Goto, Answer, Steps
<1>2. req' \in [Requests -> Reading]
  <2>1. row \in Rows /\ req[r].conn.host \in Hosts /\ pinned \in [Hosts -> Addresses]
    BY DEF TypeOK, Reading, Rows
  <2>2. trusted[Target(r)] \in Keys \cup {NoKey} /\ offered[Target(r)] \in Keys
    BY TargetType DEF TypeOK
  <2>3. ASSUME NEW a \in Approvals, Begin(r, a) PROVE req' \in [Requests -> Reading]
    BY <2>1, <2>3, ReadingUpdate DEF Begin
  <2>4. CASE ReadHost(r)
    BY <2>1, <2>4, ReadingUpdate DEF ReadHost
  <2>5. CASE ReadKey(r)
    BY <2>2, <2>5, ReadingUpdate DEF ReadKey
  <2>6. CASE Probe(r)
    BY <2>2, <2>6, ReadingUpdate DEF Probe
  <2>7. CASE RecheckConnection(r)
    BY <2>1, <2>7, ReadingUpdate DEF RecheckConnection
  <2>8. CASE RecheckHost(r) \/ Confirm(r)
    BY <2>8 DEF RecheckHost, Confirm, TypeOK
  <2>9. CASE ProbeChanged(r) \/ ConfirmUnchanged(r) \/ Save(r) \/ Reject(r)
    BY <2>9, ReadingUpdate DEF ProbeChanged, ConfirmUnchanged, Save, Reject, Answer
  <2> QED BY <2>3, <2>4, <2>5, <2>6, <2>7, <2>8, <2>9 DEF Request
<1> QED BY <1>1, <1>2 DEF TypeOK

\* A request keeps what it knows when it goes on.
LEMMA ProbedStep ==
  ASSUME IInv, NEW r \in Requests, Request(r)
  PROVE  Probed'
<1>1. \A q \in Requests \ {r} : pc'[q] = pc[q] /\ req'[q] = req[q]
  BY DEF Request, Begin, ReadHost, ReadKey, Probe, ProbeChanged, RecheckConnection,
         RecheckHost, Confirm, ConfirmUnchanged, Save, Reject, Goto, Answer, IInv, TypeOK
<1>2. pc \in [Requests -> {"idle"} \cup Steps] /\ req \in [Requests -> Reading]
  BY DEF IInv, TypeOK
<1> SUFFICES
      /\ pc'[r] \in {"recheck", "rechost", "confirm", "save"} =>
           /\ req'[r].observed \in Keys
           /\ Approves(r, req[r].previous, req[r].observed)'
      /\ pc'[r] = "save" => req'[r].previous # req'[r].observed
  BY <1>1 DEF Probed, Approves, IInv
<1>3. CASE \/ (\E a \in Approvals : Begin(r, a)) \/ ReadHost(r) \/ ReadKey(r)
           \/ ProbeChanged(r) \/ ConfirmUnchanged(r) \/ Save(r) \/ Reject(r)
  <2>1. pc'[r] \in {"idle", "host", "key", "probe"}
    BY <1>2, <1>3 DEF Begin, ReadHost, ReadKey, ProbeChanged, ConfirmUnchanged, Save, Reject,
                      Answer, Goto
  <2> QED BY <2>1
<1>4. CASE Probe(r)
  <2>1. offered[Target(r)] \in Keys
    BY TargetType DEF IInv, TypeOK
  <2>2. /\ pc'[r] = "recheck"
        /\ req'[r].observed = offered[Target(r)]
        /\ req'[r].previous = req[r].previous /\ req'[r].approval = req[r].approval
    BY <1>2, <1>4 DEF Probe, Goto, Reading
  <2> QED BY <1>4, <2>1, <2>2 DEF Probe, Approves
<1>5. CASE RecheckConnection(r)
  <2>1. /\ pc[r] = "recheck" /\ pc'[r] = "rechost"
        /\ req'[r].observed = req[r].observed
        /\ req'[r].previous = req[r].previous /\ req'[r].approval = req[r].approval
    BY <1>2, <1>5 DEF RecheckConnection, Goto, Reading
  <2> QED BY <2>1 DEF IInv, Probed, Approves
<1>6. CASE RecheckHost(r) \/ Confirm(r)
  BY <1>2, <1>6 DEF RecheckHost, Confirm, Goto, IInv, Probed, Approves
<1> QED BY <1>3, <1>4, <1>5, <1>6 DEF Request

\* Storing a key under the compare-and-swap appends to the history.
LEMMA SaveKeepsHistory ==
  ASSUME IInv, NEW r \in Requests, Save(r)
  PROVE  /\ trusted' \in [Destinations -> Keys \cup {NoKey}]
         /\ history' \in [Destinations -> Seq(Events)]
         /\ HistoryAgrees'
<1> DEFINE d == Target(r)
           new == [previous |-> req[r].previous, key |-> req[r].observed]
<1>1. d \in Destinations /\ req[r].previous \in Keys \cup {NoKey}
  BY TargetType DEF IInv, Reading
<1>2. req[r].observed \in Keys
  BY DEF IInv, Probed, Save, Answer, Goto
<1>3. new \in Events
  BY <1>1, <1>2 DEF Events
<1>4. /\ trusted[d] = req[r].previous
      /\ trusted' = [trusted EXCEPT ![d] = req[r].observed]
      /\ history' = [history EXCEPT ![d] = Append(@, new)]
  BY DEF Save, Store
<1>5. /\ trusted \in [Destinations -> Keys \cup {NoKey}]
      /\ history \in [Destinations -> Seq(Events)]
  BY DEF IInv, TypeOK
<1> HIDE DEF d, new
<1>6. trusted' \in [Destinations -> Keys \cup {NoKey}]
  BY <1>2, <1>4, <1>5
<1>7. history' \in [Destinations -> Seq(Events)]
  BY <1>1, <1>3, <1>4, <1>5
<1>8. HistoryAgrees'
  <2> SUFFICES ASSUME NEW e \in Destinations
               PROVE  LET h == history'[e] IN
                      /\ \A n \in 1..Len(h) :
                           h[n].previous = IF n = 1 THEN NoKey ELSE h[n - 1].key
                      /\ trusted'[e] = IF h = << >> THEN NoKey ELSE h[Len(h)].key
    BY DEF HistoryAgrees
  <2>1. CASE e # d
    BY <1>1, <1>4, <1>5, <2>1 DEF IInv, HistoryAgrees
  <2>2. CASE e = d
    <3> DEFINE h == history[d]
               g == history'[d]
    <3>1. h \in Seq(Events) /\ g = Append(h, new)
      BY <1>1, <1>4, <1>5
    <3>2. /\ \A n \in 1..Len(h) : h[n].previous = IF n = 1 THEN NoKey ELSE h[n - 1].key
          /\ trusted[d] = IF h = << >> THEN NoKey ELSE h[Len(h)].key
      BY <1>1 DEF IInv, HistoryAgrees
    <3>3. /\ new.previous = trusted[d] /\ new.key = req[r].observed
          /\ trusted'[d] = req[r].observed
      BY <1>1, <1>4, <1>5 DEF new
    <3> HIDE DEF h, g
    <3>4. /\ Len(g) = Len(h) + 1 /\ Len(h) \in Nat /\ g # << >>
          /\ g[Len(h) + 1] = new
          /\ \A n \in 1..Len(h) : g[n] = h[n]
      BY <1>3, <3>1
    <3>5. h = << >> <=> Len(h) = 0
      BY <3>1
    <3>6. \A n \in 1..Len(g) : g[n].previous = IF n = 1 THEN NoKey ELSE g[n - 1].key
      <4> SUFFICES ASSUME NEW n \in 1..Len(g)
                   PROVE  g[n].previous = IF n = 1 THEN NoKey ELSE g[n - 1].key
        OBVIOUS
      <4>1. CASE n = Len(h) + 1
        BY <3>2, <3>3, <3>4, <3>5, <4>1
      <4>2. CASE n \in 1..Len(h)
        BY <3>2, <3>4, <4>2
      <4> QED BY <3>4, <4>1, <4>2
    <3>7. trusted'[d] = g[Len(g)].key
      BY <3>3, <3>4
    <3> QED BY <2>2, <3>4, <3>6, <3>7 DEF g
  <2> QED BY <2>1, <2>2
<1> QED BY <1>6, <1>7, <1>8

LEMMA InitInv == Init => IInv
<1> SUFFICES ASSUME Init PROVE IInv
  OBVIOUS
<1>1. TypeOK
  BY NothingType, TrustAssumption DEF Init, TypeOK
<1>2. HistoryAgrees
  BY DEF Init, HistoryAgrees
<1>3. Probed
  BY DEF Init, Probed
<1> QED BY <1>1, <1>2, <1>3 DEF IInv

LEMMA InvStep == IInv /\ [Next]_vars => IInv'
<1> SUFFICES ASSUME IInv, [Next]_vars PROVE IInv'
  OBVIOUS
<1>1. ASSUME NEW r \in Requests, Request(r) PROVE IInv'
  <2>1. UNCHANGED rowVars
    BY <1>1 DEF Request, Begin, ReadHost, ReadKey, Probe, ProbeChanged, RecheckConnection,
                RecheckHost, Confirm, ConfirmUnchanged, Save, Reject
  <2>2. CASE Save(r)
    BY <1>1, <2>1, <2>2, RequestTypes, ProbedStep, SaveKeepsHistory
       DEF IInv, TypeOK, rowVars
  <2>3. CASE ~ Save(r)
    <3>1. UNCHANGED storeVars
      BY <1>1, <2>3
         DEF Request, Begin, ReadHost, ReadKey, Probe, ProbeChanged, RecheckConnection,
             RecheckHost, Confirm, ConfirmUnchanged, Reject
    <3> QED BY <1>1, <2>1, <3>1, RequestTypes, ProbedStep
            DEF IInv, TypeOK, rowVars, storeVars, HistoryAgrees
  <2> QED BY <2>2, <2>3
<1>2. CASE \/ \E v \in Rows : EditConnection(v)
           \/ \E h \in Hosts, a \in Addresses : EditHost(h, a)
           \/ \E d \in Destinations, k \in Keys : Rekey(d, k)
  <2>1. UNCHANGED <<storeVars, pc, req>>
    BY <1>2 DEF EditConnection, EditHost, Rekey
  <2>2. TypeOK'
    <3>1. CASE \E v \in Rows : EditConnection(v)
      BY <2>1, <3>1, TrustAssumption DEF EditConnection, Edit, IInv, TypeOK, storeVars
    <3>2. CASE \E h \in Hosts, a \in Addresses : EditHost(h, a)
      BY <2>1, <3>2, TrustAssumption DEF EditHost, Edit, IInv, TypeOK, storeVars
    <3>3. CASE \E d \in Destinations, k \in Keys : Rekey(d, k)
      BY <2>1, <3>3, TrustAssumption DEF Rekey, Edit, IInv, TypeOK, storeVars
    <3> QED BY <1>2, <3>1, <3>2, <3>3
  <2> QED BY <2>1, <2>2 DEF IInv, HistoryAgrees, Probed, Approves, storeVars
<1>3. CASE UNCHANGED vars
  BY <1>3 DEF vars, rowVars, storeVars, IInv, TypeOK, HistoryAgrees, Probed, Approves
<1> QED BY <1>1, <1>2, <1>3 DEF Next

LEMMA Invariance == Spec => []IInv
BY InitInv, InvStep, PTL DEF Spec

\* Every variable keeps its type: no body, edit or changed server key makes a request
\* hold or store what is not a destination, a row or a key.
THEOREM SshTrustTypes == Spec => []TypeOK
<1>1. IInv => TypeOK
  BY DEF IInv
<1> QED BY Invariance, <1>1, PTL

\* The recorded events always lead to the keys trusted now.
THEOREM HistoryHolds == Spec => []HistoryAgrees
<1>1. IInv => HistoryAgrees
  BY DEF IInv
<1> QED BY Invariance, <1>1, PTL

\* No trusted key is replaced unless that replacement was approved.
THEOREM NoSilentReplacementHolds == Spec => NoSilentReplacement
<1>1. ASSUME IInv, [Next]_vars PROVE Replacements
  <2>1. ASSUME NEW r \in Requests, Save(r) PROVE Replacements
    <3>1. /\ trusted[Target(r)] = req[r].previous
          /\ trusted' = [trusted EXCEPT ![Target(r)] = req[r].observed]
          /\ pc[r] = "save"
      BY <2>1 DEF Save, Store, Answer, Goto
    <3>2. Approves(r, req[r].previous, req[r].observed)
      BY <1>1, <3>1 DEF IInv, Probed
    <3>3. trusted \in [Destinations -> Keys \cup {NoKey}]
      BY <1>1 DEF IInv, TypeOK
    <3> QED BY <3>1, <3>2, <3>3 DEF Replacements, Approves
  <2>2. ASSUME ~ \E r \in Requests : Save(r) PROVE UNCHANGED trusted
    BY <1>1, <2>2
       DEF Next, Request, Begin, ReadHost, ReadKey, Probe, ProbeChanged, RecheckConnection,
           RecheckHost, Confirm, ConfirmUnchanged, Reject, EditConnection, EditHost, Rekey,
           storeVars, vars
  <2> QED BY <2>1, <2>2 DEF Replacements
<1> QED BY Invariance, <1>1, PTL DEF Spec, NoSilentReplacement
=============================================================================
