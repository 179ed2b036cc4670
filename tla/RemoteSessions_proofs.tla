----------------------- MODULE RemoteSessions_proofs -----------------------
(***************************************************************************)
(* Proofs about RemoteSessions, for every set of sessions, web sessions,   *)
(* connections and requests, and every value of MaxLeases and MaxEdits.    *)
(***************************************************************************)
EXTENDS RemoteSessions, FiniteSetTheorems, TLAPS

-----------------------------------------------------------------------------
(* Types                                                                   *)

\* A launch asks for a trusted key only at an SSH endpoint.
KeyWanted ==
  \A i \in Ids : pc[i] \in {"key", "hostkey"} => fp[i].endpoint \in SshEndpoints

\* A serve request that is not idle asks for some session.
SidKnown == \A t \in Requests : spc[t] # "idle" => sid[t] \in Ids

Typed == TypeOK /\ KeyWanted /\ SidKnown

\* What the reads of launch and serve find.
LEMMA RowTypes ==
  ASSUME TypeOK, NEW c \in Connections
  PROVE  /\ endpoint[c] \in Endpoints \cup {Blocked}
         /\ rotation[c] \in Nat
         /\ \A e \in Endpoints : trusted[c][e] \in Keys \cup {NoKey}
BY DEF TypeOK, ResourceTypeOK

\* A fingerprint stays one when validate fills in what it read.
LEMMA FingerprintUpdate ==
  ASSUME NEW S, NEW f \in [S -> Fingerprints], NEW x \in S
  PROVE  /\ \A e \in Endpoints \cup {Blocked} :
              [f EXCEPT ![x].endpoint = e] \in [S -> Fingerprints]
         /\ \A n \in Nat : [f EXCEPT ![x].rotation = n] \in [S -> Fingerprints]
         /\ \A k \in Keys \cup {NoKey} : [f EXCEPT ![x].key = k] \in [S -> Fingerprints]
BY DEF Fingerprints

\* A launch keeps the types of what it has computed.
LEMMA LaunchTypes ==
  ASSUME Typed, NEW i \in Ids, Launch(i)
  PROVE  /\ pc' \in [Ids -> LaunchReading \cup LaunchHolding \cup LaunchEnded]
         /\ fp' \in [Ids -> Fingerprints]
         /\ sent' \in [Ids -> Fingerprints]
         /\ token' \in [Ids -> {"none", "live", "revoked"}]
         /\ forgotten' \subseteq Ids
<1> DEFINE c == ConnOf[i]
           k == trusted[c][fp[i].endpoint]
<1>1. /\ c \in Connections
      /\ pc \in [Ids -> LaunchReading \cup LaunchHolding \cup LaunchEnded]
      /\ fp \in [Ids -> Fingerprints] /\ sent \in [Ids -> Fingerprints]
      /\ token \in [Ids -> {"none", "live", "revoked"}] /\ forgotten \subseteq Ids
  BY SessionAssumption DEF Typed, TypeOK
<1>2. pc[i] \in {"key", "hostkey"} => k \in Keys \cup {NoKey}
  BY <1>1, RowTypes, ResourceAssumption DEF Typed, KeyWanted
<1>3. CASE \/ LaunchReadEndpoint(i) \/ LaunchReadCredential(i) \/ LaunchReadKey(i)
  <2>1. \E to \in LaunchReading : pc' = [pc EXCEPT ![i] = to]
    BY <1>3 DEF LaunchReadEndpoint, LaunchReadCredential, LaunchReadKey, LaunchGoto,
                LaunchReading
  <2>2. \/ fp' = [fp EXCEPT ![i].endpoint = endpoint[c]]
        \/ fp' = [fp EXCEPT ![i].rotation = rotation[c]]
        \/ pc[i] = "key" /\ fp' = [fp EXCEPT ![i].key = k]
    BY <1>3 DEF LaunchReadEndpoint, LaunchReadCredential, LaunchReadKey, LaunchGoto
  <2>3. UNCHANGED <<sent, token, forgotten>>
    BY <1>3 DEF LaunchReadEndpoint, LaunchReadCredential, LaunchReadKey, outsideVars
  <2>4. fp' \in [Ids -> Fingerprints]
    <3>1. CASE fp' = [fp EXCEPT ![i].endpoint = endpoint[c]]
      BY <1>1, <3>1, RowTypes, FingerprintUpdate DEF Typed
    <3>2. CASE fp' = [fp EXCEPT ![i].rotation = rotation[c]]
      BY <1>1, <3>2, RowTypes, FingerprintUpdate DEF Typed
    <3>3. CASE pc[i] = "key" /\ fp' = [fp EXCEPT ![i].key = k]
      <4> HIDE DEF k
      <4> QED BY <1>1, <1>2, <3>3, FingerprintUpdate
    <3> QED BY <2>2, <3>1, <3>2, <3>3
  <2> QED BY <1>1, <2>1, <2>3, <2>4
<1>4. CASE LaunchRetrieve(i)
  <2>1. \E to \in LaunchReading \cup LaunchHolding : pc' = [pc EXCEPT ![i] = to]
    BY <1>4 DEF LaunchRetrieve, LaunchGoto, LaunchReading, LaunchHolding
  <2>2. \E f \in Fingerprints : sent' = [sent EXCEPT ![i] = f]
    BY <1>1, <1>4, RowTypes DEF LaunchRetrieve, Fingerprints, Typed
  <2>3. UNCHANGED <<fp, token, forgotten>>
    BY <1>4 DEF LaunchRetrieve, outsideVars
  <2> QED BY <1>1, <2>1, <2>2, <2>3
<1>5. CASE LaunchHostKey(i)
  <2>1. pc[i] = "hostkey" /\ pc' = [pc EXCEPT ![i] = "post"]
    BY <1>5 DEF LaunchHostKey, LaunchGoto
  <2>2. sent' = [sent EXCEPT ![i].key = k]
    BY <1>5 DEF LaunchHostKey
  <2>3. UNCHANGED <<fp, token, forgotten>>
    BY <1>5 DEF LaunchHostKey, outsideVars
  <2>4. sent' \in [Ids -> Fingerprints]
    <3> HIDE DEF k
    <3> QED BY <1>1, <1>2, <2>1, <2>2, FingerprintUpdate
  <2> QED BY <1>1, <2>1, <2>3, <2>4 DEF LaunchHolding
<1>6. CASE \/ LaunchRefuse(i) \/ LaunchCreateFiles(i) \/ LaunchPost(i) \/ LaunchList(i)
           \/ LaunchSweep(i) \/ LaunchCommit(i) \/ LaunchLimit(i) \/ LaunchDrop(i)
           \/ LaunchUndo(i)
  <2> USE DEF LaunchRefuse, LaunchCreateFiles, LaunchPost, LaunchList, LaunchSweep,
              LaunchCommit, LaunchLimit, LaunchDrop, LaunchUndo
  <2>1. \E to \in LaunchHolding \cup LaunchEnded : pc' = [pc EXCEPT ![i] = to]
    BY <1>6 DEF LaunchGoto, LaunchHolding, LaunchEnded
  <2>2. UNCHANGED <<fp, sent>>
    BY <1>6
  <2>3. /\ \/ token' = token
           \/ \E s \in {"none", "live", "revoked"} : token' = [token EXCEPT ![i] = s]
        /\ forgotten' \in {forgotten, forgotten \cup {i}}
    BY <1>6 DEF Revoke, outsideVars
  <2> QED BY <1>1, <2>1, <2>2, <2>3
<1> QED BY <1>3, <1>4, <1>5, <1>6 DEF Launch

\* A serve request keeps the types of what it has computed.
LEMMA ServeTypes ==
  ASSUME Typed, NEW t \in Requests, Serve(t)
  PROVE  /\ spc' \in [Requests -> {"idle"} \cup ServeReading \cup Tunnelling]
         /\ sid' \in [Requests -> Ids \cup {None}]
         /\ sfp' \in [Requests -> Fingerprints]
<1> DEFINE c == ConnOf[sid[t]]
           k == IF sfp[t].endpoint \in SshEndpoints
                THEN trusted[c][sfp[t].endpoint] ELSE NoKey
<1>1. /\ spc \in [Requests -> {"idle"} \cup ServeReading \cup Tunnelling]
      /\ sid \in [Requests -> Ids \cup {None}]
      /\ sfp \in [Requests -> Fingerprints]
      /\ NoFingerprint \in Fingerprints
  BY DEF Typed, TypeOK, NoFingerprint, Fingerprints
<1>2. spc[t] # "idle" => /\ endpoint[c] \in Endpoints \cup {Blocked}
                         /\ rotation[c] \in Nat
                         /\ k \in Keys \cup {NoKey}
  BY RowTypes, SessionAssumption, ResourceAssumption DEF Typed, SidKnown
<1>3. CASE (\E i \in Ids : ServeBegin(t, i)) \/ ServeLookup(t) \/ ServeClaim(t) \/ Watch(t)
  <2>1. /\ \E to \in ServeReading \cup Tunnelling : spc' = [spc EXCEPT ![t] = to]
        /\ sid' = sid \/ \E i \in Ids : sid' = [sid EXCEPT ![t] = i]
        /\ sfp' = sfp
    BY <1>3 DEF ServeBegin, ServeLookup, ServeClaim, ClaimUnder, Watch, ServeGoto, ServeReading, Tunnelling
  <2> QED BY <1>1, <2>1
<1>4. CASE ServeReject(t) \/ ServeDone(t) \/ ServeHangUp(t)
  <2>1. /\ spc' = [spc EXCEPT ![t] = "idle"]
        /\ sid' = [sid EXCEPT ![t] = None]
        /\ sfp' = [sfp EXCEPT ![t] = NoFingerprint]
    BY <1>4 DEF ServeReject, ServeDone, ServeHangUp, EndTunnel
  <2> QED BY <1>1, <2>1
<1>5. CASE ServeReadEndpoint(t) \/ ServeReadCredential(t) \/ ServeReadKey(t)
  <2>1. /\ spc[t] # "idle"
        /\ \E to \in ServeReading : spc' = [spc EXCEPT ![t] = to]
        /\ sid' = sid
    BY <1>5 DEF ServeReadEndpoint, ServeReadCredential, ServeReadKey, ServeGoto, ServeReading
  <2>2. \/ sfp' = [sfp EXCEPT ![t].endpoint = endpoint[c]]
        \/ sfp' = [sfp EXCEPT ![t].rotation = rotation[c]]
        \/ sfp' = [sfp EXCEPT ![t].key = k]
    BY <1>5 DEF ServeReadEndpoint, ServeReadCredential, ServeReadKey
  <2>3. sfp' \in [Requests -> Fingerprints]
    <3> HIDE DEF k, c
    <3>1. CASE sfp' = [sfp EXCEPT ![t].endpoint = endpoint[c]]
      BY <1>1, <1>2, <2>1, <3>1, FingerprintUpdate
    <3>2. CASE sfp' = [sfp EXCEPT ![t].rotation = rotation[c]]
      BY <1>1, <1>2, <2>1, <3>2, FingerprintUpdate
    <3>3. CASE sfp' = [sfp EXCEPT ![t].key = k]
      BY <1>1, <1>2, <2>1, <3>3, FingerprintUpdate
    <3> QED BY <2>2, <3>1, <3>2, <3>3
  <2> QED BY <1>1, <2>1, <2>3
<1> QED BY <1>3, <1>4, <1>5 DEF Serve

\* Deleted or left over, a directory that is closed is no new one.
LEMMA CloseTypes ==
  ASSUME dirs \subseteq Ids, leftover \subseteq dirs, NEW i \in Ids, CloseFiles(i)
  PROVE  dirs' \subseteq Ids /\ leftover' \subseteq dirs'
BY DEF CloseFiles

\* Every step keeps the types.
LEMMA TypeStep ==
  ASSUME Typed, [Next]_vars
  PROVE  TypeOK'
<1> USE ResourceAssumption, SessionAssumption
      DEF TypeOK, ResourceTypeOK, Sweepers, resourceVars, launchVars,
          leaseVars, serveVars, outsideVars
<1>1. CASE Administer
  <2>1. ResourceTypeOK'
    <3>1. CASE \E c \in Connections, e \in Endpoints \cup {Blocked} : EditEndpoint(c, e)
      BY <3>1 DEF EditEndpoint, Edit, Typed
    <3>2. CASE \E c \in Connections, on \in BOOLEAN : RotateSecret(c, on)
      BY <3>2 DEF RotateSecret, Edit, Typed
    <3>3. CASE \E c \in Connections, on \in BOOLEAN : EnableCredential(c, on)
      BY <3>3 DEF EnableCredential, Edit, Typed
    <3>4. CASE \E c \in Connections, e \in SshEndpoints, k \in Keys : SaveSSHKey(c, e, k)
      BY <3>4 DEF SaveSSHKey, Edit, Typed
    <3>5. CASE \E o \in Owners : RevokeOwner(o)
      BY <3>5 DEF RevokeOwner, Edit, Typed
    <3> QED BY <1>1, <3>1, <3>2, <3>3, <3>4, <3>5 DEF Administer, ResourceNext
  <2> QED BY <1>1, <2>1 DEF Administer, Typed
<1>2. ASSUME NEW i \in Ids, Launch(i) PROVE TypeOK'
  <2>0. dirs' \subseteq Ids /\ leftover' \subseteq dirs'
    <3>1. CASE UNCHANGED <<dirs, leftover>>
      BY <3>1 DEF Typed
    <3>2. CASE LaunchCreateFiles(i)
      BY <3>2 DEF LaunchCreateFiles, Typed
    <3>3. CASE LaunchUndo(i)
      BY <3>3, CloseTypes DEF LaunchUndo, Typed
    <3> QED BY <1>2, <3>1, <3>2, <3>3 DEF Launch, LaunchReadEndpoint, LaunchReadCredential,
         LaunchReadKey, LaunchRefuse, LaunchRetrieve, LaunchHostKey, LaunchPost, LaunchList,
         LaunchSweep, LaunchCommit, LaunchLimit, LaunchDrop
  <2>1. UNCHANGED <<resourceVars, mode, serveVars>>
    BY <1>2 DEF Launch, LaunchReadEndpoint, LaunchReadCredential, LaunchReadKey,
         LaunchRefuse, LaunchRetrieve, LaunchHostKey, LaunchCreateFiles, LaunchPost,
         LaunchList, LaunchSweep, LaunchCommit, LaunchLimit, LaunchDrop, LaunchUndo
  <2>2. /\ leases' \subseteq Ids /\ active' \subseteq leases' /\ elapsed' \subseteq Ids
        /\ disposal' \in [Ids -> {"none", "revoke", "close"}]
        /\ batch' \in [Sweepers -> SUBSET Ids]
    <3>1. CASE LaunchSweep(i)
      BY <3>1 DEF LaunchSweep, Remove, Typed
    <3>2. CASE LaunchCommit(i)
      BY <3>2 DEF LaunchCommit, Typed
    <3>3. CASE UNCHANGED leaseVars
      BY <3>3 DEF Typed
    <3> QED BY <1>2, <3>1, <3>2, <3>3 DEF Launch, LaunchReadEndpoint, LaunchReadCredential,
         LaunchReadKey, LaunchRefuse, LaunchRetrieve, LaunchHostKey, LaunchCreateFiles,
         LaunchPost, LaunchList, LaunchLimit, LaunchDrop, LaunchUndo
  <2> QED BY <1>2, <2>0, <2>1, <2>2, LaunchTypes DEF Typed
<1>3. ASSUME NEW i \in Ids, Elapse(i) \/ CloseSession(i) PROVE TypeOK'
  BY <1>3 DEF Elapse, CloseSession, Typed
<1>4. ASSUME NEW i \in Ids, DisposeToken(i) \/ DisposeFiles(i) PROVE TypeOK'
  <2>1. CASE DisposeToken(i)
    BY <2>1 DEF DisposeToken, Revoke, Typed
  <2>2. CASE DisposeFiles(i)
    <3>1. dirs' \subseteq Ids /\ leftover' \subseteq dirs'
      BY <2>2, CloseTypes DEF DisposeFiles, Typed
    <3> QED BY <2>2, <3>1 DEF DisposeFiles, Typed
  <2> QED BY <1>4, <2>1, <2>2
<1>5. CASE Tick
  BY <1>5 DEF Tick, Remove, Typed
<1>6. ASSUME NEW t \in Requests, Serve(t) PROVE TypeOK'
  <2>1. /\ UNCHANGED <<resourceVars, mode, launchVars, leases, elapsed, disposal, batch,
                       outsideVars>>
        /\ active' \subseteq leases'
    BY <1>6 DEF Serve, ServeBegin, ServeReject, ServeLookup, ServeReadEndpoint,
         ServeReadCredential, ServeReadKey, ServeClaim, ClaimUnder, Watch, ServeDone, ServeHangUp,
         EndTunnel, Typed
  <2> QED BY <1>6, <2>1, ServeTypes DEF Typed
<1>7. CASE Shutdown \/ Stop
  BY <1>7 DEF Shutdown, Stop, Remove, Typed
<1>8. CASE Exit \/ Crash
  BY <1>8 DEF Exit, Crash, Vanish, NoFingerprint, Fingerprints, LaunchEnded, Typed
<1>9. CASE Boot
  BY <1>9 DEF Boot, Typed
<1>10. CASE UNCHANGED vars
  BY <1>10 DEF vars, Typed
<1> QED BY <1>1, <1>2, <1>3, <1>4, <1>5, <1>6, <1>7, <1>8, <1>9, <1>10 DEF Next

\* The two facts the types rest on are kept as well.
LEMMA KnownStep ==
  ASSUME Typed, [Next]_vars
  PROVE  KeyWanted' /\ SidKnown'
<1> USE DEF Typed, KeyWanted, SidKnown
<1>1. ASSUME NEW i \in Ids, Launch(i) PROVE KeyWanted' /\ SidKnown'
  <2>1. SidKnown'
    BY <1>1 DEF Launch, LaunchReadEndpoint, LaunchReadCredential, LaunchReadKey,
         LaunchRefuse, LaunchRetrieve, LaunchHostKey, LaunchCreateFiles, LaunchPost,
         LaunchList, LaunchSweep, LaunchCommit, LaunchLimit, LaunchDrop, LaunchUndo,
         serveVars
  <2>2. ASSUME NEW j \in Ids \ {i} PROVE pc'[j] = pc[j] /\ fp'[j] = fp[j]
    BY <1>1, <2>2 DEF Launch, LaunchReadEndpoint, LaunchReadCredential, LaunchReadKey,
         LaunchRefuse, LaunchRetrieve, LaunchHostKey, LaunchCreateFiles, LaunchPost,
         LaunchList, LaunchSweep, LaunchCommit, LaunchLimit, LaunchDrop, LaunchUndo,
         LaunchGoto, TypeOK
  <2>3. pc'[i] \in {"key", "hostkey"} => fp'[i].endpoint \in SshEndpoints
    <3>1. CASE LaunchReadCredential(i)
      BY <3>1 DEF LaunchReadCredential, LaunchGoto, TypeOK, Fingerprints
    <3>2. CASE LaunchRetrieve(i)
      BY <3>2 DEF LaunchRetrieve, LaunchGoto, TypeOK
    <3>3. ASSUME ~ LaunchReadCredential(i), ~ LaunchRetrieve(i)
          PROVE  pc'[i] \notin {"key", "hostkey"}
      BY <1>1, <3>3 DEF Launch, LaunchReadEndpoint, LaunchReadKey,
         LaunchRefuse, LaunchHostKey, LaunchCreateFiles, LaunchPost,
         LaunchList, LaunchSweep, LaunchCommit, LaunchLimit, LaunchDrop, LaunchUndo,
         LaunchGoto, TypeOK
    <3> QED BY <3>1, <3>2, <3>3
  <2> QED BY <2>1, <2>2, <2>3
<1>2. ASSUME NEW t \in Requests, Serve(t) PROVE KeyWanted' /\ SidKnown'
  <2>1. UNCHANGED <<pc, fp>>
    BY <1>2 DEF Serve, ServeBegin, ServeReject, ServeLookup, ServeReadEndpoint,
         ServeReadCredential, ServeReadKey, ServeClaim, ClaimUnder, Watch, ServeDone, ServeHangUp,
         EndTunnel, launchVars
  <2>2. SidKnown'
    BY <1>2 DEF Serve, ServeBegin, ServeReject, ServeLookup, ServeReadEndpoint,
         ServeReadCredential, ServeReadKey, ServeClaim, ClaimUnder, Watch, ServeDone, ServeHangUp,
         EndTunnel, ServeGoto, TypeOK
  <2> QED BY <2>1, <2>2
<1>3. CASE Exit \/ Crash
  BY <1>3 DEF Exit, Crash, Vanish, LaunchEnded
<1>4. CASE UNCHANGED <<launchVars, serveVars>>
  BY <1>4 DEF launchVars, serveVars
<1>5. ASSUME \/ Administer \/ Tick \/ Shutdown \/ Stop \/ Boot \/ UNCHANGED vars
             \/ \E i \in Ids : Elapse(i) \/ CloseSession(i) \/ DisposeToken(i) \/ DisposeFiles(i)
      PROVE  UNCHANGED <<launchVars, serveVars>>
  BY <1>5 DEF Administer, Tick, Shutdown, Stop, Boot, Elapse, CloseSession, DisposeToken,
              DisposeFiles, vars
<1> QED BY <1>1, <1>2, <1>3, <1>4, <1>5 DEF Next

-----------------------------------------------------------------------------
(* Who owns the directory and the token of a session                       *)

\* A session is in one place: being launched, leased, or being disposed of.
LeasePhase ==
  \A i \in Ids :
    /\ i \in leases => pc[i] = "done" /\ disposal[i] = "none"
    /\ disposal[i] # "none" => pc[i] = "done"

\* Nothing runs while the process is down.
DownQuiet ==
  mode = "down" =>
    leases = {} /\ \A i \in Ids : pc[i] \in LaunchEnded /\ disposal[i] = "none"

\* A launch past its gateway calls has a token, one of a drive its directory.
LaunchBacked ==
  \A i \in Ids :
    /\ pc[i] \in {"list", "sweep", "commit"} => token[i] = "live"
    /\ pc[i] \in LaunchHolding /\ fp[i].endpoint \in DriveEndpoints => i \in dirs \ leftover

Ownership ==
  /\ LeasePhase /\ DownQuiet /\ LaunchBacked
  /\ LeaseBacked /\ FilesAccounted /\ TokensAccounted

\* Only these steps touch anything that Ownership speaks of.
LEMMA OwnershipFrame ==
  ASSUME Ownership, UNCHANGED <<launchVars, leases, disposal, outsideVars>>,
         mode' = "down" => mode = "down", mode = "down" => mode' = "down"
  PROVE  Ownership'
BY DEF Ownership, LeasePhase, DownQuiet, LaunchBacked, LeaseBacked, FilesAccounted,
       TokensAccounted, launchVars, outsideVars

\* A launch hands its directory and its token on, or gives them back.
LEMMA OwnershipLaunch ==
  ASSUME Typed, TypeOK', Ownership, NEW i \in Ids, Launch(i)
  PROVE  Ownership'
<1> USE ResourceAssumption
      DEF Typed, TypeOK, Ownership, LeasePhase, DownQuiet, LaunchBacked, LeaseBacked,
          FilesAccounted, TokensAccounted, LaunchGoto, LaunchReading, LaunchHolding,
          LaunchEnded, leaseVars, outsideVars
<1>1. CASE LaunchReadEndpoint(i)
  BY <1>1 DEF LaunchReadEndpoint
<1>2. CASE LaunchReadCredential(i)
  BY <1>2 DEF LaunchReadCredential
<1>3. CASE LaunchReadKey(i)
  BY <1>3 DEF LaunchReadKey
<1>4. CASE LaunchRefuse(i)
  BY <1>4 DEF LaunchRefuse
<1>5. CASE LaunchRetrieve(i)
  BY <1>5 DEF LaunchRetrieve
<1>6. CASE LaunchHostKey(i)
  BY <1>6 DEF LaunchHostKey, KeyWanted
<1>7. CASE LaunchCreateFiles(i)
  BY <1>7 DEF LaunchCreateFiles
<1>8. CASE LaunchPost(i)
  BY <1>8 DEF LaunchPost
<1>9. CASE LaunchList(i)
  BY <1>9 DEF LaunchList
<1>10. CASE LaunchSweep(i)
  BY <1>10 DEF LaunchSweep, Remove
<1>11. CASE LaunchCommit(i)
  BY <1>11 DEF LaunchCommit
<1>12. CASE LaunchLimit(i)
  BY <1>12 DEF LaunchLimit
<1>13. CASE LaunchDrop(i)
  BY <1>13 DEF LaunchDrop, Revoke
<1>14. CASE LaunchUndo(i)
  BY <1>14 DEF LaunchUndo, CloseFiles
<1> QED BY <1>1, <1>2, <1>3, <1>4, <1>5, <1>6, <1>7, <1>8, <1>9, <1>10, <1>11, <1>12,
           <1>13, <1>14 DEF Launch

\* Removing leases and disposing of them leaves nothing without an owner.
LEMMA OwnershipStep ==
  ASSUME Typed, TypeOK', Ownership, [Next]_vars
  PROVE  Ownership'
<1>1. CASE Administer
  BY <1>1, OwnershipFrame DEF Administer, leaseVars
<1>2. ASSUME NEW i \in Ids, Launch(i) PROVE Ownership'
  BY <1>2, OwnershipLaunch
<1>3. ASSUME NEW i \in Ids, Elapse(i) PROVE Ownership'
  BY <1>3, OwnershipFrame DEF Elapse
<1>4. ASSUME NEW t \in Requests, Serve(t) PROVE Ownership'
  BY <1>4, OwnershipFrame
     DEF Serve, ServeBegin, ServeReject, ServeLookup, ServeReadEndpoint,
         ServeReadCredential, ServeReadKey, ServeClaim, ClaimUnder, Watch, ServeDone, ServeHangUp,
         EndTunnel, leaseVars
<1>5. CASE Shutdown
  BY <1>5, OwnershipFrame DEF Shutdown, leaseVars
<1>6. CASE UNCHANGED vars
  BY <1>6, OwnershipFrame DEF vars, leaseVars
<1> USE DEF Typed, TypeOK, Ownership, LeasePhase, DownQuiet, LaunchBacked, LeaseBacked,
            FilesAccounted, TokensAccounted, LaunchHolding, LaunchEnded, launchVars,
            leaseVars, outsideVars
<1>7. ASSUME NEW i \in Ids, CloseSession(i) PROVE Ownership'
  BY <1>7 DEF CloseSession
<1>8. CASE Tick
  BY <1>8 DEF Tick, Remove
<1>9. ASSUME NEW i \in Ids, DisposeToken(i) PROVE Ownership'
  BY <1>9 DEF DisposeToken, Revoke
<1>10. ASSUME NEW i \in Ids, DisposeFiles(i) PROVE Ownership'
  BY <1>10 DEF DisposeFiles, CloseFiles
<1>11. CASE Stop
  BY <1>11 DEF Stop, Remove
<1>12. CASE Exit \/ Crash
  BY <1>12 DEF Exit, Crash, Vanish
<1>13. CASE Boot
  BY <1>13 DEF Boot
<1> QED BY <1>1, <1>2, <1>3, <1>4, <1>5, <1>6, <1>7, <1>8, <1>9, <1>10, <1>11, <1>12,
           <1>13 DEF Next

-----------------------------------------------------------------------------
(* The tunnels of a session                                                *)

\* A request past the lookup asks for a session that was launched.
SidLaunched ==
  \A t \in Requests :
    spc[t] \notin {"idle", "lookup"} => pc[sid[t]] = "done"

\* A second tunnel cannot start, and Active follows the tunnel.
LEMMA TunnelStep ==
  ASSUME Typed, TypeOK', LeasePhase, OneTunnel, SidLaunched, [Next]_vars
  PROVE  OneTunnel' /\ SidLaunched'
<1> USE DEF Typed, TypeOK, SidKnown, OneTunnel, SidLaunched, Tunnels, Tunnelling
<1>1. CASE UNCHANGED <<pc, leases, active, serveVars>>
  BY <1>1 DEF serveVars
<1>2. ASSUME NEW i \in Ids, Launch(i) PROVE OneTunnel' /\ SidLaunched'
  <2>1. /\ pc[i] # "done"
        /\ \A j \in Ids \ {i} : pc'[j] = pc[j]
        /\ UNCHANGED serveVars
    BY <1>2 DEF Launch, LaunchReadEndpoint, LaunchReadCredential, LaunchReadKey,
         LaunchRefuse, LaunchRetrieve, LaunchHostKey, LaunchCreateFiles, LaunchPost,
         LaunchList, LaunchSweep, LaunchCommit, LaunchLimit, LaunchDrop, LaunchUndo,
         LaunchGoto, LaunchReading
  <2>2. \A j \in leases' \ {i} : j \in leases /\ (j \in active' <=> j \in active)
    BY <1>2 DEF Launch, LaunchReadEndpoint, LaunchReadCredential, LaunchReadKey,
         LaunchRefuse, LaunchRetrieve, LaunchHostKey, LaunchCreateFiles, LaunchPost,
         LaunchList, LaunchSweep, LaunchCommit, LaunchLimit, LaunchDrop, LaunchUndo,
         Remove, leaseVars
  <2>3. i \in leases' => i \notin active'
    BY <1>2, <2>1 DEF Launch, LaunchReadEndpoint, LaunchReadCredential, LaunchReadKey,
         LaunchRefuse, LaunchRetrieve, LaunchHostKey, LaunchCreateFiles, LaunchPost,
         LaunchList, LaunchSweep, LaunchCommit, LaunchLimit, LaunchDrop, LaunchUndo,
         Remove, leaseVars, LeasePhase
  <2>4. Tunnels(i) = {}
    BY <2>1
  <2> QED BY <2>1, <2>2, <2>3, <2>4 DEF serveVars
<1>3. ASSUME NEW i \in Ids, CloseSession(i) PROVE OneTunnel' /\ SidLaunched'
  BY <1>3 DEF CloseSession, launchVars, serveVars
<1>4. CASE Tick \/ Stop
  BY <1>4 DEF Tick, Stop, Remove, launchVars, serveVars
<1>5. ASSUME NEW t \in Requests, Serve(t) PROVE OneTunnel' /\ SidLaunched'
  <2>1. CASE \E i \in Ids : ServeBegin(t, i)
    BY <2>1 DEF ServeBegin, ServeGoto, launchVars, leaseVars
  <2>2. CASE ServeReject(t)
    BY <2>2 DEF ServeReject, ServeReading, launchVars, leaseVars
  <2>3. CASE ServeLookup(t)
    BY <2>3 DEF ServeLookup, ServeGoto, LeasePhase, launchVars, leaseVars
  <2>4. CASE ServeReadEndpoint(t)
    BY <2>4 DEF ServeReadEndpoint, ServeGoto, launchVars, leaseVars
  <2>5. CASE ServeReadCredential(t)
    BY <2>5 DEF ServeReadCredential, ServeGoto, launchVars, leaseVars
  <2>6. CASE ServeReadKey(t)
    BY <2>6 DEF ServeReadKey, ServeGoto, launchVars, leaseVars
  <2>7. CASE ServeClaim(t)
    BY <2>7 DEF ServeClaim, ClaimUnder, ServeGoto, launchVars
  <2>8. CASE Watch(t)
    BY <2>8 DEF Watch, ServeGoto, launchVars, leaseVars
  <2>9. CASE ServeDone(t) \/ ServeHangUp(t)
    BY <2>9 DEF ServeDone, ServeHangUp, EndTunnel, launchVars
  <2> QED BY <1>5, <2>1, <2>2, <2>3, <2>4, <2>5, <2>6, <2>7, <2>8, <2>9 DEF Serve
<1>6. CASE Exit \/ Crash
  BY <1>6 DEF Exit, Crash, Vanish
<1>7. ASSUME \/ Administer \/ Shutdown \/ Boot \/ UNCHANGED vars
             \/ \E i \in Ids : Elapse(i) \/ DisposeToken(i) \/ DisposeFiles(i)
      PROVE  UNCHANGED <<pc, leases, active, serveVars>>
  BY <1>7 DEF Administer, Shutdown, Boot, Elapse, DisposeToken, DisposeFiles, launchVars,
              leaseVars, vars
<1> QED BY <1>1, <1>2, <1>3, <1>4, <1>5, <1>6, <1>7 DEF Next

-----------------------------------------------------------------------------
(* What a tunnel's token was made for                                      *)

\* The secret is read after its metadata, and rotations only go up.
SentAfterFingerprint ==
  \A i \in Ids :
    /\ pc[i] \in {"key", "secret"} => fp[i].rotation <= rotation[ConnOf[i]]
    /\ pc[i] \in {"hostkey", "create", "done"} \cup LaunchHolding =>
         /\ sent[i].endpoint = fp[i].endpoint
         /\ fp[i].rotation <= sent[i].rotation
         /\ sent[i].rotation <= rotation[ConnOf[i]]

\* serve validates after launch has read the secret.
ServeAfterSent ==
  \A t \in Requests :
    /\ spc[t] \in {"key", "claim"} \cup Tunnelling => sent[sid[t]].rotation <= sfp[t].rotation
    /\ spc[t] \in {"claim"} \cup Tunnelling => sfp[t] = fp[sid[t]]

TokenContents == SentAfterFingerprint /\ ServeAfterSent

\* Rotations are numbers wherever they were copied to.
LEMMA RotationTypes ==
  ASSUME TypeOK
  PROVE  /\ \A i \in Ids : /\ rotation[ConnOf[i]] \in Nat
                          /\ fp[i].rotation \in Nat /\ sent[i].rotation \in Nat
         /\ \A t \in Requests : sfp[t].rotation \in Nat
<1>1. \A i \in Ids : ConnOf[i] \in Connections
  BY SessionAssumption
<1>2. \A f \in Fingerprints : f.rotation \in Nat
  BY DEF Fingerprints
<1> QED BY <1>1, <1>2 DEF TypeOK, ResourceTypeOK

\* Equal fingerprints leave the secret no rotation of its own.
LEMMA ContentsMatch ==
  ASSUME Typed, SidLaunched, TokenContents
  PROVE  TunnelMatchesToken
<1> SUFFICES ASSUME NEW t \in Requests, spc[t] \in Tunnelling
             PROVE  /\ sfp[t] = fp[sid[t]]
                    /\ sent[sid[t]].endpoint = sfp[t].endpoint
                    /\ sent[sid[t]].rotation = sfp[t].rotation
  BY DEF TunnelMatchesToken
<1> DEFINE i == sid[t]
<1>1. i \in Ids /\ pc[i] = "done"
  BY DEF Typed, SidKnown, SidLaunched, Tunnelling
<1>2. sfp[t] = fp[i] /\ sent[i].rotation <= sfp[t].rotation
  BY DEF TokenContents, ServeAfterSent, Tunnelling
<1>3. sent[i].endpoint = fp[i].endpoint /\ fp[i].rotation <= sent[i].rotation
  BY <1>1 DEF TokenContents, SentAfterFingerprint
<1>4. fp[i].rotation \in Nat /\ sent[i].rotation \in Nat
  BY <1>1, RotationTypes DEF Typed
<1> HIDE DEF i
<1> QED BY <1>2, <1>3, <1>4 DEF i

\* The launch reads in this order.
LEMMA ContentsLaunch ==
  ASSUME Typed, TypeOK', SidLaunched, TokenContents, NEW i \in Ids, Launch(i)
  PROVE  TokenContents'
<1> USE DEF Typed, TypeOK, SidKnown
<1>1. /\ pc[i] # "done"
      /\ \A j \in Ids \ {i} : pc'[j] = pc[j] /\ fp'[j] = fp[j] /\ sent'[j] = sent[j]
      /\ UNCHANGED <<serveVars, rotation>>
  BY DEF Launch, LaunchReadEndpoint, LaunchReadCredential, LaunchReadKey,
       LaunchRefuse, LaunchRetrieve, LaunchHostKey, LaunchCreateFiles, LaunchPost,
       LaunchList, LaunchSweep, LaunchCommit, LaunchLimit, LaunchDrop, LaunchUndo,
       LaunchGoto, LaunchReading, resourceVars
<1>2. ServeAfterSent'
  BY <1>1 DEF TokenContents, ServeAfterSent, SidLaunched, serveVars, Tunnelling
<1>3. SentAfterFingerprint'
  <2> USE DEF TokenContents, SentAfterFingerprint, LaunchGoto, Fingerprints
  <2>1. CASE LaunchReadEndpoint(i)
    BY <1>1, <2>1 DEF LaunchReadEndpoint, LaunchHolding
  <2>2. CASE LaunchReadCredential(i)
    <3>1. fp'[i].rotation = rotation[ConnOf[i]] /\ pc'[i] \in {"key", "secret"}
      BY <2>2 DEF LaunchReadCredential
    <3>2. rotation[ConnOf[i]] \in Nat
      BY RotationTypes
    <3>3. UNCHANGED rotation
      BY <1>1
    <3>4. /\ pc'[i] \in {"key", "secret"} => fp'[i].rotation <= rotation'[ConnOf[i]]
          /\ pc'[i] \notin {"hostkey", "create", "done"} \cup LaunchHolding
      BY <3>1, <3>2, <3>3 DEF LaunchHolding
    <3> QED BY <1>1, <3>3, <3>4
  <2>3. CASE LaunchReadKey(i)
    BY <1>1, <2>3 DEF LaunchReadKey, LaunchHolding
  <2>4. CASE LaunchRefuse(i)
    BY <1>1, <2>4 DEF LaunchRefuse, LaunchHolding
  <2>5. CASE LaunchRetrieve(i)
    <3>1. /\ fp' = fp /\ pc[i] = "secret" /\ pc'[i] \notin {"key", "secret"}
          /\ sent'[i].endpoint = fp[i].endpoint
          /\ sent'[i].rotation = rotation[ConnOf[i]]
      BY <2>5 DEF LaunchRetrieve
    <3>2. rotation[ConnOf[i]] \in Nat
      BY RotationTypes
    <3>3. UNCHANGED rotation /\ fp[i].rotation <= rotation[ConnOf[i]]
      BY <1>1, <3>1
    <3>4. /\ sent'[i].endpoint = fp'[i].endpoint
          /\ fp'[i].rotation <= sent'[i].rotation
          /\ sent'[i].rotation <= rotation'[ConnOf[i]]
      BY <3>1, <3>2, <3>3
    <3> QED BY <1>1, <3>1, <3>3, <3>4
  <2>6. CASE LaunchHostKey(i)
    BY <1>1, <2>6 DEF LaunchHostKey
  <2>7. CASE /\ UNCHANGED <<fp, sent>>
             /\ pc[i] \in {"create"} \cup LaunchHolding
             /\ pc'[i] \notin {"key", "secret"}
    BY <1>1, <2>7
  <2> QED BY <2>1, <2>2, <2>3, <2>4, <2>5, <2>6, <2>7
          DEF Launch, LaunchCreateFiles, LaunchPost, LaunchList, LaunchSweep, LaunchCommit,
              LaunchLimit, LaunchDrop, LaunchUndo, LaunchHolding
<1> QED BY <1>2, <1>3 DEF TokenContents

\* serve reads the rotation in its second query.
LEMMA ContentsServe ==
  ASSUME Typed, TypeOK', SidLaunched, TokenContents, NEW t \in Requests, Serve(t)
  PROVE  TokenContents'
<1> USE DEF Typed, TypeOK, SidKnown, TokenContents
<1>1. /\ UNCHANGED <<launchVars, rotation>>
      /\ \A u \in Requests \ {t} : spc'[u] = spc[u] /\ sid'[u] = sid[u] /\ sfp'[u] = sfp[u]
  BY DEF Serve, ServeBegin, ServeReject, ServeLookup, ServeReadEndpoint,
       ServeReadCredential, ServeReadKey, ServeClaim, ClaimUnder, Watch, ServeDone, ServeHangUp,
       EndTunnel, ServeGoto, resourceVars
<1>2. SentAfterFingerprint'
  BY <1>1 DEF SentAfterFingerprint, launchVars
<1>3. ServeAfterSent'
  <2> USE DEF ServeAfterSent, ServeGoto, Tunnelling, Fingerprints, launchVars
  <2> DEFINE After == /\ spc'[t] \in {"key", "claim"} \cup Tunnelling
                           => sent'[sid'[t]].rotation <= sfp'[t].rotation
                      /\ spc'[t] \in {"claim"} \cup Tunnelling
                           => sfp'[t] = fp'[sid'[t]]
  <2>0. After => ServeAfterSent'
    BY <1>1
  <2>1. CASE ServeReadCredential(t)
    <3>1. /\ spc'[t] = "key" /\ sid'[t] = sid[t] /\ sid[t] \in Ids
          /\ pc[sid[t]] = "done"
          /\ sfp'[t].rotation = rotation[ConnOf[sid[t]]]
      BY <2>1 DEF ServeReadCredential, SidLaunched
    <3>2. sent[sid[t]].rotation <= sfp'[t].rotation
      BY <3>1 DEF SentAfterFingerprint
    <3>3. sent' = sent
      BY <1>1
    <3> HIDE DEF ServeAfterSent, Typed, TypeOK, SidKnown, TokenContents
    <3> QED BY <2>0, <3>1, <3>2, <3>3
  <2>2. CASE ServeReadKey(t)
    <3>1. /\ spc[t] = "key" /\ sid'[t] = sid[t]
          /\ sfp'[t] = fp[sid[t]]
      BY <2>2 DEF ServeReadKey
    <3>2. sfp'[t].rotation = sfp[t].rotation
      BY <2>2 DEF ServeReadKey
    <3>3. sent[sid[t]].rotation <= sfp[t].rotation
      BY <3>1
    <3>4. UNCHANGED <<sent, fp>>
      BY <1>1
    <3>5. sent'[sid'[t]].rotation <= sfp'[t].rotation /\ sfp'[t] = fp'[sid'[t]]
      BY <3>1, <3>2, <3>3, <3>4
    <3> HIDE DEF ServeAfterSent, Typed, TypeOK, SidKnown, TokenContents
    <3> QED BY <2>0, <3>5
  <2>3. CASE ServeClaim(t) \/ Watch(t)
    BY <1>1, <2>3 DEF ServeClaim, ClaimUnder, Watch
  <2>4. CASE ServeLookup(t) \/ ServeReadEndpoint(t) \/ \E i \in Ids : ServeBegin(t, i)
    <3>1. spc'[t] \in {"lookup", "endpoint", "credential"}
      BY <2>4 DEF ServeLookup, ServeReadEndpoint, ServeBegin
    <3> QED BY <1>1, <3>1
  <2>5. CASE ServeReject(t) \/ ServeDone(t) \/ ServeHangUp(t)
    BY <1>1, <2>5 DEF ServeReject, ServeDone, ServeHangUp, EndTunnel
  <2> QED BY <2>1, <2>2, <2>3, <2>4, <2>5 DEF Serve
<1> QED BY <1>2, <1>3

\* Edits can only raise a rotation.
LEMMA ContentsStep ==
  ASSUME Typed, TypeOK', SidLaunched, TokenContents, [Next]_vars
  PROVE  TokenContents'
<1> USE DEF TokenContents, SentAfterFingerprint, ServeAfterSent, launchVars, serveVars
<1>1. ASSUME NEW i \in Ids, Launch(i) PROVE TokenContents'
  BY <1>1, ContentsLaunch
<1>2. ASSUME NEW t \in Requests, Serve(t) PROVE TokenContents'
  BY <1>2, ContentsServe
<1>3. CASE Administer
  <2>1. /\ UNCHANGED <<launchVars, serveVars>>
        /\ \A i \in Ids : /\ rotation[ConnOf[i]] \in Nat /\ rotation'[ConnOf[i]] \in Nat
                          /\ rotation[ConnOf[i]] <= rotation'[ConnOf[i]]
    <3>1. UNCHANGED <<launchVars, serveVars>>
      BY <1>3 DEF Administer
    <3>2. CASE UNCHANGED rotation
      BY <3>1, <3>2, RotationTypes DEF Typed
    <3>3. ASSUME NEW c \in Connections, rotation' = [rotation EXCEPT ![c] = @ + 1]
          PROVE  \A d \in Connections : /\ rotation[d] \in Nat /\ rotation'[d] \in Nat
                                       /\ rotation[d] <= rotation'[d]
      BY <3>3 DEF Typed, TypeOK, ResourceTypeOK
    <3>4. UNCHANGED rotation \/ \E c \in Connections : rotation' = [rotation EXCEPT ![c] = @ + 1]
      BY <1>3 DEF Administer, ResourceNext, EditEndpoint, RotateSecret, EnableCredential,
                  SaveSSHKey, RevokeOwner
    <3>5. \A i \in Ids : ConnOf[i] \in Connections
      BY SessionAssumption
    <3> QED BY <3>1, <3>2, <3>3, <3>4, <3>5
  <2>2. \A i \in Ids : sent[i].rotation \in Nat /\ fp[i].rotation \in Nat
    BY DEF Typed, TypeOK, Fingerprints
  <2> QED BY <2>1, <2>2
<1>4. CASE Exit \/ Crash
  BY <1>4 DEF Exit, Crash, Vanish, LaunchEnded, LaunchHolding, Tunnelling, resourceVars
<1>5. CASE UNCHANGED <<launchVars, serveVars, rotation>>
  BY <1>5
<1>6. ASSUME \/ Tick \/ Shutdown \/ Stop \/ Boot \/ UNCHANGED vars
             \/ \E i \in Ids : Elapse(i) \/ CloseSession(i) \/ DisposeToken(i) \/ DisposeFiles(i)
      PROVE  UNCHANGED <<launchVars, serveVars, rotation>>
  BY <1>6 DEF Tick, Shutdown, Stop, Boot, Elapse, CloseSession, DisposeToken,
              DisposeFiles, vars, resourceVars
<1> QED BY <1>1, <1>2, <1>3, <1>4, <1>5, <1>6 DEF Next

-----------------------------------------------------------------------------
(* The limit                                                               *)

\* Only LaunchCommit adds a lease, and it counts first.
LEMMA LimitStep ==
  ASSUME Typed, TypeOK', LeaseLimit, [Next]_vars
  PROVE  LeaseLimit'
<1>1. \A o \in Owners : IsFiniteSet(Owned(o)) /\ Cardinality(Owned(o)) \in Nat
  BY SessionAssumption, FS_Subset, FS_CardinalityType DEF Owned, Typed, TypeOK
<1>2. CASE leases' \subseteq leases
  <2>1. \A o \in Owners : Owned(o)' \subseteq Owned(o)
    BY <1>2 DEF Owned
  <2>2. \A o \in Owners : /\ Cardinality(Owned(o)') \in Nat
                          /\ Cardinality(Owned(o)') <= Cardinality(Owned(o))
    BY <1>1, <2>1, FS_Subset, FS_CardinalityType
  <2> QED BY <1>1, <2>2, SessionAssumption DEF LeaseLimit
<1>3. ASSUME NEW i \in Ids, LaunchCommit(i) PROVE LeaseLimit'
  <2> SUFFICES ASSUME NEW o \in Owners PROVE Cardinality(Owned(o)') <= MaxLeases
    BY DEF LeaseLimit
  <2>1. CASE o = OwnerOf[i]
    <3>1. Owned(o)' = Owned(o) \cup {i}
      BY <1>3, <2>1 DEF LaunchCommit, Owned
    <3>2. Cardinality(Owned(o)) < MaxLeases
      BY <1>3, <2>1 DEF LaunchCommit, HasRoom
    <3>3. Cardinality(Owned(o) \cup {i}) <= Cardinality(Owned(o)) + 1
      BY <1>1, FS_AddElement
    <3>4. Cardinality(Owned(o) \cup {i}) \in Nat
      BY <1>1, FS_AddElement, FS_CardinalityType
    <3> QED BY <1>1, <3>1, <3>2, <3>3, <3>4, SessionAssumption
  <2>2. CASE o # OwnerOf[i]
    <3>1. Owned(o)' = Owned(o)
      BY <1>3, <2>2 DEF LaunchCommit, Owned
    <3> QED BY <3>1 DEF LeaseLimit
  <2> QED BY <2>1, <2>2
<1>4. ASSUME ~ \E i \in Ids : LaunchCommit(i) PROVE leases' \subseteq leases
  <2>1. ASSUME NEW i \in Ids, Launch(i) PROVE leases' \subseteq leases
    BY <1>4, <2>1 DEF Launch, LaunchReadEndpoint, LaunchReadCredential, LaunchReadKey,
         LaunchRefuse, LaunchRetrieve, LaunchHostKey, LaunchCreateFiles, LaunchPost,
         LaunchList, LaunchSweep, LaunchLimit, LaunchDrop, LaunchUndo, Remove, leaseVars
  <2>2. ASSUME NEW t \in Requests, Serve(t) PROVE leases' \subseteq leases
    BY <2>2 DEF Serve, ServeBegin, ServeReject, ServeLookup, ServeReadEndpoint,
         ServeReadCredential, ServeReadKey, ServeClaim, ClaimUnder, Watch, ServeDone, ServeHangUp,
         EndTunnel, leaseVars
  <2> QED BY <2>1, <2>2
          DEF Next, Administer, Elapse, CloseSession, DisposeToken, DisposeFiles, Tick,
              Remove, Shutdown, Stop, Exit, Crash, Vanish, Boot, leaseVars, vars
<1> QED BY <1>2, <1>3, <1>4

-----------------------------------------------------------------------------
(* The inductive invariant                                                 *)

IInv ==
  /\ Typed
  /\ Ownership
  /\ OneTunnel /\ SidLaunched
  /\ TokenContents
  /\ LeaseLimit

LEMMA InitInv == Init => IInv
<1> SUFFICES ASSUME Init PROVE IInv
  OBVIOUS
<1> USE ResourceAssumption, SessionAssumption DEF Init
<1>1. Typed
  <2>1. ResourceTypeOK
    BY DEF ResourceInit, ResourceTypeOK
  <2> QED BY <2>1 DEF Typed, TypeOK, KeyWanted, SidKnown, NoFingerprint, Fingerprints,
                      LaunchEnded
<1>2. Ownership
  BY DEF Ownership, LeasePhase, DownQuiet, LaunchBacked, LeaseBacked, FilesAccounted,
         TokensAccounted, LaunchHolding
<1>3. OneTunnel /\ SidLaunched
  BY DEF OneTunnel, SidLaunched, Tunnels, Tunnelling
<1>4. TokenContents
  BY DEF TokenContents, SentAfterFingerprint, ServeAfterSent, Tunnelling, LaunchHolding
<1>5. LeaseLimit
  <2>1. \A o \in Owners : Owned(o) = {}
    BY DEF Owned
  <2>2. Cardinality({}) <= MaxLeases
    <3>1. Cardinality({}) = 0
      BY FS_EmptySet
    <3> QED BY <3>1
  <2> QED BY <2>1, <2>2 DEF LeaseLimit
<1> QED BY <1>1, <1>2, <1>3, <1>4, <1>5 DEF IInv

LEMMA InvStep == IInv /\ [Next]_vars => IInv'
<1> SUFFICES ASSUME IInv, [Next]_vars PROVE IInv'
  OBVIOUS
<1>1. TypeOK' /\ KeyWanted' /\ SidKnown'
  BY TypeStep, KnownStep DEF IInv
<1>2. Ownership'
  BY <1>1, OwnershipStep DEF IInv
<1>3. OneTunnel' /\ SidLaunched'
  BY <1>1, TunnelStep DEF IInv, Ownership
<1>4. TokenContents'
  BY <1>1, ContentsStep DEF IInv
<1>5. LeaseLimit'
  BY <1>1, LimitStep DEF IInv
<1> QED BY <1>1, <1>2, <1>3, <1>4, <1>5 DEF IInv, Typed

LEMMA Invariance == Spec => []IInv
BY InitInv, InvStep, PTL DEF Spec

\* Every variable keeps its type, and leases that are Active exist.
THEOREM TypeCorrect == Spec => []TypeOK
<1>1. IInv => TypeOK
  BY DEF IInv, Typed
<1> QED BY Invariance, <1>1, PTL

\* The limit of launch (eight leases in the code) holds at every moment.
THEOREM LimitHolds == Spec => []LeaseLimit
<1>1. IInv => LeaseLimit
  BY DEF IInv
<1> QED BY Invariance, <1>1, PTL

\* A session never has two tunnels, and Active says whether it has one.
THEOREM OneTunnelHolds == Spec => []OneTunnel
<1>1. IInv => OneTunnel
  BY DEF IInv
<1> QED BY Invariance, <1>1, PTL

\* No directory and no token is forgotten, and none is taken from a lease.
THEOREM OwnershipHolds == Spec => []NothingForgotten
<1>1. IInv => NothingForgotten
  BY DEF IInv, Ownership, NothingForgotten
<1> QED BY Invariance, <1>1, PTL

\* A tunnel runs on a token made for what its lease was validated for.
THEOREM TokenMatches == Spec => []TunnelMatchesToken
<1>1. IInv => TunnelMatchesToken
  BY ContentsMatch DEF IInv
<1> QED BY Invariance, <1>1, PTL

-----------------------------------------------------------------------------
(* RemoteSessions implements RemoteAccess                                  *)

Launched == {i \in Ids : pc[i] = "done"}

\* RemoteAccess counts with the same operator.
LEMMA SameCount == \A S : Access!Cardinality(S) = Cardinality(S)
BY DEF Access!Cardinality, Cardinality

LEMMA InitMaps == Init => Access!Init
BY DEF Init, Access!Init, Tunnels, Tunnelling

\* Taking leases away from the map withdraws them, whoever does it.
LEMMA WithdrawMaps ==
  ASSUME IInv, NEW S \in SUBSET leases, leases' = leases \ S,
         Launched' = Launched, UNCHANGED serveVars
  PROVE  Access!Next
<1>1. leases \subseteq Launched
  BY DEF IInv, Typed, TypeOK, Ownership, LeasePhase, Launched
<1>2. [i \in Ids |-> Tunnels(i)]' = [i \in Ids |-> Tunnels(i)]
  BY DEF Tunnels, serveVars
<1>3. (Launched \ leases)' = (Launched \ leases) \cup S
  BY <1>1
<1>4. Access!Withdraw(S)
  BY <1>2, <1>3 DEF Access!Withdraw, Launched
<1> QED BY <1>4 DEF Access!Next

\* A step that leaves the leases, the ended launches and the tunnels alone.
LEMMA StutterMaps ==
  ASSUME leases' = leases, Launched' = Launched,
         \A i \in Ids : Tunnels(i)' = Tunnels(i)
  PROVE  UNCHANGED Access!vars
BY DEF Access!vars, Launched

LEMMA LaunchMaps ==
  ASSUME IInv, IInv', NEW i \in Ids, Launch(i)
  PROVE  [Access!Next]_(Access!vars)
<1>1. UNCHANGED serveVars /\ pc \in [Ids -> LaunchReading \cup LaunchHolding \cup LaunchEnded]
  BY DEF Launch, LaunchReadEndpoint, LaunchReadCredential, LaunchReadKey,
       LaunchRefuse, LaunchRetrieve, LaunchHostKey, LaunchCreateFiles, LaunchPost,
       LaunchList, LaunchSweep, LaunchCommit, LaunchLimit, LaunchDrop, LaunchUndo,
       IInv, Typed, TypeOK
<1>2. \A j \in Ids : Tunnels(j)' = Tunnels(j)
  BY <1>1 DEF Tunnels, serveVars
<1>3. CASE LaunchCommit(i)
  <2>1. /\ pc[i] = "commit" /\ pc' = [pc EXCEPT ![i] = "done"]
        /\ leases' = leases \cup {i}
        /\ Cardinality(Owned(OwnerOf[i])) < MaxLeases
    BY <1>3 DEF LaunchCommit, HasRoom, LaunchGoto
  <2>2. i \notin leases /\ i \notin Launched
    BY <2>1 DEF Launched, IInv, Ownership, LeasePhase
  <2>3. Launched' = Launched \cup {i}
    BY <1>1, <2>1 DEF Launched
  <2>4. (Launched \ leases)' = Launched \ leases
    BY <2>1, <2>2, <2>3
  <2>5. Cardinality({j \in leases : OwnerOf[j] = OwnerOf[i]}) < MaxLeases
    BY <2>1 DEF Owned
  <2>6. Access!Grant(i)
    <3>1. i \notin leases \cup (Launched \ leases)
      BY <2>2
    <3>2. [j \in Ids |-> Tunnels(j)]' = [j \in Ids |-> Tunnels(j)]
      BY <1>2
    <3> QED BY <2>1, <2>4, <2>5, <3>1, <3>2, SameCount DEF Access!Grant, Launched
  <2> QED BY <2>6 DEF Access!Next
<1>4. CASE ~ LaunchCommit(i)
  <2>1. Launched' = Launched
    BY <1>1, <1>4
       DEF Launched, Launch, LaunchReadEndpoint, LaunchReadCredential, LaunchReadKey,
         LaunchRefuse, LaunchRetrieve, LaunchHostKey, LaunchCreateFiles, LaunchPost,
         LaunchList, LaunchSweep, LaunchLimit, LaunchDrop, LaunchUndo, LaunchGoto,
         LaunchReading
  <2>2. CASE LaunchSweep(i)
    BY <1>1, <2>1, <2>2, WithdrawMaps DEF LaunchSweep, Remove
  <2>3. CASE ~ LaunchSweep(i)
    <3>1. leases' = leases
      BY <1>4, <2>3
         DEF Launch, LaunchReadEndpoint, LaunchReadCredential, LaunchReadKey,
           LaunchRefuse, LaunchRetrieve, LaunchHostKey, LaunchCreateFiles, LaunchPost,
           LaunchList, LaunchLimit, LaunchDrop, LaunchUndo, leaseVars
    <3> QED BY <1>2, <2>1, <3>1, StutterMaps
  <2> QED BY <2>2, <2>3
<1> QED BY <1>3, <1>4

LEMMA ServeMaps ==
  ASSUME IInv, IInv', NEW t \in Requests, Serve(t)
  PROVE  [Access!Next]_(Access!vars)
<1>1. leases' = leases /\ Launched' = Launched
  BY DEF Serve, ServeBegin, ServeReject, ServeLookup, ServeReadEndpoint,
       ServeReadCredential, ServeReadKey, ServeClaim, ClaimUnder, Watch, ServeDone, ServeHangUp,
       EndTunnel, launchVars, leaseVars, Launched
<1>2. \A u \in Requests \ {t} : spc'[u] = spc[u] /\ sid'[u] = sid[u]
  BY DEF Serve, ServeBegin, ServeReject, ServeLookup, ServeReadEndpoint,
       ServeReadCredential, ServeReadKey, ServeClaim, ClaimUnder, Watch, ServeDone, ServeHangUp,
       EndTunnel, ServeGoto, IInv, Typed, TypeOK
<1>3. CASE ServeClaim(t)
  <2> SUFFICES ASSUME NEW i \in Ids, i = sid[t]
               PROVE  Access!Next
    BY <1>3 DEF ServeClaim, ClaimUnder, IInv, Typed, TypeOK
  <2>1. /\ spc[t] = "claim" /\ spc'[t] = "open" /\ sid'[t] = i
        /\ i \in leases /\ i \notin active
    BY <1>3 DEF ServeClaim, ClaimUnder, ServeGoto, IInv, Typed, TypeOK
  <2>2. Tunnels(i) = {}
    BY <2>1 DEF OneTunnel, IInv
  <2>3. Tunnels(i)' = {t}
    BY <1>2, <2>1, <2>2 DEF Tunnels, Tunnelling
  <2>4. \A j \in Ids \ {i} : Tunnels(j)' = Tunnels(j)
    BY <1>2, <2>1 DEF Tunnels, Tunnelling
  <2>5. [j \in Ids |-> Tunnels(j)]' = [[j \in Ids |-> Tunnels(j)] EXCEPT ![i] = {t}]
    BY <2>3, <2>4
  <2>6. Access!Attach(i, t)
    BY <1>1, <2>1, <2>2, <2>5 DEF Access!Attach, Launched
  <2> QED BY <2>6 DEF Access!Next
<1>4. CASE ServeDone(t) \/ ServeHangUp(t)
  <2>1. spc[t] \in Tunnelling /\ spc'[t] = "idle" /\ sid[t] \in Ids
    BY <1>4 DEF ServeDone, ServeHangUp, EndTunnel, SidKnown, Tunnelling, IInv, Typed, TypeOK
  <2> SUFFICES ASSUME NEW i \in Ids, i = sid[t]
               PROVE  Access!Next
    BY <2>1
  <2>2. t \in Tunnels(i) /\ Tunnels(i)' = Tunnels(i) \ {t}
    BY <1>2, <2>1 DEF Tunnels, Tunnelling
  <2>3. \A j \in Ids \ {i} : Tunnels(j)' = Tunnels(j)
    BY <1>2, <2>1 DEF Tunnels, Tunnelling
  <2>4. [j \in Ids |-> Tunnels(j)]' = [[j \in Ids |-> Tunnels(j)] EXCEPT ![i] = @ \ {t}]
    BY <2>2, <2>3
  <2>5. Access!Detach(i, t)
    BY <1>1, <2>2, <2>4 DEF Access!Detach, Launched
  <2> QED BY <2>5 DEF Access!Next
<1>5. CASE (\E i \in Ids : ServeBegin(t, i)) \/ ServeReject(t) \/ ServeLookup(t)
           \/ ServeReadEndpoint(t) \/ ServeReadCredential(t) \/ ServeReadKey(t) \/ Watch(t)
  <2>1. \A i \in Ids : t \in Tunnels(i)' <=> t \in Tunnels(i)
    BY <1>5 DEF ServeBegin, ServeReject, ServeLookup, ServeReadEndpoint,
         ServeReadCredential, ServeReadKey, Watch, ServeGoto, ServeReading,
         Tunnels, Tunnelling, IInv, Typed, TypeOK
  <2>2. \A i \in Ids : Tunnels(i)' = Tunnels(i)
    BY <1>2, <2>1 DEF Tunnels, Tunnelling
  <2> QED BY <1>1, <2>2, StutterMaps
<1> QED BY <1>3, <1>4, <1>5 DEF Serve

LEMMA StepMaps ==
  ASSUME IInv, IInv', [Next]_vars
  PROVE  [Access!Next]_(Access!vars)
<1>1. ASSUME NEW i \in Ids, CloseSession(i) PROVE [Access!Next]_(Access!vars)
  BY <1>1, WithdrawMaps DEF CloseSession, Launched, launchVars
<1>2. CASE Tick
  BY <1>2, WithdrawMaps DEF Tick, Remove, Launched, launchVars
<1>3. CASE Stop
  BY <1>3, WithdrawMaps DEF Stop, Remove, Launched, launchVars
<1>4. CASE Exit \/ Crash
  <2>1. leases' = {} /\ \A i \in Ids : Tunnels(i)' = {}
    BY <1>4 DEF Exit, Crash, Vanish, Tunnels, Tunnelling
  <2>2. Launched' = Launched
    BY <1>4 DEF Exit, Crash, Vanish, Launched, LaunchEnded
  <2>3. leases \subseteq Launched
    BY DEF IInv, Typed, TypeOK, Ownership, LeasePhase, Launched
  <2>4. (Launched \ leases)' = (Launched \ leases) \cup leases
    BY <2>1, <2>2, <2>3
  <2>5. Access!Halt
    BY <2>1, <2>4 DEF Access!Halt, Launched
  <2> QED BY <2>5 DEF Access!Next
<1>5. ASSUME \/ Administer \/ Shutdown \/ Boot \/ UNCHANGED vars
             \/ \E i \in Ids : Elapse(i) \/ DisposeToken(i) \/ DisposeFiles(i)
      PROVE  [Access!Next]_(Access!vars)
  <2>1. UNCHANGED <<leases, pc, spc, sid>>
    BY <1>5 DEF Administer, Shutdown, Boot, Elapse, DisposeToken, DisposeFiles, launchVars,
                leaseVars, serveVars, vars
  <2> QED BY <2>1, StutterMaps DEF Launched, Tunnels
<1> QED BY <1>1, <1>2, <1>3, <1>4, <1>5, LaunchMaps, ServeMaps DEF Next

\* The session manager keeps what RemoteAccess promises: every step of it is a
\* grant, a withdrawal, an attached or detached tunnel, a halt, or none of these.
THEOREM AccessImplemented == Spec => ImplementsAccess
<1>1. Init => Access!Init
  BY InitMaps
<1>2. IInv /\ IInv' /\ [Next]_vars => [Access!Next]_(Access!vars)
  BY StepMaps
<1> QED BY <1>1, <1>2, Invariance, PTL DEF Spec, Access!Spec, ImplementsAccess
=============================================================================
