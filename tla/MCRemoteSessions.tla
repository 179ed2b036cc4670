-------------------------- MODULE MCRemoteSessions --------------------------
(***************************************************************************)
(* Instances of RemoteSessions for TLC.                                    *)
(***************************************************************************)
EXTENDS RemoteSessions

\* All launches come from one web session and open one connection.
OneOwner == [i \in Ids |-> CHOOSE o \in Owners : TRUE]
OneConnection == [i \in Ids |-> CHOOSE c \in Connections : TRUE]
=============================================================================
