------------------------------ MODULE MCControl ------------------------------
(***************************************************************************)
(* The server's control plane: parts that share no state with each other.  *)
(* A behaviour picks one part and runs it; the others stay where they      *)
(* started.                                                                *)
(***************************************************************************)
EXTENDS Replication, RaftNode, ApiKeys, Backups, PluginStages, TLC

VARIABLE part

vars == <<replicationVars, raftVars, keyVars, backupVars, stageVars, part>>

Init ==
  /\ part \in {"replication", "raft", "keys", "backups", "plugins"}
  /\ ReplicationInit /\ RaftInit /\ KeysInit /\ BackupsInit /\ StagesInit
  /\ part # "replication" => \A d \in RDocs : home[d] = NoHome
  /\ part # "plugins" => manifest = [p \in Plugs |-> CHOOSE m \in Manifests : TRUE]
  /\ part # "keys" => ~authOn /\ Fresh = 1

Next ==
  /\ \/ part = "replication" /\ ReplicationNext /\ UNCHANGED <<raftVars, keyVars, backupVars, stageVars>>
     \/ part = "raft" /\ RaftNext /\ UNCHANGED <<replicationVars, keyVars, backupVars, stageVars>>
     \/ part = "keys" /\ KeysNext /\ UNCHANGED <<replicationVars, raftVars, backupVars, stageVars>>
     \/ part = "backups" /\ BackupsNext /\ UNCHANGED <<replicationVars, raftVars, keyVars, stageVars>>
     \/ part = "plugins" /\ StagesNext /\ UNCHANGED <<replicationVars, raftVars, keyVars, backupVars>>
  /\ UNCHANGED part

Spec == Init /\ [][Next]_vars

\* Every variable has its type.
TypeOK == ReplicationTypeOK /\ RaftTypeOK /\ KeysTypeOK /\ BackupsTypeOK /\ StagesTypeOK

\* The tasks of all parts are the same two model values; so are the documents and the peers.
Symmetry == Permutations(RTasks) \cup Permutations(RDocs) \cup Permutations(BTabs)
=============================================================================
