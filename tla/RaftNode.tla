------------------------------ MODULE RaftNode ------------------------------
(***************************************************************************)
(* A node of the cluster: cluster/raft.rs and cluster/state.rs.  Every     *)
(* field of RaftNode has a lock of its own and is awaited on its own, so   *)
(* two handlers interleave between any two accesses; the cluster state has *)
(* one lock.  Nothing of it is on disk.  Messages can be lost, repeated    *)
(* and reordered: any request can come at any time.                        *)
(***************************************************************************)
EXTENDS Integers, FiniteSets

CONSTANTS
  Handlers,  \* tasks that handle requests
  Self,      \* this node
  Peers,     \* the other nodes
  NoNode,
  MaxTerm,   \* bound on the terms of requests
  MaxCalls   \* bound on the requests

VARIABLES
  node,       \* RaftNode: role, current_term, voted_for, running and the network's peers
  cluster,    \* ClusterState: leader_id, last_applied and the role recorded for each node
  call,       \* what each handler is doing
  calls,      \* requests taken up so far
  granted,    \* history: votes granted since the process started
  overlapped  \* history: two handlers have been in flight at the same time

raftVars == <<node, cluster, call, calls, granted, overlapped>>

Nodes == Peers \cup {Self}
Terms == 0..MaxTerm

ASSUME RaftAssumption ==
  MaxTerm \in Nat /\ MaxCalls \in Nat /\ Self \notin Peers /\ NoNode \notin Nodes

\* What an entry of the log is to the node: a membership change is for the cluster state, any
\* other entry is for the store (module Replication), which accepts or rejects it.
Memberships == [kind : {"AddVoter", "AddLearner", "RemoveMember", "PromoteLearner"}, who : Nodes]
LogEntries == Memberships \cup [kind : {"accepted", "rejected"}]

NoCall == [step |-> "none"]
Calls ==
  {NoCall}
    \cup [step : {"voteTerm", "voteRole", "voteClear", "voteCheck", "voteGrant"},
          term : Terms, cand : Peers]
    \cup [step : {"appendTerm", "appendClear", "appendRole", "appendState", "appendEntry"},
          term : Terms, from : Peers]
    \cup [step : {"lead", "propose"}]

FreshNode == [role |-> "follower", term |-> 0, voted |-> NoNode, running |-> FALSE, peers |-> {}]
FreshCluster == [leader |-> NoNode, applied |-> 0, members |-> [n \in Nodes |-> "absent"]]

RaftInit ==
  /\ node = FreshNode /\ cluster = FreshCluster
  /\ call = [h \in Handlers |-> NoCall] /\ calls = 0
  /\ granted = {} /\ overlapped = FALSE

\* A request arrives.
Receive(h, work) ==
  /\ call[h] = NoCall /\ calls < MaxCalls
  /\ calls' = calls + 1
  /\ call' = [call EXCEPT ![h] = work]
  /\ overlapped' = (overlapped \/ \E g \in Handlers : call[g] # NoCall)
  /\ UNCHANGED granted

At(h, step) == call[h].step = step
Resume(h, work) ==
  call' = [call EXCEPT ![h] = work] /\ UNCHANGED <<calls, overlapped>>
Goto(h, step) == Resume(h, [call[h] EXCEPT !.step = step]) /\ UNCHANGED granted
Done(h) == Resume(h, NoCall) /\ UNCHANGED granted

(***************************************************************************)
(* start, stop, become_leader and step_down                                *)
(***************************************************************************)

\* The node records itself as a member; a node that runs already reports an error.
StartNode(h) ==
  /\ Receive(h, NoCall)
  /\ node' = [node EXCEPT !.running = TRUE]
  /\ cluster' = IF node.running THEN cluster ELSE [cluster EXCEPT !.members[Self] = "follower"]

StopNode(h) ==
  /\ Receive(h, NoCall)
  /\ node' = [node EXCEPT !.running = FALSE]
  /\ UNCHANGED cluster

\* The role first, the cluster state after it.
BecomeLeader(h) ==
  /\ Receive(h, [step |-> "lead"])
  /\ node' = [node EXCEPT !.role = "leader"]
  /\ UNCHANGED cluster

SetLeader(h) ==
  /\ At(h, "lead")
  /\ cluster' = [cluster EXCEPT !.leader = Self,
                   !.members = [n \in Nodes |-> CASE @[n] = "absent" -> "absent"
                                                  [] n = Self -> "leader"
                                                  [] OTHER -> "follower"]]
  /\ Done(h)
  /\ UNCHANGED node

StepDown(h) ==
  /\ Receive(h, NoCall)
  /\ node' = [node EXCEPT !.role = "follower"]
  /\ UNCHANGED cluster

(***************************************************************************)
(* handle_vote_request                                                     *)
(***************************************************************************)

VoteRequest(h) ==
  \E t \in Terms, c \in Peers :
    /\ Receive(h, IF t < node.term THEN NoCall
                  ELSE [step |-> IF t > node.term THEN "voteTerm" ELSE "voteCheck",
                        term |-> t, cand |-> c])
    /\ UNCHANGED <<node, cluster>>

VoteTerm(h) ==
  /\ At(h, "voteTerm") /\ Goto(h, "voteRole")
  /\ node' = [node EXCEPT !.term = call[h].term]
  /\ UNCHANGED cluster

VoteRole(h) ==
  /\ At(h, "voteRole") /\ Goto(h, "voteClear")
  /\ node' = [node EXCEPT !.role = "follower"]
  /\ UNCHANGED cluster

VoteClear(h) ==
  /\ At(h, "voteClear") /\ Goto(h, "voteCheck")
  /\ node' = [node EXCEPT !.voted = NoNode]
  /\ UNCHANGED cluster

\* Mutant: whoever asks is granted the vote.
VoteCheckAny(h) ==
  At(h, "voteCheck") /\ Goto(h, "voteGrant") /\ UNCHANGED <<node, cluster>>

VoteCheck(h) ==
  /\ At(h, "voteCheck")
  /\ IF node.voted \in {NoNode, call[h].cand} THEN Goto(h, "voteGrant") ELSE Done(h)
  /\ UNCHANGED <<node, cluster>>

VoteGrant(h) ==
  /\ At(h, "voteGrant") /\ Resume(h, NoCall)
  /\ node' = [node EXCEPT !.voted = call[h].cand]
  /\ granted' = granted \cup {<<call[h].term, call[h].cand>>}
  /\ UNCHANGED cluster

(***************************************************************************)
(* handle_append_entries, with one entry, and propose                      *)
(***************************************************************************)

\* The previous entry that the request names is not looked at; which entry it carries matters
\* only when that entry is applied.
AppendRequest(h) ==
  \E t \in Terms, n \in Peers :
    /\ Receive(h, IF t < node.term THEN NoCall
                  ELSE [step |-> IF t > node.term THEN "appendTerm" ELSE "appendRole",
                        term |-> t, from |-> n])
    /\ UNCHANGED <<node, cluster>>

AppendTerm(h) ==
  /\ At(h, "appendTerm") /\ Goto(h, "appendClear")
  /\ node' = [node EXCEPT !.term = call[h].term]
  /\ UNCHANGED cluster

AppendClear(h) ==
  /\ At(h, "appendClear") /\ Goto(h, "appendRole")
  /\ node' = [node EXCEPT !.voted = NoNode]
  /\ UNCHANGED cluster

AppendRole(h) ==
  /\ At(h, "appendRole") /\ Goto(h, "appendState")
  /\ node' = [node EXCEPT !.role = "follower"]
  /\ UNCHANGED cluster

AppendState(h) ==
  /\ At(h, "appendState") /\ Goto(h, "appendEntry")
  /\ cluster' = [cluster EXCEPT !.leader = call[h].from]
  /\ UNCHANGED node

\* apply_membership_change
Member(m, old) ==
  CASE m.kind = "AddVoter" -> "follower"
    [] m.kind = "AddLearner" -> "learner"
    [] m.kind = "RemoveMember" -> "absent"
    [] OTHER -> IF old = "absent" THEN "absent" ELSE "follower"

\* ClusterStateMachine::apply: last_applied takes the index of what the store accepted.
AppliedTo(c, e, index) ==
  CASE e \in Memberships -> [c EXCEPT !.members[e.who] = Member(e, @)]
    [] e.kind = "accepted" -> [c EXCEPT !.applied = index]
    [] OTHER -> c

AppendEntry(h) ==
  /\ At(h, "appendEntry") /\ Done(h)
  /\ \E e \in LogEntries : cluster' = AppliedTo(cluster, e, 1)
  /\ UNCHANGED node

\* propose_write and propose both look at the role; a proposed entry keeps index 0.
Propose(h) ==
  /\ Receive(h, IF node.role = "leader" THEN [step |-> "propose"] ELSE NoCall)
  /\ UNCHANGED <<node, cluster>>

ProposeApply(h) ==
  /\ At(h, "propose") /\ Done(h)
  /\ \E e \in LogEntries :
       cluster' = IF node.role = "leader" THEN AppliedTo(cluster, e, 0) ELSE cluster
  /\ UNCHANGED node

\* POST /cluster/nodes/add and /remove change the leader's network peers, not the members.
ChangePeers(h) ==
  /\ Receive(h, NoCall)
  /\ node.role = "leader"
  /\ \E n \in Peers : \/ node' = [node EXCEPT !.peers = @ \cup {n}]
                      \/ node' = [node EXCEPT !.peers = @ \ {n}]
  /\ UNCHANGED cluster

\* The process dies and comes back.
Restart ==
  /\ calls < MaxCalls /\ calls' = calls + 1
  /\ node' = FreshNode /\ cluster' = FreshCluster
  /\ call' = [h \in Handlers |-> NoCall]
  /\ granted' = {} /\ overlapped' = FALSE

RaftNext ==
  \/ \E h \in Handlers :
       \/ StartNode(h) \/ StopNode(h) \/ BecomeLeader(h) \/ SetLeader(h) \/ StepDown(h)
       \/ VoteRequest(h) \/ VoteTerm(h) \/ VoteRole(h) \/ VoteClear(h) \/ VoteCheck(h)
       \/ VoteGrant(h)
       \/ AppendRequest(h) \/ AppendTerm(h) \/ AppendClear(h) \/ AppendRole(h)
       \/ AppendState(h) \/ AppendEntry(h)
       \/ Propose(h) \/ ProposeApply(h) \/ ChangePeers(h)
  \/ Restart

(***************************************************************************)
(* Properties                                                              *)
(***************************************************************************)

\* Every variable has its type.
RaftTypeOK ==
  /\ node \in [role : {"leader", "follower"}, term : Terms, voted : Peers \cup {NoNode},
               running : BOOLEAN, peers : SUBSET Peers]
  /\ cluster \in [leader : Nodes \cup {NoNode}, applied : {0, 1},
                  members : [Nodes -> {"absent", "leader", "follower", "learner"}]]
  /\ call \in [Handlers -> Calls] /\ calls \in 0..MaxCalls
  /\ granted \subseteq Terms \X Peers /\ overlapped \in BOOLEAN

\* As long as handlers do not overlap, over any sequence of vote and append requests with rising,
\* equal and stale terms: a node grants its vote to one candidate per term, and a node that accepts
\* proposals names itself as the leader (an append request, or a vote request of a later term, takes
\* the role away from it).  Overlapping requests break it (every field is locked on its own), and so
\* does a restart (the vote is not persisted; the history starts anew with the process).
OneVoteOneLeader ==
  ~overlapped =>
    /\ \A v, w \in granted : v[1] = w[1] => v[2] = w[2]
    /\ node.role = "leader" /\ (\A h \in Handlers : call[h] = NoCall) => cluster.leader = Self
=============================================================================
