--------------------------- MODULE RaftNodeProofs ---------------------------
(***************************************************************************)
(* Proofs about RaftNode: types, and what holds of votes and leadership as *)
(* long as handlers do not overlap.                                        *)
(***************************************************************************)
EXTENDS RaftNode, TLAPS

\* The node alone: MCControl runs it next to other parts of the server.
RaftSpec == RaftInit /\ [][RaftNext]_raftVars

\* The types of RaftTypeOK.
NodeType ==
  [role : {"leader", "follower"}, term : Terms, voted : Peers \cup {NoNode},
   running : BOOLEAN, peers : SUBSET Peers]
ClusterType ==
  [leader : Nodes \cup {NoNode}, applied : {0, 1},
   members : [Nodes -> {"absent", "leader", "follower", "learner"}]]

\* One handler at a time.
Alone == \A g, h \in Handlers : call[g] # NoCall /\ call[h] # NoCall => g = h

\* What the handler c knows of the node between two of its steps.
Coherent(c) ==
  /\ c.step \in {"voteTerm", "appendTerm"} => c.term > node.term
  /\ c.step \in {"voteRole", "voteClear", "voteCheck", "voteGrant", "appendClear"} => c.term = node.term
  /\ c.step \in {"voteRole", "voteClear", "appendClear"} => \A v \in granted : v[1] < node.term
  /\ c.step = "voteGrant" => node.voted \in {NoNode, c.cand}
  /\ c.step = "appendState" => node.role = "follower"

\* The vote of the current term is remembered, those of earlier terms went to one candidate each,
\* and a leader names itself or is about to.
Votes ==
  /\ \A v \in granted : v[1] <= node.term /\ (v[1] = node.term => v[2] = node.voted)
  /\ \A v, w \in granted : v[1] = w[1] => v[2] = w[2]

Leads == node.role = "leader" => cluster.leader = Self \/ \E h \in Handlers : call[h].step = "lead"

RaftInv ==
  /\ RaftTypeOK
  /\ ~overlapped => Alone /\ Votes /\ Leads /\ \A h \in Handlers : Coherent(call[h])
-----------------------------------------------------------------------------
(* Steps in general *)

\* h takes up a request, or goes on with one.
Moves(h, w) ==
  /\ call' = [call EXCEPT ![h] = w] /\ w \in Calls
  /\ \/ overlapped' = (overlapped \/ \E g \in Handlers : call[g] # NoCall)
     \/ overlapped' = overlapped /\ call[h] # NoCall

\* As long as nothing overlaps, a handler that moves is the only one.
LEMMA MovesAlone ==
  ASSUME RaftInv, NEW h \in Handlers, NEW w, Moves(h, w), ~overlapped'
  PROVE  /\ ~overlapped /\ Alone' /\ call'[h] = w
         /\ \A g \in Handlers : g # h => call[g] = NoCall /\ call'[g] = NoCall
<1>1. call \in [Handlers -> Calls]
  BY DEF RaftInv, RaftTypeOK
<1>2. ~overlapped
  BY DEF Moves
<1>3. \A g \in Handlers : g # h => call[g] = NoCall
  BY <1>2 DEF RaftInv, Moves, Alone
<1>4. call'[h] = w /\ \A g \in Handlers : g # h => call'[g] = NoCall
  BY <1>1, <1>3 DEF Moves
<1> QED  BY <1>2, <1>3, <1>4 DEF Alone

\* A step keeps the invariant if the types, the votes, the leader and the handler that moves are right.
LEMMA StepKeeps ==
  ASSUME RaftInv, NEW h \in Handlers, NEW w, Moves(h, w), calls' \in 0..MaxCalls,
         overlapped' \in BOOLEAN,
         node' \in NodeType, cluster' \in ClusterType, granted' \subseteq Terms \X Peers,
         ~overlapped' => Votes' /\ Leads' /\ Coherent(w)'
  PROVE  RaftInv'
<1>1. RaftTypeOK'
  BY DEF RaftInv, RaftTypeOK, Moves, NodeType, ClusterType
<1>2. ASSUME ~overlapped' PROVE Alone' /\ \A g \in Handlers : Coherent(call[g])'
  <2>1. Alone' /\ call'[h] = w /\ \A g \in Handlers : g # h => call'[g] = NoCall
    BY <1>2, MovesAlone
  <2>2. ASSUME NEW g \in Handlers PROVE Coherent(call[g])'
    <3>1. CASE g = h
      BY <1>2, <2>1, <3>1 DEF Coherent
    <3>2. CASE g # h
      <4>1. call'[g] = NoCall /\ NoCall.step = "none"
        BY <2>1, <3>2 DEF NoCall
      <4> QED  BY <4>1 DEF Coherent
    <3> QED  BY <3>1, <3>2
  <2> QED  BY <2>1, <2>2
<1> QED  BY <1>1, <1>2 DEF RaftInv

LEMMA InitInv == RaftInit => RaftInv
<1> SUFFICES ASSUME RaftInit PROVE RaftInv
  OBVIOUS
<1>1. /\ node = FreshNode /\ cluster = FreshCluster /\ granted = {}
      /\ call = [h \in Handlers |-> NoCall] /\ calls = 0 /\ overlapped = FALSE
  BY DEF RaftInit
<1>2. NoCall \in Calls /\ NoCall.step = "none" /\ 0 \in Terms /\ 0 \in 0..MaxCalls
  BY RaftAssumption DEF Calls, NoCall, Terms
<1>3. RaftTypeOK
  BY <1>1, <1>2 DEF RaftTypeOK, FreshNode, FreshCluster
<1> QED  BY <1>1, <1>2, <1>3 DEF RaftInv, Alone, Votes, Leads, Coherent, FreshNode
-----------------------------------------------------------------------------
(* Requests that are taken up *)

\* A request is a move, whatever it asks.
LEMMA ReceiveMoves ==
  ASSUME RaftInv, NEW h \in Handlers, NEW w \in Calls, Receive(h, w)
  PROVE  /\ Moves(h, w) /\ calls' \in 0..MaxCalls /\ overlapped' \in BOOLEAN
         /\ granted' = granted /\ call[h] = NoCall
<1>1. calls' \in 0..MaxCalls
  BY RaftAssumption DEF RaftInv, RaftTypeOK, Receive
<1>2. overlapped' \in BOOLEAN
  BY Zenon DEF Receive
<1>3. Moves(h, w) /\ granted' = granted /\ call[h] = NoCall
  BY Zenon DEF Receive, Moves
<1> QED  BY <1>1, <1>2, <1>3

\* A step of a request is a move of a handler in flight.
LEMMA ResumeMoves ==
  ASSUME RaftInv, NEW h \in Handlers, NEW w \in Calls, Resume(h, w), call[h].step # "none"
  PROVE  Moves(h, w) /\ calls' \in 0..MaxCalls /\ overlapped' \in BOOLEAN
<1>1. call[h] # NoCall
  BY DEF NoCall
<1>2. calls' \in 0..MaxCalls
  BY DEF RaftInv, RaftTypeOK, Resume
<1>3. overlapped \in BOOLEAN
  BY DEF RaftInv, RaftTypeOK
<1>4. overlapped' = overlapped
  BY DEF Resume
<1>5. Moves(h, w)
  BY <1>1, <1>4 DEF Moves, Resume
<1>6. overlapped' \in BOOLEAN
  BY <1>3, <1>4, Zenon
<1> QED  BY <1>2, <1>5, <1>6

\* What the steps of h may rely on when nothing overlaps.
Solo(h) ==
  /\ Votes /\ Leads /\ Coherent(call[h])
  /\ \A g \in Handlers : g # h => call[g].step = "none"

LEMMA MovesSolo ==
  ASSUME RaftInv, NEW h \in Handlers, NEW w, Moves(h, w), ~overlapped'
  PROVE  Solo(h) /\ call'[h] = w
<1>1. ~overlapped /\ call'[h] = w /\ \A g \in Handlers : g # h => call[g] = NoCall
  BY MovesAlone
<1> QED  BY <1>1 DEF RaftInv, NoCall, Solo

\* A step that goes on with a request keeps the invariant if it does so when h is alone.
LEMMA ResumeKeeps ==
  ASSUME RaftInv, NEW h \in Handlers, NEW w \in Calls, Resume(h, w), call[h].step # "none",
         node' \in NodeType, cluster' \in ClusterType, granted' \subseteq Terms \X Peers,
         Solo(h) /\ call'[h] = w => Votes' /\ Leads' /\ Coherent(w)'
  PROVE  RaftInv'
<1>1. Moves(h, w) /\ calls' \in 0..MaxCalls /\ overlapped' \in BOOLEAN
  BY ResumeMoves
<1>2. ~overlapped' => Votes' /\ Leads' /\ Coherent(w)'
  BY <1>1, MovesSolo
<1> QED  BY <1>1, <1>2, StepKeeps

\* A request that is taken up keeps it if it leaves term and vote alone, and if it does so when the
\* leader names itself.
LEMMA ReceiveKeeps ==
  ASSUME RaftInv, NEW h \in Handlers, NEW w \in Calls, Receive(h, w),
         node' \in NodeType, cluster' \in ClusterType,
         node'.term = node.term, node'.voted = node.voted,
         (node.role = "leader" => cluster.leader = Self) /\ call'[h] = w => Leads' /\ Coherent(w)'
  PROVE  RaftInv'
<1>1. /\ Moves(h, w) /\ calls' \in 0..MaxCalls /\ overlapped' \in BOOLEAN
      /\ granted' = granted /\ call[h] = NoCall
  BY ReceiveMoves
<1>2. granted' \subseteq Terms \X Peers
  BY <1>1 DEF RaftInv, RaftTypeOK
<1>3. ASSUME ~overlapped' PROVE Votes' /\ Leads' /\ Coherent(w)'
  <2>1. Solo(h) /\ call'[h] = w
    BY <1>1, <1>3, MovesSolo
  <2>2. Votes'
    BY <1>1, <2>1 DEF Solo, Votes
  <2>3. NoCall.step = "none"
    BY DEF NoCall
  <2>4. node.role = "leader" => cluster.leader = Self
    BY <1>1, <2>1, <2>3 DEF Solo, Leads
  <2> QED  BY <2>1, <2>2, <2>4
<1> QED  BY <1>1, <1>2, <1>3, StepKeeps

\* The calls in flight by their steps.
LEMMA CallFacts ==
  /\ NoCall \in Calls /\ NoCall.step = "none"
  /\ \A s \in {"lead", "propose"} : [step |-> s] \in Calls /\ [step |-> s].step = s
<1> QED  BY DEF Calls, NoCall

LEMMA VoteCalls ==
  ASSUME NEW c \in Calls, c.step \in {"voteTerm", "voteRole", "voteClear", "voteCheck", "voteGrant"},
         NEW s \in {"voteTerm", "voteRole", "voteClear", "voteCheck", "voteGrant"}
  PROVE  /\ c.term \in Terms /\ c.cand \in Peers /\ [c EXCEPT !.step = s] \in Calls
         /\ [c EXCEPT !.step = s].step = s /\ [c EXCEPT !.step = s].term = c.term
         /\ [c EXCEPT !.step = s].cand = c.cand
<1>1. c \in [step : {"voteTerm", "voteRole", "voteClear", "voteCheck", "voteGrant"},
             term : Terms, cand : Peers]
  BY DEF Calls, NoCall
<1> QED  BY <1>1 DEF Calls

LEMMA AppendCalls ==
  ASSUME NEW c \in Calls, c.step \in {"appendTerm", "appendClear", "appendRole", "appendState", "appendEntry"},
         NEW s \in {"appendTerm", "appendClear", "appendRole", "appendState", "appendEntry"}
  PROVE  /\ c.term \in Terms /\ c.from \in Peers /\ [c EXCEPT !.step = s] \in Calls
         /\ [c EXCEPT !.step = s].step = s /\ [c EXCEPT !.step = s].term = c.term
<1>1. c \in [step : {"appendTerm", "appendClear", "appendRole", "appendState", "appendEntry"},
             term : Terms, from : Peers]
  BY DEF Calls, NoCall
<1> QED  BY <1>1 DEF Calls

\* The node and the cluster state have their types.
LEMMA NodeTypes ==
  ASSUME RaftInv
  PROVE  /\ node \in NodeType /\ cluster \in ClusterType /\ granted \subseteq Terms \X Peers
         /\ call \in [Handlers -> Calls]
<1> QED  BY DEF RaftInv, RaftTypeOK, NodeType, ClusterType
-----------------------------------------------------------------------------
(* One lemma per action *)

LEMMA StartNodeInv ==
  ASSUME RaftInv, NEW h \in Handlers, StartNode(h)
  PROVE  RaftInv'
<1>1. node \in NodeType /\ cluster \in ClusterType
  BY NodeTypes
<1>2. NoCall \in Calls
  BY CallFacts
<1>3. Receive(h, NoCall)
  BY DEF StartNode
<1>4. node' \in NodeType /\ node'.term = node.term /\ node'.voted = node.voted /\ node'.role = node.role
  BY <1>1 DEF StartNode, NodeType
<1>5. cluster' \in ClusterType /\ cluster'.leader = cluster.leader
  BY <1>1 DEF StartNode, ClusterType, Nodes
<1>6. (node.role = "leader" => cluster.leader = Self) => Leads'
  BY <1>4, <1>5 DEF Leads
<1>7. Coherent(NoCall)'
  BY CallFacts DEF Coherent
<1> QED  BY <1>2, <1>3, <1>4, <1>5, <1>6, <1>7, ReceiveKeeps

LEMMA StopNodeInv ==
  ASSUME RaftInv, NEW h \in Handlers, StopNode(h)
  PROVE  RaftInv'
<1>1. node \in NodeType /\ cluster \in ClusterType
  BY NodeTypes
<1>2. NoCall \in Calls
  BY CallFacts
<1>3. Receive(h, NoCall)
  BY DEF StopNode
<1>4. node' \in NodeType /\ node'.term = node.term /\ node'.voted = node.voted /\ node'.role = node.role
  BY <1>1 DEF StopNode, NodeType
<1>5. cluster' \in ClusterType /\ cluster'.leader = cluster.leader
  BY <1>1 DEF StopNode, ClusterType, Nodes
<1>6. (node.role = "leader" => cluster.leader = Self) => Leads'
  BY <1>4, <1>5 DEF Leads
<1>7. Coherent(NoCall)'
  BY CallFacts DEF Coherent
<1> QED  BY <1>2, <1>3, <1>4, <1>5, <1>6, <1>7, ReceiveKeeps

LEMMA StepDownInv ==
  ASSUME RaftInv, NEW h \in Handlers, StepDown(h)
  PROVE  RaftInv'
<1>1. node \in NodeType /\ cluster \in ClusterType
  BY NodeTypes
<1>2. NoCall \in Calls
  BY CallFacts
<1>3. Receive(h, NoCall)
  BY DEF StepDown
<1>4. node' \in NodeType /\ node'.term = node.term /\ node'.voted = node.voted /\ node'.role = "follower"
  BY <1>1 DEF StepDown, NodeType
<1>5. cluster' \in ClusterType /\ cluster'.leader = cluster.leader
  BY <1>1 DEF StepDown, ClusterType, Nodes
<1>6. (node.role = "leader" => cluster.leader = Self) => Leads'
  BY <1>4, <1>5 DEF Leads
<1>7. Coherent(NoCall)'
  BY CallFacts DEF Coherent
<1> QED  BY <1>2, <1>3, <1>4, <1>5, <1>6, <1>7, ReceiveKeeps

LEMMA ChangePeersInv ==
  ASSUME RaftInv, NEW h \in Handlers, ChangePeers(h)
  PROVE  RaftInv'
<1>1. node \in NodeType /\ cluster \in ClusterType
  BY NodeTypes
<1>2. NoCall \in Calls
  BY CallFacts
<1>3. Receive(h, NoCall)
  BY DEF ChangePeers
<1>4. node' \in NodeType /\ node'.term = node.term /\ node'.voted = node.voted /\ node'.role = node.role
  BY <1>1 DEF ChangePeers, NodeType
<1>5. cluster' \in ClusterType /\ cluster'.leader = cluster.leader
  BY <1>1 DEF ChangePeers, ClusterType, Nodes
<1>6. (node.role = "leader" => cluster.leader = Self) => Leads'
  BY <1>4, <1>5 DEF Leads
<1>7. Coherent(NoCall)'
  BY CallFacts DEF Coherent
<1> QED  BY <1>2, <1>3, <1>4, <1>5, <1>6, <1>7, ReceiveKeeps

LEMMA BecomeLeaderInv ==
  ASSUME RaftInv, NEW h \in Handlers, BecomeLeader(h)
  PROVE  RaftInv'
<1>1. node \in NodeType /\ cluster \in ClusterType
  BY NodeTypes
<1>2. [step |-> "lead"] \in Calls
  BY CallFacts
<1>3. Receive(h, [step |-> "lead"])
  BY DEF BecomeLeader
<1>4. node' \in NodeType /\ node'.term = node.term /\ node'.voted = node.voted /\ node'.role = "leader"
  BY <1>1 DEF BecomeLeader, NodeType
<1>5. cluster' \in ClusterType /\ cluster'.leader = cluster.leader
  BY <1>1 DEF BecomeLeader, ClusterType, Nodes
<1>6. call'[h] = [step |-> "lead"] => Leads'
  BY CallFacts DEF Leads
<1>7. Coherent([step |-> "lead"])'
  BY CallFacts DEF Coherent
<1> QED  BY <1>2, <1>3, <1>4, <1>5, <1>6, <1>7, ReceiveKeeps

LEMMA VoteRequestInv ==
  ASSUME RaftInv, NEW h \in Handlers, VoteRequest(h)
  PROVE  RaftInv'
<1>1. PICK t \in Terms, c \in Peers :
        /\ Receive(h, IF t < node.term THEN NoCall
                      ELSE [step |-> IF t > node.term THEN "voteTerm" ELSE "voteCheck", term |-> t, cand |-> c])
        /\ UNCHANGED <<node, cluster>>
  BY DEF VoteRequest
<1>2. PICK w \in Calls :
        w = IF t < node.term THEN NoCall
            ELSE [step |-> IF t > node.term THEN "voteTerm" ELSE "voteCheck", term |-> t, cand |-> c]
  BY CallFacts DEF Calls
<1>3. Coherent(w)'
  <2>1. node' = node /\ node.term \in Int /\ t \in Int
    BY <1>1, NodeTypes, RaftAssumption DEF NodeType, Terms
  <2>2. CASE t < node.term
    BY <1>2, <2>2, CallFacts DEF Coherent
  <2>3. CASE t > node.term
    BY <1>2, <2>1, <2>3 DEF Coherent
  <2>4. CASE t = node.term
    BY <1>2, <2>1, <2>4 DEF Coherent
  <2> QED  BY <2>1, <2>2, <2>3, <2>4
<1>4. node' \in NodeType /\ cluster' \in ClusterType /\ node' = node /\ cluster' = cluster
  BY <1>1, NodeTypes
<1>5. (node.role = "leader" => cluster.leader = Self) => Leads'
  BY <1>4 DEF Leads
<1>6. Receive(h, w)
  BY <1>1, <1>2
<1> QED  BY <1>2, <1>3, <1>4, <1>5, <1>6, ReceiveKeeps

LEMMA AppendRequestInv ==
  ASSUME RaftInv, NEW h \in Handlers, AppendRequest(h)
  PROVE  RaftInv'
<1>1. PICK t \in Terms, n \in Peers :
        /\ Receive(h, IF t < node.term THEN NoCall
                      ELSE [step |-> IF t > node.term THEN "appendTerm" ELSE "appendRole", term |-> t, from |-> n])
        /\ UNCHANGED <<node, cluster>>
  BY DEF AppendRequest
<1>2. PICK w \in Calls :
        w = IF t < node.term THEN NoCall
            ELSE [step |-> IF t > node.term THEN "appendTerm" ELSE "appendRole", term |-> t, from |-> n]
  BY CallFacts DEF Calls
<1>3. Coherent(w)'
  <2>1. node' = node /\ node.term \in Int /\ t \in Int
    BY <1>1, NodeTypes, RaftAssumption DEF NodeType, Terms
  <2>2. CASE t < node.term
    BY <1>2, <2>2, CallFacts DEF Coherent
  <2>3. CASE t > node.term
    BY <1>2, <2>1, <2>3 DEF Coherent
  <2>4. CASE t = node.term
    BY <1>2, <2>1, <2>4 DEF Coherent
  <2> QED  BY <2>1, <2>2, <2>3, <2>4
<1>4. node' \in NodeType /\ cluster' \in ClusterType /\ node' = node /\ cluster' = cluster
  BY <1>1, NodeTypes
<1>5. (node.role = "leader" => cluster.leader = Self) => Leads'
  BY <1>4 DEF Leads
<1>6. Receive(h, w)
  BY <1>1, <1>2
<1> QED  BY <1>2, <1>3, <1>4, <1>5, <1>6, ReceiveKeeps

LEMMA ProposeInv ==
  ASSUME RaftInv, NEW h \in Handlers, Propose(h)
  PROVE  RaftInv'
<1>1. PICK w \in Calls : /\ w = IF node.role = "leader" THEN [step |-> "propose"] ELSE NoCall
                         /\ w.step \in {"propose", "none"}
  BY CallFacts
<1>2. Receive(h, w) /\ node' = node /\ cluster' = cluster
  BY <1>1 DEF Propose
<1>3. Coherent(w)'
  BY <1>1 DEF Coherent
<1>4. node' \in NodeType /\ cluster' \in ClusterType
  BY <1>2, NodeTypes
<1>5. (node.role = "leader" => cluster.leader = Self) => Leads'
  BY <1>2 DEF Leads
<1> QED  BY <1>1, <1>2, <1>3, <1>4, <1>5, ReceiveKeeps

LEMMA SetLeaderInv ==
  ASSUME RaftInv, NEW h \in Handlers, SetLeader(h)
  PROVE  RaftInv'
<1>1. call[h].step = "lead" /\ Resume(h, NoCall) /\ granted' = granted /\ node' = node
  BY DEF SetLeader, At, Done
<1>2. cluster' \in ClusterType /\ cluster'.leader = Self
  BY NodeTypes DEF SetLeader, ClusterType, Nodes
<1>3. Votes /\ granted' = granted /\ node' = node => Votes'
  BY DEF Votes
<1>4. Leads' /\ Coherent(NoCall)'
  BY <1>2, CallFacts DEF Leads, Coherent
<1> QED  BY <1>1, <1>2, <1>3, <1>4, CallFacts, NodeTypes, ResumeKeeps DEF Solo

LEMMA VoteTermInv ==
  ASSUME RaftInv, NEW h \in Handlers, VoteTerm(h)
  PROVE  RaftInv'
<1>1. PICK c \in Calls : c = call[h] /\ c.step = "voteTerm"
  BY NodeTypes DEF VoteTerm, At
<1>2. PICK w \in Calls : w = [c EXCEPT !.step = "voteRole"] /\ w.step = "voteRole" /\ w.term = c.term /\ c.term \in Terms
  <2>1. /\ [c EXCEPT !.step = "voteRole"] \in Calls /\ [c EXCEPT !.step = "voteRole"].term = c.term
        /\ [c EXCEPT !.step = "voteRole"].step = "voteRole" /\ c.term \in Terms
    BY <1>1, VoteCalls
  <2> QED  BY <1>1, <2>1
<1>3. node \in NodeType /\ cluster \in ClusterType /\ granted \subseteq Terms \X Peers
  BY NodeTypes
<1>4. /\ node' \in NodeType /\ cluster' \in ClusterType
      /\ node'.term = c.term /\ node'.voted = node.voted /\ node'.role = node.role /\ cluster'.leader = cluster.leader
  BY <1>1, <1>2, <1>3 DEF VoteTerm, NodeType, ClusterType
<1>5. Resume(h, w) /\ granted' = granted
  BY <1>1, <1>2 DEF VoteTerm, Goto
<1>6. ASSUME Solo(h), call'[h] = w PROVE Votes' /\ Leads' /\ Coherent(w)'
  <2>1. Votes /\ Leads /\ Coherent(c) /\ node.term \in Int /\ c.term \in Int
    BY <1>1, <1>2, <1>3, <1>6, RaftAssumption DEF Solo, NodeType, Terms
  <2>2. \A v \in granted : v[1] \in Int /\ v[2] \in Peers
    BY <1>3, RaftAssumption DEF Terms
  <2>3. Votes'
    BY <1>1, <1>4, <1>5, <2>1, <2>2 DEF Votes, Coherent
  <2>4. Leads'
    BY <1>1, <1>4, <1>6, <2>1 DEF Solo, Leads, Coherent
  <2>5. Coherent(w)'
    BY <1>1, <1>2, <1>4, <1>5, <2>1, <2>2 DEF Votes, Coherent
  <2> QED  BY <2>3, <2>4, <2>5
<1> QED  BY <1>1, <1>2, <1>3, <1>4, <1>5, <1>6, ResumeKeeps

LEMMA VoteRoleInv ==
  ASSUME RaftInv, NEW h \in Handlers, VoteRole(h)
  PROVE  RaftInv'
<1>1. PICK c \in Calls : c = call[h] /\ c.step = "voteRole"
  BY NodeTypes DEF VoteRole, At
<1>2. PICK w \in Calls : w = [c EXCEPT !.step = "voteClear"] /\ w.step = "voteClear" /\ w.term = c.term /\ c.term \in Terms
  <2>1. /\ [c EXCEPT !.step = "voteClear"] \in Calls /\ [c EXCEPT !.step = "voteClear"].term = c.term
        /\ [c EXCEPT !.step = "voteClear"].step = "voteClear" /\ c.term \in Terms
    BY <1>1, VoteCalls
  <2> QED  BY <1>1, <2>1
<1>3. node \in NodeType /\ cluster \in ClusterType /\ granted \subseteq Terms \X Peers
  BY NodeTypes
<1>4. /\ node' \in NodeType /\ cluster' \in ClusterType
      /\ node'.term = node.term /\ node'.voted = node.voted /\ node'.role = "follower" /\ cluster'.leader = cluster.leader
  BY <1>1, <1>2, <1>3 DEF VoteRole, NodeType, ClusterType
<1>5. Resume(h, w) /\ granted' = granted
  BY <1>1, <1>2 DEF VoteRole, Goto
<1>6. ASSUME Solo(h), call'[h] = w PROVE Votes' /\ Leads' /\ Coherent(w)'
  <2>1. Votes /\ Leads /\ Coherent(c) /\ node.term \in Int /\ c.term \in Int
    BY <1>1, <1>2, <1>3, <1>6, RaftAssumption DEF Solo, NodeType, Terms
  <2>2. \A v \in granted : v[1] \in Int /\ v[2] \in Peers
    BY <1>3, RaftAssumption DEF Terms
  <2>3. Votes'
    BY <1>1, <1>4, <1>5, <2>1, <2>2 DEF Votes, Coherent
  <2>4. Leads'
    BY <1>1, <1>4, <1>6, <2>1 DEF Solo, Leads, Coherent
  <2>5. Coherent(w)'
    BY <1>1, <1>2, <1>4, <1>5, <2>1, <2>2 DEF Votes, Coherent
  <2> QED  BY <2>3, <2>4, <2>5
<1> QED  BY <1>1, <1>2, <1>3, <1>4, <1>5, <1>6, ResumeKeeps

LEMMA VoteClearInv ==
  ASSUME RaftInv, NEW h \in Handlers, VoteClear(h)
  PROVE  RaftInv'
<1>1. PICK c \in Calls : c = call[h] /\ c.step = "voteClear"
  BY NodeTypes DEF VoteClear, At
<1>2. PICK w \in Calls : w = [c EXCEPT !.step = "voteCheck"] /\ w.step = "voteCheck" /\ w.term = c.term /\ c.term \in Terms
  <2>1. /\ [c EXCEPT !.step = "voteCheck"] \in Calls /\ [c EXCEPT !.step = "voteCheck"].term = c.term
        /\ [c EXCEPT !.step = "voteCheck"].step = "voteCheck" /\ c.term \in Terms
    BY <1>1, VoteCalls
  <2> QED  BY <1>1, <2>1
<1>3. node \in NodeType /\ cluster \in ClusterType /\ granted \subseteq Terms \X Peers
  BY NodeTypes
<1>4. /\ node' \in NodeType /\ cluster' \in ClusterType
      /\ node'.term = node.term /\ node'.voted = NoNode /\ node'.role = node.role /\ cluster'.leader = cluster.leader
  BY <1>1, <1>2, <1>3 DEF VoteClear, NodeType, ClusterType
<1>5. Resume(h, w) /\ granted' = granted
  BY <1>1, <1>2 DEF VoteClear, Goto
<1>6. ASSUME Solo(h), call'[h] = w PROVE Votes' /\ Leads' /\ Coherent(w)'
  <2>1. Votes /\ Leads /\ Coherent(c) /\ node.term \in Int /\ c.term \in Int
    BY <1>1, <1>2, <1>3, <1>6, RaftAssumption DEF Solo, NodeType, Terms
  <2>2. \A v \in granted : v[1] \in Int /\ v[2] \in Peers
    BY <1>3, RaftAssumption DEF Terms
  <2>3. Votes'
    BY <1>1, <1>4, <1>5, <2>1, <2>2 DEF Votes, Coherent
  <2>4. Leads'
    BY <1>1, <1>4, <1>6, <2>1 DEF Solo, Leads, Coherent
  <2>5. Coherent(w)'
    BY <1>1, <1>2, <1>4, <1>5, <2>1, <2>2 DEF Votes, Coherent
  <2> QED  BY <2>3, <2>4, <2>5
<1> QED  BY <1>1, <1>2, <1>3, <1>4, <1>5, <1>6, ResumeKeeps

LEMMA AppendTermInv ==
  ASSUME RaftInv, NEW h \in Handlers, AppendTerm(h)
  PROVE  RaftInv'
<1>1. PICK c \in Calls : c = call[h] /\ c.step = "appendTerm"
  BY NodeTypes DEF AppendTerm, At
<1>2. PICK w \in Calls : w = [c EXCEPT !.step = "appendClear"] /\ w.step = "appendClear" /\ w.term = c.term /\ c.term \in Terms
  <2>1. c.step \in {"appendTerm", "appendClear", "appendRole", "appendState", "appendEntry"}
    BY <1>1
  <2>2. /\ c.term \in Terms /\ c.from \in Peers /\ [c EXCEPT !.step = "appendClear"] \in Calls
        /\ [c EXCEPT !.step = "appendClear"].step = "appendClear"
        /\ [c EXCEPT !.step = "appendClear"].term = c.term
    BY <2>1, AppendCalls
  <2> QED  BY <2>2
<1>3. node \in NodeType /\ cluster \in ClusterType /\ granted \subseteq Terms \X Peers
  BY NodeTypes
<1>4. /\ node' \in NodeType /\ cluster' \in ClusterType
      /\ node'.term = c.term /\ node'.voted = node.voted /\ node'.role = node.role /\ cluster'.leader = cluster.leader
  BY <1>1, <1>2, <1>3 DEF AppendTerm, NodeType, ClusterType
<1>5. Resume(h, w) /\ granted' = granted
  BY <1>1, <1>2 DEF AppendTerm, Goto
<1>6. ASSUME Solo(h), call'[h] = w PROVE Votes' /\ Leads' /\ Coherent(w)'
  <2>1. Votes /\ Leads /\ Coherent(c) /\ node.term \in Int /\ c.term \in Int
    BY <1>1, <1>2, <1>3, <1>6, RaftAssumption DEF Solo, NodeType, Terms
  <2>2. \A v \in granted : v[1] \in Int /\ v[2] \in Peers
    BY <1>3, RaftAssumption DEF Terms
  <2>3. Votes'
    BY <1>1, <1>4, <1>5, <2>1, <2>2 DEF Votes, Coherent
  <2>4. Leads'
    BY <1>1, <1>4, <1>6, <2>1 DEF Solo, Leads, Coherent
  <2>5. Coherent(w)'
    BY <1>1, <1>2, <1>4, <1>5, <2>1, <2>2 DEF Votes, Coherent
  <2> QED  BY <2>3, <2>4, <2>5
<1> QED  BY <1>1, <1>2, <1>3, <1>4, <1>5, <1>6, ResumeKeeps

LEMMA AppendClearInv ==
  ASSUME RaftInv, NEW h \in Handlers, AppendClear(h)
  PROVE  RaftInv'
<1>1. PICK c \in Calls : c = call[h] /\ c.step = "appendClear"
  BY NodeTypes DEF AppendClear, At
<1>2. PICK w \in Calls : w = [c EXCEPT !.step = "appendRole"] /\ w.step = "appendRole" /\ w.term = c.term /\ c.term \in Terms
  <2>1. c.step \in {"appendTerm", "appendClear", "appendRole", "appendState", "appendEntry"}
    BY <1>1
  <2>2. /\ c.term \in Terms /\ c.from \in Peers /\ [c EXCEPT !.step = "appendRole"] \in Calls
        /\ [c EXCEPT !.step = "appendRole"].step = "appendRole"
        /\ [c EXCEPT !.step = "appendRole"].term = c.term
    BY <2>1, AppendCalls
  <2> QED  BY <2>2
<1>3. node \in NodeType /\ cluster \in ClusterType /\ granted \subseteq Terms \X Peers
  BY NodeTypes
<1>4. /\ node' \in NodeType /\ cluster' \in ClusterType
      /\ node'.term = node.term /\ node'.voted = NoNode /\ node'.role = node.role /\ cluster'.leader = cluster.leader
  BY <1>1, <1>2, <1>3 DEF AppendClear, NodeType, ClusterType
<1>5. Resume(h, w) /\ granted' = granted
  BY <1>1, <1>2 DEF AppendClear, Goto
<1>6. ASSUME Solo(h), call'[h] = w PROVE Votes' /\ Leads' /\ Coherent(w)'
  <2>1. Votes /\ Leads /\ Coherent(c) /\ node.term \in Int /\ c.term \in Int
    BY <1>1, <1>2, <1>3, <1>6, RaftAssumption DEF Solo, NodeType, Terms
  <2>2. \A v \in granted : v[1] \in Int /\ v[2] \in Peers
    BY <1>3, RaftAssumption DEF Terms
  <2>3. Votes'
    BY <1>1, <1>4, <1>5, <2>1, <2>2 DEF Votes, Coherent
  <2>4. Leads'
    BY <1>1, <1>4, <1>6, <2>1 DEF Solo, Leads, Coherent
  <2>5. Coherent(w)'
    BY <1>1, <1>2, <1>4, <1>5, <2>1, <2>2 DEF Votes, Coherent
  <2> QED  BY <2>3, <2>4, <2>5
<1> QED  BY <1>1, <1>2, <1>3, <1>4, <1>5, <1>6, ResumeKeeps

LEMMA AppendRoleInv ==
  ASSUME RaftInv, NEW h \in Handlers, AppendRole(h)
  PROVE  RaftInv'
<1>1. PICK c \in Calls : c = call[h] /\ c.step = "appendRole"
  BY NodeTypes DEF AppendRole, At
<1>2. PICK w \in Calls : w = [c EXCEPT !.step = "appendState"] /\ w.step = "appendState" /\ w.term = c.term /\ c.term \in Terms
  <2>1. c.step \in {"appendTerm", "appendClear", "appendRole", "appendState", "appendEntry"}
    BY <1>1
  <2>2. /\ c.term \in Terms /\ c.from \in Peers /\ [c EXCEPT !.step = "appendState"] \in Calls
        /\ [c EXCEPT !.step = "appendState"].step = "appendState"
        /\ [c EXCEPT !.step = "appendState"].term = c.term
    BY <2>1, AppendCalls
  <2> QED  BY <2>2
<1>3. node \in NodeType /\ cluster \in ClusterType /\ granted \subseteq Terms \X Peers
  BY NodeTypes
<1>4. /\ node' \in NodeType /\ cluster' \in ClusterType
      /\ node'.term = node.term /\ node'.voted = node.voted /\ node'.role = "follower" /\ cluster'.leader = cluster.leader
  BY <1>1, <1>2, <1>3 DEF AppendRole, NodeType, ClusterType
<1>5. Resume(h, w) /\ granted' = granted
  BY <1>1, <1>2 DEF AppendRole, Goto
<1>6. ASSUME Solo(h), call'[h] = w PROVE Votes' /\ Leads' /\ Coherent(w)'
  <2>1. Votes /\ Leads /\ Coherent(c) /\ node.term \in Int /\ c.term \in Int
    BY <1>1, <1>2, <1>3, <1>6, RaftAssumption DEF Solo, NodeType, Terms
  <2>2. \A v \in granted : v[1] \in Int /\ v[2] \in Peers
    BY <1>3, RaftAssumption DEF Terms
  <2>3. Votes'
    BY <1>1, <1>4, <1>5, <2>1, <2>2 DEF Votes, Coherent
  <2>4. Leads'
    BY <1>1, <1>4, <1>6, <2>1 DEF Solo, Leads, Coherent
  <2>5. Coherent(w)'
    BY <1>1, <1>2, <1>4, <1>5, <2>1, <2>2 DEF Votes, Coherent
  <2> QED  BY <2>3, <2>4, <2>5
<1> QED  BY <1>1, <1>2, <1>3, <1>4, <1>5, <1>6, ResumeKeeps

LEMMA AppendStateInv ==
  ASSUME RaftInv, NEW h \in Handlers, AppendState(h)
  PROVE  RaftInv'
<1>1. PICK c \in Calls : c = call[h] /\ c.step = "appendState"
  BY NodeTypes DEF AppendState, At
<1>2. PICK w \in Calls : w = [c EXCEPT !.step = "appendEntry"] /\ w.step = "appendEntry" /\ w.term = c.term /\ c.term \in Terms /\ c.from \in Peers
  <2>1. c.step \in {"appendTerm", "appendClear", "appendRole", "appendState", "appendEntry"}
    BY <1>1
  <2>2. /\ c.term \in Terms /\ c.from \in Peers /\ [c EXCEPT !.step = "appendEntry"] \in Calls
        /\ [c EXCEPT !.step = "appendEntry"].step = "appendEntry"
        /\ [c EXCEPT !.step = "appendEntry"].term = c.term
    BY <2>1, AppendCalls
  <2> QED  BY <2>2
<1>3. node \in NodeType /\ cluster \in ClusterType /\ granted \subseteq Terms \X Peers
  BY NodeTypes
<1>4. /\ node' \in NodeType /\ cluster' \in ClusterType
      /\ node'.term = node.term /\ node'.voted = node.voted /\ node'.role = node.role /\ cluster'.leader = c.from
  BY <1>1, <1>2, <1>3 DEF AppendState, NodeType, ClusterType, Nodes
<1>5. Resume(h, w) /\ granted' = granted
  BY <1>1, <1>2 DEF AppendState, Goto
<1>6. ASSUME Solo(h), call'[h] = w PROVE Votes' /\ Leads' /\ Coherent(w)'
  <2>1. Votes /\ Leads /\ Coherent(c) /\ node.term \in Int /\ c.term \in Int
    BY <1>1, <1>2, <1>3, <1>6, RaftAssumption DEF Solo, NodeType, Terms
  <2>2. \A v \in granted : v[1] \in Int /\ v[2] \in Peers
    BY <1>3, RaftAssumption DEF Terms
  <2>3. Votes'
    BY <1>1, <1>4, <1>5, <2>1, <2>2 DEF Votes, Coherent
  <2>4. Leads'
    BY <1>1, <1>4, <1>6, <2>1 DEF Solo, Leads, Coherent
  <2>5. Coherent(w)'
    BY <1>1, <1>2, <1>4, <1>5, <2>1, <2>2 DEF Votes, Coherent
  <2> QED  BY <2>3, <2>4, <2>5
<1> QED  BY <1>1, <1>2, <1>3, <1>4, <1>5, <1>6, ResumeKeeps

LEMMA VoteCheckInv ==
  ASSUME RaftInv, NEW h \in Handlers, VoteCheck(h)
  PROVE  RaftInv'
<1>1. PICK c \in Calls : c = call[h] /\ c.step = "voteCheck"
  BY NodeTypes DEF VoteCheck, At
<1>2. node' = node /\ cluster' = cluster /\ granted' = granted
  BY DEF VoteCheck, Goto, Done
<1>3. node' \in NodeType /\ cluster' \in ClusterType /\ granted' \subseteq Terms \X Peers
  BY <1>2, NodeTypes
<1>4. Solo(h) => Votes'
  BY <1>2 DEF Solo, Votes
<1>5. Solo(h) => Leads'
  BY <1>1, <1>2 DEF Solo, Leads
<1>6. CASE node.voted \in {NoNode, c.cand}
  <2>1. PICK w \in Calls : w = [c EXCEPT !.step = "voteGrant"] /\ w.step = "voteGrant"
                           /\ w.term = c.term /\ w.cand = c.cand
    <3>1. /\ [c EXCEPT !.step = "voteGrant"] \in Calls
          /\ [c EXCEPT !.step = "voteGrant"].step = "voteGrant"
          /\ [c EXCEPT !.step = "voteGrant"].term = c.term
          /\ [c EXCEPT !.step = "voteGrant"].cand = c.cand
      BY <1>1, VoteCalls
    <3> QED  BY <3>1
  <2>2. Resume(h, w)
    BY <1>1, <1>6, <2>1 DEF VoteCheck, Goto
  <2>3. Solo(h) => Coherent(w)'
    BY <1>1, <1>2, <1>6, <2>1 DEF Solo, Coherent
  <2> QED  BY <1>1, <1>3, <1>4, <1>5, <2>2, <2>3, ResumeKeeps
<1>7. CASE node.voted \notin {NoNode, c.cand}
  <2>1. Resume(h, NoCall)
    BY <1>1, <1>7 DEF VoteCheck, Done
  <2>2. Coherent(NoCall)'
    BY CallFacts DEF Coherent
  <2> QED  BY <1>1, <1>3, <1>4, <1>5, <2>1, <2>2, CallFacts, ResumeKeeps
<1> QED  BY <1>6, <1>7

\* The vote of the current term is free, or it was given to the same candidate.
LEMMA VoteGrantInv ==
  ASSUME RaftInv, NEW h \in Handlers, VoteGrant(h)
  PROVE  RaftInv'
<1>1. PICK c \in Calls : c = call[h] /\ c.step = "voteGrant"
  BY NodeTypes DEF VoteGrant, At
<1>2. c.term \in Terms /\ c.cand \in Peers
  BY <1>1, VoteCalls
<1>3. node \in NodeType /\ cluster \in ClusterType /\ granted \subseteq Terms \X Peers
  BY NodeTypes
<1>4. /\ node' \in NodeType /\ cluster' = cluster
      /\ node'.term = node.term /\ node'.voted = c.cand /\ node'.role = node.role
  BY <1>1, <1>2, <1>3 DEF VoteGrant, NodeType
<1>5. granted' = granted \cup {<<c.term, c.cand>>} /\ Resume(h, NoCall)
  BY <1>1 DEF VoteGrant
<1>6. granted' \subseteq Terms \X Peers
  BY <1>2, <1>3, <1>5
<1>7. ASSUME Solo(h) PROVE Votes' /\ Leads'
  <2>1. Votes /\ Leads /\ Coherent(c) /\ c.term \in Int
    BY <1>1, <1>2, <1>7, RaftAssumption DEF Solo, Terms
  <2>2. c.term = node.term /\ node.voted \in {NoNode, c.cand}
    BY <1>1, <2>1 DEF Coherent
  <2>3. \A v \in granted : v[1] \in Int /\ v[2] # NoNode
    BY <1>3, RaftAssumption DEF Terms, Nodes
  <2>4. \A v \in granted : v[1] <= node.term /\ (v[1] = node.term => v[2] = c.cand)
    BY <2>1, <2>2, <2>3 DEF Votes
  <2>5. Votes'
    BY <1>4, <1>5, <2>1, <2>2, <2>4 DEF Votes
  <2>6. Leads'
    BY <1>1, <1>4, <1>7, <2>1 DEF Solo, Leads
  <2> QED  BY <2>5, <2>6
<1>8. Coherent(NoCall)'
  BY CallFacts DEF Coherent
<1> QED  BY <1>1, <1>3, <1>4, <1>5, <1>6, <1>7, <1>8, CallFacts, ResumeKeeps

\* Applying an entry names no leader.
LEMMA AppliedKeepsLeader ==
  ASSUME cluster \in ClusterType, NEW e \in LogEntries, NEW i \in {0, 1}
  PROVE  AppliedTo(cluster, e, i) \in ClusterType /\ AppliedTo(cluster, e, i).leader = cluster.leader
<1>1. CASE e \in Memberships
  <2>1. e.who \in Nodes /\ e.kind \in {"AddVoter", "AddLearner", "RemoveMember", "PromoteLearner"}
    BY <1>1 DEF Memberships
  <2>2. \A old \in {"absent", "leader", "follower", "learner"} :
          Member(e, old) \in {"absent", "leader", "follower", "learner"}
    BY <2>1 DEF Member
  <2> QED  BY <1>1, <2>1, <2>2 DEF AppliedTo, ClusterType
<1>2. CASE e \notin Memberships
  BY <1>2 DEF AppliedTo, ClusterType
<1> QED  BY <1>1, <1>2

LEMMA AppendEntryInv ==
  ASSUME RaftInv, NEW h \in Handlers, AppendEntry(h)
  PROVE  RaftInv'
<1>1. call[h].step = "appendEntry" /\ Resume(h, NoCall) /\ granted' = granted /\ node' = node
  BY DEF AppendEntry, At, Done
<1>2. PICK e \in LogEntries : cluster' = AppliedTo(cluster, e, 1)
  BY DEF AppendEntry
<1>3. cluster' \in ClusterType /\ cluster'.leader = cluster.leader
  BY <1>2, NodeTypes, AppliedKeepsLeader
<1>4. Solo(h) => Votes'
  BY <1>1 DEF Solo, Votes
<1>5. Solo(h) => Leads'
  BY <1>1, <1>3 DEF Solo, Leads
<1>6. Coherent(NoCall)'
  BY CallFacts DEF Coherent
<1> QED  BY <1>1, <1>3, <1>4, <1>5, <1>6, CallFacts, NodeTypes, ResumeKeeps

LEMMA ProposeApplyInv ==
  ASSUME RaftInv, NEW h \in Handlers, ProposeApply(h)
  PROVE  RaftInv'
<1>1. call[h].step = "propose" /\ Resume(h, NoCall) /\ granted' = granted /\ node' = node
  BY DEF ProposeApply, At, Done
<1>2. PICK e \in LogEntries :
        cluster' = IF node.role = "leader" THEN AppliedTo(cluster, e, 0) ELSE cluster
  BY DEF ProposeApply
<1>3. cluster' \in ClusterType /\ cluster'.leader = cluster.leader
  BY <1>2, NodeTypes, AppliedKeepsLeader
<1>4. Solo(h) => Votes'
  BY <1>1 DEF Solo, Votes
<1>5. Solo(h) => Leads'
  BY <1>1, <1>3 DEF Solo, Leads
<1>6. Coherent(NoCall)'
  BY CallFacts DEF Coherent
<1> QED  BY <1>1, <1>3, <1>4, <1>5, <1>6, CallFacts, NodeTypes, ResumeKeeps

\* A process that starts anew remembers nothing, its votes included.
LEMMA RestartInv ==
  ASSUME RaftInv, Restart
  PROVE  RaftInv'
<1>1. /\ node' = FreshNode /\ cluster' = FreshCluster /\ granted' = {}
      /\ call' = [h \in Handlers |-> NoCall] /\ overlapped' = FALSE
  BY DEF Restart
<1>2. calls' \in 0..MaxCalls /\ 0 \in Terms
  BY RaftAssumption DEF Restart, RaftInv, RaftTypeOK, Terms
<1>3. RaftTypeOK'
  BY <1>1, <1>2, CallFacts DEF RaftTypeOK, FreshNode, FreshCluster
<1> QED  BY <1>1, <1>3, CallFacts DEF RaftInv, Alone, Votes, Leads, Coherent, FreshNode

LEMMA NextInv == RaftInv /\ [RaftNext]_raftVars => RaftInv'
<1> SUFFICES ASSUME RaftInv, [RaftNext]_raftVars PROVE RaftInv'
  OBVIOUS
<1>1. CASE UNCHANGED raftVars
  BY <1>1 DEF raftVars, RaftInv, RaftTypeOK, Alone, Votes, Leads, Coherent
<1>2. CASE Restart
  BY <1>2, RestartInv
<1>3. ASSUME NEW h \in Handlers,
             \/ StartNode(h) \/ StopNode(h) \/ BecomeLeader(h) \/ SetLeader(h)
             \/ StepDown(h) \/ VoteRequest(h) \/ VoteTerm(h) \/ VoteRole(h)
             \/ VoteClear(h) \/ VoteCheck(h) \/ VoteGrant(h) \/ AppendRequest(h)
             \/ AppendTerm(h) \/ AppendClear(h) \/ AppendRole(h) \/ AppendState(h)
             \/ AppendEntry(h) \/ Propose(h) \/ ProposeApply(h) \/ ChangePeers(h)
      PROVE  RaftInv'
  <2>1. CASE StartNode(h) \/ StopNode(h) \/ BecomeLeader(h) \/ SetLeader(h)
    BY <2>1, StartNodeInv, StopNodeInv, BecomeLeaderInv, SetLeaderInv
  <2>2. CASE StepDown(h) \/ VoteRequest(h) \/ VoteTerm(h) \/ VoteRole(h)
    BY <2>2, StepDownInv, VoteRequestInv, VoteTermInv, VoteRoleInv
  <2>3. CASE VoteClear(h) \/ VoteCheck(h) \/ VoteGrant(h) \/ AppendRequest(h)
    BY <2>3, VoteClearInv, VoteCheckInv, VoteGrantInv, AppendRequestInv
  <2>4. CASE AppendTerm(h) \/ AppendClear(h) \/ AppendRole(h) \/ AppendState(h)
    BY <2>4, AppendTermInv, AppendClearInv, AppendRoleInv, AppendStateInv
  <2>5. CASE AppendEntry(h) \/ Propose(h) \/ ProposeApply(h) \/ ChangePeers(h)
    BY <2>5, AppendEntryInv, ProposeInv, ProposeApplyInv, ChangePeersInv
  <2> QED  BY <1>3, <2>1, <2>2, <2>3, <2>4, <2>5
<1> QED  BY <1>1, <1>2, <1>3 DEF RaftNext
-----------------------------------------------------------------------------
(* The theorems *)

\* The invariant holds in every state.
THEOREM RaftSafe == RaftSpec => []RaftInv
<1> QED  BY InitInv, NextInv, PTL DEF RaftSpec

\* Every variable of the node keeps its type: the role, the term and the vote, the members and the
\* requests in flight, whatever order requests and steps come in.
THEOREM RaftTypeCorrect == RaftSpec => []RaftTypeOK
<1>1. RaftInv => RaftTypeOK
  BY DEF RaftInv
<1> QED  BY <1>1, RaftSafe, PTL

\* Requests that do not overlap grant one vote per term and leave one leader: a node that accepts
\* proposals and has no request in flight names itself.
THEOREM OneVoteOneLeaderHolds == RaftSpec => []OneVoteOneLeader
<1>1. RaftInv => OneVoteOneLeader
  <2> SUFFICES ASSUME RaftInv, ~overlapped PROVE OneVoteOneLeader
    BY DEF OneVoteOneLeader
  <2>1. Votes /\ Leads
    BY DEF RaftInv
  <2>2. node.role = "leader" /\ (\A h \in Handlers : call[h] = NoCall) => cluster.leader = Self
    BY <2>1, CallFacts DEF Leads
  <2> QED  BY <2>1, <2>2 DEF OneVoteOneLeader, Votes
<1> QED  BY <1>1, RaftSafe, PTL
=============================================================================
