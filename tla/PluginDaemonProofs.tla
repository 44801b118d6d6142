------------------------- MODULE PluginDaemonProofs -------------------------
(***************************************************************************)
(* Proofs about PluginDaemon for any number of callers, handles, calls and *)
(* lines: the state keeps its types, one handle serves all requests, and a *)
(* response reaches the call it answers.                                   *)
(***************************************************************************)
EXTENDS PluginDaemon, TLAPS

Busy == {"write", "read", "reply"}

(***************************************************************************)
(* Facts about the lines in a pipe                                         *)
(***************************************************************************)

\* No line of s is a response.
Quiet(s) == \A i \in 1..Len(s) : s[i].kind = "noise"

\* Exactly one line of s is a response, and it answers r.
Answers(s, r) ==
  \E i \in 1..Len(s) :
    /\ s[i].req = r
    /\ \A j \in 1..Len(s) : j # i => s[j].kind = "noise"

\* Noise keeps a pipe without responses that way.
LEMMA NoiseIsQuiet ==
  ASSUME NEW s \in Seq(Lines), Quiet(s), NEW l \in Lines, l.kind = "noise"
  PROVE  Quiet(Append(s, l))
BY DEF Quiet

\* The first response in a quiet pipe is its only one.
LEMMA FirstAnswer ==
  ASSUME NEW s \in Seq(Lines), Quiet(s), NEW l \in Lines, NEW r, l.req = r
  PROVE  Answers(Append(s, l), r)
<1>1. Append(s, l)[Len(s) + 1] = l /\ Len(s) + 1 \in 1..Len(Append(s, l))
  OBVIOUS
<1>2. \A j \in 1..Len(Append(s, l)) : j # Len(s) + 1 => Append(s, l)[j].kind = "noise"
  BY DEF Quiet
<1> QED
  BY <1>1, <1>2 DEF Answers

\* Noise after a response leaves it the only one.
LEMMA NoiseAfterAnswer ==
  ASSUME NEW s \in Seq(Lines), NEW r, Answers(s, r), NEW l \in Lines, l.kind = "noise"
  PROVE  Answers(Append(s, l), r)
<1>1. PICK i \in 1..Len(s) :
        s[i].req = r /\ \A j \in 1..Len(s) : j # i => s[j].kind = "noise"
  BY DEF Answers
<1>2. i \in 1..Len(Append(s, l)) /\ Append(s, l)[i].req = r
  BY <1>1
<1>3. \A j \in 1..Len(Append(s, l)) : j # i => Append(s, l)[j].kind = "noise"
  BY <1>1
<1> QED
  BY <1>2, <1>3 DEF Answers

\* Reading from a quiet pipe gives noise.
LEMMA QuietHead ==
  ASSUME NEW s \in Seq(Lines), Quiet(s), s # <<>>
  PROVE  Head(s).kind = "noise"
BY DEF Quiet

\* A response read from a pipe with one response is that response; only noise is left.
LEMMA AnswerHead ==
  ASSUME NEW s \in Seq(Lines), NEW r, Answers(s, r), s # <<>>, Head(s).kind # "noise"
  PROVE  Head(s).req = r /\ Quiet(Tail(s))
<1>1. PICK i \in 1..Len(s) :
        s[i].req = r /\ \A j \in 1..Len(s) : j # i => s[j].kind = "noise"
  BY DEF Answers
<1>2. Len(s) \in Nat /\ Len(s) >= 1 /\ Head(s) = s[1]
  OBVIOUS
<1>3. i = 1
  BY <1>1, <1>2
<1>4. Tail(s) \in Seq(Lines) /\ Len(Tail(s)) = Len(s) - 1
  OBVIOUS
<1>5. \A k \in 1..Len(Tail(s)) : Tail(s)[k] = s[k + 1] /\ k + 1 \in 1..Len(s) /\ k + 1 # 1
  BY <1>4
<1>6. Quiet(Tail(s))
  BY <1>1, <1>3, <1>5 DEF Quiet
<1> QED
  BY <1>1, <1>2, <1>3, <1>6

(***************************************************************************)
(* Types                                                                   *)
(***************************************************************************)

\* A caller that inserts, sends or waits holds a handle.
HoldsHandle ==
  \A c \in Callers : pc[c] \in {"insert", "send", "wait", "expired"} => hdl[c] \in Handles

\* A thread has a request exactly while it serves one.
BusyHasJob == \A h \in Handles : (th[h] \in Busy) <=> (job[h] # NoReq)

\* A caller that calls has a call to name its request by.
CallsCounted == \A c \in Callers : pc[c] # "idle" => calls[c] \in 1..MaxCalls

Typed == TypeOK /\ HoldsHandle /\ BusyHasJob /\ CallsCounted

\* An empty pool is well typed.
LEMMA InitTyped == Init => Typed
BY PluginAssumption
   DEF Init, Typed, TypeOK, HoldsHandle, BusyHasJob, CallsCounted, Busy, Results, Nothing

\* Every step keeps the types, the busy threads their requests and the callers their handles.
LEMMA NextTyped ==
  ASSUME Typed, [Next]_vars
  PROVE  Typed'
<1> USE DEF Typed, TypeOK, HoldsHandle, BusyHasJob, CallsCounted, Busy
<1>1. CASE UNCHANGED vars
  BY <1>1 DEF vars, callerVars, pipeVars
<1>2. ASSUME NEW c \in Callers, Call(c) PROVE Typed'
  <2>1. calls' \in [Callers -> 0..MaxCalls] /\ calls'[c] \in 1..MaxCalls
    BY <1>2, PluginAssumption DEF Call
  <2>2. pool # NoHandle => pool \in Handles
    OBVIOUS
  <2> QED BY <1>2, <2>1, <2>2 DEF Call, pipeVars
<1>3. ASSUME NEW c \in Callers, StartHandle(c) PROVE Typed'
  <2>1. ASSUME NEW h \in Handles, th[h] = "none", th' = [th EXCEPT ![h] = "spawn"],
               hdl' = [hdl EXCEPT ![c] = h], pc' = [pc EXCEPT ![c] = "insert"]
        PROVE  Typed'
    BY <1>3, <2>1 DEF StartHandle, pipeVars
  <2>2. CASE pc' = [pc EXCEPT ![c] = "idle"] /\ th' = th /\ hdl' = hdl
    BY <1>3, <2>2 DEF StartHandle, pipeVars
  <2> QED BY <1>3, <2>1, <2>2 DEF StartHandle
<1>4. ASSUME NEW c \in Callers, InsertHandle(c) PROVE Typed'
  BY <1>4 DEF InsertHandle, pipeVars
<1>5. ASSUME NEW c \in Callers, Return(c), pc[c] # "idle" PROVE Typed'
  <2>1. reply' \in [Callers -> Results]
    BY <1>5 DEF Return, Results, Nothing
  <2> QED BY <1>5, <2>1 DEF Return, pipeVars
<1>6. ASSUME NEW c \in Callers, Timeout(c) PROVE Typed'
  BY <1>6 DEF Timeout, pipeVars
<1>7. ASSUME NEW h \in Handles, SpawnProcess(h) PROVE Typed'
  <2>1. CASE th' = [th EXCEPT ![h] = "recv"] /\ proc' = [proc EXCEPT ![h] = "up"]
             /\ stdin' = [stdin EXCEPT ![h] = <<>>] /\ stdout' = [stdout EXCEPT ![h] = <<>>]
    BY <1>7, <2>1 DEF SpawnProcess, callerVars
  <2>2. CASE th' = [th EXCEPT ![h] = "drain"] /\ UNCHANGED <<proc, stdin, stdout>>
    BY <1>7, <2>2 DEF SpawnProcess, callerVars
  <2> QED BY <1>7, <2>1, <2>2 DEF SpawnProcess, pipeVars
<1>8. ASSUME NEW h \in Handles, NEW c \in Callers, RecvRequest(h, c) PROVE Typed'
  <2>1. Req(c) \in Requests /\ Req(c) # NoReq
    BY <1>8, PluginAssumption DEF RecvRequest, Req, Requests
  <2> QED BY <1>8, <2>1 DEF RecvRequest, pipeVars
<1>9. ASSUME NEW h \in Handles, NEW c \in Callers, DrainRequest(h, c) PROVE Typed'
  <2>1. Error \in Results
    BY DEF Error, Results
  <2>2. reply' \in [Callers -> Results]
    BY <1>9, <2>1 DEF DrainRequest
  <2> QED BY <1>9, <2>2 DEF DrainRequest, pipeVars
<1>10. ASSUME NEW h \in Handles, ChannelClosed(h) PROVE Typed'
  BY <1>10 DEF ChannelClosed, callerVars, pipeVars
<1>11. ASSUME NEW h \in Handles, WriteRequest(h) PROVE Typed'
  <2>1. job[h] \in Requests
    BY <1>11 DEF WriteRequest
  <2>2. CASE proc[h] = "up"
    <3>1. stdin' \in [Handles -> Seq(Requests)]
      <4>1. Append(stdin[h], job[h]) \in Seq(Requests)
        BY <2>1
      <4> QED BY <1>11, <2>2, <4>1 DEF WriteRequest
    <3> QED BY <1>11, <2>2, <3>1 DEF WriteRequest, callerVars
  <2>3. CASE proc[h] # "up"
    <3>1. Error \in Results
      BY DEF Error, Results
    <3> QED BY <1>11, <2>3, <3>1 DEF WriteRequest, callerVars
  <2> QED BY <2>2, <2>3
<1>12. ASSUME NEW h \in Handles, ReadResponse(h) PROVE Typed'
  <2>1. \A s \in Seq(Lines) : s # <<>> => Tail(s) \in Seq(Lines) /\ Head(s) \in Lines
    OBVIOUS
  <2>2. \A l \in Lines : ResultOf(l) \in Results
    BY DEF ResultOf, Lines, Results, Error
  <2>3. Error \in Results
    BY DEF Error, Results
  <2>4. result' \in [Handles -> Results] /\ stdout' \in [Handles -> Seq(Lines)]
    <3>1. CASE stdout[h] # <<>> /\ result' = [result EXCEPT ![h] = ResultOf(Head(stdout[h]))]
               /\ stdout' = [stdout EXCEPT ![h] = Tail(@)]
      <4>1. ResultOf(Head(stdout[h])) \in Results /\ Tail(stdout[h]) \in Seq(Lines)
        BY <3>1, <2>1, <2>2
      <4> QED BY <3>1, <4>1
    <3>2. CASE result' = [result EXCEPT ![h] = Error] /\ stdout' = stdout
      BY <3>2, <2>3
    <3> QED BY <1>12, <3>1, <3>2 DEF ReadResponse
  <2> QED BY <1>12, <2>4 DEF ReadResponse, callerVars
<1>13. ASSUME NEW h \in Handles, ReadPanics(h) PROVE Typed'
  <2>1. reply' \in [Callers -> Results]
    BY <1>13 DEF ReadPanics, Results, Error
  <2> QED BY <1>13, <2>1 DEF ReadPanics, callerVars, pipeVars
<1>14. ASSUME NEW h \in Handles, SendReply(h) PROVE Typed'
  <2>1. reply' \in [Callers -> Results]
    BY <1>14 DEF SendReply
  <2>2. result' \in [Handles -> Results]
    BY <1>14 DEF SendReply, Results, Nothing
  <2>3. th' \in [Handles -> {"none", "spawn", "recv", "write", "read", "reply", "drain", "ended"}]
    BY <1>14 DEF SendReply
  <2>4. th'[h] \notin Busy /\ job'[h] = NoReq
    BY <1>14 DEF SendReply
  <2> QED BY <1>14, <2>1, <2>2, <2>3, <2>4 DEF SendReply, callerVars, pipeVars
<1>15. ASSUME NEW h \in Handles, PluginAnswers(h) PROVE Typed'
  <2>1. Head(stdin[h]) \in Requests /\ Tail(stdin[h]) \in Seq(Requests)
    BY <1>15 DEF PluginAnswers
  <2>2. \A k \in {"ok", "fail"} : [kind |-> k, req |-> Head(stdin[h])] \in Lines
    BY <2>1 DEF Lines
  <2>3. stdout' \in [Handles -> Seq(Lines)] /\ stdin' \in [Handles -> Seq(Requests)]
    BY <1>15, <2>1, <2>2 DEF PluginAnswers
  <2> QED BY <1>15, <2>3 DEF PluginAnswers, callerVars
<1>16. ASSUME NEW h \in Handles, PluginPrints(h) PROVE Typed'
  <2>1. [kind |-> "noise", req |-> NoReq] \in Lines
    BY DEF Lines
  <2> QED BY <1>16, <2>1 DEF PluginPrints, callerVars
<1>17. ASSUME NEW h \in Handles, PluginExits(h) PROVE Typed'
  BY <1>17 DEF PluginExits, callerVars, pipeVars
<1> QED
  BY <1>1, <1>2, <1>3, <1>4, <1>5, <1>6, <1>7, <1>8, <1>9, <1>10, <1>11, <1>12, <1>13,
     <1>14, <1>15, <1>16, <1>17
     DEF Next, CallerStep, ThreadStep, PluginStep, SendFails, Receive, Expired

\* The state of the pool keeps its types for any constants, and the auxiliary facts that the
\* typing needs hold with it.
THEOREM TypeCorrect == Spec => []TypeOK
<1>1. Typed /\ [Next]_vars => Typed'
  BY NextTyped
<1>2. Typed => TypeOK
  BY DEF Typed
<1> QED
  BY InitTyped, <1>1, <1>2, PTL DEF Spec

(***************************************************************************)
(* One handle serves                                                       *)
(***************************************************************************)

\* Whoever sends or waits does so on the pooled handle: the pool never changes once set.
SendsToPool ==
  \A c \in Callers : pc[c] \in {"send", "wait", "expired"} => hdl[c] = pool

Served == SendsToPool /\ OneServer

\* No step lets a handle outside the pool serve a request.
LEMMA NextServed ==
  ASSUME Typed, Served, [Next]_vars
  PROVE  Served'
<1> USE DEF Typed, TypeOK, HoldsHandle, BusyHasJob, Busy, Served, SendsToPool, OneServer
<1>1. CASE UNCHANGED vars
  BY <1>1 DEF vars, callerVars
<1>2. ASSUME NEW c \in Callers, Call(c) PROVE Served'
  BY <1>2 DEF Call
<1>3. ASSUME NEW c \in Callers, StartHandle(c) PROVE Served'
  <2>1. pc'[c] \in {"insert", "idle"} /\ \A d \in Callers \ {c} : pc'[d] = pc[d] /\ hdl'[d] = hdl[d]
    <3>1. ASSUME NEW h \in Handles, hdl' = [hdl EXCEPT ![c] = h],
                 pc' = [pc EXCEPT ![c] = "insert"]
          PROVE  <2>1!1 /\ <2>1!2
      BY <3>1
    <3>2. CASE pc' = [pc EXCEPT ![c] = "idle"] /\ hdl' = hdl
      BY <3>2
    <3> QED BY <1>3, <3>1, <3>2 DEF StartHandle
  <2> QED BY <1>3, <2>1 DEF StartHandle
<1>4. ASSUME NEW c \in Callers, InsertHandle(c) PROVE Served'
  <2>1. CASE pool = NoHandle
    <3>1. \A h \in Handles : job[h] = NoReq
      BY <2>1, PluginAssumption
    <3>2. \A d \in Callers : pc[d] \notin {"send", "wait", "expired"}
      BY <2>1, PluginAssumption
    <3> QED BY <1>4, <3>1, <3>2 DEF InsertHandle
  <2>2. CASE pool # NoHandle
    BY <1>4, <2>2 DEF InsertHandle
  <2> QED BY <2>1, <2>2
<1>5. ASSUME NEW c \in Callers, Return(c) PROVE Served'
  BY <1>5 DEF Return
<1>6. ASSUME NEW c \in Callers, Timeout(c) PROVE Served'
  BY <1>6 DEF Timeout
<1>7. ASSUME NEW h \in Handles, NEW c \in Callers, RecvRequest(h, c) PROVE Served'
  BY <1>7 DEF RecvRequest
<1>8. ASSUME NEW h \in Handles, NEW c \in Callers, DrainRequest(h, c) PROVE Served'
  BY <1>8 DEF DrainRequest
<1>9. ASSUME NEW h \in Handles, UNCHANGED <<callerVars, job>> PROVE Served'
  BY <1>9 DEF callerVars
<1>10. ASSUME NEW h \in Handles, ReadPanics(h) \/ SendReply(h) PROVE Served'
  BY <1>10 DEF ReadPanics, SendReply, callerVars
<1>11. ASSUME NEW h \in Handles,
              \/ SpawnProcess(h) \/ ChannelClosed(h) \/ WriteRequest(h) \/ ReadResponse(h)
              \/ PluginStep(h)
       PROVE  UNCHANGED <<callerVars, job>>
  BY <1>11 DEF SpawnProcess, ChannelClosed, WriteRequest, ReadResponse, PluginStep,
               PluginAnswers, PluginPrints, PluginExits
<1> QED
  BY <1>1, <1>2, <1>3, <1>4, <1>5, <1>6, <1>7, <1>8, <1>9, <1>10, <1>11
     DEF Next, CallerStep, ThreadStep, SendFails, Receive, Expired

\* Only the handle in the pool ever serves a request, however many first calls race to start
\* the daemon: the plugin's requests are serialised through one process at a time.
THEOREM PoolServesAlone == Spec => []OneServer
<1>1. Init => Served
  BY DEF Init, Served, SendsToPool, OneServer
<1>2. Typed /\ Served /\ [Next]_vars => Served'
  BY NextServed
<1>3. Typed /\ [Next]_vars => Typed'
  BY NextTyped
<1>4. Served => OneServer
  BY DEF Served
<1> QED
  BY InitTyped, <1>1, <1>2, <1>3, <1>4, PTL DEF Spec

(***************************************************************************)
(* Responses reach the call they answer                                    *)
(***************************************************************************)

\* What the pipes may hold, by the place of the thread: nothing of earlier requests when it
\* takes a request, at most the one response while it serves, nothing after a good result.
PipesMatch(h) ==
  /\ th[h] \in {"recv", "write"} => stdin[h] = <<>> /\ Quiet(stdout[h])
  /\ th[h] = "read" =>
       \/ stdin[h] = <<job[h]>> /\ Quiet(stdout[h])
       \/ stdin[h] = <<>> /\ Answers(stdout[h], job[h])
  /\ th[h] = "reply" =>
       \/ result[h].kind = "error"
       \/ /\ result[h].kind = "ok" /\ result[h].req = job[h]
          /\ stdin[h] = <<>> /\ Quiet(stdout[h])

\* A caller without an open reply channel has no response.
NoEarlyReply ==
  \A c \in Callers : pc[c] \notin {"wait", "expired"} => reply[c].kind # "ok"

Matched == (\A h \in Handles : PipesMatch(h)) /\ NoEarlyReply /\ OwnReply

\* A step that leaves the threads alone, and their results, requests and pipes.
LEMMA ThreadsAtRest ==
  ASSUME Matched, UNCHANGED <<job, result, stdin, stdout>>,
         \A h \in Handles : th'[h] = th[h] \/ th'[h] \in {"spawn", "drain", "ended"}
  PROVE  \A h \in Handles : PipesMatch(h)'
BY DEF Matched, PipesMatch

\* A step of one handle leaves the pipes of the others as they are.
LEMMA OneHandleSteps ==
  ASSUME Matched, NEW h \in Handles, PipesMatch(h)',
         \A g \in Handles \ {h} :
           th'[g] = th[g] /\ job'[g] = job[g] /\ result'[g] = result[g]
             /\ stdin'[g] = stdin[g] /\ stdout'[g] = stdout[g]
  PROVE  \A g \in Handles : PipesMatch(g)'
BY DEF Matched, PipesMatch

\* A step that leaves the callers alone keeps what they have received.
LEMMA CallersAtRest ==
  ASSUME Matched, UNCHANGED <<callerVars, reply>>
  PROVE  NoEarlyReply' /\ OwnReply'
BY DEF Matched, NoEarlyReply, OwnReply, Req, callerVars

\* No step separates a response from the request it answers.
LEMMA NextMatched ==
  ASSUME Typed, Matched, [Next]_vars
  PROVE  Matched'
<1> USE DEF Typed, TypeOK
<1>1. CASE UNCHANGED vars
  <2>1. \A h \in Handles : PipesMatch(h)'
    BY <1>1, ThreadsAtRest DEF vars, pipeVars
  <2> QED BY <1>1, <2>1, CallersAtRest DEF vars, Matched
<1>2. ASSUME NEW c \in Callers, Call(c) PROVE Matched'
  <2>1. \A h \in Handles : PipesMatch(h)'
    BY <1>2, ThreadsAtRest DEF Call, pipeVars
  <2>2. NoEarlyReply' /\ OwnReply'
    BY <1>2 DEF Call, Matched, NoEarlyReply, OwnReply, Req
  <2> QED BY <2>1, <2>2 DEF Matched
<1>3. ASSUME NEW c \in Callers, StartHandle(c) PROVE Matched'
  <2>1. ASSUME NEW h \in Handles, th[h] = "none", th' = [th EXCEPT ![h] = "spawn"],
               pc' = [pc EXCEPT ![c] = "insert"]
        PROVE  Matched'
    <3>1. \A g \in Handles : PipesMatch(g)'
      BY <1>3, <2>1, ThreadsAtRest DEF StartHandle, pipeVars
    <3>2. NoEarlyReply' /\ OwnReply'
      BY <1>3, <2>1 DEF StartHandle, Matched, NoEarlyReply, OwnReply, Req
    <3> QED BY <3>1, <3>2 DEF Matched
  <2>2. CASE pc' = [pc EXCEPT ![c] = "idle"] /\ th' = th
    <3>1. \A g \in Handles : PipesMatch(g)'
      BY <1>3, <2>2, ThreadsAtRest DEF StartHandle, pipeVars
    <3>2. NoEarlyReply' /\ OwnReply'
      BY <1>3, <2>2 DEF StartHandle, Matched, NoEarlyReply, OwnReply, Req
    <3> QED BY <3>1, <3>2 DEF Matched
  <2> QED BY <1>3, <2>1, <2>2 DEF StartHandle
<1>4. ASSUME NEW c \in Callers, InsertHandle(c) PROVE Matched'
  <2>1. \A h \in Handles : PipesMatch(h)'
    BY <1>4, ThreadsAtRest DEF InsertHandle, pipeVars
  <2>2. NoEarlyReply' /\ OwnReply'
    BY <1>4 DEF InsertHandle, Matched, NoEarlyReply, OwnReply, Req
  <2> QED BY <2>1, <2>2 DEF Matched
<1>5. ASSUME NEW c \in Callers, Return(c) PROVE Matched'
  <2>1. \A h \in Handles : PipesMatch(h)'
    BY <1>5, ThreadsAtRest DEF Return, pipeVars
  <2>2. NoEarlyReply' /\ OwnReply'
    BY <1>5 DEF Return, Matched, NoEarlyReply, OwnReply, Req, Nothing
  <2> QED BY <2>1, <2>2 DEF Matched
<1>6. ASSUME NEW c \in Callers, Timeout(c) PROVE Matched'
  <2>1. \A h \in Handles : PipesMatch(h)'
    BY <1>6, ThreadsAtRest DEF Timeout, pipeVars
  <2>2. NoEarlyReply' /\ OwnReply'
    BY <1>6 DEF Timeout, Matched, NoEarlyReply, OwnReply, Req
  <2> QED BY <2>1, <2>2 DEF Matched
<1>7. ASSUME NEW h \in Handles, SpawnProcess(h) PROVE Matched'
  <2>1. CASE th' = [th EXCEPT ![h] = "recv"]
             /\ stdin' = [stdin EXCEPT ![h] = <<>>] /\ stdout' = [stdout EXCEPT ![h] = <<>>]
    <3>1. PipesMatch(h)'
      BY <2>1 DEF PipesMatch, Quiet
    <3>2. \A g \in Handles : PipesMatch(g)'
      BY <1>7, <2>1, <3>1, OneHandleSteps DEF SpawnProcess
    <3> QED BY <1>7, <3>2, CallersAtRest DEF SpawnProcess, Matched
  <2>2. CASE th' = [th EXCEPT ![h] = "drain"] /\ UNCHANGED <<stdin, stdout>>
    <3>1. \A g \in Handles : PipesMatch(g)'
      BY <1>7, <2>2, ThreadsAtRest DEF SpawnProcess
    <3> QED BY <1>7, <3>1, CallersAtRest DEF SpawnProcess, Matched
  <2> QED BY <1>7, <2>1, <2>2 DEF SpawnProcess, pipeVars
<1>8. ASSUME NEW h \in Handles, NEW c \in Callers, RecvRequest(h, c) PROVE Matched'
  <2>1. PipesMatch(h)'
    BY <1>8 DEF RecvRequest, Matched, PipesMatch, pipeVars
  <2>2. \A g \in Handles : PipesMatch(g)'
    BY <1>8, <2>1, OneHandleSteps DEF RecvRequest, pipeVars
  <2>3. NoEarlyReply' /\ OwnReply'
    BY <1>8 DEF RecvRequest, Matched, NoEarlyReply, OwnReply, Req
  <2> QED BY <2>2, <2>3 DEF Matched
<1>9. ASSUME NEW h \in Handles, NEW c \in Callers, DrainRequest(h, c) PROVE Matched'
  <2>1. \A g \in Handles : PipesMatch(g)'
    BY <1>9, ThreadsAtRest DEF DrainRequest, pipeVars
  <2>2. NoEarlyReply' /\ OwnReply'
    BY <1>9 DEF DrainRequest, Matched, NoEarlyReply, OwnReply, Req, Error
  <2> QED BY <2>1, <2>2 DEF Matched
<1>10. ASSUME NEW h \in Handles, ChannelClosed(h) PROVE Matched'
  <2>1. \A g \in Handles : PipesMatch(g)'
    BY <1>10, ThreadsAtRest DEF ChannelClosed, pipeVars
  <2> QED BY <1>10, <2>1, CallersAtRest DEF ChannelClosed, Matched
<1>11. ASSUME NEW h \in Handles, WriteRequest(h) PROVE Matched'
  <2>1. PipesMatch(h)'
    <3>1. CASE proc[h] = "up"
      <4>1. stdin'[h] = <<job[h]>> /\ Quiet(stdout[h])
        BY <1>11, <3>1 DEF WriteRequest, Matched, PipesMatch
      <4> QED BY <1>11, <3>1, <4>1 DEF WriteRequest, PipesMatch
    <3>2. CASE proc[h] # "up"
      BY <1>11, <3>2 DEF WriteRequest, PipesMatch, Error
    <3> QED BY <3>1, <3>2
  <2>2. \A g \in Handles : PipesMatch(g)'
    BY <1>11, <2>1, OneHandleSteps DEF WriteRequest
  <2> QED BY <1>11, <2>2, CallersAtRest DEF WriteRequest, Matched
<1>12. ASSUME NEW h \in Handles, ReadResponse(h) PROVE Matched'
  <2>1. PipesMatch(h)'
    <3>1. CASE stdout[h] # <<>> /\ result' = [result EXCEPT ![h] = ResultOf(Head(stdout[h]))]
               /\ stdout' = [stdout EXCEPT ![h] = Tail(@)]
      <4>1. CASE Head(stdout[h]).kind = "ok"
        <5>1. stdin[h] = <<>> /\ Answers(stdout[h], job[h])
          BY <1>12, <3>1, <4>1, QuietHead DEF ReadResponse, Matched, PipesMatch
        <5>2. Head(stdout[h]).req = job[h] /\ Quiet(Tail(stdout[h]))
          BY <3>1, <4>1, <5>1, AnswerHead
        <5> QED BY <1>12, <3>1, <4>1, <5>1, <5>2 DEF ReadResponse, PipesMatch, ResultOf
      <4>2. CASE Head(stdout[h]).kind # "ok"
        BY <1>12, <3>1, <4>2 DEF ReadResponse, PipesMatch, ResultOf, Error
      <4> QED BY <4>1, <4>2
    <3>2. CASE result' = [result EXCEPT ![h] = Error] /\ stdout' = stdout
      BY <1>12, <3>2 DEF ReadResponse, PipesMatch, Error
    <3> QED BY <1>12, <3>1, <3>2 DEF ReadResponse
  <2>2. \A g \in Handles : PipesMatch(g)'
    BY <1>12, <2>1, OneHandleSteps DEF ReadResponse
  <2> QED BY <1>12, <2>2, CallersAtRest DEF ReadResponse, Matched
<1>13. ASSUME NEW h \in Handles, ReadPanics(h) PROVE Matched'
  <2>1. PipesMatch(h)'
    BY <1>13 DEF ReadPanics, PipesMatch
  <2>2. \A g \in Handles : PipesMatch(g)'
    BY <1>13, <2>1, OneHandleSteps DEF ReadPanics, pipeVars
  <2>3. NoEarlyReply' /\ OwnReply'
    BY <1>13 DEF ReadPanics, Matched, NoEarlyReply, OwnReply, Req, Error, callerVars
  <2> QED BY <2>2, <2>3 DEF Matched
<1>14. ASSUME NEW h \in Handles, SendReply(h) PROVE Matched'
  <2>1. PipesMatch(h)'
    <3>1. CASE MustRestart(h)
      BY <1>14, <3>1 DEF SendReply, PipesMatch
    <3>2. CASE ~MustRestart(h)
      <4>1. stdin[h] = <<>> /\ Quiet(stdout[h])
        BY <1>14, <3>2 DEF SendReply, MustRestart, Matched, PipesMatch
      <4> QED BY <1>14, <3>2, <4>1 DEF SendReply, PipesMatch, pipeVars
    <3> QED BY <3>1, <3>2
  <2>2. \A g \in Handles : PipesMatch(g)'
    BY <1>14, <2>1, OneHandleSteps DEF SendReply, pipeVars
  <2>3. result[h].kind = "ok" => result[h].req = job[h]
    BY <1>14 DEF SendReply, Matched, PipesMatch
  <2>4. NoEarlyReply' /\ OwnReply'
    BY <1>14, <2>3 DEF SendReply, Matched, NoEarlyReply, OwnReply, Req, callerVars
  <2> QED BY <2>2, <2>4 DEF Matched
<1>15. ASSUME NEW h \in Handles, PluginAnswers(h) PROVE Matched'
  <2>1. PICK k \in {"ok", "fail"} :
          stdout' = [stdout EXCEPT ![h] = Append(@, [kind |-> k, req |-> Head(stdin[h])])]
    BY <1>15 DEF PluginAnswers
  <2>2. PipesMatch(h)'
    <3>1. CASE th[h] = "read"
      <4>1. stdin[h] = <<job[h]>> /\ Quiet(stdout[h])
        BY <1>15, <3>1 DEF PluginAnswers, Matched, PipesMatch
      <4>2. Head(stdin[h]) = job[h] /\ job[h] \in Requests
        BY <3>1, <4>1 DEF BusyHasJob, Busy
      <4>3. [kind |-> k, req |-> job[h]] \in Lines
        BY <4>2 DEF Lines
      <4>4. Answers(Append(stdout[h], [kind |-> k, req |-> job[h]]), job[h])
        BY <4>1, <4>3, FirstAnswer
      <4>5. Tail(stdin[h]) = <<>>
        BY <4>1
      <4> QED BY <1>15, <2>1, <3>1, <4>2, <4>4, <4>5 DEF PluginAnswers, PipesMatch
    <3>2. CASE th[h] # "read"
      BY <1>15, <3>2 DEF PluginAnswers, Matched, PipesMatch
    <3> QED BY <3>1, <3>2
  <2>3. \A g \in Handles : PipesMatch(g)'
    BY <1>15, <2>1, <2>2, OneHandleSteps DEF PluginAnswers
  <2> QED BY <1>15, <2>3, CallersAtRest DEF PluginAnswers, Matched
<1>16. ASSUME NEW h \in Handles, PluginPrints(h) PROVE Matched'
  <2> DEFINE noise == [kind |-> "noise", req |-> NoReq]
  <2>1. noise \in Lines /\ noise.kind = "noise"
    BY DEF Lines
  <2>2. Quiet(stdout[h]) => Quiet(stdout'[h])
    BY <1>16, <2>1, NoiseIsQuiet DEF PluginPrints
  <2>3. Answers(stdout[h], job[h]) => Answers(stdout'[h], job[h])
    BY <1>16, <2>1, NoiseAfterAnswer DEF PluginPrints
  <2>4. PipesMatch(h)'
    BY <1>16, <2>2, <2>3 DEF PluginPrints, Matched, PipesMatch
  <2>5. \A g \in Handles : PipesMatch(g)'
    BY <1>16, <2>4, OneHandleSteps DEF PluginPrints
  <2> QED BY <1>16, <2>5, CallersAtRest DEF PluginPrints, Matched
<1>17. ASSUME NEW h \in Handles, PluginExits(h) PROVE Matched'
  <2>1. \A g \in Handles : PipesMatch(g)'
    BY <1>17, ThreadsAtRest DEF PluginExits, pipeVars
  <2> QED BY <1>17, <2>1, CallersAtRest DEF PluginExits, Matched
<1> QED
  BY <1>1, <1>2, <1>3, <1>4, <1>5, <1>6, <1>7, <1>8, <1>9, <1>10, <1>11, <1>12, <1>13,
     <1>14, <1>15, <1>16, <1>17
     DEF Next, CallerStep, ThreadStep, PluginStep, SendFails, Receive, Expired

\* "avoids mismatched request/response pairs": for any number of callers and calls, and
\* whatever noise the plugin prints, a response is received only by the call it answers.
THEOREM ResponsesMatchRequests == Spec => []OwnReply
<1>1. Init => Matched
  BY DEF Init, Matched, PipesMatch, NoEarlyReply, OwnReply, Nothing
<1>2. Typed /\ Matched /\ [Next]_vars => Matched'
  BY NextMatched
<1>3. Typed /\ [Next]_vars => Typed'
  BY NextTyped
<1>4. Matched => OwnReply
  BY DEF Matched
<1> QED
  BY InitTyped, <1>1, <1>2, <1>3, <1>4, PTL DEF Spec
=============================================================================
