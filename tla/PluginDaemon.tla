---------------------------- MODULE PluginDaemon ----------------------------
(***************************************************************************)
(* The pool of persistent plugin processes (reasondb-plugin daemon.rs) for *)
(* one plugin name; the names do not share anything but the pool's mutex.  *)
(*                                                                         *)
(* A caller thread runs invoke_daemon and DaemonHandle::invoke.  A handle  *)
(* stands for the thread behind it (daemon_thread), its rendezvous channel *)
(* and the process it owns.  The plugin process is external: it answers    *)
(* the requests it reads one line each, may print lines that are not a     *)
(* response, may exit, and may hang by taking no step.                     *)
(***************************************************************************)
EXTENDS Naturals, Sequences

CONSTANTS
  Callers,     \* threads that invoke the plugin
  Handles,     \* daemon handles that calls may start
  NoHandle, NoReq,
  MaxCalls,    \* bound on the invocations of one caller
  MaxLines     \* bound on the lines in a stdout pipe before the plugin prints noise

ASSUME PluginAssumption ==
  /\ NoHandle \notin Handles
  /\ NoReq \notin Callers \X (1..MaxCalls)
  /\ MaxCalls \in Nat /\ MaxLines \in Nat

VARIABLES
  pool,    \* the handle in the global pool
  pc,      \* per caller: its place in invoke_daemon
  hdl,     \* per caller: the handle it holds
  calls,   \* per caller: number of invocations begun; names the current request
  reply,   \* per caller: what its reply channel holds
  th,      \* per handle: its place in daemon_thread
  job,     \* per handle: the request it is serving
  result,  \* per handle: the result of invoke_via_daemon
  proc,    \* per handle: its process
  stdin, stdout  \* per handle: the lines in the pipes of that process

callerVars == <<pool, pc, hdl, calls>>
pipeVars   == <<stdin, stdout>>
vars == <<callerVars, reply, th, job, result, proc, pipeVars>>

Requests == Callers \X (1..MaxCalls)
Lines    == [kind : {"ok", "fail", "noise"}, req : Requests \cup {NoReq}]
Results  == [kind : {"none", "ok", "error"}, req : Requests \cup {NoReq}]
Nothing  == [kind |-> "none", req |-> NoReq]
Error    == [kind |-> "error", req |-> NoReq]

Req(c) == <<c, calls[c]>>

\* The receiver of the request's reply channel is alive.
Listening(r) == \E c \in Callers : r = Req(c) /\ pc[c] \in {"wait", "expired"}

\* Some Arc of the handle is alive, so its request channel is open.
Referenced(h) == pool = h \/ \E c \in Callers : hdl[c] = h

Init ==
  /\ pool = NoHandle
  /\ pc = [c \in Callers |-> "idle"]
  /\ hdl = [c \in Callers |-> NoHandle]
  /\ calls = [c \in Callers |-> 0]
  /\ reply = [c \in Callers |-> Nothing]
  /\ th = [h \in Handles |-> "none"]
  /\ job = [h \in Handles |-> NoReq]
  /\ result = [h \in Handles |-> Nothing]
  /\ proc = [h \in Handles |-> "none"]
  /\ stdin = [h \in Handles |-> <<>>]
  /\ stdout = [h \in Handles |-> <<>>]

(***************************************************************************)
(* The caller: invoke_daemon, then DaemonHandle::invoke                    *)
(***************************************************************************)

\* The fast path looks the handle up under the lock.
Call(c) ==
  /\ pc[c] = "idle" /\ calls[c] < MaxCalls
  /\ calls' = [calls EXCEPT ![c] = @ + 1]
  /\ hdl' = [hdl EXCEPT ![c] = pool]
  /\ pc' = [pc EXCEPT ![c] = IF pool = NoHandle THEN "start" ELSE "send"]
  /\ UNCHANGED <<pool, reply, th, job, result, proc, pipeVars>>

\* DaemonHandle::start, outside the lock; spawning the thread may fail.
StartHandle(c) ==
  /\ pc[c] = "start"
  /\ \/ \E h \in Handles :
          /\ th[h] = "none"
          /\ th' = [th EXCEPT ![h] = "spawn"]
          /\ hdl' = [hdl EXCEPT ![c] = h]
          /\ pc' = [pc EXCEPT ![c] = "insert"]
     \/ /\ pc' = [pc EXCEPT ![c] = "idle"]
        /\ UNCHANGED <<th, hdl>>
  /\ UNCHANGED <<pool, calls, reply, job, result, proc, pipeVars>>

\* Mutant: the second starter replaces the handle of the first.
InsertHandleOver(c) ==
  /\ pc[c] = "insert"
  /\ pool' = hdl[c]
  /\ pc' = [pc EXCEPT ![c] = "send"]
  /\ UNCHANGED <<hdl, calls, reply, th, job, result, proc, pipeVars>>

\* or_insert_with: a caller that finds a handle drops its own and uses that one.
InsertHandle(c) ==
  /\ pc[c] = "insert"
  /\ pool' = IF pool = NoHandle THEN hdl[c] ELSE pool
  /\ hdl' = [hdl EXCEPT ![c] = pool']
  /\ pc' = [pc EXCEPT ![c] = "send"]
  /\ UNCHANGED <<calls, reply, th, job, result, proc, pipeVars>>

\* invoke returns to the caller, and the reply channel and the Arc are dropped.
Return(c) ==
  /\ pc' = [pc EXCEPT ![c] = "idle"]
  /\ hdl' = [hdl EXCEPT ![c] = NoHandle]
  /\ reply' = [reply EXCEPT ![c] = Nothing]
  /\ UNCHANGED <<pool, calls, th, job, result, proc, pipeVars>>

\* send fails once the thread has dropped the receiver: "daemon thread has shut down".
SendFails(c) == pc[c] = "send" /\ th[hdl[c]] = "ended" /\ Return(c)

Receive(c) == pc[c] = "wait" /\ reply[c] # Nothing /\ Return(c)

\* recv_timeout gives up on an empty channel; the channel is dropped a little later.
Timeout(c) ==
  /\ pc[c] = "wait" /\ reply[c] = Nothing
  /\ pc' = [pc EXCEPT ![c] = "expired"]
  /\ UNCHANGED <<pool, hdl, calls, reply, th, job, result, proc, pipeVars>>

Expired(c) == pc[c] = "expired" /\ Return(c)

(***************************************************************************)
(* The daemon thread                                                       *)
(***************************************************************************)

\* spawn_daemon_process with new pipes; a failure is final for this handle.
SpawnProcess(h) ==
  /\ th[h] = "spawn"
  /\ \/ /\ th' = [th EXCEPT ![h] = "recv"]
        /\ proc' = [proc EXCEPT ![h] = "up"]
        /\ stdin' = [stdin EXCEPT ![h] = <<>>]
        /\ stdout' = [stdout EXCEPT ![h] = <<>>]
     \/ /\ th' = [th EXCEPT ![h] = "drain"]
        /\ UNCHANGED <<proc, pipeVars>>
  /\ UNCHANGED <<callerVars, reply, job, result>>

\* rx.recv meets a sender blocked on the rendezvous channel.
RecvRequest(h, c) ==
  /\ th[h] = "recv"
  /\ pc[c] = "send" /\ hdl[c] = h
  /\ th' = [th EXCEPT ![h] = "write"]
  /\ job' = [job EXCEPT ![h] = Req(c)]
  /\ pc' = [pc EXCEPT ![c] = "wait"]
  /\ UNCHANGED <<pool, hdl, calls, reply, result, proc, pipeVars>>

\* Every request to a daemon that failed to start is answered with an error.
DrainRequest(h, c) ==
  /\ th[h] = "drain"
  /\ pc[c] = "send" /\ hdl[c] = h
  /\ pc' = [pc EXCEPT ![c] = "wait"]
  /\ reply' = [reply EXCEPT ![c] = Error]
  /\ UNCHANGED <<pool, hdl, calls, th, job, result, proc, pipeVars>>

\* The last Arc is gone: the process is killed and the thread returns.
ChannelClosed(h) ==
  /\ th[h] \in {"recv", "drain"} /\ ~Referenced(h)
  /\ th' = [th EXCEPT ![h] = "ended"]
  /\ proc' = [proc EXCEPT ![h] = IF th[h] = "recv" THEN "dead" ELSE @]
  /\ UNCHANGED <<callerVars, reply, job, result, pipeVars>>

\* invoke_via_daemon, first half: a broken pipe when the process has exited.
WriteRequest(h) ==
  /\ th[h] = "write"
  /\ IF proc[h] = "up"
       THEN /\ stdin' = [stdin EXCEPT ![h] = Append(@, job[h])]
            /\ th' = [th EXCEPT ![h] = "read"]
            /\ UNCHANGED result
       ELSE /\ result' = [result EXCEPT ![h] = Error]
            /\ th' = [th EXCEPT ![h] = "reply"]
            /\ UNCHANGED stdin
  /\ UNCHANGED <<callerVars, reply, job, proc, stdout>>

\* What the caller gets from a line of output.
ResultOf(line) ==
  IF line.kind = "ok" THEN [kind |-> "ok", req |-> line.req] ELSE Error

\* Mutant: an empty read is taken for "nothing yet" instead of the end of the stream.
EndOfOutputMissed(h) == FALSE

EndOfOutput(h) == stdout[h] = <<>> /\ proc[h] # "up"

\* invoke_via_daemon, second half: blocks until there is a line or the end of the stream.
ReadResponse(h) ==
  /\ th[h] = "read"
  /\ \/ /\ stdout[h] # <<>>
        /\ result' = [result EXCEPT ![h] = ResultOf(Head(stdout[h]))]
        /\ stdout' = [stdout EXCEPT ![h] = Tail(@)]
     \/ /\ EndOfOutput(h)
        /\ result' = [result EXCEPT ![h] = Error]
        /\ UNCHANGED stdout
  /\ th' = [th EXCEPT ![h] = "reply"]
  /\ UNCHANGED <<callerVars, reply, job, proc, stdin>>

\* Cutting the quoted output at byte 200 panics inside a multi-byte character: the thread
\* unwinds, both channels close and the process is left without pipes.
ReadPanics(h) ==
  /\ th[h] = "read"
  /\ stdout[h] # <<>> /\ Head(stdout[h]).kind = "noise"
  /\ th' = [th EXCEPT ![h] = "ended"]
  /\ job' = [job EXCEPT ![h] = NoReq]
  /\ reply' = [c \in Callers |->
       IF job[h] = Req(c) /\ pc[c] \in {"wait", "expired"} THEN Error ELSE reply[c]]
  /\ UNCHANGED <<callerVars, result, proc, pipeVars>>

\* Mutant: an invocation error leaves the process and its pipes as they are.
MustRestartOnTimeout(h) == ~Listening(job[h])

\* The process is replaced after an error and when nobody listens to the result any more.
MustRestart(h) == result[h].kind = "error" \/ ~Listening(job[h])

SendReply(h) ==
  /\ th[h] = "reply"
  /\ reply' = [c \in Callers |->
       IF job[h] = Req(c) /\ pc[c] \in {"wait", "expired"} THEN result[h] ELSE reply[c]]
  /\ th' = [th EXCEPT ![h] = IF MustRestart(h) THEN "spawn" ELSE "recv"]
  /\ proc' = [proc EXCEPT ![h] = IF MustRestart(h) THEN "dead" ELSE @]
  /\ job' = [job EXCEPT ![h] = NoReq]
  /\ result' = [result EXCEPT ![h] = Nothing]
  /\ UNCHANGED <<callerVars, pipeVars>>

(***************************************************************************)
(* The plugin process                                                      *)
(***************************************************************************)

\* One line per request, which says success or failure.
PluginAnswers(h) ==
  /\ proc[h] = "up" /\ stdin[h] # <<>>
  /\ \E k \in {"ok", "fail"} :
       stdout' = [stdout EXCEPT ![h] = Append(@, [kind |-> k, req |-> Head(stdin[h])])]
  /\ stdin' = [stdin EXCEPT ![h] = Tail(@)]
  /\ UNCHANGED <<callerVars, reply, th, job, result, proc>>

PluginPrints(h) ==
  /\ proc[h] = "up" /\ Len(stdout[h]) < MaxLines
  /\ stdout' = [stdout EXCEPT ![h] = Append(@, [kind |-> "noise", req |-> NoReq])]
  /\ UNCHANGED <<callerVars, reply, th, job, result, proc, stdin>>

PluginExits(h) ==
  /\ proc[h] = "up"
  /\ proc' = [proc EXCEPT ![h] = "dead"]
  /\ UNCHANGED <<callerVars, reply, th, job, result, pipeVars>>

CallerStep(c) ==
  \/ StartHandle(c) \/ InsertHandle(c) \/ SendFails(c)
  \/ Receive(c) \/ Timeout(c) \/ Expired(c)

ThreadStep(h) ==
  \/ SpawnProcess(h) \/ WriteRequest(h) \/ ReadResponse(h) \/ ReadPanics(h)
  \/ SendReply(h) \/ ChannelClosed(h)
  \/ \E c \in Callers : RecvRequest(h, c) \/ DrainRequest(h, c)

PluginStep(h) == PluginAnswers(h) \/ PluginPrints(h) \/ PluginExits(h)

Next ==
  \/ \E c \in Callers : Call(c) \/ CallerStep(c)
  \/ \E h \in Handles : ThreadStep(h) \/ PluginStep(h)

Spec == Init /\ [][Next]_vars

\* Threads run and timers fire; nothing is assumed of the plugin.
ThreadsRun ==
  /\ \A c \in Callers : WF_vars(CallerStep(c))
  /\ \A h \in Handles : WF_vars(ThreadStep(h))

\* A plugin with a request to answer answers it, unless it exits or is killed.
PluginsRespond == \A h \in Handles : WF_vars(PluginAnswers(h))

HungSpec == Spec /\ ThreadsRun
FairSpec == HungSpec /\ PluginsRespond

(***************************************************************************)
(* Properties                                                              *)
(***************************************************************************)

\* The types of the state.
TypeOK ==
  /\ pool \in Handles \cup {NoHandle}
  /\ pc \in [Callers -> {"idle", "start", "insert", "send", "wait", "expired"}]
  /\ hdl \in [Callers -> Handles \cup {NoHandle}]
  /\ calls \in [Callers -> 0..MaxCalls]
  /\ reply \in [Callers -> Results]
  /\ th \in [Handles -> {"none", "spawn", "recv", "write", "read", "reply", "drain", "ended"}]
  /\ job \in [Handles -> Requests \cup {NoReq}]
  /\ result \in [Handles -> Results]
  /\ proc \in [Handles -> {"none", "up", "dead"}]
  /\ stdin \in [Handles -> Seq(Requests)]
  /\ stdout \in [Handles -> Seq(Lines)]

\* "avoids mismatched request/response pairs" (daemon.rs:28): a response that reaches a
\* caller answers the request of that very call, whatever the plugin printed before and
\* whoever gave up before.
OwnReply == \A c \in Callers : reply[c].kind = "ok" => reply[c].req = Req(c)

\* "The first call starts a background thread and process; subsequent calls reuse the same
\* handle" (daemon.rs:290): only the pooled handle ever serves, so no two processes of the
\* plugin answer requests, even when several first calls race.
OneServer == \A h \in Handles : job[h] # NoReq => h = pool

\* Every invocation returns, if a plugin that has a request answers it or exits: a caller
\* queued behind others, behind a caller that gave up, or behind a dead process is served.  And
\* the process of a handle that lost the race for the pool does not stay behind.
CallsReturnAndLosersEnd ==
  /\ \A c \in Callers : (pc[c] # "idle") ~> (pc[c] = "idle")
  /\ \A h \in Handles :
       (th[h] # "none" /\ ~Referenced(h)) ~> (th[h] = "ended" /\ proc[h] # "up")

\* "If the caller's timeout fires before the daemon responds, the daemon process is killed
\* and restarted on the next invocation" (daemon.rs:25): a call made while the thread still
\* works for a caller that gave up is taken up.
TimedOutIsReplaced ==
  \A c \in Callers :
    (/\ pc[c] = "send" /\ hdl[c] \in Handles
     /\ th[hdl[c]] = "read" /\ ~Listening(job[hdl[c]]))
      ~> (pc[c] # "send")
=============================================================================
