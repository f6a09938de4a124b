------------------------------ MODULE LatencyJob ------------------------------
(***************************************************************************)
(* One subscription latency job: the goroutine that runs it, its probe     *)
(* workers, the channels of its event streams, the HTTP handler of each    *)
(* stream, and the web client that first streams and then falls back to    *)
(* polling.  server/internal/service/subscription_latency_job.go, the      *)
(* SubscriptionLatencyJobEvents handler, and the job functions of          *)
(* web/src/App.tsx.                                                        *)
(*                                                                         *)
(* What a probe measures is abstracted to whether it succeeded.  A client  *)
(* opens at most one stream per job, as streamSubscriptionLatencyJob does, *)
(* so a client names its channel as well.  What a handler writes reaches   *)
(* its client in the same step; a connection that breaks is Disconnect.    *)
(***************************************************************************)
EXTENDS Naturals, Sequences, FiniteSets

CONSTANTS
  Nodes,     (* the subscription_nodes rows the target may have             *)
  Workers,   (* the probe goroutines: cfg.LatencyConcurrency of them        *)
  Runner,    (* the goroutine of runSubscriptionLatencyJob                  *)
  Clients,   (* the web clients that know the job's id                      *)
  BufCap,    (* capacity of a subscriber's channel; 32 in the code          *)
  MaxPolls   (* status polls before a client gives up; 300 in the code      *)

ASSUME LatencyJobAssumption ==
  /\ IsFiniteSet(Nodes)
  /\ Runner \notin Workers
  /\ Workers \cap {"absent", "queued", "counted"} = {}
  /\ BufCap \in Nat \ {0}
  /\ MaxPolls \in Nat \ {0}

VARIABLES
  server,    (* the process: up, stopped by its operator, or panicked       *)
  listed,    (* whether s.latencyJobs holds the job                         *)
  status,    (* job.status.Status; "none" before the job is started         *)
  total,     (* job.status.Total                                            *)
  success,   (* job.status.Success                                          *)
  failed,    (* job.status.Failed                                           *)
  done,      (* job.status.Done                                             *)
  where,     (* of each node: absent from this job, queued in the feeder,   *)
             (* the worker that probes it, or counted in the status         *)
  pc,        (* what each goroutine does next.  While it sends an event,    *)
             (* pc is the type of that event.                               *)
  pending,   (* the channels each goroutine's update has still to send to   *)
  subs,      (* job.subscribers                                             *)
  closed,    (* the channels that were closed                               *)
  buf,       (* the events buffered in each channel                         *)
  handler,   (* what the stream handler of each client does next            *)
  snap,      (* the status in the snapshot each handler took                *)
  client,    (* what each client does                                       *)
  polls,     (* the status polls of each client that found the job running  *)
  dropped    (* history: the clients whose connection broke                 *)

job == <<listed, status, total, success, failed, done, where>>
channels == <<subs, closed, buf>>
clientVars == <<client, polls, dropped>>
vars == <<server, job, pc, pending, channels, handler, snap, clientVars>>

Threads == Workers \cup {Runner}
EventType == {"node_result", "progress", "done"}
Queued == {n \in Nodes : where[n] = "queued"}
Counted == {n \in Nodes : where[n] = "counted"}
Up == server = "up"

Init ==
  /\ server = "up"
  /\ listed = FALSE
  /\ status = "none"
  /\ total = 0 /\ success = 0 /\ failed = 0 /\ done = 0
  /\ where = [n \in Nodes |-> "absent"]
  /\ pc = [t \in Threads |-> "off"]
  /\ pending = [t \in Threads |-> {}]
  /\ subs = {} /\ closed = {}
  /\ buf = [c \in Clients |-> <<>>]
  /\ handler = [c \in Clients |-> "none"]
  /\ snap = [c \in Clients |-> "none"]
  /\ client = [c \in Clients |-> "idle"]
  /\ polls = [c \in Clients |-> 0]
  /\ dropped = {}

-----------------------------------------------------------------------------
(* The job.                                                                *)

(* Goroutine t leaves the locked part of job.update with the list of the   *)
(* channels to send its event to.                                          *)
Publish(t, type) ==
  /\ pc' = [pc EXCEPT ![t] = type]
  /\ pending' = [pending EXCEPT ![t] = subs]

(* StartSubscriptionLatencyJob with the rows it loads.  A job without rows *)
(* starts no worker and goes straight to its end.                          *)
Start ==
  /\ Up
  /\ status = "none"
  /\ \E rows \in SUBSET Nodes :
       /\ total' = Cardinality(rows)
       /\ where' = [n \in Nodes |-> IF n \in rows THEN "queued" ELSE "absent"]
       /\ pc' = [t \in Threads |->
                   IF rows = {} THEN IF t = Runner THEN "wait" ELSE "off"
                                ELSE IF t = Runner THEN "feed" ELSE "recv"]
  /\ status' = "running"
  /\ listed' = TRUE
  /\ UNCHANGED <<server, success, failed, done, pending, channels, handler,
                 snap, clientVars>>

(* A worker takes its next node, or ends, only after every send of its     *)
(* last update.                                                            *)
Ready(w) == pc[w] \in {"recv", "progress"} /\ pending[w] = {}

(* jobs <- n: the channel is unbuffered, so this needs a ready worker.     *)
HandOver(n, w) ==
  /\ Up
  /\ pc[Runner] = "feed" /\ where[n] = "queued"
  /\ Ready(w)
  /\ where' = [where EXCEPT ![n] = w]
  /\ pc' = [pc EXCEPT ![w] = "probe"]
  /\ UNCHANGED <<server, listed, status, total, success, failed, done, pending,
                 channels, handler, snap, clientVars>>

(* close(jobs), after the last node was taken.                             *)
CloseJobs ==
  /\ Up
  /\ pc[Runner] = "feed" /\ Queued = {}
  /\ pc' = [pc EXCEPT ![Runner] = "wait"]
  /\ UNCHANGED <<server, job, pending, channels, handler, snap, clientVars>>

(* Mutant: a failed probe is only counted in Done.                         *)
RecordResultForgetsFailed(n, w) ==
  /\ Up
  /\ pc[w] = "probe" /\ where[n] = w
  /\ success' \in {success, success + 1} /\ failed' = failed
  /\ done' = done + 1
  /\ where' = [where EXCEPT ![n] = "counted"]
  /\ Publish(w, "node_result")
  /\ UNCHANGED <<server, listed, status, total, channels, handler, snap, clientVars>>

(* The first update after a probe: one result is counted.                  *)
RecordResult(n, w) ==
  /\ Up
  /\ pc[w] = "probe" /\ where[n] = w
  /\ \/ success' = success + 1 /\ failed' = failed
     \/ failed' = failed + 1 /\ success' = success
  /\ done' = done + 1
  /\ where' = [where EXCEPT ![n] = "counted"]
  /\ Publish(w, "node_result")
  /\ UNCHANGED <<server, listed, status, total, channels, handler, snap, clientVars>>

(* The second update, which only reports the progress.                     *)
ReportProgress(w) ==
  /\ Up
  /\ pc[w] = "node_result" /\ pending[w] = {}
  /\ Publish(w, "progress")
  /\ UNCHANGED <<server, job, channels, handler, snap, clientVars>>

(* The worker finds jobs closed; wg.Done.                                  *)
WorkerExit(w) ==
  /\ Up
  /\ Ready(w) /\ pc[Runner] = "wait"
  /\ pc' = [pc EXCEPT ![w] = "exit"]
  /\ UNCHANGED <<server, job, pending, channels, handler, snap, clientVars>>

(* Mutant: the job is marked done without wg.Wait.                         *)
FinishWithoutWait ==
  /\ Up
  /\ pc[Runner] = "wait"
  /\ status' = "done"
  /\ Publish(Runner, "done")
  /\ UNCHANGED <<server, listed, total, success, failed, done, where, channels,
                 handler, snap, clientVars>>

(* Mutant: the job is done when all of its probes succeeded.               *)
FinishWhenAllSucceed ==
  /\ Up
  /\ pc[Runner] = "wait"
  /\ \A w \in Workers : pc[w] \in {"off", "exit"}
  /\ success = total
  /\ status' = "done"
  /\ Publish(Runner, "done")
  /\ UNCHANGED <<server, listed, total, success, failed, done, where, channels,
                 handler, snap, clientVars>>

(* After wg.Wait, or at once in a job without rows: the job is done.       *)
Finish ==
  /\ Up
  /\ pc[Runner] = "wait"
  /\ \A w \in Workers : pc[w] \in {"off", "exit"}
  /\ status' = "done"
  /\ Publish(Runner, "done")
  /\ UNCHANGED <<server, listed, total, success, failed, done, where, channels,
                 handler, snap, clientVars>>

(* Mutant: closeAll forgets the subscribers but leaves their channels open. *)
CloseAllWithoutClose ==
  /\ Up
  /\ pc[Runner] = "done" /\ pending[Runner] = {}
  /\ server' = server
  /\ closed' = closed
  /\ subs' = {}
  /\ pc' = [pc EXCEPT ![Runner] = "closed"]
  /\ UNCHANGED <<job, pending, buf, handler, snap, clientVars>>

(* closeAll.  Closing a channel twice would panic.                         *)
CloseAll ==
  /\ Up
  /\ pc[Runner] = "done" /\ pending[Runner] = {}
  /\ server' = IF subs \cap closed = {} THEN server ELSE "panicked"
  /\ closed' = closed \cup subs
  /\ subs' = {}
  /\ pc' = [pc EXCEPT ![Runner] = "closed"]
  /\ UNCHANGED <<job, pending, buf, handler, snap, clientVars>>

(* The cleanup goroutine, after subscriptionLatencyJobRetention.           *)
Cleanup ==
  /\ Up
  /\ pc[Runner] = "closed"
  /\ listed' = FALSE
  /\ pc' = [pc EXCEPT ![Runner] = "over"]
  /\ UNCHANGED <<server, status, total, success, failed, done, where, pending,
                 channels, handler, snap, clientVars>>

-----------------------------------------------------------------------------
(* The sends of job.update, after its unlock.                              *)

(* The non-blocking send: a full channel drops the event.                  *)
Send(t, c) ==
  /\ Up
  /\ c \in pending[t] /\ c \notin closed
  /\ pending' = [pending EXCEPT ![t] = @ \ {c}]
  /\ buf' = IF Len(buf[c]) < BufCap
              THEN [buf EXCEPT ![c] = Append(@, pc[t])] ELSE buf
  /\ UNCHANGED <<server, job, pc, subs, closed, handler, snap, clientVars>>

(* A send to a closed channel panics, in a select with a default as well,  *)
(* and nothing recovers it: the process dies.                              *)
SendToClosed(t, c) ==
  /\ Up
  /\ c \in pending[t] /\ c \in closed
  /\ server' = "panicked"
  /\ UNCHANGED <<job, pc, pending, channels, handler, snap, clientVars>>

-----------------------------------------------------------------------------
(* The stream handler of client c.                                         *)

(* SubscribeSubscriptionLatencyJob looks the job up and copies its status. *)
(* The 404 of an unknown job ends the stream with an error.                *)
TakeSnapshot(c) ==
  /\ Up
  /\ handler[c] = "request"
  /\ IF listed
       THEN /\ snap' = [snap EXCEPT ![c] = status]
            /\ handler' = [handler EXCEPT ![c] = "subscribe"]
            /\ UNCHANGED client
       ELSE /\ handler' = [handler EXCEPT ![c] = "returned"]
            /\ client' = [client EXCEPT ![c] = IF @ = "streaming" THEN "polling" ELSE @]
            /\ UNCHANGED snap
  /\ UNCHANGED <<server, job, pc, pending, channels, polls, dropped>>

(* Mutant: a job that is done takes no more subscribers.                   *)
SubscribeUnlessDone(c) ==
  /\ Up
  /\ handler[c] = "subscribe"
  /\ subs' = IF status = "done" THEN subs ELSE subs \cup {c}
  /\ handler' = [handler EXCEPT ![c] = "snapshot"]
  /\ UNCHANGED <<server, job, pc, pending, closed, buf, snap, clientVars>>

(* job.subscribe, under a lock of its own.                                 *)
Subscribe(c) ==
  /\ Up
  /\ handler[c] = "subscribe"
  /\ subs' = subs \cup {c}
  /\ handler' = [handler EXCEPT ![c] = "snapshot"]
  /\ UNCHANGED <<server, job, pc, pending, closed, buf, snap, clientVars>>

(* What onJobEvent does with an event that carries a status: done ends the *)
(* client's stream.                                                        *)
Receive(c, st) ==
  client' = [client EXCEPT ![c] =
               IF @ = "streaming" /\ st = "done" THEN "finished" ELSE @]

(* The handler writes the snapshot event.                                  *)
WriteSnapshot(c) ==
  /\ Up
  /\ handler[c] = "snapshot"
  /\ Receive(c, snap[c])
  /\ handler' = [handler EXCEPT ![c] = "stream"]
  /\ UNCHANGED <<server, job, pc, pending, channels, snap, polls, dropped>>

(* The handler takes an event from its channel and writes it.              *)
WriteEvent(c) ==
  /\ Up
  /\ handler[c] = "stream" /\ buf[c] # <<>>
  /\ Receive(c, Head(buf[c]))
  /\ handler' = [handler EXCEPT ![c] = IF Head(buf[c]) = "done" THEN "cancel" ELSE @]
  /\ buf' = [buf EXCEPT ![c] = Tail(@)]
  /\ UNCHANGED <<server, job, pc, pending, subs, closed, snap, polls, dropped>>

(* The handler finds its channel closed and returns: the client sees its   *)
(* stream end, which is an error to an EventSource.                        *)
ChannelEnds(c) ==
  /\ Up
  /\ handler[c] = "stream" /\ buf[c] = <<>> /\ c \in closed
  /\ handler' = [handler EXCEPT ![c] = "cancel"]
  /\ client' = [client EXCEPT ![c] = IF @ = "streaming" THEN "polling" ELSE @]
  /\ UNCHANGED <<server, job, pc, pending, channels, snap, polls, dropped>>

(* c.Request.Context().Done: the client closed its stream or is gone.      *)
ContextDone(c) ==
  /\ Up
  /\ handler[c] = "stream" /\ client[c] # "streaming"
  /\ handler' = [handler EXCEPT ![c] = "cancel"]
  /\ UNCHANGED <<server, job, pc, pending, channels, snap, clientVars>>

(* Mutant: unsubscribe without its membership test.                        *)
UnsubscribeAlways(c) ==
  /\ Up
  /\ handler[c] = "cancel"
  /\ subs' = subs \ {c}
  /\ closed' = closed \cup {c}
  /\ server' = IF c \in closed THEN "panicked" ELSE server
  /\ handler' = [handler EXCEPT ![c] = "returned"]
  /\ UNCHANGED <<job, pc, pending, buf, snap, clientVars>>

(* The deferred cancel: job.unsubscribe closes the channel, unless         *)
(* closeAll has done so.                                                   *)
Unsubscribe(c) ==
  /\ Up
  /\ handler[c] = "cancel"
  /\ subs' = subs \ {c}
  /\ closed' = closed \cup ({c} \cap subs)
  /\ server' = IF c \in subs \cap closed THEN "panicked" ELSE server
  /\ handler' = [handler EXCEPT ![c] = "returned"]
  /\ UNCHANGED <<job, pc, pending, buf, snap, clientVars>>

-----------------------------------------------------------------------------
(* The web client.                                                         *)

(* streamSubscriptionLatencyJob opens the EventSource.                     *)
Connect(c) ==
  /\ Up
  /\ client[c] = "idle" /\ status # "none"
  /\ client' = [client EXCEPT ![c] = "streaming"]
  /\ handler' = [handler EXCEPT ![c] = "request"]
  /\ UNCHANGED <<server, job, pc, pending, channels, snap, polls, dropped>>

(* The connection breaks while the client streams: the page stays and      *)
(* polls, or it was closed or reloaded.                                    *)
Disconnect(c) ==
  /\ client[c] = "streaming"
  /\ \E next \in {"polling", "gone"} : client' = [client EXCEPT ![c] = next]
  /\ dropped' = dropped \cup {c}
  /\ UNCHANGED <<server, job, pc, pending, channels, handler, snap, polls>>

(* es.onerror when the server is gone.                                     *)
StreamError(c) ==
  /\ ~Up
  /\ client[c] = "streaming"
  /\ client' = [client EXCEPT ![c] = "polling"]
  /\ UNCHANGED <<server, job, pc, pending, channels, handler, snap, polls, dropped>>

(* Mutant: the poll takes the absence of the job for its end.              *)
PollTakesMissingForDone(c) ==
  /\ client[c] = "polling"
  /\ \/ /\ ~Up \/ ~listed
        /\ client' = [client EXCEPT ![c] = "finished"]
        /\ UNCHANGED polls
     \/ /\ Up /\ listed /\ status = "done"
        /\ client' = [client EXCEPT ![c] = "finished"]
        /\ UNCHANGED polls
     \/ /\ Up /\ listed /\ status = "running"
        /\ polls' = [polls EXCEPT ![c] = @ + 1]
        /\ client' = [client EXCEPT ![c] = IF polls[c] + 1 = MaxPolls THEN "failed" ELSE @]
  /\ UNCHANGED <<server, job, pc, pending, channels, handler, snap, dropped>>

(* One round of pollSubscriptionLatencyJob.  The first disjunct is a       *)
(* request that throws: the 404 of a job that is no longer listed, a       *)
(* stopped server, or any error of the network or of loading the nodes.    *)
Poll(c) ==
  /\ client[c] = "polling"
  /\ \/ /\ client' = [client EXCEPT ![c] = "failed"]
        /\ UNCHANGED polls
     \/ /\ Up /\ listed /\ status = "done"
        /\ client' = [client EXCEPT ![c] = "finished"]
        /\ UNCHANGED polls
     \/ /\ Up /\ listed /\ status = "running"
        /\ polls' = [polls EXCEPT ![c] = @ + 1]
        /\ client' = [client EXCEPT ![c] = IF polls[c] + 1 = MaxPolls THEN "failed" ELSE @]
  /\ UNCHANGED <<server, job, pc, pending, channels, handler, snap, dropped>>

(* The operator stops the process; its jobs are only in its memory.        *)
Stop ==
  /\ Up
  /\ server' = "stopped"
  /\ UNCHANGED <<job, pc, pending, channels, handler, snap, clientVars>>

JobStep ==
  \/ Start \/ CloseJobs \/ Finish \/ CloseAll \/ Cleanup
  \/ \E w \in Workers :
       \/ \E n \in Nodes : HandOver(n, w) \/ RecordResult(n, w)
       \/ ReportProgress(w) \/ WorkerExit(w)
  \/ \E t \in Threads, c \in Clients : Send(t, c) \/ SendToClosed(t, c)

HandlerStep(c) ==
  \/ TakeSnapshot(c) \/ Subscribe(c) \/ WriteSnapshot(c) \/ WriteEvent(c)
  \/ ChannelEnds(c) \/ ContextDone(c) \/ Unsubscribe(c)

ClientStep(c) == Connect(c) \/ Disconnect(c) \/ StreamError(c) \/ Poll(c)

Next == JobStep \/ (\E c \in Clients : HandlerStep(c) \/ ClientStep(c)) \/ Stop

Spec == Init /\ [][Next]_vars

(* The Go scheduler runs every goroutine that can take a step, a probe     *)
(* ends by its timeout, the cleanup timer fires, and the browser runs its  *)
(* callbacks and timers.  Nothing makes anybody start the job, connect,    *)
(* disconnect or stop the server.                                          *)
Fairness ==
  /\ WF_vars(CloseJobs \/ Finish \/ CloseAll \/ Cleanup)
  /\ WF_vars(\E n \in Nodes, w \in Workers : HandOver(n, w))
  /\ \A w \in Workers :
       WF_vars((\E n \in Nodes : RecordResult(n, w)) \/ ReportProgress(w) \/ WorkerExit(w))
  /\ \A t \in Threads : WF_vars(\E c \in Clients : Send(t, c) \/ SendToClosed(t, c))
  /\ \A c \in Clients :
       /\ WF_vars(HandlerStep(c))
       /\ WF_vars(StreamError(c) \/ Poll(c))

FairSpec == Spec /\ Fairness

-----------------------------------------------------------------------------
(* Properties.                                                             *)

(* The variables have their types, no channel holds more than its capacity *)
(* and no client polls more often than its limit.                          *)
TypeOK ==
  /\ server \in {"up", "stopped", "panicked"}
  /\ listed \in BOOLEAN
  /\ status \in {"none", "running", "done"}
  /\ total \in Nat /\ success \in Nat /\ failed \in Nat /\ done \in Nat
  /\ where \in [Nodes -> Workers \cup {"absent", "queued", "counted"}]
  /\ pc \in [Threads -> EventType \cup
        {"off", "recv", "probe", "exit", "feed", "wait", "closed", "over"}]
  /\ pending \in [Threads -> SUBSET Clients]
  /\ subs \subseteq Clients /\ closed \subseteq Clients
  /\ buf \in [Clients -> Seq(EventType)]
  /\ \A c \in Clients : Len(buf[c]) <= BufCap
  /\ handler \in [Clients -> {"none", "request", "subscribe", "snapshot", "stream",
                              "cancel", "returned"}]
  /\ snap \in [Clients -> {"none", "running", "done"}]
  /\ client \in [Clients -> {"idle", "streaming", "polling", "finished", "failed", "gone"}]
  /\ polls \in [Clients -> 0 .. MaxPolls]
  /\ dropped \subseteq Clients

(* The counters the web shows agree with the probes that ended, however    *)
(* the workers interleave, and a job is only marked done once every node   *)
(* it was started with is counted.                                         *)
CountsConsistent ==
  /\ done = success + failed
  /\ done = Cardinality(Counted)
  /\ status = "done" => done = total

(* "done" is the last event of every stream: no worker still has an event  *)
(* to send after the runner published it, so a handler that returns on it  *)
(* cuts nothing off.                                                       *)
NothingAfterDone ==
  \A c \in Clients :
    /\ \A i \in 1 .. Len(buf[c]) : buf[c][i] = "done" => i = Len(buf[c])
    /\ (\E i \in 1 .. Len(buf[c]) : buf[c][i] = "done") =>
         \A t \in Threads : c \notin pending[t]

(* update sends after it unlocks, to channels that may be closed by then.  *)
(* closeAll never does that, nor does a handler that returns on the end of *)
(* the job: only a connection that breaks while a worker sends to it takes *)
(* the process down.                                                       *)
PanicOnlyByDisconnect == server = "panicked" => dropped # {}

(* A client whose stream runs on forever: it subscribed after closeAll,    *)
(* with a snapshot taken before the job was done.                          *)
SubscribedTooLate(c) ==
  c \in subs /\ snap[c] = "running" /\ pc[Runner] \in {"closed", "over"}

(* A client that streams has a handler, which is on its way to the channel *)
(* or waits on one that is closed or that the runner will close when it    *)
(* ends, whatever was dropped; the one exception is the client that        *)
(* subscribed between its snapshot and the end of the job (closeAll,       *)
(* SubscribeSubscriptionLatencyJob, SubscriptionLatencyJobEvents).         *)
NoStreamForgotten ==
  \A c \in Clients : client[c] = "streaming" =>
    \/ handler[c] \in {"request", "subscribe", "snapshot"}
    \/ /\ handler[c] = "stream"
       /\ \/ c \in closed
          \/ c \in subs /\ pc[Runner] \notin {"closed", "over"}
          \/ SubscribedTooLate(c)

(* A started job ends, unless its process dies.                            *)
JobEnds == status = "running" ~> status = "done" \/ ~Up

(* A client's stream ends, even when the "done" event was dropped because  *)
(* its channel was full; the one exception is the client that subscribed   *)
(* between its snapshot and the end of the job.                            *)
StreamEnds ==
  \A c \in Clients :
    client[c] = "streaming" ~> client[c] # "streaming" \/ SubscribedTooLate(c)

(* What the job promises to those that only read its status.               *)
Promise == INSTANCE ProbeJob WITH told <- {c \in Clients : client[c] = "finished"}
KeepsPromise == Promise!Spec
=============================================================================
