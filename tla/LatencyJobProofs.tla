--------------------------- MODULE LatencyJobProofs ---------------------------
(***************************************************************************)
(* Proofs about LatencyJob, for any number of nodes, workers and clients   *)
(* and any channel capacity.  Inv is the inductive invariant: what the     *)
(* status says of the goroutines (Phases), where the nodes are (Counting)  *)
(* and when a channel may be closed (Streams).                             *)
(***************************************************************************)
EXTENDS LatencyJob, FiniteSetTheorems, TLAPS

(* The status follows the runner; once it is done every worker has ended,  *)
(* and a goroutine has events to send only while its pc names one.         *)
Phases ==
  /\ pc[Runner] \in {"off", "feed", "wait", "done", "closed", "over"}
  /\ \A w \in Workers : pc[w] \in {"off", "recv", "probe", "node_result", "progress", "exit"}
  /\ status = "none" <=> pc[Runner] = "off"
  /\ status = "running" <=> pc[Runner] \in {"feed", "wait"}
  /\ listed \/ pc[Runner] \in {"off", "over"}
  /\ pc[Runner] \in {"off", "done", "closed", "over"} =>
       \A w \in Workers : pc[w] \in {"off", "exit"}
  /\ pending[Runner] # {} => pc[Runner] = "done"
  /\ \A w \in Workers : pending[w] # {} => pc[w] \in {"node_result", "progress"}

(* A node that is with a worker is the only one there, and is being        *)
(* probed; none is left in the queue once it was closed; the counters are  *)
(* the sizes of sets of nodes.                                             *)
Counting ==
  /\ status = "none" => where = [n \in Nodes |-> "absent"]
  /\ \A n \in Nodes : where[n] \in Workers => pc[where[n]] = "probe"
  /\ \A m, n \in Nodes : where[m] \in Workers /\ where[m] = where[n] => m = n
  /\ pc[Runner] # "feed" => Queued = {}
  /\ done = Cardinality(Counted)
  /\ done = success + failed
  /\ total = Cardinality({n \in Nodes : where[n] # "absent"})

(* No goroutine will touch the channel of c again, or c's connection broke. *)
Safe(c) == c \in dropped \/ (status = "done" /\ c \notin pending[Runner])

(* A channel is closed, or on its way to be, only if Safe; a client leaves *)
(* its stream while the server is up only then.                            *)
Streams ==
  \A c \in Clients :
    /\ client[c] = "idle" => handler[c] = "none"
    /\ handler[c] # "none" => status # "none"
    /\ c \in subs => handler[c] \in {"snapshot", "stream", "cancel"} /\ c \notin closed
    /\ c \in closed => handler[c] \in {"snapshot", "stream", "cancel", "returned"}
    /\ handler[c] \in {"none", "request", "subscribe"} =>
         \A t \in Threads : c \notin pending[t]
    /\ snap[c] = "done" => status = "done" /\ c \notin pending[Runner]
    /\ (\E i \in 1 .. Len(buf[c]) : buf[c][i] = "done") =>
         status = "done" /\ c \notin pending[Runner]
    /\ \A i \in 1 .. Len(buf[c]) : buf[c][i] = "done" => i = Len(buf[c])
    /\ handler[c] = "cancel" \/ c \in closed => Safe(c)
    /\ Up /\ client[c] \notin {"idle", "streaming"} => Safe(c)
    /\ client[c] \in {"idle", "streaming", "polling"} => polls[c] < MaxPolls

Inv == TypeOK /\ Phases /\ Counting /\ Streams /\ PanicOnlyByDisconnect

-----------------------------------------------------------------------------
(* Type correctness.                                                       *)

LEMMA TypeStep == TypeOK /\ Phases /\ Streams /\ [Next]_vars => TypeOK'
<1> USE LatencyJobAssumption
<1> SUFFICES ASSUME TypeOK, Phases, Streams, [Next]_vars PROVE TypeOK'
  OBVIOUS
<1> QED
  <2>1. ASSUME Start PROVE TypeOK'
    <3>1. PICK rows \in SUBSET Nodes :
            /\ total' = Cardinality(rows)
            /\ where' = [n \in Nodes |-> IF n \in rows THEN "queued" ELSE "absent"]
            /\ pc' = [t \in Threads |->
                        IF rows = {} THEN IF t = Runner THEN "wait" ELSE "off"
                                     ELSE IF t = Runner THEN "feed" ELSE "recv"]
      BY <2>1 DEF Start
    <3>2. total' \in Nat
      BY <3>1, FS_Subset, FS_CardinalityType
    <3>3. QED
      BY <2>1, <3>1, <3>2 DEF TypeOK, Start, Threads, EventType, channels, clientVars
  <2>2. ASSUME CloseJobs PROVE TypeOK'
    BY <2>2 DEF TypeOK, Threads, EventType, Publish, job, channels, clientVars, CloseJobs
  <2>3. ASSUME Finish PROVE TypeOK'
    BY <2>3 DEF TypeOK, Threads, EventType, Publish, job, channels, clientVars, Finish
  <2>4. ASSUME CloseAll PROVE TypeOK'
    BY <2>4 DEF TypeOK, Threads, EventType, Publish, job, channels, clientVars, CloseAll
  <2>5. ASSUME Cleanup PROVE TypeOK'
    BY <2>5 DEF TypeOK, Threads, EventType, Publish, job, channels, clientVars, Cleanup
  <2>6. ASSUME NEW n \in Nodes, NEW w \in Workers, HandOver(n, w) PROVE TypeOK'
    BY <2>6 DEF TypeOK, Threads, EventType, Publish, job, channels, clientVars, HandOver
  <2>7. ASSUME NEW n \in Nodes, NEW w \in Workers, RecordResult(n, w) PROVE TypeOK'
    BY <2>7 DEF TypeOK, Threads, EventType, Publish, job, channels, clientVars, RecordResult
  <2>8. ASSUME NEW w \in Workers, ReportProgress(w) PROVE TypeOK'
    BY <2>8 DEF TypeOK, Threads, EventType, Publish, job, channels, clientVars, ReportProgress
  <2>9. ASSUME NEW w \in Workers, WorkerExit(w) PROVE TypeOK'
    BY <2>9 DEF TypeOK, Threads, EventType, Publish, job, channels, clientVars, WorkerExit
  <2>10. ASSUME NEW t \in Threads, NEW c \in Clients, Send(t, c) PROVE TypeOK'
    <3>0. pc[t] \in EventType
      BY <2>10 DEF TypeOK, Phases, Send, Threads, EventType
    <3>1. buf' \in [Clients -> Seq(EventType)]
      BY <2>10, <3>0 DEF TypeOK, Send
    <3>2. \A d \in Clients : Len(buf'[d]) <= BufCap
      BY <2>10 DEF TypeOK, Send
    <3>3. QED
      BY <2>10, <3>1, <3>2 DEF TypeOK, Send, Threads, EventType, job, clientVars
  <2>11. ASSUME NEW t \in Threads, NEW c \in Clients, SendToClosed(t, c) PROVE TypeOK'
    BY <2>11 DEF TypeOK, Threads, EventType, Publish, job, channels, clientVars, SendToClosed
  <2>12. ASSUME NEW c \in Clients, TakeSnapshot(c) PROVE TypeOK'
    BY <2>12 DEF TypeOK, Threads, EventType, Publish, job, channels, clientVars, TakeSnapshot
  <2>13. ASSUME NEW c \in Clients, Subscribe(c) PROVE TypeOK'
    BY <2>13 DEF TypeOK, Threads, EventType, Publish, job, channels, clientVars, Subscribe
  <2>14. ASSUME NEW c \in Clients, WriteSnapshot(c) PROVE TypeOK'
    BY <2>14 DEF TypeOK, WriteSnapshot, Receive, job, channels
  <2>15. ASSUME NEW c \in Clients, WriteEvent(c) PROVE TypeOK'
    <3>1. buf' \in [Clients -> Seq(EventType)] /\ \A d \in Clients : Len(buf'[d]) <= BufCap
      BY <2>15 DEF TypeOK, WriteEvent
    <3>2. QED
      BY <2>15, <3>1 DEF TypeOK, WriteEvent, Receive, job
  <2>16. ASSUME NEW c \in Clients, ChannelEnds(c) PROVE TypeOK'
    BY <2>16 DEF TypeOK, Threads, EventType, Publish, job, channels, clientVars, ChannelEnds
  <2>17. ASSUME NEW c \in Clients, ContextDone(c) PROVE TypeOK'
    BY <2>17 DEF TypeOK, Threads, EventType, Publish, job, channels, clientVars, ContextDone
  <2>18. ASSUME NEW c \in Clients, Unsubscribe(c) PROVE TypeOK'
    BY <2>18 DEF TypeOK, Threads, EventType, Publish, job, channels, clientVars, Unsubscribe
  <2>19. ASSUME NEW c \in Clients, Connect(c) PROVE TypeOK'
    BY <2>19 DEF TypeOK, Threads, EventType, Publish, job, channels, clientVars, Connect
  <2>20. ASSUME NEW c \in Clients, Disconnect(c) PROVE TypeOK'
    BY <2>20 DEF TypeOK, Threads, EventType, Publish, job, channels, clientVars, Disconnect
  <2>21. ASSUME NEW c \in Clients, StreamError(c) PROVE TypeOK'
    BY <2>21 DEF TypeOK, Threads, EventType, Publish, job, channels, clientVars, StreamError
  <2>22. ASSUME NEW c \in Clients, Poll(c) PROVE TypeOK'
    <3>0. polls[c] \in 0 .. MaxPolls /\ polls[c] < MaxPolls
      BY <2>22 DEF TypeOK, Streams, Poll
    <3>1. polls' \in [Clients -> 0 .. MaxPolls]
      <4>1. polls' = polls \/ polls' = [polls EXCEPT ![c] = @ + 1]
        BY <2>22 DEF Poll
      <4>2. polls \in [Clients -> 0 .. MaxPolls]
        BY DEF TypeOK
      <4>3. polls[c] + 1 \in 0 .. MaxPolls
        BY <3>0, LatencyJobAssumption
      <4>4. QED
        BY <4>1, <4>2, <4>3
    <3>2. client' \in [Clients -> {"idle", "streaming", "polling", "finished", "failed", "gone"}]
      BY <2>22 DEF TypeOK, Poll
    <3>3. UNCHANGED <<server, job, pc, pending, channels, handler, snap, dropped>>
      BY <2>22 DEF Poll
    <3>4. QED
      BY <3>1, <3>2, <3>3 DEF TypeOK, job, channels
  <2>23. ASSUME Stop PROVE TypeOK'
    BY <2>23 DEF TypeOK, Threads, EventType, Publish, job, channels, clientVars, Stop
  <2>24. CASE UNCHANGED vars
    BY <2>24 DEF TypeOK, Threads, EventType, Publish, job, channels, clientVars, vars, job, channels, clientVars
  <2>25. QED
    BY <2>1, <2>2, <2>3, <2>4, <2>5, <2>6, <2>7, <2>8, <2>9, <2>10, <2>11, <2>12, <2>13, <2>14, <2>15, <2>16, <2>17, <2>18, <2>19, <2>20, <2>21, <2>22, <2>23, <2>24 DEF Next, JobStep, HandlerStep, ClientStep

-----------------------------------------------------------------------------
(* The goroutines and the status.                                          *)

LEMMA PhasesStep == TypeOK /\ Phases /\ [Next]_vars => Phases'
<1> USE LatencyJobAssumption DEF Phases, Threads, EventType
<1> SUFFICES ASSUME TypeOK, Phases, [Next]_vars PROVE Phases'
  OBVIOUS
<1>1. ASSUME Start PROVE Phases'
  <2>1. \A w \in Workers : pending[w] = {}
    BY <1>1 DEF Start
  <2>2. PICK rows \in SUBSET Nodes :
          pc' = [t \in Threads |->
                  IF rows = {} THEN IF t = Runner THEN "wait" ELSE "off"
                               ELSE IF t = Runner THEN "feed" ELSE "recv"]
    BY <1>1 DEF Start
  <2>3. pc'[Runner] \in {"feed", "wait"} /\ \A w \in Workers : pc'[w] \in {"off", "recv"}
    BY <2>2
  <2>4. QED
    BY <1>1, <2>1, <2>3 DEF Start
<1>2. ASSUME CloseJobs PROVE Phases'
  BY <1>2 DEF TypeOK, job, CloseJobs
<1>3. ASSUME Finish PROVE Phases'
  BY <1>3 DEF TypeOK, job, Publish, Finish
<1>4. ASSUME CloseAll PROVE Phases'
  BY <1>4 DEF TypeOK, job, CloseAll
<1>5. ASSUME Cleanup PROVE Phases'
  BY <1>5 DEF TypeOK, job, Cleanup
<1>6. ASSUME NEW n \in Nodes, NEW w \in Workers, HandOver(n, w) PROVE Phases'
  BY <1>6 DEF TypeOK, job, Ready, HandOver
<1>7. ASSUME NEW n \in Nodes, NEW w \in Workers, RecordResult(n, w) PROVE Phases'
  BY <1>7 DEF TypeOK, job, Publish, RecordResult
<1>8. ASSUME NEW w \in Workers, ReportProgress(w) PROVE Phases'
  BY <1>8 DEF TypeOK, job, Publish, ReportProgress
<1>9. ASSUME NEW w \in Workers, WorkerExit(w) PROVE Phases'
  BY <1>9 DEF TypeOK, job, Ready, WorkerExit
<1>10. ASSUME NEW t \in Threads, NEW c \in Clients, Send(t, c) PROVE Phases'
  BY <1>10 DEF TypeOK, job, Send
<1>11. CASE UNCHANGED <<pc, status, listed, pending>>
  BY <1>11
<1>12. QED
  BY <1>1, <1>2, <1>3, <1>4, <1>5, <1>6, <1>7, <1>8, <1>9, <1>10, <1>11
  DEF Next, JobStep, HandlerStep, ClientStep, vars, job, channels, clientVars, SendToClosed,
    TakeSnapshot, Subscribe, WriteSnapshot, WriteEvent, ChannelEnds, ContextDone,
    Unsubscribe, Connect, Disconnect, StreamError, Poll, Stop

-----------------------------------------------------------------------------
(* The counters.                                                           *)

(* The parts of Counting that are not about sizes of sets.                 *)
LEMMA PlacesStep ==
  ASSUME TypeOK, Phases, Counting, [Next]_vars
  PROVE  /\ status' = "none" => where' = [n \in Nodes |-> "absent"]
         /\ \A n \in Nodes : where'[n] \in Workers => pc'[where'[n]] = "probe"
         /\ \A m, n \in Nodes : where'[m] \in Workers /\ where'[m] = where'[n] => m = n
         /\ pc'[Runner] # "feed" => Queued' = {}
<1> DEFINE Goal ==
      /\ status' = "none" => where' = [n \in Nodes |-> "absent"]
      /\ \A n \in Nodes : where'[n] \in Workers => pc'[where'[n]] = "probe"
      /\ \A m, n \in Nodes : where'[m] \in Workers /\ where'[m] = where'[n] => m = n
      /\ pc'[Runner] # "feed" => Queued' = {}
<1> USE LatencyJobAssumption DEF TypeOK, Counting, Threads, Queued
<1>1. ASSUME Start PROVE Goal
  <2>1. PICK rows \in SUBSET Nodes :
          /\ where' = [n \in Nodes |-> IF n \in rows THEN "queued" ELSE "absent"]
          /\ pc' = [t \in Threads |->
                      IF rows = {} THEN IF t = Runner THEN "wait" ELSE "off"
                                   ELSE IF t = Runner THEN "feed" ELSE "recv"]
    BY <1>1 DEF Start
  <2>2. pc'[Runner] # "feed" => rows = {}
    BY <2>1
  <2>3. QED
    BY <1>1, <2>1, <2>2 DEF Start
<1>2. ASSUME CloseJobs PROVE Goal
  BY <1>2 DEF CloseJobs, job
<1>3. ASSUME Finish PROVE Goal
  BY <1>3 DEF Finish, Publish, Phases
<1>4. ASSUME CloseAll PROVE Goal
  BY <1>4 DEF CloseAll, job
<1>5. ASSUME Cleanup PROVE Goal
  BY <1>5 DEF Cleanup
<1>6. ASSUME NEW n \in Nodes, NEW w \in Workers, HandOver(n, w) PROVE Goal
  BY <1>6 DEF HandOver, Ready, Phases
<1>7. ASSUME NEW n \in Nodes, NEW w \in Workers, RecordResult(n, w) PROVE Goal
  BY <1>7 DEF RecordResult, Publish, Phases
<1>8. ASSUME NEW w \in Workers, ReportProgress(w) PROVE Goal
  BY <1>8 DEF ReportProgress, Publish, job
<1>9. ASSUME NEW w \in Workers, WorkerExit(w) PROVE Goal
  BY <1>9 DEF WorkerExit, Ready, job
<1>10. CASE UNCHANGED <<pc, status, where>>
  BY <1>10
<1>11. QED
  BY <1>1, <1>2, <1>3, <1>4, <1>5, <1>6, <1>7, <1>8, <1>9, <1>10
  DEF Send, Next, JobStep, HandlerStep, ClientStep, vars, job, channels, clientVars,
    SendToClosed, TakeSnapshot, Subscribe, WriteSnapshot, WriteEvent, ChannelEnds,
    ContextDone, Unsubscribe, Connect, Disconnect, StreamError, Poll, Stop

LEMMA CountingStep == TypeOK /\ Phases /\ Counting /\ [Next]_vars => Counting'
<1> SUFFICES ASSUME TypeOK, Phases, Counting, [Next]_vars PROVE Counting'
  OBVIOUS
<1> DEFINE Rows == {n \in Nodes : where[n] # "absent"}
<1> SUFFICES /\ done' = Cardinality(Counted')
             /\ done' = success' + failed'
             /\ total' = Cardinality(Rows')
  BY PlacesStep DEF Counting
<1>1. IsFiniteSet(Counted) /\ IsFiniteSet(Rows)
  BY LatencyJobAssumption, FS_Subset DEF Counted
<1>2. ASSUME Start
      PROVE  done' = Cardinality(Counted') /\ done' = success' + failed'
             /\ total' = Cardinality(Rows')
  <2>1. PICK rows \in SUBSET Nodes :
          /\ total' = Cardinality(rows)
          /\ where' = [n \in Nodes |-> IF n \in rows THEN "queued" ELSE "absent"]
    BY <1>2 DEF Start
  <2>2. Counted = {} /\ Counted' = {} /\ Rows' = rows
    BY <1>2, <2>1 DEF Start, Counting, Counted
  <2>3. QED
    BY <1>2, <2>1, <2>2 DEF Start, Counting
<1>3. ASSUME NEW n \in Nodes, NEW w \in Workers, HandOver(n, w)
      PROVE  done' = Cardinality(Counted') /\ done' = success' + failed'
             /\ total' = Cardinality(Rows')
  <2>1. Counted' = Counted /\ Rows' = Rows
    BY <1>3, LatencyJobAssumption DEF HandOver, TypeOK, Counted
  <2>2. QED
    BY <1>3, <2>1 DEF HandOver, Counting
<1>4. ASSUME NEW n \in Nodes, NEW w \in Workers, RecordResult(n, w)
      PROVE  done' = Cardinality(Counted') /\ done' = success' + failed'
             /\ total' = Cardinality(Rows')
  <2>1. Counted' = Counted \cup {n} /\ n \notin Counted /\ Rows' = Rows
    BY <1>4, LatencyJobAssumption DEF RecordResult, TypeOK, Counted
  <2>2. Cardinality(Counted') = Cardinality(Counted) + 1
    BY <1>1, <2>1, FS_AddElement
  <2>3. done' = Cardinality(Counted')
    BY <1>4, <2>2 DEF RecordResult, Counting
  <2>4. done' = success' + failed'
    BY <1>4 DEF RecordResult, Counting, TypeOK
  <2>5. total' = Cardinality(Rows')
    BY <1>4, <2>1 DEF RecordResult, Counting
  <2>6. QED
    BY <2>3, <2>4, <2>5
<1>5. CASE UNCHANGED <<where, done, success, failed, total>>
  BY <1>5 DEF Counting, Counted
<1>6. QED
  BY <1>2, <1>3, <1>4, <1>5
  DEF CloseJobs, Finish, CloseAll, Cleanup, ReportProgress, WorkerExit, Send,
    Next, JobStep, HandlerStep, ClientStep, vars, job, channels, clientVars,
    SendToClosed, TakeSnapshot, Subscribe, WriteSnapshot, WriteEvent, ChannelEnds,
    ContextDone, Unsubscribe, Connect, Disconnect, StreamError, Poll, Stop

-----------------------------------------------------------------------------
(* The channels and the clients.                                           *)

(* Once the job is done only the runner has sends left, and each of them   *)
(* is made once.                                                           *)
LEMMA SafeStays ==
  ASSUME TypeOK, Phases, [Next]_vars, NEW c \in Clients, Safe(c)
  PROVE  Safe(c)'
<1> USE LatencyJobAssumption DEF TypeOK, Safe, Threads
<1>1. ASSUME Start PROVE Safe(c)'
  BY <1>1 DEF Start, clientVars
<1>2. ASSUME Finish PROVE Safe(c)'
  BY <1>2 DEF Finish, Phases, clientVars
<1>3. ASSUME NEW n \in Nodes, NEW w \in Workers, RecordResult(n, w) PROVE Safe(c)'
  BY <1>3 DEF RecordResult, Publish, clientVars
<1>4. ASSUME NEW w \in Workers, ReportProgress(w) PROVE Safe(c)'
  BY <1>4 DEF ReportProgress, Publish, job, clientVars
<1>5. ASSUME NEW t \in Threads, NEW d \in Clients, Send(t, d) PROVE Safe(c)'
  BY <1>5 DEF Send, job, clientVars
<1>6. ASSUME NEW d \in Clients, Disconnect(d) PROVE Safe(c)'
  BY <1>6 DEF Disconnect, job
<1>7. CASE UNCHANGED <<status, pending, dropped>>
  BY <1>7
<1>8. QED
  BY <1>1, <1>2, <1>3, <1>4, <1>5, <1>6, <1>7
  DEF CloseJobs, CloseAll, Cleanup, HandOver, WorkerExit, Next, JobStep, HandlerStep, ClientStep, vars, job, channels, clientVars,
    SendToClosed, TakeSnapshot, Subscribe, WriteSnapshot, WriteEvent, ChannelEnds,
    ContextDone, Unsubscribe, Connect, Disconnect, StreamError, Poll, Stop

LEMMA StreamsStep == TypeOK /\ Phases /\ Streams /\ [Next]_vars => Streams'
<1> SUFFICES ASSUME TypeOK, Phases, Streams, [Next]_vars PROVE Streams'
  OBVIOUS
<1> USE LatencyJobAssumption DEF TypeOK, Streams, Threads
<1>1. ASSUME Start PROVE Streams'
  BY <1>1 DEF Safe, Phases, Up, job, channels, clientVars, Start
<1>2. ASSUME CloseJobs PROVE Streams'
  BY <1>2 DEF Safe, Phases, Up, job, channels, clientVars, CloseJobs
<1>3. ASSUME Finish PROVE Streams'
  BY <1>3 DEF Safe, Phases, Up, job, channels, clientVars, Publish, Finish
<1>4. ASSUME CloseAll PROVE Streams'
  BY <1>4 DEF Safe, Phases, Up, job, channels, clientVars, CloseAll
<1>5. ASSUME Cleanup PROVE Streams'
  BY <1>5 DEF Safe, Phases, Up, job, channels, clientVars, Cleanup
<1>6. ASSUME NEW n \in Nodes, NEW w \in Workers, HandOver(n, w) PROVE Streams'
  BY <1>6 DEF Safe, Phases, Up, job, channels, clientVars, Ready, HandOver
<1>7. ASSUME NEW n \in Nodes, NEW w \in Workers, RecordResult(n, w) PROVE Streams'
  BY <1>7 DEF Safe, Phases, Up, job, channels, clientVars, Publish, RecordResult
<1>8. ASSUME NEW w \in Workers, ReportProgress(w) PROVE Streams'
  BY <1>8 DEF Safe, Phases, Up, job, channels, clientVars, Publish, ReportProgress
<1>9. ASSUME NEW w \in Workers, WorkerExit(w) PROVE Streams'
  BY <1>9 DEF Safe, Phases, Up, job, channels, clientVars, Ready, WorkerExit
<1>10. ASSUME NEW t \in Threads, NEW c \in Clients, Send(t, c) PROVE Streams'
  <2>1. pc[t] = "done" => t = Runner /\ status = "done"
    BY DEF Phases
  <2>2. pc[t] \in EventType
    BY <1>10 DEF Send, Phases, EventType
  <2>3. status = "done" => \A w \in Workers : c \notin pending[w]
    BY DEF Phases
  <2>4. ~(\E i \in 1 .. Len(buf[c]) : buf[c][i] = "done")
    <3>1. CASE t = Runner
      BY <1>10, <3>1 DEF Send
    <3>2. CASE t \in Workers
      BY <1>10, <3>2, <2>3 DEF Send
    <3>3. QED
      BY <3>1, <3>2
  <2>5. SUFFICES ASSUME NEW d \in Clients
                 PROVE  /\ (\E i \in 1 .. Len(buf'[d]) : buf'[d][i] = "done") =>
                             status' = "done" /\ d \notin pending'[Runner]
                        /\ \A i \in 1 .. Len(buf'[d]) : buf'[d][i] = "done" => i = Len(buf'[d])
    BY <1>10 DEF Safe, Up, Send, job, clientVars
  <2>6. CASE buf'[d] = buf[d]
    BY <1>10, <2>6 DEF Send, job
  <2>7. CASE d = c /\ buf'[c] = Append(buf[c], pc[t])
    <3>1. buf[c] \in Seq(EventType)
      OBVIOUS
    <3>2. Len(buf'[c]) = Len(buf[c]) + 1 /\ buf'[c][Len(buf[c]) + 1] = pc[t]
          /\ \A i \in 1 .. Len(buf[c]) : buf'[c][i] = buf[c][i]
      BY <2>2, <2>7, <3>1
    <3>3. \A i \in 1 .. Len(buf[c]) : buf'[c][i] # "done"
      BY <2>4, <3>2
    <3>4. c \notin pending'[t] /\ status' = status
      BY <1>10 DEF Send, job
    <3>5. Len(buf[c]) \in Nat
      BY <3>1
    <3>6. ASSUME NEW i \in 1 .. Len(buf'[c]), buf'[c][i] = "done"
          PROVE  i = Len(buf'[c]) /\ pc[t] = "done"
      <4>1. i \in 1 .. Len(buf[c]) \/ i = Len(buf[c]) + 1
        BY <3>2, <3>5, <3>6
      <4>2. QED
        BY <3>2, <3>3, <3>6, <4>1
    <3>7. QED
      BY <2>1, <2>7, <3>4, <3>6
  <2>8. QED
    BY <1>10, <2>6, <2>7 DEF Send
<1>11. ASSUME NEW t \in Threads, NEW c \in Clients, SendToClosed(t, c) PROVE Streams'
  BY <1>11 DEF Safe, Phases, Up, job, channels, clientVars, SendToClosed
<1>12. ASSUME NEW c \in Clients, TakeSnapshot(c) PROVE Streams'
  <2>1. ~listed => Safe(c)
    BY <1>12 DEF TakeSnapshot, Phases, Safe
  <2>2. c \notin pending[Runner]
    BY <1>12 DEF TakeSnapshot
  <2>3. CASE listed
    BY <1>12, <2>2, <2>3 DEF Safe, Up, job, channels, TakeSnapshot
  <2>4. CASE ~listed
    BY <1>12, <2>1, <2>4 DEF Safe, Up, job, channels, TakeSnapshot
  <2>5. QED
    BY <2>3, <2>4
<1>13. ASSUME NEW c \in Clients, Subscribe(c) PROVE Streams'
  BY <1>13 DEF Safe, Phases, Up, job, channels, clientVars, Subscribe
<1>14. ASSUME NEW c \in Clients, WriteSnapshot(c) PROVE Streams'
  BY <1>14 DEF Safe, Phases, Up, job, channels, clientVars, Receive, WriteSnapshot
<1>15. ASSUME NEW c \in Clients, WriteEvent(c) PROVE Streams'
  BY <1>15 DEF Safe, Phases, Up, job, channels, clientVars, Receive, WriteEvent
<1>16. ASSUME NEW c \in Clients, ChannelEnds(c) PROVE Streams'
  BY <1>16 DEF Safe, Phases, Up, job, channels, clientVars, ChannelEnds
<1>17. ASSUME NEW c \in Clients, ContextDone(c) PROVE Streams'
  BY <1>17 DEF Safe, Phases, Up, job, channels, clientVars, ContextDone
<1>18. ASSUME NEW c \in Clients, Unsubscribe(c) PROVE Streams'
  BY <1>18 DEF Safe, Phases, Up, job, channels, clientVars, Unsubscribe
<1>19. ASSUME NEW c \in Clients, Connect(c) PROVE Streams'
  BY <1>19 DEF Safe, Phases, Up, job, channels, clientVars, Connect
<1>20. ASSUME NEW c \in Clients, Disconnect(c) PROVE Streams'
  BY <1>20 DEF Safe, Phases, Up, job, channels, clientVars, Disconnect
<1>21. ASSUME NEW c \in Clients, StreamError(c) PROVE Streams'
  BY <1>21 DEF Safe, Phases, Up, job, channels, clientVars, StreamError
<1>22. ASSUME NEW c \in Clients, Poll(c) PROVE Streams'
  BY <1>22 DEF Safe, Phases, Up, job, channels, clientVars, Poll
<1>23. ASSUME Stop PROVE Streams'
  BY <1>23 DEF Safe, Phases, Up, job, channels, clientVars, Stop
<1>24. CASE UNCHANGED vars
  <2>1. UNCHANGED <<server, status, pending, subs, closed, buf, handler, snap, client,
                    polls, dropped>>
    BY <1>24 DEF vars, job, channels, clientVars
  <2>2. QED
    BY <2>1 DEF Safe, Up
<1>25. QED
  BY <1>1, <1>2, <1>3, <1>4, <1>5, <1>6, <1>7, <1>8, <1>9, <1>10, <1>11, <1>12, <1>13, <1>14, <1>15, <1>16, <1>17, <1>18, <1>19, <1>20, <1>21, <1>22, <1>23, <1>24
  DEF Next, JobStep, HandlerStep, ClientStep

(* A closed channel that a goroutine still sends to belongs to a client    *)
(* whose connection broke, and no channel is closed twice.                 *)
LEMMA PanicStep ==
  TypeOK /\ Phases /\ Streams /\ PanicOnlyByDisconnect /\ [Next]_vars
    => PanicOnlyByDisconnect'
<1> SUFFICES ASSUME TypeOK, Phases, Streams, PanicOnlyByDisconnect, [Next]_vars
             PROVE  PanicOnlyByDisconnect'
  OBVIOUS
<1> USE LatencyJobAssumption DEF PanicOnlyByDisconnect
<1>1. ASSUME NEW t \in Threads, NEW c \in Clients, SendToClosed(t, c)
      PROVE  PanicOnlyByDisconnect'
  <2>1. Safe(c)
    BY <1>1 DEF SendToClosed, Streams
  <2>2. status = "done" => t = Runner
    BY <1>1 DEF SendToClosed, Phases, Threads
  <2>3. c \in dropped
    BY <1>1, <2>1, <2>2 DEF SendToClosed, Safe
  <2>4. QED
    BY <1>1, <2>3 DEF SendToClosed, clientVars
<1>2. ASSUME CloseAll PROVE PanicOnlyByDisconnect'
  <2>1. subs \cap closed = {}
    BY DEF Streams, TypeOK
  <2>2. QED
    BY <1>2, <2>1 DEF CloseAll, clientVars
<1>3. ASSUME NEW c \in Clients, Unsubscribe(c) PROVE PanicOnlyByDisconnect'
  BY <1>3 DEF Unsubscribe, Streams, clientVars
<1>4. ASSUME NEW c \in Clients, Disconnect(c) PROVE PanicOnlyByDisconnect'
  BY <1>4 DEF Disconnect
<1>5. ASSUME Stop PROVE PanicOnlyByDisconnect'
  BY <1>5 DEF Stop
<1>6. CASE UNCHANGED <<server, dropped>>
  BY <1>6
<1>7. QED
  BY <1>1, <1>2, <1>3, <1>4, <1>5, <1>6
  DEF Start, CloseJobs, Finish, Cleanup, HandOver, RecordResult, ReportProgress,
    WorkerExit, Send, TakeSnapshot, Subscribe, WriteSnapshot, WriteEvent, ChannelEnds,
    ContextDone, Connect, StreamError, Poll,
    Next, JobStep, HandlerStep, ClientStep, vars, job, channels, clientVars

-----------------------------------------------------------------------------
(* The theorems.                                                           *)

LEMMA InvInit == Init => Inv
<1> SUFFICES ASSUME Init PROVE Inv
  OBVIOUS
<1> USE LatencyJobAssumption DEF Init
<1>1. TypeOK
  <2>1. buf \in [Clients -> Seq(EventType)] /\ \A c \in Clients : Len(buf[c]) <= BufCap
    OBVIOUS
  <2>2. polls \in [Clients -> 0 .. MaxPolls]
    OBVIOUS
  <2>3. QED
    BY <2>1, <2>2 DEF TypeOK
<1>2. Phases
  BY DEF Phases, Threads
<1>3. Counting
  <2>1. Counted = {} /\ Queued = {} /\ {n \in Nodes : where[n] # "absent"} = {}
    BY DEF Counted, Queued
  <2>2. Cardinality({}) = 0
    BY FS_EmptySet
  <2>3. done = Cardinality(Counted) /\ total = Cardinality({n \in Nodes : where[n] # "absent"})
    BY <2>1, <2>2
  <2>4. QED
    BY <2>1, <2>3 DEF Counting
<1>4. Streams
  BY DEF Streams, Up, Threads
<1>5. QED
  BY <1>1, <1>2, <1>3, <1>4 DEF Inv, PanicOnlyByDisconnect

LEMMA InvStep == Inv /\ [Next]_vars => Inv'
  BY TypeStep, PhasesStep, CountingStep, StreamsStep, PanicStep DEF Inv

LEMMA InvAlways == Spec => []Inv
  BY InvInit, InvStep, PTL DEF Spec

(* Once the workers have ended, every row of the job is counted.           *)
LEMMA AllCounted ==
  ASSUME Inv, pc[Runner] \notin {"off", "feed"},
         \A w \in Workers : pc[w] \in {"off", "exit"}
  PROVE  done = total
<1> USE LatencyJobAssumption DEF Inv
<1>1. \A n \in Nodes : where[n] \notin Workers
  BY DEF Counting
<1>2. Queued = {}
  BY DEF Counting
<1>3. {n \in Nodes : where[n] # "absent"} = Counted
  BY <1>1, <1>2 DEF TypeOK, Queued, Counted
<1>4. QED
  BY <1>3 DEF Counting

(* The variables of a latency job always have their types: no channel ever *)
(* holds more than its capacity and no client polls more than its limit.   *)
THEOREM TypeCorrect == Spec => []TypeOK
  BY InvAlways, PTL DEF Inv

(* The counters of job.status always agree with the probes that ended, and *)
(* the job is marked done only when all of its nodes are counted.          *)
THEOREM CountsAlwaysConsistent == Spec => []CountsConsistent
<1>1. Inv => CountsConsistent
  <2> SUFFICES ASSUME Inv PROVE CountsConsistent
    OBVIOUS
  <2>1. status = "done" => done = total
    BY AllCounted DEF Inv, Phases
  <2>2. QED
    BY <2>1 DEF Inv, Counting, CountsConsistent
<1>2. QED
  BY InvAlways, <1>1, PTL

(* "done" is the last event that a channel of the job ever carries.        *)
THEOREM DoneIsLast == Spec => []NothingAfterDone
<1>1. Inv => NothingAfterDone
  BY DEF Inv, Phases, Streams, NothingAfterDone, Threads
<1>2. QED
  BY InvAlways, <1>1, PTL

(* Neither closeAll nor a handler whose stream ended with the job can make *)
(* a worker send to a closed channel: it takes a connection that broke.    *)
THEOREM PanicNeedsDisconnect == Spec => []PanicOnlyByDisconnect
  BY InvAlways, PTL DEF Inv

(* What a step of the job does to the status is a step of ProbeJob.        *)
LEMMA PromiseStep ==
  ASSUME Inv, [Next]_vars
  PROVE  [Promise!Next]_<<status, total, success, failed,
                          {c \in Clients : client[c] = "finished"}>>
<1> USE LatencyJobAssumption DEF Inv
<1> DEFINE told == {c \in Clients : client[c] = "finished"}
           Step == [Promise!Next]_<<status, total, success, failed, told>>
<1>1. ASSUME Start PROVE Step
  <2>1. PICK rows \in SUBSET Nodes : total' = Cardinality(rows)
    BY <1>1 DEF Start
  <2>2. total' \in Nat
    BY <2>1, FS_Subset, FS_CardinalityType
  <2>3. UNCHANGED <<success, failed, told>>
    BY <1>1 DEF Start, clientVars
  <2>4. Promise!Begin
    BY <1>1, <2>2, <2>3 DEF Start, Promise!Begin
  <2>5. QED
    BY <2>4 DEF Promise!Next
<1>2. ASSUME NEW n \in Nodes, NEW w \in Workers, RecordResult(n, w) PROVE Step
  <2> DEFINE Rows == {m \in Nodes : where[m] # "absent"}
  <2>1. status = "running"
    BY <1>2 DEF RecordResult, Phases, TypeOK, Threads
  <2>2. success + failed < total
    <3>1. Counted \subseteq Rows /\ n \in Rows \ Counted /\ IsFiniteSet(Rows)
      BY <1>2, FS_Subset DEF RecordResult, Counted
    <3>2. Cardinality(Counted) < Cardinality(Rows)
      <4>1. Cardinality(Counted) <= Cardinality(Rows)
            /\ Cardinality(Counted) # Cardinality(Rows)
        BY <3>1, FS_Subset
      <4>2. Cardinality(Counted) \in Nat /\ Cardinality(Rows) \in Nat
        BY <3>1, FS_Subset, FS_CardinalityType
      <4>3. QED
        BY <4>1, <4>2
    <3>3. QED
      BY <3>2 DEF Counting
  <2>3. UNCHANGED <<status, total, told>>
    BY <1>2 DEF RecordResult, clientVars
  <2>4. Promise!Count
    BY <1>2, <2>1, <2>2, <2>3 DEF RecordResult, Promise!Count
  <2>5. QED
    BY <2>4 DEF Promise!Next
<1>3. ASSUME Finish PROVE Step
  <2>1. UNCHANGED <<total, success, failed, told>>
    BY <1>3 DEF Finish, clientVars
  <2>2. status = "running"
    BY <1>3 DEF Finish, Phases
  <2>3. success + failed = total
    BY <1>3, AllCounted DEF Finish, Counting
  <2>4. Promise!End
    BY <1>3, <2>1, <2>2, <2>3 DEF Finish, Promise!End
  <2>5. QED
    BY <2>4 DEF Promise!Next
<1>4. ASSUME UNCHANGED <<status, total, success, failed>>, told' = told PROVE Step
  BY <1>4
<1>5. ASSUME NEW c \in Clients, Receive(c, "done"), status = "done",
             UNCHANGED <<status, total, success, failed>>
      PROVE  Step
  <2>1. told' = told \/ told' = told \cup {c}
    BY <1>5 DEF TypeOK, Receive
  <2>2. told' = told \cup {c} => Promise!Tell(c)
    BY <1>5 DEF Promise!Tell
  <2>3. QED
    BY <1>5, <2>1, <2>2 DEF Promise!Next
<1>6. ASSUME NEW c \in Clients, NEW st, Receive(c, st), st # "done" PROVE told' = told
  BY <1>6 DEF TypeOK, Receive
<1>7. ASSUME NEW c \in Clients, WriteSnapshot(c) PROVE Step
  BY <1>4, <1>5, <1>6, <1>7 DEF WriteSnapshot, Streams, job
<1>8. ASSUME NEW c \in Clients, WriteEvent(c) PROVE Step
  <2>1. Head(buf[c]) = "done" => status = "done"
    BY <1>8 DEF WriteEvent, Streams, TypeOK
  <2>2. QED
    BY <1>4, <1>5, <1>6, <1>8, <2>1 DEF WriteEvent, job
<1>9. ASSUME NEW c \in Clients, Poll(c) PROVE Step
  <2>1. CASE client' = [client EXCEPT ![c] = "finished"] /\ status = "done"
    <3>1. told' = told \cup {c}
      BY <2>1 DEF TypeOK
    <3>2. Promise!Tell(c)
      BY <1>9, <2>1, <3>1 DEF Poll, job, Promise!Tell
    <3>3. QED
      BY <3>2 DEF Promise!Next
  <2>2. CASE \E v \in {"failed", "polling"} : client' = [client EXCEPT ![c] = v]
    <3>1. told' = told
      BY <1>9, <2>2 DEF Poll, TypeOK
    <3>2. QED
      BY <1>4, <1>9, <3>1 DEF Poll, job
  <2>3. QED
    BY <1>9, <2>1, <2>2 DEF Poll
<1>10. ASSUME NEW c \in Clients,
              TakeSnapshot(c) \/ ChannelEnds(c) \/ Connect(c) \/ Disconnect(c) \/ StreamError(c)
       PROVE  Step
  <2>1. told' = told
    BY <1>10 DEF TypeOK, TakeSnapshot, ChannelEnds, Connect, Disconnect, StreamError
  <2>2. QED
    BY <1>4, <1>10, <2>1
    DEF TakeSnapshot, ChannelEnds, Connect, Disconnect, StreamError, job
<1>11. CASE UNCHANGED <<status, total, success, failed, client>>
  BY <1>4, <1>11
<1>12. QED
  BY <1>1, <1>2, <1>3, <1>7, <1>8, <1>9, <1>10, <1>11
  DEF CloseJobs, CloseAll, Cleanup, HandOver, ReportProgress, WorkerExit, Send,
    SendToClosed, Subscribe, ContextDone, Unsubscribe, Stop, Next, JobStep,
    HandlerStep, ClientStep, vars, job, channels, clientVars

(* LatencyJob implements ProbeJob: results are counted one at a time, the  *)
(* job ends once and with all of them, and no client reports the end of a  *)
(* job that has not ended, however its stream, its polls and the server    *)
(* fail.                                                                   *)
THEOREM ImplementsProbeJob == Spec => KeepsPromise
<1>1. Init => Promise!Init
  BY DEF Init, Promise!Init
<1>2. Inv /\ [Next]_vars
        => [Promise!Next]_<<status, total, success, failed,
                            {c \in Clients : client[c] = "finished"}>>
  BY PromiseStep
<1>3. QED
  BY InvAlways, <1>1, <1>2, PTL DEF Spec, KeepsPromise, Promise!Spec

-----------------------------------------------------------------------------
(* Streams that end.                                                       *)

(* A client that streams has a handler that is not on its way out; one     *)
(* that waits on a channel is subscribed, or the channel was closed; and   *)
(* a snapshot of a job that is done ends its client's stream.              *)
Attended ==
  \A c \in Clients :
    /\ client[c] = "streaming" => handler[c] \notin {"none", "cancel", "returned"}
    /\ handler[c] \in {"snapshot", "stream"} => c \in subs \cup closed
    /\ handler[c] \in {"subscribe", "snapshot", "stream"} => snap[c] # "none"
    /\ handler[c] = "stream" /\ client[c] = "streaming" => snap[c] # "done"

LEMMA AttendedStep == Inv /\ Attended /\ [Next]_vars => Attended'
<1> SUFFICES ASSUME Inv, Attended, [Next]_vars PROVE Attended'
  OBVIOUS
<1> USE DEF Attended
<1>1. ASSUME UNCHANGED <<subs, closed, handler, snap, client>> PROVE Attended'
  BY <1>1
<1>2. ASSUME CloseAll PROVE Attended'
  BY <1>2 DEF CloseAll, clientVars
<1>3. ASSUME NEW c \in Clients, TakeSnapshot(c) PROVE Attended'
  <2>1. status # "none"
    BY <1>3 DEF TakeSnapshot, Inv, Streams
  <2>2. QED
    BY <1>3, <2>1 DEF TakeSnapshot, channels, Inv, TypeOK
<1>4. ASSUME NEW c \in Clients, Subscribe(c) PROVE Attended'
  BY <1>4 DEF Subscribe, clientVars, Inv, TypeOK
<1>5. ASSUME NEW c \in Clients, WriteSnapshot(c) PROVE Attended'
  BY <1>5 DEF WriteSnapshot, Receive, channels, Inv, TypeOK
<1>6. ASSUME NEW c \in Clients, WriteEvent(c) PROVE Attended'
  BY <1>6 DEF WriteEvent, Receive, Inv, TypeOK
<1>7. ASSUME NEW c \in Clients, ChannelEnds(c) \/ ContextDone(c) PROVE Attended'
  <2> USE DEF channels, clientVars, Inv, TypeOK
  <2>1. CASE ChannelEnds(c)
    BY <2>1 DEF ChannelEnds
  <2>2. CASE ContextDone(c)
    BY <2>2 DEF ContextDone
  <2>3. QED
    BY <1>7, <2>1, <2>2
<1>8. ASSUME NEW c \in Clients, Unsubscribe(c) PROVE Attended'
  BY <1>8 DEF Unsubscribe, clientVars, Inv, TypeOK
<1>9. ASSUME NEW c \in Clients, ClientStep(c) PROVE Attended'
  <2> USE DEF channels, Inv, TypeOK
  <2>1. CASE Connect(c)
    BY <2>1 DEF Connect, Streams
  <2>2. CASE Disconnect(c) \/ StreamError(c) \/ Poll(c)
    BY <2>2 DEF Disconnect, StreamError, Poll
  <2>3. QED
    BY <1>9, <2>1, <2>2 DEF ClientStep
<1>10. ASSUME JobStep, ~CloseAll PROVE Attended'
  <2> USE <1>1 DEF channels, clientVars
  <2>1. CASE Start \/ CloseJobs \/ Finish \/ Cleanup
    BY <2>1 DEF Start, CloseJobs, Finish, Cleanup
  <2>2. ASSUME NEW w \in Workers, ReportProgress(w) \/ WorkerExit(w) PROVE Attended'
    BY <2>2 DEF ReportProgress, WorkerExit
  <2>3. ASSUME NEW w \in Workers, NEW n \in Nodes, HandOver(n, w) \/ RecordResult(n, w)
        PROVE  Attended'
    BY <2>3 DEF HandOver, RecordResult
  <2>4. ASSUME NEW t \in Threads, NEW c \in Clients, Send(t, c) \/ SendToClosed(t, c)
        PROVE  Attended'
    BY <2>4 DEF Send, SendToClosed
  <2>5. QED
    BY <1>10, <2>1, <2>2, <2>3, <2>4 DEF JobStep
<1>11. CASE Stop \/ UNCHANGED vars
  BY <1>1, <1>11 DEF Stop, vars, channels, clientVars
<1>12. QED
  BY <1>2, <1>3, <1>4, <1>5, <1>6, <1>7, <1>8, <1>9, <1>10, <1>11 DEF Next, HandlerStep

(* No stream is forgotten, with any number of clients and whatever events  *)
(* are dropped, but that of a client that subscribed too late.             *)
THEOREM StreamsAttended == Spec => []NoStreamForgotten
<1>1. Init => Attended
  BY DEF Init, Attended
<1>2. Inv /\ Attended => NoStreamForgotten
  <2> SUFFICES ASSUME Inv, Attended, NEW c \in Clients, client[c] = "streaming"
               PROVE  \/ handler[c] \in {"request", "subscribe", "snapshot"}
                      \/ /\ handler[c] = "stream"
                         /\ \/ c \in closed
                            \/ c \in subs /\ pc[Runner] \notin {"closed", "over"}
                            \/ SubscribedTooLate(c)
    BY DEF NoStreamForgotten
  <2>1. handler[c] \in {"request", "subscribe", "snapshot", "stream"}
    BY DEF Inv, TypeOK, Attended
  <2>2. snap[c] \in {"none", "running", "done"}
    BY DEF Inv, TypeOK
  <2>3. QED
    BY <2>1, <2>2 DEF Attended, SubscribedTooLate
<1>3. QED
  BY InvAlways, <1>1, <1>2, AttendedStep, PTL DEF Spec
=============================================================================
