------------------------------- MODULE NodeStore -------------------------------
(***************************************************************************)
(* The subscription_nodes rows of one target and everything that writes    *)
(* them at the same time: the transactions that replace them (a pull of a  *)
(* subscription, an edit of a node group), the probes, which keep the id   *)
(* of a row they loaded earlier, and the second write of                   *)
(* RefreshSubscriptionLatency.                                             *)
(* server/internal/service/target_service.go.                              *)
(*                                                                         *)
(* A transaction first reads the rows it replaces (Open) and later deletes *)
(* and creates (Commit).  On SQLite it holds the write lock from its first *)
(* statement on; PostgreSQL's READ COMMITTED lets other writes in between. *)
(* Two transactions of one target never overlap: Singleflight orders the   *)
(* pulls, the row lock on monitor_targets the edits (edits of a target     *)
(* that was deleted are taken one at a time too).  Any write may fail.     *)
(* A feed is a set of nodes: the repetition of a node in it is left out.   *)
(***************************************************************************)
EXTENDS Naturals, FiniteSets

CONSTANTS
  Uids,           (* node_uid values                                       *)
  Workers,        (* goroutines of RefreshSubscriptionLatency              *)
  Others,         (* goroutines that probe one row: SubscriptionNodeCheck- *)
                  (* Now, the workers of latency jobs                      *)
  Editors,        (* requests that delete a node from a node group         *)
  ReadCommitted,  (* PostgreSQL (TRUE) or SQLite (FALSE)                   *)
  MaxChecks,      (* bound of a run: checks inserted                       *)
  MaxIds,         (* bound of a run: row ids given out                     *)
  None

ASSUME NodeStoreAssumption ==
  /\ IsFiniteSet(Uids)
  /\ Workers \cap Others = {}
  /\ ReadCommitted \in BOOLEAN
  /\ MaxChecks \in Nat /\ MaxIds \in Nat
  /\ None \notin Uids
  /\ None \notin [id : 1 .. MaxIds, lat : 0 .. MaxChecks]

VARIABLES
  kind,      (* the target's type                                          *)
  alive,     (* whether monitor_targets still has it                       *)
  source,    (* the nodes of node_uris (node_group), or of the content     *)
             (* that the newest parsed snapshot describes (subscription)   *)
  rows,      (* the row of each node: its id and last_latency_ms, which is *)
             (* 0 for NULL or the number of the check that measured it     *)
  nextId,    (* row ids are never reused: the last one given out           *)
  checks,    (* subscription_node_checks: <<number, node_uid>>             *)
  measured,  (* the number of the last check                               *)
  prober,    (* what each probing goroutine does, and with which row       *)
  batch,     (* RefreshSubscriptionLatency: the rows to hand over, the     *)
             (* results channel and its capacity, the results to come      *)
  kept,      (* the configuration each deletion of a node will write       *)
  pull,      (* "idle" or "fetching": refreshSubscriptionOnce              *)
  tx,        (* the open transaction, or None                              *)
  shown,     (* history: the latency last written to the row of each node  *)
  raced      (* history: nodes written while a transaction was replacing   *)
             (* their row                                                  *)

nodes == <<kind, alive, source, rows, nextId>>
probing == <<checks, measured, prober, batch>>
writers == <<kept, pull, tx>>
history == <<shown, raced>>
vars == <<nodes, probing, writers, history>>

Probers == Workers \cup Others
Listed == {u \in Uids : rows[u] # None}
Idle == [st |-> "idle", uid |-> None, id |-> 0, lat |-> 0]
NoBatch == [todo |-> {}, results |-> {}, cap |-> 0, left |-> 0]

(* Whether a write outside the transaction can go ahead.                   *)
CanWrite == ReadCommitted \/ tx = None

Init ==
  /\ kind \in {"subscription", "node_group"}
  /\ alive = TRUE
  /\ source = {}
  /\ rows = [u \in Uids |-> None]
  /\ nextId = 0
  /\ checks = {} /\ measured = 0
  /\ prober = [q \in Probers |-> Idle]
  /\ batch = NoBatch
  /\ kept = [e \in Editors |-> None]
  /\ pull = "idle"
  /\ tx = None
  /\ shown = [u \in Uids |-> 0]
  /\ raced = {}

-----------------------------------------------------------------------------
(* The transactions.                                                       *)

Open(list, drop) ==
  /\ tx = None
  /\ tx' = [list |-> list, drop |-> drop, old |-> rows, missed |-> {}]

(* UpdateTarget writes a new list of nodes into config_json and reads the  *)
(* old rows, also when the target does not exist any more.                 *)
OpenUpdate ==
  /\ kind = "node_group"
  /\ \E list \in SUBSET Uids : Open(list, None)
  /\ UNCHANGED <<nodes, probing, kept, pull, history>>

(* SubscriptionNodeDeleteFromGroup reads node_uris outside its             *)
(* transaction, and will write back what it read without node u.           *)
RequestDelete(e, u) ==
  /\ kind = "node_group" /\ alive
  /\ kept[e] = None
  /\ u \in source
  /\ kept' = [kept EXCEPT ![e] = [list |-> source \ {u}, drop |-> u]]
  /\ UNCHANGED <<nodes, probing, pull, tx, history>>

OpenDelete(e) ==
  /\ kept[e] # None
  /\ Open(kept[e].list, kept[e].drop)
  /\ kept' = [kept EXCEPT ![e] = None]
  /\ UNCHANGED <<nodes, probing, pull, history>>

(* refreshSubscriptionOnce reads its target and starts to fetch.           *)
StartPull ==
  /\ kind = "subscription" /\ alive
  /\ pull = "idle"
  /\ pull' = "fetching"
  /\ UNCHANGED <<nodes, probing, kept, tx, history>>

(* The fetch failed: an unreachable snapshot is saved, no row changes.     *)
FetchFails ==
  /\ pull = "fetching"
  /\ pull' = "idle"
  /\ UNCHANGED <<nodes, probing, kept, tx, history>>

(* The content came; one that does not parse has no nodes.  The            *)
(* transaction saves its snapshot and reads the old rows.                  *)
OpenPull ==
  /\ pull = "fetching"
  /\ \E list \in SUBSET Uids : Open(list, None)
  /\ pull' = "idle"
  /\ UNCHANGED <<nodes, probing, kept, history>>

(* New rows for the nodes of the list, created in the order of the feed,   *)
(* each with the latency of the old row of that node.                      *)
Replace(list, old) ==
  \E ids \in [list -> nextId + 1 .. nextId + Cardinality(list)] :
    /\ \A u, v \in list : ids[u] = ids[v] => u = v
    /\ rows' = [u \in Uids |->
         IF u \in list
           THEN [id |-> ids[u], lat |-> IF old[u] = None THEN 0 ELSE old[u].lat]
           ELSE None]

(* Mutant: the new rows start without a latency.                           *)
CommitForgetsLatency ==
  /\ tx # None
  /\ nextId + Cardinality(tx.list) <= MaxIds
  /\ Replace(tx.list, [u \in Uids |-> None])
  /\ nextId' = nextId + Cardinality(tx.list)
  /\ source' = IF kind = "subscription" \/ alive THEN tx.list ELSE source
  /\ checks' = {k \in checks : k[2] # tx.drop}
  /\ shown' = [u \in Uids |-> IF u \in tx.list /\ rows[u] # None THEN shown[u] ELSE 0]
  /\ raced' = (raced \cup tx.missed) \cap tx.list
  /\ tx' = None
  /\ UNCHANGED <<kind, alive, measured, prober, batch, kept, pull>>

(* The rows are deleted and created, the checks of a deleted node go, and  *)
(* the transaction commits.  A subscription that was deleted meanwhile     *)
(* gets its snapshot and rows all the same; the UPDATE of config_json      *)
(* finds no row then.                                                      *)
Commit ==
  /\ tx # None
  /\ nextId + Cardinality(tx.list) <= MaxIds
  /\ Replace(tx.list, tx.old)
  /\ nextId' = nextId + Cardinality(tx.list)
  /\ source' = IF kind = "subscription" \/ alive THEN tx.list ELSE source
  /\ checks' = {k \in checks : k[2] # tx.drop}
  /\ shown' = [u \in Uids |-> IF u \in tx.list /\ rows[u] # None THEN shown[u] ELSE 0]
  /\ raced' = (raced \cup tx.missed) \cap tx.list
  /\ tx' = None
  /\ UNCHANGED <<kind, alive, measured, prober, batch, kept, pull>>

(* Mutant: config_json is written outside the transaction.                 *)
RollbackKeepsConfig ==
  /\ tx # None
  /\ source' = tx.list
  /\ tx' = None
  /\ UNCHANGED <<kind, alive, rows, nextId, probing, kept, pull, history>>

(* A statement or the commit fails.                                        *)
Rollback ==
  /\ tx # None
  /\ tx' = None
  /\ UNCHANGED <<nodes, probing, kept, pull, history>>

(* DeleteTarget: the row of the target goes, and nothing else.  It waits   *)
(* for the lock of an edit, and on SQLite for any transaction.             *)
DeleteTarget ==
  /\ alive
  /\ tx # None => ReadCommitted /\ kind = "subscription"
  /\ alive' = FALSE
  /\ UNCHANGED <<kind, source, rows, nextId, probing, writers, history>>

-----------------------------------------------------------------------------
(* The probes.                                                             *)

(* UPDATE subscription_nodes SET last_latency_ms WHERE id: a row that was  *)
(* replaced meanwhile is not there any more.  A write between the read and *)
(* the delete of a transaction is noted.                                   *)
WriteLatency(id, lat) ==
  LET hit == {u \in Listed : rows[u].id = id} IN
  /\ rows' = [u \in Uids |-> IF u \in hit THEN [rows[u] EXCEPT !.lat = lat] ELSE rows[u]]
  /\ shown' = [u \in Uids |-> IF u \in hit THEN lat ELSE shown[u]]
  /\ raced' = raced \ hit
  /\ tx' = IF tx = None THEN tx ELSE [tx EXCEPT !.missed = @ \cup hit]

(* A goroutine loads one row and probes it.                                *)
LoadNode(q, u) ==
  /\ alive
  /\ prober[q] = Idle /\ u \in Listed
  /\ prober' = [prober EXCEPT ![q] = [st |-> "probe", uid |-> u, id |-> rows[u].id, lat |-> 0]]
  /\ UNCHANGED <<nodes, checks, measured, batch, writers, history>>

(* RefreshSubscriptionLatency loads all rows.  Its results channel has     *)
(* room for all of them.                                                   *)
StartBatch ==
  /\ alive
  /\ batch = NoBatch /\ Listed # {}
  /\ batch' = [todo |-> {<<rows[u].id, u>> : u \in Listed}, results |-> {},
               cap |-> Cardinality(Listed), left |-> Cardinality(Listed)]
  /\ UNCHANGED <<nodes, checks, measured, prober, writers, history>>

(* jobs <- node, to a worker that waits for one.                           *)
HandOver(w) ==
  /\ prober[w] = Idle
  /\ \E n \in batch.todo :
       /\ prober' = [prober EXCEPT ![w] = [st |-> "probe", uid |-> n[2], id |-> n[1], lat |-> 0]]
       /\ batch' = [batch EXCEPT !.todo = @ \ {n}]
  /\ UNCHANGED <<nodes, checks, measured, writers, history>>

(* Mutant: a check that could not be saved is ignored.                     *)
InsertCheckIgnoringErrors(q) ==
  /\ prober[q].st = "probe"
  /\ CanWrite /\ measured < MaxChecks
  /\ measured' = measured + 1
  /\ checks' \in {checks, checks \cup {<<measured', prober[q].uid>>}}
  /\ \E lat \in {measured', 0} :
       prober' = [prober EXCEPT ![q].st = "update", ![q].uid = None, ![q].lat = lat]
  /\ UNCHANGED <<nodes, batch, writers, history>>

(* The probe ended, well or not (NULL), and its check is inserted.         *)
InsertCheck(q) ==
  /\ prober[q].st = "probe"
  /\ CanWrite /\ measured < MaxChecks
  /\ measured' = measured + 1
  /\ checks' = checks \cup {<<measured', prober[q].uid>>}
  /\ \E lat \in {measured', 0} :
       prober' = [prober EXCEPT ![q].st = "update", ![q].uid = None, ![q].lat = lat]
  /\ UNCHANGED <<nodes, batch, writers, history>>

(* probeAndPersistSubscriptionNode returns a latency.  A worker of the     *)
(* batch has to send it on.                                                *)
ProbeReturns(q, lat) ==
  prober' = [prober EXCEPT ![q] =
    IF q \in Workers THEN [@ EXCEPT !.st = "report", !.uid = None, !.lat = lat] ELSE Idle]

(* The second write of a probe, to the row it loaded.                      *)
UpdateRow(q) ==
  /\ prober[q].st = "update"
  /\ CanWrite
  /\ WriteLatency(prober[q].id, prober[q].lat)
  /\ ProbeReturns(q, prober[q].lat)
  /\ UNCHANGED <<kind, alive, source, nextId, checks, measured, batch, kept, pull>>

(* Mutant: a worker that could not save its probe goes on to the next.     *)
PersistFailsSilently(q) ==
  /\ prober[q].st \in {"probe", "update"}
  /\ prober' = [prober EXCEPT ![q] = Idle]
  /\ UNCHANGED <<nodes, checks, measured, batch, writers, history>>

(* One of the two writes fails: the probe reports no latency.              *)
PersistFails(q) ==
  /\ prober[q].st \in {"probe", "update"}
  /\ ProbeReturns(q, 0)
  /\ UNCHANGED <<nodes, checks, measured, batch, writers, history>>

(* Mutant: the results channel has no buffer.                              *)
ReportUnbuffered(w) ==
  /\ prober[w].st = "report"
  /\ batch.todo = {} /\ batch.results = {}
  /\ batch' = [batch EXCEPT !.results = @ \cup {<<prober[w].id, prober[w].lat>>}]
  /\ prober' = [prober EXCEPT ![w] = Idle]
  /\ UNCHANGED <<nodes, checks, measured, writers, history>>

(* A worker of the batch sends its result to the channel.                  *)
Report(w) ==
  /\ prober[w].st = "report"
  /\ Cardinality(batch.results) < batch.cap
  /\ batch' = [batch EXCEPT !.results = @ \cup {<<prober[w].id, prober[w].lat>>}]
  /\ prober' = [prober EXCEPT ![w] = Idle]
  /\ UNCHANGED <<nodes, checks, measured, writers, history>>

(* RefreshSubscriptionLatency takes a result and writes it once more, or   *)
(* fails to; after the last one it returns.                                *)
Collect ==
  /\ batch.left > 0 /\ batch.todo = {}
  /\ \E r \in batch.results :
       /\ batch' = IF batch.left = 1 THEN NoBatch
                   ELSE [batch EXCEPT !.results = @ \ {r}, !.left = @ - 1]
       /\ \/ CanWrite /\ WriteLatency(r[1], r[2])
          \/ UNCHANGED <<rows, tx, history>>
  /\ UNCHANGED <<kind, alive, source, nextId, checks, measured, prober, kept, pull>>

Next ==
  \/ \E e \in Editors :
       \/ OpenDelete(e)
       \/ \E u \in Uids : RequestDelete(e, u)
  \/ OpenUpdate \/ StartPull \/ FetchFails \/ OpenPull
  \/ Commit \/ Rollback \/ DeleteTarget
  \/ StartBatch \/ Collect
  \/ \E q \in Others, u \in Uids : LoadNode(q, u)
  \/ \E w \in Workers : HandOver(w) \/ Report(w)
  \/ \E q \in Probers : InsertCheck(q) \/ UpdateRow(q) \/ PersistFails(q)

(* The workers and the loop of RefreshSubscriptionLatency are goroutines   *)
(* the Go scheduler runs; a probe ends by its timeout and a statement ends *)
(* or fails.                                                               *)
Fairness ==
  /\ WF_vars(Collect)
  /\ \A w \in Workers :
       /\ WF_vars(HandOver(w))
       /\ WF_vars(InsertCheck(w) \/ UpdateRow(w) \/ PersistFails(w))
       /\ WF_vars(Report(w))

Spec == Init /\ [][Next]_vars /\ Fairness

-----------------------------------------------------------------------------
(* Properties.                                                             *)

(* The variables have their types, and a row has an id that was given out. *)
TypeOK ==
  /\ kind \in {"subscription", "node_group"}
  /\ alive \in BOOLEAN
  /\ source \subseteq Uids
  /\ nextId \in 0 .. MaxIds
  /\ measured \in 0 .. MaxChecks
  /\ rows \in [Uids -> {None} \cup [id : 1 .. nextId, lat : 0 .. measured]]
  /\ checks \subseteq (1 .. measured) \X Uids
  /\ prober \in [Probers -> [st : {"idle", "probe", "update", "report"}, uid : Uids \cup {None},
                             id : 0 .. nextId, lat : 0 .. measured]]
  /\ batch.todo \subseteq (1 .. nextId) \X Uids
  /\ batch.results \subseteq (1 .. nextId) \X (0 .. measured)
  /\ batch.cap \in Nat /\ batch.left \in Nat
  /\ kept \in [Editors -> {None} \cup [list : SUBSET Uids, drop : Uids]]
  /\ pull \in {"idle", "fetching"}
  /\ tx # None =>
       /\ tx.list \subseteq Uids /\ tx.drop \in Uids \cup {None} /\ tx.missed \subseteq Uids
       /\ tx.old \in [Uids -> {None} \cup [id : 1 .. nextId, lat : 0 .. measured]]
  /\ shown \in [Uids -> 0 .. measured]
  /\ raced \subseteq Uids

(* The latency a row shows was measured by a check of that very node that  *)
(* is in its history: a probe that outlives its row writes to no other     *)
(* node, and the history of a node goes only with its latency.             *)
LatencyHasCheck ==
  \A u \in Listed : rows[u].lat # 0 => <<rows[u].lat, u>> \in checks

(* The rows of a target that exists are the nodes of its configuration, or *)
(* of the content its newest parsed snapshot counts, whatever transactions *)
(* fail and whichever order the edits come in.                             *)
RowsFollowSource == alive => Listed = source

(* Replacing the rows loses no result: a node shows the latency that was   *)
(* last written to it.  Only a write that hits a row between the read and  *)
(* the delete of a transaction is lost, which SQLite rules out.            *)
CarriedOver ==
  /\ \A u \in Listed \ raced : rows[u].lat = shown[u]
  /\ ~ReadCommitted => raced = {}

(* Nothing of a batch is lost on its way: a worker always finds room for   *)
(* its result, while results are to come some node waits, is probed or is  *)
(* reported, and when the batch returns it leaves no worker at work        *)
(* (results := make(chan result, len(nodes)), one result for every node).  *)
AtWork == {w \in Workers : prober[w].st # "idle"}
BatchFlows ==
  /\ \A w \in AtWork : prober[w].st = "report" => Cardinality(batch.results) < batch.cap
  /\ batch.left > 0 => batch.todo # {} \/ AtWork # {} \/ batch.results # {}
  /\ batch.left = 0 => AtWork = {}

(* RefreshSubscriptionLatency returns: neither the nodes nor the results   *)
(* block its goroutines for good.                                          *)
BatchReturns == batch.left > 0 ~> batch.left = 0
=============================================================================
