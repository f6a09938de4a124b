---------------------------- MODULE NodeStoreProofs ----------------------------
(***************************************************************************)
(* Theorems about NodeStore: which rows there are, and what they show,     *)
(* whatever transactions and probes do at the same time.                   *)
(***************************************************************************)
EXTENDS NodeStore, FiniteSetTheorems, TLAPS

(***************************************************************************)
(* The invariant                                                           *)
(***************************************************************************)

Row(n, m) == [id : 1 .. n, lat : 0 .. m]
Rows(n, m) == {None} \cup Row(n, m)
ProberState(n, m) ==
  [st : {"idle", "probe", "update", "report"}, uid : Uids \cup {None}, id : 0 .. n, lat : 0 .. m]

(* The fields of a transaction and of a batch.                             *)
Shapes ==
  /\ DOMAIN batch = {"todo", "results", "cap", "left"}
  /\ tx # None => DOMAIN tx = {"list", "drop", "old", "missed"}

(* An id belongs to one node for good: what was loaded with it names that  *)
(* node.                                                                   *)
Ids ==
  /\ \A q \in Probers : prober[q].st # "idle" => prober[q].id # 0
  /\ \A u, v \in Listed : rows[u].id = rows[v].id => u = v
  /\ \A q \in Probers : prober[q].st = "probe" =>
       /\ prober[q].uid \in Uids
       /\ \A u \in Listed : rows[u].id = prober[q].id => u = prober[q].uid
  /\ \A n \in batch.todo, u \in Listed : rows[u].id = n[1] => u = n[2]

(* A latency on its way to a row was measured by a check of its node.      *)
Checked ==
  /\ LatencyHasCheck
  /\ \A q \in Probers, u \in Listed :
       prober[q].st \in {"update", "report"} /\ prober[q].lat # 0 /\ rows[u].id = prober[q].id
         => <<prober[q].lat, u>> \in checks
  /\ \A r \in batch.results, u \in Listed :
       r[2] # 0 /\ rows[u].id = r[1] => <<r[2], u>> \in checks
  /\ tx # None => \A u \in Uids :
       tx.old[u] # None /\ tx.old[u].lat # 0 => <<tx.old[u].lat, u>> \in checks

(* A deletion writes a list without the node whose checks it deletes.      *)
Drops ==
  /\ tx # None => tx.drop \notin tx.list
  /\ \A e \in Editors : kept[e] # None => kept[e].drop \notin kept[e].list

(* What a transaction read differs from the rows only where it was missed. *)
Reads ==
  tx # None =>
    /\ \A u \in Uids : tx.old[u] = None <=> rows[u] = None
    /\ \A u \in Uids \ tx.missed : tx.old[u] = rows[u]
    /\ ~ReadCommitted => tx.missed = {}

Typed == TypeOK /\ Shapes
Inv == Typed /\ Ids /\ Checked /\ Drops /\ Reads /\ CarriedOver /\ RowsFollowSource

(***************************************************************************)
(* Types                                                                   *)
(***************************************************************************)

(* A row that was given an id is there.                                    *)
LEMMA RowIsThere ==
  ASSUME TypeOK, NEW r \in Row(nextId, measured)
  PROVE  r # None
<1>1. r \in [id : 1 .. MaxIds, lat : 0 .. MaxChecks]
  BY NodeStoreAssumption DEF TypeOK, Row
<1>2. QED
  BY <1>1, NodeStoreAssumption

(* The sets of rows and of probers' states grow with their bounds.         *)
LEMMA BoundsGrow ==
  ASSUME NEW n \in Nat, NEW m \in Nat, NEW n2 \in Nat, NEW m2 \in Nat, n <= n2, m <= m2
  PROVE  /\ Rows(n, m) \subseteq Rows(n2, m2)
         /\ ProberState(n, m) \subseteq ProberState(n2, m2)
         /\ (1 .. n) \X Uids \subseteq (1 .. n2) \X Uids
         /\ (1 .. m) \X Uids \subseteq (1 .. m2) \X Uids
         /\ (1 .. n) \X (0 .. m) \subseteq (1 .. n2) \X (0 .. m2)
         /\ 0 .. m \subseteq 0 .. m2
<1>1. 1 .. n \subseteq 1 .. n2 /\ 0 .. n \subseteq 0 .. n2
      /\ 1 .. m \subseteq 1 .. m2 /\ 0 .. m \subseteq 0 .. m2
  OBVIOUS
<1>2. Rows(n, m) \subseteq Rows(n2, m2)
  BY <1>1 DEF Rows, Row
<1>3. ProberState(n, m) \subseteq ProberState(n2, m2)
  BY <1>1 DEF ProberState
<1>4. QED
  BY <1>1, <1>2, <1>3

(* A list of nodes has a size.                                             *)
LEMMA ListSize ==
  ASSUME NEW list \in SUBSET Uids
  PROVE  IsFiniteSet(list) /\ Cardinality(list) \in Nat
BY NodeStoreAssumption, FS_Subset, FS_CardinalityType

LEMMA TypedInit == Init => Typed
<1> SUFFICES ASSUME Init PROVE Typed
  OBVIOUS
<1>1. prober \in [Probers -> ProberState(0, 0)]
  BY DEF Init, Idle, ProberState
<1>2. rows \in [Uids -> Rows(0, 0)]
  BY DEF Init, Rows
<1>3. shown \in [Uids -> 0 .. 0]
  BY DEF Init
<1>4. nextId = 0 /\ measured = 0 /\ 0 \in 0 .. MaxIds /\ 0 \in 0 .. MaxChecks
  BY NodeStoreAssumption DEF Init
<1>5. /\ batch.todo = {} /\ batch.results = {} /\ batch.cap = 0 /\ batch.left = 0
      /\ DOMAIN batch = {"todo", "results", "cap", "left"}
  BY DEF Init, NoBatch
<1>6. kept \in [Editors -> {None} \cup [list : SUBSET Uids, drop : Uids]]
  BY DEF Init
<1>7. QED
  BY <1>1, <1>2, <1>3, <1>4, <1>5, <1>6 DEF Init, Typed, TypeOK, Shapes, ProberState, Rows, Row

(* What WriteLatency does, node by node.                                   *)
LEMMA WriteFacts ==
  ASSUME Typed, NEW id, NEW lat \in 0 .. measured, WriteLatency(id, lat)
  PROVE  /\ rows' \in [Uids -> Rows(nextId, measured)]
         /\ \A u \in Uids : rows'[u] = None <=> rows[u] = None
         /\ \A u \in Listed : /\ rows'[u].id = rows[u].id
                              /\ rows[u].id = id => /\ rows'[u].lat = lat /\ shown'[u] = lat
                                                    /\ u \notin raced'
                              /\ rows[u].id # id => /\ rows'[u] = rows[u] /\ shown'[u] = shown[u]
                                                    /\ u \in raced' <=> u \in raced
         /\ shown' \in [Uids -> 0 .. measured]
         /\ raced' \subseteq raced
         /\ tx = None => tx' = None
         /\ tx # None => /\ DOMAIN tx' = DOMAIN tx
                         /\ tx'.list = tx.list /\ tx'.drop = tx.drop /\ tx'.old = tx.old
                         /\ tx'.missed = tx.missed \cup {u \in Listed : rows[u].id = id}
<1> DEFINE hit == {u \in Listed : rows[u].id = id}
<1>1. /\ rows' = [u \in Uids |-> IF u \in hit THEN [rows[u] EXCEPT !.lat = lat] ELSE rows[u]]
      /\ shown' = [u \in Uids |-> IF u \in hit THEN lat ELSE shown[u]]
      /\ raced' = raced \ hit
      /\ tx' = IF tx = None THEN tx ELSE [tx EXCEPT !.missed = @ \cup hit]
  BY DEF WriteLatency
<1>2. /\ rows \in [Uids -> Rows(nextId, measured)] /\ shown \in [Uids -> 0 .. measured]
      /\ tx # None => DOMAIN tx = {"list", "drop", "old", "missed"}
  BY DEF Typed, TypeOK, Shapes, Rows, Row
<1>3. ASSUME NEW u \in Listed
      PROVE  /\ rows[u] \in Row(nextId, measured)
             /\ [rows[u] EXCEPT !.lat = lat] \in Row(nextId, measured)
             /\ [rows[u] EXCEPT !.lat = lat].id = rows[u].id
             /\ [rows[u] EXCEPT !.lat = lat].lat = lat
             /\ [rows[u] EXCEPT !.lat = lat] # None
  <2>1. rows[u] \in Row(nextId, measured)
    BY <1>2 DEF Listed, Rows
  <2>2. /\ [rows[u] EXCEPT !.lat = lat] \in Row(nextId, measured)
        /\ [rows[u] EXCEPT !.lat = lat].id = rows[u].id
        /\ [rows[u] EXCEPT !.lat = lat].lat = lat
    BY <2>1 DEF Row
  <2>3. QED
    BY <2>1, <2>2, RowIsThere DEF Typed
<1>4. hit \subseteq Listed /\ Listed \subseteq Uids /\ \A u \in Uids : u \in Listed <=> rows[u] # None
  BY DEF Listed
<1>5. rows' \in [Uids -> Rows(nextId, measured)]
  BY <1>1, <1>2, <1>3, <1>4 DEF Rows
<1>6. \A u \in Uids : rows'[u] = None <=> rows[u] = None
  BY <1>1, <1>3, <1>4
<1>7. tx # None => /\ DOMAIN tx' = DOMAIN tx
                   /\ tx'.list = tx.list /\ tx'.drop = tx.drop /\ tx'.old = tx.old
                   /\ tx'.missed = tx.missed \cup hit
  BY <1>1, <1>2
<1>8. shown' \in [Uids -> 0 .. measured]
  BY <1>1, <1>2
<1>9. QED
  BY <1>1, <1>3, <1>4, <1>5, <1>6, <1>7, <1>8

(***************************************************************************)
(* Transactions                                                            *)
(***************************************************************************)

(* A transaction that begins has read the rows as they are.                *)
LEMMA OpenKeeps ==
  ASSUME Inv, NEW list \in SUBSET Uids, NEW drop \in Uids \cup {None}, drop \notin list,
         Open(list, drop), UNCHANGED <<nodes, probing, history>>,
         kept' \in [Editors -> {None} \cup [list : SUBSET Uids, drop : Uids]],
         \A e \in Editors : kept'[e] # None => kept'[e].drop \notin kept'[e].list,
         pull' \in {"idle", "fetching"}
  PROVE  Inv'
<1>1. /\ UNCHANGED <<kind, alive, source, rows, nextId>>
      /\ UNCHANGED <<checks, measured, prober, batch>> /\ UNCHANGED <<shown, raced>>
  BY DEF nodes, probing, history
<1>2. /\ tx'.list = list /\ tx'.drop = drop /\ tx'.old = rows /\ tx'.missed = {}
      /\ DOMAIN tx' = {"list", "drop", "old", "missed"}
  BY DEF Open
<1>3. Listed' = Listed
  BY <1>1 DEF Listed
<1>4. Typed'
  BY <1>1, <1>2 DEF Inv, Typed, TypeOK, Shapes
<1>5. Ids'
  BY <1>1, <1>3 DEF Inv, Ids
<1>6. \A u \in Uids : rows[u] # None /\ rows[u].lat # 0 => <<rows[u].lat, u>> \in checks
  BY DEF Inv, Checked, LatencyHasCheck, Listed
<1>7. Checked'
  BY <1>1, <1>2, <1>3, <1>6 DEF Inv, Checked, LatencyHasCheck
<1>8. Drops' /\ Reads'
  BY <1>1, <1>2 DEF Inv, Drops, Reads
<1>9. CarriedOver' /\ RowsFollowSource'
  BY <1>1, <1>3 DEF Inv, CarriedOver, RowsFollowSource
<1>10. QED
  BY <1>4, <1>5, <1>7, <1>8, <1>9 DEF Inv

LEMMA OpensKeep ==
  ASSUME Inv, OpenUpdate \/ OpenPull \/ \E e \in Editors : OpenDelete(e)
  PROVE  Inv'
<1>1. /\ kept \in [Editors -> {None} \cup [list : SUBSET Uids, drop : Uids]]
      /\ \A e \in Editors : kept[e] # None => kept[e].drop \notin kept[e].list
      /\ pull \in {"idle", "fetching"}
  BY DEF Inv, Typed, TypeOK, Drops
<1>2. ASSUME NEW list \in SUBSET Uids, Open(list, None), kept' = kept,
             pull' \in {"idle", "fetching"}, UNCHANGED <<nodes, probing, history>>
      PROVE  Inv'
  BY <1>1, <1>2, OpenKeeps, NodeStoreAssumption
<1>3. CASE OpenUpdate
  BY <1>1, <1>2, <1>3 DEF OpenUpdate
<1>4. CASE OpenPull
  BY <1>1, <1>2, <1>4 DEF OpenPull
<1>5. ASSUME NEW e \in Editors, OpenDelete(e) PROVE Inv'
  <2>1. /\ kept[e] \in [list : SUBSET Uids, drop : Uids] /\ kept[e].drop \notin kept[e].list
        /\ Open(kept[e].list, kept[e].drop)
        /\ kept' = [kept EXCEPT ![e] = None] /\ pull' = pull
        /\ UNCHANGED <<nodes, probing, history>>
    BY <1>1, <1>5 DEF OpenDelete
  <2>2. /\ kept' \in [Editors -> {None} \cup [list : SUBSET Uids, drop : Uids]]
        /\ \A d \in Editors : kept'[d] # None => kept'[d].drop \notin kept'[d].list
    BY <1>1, <2>1
  <2>3. QED
    BY <1>1, <2>1, <2>2, OpenKeeps
<1>6. QED
  BY <1>3, <1>4, <1>5

(* Steps that leave rows, checks and probes alone.                         *)
LEMMA QuietKeeps ==
  ASSUME Inv,
         \/ StartPull \/ FetchFails \/ Rollback \/ DeleteTarget
         \/ \E e \in Editors, u \in Uids : RequestDelete(e, u)
         \/ UNCHANGED vars
  PROVE  Inv'
<1>1. /\ UNCHANGED <<kind, source, rows, nextId, checks, measured, prober, batch, shown, raced>>
      /\ alive' = alive \/ (alive /\ alive' = FALSE)
  BY DEF StartPull, FetchFails, Rollback, DeleteTarget, RequestDelete, vars, nodes, probing,
     history
<1>2. tx' \in {tx, None} /\ pull' \in {"idle", "fetching"}
  BY DEF StartPull, FetchFails, Rollback, DeleteTarget, RequestDelete, vars, writers,
     Inv, Typed, TypeOK
<1>3. /\ kept' \in [Editors -> {None} \cup [list : SUBSET Uids, drop : Uids]]
      /\ \A e \in Editors : kept'[e] # None => kept'[e].drop \notin kept'[e].list
  <2>1. CASE kept' = kept
    BY <2>1 DEF Inv, Typed, TypeOK, Drops
  <2>2. ASSUME NEW e \in Editors, NEW u \in Uids, RequestDelete(e, u)
        PROVE  /\ kept' \in [Editors -> {None} \cup [list : SUBSET Uids, drop : Uids]]
               /\ \A d \in Editors : kept'[d] # None => kept'[d].drop \notin kept'[d].list
    BY <2>2 DEF RequestDelete, Inv, Typed, TypeOK, Drops
  <2>3. QED
    BY <2>1, <2>2 DEF StartPull, FetchFails, Rollback, DeleteTarget, vars, writers
<1>4. Listed' = Listed
  BY <1>1 DEF Listed
<1>5. Typed'
  BY <1>1, <1>2, <1>3 DEF Inv, Typed, TypeOK, Shapes
<1>6. Ids' /\ Checked'
  BY <1>1, <1>2, <1>4 DEF Inv, Ids, Checked, LatencyHasCheck
<1>7. Drops' /\ Reads'
  BY <1>1, <1>2, <1>3 DEF Inv, Drops, Reads
<1>8. CarriedOver'
  BY <1>1, <1>4 DEF Inv, CarriedOver
<1>9. RowsFollowSource'
  BY <1>1, <1>4 DEF Inv, RowsFollowSource
<1>10. QED
  BY <1>5, <1>6, <1>7, <1>8, <1>9 DEF Inv

(* The new rows, node by node: those of the list, with ids of their own    *)
(* that nobody has seen.                                                   *)
LEMMA ReplaceFacts ==
  ASSUME Typed, tx # None, nextId + Cardinality(tx.list) <= MaxIds,
         Replace(tx.list, tx.old), nextId' = nextId + Cardinality(tx.list)
  PROVE  /\ nextId' \in nextId .. MaxIds
         /\ rows' \in [Uids -> Rows(nextId', measured)]
         /\ \A u \in Uids : rows'[u] # None <=> u \in tx.list
         /\ \A u \in tx.list : /\ rows'[u].id > nextId
                               /\ rows'[u].lat = IF tx.old[u] = None THEN 0 ELSE tx.old[u].lat
         /\ \A u, v \in tx.list : rows'[u].id = rows'[v].id => u = v
<1>1. /\ tx.list \in SUBSET Uids /\ tx.old \in [Uids -> Rows(nextId, measured)]
      /\ nextId \in Nat /\ measured \in 0 .. MaxChecks /\ MaxIds \in Nat /\ MaxChecks \in Nat
  BY NodeStoreAssumption DEF Typed, TypeOK, Rows, Row
<1>2. Cardinality(tx.list) \in Nat
  BY <1>1, ListSize
<1>3. PICK ids \in [tx.list -> nextId + 1 .. nextId + Cardinality(tx.list)] :
        /\ \A u, v \in tx.list : ids[u] = ids[v] => u = v
        /\ rows' = [u \in Uids |->
             IF u \in tx.list
               THEN [id |-> ids[u], lat |-> IF tx.old[u] = None THEN 0 ELSE tx.old[u].lat]
               ELSE None]
  BY DEF Replace
<1> DEFINE new(u) == [id |-> ids[u], lat |-> IF tx.old[u] = None THEN 0 ELSE tx.old[u].lat]
<1>4. nextId' \in nextId .. MaxIds /\ nextId' \in Nat
  BY <1>1, <1>2
<1>5. ASSUME NEW u \in tx.list
      PROVE  /\ ids[u] \in 1 .. nextId' /\ ids[u] > nextId
             /\ (IF tx.old[u] = None THEN 0 ELSE tx.old[u].lat) \in 0 .. measured
  <2>1. ids[u] \in nextId + 1 .. nextId'
    BY <1>3
  <2>2. tx.old[u] \in Rows(nextId, measured)
    BY <1>1
  <2>3. tx.old[u] # None => tx.old[u].lat \in 0 .. measured
    BY <2>2 DEF Rows, Row
  <2>4. QED
    BY <1>1, <1>4, <2>1, <2>3
<1>6. ASSUME NEW u \in tx.list
      PROVE  new(u) \in Row(nextId', measured) /\ new(u) # None
  <2>1. new(u) \in Row(nextId', measured)
    BY <1>5 DEF Row
  <2>2. new(u) \in [id : 1 .. MaxIds, lat : 0 .. MaxChecks]
    <3>1. 1 .. nextId' \subseteq 1 .. MaxIds /\ 0 .. measured \subseteq 0 .. MaxChecks
      BY <1>1, <1>4
    <3>2. QED
      BY <1>5, <3>1
  <2>3. QED
    BY <2>1, <2>2, NodeStoreAssumption
<1>7. rows' = [u \in Uids |-> IF u \in tx.list THEN new(u) ELSE None]
  BY <1>3
<1>8. \A u \in tx.list : new(u).id = ids[u]
                        /\ new(u).lat = IF tx.old[u] = None THEN 0 ELSE tx.old[u].lat
  OBVIOUS
<1> HIDE DEF new
<1>9. rows' \in [Uids -> Rows(nextId', measured)]
  BY <1>6, <1>7 DEF Rows
<1>10. \A u \in Uids : rows'[u] # None <=> u \in tx.list
  BY <1>1, <1>6, <1>7
<1>11. \A u \in tx.list : rows'[u] = new(u)
  BY <1>1, <1>7
<1>12. QED
  BY <1>3, <1>4, <1>5, <1>8, <1>9, <1>10, <1>11

LEMMA CommitKeeps == Inv /\ Commit => Inv'
<1> SUFFICES ASSUME Inv, Commit PROVE Inv'
  OBVIOUS
<1>1. /\ nextId' \in nextId .. MaxIds
      /\ rows' \in [Uids -> Rows(nextId', measured)]
      /\ \A u \in Uids : rows'[u] # None <=> u \in tx.list
      /\ \A u \in tx.list : /\ rows'[u].id > nextId
                            /\ rows'[u].lat = IF tx.old[u] = None THEN 0 ELSE tx.old[u].lat
      /\ \A u, v \in tx.list : rows'[u].id = rows'[v].id => u = v
  BY ReplaceFacts DEF Commit, Inv
<1>2. /\ tx # None /\ tx' = None
      /\ source' = IF kind = "subscription" \/ alive THEN tx.list ELSE source
      /\ checks' = {k \in checks : k[2] # tx.drop}
      /\ shown' = [u \in Uids |-> IF u \in tx.list /\ rows[u] # None THEN shown[u] ELSE 0]
      /\ raced' = (raced \cup tx.missed) \cap tx.list
      /\ UNCHANGED <<kind, alive, measured, prober, batch, kept, pull>>
  BY DEF Commit
<1>3. /\ tx.list \subseteq Uids /\ Listed' = tx.list
  BY <1>1, <1>2 DEF Inv, Typed, TypeOK, Listed
<1>4. /\ nextId \in Nat /\ nextId' \in Nat /\ nextId <= nextId' /\ nextId' \in 0 .. MaxIds
      /\ measured \in Nat
  BY <1>1, NodeStoreAssumption DEF Inv, Typed, TypeOK
<1>5. /\ prober \in [Probers -> ProberState(nextId, measured)]
      /\ batch.todo \subseteq (1 .. nextId) \X Uids
      /\ batch.results \subseteq (1 .. nextId) \X (0 .. measured)
  BY DEF Inv, Typed, TypeOK, ProberState
<1>6. Typed'
  <2>1. /\ prober' \in [Probers -> ProberState(nextId', measured')]
        /\ batch'.todo \subseteq (1 .. nextId') \X Uids
        /\ batch'.results \subseteq (1 .. nextId') \X (0 .. measured')
    BY <1>2, <1>4, <1>5, BoundsGrow
  <2>2. shown' \in [Uids -> 0 .. measured'] /\ raced' \subseteq Uids /\ source' \subseteq Uids
        /\ checks' \subseteq (1 .. measured') \X Uids
    BY <1>2, <1>3, <1>4 DEF Inv, Typed, TypeOK
  <2>3. rows' \in [Uids -> {None} \cup [id : 1 .. nextId', lat : 0 .. measured']]
    BY <1>1, <1>2 DEF Rows, Row
  <2>4. QED
    BY <1>2, <1>4, <2>1, <2>2, <2>3 DEF Inv, Typed, TypeOK, Shapes, ProberState
<1>7. \A u \in Listed' :
        /\ \A q \in Probers : rows'[u].id # prober[q].id
        /\ \A n \in batch.todo : rows'[u].id # n[1]
        /\ \A r \in batch.results : rows'[u].id # r[1]
  <2>1. \A q \in Probers : prober[q].id \in 0 .. nextId
    BY <1>5 DEF ProberState
  <2>2. (\A n \in batch.todo : n[1] \in 1 .. nextId) /\ (\A r \in batch.results : r[1] \in 1 .. nextId)
    BY <1>5
  <2>3. QED
    BY <1>1, <1>3, <1>4, <2>1, <2>2
<1>8. Ids'
  <2>1. \A q \in Probers : /\ prober[q].st # "idle" => prober[q].id # 0
                           /\ prober[q].st = "probe" => prober[q].uid \in Uids
    BY DEF Inv, Ids
  <2>2. QED
    BY <1>1, <1>2, <1>3, <1>7, <2>1 DEF Ids
<1>9. LatencyHasCheck'
  <2> SUFFICES ASSUME NEW u \in Listed', rows'[u].lat # 0
               PROVE  <<rows'[u].lat, u>> \in checks'
    BY DEF LatencyHasCheck
  <2>1. u \in tx.list /\ u # tx.drop
    BY <1>2, <1>3 DEF Inv, Drops
  <2>2. tx.old[u] # None /\ rows'[u].lat = tx.old[u].lat
    BY <1>1, <2>1
  <2>3. <<tx.old[u].lat, u>> \in checks
    BY <1>2, <1>3, <2>1, <2>2 DEF Inv, Checked
  <2>4. QED
    BY <1>2, <2>1, <2>2, <2>3
<1>10. Checked'
  BY <1>2, <1>7, <1>9 DEF Checked
<1>11. Drops' /\ Reads'
  BY <1>2 DEF Inv, Drops, Reads
<1>12. CarriedOver'
  <2>1. ~ReadCommitted => raced' = {}
    BY <1>2 DEF Inv, CarriedOver, Reads
  <2>2. ASSUME NEW u \in Listed' \ raced' PROVE rows'[u].lat = shown'[u]
    <3>1. u \in tx.list /\ u \in Uids /\ u \notin raced /\ u \notin tx.missed
      BY <1>2, <1>3, <2>2
    <3>2. CASE rows[u] = None
      BY <1>1, <1>2, <3>1, <3>2 DEF Inv, Reads
    <3>3. CASE rows[u] # None
      <4>1. tx.old[u] = rows[u] /\ rows[u].lat = shown[u]
        BY <1>2, <3>1, <3>3 DEF Inv, Reads, CarriedOver, Listed
      <4>2. QED
        BY <1>1, <1>2, <3>1, <3>3, <4>1
    <3>4. QED
      BY <3>2, <3>3
  <2>3. QED
    BY <2>1, <2>2 DEF CarriedOver
<1>13. RowsFollowSource'
  BY <1>2, <1>3 DEF RowsFollowSource
<1>14. QED
  BY <1>6, <1>8, <1>10, <1>11, <1>12, <1>13 DEF Inv

(***************************************************************************)
(* Probes                                                                  *)
(***************************************************************************)

(* Steps of probers that write no row: rows and transaction stay.          *)
LEMMA RowsStay ==
  ASSUME Inv, UNCHANGED <<nodes, writers, history>>
  PROVE  /\ UNCHANGED <<kind, alive, source, rows, nextId, kept, pull, tx, shown, raced>>
         /\ Listed' = Listed
         /\ Drops' /\ Reads' /\ CarriedOver' /\ RowsFollowSource'
<1>1. UNCHANGED <<kind, alive, source, rows, nextId, kept, pull, tx, shown, raced>>
  BY DEF nodes, writers, history
<1>2. Listed' = Listed
  BY <1>1 DEF Listed
<1>3. Drops' /\ Reads'
  BY <1>1 DEF Inv, Drops, Reads
<1>4. CarriedOver'
  BY <1>1, <1>2 DEF Inv, CarriedOver
<1>5. RowsFollowSource'
  BY <1>1, <1>2 DEF Inv, RowsFollowSource
<1>6. QED
  BY <1>1, <1>2, <1>3, <1>4, <1>5

(* The bounds and the sets the probers' states are taken from.             *)
LEMMA ProberTypes ==
  ASSUME Typed
  PROVE  /\ prober \in [Probers -> ProberState(nextId, measured)]
         /\ rows \in [Uids -> Rows(nextId, measured)]
         /\ nextId \in Nat /\ measured \in Nat
         /\ \A u \in Listed : u \in Uids /\ rows[u].id \in 1 .. nextId /\ rows[u].lat \in 0 .. measured
<1>1. /\ prober \in [Probers -> ProberState(nextId, measured)]
      /\ rows \in [Uids -> Rows(nextId, measured)]
  BY DEF Typed, TypeOK, ProberState, Rows, Row
<1>2. nextId \in Nat /\ measured \in Nat
  BY NodeStoreAssumption DEF Typed, TypeOK
<1>3. \A u \in Listed : u \in Uids /\ rows[u] \in Row(nextId, measured)
  BY <1>1 DEF Listed, Rows
<1>4. QED
  BY <1>1, <1>2, <1>3 DEF Row

(* A goroutine that takes up a row: a single probe, or a worker.           *)
LEMMA TakesKeep ==
  ASSUME Inv, NEW q \in Probers, NEW u \in Uids, NEW i \in 1 .. nextId,
         \A v \in Listed : rows[v].id = i => v = u,
         prober' = [prober EXCEPT ![q] = [st |-> "probe", uid |-> u, id |-> i, lat |-> 0]],
         UNCHANGED <<nodes, checks, measured, writers, history>>,
         batch' = batch \/ \E n \in batch.todo : batch' = [batch EXCEPT !.todo = @ \ {n}]
  PROVE  Inv'
<1>1. /\ UNCHANGED <<kind, alive, source, rows, nextId, kept, pull, tx, shown, raced>>
      /\ Listed' = Listed
      /\ Drops' /\ Reads' /\ CarriedOver' /\ RowsFollowSource'
  BY RowsStay
<1>2. /\ prober \in [Probers -> ProberState(nextId, measured)] /\ nextId \in Nat /\ measured \in Nat
  BY ProberTypes DEF Inv
<1>3. [st |-> "probe", uid |-> u, id |-> i, lat |-> 0] \in ProberState(nextId, measured)
  BY <1>2 DEF ProberState
<1>4. prober' \in [Probers -> ProberState(nextId', measured')]
  BY <1>1, <1>2, <1>3
<1>5. /\ DOMAIN batch' = {"todo", "results", "cap", "left"} /\ batch'.todo \subseteq batch.todo
      /\ batch'.results = batch.results /\ batch'.cap = batch.cap /\ batch'.left = batch.left
  BY DEF Inv, Typed, Shapes
<1>6. Typed'
  BY <1>1, <1>4, <1>5 DEF Inv, Typed, TypeOK, Shapes, ProberState
<1>7. \A p \in Probers :
        \/ prober'[p] = prober[p]
        \/ prober'[p].st = "probe" /\ prober'[p].uid = u /\ prober'[p].id = i
  BY <1>2
<1>8. Ids'
  BY <1>1, <1>5, <1>7 DEF Inv, Ids
<1>9. Checked'
  BY <1>1, <1>5, <1>7 DEF Inv, Checked, LatencyHasCheck
<1>10. QED
  BY <1>1, <1>6, <1>8, <1>9 DEF Inv

LEMMA LoadNodeKeeps ==
  ASSUME Inv, NEW q \in Others, NEW u \in Uids, LoadNode(q, u)
  PROVE  Inv'
<1>1. rows[u].id \in 1 .. nextId /\ u \in Listed
  BY ProberTypes DEF LoadNode, Inv
<1>2. \A v \in Listed : rows[v].id = rows[u].id => v = u
  BY <1>1 DEF Inv, Ids
<1>3. QED
  BY <1>1, <1>2, TakesKeep DEF LoadNode, Probers

LEMMA HandOverKeeps ==
  ASSUME Inv, NEW w \in Workers, HandOver(w)
  PROVE  Inv'
<1>1. PICK n \in batch.todo :
        /\ prober' = [prober EXCEPT ![w] = [st |-> "probe", uid |-> n[2], id |-> n[1], lat |-> 0]]
        /\ batch' = [batch EXCEPT !.todo = @ \ {n}]
  BY DEF HandOver
<1>2. n[1] \in 1 .. nextId /\ n[2] \in Uids /\ \A v \in Listed : rows[v].id = n[1] => v = n[2]
  BY DEF Inv, Typed, TypeOK, Ids
<1>3. w \in Probers /\ UNCHANGED <<nodes, checks, measured, writers, history>>
  BY DEF HandOver, Probers
<1>4. \E m \in batch.todo : batch' = [batch EXCEPT !.todo = @ \ {m}]
  BY <1>1
<1>5. ASSUME NEW u \in Uids, NEW i \in 1 .. nextId, u = n[2], i = n[1]
      PROVE  Inv'
  <2>1. prober' = [prober EXCEPT ![w] = [st |-> "probe", uid |-> u, id |-> i, lat |-> 0]]
    BY <1>1, <1>5
  <2>2. \A v \in Listed : rows[v].id = i => v = u
    BY <1>2, <1>5
  <2>3. QED
    BY <1>3, <1>4, <2>1, <2>2, TakesKeep
<1>6. QED
  BY <1>2, <1>5

(* The batch takes the rows as they are.                                   *)
LEMMA StartBatchKeeps == Inv /\ StartBatch => Inv'
<1> SUFFICES ASSUME Inv, StartBatch PROVE Inv'
  OBVIOUS
<1>1. /\ UNCHANGED <<kind, alive, source, rows, nextId, kept, pull, tx, shown, raced>>
      /\ Listed' = Listed
      /\ Drops' /\ Reads' /\ CarriedOver' /\ RowsFollowSource'
  BY RowsStay DEF StartBatch
<1>2. UNCHANGED <<checks, measured, prober>>
  BY DEF StartBatch
<1>3. /\ DOMAIN batch' = {"todo", "results", "cap", "left"}
      /\ batch'.todo = {<<rows[u].id, u>> : u \in Listed} /\ batch'.results = {}
      /\ batch'.cap = Cardinality(Listed) /\ batch'.left = Cardinality(Listed)
  BY DEF StartBatch
<1>4. Cardinality(Listed) \in Nat
  BY ListSize DEF Listed
<1>5. batch'.todo \subseteq (1 .. nextId) \X Uids
  BY <1>3, ProberTypes DEF Inv
<1>6. Typed'
  BY <1>1, <1>2, <1>3, <1>4, <1>5 DEF Inv, Typed, TypeOK, Shapes
<1>7. \A n \in batch'.todo, u \in Listed : rows[u].id = n[1] => u = n[2]
  BY <1>3 DEF Inv, Ids
<1>8. Ids'
  BY <1>1, <1>2, <1>7 DEF Inv, Ids
<1>9. Checked'
  BY <1>1, <1>2, <1>3 DEF Inv, Checked, LatencyHasCheck
<1>10. QED
  BY <1>1, <1>6, <1>8, <1>9 DEF Inv

(* A worker's result goes to the channel with the id of its row.           *)
LEMMA ReportKeeps ==
  ASSUME Inv, NEW w \in Workers, Report(w)
  PROVE  Inv'
<1>1. /\ UNCHANGED <<kind, alive, source, rows, nextId, kept, pull, tx, shown, raced>>
      /\ Listed' = Listed
      /\ Drops' /\ Reads' /\ CarriedOver' /\ RowsFollowSource'
  BY RowsStay DEF Report
<1>2. w \in Probers /\ prober[w].st = "report" /\ UNCHANGED <<checks, measured>>
  BY DEF Report, Probers
<1>3. /\ DOMAIN batch' = {"todo", "results", "cap", "left"} /\ batch'.todo = batch.todo
      /\ batch'.results = batch.results \cup {<<prober[w].id, prober[w].lat>>}
      /\ batch'.cap = batch.cap /\ batch'.left = batch.left
  BY DEF Report, Inv, Typed, Shapes
<1>4. /\ prober \in [Probers -> ProberState(nextId, measured)] /\ nextId \in Nat /\ measured \in Nat
  BY ProberTypes DEF Inv
<1>5. prober[w].id \in 1 .. nextId /\ prober[w].lat \in 0 .. measured
  <2>1. prober[w] \in ProberState(nextId, measured) /\ prober[w].id # 0
    BY <1>2, <1>4 DEF Inv, Ids
  <2>2. QED
    BY <1>4, <2>1 DEF ProberState
<1>6. Idle \in ProberState(nextId, measured)
  BY <1>4 DEF Idle, ProberState
<1>7. prober' = [prober EXCEPT ![w] = Idle]
  BY DEF Report
<1>8. /\ prober' \in [Probers -> ProberState(nextId', measured')]
      /\ \A p \in Probers : prober'[p] = prober[p] \/ prober'[p].st = "idle"
  BY <1>1, <1>2, <1>4, <1>6, <1>7 DEF Idle
<1>9. batch'.results \subseteq (1 .. nextId) \X (0 .. measured)
  BY <1>3, <1>5 DEF Inv, Typed, TypeOK
<1>10. Typed'
  BY <1>1, <1>2, <1>3, <1>8, <1>9 DEF Inv, Typed, TypeOK, Shapes, ProberState
<1>11. Ids'
  BY <1>1, <1>3, <1>8 DEF Inv, Ids
<1>12. \A r \in batch'.results, u \in Listed : r[2] # 0 /\ rows[u].id = r[1] => <<r[2], u>> \in checks
  BY <1>2, <1>3 DEF Inv, Checked
<1>13. Checked'
  BY <1>1, <1>2, <1>8, <1>12 DEF Inv, Checked, LatencyHasCheck
<1>14. QED
  BY <1>1, <1>10, <1>11, <1>13 DEF Inv

(* A probe that returns hands on its latency, or is over.                  *)
LEMMA ReturnFacts ==
  ASSUME Inv, NEW q \in Probers, prober[q].st # "idle", NEW lat \in 0 .. measured,
         ProbeReturns(q, lat)
  PROVE  /\ prober' \in [Probers -> ProberState(nextId, measured)]
         /\ \A p \in Probers :
              \/ prober'[p] = prober[p]
              \/ prober'[p].st = "idle"
              \/ /\ p = q /\ prober'[p].st = "report"
                 /\ prober'[p].id = prober[p].id /\ prober'[p].lat = lat
<1>1. /\ prober \in [Probers -> ProberState(nextId, measured)] /\ nextId \in Nat /\ measured \in Nat
  BY ProberTypes DEF Inv
<1> DEFINE back == [prober[q] EXCEPT !.st = "report", !.uid = None, !.lat = lat]
<1>2. prober[q] \in ProberState(nextId, measured)
  BY <1>1
<1>3. /\ back \in ProberState(nextId, measured)
      /\ back.st = "report" /\ back.id = prober[q].id /\ back.lat = lat
  BY <1>2 DEF ProberState
<1>4. Idle \in ProberState(nextId, measured) /\ Idle.st = "idle"
  BY <1>1 DEF Idle, ProberState
<1>5. prober' = [prober EXCEPT ![q] = IF q \in Workers THEN back ELSE Idle]
  BY DEF ProbeReturns
<1> HIDE DEF back
<1>6. QED
  BY <1>1, <1>3, <1>4, <1>5

(* A write that failed is reported as no latency.                          *)
LEMMA PersistFailsKeeps ==
  ASSUME Inv, NEW q \in Probers, PersistFails(q)
  PROVE  Inv'
<1>1. /\ UNCHANGED <<kind, alive, source, rows, nextId, kept, pull, tx, shown, raced>>
      /\ Listed' = Listed
      /\ Drops' /\ Reads' /\ CarriedOver' /\ RowsFollowSource'
  BY RowsStay DEF PersistFails
<1>2. /\ prober[q].st # "idle" /\ ProbeReturns(q, 0) /\ UNCHANGED <<checks, measured, batch>>
  BY DEF PersistFails
<1>3. 0 \in 0 .. measured
  BY ProberTypes DEF Inv
<1>4. /\ prober' \in [Probers -> ProberState(nextId, measured)]
      /\ \A p \in Probers :
           \/ prober'[p] = prober[p]
           \/ prober'[p].st = "idle"
           \/ prober'[p].st = "report" /\ prober'[p].id = prober[p].id /\ prober'[p].lat = 0
                /\ prober[p].st # "idle"
  BY <1>2, <1>3, ReturnFacts
<1>5. Typed'
  BY <1>1, <1>2, <1>4 DEF Inv, Typed, TypeOK, Shapes, ProberState
<1>6. Ids'
  BY <1>1, <1>2, <1>4 DEF Inv, Ids
<1>7. Checked'
  BY <1>1, <1>2, <1>4 DEF Inv, Checked, LatencyHasCheck
<1>8. QED
  BY <1>1, <1>5, <1>6, <1>7 DEF Inv

(* The check of a probe, which names the node the probe was for.           *)
LEMMA InsertCheckKeeps ==
  ASSUME Inv, NEW q \in Probers, InsertCheck(q)
  PROVE  Inv'
<1>1. /\ UNCHANGED <<kind, alive, source, rows, nextId, kept, pull, tx, shown, raced, batch>>
      /\ Listed' = Listed
      /\ Drops' /\ Reads' /\ CarriedOver' /\ RowsFollowSource'
  BY RowsStay DEF InsertCheck
<1>2. /\ prober \in [Probers -> ProberState(nextId, measured)]
      /\ rows \in [Uids -> Rows(nextId, measured)]
      /\ nextId \in Nat /\ measured \in Nat
  BY ProberTypes DEF Inv
<1>3. /\ prober[q].st = "probe" /\ measured' = measured + 1 /\ measured' \in 0 .. MaxChecks
      /\ checks' = checks \cup {<<measured', prober[q].uid>>}
  BY <1>2, NodeStoreAssumption DEF InsertCheck
<1>4. measured' \in Nat /\ measured <= measured' /\ measured' # 0
  BY <1>2, <1>3
<1>5. /\ prober[q].uid \in Uids
      /\ \A u \in Listed : rows[u].id = prober[q].id => u = prober[q].uid
  BY <1>3 DEF Inv, Ids
<1>6. PICK lat \in {measured', 0} :
        prober' = [prober EXCEPT ![q].st = "update", ![q].uid = None, ![q].lat = lat]
  BY DEF InsertCheck
<1>7. /\ prober' \in [Probers -> ProberState(nextId, measured')]
      /\ \A p \in Probers :
           \/ prober'[p] = prober[p]
           \/ /\ p = q /\ prober'[p].st = "update"
              /\ prober'[p].id = prober[p].id /\ prober'[p].lat = lat
  <2> DEFINE next == [prober[q] EXCEPT !.st = "update", !.uid = None, !.lat = lat]
  <2>1. prober \in [Probers -> ProberState(nextId, measured')]
    BY <1>2, <1>4, BoundsGrow
  <2>2. prober[q] \in ProberState(nextId, measured') /\ lat \in 0 .. measured'
    BY <1>4, <2>1
  <2>3. /\ next \in ProberState(nextId, measured')
        /\ next.st = "update" /\ next.id = prober[q].id /\ next.lat = lat
    BY <2>2 DEF ProberState
  <2>4. prober' = [prober EXCEPT ![q] = next]
    BY <1>6, <2>1
  <2> HIDE DEF next
  <2>5. QED
    BY <2>1, <2>3, <2>4
<1>8. Typed'
  <2>1. /\ rows' \in [Uids -> Rows(nextId', measured')]
        /\ batch'.results \subseteq (1 .. nextId') \X (0 .. measured')
        /\ checks \subseteq (1 .. measured') \X Uids
        /\ 0 .. measured \subseteq 0 .. measured'
        /\ Rows(nextId, measured) \subseteq Rows(nextId, measured')
    BY <1>1, <1>2, <1>4, BoundsGrow DEF Inv, Typed, TypeOK
  <2>2. checks' \subseteq (1 .. measured') \X Uids
    BY <1>3, <1>4, <1>5, <2>1
  <2>3. shown' \in [Uids -> 0 .. measured']
    BY <1>1, <2>1 DEF Inv, Typed, TypeOK
  <2>4. tx' # None => tx'.old \in [Uids -> Rows(nextId', measured')]
    BY <1>1, <2>1 DEF Inv, Typed, TypeOK, Rows, Row
  <2>5. QED
    BY <1>1, <1>3, <1>7, <2>1, <2>2, <2>3, <2>4
    DEF Inv, Typed, TypeOK, Shapes, ProberState, Rows, Row
<1>9. Ids'
  BY <1>1, <1>3, <1>7 DEF Inv, Ids
<1>10. \A p \in Probers, u \in Listed :
         prober'[p].st \in {"update", "report"} /\ prober'[p].lat # 0 /\ rows[u].id = prober'[p].id
           => <<prober'[p].lat, u>> \in checks'
  BY <1>3, <1>5, <1>6, <1>7 DEF Inv, Checked
<1>11. Checked'
  BY <1>1, <1>3, <1>10 DEF Inv, Checked, LatencyHasCheck
<1>12. QED
  BY <1>1, <1>8, <1>9, <1>11 DEF Inv

(* A write to the row of an id, of a latency whose check is in the         *)
(* history of the node that has it, keeps all that is said of the rows.    *)
LEMMA WriteKeeps ==
  ASSUME Inv, NEW id, NEW lat \in 0 .. measured, CanWrite, WriteLatency(id, lat),
         \A u \in Listed : lat # 0 /\ rows[u].id = id => <<lat, u>> \in checks,
         UNCHANGED <<kind, alive, source, nextId, checks, measured, kept, pull>>
  PROVE  /\ Listed' = Listed /\ \A u \in Listed : rows'[u].id = rows[u].id
         /\ rows' \in [Uids -> Rows(nextId, measured)] /\ shown' \in [Uids -> 0 .. measured]
         /\ raced' \subseteq Uids
         /\ tx' # None => /\ tx # None /\ DOMAIN tx' = DOMAIN tx
                          /\ tx'.list = tx.list /\ tx'.drop = tx.drop /\ tx'.old = tx.old
                          /\ tx'.missed \subseteq Uids
         /\ LatencyHasCheck' /\ Drops' /\ Reads' /\ CarriedOver' /\ RowsFollowSource'
<1>1. /\ rows' \in [Uids -> Rows(nextId, measured)]
      /\ \A u \in Uids : rows'[u] = None <=> rows[u] = None
      /\ \A u \in Listed : /\ rows'[u].id = rows[u].id
                           /\ rows[u].id = id => /\ rows'[u].lat = lat /\ shown'[u] = lat
                                                 /\ u \notin raced'
                           /\ rows[u].id # id => /\ rows'[u] = rows[u] /\ shown'[u] = shown[u]
                                                 /\ u \in raced' <=> u \in raced
      /\ shown' \in [Uids -> 0 .. measured]
      /\ raced' \subseteq raced
      /\ tx = None => tx' = None
      /\ tx # None => /\ DOMAIN tx' = DOMAIN tx
                      /\ tx'.list = tx.list /\ tx'.drop = tx.drop /\ tx'.old = tx.old
                      /\ tx'.missed = tx.missed \cup {u \in Listed : rows[u].id = id}
  BY WriteFacts DEF Inv
<1>2. Listed' = Listed /\ Listed \subseteq Uids
  BY <1>1 DEF Listed
<1>3. raced' \subseteq Uids
  BY <1>1 DEF Inv, Typed, TypeOK
<1>4. tx' # None => /\ tx # None /\ DOMAIN tx' = DOMAIN tx
                    /\ tx'.list = tx.list /\ tx'.drop = tx.drop /\ tx'.old = tx.old
                    /\ tx'.missed \subseteq Uids
  BY <1>1, <1>2 DEF Inv, Typed, TypeOK
<1>5. LatencyHasCheck'
  BY <1>1, <1>2 DEF Inv, Checked, LatencyHasCheck
<1>6. Drops'
  BY <1>4 DEF Inv, Drops
<1>7. Reads'
  <2> SUFFICES ASSUME tx' # None
               PROVE  /\ \A u \in Uids : tx'.old[u] = None <=> rows'[u] = None
                      /\ \A u \in Uids \ tx'.missed : tx'.old[u] = rows'[u]
                      /\ ~ReadCommitted => tx'.missed = {}
    BY DEF Reads
  <2>1. /\ tx # None
        /\ \A u \in Uids : tx.old[u] = None <=> rows[u] = None
        /\ \A u \in Uids \ tx.missed : tx.old[u] = rows[u]
    BY <1>4 DEF Inv, Reads
  <2>2. ReadCommitted
    BY <2>1 DEF CanWrite
  <2>3. ASSUME NEW u \in Uids \ tx'.missed PROVE rows'[u] = rows[u] /\ u \notin tx.missed
    BY <1>1, <2>1, <2>3 DEF Listed
  <2>4. QED
    BY <1>1, <1>4, <2>1, <2>2, <2>3
<1>8. CarriedOver'
  BY <1>1, <1>2 DEF Inv, CarriedOver
<1>9. RowsFollowSource'
  BY <1>2 DEF Inv, RowsFollowSource
<1>10. QED
  BY <1>1, <1>2, <1>3, <1>4, <1>5, <1>6, <1>7, <1>8, <1>9

(* The second write of a probe.                                            *)
LEMMA UpdateRowKeeps ==
  ASSUME Inv, NEW q \in Probers, UpdateRow(q)
  PROVE  Inv'
<1> DEFINE id == prober[q].id
<1> DEFINE lat == prober[q].lat
<1>1. /\ prober[q].st = "update" /\ CanWrite
      /\ WriteLatency(id, lat) /\ ProbeReturns(q, lat)
      /\ UNCHANGED <<kind, alive, source, nextId, checks, measured, batch, kept, pull>>
  BY DEF UpdateRow
<1>2. lat \in 0 .. measured
  BY ProberTypes DEF Inv, ProberState
<1>3. \A u \in Listed : lat # 0 /\ rows[u].id = id => <<lat, u>> \in checks
  BY <1>1 DEF Inv, Checked
<1>4. /\ prober' \in [Probers -> ProberState(nextId, measured)]
      /\ \A p \in Probers :
           \/ prober'[p] = prober[p]
           \/ prober'[p].st = "idle"
           \/ /\ p = q /\ prober'[p].st = "report"
              /\ prober'[p].id = prober[p].id /\ prober'[p].lat = lat
  BY <1>1, <1>2, ReturnFacts
<1>5. /\ Listed' = Listed /\ \A u \in Listed : rows'[u].id = rows[u].id
      /\ rows' \in [Uids -> Rows(nextId, measured)] /\ shown' \in [Uids -> 0 .. measured]
      /\ raced' \subseteq Uids
      /\ tx' # None => /\ tx # None /\ DOMAIN tx' = DOMAIN tx
                       /\ tx'.list = tx.list /\ tx'.drop = tx.drop /\ tx'.old = tx.old
                       /\ tx'.missed \subseteq Uids
      /\ LatencyHasCheck' /\ Drops' /\ Reads' /\ CarriedOver' /\ RowsFollowSource'
  BY <1>1, <1>2, <1>3, WriteKeeps
<1> HIDE DEF id, lat
<1>6. Typed'
  BY <1>1, <1>4, <1>5 DEF Inv, Typed, TypeOK, Shapes, ProberState, Rows, Row
<1>7. Ids'
  BY <1>1, <1>4, <1>5 DEF Inv, Ids
<1>8. Checked'
  BY <1>1, <1>4, <1>5 DEF Inv, Checked, lat
<1>9. QED
  BY <1>5, <1>6, <1>7, <1>8 DEF Inv

(* The batch writes a result once more, or fails to.                       *)
LEMMA CollectKeeps == Inv /\ Collect => Inv'
<1> SUFFICES ASSUME Inv, Collect PROVE Inv'
  OBVIOUS
<1>1. PICK r \in batch.results :
        /\ batch' = IF batch.left = 1 THEN NoBatch
                    ELSE [batch EXCEPT !.results = @ \ {r}, !.left = @ - 1]
        /\ \/ CanWrite /\ WriteLatency(r[1], r[2])
           \/ UNCHANGED <<rows, tx, history>>
  BY DEF Collect
<1>2. /\ UNCHANGED <<kind, alive, source, nextId, checks, measured, prober, kept, pull>>
      /\ batch.left > 0
  BY DEF Collect
<1>3. /\ DOMAIN batch' = {"todo", "results", "cap", "left"}
      /\ batch'.todo \subseteq batch.todo /\ batch'.results \subseteq batch.results
      /\ batch'.cap \in Nat /\ batch'.left \in Nat
  <2>1. DOMAIN batch = {"todo", "results", "cap", "left"} /\ batch.cap \in Nat /\ batch.left \in Nat
    BY DEF Inv, Typed, TypeOK, Shapes
  <2>2. CASE batch.left = 1
    BY <1>1, <2>2 DEF NoBatch
  <2>3. CASE batch.left # 1
    <3>1. batch' = [batch EXCEPT !.results = @ \ {r}, !.left = @ - 1]
      BY <1>1, <2>3
    <3>2. /\ DOMAIN batch' = DOMAIN batch /\ batch'.todo = batch.todo /\ batch'.cap = batch.cap
          /\ batch'.results = batch.results \ {r} /\ batch'.left = batch.left - 1
      BY <2>1, <3>1
    <3>3. batch.left - 1 \in Nat
      BY <1>2, <2>1
    <3>4. QED
      BY <2>1, <3>2, <3>3
  <2>4. QED
    BY <2>2, <2>3
<1>4. /\ Listed' = Listed /\ \A u \in Listed : rows'[u].id = rows[u].id
      /\ rows' \in [Uids -> Rows(nextId, measured)] /\ shown' \in [Uids -> 0 .. measured]
      /\ raced' \subseteq Uids
      /\ tx' # None => /\ tx # None /\ DOMAIN tx' = DOMAIN tx
                       /\ tx'.list = tx.list /\ tx'.drop = tx.drop /\ tx'.old = tx.old
                       /\ tx'.missed \subseteq Uids
      /\ LatencyHasCheck' /\ Drops' /\ Reads' /\ CarriedOver' /\ RowsFollowSource'
  <2>1. CASE CanWrite /\ WriteLatency(r[1], r[2])
    <3>1. r[2] \in 0 .. measured
      BY DEF Inv, Typed, TypeOK
    <3>2. \A u \in Listed : r[2] # 0 /\ rows[u].id = r[1] => <<r[2], u>> \in checks
      BY DEF Inv, Checked
    <3>3. QED
      BY <1>2, <2>1, <3>1, <3>2, WriteKeeps
  <2>2. CASE UNCHANGED <<rows, tx, history>>
    <3>1. UNCHANGED <<rows, tx, shown, raced>>
      BY <2>2 DEF history
    <3>2. Listed' = Listed
      BY <3>1 DEF Listed
    <3>3. /\ rows \in [Uids -> Rows(nextId, measured)] /\ shown \in [Uids -> 0 .. measured]
          /\ raced \subseteq Uids
          /\ tx # None => tx.missed \subseteq Uids
      BY DEF Inv, Typed, TypeOK, Rows, Row
    <3>4. LatencyHasCheck' /\ Drops' /\ Reads' /\ CarriedOver' /\ RowsFollowSource'
      BY <1>2, <3>1, <3>2
      DEF Inv, Checked, LatencyHasCheck, Drops, Reads, CarriedOver, RowsFollowSource
    <3>5. QED
      BY <3>1, <3>2, <3>3, <3>4
  <2>3. QED
    BY <1>1, <2>1, <2>2
<1>5. Typed'
  BY <1>2, <1>3, <1>4 DEF Inv, Typed, TypeOK, Shapes, Rows, Row
<1>6. Ids'
  BY <1>2, <1>3, <1>4 DEF Inv, Ids
<1>7. Checked'
  BY <1>2, <1>3, <1>4 DEF Inv, Checked
<1>8. QED
  BY <1>4, <1>5, <1>6, <1>7 DEF Inv

(***************************************************************************)
(* The theorems                                                            *)
(***************************************************************************)

LEMMA InvInit == Init => Inv
<1> SUFFICES ASSUME Init PROVE Inv
  OBVIOUS
<1>1. /\ Listed = {} /\ source = {} /\ tx = None /\ raced = {}
      /\ \A q \in Probers : prober[q].st = "idle"
      /\ \A e \in Editors : kept[e] = None
      /\ batch.todo = {} /\ batch.results = {}
  BY DEF Init, Listed, Idle, NoBatch
<1>2. Ids /\ Checked /\ Drops /\ Reads /\ CarriedOver /\ RowsFollowSource
  BY <1>1 DEF Ids, Checked, LatencyHasCheck, Drops, Reads, CarriedOver, RowsFollowSource
<1>3. QED
  BY <1>2, TypedInit DEF Inv

LEMMA InvNext == Inv /\ [Next]_vars => Inv'
<1> SUFFICES ASSUME Inv, [Next]_vars PROVE Inv'
  OBVIOUS
<1>1. CASE OpenUpdate \/ OpenPull \/ \E e \in Editors : OpenDelete(e)
  BY <1>1, OpensKeep
<1>2. CASE \/ StartPull \/ FetchFails \/ Rollback \/ DeleteTarget
           \/ \E e \in Editors, u \in Uids : RequestDelete(e, u)
           \/ UNCHANGED vars
  BY <1>2, QuietKeeps
<1>3. CASE Commit
  BY <1>3, CommitKeeps
<1>4. CASE StartBatch
  BY <1>4, StartBatchKeeps
<1>5. CASE Collect
  BY <1>5, CollectKeeps
<1>6. ASSUME NEW q \in Others, NEW u \in Uids, LoadNode(q, u) PROVE Inv'
  BY <1>6, LoadNodeKeeps
<1>7. ASSUME NEW w \in Workers, HandOver(w) PROVE Inv'
  BY <1>7, HandOverKeeps
<1>8. ASSUME NEW w \in Workers, Report(w) PROVE Inv'
  BY <1>8, ReportKeeps
<1>9. ASSUME NEW q \in Probers, InsertCheck(q) PROVE Inv'
  BY <1>9, InsertCheckKeeps
<1>10. ASSUME NEW q \in Probers, UpdateRow(q) PROVE Inv'
  BY <1>10, UpdateRowKeeps
<1>11. ASSUME NEW q \in Probers, PersistFails(q) PROVE Inv'
  BY <1>11, PersistFailsKeeps
<1>12. QED
  BY <1>1, <1>2, <1>3, <1>4, <1>5, <1>6, <1>7, <1>8, <1>9, <1>10, <1>11 DEF Next

LEMMA Invariant == Spec => []Inv
BY InvInit, InvNext, PTL DEF Spec

(* Every variable keeps its type; the id of a row, and the one a probe     *)
(* holds, was given out.                                                   *)
THEOREM TypeCorrect == Spec => []TypeOK
<1>1. Inv => TypeOK
  BY DEF Inv, Typed
<1>2. QED
  BY <1>1, Invariant, PTL

(* The latency in a row of subscription_nodes was measured by a check of   *)
(* that node which is still in its history, however many transactions      *)
(* replaced the rows since the probe loaded its row.                       *)
THEOREM LatencyAlwaysHasCheck == Spec => []LatencyHasCheck
<1>1. Inv => LatencyHasCheck
  BY DEF Inv, Checked
<1>2. QED
  BY <1>1, Invariant, PTL

(* As long as the target exists, its rows are the nodes of the             *)
(* configuration or of the content last pulled.                            *)
THEOREM RowsAlwaysFollowSource == Spec => []RowsFollowSource
<1>1. Inv => RowsFollowSource
  BY DEF Inv
<1>2. QED
  BY <1>1, Invariant, PTL

(* A replacement of the rows carries over what was last written to them,   *)
(* but for the writes that PostgreSQL lets in while a transaction runs.    *)
THEOREM AlwaysCarriedOver == Spec => []CarriedOver
<1>1. Inv => CarriedOver
  BY DEF Inv
<1>2. QED
  BY <1>1, Invariant, PTL

(***************************************************************************)
(* The batch                                                               *)
(***************************************************************************)

(* The rows that wait, are with a worker or are reported are different     *)
(* ones, so that no result hides another.                                  *)
Apart ==
  /\ \A m, n \in batch.todo : m[1] = n[1] => m = n
  /\ \A n \in batch.todo, w \in AtWork : n[1] # prober[w].id
  /\ \A n \in batch.todo, r \in batch.results : n[1] # r[1]
  /\ \A v, w \in AtWork : prober[v].id = prober[w].id => v = w
  /\ \A w \in AtWork, r \in batch.results : prober[w].id # r[1]

(* There are as many of them as results are still to come, and no more     *)
(* than the channel has room for.                                          *)
Accounted ==
  /\ IsFiniteSet(batch.todo) /\ IsFiniteSet(AtWork) /\ IsFiniteSet(batch.results)
  /\ Cardinality(batch.todo) + Cardinality(AtWork) + Cardinality(batch.results) = batch.left
  /\ batch.left <= batch.cap

Flow == Apart /\ Accounted

(* A step that changes neither the batch nor which worker has which row.   *)
LEMMA FlowStays ==
  ASSUME Flow, UNCHANGED batch,
         \A w \in Workers : /\ prober'[w].st = "idle" <=> prober[w].st = "idle"
                            /\ prober[w].st # "idle" => prober'[w].id = prober[w].id
  PROVE  Flow'
<1>1. AtWork' = AtWork /\ \A w \in AtWork : prober'[w].id = prober[w].id
  BY DEF AtWork
<1>2. Apart'
  BY <1>1 DEF Flow, Apart
<1>3. Accounted'
  BY <1>1 DEF Flow, Accounted
<1>4. QED
  BY <1>2, <1>3 DEF Flow

(* The nodes of a new batch are as many as the rows.                       *)
LEMMA StartBatchFlows == Inv /\ Flow /\ StartBatch => Flow'
<1> SUFFICES ASSUME Inv, Flow, StartBatch PROVE Flow'
  OBVIOUS
<1>1. /\ batch'.todo = {<<rows[u].id, u>> : u \in Listed} /\ batch'.results = {}
      /\ batch'.cap = Cardinality(Listed) /\ batch'.left = Cardinality(Listed)
      /\ UNCHANGED prober
  BY DEF StartBatch
<1>2. IsFiniteSet(Listed) /\ Cardinality(Listed) \in Nat
  BY ListSize DEF Listed
<1>3. Cardinality({}) = 0 /\ IsFiniteSet({})
  BY FS_EmptySet
<1>4. AtWork = {} /\ AtWork' = {}
  <2>1. batch.todo = {} /\ batch.results = {} /\ batch.left = 0
    BY DEF StartBatch, NoBatch
  <2>2. Cardinality(AtWork) = 0
    <3>1. Cardinality(AtWork) \in Nat
      BY FS_CardinalityType DEF Flow, Accounted
    <3>2. QED
      BY <1>3, <2>1, <3>1 DEF Flow, Accounted
  <2>3. AtWork = {}
    BY <2>2, FS_EmptySet DEF Flow, Accounted
  <2>4. QED
    BY <1>1, <2>3 DEF AtWork
<1>5. IsFiniteSet(batch'.todo) /\ Cardinality(batch'.todo) = Cardinality(Listed)
  <2> DEFINE f == [u \in Listed |-> <<rows[u].id, u>>]
             T == {<<rows[u].id, u>> : u \in Listed}
  <2>1. f \in Bijection(Listed, T)
    BY DEF Bijection, Injection, Surjection, IsInjective
  <2>2. ExistsBijection(Listed, T)
    BY <2>1 DEF ExistsBijection
  <2> HIDE DEF f, T
  <2>3. IsFiniteSet(T) /\ Cardinality(T) = Cardinality(Listed)
    BY <1>2, <2>2, FS_Bijection
  <2>4. QED
    BY <1>1, <2>3 DEF T
<1>6. \A m, n \in batch'.todo : m[1] = n[1] => m = n
  BY <1>1 DEF Inv, Ids
<1>7. Apart'
  BY <1>1, <1>4, <1>6 DEF Apart
<1>8. Accounted'
  BY <1>1, <1>2, <1>3, <1>4, <1>5 DEF Accounted
<1>9. QED
  BY <1>7, <1>8 DEF Flow

(* A worker takes a node that waits.                                       *)
LEMMA HandOverFlows ==
  ASSUME Inv, Flow, NEW w \in Workers, HandOver(w)
  PROVE  Flow'
<1>1. PICK n \in batch.todo :
        /\ prober' = [prober EXCEPT ![w] = [st |-> "probe", uid |-> n[2], id |-> n[1], lat |-> 0]]
        /\ batch' = [batch EXCEPT !.todo = @ \ {n}]
  BY DEF HandOver
<1>2. /\ batch'.todo = batch.todo \ {n} /\ batch'.results = batch.results
      /\ batch'.left = batch.left /\ batch'.cap = batch.cap
  BY <1>1 DEF Inv, Typed, Shapes
<1>3. prober[w].st = "idle"
  BY DEF HandOver, Idle
<1>4. /\ prober'[w].st = "probe" /\ prober'[w].id = n[1]
      /\ \A v \in Workers \ {w} : prober'[v] = prober[v]
  BY <1>1, ProberTypes DEF Inv, Probers
<1>5. AtWork' = AtWork \cup {w} /\ w \notin AtWork
  BY <1>3, <1>4 DEF AtWork
<1>6. \A v \in AtWork : prober'[v].id = prober[v].id
  BY <1>4, <1>5 DEF AtWork
<1>7. Apart'
  BY <1>2, <1>4, <1>5, <1>6 DEF Flow, Apart
<1>8. Accounted'
  <2>1. IsFiniteSet(batch'.todo) /\ Cardinality(batch'.todo) = Cardinality(batch.todo) - 1
    BY <1>2, FS_RemoveElement DEF Flow, Accounted
  <2>2. IsFiniteSet(AtWork') /\ Cardinality(AtWork') = Cardinality(AtWork) + 1
    BY <1>5, FS_AddElement DEF Flow, Accounted
  <2>3. Cardinality(batch.todo) \in Nat /\ Cardinality(AtWork) \in Nat
        /\ Cardinality(batch.results) \in Nat
    BY FS_CardinalityType DEF Flow, Accounted
  <2>4. QED
    BY <1>2, <2>1, <2>2, <2>3 DEF Flow, Accounted
<1>9. QED
  BY <1>7, <1>8 DEF Flow

(* A worker sends its result: one more than there were.                    *)
LEMMA ReportFlows ==
  ASSUME Inv, Flow, NEW w \in Workers, Report(w)
  PROVE  Flow'
<1> DEFINE new == <<prober[w].id, prober[w].lat>>
<1>1. /\ batch'.todo = batch.todo /\ batch'.results = batch.results \cup {new}
      /\ batch'.left = batch.left /\ batch'.cap = batch.cap
  BY DEF Report, Inv, Typed, Shapes
<1>2. w \in AtWork /\ new[1] = prober[w].id
  BY DEF Report, AtWork
<1>3. prober'[w].st = "idle" /\ \A v \in Workers \ {w} : prober'[v] = prober[v]
  BY ProberTypes DEF Report, Idle, Inv, Probers
<1>4. AtWork' = AtWork \ {w} /\ \A v \in AtWork \ {w} : prober'[v].id = prober[v].id
  BY <1>3 DEF AtWork
<1>5. new \notin batch.results
  BY <1>2 DEF Flow, Apart
<1> HIDE DEF new
<1>6. Apart'
  BY <1>1, <1>2, <1>4 DEF Flow, Apart
<1>7. Accounted'
  <2>1. IsFiniteSet(batch'.results)
        /\ Cardinality(batch'.results) = Cardinality(batch.results) + 1
    BY <1>1, <1>5, FS_AddElement DEF Flow, Accounted
  <2>2. IsFiniteSet(AtWork') /\ Cardinality(AtWork') = Cardinality(AtWork) - 1
    BY <1>2, <1>4, FS_RemoveElement DEF Flow, Accounted
  <2>3. Cardinality(batch.todo) \in Nat /\ Cardinality(AtWork) \in Nat
        /\ Cardinality(batch.results) \in Nat
    BY FS_CardinalityType DEF Flow, Accounted
  <2>4. QED
    BY <1>1, <2>1, <2>2, <2>3 DEF Flow, Accounted
<1>8. QED
  BY <1>6, <1>7 DEF Flow

(* A result is taken; with the last one the batch is over.                 *)
LEMMA CollectFlows == Inv /\ Flow /\ Collect => Flow'
<1> SUFFICES ASSUME Inv, Flow, Collect PROVE Flow'
  OBVIOUS
<1>1. PICK r \in batch.results :
        batch' = IF batch.left = 1 THEN NoBatch
                 ELSE [batch EXCEPT !.results = @ \ {r}, !.left = @ - 1]
  BY DEF Collect
<1>2. batch.todo = {} /\ UNCHANGED prober /\ AtWork' = AtWork
  BY DEF Collect, AtWork
<1>3. /\ Cardinality(batch.todo) = 0 /\ Cardinality({}) = 0 /\ IsFiniteSet({})
      /\ Cardinality(AtWork) \in Nat /\ Cardinality(batch.results) \in Nat
  BY <1>2, FS_EmptySet, FS_CardinalityType DEF Flow, Accounted
<1>4. IsFiniteSet(batch.results \ {r})
      /\ Cardinality(batch.results \ {r}) = Cardinality(batch.results) - 1
      /\ Cardinality(batch.results \ {r}) \in Nat
  BY FS_RemoveElement, FS_CardinalityType DEF Flow, Accounted
<1>5. CASE batch.left = 1
  <2>1. batch'.todo = {} /\ batch'.results = {} /\ batch'.left = 0 /\ batch'.cap = 0
    BY <1>1, <1>5 DEF NoBatch
  <2>2. Cardinality(AtWork) = 0
    BY <1>3, <1>4, <1>5 DEF Flow, Accounted
  <2>3. AtWork = {}
    BY <2>2, FS_EmptySet DEF Flow, Accounted
  <2>4. Apart'
    BY <1>2, <2>1, <2>3 DEF Apart
  <2>5. Accounted'
    BY <1>2, <1>3, <2>1, <2>3 DEF Accounted
  <2>6. QED
    BY <2>4, <2>5 DEF Flow
<1>6. CASE batch.left # 1
  <2>1. /\ batch'.todo = batch.todo /\ batch'.results = batch.results \ {r}
        /\ batch'.left = batch.left - 1 /\ batch'.cap = batch.cap
    BY <1>1, <1>6 DEF Inv, Typed, Shapes
  <2>2. Apart'
    BY <1>2, <2>1 DEF Flow, Apart
  <2>3. Accounted'
    <3>1. IsFiniteSet(batch'.todo) /\ IsFiniteSet(AtWork') /\ IsFiniteSet(batch'.results)
      BY <1>2, <1>4, <2>1 DEF Flow, Accounted
    <3>2. batch.left \in Nat /\ batch.cap \in Nat
      BY DEF Inv, Typed, TypeOK
    <3>3. QED
      BY <1>2, <1>3, <1>4, <2>1, <3>1, <3>2 DEF Flow, Accounted
  <2>4. QED
    BY <2>2, <2>3 DEF Flow
<1>7. QED
  BY <1>5, <1>6

LEMMA FlowNext == Inv /\ Flow /\ [Next]_vars => Flow'
<1> SUFFICES ASSUME Inv, Flow, [Next]_vars PROVE Flow'
  OBVIOUS
<1>0. prober \in [Probers -> ProberState(nextId, measured)]
  BY ProberTypes DEF Inv
<1>1. ASSUME UNCHANGED <<batch, prober>> PROVE Flow'
  BY <1>1, FlowStays
<1>2. CASE \/ \E e \in Editors : OpenDelete(e) \/ \E u \in Uids : RequestDelete(e, u)
           \/ OpenUpdate \/ StartPull \/ FetchFails \/ OpenPull
  BY <1>1, <1>2 DEF OpenDelete, RequestDelete, OpenUpdate, StartPull, FetchFails, OpenPull, probing
<1>3. CASE Commit \/ Rollback \/ DeleteTarget \/ UNCHANGED vars
  BY <1>1, <1>3 DEF Commit, Rollback, DeleteTarget, vars, probing
<1>4. ASSUME NEW q \in Others, NEW u \in Uids, LoadNode(q, u) PROVE Flow'
  <2>1. q \notin Workers /\ UNCHANGED batch
    BY <1>4, NodeStoreAssumption DEF LoadNode
  <2>2. \A w \in Workers : prober'[w] = prober[w]
    BY <1>0, <1>4, <2>1 DEF LoadNode, Probers
  <2>3. QED
    BY <2>1, <2>2, FlowStays
<1>5. ASSUME NEW q \in Probers, InsertCheck(q) PROVE Flow'
  <2>1. UNCHANGED batch /\ prober[q].st = "probe" /\ measured' = measured + 1
    BY <1>5 DEF InsertCheck
  <2>2. PICK lat \in {measured', 0} :
          prober' = [prober EXCEPT ![q].st = "update", ![q].uid = None, ![q].lat = lat]
    BY <1>5 DEF InsertCheck
  <2>3. \A w \in Workers : w # q => prober'[w] = prober[w]
    BY <1>0, <2>2 DEF Probers
  <2>4. prober'[q].st = "update" /\ prober'[q].id = prober[q].id
    BY <1>0, <2>2 DEF ProberState
  <2>5. QED
    BY <2>1, <2>3, <2>4, FlowStays
<1>6. ASSUME NEW q \in Probers, UpdateRow(q) \/ PersistFails(q) PROVE Flow'
  <2>1. UNCHANGED batch /\ prober[q].st \in {"probe", "update"}
    BY <1>6 DEF UpdateRow, PersistFails
  <2>2. PICK lat : ProbeReturns(q, lat)
    BY <1>6 DEF UpdateRow, PersistFails
  <2>3. \A w \in Workers : w # q => prober'[w] = prober[w]
    BY <1>0, <2>2 DEF ProbeReturns, Probers
  <2>4. q \in Workers => prober'[q].st = "report" /\ prober'[q].id = prober[q].id
    BY <1>0, <2>2 DEF ProbeReturns, ProberState
  <2>5. QED
    BY <2>1, <2>3, <2>4, FlowStays
<1>7. QED
  BY <1>2, <1>3, <1>4, <1>5, <1>6, StartBatchFlows, HandOverFlows, ReportFlows, CollectFlows DEF Next

(* With any number of workers and nodes, and whatever writes fail, a batch *)
(* of RefreshSubscriptionLatency neither blocks nor loses a result, and    *)
(* leaves no worker behind.                                                *)
THEOREM BatchAlwaysFlows == Spec => []BatchFlows
<1>1. Init => Flow
  <2> SUFFICES ASSUME Init PROVE Flow
    OBVIOUS
  <2>1. batch.todo = {} /\ batch.results = {} /\ batch.cap = 0 /\ batch.left = 0
    BY DEF Init, NoBatch
  <2>2. AtWork = {}
    BY DEF Init, Idle, AtWork, Probers
  <2>3. QED
    BY <2>1, <2>2, FS_EmptySet DEF Flow, Apart, Accounted
<1>2. Inv /\ Flow => BatchFlows
  <2> SUFFICES ASSUME Inv, Flow PROVE BatchFlows
    OBVIOUS
  <2>1. /\ IsFiniteSet(batch.todo) /\ IsFiniteSet(AtWork) /\ IsFiniteSet(batch.results)
        /\ Cardinality(batch.todo) \in Nat /\ Cardinality(AtWork) \in Nat
        /\ Cardinality(batch.results) \in Nat
    BY FS_CardinalityType DEF Flow, Accounted
  <2>2. \A S : IsFiniteSet(S) => (Cardinality(S) = 0 <=> S = {})
    BY FS_EmptySet
  <2>3. batch.left \in Nat /\ batch.cap \in Nat
    BY DEF Inv, Typed, TypeOK
  <2>4. ASSUME NEW w \in AtWork PROVE Cardinality(batch.results) < batch.cap
    <3>1. Cardinality(AtWork) # 0
      BY <2>1, <2>2
    <3>2. QED
      BY <2>1, <2>3, <3>1 DEF Flow, Accounted
  <2>5. batch.left > 0 => batch.todo # {} \/ AtWork # {} \/ batch.results # {}
    BY <2>1, <2>2 DEF Flow, Accounted
  <2>6. batch.left = 0 => AtWork = {}
    BY <2>1, <2>2 DEF Flow, Accounted
  <2>7. QED
    BY <2>4, <2>5, <2>6 DEF BatchFlows
<1>3. QED
  BY Invariant, <1>1, <1>2, FlowNext, PTL DEF Spec
=============================================================================
