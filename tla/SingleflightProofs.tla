-------------------------- MODULE SingleflightProofs --------------------------
(***************************************************************************)
(* Proofs about Singleflight, for any number of targets, callers and       *)
(* pulls.                                                                  *)
(***************************************************************************)
EXTENDS Singleflight, TLAPS

(* The map shows exactly the pulls under way, each at its own target, and  *)
(* a caller waits for a pull that had not ended when it called.            *)
Inv ==
  /\ TypeOK
  /\ OnePullPerTarget
  /\ \A p \in 1 .. started : pullOf[p] \in Targets
  /\ \A t \in Targets : inFlight[t] # None =>
       inFlight[t] \in (1 .. started) \ ended /\ pullOf[inFlight[t]] = t
  /\ \A c \in Callers : ~Idle(c) => awaits[c] \in (1 .. started) \ old[c]
  /\ \A c \in Callers : old[c] \subseteq ended

LEMMA InvInit == Init => Inv
<1> USE SingleflightAssumption
<1> QED
  BY DEF Init, Inv, TypeOK, OnePullPerTarget, Pulls, Idle

LEMMA InvStep == Inv /\ [Next]_vars => Inv'
<1> SUFFICES ASSUME Inv, [Next]_vars PROVE Inv'
  OBVIOUS
<1> USE SingleflightAssumption DEF Inv, TypeOK, OnePullPerTarget, Pulls, Idle
<1>1. ASSUME NEW c \in Callers, NEW t \in Targets, Start(c, t) PROVE Inv'
  BY <1>1 DEF Start
<1>2. ASSUME NEW c \in Callers, NEW t \in Targets, Join(c, t) PROVE Inv'
  BY <1>2 DEF Join
<1>3. ASSUME NEW p \in Pulls, End(p) PROVE Inv'
  BY <1>3 DEF End
<1>4. ASSUME NEW c \in Callers, Return(c) PROVE Inv'
  BY <1>4 DEF Return
<1>5. CASE UNCHANGED vars
  BY <1>5 DEF vars
<1>6. QED
  BY <1>1, <1>2, <1>3, <1>4, <1>5 DEF Next

LEMMA InvAlways == Spec => []Inv
  BY InvInit, InvStep, PTL DEF Spec

(* The variables of the singleflight always have their types.              *)
THEOREM TypeCorrect == Spec => []TypeOK
  BY InvAlways, PTL DEF Inv

(* Never do two pulls of one target run at the same time.                  *)
THEOREM NeverTwoPulls == Spec => []OnePullPerTarget
  BY InvAlways, PTL DEF Inv

(* No caller is given the result of a pull from before its call.           *)
THEOREM NeverStale == Spec => []NoStaleResult
<1>1. Inv => NoStaleResult
  BY SingleflightAssumption DEF Inv, TypeOK, NoStaleResult, Idle, Pulls
<1>2. QED
  BY InvAlways, <1>1, PTL

(* No caller waits for a pull that nobody will end: the safety half of     *)
(* WaitersReturn, whose other half is that pulls end.                      *)
THEOREM NeverForgotten == Spec => []NobodyForgotten
<1>1. Inv => NobodyForgotten
  BY SingleflightAssumption DEF Inv, TypeOK, OnePullPerTarget, NobodyForgotten, Idle, Pulls
<1>2. QED
  BY InvAlways, <1>1, PTL

-----------------------------------------------------------------------------
(* Refinement.                                                             *)

Busy == {t \in Targets : inFlight[t] # None}
Served == {a \in Waiting : awaits[a[1]] \in ended}

LEMMA PromiseStep ==
  ASSUME Inv, [Next]_vars
  PROVE  [Promise!Next]_<<Busy, Waiting, Served>>
<1> USE SingleflightAssumption DEF Inv, TypeOK, Pulls, Idle
<1>0. None \notin ended /\ \A d \in Callers : awaits[d] \in ended => ~Idle(d)
  <2>1. \A e \in ended : e \in Nat
    OBVIOUS
  <2>2. None \notin ended
    BY <2>1, Zenon
  <2>3. QED
    BY <2>2, Zenon
<1>1. ASSUME NEW c \in Callers, NEW t \in Targets, Start(c, t)
      PROVE  Promise!Begin(t)
  <2>1. t \notin Busy /\ Busy' = Busy \cup {t}
    BY <1>1 DEF Start, Busy
  <2>2. started' \notin 1 .. started /\ started' \notin ended /\ started' # None
    BY <1>1 DEF Start
  <2>3. \A d \in Callers : d # c => awaits'[d] = awaits[d]
    BY <1>1 DEF Start
  <2>4. \A d \in Callers : ~Idle(d) => awaits[d] # started' /\ pullOf'[awaits[d]] = pullOf[awaits[d]]
    BY <1>1, <2>2 DEF Start
  <2>5. awaits'[c] \in {None, started'} /\ pullOf'[started'] = t
    BY <1>1 DEF Start
  <2>6. Waiting' = Waiting \cup (IF awaits'[c] = None THEN {} ELSE {<<c, t>>})
    BY <1>1, <2>2, <2>3, <2>4, <2>5 DEF Waiting, Start
  <2>7. Served' = Served
    <3>1. ended' = ended
      BY <1>1 DEF Start
    <3>2. \A a \in Waiting : a[1] \in Callers /\ a[1] # c
      BY <1>1 DEF Waiting, Start
    <3>3. awaits'[c] \notin ended
      BY <1>0, <2>2, <2>5
    <3>4. QED
      BY <2>3, <2>6, <3>1, <3>2, <3>3 DEF Served
  <2>8. \E new \in SUBSET (Callers \X {t}) : Waiting' = Waiting \cup new
    <3>1. CASE awaits'[c] = None
      <4>1. Waiting' = Waiting \cup {}
        BY <2>6, <3>1
      <4>2. QED
        BY <4>1
    <3>2. CASE awaits'[c] # None
      <4>1. Waiting' = Waiting \cup {<<c, t>>}
        BY <2>6, <3>2
      <4>2. {<<c, t>>} \in SUBSET (Callers \X {t})
        OBVIOUS
      <4>3. QED
        BY <4>1, <4>2
    <3>3. QED
      BY <3>1, <3>2
  <2>9. QED
    BY <2>1, <2>7, <2>8 DEF Promise!Begin, Busy, Served
<1>2. ASSUME NEW c \in Callers, NEW t \in Targets, Join(c, t)
      PROVE  Promise!Join(c, t)
  <2>1. t \in Busy /\ Busy' = Busy
    BY <1>2 DEF Join, Busy
  <2>2. awaits'[c] = inFlight[t] /\ awaits'[c] # None /\ awaits'[c] \notin ended
        /\ pullOf[awaits'[c]] = t
    BY <1>2 DEF Join
  <2>3. \A d \in Callers : d # c => awaits'[d] = awaits[d]
    BY <1>2 DEF Join
  <2>4. pullOf' = pullOf /\ ended' = ended
    BY <1>2 DEF Join
  <2>5. Waiting' = Waiting \cup {<<c, t>>}
    BY <1>2, <2>2, <2>3, <2>4 DEF Waiting, Join
  <2>6. \A a \in Waiting : a[1] \in Callers /\ a[1] # c
    BY <1>2 DEF Waiting, Join
  <2>7. Served' = Served
    BY <2>2, <2>3, <2>4, <2>5, <2>6 DEF Served
  <2>8. QED
    BY <2>1, <2>5, <2>7 DEF Promise!Join, Busy, Served
<1>3. ASSUME NEW p \in Pulls, NEW t \in Targets, t = pullOf[p], End(p)
      PROVE  Promise!End(t)
  <2>1. inFlight[t] = p /\ p # None
    BY <1>3 DEF End, OnePullPerTarget
  <2>2. t \in Busy /\ Busy' = Busy \ {t}
    BY <1>3, <2>1 DEF End, Busy
  <2>3. awaits' = awaits /\ pullOf' = pullOf /\ ended' = ended \cup {p}
    BY <1>3 DEF End
  <2>4. Waiting' = Waiting
    BY <2>3 DEF Waiting
  <2>5. \A a \in Waiting : a[2] = t => awaits[a[1]] \in ended \cup {p}
    BY <1>3, <2>1 DEF Waiting, OnePullPerTarget
  <2>6. \A a \in Waiting : awaits[a[1]] = p => a[2] = t
    BY <1>3 DEF Waiting
  <2>7. Served' = Served \cup {a \in Waiting : a[2] = t}
    BY <1>3, <2>3, <2>4, <2>5, <2>6 DEF Served
  <2>8. QED
    BY <2>2, <2>4, <2>7 DEF Promise!End, Busy, Served
<1>4. ASSUME NEW c \in Callers, NEW t \in Targets, t = pullOf[awaits[c]], Return(c)
      PROVE  Promise!Return(c, t)
  <2>1. UNCHANGED <<inFlight, ended, pullOf>> /\ Busy' = Busy
    BY <1>4 DEF Return, Busy
  <2>2. ~Idle(c) /\ awaits[c] \in ended
    BY <1>0, <1>4 DEF Return
  <2>3. <<c, t>> \in Served
    BY <1>4, <2>2 DEF Served, Waiting
  <2>4. awaits'[c] = None /\ \A d \in Callers : d # c => awaits'[d] = awaits[d]
    BY <1>4 DEF Return
  <2>5. Waiting' = Waiting \ {<<c, t>>}
    BY <1>4, <2>1, <2>2, <2>4 DEF Waiting
  <2>6. Served' = Served \ {<<c, t>>}
    <3>1. \A a \in Waiting : a[1] = c => a = <<c, t>>
      BY <1>4 DEF Waiting
    <3>2. \A a \in Waiting' : a[1] \in Callers /\ a[1] # c
      BY <2>4 DEF Waiting
    <3>3. QED
      BY <2>1, <2>4, <2>5, <3>1, <3>2 DEF Served
  <2>7. QED
    BY <2>1, <2>3, <2>5, <2>6 DEF Promise!Return, Busy, Served
<1>5. CASE UNCHANGED vars
  BY <1>5 DEF vars, Busy, Waiting, Served
<1>6. \A p \in Pulls : End(p) => pullOf[p] \in Targets
  BY DEF End
<1>7. \A c \in Callers : Return(c) => pullOf[awaits[c]] \in Targets
  BY DEF Return
<1>8. CASE \E c \in Callers, t \in Targets : Start(c, t) \/ Join(c, t)
  BY <1>1, <1>2, <1>8 DEF Promise!Next
<1>9. CASE \E p \in Pulls : End(p)
  <2>1. PICK p \in Pulls : End(p)
    BY <1>9
  <2>2. PICK t \in Targets : t = pullOf[p]
    BY <1>6, <2>1
  <2>3. Promise!End(t)
    BY <1>3, <2>1, <2>2
  <2>4. QED
    BY <2>3 DEF Promise!Next
<1>10. CASE \E c \in Callers : Return(c)
  <2>1. PICK c \in Callers : Return(c)
    BY <1>10
  <2>2. PICK t \in Targets : t = pullOf[awaits[c]]
    BY <1>7, <2>1
  <2>3. Promise!Return(c, t)
    BY <1>4, <2>1, <2>2
  <2>4. QED
    BY <2>3 DEF Promise!Next
<1>11. QED
  BY <1>5, <1>8, <1>9, <1>10 DEF Next

(* Singleflight implements SharedPull: pulls of one target never overlap,  *)
(* and a caller that waits returns only after a pull of its target ended   *)
(* since its call.                                                         *)
THEOREM ImplementsSharedPull == Spec => KeepsPromise
<1>1. Init => Promise!Init
  BY DEF Init, Promise!Init, Waiting, Idle
<1>2. Inv /\ [Next]_vars => [Promise!Next]_<<Busy, Waiting, Served>>
  BY PromiseStep
<1>3. QED
  BY InvAlways, <1>1, <1>2, PTL DEF Spec, KeepsPromise, Promise!Spec, Busy, Served
=============================================================================
