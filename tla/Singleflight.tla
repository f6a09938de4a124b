----------------------------- MODULE Singleflight -----------------------------
(***************************************************************************)
(* refreshSubscriptionWithSingleflight of                                  *)
(* server/internal/service/target_service.go: callers that ask for a pull  *)
(* of a target while one is under way join it (wait) or leave at once      *)
(* (no wait).                                                              *)
(*                                                                         *)
(* A caller is a goroutine: the HTTP handler of CheckNow or of the         *)
(* summary, or a goroutine of the scheduler.  The pull itself,             *)
(* refreshSubscriptionOnce, lasts from Start to End; what it does to the   *)
(* rows is in NodeStore.  The pulls are numbered, which the code does by   *)
(* allocating a subscriptionRefreshCall for each.                          *)
(***************************************************************************)
EXTENDS Naturals

CONSTANTS
  Targets,   (* the subscription targets                                *)
  Callers,   (* the goroutines that ask for pulls                       *)
  MaxPulls,  (* bound of a run: the pulls that may be started           *)
  None       (* no pull                                                 *)

ASSUME SingleflightAssumption == MaxPulls \in Nat /\ None \notin Nat

VARIABLES
  inFlight,  (* refreshInFlight: the pull of each target                *)
  started,   (* the pulls started so far are 1 .. started               *)
  ended,     (* the pulls whose done channel is closed                  *)
  pullOf,    (* the target of each pull                                 *)
  awaits,    (* the pull whose end each caller waits for                *)
  old        (* history: the pulls that had ended when a caller called  *)

vars == <<inFlight, started, ended, pullOf, awaits, old>>

Pulls == 1 .. MaxPulls

Init ==
  /\ inFlight = [t \in Targets |-> None]
  /\ started = 0
  /\ ended = {}
  /\ pullOf = [p \in Pulls |-> None]
  /\ awaits = [c \in Callers |-> None]
  /\ old = [c \in Callers |-> {}]

Idle(c) == awaits[c] = None

(* Mutant: the map is read, unlocked, and written later.                   *)
StartUnchecked(c, t) ==
  /\ Idle(c)
  /\ started < MaxPulls
  /\ started' = started + 1
  /\ inFlight' = [inFlight EXCEPT ![t] = started']
  /\ pullOf' = [pullOf EXCEPT ![started'] = t]
  /\ \E wait \in BOOLEAN :
       awaits' = [awaits EXCEPT ![c] = IF wait THEN started' ELSE None]
  /\ old' = [old EXCEPT ![c] = ended]
  /\ UNCHANGED ended

(* No pull of t is in flight: c starts one.  With wait it runs it and      *)
(* returns its result; without, a new goroutine runs it.                   *)
Start(c, t) ==
  /\ Idle(c)
  /\ inFlight[t] = None
  /\ started < MaxPulls
  /\ started' = started + 1
  /\ inFlight' = [inFlight EXCEPT ![t] = started']
  /\ pullOf' = [pullOf EXCEPT ![started'] = t]
  /\ \E wait \in BOOLEAN :
       awaits' = [awaits EXCEPT ![c] = IF wait THEN started' ELSE None]
  /\ old' = [old EXCEPT ![c] = ended]
  /\ UNCHANGED ended

(* A pull of t is in flight and c waits for it.  Without wait nothing      *)
(* changes: the caller returns at once, with neither snapshot nor error.   *)
Join(c, t) ==
  /\ Idle(c)
  /\ inFlight[t] # None
  /\ awaits' = [awaits EXCEPT ![c] = inFlight[t]]
  /\ old' = [old EXCEPT ![c] = ended]
  /\ UNCHANGED <<inFlight, started, ended, pullOf>>

(* Mutant: the finished call stays in the map.                             *)
EndWithoutDelete(p) ==
  /\ p \in 1 .. started /\ p \notin ended
  /\ ended' = ended \cup {p}
  /\ UNCHANGED <<inFlight, started, pullOf, awaits, old>>

(* Mutant: the call leaves the map, but its channel is never closed.       *)
EndWithoutClose(p) ==
  /\ p \in 1 .. started /\ p \notin ended
  /\ inFlight[pullOf[p]] = p
  /\ inFlight' = [inFlight EXCEPT ![pullOf[p]] = None]
  /\ UNCHANGED <<started, ended, pullOf, awaits, old>>

(* run: the pull is over, with a snapshot or an error.  Under the lock its *)
(* result is set, its channel is closed and it leaves the map.             *)
End(p) ==
  /\ p \in 1 .. started /\ p \notin ended
  /\ ended' = ended \cup {p}
  /\ inFlight' = [inFlight EXCEPT ![pullOf[p]] = None]
  /\ UNCHANGED <<started, pullOf, awaits, old>>

(* <-call.done returns, or the caller ran the pull itself.                 *)
Return(c) ==
  /\ awaits[c] \in ended
  /\ awaits' = [awaits EXCEPT ![c] = None]
  /\ UNCHANGED <<inFlight, started, ended, pullOf, old>>

Next ==
  \/ \E c \in Callers, t \in Targets : Start(c, t) \/ Join(c, t)
  \/ \E p \in Pulls : End(p)
  \/ \E c \in Callers : Return(c)

(* A pull ends: fetchSubscriptionContent has a deadline over all of its    *)
(* tries.  The Go scheduler wakes a waiter whose channel was closed.       *)
Fairness ==
  /\ \A p \in Pulls : WF_vars(End(p))
  /\ \A c \in Callers : WF_vars(Return(c))

Spec == Init /\ [][Next]_vars /\ Fairness

-----------------------------------------------------------------------------
(* Properties.                                                             *)

(* The variables have their types.                                         *)
TypeOK ==
  /\ inFlight \in [Targets -> Pulls \cup {None}]
  /\ started \in 0 .. MaxPulls
  /\ ended \subseteq 1 .. started
  /\ pullOf \in [Pulls -> Targets \cup {None}]
  /\ awaits \in [Callers -> Pulls \cup {None}]
  /\ old \in [Callers -> SUBSET Pulls]

(* "prevents duplicate concurrent pulls for same target": the pulls of one *)
(* target that are under way are one at most, and it is the one the map    *)
(* shows.                                                                  *)
OnePullPerTarget ==
  \A p \in (1 .. started) \ ended : inFlight[pullOf[p]] = p

(* "caller waits for result": a caller never gets the result of a pull     *)
(* that had ended before it called.                                        *)
NoStaleResult == \A c \in Callers : awaits[c] \notin old[c]

(* Nobody waits for a pull that is lost: it has ended, or it is the one    *)
(* the map shows at its target, whose end closes the channel.              *)
NobodyForgotten ==
  \A c \in Callers : ~Idle(c) =>
    awaits[c] \in ended \/ inFlight[pullOf[awaits[c]]] = awaits[c]

(* Every caller that waits returns, however the pull ends.                 *)
WaitersReturn == \A c \in Callers : ~Idle(c) ~> Idle(c)

(* The singleflight implements the promise of SharedPull.                  *)
Waiting == {<<c, pullOf[awaits[c]]>> : c \in {d \in Callers : ~Idle(d)}}
Promise == INSTANCE SharedPull WITH
  busy <- {t \in Targets : inFlight[t] # None},
  asked <- Waiting,
  served <- {a \in Waiting : awaits[a[1]] \in ended}
KeepsPromise == Promise!Spec
=============================================================================
