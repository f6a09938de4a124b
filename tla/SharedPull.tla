------------------------------ MODULE SharedPull ------------------------------
(***************************************************************************)
(* What refreshSubscriptionWithSingleflight promises: of one target at     *)
(* most one pull is under way, and a caller that waits returns only after  *)
(* a pull that ended since it called.                                      *)
(* server/internal/service/target_service.go.                              *)
(***************************************************************************)
CONSTANTS Targets, Callers

VARIABLES
  busy,     (* the targets that are being pulled                        *)
  asked,    (* the callers that wait: <<caller, target>>                *)
  served    (* the waiting callers a pull of whose target has ended     *)

Init == busy = {} /\ asked = {} /\ served = {}

(* A pull begins; its caller may be one that waits for it.                 *)
Begin(t) ==
  /\ t \notin busy
  /\ busy' = busy \cup {t}
  /\ \E new \in SUBSET (Callers \X {t}) : asked' = asked \cup new
  /\ UNCHANGED served

(* A caller joins the pull that is under way.                              *)
Join(c, t) ==
  /\ t \in busy
  /\ asked' = asked \cup {<<c, t>>}
  /\ UNCHANGED <<busy, served>>

(* The pull ends, and serves everybody that waits for it.                  *)
End(t) ==
  /\ t \in busy
  /\ busy' = busy \ {t}
  /\ served' = served \cup {a \in asked : a[2] = t}
  /\ UNCHANGED asked

Return(c, t) ==
  /\ <<c, t>> \in served
  /\ asked' = asked \ {<<c, t>>}
  /\ served' = served \ {<<c, t>>}
  /\ UNCHANGED busy

Next ==
  \E t \in Targets :
    \/ Begin(t) \/ End(t)
    \/ \E c \in Callers : Join(c, t) \/ Return(c, t)

Spec == Init /\ [][Next]_<<busy, asked, served>>
=============================================================================
