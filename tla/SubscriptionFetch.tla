--------------------------- MODULE SubscriptionFetch ---------------------------
(***************************************************************************)
(* Fetching the content of subscriptions from one host:                    *)
(* fetchSubscriptionContent of server/internal/service/target_service.go,  *)
(* its protocols, retries, user agents, the hedged requests, the deadline, *)
(* and what all fetches of a host share about its protocols.               *)
(*                                                                         *)
(* Time is counted in ticks of 100 ms, for each fetch from its start.  A   *)
(* request, with its mark in the shared state, is one step: before the     *)
(* mark it touches nothing that others see.  When an avoidance of 8 or 30  *)
(* minutes ends is left open.  An error is one of the kinds the code tells *)
(* apart by its text, a page with an error status or a challenge is a bad  *)
(* body; which error is reported is left out.  Only requests, bodies and   *)
(* pauses take time.  The host of the endpoint is known.                   *)
(***************************************************************************)
EXTENDS Integers, Sequences, FiniteSets

CONSTANTS
  Fetches,   (* goroutines in fetchSubscriptionContent, of any targets      *)
  Configs,   (* the configurations of the targets                           *)
  Quick,     (* the ticks a request takes that its timer does not cut off   *)
  Hosts,     (* the hosts tried: are they reliable, and who fetches there   *)
  None

Protocols == {"h1", "h2"}
Modes == {"auto"} \cup Protocols

(* Timeout in ticks, fetch_retries, how many user agents are tried, and    *)
(* fetch_http_mode.                                                        *)
ASSUME FetchAssumption ==
  /\ Configs \subseteq [timeout : Nat \ {0}, retries : 0 .. 5, agents : 1 .. 2, mode : Modes]
  /\ Quick \subseteq Nat
  /\ Hosts \subseteq [reliable : BOOLEAN, users : SUBSET Fetches]
  /\ None \notin Protocols

VARIABLES
  speaks,    (* the protocols the host answers                              *)
  reliable,  (* whether it always answers those at once, and no other       *)
  users,     (* the goroutines that fetch from it                           *)
  preferred, (* fetchHostProtocolState.Preferred                            *)
  avoid,     (* AvoidH1To and AvoidH2To: in the future?                     *)
  pc,        (* where a fetch is                                            *)
  conf,      (* its configuration                                           *)
  spent,     (* the ticks since it began                                    *)
  agent,     (* which user agent it uses                                    *)
  tries,     (* how many tries with that agent have failed                  *)
  left,      (* the protocols of this try that are still to be asked        *)
  began,     (* protocolStageStart                                          *)
  per,       (* perTry                                                      *)
  err,       (* the error of the last request of the try                    *)
  cut,       (* the ticks until the client's timer cuts off the body        *)
  result     (* "none", "served" or "failed": how the last fetch ended      *)

host == <<speaks, reliable, users>>
shared == <<preferred, avoid>>
try == <<left, began, per, err, cut>>
vars == <<host, shared, pc, conf, spent, agent, tries, try, result>>

Lesser(a, b) == IF a < b THEN a ELSE b
Greater(a, b) == IF a < b THEN b ELSE a
Other(p) == IF p = "h1" THEN "h2" ELSE "h1"

FirstBudget == 30   (* the first protocol of two gets at most 3 s           *)
LeastBudget == 15   (* and, like a hedged request, at least 1.5 s           *)
HedgeMargin == 12   (* no hedge in the last 1.2 s                           *)
Pause(i) == 7 * i   (* the sleep after try number i                         *)

(* totalBudgetMS, which sets the deadline.                                 *)
Budget(c) == Lesser(c.timeout * (c.retries + 1), 450)
Rest(f) == Budget(conf[f]) - spent[f]

Init ==
  /\ speaks \in SUBSET Protocols
  /\ \E h \in Hosts : reliable = h.reliable /\ users = h.users
  /\ preferred = None /\ avoid = [p \in Protocols |-> FALSE]
  /\ conf \in [Fetches -> Configs]
  /\ pc = [f \in Fetches |-> "idle"]
  /\ spent = [f \in Fetches |-> 0]
  /\ agent = [f \in Fetches |-> 1] /\ tries = [f \in Fetches |-> 0]
  /\ left = [f \in Fetches |-> <<>>] /\ began = [f \in Fetches |-> 0]
  /\ per = [f \in Fetches |-> 0] /\ err = [f \in Fetches |-> None]
  /\ cut = [f \in Fetches |-> 0]
  /\ result = [f \in Fetches |-> "none"]

(***************************************************************************)
(* What fetches share                                                      *)
(***************************************************************************)

(* Mutant: what has worked before does not count.                          *)
PlanOfAvoidedOnly(mode) ==
  IF mode # "auto" THEN <<mode>>
  ELSE LET first == IF avoid["h2"] /\ ~avoid["h1"] THEN "h1" ELSE "h2"
       IN  <<first, Other(first)>>

(* The protocol that is not avoided comes first; of two alike the one that *)
(* worked last, or h2.                                                     *)
fetchProtocolPlan(mode) ==
  IF mode # "auto" THEN <<mode>>
  ELSE LET best == IF preferred = "h1" THEN "h1" ELSE "h2"
           first == IF avoid[best] /\ ~avoid[Other(best)] THEN Other(best) ELSE best
       IN  <<first, Other(first)>>

MarkSuccess(p) ==
  /\ preferred' = p
  /\ avoid' = [avoid EXCEPT ![p] = FALSE]

Errors == {"timeout", "mismatch", "drop", "stream", "other"}

(* A timeout, a mismatch of protocols or a dropped connection.             *)
MarkFailure(p, e) ==
  /\ avoid' = IF e \in {"timeout", "mismatch", "drop"} THEN [avoid EXCEPT ![p] = TRUE] ELSE avoid
  /\ UNCHANGED preferred

(* Mutant: a connection that was dropped is not one of the errors.         *)
AlternateUnlessDropped(mode, e) == mode = "auto" /\ e \in {"timeout", "mismatch", "stream"}

shouldTryAlternateProtocol(mode, e) ==
  mode = "auto" /\ e \in {"timeout", "mismatch", "drop", "stream"}

AvoidEnds(p) ==
  /\ avoid[p]
  /\ avoid' = [avoid EXCEPT ![p] = FALSE]
  /\ UNCHANGED <<host, preferred, pc, conf, spent, agent, tries, try, result>>

(***************************************************************************)
(* One fetch                                                               *)
(***************************************************************************)

Begin(f) ==
  /\ f \in users /\ pc[f] = "idle"
  /\ pc' = [pc EXCEPT ![f] = "try"]
  /\ \E c \in Configs : conf' = [conf EXCEPT ![f] = c]
  /\ spent' = [spent EXCEPT ![f] = 0]
  /\ agent' = [agent EXCEPT ![f] = 1] /\ tries' = [tries EXCEPT ![f] = 0]
  /\ result' = [result EXCEPT ![f] = "none"]
  /\ UNCHANGED <<host, shared, try>>

(* The variables of a try go out of scope.                                 *)
Forget(f) ==
  /\ left' = [left EXCEPT ![f] = <<>>] /\ began' = [began EXCEPT ![f] = 0]
  /\ per' = [per EXCEPT ![f] = 0] /\ err' = [err EXCEPT ![f] = None]
  /\ cut' = [cut EXCEPT ![f] = 0]

End(f, r) ==
  /\ pc' = [pc EXCEPT ![f] = "idle"]
  /\ result' = [result EXCEPT ![f] = r]

(* Mutant: a try has all of its time, however near the deadline is.        *)
StartTryUncapped(f) ==
  /\ pc[f] = "try" /\ Rest(f) > 0
  /\ per' = [per EXCEPT ![f] = conf[f].timeout]
  /\ left' = [left EXCEPT ![f] = fetchProtocolPlan(conf[f].mode)]
  /\ began' = [began EXCEPT ![f] = spent[f]]
  /\ pc' = [pc EXCEPT ![f] = "ask"]
  /\ UNCHANGED <<host, shared, conf, spent, agent, tries, err, cut, result>>

StartTry(f) ==
  /\ pc[f] = "try" /\ Rest(f) > 0
  /\ per' = [per EXCEPT ![f] = Lesser(conf[f].timeout, Rest(f))]
  /\ left' = [left EXCEPT ![f] = fetchProtocolPlan(conf[f].mode)]
  /\ began' = [began EXCEPT ![f] = spent[f]]
  /\ pc' = [pc EXCEPT ![f] = "ask"]
  /\ UNCHANGED <<host, shared, conf, spent, agent, tries, err, cut, result>>

DeadlineExceeded(f) ==
  /\ pc[f] = "try" /\ Rest(f) <= 0
  /\ End(f, "failed")
  /\ UNCHANGED <<host, shared, conf, spent, agent, tries, try>>

(* protoTimeout.  What is left for the second protocol is what remains,    *)
(* less the time of the first once more, if there is more than that.       *)
ProtocolTimeout(f) ==
  LET elapsed == spent[f] - began[f]
      rest == IF Rest(f) > elapsed THEN Rest(f) - elapsed ELSE Rest(f)
  IN  IF conf[f].mode # "auto" THEN per[f]
      ELSE IF Len(left[f]) = 2 THEN Greater(LeastBudget, Lesser(FirstBudget, per[f]))
      ELSE IF rest > 0 THEN Lesser(rest, per[f])
      ELSE per[f]

(* How a request by protocol p with timeout t can end, and when.           *)
Replies(p, t) ==
  IF ~reliable
    THEN (({"ok"} \cup (Errors \ {"timeout"})) \X {d \in Quick : d <= t}) \cup {<<"timeout", t>>}
    ELSE IF p \in speaks THEN {<<"ok", 1>>}
    ELSE {<<"mismatch", 1>>, <<"drop", 1>>, <<"stream", 1>>, <<"timeout", t>>}

(* The response's header is there.  Its body has the rest of the timeout.  *)
Answered(f) ==
  /\ pc[f] = "ask"
  /\ \E r \in Replies(Head(left[f]), ProtocolTimeout(f)) :
       /\ r[1] = "ok"
       /\ spent' = [spent EXCEPT ![f] = @ + r[2]]
       /\ cut' = [cut EXCEPT ![f] = ProtocolTimeout(f) - r[2]]
  /\ MarkSuccess(Head(left[f]))
  /\ pc' = [pc EXCEPT ![f] = "read"]
  /\ UNCHANGED <<host, conf, agent, tries, left, began, per, err, result>>

(* The other protocol is next, or the try is over but for a hedge.         *)
NotAnswered(f) ==
  /\ pc[f] = "ask"
  /\ \E r \in Replies(Head(left[f]), ProtocolTimeout(f)) :
       /\ r[1] \in Errors
       /\ spent' = [spent EXCEPT ![f] = @ + r[2]]
       /\ err' = [err EXCEPT ![f] = r[1]]
       /\ MarkFailure(Head(left[f]), r[1])
       /\ pc' = [pc EXCEPT ![f] =
            IF shouldTryAlternateProtocol(conf[f].mode, r[1]) /\ Len(left[f]) = 2
              THEN "ask" ELSE "asked"]
  /\ left' = [left EXCEPT ![f] = Tail(@)]
  /\ UNCHANGED <<host, conf, agent, tries, began, per, cut, result>>

shouldHedgeFetchAttempt(f) ==
  conf[f].mode = "auto" /\ err[f] = "timeout" /\ per[f] >= FirstBudget /\ Rest(f) > HedgeMargin

HedgeTimeout(f) == Lesser(Greater(LeastBudget, per[f] \div 2), Rest(f))

(* A reply for each of the two requests.                                   *)
Hedges(t) == [h1 : Replies("h1", t), h2 : Replies("h2", t)]

(* doSubscriptionFetchHedged asks by both protocols at once and waits for  *)
(* both.  The good response that came first is taken.  Failures are not    *)
(* noted.                                                                  *)
Hedge(f) ==
  /\ pc[f] = "asked" /\ shouldHedgeFetchAttempt(f)
  /\ \E r \in Hedges(HedgeTimeout(f)) :
       LET good == {p \in Protocols : r[p][1] = "ok"}
           took == Greater(r["h1"][2], r["h2"][2])
       IN
       /\ spent' = [spent EXCEPT ![f] = @ + took]
       /\ \/ /\ \E p \in good : (\A q \in good : r[p][2] <= r[q][2]) /\ MarkSuccess(p)
             /\ cut' = [cut EXCEPT ![f] = HedgeTimeout(f) - took]
             /\ pc' = [pc EXCEPT ![f] = "read"]
          \/ /\ good = {}
             /\ pc' = [pc EXCEPT ![f] = "failed"]
             /\ UNCHANGED <<shared, cut>>
  /\ UNCHANGED <<host, conf, agent, tries, left, began, per, err, result>>

(* io.ReadAll: a body that comes in time is good or bad, one that does not *)
(* is cut off, unless it is in a buffer by then.  Then the body is closed. *)
Read(f) ==
  /\ pc[f] = "read"
  /\ \E d \in {0, cut[f]} \cup {q \in Quick : q <= cut[f]} :
       spent' = [spent EXCEPT ![f] = @ + IF reliable THEN 0 ELSE d]
  /\ \/ End(f, "served")
     \/ /\ ~reliable
        /\ pc' = [pc EXCEPT ![f] = "failed"] /\ UNCHANGED result
  /\ Forget(f)
  /\ UNCHANGED <<host, shared, conf, agent, tries>>

(* The next try after a pause; after the last one the next user agent,     *)
(* without a pause; after the last agent the fetch has failed.             *)
TryFails(f) ==
  /\ pc[f] = "failed" \/ (pc[f] = "asked" /\ ~shouldHedgeFetchAttempt(f))
  /\ \/ /\ tries[f] < conf[f].retries
        /\ tries' = [tries EXCEPT ![f] = @ + 1]
        /\ spent' = [spent EXCEPT ![f] = @ + Pause(tries[f] + 1)]
        /\ pc' = [pc EXCEPT ![f] = "try"]
        /\ UNCHANGED <<agent, result>>
     \/ /\ tries[f] = conf[f].retries /\ agent[f] < conf[f].agents
        /\ tries' = [tries EXCEPT ![f] = 0]
        /\ agent' = [agent EXCEPT ![f] = @ + 1]
        /\ pc' = [pc EXCEPT ![f] = "try"]
        /\ UNCHANGED <<spent, result>>
     \/ /\ tries[f] = conf[f].retries /\ agent[f] = conf[f].agents
        /\ End(f, "failed")
        /\ UNCHANGED <<spent, agent, tries>>
  /\ Forget(f)
  /\ UNCHANGED <<host, shared, conf>>

Work(f) ==
  \/ StartTry(f) \/ DeadlineExceeded(f) \/ Answered(f) \/ NotAnswered(f)
  \/ Hedge(f) \/ Read(f) \/ TryFails(f)

Next ==
  \/ \E f \in Fetches : Begin(f) \/ Work(f)
  \/ \E p \in Protocols : AvoidEnds(p)

Spec == Init /\ [][Next]_vars

(***************************************************************************)
(* Properties                                                              *)
(***************************************************************************)

(* The deadline bounds a fetch though tries, agents, protocols and hedges  *)
(* multiply: it is over at most the 3 s of a first protocol and the last   *)
(* pause later.                                                            *)
EndsNearDeadline ==
  \A f \in Fetches : spent[f] <= Budget(conf[f]) + FirstBudget + Pause(conf[f].retries)

(* A fetch that may choose its protocol succeeds with a host that speaks   *)
(* one of the two reliably, however the other fails and whatever other     *)
(* fetches noted about the host.                                           *)
AutoServes ==
  \A f \in Fetches :
    reliable /\ speaks # {} /\ conf[f].mode = "auto" => result[f] # "failed"

(* Once a fetch had success with a host that speaks one protocol reliably, *)
(* no fetch asks by the other first any more, while avoidances come and    *)
(* go.                                                                     *)
KnownProtocolFirst ==
  \A p \in Protocols :
    reliable /\ speaks = {p} /\ preferred # None => Head(fetchProtocolPlan("auto")) = p
================================================================================
