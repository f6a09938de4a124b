------------------------ MODULE SubscriptionFetchProofs ------------------------
(***************************************************************************)
(* Theorems about SubscriptionFetch: when a fetch is over and what fetches *)
(* of a reliable host learn, for any configurations and number of fetches. *)
(***************************************************************************)
EXTENDS SubscriptionFetch, TLAPS

(***************************************************************************)
(* The invariant                                                           *)
(***************************************************************************)

Places == {"idle", "try", "ask", "asked", "read", "failed"}

Typed ==
  /\ speaks \subseteq Protocols /\ reliable \in BOOLEAN
  /\ preferred \in Protocols \cup {None}
  /\ avoid \in [Protocols -> BOOLEAN]
  /\ pc \in [Fetches -> Places]
  /\ conf \in [Fetches -> Configs]
  /\ spent \in [Fetches -> Nat]
  /\ agent \in [Fetches -> Nat]
  /\ tries \in [Fetches -> Nat]
  /\ left \in [Fetches -> Seq(Protocols)]
  /\ began \in [Fetches -> Nat]
  /\ per \in [Fetches -> Nat]
  /\ err \in [Fetches -> Errors \cup {None}]
  /\ cut \in [Fetches -> Nat]
  /\ result \in [Fetches -> {"none", "served", "failed"}]

(* When a try begins, the fetch is late by a first protocol and a pause at *)
(* most; what it asks with ends in time, or as late as a first protocol.   *)
Timely(f) ==
  LET budget == Budget(conf[f]) IN
  /\ tries[f] <= conf[f].retries
  /\ pc[f] = "idle" => spent[f] <= budget + FirstBudget + Pause(conf[f].retries)
  /\ pc[f] = "try" => spent[f] <= budget + FirstBudget + Pause(tries[f])
  /\ pc[f] = "ask" =>
       /\ 1 <= per[f] /\ per[f] <= budget - began[f] /\ began[f] <= spent[f]
       /\ Len(left[f]) = 1 \/ (Len(left[f]) = 2 /\ conf[f].mode = "auto")
       /\ conf[f].mode # "auto" \/ Len(left[f]) = 2 => spent[f] = began[f]
       /\ spent[f] <= began[f] + FirstBudget
  /\ pc[f] \in {"asked", "failed"} => spent[f] <= budget + FirstBudget
  /\ pc[f] = "read" => spent[f] + cut[f] <= budget + FirstBudget

(* A fetch from a reliable host gets on with its first try.                *)
Serving(f) ==
  reliable /\ speaks # {} /\ conf[f].mode = "auto" =>
    /\ result[f] # "failed"
    /\ pc[f] \notin {"asked", "failed"}
    /\ pc[f] = "try" => spent[f] = 0
    /\ pc[f] = "ask" /\ Len(left[f]) = 1 => left[f][1] \in speaks
    /\ pc[f] = "ask" /\ Len(left[f]) = 2 => left[f][2] = Other(left[f][1])

(* What is noted about a reliable host of one protocol.                    *)
Known ==
  \A p \in Protocols :
    reliable /\ speaks = {p} => preferred \in {p, None} /\ ~avoid[p]

Fine(f) == Timely(f) /\ Serving(f)
Inv == Typed /\ Known /\ \A f \in Fetches : Fine(f)

(* A step leaves fetch g alone.                                            *)
Same(g) ==
  /\ pc'[g] = pc[g] /\ conf'[g] = conf[g] /\ spent'[g] = spent[g] /\ tries'[g] = tries[g]
  /\ left'[g] = left[g] /\ began'[g] = began[g] /\ per'[g] = per[g] /\ cut'[g] = cut[g]
  /\ result'[g] = result[g]

(***************************************************************************)
(* Lemmas                                                                  *)
(***************************************************************************)

LEMMA ConfigTypes ==
  ASSUME NEW c \in Configs
  PROVE  /\ c.timeout \in Nat /\ 1 <= c.timeout /\ c.retries \in 0 .. 5 /\ c.mode \in Modes
         /\ Budget(c) \in Nat /\ 1 <= Budget(c)
<1>1. c \in [timeout : Nat \ {0}, retries : 0 .. 5, agents : 1 .. 2, mode : Modes]
  BY FetchAssumption
<1>2. c.timeout \in Nat /\ 1 <= c.timeout /\ c.retries \in 0 .. 5 /\ c.mode \in Modes
  BY <1>1
<1>3. c.timeout * (c.retries + 1) \in Nat /\ 1 <= c.timeout * (c.retries + 1)
  <2>1. \/ c.retries = 0 \/ c.retries = 1 \/ c.retries = 2
        \/ c.retries = 3 \/ c.retries = 4 \/ c.retries = 5
    BY <1>2
  <2>2. QED
    BY <1>2, <2>1
<1>4. QED
  BY <1>2, <1>3 DEF Budget, Lesser

(* A request ends before its timer does or with it; a reliable host        *)
(* answers by the protocols it speaks.                                     *)
LEMMA ReplyFacts ==
  ASSUME NEW p \in Protocols, NEW t \in Nat, 1 <= t, NEW r \in Replies(p, t), reliable \in BOOLEAN
  PROVE  /\ r[1] \in {"ok"} \cup Errors /\ r[2] \in Nat /\ r[2] <= t
         /\ reliable => (r[1] = "ok" <=> p \in speaks)
         /\ reliable => r[1] # "other"
<1>1. CASE ~reliable
  <2> DEFINE outcomes == {"ok"} \cup (Errors \ {"timeout"})
  <2>1. \/ r \in outcomes \X {d \in Quick : d <= t}
        \/ r = <<"timeout", t>>
    BY <1>1 DEF Replies
  <2>2. r[1] \in {"ok"} \cup Errors /\ r[2] \in Nat /\ r[2] <= t
    <3>1. CASE r = <<"timeout", t>>
      BY <3>1 DEF Errors
    <3>2. CASE r \in outcomes \X {d \in Quick : d <= t}
      <4> DEFINE early == {d \in Quick : d <= t}
      <4>1. outcomes \subseteq {"ok"} \cup Errors /\ \A d \in early : d \in Nat /\ d <= t
        BY FetchAssumption
      <4>2. r \in outcomes \X early
        BY <3>2
      <4> HIDE DEF outcomes, early
      <4>3. r[1] \in outcomes /\ r[2] \in early
        BY <4>2
      <4>4. QED
        BY <4>1, <4>3
    <3>3. QED
      BY <2>1, <3>1, <3>2
  <2>3. QED
    BY <1>1, <2>2
<1>2. CASE reliable /\ p \in speaks
  BY <1>2 DEF Replies, Errors
<1>3. CASE reliable /\ p \notin speaks
  <2>1. r \in {<<"mismatch", 1>>, <<"drop", 1>>, <<"stream", 1>>, <<"timeout", t>>}
    BY <1>3 DEF Replies
  <2>2. QED
    BY <1>3, <2>1 DEF Errors
<1>4. QED
  BY <1>1, <1>2, <1>3

LEMMA PlanFacts ==
  ASSUME NEW mode \in Modes
  PROVE  /\ fetchProtocolPlan(mode) \in Seq(Protocols)
         /\ mode # "auto" => Len(fetchProtocolPlan(mode)) = 1
         /\ mode = "auto" => /\ Len(fetchProtocolPlan(mode)) = 2
                             /\ fetchProtocolPlan(mode)[2] = Other(fetchProtocolPlan(mode)[1])
<1>1. CASE mode # "auto"
  BY <1>1 DEF fetchProtocolPlan, Modes
<1>2. CASE mode = "auto"
  <2>1. PICK first \in Protocols : fetchProtocolPlan(mode) = <<first, Other(first)>>
    BY <1>2 DEF fetchProtocolPlan, Other, Protocols
  <2>2. PICK second \in Protocols : second = Other(first)
    BY DEF Other, Protocols
  <2>3. fetchProtocolPlan(mode) = <<first, second>>
    BY <2>1, <2>2
  <2>4. /\ <<first, second>> \in Seq(Protocols) /\ Len(<<first, second>>) = 2
        /\ <<first, second>>[1] = first /\ <<first, second>>[2] = second
    OBVIOUS
  <2>5. QED
    BY <1>2, <2>2, <2>3, <2>4
<1>3. QED
  BY <1>1, <1>2

(* The time of a request: what is left of the budget, or that of a first   *)
(* protocol more.                                                          *)
LEMMA TimeoutFacts ==
  ASSUME Inv, NEW f \in Fetches, pc[f] = "ask"
  PROVE  /\ ProtocolTimeout(f) \in Nat /\ 1 <= ProtocolTimeout(f)
         /\ spent[f] + ProtocolTimeout(f) <= Budget(conf[f]) + FirstBudget
         /\ Len(left[f]) = 2 => ProtocolTimeout(f) <= FirstBudget
         /\ Head(left[f]) \in Protocols
         /\ Head(left[f]) = left[f][1]
<1>1. /\ Timely(f) /\ conf[f] \in Configs
      /\ spent[f] \in Nat /\ began[f] \in Nat /\ per[f] \in Nat /\ left[f] \in Seq(Protocols)
  BY DEF Inv, Typed, Fine
<1>2. Budget(conf[f]) \in Nat
  BY <1>1, ConfigTypes
<1>3. /\ 1 <= per[f] /\ per[f] <= Budget(conf[f]) - began[f] /\ began[f] <= spent[f]
      /\ Len(left[f]) = 1 \/ (Len(left[f]) = 2 /\ conf[f].mode = "auto")
      /\ conf[f].mode # "auto" \/ Len(left[f]) = 2 => spent[f] = began[f]
      /\ spent[f] <= began[f] + 30
  BY <1>1 DEF Timely, FirstBudget
<1>4. /\ ProtocolTimeout(f) \in Nat /\ 1 <= ProtocolTimeout(f)
      /\ spent[f] + ProtocolTimeout(f) <= Budget(conf[f]) + 30
      /\ Len(left[f]) = 2 => ProtocolTimeout(f) <= 30
  <2>1. CASE conf[f].mode # "auto"
    <3>1. ProtocolTimeout(f) = per[f]
      BY <2>1 DEF ProtocolTimeout
    <3>2. spent[f] = began[f] /\ Len(left[f]) = 1
      BY <1>3, <2>1
    <3>3. spent[f] + per[f] <= Budget(conf[f])
      BY <1>1, <1>2, <1>3, <3>2
    <3>4. QED
      BY <1>1, <1>2, <1>3, <3>1, <3>2, <3>3
  <2>2. CASE conf[f].mode = "auto" /\ Len(left[f]) = 2
    <3>1. ProtocolTimeout(f) = Greater(15, Lesser(30, per[f]))
      BY <2>2 DEF ProtocolTimeout, LeastBudget, FirstBudget
    <3>2. /\ Greater(15, Lesser(30, per[f])) \in Nat
          /\ 15 <= Greater(15, Lesser(30, per[f])) /\ Greater(15, Lesser(30, per[f])) <= 30
      BY <1>1 DEF Greater, Lesser
    <3>3. spent[f] = began[f] /\ began[f] <= Budget(conf[f])
      BY <1>1, <1>2, <1>3, <2>2
    <3>4. QED
      BY <1>1, <1>2, <3>1, <3>2, <3>3
  <2>3. CASE conf[f].mode = "auto" /\ Len(left[f]) # 2
    <3> DEFINE elapsed == spent[f] - began[f]
    <3> DEFINE rest == IF Rest(f) > elapsed THEN Rest(f) - elapsed ELSE Rest(f)
    <3>1. ProtocolTimeout(f) = IF rest > 0 THEN Lesser(rest, per[f]) ELSE per[f]
      BY <2>3 DEF ProtocolTimeout
    <3>2. Rest(f) = Budget(conf[f]) - spent[f] /\ Rest(f) \in Int /\ elapsed \in Nat
      BY <1>1, <1>2, <1>3 DEF Rest
    <3>3. rest \in Int /\ rest <= Rest(f) /\ (rest <= 0 => Rest(f) <= 0)
      BY <3>2
    <3> HIDE DEF rest, elapsed
    <3>4. CASE rest > 0
      BY <1>1, <1>2, <1>3, <2>3, <3>1, <3>2, <3>3, <3>4 DEF Lesser
    <3>5. CASE rest <= 0
      BY <1>1, <1>2, <1>3, <2>3, <3>1, <3>2, <3>3, <3>5
    <3>6. QED
      BY <3>3, <3>4, <3>5
  <2>4. QED
    BY <2>1, <2>2, <2>3
<1>5. Head(left[f]) \in Protocols /\ Head(left[f]) = left[f][1]
  BY <1>1, <1>3
<1>6. QED
  BY <1>4, <1>5 DEF FirstBudget

(* Fetches that a step leaves alone stay as they should be.                *)
LEMMA OthersFine ==
  ASSUME Inv, NEW f \in Fetches, UNCHANGED host, \A g \in Fetches : g # f => Same(g)
  PROVE  \A g \in Fetches : g # f => Fine(g)'
<1> SUFFICES ASSUME NEW g \in Fetches, g # f PROVE Fine(g)'
  OBVIOUS
<1>1. Same(g) /\ speaks' = speaks /\ reliable' = reliable /\ Timely(g) /\ Serving(g)
  BY DEF host, Inv, Fine
<1>2. Timely(g)'
  BY <1>1 DEF Timely, Same
<1>3. Serving(g)'
  BY <1>1 DEF Serving, Same
<1>4. QED
  BY <1>2, <1>3 DEF Fine

LEMMA Together ==
  ASSUME Inv, NEW f \in Fetches, UNCHANGED host, \A g \in Fetches : g # f => Same(g),
         Typed', Known', Timely(f)', Serving(f)'
  PROVE  Inv'
<1>1. \A g \in Fetches : g # f => Fine(g)'
  BY OthersFine
<1>2. Fine(f)'
  BY DEF Fine
<1>3. \A g \in Fetches : Fine(g)'
  BY <1>1, <1>2
<1>4. QED
  BY <1>3 DEF Inv

LEMMA FetchTypes ==
  ASSUME Inv, NEW f \in Fetches
  PROVE  /\ Timely(f) /\ Serving(f)
         /\ conf[f] \in Configs /\ Budget(conf[f]) \in Nat /\ 1 <= Budget(conf[f])
         /\ conf[f].retries \in Nat /\ conf[f].timeout \in Nat /\ 1 <= conf[f].timeout
         /\ conf[f].mode \in Modes
         /\ spent[f] \in Nat /\ tries[f] \in Nat /\ began[f] \in Nat /\ per[f] \in Nat
         /\ cut[f] \in Nat /\ left[f] \in Seq(Protocols)
<1>1. conf[f] \in Configs
  BY DEF Inv, Typed
<1>2. Timely(f) /\ Serving(f)
  BY DEF Inv, Fine
<1>3. /\ Budget(conf[f]) \in Nat /\ 1 <= Budget(conf[f])
      /\ conf[f].retries \in 0 .. 5 /\ conf[f].timeout \in Nat /\ 1 <= conf[f].timeout
      /\ conf[f].mode \in Modes
  BY <1>1, ConfigTypes
<1>4. /\ spent[f] \in Nat /\ tries[f] \in Nat /\ began[f] \in Nat /\ per[f] \in Nat
      /\ cut[f] \in Nat /\ left[f] \in Seq(Protocols)
  BY DEF Inv, Typed
<1>5. conf[f].retries \in Nat
  BY <1>3
<1>6. QED
  BY <1>1, <1>2, <1>3, <1>4, <1>5

(***************************************************************************)
(* Every action keeps the invariant                                        *)
(***************************************************************************)

LEMMA BeginKeeps ==
  ASSUME Inv, NEW f \in Fetches, Begin(f)
  PROVE  Inv'
<1> USE DEF Begin, host, shared, try
<1>1. Typed'
  BY DEF Inv, Typed, Places
<1>2. Known'
  BY DEF Inv, Known
<1>3. \A g \in Fetches : g # f => Same(g)
  BY DEF Same, Inv, Typed
<1>4. /\ pc'[f] = "try" /\ spent'[f] = 0 /\ tries'[f] = 0 /\ result'[f] = "none"
      /\ conf'[f] \in Configs
  BY DEF Inv, Typed
<1>5. Budget(conf'[f]) \in Nat /\ conf'[f].retries \in Nat
  BY <1>4, ConfigTypes
<1>6. Timely(f)'
  BY <1>4, <1>5 DEF Timely, FirstBudget, Pause
<1>7. Serving(f)'
  BY <1>4 DEF Serving
<1>8. QED
  BY <1>1, <1>2, <1>3, <1>6, <1>7, Together

LEMMA StartTryKeeps ==
  ASSUME Inv, NEW f \in Fetches, StartTry(f)
  PROVE  Inv'
<1> USE DEF StartTry, host, shared
<1> DEFINE plan == fetchProtocolPlan(conf[f].mode)
<1>1. /\ plan \in Seq(Protocols)
      /\ conf[f].mode # "auto" => Len(plan) = 1
      /\ conf[f].mode = "auto" => Len(plan) = 2 /\ plan[2] = Other(plan[1])
  BY FetchTypes, PlanFacts
<1>2. Lesser(conf[f].timeout, Rest(f)) \in Nat /\ 1 <= Lesser(conf[f].timeout, Rest(f))
      /\ Lesser(conf[f].timeout, Rest(f)) <= Budget(conf[f]) - spent[f]
  BY FetchTypes DEF Lesser, Rest
<1>3. /\ pc'[f] = "ask" /\ spent'[f] = spent[f] /\ tries'[f] = tries[f] /\ conf'[f] = conf[f]
      /\ left'[f] = plan /\ began'[f] = spent[f] /\ per'[f] = Lesser(conf[f].timeout, Rest(f))
      /\ result'[f] = result[f] /\ pc[f] = "try"
  BY DEF Inv, Typed
<1>4. Typed'
  BY <1>1, <1>2, FetchTypes DEF Inv, Typed, Places
<1>5. Known'
  BY DEF Inv, Known
<1>6. \A g \in Fetches : g # f => Same(g)
  BY DEF Same, Inv, Typed
<1>7. Timely(f)'
  <2> HIDE DEF plan, StartTry
  <2>1. tries[f] <= conf[f].retries
    BY FetchTypes DEF Timely
  <2>2. QED
    BY <1>1, <1>2, <1>3, <2>1, FetchTypes DEF Timely, FirstBudget
<1>8. Serving(f)'
  <2>1. UNCHANGED <<speaks, reliable>>
    OBVIOUS
  <2> HIDE DEF plan, StartTry
  <2>2. reliable /\ speaks # {} /\ conf[f].mode = "auto" =>
          result[f] # "failed" /\ Len(plan) = 2 /\ plan[2] = Other(plan[1])
    BY <1>1, FetchTypes DEF Serving
  <2>3. QED
    BY <1>3, <2>1, <2>2 DEF Serving
<1>9. QED
  BY <1>4, <1>5, <1>6, <1>7, <1>8, Together

LEMMA DeadlineExceededKeeps ==
  ASSUME Inv, NEW f \in Fetches, DeadlineExceeded(f)
  PROVE  Inv'
<1> USE DEF DeadlineExceeded, End, host, shared, try
<1>1. Typed'
  BY DEF Inv, Typed, Places
<1>2. Known'
  BY DEF Inv, Known
<1>3. \A g \in Fetches : g # f => Same(g)
  BY DEF Same, Inv, Typed
<1>4. /\ pc'[f] = "idle" /\ spent'[f] = spent[f] /\ tries'[f] = tries[f] /\ conf'[f] = conf[f]
      /\ pc[f] = "try" /\ Rest(f) <= 0
  BY DEF Inv, Typed
<1>5. Timely(f)'
  <2>1. /\ tries[f] <= conf[f].retries
        /\ spent[f] <= Budget(conf[f]) + FirstBudget + Pause(tries[f])
    BY <1>4, FetchTypes DEF Timely
  <2>2. spent[f] <= Budget(conf[f]) + FirstBudget + Pause(conf[f].retries)
    BY <2>1, FetchTypes DEF Pause, FirstBudget
  <2>3. QED
    BY <1>4, <2>1, <2>2 DEF Timely
<1>6. ~(reliable /\ speaks # {} /\ conf[f].mode = "auto")
  BY <1>4, FetchTypes DEF Serving, Rest
<1>7. Serving(f)'
  BY <1>4, <1>6 DEF Serving
<1>8. QED
  BY <1>1, <1>2, <1>3, <1>5, <1>7, Together

LEMMA AnsweredKeeps ==
  ASSUME Inv, NEW f \in Fetches, Answered(f)
  PROVE  Inv'
<1> DEFINE p == Head(left[f])
<1> DEFINE t == ProtocolTimeout(f)
<1>1. /\ p \in Protocols /\ t \in Nat /\ 1 <= t
      /\ spent[f] + t <= Budget(conf[f]) + FirstBudget
  BY TimeoutFacts DEF Answered
<1>2. PICK r \in Replies(p, t) :
        /\ r[1] = "ok" /\ spent' = [spent EXCEPT ![f] = @ + r[2]]
        /\ cut' = [cut EXCEPT ![f] = t - r[2]]
  BY DEF Answered
<1>3. reliable \in BOOLEAN
  BY DEF Inv, Typed
<1> HIDE DEF p, t
<1>4. r[2] \in Nat /\ r[2] <= t /\ (reliable => p \in speaks)
  BY <1>1, <1>2, <1>3, ReplyFacts
<1>5. spent[f] + r[2] \in Nat /\ t - r[2] \in Nat
  BY <1>1, <1>4, FetchTypes
<1>6. /\ pc[f] = "ask" /\ preferred' = p /\ avoid' = [avoid EXCEPT ![p] = FALSE]
      /\ pc' = [pc EXCEPT ![f] = "read"]
      /\ UNCHANGED <<speaks, reliable, users, conf, agent, tries, left, began, per, err, result>>
  BY DEF Answered, MarkSuccess, host, p
<1>7. Typed'
  <2>1. Typed
    BY FetchTypes DEF Inv
  <2>2. /\ speaks' \subseteq Protocols /\ reliable' \in BOOLEAN
        /\ preferred' \in Protocols \cup {None} /\ avoid' \in [Protocols -> BOOLEAN]
    BY <1>1, <1>6, <2>1 DEF Typed
  <2>3. /\ pc' \in [Fetches -> Places] /\ spent' \in [Fetches -> Nat]
        /\ cut' \in [Fetches -> Nat]
    BY <1>2, <1>5, <1>6, <2>1 DEF Typed, Places
  <2>4. QED
    BY <1>6, <2>1, <2>2, <2>3 DEF Typed
<1>8. Known'
  BY <1>1, <1>4, <1>6 DEF Inv, Known, Typed
<1>9. \A g \in Fetches : g # f => Same(g)
  BY <1>2, <1>6 DEF Same, Inv, Typed
<1>10. /\ pc'[f] = "read" /\ spent'[f] = spent[f] + r[2] /\ cut'[f] = t - r[2]
       /\ result'[f] = result[f] /\ conf'[f] = conf[f]
       /\ tries'[f] = tries[f]
  BY <1>2, <1>6 DEF Inv, Typed
<1>11. Timely(f)'
  <2>1. tries[f] <= conf[f].retries
    BY FetchTypes DEF Timely
  <2>2. spent'[f] + cut'[f] = spent[f] + t
    BY <1>1, <1>4, <1>10, FetchTypes
  <2>3. QED
    BY <1>1, <1>10, <2>1, <2>2 DEF Timely
<1>12. Serving(f)'
  BY <1>6, <1>10, FetchTypes DEF Serving
<1>13. QED
  BY <1>6, <1>7, <1>8, <1>9, <1>11, <1>12, Together DEF host

LEMMA NotAnsweredKeeps ==
  ASSUME Inv, NEW f \in Fetches, NotAnswered(f)
  PROVE  Inv'
<1> DEFINE p == Head(left[f])
<1> DEFINE t == ProtocolTimeout(f)
<1> DEFINE more == shouldTryAlternateProtocol(conf[f].mode, err'[f]) /\ Len(left[f]) = 2
<1>1. /\ p \in Protocols /\ t \in Nat /\ 1 <= t /\ p = left[f][1]
      /\ spent[f] + t <= Budget(conf[f]) + 30 /\ (Len(left[f]) = 2 => t <= 30)
  BY TimeoutFacts DEF NotAnswered, FirstBudget
<1>2. PICK r \in Replies(p, t) :
        /\ r[1] \in Errors /\ spent' = [spent EXCEPT ![f] = @ + r[2]]
        /\ err' = [err EXCEPT ![f] = r[1]] /\ MarkFailure(p, r[1])
        /\ pc' = [pc EXCEPT ![f] =
             IF shouldTryAlternateProtocol(conf[f].mode, r[1]) /\ Len(left[f]) = 2
               THEN "ask" ELSE "asked"]
  BY DEF NotAnswered
<1>3. reliable \in BOOLEAN
  BY DEF Inv, Typed
<1> HIDE DEF p, t
<1>4. r[2] \in Nat /\ r[2] <= t /\ (reliable => p \notin speaks /\ r[1] # "other")
  BY <1>1, <1>2, <1>3, ReplyFacts DEF Errors
<1>5. spent[f] + r[2] \in Nat
  BY <1>4, FetchTypes
<1>6. /\ pc[f] = "ask" /\ left' = [left EXCEPT ![f] = Tail(@)]
      /\ UNCHANGED <<speaks, reliable, users, conf, agent, tries, began, per, cut, result>>
  BY DEF NotAnswered, host
<1>7. /\ preferred' = preferred
      /\ avoid' = avoid \/ avoid' = [avoid EXCEPT ![p] = TRUE]
  BY <1>2 DEF MarkFailure
<1>8. Len(left[f]) = 1 \/ (Len(left[f]) = 2 /\ conf[f].mode = "auto" /\ spent[f] = began[f])
  BY <1>6, FetchTypes DEF Timely
<1>9. Tail(left[f]) \in Seq(Protocols) /\ Len(Tail(left[f])) = Len(left[f]) - 1
  <2>1. left[f] \in Seq(Protocols)
    BY FetchTypes
  <2>2. left[f] # <<>>
    BY <1>8, <2>1
  <2>3. QED
    BY <2>1, <2>2
<1>10. Typed'
  BY <1>1, <1>2, <1>5, <1>6, <1>7, <1>9, FetchTypes DEF Inv, Typed, Places
<1>11. Known'
  BY <1>1, <1>4, <1>6, <1>7 DEF Inv, Known, Typed
<1>12. \A g \in Fetches : g # f => Same(g)
  BY <1>2, <1>6 DEF Same, Inv, Typed
<1>13. /\ spent'[f] = spent[f] + r[2] /\ err'[f] = r[1] /\ left'[f] = Tail(left[f])
       /\ result'[f] = result[f] /\ conf'[f] = conf[f]
       /\ tries'[f] = tries[f] /\ per'[f] = per[f] /\ began'[f] = began[f]
       /\ pc'[f] = IF more THEN "ask" ELSE "asked"
  BY <1>2, <1>6 DEF Inv, Typed
<1>14. Timely(f)'
  <2>1. /\ tries[f] <= conf[f].retries
        /\ 1 <= per[f] /\ per[f] <= Budget(conf[f]) - began[f] /\ began[f] <= spent[f]
    BY <1>6, FetchTypes DEF Timely
  <2> HIDE DEF more
  <2>2. began[f] \in Nat /\ spent[f] \in Nat /\ Budget(conf[f]) \in Nat
    BY FetchTypes
  <2>3. spent'[f] \in Nat /\ began[f] <= spent'[f] /\ spent'[f] <= Budget(conf[f]) + 30
    BY <1>1, <1>4, <1>13, <2>2, <2>1
  <2>4. CASE more
    <3>1. Len(left[f]) = 2
      BY <2>4 DEF more
    <3>2. Len(left'[f]) = 1 /\ conf[f].mode = "auto" /\ pc'[f] = "ask"
      BY <1>8, <1>9, <1>13, <2>4, <3>1
    <3>3. spent'[f] <= began[f] + 30
      BY <1>1, <1>4, <1>8, <1>13, <2>2, <3>1
    <3>4. Len(left'[f]) # 2
      BY <3>2
    <3>5. conf'[f] = conf[f]
      BY <1>13
    <3>6. conf'[f].mode = "auto"
      BY <3>2, <3>5
    <3>7. QED
      BY <1>13, <2>1, <2>3, <3>2, <3>3, <3>4, <3>5, <3>6 DEF Timely, FirstBudget
  <2>5. CASE ~more
    <3>1. pc'[f] = "asked"
      BY <1>13, <2>5
    <3>2. QED
      BY <1>13, <2>1, <2>3, <3>1 DEF Timely, FirstBudget
  <2>6. QED
    BY <2>4, <2>5
<1>15. Serving(f)'
  <2> SUFFICES ASSUME reliable, speaks # {}, conf[f].mode = "auto"
               PROVE  /\ result'[f] # "failed" /\ pc'[f] = "ask"
                      /\ Len(left'[f]) = 1 /\ left'[f][1] \in speaks
    BY <1>6, <1>13 DEF Serving
  <2>1. /\ result[f] # "failed"
        /\ Len(left[f]) = 1 => left[f][1] \in speaks
        /\ Len(left[f]) = 2 => left[f][2] = Other(left[f][1])
    BY <1>6, FetchTypes DEF Serving
  <2>2. Len(left[f]) = 2 /\ p \notin speaks
    BY <1>1, <1>4, <1>8, <2>1
  <2>3. Other(p) \in speaks
    BY <1>1, <2>2 DEF Inv, Typed, Protocols, Other
  <2>4. more
    BY <1>2, <1>4, <1>13, <2>2 DEF shouldTryAlternateProtocol, Errors
  <2>5. Tail(left[f])[1] = left[f][2]
    BY <2>2, FetchTypes
  <2>6. QED
    BY <1>1, <1>9, <1>13, <2>1, <2>2, <2>3, <2>4, <2>5
<1>16. QED
  BY <1>6, <1>10, <1>11, <1>12, <1>14, <1>15, Together DEF host

LEMMA HedgeKeeps ==
  ASSUME Inv, NEW f \in Fetches, Hedge(f)
  PROVE  Inv'
<1> DEFINE t == HedgeTimeout(f)
<1>1. /\ t \in Nat /\ 1 <= t /\ spent[f] + t <= Budget(conf[f])
  <2>1. 12 < Budget(conf[f]) - spent[f] /\ 30 <= per[f]
    BY DEF Hedge, shouldHedgeFetchAttempt, Rest, HedgeMargin, FirstBudget
  <2>2. t = Lesser(Greater(15, per[f] \div 2), Budget(conf[f]) - spent[f])
    BY DEF HedgeTimeout, Rest, LeastBudget
  <2>3. spent[f] \in Nat /\ Budget(conf[f]) \in Nat /\ per[f] \in Nat
    BY FetchTypes
  <2> HIDE DEF t
  <2>4. QED
    BY <2>1, <2>2, <2>3 DEF Lesser, Greater
<1>2. PICK r \in Hedges(t) :
        LET good == {p \in Protocols : r[p][1] = "ok"}
            took == Greater(r["h1"][2], r["h2"][2])
        IN  /\ spent' = [spent EXCEPT ![f] = @ + took]
            /\ \/ /\ \E p \in good : (\A q \in good : r[p][2] <= r[q][2]) /\ MarkSuccess(p)
                  /\ cut' = [cut EXCEPT ![f] = t - took]
                  /\ pc' = [pc EXCEPT ![f] = "read"]
               \/ /\ pc' = [pc EXCEPT ![f] = "failed"]
                  /\ UNCHANGED <<shared, cut>>
  BY DEF Hedge
<1> DEFINE took == Greater(r["h1"][2], r["h2"][2])
<1>3. reliable \in BOOLEAN
  BY DEF Inv, Typed
<1> HIDE DEF t
<1>4. \A p \in Protocols : r[p] \in Replies(p, t)
  BY <1>2 DEF Hedges, Protocols
<1>5. \A p \in Protocols :
        /\ r[p][2] \in Nat /\ r[p][2] <= t
        /\ reliable => (r[p][1] = "ok" => p \in speaks)
  BY <1>1, <1>3, <1>4, ReplyFacts
<1>6. took \in Nat /\ took <= t
  BY <1>1, <1>5 DEF Greater, Protocols
<1>7. spent' = [spent EXCEPT ![f] = @ + took]
  BY <1>2
<1>8. CASE /\ \E p \in Protocols : r[p][1] = "ok" /\ MarkSuccess(p)
           /\ cut' = [cut EXCEPT ![f] = t - took]
           /\ pc' = [pc EXCEPT ![f] = "read"]
  <2>1. PICK p \in Protocols : /\ reliable => p \in speaks
                              /\ preferred' = p /\ avoid' = [avoid EXCEPT ![p] = FALSE]
    BY <1>5, <1>8 DEF MarkSuccess
  <2>2. /\ pc[f] = "asked" /\ pc' = [pc EXCEPT ![f] = "read"] /\ cut' = [cut EXCEPT ![f] = t - took]
        /\ UNCHANGED <<speaks, reliable, users, conf, agent, tries, left, began, per, err, result>>
    BY <1>8 DEF Hedge, host
  <2> HIDE DEF took
  <2>3. t - took \in Nat /\ spent[f] + took \in Nat
    BY <1>1, <1>6, FetchTypes
  <2>4. Typed'
    <3>1. Typed
      BY DEF Inv
    <3>2. preferred' \in Protocols \cup {None} /\ avoid' \in [Protocols -> BOOLEAN]
      BY <2>1, <3>1 DEF Typed
    <3>3. /\ pc' \in [Fetches -> Places] /\ spent' \in [Fetches -> Nat]
          /\ cut' \in [Fetches -> Nat]
      BY <1>7, <2>2, <2>3, <3>1 DEF Typed, Places
    <3>4. QED
      BY <2>2, <3>1, <3>2, <3>3 DEF Typed
  <2>5. Known'
    BY <2>1, <2>2 DEF Inv, Known, Typed
  <2>6. \A g \in Fetches : g # f => Same(g)
    BY <1>7, <2>2 DEF Same, Inv, Typed
  <2>7. /\ pc'[f] = "read" /\ spent'[f] = spent[f] + took /\ cut'[f] = t - took
        /\ result'[f] = result[f] /\ conf'[f] = conf[f]
        /\ tries'[f] = tries[f]
    BY <1>7, <2>2 DEF Inv, Typed
  <2>8. Timely(f)'
    <3>1. tries[f] <= conf[f].retries
      BY FetchTypes DEF Timely
    <3>2. spent'[f] + cut'[f] = spent[f] + t
      BY <1>1, <1>6, <2>7, FetchTypes
    <3>3. spent'[f] + cut'[f] <= Budget(conf[f]) + 30
      BY <1>1, <3>2, FetchTypes
    <3>4. QED
      BY <2>7, <3>1, <3>3 DEF Timely, FirstBudget
  <2>9. Serving(f)'
    BY <2>2, <2>7, FetchTypes DEF Serving
  <2>10. QED
    BY <2>2, <2>4, <2>5, <2>6, <2>8, <2>9, Together DEF host
<1>9. CASE /\ pc' = [pc EXCEPT ![f] = "failed"]
           /\ UNCHANGED <<shared, cut>>
  <2>1. /\ pc[f] = "asked" /\ pc' = [pc EXCEPT ![f] = "failed"]
        /\ UNCHANGED <<speaks, reliable, users, preferred, avoid, conf, agent, tries, left,
                       began, per, err, cut, result>>
    BY <1>9 DEF Hedge, host, shared
  <2> HIDE DEF took
  <2>2. spent[f] + took \in Nat
    BY <1>6, FetchTypes
  <2>3. Typed'
    BY <1>7, <2>1, <2>2 DEF Inv, Typed, Places
  <2>4. Known'
    BY <2>1 DEF Inv, Known
  <2>5. \A g \in Fetches : g # f => Same(g)
    BY <1>7, <2>1 DEF Same, Inv, Typed
  <2>6. /\ pc'[f] = "failed" /\ spent'[f] = spent[f] + took
        /\ result'[f] = result[f] /\ conf'[f] = conf[f]
        /\ tries'[f] = tries[f]
    BY <1>7, <2>1 DEF Inv, Typed
  <2>7. Timely(f)'
    <3>1. tries[f] <= conf[f].retries
      BY FetchTypes DEF Timely
    <3>2. spent'[f] <= Budget(conf[f]) + 30
      BY <1>1, <1>6, <2>6, FetchTypes
    <3>3. QED
      BY <2>6, <3>1, <3>2 DEF Timely, FirstBudget
  <2>8. Serving(f)'
    BY <2>1, <2>6, FetchTypes DEF Serving
  <2>9. QED
    BY <2>1, <2>3, <2>4, <2>5, <2>7, <2>8, Together DEF host
<1>10. QED
  BY <1>2, <1>8, <1>9

(* The variables of a try are as good as new.                              *)
LEMMA ForgetTypes ==
  ASSUME Typed, NEW f \in Fetches, Forget(f)
  PROVE  /\ left' \in [Fetches -> Seq(Protocols)] /\ began' \in [Fetches -> Nat]
         /\ per' \in [Fetches -> Nat] /\ err' \in [Fetches -> Errors \cup {None}]
         /\ cut' \in [Fetches -> Nat]
         /\ \A g \in Fetches : g # f =>
              /\ left'[g] = left[g] /\ began'[g] = began[g] /\ per'[g] = per[g]
              /\ cut'[g] = cut[g]
  BY DEF Typed, Forget

LEMMA ReadKeeps ==
  ASSUME Inv, NEW f \in Fetches, Read(f)
  PROVE  Inv'
<1>1. PICK d \in {0, cut[f]} \cup {q \in Quick : q <= cut[f]} :
        spent' = [spent EXCEPT ![f] = @ + IF reliable THEN 0 ELSE d]
  BY DEF Read
<1> DEFINE took == IF reliable THEN 0 ELSE d
<1>2. took \in Nat /\ took <= cut[f] /\ spent' = [spent EXCEPT ![f] = @ + took]
  BY <1>1, FetchAssumption, FetchTypes
<1> HIDE DEF took
<1>3. /\ pc[f] = "read" /\ Forget(f)
      /\ UNCHANGED <<speaks, reliable, users, preferred, avoid, conf, agent, tries>>
      /\ \/ pc' = [pc EXCEPT ![f] = "idle"] /\ result' = [result EXCEPT ![f] = "served"]
         \/ ~reliable /\ pc' = [pc EXCEPT ![f] = "failed"] /\ result' = result
  BY DEF Read, End, host, shared
<1>4. spent[f] + took \in Nat
  BY <1>2, FetchTypes
<1>5. Typed'
  <2>1. Typed
    BY DEF Inv
  <2>2. pc' \in [Fetches -> Places] /\ result' \in [Fetches -> {"none", "served", "failed"}]
    BY <1>3, <2>1 DEF Typed, Places
  <2>3. spent' \in [Fetches -> Nat]
    BY <1>2, <1>4, <2>1 DEF Typed
  <2>4. QED
    BY <1>3, <2>1, <2>2, <2>3, ForgetTypes DEF Typed
<1>6. Known'
  BY <1>3 DEF Inv, Known
<1>7. \A g \in Fetches : g # f => Same(g)
  <2> SUFFICES ASSUME NEW g \in Fetches, g # f PROVE Same(g)
    OBVIOUS
  <2>1. Typed
    BY DEF Inv
  <2>2. pc'[g] = pc[g] /\ result'[g] = result[g]
    BY <1>3, <2>1 DEF Typed
  <2>3. spent'[g] = spent[g]
    BY <1>2, <1>3, <2>1 DEF Typed
  <2>4. QED
    BY <1>3, <2>1, <2>2, <2>3, ForgetTypes DEF Same
<1>8. /\ spent'[f] = spent[f] + took /\ conf'[f] = conf[f] /\ tries'[f] = tries[f]
      /\ pc'[f] = "idle" \/ pc'[f] = "failed"
      /\ reliable => pc'[f] = "idle" /\ result'[f] = "served"
  BY <1>2, <1>3, <1>4 DEF Inv, Typed
<1>9. Timely(f)'
  <2>1. /\ tries[f] <= conf[f].retries
        /\ spent[f] + cut[f] <= Budget(conf[f]) + 30
    BY <1>3, FetchTypes DEF Timely, FirstBudget
  <2>2. spent'[f] <= Budget(conf[f]) + 30
    BY <1>2, <1>8, <2>1, FetchTypes
  <2>3. spent'[f] <= Budget(conf[f]) + 30 + 7 * conf[f].retries
    BY <1>2, <1>8, <2>2, FetchTypes
  <2>4. QED
    BY <1>8, <2>1, <2>2, <2>3 DEF Timely, FirstBudget, Pause
<1>10. Serving(f)'
  BY <1>3, <1>8 DEF Serving
<1>11. QED
  BY <1>3, <1>5, <1>6, <1>7, <1>9, <1>10, Together DEF host

(* After a try that failed the fetch pauses before try number i, or is     *)
(* over.                                                                   *)
Paused(f, pause, i, place) ==
  /\ spent' = [spent EXCEPT ![f] = @ + pause] /\ tries' = [tries EXCEPT ![f] = i]
  /\ i <= conf[f].retries
  /\ place = "try" => pause <= 7 * i
  /\ place = "idle" => pause = 0
  /\ pc' = [pc EXCEPT ![f] = place]
  /\ agent' \in [Fetches -> Nat] /\ result' \in [Fetches -> {"none", "served", "failed"}]
  /\ \A g \in Fetches : g # f => result'[g] = result[g]

LEMMA TryFailsKeeps ==
  ASSUME Inv, NEW f \in Fetches, TryFails(f)
  PROVE  Inv'
<1>1. /\ pc[f] \in {"asked", "failed"} /\ Forget(f)
      /\ UNCHANGED <<speaks, reliable, users, preferred, avoid, conf>>
  BY DEF TryFails, host, shared
<1>2. ~(reliable /\ speaks # {} /\ conf[f].mode = "auto")
  BY <1>1, FetchTypes DEF Serving
<1>3. /\ tries[f] <= conf[f].retries /\ spent[f] <= Budget(conf[f]) + 30
  BY <1>1, FetchTypes DEF Timely, FirstBudget
<1>4. PICK pause \in Nat, i \in Nat, place \in {"try", "idle"} : Paused(f, pause, i, place)
  <2>1. Typed
    BY DEF Inv
  <2>2. spent = [spent EXCEPT ![f] = @ + 0] /\ tries = [tries EXCEPT ![f] = tries[f]]
    BY <2>1 DEF Typed
  <2>3. CASE /\ tries[f] < conf[f].retries
             /\ tries' = [tries EXCEPT ![f] = @ + 1]
             /\ spent' = [spent EXCEPT ![f] = @ + Pause(tries[f] + 1)]
             /\ pc' = [pc EXCEPT ![f] = "try"]
             /\ UNCHANGED <<agent, result>>
    <3>1. /\ tries[f] + 1 \in Nat /\ tries[f] + 1 <= conf[f].retries
          /\ Pause(tries[f] + 1) \in Nat /\ Pause(tries[f] + 1) <= 7 * (tries[f] + 1)
      BY <2>3, FetchTypes DEF Pause
    <3>2. Paused(f, Pause(tries[f] + 1), tries[f] + 1, "try")
      BY <2>1, <2>3, <3>1 DEF Typed, Paused
    <3>3. QED
      BY <3>1, <3>2
  <2>4. CASE /\ tries' = [tries EXCEPT ![f] = 0]
             /\ agent' = [agent EXCEPT ![f] = @ + 1]
             /\ pc' = [pc EXCEPT ![f] = "try"]
             /\ UNCHANGED <<spent, result>>
    <3>1. agent' \in [Fetches -> Nat] /\ 0 <= conf[f].retries
      BY <2>1, <2>4, FetchTypes DEF Typed
    <3>2. spent' = [spent EXCEPT ![f] = @ + 0]
      BY <2>2, <2>4
    <3>3. /\ result' \in [Fetches -> {"none", "served", "failed"}]
          /\ \A g \in Fetches : g # f => result'[g] = result[g]
      BY <2>1, <2>4 DEF Typed
    <3>4. 0 <= 7 * 0
      OBVIOUS
    <3>5. Paused(f, 0, 0, "try")
      BY <2>4, <3>1, <3>2, <3>3, <3>4 DEF Paused
    <3>6. QED
      BY <3>5
  <2>5. CASE End(f, "failed") /\ UNCHANGED <<spent, agent, tries>>
    <3>1. /\ pc' = [pc EXCEPT ![f] = "idle"]
          /\ result' \in [Fetches -> {"none", "served", "failed"}]
          /\ \A g \in Fetches : g # f => result'[g] = result[g]
      BY <2>1, <2>5 DEF Typed, End
    <3>2. tries[f] \in Nat
      BY FetchTypes
    <3>3. /\ spent' = [spent EXCEPT ![f] = @ + 0] /\ tries' = [tries EXCEPT ![f] = tries[f]]
      BY <2>2, <2>5
    <3>4. Paused(f, 0, tries[f], "idle")
      BY <1>3, <2>1, <2>5, <3>1, <3>3 DEF Typed, Paused
    <3>5. QED
      BY <3>2, <3>4
  <2>6. QED
    BY <2>3, <2>4, <2>5 DEF TryFails
<1>5. spent[f] + pause \in Nat
  BY <1>4, FetchTypes
<1>6. Typed'
  <2>1. Typed
    BY DEF Inv
  <2>2. /\ pc' \in [Fetches -> Places] /\ spent' \in [Fetches -> Nat]
        /\ tries' \in [Fetches -> Nat]
    BY <1>4, <1>5, <2>1 DEF Typed, Places, Paused
  <2>3. QED
    BY <1>1, <1>4, <2>1, <2>2, ForgetTypes DEF Typed, Paused
<1>7. Known'
  BY <1>1 DEF Inv, Known
<1>8. \A g \in Fetches : g # f => Same(g)
  BY <1>1, <1>4, ForgetTypes DEF Same, Inv, Typed, Paused
<1>9. /\ spent'[f] = spent[f] + pause /\ tries'[f] = i /\ pc'[f] = place
      /\ conf'[f] = conf[f]
  BY <1>1, <1>4 DEF Inv, Typed, Paused
<1>10. Timely(f)'
  <2>1. place = "try" => spent'[f] <= Budget(conf[f]) + 30 + 7 * i
    BY <1>3, <1>4, <1>9, FetchTypes DEF Paused
  <2>2. place = "idle" => spent'[f] <= Budget(conf[f]) + 30 + 7 * conf[f].retries
    BY <1>3, <1>4, <1>9, FetchTypes DEF Paused
  <2>3. QED
    BY <1>4, <1>9, <2>1, <2>2 DEF Timely, FirstBudget, Pause, Paused
<1>11. Serving(f)'
  BY <1>1, <1>2, <1>9 DEF Serving
<1>12. QED
  BY <1>1, <1>6, <1>7, <1>8, <1>10, <1>11, Together DEF host

LEMMA AvoidEndsKeeps ==
  ASSUME Inv, NEW p \in Protocols, AvoidEnds(p)
  PROVE  Inv'
<1>1. /\ avoid' = [avoid EXCEPT ![p] = FALSE]
      /\ UNCHANGED <<speaks, reliable, users, preferred, pc, conf, spent, agent, tries, left,
                     began, per, err, cut, result>>
  BY DEF AvoidEnds, host, try
<1>2. Typed'
  BY <1>1 DEF Inv, Typed
<1>3. Known'
  BY <1>1 DEF Inv, Known, Typed
<1>4. \A f \in Fetches : Fine(f)'
  BY <1>1 DEF Inv, Fine, Timely, Serving
<1>5. QED
  BY <1>2, <1>3, <1>4 DEF Inv

LEMMA StutterKeeps ==
  ASSUME Inv, UNCHANGED vars
  PROVE  Inv'
<1>1. UNCHANGED <<speaks, reliable, users, preferred, avoid, pc, conf, spent, agent, tries, left,
                 began, per, err, cut, result>>
  BY DEF vars, host, shared, try
<1>2. Typed'
  BY <1>1 DEF Inv, Typed
<1>3. Known'
  BY <1>1 DEF Inv, Known
<1>4. \A f \in Fetches : Fine(f)'
  BY <1>1 DEF Inv, Fine, Timely, Serving
<1>5. QED
  BY <1>2, <1>3, <1>4 DEF Inv

LEMMA InvInit == Init => Inv
<1> SUFFICES ASSUME Init PROVE Inv
  OBVIOUS
<1>1. Typed
  <2>1. PICK h \in Hosts : reliable = h.reliable
    BY DEF Init
  <2>2. reliable \in BOOLEAN
    BY <2>1, FetchAssumption
  <2>3. QED
    BY <2>2 DEF Init, Typed, Places
<1>2. Known
  BY DEF Init, Known
<1>3. ASSUME NEW f \in Fetches PROVE Fine(f)
  <2>1. /\ pc[f] = "idle" /\ spent[f] = 0 /\ tries[f] = 0 /\ result[f] = "none"
        /\ conf[f] \in Configs
    BY DEF Init
  <2>2. Budget(conf[f]) \in Nat /\ conf[f].retries \in Nat
    BY <2>1, ConfigTypes
  <2>3. Timely(f)
    BY <2>1, <2>2 DEF Timely, FirstBudget, Pause
  <2>4. Serving(f)
    BY <2>1 DEF Serving
  <2>5. QED
    BY <2>3, <2>4 DEF Fine
<1>4. QED
  BY <1>1, <1>2, <1>3 DEF Inv

LEMMA InvNext == Inv /\ [Next]_vars => Inv'
<1> SUFFICES ASSUME Inv, [Next]_vars PROVE Inv'
  OBVIOUS
<1>1. ASSUME NEW f \in Fetches, Begin(f) PROVE Inv'
  BY <1>1, BeginKeeps
<1>2. ASSUME NEW f \in Fetches, Work(f) PROVE Inv'
  BY <1>2, StartTryKeeps, DeadlineExceededKeeps, AnsweredKeeps, NotAnsweredKeeps, HedgeKeeps,
     ReadKeeps, TryFailsKeeps DEF Work
<1>3. ASSUME NEW p \in Protocols, AvoidEnds(p) PROVE Inv'
  BY <1>3, AvoidEndsKeeps
<1>4. CASE UNCHANGED vars
  BY <1>4, StutterKeeps
<1>5. QED
  BY <1>1, <1>2, <1>3, <1>4 DEF Next

(***************************************************************************)
(* Theorems                                                                *)
(***************************************************************************)

(* The invariant of the fetches, their times and what they share.          *)
THEOREM Invariant == Spec => []Inv
<1>1. QED
  BY InvInit, InvNext, PTL DEF Spec

(* However timeouts, retries, user agents, protocols and hedges combine,   *)
(* fetchSubscriptionContent is over at most a first protocol's budget and  *)
(* one pause after its deadline.                                           *)
THEOREM DeadlineHolds == Spec => []EndsNearDeadline
<1>1. Inv => EndsNearDeadline
  <2> SUFFICES ASSUME Inv, NEW f \in Fetches
               PROVE  spent[f] <= Budget(conf[f]) + 30 + 7 * conf[f].retries
    BY DEF EndsNearDeadline, FirstBudget, Pause
  <2>1. pc[f] \in Places
    BY DEF Inv, Typed
  <2>2. tries[f] <= conf[f].retries
    BY FetchTypes DEF Timely
  <2>3. CASE pc[f] = "idle"
    BY <2>3, FetchTypes DEF Timely, FirstBudget, Pause
  <2>4. CASE pc[f] = "try"
    <3>1. spent[f] <= Budget(conf[f]) + 30 + 7 * tries[f]
      BY <2>4, FetchTypes DEF Timely, FirstBudget, Pause
    <3>2. QED
      BY <2>2, <3>1, FetchTypes
  <2>5. CASE pc[f] = "ask"
    <3>1. /\ 1 <= per[f] /\ per[f] <= Budget(conf[f]) - began[f]
          /\ spent[f] <= began[f] + 30
      BY <2>5, FetchTypes DEF Timely, FirstBudget
    <3>2. QED
      BY <3>1, FetchTypes
  <2>6. CASE pc[f] \in {"asked", "failed"}
    <3>1. spent[f] <= Budget(conf[f]) + 30
      BY <2>6, FetchTypes DEF Timely, FirstBudget
    <3>2. QED
      BY <3>1, FetchTypes
  <2>7. CASE pc[f] = "read"
    <3>1. spent[f] + cut[f] <= Budget(conf[f]) + 30
      BY <2>7, FetchTypes DEF Timely, FirstBudget
    <3>2. QED
      BY <3>1, FetchTypes
  <2>8. QED
    BY <2>1, <2>3, <2>4, <2>5, <2>6, <2>7 DEF Places
<1>2. QED
  BY <1>1, Invariant, PTL

(* In auto mode a host that speaks HTTP/1.1 or HTTP/2 reliably is served   *)
(* from, whatever fetchProtocolState holds.                                *)
THEOREM ReliableHostServes == Spec => []AutoServes
<1>1. Inv => AutoServes
  BY DEF Inv, Fine, Serving, AutoServes
<1>2. QED
  BY <1>1, Invariant, PTL

(* What fetchProtocolState holds after a success keeps the working         *)
(* protocol first in fetchProtocolPlan, whichever fetches ran meanwhile.   *)
THEOREM WorkingProtocolFirst == Spec => []KnownProtocolFirst
<1>1. Inv => KnownProtocolFirst
  <2> SUFFICES ASSUME Inv, NEW p \in Protocols, reliable, speaks = {p}, preferred # None
               PROVE  Head(fetchProtocolPlan("auto")) = p
    BY DEF KnownProtocolFirst
  <2>1. preferred = p /\ ~avoid[p]
    BY DEF Inv, Known
  <2>2. fetchProtocolPlan("auto") = <<p, Other(p)>>
    BY <2>1 DEF fetchProtocolPlan, Protocols
  <2>3. QED
    BY <2>2
<1>2. QED
  BY <1>1, Invariant, PTL
================================================================================
