--------------------------- MODULE SchedulerProofs ---------------------------
(***************************************************************************)
(* Proofs about Scheduler, for any finite set of targets, any handlers,    *)
(* any capacity of the semaphore and any interval.  Inv is the inductive   *)
(* invariant.                                                              *)
(***************************************************************************)
EXTENDS Scheduler, FiniteSetTheorems, TLAPS

(* Only jobs of the round that runs exist.                                 *)
Rounds == \A j \in Jobs : place[j] # "none" => j[2] = turn /\ round = "running"

(* A goroutine waits for a pull only while it is in CheckNow, and for the  *)
(* pull of its target; one that has a result to save has its time.         *)
Answers ==
  /\ \A a \in asked : place[a[1]] = "pull" /\ a[2] = a[1][1]
  /\ \A g \in Threads : place[g] = "save" => answer[g] # None

(* A job that can still write a result: it has not turned to leave, and    *)
(* its row had an interval when it was loaded.                             *)
CanWrite(j) == place[j] \notin {"none", "leave"} /\ j \notin manual

(* A job without an interval never checks; after a late result no job of   *)
(* the target can write another one.                                       *)
Lateness ==
  /\ \A j \in manual : place[j] \in {"queued", "auto", "batch", "gate", "leave"}
  /\ \A t \in Targets : late[t] <= 1
  /\ \A t \in Targets : late[t] # 0 =>
       row[t] # "auto" /\ ~CanWrite(<<t, 0>>) /\ ~CanWrite(<<t, 1>>)

(* The latest result of a target is no older than the latest of its jobs;  *)
(* a job that checks does so because both were older than the interval.    *)
Ageing ==
  /\ \A t \in Targets : age[t] <= mine[t]
  /\ ~ReadErrors => \A j \in Jobs :
       place[j] \in {"call", "check", "pull", "save"} => mine[j[1]] > Interval

Inv == TypeOK /\ Rounds /\ PlacesBalance /\ Answers /\ Lateness /\ Ageing

-----------------------------------------------------------------------------

(* What goroutines are.                                                    *)
LEMMA ThreadFacts ==
  /\ \A g \in Threads : TargetOf(g) = g[1] /\ g[1] \in Targets
  /\ Jobs \subseteq Threads /\ Requests \subseteq Threads
  /\ \A j \in Jobs : j = <<j[1], j[2]>> /\ j[1] \in Targets /\ j[2] \in {0, 1}
  /\ \A t \in Targets, k \in {0, 1} : <<t, k>> \in Jobs
  /\ \A g \in Threads : Done(g) \in {"leave", "none"}
  /\ \A g \in Jobs : Done(g) = "leave"
BY SchedulerAssumption DEF Threads, Jobs, TargetOf, Done

(* Kinds of targets.                                                       *)
LEMMA TargetFacts ==
  Subscriptions \subseteq Targets /\ SubscriptionLike \subseteq Targets /\ None \notin Targets
BY SchedulerAssumption DEF Targets, SubscriptionLike

(* Ages are numbers.                                                       *)
LEMMA AgeFacts ==
  /\ Interval \in Nat /\ Old = Interval + 1 /\ Old \in Ages /\ 0 \in Ages
  /\ \A a \in Ages : a \in Nat /\ a <= Old /\ a # None
BY SchedulerAssumption DEF Old, Ages

(* There are finitely many jobs.                                           *)
LEMMA JobsFinite == IsFiniteSet(Jobs)
<1>1. IsFiniteSet({0, 1})
  <2>1. IsFiniteSet({0}) BY FS_Singleton
  <2>2. IsFiniteSet({0} \cup {1}) BY ONLY <2>1, FS_AddElement
  <2>3. {0} \cup {1} = {0, 1} OBVIOUS
  <2> QED BY <2>2, <2>3
<1>2. IsFiniteSet(Targets) BY SchedulerAssumption
<1>3. IsFiniteSet(Targets \X {0, 1})
  <2> HIDE DEF Targets
  <2> QED BY <1>1, <1>2, FS_Product
<1> QED BY <1>3 DEF Jobs

(* Ageing keeps ages and their order.                                      *)
LEMMA OlderAges ==
  /\ \A a \in Ages \cup {None} : Older(a) \in Ages \cup {None} /\ (Older(a) = None <=> a = None)
  /\ \A a \in Ages : Older(a) \in Ages /\ a <= Older(a)
  /\ \A a, b \in Ages : a <= b => Older(a) <= Older(b)
BY AgeFacts DEF Older, Ages

-----------------------------------------------------------------------------
(* Type correctness.                                                       *)

LEMMA InitTypes == Init => TypeOK
<1> SUFFICES ASSUME Init PROVE TypeOK OBVIOUS
<1>1. round = "idle" /\ ticked = FALSE /\ turn = 0 /\ busy = {} /\ asked = {} /\ served = {} /\ manual = {}
  BY DEF Init, Pull!Init
<1>2. /\ row \in [Targets -> Rows] /\ used \in [{0, 1} -> Int]
      /\ place \in [Threads -> Places] /\ answer \in [Threads -> Ages \cup {None}]
  BY DEF Init, Rows, Places
<1>3. /\ age \in [Targets -> Ages] /\ fetched \in [Subscriptions -> Ages \cup {None}]
      /\ mine \in [Targets -> Ages] /\ late \in [Targets -> 0 .. 2]
      /\ \A t \in Subscriptions \ busy : fetched[t] = None
  BY AgeFacts DEF Init
<1> QED BY <1>1, <1>2, <1>3 DEF TypeOK

LEMMA TypesStep == TypeOK /\ Answers /\ [Next]_vars => TypeOK'
<1> SUFFICES ASSUME TypeOK, Answers, [Next]_vars PROVE TypeOK' OBVIOUS
<1> USE ThreadFacts, TargetFacts, AgeFacts
<1> USE DEF TypeOK, Places, Rows, Move, rounds, pulls
<1>1. CASE Tick \/ StartRound \/ LoadFails \/ EndRound
  <2>1. CASE Tick BY <2>1 DEF Tick
  <2>2. CASE StartRound
    <3>1. turn' \in {0, 1} /\ round' \in {"idle", "running"} /\ ticked' \in BOOLEAN
      <4>1. turn' = 1 - turn /\ round' = "running" /\ ticked' = FALSE
        BY <2>2 DEF StartRound
      <4>2. 1 - turn \in {0, 1} OBVIOUS
      <4> QED BY <4>1, <4>2, Zenon
    <3>2. used' \in [{0, 1} -> Int] BY <2>2 DEF StartRound
    <3>3. place' \in [Threads -> Places] BY <2>2 DEF StartRound
    <3>4. manual' \subseteq {j \in Jobs : place'[j] # "none"} BY <2>2 DEF StartRound
    <3> QED BY <2>2, <3>1, <3>2, <3>3, <3>4 DEF StartRound
  <2>3. CASE LoadFails BY <2>3 DEF LoadFails
  <2>4. CASE EndRound BY <2>4 DEF EndRound
  <2> QED BY <1>1, <2>1, <2>2, <2>3, <2>4
<1>2. ASSUME NEW j \in Jobs, JobStep(j) PROVE TypeOK'
  <2>1. CASE Acquire(j) BY <2>1 DEF Acquire
  <2>2. CASE MaybeAutoRefresh(j) BY <2>2 DEF MaybeAutoRefresh
  <2>3. CASE BatchEnds(j) BY <2>3 DEF BatchEnds
  <2>4. CASE Gate(j) BY <2>4 DEF Gate
  <2>5. CASE Leave(j) BY <2>5 DEF Leave
  <2> QED BY <1>2, <2>1, <2>2, <2>3, <2>4, <2>5 DEF JobStep
<1>3. ASSUME NEW g \in Threads, CheckStep(g) PROVE TypeOK'
  <2>1. CASE CallFails(g) BY <2>1 DEF CallFails
  <2>2. CASE Call(g) BY <2>2 DEF Call
  <2>3. CASE CallPull(g) BY <2>3 DEF CallPull, Pull!Begin, Pull!Join
  <2>4. CASE CheckEnds(g) BY <2>4 DEF CheckEnds
  <2>5. CASE PullReturns(g) BY <2>5 DEF PullReturns, Pull!Return
  <2>6. CASE Save(g)
    <3>1. answer[g] \in Ages BY <2>6 DEF Save, Answers
    <3>2. age' \in [Targets -> Ages] BY <2>6, <3>1 DEF Save
    <3>3. mine' \in [Targets -> Ages] BY <2>6, <3>1 DEF Save
    <3>4. late' \in [Targets -> 0 .. 2] BY <2>6 DEF Save
    <3>5. answer' \in [Threads -> Ages \cup {None}] BY <2>6 DEF Save
    <3>6. place' \in [Threads -> Places] /\ manual' \subseteq {j \in Jobs : place'[j] # "none"}
      BY <2>6 DEF Save
    <3> QED BY <2>6, <3>2, <3>3, <3>4, <3>5, <3>6 DEF Save
  <2>7. CASE SaveFails(g) BY <2>7 DEF SaveFails
  <2> QED BY <1>3, <2>1, <2>2, <2>3, <2>4, <2>5, <2>6, <2>7 DEF CheckStep
<1>4. ASSUME NEW t \in Subscriptions, PullStep(t) PROVE TypeOK'
  <2>1. CASE Fetched(t) BY <2>1 DEF Fetched
  <2>2. CASE PullEnds(t) BY <2>2 DEF PullEnds, Pull!End
  <2>3. CASE PullFails(t) BY <2>3 DEF PullFails, Pull!End
  <2> QED BY <1>4, <2>1, <2>2, <2>3 DEF PullStep
<1>5. CASE Client
  <2>1. ASSUME NEW r \in Requests, Ask(r) PROVE TypeOK' BY <2>1 DEF Ask, Threads
  <2>2. ASSUME NEW t \in Subscriptions, SummaryPull(t) PROVE TypeOK'
    BY <2>2 DEF SummaryPull, Pull!Begin
  <2>3. ASSUME NEW t \in Targets, Delete(t) PROVE TypeOK' BY <2>3 DEF Delete
  <2>4. ASSUME NEW t \in Targets, NEW r \in {"auto", "manual", "disabled"}, Update(t, r)
        PROVE TypeOK'
    BY <2>4 DEF Update
  <2> QED BY <1>5, <2>1, <2>2, <2>3, <2>4 DEF Client
<1>6. CASE TimePasses BY <1>6, OlderAges DEF TimePasses
<1>7. CASE UNCHANGED vars BY <1>7 DEF vars
<1> QED BY <1>1, <1>2, <1>3, <1>4, <1>5, <1>6, <1>7 DEF Next, Run

-----------------------------------------------------------------------------
(* Rounds do not overlap.                                                  *)

(* A goroutine that runs is somewhere, moves, and does not end a round.    *)
LEMMA RunMoves ==
  ASSUME TypeOK, NEW g \in Threads, Run(g)
  PROVE  /\ UNCHANGED <<turn, round, row>>
         /\ place[g] # "none"
         /\ \E p \in Places : place' = [place EXCEPT ![g] = p]
<1> USE ThreadFacts DEF Places, Move, rounds
<1>1. CASE g \in Jobs /\ JobStep(g)
  BY <1>1 DEF JobStep, Acquire, MaybeAutoRefresh, BatchEnds, Gate, Leave
<1>2. CASE CallFails(g) \/ Call(g) \/ CallPull(g) \/ CheckEnds(g)
  BY <1>2 DEF CallFails, Call, CallPull, CheckEnds
<1>3. CASE PullReturns(g) \/ Save(g) \/ SaveFails(g)
  BY <1>3 DEF PullReturns, Save, SaveFails
<1> QED BY <1>1, <1>2, <1>3 DEF Run, CheckStep

(* What a step does to the places of goroutines.                           *)
LEMMA StepKinds ==
  ASSUME [Next]_vars
  PROVE  \/ StartRound
         \/ EndRound
         \/ \E r \in Requests : Ask(r)
         \/ \E g \in Threads : Run(g)
         \/ UNCHANGED <<turn, round, place, used, manual>>
<1>1. CASE Tick \/ LoadFails \/ TimePasses
  BY <1>1 DEF Tick, LoadFails, TimePasses, rounds
<1>2. ASSUME NEW t \in Subscriptions, PullStep(t)
      PROVE  UNCHANGED <<turn, round, place, used, manual>>
  BY <1>2 DEF PullStep, Fetched, PullEnds, PullFails, rounds
<1>3. CASE Client
  BY <1>3 DEF Client, SummaryPull, Delete, Update, rounds
<1>4. CASE UNCHANGED vars BY <1>4 DEF vars, rounds
<1> QED BY <1>1, <1>2, <1>3, <1>4 DEF Next

LEMMA RoundsStep == TypeOK /\ Rounds /\ [Next]_vars => Rounds'
<1> SUFFICES ASSUME TypeOK, Rounds, [Next]_vars PROVE Rounds' OBVIOUS
<1>1. CASE StartRound
  BY <1>1, ThreadFacts DEF StartRound, Rounds, TypeOK
<1>2. CASE EndRound
  <2>1. \A j \in Jobs : place[j] = "none"
    BY <1>2, ThreadFacts DEF EndRound, Rounds
  <2> QED BY <1>2, <2>1 DEF EndRound, Rounds
<1>3. ASSUME NEW r \in Requests, Ask(r) PROVE Rounds'
  BY <1>3, SchedulerAssumption DEF Ask, Rounds, Move, rounds, TypeOK
<1>4. ASSUME NEW g \in Threads, Run(g) PROVE Rounds'
  BY <1>4, RunMoves, ThreadFacts DEF Rounds, TypeOK
<1>5. CASE UNCHANGED <<turn, round, place, used, manual>>
  BY <1>5 DEF Rounds
<1> QED BY <1>1, <1>2, <1>3, <1>4, <1>5, StepKinds

(* Of the two jobs of a target, one at most exists.                        *)
LEMMA OneJob == TypeOK /\ Rounds => OneJobPerTarget
<1> SUFFICES ASSUME TypeOK, Rounds, NEW t \in Targets,
                    place[<<t, 0>>] # "none", place[<<t, 1>>] # "none"
             PROVE  FALSE
  BY DEF OneJobPerTarget
<1>1. <<t, 0>> \in Jobs /\ <<t, 1>> \in Jobs BY ThreadFacts
<1>2. <<t, 0>>[2] = turn /\ <<t, 1>>[2] = turn BY <1>1 DEF Rounds
<1> QED BY <1>2

-----------------------------------------------------------------------------
(* Places of the semaphore.                                                *)

LEMMA PlacesStep == TypeOK /\ Rounds /\ PlacesBalance /\ [Next]_vars => PlacesBalance'
<1> SUFFICES ASSUME TypeOK, Rounds, PlacesBalance, [Next]_vars PROVE PlacesBalance' OBVIOUS
<1>0. \A k \in {0, 1} : IsFiniteSet(Working(k))
  <2> SUFFICES ASSUME NEW k \in {0, 1} PROVE IsFiniteSet(Working(k)) OBVIOUS
  <2>1. Working(k) \in SUBSET Jobs BY DEF Working
  <2> QED BY <2>1, JobsFinite, FS_Subset
<1> DEFINE Same == UNCHANGED used /\ \A k \in {0, 1} : Working(k)' = Working(k)
<1>1. Same => PlacesBalance'
  BY DEF PlacesBalance
<1>2. ASSUME NEW g \in Threads, NEW p \in Places, place' = [place EXCEPT ![g] = p],
             UNCHANGED used,
             g \in Jobs => (place[g] \in {"none", "queued"} <=> p \in {"none", "queued"})
      PROVE  Same
  BY <1>2, ThreadFacts DEF Working, TypeOK
<1>3. CASE StartRound
  <2>1. used' = [used EXCEPT ![turn'] = 0] BY <1>3 DEF StartRound
  <2>2. \A j \in Jobs : place[j] = "none" BY <1>3 DEF StartRound, Rounds
  <2>3. \A j \in Jobs : place'[j] \in {"none", "queued"}
    BY <1>3, <2>2, ThreadFacts DEF StartRound
  <2>4. \A k \in {0, 1} : Working(k)' = {} /\ Working(k) = {}
    BY <2>2, <2>3 DEF Working
  <2>5. Cardinality({}) = 0 BY FS_EmptySet
  <2>6. \A k \in {0, 1} : used'[k] = 0
    BY <2>1, <2>4, <2>5 DEF PlacesBalance, TypeOK
  <2>7. 0 <= Concurrency BY SchedulerAssumption
  <2> QED BY <2>4, <2>5, <2>6, <2>7 DEF PlacesBalance
<1>4. CASE EndRound
  BY <1>4, <1>1 DEF EndRound, Working
<1>5. ASSUME NEW r \in Requests, Ask(r) PROVE PlacesBalance'
  <2>1. r \in Threads /\ r \notin Jobs BY SchedulerAssumption DEF Threads
  <2>2. place' = [place EXCEPT ![r] = "call"] /\ UNCHANGED used
    BY <1>5 DEF Ask, Move
  <2> QED BY <1>1, <1>2, <2>1, <2>2 DEF Places
<1>6. ASSUME NEW j \in Jobs, Acquire(j) PROVE PlacesBalance'
  <2> DEFINE k == j[2]
  <2>1. k \in {0, 1} /\ j \in Threads BY ThreadFacts
  <2>2. /\ place[j] = "queued" /\ used[k] < Concurrency
        /\ used' = [used EXCEPT ![k] = @ + 1]
    BY <1>6 DEF Acquire
  <2>3. PICK p \in {"leave", "gate", "auto"} : place' = [place EXCEPT ![j] = p]
    <3>1. Move(j, "leave") \/ Move(j, "gate") \/ Move(j, "auto") BY <1>6 DEF Acquire
    <3> QED BY <3>1 DEF Move
  <2>4. Working(k)' = Working(k) \cup {j} /\ j \notin Working(k)
    BY <2>1, <2>2, <2>3, ThreadFacts DEF Working, TypeOK
  <2>5. \A i \in {0, 1} \ {k} : Working(i)' = Working(i) /\ used'[i] = used[i]
    BY <2>1, <2>2, <2>3, ThreadFacts DEF Working, TypeOK
  <2>6. Cardinality(Working(k)') = Cardinality(Working(k)) + 1
    <3>1. IsFiniteSet(Working(k)) BY <1>0, <2>1
    <3>2. Cardinality(Working(k) \cup {j}) = Cardinality(Working(k)) + 1
      <4> HIDE DEF k
      <4> QED BY <2>4, <3>1, FS_AddElement
    <3> QED BY <2>4, <3>2
  <2>7. used'[k] = used[k] + 1 /\ used[k] \in Int BY <2>1, <2>2 DEF TypeOK
  <2>8. used'[k] <= Concurrency BY <2>2, <2>7, SchedulerAssumption
  <2> QED BY <2>1, <2>5, <2>6, <2>7, <2>8 DEF PlacesBalance
<1>7. ASSUME NEW j \in Jobs, Leave(j) PROVE PlacesBalance'
  <2> DEFINE k == j[2]
  <2>1. k \in {0, 1} /\ j \in Threads BY ThreadFacts
  <2>2. /\ place[j] = "leave" /\ place' = [place EXCEPT ![j] = "none"]
        /\ used' = [used EXCEPT ![k] = @ - 1]
    BY <1>7 DEF Leave, Move
  <2>3. Working(k)' = Working(k) \ {j} /\ j \in Working(k)
    BY <2>1, <2>2, ThreadFacts DEF Working, TypeOK
  <2>4. \A i \in {0, 1} \ {k} : Working(i)' = Working(i) /\ used'[i] = used[i]
    BY <2>1, <2>2, ThreadFacts DEF Working, TypeOK
  <2>5. Cardinality(Working(k)') = Cardinality(Working(k)) - 1
    BY <1>0, <2>1, <2>3, FS_RemoveElement
  <2>6. used'[k] = used[k] - 1 /\ used[k] \in Int BY <2>1, <2>2 DEF TypeOK
  <2>7. used'[k] <= Concurrency BY <2>1, <2>6, SchedulerAssumption DEF PlacesBalance
  <2> QED BY <2>1, <2>4, <2>5, <2>6, <2>7 DEF PlacesBalance
<1>8. ASSUME NEW g \in Threads, Run(g), ~(g \in Jobs /\ (Acquire(g) \/ Leave(g)))
      PROVE  PlacesBalance'
  <2>1. UNCHANGED used
    BY <1>8 DEF Run, JobStep, CheckStep, MaybeAutoRefresh, BatchEnds, Gate, CallFails, Call,
                CallPull, CheckEnds, PullReturns, Save, SaveFails
  <2>2. \E p \in Places : /\ place' = [place EXCEPT ![g] = p]
                          /\ g \in Jobs => place[g] \notin {"none", "queued"} /\ p \notin {"none", "queued"}
    <3> USE ThreadFacts DEF Places, Move
    <3>1. CASE g \in Jobs /\ (MaybeAutoRefresh(g) \/ BatchEnds(g) \/ Gate(g))
      BY <3>1 DEF MaybeAutoRefresh, BatchEnds, Gate
    <3>2. CASE CallFails(g) \/ Call(g) \/ CallPull(g) \/ CheckEnds(g)
      BY <3>2 DEF CallFails, Call, CallPull, CheckEnds
    <3>3. CASE PullReturns(g) \/ Save(g) \/ SaveFails(g)
      BY <3>3 DEF PullReturns, Save, SaveFails
    <3> QED BY <1>8, <3>1, <3>2, <3>3 DEF Run, JobStep, CheckStep
  <2> QED BY <1>1, <1>2, <2>1, <2>2
<1>9. CASE UNCHANGED <<turn, round, place, used, manual>>
  BY <1>9, <1>1 DEF Working
<1> QED BY <1>3, <1>4, <1>5, <1>6, <1>7, <1>8, <1>9, StepKinds

-----------------------------------------------------------------------------
(* Answers.                                                                *)

LEMMA AnswersStep == TypeOK /\ Rounds /\ Answers /\ [Next]_vars => Answers'
<1> SUFFICES ASSUME TypeOK, Rounds, Answers, [Next]_vars PROVE Answers' OBVIOUS
<1> USE ThreadFacts
<1>1. CASE StartRound
  <2>1. \A j \in Jobs : place[j] = "none" BY <1>1 DEF StartRound, Rounds
  <2>2. UNCHANGED <<asked, answer>> BY <1>1 DEF StartRound, pulls
  <2>3. \A g \in Threads : place'[g] = place[g] \/ (place[g] = "none" /\ place'[g] = "queued")
    BY <1>1, <2>1 DEF StartRound
  <2>4. \A a \in asked : a[1] \in Threads BY DEF TypeOK
  <2> QED BY <2>2, <2>3, <2>4 DEF Answers
<1>2. CASE Tick \/ LoadFails \/ EndRound
  BY <1>2 DEF Tick, LoadFails, EndRound, Answers, pulls
<1>3. ASSUME NEW j \in Jobs, JobStep(j) PROVE Answers'
  <2>1. UNCHANGED <<asked, answer>> /\ place[j] \notin {"pull", "save"}
    BY <1>3 DEF JobStep, Acquire, MaybeAutoRefresh, BatchEnds, Gate, Leave, pulls
  <2>2. \E p \in Places \ {"pull", "save"} : place' = [place EXCEPT ![j] = p]
    BY <1>3 DEF JobStep, Acquire, MaybeAutoRefresh, BatchEnds, Gate, Leave, Move, Places
  <2> QED BY <2>1, <2>2 DEF Answers, TypeOK
<1>4. ASSUME NEW g \in Threads, CheckStep(g) PROVE Answers'
  <2> USE DEF Answers, TypeOK, Move, pulls
  <2>1. CASE CallFails(g) BY <2>1 DEF CallFails
  <2>2. CASE Call(g) BY <2>2 DEF Call
  <2>3. CASE CallPull(g) BY <2>3 DEF CallPull
  <2>4. CASE CheckEnds(g) BY <2>4, AgeFacts DEF CheckEnds
  <2>5. CASE PullReturns(g) BY <2>5 DEF PullReturns, Pull!Return
  <2>6. CASE Save(g) BY <2>6 DEF Save
  <2>7. CASE SaveFails(g) BY <2>7 DEF SaveFails
  <2> QED BY <1>4, <2>1, <2>2, <2>3, <2>4, <2>5, <2>6, <2>7 DEF CheckStep
<1>5. ASSUME NEW t \in Subscriptions, PullStep(t) PROVE Answers'
  <2>1. CASE Fetched(t) \/ PullFails(t)
    BY <2>1 DEF Fetched, PullFails, Pull!End, Answers
  <2>2. CASE PullEnds(t)
    <3>1. UNCHANGED <<place, asked>> BY <2>2 DEF PullEnds, Pull!End
    <3>2. \A g \in Threads : answer'[g] = answer[g] \/ <<g, t>> \in asked
      BY <2>2 DEF PullEnds
    <3>3. \A g \in Threads : <<g, t>> \in asked => place[g] = "pull" BY DEF Answers
    <3> QED BY <3>1, <3>2, <3>3 DEF Answers
  <2> QED BY <1>5, <2>1, <2>2 DEF PullStep
<1>6. CASE Client
  <2>1. ASSUME NEW r \in Requests, Ask(r) PROVE Answers'
    BY <2>1 DEF Ask, Answers, Move, TypeOK, pulls
  <2> QED BY <1>6, <2>1 DEF Client, SummaryPull, Delete, Update, Answers, pulls
<1>7. CASE TimePasses
  BY <1>7, OlderAges DEF TimePasses, Answers, TypeOK
<1>8. CASE UNCHANGED vars BY <1>8 DEF vars, pulls, Answers
<1> QED BY <1>1, <1>2, <1>3, <1>4, <1>5, <1>6, <1>7, <1>8 DEF Next, Run

-----------------------------------------------------------------------------
(* Late results.                                                           *)

LEMMA LatenessStep == TypeOK /\ Rounds /\ Lateness /\ [Next]_vars => Lateness'
<1> SUFFICES ASSUME TypeOK, Rounds, Lateness, [Next]_vars PROVE Lateness' OBVIOUS
<1> USE ThreadFacts
<1>1. CASE StartRound
  <2>1. \A j \in Jobs : place[j] = "none" BY <1>1 DEF StartRound, Rounds
  <2>2. manual = {} BY <2>1 DEF TypeOK
  <2>3. \A j \in manual' : place'[j] = "queued"
    BY <1>1, <2>2 DEF StartRound
  <2>4. \A j \in Jobs : CanWrite(j)' => row[j[1]] = "auto"
    BY <1>1, <2>1 DEF StartRound, CanWrite, TypeOK
  <2> QED BY <1>1, <2>3, <2>4 DEF StartRound, Lateness
<1>2. CASE Tick \/ LoadFails \/ EndRound \/ UNCHANGED vars
  BY <1>2 DEF Tick, LoadFails, EndRound, vars, rounds, Lateness, CanWrite
<1>3. ASSUME NEW j \in Jobs, JobStep(j) PROVE Lateness'
  <2>1. UNCHANGED <<late, row>> /\ manual' \subseteq manual
    BY <1>3 DEF JobStep, Acquire, MaybeAutoRefresh, BatchEnds, Gate, Leave
  <2>2. \A i \in Jobs : CanWrite(i)' => CanWrite(i)
    BY <1>3 DEF JobStep, Acquire, MaybeAutoRefresh, BatchEnds, Gate, Leave, Move, CanWrite, TypeOK
  <2>3. \A i \in manual' : place'[i] \in {"queued", "auto", "batch", "gate", "leave"}
    BY <1>3 DEF JobStep, Acquire, MaybeAutoRefresh, BatchEnds, Gate, shouldRunTargetNow, Leave,
                Move, Lateness, TypeOK
  <2> QED BY <2>1, <2>2, <2>3 DEF Lateness
<1>4. ASSUME NEW g \in Threads, CheckStep(g) PROVE Lateness'
  <2>1. UNCHANGED <<row, manual>> /\ place[g] \in {"call", "check", "pull", "save"}
    BY <1>4 DEF CheckStep, CallFails, Call, CallPull, CheckEnds, PullReturns, Save, SaveFails
  <2>2. PICK p \in Places : place' = [place EXCEPT ![g] = p]
    BY <1>4, RunMoves DEF Run
  <2>3. g \notin manual BY <2>1 DEF Lateness
  <2>4. \A i \in Jobs : CanWrite(i)' => CanWrite(i)
    BY <2>1, <2>2, <2>3 DEF CanWrite, TypeOK
  <2>5. \A i \in manual' : place'[i] \in {"queued", "auto", "batch", "gate", "leave"}
    BY <2>1, <2>2, <2>3 DEF Lateness, TypeOK
  <2>6. CASE UNCHANGED late BY <2>1, <2>4, <2>5, <2>6 DEF Lateness
  <2>7. CASE late' # late
    <3> DEFINE t == g[1]
    <3>1. /\ g \in Jobs /\ row[t] # "auto" /\ place[g] = "save"
          /\ late' = [late EXCEPT ![t] = @ + 1]
          /\ place' = [place EXCEPT ![g] = "leave"]
      BY <1>4, <2>7 DEF CheckStep, CallFails, Call, CallPull, CheckEnds, PullReturns, Save,
                        SaveFails, Move
    <3>2. CanWrite(g) BY <2>3, <3>1 DEF CanWrite
    <3>3. t \in Targets /\ (g = <<t, 0>> \/ g = <<t, 1>>) BY <3>1
    <3>4. late[t] = 0 BY <3>2, <3>3 DEF Lateness
    <3>5. \A i \in Jobs : i[1] = t => ~CanWrite(i)'
      BY <2>1, <3>1 DEF CanWrite, Rounds, TypeOK
    <3> QED BY <2>1, <2>4, <2>5, <3>1, <3>3, <3>4, <3>5 DEF Lateness, TypeOK
  <2> QED BY <2>6, <2>7
<1>5. ASSUME NEW t \in Subscriptions, PullStep(t) PROVE Lateness'
  BY <1>5 DEF PullStep, Fetched, PullEnds, PullFails, Lateness, CanWrite
<1>6. CASE Client
  <2>1. ASSUME NEW r \in Requests, Ask(r) PROVE Lateness'
    <3>1. r \notin Jobs /\ r \in Threads BY SchedulerAssumption
    <3>2. UNCHANGED <<late, row, manual>> /\ place' = [place EXCEPT ![r] = "call"]
      BY <2>1 DEF Ask, Move
    <3>3. \A j \in Jobs : place'[j] = place[j] BY <3>1, <3>2 DEF TypeOK
    <3> QED BY <3>2, <3>3 DEF Lateness, CanWrite, TypeOK
  <2>2. ASSUME NEW t \in Subscriptions, SummaryPull(t) PROVE Lateness'
    BY <2>2 DEF SummaryPull, Lateness, CanWrite
  <2>3. ASSUME NEW t \in Targets, Delete(t) PROVE Lateness'
    BY <2>3 DEF Delete, Lateness, CanWrite, TypeOK
  <2>4. ASSUME NEW t \in Targets, NEW r \in {"auto", "manual", "disabled"}, Update(t, r)
        PROVE Lateness'
    BY <2>4 DEF Update, Lateness, CanWrite, TypeOK
  <2> QED BY <1>6, <2>1, <2>2, <2>3, <2>4 DEF Client
<1>7. CASE TimePasses BY <1>7 DEF TimePasses, Lateness, CanWrite
<1> QED BY <1>1, <1>2, <1>3, <1>4, <1>5, <1>6, <1>7 DEF Next, Run

-----------------------------------------------------------------------------
(* Ages.                                                                   *)

LEMMA AgeingStep ==
  TypeOK /\ Rounds /\ Answers /\ Ageing /\ [Next]_vars => Ageing'
<1> SUFFICES ASSUME TypeOK, Rounds, Answers, Ageing, [Next]_vars PROVE Ageing' OBVIOUS
<1> DEFINE Checks(j) == place[j] \in {"call", "check", "pull", "save"}
<1> USE ThreadFacts, AgeFacts
<1>0. ASSUME UNCHANGED <<age, mine>>,
             ~ReadErrors => \A j \in Jobs : Checks(j)' => Checks(j) \/ age[j[1]] > Interval
      PROVE  Ageing'
  BY <1>0 DEF Ageing, TypeOK
<1>1. CASE StartRound
  <2>1. \A j \in Jobs : Checks(j)' => Checks(j)
    BY <1>1 DEF StartRound
  <2> QED BY <1>0, <1>1, <2>1 DEF StartRound
<1>2. CASE Tick \/ LoadFails \/ EndRound \/ UNCHANGED vars
  BY <1>0, <1>2 DEF Tick, LoadFails, EndRound, vars
<1>3. ASSUME NEW j \in Jobs, JobStep(j) PROVE Ageing'
  <2>1. UNCHANGED <<age, mine>>
    BY <1>3 DEF JobStep, Acquire, MaybeAutoRefresh, BatchEnds, Gate, Leave
  <2>2. CASE Gate(j)
    <3>1. ~ReadErrors => place' = [place EXCEPT ![j] = "leave"] \/ age[j[1]] > Interval
      BY <2>2 DEF Gate, Move, shouldRunTargetNow
    <3>2. \E p \in Places : place' = [place EXCEPT ![j] = p] BY <1>3, RunMoves DEF Run
    <3> QED BY <1>0, <2>1, <3>1, <3>2 DEF TypeOK
  <2>3. CASE ~Gate(j)
    <3>1. \E p \in Places \ {"call", "check", "pull", "save"} : place' = [place EXCEPT ![j] = p]
      BY <1>3, <2>3 DEF JobStep, Acquire, MaybeAutoRefresh, BatchEnds, Leave, Move, Places
    <3> QED BY <1>0, <2>1, <3>1 DEF TypeOK
  <2> QED BY <2>2, <2>3
<1>4. ASSUME NEW g \in Threads, CheckStep(g) PROVE Ageing'
  <2>1. place[g] \in {"call", "check", "pull", "save"}
    BY <1>4 DEF CheckStep, CallFails, Call, CallPull, CheckEnds, PullReturns, Save, SaveFails
  <2>2. PICK p \in Places : place' = [place EXCEPT ![g] = p]
    BY <1>4, RunMoves DEF Run
  <2>3. \A j \in Jobs : Checks(j)' => Checks(j) BY <2>1, <2>2 DEF TypeOK
  <2>4. CASE Save(g)
    <3> DEFINE t == g[1]
    <3>1. t \in Targets /\ answer[g] \in Ages BY <2>4 DEF Save, Answers, TypeOK
    <3>2. /\ place' = [place EXCEPT ![g] = Done(g)]
          /\ age' = [age EXCEPT ![t] = IF answer[g] < @ THEN answer[g] ELSE @]
          /\ mine' = IF g \in Jobs THEN [mine EXCEPT ![t] = answer[g]] ELSE mine
      BY <2>4 DEF Save, Move
    <3>3. \A u \in Targets : age'[u] <= mine'[u]
      BY <3>1, <3>2 DEF Ageing, TypeOK
    <3>4. ASSUME ~ReadErrors, NEW j \in Jobs, Checks(j)' PROVE mine'[j[1]] > Interval
      <4>1. mine[j[1]] > Interval BY <2>3, <3>4 DEF Ageing
      <4>2. CASE g \notin Jobs BY <3>2, <4>1, <4>2
      <4>3. CASE g \in Jobs
        <5>1. j # g BY <3>2, <3>4, <4>3 DEF TypeOK
        <5>2. place[j] # "none" /\ place[g] # "none" BY <2>1, <2>3, <3>4
        <5>3. j[2] = g[2] BY <4>3, <5>2 DEF Rounds
        <5>4. j[1] # g[1] BY <4>3, <5>1, <5>3
        <5> QED BY <3>1, <3>2, <4>1, <5>4 DEF TypeOK
      <4> QED BY <4>2, <4>3
    <3> QED BY <3>3, <3>4 DEF Ageing
  <2>5. CASE ~Save(g)
    <3>1. UNCHANGED <<age, mine>>
      BY <1>4, <2>5 DEF CheckStep, CallFails, Call, CallPull, CheckEnds, PullReturns, SaveFails
    <3> QED BY <1>0, <2>3, <3>1
  <2> QED BY <2>4, <2>5
<1>5. ASSUME NEW t \in Subscriptions, PullStep(t) PROVE Ageing'
  BY <1>0, <1>5 DEF PullStep, Fetched, PullEnds, PullFails
<1>6. CASE Client
  <2>1. ASSUME NEW r \in Requests, Ask(r) PROVE Ageing'
    <3>1. r \notin Jobs /\ r \in Threads BY SchedulerAssumption
    <3>2. UNCHANGED <<age, mine>> /\ place' = [place EXCEPT ![r] = "call"]
      BY <2>1 DEF Ask, Move
    <3>3. \A j \in Jobs : place'[j] = place[j] BY <3>1, <3>2 DEF TypeOK
    <3> QED BY <1>0, <3>2, <3>3
  <2> QED BY <1>0, <1>6, <2>1 DEF Client, SummaryPull, Delete, Update
<1>7. CASE TimePasses
  <2>1. \A t \in Targets : age'[t] <= mine'[t] /\ mine[t] <= mine'[t] /\ mine'[t] \in Ages
    BY <1>7, OlderAges DEF TimePasses, Ageing, TypeOK
  <2>2. place' = place BY <1>7 DEF TimePasses
  <2> QED BY <2>1, <2>2 DEF Ageing, TypeOK
<1> QED BY <1>1, <1>2, <1>3, <1>4, <1>5, <1>6, <1>7 DEF Next, Run

-----------------------------------------------------------------------------
(* The invariant, and what follows from it.                                *)

LEMMA InitInv == Init => Inv
<1> SUFFICES ASSUME Init PROVE Inv OBVIOUS
<1>1. TypeOK BY InitTypes
<1>2. \A g \in Threads : place[g] = "none" BY DEF Init
<1>3. Rounds /\ Answers
  BY <1>2, ThreadFacts DEF Init, Pull!Init, Rounds, Answers
<1>4. Lateness BY DEF Init, Lateness
<1>5. Ageing BY <1>2, ThreadFacts, AgeFacts DEF Init, Ageing
<1>6. PlacesBalance
  <2>1. \A k \in {0, 1} : Working(k) = {} BY <1>2, ThreadFacts DEF Working
  <2>2. Cardinality({}) = 0 BY FS_EmptySet
  <2>3. \A k \in {0, 1} : used[k] = 0 BY DEF Init
  <2>4. 0 <= Concurrency BY SchedulerAssumption
  <2> QED BY <2>1, <2>2, <2>3, <2>4 DEF PlacesBalance
<1> QED BY <1>1, <1>3, <1>4, <1>5, <1>6 DEF Inv

LEMMA Invariance == Spec => []Inv
<1>1. Inv /\ [Next]_vars => Inv'
  BY TypesStep, RoundsStep, PlacesStep, AnswersStep, LatenessStep, AgeingStep DEF Inv
<1> QED BY InitInv, <1>1, PTL DEF Spec

(* The variables keep their types.                                         *)
THEOREM TypeCorrect == Spec => []TypeOK
<1>1. Inv => TypeOK BY DEF Inv
<1> QED BY Invariance, <1>1, PTL

(* runOnce: on every way out a job gives its place of the semaphore back   *)
(* exactly once, and no more jobs are at work than it has places.          *)
THEOREM PlacesAlwaysBalance == Spec => []PlacesBalance
<1>1. Inv => PlacesBalance BY DEF Inv
<1> QED BY Invariance, <1>1, PTL

(* Start waits for a round: no target ever has two jobs.                   *)
THEOREM NeverTwoJobs == Spec => []OneJobPerTarget
<1>1. Inv => OneJobPerTarget BY OneJob DEF Inv
<1> QED BY Invariance, <1>1, PTL

(* A target that was disabled, deleted or left without an interval gets at *)
(* most one more result from the scheduler.                                *)
THEOREM NeverTwoLate == Spec => []AtMostOneLate
<1>1. Inv => AtMostOneLate BY DEF Inv, Lateness, AtMostOneLate
<1> QED BY Invariance, <1>1, PTL

(* When the results can be read, two results of a target by the scheduler  *)
(* are more than the interval apart, whatever clients ask for.             *)
THEOREM AlwaysSpaced == ASSUME ~ReadErrors PROVE Spec => Spaced
<1>1. Inv /\ [Next]_vars => [\A j \in Jobs : Save(j) => mine[j[1]] > Interval]_vars
  BY ~ReadErrors DEF Inv, Ageing, Save
<1> QED BY Invariance, <1>1, PTL DEF Spec, Spaced

-----------------------------------------------------------------------------
(* The pulls.                                                              *)

(* What a step does to the pulls and to those that wait for them.          *)
LEMMA PullKinds ==
  ASSUME TypeOK, [Next]_vars
  PROVE  \/ \E g \in Threads : CallPull(g) \/ PullReturns(g)
         \/ \E t \in Subscriptions :
              UNCHANGED place /\ (Pull!End(t) \/ (Pull!Begin(t) /\ UNCHANGED asked))
         \/ /\ UNCHANGED <<busy, asked, served>>
            /\ \A g \in Threads : place'[g] = "pull" => place[g] = "pull"
<1> DEFINE Still == /\ UNCHANGED <<busy, asked, served>>
                    /\ \A g \in Threads : place'[g] = "pull" => place[g] = "pull"
<1> USE ThreadFacts DEF pulls, Move
<1>1. CASE Tick \/ LoadFails \/ EndRound \/ TimePasses \/ UNCHANGED vars
  <2>1. Still BY <1>1 DEF Tick, LoadFails, EndRound, TimePasses, vars
  <2> QED BY <2>1
<1>2. CASE StartRound
  <2>1. Still BY <1>2 DEF StartRound
  <2> QED BY <2>1
<1>3. ASSUME NEW j \in Jobs, JobStep(j) PROVE Still
  BY <1>3 DEF JobStep, Acquire, MaybeAutoRefresh, BatchEnds, Gate, Leave, TypeOK
<1>4. ASSUME NEW g \in Threads, CheckStep(g), ~CallPull(g), ~PullReturns(g) PROVE Still
  <2> USE <1>4 DEF TypeOK
  <2>1. CASE CallFails(g) \/ Call(g) BY <2>1 DEF CallFails, Call
  <2>2. CASE CheckEnds(g) BY <2>2 DEF CheckEnds
  <2>3. CASE Save(g) \/ SaveFails(g) BY <2>3 DEF Save, SaveFails
  <2> QED BY <2>1, <2>2, <2>3 DEF CheckStep
<1>5. ASSUME NEW t \in Subscriptions, PullStep(t) PROVE Still \/ (UNCHANGED place /\ Pull!End(t))
  BY <1>5 DEF PullStep, Fetched, PullEnds, PullFails
<1>6. ASSUME NEW t \in Subscriptions, SummaryPull(t)
      PROVE  UNCHANGED place /\ Pull!Begin(t) /\ UNCHANGED asked
  BY <1>6 DEF SummaryPull
<1>7. ASSUME NEW r \in Requests, Ask(r) PROVE Still
  BY <1>7 DEF Ask, TypeOK
<1>8. ASSUME NEW t \in Targets, Delete(t) \/ \E r \in {"auto", "manual", "disabled"} : Update(t, r)
      PROVE  Still
  BY <1>8 DEF Delete, Update
<1> HIDE DEF Still
<1>9. \/ Still
      \/ \E g \in Threads : CallPull(g) \/ PullReturns(g)
      \/ \E t \in Subscriptions :
           UNCHANGED place /\ (Pull!End(t) \/ (Pull!Begin(t) /\ UNCHANGED asked))
  <2>1. CASE \E g \in Threads : Run(g) BY <2>1, <1>3, <1>4 DEF Run
  <2>2. CASE \E t \in Subscriptions : PullStep(t) BY <2>2, <1>5
  <2>3. CASE Client BY <2>3, <1>6, <1>7, <1>8 DEF Client
  <2> QED BY <1>1, <1>2, <2>1, <2>2, <2>3 DEF Next, Still
<1> QED BY <1>9 DEF Still

(* Scheduler implements SharedPull.                                        *)
LEMMA SharesStep == TypeOK /\ [Next]_vars => [Pull!Next]_<<busy, asked, served>>
<1> SUFFICES ASSUME TypeOK, [Next]_vars PROVE [Pull!Next]_<<busy, asked, served>> OBVIOUS
<1>1. ASSUME NEW g \in Threads, CallPull(g) PROVE Pull!Next
  <2>1. TargetOf(g) \in Subscriptions /\ (Pull!Begin(TargetOf(g)) \/ Pull!Join(g, TargetOf(g)))
    BY <1>1 DEF CallPull
  <2> QED BY <2>1 DEF Pull!Next
<1>2. ASSUME NEW g \in Threads, PullReturns(g) PROVE Pull!Next
  <2>1. Pull!Return(g, TargetOf(g)) BY <1>2 DEF PullReturns
  <2>2. TargetOf(g) \in Subscriptions
    <3>1. <<g, TargetOf(g)>> \in served BY <2>1 DEF Pull!Return
    <3> QED BY <3>1 DEF TypeOK
  <2> QED BY <2>1, <2>2 DEF Pull!Next
<1>3. CASE \E t \in Subscriptions : Pull!End(t) \/ Pull!Begin(t)
  BY <1>3 DEF Pull!Next
<1> QED BY <1>1, <1>2, <1>3, PullKinds

(* The pulls of jobs, handlers and the summary keep what SharedPull says,  *)
(* which Singleflight implements.                                          *)
THEOREM PullsAreShared == Spec => SharesPulls
<1>1. Init => Pull!Init BY DEF Init
<1>2. Inv /\ [Next]_vars => [Pull!Next]_<<busy, asked, served>> BY SharesStep DEF Inv
<1> QED BY Invariance, <1>1, <1>2, PTL DEF Spec, SharesPulls, Pull!Spec

(* Nobody waits for a pull that is not there: who is in one has asked for  *)
(* it, and one that has not ended is under way.                            *)
Waits ==
  /\ \A g \in Threads : place[g] = "pull" => <<g, TargetOf(g)>> \in asked
  /\ \A a \in asked \ served : a[2] \in busy

LEMMA WaitsStep == TypeOK /\ Waits /\ [Next]_vars => Waits'
<1> SUFFICES ASSUME TypeOK, Waits, [Next]_vars PROVE Waits' OBVIOUS
<1> USE ThreadFacts DEF Waits
<1>1. ASSUME NEW g \in Threads, CallPull(g) PROVE Waits'
  <2> DEFINE t == TargetOf(g)
  <2>1. /\ place' = [place EXCEPT ![g] = "pull"] /\ asked' = asked \cup {<<g, t>>}
        /\ served' = served /\ busy \subseteq busy' /\ t \in busy'
    BY <1>1 DEF CallPull, Move, Pull!Begin, Pull!Join
  <2>2. \A h \in Threads : place'[h] = "pull" => h = g \/ place[h] = "pull"
    BY <2>1 DEF TypeOK
  <2>3. <<g, t>>[2] = t OBVIOUS
  <2> HIDE DEF t
  <2>4. \A a \in asked' \ served' : a[2] \in busy' BY <2>1, <2>3
  <2>5. \A h \in Threads : place'[h] = "pull" => <<h, TargetOf(h)>> \in asked'
    BY <2>1, <2>2 DEF t
  <2> QED BY <2>4, <2>5
<1>2. ASSUME NEW g \in Threads, PullReturns(g) PROVE Waits'
  <2>1. /\ place' = [place EXCEPT ![g] = IF answer[g] = None THEN Done(g) ELSE "save"]
        /\ asked' = asked \ {<<g, TargetOf(g)>>} /\ served' = served \ {<<g, TargetOf(g)>>}
        /\ busy' = busy
    BY <1>2 DEF PullReturns, Move, Pull!Return
  <2>2. \A h \in Threads : place'[h] = "pull" => h # g /\ place[h] = "pull"
    BY <2>1 DEF TypeOK
  <2>3. \A h \in Threads : place'[h] = "pull" => <<h, TargetOf(h)>> \in asked'
    BY <2>1, <2>2
  <2> QED BY <2>1, <2>3
<1>3. ASSUME NEW t \in Subscriptions, UNCHANGED place,
             Pull!End(t) \/ (Pull!Begin(t) /\ UNCHANGED asked)
      PROVE  Waits'
  BY <1>3 DEF Pull!End, Pull!Begin
<1>4. CASE /\ UNCHANGED <<busy, asked, served>>
           /\ \A g \in Threads : place'[g] = "pull" => place[g] = "pull"
  BY <1>4
<1> QED BY <1>1, <1>2, <1>3, <1>4, PullKinds

(* Who waits for a pull waits for one that is under way or has ended, and  *)
(* a job that waits for a place waits for a job at work: no round blocks   *)
(* itself, for any targets, handlers and capacity.                         *)
THEOREM NobodyEverStuck == Spec => []NobodyStuck
<1>1. Init => Waits
  <2>1. Init => \A g \in Threads : place[g] = "none" BY DEF Init
  <2> QED BY <2>1 DEF Init, Pull!Init, Waits
<1>2. Inv /\ Waits /\ [Next]_vars => Waits' BY WaitsStep DEF Inv
<1>3. Inv /\ Waits => NobodyStuck
  <2> SUFFICES ASSUME Inv, Waits PROVE NobodyStuck OBVIOUS
  <2>1. \A g \in Threads : place[g] = "pull" =>
          <<g, TargetOf(g)>> \in served \/ TargetOf(g) \in busy
    BY DEF Waits
  <2>2. ASSUME NEW j \in Jobs, used[j[2]] >= Concurrency PROVE Working(j[2]) # {}
    <3>1. j[2] \in {0, 1} /\ used[j[2]] = Cardinality(Working(j[2]))
      BY ThreadFacts DEF Inv, PlacesBalance
    <3>2. Cardinality({}) = 0 BY FS_EmptySet
    <3>3. used[j[2]] \in Int /\ used[j[2]] # 0
      BY <2>2, <3>1, SchedulerAssumption DEF Inv, TypeOK
    <3> QED BY <3>1, <3>2, <3>3
  <2> QED BY <2>1, <2>2 DEF NobodyStuck
<1> QED BY Invariance, <1>1, <1>2, <1>3, PTL DEF Spec
=============================================================================
