------------------------------ MODULE Scheduler ------------------------------
(***************************************************************************)
(* The scheduler (server/internal/scheduler/scheduler.go), CheckNow and    *)
(* the handlers that call it or start a pull                               *)
(* (server/internal/service/target_service.go).                            *)
(*                                                                         *)
(* Every round starts a goroutine, a job, for each enabled target; Start   *)
(* waits for all of them before it looks at its ticker again.  Pulls of    *)
(* subscriptions are shared as SharedPull says, which Singleflight         *)
(* implements.  What pulls and latency batches do to the nodes is in       *)
(* NodeStore; here they take time, and may fail.                           *)
(*                                                                         *)
(* Time is relative: of each result only its age is kept, up to the first  *)
(* one that counts as more than the interval of the target.                *)
(***************************************************************************)
EXTENDS Integers, FiniteSets

CONSTANTS
  Sites,          (* targets whose check is one call of a checker       *)
  Unknown,        (* those of them with a type SelectChecker refuses    *)
  Subscriptions,
  NodeGroups,
  Trackings,
  Requests,       (* the handlers of CheckNow: <<target, name>>         *)
  Concurrency,    (* the capacity of the semaphore                      *)
  Interval,       (* interval_sec of a target that has one              *)
  ReadErrors,     (* whether reading results or targets may fail        *)
  None

SubscriptionLike == Subscriptions \cup NodeGroups
Targets == Sites \cup SubscriptionLike \cup Trackings
Old == Interval + 1
Ages == 0 .. Old

(* Jobs of two successive rounds; a round's number counts modulo 2.        *)
Jobs == Targets \X {0, 1}
Threads == Jobs \cup Requests

ASSUME SchedulerAssumption ==
  /\ IsFiniteSet(Targets)
  /\ Unknown \subseteq Sites
  /\ \A r \in Requests : r[1] \in Targets /\ r = <<r[1], r[2]>> /\ r \notin Jobs
  /\ Concurrency \in Nat \ {0}
  /\ Interval \in Nat
  /\ ReadErrors \in BOOLEAN
  /\ None \notin Nat \cup Targets

VARIABLES
  row,       (* each target's row: "auto" is enabled with an interval,  *)
             (* "manual" is enabled with none                           *)
  round,     (* "idle": in Start; "running": in runOnce                 *)
  ticked,    (* the ticker's channel, of one place, is full             *)
  turn,      (* the number of the last round                            *)
  used,      (* the places taken in the semaphore of each round         *)
  place,     (* where each goroutine is                                 *)
  manual,    (* the jobs that loaded a row without an interval          *)
  answer,    (* the age of the result a goroutine has, or None          *)
  age,       (* the age of the latest result of each target             *)
  busy, asked, served,  (* the pulls: see SharedPull                    *)
  fetched,   (* the age of the snapshot each pull has fetched, or None  *)
  mine,      (* history: age of the latest result of a job              *)
  late       (* history: results of jobs since the row was last "auto"  *)

pulls == <<busy, asked, served, fetched>>
rounds == <<round, ticked, turn>>
vars == <<row, rounds, used, place, manual, answer, age, pulls, mine, late>>

Pull == INSTANCE SharedPull WITH Targets <- Subscriptions, Callers <- Threads

Init ==
  /\ row = [t \in Targets |-> "auto"]
  /\ round = "idle" /\ ticked = FALSE /\ turn = 0
  /\ used = [k \in {0, 1} |-> 0]
  /\ place = [g \in Threads |-> "none"]
  /\ manual = {}
  /\ answer = [g \in Threads |-> None]
  /\ age = [t \in Targets |-> Old]
  /\ Pull!Init
  /\ fetched = [t \in Subscriptions |-> None]
  /\ mine = [t \in Targets |-> Old]
  /\ late = [t \in Targets |-> 0]

TargetOf(g) == g[1]

(* A job still has to release its place and tell the wait group.           *)
Done(g) == IF g \in Jobs THEN "leave" ELSE "none"

Move(g, p) == place' = [place EXCEPT ![g] = p]

(* ------------------------------ a round ------------------------------- *)

Tick ==
  /\ ticked' = TRUE
  /\ UNCHANGED <<row, round, turn, used, place, manual, answer, age, pulls, mine, late>>

(* Mutant: the targets are loaded whether enabled or not.                  *)
StartRoundOfAll ==
  /\ round = "idle" /\ ticked
  /\ round' = "running"
  /\ ticked' = FALSE
  /\ turn' = 1 - turn
  /\ used' = [used EXCEPT ![turn'] = 0]
  /\ place' = [g \in Threads |->
       IF g \in Jobs /\ g[2] = turn' /\ row[g[1]] # "gone" THEN "queued" ELSE place[g]]
  /\ manual' = manual \cup {j \in Jobs : j[2] = turn' /\ row[j[1]] = "manual"}
  /\ UNCHANGED <<row, answer, age, pulls, mine, late>>

(* runOnce loads the enabled targets, makes a semaphore and starts a job   *)
(* for each of them.                                                       *)
StartRound ==
  /\ round = "idle" /\ ticked
  /\ round' = "running"
  /\ ticked' = FALSE
  /\ turn' = 1 - turn
  /\ used' = [used EXCEPT ![turn'] = 0]
  /\ place' = [g \in Threads |->
       IF g \in Jobs /\ g[2] = turn' /\ row[g[1]] \in {"auto", "manual"}
       THEN "queued" ELSE place[g]]
  /\ manual' = manual \cup {j \in Jobs : j[2] = turn' /\ row[j[1]] = "manual"}
  /\ UNCHANGED <<row, answer, age, pulls, mine, late>>

(* The targets could not be loaded: the round is over.                     *)
LoadFails ==
  /\ ReadErrors
  /\ round = "idle" /\ ticked
  /\ ticked' = FALSE
  /\ UNCHANGED <<row, round, turn, used, place, manual, answer, age, pulls, mine, late>>

(* Mutant: no wg.Wait().                                                   *)
EndRoundUnwaited ==
  /\ round = "running"
  /\ round' = "idle"
  /\ UNCHANGED <<row, ticked, turn, used, place, manual, answer, age, pulls, mine, late>>

(* wg.Wait() returns.                                                      *)
EndRound ==
  /\ round = "running"
  /\ \A t \in Targets : place[<<t, turn>>] = "none"
  /\ round' = "idle"
  /\ UNCHANGED <<row, ticked, turn, used, place, manual, answer, age, pulls, mine, late>>

(* ------------------------------- a job -------------------------------- *)

(* Mutant: the job does not wait for a place.                              *)
AcquireAlways(j) ==
  /\ place[j] = "queued"
  /\ used' = [used EXCEPT ![j[2]] = @ + 1]
  /\ Move(j, IF j[1] \in Trackings THEN "leave"
             ELSE IF j[1] \in Sites THEN "gate" ELSE "auto")
  /\ UNCHANGED <<row, rounds, manual, answer, age, pulls, mine, late>>

(* Mutant: a tracking target returns before its place is released.         *)
AcquireAndForget(j) ==
  /\ place[j] = "queued"
  /\ used[j[2]] < Concurrency
  /\ used' = [used EXCEPT ![j[2]] = @ + 1]
  /\ Move(j, IF j[1] \in Trackings THEN "none"
             ELSE IF j[1] \in Sites THEN "gate" ELSE "auto")
  /\ UNCHANGED <<row, rounds, manual, answer, age, pulls, mine, late>>

(* sem <- struct{}{}.  A tracking target is left at once.                  *)
Acquire(j) ==
  /\ place[j] = "queued"
  /\ used[j[2]] < Concurrency
  /\ used' = [used EXCEPT ![j[2]] = @ + 1]
  /\ Move(j, IF j[1] \in Trackings THEN "leave"
             ELSE IF j[1] \in Sites THEN "gate" ELSE "auto")
  /\ UNCHANGED <<row, rounds, manual, answer, age, pulls, mine, late>>

(* MaybeAutoRefreshSubscriptionLatency reads the row again.  Whether a     *)
(* batch is due depends on the checks of the nodes, and is a choice here.  *)
MaybeAutoRefresh(j) ==
  /\ place[j] = "auto"
  /\ \E p \in {"gate"} \cup (IF row[j[1]] \in {"auto", "manual"} THEN {"batch"} ELSE {}) :
       Move(j, p)
  /\ UNCHANGED <<row, rounds, used, manual, answer, age, pulls, mine, late>>

BatchEnds(j) ==
  /\ place[j] = "batch"
  /\ Move(j, "gate")
  /\ UNCHANGED <<row, rounds, used, manual, answer, age, pulls, mine, late>>

(* Mutant: no interval means the default one, as for the other targets.    *)
ShouldRunManual(j) == age[j[1]] > Interval

(* Mutant: before what the interval allows, a result is not old enough.    *)
ShouldRunNever(j) ==
  /\ j \notin manual
  /\ age[j[1]] > Interval + 1

(* shouldRunTargetNow.  The interval is the one the round loaded.          *)
shouldRunTargetNow(j) ==
  /\ j \notin manual
  /\ age[j[1]] > Interval

(* Its answer; if the last result cannot be loaded, it is yes, unless the  *)
(* target has no interval.                                                 *)
Gate(j) ==
  /\ place[j] = "gate"
  /\ \/ shouldRunTargetNow(j) /\ Move(j, IF j[1] \in Sites THEN "check" ELSE "call")
     \/ ~shouldRunTargetNow(j) /\ Move(j, "leave")
     \/ /\ ReadErrors
        /\ j \notin manual
        /\ Move(j, IF j[1] \in Sites THEN "check" ELSE "call")
  /\ UNCHANGED <<row, rounds, used, manual, answer, age, pulls, mine, late>>

(* The deferred calls: <-sem, then wg.Done().                              *)
Leave(j) ==
  /\ place[j] = "leave"
  /\ used' = [used EXCEPT ![j[2]] = @ - 1]
  /\ Move(j, "none")
  /\ manual' = manual \ {j}
  /\ UNCHANGED <<row, rounds, answer, age, pulls, mine, late>>

(* ------------------------------ CheckNow ------------------------------ *)

(* A client asks for a check of a target.                                  *)
Ask(r) ==
  /\ place[r] = "none"
  /\ Move(r, "call")
  /\ UNCHANGED <<row, rounds, used, manual, answer, age, pulls, mine, late>>

(* The target is not found or cannot be loaded.                            *)
CallFails(g) ==
  /\ place[g] = "call"
  /\ row[TargetOf(g)] = "gone" \/ ReadErrors
  /\ Move(g, Done(g))
  /\ UNCHANGED <<row, rounds, used, manual, answer, age, pulls, mine, late>>

(* CheckNow loads the row, enabled or not, and starts the check of a       *)
(* target that is not a subscription.                                      *)
Call(g) ==
  /\ place[g] = "call"
  /\ row[TargetOf(g)] # "gone" /\ TargetOf(g) \notin Subscriptions
  /\ Move(g, "check")
  /\ UNCHANGED <<row, rounds, used, manual, answer, age, pulls, mine, late>>

(* It starts or joins the pull of a subscription.                          *)
CallPull(g) ==
  /\ place[g] = "call"
  /\ TargetOf(g) \in Subscriptions /\ row[TargetOf(g)] # "gone"
  /\ Move(g, "pull")
  /\ asked' = asked \cup {<<g, TargetOf(g)>>}
  /\ Pull!Begin(TargetOf(g)) \/ Pull!Join(g, TargetOf(g))
  /\ UNCHANGED <<row, rounds, used, manual, answer, age, fetched, mine, late>>

(* The checker, or the batch of a node group and the counts after it, have *)
(* ended: a failed check is a result too.  There is none when the batch of *)
(* a group fails, or where there is no checker for the type.               *)
CheckEnds(g) ==
  /\ place[g] = "check"
  /\ \/ TargetOf(g) \notin Unknown /\ Move(g, "save") /\ answer' = [answer EXCEPT ![g] = 0]
     \/ TargetOf(g) \in NodeGroups \cup Unknown /\ Move(g, Done(g)) /\ UNCHANGED answer
  /\ UNCHANGED <<row, rounds, used, manual, age, pulls, mine, late>>

(* The pull g waited for has ended, with a snapshot or an error.           *)
PullReturns(g) ==
  /\ place[g] = "pull"
  /\ Pull!Return(g, TargetOf(g))
  /\ Move(g, IF answer[g] = None THEN Done(g) ELSE "save")
  /\ UNCHANGED <<row, rounds, used, manual, answer, age, fetched, mine, late>>

(* The result is written; its time is that of the check.  A job's result   *)
(* is noted in the histories.  The batch CheckNow may start in the         *)
(* background changes nothing here: it is one of NodeStore.                *)
Save(g) ==
  LET t == TargetOf(g) IN
  /\ place[g] = "save"
  /\ age' = [age EXCEPT ![t] = IF answer[g] < @ THEN answer[g] ELSE @]
  /\ mine' = IF g \in Jobs THEN [mine EXCEPT ![t] = answer[g]] ELSE mine
  /\ late' = IF g \in Jobs /\ row[t] # "auto" /\ late[t] < 2
             THEN [late EXCEPT ![t] = @ + 1] ELSE late
  /\ answer' = [answer EXCEPT ![g] = None]
  /\ Move(g, Done(g))
  /\ UNCHANGED <<row, rounds, used, manual, pulls>>

SaveFails(g) ==
  /\ place[g] = "save"
  /\ answer' = [answer EXCEPT ![g] = None]
  /\ Move(g, Done(g))
  /\ UNCHANGED <<row, rounds, used, manual, age, pulls, mine, late>>

(* ------------------------------ a pull -------------------------------- *)

(* SubscriptionSummary starts a pull and does not wait for it; it does not *)
(* look at enabled.  The snapshot may be old when no result is.            *)
SummaryPull(t) ==
  /\ row[t] \in {"auto", "disabled"}
  /\ asked' = asked
  /\ Pull!Begin(t)
  /\ UNCHANGED <<row, rounds, used, place, manual, answer, age, fetched, mine, late>>

(* The subscription was fetched, or could not be: a snapshot either way.   *)
Fetched(t) ==
  /\ t \in busy /\ fetched[t] = None
  /\ row[t] # "gone"
  /\ fetched' = [fetched EXCEPT ![t] = 0]
  /\ UNCHANGED <<row, rounds, used, place, manual, answer, age, busy, asked, served, mine, late>>

(* The snapshot is stored, and is the answer to all that wait.             *)
PullEnds(t) ==
  /\ fetched[t] # None
  /\ Pull!End(t)
  /\ fetched' = [fetched EXCEPT ![t] = None]
  /\ answer' = [g \in Threads |-> IF <<g, t>> \in asked /\ <<g, t>> \notin served
                                   THEN fetched[t] ELSE answer[g]]
  /\ UNCHANGED <<row, rounds, used, place, manual, age, mine, late>>

(* The target could not be loaded, or the snapshot could not be stored.    *)
PullFails(t) ==
  /\ fetched[t] # None \/ row[t] = "gone" \/ ReadErrors
  /\ Pull!End(t)
  /\ fetched' = [fetched EXCEPT ![t] = None]
  /\ UNCHANGED <<row, rounds, used, place, manual, answer, age, mine, late>>

(* --------------------------- the environment -------------------------- *)

(* UpdateTarget.  Only subscriptions and groups can do without interval.   *)
Update(t, r) ==
  /\ row[t] # "gone" /\ row[t] # r
  /\ r = "manual" => t \in SubscriptionLike
  /\ row' = [row EXCEPT ![t] = r]
  /\ late' = IF r = "auto" THEN [late EXCEPT ![t] = 0] ELSE late
  /\ UNCHANGED <<rounds, used, place, manual, answer, age, pulls, mine>>

(* DeleteTarget.  Its results stay.                                        *)
Delete(t) ==
  /\ row[t] # "gone"
  /\ row' = [row EXCEPT ![t] = "gone"]
  /\ UNCHANGED <<rounds, used, place, manual, answer, age, pulls, mine, late>>

Older(a) == IF a = None \/ a = Old THEN a ELSE a + 1

TimePasses ==
  /\ age' = [t \in Targets |-> Older(age[t])]
  /\ mine' = [t \in Targets |-> Older(mine[t])]
  /\ answer' = [g \in Threads |-> Older(answer[g])]
  /\ fetched' = [t \in Subscriptions |-> Older(fetched[t])]
  /\ UNCHANGED <<row, rounds, used, place, manual, busy, asked, served, late>>

JobStep(j) ==
  Acquire(j) \/ MaybeAutoRefresh(j) \/ BatchEnds(j) \/ Gate(j) \/ Leave(j)
CheckStep(g) ==
  \/ CallFails(g) \/ Call(g) \/ CallPull(g) \/ CheckEnds(g) \/ PullReturns(g)
  \/ Save(g) \/ SaveFails(g)
Run(g) == (g \in Jobs /\ JobStep(g)) \/ CheckStep(g)
PullStep(t) == Fetched(t) \/ PullEnds(t) \/ PullFails(t)
Client ==
  \/ \E r \in Requests : Ask(r)
  \/ \E t \in Subscriptions : SummaryPull(t)
  \/ \E t \in Targets : Delete(t) \/ \E r \in {"auto", "manual", "disabled"} : Update(t, r)

Next ==
  \/ Tick \/ StartRound \/ LoadFails \/ EndRound
  \/ \E g \in Threads : Run(g)
  \/ \E t \in Subscriptions : PullStep(t)
  \/ Client
  \/ TimePasses

(* The ticker ticks and goroutines run; checkers, batches and fetches have *)
(* timeouts.  Loading the targets, which may fail, does not fail forever.  *)
Fairness ==
  /\ WF_vars(Tick) /\ SF_vars(StartRound) /\ WF_vars(EndRound)
  /\ \A g \in Threads : WF_vars(Run(g))
  /\ \A t \in Subscriptions : WF_vars(PullStep(t))

Spec == Init /\ [][Next]_vars /\ Fairness

-----------------------------------------------------------------------------
(* Properties.                                                             *)

Places == {"none", "queued", "auto", "batch", "gate", "call", "pull", "check", "save", "leave"}
Rows == {"auto", "manual", "disabled", "gone"}

(* The variables have their types.                                         *)
TypeOK ==
  /\ row \in [Targets -> Rows]
  /\ round \in {"idle", "running"} /\ ticked \in BOOLEAN /\ turn \in {0, 1}
  /\ used \in [{0, 1} -> Int]
  /\ place \in [Threads -> Places]
  /\ manual \subseteq {j \in Jobs : place[j] # "none"}
  /\ answer \in [Threads -> Ages \cup {None}]
  /\ age \in [Targets -> Ages]
  /\ busy \subseteq Subscriptions
  /\ asked \subseteq Threads \X Subscriptions
  /\ served \subseteq asked
  /\ fetched \in [Subscriptions -> Ages \cup {None}]
  /\ \A t \in Subscriptions \ busy : fetched[t] = None
  /\ mine \in [Targets -> Ages]
  /\ late \in [Targets -> 0 .. 2]

(* On every way out a job gives its place back exactly once: the places    *)
(* taken are the jobs at work, never more than the semaphore has.          *)
Working(k) == {j \in Jobs : j[2] = k /\ place[j] \notin {"none", "queued"}}
PlacesBalance ==
  \A k \in {0, 1} : used[k] = Cardinality(Working(k)) /\ used[k] <= Concurrency

(* "Start" waits for a round: a target never has two jobs.                 *)
OneJobPerTarget ==
  \A t \in Targets : place[<<t, 0>>] = "none" \/ place[<<t, 1>>] = "none"

(* A job writes a result only when its target's last result by a job is    *)
(* older than the interval, whatever clients asked for in between.         *)
Spaced ==
  [][\A j \in Jobs : Save(j) => mine[j[1]] > Interval]_vars

(* Once a target is disabled, deleted or left without an interval, at most *)
(* the one job that had already loaded it writes a result.                 *)
AtMostOneLate == \A t \in Targets : late[t] <= 1

(* The pulls of the scheduler, of CheckNow and of the summary are shared   *)
(* as refreshSubscriptionWithSingleflight promises.                        *)
SharesPulls == Pull!Spec

(* A round does not block itself: who waits for a pull waits for one that  *)
(* is under way or has ended since, and a job that waits for a place waits *)
(* for one that another job of its round holds and has still to give back  *)
(* (wg.Wait, sem <- struct{}{}, <-call.done).                              *)
NobodyStuck ==
  /\ \A g \in Threads : place[g] = "pull" =>
       <<g, TargetOf(g)>> \in served \/ TargetOf(g) \in busy
  /\ \A j \in Jobs : place[j] = "queued" /\ used[j[2]] >= Concurrency =>
       Working(j[2]) # {}

(* Every round ends, though its jobs wait for places and for pulls that    *)
(* others started.                                                         *)
RoundEnds == round = "running" ~> round = "idle"

(* A target that needs a check is checked sooner or later, whatever other  *)
(* targets do and whatever fails.                                          *)
Checking(t) == \E j \in Jobs : j[1] = t /\ place[j] \in {"check", "call"}
Wanted(t) == row[t] = "auto" /\ age[t] > Interval
NoTargetStarves == \A t \in Targets \ Trackings : Wanted(t) ~> Checking(t) \/ ~Wanted(t)
=============================================================================
