# all-monitor in TLA+

A verification development for all-monitor, a Go server (`server/`) that
monitors sites, ports, relays, proxy subscriptions and node groups, and its React
console (`web/`).  It models the parts of the program where goroutines,
transactions, timers and the browser meet, checks them with TLC on small instances
and proves their central invariants with TLAPS for instances of any size.

## The system

| component | state | operations | interacts with |
|---|---|---|---|
| latency job (`subscription_latency_job.go`, job handlers, job functions of `App.tsx`) | the job's status and counters, its subscribers' channels, the map of jobs | start, probe, count, publish, finish, close, clean up; stream; stream and poll in the browser | workers probe through the node store; the handler relays a channel to an EventSource |
| pull singleflight (`target_service.go` 1068-1108) | `refreshInFlight` | pull with or without waiting | called by CheckNow, by the summary and by the scheduler; runs a pull |
| node store (`target_service.go` 820-1028, 1110-1330) | `subscription_nodes`, `subscription_node_checks`, `subscription_snapshots`, `config_json` | pull and replace, edit a group, delete a node, probe one node, probe all | transactions of the database; probes that outlive rows |
| scheduler (`scheduler.go`) | none between rounds; a semaphore and a wait group in a round | a round every 30 s | CheckNow, MaybeAutoRefreshSubscriptionLatency, the checkers |
| subscription fetch (`target_service.go` 1755-2224) | `fetchProtocolState` of each host | plan the protocols, ask, hedge, read, retry, give up | the pull; fetches of one host share its state |
| node probing (`target_service.go` 2565-3652) | none | baseline, end to end, fallback, score | the node store |
| health checkers (`checker.go`) | none | HTTP, port, ping, UDP, AI relay | scheduler, CheckNow |
| share tasks (`share_service.go`, `ShareViewPage`) | `share_tasks`; signed access tokens; the page's token and payload | create, update, delete, verify, show, fetch again | buttons of the console; the public page |
| authentication, preferences (`auth_service.go`, `preference_service.go`, `jwt_auth.go`, `App`, `request`) | `users`, `system_settings`; the browser's token and form | set-up, login, logout, expiry, reset; load and save the defaults | every request of the console |
| tracking | `tracking_events` | ingest, summary, series | the SDK in the browser |
| target CRUD and configuration | `monitor_targets` | create, update, delete, normalise | all |
| web console (`App.tsx`) | what is on the page, requests in flight, timers | intervals, loads, switches, autosave, bulk operations, import, refresh of latencies | all handlers |
| process start | environment, listener | load, open, migrate, listen | - |

What is hard in it, and what makes each part correct, is in `PROJECT.json` under
`hazards`: the line where each hazard bites and the properties that would catch it.

## Modules

| module | role |
|---|---|
| `LatencyJob` | one job with its runner, workers, channels, stream handlers and web clients |
| `ProbeJob` | what a job promises to those that only read its status (abstract) |
| `LatencyJobProofs` | theorems about `LatencyJob` |
| `Singleflight` | the map of pulls in flight and the callers that start or join them |
| `SharedPull` | what it promises: one pull per target, a waiter is served by a pull that ended since its call (abstract) |
| `SingleflightProofs` | theorems about `Singleflight` |
| `NodeStore` | the rows of one target under transactions and probes |
| `NodeStoreProofs` | theorems about `NodeStore` |
| `SubscriptionFetch` | the fetches of subscriptions from one host, in ticks of 100 ms |
| `SubscriptionFetchProofs` | theorems about `SubscriptionFetch` |
| `Scheduler` | rounds, their jobs and semaphore, CheckNow by jobs and clients, the pulls they share |
| `SchedulerProofs` | theorems about `Scheduler` |
| `Dashboard` | the dashboard page, its selection, bulk operations and imports, against targets other tabs change |
| `DashboardProofs` | theorems about `Dashboard` |
| `TargetDetail` | the detail page of a target: loads, the drawer that saves by itself, imports, refreshes |
| `TargetDetailProofs` | theorems about `TargetDetail` |
| `ConsoleSession` | one browser's session: set-up, login, expiry, the answers with status 401 |
| `CreateDefaults` | the form of the create defaults and the row the server keeps of it; extends `ConsoleSession` |
| `SharePage` | a share task and its public page; extends `ConsoleSession` |
| `Console` | the three composed in one browser |
| `ConsoleProofs` | theorems about `Console` |
| `MC*` | the instances TLC checks |

### LatencyJob

`pc` is the place of each goroutine, `pending` the channels to which its last
`job.update` still has to send.  That list is the heart of the model: `update`
copies the subscribers under the lock (`Publish`) and sends after the unlock
(`Send`), one channel at a time, so that a handler may unsubscribe, and close the
channel, in between (`SendToClosed`).  `where` follows each node from the feeder to
a worker to the status.  A handler takes its snapshot and subscribes in two steps,
as `SubscribeSubscriptionLatencyJob` does.  The client streams, and polls when the
stream ends otherwise than with `done`; a poll may fail for any reason.  `Stop` is
the end of the process by its operator; `server = "panicked"` is the end by a send
to a closed channel.  The status `failed`, which the client knows, is never set by
the server and not modelled.  The 10 s pings change nothing and are left out.

### Singleflight

The body of a pull is the interval between `Start` and `End`, which under one lock
sets the result, closes the channel and clears the map.  A caller that does not wait
leaves no trace in `awaits`.  `old` is a history variable: the pulls that had ended when
the caller called.

### NodeStore

A transaction reads the old rows (`Open`) and later deletes and creates rows
(`Commit`) or fails (`Rollback`).  With `ReadCommitted` other writes may fall in
between, as on PostgreSQL; without it they wait, as on SQLite, whose transactions
here begin with a write.  Rows get new ids, never reused (AUTOINCREMENT, BIGSERIAL).
A probe keeps the id of the row it loaded; it inserts its check and then updates the
row of that id.  `shown` and `raced` are history variables.  The schema is the one
AutoMigrate makes, without foreign keys.

### Scheduler

A thread is a job, `<<target, round modulo 2>>`, or a request, `<<target, name>>`;
`place` says where it is.  Two parities are enough to tell the jobs of one round from
those of the next, which the code keeps apart only by `wg.Wait()`.  A job acts on the
row the round loaded (`manual` is what it remembers of it), CheckNow on the row it
loads itself.  The pulls are those of `SharedPull`, whose actions are conjoined here:
`Singleflight` implements it, so what holds with the promise holds with the code.
A result carries the time of its snapshot (`fetched`, `answer`), not of its insertion.
Time is relative: `age` and the like grow with `TimePasses` and stop at the first
value that counts as old.  `mine` and `late` are history variables.  The batch that
CheckNow may start in the background, and what batches do, belongs to `NodeStore`.
A site in `Unknown` has a type that no checker knows: its job gives its place back, and
a request fails, without a result.

### SubscriptionFetch

A fetch counts its own time, `spent`, in ticks of 100 ms.  `Budget` is
`totalBudgetMS`, `per` is `perTry`, `began` is `protocolStageStart`; the variables of
a try go out of scope with it (`Forget`).  A request and its mark in the host's state
are one step (`Answered`, `NotAnswered`), since nothing before the mark is seen by
others.  `Hedge` is both requests of `doSubscriptionFetchHedged` and its wait for both;
the body it leaves has the rest of the timer (`cut`).  A host is either reliable (it
answers by the protocols it speaks, at once, and fails the others by timeout, mismatch,
a dropped connection or a stream error) or answers each request as it likes; `users` are
the goroutines that fetch from it.  That a response is closed on every path is not
modelled: each is closed before the next call that could return.  When the
avoidance of a protocol ends is left open (`AvoidEnds`), which covers both of the code's
periods.  Timeouts are unbounded numbers: those of more than a century, which would
overflow, are left out.

### Dashboard

A target is its fields and its switch: what `buildTargetIdentity` compares.  The page
makes a `Payload` of a row it imports, and the handlers of CreateTarget and UpdateTarget
store a target `Normalized`: another type name, an interval, a timeout or a configuration
may be replaced, so what is stored, and shown later, need not be what was sent.  A
configuration is one value and `ConfigOf` what `normalizeSubscriptionConfig` makes of it.
`shown` is the list the page holds and `details` the ids with entries in
its other maps; `db`, `checks` and `nextId` are the server's.  A load is a record that
is asked, answered and applied in three steps, and says which handler awaits it
(`by`), so that a handler goes on only when its own load was applied.  The buttons of
the cards, the form, the selection with its anchor, the operations on the selection
(one target after the other), the import (row after row, with the identities it has
seen) and the changes of other tabs are an action each.  A request that fails was
carried out, with its reply lost, or was not: both are possible of every request that
changes something.  Of an import, `start` and what its records in `made`
say only serve the property; the page itself counts the records with an answer.

### TargetDetail

`conf` is the target the server stores, `target` the page's copy, `form` what the
drawer holds and `saved` what it takes for saved.  A request is sent, answered and
applied in separate steps; what a handler uses after an `await` is captured in its
record.  A configuration is the type, the node URIs and one value for the rest, which
`Stored` maps to what the server keeps of it: a form may differ from what is stored
and still be saved.  The panel of nodes (or tracking events) is the query its rows
answer.  `held`, `typed` and `raced` are history variables: what the server has held,
whether the user changed the form since it was loaded, and whether a load replaced the
form during a save.

### Console

`ConsoleSession` has the question whether the server is set up with its attempts, delay
and error page, the forms, the set-up of this and another browser, and tokens as
numbers in the order of issue.  Every answer with status 401 to a request of the
console ends the session, as `request` does; those of the share page do not go that
way.  A set-up that fails may have been stored (`SetupCommits` with its reply lost): the
form stays.  `CreateDefaults` follows one numeric field from the input through both
normalisations, which `Normal` and `ServerNormal` compute, to the row; `wanted` is a
history variable.  `SharePage` is one task with its switch, expiry and password, the
page's access token and its requests.  `Console` conjoins them: a step of one part
says what happens to the other two, and a session that ends unmounts the dashboard
and its timer (`Rerender`).

## Runs

| run | instance | shows |
|---|---|---|
| `latency_job` | 2 nodes, 2 workers, 1 client, channels of 1 event, 2 polls | the safety of the job, that it implements `ProbeJob`, that no stream is forgotten, that a job ends and a stream ends |
| `singleflight` | 2 targets, 3 callers, 3 pulls | one pull per target, fresh results, waiters return, implements `SharedPull` |
| `node_store` | 2 nodes, a batch with 1 worker, a single probe, an editor, READ COMMITTED; 1 check, 3 row ids | what rows there are and what they show |
| `node_store_live` | 2 nodes, a batch with 1 worker, SQLite; 2 checks, 3 row ids | no result of a batch is lost, its worker never blocks, a batch returns |
| `scheduler` | a site and a subscription, one handler of CheckNow, 1 place, interval 1, reads succeed | places balanced, results spaced, at most one late |
| `scheduler_kinds` | a node group and a tracking target with a handler each and a site without a checker, 1 place, ages "recent" and "old", reads may fail | a group that nobody wants checked gets at most one more result |
| `scheduler_live` | a subscription and a tracking target, 1 place, pulls of others, reads may fail | nobody waits for what nobody gives, rounds end, no target starves |
| `fetch` | 1 fetch from a host that answers as it likes, or 2 from a reliable host of no, one or both protocols; 5 configurations | a fetch is over near its deadline; an automatic one succeeds; the protocol that worked stays first |
| `dashboard` | no target or 2, a file with a row twice, which the server stores with another interval, and a bad row, 2 filters, 1 load by the interval, 3 moves | an import makes a double only for a cause; what is off has somebody who turns it on; list and selection catch up |
| `deleted_results` | the same | expected to be violated: the results of a deleted target stay (see Findings) |
| `target_detail` | a site or a group of 1 node, 2 loads, 2 refreshes, 2 queries, a form that is stored differently and one that is refused, 3 moves | what is taken for saved was stored, nothing unedited is written back, spinners end, edits are saved, the page catches up |
| `console` | 2 tokens, 3 moves, 2 fields, the inputs 0 and 7 | first writes are unique, defaults are the user's, the session ends for a cause, the page is not blank for good, an ended share is hidden |

Why the bounds are enough.  A channel of one event is full after one send, so the
drop of an event and the unsent `done` happen within a few steps; with 32 they would
need long histories of the same kind.  Two workers give every interleaving of two
counters and of a send with a close.  One client is enough, since clients share nothing
but the list of channels; the proofs cover any number.  Three callers are one that starts, one that
joins, and one that calls after the end; three pulls let a target be pulled again.
Two nodes and one worker make a batch wait to hand over a node.
Three row ids are a group of two nodes and one replacement that deletes a node of it;
the probes hold ids of replaced rows by then.  A semaphore of one place and two
targets make a job wait for another; with interval 1 a result passes through
"recent", "exactly the interval" and "old".

The configurations of a fetch lie on both sides of each limit: a first protocol's
least time longer than the whole try (1 s), tries too short for a hedge (1.7 s and
2 s, with up to six tries), tries with a hedge and two agents (4 s), and a budget cut
to 45 s (2 tries of 25 s).  A request that is not cut off takes a tick: what matters is
whether it ends before its timer.  One fetch is enough for its times, which are its
own; two share a host's state in every order.

In the browser a move is what a user, another tab, a clock or a failure does; three of
them are a click, a change from elsewhere during it and a failure or a second click.
They are a target selected, its deletion asked for, and the reply to it lost: the
deletion then selects an id that is gone.  The row of the file that the server stores
otherwise reaches both causes of a double: it becomes what is shown already, and its
second copy is created again when the reply to the first is lost.
The interval adds no load to one of its own that still runs, so loads overlap by
clicks; two are enough for the older to be applied last.  Two tokens are a session and
the next one, two refresh handlers the first that resets the flags of the second.
Of the fields, one is clipped while it is typed and one when it is saved; 7 is too
small for the one and too large for the other, and 0 is also the emptied input.

`CHECK_DEADLOCK FALSE` is said where the system comes to rest: a job that is over, a
process that stopped, and the bounds of a run.

## Fairness

Only what the runtime gives: every goroutine that can take a step takes one (Go's
scheduler), a probe and a statement end (they have timeouts), a closed channel wakes
its receiver, timers fire, and a browser runs its callbacks.  The ticker of the scheduler
fires, and loading the targets does not fail every time.  Every check, batch and
fetch ends: the handlers of CreateTarget and UpdateTarget replace a timeout of 0 or
less, and a fetch has a deadline over all its tries.  Nobody has to connect, start a
job, ask for a pull, disconnect or stop the process.  `BatchReturns` needs no
write to succeed: it may fail, and the batch returns all the same.

In the browser timers and intervals run and an answer that arrived is applied.  A
request of the pages is answered or fails, since a fetch of the browser does.  The
exception is the question whether the server is set up, which may never be answered:
the code gives it 5 s.  The same question asked again by hand has no limit, so nothing
is promised while it runs.  Nobody has to click, and other tabs change nothing for good
after the last move.

## Findings

`DeleteTarget` deletes the row of the target and nothing else, while the dialogs that
confirm a deletion say that the check results go as well (`src/web/src/App.tsx`, lines
2858 and 5647).  The run `deleted_results` deletes a selection and finds the results
still there.

## What is proved

For every finite number of nodes, any set of workers and clients and any capacity:
`TypeOK`, `CountsConsistent`, `NothingAfterDone`, `PanicOnlyByDisconnect`,
`NoStreamForgotten` and `KeepsPromise` of `LatencyJob`. The inductive invariant `Inv`
adds to them where each goroutine is in relation to the runner (`Phases`: workers are
off or at work while it feeds, gone after it finished), that the nodes counted and the
nodes held by workers add up (`Counting`), and which channels may be in use by whom
(`Streams`: after the runner closed the channels, a send to one is only possible for a
subscriber that came later; a channel is closed by its own handler only after it left
the stream). None of them is inductive without these; `NoStreamForgotten` needs besides
what a handler at each place has done (`Attended`).

For any targets, callers and number of pulls: `TypeOK`, `OnePullPerTarget`,
`NoStaleResult`, `NobodyForgotten` and `KeepsPromise` of `Singleflight`. The invariant
adds that the map shows only pulls that have not ended, each at its own target, and that
a caller waits for a pull that is not older than its call.

For any finite set of targets, any handlers, places and interval: `TypeOK`,
`PlacesBalance`, `OneJobPerTarget`, `AtMostOneLate`, `NobodyStuck` and, when reads
succeed, `Spaced` of `Scheduler`, and `SharesPulls`: its jobs and requests together are
an implementation of `SharedPull`, as `Singleflight` is. The invariant adds that jobs
belong to the round that runs (`Rounds`), that who waits for a pull is in CheckNow of
its target (`Answers`), that after a late result no job of the target can write another
(`Lateness`), and that the latest result is no older than the latest by a job, which a
job that checks saw older than the interval (`Ageing`). `NobodyStuck` follows from the
balance of the places and from who waits for pulls (`Waits`). When a read of the last
result fails, the code checks at once, and `Spaced` is not promised.

For any nodes, probers, editors and bounds, on either database: `TypeOK`,
`LatencyHasCheck`, `RowsFollowSource`, `CarriedOver` and `BatchFlows` of `NodeStore`.
The invariant adds the fields of records that TLC need not be told (`Shapes`), that an
id names one node for good, though rows come and go (`Ids`), that a latency in a
transaction, a probe or a batch has its check already (`Checked`), that a deletion
writes a list without its node (`Drops`), and that what a transaction has read differs
from the rows only in what it missed (`Reads`). `BatchFlows` needs that the nodes of a
batch are apart (`Apart`) and that what it still waits for is what waits, is probed or
is reported (`Accounted`): the results channel has room for all of them.

For any configurations and any number of fetches: `EndsNearDeadline`, `AutoServes` and
`KnownProtocolFirst` of `SubscriptionFetch`. The invariant adds how late a fetch may be
at each place of its code (`Timely`): a request by the first of two protocols may
outlive the deadline by its 3 s, all others end with it, and only one pause can follow;
that a fetch from a reliable host gets on with its first try (`Serving`); and that its
only protocol is never avoided (`Known`).

For any number of loads, handlers, queries and moves: `SpinnerMeansJob`,
`UnsavedIsTyped` and `SavedWasStored` of `TargetDetail`. The last needs that every
configuration a request carries was held by the server or will be when it is stored
(`Held`, `Carried`), and that what the server stores, saved again, is unchanged. For any
files, filters, normalisation and number of imports: `DoublesHaveCause` of `Dashboard`,
from what an import remembers (`Remembered`) and that what it sent, and had an answer
to, is sent once (`Apart`), and `OffMeansBusy`, which is inductive once the records
of calls keep their fields (`Off`).

For every field, all inputs and any number of tokens and moves: `OneOfEach`,
`DefaultsAreTheUsers`, `BlankMeansAsking` and `SessionEndsForCause` of `Console`, and
that the server's normalisation leaves alone what the page's returns. The invariant adds
that token and storage agree (`Sess`), that timers and reads belong to a mounted
dashboard (`Dash`), and that what is under way to the server is wanted (`Values`);
`BlankMeansAsking` has an invariant of its own (`Asking`): the answer, the error page or
the repeated question follow the three attempts.

Liveness is out of the provers' reach, but each liveness property of the server has a
safety half, which is proved: whatever waits, waits for something that is under way.
`NoStreamForgotten` is that of `StreamEnds`, `NobodyForgotten` of `WaitersReturn`,
`BatchFlows` of `BatchReturns`, `NobodyStuck` of `RoundEnds`; in the browser
`BlankMeansAsking` is that of `AppSettles`. What fairness adds is that the thing under
way ends.

Proved, and in no run: `TypeOK` of all modules that have it, `OneJobPerTarget`,
`SharesPulls`, `NobodyForgotten` and `BlankMeansAsking`.

Assumptions are those named in the modules, which every run evaluates.

Only checked by TLC: the liveness properties (the provers have no fairness): `JobEnds`,
`StreamEnds`, `WaitersReturn`, `BatchReturns`, `RoundEnds`, `NoTargetStarves`,
`EditsSettle`, `PageCatchesUp`, `ShownCatchesUp`, `SelectionCatchesUp`, `AppSettles` and
`SharedHidden`.

## Not modelled

- What a probe or a checker measures: sockets, sing-box processes and timers of the
  network; whether it succeeds is a choice wherever it matters.  Scores are arithmetic
  on floating-point numbers, which TLC does not have.
- The text of events, messages and errors; which of its errors a fetch reports; the
  parsing of a feed, and a feed that names a node twice.
- The database's failures beyond a read or a write that fails, and a change of a
  target's type while it is pulled.
- In the console: charts and series, formatting, pagination, export, theme, the version
  check, preferences changed in other tabs, the weights, URL lists and text fields of the
  create defaults, the list of share tasks and which targets a share shows, the page of
  one node.  They show what they are given, or repeat what is modelled for a neighbour.
- Tracking: events are inserted and counted by SQL statements, with no state of the
  program between two requests.
- The start of the process and the reset of a password by the command line, which are
  sequential.
- The file formats, routes and static files.
