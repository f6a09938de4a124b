----------------------------- MODULE TargetDetail -----------------------------
(***************************************************************************)
(* The detail page of one target in the web console, TargetDetailPage of   *)
(* web/src/App.tsx: what it loads and when, the edit drawer that saves by  *)
(* itself, the import and the deletion of nodes, the re-measuring of       *)
(* latencies as the page shows it, and the server's copy of the target     *)
(* that other tabs change as well.                                         *)
(*                                                                         *)
(* A request is a step that sends it, a step in which the server answers   *)
(* and a step that applies the answer; what the handler goes on to use is  *)
(* captured when it starts, as its closure does.  A configuration is the   *)
(* type, the node URIs and one value that stands for all the other fields. *)
(* Of the panel of a target (its nodes, or its tracking events) the page   *)
(* keeps which query the rows answer: sort order and search text, or the   *)
(* preset range of a tracking target.                                      *)
(***************************************************************************)
EXTENDS Naturals, FiniteSets

CONSTANTS
  Kinds,     (* the target types tried                                      *)
  Opts,      (* what the fields of the drawer can hold                      *)
  Rejected,  (* the contents a validation of saveEditConfig refuses         *)
  Stored(_), (* what the server holds once such contents are saved          *)
  Uris,      (* node URIs of a group                                        *)
  Queries,   (* sort orders and search texts, or presets                    *)
  MaxLoads,  (* how many calls of loadDetail overlap                        *)
  MaxJobs,   (* how many calls of handleRefreshSubscriptionLatency overlap  *)
  MaxMoves,  (* clicks, edits, changes by other tabs and failures in all    *)
  None

Config == [kind : Kinds, opt : Opts, uris : SUBSET Uris]

ASSUME TargetDetailAssumption ==
  /\ Kinds \subseteq {"node_group", "subscription", "tracking", "ai", "site"}
  /\ "site" \in Kinds
  /\ Rejected \subseteq Opts
  /\ \A o \in Opts : Stored(o) \in Opts /\ Stored(Stored(o)) = Stored(o)
  /\ \A o \in Opts : Stored(o) \in Rejected => o \in Rejected
  /\ None \notin Queries \cup Config
  /\ {MaxLoads, MaxJobs, MaxMoves} \subseteq Nat

VARIABLES
  conf,      (* the target the server stores; None once it is deleted       *)
  page,      (* "open", or "left" for good                                  *)
  target,    (* the copy the page shows                                     *)
  form,      (* editForm                                                    *)
  saved,     (* lastSavedEditFormRef: the form taken for saved, or None     *)
  editing,   (* the drawer is open                                          *)
  saving,    (* None, or the PUT of saveEditConfig                          *)
  deleting,  (* the DELETE of the target is under way                       *)
  loads,     (* the calls of loadDetail in flight                           *)
  checking,  (* None, or the running handleCheckNow                         *)
  importing, (* None, or the running handleImportNodeGroupURIs              *)
  query,     (* what the user asks the panel to show                        *)
  rows,      (* the query whose answer the panel shows                      *)
  listing,   (* the queries of other requests for the panel, in flight      *)
  handlers,  (* the running calls of handleRefreshSubscriptionLatency       *)
  refreshing,(* refreshingLatency: the button is off                        *)
  pending,   (* refreshingNodeMap has an entry                              *)
  moves,     (* what is left of MaxMoves                                    *)
  held,      (* history: the configurations the server has held             *)
  typed,     (* history: the user changed the form since it was last loaded *)
  raced      (* history: a load replaced the form during a save             *)

server == <<conf, held>>
drawer == <<form, saved, editing, saving, typed, raced>>
panel == <<query, rows, listing>>
job == <<handlers, refreshing, pending>>
calls == <<loads, checking, importing, deleting>>
vars == <<server, page, target, drawer, panel, job, calls, moves>>

(* What the server holds once the form f is saved.                         *)
Payload(f) == [kind |-> f.kind, opt |-> Stored(f.opt),
               uris |-> IF f.kind = "node_group" THEN f.uris ELSE {}]

IsSubscription(c) == c # None /\ c.kind \in {"subscription", "node_group"}
HasPanel(c) == IsSubscription(c) \/ (c # None /\ c.kind = "tracking")
(* Do targets of both types show the same panel?                           *)
SamePanel(c, d) == HasPanel(c) /\ HasPanel(d) /\ IsSubscription(c) = IsSubscription(d)

(* What useState gives the page: an empty form, and nothing taken for saved. *)
Init ==
  /\ conf \in {Payload(f) : f \in {g \in Config : g.opt \notin Rejected}}
  /\ held = {conf}
  /\ page = "open" /\ target = None
  /\ form \in {f \in Config : f.kind = "site" /\ f.opt \in Rejected /\ f.uris = {}}
  /\ saved = None
  /\ editing = FALSE /\ saving = None /\ typed = FALSE /\ raced = FALSE
  /\ query = (CHOOSE q \in Queries : TRUE) /\ rows = None /\ listing = {}
  /\ handlers = {} /\ refreshing = FALSE /\ pending = FALSE
  (* The effect of the first render starts a load. *)
  /\ loads = {[pc |-> "asked", query |-> query, by |-> "page"]}
  /\ checking = None /\ importing = None /\ deleting = FALSE
  /\ moves = MaxMoves

Move == page = "open" /\ moves > 0 /\ moves' = moves - 1

(* A request fails: by itself, or because the target is gone.              *)
Broken ==
  \/ Move
  \/ page = "open" /\ conf = None /\ UNCHANGED moves

Store(c) == conf' = c /\ held' = held \cup {c}

(* UpdateTarget: of a target that is gone it changes no row, and succeeds. *)
Put(c) == IF conf = None THEN UNCHANGED server ELSE Store(c)

(***************************************************************************)
(* loadDetail, and what starts it                                          *)
(***************************************************************************)

(* A call with the query its closure captured, which the handler by awaits. *)
StartLoad(q, by) ==
  /\ Cardinality(loads) < MaxLoads
  /\ loads' = loads \cup {[pc |-> "asked", query |-> q, by |-> by]}
Over(by) == \A l \in loads : l.by # by

(* Mutant: the interval is set up once, with the query of that time.       *)
FirstQuery == CHOOSE q \in Queries : TRUE

(* The query the interval's callback uses: its effect runs again, and so   *)
(* captures it afresh, whenever the sort order, the search text or the     *)
(* range changes.                                                          *)
PollQuery == query

(* The interval of 30 s, which the effect clears while the drawer is open, *)
(* a save runs or the target is being deleted.                             *)
Poll ==
  /\ page = "open" /\ ~editing /\ saving = None /\ ~deleting
  /\ StartLoad(PollQuery, "page")
  /\ UNCHANGED <<server, page, target, drawer, panel, job,
                 checking, importing, deleting, moves>>

RefreshClicked ==
  /\ Move
  /\ StartLoad(query, "page")
  /\ UNCHANGED <<server, page, target, drawer, panel, job,
                 checking, importing, deleting>>

(* The server answers the first requests, for the target and its results.  *)
AnswerTarget(l) ==
  /\ page = "open" /\ l.pc = "asked" /\ conf # None
  /\ loads' = (loads \ {l}) \cup {[pc |-> "answered", query |-> l.query, by |-> l.by, conf |-> conf]}
  /\ UNCHANGED <<server, page, target, drawer, panel, job,
                 checking, importing, deleting, moves>>

(* The two effects that depend on the type of the target run when it is    *)
(* first known or another: they ask for the panel and, of a subscription,  *)
(* take the spinners off.                                                  *)
TypeKnown(c) ==
  LET new == target = None \/ target.kind # c.kind IN
  /\ listing' = IF new /\ HasPanel(c) THEN listing \cup {query} ELSE listing
  /\ IF new /\ IsSubscription(c) THEN refreshing' = FALSE /\ pending' = FALSE
     ELSE UNCHANGED <<refreshing, pending>>

(* Mutant: the reloaded form is not taken for saved.                       *)
ApplyTargetUnmarked(l) ==
  LET c == l.conf IN
  /\ page = "open" /\ l.pc = "answered"
  /\ target' = c /\ form' = c
  /\ saved' = IF saved = None THEN c ELSE saved
  /\ typed' = FALSE /\ raced' = (raced \/ saving # None)
  /\ TypeKnown(c)
  /\ loads' = loads \ {l}
  /\ UNCHANGED <<server, page, editing, saving, query, rows,
                 handlers, checking, importing, deleting, moves>>

(* setTarget, setEditForm and lastSavedEditFormRef in one go, whether the  *)
(* drawer is open or not; then the requests for the panel.                 *)
ApplyTarget(l) ==
  LET c == l.conf IN
  /\ page = "open" /\ l.pc = "answered"
  /\ target' = c /\ form' = c /\ saved' = c
  /\ typed' = FALSE /\ raced' = (raced \/ saving # None)
  /\ TypeKnown(c)
  /\ IF HasPanel(c) \/ c.kind = "ai"
     THEN loads' = (loads \ {l}) \cup
                     {[pc |-> "panel", query |-> l.query, by |-> l.by, rows |-> HasPanel(c)]}
     ELSE loads' = loads \ {l}
  /\ rows' = IF SamePanel(target, c) THEN rows ELSE None
  /\ UNCHANGED <<server, page, editing, saving, query,
                 handlers, checking, importing, deleting, moves>>

ApplyPanel(l) ==
  /\ page = "open" /\ l.pc = "panel"
  /\ rows' = IF l.rows THEN l.query ELSE rows
  /\ loads' = loads \ {l}
  /\ UNCHANGED <<server, page, target, drawer, query, listing, job,
                 checking, importing, deleting, moves>>

(* Any of its requests fails: the error is shown, what was set stays set.  *)
LoadFails(l) ==
  /\ Broken
  /\ loads' = loads \ {l}
  /\ UNCHANGED <<server, page, target, drawer, panel, job,
                 checking, importing, deleting>>

(* handleCheckNow: the button is off while it runs.  It ends in a load     *)
(* with the query of the moment it was clicked.                            *)
CheckNow ==
  /\ Move /\ target # None /\ target.kind # "tracking" /\ checking = None
  /\ checking' = [query |-> query, pc |-> "sent"]
  /\ UNCHANGED <<server, page, target, drawer, panel, job,
                 loads, importing, deleting>>

CheckReturns ==
  /\ page = "open" /\ checking # None /\ checking.pc = "sent" /\ conf # None
  /\ StartLoad(checking.query, "check")
  /\ checking' = [checking EXCEPT !.pc = "reload"]
  /\ UNCHANGED <<server, page, target, drawer, panel, job,
                 importing, deleting, moves>>

(* The finally block, after loadDetail or an error.                        *)
CheckOver ==
  /\ page = "open" /\ checking # None
  /\ \/ checking.pc = "reload" /\ Over("check") /\ UNCHANGED moves
     \/ checking.pc = "sent" /\ Broken
  /\ checking' = None
  /\ UNCHANGED <<server, page, target, drawer, panel, job,
                 loads, importing, deleting>>

(***************************************************************************)
(* The drawer, and the save it makes by itself                             *)
(***************************************************************************)

OpenDrawer ==
  /\ Move /\ ~editing
  /\ editing' = TRUE
  /\ UNCHANGED <<server, page, target, form, saved, saving, typed, raced,
                 panel, job, calls>>

(* The cross, the mask or Escape; a timer that runs is cleared.            *)
CloseDrawer ==
  /\ page = "open" /\ editing
  /\ editing' = FALSE
  /\ UNCHANGED <<server, page, target, form, saved, saving, typed, raced,
                 panel, job, calls, moves>>

(* A field, a chip or the switch of the drawer changes.                    *)
EditField(f) ==
  /\ Move /\ editing /\ f # form
  /\ form' = f /\ typed' = TRUE
  /\ UNCHANGED <<server, page, target, saved, editing, saving, raced,
                 panel, job, calls>>

EditOption(o) == EditField([form EXCEPT !.opt = o])
EditUris(u) == form.kind = "node_group" /\ EditField([form EXCEPT !.uris = u])
ChooseKind(k) == EditField([form EXCEPT !.kind = k])

(* The effect on [editing, editForm, saving] that finds nothing taken for  *)
(* saved yet, because no load has succeeded.                               *)
TakeForSaved ==
  /\ page = "open" /\ editing /\ saving = None /\ saved = None
  /\ saved' = form
  /\ UNCHANGED <<server, page, target, form, editing, saving, typed, raced,
                 panel, job, calls, moves>>

Dirty == saved # None /\ form # saved

(* The same effect's timer of 700 ms, which every change of the form, the  *)
(* drawer or saving sets anew: saveEditConfig validates the form and sends *)
(* it.  A form it refuses stays as it is until the user changes it.        *)
Autosave ==
  /\ page = "open" /\ editing /\ saving = None
  /\ Dirty /\ form.opt \notin Rejected
  /\ saving' = [form |-> form, pc |-> "sent"]
  /\ UNCHANGED <<server, page, target, form, saved, editing, typed, raced,
                 panel, job, calls, moves>>

SaveStored ==
  /\ saving # None /\ saving.pc = "sent"
  /\ Put(Payload(saving.form))
  /\ saving' = [saving EXCEPT !.pc = "stored"]
  /\ UNCHANGED <<page, target, form, saved, editing, typed, raced,
                 panel, job, calls, moves>>

(* Mutant: what the form holds by now is taken for saved.                  *)
SaveReturnsForAll ==
  /\ page = "open" /\ saving # None /\ saving.pc = "stored"
  /\ saved' = form
  /\ saving' = None
  /\ UNCHANGED <<server, page, target, form, editing, typed, raced,
                 panel, job, calls, moves>>

(* What was sent is taken for saved, not what the form holds by now.       *)
SaveReturns ==
  /\ page = "open" /\ saving # None /\ saving.pc = "stored"
  /\ saved' = saving.form
  /\ saving' = None
  /\ UNCHANGED <<server, page, target, form, editing, typed, raced,
                 panel, job, calls, moves>>

(* Mutant: an error leaves saving set.                                     *)
SaveFailsStuck ==
  /\ saving # None /\ Move
  /\ saving' = [saving EXCEPT !.pc = "failed"]
  /\ UNCHANGED <<server, page, target, form, saved, editing, typed, raced,
                 panel, job, calls>>

(* The request or its answer is lost: the effect sees saving fall and      *)
(* starts over.                                                            *)
SaveFails ==
  /\ saving # None /\ Move
  /\ saving' = None
  /\ UNCHANGED <<server, page, target, form, saved, editing, typed, raced,
                 panel, job, calls>>

(***************************************************************************)
(* Deletion, import, and what other tabs do                                *)
(***************************************************************************)

DeleteTarget ==
  /\ Move /\ ~deleting
  /\ deleting' = TRUE
  /\ UNCHANGED <<server, page, target, drawer, panel, job,
                 loads, checking, importing>>

(* The answer takes the page back to the dashboard.                        *)
DeleteReturns ==
  /\ page = "open" /\ deleting
  /\ conf' = None /\ UNCHANGED held
  /\ page' = "left"
  /\ UNCHANGED <<target, drawer, panel, job, calls, moves>>

DeleteFails ==
  /\ deleting /\ Move
  /\ deleting' = FALSE
  /\ UNCHANGED <<server, page, target, drawer, panel, job,
                 loads, checking, importing>>

(* What handleImportNodeGroupURIs sends: all of the target as the page     *)
(* last loaded it, with the URIs of the text box added.                    *)
ImportBody(u) == [target EXCEPT !.uris = @ \cup u]

Import(u) ==
  /\ Move /\ target # None /\ target.kind = "node_group" /\ importing = None
  /\ importing' = [body |-> ImportBody(u), query |-> query, pc |-> "sent"]
  /\ UNCHANGED <<server, page, target, drawer, panel, job,
                 loads, checking, deleting>>

ImportStored ==
  /\ importing # None /\ importing.pc = "sent"
  /\ Put(importing.body)
  /\ importing' = [importing EXCEPT !.pc = "stored"]
  /\ UNCHANGED <<page, target, drawer, panel, job,
                 loads, checking, deleting, moves>>

ImportReturns ==
  /\ page = "open" /\ importing # None /\ importing.pc = "stored"
  /\ StartLoad(importing.query, "import")
  /\ importing' = [importing EXCEPT !.pc = "reload"]
  /\ UNCHANGED <<server, page, target, drawer, panel, job,
                 checking, deleting, moves>>

(* The finally block, after loadDetail or an error.                        *)
ImportOver ==
  /\ page = "open" /\ importing # None
  /\ \/ importing.pc = "reload" /\ Over("import") /\ UNCHANGED moves
     \/ importing.pc # "reload" /\ Move
  /\ importing' = None
  /\ UNCHANGED <<server, page, target, drawer, panel, job,
                 loads, checking, deleting>>

(* handleDeleteNodeFromCard: the server takes the URI out of the group; of *)
(* the page, only the panel is asked for again.                            *)
DeleteNode(u) ==
  /\ Move /\ target # None /\ target.kind = "node_group" /\ conf # None
  /\ u \in conf.uris
  /\ Store([conf EXCEPT !.uris = @ \ {u}])
  /\ listing' = listing \cup {query}
  /\ UNCHANGED <<page, target, drawer, query, rows, job, calls>>

OtherTab(f) ==
  /\ Move /\ conf # None /\ f.opt \notin Rejected /\ Payload(f) # conf
  /\ Store(Payload(f))
  /\ UNCHANGED <<page, target, drawer, panel, job, calls>>

OtherTabDeletes ==
  /\ Move /\ conf # None
  /\ conf' = None /\ UNCHANGED held
  /\ UNCHANGED <<page, target, drawer, panel, job, calls>>

(* Back, or Escape with no drawer open.                                    *)
Leave ==
  /\ Move
  /\ page' = "left"
  /\ UNCHANGED <<server, target, drawer, panel, job, calls>>

(***************************************************************************)
(* The panel                                                               *)
(***************************************************************************)

(* The effect on the sort order and the search text, or on the preset of a *)
(* tracking target.  Of a subscription it takes the spinners off as well.  *)
SetQuery(q) ==
  /\ Move /\ q # query
  /\ query' = q
  /\ listing' = IF HasPanel(target) THEN listing \cup {q} ELSE listing
  /\ IF IsSubscription(target) THEN refreshing' = FALSE /\ pending' = FALSE
     ELSE UNCHANGED <<refreshing, pending>>
  /\ UNCHANGED <<server, page, target, drawer, rows, handlers, calls>>

(* Nothing cancels a request when the next is sent: they may arrive in     *)
(* any order.                                                              *)
RowsArrive(q) ==
  /\ page = "open" /\ q \in listing
  /\ rows' = q /\ listing' = listing \ {q}
  /\ UNCHANGED <<server, page, target, drawer, query, job, calls, moves>>

(* The error is shown; what was there stays.                               *)
RowsFail(q) ==
  /\ q \in listing /\ Broken
  /\ listing' = listing \ {q}
  /\ UNCHANGED <<server, page, target, drawer, query, rows, job, calls>>

(***************************************************************************)
(* handleRefreshSubscriptionLatency                                        *)
(***************************************************************************)

(* Every shown node gets a spinner.  The button is on again as soon as     *)
(* another query has been asked for, though the handler still runs.        *)
RefreshLatency ==
  /\ Move /\ IsSubscription(target) /\ ~refreshing /\ Cardinality(handlers) < MaxJobs
  /\ handlers' = handlers \cup {[pc |-> "job", query |-> query]}
  /\ refreshing' = TRUE /\ pending' = (rows # None)
  /\ UNCHANGED <<server, page, target, drawer, panel, calls>>

(* The last node that had a spinner has its result.                        *)
NodesMeasured ==
  /\ page = "open" /\ pending /\ \E h \in handlers : h.pc = "job"
  /\ pending' = FALSE
  /\ UNCHANGED <<server, page, target, drawer, panel, handlers, refreshing,
                 calls, moves>>

JobReturns(h) ==
  /\ page = "open" /\ h.pc = "job"
  /\ handlers' = (handlers \ {h}) \cup {[h EXCEPT !.pc = "reload"]}
  /\ listing' = listing \cup {h.query}
  /\ UNCHANGED <<server, page, target, drawer, query, rows,
                 refreshing, pending, calls, moves>>

(* Mutant: the flags are reset only when the job went well.                *)
HandlerEndsWell(h) ==
  /\ page = "open"
  /\ \/ /\ h.pc = "reload" /\ UNCHANGED moves
        /\ h.query \notin listing
        /\ refreshing' = FALSE /\ pending' = FALSE
     \/ h.pc = "job" /\ Broken /\ UNCHANGED <<refreshing, pending>>
  /\ handlers' = handlers \ {h}
  /\ UNCHANGED <<server, page, target, drawer, panel, calls>>

(* The finally block, once the reloads are over or after an error.         *)
HandlerEnds(h) ==
  /\ page = "open"
  /\ \/ /\ h.pc = "reload" /\ UNCHANGED moves
        /\ h.query \notin listing
     \/ h.pc = "job" /\ Broken
  /\ handlers' = handlers \ {h}
  /\ refreshing' = FALSE /\ pending' = FALSE
  /\ UNCHANGED <<server, page, target, drawer, panel, calls>>

UserActs ==
  \/ RefreshClicked \/ CheckNow \/ OpenDrawer \/ DeleteTarget \/ Leave
  \/ \E o \in Opts : EditOption(o)
  \/ \E u \in SUBSET Uris : EditUris(u) \/ Import(u)
  \/ \E k \in Kinds : ChooseKind(k)
  \/ \E u \in Uris : DeleteNode(u)
  \/ \E q \in Queries : SetQuery(q)
  \/ RefreshLatency
  \/ \E f \in Config : OtherTab(f)
  \/ OtherTabDeletes

Fails ==
  \/ SaveFails \/ DeleteFails
  \/ \E l \in loads : LoadFails(l)
  \/ \E q \in Queries : RowsFail(q)

Replies ==
  \/ CheckReturns \/ CheckOver \/ SaveStored \/ SaveReturns \/ DeleteReturns
  \/ ImportStored \/ ImportReturns \/ ImportOver
  \/ \E l \in loads : AnswerTarget(l) \/ ApplyTarget(l) \/ ApplyPanel(l)
  \/ \E q \in Queries : RowsArrive(q)
  \/ NodesMeasured
  \/ \E h \in handlers : JobReturns(h) \/ HandlerEnds(h)

Next == Poll \/ CloseDrawer \/ TakeForSaved \/ Autosave \/ UserActs \/ Fails \/ Replies

(* Timers fire, the server answers, and an answer is applied; that fetch   *)
(* has no time limit is not counted against the page.                      *)
Fairness ==
  /\ WF_vars(Poll) /\ WF_vars(TakeForSaved) /\ WF_vars(Autosave)
  /\ WF_vars(CheckReturns) /\ WF_vars(CheckOver) /\ WF_vars(DeleteReturns)
  /\ WF_vars(SaveStored) /\ WF_vars(SaveReturns)
  /\ WF_vars(ImportStored) /\ WF_vars(ImportReturns) /\ WF_vars(ImportOver)
  /\ WF_vars(\E l \in loads : AnswerTarget(l))
  /\ WF_vars(\E l \in loads : ApplyTarget(l))
  /\ WF_vars(\E l \in loads : ApplyPanel(l))
  /\ \A q \in Queries : WF_vars(RowsArrive(q))
  /\ WF_vars(\E h \in handlers : JobReturns(h))
  /\ WF_vars(\E h \in handlers : HandlerEnds(h))

Spec == Init /\ [][Next]_vars /\ Fairness

(***************************************************************************)
(* Properties                                                              *)
(***************************************************************************)

(* Unless the target is gone, what the drawer of a loaded target takes for *)
(* saved is something the server has held: a change made while a save is   *)
(* under way is not marked saved by that save's answer (saveEditConfig,    *)
(* lastSavedEditFormRef).                                                  *)
SavedWasStored ==
  conf # None /\ target # None /\ saved # None => Payload(saved) \in held

(* The drawer finds something to save only if the user typed it: reloading *)
(* an open form does not write it back over what others have stored since. *)
(* The exception is a load that is applied while a save runs, after which  *)
(* the save's answer makes the reloaded form look edited.                  *)
UnsavedIsTyped == Dirty => typed \/ raced

(* A spinner, on the button or on a node, goes with a handler that is      *)
(* still running and will take it off (handleRefreshSubscriptionLatency    *)
(* and the effects that reset its flags).                                  *)
SpinnerMeansJob == refreshing \/ pending => handlers # {}

(* An edit that passes the validations is saved while the drawer stays     *)
(* open, whatever failed on the way.                                       *)
EditsSettle ==
  []<>(page = "left" \/ conf = None \/ ~editing \/ form.opt \in Rejected \/ ~Dirty)

(* When nobody changes anything any more and the drawer is closed, the     *)
(* page comes to show the target as the server has it and the panel as it  *)
(* was last asked for, though answers may arrive in any order.             *)
PageCatchesUp ==
  <>[](page = "left" \/ conf = None \/ editing
       \/ /\ target = conf
          /\ HasPanel(conf) => rows = query)
===============================================================================
