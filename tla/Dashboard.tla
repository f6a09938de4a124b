------------------------------ MODULE Dashboard ------------------------------
(***************************************************************************)
(* The dashboard of the web console, DashboardPage of web/src/App.tsx: how *)
(* it loads the targets and their details, the cards' buttons, selection,  *)
(* the operations on a selection, creation and import, against the targets *)
(* and check results the server keeps and other tabs change.               *)
(*                                                                         *)
(* A target is what its fields hold, where name stands for the name and    *)
(* the address, and whether it is enabled; together they are what          *)
(* buildTargetIdentity compares.  Ids grow and are not given twice.  The   *)
(* maps of results, finances, tracking and subscription summaries are one  *)
(* set of ids, those with details shown.  A request and the server's       *)
(* answer are one step where only the server looks at the state in         *)
(* between; a request that fails was carried out or was not.               *)
(***************************************************************************)
EXTENDS Integers, Sequences, FiniteSets, Functions

CONSTANTS
  Whats,     (* what the fields of a target can hold: records of a name, a  *)
             (* type, an interval, a timeout and a config                   *)
  Aliases,   (* the other names of types the page lets through (those in    *)
             (* capitals), a function to the types                          *)
  ConfigOf,  (* what normalizeSubscriptionConfig makes of each config       *)
  Given,     (* the targets there are at first: sequences, by id            *)
  Files,     (* the import files: sequences of rows                         *)
  Bad,       (* a row without a name, a type or an address                  *)
  Filters,   (* which of Whats a search text or a type chip lets through    *)
  MaxIds,    (* the targets created in all                                  *)
  MaxLoads,  (* how many calls of loadDashboard the interval adds to        *)
  MaxMoves,  (* clicks, changes by other tabs and failures in all           *)
  None

Target == [what : Whats, enabled : BOOLEAN]
Ids == 1..MaxIds

(***************************************************************************)
(* What the handlers of CreateTarget and UpdateTarget make of a target     *)
(***************************************************************************)

Larger(m, n) == IF m < n THEN n ELSE m

normalizeTargetType(type) == IF type \in DOMAIN Aliases THEN Aliases[type] ELSE type

NormalizedFields(w) ==
  LET type == normalizeTargetType(w.type)
      subscriptionLike == type \in {"subscription", "node_group"}
  IN [w EXCEPT
        !.type = type,
        !.interval = IF type = "tracking" THEN 60
                     ELSE IF subscriptionLike THEN Larger(0, @)
                     ELSE IF @ <= 0 THEN 60 ELSE @,
        !.timeout = IF type = "tracking" \/ @ <= 0 THEN 5000 ELSE @,
        !.config = IF subscriptionLike THEN ConfigOf[@]
                   ELSE IF type = "port" /\ @ = "{}" THEN "protocol: ping" ELSE @]
Normalized(t) == [t EXCEPT !.what = NormalizedFields(@)]

(* What normalizeImportItem makes of a row it does not refuse.             *)
Payload(row) == [row EXCEPT !.what.interval = Larger(0, @), !.what.timeout = Larger(200, @)]

(* Whats has what the page and the server make of its elements.            *)
ASSUME DashboardAssumption ==
  /\ \A w \in Whats : NormalizedFields(w) \in Whats
  /\ \A t \in Target : Payload(t) \in Target
  /\ Given \subseteq Seq(Target)
  /\ Files \subseteq Seq(Target \cup {Bad}) /\ Bad \notin Target
  /\ Filters \subseteq SUBSET Whats
  /\ {MaxIds, MaxLoads, MaxMoves} \subseteq Nat
  /\ None \notin Nat

VARIABLES
  db,        (* the monitor_targets rows, by id                             *)
  checks,    (* the ids with rows in check_results                          *)
  nextId,    (* the id of the next row                                      *)
  shown,     (* targets: the list the page holds, by id                     *)
  details,   (* the ids resultMap and the other maps have an entry for      *)
  loads,     (* the calls of loadDashboard in flight                        *)
  checking,  (* checkingMap: the cards whose check button is off            *)
  disabling, (* disablingMap: the cards whose switch is off                 *)
  probing,   (* the calls of handleCheckNow that run                        *)
  toggles,   (* the calls of handleToggleTarget that run                    *)
  creating,  (* None, or what the POST of the form creates                  *)
  filter,    (* what the search text and the type chips let through         *)
  selected,  (* selectedTargetIds                                           *)
  anchor,    (* selectionAnchorId                                           *)
  asking,    (* the dialog that confirms the deletion is open               *)
  bulk,      (* NoBulk, or the operation on the selection that runs         *)
  imports,   (* the calls of importTargetsFromText that run                 *)
  importing, (* bulkImporting                                               *)
  moves      (* what is left of MaxMoves                                    *)

server == <<db, checks, nextId>>
list == <<shown, details>>
cards == <<checking, disabling, probing, toggles, creating>>
selection == <<filter, selected, anchor, asking>>
import == <<imports, importing>>
vars == <<server, list, loads, cards, selection, bulk, import, moves>>

NoTargets == [i \in {} |-> None]
NoBulk == [op |-> "none", pc |-> "requests", of |-> {}, body |-> NoTargets,
           left |-> {}, failed |-> {}]

(* A load belongs to the handler that awaits it; nobody awaits a Page one. *)
By(handler, id) == [handler |-> handler, id |-> id]
Page == By("page", 0)

Init ==
  /\ db \in Given
  /\ nextId = Cardinality(DOMAIN db) + 1
  /\ checks = DOMAIN db
  /\ shown = NoTargets /\ details = {}
  /\ loads = {[pc |-> "asked", by |-> Page]}
  /\ checking = {} /\ disabling = {} /\ probing = {} /\ toggles = {} /\ creating = None
  /\ filter = Whats /\ selected = {} /\ anchor = None /\ asking = FALSE
  /\ bulk = NoBulk /\ imports = {} /\ importing = FALSE
  /\ moves = MaxMoves

Move == moves > 0 /\ moves' = moves - 1

(***************************************************************************)
(* The server                                                              *)
(***************************************************************************)

(* CreateTarget.  No row needs to differ from another but in its id.  A    *)
(* subscription is pulled for the first time in the background, which      *)
(* gives a result or does not.                                             *)
Insert(t) ==
  /\ nextId \in Ids
  /\ db' = [i \in DOMAIN db \cup {nextId} |-> IF i = nextId THEN Normalized(t) ELSE db[i]]
  /\ nextId' = nextId + 1
  /\ checks' \in IF Normalized(t).what.type = "subscription" /\ t.enabled
                 THEN {checks, checks \cup {nextId}} ELSE {checks}

(* UpdateTarget: of an id that is gone it changes no row, and succeeds.    *)
Update(i, t) ==
  /\ db' = IF i \in DOMAIN db THEN [db EXCEPT ![i] = Normalized(t)] ELSE db
  /\ UNCHANGED <<checks, nextId>>

(* DeleteTarget: the row of the target and nothing else.                   *)
Delete(i) ==
  /\ db' = Restrict(db, DOMAIN db \ {i})
  /\ UNCHANGED <<checks, nextId>>

(* CheckNow: it fails for an id that is gone when it starts.               *)
Check(i) ==
  /\ checks' = IF i \in DOMAIN db THEN checks \cup {i} ELSE checks
  /\ UNCHANGED <<db, nextId>>

OtherTab ==
  /\ Move
  /\ \/ \E w \in Whats : Insert([what |-> w, enabled |-> TRUE])
     \/ \E i \in DOMAIN db, t \in Target : Normalized(t) # db[i] /\ Update(i, t)
     \/ \E i \in DOMAIN db : Delete(i)
  /\ UNCHANGED <<list, loads, cards, selection, bulk, import>>

(***************************************************************************)
(* loadDashboard                                                           *)
(***************************************************************************)

StartLoad(by) == loads' = loads \cup {[pc |-> "asked", by |-> by]}
Over(by) == \A l \in loads : l.by # by

(* The interval of 30 s, whatever else runs.                               *)
Poll ==
  /\ Cardinality(loads) < MaxLoads
  /\ StartLoad(Page)
  /\ UNCHANGED <<server, list, cards, selection, bulk, import, moves>>

AnswerTargets(l) ==
  /\ l.pc = "asked"
  /\ loads' = (loads \ {l}) \cup {[pc |-> "answered", by |-> l.by, snap |-> db]}
  /\ UNCHANGED <<server, list, cards, selection, bulk, import, moves>>

(* Mutant: the answer is merged into the list.                             *)
ApplyTargetsMerged(l) ==
  /\ l.pc = "answered"
  /\ shown' = [i \in DOMAIN l.snap \cup DOMAIN shown |->
                 IF i \in DOMAIN l.snap THEN l.snap[i] ELSE shown[i]]
  /\ loads' = (loads \ {l}) \cup {[pc |-> "details", by |-> l.by, ids |-> DOMAIN l.snap]}
  /\ UNCHANGED <<server, details, cards, selection, bulk, import, moves>>

(* Mutant: no effect on targets prunes the selection.                      *)
ApplyTargetsUnpruned(l) ==
  /\ l.pc = "answered"
  /\ shown' = l.snap
  /\ loads' = (loads \ {l}) \cup {[pc |-> "details", by |-> l.by, ids |-> DOMAIN l.snap]}
  /\ UNCHANGED <<server, details, cards, selection, bulk, import, moves>>

(* setTargets; the effect on targets takes what is gone out of the         *)
(* selection.  Loads are not ordered: an older answer may come last.       *)
ApplyTargets(l) ==
  /\ l.pc = "answered"
  /\ shown' = l.snap
  /\ selected' = selected \cap DOMAIN l.snap
  /\ anchor' = IF anchor \in DOMAIN l.snap THEN anchor ELSE None
  /\ loads' = (loads \ {l}) \cup {[pc |-> "details", by |-> l.by, ids |-> DOMAIN l.snap]}
  /\ UNCHANGED <<server, details, cards, filter, asking, bulk, import, moves>>

(* The requests per target are all answered: results, finances, tracking   *)
(* summaries (an unknown route counts as no data), and summaries of        *)
(* subscriptions (any error counts as no data).                            *)
ApplyDetails(l) ==
  /\ l.pc = "details"
  /\ details' = l.ids
  /\ loads' = loads \ {l}
  /\ UNCHANGED <<server, shown, cards, selection, bulk, import, moves>>

(* One of its requests fails: the error is shown, the rest is left out.    *)
LoadFails(l) ==
  /\ Move
  /\ loads' = loads \ {l}
  /\ UNCHANGED <<server, list, cards, selection, bulk, import>>

(***************************************************************************)
(* The buttons of a card                                                   *)
(***************************************************************************)

(* handleCheckNow: the card's button is off while it runs.                 *)
CheckNow(i) ==
  /\ Move /\ i \in DOMAIN shown /\ shown[i].enabled /\ i \notin checking
  /\ shown[i].what.type # "tracking"
  /\ checking' = checking \cup {i}
  /\ probing' = probing \cup {[id |-> i, pc |-> "sent"]}
  /\ UNCHANGED <<server, list, loads, disabling, toggles, creating, selection, bulk, import>>

CheckReturns(p) ==
  /\ p \in probing /\ p.pc = "sent" /\ p.id \in DOMAIN db
  /\ Check(p.id) /\ StartLoad(By("check", p.id))
  /\ probing' = (probing \ {p}) \cup {[p EXCEPT !.pc = "reload"]}
  /\ UNCHANGED <<list, checking, disabling, toggles, creating, selection, bulk, import, moves>>

(* The finally block, after loadDashboard or an error.                     *)
CheckOver(p) ==
  /\ p \in probing
  /\ \/ p.pc = "reload" /\ Over(By("check", p.id)) /\ UNCHANGED <<server, moves>>
     \/ p.pc = "sent" /\ p.id \notin DOMAIN db /\ UNCHANGED <<server, moves>>
     \/ p.pc = "sent" /\ Move /\ (Check(p.id) \/ UNCHANGED server)
  /\ checking' = checking \ {p.id} /\ probing' = probing \ {p}
  /\ UNCHANGED <<list, loads, disabling, toggles, creating, selection, bulk, import>>

(* handleToggleTarget: what it sends is the target as shown, all of it,    *)
(* with enabled the other way round.                                       *)
ToggleTarget(i) ==
  /\ Move /\ i \in DOMAIN shown /\ i \notin disabling
  /\ disabling' = disabling \cup {i}
  /\ toggles' = toggles \cup
       {[id |-> i, pc |-> "sent", body |-> [shown[i] EXCEPT !.enabled = ~@]]}
  /\ UNCHANGED <<server, list, loads, checking, probing, creating, selection, bulk, import>>

ToggleReturns(t) ==
  /\ t \in toggles /\ t.pc = "sent"
  /\ Update(t.id, t.body) /\ StartLoad(By("toggle", t.id))
  /\ toggles' = (toggles \ {t}) \cup {[t EXCEPT !.pc = "reload"]}
  /\ UNCHANGED <<list, checking, disabling, probing, creating, selection, bulk, import, moves>>

(* The finally block, as above.                                            *)
ToggleOver(t) ==
  /\ t \in toggles
  /\ \/ t.pc = "reload" /\ Over(By("toggle", t.id)) /\ UNCHANGED <<server, moves>>
     \/ t.pc = "sent" /\ Move /\ (Update(t.id, t.body) \/ UNCHANGED server)
  /\ toggles' = toggles \ {t} /\ disabling' = disabling \ {t.id}
  /\ UNCHANGED <<list, loads, checking, probing, creating, selection, bulk, import>>

(* handleCreateTarget with a form its validations let through.             *)
CreateTarget(w) ==
  /\ Move /\ creating = None
  /\ creating' = [what |-> w, enabled |-> TRUE]
  /\ UNCHANGED <<server, list, loads, checking, disabling, probing, toggles,
                 selection, bulk, import>>

CreateReturns ==
  /\ creating # None
  /\ \/ Insert(creating) /\ StartLoad(Page) /\ UNCHANGED moves
     \/ Move /\ (Insert(creating) \/ UNCHANGED server) /\ UNCHANGED loads
  /\ creating' = None
  /\ UNCHANGED <<list, checking, disabling, probing, toggles,
                 selection, bulk, import>>

(***************************************************************************)
(* The selection                                                           *)
(***************************************************************************)

visible == {i \in DOMAIN shown : shown[i].what \in filter}

SetFilter(f) ==
  /\ Move /\ f # filter
  /\ filter' = f
  /\ UNCHANGED <<server, list, loads, cards, selected, anchor, asking, bulk, import>>

(* A click with the control key, or any click once something is selected.  *)
ToggleSelected(i) ==
  /\ Move /\ i \in visible
  /\ selected' = IF i \in selected THEN selected \ {i} ELSE selected \cup {i}
  /\ anchor' = i
  /\ UNCHANGED <<server, list, loads, cards, filter, asking, bulk, import>>

(* A click with the shift key: all visible cards from the anchor to this.  *)
SelectRange(i) ==
  LET from == IF anchor \in visible THEN anchor ELSE i IN
  /\ Move /\ i \in visible
  /\ selected' = selected \cup {j \in visible : j \in from..i \/ j \in i..from}
  /\ anchor' = from
  /\ UNCHANGED <<server, list, loads, cards, filter, asking, bulk, import>>

(* handleToggleSelectAllVisible.  The list is sorted by falling id.        *)
SelectAllVisible ==
  /\ Move /\ visible # {}
  /\ IF visible \subseteq selected
     THEN /\ selected' = selected \ visible
          /\ anchor' = IF anchor \in visible THEN None ELSE anchor
     ELSE /\ selected' = selected \cup visible
          /\ anchor' = IF anchor # None THEN anchor
                       ELSE CHOOSE i \in visible : \A j \in visible : j <= i
  /\ UNCHANGED <<server, list, loads, cards, filter, asking, bulk, import>>

(* The buttons of the selection toolbar are off while one of them, or an   *)
(* import, is at work.                                                     *)
ToolbarOn == selected # {} /\ bulk = NoBulk /\ ~importing

ClearSelection ==
  /\ Move /\ ToolbarOn
  /\ selected' = {} /\ anchor' = None
  /\ UNCHANGED <<server, list, loads, cards, filter, asking, bulk, import>>

(***************************************************************************)
(* Operations on the selection                                             *)
(***************************************************************************)

Selected == selected \cap DOMAIN shown

(* All its requests are sent at once: for each target, what was shown of   *)
(* it when the button was clicked.                                         *)
StartBulk(op, ids) ==
  /\ ids # {}
  /\ bulk' = [op |-> op, pc |-> "requests", of |-> ids, body |-> Restrict(shown, ids),
              left |-> ids, failed |-> {}]
  /\ checking' = IF op = "refresh" THEN checking \cup ids ELSE checking
  /\ disabling' = IF op = "disable" THEN disabling \cup ids ELSE disabling

BulkRefresh ==
  /\ Move /\ ToolbarOn
  /\ StartBulk("refresh", {i \in Selected : shown[i].enabled /\ shown[i].what.type # "tracking"})
  /\ UNCHANGED <<server, list, loads, probing, toggles, creating, selection, import>>

BulkDisable ==
  /\ Move /\ ToolbarOn
  /\ StartBulk("disable", {i \in Selected : shown[i].enabled})
  /\ UNCHANGED <<server, list, loads, probing, toggles, creating, selection, import>>

AskBulkDelete ==
  /\ Move /\ ToolbarOn /\ ~asking
  /\ asking' = TRUE
  /\ UNCHANGED <<server, list, loads, cards, filter, selected, anchor, bulk, import>>

CancelBulkDelete ==
  /\ asking /\ bulk = NoBulk
  /\ asking' = FALSE
  /\ UNCHANGED <<server, list, loads, cards, filter, selected, anchor, bulk, import, moves>>

(* The dialog's button; a file dropped meanwhile does not turn it off.     *)
BulkDelete ==
  /\ asking /\ bulk = NoBulk
  /\ StartBulk("delete", Selected)
  /\ UNCHANGED <<server, list, loads, probing, toggles, creating, selection, import, moves>>

BulkDoes(i) ==
  \/ bulk.op = "refresh" /\ Check(i)
  \/ bulk.op = "disable" /\ Update(i, [bulk.body[i] EXCEPT !.enabled = FALSE])
  \/ bulk.op = "delete" /\ Delete(i)

(* One of the requests settles.                                            *)
BulkSettles(i) ==
  /\ bulk # NoBulk /\ i \in bulk.left
  /\ \/ /\ BulkDoes(i) /\ UNCHANGED moves
        /\ bulk' = [bulk EXCEPT !.left = @ \ {i}]
     \/ /\ Move /\ (BulkDoes(i) \/ UNCHANGED server)
        /\ bulk' = [bulk EXCEPT !.left = @ \ {i}, !.failed = @ \cup {i}]
  /\ UNCHANGED <<list, loads, cards, selection, import>>

(* Promise.allSettled is done: loadDashboard, awaited.                     *)
BulkReloads ==
  /\ bulk # NoBulk /\ bulk.pc = "requests" /\ bulk.left = {}
  /\ StartLoad(By("bulk", 0))
  /\ bulk' = [bulk EXCEPT !.pc = "reload"]
  /\ UNCHANGED <<server, list, cards, selection, import, moves>>

(* Mutant: only the cards whose request succeeded are turned on again.     *)
BulkEndsForSome ==
  /\ bulk # NoBulk /\ bulk.pc = "reload" /\ Over(By("bulk", 0))
  /\ LET again == IF bulk.op = "delete" THEN bulk.failed ELSE {} IN
       /\ selected' = again
       /\ anchor' = IF again = {} THEN None ELSE CHOOSE i \in again : \A j \in again : i <= j
  /\ asking' = (asking /\ bulk.op # "delete")
  /\ checking' = IF bulk.op = "refresh" THEN checking \ (bulk.of \ bulk.failed) ELSE checking
  /\ disabling' = IF bulk.op = "disable" THEN disabling \ (bulk.of \ bulk.failed) ELSE disabling
  /\ bulk' = NoBulk
  /\ UNCHANGED <<server, list, loads, probing, toggles, creating, filter, import, moves>>

(* Of a deletion, what could not be deleted is selected again.             *)
BulkEnds ==
  /\ bulk # NoBulk /\ bulk.pc = "reload" /\ Over(By("bulk", 0))
  /\ LET again == IF bulk.op = "delete" THEN bulk.failed ELSE {} IN
       /\ selected' = again
       /\ anchor' = IF again = {} THEN None ELSE CHOOSE i \in again : \A j \in again : i <= j
  /\ asking' = (asking /\ bulk.op # "delete")
  /\ checking' = IF bulk.op = "refresh" THEN checking \ bulk.of ELSE checking
  /\ disabling' = IF bulk.op = "disable" THEN disabling \ bulk.of ELSE disabling
  /\ bulk' = NoBulk
  /\ UNCHANGED <<server, list, loads, probing, toggles, creating, filter, import, moves>>

(***************************************************************************)
(* Import                                                                  *)
(***************************************************************************)

Identities(f) == {f[i] : i \in DOMAIN f}

(* normalizeImportItem: a row that lacks a name, a type or an address.     *)
Refused(row) == row = Bad

StartImport(f) ==
  /\ Move /\ f # <<>>
  /\ imports' = imports \cup {[rows |-> f, pc |-> "rows", seen |-> Identities(shown),
                               start |-> Identities(shown), made |-> <<>>]}
  /\ importing' = TRUE
  /\ UNCHANGED <<server, list, loads, cards, selection, bulk>>

(* With the button, which is off during an import, or dropped on the page, *)
(* where nothing refuses it.                                               *)
ChooseFile(f) == ~importing /\ StartImport(f)
DropFile(f) == StartImport(f)

(* A target an import created: what it sent, what the server made of it,   *)
(* and whether the reply was lost.                                         *)
Made(t, lost) == [sent |-> t, stored |-> Normalized(t), lost |-> lost]

(* The next row is posted: the page accepts it and has not seen its        *)
(* identity.                                                               *)
Posts(m) == ~Refused(Head(m.rows)) /\ Payload(Head(m.rows)) \notin m.seen

(* Mutant: what the import itself creates is not looked at.                *)
ImportRowForgetful(m) ==
  LET sent == Payload(Head(m.rows)) rest == [m EXCEPT !.rows = Tail(@)] IN
  /\ m.rows # <<>>
  /\ \/ /\ ~Posts(m) /\ UNCHANGED <<server, moves>>
        /\ imports' = (imports \ {m}) \cup {rest}
     \/ /\ Posts(m) /\ Insert(sent) /\ UNCHANGED moves
        /\ imports' = (imports \ {m}) \cup {[rest EXCEPT !.made = Append(@, Made(sent, FALSE))]}
  /\ UNCHANGED <<list, loads, cards, selection, bulk, importing>>

(* One row: it is passed over; it is stored, and its identity is seen from *)
(* now on; it is stored and the reply is lost; or it is not stored, since  *)
(* the server refuses it or it does not arrive.                            *)
ImportRow(m) ==
  LET sent == Payload(Head(m.rows)) rest == [m EXCEPT !.rows = Tail(@)] IN
  /\ m.rows # <<>>
  /\ \/ /\ ~Posts(m) /\ UNCHANGED <<server, moves>>
        /\ imports' = (imports \ {m}) \cup {rest}
     \/ /\ Posts(m) /\ Insert(sent) /\ UNCHANGED moves
        /\ imports' = (imports \ {m}) \cup
             {[rest EXCEPT !.seen = @ \cup {sent}, !.made = Append(@, Made(sent, FALSE))]}
     \/ /\ Posts(m) /\ Insert(sent) /\ Move
        /\ imports' = (imports \ {m}) \cup {[rest EXCEPT !.made = Append(@, Made(sent, TRUE))]}
     \/ /\ Posts(m) /\ UNCHANGED server /\ Move
        /\ imports' = (imports \ {m}) \cup {rest}
  /\ UNCHANGED <<list, loads, cards, selection, bulk, importing>>

(* successCount > 0                                                        *)
Succeeded(m) == \E k \in DOMAIN m.made : ~m.made[k].lost

ImportReloads(m) ==
  /\ m.rows = <<>> /\ Succeeded(m) /\ m.pc = "rows"
  /\ StartLoad(By("import", 0))
  /\ imports' = (imports \ {m}) \cup {[m EXCEPT !.pc = "reload"]}
  /\ UNCHANGED <<server, list, cards, selection, bulk, importing, moves>>

(* The flag falls with the first of two imports that end.                  *)
ImportEnds(m) ==
  /\ m.rows = <<>>
  /\ ~Succeeded(m) \/ (m.pc = "reload" /\ Over(By("import", 0)))
  /\ imports' = imports \ {m} /\ importing' = FALSE
  /\ UNCHANGED <<server, list, loads, cards, selection, bulk, moves>>

UserActs ==
  \/ \E i \in Ids : CheckNow(i) \/ ToggleTarget(i) \/ ToggleSelected(i) \/ SelectRange(i)
  \/ \E w \in Whats : CreateTarget(w)
  \/ \E f \in Filters : SetFilter(f)
  \/ \E f \in Files : ChooseFile(f) \/ DropFile(f)
  \/ SelectAllVisible \/ ClearSelection
  \/ BulkRefresh \/ BulkDisable \/ AskBulkDelete \/ CancelBulkDelete \/ BulkDelete

Replies ==
  \/ \E l \in loads : AnswerTargets(l) \/ ApplyTargets(l) \/ ApplyDetails(l)
  \/ \E p \in probing : CheckReturns(p) \/ CheckOver(p)
  \/ \E t \in toggles : ToggleReturns(t) \/ ToggleOver(t)
  \/ \E i \in Ids : BulkSettles(i)
  \/ CreateReturns \/ BulkReloads \/ BulkEnds
  \/ \E m \in imports : ImportRow(m) \/ ImportReloads(m) \/ ImportEnds(m)

Next == Poll \/ OtherTab \/ UserActs \/ Replies \/ (\E l \in loads : LoadFails(l))

(* Timers fire, and requests are answered and their answers applied.       *)
Fairness ==
  /\ WF_vars(Poll)
  /\ WF_vars(\E l \in loads : AnswerTargets(l))
  /\ WF_vars(\E l \in loads : ApplyTargets(l))
  /\ WF_vars(\E l \in loads : ApplyDetails(l))
  /\ WF_vars(\E p \in probing : CheckReturns(p) \/ CheckOver(p))
  /\ WF_vars(\E t \in toggles : ToggleReturns(t) \/ ToggleOver(t))
  /\ WF_vars(CreateReturns) /\ WF_vars(\E i \in Ids : BulkSettles(i))
  /\ WF_vars(BulkReloads) /\ WF_vars(BulkEnds)
  /\ WF_vars(\E m \in imports : ImportRow(m) \/ ImportReloads(m) \/ ImportEnds(m))

Spec == Init /\ [][Next]_vars /\ Fairness

(***************************************************************************)
(* Properties                                                              *)
(***************************************************************************)

(* An import creates a double only for one of two causes: of a target that *)
(* was shown when it started, where the server stores something else than  *)
(* it is sent; of one it has created itself, where the reply to that was   *)
(* lost, or again the two were sent as different targets.  So a file of    *)
(* what the server keeps as it is doubles nothing that was shown, and      *)
(* itself only if a reply is lost (importTargetsFromText, identitySet).    *)
DoublesHaveCause ==
  \A m \in imports :
    /\ \A k \in DOMAIN m.made : m.made[k].stored \in m.start =>
         m.made[k].sent # m.made[k].stored
    /\ \A k, l \in DOMAIN m.made : k < l /\ m.made[k].stored = m.made[l].stored =>
         m.made[k].lost \/ m.made[k].sent # m.made[l].sent

(* The cards the operation op on the selection, if it runs, has turned off. *)
BulkOf(op) == IF bulk.op = op THEN bulk.of ELSE {}

(* What is off has somebody at work who will turn it on again, whatever    *)
(* fails and though a card's own call and an operation on the selection    *)
(* may turn it off together: a card's check button, its switch             *)
(* (handleCheckNow, handleToggleTarget, handleBulkRefresh,                 *)
(* handleBulkDisable), and the import button and the selection toolbar     *)
(* (importTargetsFromText).                                                *)
OffMeansBusy ==
  /\ \A i \in checking : i \in BulkOf("refresh") \/ \E p \in probing : p.id = i
  /\ \A i \in disabling : i \in BulkOf("disable") \/ \E t \in toggles : t.id = i
  /\ importing => imports # {}

(* When nobody changes anything any more the dashboard comes to show what  *)
(* the server has, with the details of every target, though loads overlap  *)
(* and an older answer may be applied after a newer (loadDashboard and its *)
(* interval).                                                              *)
ShownCatchesUp == <>[](shown = db /\ details = DOMAIN db)

(* A selection that names a target which is gone does not last: what       *)
(* handleBulkDelete selects again may name one, the effect on targets      *)
(* takes it out.                                                           *)
SelectionCatchesUp == <>[](selected \subseteq DOMAIN db /\ anchor \in DOMAIN db \cup {None})

(* What the dialog that confirms a deletion says: the check results of the *)
(* deleted targets are deleted with them.                                  *)
ResultsGoWithTarget ==
  bulk.op = "delete" => checks \cap (bulk.of \ (bulk.left \cup bulk.failed)) = {}
===============================================================================
