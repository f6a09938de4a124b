---------------------------- MODULE DashboardProofs ----------------------------
(***************************************************************************)
(* Theorems about Dashboard: an import creates a double only for a cause,  *)
(* and what is off has somebody at work who will turn it on again.         *)
(***************************************************************************)
EXTENDS Dashboard, TLAPS

(* The record of a call of importTargetsFromText, and of what it created.  *)
ImportFields == {"rows", "pc", "seen", "start", "made"}
Creation == [sent : Target, stored : Target, lost : BOOLEAN]

(* What an import has sent was not shown when it started.  It is in the    *)
(* identities it compares with, unless the reply was lost; so what it sent *)
(* before was lost too if it is sent again.                                *)
Apart(made, seen, start) ==
  /\ \A k \in 1..Len(made) : made[k].sent \notin start
  /\ \A k \in 1..Len(made) : made[k].lost \/ made[k].sent \in seen
  /\ \A k, l \in 1..Len(made) : k < l /\ made[k].sent = made[l].sent => made[k].lost
Remembered ==
  \A m \in imports :
    /\ m.rows \in Seq(Target \cup {Bad})
    /\ m.made \in Seq(Creation)
    /\ m.start \subseteq m.seen
    /\ Apart(m.made, m.seen, m.start)
    /\ DOMAIN m = ImportFields

(* What the page makes of a row, and the server of what it is sent, are    *)
(* targets.                                                                *)
LEMMA MadeIsCreation ==
  ASSUME NEW row \in Target, NEW lost \in BOOLEAN
  PROVE  Payload(row) \in Target /\ Made(Payload(row), lost) \in Creation
<1>1. Payload(row) \in Target
  BY DashboardAssumption
<1> DEFINE sent == Payload(row)
<1>2. Normalized(sent) \in Target
  <2>1. sent \in Target /\ sent.what \in Whats
    BY <1>1 DEF Target
  <2>2. NormalizedFields(sent.what) \in Whats
    BY <2>1, DashboardAssumption
  <2> HIDE DEF sent
  <2>3. QED
    BY <2>1, <2>2 DEF Normalized, Target
<1>3. QED
  BY <1>1, <1>2 DEF Made, Creation

(* Appending a creation whose identity was not seen keeps the list apart.  *)
LEMMA AppendApart ==
  ASSUME NEW s \in Seq(Creation), NEW e \in Creation, NEW seen, NEW start,
         Apart(s, seen, start), start \subseteq seen, e.sent \notin seen,
         NEW grown, seen \subseteq grown, e.lost \/ e.sent \in grown,
         NEW t, t = Append(s, e)
  PROVE  t \in Seq(Creation) /\ Apart(t, grown, start)
<1>1. t \in Seq(Creation) /\ Len(t) = Len(s) + 1 /\ Len(s) \in Nat
  OBVIOUS
<1>2. \A k \in 1..Len(t) : k \in 1..Len(s) \/ k = Len(s) + 1
  BY <1>1
<1>3. t[Len(s) + 1] = e /\ \A k \in 1..Len(s) : t[k] = s[k]
  OBVIOUS
<1>4. \A k \in 1..Len(t) : t[k].sent \notin start /\ (t[k].lost \/ t[k].sent \in grown)
  BY <1>2, <1>3 DEF Apart
<1>5. ASSUME NEW k \in 1..Len(t), NEW l \in 1..Len(t), k < l, t[k].sent = t[l].sent
      PROVE  t[k].lost
  <2>1. k \in 1..Len(s)
    BY <1>1, <1>2, <1>5
  <2>2. CASE l \in 1..Len(s)
    BY <1>3, <1>5, <2>1, <2>2 DEF Apart
  <2>3. CASE l = Len(s) + 1
    BY <1>3, <1>5, <2>1, <2>3 DEF Apart
  <2>4. QED
    BY <1>2, <2>2, <2>3
<1>6. QED
  BY <1>1, <1>4, <1>5 DEF Apart

(* One row of an import.                                                   *)
LEMMA RowKeeps ==
  ASSUME Remembered, NEW m \in imports, ImportRow(m)
  PROVE  Remembered'
<1> DEFINE sent == Payload(Head(m.rows))
           rest == [m EXCEPT !.rows = Tail(@)]
           known == [rest EXCEPT !.seen = @ \cup {sent}, !.made = Append(@, Made(sent, FALSE))]
           unknown == [rest EXCEPT !.made = Append(@, Made(sent, TRUE))]
<1>1. /\ m.rows \in Seq(Target \cup {Bad}) /\ m.rows # <<>>
      /\ m.made \in Seq(Creation) /\ m.start \subseteq m.seen
      /\ Apart(m.made, m.seen, m.start)
      /\ DOMAIN m = ImportFields
  BY DEF Remembered, ImportRow
<1>2. Head(m.rows) \in Target \cup {Bad} /\ Tail(m.rows) \in Seq(Target \cup {Bad})
  BY <1>1
<1>3. /\ DOMAIN rest = ImportFields /\ rest.rows = Tail(m.rows) /\ rest.seen = m.seen
      /\ rest.start = m.start /\ rest.made = m.made
  BY <1>1 DEF ImportFields
<1>4. /\ DOMAIN known = ImportFields /\ known.rows = Tail(m.rows)
      /\ known.seen = m.seen \cup {sent} /\ known.start = m.start
      /\ known.made = Append(m.made, Made(sent, FALSE))
  BY <1>3 DEF ImportFields
<1>5. /\ DOMAIN unknown = ImportFields /\ unknown.rows = Tail(m.rows)
      /\ unknown.seen = m.seen /\ unknown.start = m.start
      /\ unknown.made = Append(m.made, Made(sent, TRUE))
  BY <1>3 DEF ImportFields
<1>6. \/ imports' = (imports \ {m}) \cup {rest}
      \/ Posts(m) /\ imports' = (imports \ {m}) \cup {known}
      \/ Posts(m) /\ imports' = (imports \ {m}) \cup {unknown}
  BY DEF ImportRow
<1>7. ASSUME Posts(m), NEW lost \in BOOLEAN
      PROVE  /\ Made(sent, lost) \in Creation /\ sent \notin m.seen
             /\ Made(sent, lost).sent = sent /\ Made(sent, lost).lost = lost
  <2>1. Head(m.rows) \in Target /\ sent \notin m.seen
    BY <1>2, <1>7 DEF Posts, Refused
  <2>2. Made(sent, lost) \in Creation
    BY <2>1, MadeIsCreation
  <2>3. QED
    BY <2>1, <2>2 DEF Made
<1> HIDE DEF sent, rest, known, unknown
<1>8. CASE imports' = (imports \ {m}) \cup {rest}
  BY <1>1, <1>2, <1>3, <1>8 DEF Remembered
<1>9. CASE Posts(m) /\ imports' = (imports \ {m}) \cup {known}
  <2>1. known.made \in Seq(Creation) /\ Apart(known.made, known.seen, m.start)
    BY <1>1, <1>4, <1>7, <1>9, AppendApart
  <2>2. known.rows \in Seq(Target \cup {Bad}) /\ known.start \subseteq known.seen
    BY <1>1, <1>2, <1>4
  <2>3. QED
    BY <1>4, <1>9, <2>1, <2>2 DEF Remembered
<1>10. CASE Posts(m) /\ imports' = (imports \ {m}) \cup {unknown}
  <2>1. unknown.made \in Seq(Creation) /\ Apart(unknown.made, unknown.seen, m.start)
    BY <1>1, <1>5, <1>7, <1>10, AppendApart
  <2>2. unknown.rows \in Seq(Target \cup {Bad}) /\ unknown.start \subseteq unknown.seen
    BY <1>1, <1>2, <1>5
  <2>3. QED
    BY <1>5, <1>10, <2>1, <2>2 DEF Remembered
<1>11. QED
  BY <1>6, <1>8, <1>9, <1>10

(* The other steps of an import start it with nothing made, or leave its   *)
(* list alone.                                                             *)
LEMMA ImportSteps ==
  ASSUME Next
  PROVE  \/ imports' = imports
         \/ \E f \in Files : StartImport(f)
         \/ \E m \in imports : ImportRow(m) \/ ImportReloads(m) \/ ImportEnds(m)
<1>1. CASE UserActs
  BY <1>1 DEF UserActs, CheckNow, ToggleTarget, ToggleSelected, SelectRange, CreateTarget,
     SetFilter, ChooseFile, DropFile, SelectAllVisible, ClearSelection, BulkRefresh,
     BulkDisable, AskBulkDelete, CancelBulkDelete, BulkDelete, import
<1>2. CASE Replies
  BY <1>2 DEF Replies, AnswerTargets, ApplyTargets, ApplyDetails, CheckReturns, CheckOver,
     ToggleReturns, ToggleOver, BulkSettles, CreateReturns, BulkReloads, BulkEnds, import
<1>3. CASE Poll \/ OtherTab \/ \E l \in loads : LoadFails(l)
  BY <1>3 DEF Poll, OtherTab, LoadFails, import
<1>4. QED
  BY <1>1, <1>2, <1>3 DEF Next

LEMMA RememberedNext == Remembered /\ [Next]_vars => Remembered'
<1> SUFFICES ASSUME Remembered, [Next]_vars PROVE Remembered'
  OBVIOUS
<1>1. CASE imports' = imports
  BY <1>1 DEF Remembered
<1>2. ASSUME NEW f \in Files, StartImport(f) PROVE Remembered'
  <2>1. f \in Seq(Target \cup {Bad})
    BY DashboardAssumption
  <2> DEFINE new == [rows |-> f, pc |-> "rows", seen |-> Identities(shown),
                     start |-> Identities(shown), made |-> <<>>]
  <2>2. new.rows = f /\ new.made = <<>> /\ new.start = new.seen /\ DOMAIN new = ImportFields
    BY DEF ImportFields
  <2>3. imports' = imports \cup {new}
    BY <1>2 DEF StartImport
  <2> HIDE DEF new
  <2>4. new.made \in Seq(Creation) /\ Apart(new.made, new.seen, new.start)
    BY <2>2 DEF Apart
  <2>5. QED
    BY <2>1, <2>2, <2>3, <2>4 DEF Remembered
<1>3. ASSUME NEW m \in imports, ImportReloads(m) PROVE Remembered'
  BY <1>3 DEF ImportReloads, Remembered, ImportFields
<1>4. ASSUME NEW m \in imports, ImportEnds(m) PROVE Remembered'
  BY <1>4 DEF ImportEnds, Remembered
<1>5. CASE UNCHANGED vars
  BY <1>1, <1>5 DEF vars, import
<1>6. QED
  BY <1>1, <1>2, <1>3, <1>4, <1>5, RowKeeps, ImportSteps

(* For any files, any number of imports at once and any targets that come  *)
(* and go meanwhile, an import creates a double only of what the server    *)
(* stored otherwise than it was sent, or after a lost reply.               *)
THEOREM ImportsDoubleForCause == Spec => []DoublesHaveCause
<1>1. Init => Remembered
  BY DEF Init, Remembered
<1>2. Remembered => DoublesHaveCause
  <2> SUFFICES ASSUME Remembered, NEW m \in imports
               PROVE  /\ \A k \in DOMAIN m.made : m.made[k].stored \in m.start =>
                           m.made[k].sent # m.made[k].stored
                      /\ \A k, l \in DOMAIN m.made :
                           k < l /\ m.made[k].stored = m.made[l].stored =>
                             m.made[k].lost \/ m.made[k].sent # m.made[l].sent
    BY DEF DoublesHaveCause
  <2>1. DOMAIN m.made = 1..Len(m.made)
    BY DEF Remembered
  <2>2. QED
    BY <2>1 DEF Remembered, Apart
<1>3. QED
  BY <1>1, <1>2, RememberedNext, PTL DEF Spec

-----------------------------------------------------------------------------
(* What is off.                                                            *)

(* The records of the calls and of the operation keep their fields.        *)
Off ==
  /\ \A p \in probing : DOMAIN p = {"id", "pc"}
  /\ \A t \in toggles : DOMAIN t = {"id", "pc", "body"}
  /\ DOMAIN bulk = {"op", "pc", "of", "body", "left", "failed"}
  /\ OffMeansBusy

LEMMA CardsKeepOff ==
  ASSUME Off, NEW i, CheckNow(i) \/ ToggleTarget(i)
  PROVE  Off'
<1> USE DEF Off, OffMeansBusy, BulkOf, import
<1>1. CASE CheckNow(i)
  <2> DEFINE new == [id |-> i, pc |-> "sent"]
  <2>1. probing' = probing \cup {new} /\ new.id = i /\ DOMAIN new = {"id", "pc"}
    BY <1>1 DEF CheckNow
  <2> HIDE DEF new
  <2>2. QED
    BY <1>1, <2>1 DEF CheckNow
<1>2. CASE ToggleTarget(i)
  <2> DEFINE new == [id |-> i, pc |-> "sent", body |-> [shown[i] EXCEPT !.enabled = ~@]]
  <2>1. toggles' = toggles \cup {new} /\ new.id = i /\ DOMAIN new = {"id", "pc", "body"}
    BY <1>2 DEF ToggleTarget
  <2> HIDE DEF new
  <2>2. QED
    BY <1>2, <2>1 DEF ToggleTarget
<1>3. QED
  BY <1>1, <1>2

(* A call that goes on keeps its card off; one that is over turns it on.   *)
LEMMA CallsKeepOff ==
  ASSUME Off,
         \/ \E p \in probing : CheckReturns(p) \/ CheckOver(p)
         \/ \E t \in toggles : ToggleReturns(t) \/ ToggleOver(t)
  PROVE  Off'
<1> USE DEF Off, OffMeansBusy, BulkOf, import
<1>1. ASSUME NEW p \in probing, CheckReturns(p) PROVE Off'
  <2> DEFINE new == [p EXCEPT !.pc = "reload"]
  <2>1. probing' = (probing \ {p}) \cup {new} /\ new.id = p.id /\ DOMAIN new = {"id", "pc"}
    BY <1>1 DEF CheckReturns
  <2> HIDE DEF new
  <2>2. QED
    BY <1>1, <2>1 DEF CheckReturns
<1>2. ASSUME NEW p \in probing, CheckOver(p) PROVE Off'
  BY <1>2 DEF CheckOver
<1>3. ASSUME NEW t \in toggles, ToggleReturns(t) PROVE Off'
  <2> DEFINE new == [t EXCEPT !.pc = "reload"]
  <2>1. /\ toggles' = (toggles \ {t}) \cup {new}
        /\ new.id = t.id /\ DOMAIN new = {"id", "pc", "body"}
    BY <1>3 DEF ToggleReturns
  <2> HIDE DEF new
  <2>2. QED
    BY <1>3, <2>1 DEF ToggleReturns
<1>4. ASSUME NEW t \in toggles, ToggleOver(t) PROVE Off'
  BY <1>4 DEF ToggleOver
<1>5. QED
  BY <1>1, <1>2, <1>3, <1>4

(* An operation on the selection turns its cards off when it starts and on *)
(* again when it ends, whatever failed.                                    *)
LEMMA BulkKeepsOff ==
  ASSUME Off,
         \/ BulkRefresh \/ BulkDisable \/ BulkDelete
         \/ BulkReloads \/ BulkEnds \/ \E i \in Ids : BulkSettles(i)
  PROVE  Off'
<1> USE DEF Off, OffMeansBusy, BulkOf, import, cards, selection
<1>1. ASSUME NEW op \in {"refresh", "disable", "delete"}, NEW ids, StartBulk(op, ids),
             bulk = NoBulk, UNCHANGED <<probing, toggles, imports, importing>>
      PROVE  Off'
  <2>1. bulk.op = "none"
    BY <1>1 DEF NoBulk
  <2>2. /\ DOMAIN bulk' = {"op", "pc", "of", "body", "left", "failed"}
        /\ bulk'.op = op /\ bulk'.of = ids
    BY <1>1 DEF StartBulk
  <2>3. /\ checking' = IF op = "refresh" THEN checking \cup ids ELSE checking
        /\ disabling' = IF op = "disable" THEN disabling \cup ids ELSE disabling
    BY <1>1 DEF StartBulk
  <2>4. QED
    BY <1>1, <2>1, <2>2, <2>3
<1>2. CASE BulkRefresh \/ BulkDisable \/ BulkDelete
  BY <1>1, <1>2 DEF BulkRefresh, BulkDisable, BulkDelete, ToolbarOn
<1>3. CASE BulkReloads \/ \E i \in Ids : BulkSettles(i)
  <2>1. /\ DOMAIN bulk' = {"op", "pc", "of", "body", "left", "failed"}
        /\ bulk'.op = bulk.op /\ bulk'.of = bulk.of
    BY <1>3 DEF BulkReloads, BulkSettles
  <2>2. UNCHANGED <<checking, disabling, probing, toggles, imports, importing>>
    BY <1>3 DEF BulkReloads, BulkSettles
  <2>3. QED
    BY <2>1, <2>2
<1>4. CASE BulkEnds
  <2>1. bulk'.op = "none" /\ DOMAIN bulk' = {"op", "pc", "of", "body", "left", "failed"}
    BY <1>4 DEF BulkEnds, NoBulk
  <2>2. /\ checking' = IF bulk.op = "refresh" THEN checking \ bulk.of ELSE checking
        /\ disabling' = IF bulk.op = "disable" THEN disabling \ bulk.of ELSE disabling
        /\ UNCHANGED <<probing, toggles, imports, importing>>
    BY <1>4 DEF BulkEnds
  <2>3. QED
    BY <2>1, <2>2
<1>5. QED
  BY <1>2, <1>3, <1>4

LEMMA ImportsKeepOff ==
  ASSUME Off,
         \/ \E f \in Files : StartImport(f)
         \/ \E m \in imports : ImportRow(m) \/ ImportReloads(m) \/ ImportEnds(m)
  PROVE  Off'
<1> USE DEF Off, OffMeansBusy, BulkOf, cards
<1>1. UNCHANGED <<cards, bulk>>
  BY DEF StartImport, ImportRow, ImportReloads, ImportEnds
<1>2. importing' => imports' # {}
  BY DEF StartImport, ImportRow, ImportReloads, ImportEnds
<1>3. QED
  BY <1>1, <1>2

LEMMA OffNext == Off /\ [Next]_vars => Off'
<1> SUFFICES ASSUME Off, [Next]_vars PROVE Off'
  OBVIOUS
<1>1. ASSUME UNCHANGED <<checking, disabling, probing, toggles, bulk, imports, importing>>
      PROVE  Off'
  BY <1>1 DEF Off, OffMeansBusy, BulkOf
<1>2. CASE UserActs
  <2>1. CASE \E i \in Ids : CheckNow(i) \/ ToggleTarget(i)
    BY <2>1, CardsKeepOff
  <2>2. CASE BulkRefresh \/ BulkDisable \/ BulkDelete
    BY <2>2, BulkKeepsOff
  <2>3. CASE \E f \in Files : ChooseFile(f) \/ DropFile(f)
    BY <2>3, ImportsKeepOff DEF ChooseFile, DropFile
  <2>4. CASE \/ \E i \in Ids : ToggleSelected(i) \/ SelectRange(i)
             \/ \E f \in Filters : SetFilter(f)
             \/ \E w \in Whats : CreateTarget(w)
             \/ SelectAllVisible \/ ClearSelection \/ AskBulkDelete \/ CancelBulkDelete
    BY <1>1, <2>4 DEF ToggleSelected, SelectRange, SetFilter, CreateTarget, SelectAllVisible,
       ClearSelection, AskBulkDelete, CancelBulkDelete, cards, import
  <2>5. QED
    BY <1>2, <2>1, <2>2, <2>3, <2>4 DEF UserActs
<1>3. CASE Replies
  <2>1. CASE \/ \E p \in probing : CheckReturns(p) \/ CheckOver(p)
             \/ \E t \in toggles : ToggleReturns(t) \/ ToggleOver(t)
    BY <2>1, CallsKeepOff
  <2>2. CASE BulkReloads \/ BulkEnds \/ \E i \in Ids : BulkSettles(i)
    BY <2>2, BulkKeepsOff
  <2>3. CASE \E m \in imports : ImportRow(m) \/ ImportReloads(m) \/ ImportEnds(m)
    BY <2>3, ImportsKeepOff
  <2>4. CASE \/ \E l \in loads : AnswerTargets(l) \/ ApplyTargets(l) \/ ApplyDetails(l)
             \/ CreateReturns
    BY <1>1, <2>4 DEF AnswerTargets, ApplyTargets, ApplyDetails, CreateReturns, cards, import
  <2>5. QED
    BY <1>3, <2>1, <2>2, <2>3, <2>4 DEF Replies
<1>4. CASE Poll \/ OtherTab \/ (\E l \in loads : LoadFails(l)) \/ UNCHANGED vars
  BY <1>1, <1>4 DEF Poll, OtherTab, LoadFails, vars, cards, import
<1>5. QED
  BY <1>2, <1>3, <1>4 DEF Next

(* For any targets, selections, imports and failures, a button that is off *)
(* has a call, an operation or an import at work that will turn it on.     *)
THEOREM ButtonsComeBack == Spec => []OffMeansBusy
<1>1. Init => Off
  BY DEF Init, Off, OffMeansBusy, BulkOf, NoBulk
<1>2. Off => OffMeansBusy
  BY DEF Off
<1>3. QED
  BY <1>1, <1>2, OffNext, PTL DEF Spec
===============================================================================
