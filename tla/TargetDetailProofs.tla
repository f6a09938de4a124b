-------------------------- MODULE TargetDetailProofs --------------------------
(***************************************************************************)
(* Theorems about TargetDetail: what the drawer takes for saved, what it   *)
(* finds to save, and the spinners.                                        *)
(***************************************************************************)
EXTENDS TargetDetail, TLAPS

(***************************************************************************)
(* The spinners                                                            *)
(***************************************************************************)

(* The steps that touch the flags of handleRefreshSubscriptionLatency.     *)
LEMMA FlagSteps ==
  ASSUME Next
  PROVE  \/ UNCHANGED job
         \/ handlers' = handlers /\ UNCHANGED refreshing /\ UNCHANGED pending
         \/ handlers' = handlers /\ UNCHANGED refreshing /\ pending' = FALSE
         \/ refreshing' = FALSE /\ pending' = FALSE
         \/ \E h : h \in handlers'
<1>1. CASE Poll \/ CloseDrawer \/ TakeForSaved \/ Autosave
  BY <1>1 DEF Poll, CloseDrawer, TakeForSaved, Autosave
<1>2. CASE UserActs
  <2>1. CASE RefreshLatency
    BY <2>1 DEF RefreshLatency
  <2>2. CASE \E q \in Queries : SetQuery(q)
    BY <2>2 DEF SetQuery
  <2>3. QED
    BY <1>2, <2>1, <2>2 DEF UserActs, RefreshClicked, CheckNow, OpenDrawer, DeleteTarget,
       Leave, EditOption, EditUris, EditField, Import, ChooseKind, DeleteNode, OtherTab,
       OtherTabDeletes
<1>3. CASE Fails
  BY <1>3 DEF Fails, SaveFails, DeleteFails, LoadFails, RowsFail
<1>4. CASE Replies
  <2>1. CASE \E h \in handlers : JobReturns(h)
    BY <2>1 DEF JobReturns
  <2>2. CASE \E h \in handlers : HandlerEnds(h)
    BY <2>2 DEF HandlerEnds
  <2>3. CASE \E l \in loads : ApplyTarget(l)
    BY <2>3 DEF ApplyTarget, TypeKnown
  <2>4. CASE NodesMeasured
    BY <2>4 DEF NodesMeasured
  <2>5. QED
    BY <1>4, <2>1, <2>2, <2>3, <2>4 DEF Replies, CheckReturns, CheckOver, SaveStored,
       SaveReturns, DeleteReturns, ImportStored, ImportReturns, ImportOver, AnswerTarget,
       ApplyPanel, RowsArrive
<1>5. QED
  BY <1>1, <1>2, <1>3, <1>4 DEF Next

(* A spinner never outlives the last handler that would take it off, with  *)
(* any number of handlers, loads and queries.                              *)
THEOREM SpinnersEndWithJobs == Spec => []SpinnerMeansJob
<1>1. Init => SpinnerMeansJob
  BY DEF Init, SpinnerMeansJob
<1>2. SpinnerMeansJob /\ [Next]_vars => SpinnerMeansJob'
  <2> SUFFICES ASSUME SpinnerMeansJob, [Next]_vars PROVE SpinnerMeansJob'
    OBVIOUS
  <2>1. CASE Next
    BY <2>1, FlagSteps DEF SpinnerMeansJob, job
  <2>2. CASE UNCHANGED vars
    BY <2>2 DEF SpinnerMeansJob, vars, job
  <2>3. QED
    BY <2>1, <2>2
<1>3. QED
  BY <1>1, <1>2, PTL DEF Spec

(***************************************************************************)
(* What there is to save                                                   *)
(***************************************************************************)

(* What is being saved is what the form holds, or the form was changed.    *)
Drafts ==
  /\ saving # None => saving = [form |-> saving.form, pc |-> saving.pc]
  /\ UnsavedIsTyped
  /\ saving # None => form = saving.form \/ typed \/ raced

(* The steps that leave the drawer as it is.                               *)
LEMMA DrawerSteps ==
  ASSUME Next
  PROVE  \/ UNCHANGED <<form, saved, saving, typed, raced>>
         \/ TakeForSaved \/ Autosave \/ SaveStored \/ SaveReturns \/ SaveFails
         \/ (\E f : EditField(f))
         \/ (\E l \in loads : ApplyTarget(l))
<1>1. CASE Poll \/ CloseDrawer \/ TakeForSaved \/ Autosave
  BY <1>1 DEF Poll, CloseDrawer, drawer
<1>2. CASE UserActs
  BY <1>2 DEF UserActs, RefreshClicked, CheckNow, OpenDrawer, DeleteTarget,
     Leave, EditOption, EditUris, Import, ChooseKind, DeleteNode, OtherTab,
     OtherTabDeletes, SetQuery, RefreshLatency, drawer
<1>3. CASE Fails
  BY <1>3 DEF Fails, DeleteFails, LoadFails, RowsFail, drawer
<1>4. CASE Replies
  BY <1>4 DEF Replies, CheckReturns, CheckOver, DeleteReturns,
     ImportStored, ImportReturns, ImportOver, AnswerTarget, ApplyPanel, RowsArrive,
     NodesMeasured, JobReturns, HandlerEnds, drawer
<1>5. QED
  BY <1>1, <1>2, <1>3, <1>4 DEF Next

LEMMA DraftsNext == Drafts /\ [Next]_vars => Drafts'
<1> SUFFICES ASSUME Drafts, [Next]_vars PROVE Drafts'
  OBVIOUS
<1> USE DEF Drafts, UnsavedIsTyped, Dirty
<1>1. CASE UNCHANGED <<form, saved, saving, typed, raced>>
  BY <1>1
<1>2. CASE TakeForSaved
  BY <1>2 DEF TakeForSaved
<1>3. CASE Autosave
  BY <1>3 DEF Autosave
<1>4. CASE SaveStored
  BY <1>4 DEF SaveStored
<1>5. CASE SaveReturns
  BY <1>5 DEF SaveReturns
<1>6. CASE SaveFails
  BY <1>6 DEF SaveFails
<1>7. CASE \E f : EditField(f)
  BY <1>7 DEF EditField
<1>8. CASE \E l \in loads : ApplyTarget(l)
  BY <1>8 DEF ApplyTarget
<1>9. CASE UNCHANGED vars
  BY <1>9 DEF vars, drawer
<1>10. QED
  BY <1>1, <1>2, <1>3, <1>4, <1>5, <1>6, <1>7, <1>8, <1>9, DrawerSteps

(* The drawer saves nothing but what the user typed, for any configuration *)
(* and any number of loads, but for a load applied during a save.          *)
THEOREM OnlyTypedIsSaved == Spec => []UnsavedIsTyped
<1>1. Init => Drafts
  BY DEF Init, Drafts, UnsavedIsTyped, Dirty
<1>2. Drafts => UnsavedIsTyped
  BY DEF Drafts
<1>3. QED
  BY <1>1, <1>2, DraftsNext, PTL DEF Spec

(***************************************************************************)
(* What is taken for saved                                                 *)
(***************************************************************************)

(* What saveEditConfig makes of a form it sends is a configuration that    *)
(* it would send unchanged.                                                *)
LEMMA PayloadSettles ==
  ASSUME NEW f \in Config
  PROVE  Payload(f) \in Config /\ Payload(Payload(f)) = Payload(f)
<1>1. f.opt \in Opts /\ f.kind \in Kinds /\ f.uris \subseteq Uris
  BY DEF Config
<1>2. Stored(f.opt) \in Opts /\ Stored(Stored(f.opt)) = Stored(f.opt)
  BY <1>1, TargetDetailAssumption
<1>3. QED
  BY <1>1, <1>2 DEF Config, Payload

(* A settled group stays settled when its URIs change.                     *)
LEMMA UrisSettle ==
  ASSUME NEW c \in Config, Payload(c) = c, c.kind = "node_group", NEW u \in SUBSET Uris
  PROVE  /\ [c EXCEPT !.uris = u] \in Config
         /\ Payload([c EXCEPT !.uris = u]) = [c EXCEPT !.uris = u]
<1>1. c = [kind |-> c.kind, opt |-> c.opt, uris |-> c.uris] /\ Stored(c.opt) = c.opt
  BY DEF Config, Payload
<1>2. [c EXCEPT !.uris = u] = [kind |-> c.kind, opt |-> c.opt, uris |-> u]
  BY <1>1
<1>3. QED
  BY <1>1, <1>2 DEF Config, Payload

(* What a server holds, and its copy on the page.                          *)
Held ==
  /\ held \subseteq Config
  /\ \A c \in held : Payload(c) = c
  /\ conf \in held \cup {None}
  /\ target \in held \cup {None}

(* What requests carry was held, or will be once they are answered.        *)
Carried ==
  /\ \A l \in loads : l.pc = "answered" => l.conf \in held
  /\ importing # None =>
       /\ importing = [body |-> importing.body, query |-> importing.query, pc |-> importing.pc]
       /\ importing.body \in Config /\ Payload(importing.body) = importing.body
  /\ saving # None =>
       /\ saving = [form |-> saving.form, pc |-> saving.pc]
       /\ saving.form \in Config
       /\ saving.pc = "stored" /\ conf # None => Payload(saving.form) \in held

Inv ==
  /\ Held
  /\ Carried
  /\ form \in Config
  /\ target # None => saved # None
  /\ SavedWasStored

LEMMA NoneIsNoConfig == None \notin Config
BY TargetDetailAssumption

LEMMA InvInit == Init => Inv
<1> SUFFICES ASSUME Init PROVE Inv
  OBVIOUS
<1>1. PICK f \in Config : conf = Payload(f) /\ held = {conf}
  BY DEF Init
<1>2. conf \in Config /\ Payload(conf) = conf
  BY <1>1, PayloadSettles
<1>3. QED
  BY <1>1, <1>2 DEF Init, Inv, Held, Carried, SavedWasStored

(* A step that leaves the server's copy as it is, removes it for good, or  *)
(* replaces it by a settled configuration.                                 *)
ServerStep ==
  \/ UNCHANGED server
  \/ conf' = None /\ held' = held
  \/ \E c \in Config :
       Payload(c) = c /\ conf # None /\ conf' = c /\ held' = held \cup {c}

(* UpdateTarget as Put models it, of a settled configuration.              *)
LEMMA PutIsServerStep ==
  ASSUME NEW c \in Config, Payload(c) = c, Put(c)
  PROVE  ServerStep
BY DEF ServerStep, Put, Store

LEMMA EveryStepIsServerStep ==
  ASSUME Inv, Next
  PROVE  ServerStep
<1>1. CASE Poll \/ CloseDrawer \/ TakeForSaved \/ Autosave
  BY <1>1 DEF Poll, CloseDrawer, TakeForSaved, Autosave, ServerStep
<1>2. CASE UserActs
  <2>1. CASE OtherTabDeletes
    BY <2>1 DEF OtherTabDeletes, ServerStep
  <2>2. ASSUME NEW f \in Config, OtherTab(f) PROVE ServerStep
    BY <2>2, PayloadSettles DEF OtherTab, Store, ServerStep
  <2>3. ASSUME NEW u \in Uris, DeleteNode(u) PROVE ServerStep
    <3>1. conf \in Config /\ Payload(conf) = conf /\ u \in conf.uris
      BY <2>3 DEF DeleteNode, Inv, Held
    <3>2. conf.kind = "node_group" /\ conf.uris \ {u} \in SUBSET Uris
      BY <3>1 DEF Payload, Config
    <3>3. /\ [conf EXCEPT !.uris = conf.uris \ {u}] \in Config
          /\ Payload([conf EXCEPT !.uris = conf.uris \ {u}]) = [conf EXCEPT !.uris = conf.uris \ {u}]
      BY <3>1, <3>2, UrisSettle
    <3>4. QED
      BY <2>3, <3>3 DEF DeleteNode, Store, ServerStep
  <2>4. QED
    BY <1>2, <2>1, <2>2, <2>3 DEF UserActs, RefreshClicked, CheckNow, OpenDrawer,
       DeleteTarget, Leave, EditOption, EditUris, EditField, Import, ChooseKind, SetQuery,
       RefreshLatency, ServerStep
<1>3. CASE Fails
  BY <1>3 DEF Fails, SaveFails, DeleteFails, LoadFails, RowsFail, ServerStep
<1>4. CASE Replies
  <2>1. CASE SaveStored
    <3>1. saving.form \in Config /\ Put(Payload(saving.form))
      BY <2>1 DEF SaveStored, Inv, Carried
    <3>2. QED
      BY <3>1, PayloadSettles, PutIsServerStep
  <2>2. CASE ImportStored
    BY <2>2, PutIsServerStep DEF ImportStored, Inv, Carried
  <2>3. CASE DeleteReturns
    BY <2>3 DEF DeleteReturns, ServerStep
  <2>4. QED
    BY <1>4, <2>1, <2>2, <2>3 DEF Replies, CheckReturns, CheckOver, SaveReturns,
       ImportReturns, ImportOver, AnswerTarget, ApplyTarget, ApplyPanel, RowsArrive,
       NodesMeasured, JobReturns, HandlerEnds, ServerStep
<1>5. QED
  BY <1>1, <1>2, <1>3, <1>4 DEF Next

(* What was held stays in the history, and a deleted target stays deleted. *)
LEMMA ServerKeeps ==
  ASSUME Inv, ServerStep
  PROVE  /\ held \subseteq held' /\ held' \subseteq Config
         /\ \A c \in held' : Payload(c) = c
         /\ conf' \in held' \cup {None}
         /\ conf' # None => conf # None
<1>1. CASE UNCHANGED server \/ (conf' = None /\ held' = held)
  BY <1>1 DEF server, Inv, Held
<1>2. CASE \E c \in Config :
            Payload(c) = c /\ conf # None /\ conf' = c /\ held' = held \cup {c}
  BY <1>2 DEF Inv, Held
<1>3. QED
  BY <1>1, <1>2 DEF ServerStep

(* The page's copy changes with the answer of a load only.                 *)
LEMMA TargetSteps ==
  ASSUME Next
  PROVE  target' = target \/ \E l \in loads : ApplyTarget(l)
<1>1. CASE Poll \/ CloseDrawer \/ TakeForSaved \/ Autosave
  BY <1>1 DEF Poll, CloseDrawer, TakeForSaved, Autosave
<1>2. CASE UserActs
  BY <1>2 DEF UserActs, RefreshClicked, CheckNow, OpenDrawer, DeleteTarget,
     Leave, EditOption, EditUris, EditField, Import, ChooseKind, DeleteNode, OtherTab,
     OtherTabDeletes, SetQuery, RefreshLatency
<1>3. CASE Fails
  BY <1>3 DEF Fails, SaveFails, DeleteFails, LoadFails, RowsFail
<1>4. CASE Replies
  BY <1>4 DEF Replies, CheckReturns, CheckOver, SaveStored, SaveReturns, DeleteReturns,
     ImportStored, ImportReturns, ImportOver, AnswerTarget, ApplyPanel, RowsArrive,
     NodesMeasured, JobReturns, HandlerEnds
<1>5. QED
  BY <1>1, <1>2, <1>3, <1>4 DEF Next

(* A load that is answered now was before, or has the server's copy.       *)
LEMMA LoadSteps ==
  ASSUME Next, NEW m \in loads', m.pc = "answered"
  PROVE  m \in loads \/ (conf # None /\ conf' = conf /\ m.conf = conf)
<1>1. CASE Poll \/ CloseDrawer \/ TakeForSaved \/ Autosave
  BY <1>1 DEF Poll, StartLoad, CloseDrawer, TakeForSaved, Autosave, calls
<1>2. CASE UserActs
  <2>1. CASE RefreshClicked
    BY <2>1 DEF RefreshClicked, StartLoad
  <2>2. CASE CheckNow \/ DeleteTarget \/ \E u \in SUBSET Uris : Import(u)
    BY <2>2 DEF CheckNow, DeleteTarget, Import
  <2>3. CASE calls' = calls
    BY <2>3 DEF calls
  <2>4. QED
    BY <1>2, <2>1, <2>2, <2>3 DEF UserActs, OpenDrawer, Leave, EditOption, EditUris,
       EditField, ChooseKind, DeleteNode, OtherTab, OtherTabDeletes, SetQuery, RefreshLatency
<1>3. CASE Fails
  BY <1>3 DEF Fails, SaveFails, DeleteFails, LoadFails, RowsFail, calls
<1>4. CASE Replies
  <2>1. CASE \E l \in loads : AnswerTarget(l)
    BY <2>1 DEF AnswerTarget, server
  <2>2. CASE \E l \in loads : ApplyTarget(l) \/ ApplyPanel(l)
    BY <2>2 DEF ApplyTarget, ApplyPanel
  <2>3. QED
    BY <1>4, <2>1, <2>2 DEF Replies, CheckReturns, CheckOver, StartLoad, SaveStored,
       SaveReturns, DeleteReturns, ImportStored, ImportReturns, ImportOver, RowsArrive,
       NodesMeasured, JobReturns, HandlerEnds, calls
<1>5. QED
  BY <1>1, <1>2, <1>3, <1>4 DEF Next

(* An import sends the page's copy with URIs added, and nothing else.      *)
LEMMA ImportSteps ==
  ASSUME Next
  PROVE  \/ importing' = importing
         \/ importing' = None
         \/ importing # None /\ \E pc : importing' = [importing EXCEPT !.pc = pc]
         \/ \E u \in SUBSET Uris : Import(u)
<1>1. CASE Poll \/ CloseDrawer \/ TakeForSaved \/ Autosave
  BY <1>1 DEF Poll, CloseDrawer, TakeForSaved, Autosave, calls
<1>2. CASE UserActs
  BY <1>2 DEF UserActs, RefreshClicked, CheckNow, OpenDrawer, DeleteTarget,
     Leave, EditOption, EditUris, EditField, ChooseKind, DeleteNode, OtherTab,
     OtherTabDeletes, SetQuery, RefreshLatency, calls
<1>3. CASE Fails
  BY <1>3 DEF Fails, SaveFails, DeleteFails, LoadFails, RowsFail, calls
<1>4. CASE Replies
  <2>1. CASE ImportStored \/ ImportReturns \/ ImportOver
    BY <2>1 DEF ImportStored, ImportReturns, ImportOver
  <2>2. QED
    BY <1>4, <2>1 DEF Replies, CheckReturns, CheckOver, SaveStored, SaveReturns,
       DeleteReturns, AnswerTarget, ApplyTarget, ApplyPanel, RowsArrive,
       NodesMeasured, JobReturns, HandlerEnds, calls
<1>5. QED
  BY <1>1, <1>2, <1>3, <1>4 DEF Next

(* What requests carry is still held after a step.                         *)
LEMMA CarriedNext ==
  ASSUME Inv, Next
  PROVE  Carried'
<1>1. /\ held \subseteq held' /\ (conf' # None => conf # None)
  BY EveryStepIsServerStep, ServerKeeps
<1>2. ASSUME NEW m \in loads', m.pc = "answered" PROVE m.conf \in held'
  BY <1>1, <1>2, LoadSteps DEF Inv, Held, Carried
<1>3. ASSUME importing' # None
      PROVE  /\ importing' = [body |-> importing'.body, query |-> importing'.query,
                              pc |-> importing'.pc]
             /\ importing'.body \in Config /\ Payload(importing'.body) = importing'.body
  <2>1. CASE importing' = importing
    BY <1>3, <2>1 DEF Inv, Carried
  <2>2. CASE importing # None /\ \E pc : importing' = [importing EXCEPT !.pc = pc]
    BY <2>2 DEF Inv, Carried
  <2>3. ASSUME NEW u \in SUBSET Uris, Import(u)
        PROVE  /\ importing' = [body |-> importing'.body, query |-> importing'.query,
                                pc |-> importing'.pc]
               /\ importing'.body \in Config /\ Payload(importing'.body) = importing'.body
    <3>1. target \in Config /\ Payload(target) = target /\ target.kind = "node_group"
      BY <2>3 DEF Import, Inv, Held
    <3>2. target.uris \cup u \in SUBSET Uris
      BY <3>1 DEF Config
    <3>3. ImportBody(u) \in Config /\ Payload(ImportBody(u)) = ImportBody(u)
      BY <3>1, <3>2, UrisSettle DEF ImportBody
    <3>4. QED
      BY <2>3, <3>3 DEF Import
  <2>4. QED
    BY <1>3, <2>1, <2>2, <2>3, ImportSteps
<1>4. ASSUME saving' # None
      PROVE  /\ saving' = [form |-> saving'.form, pc |-> saving'.pc]
             /\ saving'.form \in Config
             /\ saving'.pc = "stored" /\ conf' # None => Payload(saving'.form) \in held'
  <2>1. CASE saving' = saving
    BY <1>1, <1>4, <2>1 DEF Inv, Carried
  <2>2. CASE Autosave
    BY <2>2 DEF Autosave, Inv
  <2>3. CASE SaveStored
    <3>1. saving # None /\ saving.form \in Config
          /\ saving' = [form |-> saving.form, pc |-> "stored"]
      BY <2>3 DEF SaveStored, Inv, Carried
    <3>2. conf # None => Payload(saving.form) \in held'
      BY <2>3 DEF SaveStored, Put, Store
    <3>3. QED
      BY <1>1, <3>1, <3>2
  <2>4. QED
    BY <1>4, <2>1, <2>2, <2>3, DrawerSteps DEF TakeForSaved, SaveReturns, SaveFails,
       EditField, ApplyTarget
<1>5. QED
  BY <1>2, <1>3, <1>4 DEF Carried

(* The form the user edits is a configuration.                             *)
LEMMA FormNext ==
  ASSUME Inv, Next
  PROVE  form' \in Config
<1>1. CASE UserActs
  <2>1. ASSUME NEW o \in Opts, EditOption(o) PROVE form' \in Config
    BY <2>1 DEF EditOption, EditField, Inv, Config
  <2>2. ASSUME NEW u \in SUBSET Uris, EditUris(u) PROVE form' \in Config
    BY <2>2 DEF EditUris, EditField, Inv, Config
  <2>3. ASSUME NEW k \in Kinds, ChooseKind(k) PROVE form' \in Config
    BY <2>3 DEF ChooseKind, EditField, Inv, Config
  <2>4. QED
    BY <1>1, <2>1, <2>2, <2>3 DEF Inv, UserActs, RefreshClicked, CheckNow, OpenDrawer,
       DeleteTarget, Leave, Import, DeleteNode, OtherTab, OtherTabDeletes, SetQuery,
       RefreshLatency, drawer
<1>2. CASE Replies
  <2>1. ASSUME NEW l \in loads, ApplyTarget(l) PROVE form' \in Config
    BY <2>1 DEF ApplyTarget, Inv, Held, Carried
  <2>2. QED
    BY <1>2, <2>1 DEF Inv, Replies, CheckReturns, CheckOver, SaveStored, SaveReturns,
       DeleteReturns, ImportStored, ImportReturns, ImportOver, AnswerTarget, ApplyPanel,
       RowsArrive, NodesMeasured, JobReturns, HandlerEnds, drawer
<1>3. CASE Fails \/ Poll \/ CloseDrawer \/ TakeForSaved \/ Autosave
  BY <1>3 DEF Inv, Fails, SaveFails, DeleteFails, LoadFails, RowsFail, Poll, CloseDrawer,
     TakeForSaved, Autosave, drawer
<1>4. QED
  BY <1>1, <1>2, <1>3 DEF Next

(* The drawer's mark of what is saved after a step.                        *)
LEMMA SavedNext ==
  ASSUME Inv, Next
  PROVE  (target' # None => saved' # None) /\ SavedWasStored'
<1>1. held \subseteq held' /\ (conf' # None => conf # None)
  BY EveryStepIsServerStep, ServerKeeps
<1>2. ASSUME NEW l \in loads, ApplyTarget(l)
      PROVE  (target' # None => saved' # None) /\ SavedWasStored'
  <2>1. l.conf \in held /\ l.conf \in Config /\ Payload(l.conf) = l.conf
    BY <1>2 DEF ApplyTarget, Inv, Held, Carried
  <2>2. target' = l.conf /\ saved' = l.conf
    BY <1>2 DEF ApplyTarget
  <2>3. QED
    BY <1>1, <2>1, <2>2 DEF SavedWasStored
<1>3. CASE TakeForSaved
  <2>1. target' = target /\ saved = None
    BY <1>3 DEF TakeForSaved
  <2>2. QED
    BY <2>1 DEF Inv, SavedWasStored
<1>4. CASE SaveReturns
  <2>1. target' = target /\ saved' = saving.form /\ saving.form \in Config /\ conf' = conf
        /\ (conf # None => Payload(saving.form) \in held)
    BY <1>4 DEF SaveReturns, Inv, Carried, server
  <2>2. QED
    BY <1>1, <2>1, NoneIsNoConfig DEF SavedWasStored
<1>5. ASSUME saved' = saved, target' = target
      PROVE  (target' # None => saved' # None) /\ SavedWasStored'
  BY <1>1, <1>5 DEF Inv, SavedWasStored
<1>6. QED
  BY <1>2, <1>3, <1>4, <1>5, DrawerSteps, TargetSteps DEF Autosave, SaveStored, SaveFails, EditField

LEMMA InvNext == Inv /\ [Next]_vars => Inv'
<1>1. ASSUME Inv, Next PROVE Inv'
  <2>1. /\ held \subseteq held' /\ held' \subseteq Config
        /\ \A c \in held' : Payload(c) = c
        /\ conf' \in held' \cup {None}
    BY <1>1, EveryStepIsServerStep, ServerKeeps
  <2>2. target' \in held' \cup {None}
    BY <1>1, <2>1, TargetSteps DEF ApplyTarget, Inv, Held, Carried
  <2>3. Held'
    BY <2>1, <2>2 DEF Held
  <2>4. QED
    BY <1>1, <2>3, CarriedNext, FormNext, SavedNext DEF Inv
<1>2. ASSUME Inv, UNCHANGED vars PROVE Inv'
  BY <1>2 DEF Inv, Held, Carried, SavedWasStored, vars, server, drawer, calls
<1>3. QED
  BY <1>1, <1>2

(* What the drawer of a loaded target takes for saved was stored, for any  *)
(* types, fields and URIs, and any number of loads, imports, deletions and *)
(* changes by other tabs, whatever fails.                                  *)
THEOREM MarkedSavedWasStored == Spec => []SavedWasStored
<1>1. Inv => SavedWasStored
  BY DEF Inv
<1>2. QED
  BY <1>1, InvInit, InvNext, PTL DEF Spec
===============================================================================
