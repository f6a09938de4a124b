-------------------------------- MODULE Console --------------------------------
(***************************************************************************)
(* The console's session, the dashboard's create defaults and the public   *)
(* share page in one browser: a 401 to a request of the console ends the   *)
(* session and takes the dashboard away, one to the share page must not.   *)
(***************************************************************************)
EXTENDS CreateDefaults, SharePage

vars == <<session, defaults, sharing, moves>>

Init == SessionInit /\ DefaultsInit /\ ShareInit

Next ==
  \/ SessionNext /\ UNCHANGED <<away, sharing>> /\ Rerender
  \/ DefaultsNext /\ UNCHANGED sharing
  \/ ShareNext /\ UNCHANGED away /\ Rerender

(* The page's timers and intervals run, and answers that arrived are       *)
(* applied.  The answer to the question whether the server is set up may   *)
(* never come: its loop has a time limit.                                  *)
Fairness ==
  /\ WF_vars(InitAttemptFails /\ UNCHANGED <<away, sharing>> /\ Rerender)
  /\ WF_vars(InitDelayOver /\ UNCHANGED <<away, sharing>> /\ Rerender)
  /\ WF_vars(Call /\ UNCHANGED <<away, sharing>> /\ Rerender)
  /\ \A t \in Tokens :
       WF_vars(CallAnswered(t) /\ UNCHANGED <<away, sharing>> /\ Rerender)
  /\ WF_vars(Refetch /\ UNCHANGED away /\ Rerender)
  /\ WF_vars(FetchAnswered /\ UNCHANGED away /\ Rerender)
  /\ \A a \in {"ok", "missing", "disabled", "expired", "access token"} :
       WF_vars(FetchApplied(a) /\ UNCHANGED away /\ Rerender)

Spec == Init /\ [][Next]_vars /\ Fairness

(***************************************************************************)
(* Properties                                                              *)
(***************************************************************************)

(* The looks for init_done and for the row of the defaults come before the *)
(* statements that insert: of two set-ups at once, or two first saves, one *)
(* gets through (BootstrapAdmin, SetDefaults).                             *)
OneOfEach == admins <= 1 /\ prefRows <= 1

(* The stored defaults are what the user typed, what had been stored or    *)
(* what the form starts with when there was nothing to read or reading     *)
(* failed: the built-in values are not saved over them because the         *)
(* dashboard was opened (subDefaultsHydrated), and the server stores what  *)
(* the page sends.                                                         *)
DefaultsAreTheUsers == pref \in wanted \cup {None}

(* The tokens that requests of the console carry: those under way, and the *)
(* one a button sends now.                                                 *)
Carried ==
  {token} \cup calls \cup {p.token : p \in puts}
    \cup (IF reading # None /\ reading.pc = "asked" THEN {reading.token} ELSE {})

(* The session ends when the user logs out, or with the answer to a        *)
(* request of the console that carries an expired token; never, expired    *)
(* tokens or not, by a step of the public share page, whose refusals have  *)
(* status 401 as well (request and its triggerAuthExpired).                *)
SessionEndsForCause ==
  [][token # None /\ token' = None =>
       Logout \/ (Carried \ live # {} /\ UNCHANGED sharing)]_vars

(* A page that is blank waits for one of its three questions, each of      *)
(* which has a limit of its own, or for the delay before the next; and     *)
(* while the error page is shown no answer is under way that could change  *)
(* what is behind it (checkInitStatus, handleRetryInitStatus).             *)
BlankMeansAsking ==
  /\ initialized = None /\ ~initError /\ ~retrying =>
       \/ init.pc = "asked" /\ init.attempt <= Attempts
       \/ init.pc = "delay" /\ init.attempt < Attempts
  /\ initError => init.pc = "done" /\ ~retrying

(* The page does not stay blank, whether the server answers or not, unless *)
(* the user asked again by hand; and an expired session does not last on   *)
(* a page that asks at intervals.                                          *)
AppSettles ==
  <>[](retrying \/ initError \/ (initialized # None /\ (token = None \/ token \in live)))

(* Once a task is disabled or expired for good, the list of what it shares *)
(* is not shown any more (loadShareDashboard).                             *)
SharedHidden ==
  <>[](view = "list" /\ access /\ share # None => share.enabled /\ ~share.expired)
===============================================================================
