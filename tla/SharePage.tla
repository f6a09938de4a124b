------------------------------- MODULE SharePage -------------------------------
(***************************************************************************)
(* A share task: what the server keeps of it and lets through              *)
(* (share_service.go, http_handler.go), the buttons of the console that    *)
(* change it, and the public page that shows it in the same browser        *)
(* (ShareViewPage and ShareTargetDetailPage of web/src/App.tsx), whose     *)
(* requests do not go through the session of the console.                  *)
(*                                                                         *)
(* A task has a password, a number that grows when it is changed.  An      *)
(* access token is good for 30 minutes; the server checks the task again   *)
(* at every request.                                                       *)
(***************************************************************************)
EXTENDS ConsoleSession

VARIABLES
  share,     (* None, or whether the task is enabled, expired, its password *)
  fresh,     (* the access token last given out has not expired             *)
  access,    (* accessToken, and sessionStorage: is there one               *)
  view,      (* the list of the shared targets, or the page of one of them  *)
  verifying, (* None, or the POST of handleVerifyShare                      *)
  fetches,   (* the requests for the dashboard of the share in flight       *)
  payload    (* the page has something to show                              *)

sharing == <<share, fresh, access, view, verifying, fetches, payload>>

NewShare == [enabled |-> TRUE, expired |-> FALSE, password |-> 0]

ShareInit ==
  /\ share \in {None} \cup (IF admins > 0 THEN {NewShare} ELSE {})
  /\ fresh = FALSE /\ access = FALSE /\ view = "list" /\ verifying = None
  /\ fetches = {} /\ payload = FALSE

(***************************************************************************)
(* The console's buttons                                                   *)
(***************************************************************************)

(* A request with the console's token that makes the task what is given.   *)
Administer(new) ==
  /\ Move /\ Home /\ new # share
  /\ \/ /\ token \in live
        /\ share' = new
        /\ UNCHANGED <<accounts, start, stored, token, setupForm>>
     \/ /\ token \notin live
        /\ Unauthorized(TRUE)
        /\ UNCHANGED share
  /\ UNCHANGED <<calls, fresh, access, view, verifying, fetches, payload>>

CreateShare == share = None /\ Administer(NewShare)
ToggleShare == share # None /\ Administer([share EXCEPT !.enabled = ~@])
DeleteShare == share # None /\ Administer(None)
(* handleSaveShareTaskEdit: a new time to expire and, where one is given,  *)
(* a new password.                                                         *)
EditShare(password) ==
  /\ share # None
  /\ Administer([share EXCEPT !.expired = FALSE, !.password = IF password THEN 1 ELSE @])

(***************************************************************************)
(* What the server lets through                                            *)
(***************************************************************************)

(* findShareByToken                                                        *)
Found ==
  IF share = None THEN "missing"
  ELSE IF ~share.enabled THEN "disabled"
  ELSE IF share.expired THEN "expired" ELSE "ok"

(* PublicShareDashboard: the access token first, then the task.            *)
DashboardAnswer == IF ~fresh THEN "access token" ELSE Found

ShareExpires ==
  /\ Move /\ share # None /\ ~share.expired
  /\ share' = [share EXCEPT !.expired = TRUE]
  /\ UNCHANGED <<session, fresh, access, view, verifying, fetches, payload>>

AccessExpires ==
  /\ Move /\ fresh
  /\ fresh' = FALSE
  /\ UNCHANGED <<session, share, access, view, verifying, fetches, payload>>

(***************************************************************************)
(* The public page                                                         *)
(***************************************************************************)

Verify(password) ==
  /\ Move /\ view = "list" /\ ~access /\ verifying = None
  /\ verifying' = password
  /\ UNCHANGED <<session, share, fresh, access, view, fetches, payload>>

(* PublicShareAccess and what handleVerifyShare does with the answer: a    *)
(* refusal has status 401.                                                 *)
Verified ==
  /\ verifying # None
  /\ verifying' = None
  /\ IF Found = "ok" /\ share.password = verifying
     THEN /\ fresh' = TRUE /\ access' = TRUE
          /\ fetches' = fetches \cup {"asked"}
          /\ UNCHANGED <<accounts, start, stored, token, setupForm>>
     ELSE /\ Unauthorized(FALSE)
          /\ UNCHANGED <<fresh, access, fetches>>
  /\ UNCHANGED <<calls, share, view, payload, moves>>

(* The effect on accessToken: at once, and every 10 s.                     *)
Refetch ==
  /\ access /\ view = "list"
  /\ fetches' = fetches \cup {"asked"}
  /\ UNCHANGED <<session, share, fresh, access, view, verifying, payload, moves>>

FetchAnswered ==
  /\ "asked" \in fetches
  /\ fetches' = (fetches \ {"asked"}) \cup {DashboardAnswer}
  /\ UNCHANGED <<session, share, fresh, access, view, verifying, payload, moves>>

(* Mutant: only a refused access token sends the viewer back.              *)
EndsAccessTokenOnly(answer) == answer = "access token"

(* The messages on which loadShareDashboard forgets the access token; that *)
(* of a task which was deleted is not among them.                          *)
EndsAccess(answer) == answer \in {"access token", "disabled", "expired"}

(* loadShareDashboard, or on the page of one target, where every error is  *)
(* shown and nothing else.                                                 *)
FetchApplied(answer) ==
  /\ answer \in fetches \ {"asked"}
  /\ fetches' = fetches \ {answer}
  /\ payload' = (payload \/ answer = "ok")
  /\ access' = (access /\ ~(view = "list" /\ EndsAccess(answer)))
  /\ IF answer = "access token" THEN Unauthorized(FALSE)
     ELSE UNCHANGED <<accounts, start, stored, token, setupForm>>
  /\ UNCHANGED <<calls, share, fresh, view, verifying, moves>>

FetchLost ==
  /\ Move /\ "asked" \in fetches
  /\ fetches' = fetches \ {"asked"}
  /\ UNCHANGED <<session, share, fresh, access, view, verifying, payload>>

(* To the page of a target, which asks once, or back to the list.          *)
ViewShared ==
  /\ Move
  /\ IF view = "list"
     THEN access /\ payload /\ view' = "target" /\ fetches' = {"asked"}
     ELSE view' = "list" /\ fetches' = {}
  /\ payload' = FALSE
  /\ UNCHANGED <<session, share, fresh, access, verifying>>

ShareNext ==
  \/ CreateShare \/ ToggleShare \/ DeleteShare
  \/ \E p \in BOOLEAN : EditShare(p)
  \/ ShareExpires \/ AccessExpires
  \/ \E p \in {0, 1} : Verify(p)
  \/ Verified \/ Refetch \/ FetchAnswered \/ FetchLost \/ ViewShared
  \/ \E a \in {"ok", "missing", "disabled", "expired", "access token"} : FetchApplied(a)
===============================================================================
