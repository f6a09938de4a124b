---------------------------- MODULE ConsoleSession ----------------------------
(***************************************************************************)
(* One browser with the web console open: App of web/src/App.tsx and the   *)
(* request function of web/src/lib/api.ts, against the first set-up, the   *)
(* login and the tokens of the server (auth_service.go, jwt_auth.go).      *)
(*                                                                         *)
(* A token is a number, in the order of issue; the server keeps none, and  *)
(* live is what its signature check and the clock let through.             *)
(***************************************************************************)
EXTENDS Naturals, FiniteSets

CONSTANTS
  MaxTokens, (* logins in all                                               *)
  MaxMoves,  (* what users do, what expires and what fails, in all          *)
  None

ASSUME SessionAssumption ==
  {MaxTokens, MaxMoves} \subseteq Nat /\ None \notin Nat \cup BOOLEAN

Tokens == 1..MaxTokens
Callers == {"tab", "other"}
Attempts == 3

VARIABLES
  admins,      (* the rows of users; with the first comes init_done         *)
  setups,      (* where the POST of /api/init/setup of each caller is       *)
  issued,      (* the tokens given out so far: 1..issued                    *)
  live,        (* those that are not expired                                *)
  stored,      (* all_monitor_token in localStorage                         *)
  token,       (* the state of App of that name                             *)
  init,        (* checkInitStatus: which attempt, and where it is           *)
  retrying,    (* a request of handleRetryInitStatus is under way           *)
  initialized, (* what the server said; None before                         *)
  initError,   (* initStatusError: the page that offers to try again        *)
  setupForm,   (* showSetupForm                                             *)
  calls,       (* the tokens of requests the page has sent                  *)
  moves        (* what is left of MaxMoves                                  *)

accounts == <<admins, setups, issued, live>>
start == <<init, retrying, initialized, initError>>
session == <<accounts, start, stored, token, setupForm, calls>>

(* The page has its router, with the dashboard or another page of it.      *)
Home == token # None /\ initialized # None /\ ~initError

SessionInit ==
  /\ \/ admins = 0 /\ issued = 0
     \/ admins = 1 /\ issued \in {0, 1}
  /\ setups = [c \in Callers |-> "none"]
  /\ live = 1..issued
  /\ stored = (IF issued = 0 THEN None ELSE issued) /\ token = stored
  /\ init = [attempt |-> 1, pc |-> "asked"]
  /\ retrying = FALSE /\ initialized = None /\ initError = FALSE
  /\ setupForm = FALSE /\ calls = {}
  /\ moves = MaxMoves

Move == moves > 0 /\ moves' = moves - 1

(***************************************************************************)
(* An answer with status 401                                               *)
(***************************************************************************)

(* Removes the token that is stored, whichever it is, and fires            *)
(* AUTH_EXPIRED_EVENT, on which App drops its own.                         *)
SessionOver ==
  /\ stored' = None /\ token' = None
  /\ UNCHANGED <<accounts, start, setupForm>>

(* Mutant: publicApi ends the session as api does.                         *)
AnyUnauthorized(triggerAuthExpired) == SessionOver

(* What request does of it for api (TRUE) and publicApi (FALSE).           *)
Unauthorized(triggerAuthExpired) ==
  IF triggerAuthExpired THEN SessionOver
  ELSE UNCHANGED <<accounts, start, stored, token, setupForm>>

(***************************************************************************)
(* Is the server set up?                                                   *)
(***************************************************************************)

Known ==
  /\ initialized' = (admins > 0)
  /\ setupForm' = (admins = 0)

InitAnswered ==
  /\ init.pc = "asked"
  /\ Known
  /\ init' = [init EXCEPT !.pc = "done"]
  /\ UNCHANGED <<accounts, retrying, initError, stored, token, calls, moves>>

(* Mutant: nothing limits how long the answer may take.                    *)
InitAttemptRefused ==
  /\ init.pc = "asked" /\ Move
  /\ init' = [init EXCEPT !.pc = IF init.attempt < Attempts THEN "delay" ELSE "done"]
  /\ initError' = (init.attempt = Attempts)
  /\ UNCHANGED <<accounts, retrying, initialized, stored, token, setupForm, calls>>

(* The request fails, or 5 s pass: another attempt after a delay, or the   *)
(* error page.                                                             *)
InitAttemptFails ==
  /\ init.pc = "asked"
  /\ init' = [init EXCEPT !.pc = IF init.attempt < Attempts THEN "delay" ELSE "done"]
  /\ initError' = (init.attempt = Attempts)
  /\ UNCHANGED <<accounts, retrying, initialized, stored, token, setupForm, calls, moves>>

InitDelayOver ==
  /\ init.pc = "delay"
  /\ init' = [attempt |-> init.attempt + 1, pc |-> "asked"]
  /\ UNCHANGED <<accounts, retrying, initialized, initError, stored, token,
                 setupForm, calls, moves>>

(* handleRetryInitStatus: one request, without a time limit.               *)
Retry ==
  /\ Move /\ initError
  /\ initError' = FALSE /\ initialized' = None /\ retrying' = TRUE
  /\ UNCHANGED <<accounts, init, stored, token, setupForm, calls>>

RetryAnswered ==
  /\ retrying /\ Known
  /\ retrying' = FALSE
  /\ UNCHANGED <<accounts, init, initError, stored, token, calls, moves>>

RetryFails ==
  /\ retrying
  /\ retrying' = FALSE /\ initError' = TRUE
  /\ UNCHANGED <<accounts, init, initialized, stored, token, setupForm, calls, moves>>

(***************************************************************************)
(* Set-up, login, logout                                                   *)
(***************************************************************************)

Forms == token = None /\ initialized # None /\ ~initError

Setup(c) ==
  /\ Move /\ setups[c] = "none"
  /\ c = "tab" => Forms /\ setupForm
  /\ setups' = [setups EXCEPT ![c] = "sent"]
  /\ UNCHANGED <<admins, issued, live, start, stored, token, setupForm, calls>>

(* IsInitialized, before the transaction.                                  *)
SetupChecks(c) ==
  /\ setups[c] = "sent"
  /\ setups' = [setups EXCEPT ![c] = IF admins > 0 THEN "none" ELSE "checked"]
  /\ UNCHANGED <<admins, issued, live, start, stored, token, setupForm, calls, moves>>

(* Mutant: init_done is not a unique key.                                  *)
SetupCommitsTwice(c) ==
  /\ setups[c] = "checked"
  /\ setups' = [setups EXCEPT ![c] = "none"]
  /\ admins' = admins + 1 /\ setupForm' = (setupForm /\ c # "tab")
  /\ UNCHANGED <<issued, live, start, stored, token, calls, moves>>

(* The transaction adds the user and init_done; where init_done is already *)
(* there its unique key rolls both back.  If the reply is lost the form    *)
(* stays.                                                                  *)
SetupCommits(c) ==
  /\ setups[c] = "checked"
  /\ setups' = [setups EXCEPT ![c] = "none"]
  /\ \/ /\ admins = 0 /\ admins' = 1
        /\ \/ setupForm' = (setupForm /\ c # "tab") /\ UNCHANGED moves
           \/ Move /\ UNCHANGED setupForm
     \/ admins # 0 /\ UNCHANGED <<admins, setupForm, moves>>
  /\ UNCHANGED <<issued, live, start, stored, token, calls>>

(* The request, or its transaction, fails.                                 *)
SetupFails(c) ==
  /\ Move /\ setups[c] # "none"
  /\ setups' = [setups EXCEPT ![c] = "none"]
  /\ UNCHANGED <<admins, issued, live, start, stored, token, setupForm, calls>>

BackToLogin ==
  /\ Forms /\ setupForm
  /\ setupForm' = FALSE
  /\ UNCHANGED <<accounts, start, stored, token, calls, moves>>

(* handleLogin with the right password.                                    *)
Login ==
  /\ Move /\ Forms /\ ~setupForm /\ admins > 0 /\ issued < MaxTokens
  /\ issued' = issued + 1 /\ live' = live \cup {issued + 1}
  /\ stored' = issued + 1 /\ token' = issued + 1
  /\ UNCHANGED <<admins, setups, start, setupForm, calls>>

(* With a wrong one: the 401 goes through api, which finds no session.     *)
LoginRefused ==
  /\ Move /\ Forms /\ ~setupForm
  /\ Unauthorized(TRUE)
  /\ UNCHANGED calls

(* onLogout; the server is not told.                                       *)
Logout ==
  /\ Move /\ Home
  /\ stored' = None /\ token' = None
  /\ UNCHANGED <<accounts, start, setupForm, calls>>

Expire(t) ==
  /\ Move /\ t \in live
  /\ live' = live \ {t}
  /\ UNCHANGED <<admins, setups, issued, start, stored, token, setupForm, calls>>

(* The page is loaded anew, though not during its set-up; what it had sent *)
(* has no effect on it any more.                                           *)
Reload ==
  /\ Move /\ setups["tab"] = "none"
  /\ token' = stored
  /\ init' = [attempt |-> 1, pc |-> "asked"]
  /\ retrying' = FALSE /\ initialized' = None /\ initError' = FALSE
  /\ setupForm' = FALSE /\ calls' = {}
  /\ UNCHANGED <<accounts, stored>>

(* What the pages ask for at intervals, with the token they were given.    *)
Call ==
  /\ Home
  /\ calls' = calls \cup {token}
  /\ UNCHANGED <<accounts, start, stored, token, setupForm, moves>>

(* JWTAuth.  The answer to a request of an old token counts as well.       *)
CallAnswered(t) ==
  /\ t \in calls
  /\ IF t \in live THEN UNCHANGED <<accounts, start, stored, token, setupForm>>
     ELSE Unauthorized(TRUE)
  /\ calls' = calls \ {t}
  /\ UNCHANGED moves

SessionNext ==
  \/ InitAnswered \/ InitAttemptFails \/ InitDelayOver
  \/ Retry \/ RetryAnswered \/ RetryFails
  \/ \E c \in Callers : Setup(c) \/ SetupChecks(c) \/ SetupCommits(c) \/ SetupFails(c)
  \/ BackToLogin \/ Login \/ LoginRefused \/ Logout \/ Reload \/ Call
  \/ \E t \in Tokens : Expire(t) \/ CallAnswered(t)
===============================================================================
