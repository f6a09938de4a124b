----------------------------- MODULE CreateDefaults -----------------------------
(***************************************************************************)
(* The defaults of the form that creates a subscription, which the         *)
(* dashboard reads when it is mounted and saves 600 ms after each change   *)
(* (DashboardPage of web/src/App.tsx), and the row the server keeps of     *)
(* them (preference_service.go, http_handler.go).                          *)
(*                                                                         *)
(* The seventeen fields do not influence each other but for the weights,   *)
(* so a behaviour is about one of the numbers, chosen at the start.        *)
(***************************************************************************)
EXTENDS ConsoleSession, Integers

CONSTANTS
  Fields,    (* the fields tried                                            *)
  Inputs     (* what is typed into them                                     *)

(* SUBSCRIPTION_CREATE_DEFAULTS and the bounds of                          *)
(* normalizeSubscriptionCreateDefaults; NoMax where there is none.         *)
NoMax == 1000000
Field(least, most, default, empty) ==
  [least |-> least, most |-> most, default |-> default, empty |-> empty]
Rules ==
  [latency_concurrency  |-> Field(1, NoMax, 20, 1),
   latency_timeout_ms   |-> Field(100, NoMax, 1200, 1200),
   e2e_timeout_ms       |-> Field(500, NoMax, 6000, 6000),
   fetch_timeout_ms     |-> Field(1000, NoMax, 20000, 20000),
   fetch_retries        |-> Field(0, 5, 2, 0),
   latency_probe_count  |-> Field(1, NoMax, 3, 3),
   latency_interval_sec |-> Field(0, NoMax, 300, 0),
   interval_sec         |-> Field(0, NoMax, 0, 0),
   timeout_ms           |-> Field(200, NoMax, 5000, 200)]

ASSUME DefaultsAssumption == Fields \subseteq DOMAIN Rules /\ Inputs \subseteq 0..NoMax

(* What onChange makes of the input: 0 stands for an empty one as well.    *)
(* fetch_retries and timeout_ms are put in bounds at once.                 *)
Typed(f, v) ==
  LET r == Rules[f] n == IF v = 0 THEN r.empty ELSE v IN
  IF f = "fetch_retries" /\ n > r.most THEN r.most
  ELSE IF f = "timeout_ms" /\ n < r.least THEN r.least ELSE n

(* normalizeSubscriptionCreateDefaults of the page, and of the server,     *)
(* where what is too small (of most fields: not positive) becomes the      *)
(* default.                                                                *)
Normal(f, v) ==
  LET r == Rules[f] IN
  IF v < r.least THEN r.least ELSE IF v > r.most THEN r.most ELSE v
ServerNormal(f, v) ==
  LET r == Rules[f] low == IF r.least = 0 THEN 0 ELSE 1 IN
  IF v < low THEN r.default ELSE IF v > r.most THEN r.most ELSE v

VARIABLES
  field,     (* the field this behaviour is about                           *)
  pref,      (* its value in the row of system_settings; None without a row *)
  prefRows,  (* how many such rows there are                                *)
  away,      (* the user is on another page of the console                  *)
  form,      (* its value in the form, while the dashboard is mounted       *)
  hydrated,  (* subDefaultsHydrated                                         *)
  reading,   (* None, or the GET of this mount                              *)
  armed,     (* the timer of 600 ms runs                                    *)
  puts,      (* the PUTs the server has not finished                        *)
  wanted     (* history: what the user typed, read or had to start from     *)

row == <<pref, prefRows>>
mount == <<form, hydrated, reading, armed>>
defaults == <<field, row, away, mount, puts, wanted>>

BuiltIn == Rules[field].default

DefaultsInit ==
  /\ field \in Fields
  /\ \/ pref = None /\ prefRows = 0
     \/ admins > 0 /\ prefRows = 1 /\ pref \in {Normal(field, v) : v \in Inputs}
  /\ away = FALSE
  /\ form = BuiltIn /\ hydrated = FALSE /\ reading = None /\ armed = FALSE
  /\ puts = {}
  /\ wanted = IF pref = None THEN {BuiltIn} ELSE {pref}

Mounted == Home /\ ~away

(* Mutant: the timer does not wait for the defaults to be read.            *)
ArmsAlways(read) == TRUE

(* The effect on the fields starts the timer only when they were read.     *)
Arms(read) == read

(* What React does when the dashboard appears: the state is new, the       *)
(* effect on [token] asks for the defaults; when it goes: the timer is     *)
(* cleared and an answer is not applied any more.                          *)
Mount ==
  /\ form' = BuiltIn /\ hydrated' = FALSE /\ armed' = Arms(FALSE)
  /\ reading' = [pc |-> "asked", token |-> token']
Unmount ==
  /\ form' = BuiltIn /\ hydrated' = FALSE /\ armed' = FALSE /\ reading' = None

(* Goes with every step that may change what the page shows.               *)
Rerender ==
  /\ IF Mounted /\ ~Mounted' THEN Unmount
     ELSE IF ~Mounted /\ Mounted' THEN Mount ELSE UNCHANGED mount
  /\ UNCHANGED <<field, row, puts, wanted>>

(* To the page of a target, or back.                                       *)
Navigate ==
  /\ Move /\ Home
  /\ away' = ~away /\ UNCHANGED session
  /\ Rerender

ReadAnswered ==
  /\ reading # None /\ reading.pc = "asked" /\ UNCHANGED calls
  /\ \/ /\ reading.token \in live
        /\ reading' = [pc |-> "answered", value |-> IF pref = None THEN BuiltIn ELSE pref]
        /\ UNCHANGED <<accounts, start, stored, token, setupForm, field, row, away,
                       form, hydrated, armed, puts, wanted>>
     \/ /\ reading.token \notin live
        /\ Unauthorized(TRUE) /\ UNCHANGED away
        /\ Rerender
  /\ UNCHANGED moves

(* All fields are set, then subDefaultsHydrated, on which the other effect *)
(* starts its timer though nothing was typed.                              *)
Hydrate ==
  /\ reading # None /\ reading.pc = "answered"
  /\ form' = Normal(field, reading.value)
  /\ hydrated' = TRUE /\ armed' = Arms(TRUE) /\ reading' = None
  /\ UNCHANGED <<session, field, row, away, puts, wanted, moves>>

(* A request that fails counts as hydrated too: what the form starts with  *)
(* will be saved over what the server has.                                 *)
ReadFails ==
  /\ reading # None /\ Move
  /\ hydrated' = TRUE /\ armed' = Arms(TRUE) /\ reading' = None
  /\ wanted' = wanted \cup {Normal(field, form)}
  /\ UNCHANGED <<session, field, row, away, form, puts>>

Type(v) ==
  /\ Move /\ Mounted /\ Typed(field, v) # form
  /\ form' = Typed(field, v)
  /\ armed' = Arms(hydrated)
  /\ wanted' = wanted \cup {Normal(field, Typed(field, v))}
  /\ UNCHANGED <<session, field, row, away, hydrated, reading, puts>>

(* The timer fires.                                                        *)
Put ==
  /\ armed
  /\ armed' = FALSE
  /\ puts' = puts \cup {[value |-> Normal(field, form), token |-> token, pc |-> "sent"]}
  /\ UNCHANGED <<session, field, row, away, form, hydrated, reading, wanted, moves>>

(* UpdatePreferenceDefaults and the look of SetDefaults for the row.       *)
PutLooks(p) ==
  /\ p \in puts /\ p.pc = "sent"
  /\ UNCHANGED <<calls, moves>>
  /\ \/ /\ p.token \notin live
        /\ Unauthorized(TRUE)
        /\ puts' = puts \ {p}
        /\ UNCHANGED <<field, row, away, wanted>>
        /\ IF Mounted /\ ~Mounted' THEN Unmount ELSE UNCHANGED mount
     \/ /\ p.token \in live /\ prefRows > 0
        /\ pref' = ServerNormal(field, p.value)
        /\ puts' = puts \ {p}
        /\ UNCHANGED <<accounts, start, stored, token, setupForm,
                       field, prefRows, away, mount, wanted>>
     \/ /\ p.token \in live /\ prefRows = 0
        /\ puts' = (puts \ {p}) \cup {[p EXCEPT !.pc = "create"]}
        /\ UNCHANGED <<accounts, start, stored, token, setupForm,
                       field, row, away, mount, wanted>>

(* The unique key refuses a second row; the page does not hear of it.      *)
PutCreates(p) ==
  /\ p \in puts /\ p.pc = "create"
  /\ IF prefRows = 0 THEN prefRows' = 1 /\ pref' = ServerNormal(field, p.value)
     ELSE UNCHANGED row
  /\ puts' = puts \ {p}
  /\ UNCHANGED <<session, field, away, mount, wanted, moves>>

(* It is lost on its way.                                                  *)
PutLost(p) ==
  /\ p \in puts /\ Move
  /\ puts' = puts \ {p}
  /\ UNCHANGED <<session, field, row, away, mount, wanted>>

DefaultsNext ==
  \/ Navigate \/ ReadAnswered \/ Hydrate \/ ReadFails \/ Put
  \/ \E v \in Inputs : Type(v)
  \/ \E p \in puts : PutLooks(p) \/ PutCreates(p) \/ PutLost(p)
===============================================================================
