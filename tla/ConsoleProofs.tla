----------------------------- MODULE ConsoleProofs -----------------------------
(***************************************************************************)
(* Theorems about Console: one administrator and one row of defaults, when *)
(* the page is blank, the stored defaults are what the user wanted, and    *)
(* what ends a session.                                                    *)
(***************************************************************************)
EXTENDS Console, TLAPS

(***************************************************************************)
(* The two normalisations                                                  *)
(***************************************************************************)

(* Every rule has bounds in order, with its default between them.          *)
LEMMA RuleBounds ==
  ASSUME NEW f \in DOMAIN Rules
  PROVE  /\ Rules[f].least \in Nat /\ Rules[f].most \in Nat
         /\ Rules[f].default \in Nat /\ Rules[f].empty \in Nat
         /\ Rules[f].least <= Rules[f].default /\ Rules[f].default <= Rules[f].most
BY SMT DEF Rules, Field, NoMax

(* What the page's normalizeSubscriptionCreateDefaults returns is a number *)
(* it returns unchanged, and which the server's leaves alone as well: what *)
(* the page sends is what is stored.                                       *)
THEOREM ServerStoresWhatPageSends ==
  ASSUME NEW f \in DOMAIN Rules, NEW v \in Int
  PROVE  /\ Normal(f, v) \in Nat
         /\ Normal(f, Normal(f, v)) = Normal(f, v)
         /\ ServerNormal(f, Normal(f, v)) = Normal(f, v)
<1> DEFINE r == Rules[f]
<1>1. r.least \in Nat /\ r.most \in Nat /\ r.least <= r.most
  BY RuleBounds
<1>2. /\ Normal(f, v) \in Nat /\ r.least <= Normal(f, v) /\ Normal(f, v) <= r.most
  BY <1>1 DEF Normal
<1>3. QED
  BY <1>1, <1>2 DEF Normal, ServerNormal

(***************************************************************************)
(* One row of each                                                         *)
(***************************************************************************)

(* The rows are numbers, and at most one of each.                          *)
Single == admins \in {0, 1} /\ prefRows \in {0, 1}

(* Only the transaction of the set-up adds an account, to none.            *)
LEMMA AccountIsFirst == Next => admins' = admins \/ (admins = 0 /\ admins' = 1)
<1>1. ASSUME SessionNext PROVE admins' = admins \/ (admins = 0 /\ admins' = 1)
  BY <1>1 DEF SessionNext, session, accounts, start, InitAnswered, InitAttemptFails,
     InitDelayOver, Retry, RetryAnswered, RetryFails, Setup, SetupChecks, SetupCommits, SetupFails,
     BackToLogin, Login, LoginRefused, Logout, Reload, Call, Expire, CallAnswered,
     Unauthorized, SessionOver
<1>2. ASSUME DefaultsNext PROVE admins' = admins
  BY <1>2 DEF DefaultsNext, session, accounts, Navigate, ReadAnswered, Hydrate, ReadFails,
     Put, Type, PutLooks, PutCreates, PutLost, Unauthorized, SessionOver
<1>3. ASSUME ShareNext PROVE admins' = admins
  BY <1>3 DEF ShareNext, session, accounts, CreateShare, ToggleShare, DeleteShare, EditShare,
     Administer, ShareExpires, AccessExpires, Verify, Verified, Refetch, FetchAnswered,
     FetchLost, ViewShared, FetchApplied, Unauthorized, SessionOver
<1>4. QED
  BY <1>1, <1>2, <1>3 DEF Next

(* Only PutCreates adds a row of defaults, to none.                        *)
LEMMA RowIsFirst == Next => prefRows' = prefRows \/ (prefRows = 0 /\ prefRows' = 1)
<1>1. ASSUME DefaultsNext PROVE prefRows' = prefRows \/ (prefRows = 0 /\ prefRows' = 1)
  BY <1>1 DEF DefaultsNext, row, Navigate, Rerender, ReadAnswered, Hydrate, ReadFails,
     Put, Type, PutLooks, PutCreates, PutLost
<1>2. ASSUME Rerender PROVE prefRows' = prefRows
  BY <1>2 DEF Rerender, row
<1>3. QED
  BY <1>1, <1>2 DEF Next

LEMMA SingleAlways == Spec => []Single
<1>1. Init => Single
  BY DEF Init, SessionInit, DefaultsInit, Single
<1>2. Single /\ [Next]_vars => Single'
  BY AccountIsFirst, RowIsFirst DEF Single, vars, session, accounts, defaults, row
<1>3. QED
  BY <1>1, <1>2, PTL DEF Spec

(* Of two first set-ups at once, or two first saves of the defaults, one   *)
(* gets through, for any number of tokens, moves and inputs.               *)
THEOREM FirstWritesAreUnique == Spec => []OneOfEach
<1>1. Single => OneOfEach
  BY DEF Single, OneOfEach
<1>2. QED
  BY <1>1, SingleAlways, PTL

(***************************************************************************)
(* Is the server set up?                                                   *)
(***************************************************************************)

(* Until checkInitStatus is through nothing is known; then the server's    *)
(* answer is, or the error page is shown, or the user has asked again.     *)
Asking ==
  /\ init \in [attempt : 1..Attempts, pc : {"asked", "delay", "done"}]
  /\ init.pc = "delay" => init.attempt < Attempts
  /\ init.pc # "done" => ~initError /\ ~retrying
  /\ init.pc = "done" => initialized # None \/ initError \/ retrying
  /\ ~(initError /\ retrying)

LEMMA NoneIsNoAnswer == None \notin BOOLEAN
BY SessionAssumption, Zenon

(* A step of the session goes on asking, or leaves what is known alone.    *)
LEMMA SessionAsks == Single /\ Asking /\ SessionNext => Asking'
<1> SUFFICES ASSUME Single, Asking, SessionNext PROVE Asking'
  OBVIOUS
<1> USE DEF Asking, Attempts
<1>1. ASSUME UNCHANGED start PROVE Asking'
  BY <1>1 DEF start
<1>2. CASE InitAnswered \/ RetryAnswered
  <2>1. initialized' \in BOOLEAN
    <3>1. initialized' = (admins > 0)
      BY <1>2, Zenon DEF InitAnswered, RetryAnswered, Known
    <3>2. (admins > 0) \in BOOLEAN
      BY SMT DEF Single
    <3>3. QED
      BY <3>1, <3>2, Zenon
  <2>2. initialized' # None
    BY <2>1, NoneIsNoAnswer, Zenon
  <2>3. CASE InitAnswered
    BY <2>2, <2>3 DEF InitAnswered
  <2>4. CASE RetryAnswered
    BY <2>2, <2>4 DEF RetryAnswered
  <2>5. QED
    BY <1>2, <2>3, <2>4
<1>3. CASE InitAttemptFails
  <2>1. /\ init.pc = "asked" /\ init.attempt \in 1..Attempts
        /\ init' = [init EXCEPT !.pc = IF init.attempt < Attempts THEN "delay" ELSE "done"]
        /\ initialized' = initialized /\ retrying' = retrying
    BY <1>3 DEF InitAttemptFails
  <2>2. initError' = (init.attempt = Attempts)
    BY <1>3, Zenon DEF InitAttemptFails
  <2>3. CASE init.attempt = Attempts
    <3>1. initError'
      BY <2>2, <2>3, Zenon
    <3>2. QED
      BY <2>1, <2>3, <3>1
  <2>4. CASE init.attempt # Attempts
    <3>1. ~initError'
      BY <2>2, <2>4, Zenon
    <3>2. QED
      BY <2>1, <2>4, <3>1
  <2>5. QED
    BY <2>3, <2>4
<1>4. CASE InitDelayOver
  BY <1>4 DEF InitDelayOver
<1>5. CASE Retry \/ RetryFails
  <2>1. CASE Retry
    BY <2>1 DEF Retry
  <2>2. CASE RetryFails
    BY <2>2 DEF RetryFails
  <2>3. QED
    BY <1>5, <2>1, <2>2
<1>6. CASE Reload
  BY <1>6 DEF Reload
<1>7. CASE \/ BackToLogin \/ Login \/ LoginRefused \/ Logout \/ Call
           \/ \E c \in Callers : Setup(c) \/ SetupChecks(c) \/ SetupCommits(c) \/ SetupFails(c)
           \/ \E t \in Tokens : Expire(t) \/ CallAnswered(t)
  BY <1>1, <1>7 DEF BackToLogin, Login, LoginRefused, Logout, Call, Setup, SetupChecks,
     SetupCommits, SetupFails, Expire, CallAnswered, Unauthorized, SessionOver
<1>8. QED
  BY <1>2, <1>3, <1>4, <1>5, <1>6, <1>7 DEF SessionNext

LEMMA AskingNext == Single /\ Asking /\ [Next]_vars => Asking'
<1>1. ASSUME DefaultsNext PROVE UNCHANGED start
  BY <1>1 DEF DefaultsNext, session, Navigate, ReadAnswered, Hydrate, ReadFails,
     Put, Type, PutLooks, PutCreates, PutLost, Unauthorized, SessionOver
<1>2. ASSUME ShareNext PROVE UNCHANGED start
  BY <1>2 DEF ShareNext, session, CreateShare, ToggleShare, DeleteShare, EditShare,
     Administer, ShareExpires, AccessExpires, Verify, Verified, Refetch, FetchAnswered,
     FetchLost, ViewShared, FetchApplied, Unauthorized, SessionOver
<1>3. ASSUME Asking, UNCHANGED start PROVE Asking'
  BY <1>3 DEF Asking, start
<1>4. QED
  BY <1>1, <1>2, <1>3, SessionAsks DEF Next, vars, session

(* The page is blank only while one of its questions, or the delay before  *)
(* the next, is under way, whatever else happens in the browser.           *)
THEOREM NeverBlankForLong == Spec => []BlankMeansAsking
<1>1. Init => Asking
  BY DEF Init, SessionInit, Asking, Attempts
<1>2. Asking => BlankMeansAsking
  BY DEF Asking, BlankMeansAsking, Attempts
<1>3. QED
  BY <1>1, <1>2, SingleAlways, AskingNext, PTL DEF Spec

(***************************************************************************)
(* The inductive invariant of the session and the defaults                 *)
(***************************************************************************)

(* App's token and localStorage agree, and requests carry issued tokens.   *)
Sess ==
  /\ issued \in Nat
  /\ token \in (1..issued) \cup {None}
  /\ stored = token
  /\ calls \subseteq 1..issued

(* A timer or a read belongs to a mounted dashboard; what was read, and    *)
(* what is under way to the server, is wanted.                             *)
Dash ==
  /\ reading \in {None} \cup [pc : {"asked"}, token : 1..issued]
                        \cup [pc : {"answered"}, value : wanted]
  /\ puts \subseteq [value : wanted, token : 1..issued, pc : {"sent", "create"}]
  /\ armed \/ reading # None => Mounted

(* What is wanted is normalised, and so is the form once it was read.      *)
Values ==
  /\ field \in DOMAIN Rules
  /\ \A w \in wanted : w \in Nat /\ Normal(field, w) = w
  /\ pref \in wanted \cup {None}
  /\ pref = None => BuiltIn \in wanted
  /\ form \in Nat
  /\ hydrated => Normal(field, form) \in wanted
  /\ armed => hydrated

Inv == Sess /\ Dash /\ Values

(* A built-in value is one the form may hold.                              *)
LEMMA BuiltInIsNormal ==
  ASSUME NEW f \in DOMAIN Rules
  PROVE  Rules[f].default \in Nat /\ Normal(f, Rules[f].default) = Rules[f].default
BY RuleBounds DEF Normal

(* What onChange leaves in the form is a number.                           *)
LEMMA TypedIsNumber ==
  ASSUME NEW f \in DOMAIN Rules, NEW v \in Nat
  PROVE  Typed(f, v) \in Nat
BY RuleBounds DEF Typed

(* What is typed is a number.                                              *)
LEMMA InputsAreNumbers == \A v \in Inputs : v \in Nat
<1>1. NoMax \in Nat
  BY SMT DEF NoMax
<1>2. 0..NoMax \subseteq Nat
  BY <1>1
<1>3. QED
  BY <1>2, DefaultsAssumption

(* A finite interval of tokens grows with its end.                         *)
LEMMA TokensGrow ==
  ASSUME NEW m \in Nat, NEW n \in Nat, m <= n
  PROVE  1..m \subseteq 1..n
OBVIOUS

LEMMA InvInit == Init => Inv
<1> SUFFICES ASSUME Init PROVE Inv
  OBVIOUS
<1>1. Sess
  BY SessionAssumption DEF Init, SessionInit, Sess
<1>2. field \in DOMAIN Rules /\ (\A v \in Inputs : v \in Nat)
  BY InputsAreNumbers, DefaultsAssumption DEF Init, DefaultsInit
<1>3. Dash
  BY DEF Init, DefaultsInit, Dash
<1>4. BuiltIn \in Nat /\ Normal(field, BuiltIn) = BuiltIn
  BY <1>2, BuiltInIsNormal DEF BuiltIn
<1>5. \A v \in Inputs : Normal(field, v) \in Nat
                        /\ Normal(field, Normal(field, v)) = Normal(field, v)
  BY <1>2, ServerStoresWhatPageSends
<1>6. Values
  BY <1>2, <1>4, <1>5, SessionAssumption DEF Init, DefaultsInit, Values
<1>7. QED
  BY <1>1, <1>3, <1>6 DEF Inv

(* What Rerender does to the dashboard keeps the invariant, whatever the   *)
(* session did in the same step.                                           *)
LEMMA RerenderKeeps ==
  ASSUME Inv, Rerender, Sess', issued <= issued'
  PROVE  Dash' /\ Values'
<1>1. 1..issued \subseteq 1..issued'
  BY TokensGrow DEF Inv, Sess
<1>2. field' = field /\ pref' = pref /\ puts' = puts /\ wanted' = wanted
  BY DEF Rerender, row
<1>3. CASE Mounted /\ ~Mounted'
  <2>1. form' = BuiltIn /\ hydrated' = FALSE /\ armed' = FALSE /\ reading' = None
    BY <1>3 DEF Rerender, Unmount
  <2>2. BuiltIn \in Nat
    BY BuiltInIsNormal DEF BuiltIn, Inv, Values
  <2>3. QED
    BY <1>1, <1>2, <2>1, <2>2 DEF Inv, Dash, Values, BuiltIn
<1>4. CASE ~Mounted /\ Mounted'
  <2>1. /\ form' = BuiltIn /\ hydrated' = FALSE /\ armed' = FALSE
        /\ reading' = [pc |-> "asked", token |-> token']
    BY <1>4 DEF Rerender, Mount, Arms
  <2>2. token' \in 1..issued'
    BY <1>4 DEF Mounted, Home, Sess
  <2>3. BuiltIn \in Nat
    BY BuiltInIsNormal DEF BuiltIn, Inv, Values
  <2>4. QED
    BY <1>1, <1>2, <1>4, <2>1, <2>2, <2>3 DEF Inv, Dash, Values, BuiltIn
<1>5. CASE Mounted <=> Mounted'
  <2>1. form' = form /\ hydrated' = hydrated /\ armed' = armed /\ reading' = reading
    BY <1>5 DEF Rerender, mount
  <2>2. QED
    BY <1>1, <1>2, <1>5, <2>1 DEF Inv, Dash, Values, BuiltIn
<1>6. QED
  BY <1>3, <1>4, <1>5

(* A step of the session keeps its tokens in order.                        *)
LEMMA SessionKeeps ==
  ASSUME Sess, SessionNext
  PROVE  Sess' /\ issued <= issued'
<1>1. ASSUME Login PROVE Sess' /\ issued <= issued'
  BY <1>1 DEF Login, Sess
<1>2. ASSUME Reload PROVE Sess' /\ issued <= issued'
  BY <1>2 DEF Reload, Sess, accounts
<1>3. ASSUME Call PROVE Sess' /\ issued <= issued'
  BY <1>3 DEF Call, Home, Sess, accounts
<1>4. ASSUME \E t \in Tokens : CallAnswered(t) PROVE Sess' /\ issued <= issued'
  BY <1>4 DEF CallAnswered, Unauthorized, SessionOver, Sess, accounts
<1>5. ASSUME LoginRefused \/ Logout PROVE Sess' /\ issued <= issued'
  <2>1. stored' = None /\ token' = None /\ calls' = calls
    BY <1>5 DEF LoginRefused, Logout, Unauthorized, SessionOver
  <2>2. accounts' = accounts
    BY <1>5 DEF LoginRefused, Logout, Unauthorized, SessionOver
  <2>3. QED
    BY <2>1, <2>2 DEF Sess, accounts
<1>6. ASSUME \/ InitAnswered \/ InitAttemptFails \/ InitDelayOver
             \/ Retry \/ RetryAnswered \/ RetryFails \/ BackToLogin
             \/ \E c \in Callers : Setup(c) \/ SetupChecks(c) \/ SetupCommits(c) \/ SetupFails(c)
             \/ \E t \in Tokens : Expire(t)
      PROVE  Sess' /\ issued <= issued'
  BY <1>6 DEF InitAnswered, InitAttemptFails, InitDelayOver, Retry, RetryAnswered, RetryFails,
     BackToLogin, Setup, SetupChecks, SetupCommits, SetupFails, Expire, Sess, accounts
<1>7. QED
  BY <1>1, <1>2, <1>3, <1>4, <1>5, <1>6 DEF SessionNext

(* The share page and the buttons that administer a share issue no token.  *)
LEMMA ShareKeeps ==
  ASSUME Sess, ShareNext
  PROVE  Sess' /\ issued <= issued'
<1>1. issued' = issued /\ calls' = calls
  BY DEF ShareNext, session, accounts, CreateShare, ToggleShare, DeleteShare, EditShare,
     Administer, ShareExpires, AccessExpires, Verify, Verified, Refetch, FetchAnswered,
     FetchLost, ViewShared, FetchApplied, Unauthorized, SessionOver
<1>2. (stored' = stored /\ token' = token) \/ (stored' = None /\ token' = None)
  BY DEF ShareNext, session, accounts, CreateShare, ToggleShare, DeleteShare, EditShare,
     Administer, ShareExpires, AccessExpires, Verify, Verified, Refetch, FetchAnswered,
     FetchLost, ViewShared, FetchApplied, Unauthorized, SessionOver
<1>3. QED
  BY <1>1, <1>2 DEF Sess

(* Where a step leaves the session alone its part stays.                   *)
LEMMA SessFrame ==
  ASSUME Sess, UNCHANGED session
  PROVE  Sess' /\ issued' = issued /\ token' = token /\ Home' = Home
BY DEF Sess, session, accounts, start, Home

(* A refused token takes App's away and issues none.                       *)
LEMMA SessionOverKeeps ==
  ASSUME Sess, Unauthorized(TRUE), calls' = calls
  PROVE  Sess' /\ issued' = issued /\ token' = None
<1>1. stored' = None /\ token' = None /\ accounts' = accounts
  BY DEF Unauthorized, SessionOver
<1>2. QED
  BY <1>1 DEF Sess, accounts

LEMMA ReadAnsweredKeeps == Inv /\ ReadAnswered => Inv'
<1> SUFFICES ASSUME Inv, ReadAnswered PROVE Inv'
  OBVIOUS
<1>1. CASE /\ reading' = [pc |-> "answered", value |-> IF pref = None THEN BuiltIn ELSE pref]
           /\ UNCHANGED <<accounts, start, stored, token, setupForm, field, row, away,
                          form, hydrated, armed, puts, wanted>>
  <2>1. Sess' /\ issued' = issued /\ (Mounted <=> Mounted')
    BY <1>1 DEF Inv, Sess, ReadAnswered, accounts, start, Mounted, Home
  <2>2. reading # None => Mounted
    BY DEF Inv, Dash
  <2>3. (IF pref = None THEN BuiltIn ELSE pref) \in wanted
    BY DEF Inv, Values
  <2>4. Dash'
    BY <1>1, <2>1, <2>2, <2>3 DEF Inv, Dash, ReadAnswered
  <2>5. Values'
    BY <1>1 DEF Inv, Values, BuiltIn, row
  <2>6. QED
    BY <2>1, <2>4, <2>5 DEF Inv
<1>2. CASE Unauthorized(TRUE) /\ Rerender
  <2>1. Sess' /\ issued' = issued
    BY <1>2, SessionOverKeeps DEF Inv, ReadAnswered
  <2>2. issued <= issued'
    BY <2>1 DEF Inv, Sess
  <2>3. QED
    BY <1>2, <2>1, <2>2, RerenderKeeps DEF Inv
<1>3. QED
  BY <1>1, <1>2 DEF ReadAnswered

(* Hydrate, ReadFails and Type change the form of a mounted dashboard.     *)
LEMMA FormKeeps ==
  ASSUME Inv, Hydrate \/ ReadFails \/ \E v \in Inputs : Type(v)
  PROVE  Inv'
<1>1. UNCHANGED session /\ field' = field /\ pref' = pref /\ away' = away /\ puts' = puts
  BY DEF Hydrate, ReadFails, Type, row
<1>2. Sess' /\ issued' = issued /\ (Mounted <=> Mounted')
  BY <1>1, SessFrame DEF Mounted, Inv
<1>3. field \in DOMAIN Rules /\ form \in Nat
  BY DEF Inv, Values
<1>4. CASE Hydrate
  <2>1. reading.value \in wanted
    BY <1>4 DEF Hydrate, Inv, Dash
  <2>2. form' = reading.value /\ form' \in wanted' /\ wanted' = wanted
    BY <1>4, <2>1 DEF Hydrate, Inv, Values
  <2>3. Mounted /\ reading' = None /\ hydrated' /\ armed'
    BY <1>4 DEF Hydrate, Inv, Dash, Arms
  <2>4. Dash'
    BY <1>1, <1>2, <2>2, <2>3 DEF Inv, Dash
  <2>5. Values'
    BY <1>1, <2>2, <2>3 DEF Inv, Values, BuiltIn
  <2>6. QED
    BY <1>2, <2>4, <2>5 DEF Inv
<1>5. CASE ReadFails
  <2>1. Normal(field, form) \in Nat /\ Normal(field, Normal(field, form)) = Normal(field, form)
    BY <1>3, ServerStoresWhatPageSends
  <2>2. wanted' = wanted \cup {Normal(field, form)} /\ form' = form
    BY <1>5 DEF ReadFails
  <2>3. Mounted /\ reading' = None /\ hydrated' /\ armed'
    BY <1>5 DEF ReadFails, Inv, Dash, Arms
  <2>4. Dash'
    BY <1>1, <1>2, <2>2, <2>3 DEF Inv, Dash
  <2>5. Values'
    BY <1>1, <2>1, <2>2, <2>3 DEF Inv, Values, BuiltIn
  <2>6. QED
    BY <1>2, <2>4, <2>5 DEF Inv
<1>6. ASSUME NEW v \in Inputs, Type(v) PROVE Inv'
  <2> DEFINE n == Typed(field, v)
  <2>1. n \in Nat
    BY <1>3, InputsAreNumbers, TypedIsNumber
  <2>2. Normal(field, n) \in Nat /\ Normal(field, Normal(field, n)) = Normal(field, n)
    BY <1>3, <2>1, ServerStoresWhatPageSends
  <2>3. form' = n /\ wanted' = wanted \cup {Normal(field, n)}
    BY <1>6 DEF Type
  <2>4. Mounted /\ reading' = reading /\ hydrated' = hydrated /\ (armed' <=> hydrated)
    BY <1>6 DEF Type, Arms
  <2> HIDE DEF n
  <2>5. Dash'
    BY <1>1, <1>2, <2>3, <2>4 DEF Inv, Dash
  <2>6. Values'
    BY <1>1, <2>1, <2>2, <2>3, <2>4 DEF Inv, Values, BuiltIn
  <2>7. QED
    BY <1>2, <2>5, <2>6 DEF Inv
<1>7. QED
  BY <1>4, <1>5, <1>6

(* What the timer sends is wanted, with the token of the session.          *)
LEMMA PutKeeps == Inv /\ Put => Inv'
<1> SUFFICES ASSUME Inv, Put PROVE Inv'
  OBVIOUS
<1>1. UNCHANGED session /\ away' = away
  BY DEF Put
<1>2. Sess' /\ issued' = issued /\ (Mounted <=> Mounted')
  BY <1>1, SessFrame DEF Mounted, Inv
<1>3. armed /\ Mounted /\ hydrated /\ Normal(field, form) \in wanted
  BY DEF Put, Inv, Dash, Values
<1>4. token \in 1..issued
  BY <1>3 DEF Mounted, Home, Inv, Sess
<1>5. [value |-> Normal(field, form), token |-> token, pc |-> "sent"]
        \in [value : wanted, token : 1..issued, pc : {"sent", "create"}]
  BY <1>3, <1>4
<1>6. Dash'
  BY <1>2, <1>3, <1>5 DEF Put, Inv, Dash
<1>7. Values'
  BY DEF Put, Inv, Values, BuiltIn, row
<1>8. QED
  BY <1>2, <1>6, <1>7 DEF Inv

(* The server's steps for a PUT store a wanted value or none.              *)
LEMMA PutsKeep ==
  ASSUME Inv, NEW p \in puts, PutLooks(p) \/ PutCreates(p) \/ PutLost(p)
  PROVE  Inv'
<1>1. p \in [value : wanted, token : 1..issued, pc : {"sent", "create"}]
  BY DEF Inv, Dash
<1>2. p.value \in wanted /\ p.value \in Nat /\ ServerNormal(field, p.value) = p.value
  <2>1. p.value \in wanted /\ p.value \in Nat /\ Normal(field, p.value) = p.value
    BY <1>1 DEF Inv, Values
  <2>2. ServerNormal(field, Normal(field, p.value)) = Normal(field, p.value)
    BY <2>1, ServerStoresWhatPageSends DEF Inv, Values
  <2>3. QED
    BY <2>1, <2>2
<1>3. CASE Unauthorized(TRUE) /\ calls' = calls /\ puts' = puts \ {p}
           /\ UNCHANGED <<field, row, away, wanted>>
           /\ IF Mounted /\ ~Mounted' THEN Unmount ELSE UNCHANGED mount
  <2>1. Sess' /\ issued' = issued /\ ~Mounted'
    BY <1>3, SessionOverKeeps DEF Inv, Mounted, Home
  <2>2. BuiltIn \in Nat
    BY BuiltInIsNormal DEF BuiltIn, Inv, Values
  <2>3. CASE Mounted
    <3>1. form' = BuiltIn /\ hydrated' = FALSE /\ armed' = FALSE /\ reading' = None
      BY <1>3, <2>1, <2>3 DEF Unmount
    <3>2. QED
      BY <1>3, <2>1, <2>2, <3>1 DEF Inv, Dash, Values, BuiltIn, row
  <2>4. CASE ~Mounted
    <3>1. form' = form /\ hydrated' = hydrated /\ armed' = armed /\ reading' = reading
      BY <1>3, <2>4 DEF mount
    <3>2. QED
      BY <1>3, <2>1, <2>4, <3>1 DEF Inv, Dash, Values, BuiltIn, row
  <2>5. QED
    BY <2>3, <2>4
<1>4. CASE /\ UNCHANGED session /\ UNCHANGED <<field, away, mount, wanted>>
           /\ pref' \in {pref, p.value}
           /\ puts' \in {puts \ {p}, (puts \ {p}) \cup {[p EXCEPT !.pc = "create"]}}
  <2>1. Sess' /\ issued' = issued /\ (Mounted <=> Mounted')
    BY <1>4, SessFrame DEF Mounted, Inv
  <2>2. [p EXCEPT !.pc = "create"] \in [value : wanted, token : 1..issued, pc : {"sent", "create"}]
    BY <1>1
  <2>3. Dash'
    BY <1>4, <2>1, <2>2 DEF Inv, Dash, mount
  <2>4. Values'
    BY <1>2, <1>4, SessionAssumption DEF Inv, Values, mount, BuiltIn
  <2>5. QED
    BY <2>1, <2>3, <2>4 DEF Inv
<1>5. CASE PutLooks(p)
  BY <1>2, <1>3, <1>4, <1>5 DEF PutLooks, session, row
<1>6. CASE PutCreates(p)
  BY <1>2, <1>4, <1>6 DEF PutCreates, row
<1>7. CASE PutLost(p)
  BY <1>4, <1>7 DEF PutLost, row
<1>8. QED
  BY <1>5, <1>6, <1>7

LEMMA InvNext == Inv /\ [Next]_vars => Inv'
<1> SUFFICES ASSUME Inv, [Next]_vars PROVE Inv'
  OBVIOUS
<1>1. CASE SessionNext /\ UNCHANGED <<away, sharing>> /\ Rerender
  BY <1>1, SessionKeeps, RerenderKeeps DEF Inv
<1>2. CASE ShareNext /\ UNCHANGED away /\ Rerender
  BY <1>2, ShareKeeps, RerenderKeeps DEF Inv
<1>3. CASE DefaultsNext
  <2>1. ASSUME Navigate PROVE Inv'
    <3>1. Sess' /\ issued' = issued
      BY <2>1, SessFrame DEF Navigate, Inv
    <3>2. issued <= issued' /\ Rerender
      BY <2>1, <3>1 DEF Navigate, Inv, Sess
    <3>3. QED
      BY <3>1, <3>2, RerenderKeeps DEF Inv
  <2>2. QED
    BY <1>3, <2>1, ReadAnsweredKeeps, FormKeeps, PutKeeps, PutsKeep DEF DefaultsNext
<1>4. CASE UNCHANGED vars
  <2>1. UNCHANGED session /\ UNCHANGED <<field, pref, away, form, hydrated, reading, armed, puts, wanted>>
    BY <1>4 DEF vars, defaults, row, mount
  <2>2. Sess' /\ issued' = issued /\ (Mounted <=> Mounted')
    BY <2>1, SessFrame DEF Mounted, Inv
  <2>3. QED
    BY <2>1, <2>2 DEF Inv, Dash, Values, BuiltIn
<1>5. QED
  BY <1>1, <1>2, <1>3, <1>4 DEF Next

(* The invariant holds in every reachable state.                           *)
LEMMA Always == Spec => []Inv
BY InvInit, InvNext, PTL DEF Spec

(* For every field, every input and any number of tokens and moves, what   *)
(* the server keeps as defaults of the create form is what the user typed, *)
(* what was stored before, or what the form started with when there was    *)
(* nothing to read or reading it failed.                                   *)
THEOREM DefaultsAlwaysTheUsers == Spec => []DefaultsAreTheUsers
<1>1. Inv => DefaultsAreTheUsers
  BY DEF Inv, Values, DefaultsAreTheUsers
<1>2. QED
  BY <1>1, Always, PTL

(***************************************************************************)
(* What ends a session                                                     *)
(***************************************************************************)

(* Steps that can take App's token away: the user's, or the answer to a    *)
(* request of the console whose token the server lets through no more.     *)
LEMMA TokenGoesForCause ==
  ASSUME Inv, Next, token # None, token' = None
  PROVE  Logout \/ (Carried \ live # {} /\ UNCHANGED sharing)
<1>1. token \in 1..issued /\ issued \in Nat /\ stored = token
  BY DEF Inv, Sess
<1>2. CASE SessionNext /\ UNCHANGED sharing
  <2>1. ASSUME \E t \in Tokens : CallAnswered(t) PROVE Carried \ live # {}
    BY <2>1 DEF CallAnswered, Carried
  <2>2. ASSUME \/ InitAnswered \/ InitAttemptFails \/ InitDelayOver
               \/ Retry \/ RetryAnswered \/ RetryFails \/ BackToLogin \/ Call
               \/ \E c \in Callers : Setup(c) \/ SetupChecks(c) \/ SetupCommits(c) \/ SetupFails(c)
               \/ \E t \in Tokens : Expire(t)
        PROVE  token' = token
    BY <2>2 DEF InitAnswered, InitAttemptFails, InitDelayOver, Retry, RetryAnswered, RetryFails,
       BackToLogin, Call, Setup, SetupChecks, SetupCommits, SetupFails, Expire
  <2>3. ASSUME Reload PROVE token' = token
    BY <1>1, <2>3 DEF Reload
  <2>4. ASSUME Login \/ LoginRefused PROVE FALSE
    BY <2>4 DEF Login, LoginRefused, Forms
  <2>5. QED
    BY <1>2, <2>1, <2>2, <2>3, <2>4 DEF SessionNext
<1>3. CASE DefaultsNext /\ UNCHANGED sharing
  <2>1. ASSUME ReadAnswered PROVE Carried \ live # {}
    BY <2>1 DEF ReadAnswered, Carried
  <2>2. ASSUME NEW p \in puts, PutLooks(p) PROVE Carried \ live # {}
    <3>1. p.token \notin live
      BY <2>2 DEF PutLooks
    <3>2. QED
      BY <3>1 DEF Carried
  <2>3. ASSUME \/ Navigate \/ Hydrate \/ ReadFails \/ Put
               \/ \E v \in Inputs : Type(v)
               \/ \E p \in puts : PutCreates(p) \/ PutLost(p)
        PROVE  token' = token
    BY <2>3 DEF Navigate, Hydrate, ReadFails, Put, Type, PutCreates, PutLost, session
  <2>4. QED
    BY <1>3, <2>1, <2>2, <2>3 DEF DefaultsNext
<1>4. CASE ShareNext
  <2>1. ASSUME NEW new, Administer(new) PROVE Carried \ live # {} /\ UNCHANGED sharing
    BY <2>1 DEF Administer, Carried, sharing
  <2>2. ASSUME CreateShare \/ ToggleShare \/ DeleteShare \/ \E p \in BOOLEAN : EditShare(p)
        PROVE  Carried \ live # {} /\ UNCHANGED sharing
    BY <2>1, <2>2 DEF CreateShare, ToggleShare, DeleteShare, EditShare
  <2>3. ASSUME \/ ShareExpires \/ AccessExpires
               \/ \E p \in {0, 1} : Verify(p)
               \/ Verified \/ Refetch \/ FetchAnswered \/ FetchLost \/ ViewShared
               \/ \E a \in {"ok", "missing", "disabled", "expired", "access token"} : FetchApplied(a)
        PROVE  token' = token
    BY <2>3 DEF session, ShareExpires, AccessExpires, Verify, Verified, Refetch, FetchAnswered,
       FetchLost, ViewShared, FetchApplied, Unauthorized
  <2>4. QED
    BY <1>4, <2>2, <2>3 DEF ShareNext
<1>5. QED
  BY <1>2, <1>3, <1>4 DEF Next

(* The console's session never ends because of an answer to the public     *)
(* share page, nor by anything but a logout or a refused request of the    *)
(* console with an expired token.                                          *)
THEOREM SessionsEndForCause == Spec => SessionEndsForCause
<1>1. Inv /\ [Next]_vars =>
        [token # None /\ token' = None =>
           Logout \/ (Carried \ live # {} /\ UNCHANGED sharing)]_vars
  <2> SUFFICES ASSUME Inv, Next, token # None, token' = None
               PROVE  Logout \/ (Carried \ live # {} /\ UNCHANGED sharing)
    BY DEF vars, session
  <2>1. QED
    BY TokenGoesForCause
<1>2. QED
  BY <1>1, Always, PTL DEF Spec, SessionEndsForCause
===============================================================================
