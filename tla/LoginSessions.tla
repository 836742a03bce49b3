---------------------------- MODULE LoginSessions ----------------------------
(***************************************************************************)
(* Who is let in: login and logout (SessionsController), the check before  *)
(* every other action (ApplicationController#require_login), the sessions  *)
(* table with its expiry (Session, SweepSessionsJob), API tokens, and the  *)
(* one settings row with the password (Setting.current), which the first   *)
(* request creates.  Each database statement is a step; requests run on    *)
(* several threads and nothing is locked between two statements.           *)
(*                                                                         *)
(* A username and its password are one value here, compared together, and  *)
(* a request carries one credential, a session's cookie or a bearer token. *)
(***************************************************************************)
EXTENDS Naturals, Sequences

CONSTANTS
  Threads,
  Tokens,     \* raw session tokens SecureRandom returns, each used once
  Keys,       \* raw API tokens, each used once
  Passwords,
  Default,    \* DEFAULT_PASSWORD
  TTL,        \* TTL_HOURS, in ticks of the clock
  MaxTime,    \* a bound: the last tick, by which every session issued has expired
  None

ASSUME ConstantsOK ==
  /\ Default \in Passwords /\ None \notin Passwords
  /\ TTL \in Nat \ {0} /\ MaxTime \in Nat
  /\ Tokens \intersect Keys = {}

\* Requests: a login, or something that takes a cookie or a bearer token.
\* "page" stands for every action that does not touch these tables.
Requests ==
  [op : {"login"}, pass : Passwords]
    \union [op : {"page", "logout"}, cred : Tokens \union Keys]
    \union [op : {"password"}, cred : Tokens \union Keys, pass : Passwords]
    \union [op : {"mint", "revoke"}, cred : Tokens \union Keys, key : Keys]

VARIABLES
  clock,
  settings,  \* passwords of the settings rows, in the order of their ids
  sessions,  \* tokens with a row in sessions
  expires,   \* their expires_at; 0 for a token not issued yet
  keys,      \* API tokens with a row in api_tokens
  minted,    \* those that were ever issued
  pc,        \* where each thread is
  req,       \* the request it serves
  row,       \* the settings row it loaded
  digest,    \* its password as loaded
  answer,    \* "none", "ok", "signin" (sent to the login form, or 401),
             \* "alert" (refused), "missing" (404) or "crash" (500)
  ended,     \* history: credentials logged out or revoked
  late,      \* history: the request's credential ended before it began
  valid,     \* history: passwords in force since a login began
  beaten     \* history: another request changed the password after it did

tables == <<settings, sessions, expires, keys, minted>>
local == <<pc, req, row, digest, answer>>
history == <<ended, late, valid, beaten>>
vars == <<clock, tables, local, history>>

TypeOK ==
  /\ clock \in 0 .. MaxTime
  /\ settings \in Seq(Passwords)
  /\ sessions \subseteq Tokens
  /\ expires \in [Tokens -> 0 .. MaxTime + TTL]
  /\ keys \subseteq minted /\ minted \subseteq Keys
  /\ pc \in [Threads -> {"idle", "session", "expiry", "reap", "bearer", "setting", "seed",
                         "compare", "issue", "update", "act", "revoke", "answer"}]
  /\ req \in [Threads -> Requests \union {None}]
  /\ \A t \in Threads : pc[t] # "idle" => req[t] \in Requests
  /\ row \in [Threads -> 0 .. Len(settings)]
  /\ digest \in [Threads -> Passwords]
  /\ answer \in [Threads -> {"none", "ok", "signin", "alert", "missing", "crash"}]
  /\ ended \subseteq Tokens \union Keys
  /\ late \in [Threads -> BOOLEAN]
  /\ valid \in [Threads -> SUBSET Passwords]
  /\ beaten \in [Threads -> BOOLEAN]

Init ==
  /\ clock = 0
  /\ settings = <<>>
  /\ sessions = {} /\ expires = [k \in Tokens |-> 0]
  /\ keys = {} /\ minted = {}
  /\ pc = [t \in Threads |-> "idle"]
  /\ req = [t \in Threads |-> None]
  /\ row = [t \in Threads |-> 0]
  /\ digest = [t \in Threads |-> Default]
  /\ answer = [t \in Threads |-> "none"]
  /\ ended = {} /\ late = [t \in Threads |-> FALSE]
  /\ valid = [t \in Threads |-> {}]
  /\ beaten = [t \in Threads |-> FALSE]

-----------------------------------------------------------------------------
\* The password in force: that of the first row, or the one it will have
Current(rows) == IF rows = <<>> THEN Default ELSE rows[1]

Goto(t, l) == pc' = [pc EXCEPT ![t] = l]
Answers(t, a) == Goto(t, "answer") /\ answer' = [answer EXCEPT ![t] = a]

Issued == {k \in Tokens : expires[k] > 0} \union minted

\* A request comes in, with a credential that was issued some time.
Receive(t, r) ==
  /\ pc[t] = "idle"
  /\ r.op # "login" => r.cred \in Issued
  /\ req' = [req EXCEPT ![t] = r]
  /\ late' = [late EXCEPT ![t] = r.op # "login" /\ r.cred \in ended]
  /\ valid' = [valid EXCEPT ![t] = IF r.op = "login" THEN {Current(settings)} ELSE {}]
  /\ Goto(t, CASE r.op = "login" -> "setting"
               [] r.op # "login" /\ r.cred \in Tokens -> "session"
               [] OTHER -> "bearer")
  /\ UNCHANGED <<clock, tables, row, digest, answer, ended, beaten>>

-----------------------------------------------------------------------------
(* require_login.                                                          *)

\* Where a request that is let in goes on
Admit(t) == Goto(t, IF req[t].op = "password" THEN "setting" ELSE "act")

\* find_valid: find_by(token_hash: ...)
FindSession(t) ==
  /\ pc[t] = "session"
  /\ IF req[t].cred \in sessions THEN Goto(t, "expiry") /\ UNCHANGED answer
                                 ELSE Answers(t, "signin")
  /\ UNCHANGED <<clock, tables, req, row, digest, history>>

\* expires_at.future?
CheckExpiry(t) ==
  /\ pc[t] = "expiry"
  /\ IF expires[req[t].cred] > clock THEN Admit(t) ELSE Goto(t, "reap")
  /\ UNCHANGED <<clock, tables, req, row, digest, answer, history>>

\* Mutant: the row stays.
Destroyed_Not(k) == sessions

\* destroy; that the row is gone already is no error.
Destroyed(k) == sessions \ {k}

\* reap!
Reap(t) ==
  /\ pc[t] = "reap"
  /\ sessions' = Destroyed(req[t].cred)
  /\ Answers(t, "signin")
  /\ UNCHANGED <<clock, settings, expires, keys, minted, req, row, digest, history>>

\* ApiToken.find_by_raw_token
FindKey(t) ==
  /\ pc[t] = "bearer"
  /\ IF req[t].cred \in keys THEN Admit(t) /\ UNCHANGED answer
                             ELSE Answers(t, "signin")
  /\ UNCHANGED <<clock, tables, req, row, digest, history>>

-----------------------------------------------------------------------------
(* Setting.current, login, and a change of the password.                   *)

\* Mutant: Setting.last in place of first.
FirstRow_Last == Len(settings)

FirstRow == 1

\* Mutant: the row is created without a password.
Seeded_Blank == None

Seeded == Default

\* Where Setting.current returns to
AfterSetting(t) == Goto(t, IF req[t].op = "login" THEN "compare" ELSE "update")

Serves(u, op) == pc[u] # "idle" /\ req[u].op = op

\* The password in force may have changed from t's statement.
Notes(t, change) ==
  /\ valid' = [u \in Threads |-> IF Serves(u, "login")
                                   THEN valid[u] \union {Current(settings')} ELSE {}]
  /\ beaten' = [u \in Threads |-> beaten[u] \/ (change /\ pc[u] = "answer"
                                                 /\ Serves(u, "password"))]
  /\ UNCHANGED <<ended, late>>

\* Setting.current: first
LoadSetting(t) ==
  /\ pc[t] = "setting"
  /\ IF settings = <<>>
       THEN Goto(t, "seed") /\ UNCHANGED <<row, digest>>
       ELSE /\ row' = [row EXCEPT ![t] = FirstRow]
            /\ digest' = [digest EXCEPT ![t] = settings[FirstRow]]
            /\ AfterSetting(t)
  /\ UNCHANGED <<clock, tables, req, answer, history>>

\* Setting.current: || create!, which looks no second time
Seed(t) ==
  /\ pc[t] = "seed"
  /\ settings' = Append(settings, Seeded)
  /\ row' = [row EXCEPT ![t] = Len(settings) + 1]
  /\ digest' = [digest EXCEPT ![t] = Default]
  /\ AfterSetting(t)
  /\ Notes(t, FALSE)
  /\ UNCHANGED <<clock, sessions, expires, keys, minted, req, answer>>

\* setting.authenticate, which takes bcrypt its time
Compare(t) ==
  /\ pc[t] = "compare"
  /\ IF digest[t] = req[t].pass THEN Goto(t, "issue") /\ UNCHANGED answer
                                ELSE Answers(t, "signin")
  /\ UNCHANGED <<clock, tables, req, row, digest, history>>

\* Session.issue!; MaxTime bounds it, so that the clock sees every session expire.
Issue(t) ==
  /\ pc[t] = "issue"
  /\ clock + TTL <= MaxTime
  /\ \E k \in Tokens :
       /\ expires[k] = 0
       /\ expires' = [expires EXCEPT ![k] = clock + TTL]
       /\ sessions' = sessions \union {k}
  /\ Answers(t, "ok")
  /\ UNCHANGED <<clock, settings, keys, minted, req, row, digest, history>>

\* SettingsController#update: a username with other characters than it may have
RefuseSetting(t) ==
  /\ pc[t] = "update"
  /\ Answers(t, "alert")
  /\ UNCHANGED <<clock, tables, req, row, digest, history>>

\* SettingsController#update: the UPDATE of the row it loaded, then the Event
Update(t) ==
  /\ pc[t] = "update"
  /\ settings' = [settings EXCEPT ![row[t]] = req[t].pass]
  /\ \E a \in {"ok", "crash"} : Answers(t, a)
  /\ Notes(t, TRUE)
  /\ UNCHANGED <<clock, sessions, expires, keys, minted, req, row, digest>>

-----------------------------------------------------------------------------
(* The other actions.                                                      *)

Page(t) ==
  /\ pc[t] = "act" /\ req[t].op = "page"
  /\ Answers(t, "ok")
  /\ UNCHANGED <<clock, tables, req, row, digest, history>>

\* current_session&.destroy: a bearer token has no session to end.
Logout(t) ==
  /\ pc[t] = "act" /\ req[t].op = "logout"
  /\ IF req[t].cred \in Tokens
       THEN /\ sessions' = Destroyed(req[t].cred)
            /\ ended' = ended \union {req[t].cred}
       ELSE UNCHANGED <<sessions, ended>>
  /\ Answers(t, "ok")
  /\ UNCHANGED <<clock, settings, expires, keys, minted, req, row, digest, late, valid,
                 beaten>>

\* ApiTokensController#create: a name that is taken, or none at all, which
\* RecordInvalid.new("name required") turns into a NoMethodError
RefuseName(t) ==
  /\ pc[t] = "act" /\ req[t].op = "mint"
  /\ \E a \in {"alert", "crash"} : Answers(t, a)
  /\ UNCHANGED <<clock, tables, req, row, digest, history>>

\* ApiTokensController#create: issue!, then the Event
Mint(t) ==
  /\ pc[t] = "act" /\ req[t].op = "mint"
  /\ req[t].key \notin minted
  /\ keys' = keys \union {req[t].key}
  /\ minted' = minted \union {req[t].key}
  /\ \E a \in {"ok", "crash"} : Answers(t, a)
  /\ UNCHANGED <<clock, settings, sessions, expires, req, row, digest, history>>

\* ApiTokensController#destroy: ApiToken.find
FindToken(t) ==
  /\ pc[t] = "act" /\ req[t].op = "revoke"
  /\ IF req[t].key \in keys THEN Goto(t, "revoke") /\ UNCHANGED answer
                            ELSE Answers(t, "missing")
  /\ UNCHANGED <<clock, tables, req, row, digest, history>>

\* ApiTokensController#destroy: token.destroy, then the Event
Revoke(t) ==
  /\ pc[t] = "revoke"
  /\ keys' = keys \ {req[t].key}
  /\ ended' = ended \union {req[t].key}
  /\ \E a \in {"ok", "crash"} : Answers(t, a)
  /\ UNCHANGED <<clock, settings, sessions, expires, minted, req, row, digest, late,
                 valid, beaten>>

\* The answer is sent and the thread is free.
Respond(t) ==
  /\ pc[t] = "answer"
  /\ Goto(t, "idle")
  /\ req' = [req EXCEPT ![t] = None]
  /\ row' = [row EXCEPT ![t] = 0]
  /\ digest' = [digest EXCEPT ![t] = Default]
  /\ answer' = [answer EXCEPT ![t] = "none"]
  /\ late' = [late EXCEPT ![t] = FALSE]
  /\ valid' = [valid EXCEPT ![t] = {}]
  /\ beaten' = [beaten EXCEPT ![t] = FALSE]
  /\ UNCHANGED <<clock, tables, ended>>

-----------------------------------------------------------------------------
\* Mutant: sessions in the last part of their time are swept, too.
Expired_Soon == {k \in Tokens : expires[k] <= clock + 1}

Expired == {k \in Tokens : expires[k] < clock}

\* SweepSessionsJob#perform
Sweep ==
  /\ sessions \intersect Expired # {}
  /\ sessions' = sessions \ Expired
  /\ UNCHANGED <<clock, settings, expires, keys, minted, local, history>>

TimePasses ==
  /\ clock < MaxTime
  /\ clock' = clock + 1
  /\ UNCHANGED <<tables, local, history>>

Serve(t) ==
  \/ FindSession(t) \/ CheckExpiry(t) \/ Reap(t) \/ FindKey(t)
  \/ LoadSetting(t) \/ Seed(t) \/ Compare(t) \/ Issue(t) \/ RefuseSetting(t) \/ Update(t)
  \/ Page(t) \/ Logout(t) \/ RefuseName(t) \/ Mint(t) \/ FindToken(t) \/ Revoke(t)
  \/ Respond(t)

Next ==
  \/ \E t \in Threads : Serve(t) \/ \E r \in Requests : Receive(t, r)
  \/ Sweep
  \/ TimePasses

Spec == Init /\ [][Next]_vars

-----------------------------------------------------------------------------
(* Properties that hold.                                                   *)

Admitted(t) ==
  /\ pc[t] \in {"act", "setting", "update", "revoke", "answer"}
  /\ req[t].op # "login"
  /\ answer[t] # "signin"

\* What was logged out or revoked lets nobody in: a request that begins after
\* it is sent to the login form, whatever lookups and sweeps are under way.
RevokedStaysOut ==
  \A t \in Threads : Admitted(t) => ~ late[t]

\* Nobody is thrown out early: until expires_at a session keeps its row, unless
\* its user logs out; neither a sweep nor the reaping in a lookup takes it.
LiveSessionsKept ==
  \A k \in Tokens : expires[k] > clock => k \in sessions \union ended

\* A session is issued only for a password that was in force at some moment of
\* the login request, even when two first requests both create a settings row.
IssuedForPassword ==
  \A t \in Threads :
    req[t] # None /\ req[t].op = "login" /\ answer[t] = "ok" =>
      req[t].pass \in valid[t]

\* A changed password is in force when the request that changed it is
\* answered, unless another request changed it in between: the row the change
\* went to is the row that logins read.
ChangeTakesEffect ==
  \A t \in Threads :
    /\ req[t] # None /\ req[t].op = "password"
    /\ answer[t] \in {"ok", "crash"} /\ ~ beaten[t]
    => Current(settings) = req[t].pass
=============================================================================
