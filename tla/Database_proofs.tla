--------------------------- MODULE Database_proofs ---------------------------
(***************************************************************************)
(* Proofs about the two programs that read and write the application's     *)
(* tables statement by statement: the logins (LoginSessions) and, in the   *)
(* last section, the import from the Go version (Migration).               *)
(*                                                                         *)
(* LoginSessions: any number of threads, tokens, API tokens and passwords, *)
(* and any lifetime of a session.  What each place of a request knows of   *)
(* its credential and of the settings row is the base; on it rest the      *)
(* theorems: what was revoked lets nobody in, a live session is kept, a    *)
(* session is issued for a password in force, and a changed password takes *)
(* effect.                                                                 *)
(*                                                                         *)
(* Migration: any config.json and events.jsonl, and any number of runs.    *)
(* What an open transaction has written and what it found of the user's is *)
(* the invariant behind the rest.                                          *)
(***************************************************************************)
EXTENDS LoginSessions, Migration, SequenceTheorems, TLAPS

-----------------------------------------------------------------------------
(* Requests and the settings rows.                                         *)

LEMMA RequestFields ==
  ASSUME NEW r \in Requests
  PROVE  /\ r.op \in {"login", "page", "logout", "password", "mint", "revoke"}
         /\ r.op # "login" => r.cred \in Tokens \union Keys
         /\ r.op \in {"login", "password"} => r.pass \in Passwords
         /\ r.op \in {"mint", "revoke"} => r.key \in Keys
BY DEF Requests

\* A row is added at the end.
LEMMA SettingsGrow ==
  ASSUME settings \in Seq(Passwords)
  PROVE  /\ Append(settings, Default) \in Seq(Passwords)
         /\ Append(settings, Default) # <<>>
         /\ Len(Append(settings, Default)) = Len(settings) + 1
         /\ settings # <<>> => Append(settings, Default)[1] = settings[1]
         /\ settings = <<>> => Append(settings, Default)[1] = Default
<1>1. Default \in Passwords
  BY ConstantsOK
<1>2. /\ Append(settings, Default) \in Seq(Passwords)
      /\ Append(settings, Default) # <<>>
      /\ Len(Append(settings, Default)) = Len(settings) + 1
      /\ \A i \in 1 .. Len(settings) : Append(settings, Default)[i] = settings[i]
      /\ Append(settings, Default)[Len(settings) + 1] = Default
  BY <1>1, AppendProperties
<1>3. settings # <<>> => 1 \in 1 .. Len(settings)
  BY EmptySeq
<1>4. settings = <<>> => Len(settings) + 1 = 1
  OBVIOUS
<1> QED BY <1>2, <1>3, <1>4

\* The password in force is one.
LEMMA CurrentIsPassword ==
  ASSUME settings \in Seq(Passwords)
  PROVE  /\ Current(settings) \in Passwords
         /\ settings # <<>> => /\ 1 \in 1 .. Len(settings)
                              /\ settings[1] \in Passwords
                              /\ Current(settings) = settings[1]
<1>1. Default \in Passwords
  BY ConstantsOK
<1>2. settings # <<>> => 1 \in 1 .. Len(settings)
  BY EmptySeq
<1>3. settings # <<>> => settings[1] \in Passwords
  BY <1>2
<1> QED BY <1>1, <1>2, <1>3 DEF Current

-----------------------------------------------------------------------------
(* Types, and what each place of a request knows.                          *)

Busy(t) == pc[t] # "idle"

PlaceOf(t) ==
  /\ pc[t] # "answer" => answer[t] = "none"
  /\ pc[t] \in {"session", "expiry", "reap"} =>
       req[t].op # "login" /\ req[t].cred \in Tokens
  /\ pc[t] = "bearer" => req[t].op # "login" /\ req[t].cred \in Keys
  /\ pc[t] = "setting" => req[t].op \in {"login", "password"}
  /\ pc[t] \in {"seed", "compare", "issue"} => req[t].op = "login"
  /\ pc[t] = "update" => req[t].op = "password" /\ row[t] = 1
  /\ pc[t] = "act" => req[t].op \notin {"login", "password"}
  /\ pc[t] = "revoke" => req[t].op = "revoke" /\ req[t].key \in minted
  /\ pc[t] \in {"compare", "issue", "update"} => settings # <<>>
  /\ Busy(t) /\ req[t].op # "login" => req[t].cred \in Issued

Places == \A t \in Threads : PlaceOf(t)

\* No credential is issued before there is a settings row.
Grounds == Issued # {} => settings # <<>>

TablesOK ==
  /\ clock \in 0 .. MaxTime
  /\ settings \in Seq(Passwords)
  /\ sessions \subseteq Tokens
  /\ expires \in [Tokens -> 0 .. MaxTime + TTL]
  /\ keys \subseteq minted /\ minted \subseteq Keys
  /\ ended \subseteq Tokens \union Keys

Labels == {"idle", "session", "expiry", "reap", "bearer", "setting", "seed", "compare",
           "issue", "update", "act", "revoke", "answer"}
Replies == {"none", "ok", "signin", "alert", "missing", "crash"}

LocalOK ==
  /\ pc \in [Threads -> Labels]
  /\ req \in [Threads -> Requests \union {None}]
  /\ digest \in [Threads -> Passwords]
  /\ answer \in [Threads -> Replies]
  /\ late \in [Threads -> BOOLEAN]
  /\ valid \in [Threads -> SUBSET Passwords]
  /\ beaten \in [Threads -> BOOLEAN]

RowOK == row \in [Threads -> 0 .. Len(settings)]

ServedOK == \A t \in Threads : pc[t] # "idle" => req[t] \in Requests

LEMMA TypeParts == TypeOK <=> TablesOK /\ LocalOK /\ RowOK /\ ServedOK
BY DEF TypeOK, TablesOK, LocalOK, RowOK, ServedOK, Labels, Replies

BaseInv == TablesOK /\ LocalOK /\ RowOK /\ ServedOK /\ Places /\ Grounds

LEMMA BaseInit == Init => BaseInv
<1> SUFFICES ASSUME Init PROVE BaseInv
  OBVIOUS
<1>1. TablesOK
  BY ConstantsOK DEF Init, TablesOK
<1>2. LocalOK /\ ServedOK
  BY ConstantsOK DEF Init, LocalOK, ServedOK, Labels, Replies
<1>3. RowOK
  BY DEF Init, RowOK
<1>4. Issued = {} /\ Places
  BY DEF Init, Issued, Places, PlaceOf, Busy
<1> QED BY <1>1, <1>2, <1>3, <1>4 DEF BaseInv, Grounds

\* A step of one request leaves the places of the others alone.
OnlyOf(t) ==
  \A u \in Threads \ {t} :
    /\ pc'[u] = pc[u] /\ req'[u] = req[u] /\ row'[u] = row[u]
    /\ digest'[u] = digest[u] /\ answer'[u] = answer[u] /\ late'[u] = late[u]

\* Credentials stay issued and rows stay.
Grow ==
  /\ Issued \subseteq Issued' /\ minted \subseteq minted'
  /\ settings # <<>> => settings' # <<>>

LEMMA OthersKeepPlace ==
  ASSUME Places, NEW t \in Threads, OnlyOf(t), Grow, PlaceOf(t)'
  PROVE  Places'
<1> SUFFICES ASSUME NEW u \in Threads, u # t PROVE PlaceOf(u)'
  BY DEF Places
<1>1. PlaceOf(u)
  BY DEF Places
<1>2. /\ pc'[u] = pc[u] /\ req'[u] = req[u] /\ row'[u] = row[u] /\ answer'[u] = answer[u]
  BY DEF OnlyOf
<1> QED BY <1>1, <1>2 DEF PlaceOf, Busy, Grow

\* Steps that change nothing but where a request is and what it answers.
Moves(t) ==
  /\ UNCHANGED <<clock, tables, req, row, digest, history>>
  /\ pc' \in [Threads -> Labels] /\ answer' \in [Threads -> Replies]
  /\ \A u \in Threads \ {t} : pc'[u] = pc[u] /\ answer'[u] = answer[u]
  /\ pc[t] # "idle"

LEMMA MovesKeepBase ==
  ASSUME BaseInv, NEW t \in Threads, Moves(t), PlaceOf(t)'
  PROVE  BaseInv'
<1>1. UNCHANGED <<clock, settings, sessions, expires, keys, minted, req, row, digest,
                  ended, late, valid, beaten>>
  BY DEF Moves, tables, history
<1>2. TablesOK' /\ RowOK'
  BY <1>1 DEF BaseInv, TablesOK, RowOK
<1>3. LocalOK'
  BY <1>1 DEF BaseInv, LocalOK, Moves
<1>4. ServedOK'
  BY <1>1 DEF BaseInv, ServedOK, Moves
<1>5. Issued' = Issued
  BY <1>1 DEF Issued
<1>6. OnlyOf(t) /\ Grow
  BY <1>1, <1>5 DEF OnlyOf, Grow, Moves
<1>7. Places' /\ Grounds'
  BY <1>1, <1>5, <1>6, OthersKeepPlace DEF BaseInv, Grounds
<1> QED BY <1>2, <1>3, <1>4, <1>7 DEF BaseInv

\* The eight steps of that kind, and what the request knows after each.
Moving(t) ==
  \/ FindSession(t) \/ CheckExpiry(t) \/ FindKey(t) \/ Compare(t)
  \/ RefuseSetting(t) \/ Page(t) \/ RefuseName(t) \/ FindToken(t)

LEMMA MovingMoves ==
  ASSUME LocalOK, NEW t \in Threads, Moving(t)
  PROVE  Moves(t)
<1>1. pc \in [Threads -> Labels] /\ answer \in [Threads -> Replies]
  BY DEF LocalOK
<1>2. ASSUME NEW l \in Labels, Goto(t, l), UNCHANGED answer
     PROVE  /\ pc' \in [Threads -> Labels] /\ answer' \in [Threads -> Replies]
            /\ \A u \in Threads \ {t} : pc'[u] = pc[u] /\ answer'[u] = answer[u]
  BY <1>1, <1>2 DEF Goto
<1>3. ASSUME NEW a \in Replies, Answers(t, a)
     PROVE  /\ pc' \in [Threads -> Labels] /\ answer' \in [Threads -> Replies]
            /\ \A u \in Threads \ {t} : pc'[u] = pc[u] /\ answer'[u] = answer[u]
  BY <1>1, <1>3 DEF Answers, Goto, Labels
<1>4. /\ UNCHANGED <<clock, tables, req, row, digest, history>>
      /\ pc[t] # "idle"
  BY DEF Moving, FindSession, CheckExpiry, FindKey, Compare, RefuseSetting, Page,
         RefuseName, FindToken
<1>5. \/ \E l \in {"expiry", "reap", "setting", "act", "issue", "revoke"} :
           Goto(t, l) /\ UNCHANGED answer
      \/ \E a \in {"signin", "alert", "ok", "missing", "crash"} : Answers(t, a)
  <2>1. Admit(t) => Goto(t, "setting") \/ Goto(t, "act")
    BY DEF Admit, Goto
  <2> QED BY <2>1 DEF Moving, FindSession, CheckExpiry, FindKey, Compare, RefuseSetting,
                      Page, RefuseName, FindToken
<1>6. CASE \E l \in {"expiry", "reap", "setting", "act", "issue", "revoke"} :
             Goto(t, l) /\ UNCHANGED answer
  BY <1>2, <1>4, <1>6 DEF Moves, Labels
<1>7. CASE \E a \in {"signin", "alert", "ok", "missing", "crash"} : Answers(t, a)
  BY <1>3, <1>4, <1>7 DEF Moves, Replies
<1> QED BY <1>5, <1>6, <1>7

LEMMA MovingPlace ==
  ASSUME BaseInv, NEW t \in Threads, Moving(t)
  PROVE  PlaceOf(t)'
<1>1. /\ req' = req /\ row' = row /\ settings' = settings
      /\ expires' = expires /\ minted' = minted
      /\ pc[t] # "idle"
  BY MovingMoves DEF BaseInv, Moves, tables
<1>2. Issued' = Issued
  BY <1>1 DEF Issued
<1>3. /\ PlaceOf(t)
      /\ req[t].op # "login" => req[t].cred \in Issued
  BY <1>1 DEF BaseInv, Places, PlaceOf, Busy
<1>4. /\ req[t] \in Requests /\ pc \in [Threads -> Labels] /\ answer \in [Threads -> Replies]
  BY <1>1 DEF BaseInv, ServedOK, LocalOK
<1>5. ASSUME NEW a, Answers(t, a) PROVE PlaceOf(t)'
  BY <1>1, <1>2, <1>3, <1>4, <1>5 DEF Answers, Goto, PlaceOf, Busy
<1>6. ASSUME Admit(t), UNCHANGED answer, answer[t] = "none", req[t].op # "login"
     PROVE  PlaceOf(t)'
  BY <1>1, <1>2, <1>3, <1>4, <1>6 DEF Admit, Goto, PlaceOf, Busy
<1>7. ASSUME NEW l, Goto(t, l), UNCHANGED answer, answer[t] = "none",
             \/ l \in {"expiry", "reap"} /\ req[t].op # "login" /\ req[t].cred \in Tokens
             \/ l = "issue" /\ req[t].op = "login" /\ settings # <<>>
             \/ l = "revoke" /\ req[t].op = "revoke" /\ req[t].key \in minted
     PROVE  PlaceOf(t)'
  BY <1>1, <1>2, <1>3, <1>4, <1>7 DEF Goto, PlaceOf, Busy
<1>8. CASE FindSession(t)
  BY <1>3, <1>5, <1>7, <1>8 DEF FindSession, PlaceOf
<1>9. CASE CheckExpiry(t)
  BY <1>3, <1>6, <1>7, <1>9 DEF CheckExpiry, PlaceOf
<1>10. CASE FindKey(t)
  BY <1>3, <1>5, <1>6, <1>10 DEF FindKey, PlaceOf
<1>11. CASE Compare(t)
  BY <1>3, <1>5, <1>7, <1>11 DEF Compare, PlaceOf
<1>12. CASE RefuseSetting(t) \/ Page(t) \/ RefuseName(t)
  BY <1>5, <1>12 DEF RefuseSetting, Page, RefuseName
<1>13. CASE FindToken(t)
  BY <1>3, <1>5, <1>7, <1>13 DEF FindToken, PlaceOf, BaseInv, TablesOK
<1> QED BY <1>8, <1>9, <1>10, <1>11, <1>12, <1>13 DEF Moving

\* Steps that change the tables: what they leave of the requests.
LEMMA BaseFromParts ==
  ASSUME BaseInv, NEW t \in Threads, OnlyOf(t), Grow, Grounds',
         TablesOK', LocalOK', RowOK', ServedOK', PlaceOf(t)'
  PROVE  BaseInv'
BY OthersKeepPlace DEF BaseInv

\* A step that ends in an answer to the request.
Concludes(t) ==
  /\ pc[t] # "idle"
  /\ UNCHANGED <<req, row, digest, late>>
  /\ \E a \in Replies : Answers(t, a)

LEMMA ConcludesLocal ==
  ASSUME LocalOK, ServedOK, NEW t \in Threads, Concludes(t),
         valid' \in [Threads -> SUBSET Passwords], beaten' \in [Threads -> BOOLEAN]
  PROVE  /\ LocalOK' /\ ServedOK' /\ OnlyOf(t)
         /\ pc'[t] = "answer" /\ answer'[t] \in Replies
<1>1. PICK a \in Replies : Answers(t, a)
  BY DEF Concludes
<1>2. /\ pc' = [pc EXCEPT ![t] = "answer"] /\ answer' = [answer EXCEPT ![t] = a]
      /\ UNCHANGED <<req, row, digest, late>> /\ pc[t] # "idle"
  BY <1>1 DEF Concludes, Answers, Goto
<1>3. LocalOK'
  BY <1>2 DEF LocalOK, Labels
<1>4. ServedOK'
  BY <1>2 DEF ServedOK, LocalOK
<1>5. OnlyOf(t) /\ pc'[t] = "answer" /\ answer'[t] \in Replies
  BY <1>2 DEF OnlyOf, LocalOK
<1> QED BY <1>3, <1>4, <1>5

LEMMA ConcludesKeepsBase ==
  ASSUME BaseInv, NEW t \in Threads, Concludes(t), Grow, Grounds',
         TablesOK', RowOK',
         valid' \in [Threads -> SUBSET Passwords], beaten' \in [Threads -> BOOLEAN]
  PROVE  BaseInv'
<1>1. /\ LocalOK' /\ ServedOK' /\ OnlyOf(t) /\ pc'[t] = "answer"
  BY ConcludesLocal DEF BaseInv
<1>2. req' = req /\ pc[t] # "idle" /\ PlaceOf(t)
  BY DEF Concludes, BaseInv, Places
<1>3. PlaceOf(t)'
  BY <1>1, <1>2 DEF PlaceOf, Busy, Grow
<1> QED BY <1>1, <1>3, BaseFromParts

LEMMA NotesTypes ==
  ASSUME BaseInv, settings' \in Seq(Passwords), NEW t \in Threads,
         NEW change \in BOOLEAN, Notes(t, change)
  PROVE  /\ valid' \in [Threads -> SUBSET Passwords] /\ beaten' \in [Threads -> BOOLEAN]
         /\ UNCHANGED <<ended, late>>
<1>1. /\ valid' = [u \in Threads |-> IF Serves(u, "login")
                                       THEN valid[u] \union {Current(settings')} ELSE {}]
      /\ beaten' = [u \in Threads |-> beaten[u] \/ (change /\ pc[u] = "answer"
                                                     /\ Serves(u, "password"))]
      /\ UNCHANGED <<ended, late>>
  BY DEF Notes
<1>2. valid \in [Threads -> SUBSET Passwords]
  BY DEF BaseInv, LocalOK
<1>3. Current(settings') \in Passwords
  <2>1. settings' # <<>> => settings'[1] \in Passwords
    <3>1. settings' # <<>> => 1 \in 1 .. Len(settings')
      BY EmptySeq
    <3> QED BY <3>1
  <2> QED BY <2>1, ConstantsOK DEF Current
<1>4. valid' \in [Threads -> SUBSET Passwords]
  BY <1>1, <1>2, <1>3
<1>5. \A u \in Threads :
        (beaten[u] \/ (change /\ pc[u] = "answer" /\ Serves(u, "password"))) \in BOOLEAN
  BY DEF BaseInv, LocalOK
<1> QED BY <1>1, <1>4, <1>5

\* Reap, Logout and Revoke take rows out; Mint and Issue put one in.
LEMMA ReapBase ==
  ASSUME BaseInv, NEW t \in Threads, Reap(t)
  PROVE  BaseInv'
<1>1. /\ UNCHANGED <<clock, settings, expires, keys, minted, row, ended, valid, beaten>>
      /\ sessions' \subseteq sessions
  BY DEF Reap, Destroyed, history
<1>2. TablesOK' /\ RowOK' /\ Issued' = Issued
  BY <1>1 DEF BaseInv, TablesOK, RowOK, Issued
<1>3. Concludes(t)
  BY DEF Reap, Concludes, Replies, history
<1> QED BY <1>1, <1>2, <1>3, ConcludesKeepsBase DEF BaseInv, LocalOK, Grow, Grounds

LEMMA LogoutBase ==
  ASSUME BaseInv, NEW t \in Threads, Logout(t)
  PROVE  BaseInv'
<1>1. /\ UNCHANGED <<clock, settings, expires, keys, minted, row, valid, beaten>>
      /\ sessions' \subseteq sessions
      /\ ended' \subseteq ended \union Tokens
  BY DEF Logout, Destroyed
<1>2. TablesOK' /\ RowOK' /\ Issued' = Issued
  BY <1>1 DEF BaseInv, TablesOK, RowOK, Issued
<1>3. Concludes(t)
  BY DEF Logout, Concludes, Replies
<1> QED BY <1>1, <1>2, <1>3, ConcludesKeepsBase DEF BaseInv, LocalOK, Grow, Grounds

LEMMA RevokeBase ==
  ASSUME BaseInv, NEW t \in Threads, Revoke(t)
  PROVE  BaseInv'
<1>1. req[t].key \in Keys
  BY RequestFields DEF Revoke, BaseInv, Places, PlaceOf, ServedOK
<1>2. /\ UNCHANGED <<clock, settings, sessions, expires, minted, row, valid, beaten>>
      /\ keys' \subseteq keys
      /\ ended' \subseteq ended \union Keys
  BY <1>1 DEF Revoke
<1>3. TablesOK' /\ RowOK' /\ Issued' = Issued
  BY <1>2 DEF BaseInv, TablesOK, RowOK, Issued
<1>4. Concludes(t)
  BY DEF Revoke, Concludes, Replies
<1> QED BY <1>2, <1>3, <1>4, ConcludesKeepsBase DEF BaseInv, LocalOK, Grow, Grounds

LEMMA MintBase ==
  ASSUME BaseInv, NEW t \in Threads, Mint(t)
  PROVE  BaseInv'
<1>1. /\ pc[t] = "act" /\ req[t].op = "mint"
      /\ req[t].key \in Keys
      /\ keys' = keys \union {req[t].key} /\ minted' = minted \union {req[t].key}
      /\ UNCHANGED <<clock, settings, sessions, expires, row, ended, valid, beaten>>
  BY RequestFields DEF Mint, BaseInv, ServedOK, history
<1>2. TablesOK' /\ RowOK'
  BY <1>1 DEF BaseInv, TablesOK, RowOK
<1>3. Issued \subseteq Issued'
  BY <1>1 DEF Issued
<1>4. settings # <<>>
  BY <1>1 DEF BaseInv, Places, PlaceOf, Busy, Grounds
<1>5. Concludes(t)
  BY DEF Mint, Concludes, Replies, history
<1> QED BY <1>1, <1>2, <1>3, <1>4, <1>5, ConcludesKeepsBase DEF BaseInv, LocalOK, Grow,
           Grounds

\* The token taken for a new session, which was never issued before.
LEMMA IssueEffect ==
  ASSUME BaseInv, NEW t \in Threads, Issue(t)
  PROVE  \E k \in Tokens :
           /\ expires[k] = 0
           /\ expires' = [expires EXCEPT ![k] = clock + TTL]
           /\ expires'[k] > clock /\ expires'[k] > 0
           /\ \A x \in Tokens \ {k} : expires'[x] = expires[x]
           /\ sessions' = sessions \union {k}
           /\ expires' \in [Tokens -> 0 .. MaxTime + TTL]
<1>1. PICK k \in Tokens : /\ expires[k] = 0
                          /\ expires' = [expires EXCEPT ![k] = clock + TTL]
                          /\ sessions' = sessions \union {k}
  BY DEF Issue
<1>2. /\ clock \in Nat /\ TTL \in Nat \ {0} /\ clock <= MaxTime /\ MaxTime \in Nat
      /\ expires \in [Tokens -> 0 .. MaxTime + TTL]
  BY ConstantsOK DEF BaseInv, TablesOK
<1>3. clock + TTL \in 0 .. MaxTime + TTL /\ clock + TTL > clock /\ clock + TTL > 0
  BY <1>2
<1> QED BY <1>1, <1>2, <1>3

LEMMA IssueBase ==
  ASSUME BaseInv, NEW t \in Threads, Issue(t)
  PROVE  BaseInv'
<1>1. PICK k \in Tokens :
        /\ expires'[k] > 0
        /\ \A x \in Tokens \ {k} : expires'[x] = expires[x]
        /\ sessions' = sessions \union {k}
        /\ expires' \in [Tokens -> 0 .. MaxTime + TTL]
  BY IssueEffect
<1>2. /\ pc[t] = "issue"
      /\ UNCHANGED <<clock, settings, keys, minted, row, ended, valid, beaten>>
  BY DEF Issue, history
<1>3. TablesOK' /\ RowOK'
  BY <1>1, <1>2 DEF BaseInv, TablesOK, RowOK
<1>4. Issued \subseteq Issued'
  BY <1>1, <1>2 DEF Issued
<1>5. settings # <<>>
  BY <1>2 DEF BaseInv, Places, PlaceOf
<1>6. Concludes(t)
  BY DEF Issue, Concludes, Replies, history
<1> QED BY <1>2, <1>3, <1>4, <1>5, <1>6, ConcludesKeepsBase DEF BaseInv, LocalOK, Grow,
           Grounds

\* The change goes to the first row.
LEMMA UpdateEffect ==
  ASSUME BaseInv, NEW t \in Threads, Update(t)
  PROVE  /\ req[t].op = "password" /\ req[t].pass \in Passwords
         /\ settings # <<>> /\ settings' # <<>>
         /\ settings' = [settings EXCEPT ![1] = req[t].pass]
         /\ settings' \in Seq(Passwords) /\ Len(settings') = Len(settings)
         /\ Current(settings') = req[t].pass
<1>1. /\ pc[t] = "update" /\ settings' = [settings EXCEPT ![row[t]] = req[t].pass]
      /\ PlaceOf(t) /\ req[t] \in Requests /\ settings \in Seq(Passwords)
  BY DEF Update, BaseInv, Places, ServedOK, TablesOK
<1>2. /\ req[t].op = "password" /\ req[t].pass \in Passwords /\ settings # <<>>
      /\ settings' = [settings EXCEPT ![1] = req[t].pass]
  BY <1>1, RequestFields DEF PlaceOf
<1>3. 1 \in 1 .. Len(settings)
  BY <1>1, <1>2, CurrentIsPassword
<1>4. /\ settings' \in Seq(Passwords) /\ Len(settings') = Len(settings)
      /\ settings'[1] = req[t].pass
  <2> DEFINE p == req[t].pass
             new == [settings EXCEPT ![1] = p]
  <2>1. p \in Passwords /\ settings \in Seq(Passwords)
    BY <1>1, <1>2
  <2> HIDE DEF p
  <2>2. /\ new \in Seq(Passwords) /\ Len(new) = Len(settings)
        /\ \A j \in 1 .. Len(settings) : new[j] = IF j = 1 THEN p ELSE settings[j]
    BY <1>3, <2>1, ExceptSeq
  <2>3. new[1] = p
    BY <1>3, <2>2
  <2>4. settings' = new
    BY <1>2 DEF p
  <2> HIDE DEF new
  <2> QED BY <2>2, <2>3, <2>4 DEF p
<1>5. settings' # <<>>
  BY <1>3, <1>4, EmptySeq
<1> QED BY <1>2, <1>4, <1>5 DEF Current

LEMMA UpdateBase ==
  ASSUME BaseInv, NEW t \in Threads, Update(t)
  PROVE  BaseInv'
<1>1. /\ UNCHANGED <<clock, sessions, expires, keys, minted, row>>
      /\ Notes(t, TRUE)
  BY DEF Update
<1>2. /\ settings' # <<>> /\ settings' \in Seq(Passwords) /\ Len(settings') = Len(settings)
  BY UpdateEffect
<1>3. /\ valid' \in [Threads -> SUBSET Passwords] /\ beaten' \in [Threads -> BOOLEAN]
      /\ UNCHANGED <<ended, late>>
  BY <1>1, <1>2, NotesTypes
<1>4. TablesOK' /\ RowOK' /\ Issued' = Issued
  BY <1>1, <1>2, <1>3 DEF BaseInv, TablesOK, RowOK, Issued
<1>5. Concludes(t)
  BY <1>3 DEF Update, Concludes, Replies
<1> QED BY <1>1, <1>2, <1>3, <1>4, <1>5, ConcludesKeepsBase DEF Grow, Grounds

\* Setting.current hands the request a row that exists and its password; only a
\* login can find no row at all.
LEMMA LoadEffect ==
  ASSUME BaseInv, NEW t \in Threads, LoadSetting(t)
  PROVE  /\ pc[t] = "setting" /\ req[t] \in Requests
         /\ UNCHANGED <<clock, tables, req, answer, history>>
         /\ OnlyOf(t)
         /\ \/ /\ settings = <<>> /\ req[t].op = "login"
               /\ pc'[t] = "seed" /\ UNCHANGED <<row, digest>>
            \/ /\ settings # <<>>
               /\ pc'[t] = IF req[t].op = "login" THEN "compare" ELSE "update"
               /\ row'[t] = 1 /\ digest'[t] = Current(settings)
<1>1. /\ pc[t] = "setting" /\ req[t] \in Requests
      /\ UNCHANGED <<clock, tables, req, answer, history>>
  BY DEF LoadSetting, BaseInv, ServedOK
<1>2. UNCHANGED <<req, answer, late>>
  BY <1>1 DEF history
<1>3. CASE settings = <<>>
  <2>1. pc' = [pc EXCEPT ![t] = "seed"] /\ UNCHANGED <<row, digest>>
    BY <1>3 DEF LoadSetting, Goto
  <2>2. req[t].op = "login"
    BY <1>1, <1>3 DEF BaseInv, Places, PlaceOf, Busy, Grounds
  <2>3. OnlyOf(t) /\ pc'[t] = "seed"
    BY <1>2, <2>1 DEF OnlyOf, BaseInv, LocalOK
  <2> QED BY <1>1, <1>3, <2>1, <2>2, <2>3
<1>4. CASE settings # <<>>
  <2>1. /\ row' = [row EXCEPT ![t] = 1] /\ digest' = [digest EXCEPT ![t] = settings[1]]
        /\ pc' = [pc EXCEPT ![t] = IF req[t].op = "login" THEN "compare" ELSE "update"]
    BY <1>4 DEF LoadSetting, AfterSetting, Goto, FirstRow
  <2>2. Current(settings) = settings[1]
    BY <1>4 DEF Current
  <2>3. OnlyOf(t)
    BY <1>2, <2>1 DEF OnlyOf
  <2>4. /\ pc'[t] = IF req[t].op = "login" THEN "compare" ELSE "update"
        /\ row'[t] = 1 /\ digest'[t] = Current(settings)
    BY <2>1, <2>2 DEF BaseInv, LocalOK, RowOK
  <2> QED BY <1>1, <1>4, <2>3, <2>4
<1> QED BY <1>3, <1>4

LEMMA LoadBase ==
  ASSUME BaseInv, NEW t \in Threads, LoadSetting(t)
  PROVE  BaseInv'
<1>1. /\ pc[t] = "setting" /\ req[t] \in Requests
      /\ UNCHANGED <<clock, settings, sessions, expires, keys, minted, ended, req, answer,
                     late, valid, beaten>>
  BY LoadEffect DEF tables, history
<1>2. TablesOK' /\ Issued' = Issued /\ Grow /\ Grounds'
  BY <1>1 DEF BaseInv, TablesOK, Issued, Grow, Grounds
<1>3. LocalOK' /\ RowOK'
  <2>1. settings \in Seq(Passwords) /\ Current(settings) \in Passwords
    BY CurrentIsPassword DEF BaseInv, TablesOK
  <2>2. settings # <<>> => 1 \in 0 .. Len(settings)
    BY <2>1, CurrentIsPassword
  <2>3. \/ pc' = [pc EXCEPT ![t] = "seed"] /\ UNCHANGED <<row, digest>>
        \/ /\ settings # <<>>
           /\ row' = [row EXCEPT ![t] = 1]
           /\ digest' = [digest EXCEPT ![t] = Current(settings)]
           /\ \/ pc' = [pc EXCEPT ![t] = "compare"]
              \/ pc' = [pc EXCEPT ![t] = "update"]
    BY DEF LoadSetting, AfterSetting, Goto, FirstRow, Current
  <2>4. pc' \in [Threads -> Labels] /\ digest' \in [Threads -> Passwords]
    BY <2>1, <2>3 DEF BaseInv, LocalOK, Labels
  <2>5. row' \in [Threads -> 0 .. Len(settings)]
    BY <2>2, <2>3 DEF BaseInv, RowOK
  <2> QED BY <1>1, <2>4, <2>5 DEF BaseInv, LocalOK, RowOK
<1>4. ServedOK'
  BY <1>1, LoadEffect DEF BaseInv, ServedOK, OnlyOf
<1>5. PlaceOf(t)'
  <2>1. PlaceOf(t)
    BY DEF BaseInv, Places
  <2> QED BY <1>1, <1>2, <2>1, LoadEffect DEF PlaceOf, Busy
<1> QED BY <1>2, <1>3, <1>4, <1>5, LoadEffect, BaseFromParts

LEMMA SeedEffect ==
  ASSUME BaseInv, NEW t \in Threads, Seed(t)
  PROVE  /\ pc[t] = "seed" /\ req[t].op = "login" /\ req[t] \in Requests
         /\ UNCHANGED <<clock, sessions, expires, keys, minted, req, answer>>
         /\ settings' = Append(settings, Default)
         /\ settings' \in Seq(Passwords) /\ settings' # <<>>
         /\ Len(settings') = Len(settings) + 1
         /\ Current(settings') = Current(settings)
         /\ pc' = [pc EXCEPT ![t] = "compare"]
         /\ row' = [row EXCEPT ![t] = Len(settings) + 1]
         /\ digest' = [digest EXCEPT ![t] = Default]
         /\ Notes(t, FALSE)
<1>1. /\ pc[t] = "seed" /\ req[t].op = "login" /\ req[t] \in Requests
  BY DEF Seed, BaseInv, Places, PlaceOf, ServedOK
<1>2. /\ settings' = Append(settings, Default)
      /\ UNCHANGED <<clock, sessions, expires, keys, minted, req, answer>>
      /\ row' = [row EXCEPT ![t] = Len(settings) + 1]
      /\ digest' = [digest EXCEPT ![t] = Default]
      /\ Notes(t, FALSE)
  BY DEF Seed, Seeded
<1>3. pc' = [pc EXCEPT ![t] = "compare"]
  BY <1>1 DEF Seed, AfterSetting, Goto
<1>4. settings \in Seq(Passwords)
  BY DEF BaseInv, TablesOK
<1>5. /\ settings' \in Seq(Passwords) /\ settings' # <<>>
      /\ Len(settings') = Len(settings) + 1
      /\ settings'[1] = IF settings = <<>> THEN Default ELSE settings[1]
  BY <1>2, <1>4, SettingsGrow
<1>6. Current(settings') = Current(settings)
  BY <1>5 DEF Current
<1> QED BY <1>1, <1>2, <1>3, <1>5, <1>6

LEMMA SeedOnly ==
  ASSUME BaseInv, NEW t \in Threads, Seed(t)
  PROVE  OnlyOf(t) /\ pc'[t] = "compare" /\ digest'[t] = Default
<1>1. /\ UNCHANGED <<req, answer, late>>
      /\ pc' = [pc EXCEPT ![t] = "compare"]
      /\ row' = [row EXCEPT ![t] = Len(settings) + 1]
      /\ digest' = [digest EXCEPT ![t] = Default]
  BY SeedEffect DEF Notes
<1>2. OnlyOf(t)
  BY <1>1 DEF OnlyOf, BaseInv, LocalOK, RowOK
<1>3. pc'[t] = "compare" /\ digest'[t] = Default
  BY <1>1 DEF BaseInv, LocalOK
<1> QED BY <1>2, <1>3

LEMMA SeedBase ==
  ASSUME BaseInv, NEW t \in Threads, Seed(t)
  PROVE  BaseInv'
<1>1. /\ valid' \in [Threads -> SUBSET Passwords] /\ beaten' \in [Threads -> BOOLEAN]
      /\ UNCHANGED <<ended, late>>
  BY SeedEffect, NotesTypes
<1>2. TablesOK' /\ Issued' = Issued /\ Grow /\ Grounds'
  BY <1>1, SeedEffect DEF BaseInv, TablesOK, Issued, Grow, Grounds
<1>3. /\ UNCHANGED <<req, answer, late>> /\ req[t] \in Requests
      /\ pc' = [pc EXCEPT ![t] = "compare"]
      /\ digest' = [digest EXCEPT ![t] = Default] /\ Default \in Passwords
  BY <1>1, SeedEffect, ConstantsOK
<1>4. LocalOK'
  BY <1>1, <1>3 DEF BaseInv, LocalOK, Labels
<1>5. RowOK'
  <2>1. Len(settings) \in Nat
    BY DEF BaseInv, TablesOK
  <2>2. Len(settings') = Len(settings) + 1 /\ row' = [row EXCEPT ![t] = Len(settings) + 1]
    BY SeedEffect
  <2>3. row \in [Threads -> 0 .. Len(settings)]
    BY DEF BaseInv, RowOK
  <2> DEFINE n == Len(settings)
             m == Len(settings')
  <2> HIDE DEF n, m
  <2>4. row' \in [Threads -> 0 .. m]
    <3>1. n \in Nat /\ m = n + 1 /\ row' = [row EXCEPT ![t] = n + 1]
          /\ row \in [Threads -> 0 .. n]
      BY <2>1, <2>2, <2>3 DEF n, m
    <3>2. \A k \in 0 .. n : k \in 0 .. m
      BY <3>1
    <3>3. n + 1 \in 0 .. m
      BY <3>1
    <3> QED BY <3>1, <3>2, <3>3
  <2> QED BY <2>4 DEF RowOK, m
<1>6. ServedOK'
  BY <1>3 DEF BaseInv, ServedOK, LocalOK
<1>7. OnlyOf(t)
  BY SeedOnly
<1>8. PlaceOf(t)'
  <2>1. PlaceOf(t) /\ pc'[t] = "compare"
    BY <1>3 DEF BaseInv, Places, LocalOK
  <2> QED BY <1>2, <2>1, SeedEffect DEF PlaceOf, Busy
<1> QED BY <1>2, <1>4, <1>5, <1>6, <1>7, <1>8, BaseFromParts

LEMMA RespondEffect ==
  ASSUME BaseInv, NEW t \in Threads, Respond(t)
  PROVE  /\ UNCHANGED <<clock, tables, ended>>
         /\ pc[t] = "answer" /\ pc'[t] = "idle" /\ answer'[t] = "none"
         /\ late'[t] = FALSE
         /\ OnlyOf(t)
         /\ \A u \in Threads \ {t} : valid'[u] = valid[u] /\ beaten'[u] = beaten[u]
         /\ LocalOK' /\ RowOK' /\ ServedOK'
<1>1. /\ UNCHANGED <<clock, tables, ended>>
      /\ pc[t] = "answer"
      /\ pc' = [pc EXCEPT ![t] = "idle"]
      /\ req' = [req EXCEPT ![t] = None]
      /\ row' = [row EXCEPT ![t] = 0]
      /\ digest' = [digest EXCEPT ![t] = Default]
      /\ answer' = [answer EXCEPT ![t] = "none"]
      /\ late' = [late EXCEPT ![t] = FALSE]
      /\ valid' = [valid EXCEPT ![t] = {}]
      /\ beaten' = [beaten EXCEPT ![t] = FALSE]
  BY DEF Respond, Goto
<1>2. LocalOK'
  BY <1>1, ConstantsOK DEF BaseInv, LocalOK, Labels, Replies
<1>3. RowOK'
  <2>1. settings' = settings /\ Len(settings) \in Nat
    BY <1>1 DEF tables, BaseInv, TablesOK
  <2> QED BY <1>1, <2>1 DEF BaseInv, RowOK
<1>4. ServedOK'
  BY <1>1 DEF BaseInv, ServedOK, LocalOK
<1>5. /\ pc'[t] = "idle" /\ answer'[t] = "none" /\ late'[t] = FALSE
      /\ OnlyOf(t)
      /\ \A u \in Threads \ {t} : valid'[u] = valid[u] /\ beaten'[u] = beaten[u]
  BY <1>1 DEF BaseInv, LocalOK, OnlyOf
<1> QED BY <1>1, <1>2, <1>3, <1>4, <1>5

LEMMA RespondBase ==
  ASSUME BaseInv, NEW t \in Threads, Respond(t)
  PROVE  BaseInv'
<1>1. UNCHANGED <<clock, settings, sessions, expires, keys, minted, ended>>
  BY RespondEffect DEF tables
<1>2. TablesOK' /\ Issued' = Issued /\ Grow /\ Grounds'
  BY <1>1 DEF BaseInv, TablesOK, Issued, Grow, Grounds
<1>3. PlaceOf(t)'
  BY RespondEffect DEF PlaceOf, Busy
<1> QED BY <1>2, <1>3, RespondEffect, BaseFromParts

LEMMA ReceiveEffect ==
  ASSUME BaseInv, NEW t \in Threads, NEW r \in Requests, Receive(t, r)
  PROVE  /\ UNCHANGED <<clock, tables, ended, beaten, answer, digest, row>>
         /\ pc[t] = "idle" /\ answer[t] = "none"
         /\ req'[t] = r
         /\ r.op = "login" => pc'[t] = "setting" /\ valid'[t] = {Current(settings)}
         /\ r.op # "login" => /\ r.cred \in Issued
                              /\ pc'[t] = IF r.cred \in Tokens THEN "session" ELSE "bearer"
         /\ late'[t] <=> r.op # "login" /\ r.cred \in ended
         /\ OnlyOf(t)
         /\ \A u \in Threads \ {t} : valid'[u] = valid[u]
         /\ LocalOK'
<1>1. /\ UNCHANGED <<clock, tables, ended, beaten, answer, digest, row>>
      /\ pc[t] = "idle"
      /\ req' = [req EXCEPT ![t] = r]
      /\ r.op # "login" => r.cred \in Issued
      /\ late' = [late EXCEPT ![t] = r.op # "login" /\ r.cred \in ended]
      /\ valid' = [valid EXCEPT ![t] = IF r.op = "login" THEN {Current(settings)} ELSE {}]
  BY DEF Receive
<1>2. /\ r.op = "login" => pc' = [pc EXCEPT ![t] = "setting"]
      /\ r.op # "login" /\ r.cred \in Tokens => pc' = [pc EXCEPT ![t] = "session"]
      /\ r.op # "login" /\ r.cred \notin Tokens => pc' = [pc EXCEPT ![t] = "bearer"]
  BY DEF Receive, Goto
<1>3. answer[t] = "none"
  BY <1>1 DEF BaseInv, Places, PlaceOf
<1>4. /\ pc' \in [Threads -> Labels]
      /\ \A u \in Threads \ {t} : pc'[u] = pc[u]
      /\ r.op = "login" => pc'[t] = "setting"
      /\ r.op # "login" => pc'[t] = IF r.cred \in Tokens THEN "session" ELSE "bearer"
  BY <1>2 DEF BaseInv, LocalOK, Labels
<1>5. Current(settings) \in Passwords
  BY CurrentIsPassword DEF BaseInv, TablesOK
<1> DEFINE isLate == r.op # "login" /\ r.cred \in ended
           now == IF r.op = "login" THEN {Current(settings)} ELSE {}
<1>6. isLate \in BOOLEAN /\ now \in SUBSET Passwords
  BY <1>5
<1> HIDE DEF isLate, now
<1>7. /\ late' = [late EXCEPT ![t] = isLate] /\ valid' = [valid EXCEPT ![t] = now]
      /\ late \in [Threads -> BOOLEAN] /\ valid \in [Threads -> SUBSET Passwords]
      /\ req \in [Threads -> Requests \union {None}]
  BY <1>1 DEF isLate, now, BaseInv, LocalOK
<1>8. /\ late' \in [Threads -> BOOLEAN] /\ valid' \in [Threads -> SUBSET Passwords]
      /\ late'[t] = isLate /\ valid'[t] = now
      /\ \A u \in Threads \ {t} : late'[u] = late[u] /\ valid'[u] = valid[u]
  BY <1>6, <1>7
<1>9. /\ req' \in [Threads -> Requests \union {None}] /\ req'[t] = r
      /\ \A u \in Threads \ {t} : req'[u] = req[u]
  BY <1>1, <1>7
<1>10. LocalOK'
  BY <1>1, <1>4, <1>8, <1>9 DEF BaseInv, LocalOK
<1>11. OnlyOf(t)
  BY <1>1, <1>4, <1>8, <1>9 DEF OnlyOf
<1> QED BY <1>1, <1>3, <1>4, <1>8, <1>9, <1>10, <1>11 DEF isLate, now

LEMMA ReceiveBase ==
  ASSUME BaseInv, NEW t \in Threads, NEW r \in Requests, Receive(t, r)
  PROVE  BaseInv'
<1>1. UNCHANGED <<clock, settings, sessions, expires, keys, minted, ended, row>>
  BY ReceiveEffect DEF tables
<1>2. TablesOK' /\ RowOK' /\ Issued' = Issued /\ Grow /\ Grounds'
  BY <1>1 DEF BaseInv, TablesOK, RowOK, Issued, Grow, Grounds
<1>3. ServedOK'
  BY ReceiveEffect DEF BaseInv, ServedOK, OnlyOf
<1>4. PlaceOf(t)'
  BY <1>1, <1>2, ReceiveEffect, RequestFields DEF PlaceOf, Busy
<1> QED BY <1>2, <1>3, <1>4, ReceiveEffect, BaseFromParts

\* The steps that end a request, whatever they do to the tables.
Concluding(t) ==
  Reap(t) \/ Issue(t) \/ Update(t) \/ Logout(t) \/ Mint(t) \/ Revoke(t)

LEMMA ConcludingConcludes ==
  ASSUME LocalOK, NEW t \in Threads, Concluding(t)
  PROVE  /\ pc[t] \notin {"session", "bearer", "answer"}
         /\ clock' = clock /\ req' = req /\ late' = late
         /\ pc' = [pc EXCEPT ![t] = "answer"] /\ pc'[t] = "answer"
         /\ OnlyOf(t)
<1>1. /\ pc[t] \notin {"session", "bearer", "answer"}
      /\ clock' = clock
      /\ Concludes(t)
  BY DEF Concluding, Reap, Issue, Update, Logout, Mint, Revoke, Concludes, Replies, history,
         Notes
<1>2. UNCHANGED <<req, row, digest, late>>
  BY <1>1 DEF Concludes
<1>3. /\ pc' = [pc EXCEPT ![t] = "answer"] /\ pc'[t] = "answer"
      /\ \A u \in Threads \ {t} : pc'[u] = pc[u] /\ answer'[u] = answer[u]
  BY <1>1 DEF Concludes, Answers, Goto, LocalOK
<1> QED BY <1>1, <1>2, <1>3 DEF OnlyOf

\* Sweep and TimePasses touch no request.
LEMMA AmbientEffect ==
  ASSUME BaseInv, Sweep \/ TimePasses \/ UNCHANGED vars
  PROVE  /\ UNCHANGED <<settings, expires, keys, minted, local, history>>
         /\ sessions' \subseteq sessions
         /\ \A k \in sessions \ sessions' : expires[k] < clock
         /\ clock <= clock' /\ clock' \in 0 .. MaxTime
<1>1. clock \in 0 .. MaxTime /\ MaxTime \in Nat
  BY ConstantsOK DEF BaseInv, TablesOK
<1>2. CASE Sweep
  BY <1>1, <1>2 DEF Sweep, Expired
<1>3. CASE TimePasses
  BY <1>1, <1>3 DEF TimePasses, tables
<1>4. CASE UNCHANGED vars
  BY <1>1, <1>4 DEF vars, tables
<1> QED BY <1>2, <1>3, <1>4

LEMMA AmbientBase ==
  ASSUME BaseInv, Sweep \/ TimePasses \/ UNCHANGED vars
  PROVE  BaseInv'
<1>1. /\ UNCHANGED <<settings, expires, keys, minted, pc, req, row, digest, answer, ended,
                     late, valid, beaten>>
      /\ sessions' \subseteq sessions /\ clock' \in 0 .. MaxTime
  BY AmbientEffect DEF local, history
<1>2. Issued' = Issued
  BY <1>1 DEF Issued
<1>3. TablesOK' /\ LocalOK' /\ RowOK' /\ ServedOK' /\ Grounds'
  BY <1>1, <1>2 DEF BaseInv, TablesOK, LocalOK, RowOK, ServedOK, Grounds
<1>4. Places'
  BY <1>1, <1>2 DEF BaseInv, Places, PlaceOf, Busy
<1> QED BY <1>3, <1>4 DEF BaseInv

LEMMA BaseStep ==
  ASSUME BaseInv, [Next]_vars
  PROVE  BaseInv'
<1>1. ASSUME NEW t \in Threads, Serve(t) PROVE BaseInv'
  <2>1. CASE Moving(t)
    BY <2>1, MovingMoves, MovingPlace, MovesKeepBase DEF BaseInv
  <2>2. CASE Reap(t) \/ Logout(t) \/ Revoke(t)
    BY <2>2, ReapBase, LogoutBase, RevokeBase
  <2>3. CASE Mint(t) \/ Issue(t) \/ Update(t)
    BY <2>3, MintBase, IssueBase, UpdateBase
  <2>4. CASE LoadSetting(t) \/ Seed(t) \/ Respond(t)
    BY <2>4, LoadBase, SeedBase, RespondBase
  <2> QED BY <1>1, <2>1, <2>2, <2>3, <2>4 DEF Serve, Moving
<1>2. ASSUME NEW t \in Threads, NEW r \in Requests, Receive(t, r) PROVE BaseInv'
  BY <1>2, ReceiveBase
<1>3. CASE Sweep \/ TimePasses \/ UNCHANGED vars
  BY <1>3, AmbientBase
<1> QED BY <1>1, <1>2, <1>3 DEF Next

\* Every variable keeps its type.
THEOREM TypeCorrect == Spec => []TypeOK
<1>1. BaseInv => TypeOK
  BY TypeParts DEF BaseInv
<1> QED BY <1>1, BaseInit, BaseStep, PTL DEF Spec

-----------------------------------------------------------------------------
(* What was logged out or revoked lets nobody in.                          *)

\* A credential that ended was issued and has no row any more.
EndedInv == ended \subseteq Issued /\ ended \intersect (sessions \union keys) = {}

\* A request whose credential ended before it began has not got past the lookup.
LateOf(t) ==
  late[t] => /\ req[t].op # "login" /\ req[t].cred \in ended
             /\ \/ pc[t] \in {"session", "bearer"}
                \/ pc[t] = "answer" /\ answer[t] = "signin"

LateInv == \A t \in Threads : LateOf(t)

LEMMA OutInit == Init => EndedInv /\ LateInv
BY DEF Init, EndedInv, LateInv, LateOf

\* The steps of a request that leave the credentials and the history of them.
LEMMA EndedSame ==
  ASSUME EndedInv, UNCHANGED <<expires, minted, keys, ended>>, sessions' \subseteq sessions
  PROVE  EndedInv'
BY DEF EndedInv, Issued

LEMMA EndedStep ==
  ASSUME BaseInv, EndedInv, [Next]_vars
  PROVE  EndedInv' /\ ended \subseteq ended'
<1>1. /\ sessions \subseteq Tokens /\ keys \subseteq minted /\ minted \subseteq Keys
      /\ Tokens \intersect Keys = {} /\ ended \subseteq Tokens \union Keys
  BY ConstantsOK DEF BaseInv, TablesOK
<1>2. CASE Sweep \/ TimePasses \/ UNCHANGED vars
  BY <1>2, AmbientEffect, EndedSame DEF history
<1>3. ASSUME NEW t \in Threads, NEW r \in Requests, Receive(t, r)
     PROVE  EndedInv' /\ ended \subseteq ended'
  BY <1>3, ReceiveEffect, EndedSame DEF tables
<1>4. ASSUME NEW t \in Threads, Serve(t) PROVE EndedInv' /\ ended \subseteq ended'
  <2>1. CASE Moving(t)
    BY <2>1, MovingMoves, EndedSame DEF BaseInv, Moves, tables, history
  <2>2. CASE LoadSetting(t) \/ Respond(t)
    BY <2>2, LoadEffect, RespondEffect, EndedSame DEF tables, history
  <2>3. CASE Reap(t)
    BY <2>3, EndedSame DEF Reap, Destroyed, history
  <2>4. CASE Seed(t) \/ Update(t)
    BY <2>4, EndedSame DEF Seed, Update, Notes
  <2>5. CASE Issue(t)
    <3>1. PICK k \in Tokens :
            /\ expires[k] = 0 /\ expires'[k] > 0
            /\ \A x \in Tokens \ {k} : expires'[x] = expires[x]
            /\ sessions' = sessions \union {k}
      BY <2>5, IssueEffect
    <3>2. UNCHANGED <<keys, minted, ended>>
      BY <2>5 DEF Issue, history
    <3>3. k \notin ended
      BY <1>1, <3>1 DEF EndedInv, Issued
    <3>4. Issued \subseteq Issued'
      BY <3>1, <3>2 DEF Issued
    <3> QED BY <1>1, <3>1, <3>2, <3>3, <3>4 DEF EndedInv
  <2>6. CASE Logout(t)
    <3>1. /\ UNCHANGED <<expires, keys, minted>>
          /\ req[t].cred \in Issued
      BY <2>6 DEF Logout, BaseInv, Places, PlaceOf, Busy
    <3>2. \/ UNCHANGED <<sessions, ended>>
          \/ /\ req[t].cred \in Tokens
             /\ sessions' = sessions \ {req[t].cred} /\ ended' = ended \union {req[t].cred}
      BY <2>6 DEF Logout, Destroyed
    <3>3. Issued' = Issued
      BY <3>1 DEF Issued
    <3> QED BY <1>1, <3>1, <3>2, <3>3 DEF EndedInv
  <2>7. CASE Mint(t)
    <3>1. /\ UNCHANGED <<expires, sessions, ended>>
          /\ req[t].key \notin minted /\ req[t].key \in Keys
          /\ keys' = keys \union {req[t].key} /\ minted' = minted \union {req[t].key}
      BY <2>7, RequestFields DEF Mint, BaseInv, ServedOK, history
    <3>2. req[t].key \notin ended
      BY <1>1, <3>1 DEF EndedInv, Issued
    <3>3. Issued \subseteq Issued'
      BY <3>1 DEF Issued
    <3> QED BY <3>1, <3>2, <3>3 DEF EndedInv
  <2>8. CASE Revoke(t)
    <3>1. /\ UNCHANGED <<expires, sessions, minted>>
          /\ req[t].key \in minted
          /\ keys' = keys \ {req[t].key} /\ ended' = ended \union {req[t].key}
      BY <2>8 DEF Revoke, BaseInv, Places, PlaceOf
    <3>2. Issued' = Issued
      BY <3>1 DEF Issued
    <3>3. req[t].key \in Issued
      BY <3>1 DEF Issued
    <3> QED BY <1>1, <3>1, <3>2, <3>3 DEF EndedInv
  <2> QED BY <1>4, <2>1, <2>2, <2>3, <2>4, <2>5, <2>6, <2>7, <2>8 DEF Serve, Moving
<1> QED BY <1>2, <1>3, <1>4 DEF Next

\* A step of one request does not let another in.
LEMMA OthersStayOut ==
  ASSUME LateInv, ended \subseteq ended', NEW t \in Threads, OnlyOf(t), LateOf(t)'
  PROVE  LateInv'
<1> SUFFICES ASSUME NEW u \in Threads, u # t PROVE LateOf(u)'
  BY DEF LateInv
<1>1. LateOf(u)
  BY DEF LateInv
<1>2. /\ pc'[u] = pc[u] /\ req'[u] = req[u] /\ answer'[u] = answer[u] /\ late'[u] = late[u]
  BY DEF OnlyOf
<1> QED BY <1>1, <1>2 DEF LateOf

LEMMA LateStep ==
  ASSUME BaseInv, EndedInv, LateInv, ended \subseteq ended', [Next]_vars
  PROVE  LateInv'
<1>1. CASE Sweep \/ TimePasses \/ UNCHANGED vars
  BY <1>1, AmbientEffect DEF local, history, LateInv, LateOf
<1>2. ASSUME NEW t \in Threads, NEW r \in Requests, Receive(t, r) PROVE LateInv'
  <2>1. LateOf(t)'
    BY <1>2, ReceiveEffect DEF LateOf
  <2> QED BY <1>2, <2>1, ReceiveEffect, OthersStayOut
<1>3. ASSUME NEW t \in Threads, Serve(t) PROVE LateInv'
  <2>1. pc[t] \notin {"session", "bearer", "answer"} => ~ late[t]
    BY DEF LateInv, LateOf
  <2>2. CASE Moving(t)
    <3>1. /\ req' = req /\ late' = late
          /\ OnlyOf(t)
      BY <2>2, MovingMoves DEF BaseInv, Moves, OnlyOf, history
    <3>2. LateOf(t)'
      <4>1. CASE FindSession(t) \/ FindKey(t)
        <5>1. late[t] => req[t].cred \in ended /\ req[t].op # "login"
          BY DEF LateInv, LateOf
        <5>2. late[t] => Answers(t, "signin")
          BY <4>1, <5>1 DEF FindSession, FindKey, EndedInv
        <5>3. late[t] => pc'[t] = "answer" /\ answer'[t] = "signin"
          BY <5>2 DEF Answers, Goto, BaseInv, LocalOK
        <5> QED BY <3>1, <5>1, <5>3 DEF LateOf
      <4>2. CASE ~ FindSession(t) /\ ~ FindKey(t)
        <5>1. pc[t] \in {"expiry", "compare", "update", "act"}
          BY <2>2, <4>2 DEF Moving, CheckExpiry, Compare, RefuseSetting, Page, RefuseName,
                           FindToken
        <5> QED BY <2>1, <3>1, <5>1 DEF LateOf
      <4> QED BY <4>1, <4>2
    <3> QED BY <3>1, <3>2, OthersStayOut
  <2>3. CASE Respond(t)
    BY <2>3, RespondEffect, OthersStayOut DEF LateOf
  <2>4. CASE LoadSetting(t)
    <3>1. ~ late'[t]
      BY <2>1, <2>4, LoadEffect DEF history
    <3> QED BY <2>4, <3>1, LoadEffect, OthersStayOut DEF LateOf
  <2>5. CASE Seed(t)
    <3>1. pc[t] = "seed" /\ late' = late /\ req' = req /\ answer' = answer
      BY <2>5 DEF Seed, Notes
    <3>2. pc' = [pc EXCEPT ![t] = "compare"]
      BY <2>5, SeedEffect
    <3> QED BY <2>1, <3>1, <3>2 DEF LateInv, LateOf, BaseInv, LocalOK
  <2>6. CASE Concluding(t)
    BY <2>1, <2>6, ConcludingConcludes, OthersStayOut DEF LateOf, BaseInv
  <2> QED BY <1>3, <2>2, <2>3, <2>4, <2>5, <2>6 DEF Serve, Moving, Concluding
<1> QED BY <1>1, <1>2, <1>3 DEF Next

\* A request that begins after its session was logged out, or its API token
\* revoked, is sent to the login form.
THEOREM RevokedStaysOutAlways == Spec => []RevokedStaysOut
<1>1. LateInv => RevokedStaysOut
  BY DEF LateInv, LateOf, RevokedStaysOut, Admitted
<1>2. BaseInv /\ EndedInv /\ LateInv /\ [Next]_vars => BaseInv' /\ EndedInv' /\ LateInv'
  BY BaseStep, EndedStep, LateStep
<1> QED BY <1>1, <1>2, BaseInit, OutInit, PTL DEF Spec

-----------------------------------------------------------------------------
(* A live session keeps its row.                                           *)

\* What a lookup is about to reap had expired when it looked, and the clock
\* does not run back.
ReapOf(t) == pc[t] = "reap" => expires[req[t].cred] <= clock

ReapsExpired == \A t \in Threads : ReapOf(t)

LiveInv == LiveSessionsKept /\ ReapsExpired

LEMMA LiveInit == Init => LiveInv
BY DEF Init, LiveInv, LiveSessionsKept, ReapsExpired, ReapOf

\* Where a step changes no time of expiry, the rows it takes must have expired
\* or ended.
LEMMA LiveQuiet ==
  ASSUME BaseInv, LiveSessionsKept, expires' = expires,
         clock <= clock', clock' \in Nat, ended \subseteq ended',
         \A k \in sessions \ sessions' : k \in ended' \/ expires[k] <= clock
  PROVE  LiveSessionsKept'
<1> SUFFICES ASSUME NEW k \in Tokens, expires[k] > clock'
             PROVE  k \in sessions' \union ended'
  BY DEF LiveSessionsKept
<1>1. expires[k] \in Nat /\ clock \in Nat
  BY ConstantsOK DEF BaseInv, TablesOK
<1>2. expires[k] > clock /\ ~ (expires[k] <= clock)
  BY <1>1
<1>3. k \in sessions \union ended
  BY <1>2 DEF LiveSessionsKept
<1> QED BY <1>2, <1>3

\* Times of expiry that are set stay, so only the step's own request can break
\* what lookups about to reap have seen.
LEMMA ReapOthers ==
  ASSUME BaseInv, ReapsExpired, clock <= clock', clock' \in Nat,
         \A k \in Tokens : expires[k] > 0 => expires'[k] = expires[k],
         NEW t \in Threads, OnlyOf(t), ReapOf(t)'
  PROVE  ReapsExpired'
<1> SUFFICES ASSUME NEW u \in Threads, u # t PROVE ReapOf(u)'
  BY DEF ReapsExpired
<1> SUFFICES ASSUME pc[u] = "reap" PROVE expires'[req[u].cred] <= clock'
  BY DEF ReapOf, OnlyOf
<1> DEFINE k == req[u].cred
<1>1. k \in Tokens /\ k \in Issued
  BY DEF BaseInv, Places, PlaceOf, Busy
<1>2. expires[k] <= clock
  BY DEF ReapsExpired, ReapOf
<1> HIDE DEF k
<1>3. clock \in Nat /\ expires[k] \in Nat /\ k \notin minted
  BY <1>1, ConstantsOK DEF BaseInv, TablesOK
<1>4. expires[k] > 0
  BY <1>1, <1>3 DEF Issued
<1>5. expires'[k] <= clock'
  BY <1>1, <1>2, <1>3, <1>4
<1> QED BY <1>5 DEF k

LEMMA LiveStep ==
  ASSUME BaseInv, LiveInv, ended \subseteq ended', [Next]_vars
  PROVE  LiveInv'
<1>1. clock \in Nat /\ \A k \in Tokens : expires[k] \in Nat
  BY ConstantsOK DEF BaseInv, TablesOK
<1>2. LiveSessionsKept /\ ReapsExpired
  BY DEF LiveInv
<1>3. CASE Sweep \/ TimePasses \/ UNCHANGED vars
  <2>1. /\ UNCHANGED <<expires, pc, req>>
        /\ sessions' \subseteq sessions /\ \A k \in sessions \ sessions' : expires[k] < clock
        /\ clock <= clock' /\ clock' \in Nat
    BY <1>3, AmbientEffect DEF local
  <2>2. \A k \in sessions \ sessions' : expires[k] <= clock
    BY <1>1, <2>1 DEF BaseInv, TablesOK
  <2>3. LiveSessionsKept'
    BY <1>2, <2>1, <2>2, LiveQuiet
  <2>4. ASSUME NEW t \in Threads, pc[t] = "reap" PROVE expires[req[t].cred] <= clock'
    <3>1. req[t].cred \in Tokens
      BY <2>4 DEF BaseInv, Places, PlaceOf
    <3>2. expires[req[t].cred] <= clock
      BY <1>2, <2>4 DEF ReapsExpired, ReapOf
    <3>3. expires[req[t].cred] \in Nat
      BY <1>1, <3>1
    <3> QED BY <1>1, <2>1, <3>2, <3>3
  <2> QED BY <2>1, <2>3, <2>4 DEF LiveInv, ReapsExpired, ReapOf
<1>4. ASSUME NEW t \in Threads, NEW r \in Requests, Receive(t, r) PROVE LiveInv'
  <2>1. UNCHANGED <<clock, expires, sessions>> /\ OnlyOf(t) /\ pc'[t] # "reap"
    BY <1>4, ReceiveEffect DEF tables
  <2> QED BY <1>1, <1>2, <2>1, LiveQuiet, ReapOthers DEF LiveInv, ReapOf
<1>5. ASSUME NEW t \in Threads, Serve(t) PROVE LiveInv'
  <2>1. CASE Moving(t)
    <3>1. UNCHANGED <<clock, expires, sessions, req>> /\ OnlyOf(t)
      BY <2>1, MovingMoves DEF BaseInv, Moves, OnlyOf, tables, history
    <3>2. ReapOf(t)'
      <4>1. pc'[t] = "reap" => CheckExpiry(t) /\ ~ (expires[req[t].cred] > clock)
        BY <2>1 DEF Moving, FindSession, CheckExpiry, FindKey, Compare, RefuseSetting, Page,
                    RefuseName, FindToken, Answers, Admit, Goto, BaseInv, LocalOK
      <4>2. CheckExpiry(t) => req[t].cred \in Tokens
        BY DEF CheckExpiry, BaseInv, Places, PlaceOf
      <4> QED BY <1>1, <3>1, <4>1, <4>2 DEF ReapOf
    <3> QED BY <1>1, <1>2, <3>1, <3>2, LiveQuiet, ReapOthers DEF LiveInv
  <2>2. CASE LoadSetting(t) \/ Seed(t) \/ Respond(t)
    <3>1. UNCHANGED <<clock, expires, sessions>>
      BY <2>2, LoadEffect, SeedEffect, RespondEffect DEF tables
    <3>2. OnlyOf(t) /\ pc'[t] # "reap"
      BY <2>2, LoadEffect, SeedOnly, RespondEffect
    <3> QED BY <1>1, <1>2, <3>1, <3>2, LiveQuiet, ReapOthers DEF LiveInv, ReapOf
  <2>3. CASE Concluding(t)
    <3>1. OnlyOf(t) /\ ReapOf(t)' /\ clock' = clock
      BY <2>3, ConcludingConcludes DEF ReapOf, BaseInv
    <3>2. CASE Issue(t)
      <4>1. PICK k \in Tokens :
              /\ expires[k] = 0
              /\ \A x \in Tokens \ {k} : expires'[x] = expires[x]
              /\ sessions' = sessions \union {k}
        BY <3>2, IssueEffect
      <4>2. LiveSessionsKept'
        BY <1>2, <3>1, <4>1 DEF LiveSessionsKept
      <4>3. \A x \in Tokens : expires[x] > 0 => expires'[x] = expires[x]
        BY <4>1
      <4> QED BY <1>1, <1>2, <3>1, <4>2, <4>3, ReapOthers DEF LiveInv
    <3>3. CASE ~ Issue(t)
      <4>1. expires' = expires
        BY <2>3, <3>3 DEF Concluding, Reap, Update, Logout, Mint, Revoke
      <4>2. \A k \in sessions \ sessions' : k \in ended' \/ expires[k] <= clock
        <5>1. CASE Reap(t)
          BY <1>2, <5>1 DEF Reap, Destroyed, ReapsExpired, ReapOf
        <5>2. CASE ~ Reap(t)
          BY <2>3, <3>3, <5>2 DEF Concluding, Update, Logout, Destroyed, Mint, Revoke
        <5> QED BY <5>1, <5>2
      <4> QED BY <1>1, <1>2, <3>1, <4>1, <4>2, LiveQuiet, ReapOthers DEF LiveInv
    <3> QED BY <3>2, <3>3
  <2> QED BY <1>5, <2>1, <2>2, <2>3 DEF Serve, Moving, Concluding
<1> QED BY <1>3, <1>4, <1>5 DEF Next

\* Until it expires a session keeps its row, unless its user logs out.
THEOREM LiveSessionsKeptAlways == Spec => []LiveSessionsKept
<1>1. BaseInv /\ EndedInv /\ LiveInv /\ [Next]_vars => BaseInv' /\ EndedInv' /\ LiveInv'
  BY BaseStep, EndedStep, LiveStep
<1>2. LiveInv => LiveSessionsKept
  BY DEF LiveInv
<1> QED BY <1>1, <1>2, BaseInit, OutInit, LiveInit, PTL DEF Spec

-----------------------------------------------------------------------------
(* A session is issued for a password that was in force.                   *)

Loggingin(t) == Busy(t) /\ req[t].op = "login"

\* What a login knows: the password in force is noted, and what it loaded and
\* compares with was in force at some moment since it began.
PassOf(t) ==
  Loggingin(t) =>
    /\ Current(settings) \in valid[t]
    /\ pc[t] = "seed" => Default \in valid[t]
    /\ pc[t] \in {"compare", "issue"} => digest[t] \in valid[t]
    /\ pc[t] = "issue" => digest[t] = req[t].pass
    /\ answer[t] = "ok" => req[t].pass \in valid[t]

PassInv == \A t \in Threads : PassOf(t)

LEMMA PassInit == Init => PassInv
BY DEF Init, PassInv, PassOf, Loggingin, Busy

\* What another login knows goes on growing.
Noted(u) == Loggingin(u) => valid[u] \subseteq valid'[u] /\ Current(settings') \in valid'[u]

LEMMA PassFrame ==
  ASSUME PassInv, NEW t \in Threads, OnlyOf(t), PassOf(t)',
         \A u \in Threads \ {t} : Noted(u)
  PROVE  PassInv'
<1> SUFFICES ASSUME NEW u \in Threads, u # t PROVE PassOf(u)'
  BY DEF PassInv
<1>1. PassOf(u) /\ Noted(u)
  BY DEF PassInv
<1>2. /\ pc'[u] = pc[u] /\ req'[u] = req[u] /\ digest'[u] = digest[u]
      /\ answer'[u] = answer[u]
  BY DEF OnlyOf
<1>3. (Loggingin(u))' <=> Loggingin(u)
  BY <1>2 DEF Loggingin, Busy
<1> QED BY <1>1, <1>2, <1>3 DEF PassOf, Noted

LEMMA PassQuiet ==
  ASSUME PassInv, NEW t \in Threads, OnlyOf(t), PassOf(t)', settings' = settings,
         \A u \in Threads \ {t} : valid'[u] = valid[u]
  PROVE  PassInv'
<1>1. \A u \in Threads \ {t} : Noted(u)
  BY DEF Noted, PassInv, PassOf
<1> QED BY <1>1, PassFrame

\* After a statement that may change the password, every login has it noted.
LEMMA NotesNoted ==
  ASSUME NEW t \in Threads, NEW change \in BOOLEAN, Notes(t, change), NEW u \in Threads
  PROVE  Noted(u)
<1>1. valid'[u] = IF Serves(u, "login") THEN valid[u] \union {Current(settings')} ELSE {}
  BY DEF Notes
<1> QED BY <1>1 DEF Noted, Loggingin, Busy, Serves

LEMMA PassStep ==
  ASSUME BaseInv, PassInv, [Next]_vars
  PROVE  PassInv'
<1>1. CASE Sweep \/ TimePasses \/ UNCHANGED vars
  BY <1>1, AmbientEffect DEF local, history, PassInv, PassOf, Loggingin, Busy
<1>2. ASSUME NEW t \in Threads, NEW r \in Requests, Receive(t, r) PROVE PassInv'
  <2>1. /\ settings' = settings /\ OnlyOf(t) /\ \A u \in Threads \ {t} : valid'[u] = valid[u]
        /\ req'[t] = r /\ answer'[t] = "none"
        /\ r.op = "login" => pc'[t] = "setting" /\ valid'[t] = {Current(settings)}
    BY <1>2, ReceiveEffect DEF tables
  <2>2. PassOf(t)'
    BY <2>1 DEF PassOf, Loggingin
  <2> QED BY <2>1, <2>2, PassQuiet
<1>3. ASSUME NEW t \in Threads, Serve(t) PROVE PassInv'
  <2>1. PassOf(t) /\ PlaceOf(t)
    BY DEF PassInv, BaseInv, Places
  <2>2. CASE Moving(t)
    <3>1. UNCHANGED <<settings, valid, req, digest>> /\ OnlyOf(t) /\ pc[t] # "idle"
      BY <2>2, MovingMoves DEF BaseInv, Moves, OnlyOf, tables, history
    <3>2. req[t].op = "login" => Compare(t)
      BY <2>1, <2>2 DEF Moving, FindSession, CheckExpiry, FindKey, RefuseSetting, Page,
                       RefuseName, FindToken, PlaceOf
    <3>3. CASE Compare(t)
      <4>1. /\ pc[t] = "compare" /\ answer[t] = "none" /\ req[t].op = "login"
        BY <2>1, <3>3 DEF Compare, PlaceOf
      <4>2. \/ pc'[t] = "issue" /\ digest[t] = req[t].pass /\ answer'[t] = answer[t]
            \/ pc'[t] = "answer" /\ answer'[t] = "signin"
        BY <3>3 DEF Compare, Answers, Goto, BaseInv, LocalOK
      <4>3. PassOf(t)'
        BY <2>1, <3>1, <4>1, <4>2 DEF PassOf, Loggingin, Busy
      <4> QED BY <3>1, <4>3, PassQuiet
    <3>4. CASE ~ Compare(t)
      <4>1. PassOf(t)'
        BY <3>1, <3>2, <3>4 DEF PassOf, Loggingin
      <4> QED BY <3>1, <4>1, PassQuiet
    <3> QED BY <3>3, <3>4
  <2>3. CASE LoadSetting(t)
    <3>1. UNCHANGED <<settings, valid, req, answer>> /\ OnlyOf(t) /\ pc[t] = "setting"
      BY <2>3, LoadEffect DEF tables, history
    <3>2. PassOf(t)'
      <4>1. settings = <<>> => Current(settings) = Default
        BY DEF Current
      <4>2. \/ pc'[t] = "seed" /\ settings = <<>>
            \/ pc'[t] \in {"compare", "update"} /\ digest'[t] = Current(settings)
        BY <2>3, LoadEffect
      <4> QED BY <2>1, <3>1, <4>1, <4>2 DEF PassOf, PlaceOf, Loggingin, Busy
    <3> QED BY <3>1, <3>2, PassQuiet
  <2>4. CASE Seed(t)
    <3>1. /\ pc[t] = "seed" /\ req' = req /\ answer' = answer /\ Notes(t, FALSE)
          /\ OnlyOf(t) /\ pc'[t] = "compare" /\ digest'[t] = Default
      BY <2>4, SeedEffect, SeedOnly
    <3>2. \A u \in Threads : Noted(u)
      BY <3>1, NotesNoted
    <3>3. PassOf(t)'
      BY <2>1, <3>1, <3>2 DEF PassOf, PlaceOf, Noted, Loggingin, Busy
    <3> QED BY <3>1, <3>2, <3>3, PassFrame
  <2>5. CASE Respond(t)
    <3>1. settings' = settings /\ OnlyOf(t) /\ pc'[t] = "idle"
          /\ \A u \in Threads \ {t} : valid'[u] = valid[u]
      BY <2>5, RespondEffect DEF tables
    <3>2. PassOf(t)'
      BY <3>1 DEF PassOf, Loggingin, Busy
    <3> QED BY <3>1, <3>2, PassQuiet
  <2>6. CASE Concluding(t)
    <3>1. OnlyOf(t) /\ req' = req /\ pc'[t] = "answer"
      BY <2>6, ConcludingConcludes DEF BaseInv
    <3>2. CASE Issue(t)
      <4>1. UNCHANGED <<settings, valid>> /\ pc[t] = "issue"
        BY <3>2 DEF Issue, history
      <4>2. PassOf(t)'
        BY <2>1, <3>1, <4>1 DEF PassOf, Loggingin, Busy
      <4> QED BY <3>1, <4>1, <4>2, PassQuiet
    <3>3. CASE ~ Issue(t)
      <4>1. req[t].op # "login"
        BY <2>1, <2>6, <3>3 DEF Concluding, Reap, Update, Logout, Mint, Revoke, PlaceOf
      <4>2. PassOf(t)'
        BY <3>1, <4>1 DEF PassOf, Loggingin
      <4>3. CASE Update(t)
        <5>1. \A u \in Threads : Noted(u)
          BY <4>3, NotesNoted DEF Update
        <5> QED BY <3>1, <4>2, <5>1, PassFrame
      <4>4. CASE ~ Update(t)
        <5>1. UNCHANGED <<settings, valid>>
          BY <2>6, <3>3, <4>4 DEF Concluding, Reap, Logout, Mint, Revoke, history
        <5> QED BY <3>1, <4>2, <5>1, PassQuiet
      <4> QED BY <4>3, <4>4
    <3> QED BY <3>2, <3>3
  <2> QED BY <1>3, <2>2, <2>3, <2>4, <2>5, <2>6 DEF Serve, Moving, Concluding
<1> QED BY <1>1, <1>2, <1>3 DEF Next

\* A login is let in only with a password that was in force at some moment of
\* its request.
THEOREM IssuedForPasswordAlways == Spec => []IssuedForPassword
<1>1. BaseInv /\ PassInv => IssuedForPassword
  BY DEF BaseInv, Places, PlaceOf, PassInv, PassOf, Loggingin, Busy, IssuedForPassword
<1> QED BY <1>1, BaseInit, PassInit, BaseStep, PassStep, PTL DEF Spec

-----------------------------------------------------------------------------
(* A changed password takes effect.                                        *)

\* The request that changed the password last finds its own in force.
ChangeOf(t) ==
  /\ pc[t] = "answer" /\ req[t].op = "password"
  /\ answer[t] \in {"ok", "crash"} /\ ~ beaten[t]
  => Current(settings) = req[t].pass

ChangeInv == \A t \in Threads : ChangeOf(t)

LEMMA ChangeInit == Init => ChangeInv
BY DEF Init, ChangeInv, ChangeOf

\* A step that leaves the password in force, and what others know of it.
LEMMA ChangeQuiet ==
  ASSUME ChangeInv, NEW t \in Threads, OnlyOf(t), ChangeOf(t)',
         Current(settings') = Current(settings),
         \A u \in Threads \ {t} : beaten'[u] = beaten[u]
  PROVE  ChangeInv'
<1> SUFFICES ASSUME NEW u \in Threads, u # t PROVE ChangeOf(u)'
  BY DEF ChangeInv
<1>1. ChangeOf(u)
  BY DEF ChangeInv
<1>2. /\ pc'[u] = pc[u] /\ req'[u] = req[u] /\ answer'[u] = answer[u]
      /\ beaten'[u] = beaten[u]
  BY DEF OnlyOf
<1> QED BY <1>1, <1>2 DEF ChangeOf

LEMMA ChangeStep ==
  ASSUME BaseInv, ChangeInv, [Next]_vars
  PROVE  ChangeInv'
<1>1. CASE Sweep \/ TimePasses \/ UNCHANGED vars
  BY <1>1, AmbientEffect DEF local, history, ChangeInv, ChangeOf
<1>2. ASSUME NEW t \in Threads, NEW r \in Requests, Receive(t, r) PROVE ChangeInv'
  <2>1. /\ settings' = settings /\ beaten' = beaten /\ OnlyOf(t) /\ pc'[t] # "answer"
    BY <1>2, ReceiveEffect DEF tables
  <2> QED BY <2>1, ChangeQuiet DEF ChangeOf
<1>3. ASSUME NEW t \in Threads, Serve(t) PROVE ChangeInv'
  <2>1. PlaceOf(t)
    BY DEF BaseInv, Places
  <2>2. CASE Moving(t)
    <3>1. UNCHANGED <<settings, beaten, req>> /\ OnlyOf(t)
      BY <2>2, MovingMoves DEF BaseInv, Moves, OnlyOf, tables, history
    <3>2. pc'[t] = "answer" /\ req[t].op = "password" => answer'[t] \in {"signin", "alert"}
      BY <2>1, <2>2 DEF Moving, FindSession, CheckExpiry, FindKey, Compare, RefuseSetting,
                       Page, RefuseName, FindToken, Answers, Admit, Goto, PlaceOf, BaseInv,
                       LocalOK
    <3> QED BY <3>1, <3>2, ChangeQuiet DEF ChangeOf
  <2>3. CASE LoadSetting(t) \/ Respond(t)
    <3>1. settings' = settings /\ OnlyOf(t) /\ pc'[t] # "answer"
          /\ \A u \in Threads \ {t} : beaten'[u] = beaten[u]
      BY <2>3, LoadEffect, RespondEffect DEF tables, history
    <3> QED BY <3>1, ChangeQuiet DEF ChangeOf
  <2>4. CASE Seed(t)
    <3>1. /\ Current(settings') = Current(settings) /\ OnlyOf(t) /\ pc'[t] = "compare"
          /\ Notes(t, FALSE)
      BY <2>4, SeedEffect, SeedOnly
    <3>2. \A u \in Threads : beaten'[u] = beaten[u]
      BY <3>1 DEF Notes, BaseInv, LocalOK
    <3> QED BY <3>1, <3>2, ChangeQuiet DEF ChangeOf
  <2>5. CASE Update(t)
    <3>1. OnlyOf(t) /\ req' = req
      BY <2>5, ConcludingConcludes DEF BaseInv, Concluding
    <3>2. Current(settings') = req[t].pass
      BY <2>5, UpdateEffect
    <3>3. ASSUME NEW u \in Threads, u # t PROVE ChangeOf(u)'
      <4>1. beaten'[u] = (beaten[u] \/ (pc[u] = "answer" /\ Serves(u, "password")))
        BY <2>5 DEF Update, Notes
      <4>2. pc'[u] = pc[u] /\ req'[u] = req[u]
        BY <3>1, <3>3 DEF OnlyOf
      <4> QED BY <4>1, <4>2 DEF ChangeOf, Serves
    <3>4. ChangeOf(t)'
      BY <3>1, <3>2 DEF ChangeOf
    <3> QED BY <3>3, <3>4 DEF ChangeInv
  <2>6. CASE Concluding(t) /\ ~ Update(t)
    <3>1. OnlyOf(t) /\ req' = req
      BY <2>6, ConcludingConcludes DEF BaseInv
    <3>2. UNCHANGED <<settings, beaten>>
      BY <2>6 DEF Concluding, Reap, Issue, Logout, Mint, Revoke, history
    <3>3. req[t].op = "password" => answer'[t] = "signin"
      BY <2>1, <2>6 DEF Concluding, Reap, Issue, Logout, Mint, Revoke, Answers, PlaceOf,
                       BaseInv, LocalOK
    <3> QED BY <3>1, <3>2, <3>3, ChangeQuiet DEF ChangeOf
  <2> QED BY <1>3, <2>2, <2>3, <2>4, <2>5, <2>6 DEF Serve, Moving, Concluding
<1> QED BY <1>1, <1>2, <1>3 DEF Next

\* A changed password is in force when its request is answered, unless another
\* request changed it since.
THEOREM ChangeTakesEffectAlways == Spec => []ChangeTakesEffect
<1>1. BaseInv /\ ChangeInv => ChangeTakesEffect
  BY DEF BaseInv, Places, PlaceOf, ChangeInv, ChangeOf, ChangeTakesEffect
<1> QED BY <1>1, BaseInit, ChangeInit, BaseStep, ChangeStep, PTL DEF Spec

-----------------------------------------------------------------------------
(* The import from the Go version.  Its variables are its own, apart from  *)
(* those of LoginSessions: nothing here is about both programs at once.    *)

Rows == [RowKeys -> Values \union {NoRow}]

\* Records and lines are numbered from 1.
LEMMA Numbering ==
  /\ Len(Config) \in Nat /\ DOMAIN Config = 1 .. Len(Config)
  /\ \A log \in Logs : Len(log) \in Nat /\ DOMAIN log = 1 .. Len(log)
  /\ NoRow \notin Values /\ NoRow \notin Rows
<1>1. /\ Config \in Seq({Config[i] : i \in DOMAIN Config})
      /\ Logs \subseteq Seq({"event", "blank", "skipped", "null"})
      /\ NoRow \notin Values \union Rows
  BY ConfigOK DEF Rows
<1>2. \A log \in Logs : log \in Seq({"event", "blank", "skipped", "null"})
  BY <1>1
<1> QED BY <1>1, <1>2, LenProperties

\* The key and the value of a record, and the rows created for it
LEMMA RecordFields ==
  ASSUME NEW i \in DOMAIN Config
  PROVE  /\ Key(Config[i]) \in RowKeys
         /\ Key(Config[i])[1] = Config[i].table
         /\ Imported(Config[i]) \in Values
              \/ Imported(Config[i]) = tx[Key(Config[i])]
<1>1. Key(Config[i]) \in RowKeys /\ Key(Config[i])[1] = Config[i].table
  BY DEF RowKeys, Key
<1>2. Created(Config[i]) \in Values
  BY DEF Created, Values
<1> QED BY <1>1, <1>2 DEF Imported

\* Types; NoRow is not the rows of a transaction, so that a transaction is
\* open exactly while the task is at the config.
ImportTypes ==
  /\ db \in Rows
  /\ tx \in Rows \union {NoRow}
  /\ tx # NoRow <=> step = "config"
  /\ events \subseteq DOMAIN lines
  /\ refused \in Refused /\ lines \in Logs
  /\ step \in {"idle", "config", "events"}
  /\ step = "config" => at \in 1 .. Len(Config) + 1
  /\ step = "events" => at \in 1 .. Len(lines) + 1
  /\ runs \in 0 .. MaxRuns
  /\ committed \in BOOLEAN /\ removed \subseteq RowKeys /\ said \in BOOLEAN

LEMMA ImportTypesAre == ImportTypeOK <=> ImportTypes
BY DEF ImportTypeOK, ImportTypes, Rows

\* The transaction sees what it has imported so far, and still sees what it
\* found of the user's, but for the settings and the defaults.
TxInv ==
  step = "config" =>
    /\ \A j \in 1 .. at - 1 : tx[Key(Config[j])] # NoRow
    /\ \A k \in RowKeys :
         db[k] = Mine /\ k[1] \notin Singletons => tx[k] = Mine

\* The events are imported after a commit, and so far up to the line at hand.
LinesInv ==
  step = "events" =>
    /\ committed
    /\ \A j \in 1 .. at - 1 : lines[j] = "event" => j \in events

ImportInv ==
  ImportTypes /\ TxInv /\ LinesInv /\ AllOrNothing /\ CompleteIsComplete

LEMMA ImportStarts == ImportInit => ImportInv
<1> SUFFICES ASSUME ImportInit PROVE ImportInv
  OBVIOUS
<1>1. MaxRuns \in Nat
  BY ConfigOK
<1>2. ImportTypes
  <2>1. db \in Rows
    BY DEF ImportInit, Rows
  <2>2. tx = NoRow /\ step = "idle"
    BY DEF ImportInit
  <2>3. /\ events = {} /\ refused \in Refused /\ lines \in Logs /\ runs = 0
        /\ committed = FALSE /\ removed = {} /\ said = FALSE
    BY DEF ImportInit
  <2>4. 0 \in 0 .. MaxRuns
    BY <1>1
  <2> QED BY <2>1, <2>2, <2>3, <2>4 DEF ImportTypes
<1>3. AllOrNothing
  BY DEF ImportInit, AllOrNothing
<1> QED BY <1>2, <1>3 DEF ImportInit, ImportInv, TxInv, LinesInv, CompleteIsComplete

\* A step that leaves the rows and their history alone
LEMMA RowsAlone ==
  ASSUME AllOrNothing, UNCHANGED <<db, committed, removed>>
  PROVE  AllOrNothing'
BY DEF AllOrNothing

\* Another record is written.
LEMMA RecordKeeps ==
  ASSUME ImportInv, ImportRecord
  PROVE  ImportInv'
<1>1. /\ step = "config" /\ at <= Len(Config)
      /\ tx' = [tx EXCEPT ![Key(Config[at])] = Imported(Config[at])]
      /\ at' = at + 1
      /\ UNCHANGED <<db, events, refused, lines, step, runs, committed, removed, said>>
  BY DEF ImportRecord, files, past
<1>2. /\ at \in 1 .. Len(Config) + 1 /\ tx \in Rows /\ ImportTypes
      /\ Len(Config) \in Nat /\ DOMAIN Config = 1 .. Len(Config)
      /\ NoRow \notin Values /\ NoRow \notin Rows
  BY <1>1, Numbering DEF ImportInv, ImportTypes
<1>3. at \in DOMAIN Config /\ at' \in 1 .. Len(Config) + 1
  BY <1>1, <1>2
<1>4. PICK i \in DOMAIN Config : i = at
  BY <1>3
<1>5. PICK k \in RowKeys : k = Key(Config[i]) /\ k[1] = Config[i].table
  BY RecordFields
<1>6. PICK x \in Values \union {NoRow} : x = Imported(Config[i])
  BY <1>2, <1>5, RecordFields DEF Rows
<1>7. tx' = [tx EXCEPT ![k] = x]
  BY <1>1, <1>4, <1>5, <1>6
<1>8. tx' \in Rows /\ tx'[k] = x /\ \A l \in RowKeys : l # k => tx'[l] = tx[l]
  BY <1>2, <1>7 DEF Rows
<1>9. x # NoRow
  <2>1. CASE Config[i].table \in Singletons \/ tx[k] = NoRow
    <3>1. x = Created(Config[i])
      BY <1>5, <1>6, <2>1 DEF Imported
    <3>2. Created(Config[i]) \in Values
      BY DEF Created, Values
    <3> QED BY <1>2, <3>1, <3>2
  <2>2. CASE ~ (Config[i].table \in Singletons \/ tx[k] = NoRow)
    BY <1>5, <1>6, <2>2 DEF Imported
  <2> QED BY <2>1, <2>2
<1>10. tx[k] # NoRow /\ k[1] \notin Singletons => x = tx[k]
  BY <1>5, <1>6 DEF Imported
<1>11. ImportTypes'
  <2>1. tx' # NoRow
    BY <1>2, <1>8
  <2> QED BY <1>1, <1>2, <1>3, <1>8, <2>1 DEF ImportTypes
<1>12. TxInv'
  <2>1. ASSUME NEW j \in 1 .. at' - 1 PROVE tx'[Key(Config[j])] # NoRow
    <3>1. j \in DOMAIN Config /\ Key(Config[j]) \in RowKeys
      BY <1>1, <1>2, <1>3, RecordFields
    <3>2. j = at \/ j \in 1 .. at - 1
      BY <1>1, <1>2
    <3>3. CASE j = at
      BY <1>4, <1>5, <1>8, <1>9, <3>3
    <3>4. CASE j \in 1 .. at - 1
      <4>1. tx[Key(Config[j])] # NoRow
        BY <1>1, <3>4 DEF ImportInv, TxInv
      <4> QED BY <1>8, <1>9, <3>1, <4>1
    <3> QED BY <3>2, <3>3, <3>4
  <2>2. ASSUME NEW l \in RowKeys, db[l] = Mine, l[1] \notin Singletons
        PROVE  tx'[l] = Mine
    <3>1. tx[l] = Mine
      BY <1>1, <2>2 DEF ImportInv, TxInv
    <3>2. Mine # NoRow
      BY <1>2 DEF Values
    <3> QED BY <1>8, <1>10, <2>2, <3>1, <3>2
  <2> QED BY <1>1, <2>1, <2>2 DEF TxInv
<1>13. LinesInv'
  BY <1>1 DEF LinesInv
<1>14. AllOrNothing' /\ CompleteIsComplete'
  BY <1>1, RowsAlone DEF ImportInv, CompleteIsComplete, Wanted
<1> QED BY <1>11, <1>12, <1>13, <1>14 DEF ImportInv

\* The transaction begins.
LEMMA StartKeeps ==
  ASSUME ImportInv, Start
  PROVE  ImportInv'
<1>1. /\ step = "idle" /\ runs < MaxRuns /\ step' = "config" /\ at' = 1 /\ runs' = runs + 1
      /\ tx' = db /\ UNCHANGED <<db, events, refused, lines, committed, removed, said>>
  BY DEF Start, files, past
<1>2. ImportTypes /\ Len(Config) \in Nat /\ NoRow \notin Rows /\ MaxRuns \in Nat
  BY Numbering, ConfigOK DEF ImportInv
<1>3. ImportTypes'
  <2>1. 1 \in 1 .. Len(Config) + 1 /\ runs + 1 \in 0 .. MaxRuns
    BY <1>1, <1>2 DEF ImportTypes
  <2>2. db \in Rows /\ db # NoRow
    BY <1>2 DEF ImportTypes
  <2> QED BY <1>1, <1>2, <2>1, <2>2 DEF ImportTypes
<1>4. TxInv' /\ LinesInv'
  BY <1>1 DEF TxInv, LinesInv
<1>5. AllOrNothing' /\ CompleteIsComplete'
  BY <1>1, RowsAlone DEF ImportInv, CompleteIsComplete, Wanted
<1> QED BY <1>3, <1>4, <1>5 DEF ImportInv

\* The transaction is left, by an exception or a crash.
LEMMA LeaveKeeps ==
  ASSUME ImportInv, RollBack \/ Crash
  PROVE  ImportInv'
<1>1. /\ step' = "idle" /\ tx' = NoRow
      /\ UNCHANGED <<db, events, refused, lines, at, runs, committed, removed, said>>
  BY DEF RollBack, Crash, Undone, files, past
<1>2. ImportTypes'
  BY <1>1 DEF ImportInv, ImportTypes
<1>3. TxInv' /\ LinesInv'
  BY <1>1 DEF TxInv, LinesInv
<1>4. AllOrNothing' /\ CompleteIsComplete'
  BY <1>1, RowsAlone DEF ImportInv, CompleteIsComplete, Wanted
<1> QED BY <1>2, <1>3, <1>4 DEF ImportInv

\* Every record has been written.
LEMMA CommitKeeps ==
  ASSUME ImportInv, Commit
  PROVE  ImportInv'
<1>1. /\ step = "config" /\ at = Len(Config) + 1 /\ db' = tx /\ tx' = NoRow
      /\ step' = "events" /\ at' = 1 /\ committed' = TRUE
      /\ UNCHANGED <<events, refused, lines, runs, removed, said>>
  BY DEF Commit, files
<1>2. ImportTypes /\ Len(Config) \in Nat /\ DOMAIN Config = 1 .. Len(Config)
      /\ Len(lines) \in Nat
  BY Numbering DEF ImportInv, ImportTypes
<1>3. ImportTypes'
  <2>1. tx \in Rows /\ 1 \in 1 .. Len(lines) + 1
    BY <1>1, <1>2 DEF ImportTypes
  <2> QED BY <1>1, <1>2, <2>1 DEF ImportTypes
<1>4. TxInv' /\ LinesInv'
  BY <1>1 DEF TxInv, LinesInv
<1>5. AllOrNothing'
  <2>1. ASSUME NEW i \in DOMAIN Config PROVE db'[Key(Config[i])] # NoRow
    <3>1. i \in 1 .. at - 1
      BY <1>1, <1>2
    <3> QED BY <1>1, <3>1 DEF ImportInv, TxInv
  <2> QED BY <1>1, <2>1 DEF AllOrNothing
<1>6. CompleteIsComplete'
  BY <1>1 DEF ImportInv, CompleteIsComplete, Wanted
<1> QED BY <1>3, <1>4, <1>5, <1>6 DEF ImportInv

\* A line is imported, or skipped: then it is none that is wanted.
LEMMA LineKeeps ==
  ASSUME ImportInv, ImportLine \/ SkipLine
  PROVE  ImportInv'
<1>1. /\ step = "events" /\ at <= Len(lines) /\ at' = at + 1
      /\ UNCHANGED <<db, tx, refused, lines, step, runs, committed, removed, said>>
      /\ \/ events' = events \union {at}
         \/ events' = events /\ lines[at] # "event"
  BY DEF ImportLine, SkipLine, AfterSkip, files, past
<1>2. /\ ImportTypes /\ at \in 1 .. Len(lines) + 1 /\ Len(lines) \in Nat
      /\ DOMAIN lines = 1 .. Len(lines)
  BY <1>1, Numbering DEF ImportInv, ImportTypes
<1>3. at \in DOMAIN lines /\ at' \in 1 .. Len(lines) + 1
  BY <1>1, <1>2
<1>4. ImportTypes'
  <2>1. events' \subseteq DOMAIN lines
    BY <1>1, <1>2, <1>3 DEF ImportTypes
  <2> QED BY <1>1, <1>2, <1>3, <2>1 DEF ImportTypes
<1>5. LinesInv'
  <2>1. ASSUME NEW j \in 1 .. at' - 1, lines[j] = "event" PROVE j \in events'
    <3>1. j = at \/ j \in 1 .. at - 1
      BY <1>1, <1>2
    <3>2. j \in 1 .. at - 1 => j \in events
      BY <1>1, <2>1 DEF ImportInv, LinesInv
    <3> QED BY <1>1, <2>1, <3>1, <3>2
  <2>2. committed
    BY <1>1 DEF ImportInv, LinesInv
  <2> QED BY <1>1, <2>1, <2>2 DEF LinesInv
<1>6. TxInv'
  BY <1>1 DEF TxInv
<1>7. AllOrNothing' /\ CompleteIsComplete'
  BY <1>1, RowsAlone DEF ImportInv, CompleteIsComplete, Wanted
<1> QED BY <1>4, <1>5, <1>6, <1>7 DEF ImportInv

\* The task ends at a line, or after the last: then every wanted one is in.
LEMMA EndKeeps ==
  ASSUME ImportInv, LineAborts \/ Finish
  PROVE  ImportInv'
<1>1. /\ step = "events" /\ step' = "idle"
      /\ UNCHANGED <<db, tx, events, refused, lines, at, runs, committed, removed>>
      /\ said' = said \/ (said' = TRUE /\ at = Len(lines) + 1)
  BY DEF LineAborts, Finish, files, past
<1>2. ImportTypes /\ Len(lines) \in Nat /\ DOMAIN lines = 1 .. Len(lines)
  BY Numbering DEF ImportInv, ImportTypes
<1>3. ImportTypes'
  BY <1>1, <1>2 DEF ImportTypes
<1>4. TxInv' /\ LinesInv'
  BY <1>1 DEF TxInv, LinesInv
<1>5. CompleteIsComplete'
  <2>1. CASE said' = said
    BY <1>1, <2>1 DEF ImportInv, CompleteIsComplete, Wanted
  <2>2. CASE at = Len(lines) + 1
    <3>1. at - 1 = Len(lines)
      BY <1>2, <2>2
    <3>2. committed /\ Wanted \subseteq events
      BY <1>1, <1>2, <3>1 DEF ImportInv, LinesInv, Wanted
    <3> QED BY <1>1, <3>2 DEF CompleteIsComplete, Wanted
  <2> QED BY <1>1, <2>1, <2>2
<1>6. AllOrNothing'
  BY <1>1, RowsAlone DEF ImportInv
<1> QED BY <1>3, <1>4, <1>5, <1>6 DEF ImportInv

\* The user adds, changes or removes a row, while no transaction is open.
LEMMA UserKeeps ==
  ASSUME ImportInv, NEW k \in RowKeys,
         AddRow(k) \/ SaveRow(k) \/ RemoveRow(k)
  PROVE  ImportInv'
<1>1. /\ tx = NoRow /\ UNCHANGED <<tx, events, refused, lines, step, at, runs, committed, said>>
      /\ \/ db' = [db EXCEPT ![k] = Mine] /\ removed' = removed
         \/ db' = [db EXCEPT ![k] = NoRow] /\ removed' = removed \union {k}
  BY DEF AddRow, SaveRow, RemoveRow, files, task, past
<1>2. ImportTypes /\ NoRow \notin Values /\ Mine \in Values
  BY Numbering DEF ImportInv, Values
<1>3. step # "config"
  BY <1>1, <1>2 DEF ImportTypes
<1>4. PICK x \in {Mine, NoRow} : /\ db' = [db EXCEPT ![k] = x]
                                 /\ removed' = removed \/ removed' = removed \union {k}
                                 /\ x = NoRow => k \in removed'
  <2>1. CASE db' = [db EXCEPT ![k] = Mine] /\ removed' = removed
    BY <1>2, <2>1
  <2>2. CASE db' = [db EXCEPT ![k] = NoRow] /\ removed' = removed \union {k}
    BY <2>2
  <2> QED BY <1>1, <2>1, <2>2
<1>5. db' \in Rows /\ \A l \in RowKeys : db'[l] = IF l = k THEN x ELSE db[l]
  BY <1>2, <1>4 DEF ImportTypes, Rows
<1>6. ImportTypes'
  BY <1>1, <1>2, <1>4, <1>5 DEF ImportTypes
<1>7. TxInv' /\ LinesInv'
  BY <1>1, <1>3 DEF ImportInv, TxInv, LinesInv
<1>8. AllOrNothing'
  <2>1. CASE committed
    <3>1. ASSUME NEW i \in DOMAIN Config
          PROVE  db'[Key(Config[i])] # NoRow \/ Key(Config[i]) \in removed'
      <4>1. Key(Config[i]) \in RowKeys
        BY RecordFields
      <4>2. db[Key(Config[i])] # NoRow \/ Key(Config[i]) \in removed
        BY <2>1 DEF ImportInv, AllOrNothing
      <4> QED BY <1>2, <1>4, <1>5, <4>1, <4>2
    <3> QED BY <1>1, <2>1, <3>1 DEF AllOrNothing
  <2>2. CASE ~ committed
    <3>1. \A l \in RowKeys : db[l] \in {NoRow, Mine}
      BY <2>2 DEF ImportInv, AllOrNothing
    <3>2. \A l \in RowKeys : db'[l] \in {NoRow, Mine}
      BY <1>5, <3>1
    <3> QED BY <1>1, <2>2, <3>2 DEF AllOrNothing
  <2> QED BY <2>1, <2>2
<1>9. CompleteIsComplete'
  BY <1>1 DEF ImportInv, CompleteIsComplete, Wanted
<1> QED BY <1>6, <1>7, <1>8, <1>9 DEF ImportInv

LEMMA ImportStep == ImportInv /\ [ImportNext]_importVars => ImportInv'
<1> SUFFICES ASSUME ImportInv, [ImportNext]_importVars PROVE ImportInv'
  OBVIOUS
<1>1. CASE Task
  BY <1>1, StartKeeps, RecordKeeps, LeaveKeeps, CommitKeeps, LineKeeps, EndKeeps
     DEF Task
<1>2. CASE Crash
  BY <1>2, LeaveKeeps
<1>3. ASSUME NEW k \in RowKeys, AddRow(k) \/ SaveRow(k) \/ RemoveRow(k)
      PROVE  ImportInv'
  BY <1>3, UserKeeps
<1>4. CASE UNCHANGED importVars
  <2>1. UNCHANGED <<db, tx, events, refused, lines, step, at, runs, committed, removed, said>>
    BY <1>4 DEF importVars, files, task, past
  <2>2. ImportTypes' /\ TxInv' /\ LinesInv'
    BY <2>1 DEF ImportInv, ImportTypes, TxInv, LinesInv
  <2>3. AllOrNothing' /\ CompleteIsComplete'
    BY <2>1, RowsAlone DEF ImportInv, CompleteIsComplete, Wanted
  <2> QED BY <2>2, <2>3 DEF ImportInv
<1> QED BY <1>1, <1>2, <1>3, <1>4 DEF ImportNext

LEMMA ImportAlways == ImportSpec => []ImportInv
BY ImportStarts, ImportStep, PTL DEF ImportSpec

\* Types of the import: a transaction is open exactly while the task is at
\* the config.
THEOREM ImportTypeCorrect == ImportSpec => []ImportTypeOK
<1>1. ImportInv => ImportTypeOK
  BY ImportTypesAre DEF ImportInv
<1> QED BY <1>1, ImportAlways, PTL

\* Whatever crashes, refused records and reruns there are, config.json is in
\* as a whole or not at all.
THEOREM AllOrNothingAlways == ImportSpec => []AllOrNothing
<1>1. ImportInv => AllOrNothing
  BY DEF ImportInv
<1> QED BY <1>1, ImportAlways, PTL

\* "Migration complete" is said only when the config and every usable line are
\* in, over any number of runs that crashed before.
THEOREM CompleteIsCompleteAlways == ImportSpec => []CompleteIsComplete
<1>1. ImportInv => CompleteIsComplete
  BY DEF ImportInv
<1> QED BY <1>1, ImportAlways, PTL

\* What a step of the import, or of the user, does to a row of the user's
KeepsEdits ==
  \A k \in RowKeys :
    db[k] = Mine /\ k[1] \notin Singletons => db'[k] \in {Mine, NoRow}

\* A run of the task after the first overwrites no row the user made or edited,
\* except the settings and the defaults.
THEOREM EditsKeptAlways == ImportSpec => EditsKept
<1>1. ASSUME ImportInv, [ImportNext]_importVars PROVE [KeepsEdits]_importVars
  <2>1. CASE Commit
    <3>1. step = "config" /\ db' = tx
      BY <2>1 DEF Commit
    <3> QED BY <1>1, <3>1 DEF ImportInv, TxInv, KeepsEdits
  <2>2. ASSUME NEW k \in RowKeys,
               AddRow(k) \/ SaveRow(k) \/ RemoveRow(k)
        PROVE  KeepsEdits
    <3>1. \E x \in {Mine, NoRow} : db' = [db EXCEPT ![k] = x]
      BY <2>2 DEF AddRow, SaveRow, RemoveRow
    <3>2. \A l \in RowKeys : db'[l] = db[l] \/ db'[l] \in {Mine, NoRow}
      BY <1>1, <3>1 DEF ImportInv, ImportTypes, Rows
    <3> QED BY <3>2 DEF KeepsEdits
  <2>3. ASSUME ImportNext, ~ Commit,
               ~ \E k \in RowKeys :
                   AddRow(k) \/ SaveRow(k) \/ RemoveRow(k)
        PROVE  KeepsEdits
    <3>1. db' = db
      BY <2>3 DEF ImportNext, Task, Start, ImportRecord,
                  RollBack, ImportLine, SkipLine, LineAborts,
                  Finish, Crash, Undone
    <3> QED BY <3>1 DEF KeepsEdits
  <2> QED BY <1>1, <2>1, <2>2, <2>3
<1> QED BY <1>1, ImportAlways, PTL DEF ImportSpec, EditsKept, KeepsEdits

-----------------------------------------------------------------------------
(* Migration implements ConfigImport.                                      *)

\* What the file offers a key: what a created row holds is among it.
LEMMA OfferedFacts ==
  /\ \A k \in RowKeys : NoRow \notin Offered[k]
  /\ \A k \in RowKeys : Offered[k] # {} <=> \E i \in DOMAIN Config : Key(Config[i]) = k
  /\ \A i \in DOMAIN Config : Created(Config[i]) \in Offered[Key(Config[i])]
<1>1. ASSUME NEW k \in RowKeys
      PROVE  \A x : x \in Offered[k] <=>
               \E i \in DOMAIN Config :
                 /\ Key(Config[i]) = k
                 /\ \/ x = Config[i].value
                    \/ /\ x = Ungrouped /\ k[1] = "vm_assignments"
                       /\ Config[i].value # Marked
  BY DEF Offered
<1>2. \A k \in RowKeys : NoRow \notin Offered[k]
  <2>1. NoRow # Ungrouped /\ \A i \in DOMAIN Config : NoRow # Config[i].value
    BY Numbering DEF Values
  <2> QED BY <1>1, <2>1
<1>3. \A k \in RowKeys : Offered[k] # {} <=> \E i \in DOMAIN Config : Key(Config[i]) = k
  BY <1>1
<1>4. ASSUME NEW i \in DOMAIN Config
      PROVE  Created(Config[i]) \in Offered[Key(Config[i])]
  <2>1. Key(Config[i]) \in RowKeys /\ Key(Config[i])[1] = Config[i].table
    BY RecordFields
  <2>2. \/ Created(Config[i]) = Config[i].value
        \/ /\ Created(Config[i]) = Ungrouped /\ Config[i].table = "vm_assignments"
           /\ Config[i].value # Marked
    BY DEF Created
  <2> QED BY <1>1, <2>1, <2>2
<1> QED BY <1>2, <1>3, <1>4

\* In the transaction, a row differs from the committed one only if a record
\* was written to it,
Unwritten ==
  \A k \in RowKeys : tx[k] # db[k] => \E j \in 1 .. at - 1 : Key(Config[j]) = k

\* which is never so of a row that was found, but for the single ones;
FoundKept == \A k \in RowKeys \ Single : db[k] # NoRow => tx[k] = db[k]

\* what was written comes from the file;
Taken ==
  \A j \in 1 .. at - 1 : \A k \in RowKeys :
    k = Key(Config[j]) /\ (k \in Single \/ db[k] = NoRow) => tx[k] \in Offered[k]

\* and the group of an assignment that was written has a row.
GroupThere(k) == <<"groups", tx[k]>> \in {g \in RowKeys : tx[g] # NoRow}

Grouped ==
  \A k \in RowKeys : k[1] = "vm_assignments" /\ tx[k] # db[k] =>
    tx[k] \in {Ungrouped, Marked} \/ GroupThere(k)

TxPromise == step = "config" => Unwritten /\ FoundKept /\ Taken /\ Grouped

\* Another record is written.
LEMMA RecordKeepsPromise ==
  ASSUME ImportInv, TxPromise, ImportRecord
  PROVE  TxPromise'
<1>1. /\ step = "config" /\ at <= Len(Config) /\ at' = at + 1
      /\ tx' = [tx EXCEPT ![Key(Config[at])] = Imported(Config[at])]
      /\ UNCHANGED db
  BY DEF ImportRecord
<1>2. /\ at \in 1 .. Len(Config) + 1 /\ tx \in Rows /\ db \in Rows
      /\ Len(Config) \in Nat /\ DOMAIN Config = 1 .. Len(Config)
      /\ NoRow \notin Values
  BY <1>1, Numbering DEF ImportInv, ImportTypes
<1>3. PICK i \in DOMAIN Config : i = at
  BY <1>1, <1>2
<1>4. PICK k \in RowKeys : k = Key(Config[i]) /\ k[1] = Config[i].table
  BY RecordFields
<1>5. PICK x : x = Imported(Config[i])
  OBVIOUS
<1>6. /\ \A j \in 1 .. at' - 1 : j = i \/ j \in 1 .. at - 1
      /\ \A j \in 1 .. at - 1 : j \in 1 .. at' - 1
      /\ i \in 1 .. at' - 1
  BY <1>1, <1>2, <1>3
<1>7. \A l \in RowKeys : tx'[l] = IF l = k THEN x ELSE tx[l]
  BY <1>1, <1>2, <1>3, <1>4, <1>5 DEF Rows
<1>8. PICK c : c = Created(Config[i])
  OBVIOUS
<1>9. /\ k \in Single <=> Config[i].table \in Singletons
      /\ x = IF k \in Single \/ tx[k] = NoRow THEN c ELSE tx[k]
      /\ c \in Offered[k] /\ NoRow \notin Offered[k]
  BY <1>4, <1>5, <1>8, OfferedFacts DEF Imported, Single
<1>10. Unwritten /\ FoundKept /\ Taken /\ Grouped
  BY <1>1 DEF TxPromise
<1>11. Unwritten'
  BY <1>1, <1>3, <1>4, <1>6, <1>7, <1>10 DEF Unwritten
<1>12. FoundKept'
  BY <1>1, <1>7, <1>9, <1>10 DEF FoundKept, Single
<1>13. k \in Single \/ db[k] = NoRow => x \in Offered[k]
  BY <1>9, <1>10 DEF Unwritten, Taken
<1>14. Taken'
  BY <1>1, <1>3, <1>4, <1>6, <1>7, <1>10, <1>13 DEF Taken
<1>15. x # NoRow
  BY <1>9
<1>16. \A g \in RowKeys : tx[g] # NoRow => tx'[g] # NoRow
  BY <1>7, <1>15
<1>17. ASSUME NEW l \in RowKeys, l[1] = "vm_assignments", tx'[l] # db'[l]
       PROVE  tx'[l] \in {Ungrouped, Marked} \/ GroupThere(l)'
  <2>1. CASE tx'[l] = tx[l]
    BY <1>1, <1>10, <1>16, <1>17, <2>1 DEF Grouped, GroupThere
  <2>2. CASE tx'[l] # tx[l]
    <3>1. l = k /\ tx'[l] = c
      BY <1>7, <1>9, <2>2
    <3>2. c \in {Ungrouped, Marked} \/ <<"groups", c>> \in {g \in RowKeys : tx[g] # NoRow}
      BY <1>4, <1>8, <1>17, <3>1 DEF Created
    <3> QED BY <1>16, <3>1, <3>2 DEF GroupThere
  <2> QED BY <2>1, <2>2
<1>18. Grouped'
  BY <1>17 DEF Grouped
<1> QED BY <1>11, <1>12, <1>14, <1>18 DEF TxPromise

LEMMA PromiseStep ==
  ASSUME ImportInv, TxPromise, [ImportNext]_importVars
  PROVE  TxPromise'
<1>1. CASE Start
  <2>1. tx' = db /\ db' = db /\ at' = 1
    BY <1>1 DEF Start
  <2>2. Unwritten' /\ FoundKept' /\ Grouped'
    BY <2>1 DEF Unwritten, FoundKept, Grouped
  <2>3. Taken'
    BY <2>1 DEF Taken
  <2> QED BY <2>2, <2>3 DEF TxPromise
<1>2. CASE ImportRecord
  BY <1>2, RecordKeepsPromise
<1>3. CASE UNCHANGED importVars
  <2>1. UNCHANGED <<db, tx, step, at>>
    BY <1>3 DEF importVars, task
  <2> QED BY <2>1 DEF TxPromise, Unwritten, FoundKept, Taken, Grouped, GroupThere, Single, Offered
<1>4. ASSUME ImportNext, ~ Start, ~ ImportRecord PROVE step' # "config"
  <2>1. CASE RollBack \/ Commit \/ Crash \/ LineAborts \/ Finish
    BY <2>1 DEF RollBack, Commit, Crash, LineAborts, Finish
  <2>2. CASE ImportLine \/ SkipLine
    BY <2>2 DEF ImportLine, SkipLine
  <2>3. ASSUME NEW k \in RowKeys, AddRow(k) \/ SaveRow(k) \/ RemoveRow(k)
        PROVE  step' # "config"
    BY <2>3 DEF AddRow, SaveRow, RemoveRow, task, ImportInv, ImportTypes
  <2> QED BY <1>4, <2>1, <2>2, <2>3 DEF ImportNext, Task
<1> QED BY <1>1, <1>2, <1>3, <1>4 DEF TxPromise

\* The commit is the import, as a whole.
LEMMA CommitImports ==
  ASSUME ImportInv, TxPromise, Commit
  PROVE  Promise!Import
<1>1. /\ step = "config" /\ at = Len(Config) + 1 /\ db' = tx /\ committed' = TRUE
      /\ UNCHANGED events
  BY DEF Commit
<1>2. /\ tx \in Rows /\ db \in Rows
      /\ Len(Config) \in Nat /\ DOMAIN Config = 1 .. Len(Config)
  BY <1>1, Numbering DEF ImportInv, ImportTypes
<1>3. 1 .. at - 1 = DOMAIN Config
  BY <1>1, <1>2
<1>4. Unwritten /\ FoundKept /\ Taken /\ Grouped
  BY <1>1 DEF TxPromise
<1>5. ASSUME NEW k \in RowKeys PROVE Promise!Comes(k)
  <2>1. CASE Offered[k] # {} /\ (db[k] = NoRow \/ k \in Single)
    <3>1. PICK i \in DOMAIN Config : Key(Config[i]) = k
      BY <2>1, OfferedFacts
    <3> QED BY <1>1, <1>3, <1>4, <2>1, <3>1 DEF Taken, Promise!Comes
  <2>2. CASE Offered[k] = {}
    <3>1. tx[k] = db[k]
      BY <1>3, <1>4, <2>2, OfferedFacts DEF Unwritten
    <3> QED BY <1>1, <2>2, <3>1 DEF Promise!Comes
  <2>3. CASE db[k] # NoRow /\ k \notin Single
    BY <1>1, <1>4, <2>3 DEF FoundKept, Promise!Comes
  <2> QED BY <2>1, <2>2, <2>3
<1>6. ASSUME NEW k \in RowKeys PROVE Promise!HasGroup(k)
  BY <1>1, <1>4 DEF Grouped, GroupThere, Promise!HasGroup
<1>7. DOMAIN db' = RowKeys
  BY <1>1, <1>2 DEF Rows
<1> QED BY <1>1, <1>5, <1>6, <1>7 DEF Promise!Import

LEMMA PromiseNext ==
  ASSUME ImportInv, TxPromise, [ImportNext]_importVars
  PROVE  [Promise!Next]_(Promise!tables)
<1>1. CASE Commit
  BY <1>1, CommitImports DEF Promise!Next
<1>2. CASE ImportLine
  <2>1. events' = events \union {at} /\ UNCHANGED <<db, committed>> /\ committed
    BY <1>2 DEF ImportLine, past, ImportInv, LinesInv
  <2>2. at \in events' /\ Promise!Log(at)
    BY <2>1 DEF Promise!Log
  <2> QED BY <2>2 DEF Promise!Next
<1>3. ASSUME NEW k \in RowKeys, AddRow(k) \/ SaveRow(k) \/ RemoveRow(k)
      PROVE  [Promise!Next]_(Promise!tables)
  <2>1. UNCHANGED <<events, committed>>
    BY <1>3 DEF AddRow, SaveRow, RemoveRow, past
  <2>2. db' = [db EXCEPT ![k] = Mine] \/ db' = [db EXCEPT ![k] = NoRow]
    BY <1>3 DEF AddRow, SaveRow, RemoveRow
  <2>3. Promise!Write(k, Mine) \/ Promise!Write(k, NoRow)
    BY <2>1, <2>2 DEF Promise!Write
  <2> QED BY <2>3 DEF Promise!Next
<1>4. CASE Start \/ ImportRecord \/ RollBack \/ Crash \/ SkipLine \/ LineAborts \/ Finish
  BY <1>4 DEF Start, ImportRecord, RollBack, Crash, Undone, SkipLine, LineAborts, Finish, past,
     Promise!tables
<1>5. CASE UNCHANGED importVars
  BY <1>5 DEF importVars, past, Promise!tables
<1> QED BY <1>1, <1>2, <1>3, <1>4, <1>5 DEF ImportNext, Task

\* The import keeps ConfigImport's promises: config.json comes in at once, out
\* of the file and over nothing of the user's, with the groups of its
\* assignments, for any file, any number of runs, and a crash at any statement.
THEOREM ImportsAtOnceAlways == ImportSpec => ImportsAtOnce
<1>1. ImportInit => TxPromise /\ Promise!Init
  BY DEF ImportInit, TxPromise, Promise!Init
<1>2. ImportSpec => [](ImportInv /\ TxPromise)
  BY <1>1, ImportStarts, ImportStep, PromiseStep, PTL DEF ImportSpec
<1> QED BY <1>1, <1>2, PromiseNext, PTL DEF ImportSpec, ImportsAtOnce, Promise!Spec
=============================================================================
