----------------------------- MODULE UsersProofs -----------------------------
(***************************************************************************)
(* The properties of Users for any number of tasks and any credentials,    *)
(* and without regard to the bounds: IInv is inductive and implies them.   *)
(***************************************************************************)
EXTENDS Users, TLAPS

USE UsersAssumption

\* The tables that requests insert into.
LEMMA Tables ==
  /\ DOMAIN TableOf = {"create_user", "create_warehouse"}
  /\ TableOf["create_user"] = "User" /\ TableOf["create_warehouse"] = "Warehouse"
  BY DEF TableOf

LEMMA SuperuserTyped == Superuser \in Rows /\ Superuser.id = 1 /\ Superuser.by = Null
  BY DEF Superuser, Rows, Texts

LEMMA IdleTyped == Idle \in Runs
  BY DEF Idle, Runs, Texts, Kinds, Codes

\* A place where nothing runs owes nothing.
LEMMA IdleSound ==
  /\ Sound(Idle)
  /\ \A r : Apart(r, Idle) /\ Apart(Idle, r)
  <1>1. Idle.kind = "idle" /\ Idle.stage = "begun" /\ Idle.known = {} /\ Idle.answer = "none"
    BY DEF Idle
  <1>2. QED
    BY <1>1, Tables DEF Sound, Inserting, Apart

\* The invariant holds initially.
LEMMA InitIInv == Init => IInv
  <1> SUFFICES ASSUME Init PROVE IInv
    OBVIOUS
  <1>1. /\ rows.User = {Superuser} /\ rows.Warehouse = {} /\ drawn.User = 1
        /\ promised = {Superuser} /\ tokens = {}
    BY DEF Init
  <1>2. TypeOK
    BY SuperuserTyped, IdleTyped DEF Init, TypeOK
  <1>3. Numbers
    BY <1>1, SuperuserTyped DEF Numbers
  <1>4. Owners
    BY <1>1, SuperuserTyped DEF Owners
  <1>5. \A t \in Tasks : task[t] = Idle
    BY DEF Init
  <1>6. QED
    BY <1>2, <1>3, <1>4, <1>5, IdleSound DEF IInv

-----------------------------------------------------------------------------
\* What holds of a run goes on to hold while the tables are the same ones,
\* keep their rows, and get none that takes its number or its login.
LEMMA SoundStays ==
  ASSUME NEW r, Sound(r), era' = era, drawn.User \in Nat, drawn'.User \in Nat,
         drawn.User <= drawn'.User, r.number \in Nat,
         rows.User \subseteq rows'.User, rows.Warehouse \subseteq rows'.Warehouse,
         \A u \in rows'.User \ rows.User :
           Inserting(r) => u.id # r.number /\ (r.stage = "inserted" => u.login # r.login)
  PROVE  Sound(r)'
  <1>1. \A id, asker : ComesFrom(id, asker) => ComesFrom(id, asker)'
    BY DEF ComesFrom, NamesItsAsker
  <1>2. Taken(r) => Taken(r)'
    BY DEF Taken
  <1>3. r.stage = "inserted" => ~Taken(r)'
    BY DEF Sound, Inserting, Taken
  <1>4. r.kind \in DOMAIN TableOf => rows[TableOf[r.kind]] \subseteq rows'[TableOf[r.kind]]
    BY Tables
  <1>5. QED
    BY <1>1, <1>2, <1>3, <1>4 DEF Sound, Inserting, Row

\* One run goes on as r, and the tables stay as they are.
LEMMA Local ==
  ASSUME IInv, NEW t \in Tasks, NEW r \in Runs,
         task' = [task EXCEPT ![t] = r], UNCHANGED <<rows, drawn, now, era, promised>>,
         tokens' \subseteq [id : Nat, exp : Nat, asker : Askers],
         \A token \in tokens' : ComesFrom(token.id, token.asker),
         Sound(r),
         \A s \in Tasks \ {t} : Apart(task[s], r) /\ Apart(r, task[s])
  PROVE  IInv'
  <1> USE DEF IInv
  <1>1. TypeOK'
    BY DEF TypeOK
  <1>2. Numbers'
    BY DEF Numbers
  <1>3. \A id, asker : ComesFrom(id, asker) <=> ComesFrom(id, asker)'
    BY DEF ComesFrom, NamesItsAsker
  <1>4. Owners'
    BY <1>3 DEF Owners
  <1>5. task'[t] = r /\ \A s \in Tasks \ {t} : task'[s] = task[s]
    BY DEF TypeOK
  <1>6. ASSUME NEW s \in Tasks PROVE Sound(task[s])'
    <2>1. Sound(task'[s])
      BY <1>5
    <2>2. QED
      BY <2>1 DEF Sound, ComesFrom, NamesItsAsker, Taken, Row, Inserting
  <1>7. ASSUME NEW u \in Tasks, NEW s \in Tasks, u # s PROVE Apart(task[u], task[s])'
    <2>1. CASE u = t
      BY <1>5, <1>7, <2>1 DEF Apart, Inserting
    <2>2. CASE s = t
      BY <1>5, <1>7, <2>2 DEF Apart, Inserting
    <2>3. CASE u # t /\ s # t
      <3>1. Apart(task[u], task[s])
        BY <1>7
      <3>2. QED
        BY <1>5, <2>3, <3>1 DEF Apart, Inserting
    <2>4. QED
      BY <2>1, <2>2, <2>3
  <1>8. QED
    BY <1>1, <1>2, <1>4, <1>6, <1>7
\* Who inserts nothing is apart from everybody.
LEMMA NoInsert == \A r, s : ~Inserting(r) => Apart(r, s) /\ Apart(s, r)
  BY DEF Apart

\* An answer that agrees with what is known keeps the invariant.
LEMMA Answers ==
  ASSUME IInv, NEW t \in Tasks, NEW code \in Codes, NEW fault \in BOOLEAN,
         Answer(t, code, fault), UNCHANGED <<rows, drawn, now, era, promised>>,
         tokens' \subseteq [id : Nat, exp : Nat, asker : Askers],
         \A token \in tokens' : ComesFrom(token.id, token.asker),
         code = "SUCCESS" => task[t].kind = "authorization",
         code = "VIOLATION" => Taken(task[t]) \/ task[t].asker.era # era,
         code \in {"UNAUTHORIZED", "NOT_FOUND"} /\ ~fault =>
           \A u \in task[t].known :
             /\ task[t].kind = "authorization" =>
                  <<u.login, u.secret>> # <<task[t].login, task[t].secret>>
             /\ task[t].kind = "get_current_user" => u.id # task[t].by
  PROVE  IInv'
  <1> DEFINE a == task[t]
             r == [a EXCEPT !.stage = "answered", !.answer = code, !.fault = fault]
  <1>1. a \in Runs /\ Sound(a)
    BY DEF IInv, TypeOK
  <1>2. r \in Runs /\ task' = [task EXCEPT ![t] = r]
    BY <1>1 DEF Answer, Runs
  <1>3. /\ r.stage = "answered" /\ r.answer = code /\ r.fault = fault
        /\ r.kind = a.kind /\ r.login = a.login /\ r.secret = a.secret /\ r.by = a.by
        /\ r.asker = a.asker /\ r.found = a.found /\ r.known = a.known
    BY <1>1 DEF Runs
  <1> HIDE DEF r, a
  <1>4. Taken(a) => Taken(r)
    BY <1>3 DEF Taken
  <1>5. /\ code = "SUCCESS" => a.kind = "authorization"
        /\ code = "VIOLATION" => Taken(r) \/ a.asker.era # era
    BY <1>4 DEF a
  <1>6. code \in {"UNAUTHORIZED", "NOT_FOUND"} /\ ~fault =>
          \A u \in a.known :
            /\ a.kind = "authorization" => <<u.login, u.secret>> # <<a.login, a.secret>>
            /\ a.kind = "get_current_user" => u.id # a.by
    BY DEF a
  <1>7. Sound(r)
    BY <1>1, <1>3, <1>5, <1>6, Tables DEF Sound, Inserting
  <1>8. ~Inserting(r)
    BY <1>3 DEF Inserting
  <1>9. QED
    BY <1>2, <1>7, <1>8, NoInsert, Local

-----------------------------------------------------------------------------
\* A run begins for somebody who holds a token, or asks for one.
LEMMA StartIInv ==
  ASSUME IInv, NEW t \in Tasks, NEW kind \in Kinds \ {"idle"}, NEW login \in Texts, NEW secret \in Texts,
         NEW id \in Nat \cup {Null}, NEW asker \in Askers \cup {Null},
         kind # "authorization" => ComesFrom(id, asker),
         Start(t, kind, login, secret, id, asker)
  PROVE  IInv'
  <1> DEFINE known == IF kind \in DOMAIN TableOf THEN {} ELSE promised
             r == [Idle EXCEPT !.kind = kind, !.login = login, !.secret = secret, !.by = id,
                               !.asker = asker, !.known = known]
  <1>1. known \subseteq rows.User /\ known \subseteq Rows
    BY DEF IInv, Numbers, TypeOK
  <1>2. task' = [task EXCEPT ![t] = r] /\ UNCHANGED <<rows, drawn, now, tokens, era, promised>>
    BY DEF Start
  <1> HIDE DEF known
  <1>3. r \in Runs
    BY <1>1, IdleTyped DEF Runs
  <1>4. /\ r.kind = kind /\ r.stage = "begun" /\ r.answer = "none" /\ r.by = id /\ r.asker = asker
        /\ r.known = known
    BY DEF Idle
  <1> HIDE DEF r
  <1>5. Sound(r)
    BY <1>1, <1>4 DEF Sound, Inserting, Kinds
  <1>6. ~Inserting(r)
    BY <1>4 DEF Inserting
  <1>7. /\ tokens' \subseteq [id : Nat, exp : Nat, asker : Askers]
        /\ \A token \in tokens' : ComesFrom(token.id, token.asker)
    BY <1>2 DEF IInv, TypeOK, Owners
  <1>8. QED
    BY <1>2, <1>3, <1>5, <1>6, <1>7, NoInsert, Local

LEMMA RequestIInv ==
  ASSUME IInv, NEW t \in Tasks,
         RequestToken(t) \/ \E token \in tokens : RequestTask(t, token)
  PROVE  IInv'
  <1>1. \A c \in Credentials : c.login \in Texts /\ c.secret \in Texts
    BY DEF Texts
  <1>2. Null \in Texts
    BY DEF Texts
  <1>3. CASE RequestToken(t)
    <2>1. PICK c \in Credentials : Start(t, "authorization", c.login, c.secret, Null, Null)
      BY <1>3 DEF RequestToken
    <2>2. QED
      BY <1>1, <2>1, StartIInv DEF Kinds
  <1>4. ASSUME NEW token \in tokens, RequestTask(t, token) PROVE IInv'
    <2>1. ComesFrom(token.id, token.asker)
      BY DEF IInv, Owners
    <2>2. token.id \in Nat /\ token.asker \in Askers
      BY <2>1 DEF ComesFrom
    <2>3. ASSUME NEW c \in Credentials,
                 Start(t, "create_user", c.login, c.secret, token.id, token.asker)
          PROVE  IInv'
      BY <1>1, <2>1, <2>2, <2>3, StartIInv DEF Kinds
    <2>4. ASSUME NEW kind \in {"create_warehouse", "get_current_user"},
                 Start(t, kind, Null, Null, token.id, token.asker)
          PROVE  IInv'
      BY <1>2, <2>1, <2>2, <2>4, StartIInv DEF Kinds
    <2>5. QED
      BY <1>4, <2>3, <2>4 DEF RequestTask
  <1>5. QED
    BY <1>3, <1>4

\* A token names the user that was found by the credentials.
LEMMA GenerateTokenIInv ==
  ASSUME IInv, NEW t \in Tasks, GenerateToken(t) PROVE IInv'
  <1> USE DEF IInv
  <1>1. /\ task[t].kind = "authorization" /\ task[t] \in Runs /\ Sound(task[t])
        /\ UNCHANGED <<rows, drawn, now, era, promised>>
    BY DEF GenerateToken, Begun, TypeOK
  <1>2. CASE UNCHANGED tokens /\ \E fault \in BOOLEAN :
               Answer(t, "UNAUTHORIZED", fault) /\ (~fault => Matching(task[t]) = {})
    <2>1. PICK fault \in BOOLEAN :
            Answer(t, "UNAUTHORIZED", fault) /\ (~fault => Matching(task[t]) = {})
      BY <1>2
    <2>2. ~fault => \A u \in task[t].known : <<u.login, u.secret>> # <<task[t].login, task[t].secret>>
      BY <1>1, <2>1 DEF Sound, Matching
    <2>3. /\ tokens' \subseteq [id : Nat, exp : Nat, asker : Askers]
          /\ \A token \in tokens' : ComesFrom(token.id, token.asker)
      BY <1>2 DEF TypeOK, Owners
    <2>4. QED
      BY <1>1, <2>1, <2>2, <2>3, Answers DEF Codes
  <1>3. ASSUME NEW u \in Matching(task[t]),
               tokens' = tokens \cup {[id |-> u.id, exp |-> now + Lifetime,
                                       asker |-> [login |-> task[t].login, era |-> era]]},
               Answer(t, "SUCCESS", FALSE)
        PROVE  IInv'
    <2> DEFINE asker == [login |-> task[t].login, era |-> era]
               new == [id |-> u.id, exp |-> now + Lifetime, asker |-> asker]
    <2>1. /\ u \in rows.User /\ u.login = task[t].login /\ u.id \in Nat
          /\ task[t].login \in Texts /\ now \in Nat /\ era \in Nat /\ Lifetime \in Nat
      BY <1>1 DEF TypeOK, Rows, Runs, Matching
    <2>2. asker \in Askers /\ asker.era = era /\ asker.login = task[t].login
      BY <2>1 DEF Askers
    <2> HIDE DEF asker
    <2>3. ComesFrom(u.id, asker)
      BY <2>1, <2>2 DEF ComesFrom, NamesItsAsker
    <2>4. new \in [id : Nat, exp : Nat, asker : Askers] /\ ComesFrom(new.id, new.asker)
      BY <2>1, <2>2, <2>3
    <2>5. tokens' = tokens \cup {new}
      BY <1>3 DEF asker
    <2>6. /\ tokens' \subseteq [id : Nat, exp : Nat, asker : Askers]
          /\ \A token \in tokens' : ComesFrom(token.id, token.asker)
      BY <2>4, <2>5 DEF TypeOK, Owners
    <2>7. QED
      BY <1>1, <1>3, <2>6, Answers DEF Codes
  <1>4. QED
    BY <1>2, <1>3 DEF GenerateToken
\* The tokens stay as they are.
LEMMA SameTokens ==
  ASSUME IInv, UNCHANGED tokens
  PROVE  /\ tokens' \subseteq [id : Nat, exp : Nat, asker : Askers]
         /\ \A token \in tokens' : ComesFrom(token.id, token.asker)
  BY DEF IInv, TypeOK, Owners

\* Who looks himself up finds the user that his token names.
LEMMA GetUserInfoIInv ==
  ASSUME IInv, NEW t \in Tasks, GetUserInfo(t) PROVE IInv'
  <1> USE DEF IInv
  <1> DEFINE a == task[t]
             users == {u \in rows.User : u.id = a.by}
  <1>1. /\ a.kind = "get_current_user" /\ a \in Runs /\ Sound(a)
        /\ UNCHANGED <<rows, drawn, now, tokens, era, promised>>
    BY DEF GetUserInfo, Begun, TypeOK
  <1>2. ComesFrom(a.by, a.asker) /\ a.known \subseteq rows.User
    BY <1>1 DEF Sound
  <1>3. CASE users = {} /\ Answer(t, "NOT_FOUND", FALSE)
    <2>1. \A u \in a.known : u.id # a.by
      BY <1>2, <1>3
    <2>2. QED
      BY <1>1, <1>3, <2>1, SameTokens, Answers DEF Codes
  <1>4. ASSUME NEW code \in {"NOT_FOUND", "ERROR"}, Answer(t, code, TRUE) PROVE IInv'
    BY <1>1, <1>4, SameTokens, Answers DEF Codes
  <1>5. ASSUME NEW u \in users,
               task' = [task EXCEPT ![t] =
                          [@ EXCEPT !.stage = "answered", !.answer = "SUCCESS", !.found = u]]
        PROVE  IInv'
    <2> DEFINE r == [a EXCEPT !.stage = "answered", !.answer = "SUCCESS", !.found = u]
    <2>1. u \in rows.User /\ u \in Rows /\ u.id = a.by
      BY DEF TypeOK
    <2>2. r \in Runs /\ task' = [task EXCEPT ![t] = r]
      BY <1>1, <1>5, <2>1 DEF Runs, Codes
    <2>3. /\ r.kind = a.kind /\ r.stage = "answered" /\ r.answer = "SUCCESS" /\ r.found = u
          /\ r.by = a.by /\ r.asker = a.asker /\ r.known = a.known
      BY <1>1 DEF Runs
    <2> HIDE DEF r, a
    <2>4. a.asker.era = era => u.login = a.asker.login
      BY <1>2, <2>1 DEF ComesFrom, NamesItsAsker, Numbers
    <2>5. Sound(r)
      BY <1>1, <1>2, <2>3, <2>4, Tables DEF Sound, Inserting
    <2>6. ~Inserting(r)
      BY <2>3 DEF Inserting
    <2>7. QED
      BY <1>1, <2>2, <2>5, <2>6, SameTokens, NoInsert, Local
  <1>6. QED
    BY <1>3, <1>4, <1>5 DEF GetUserInfo

LEMMA IncompleteIInv ==
  ASSUME IInv, NEW t \in Tasks, Incomplete(t) PROVE IInv'
  BY SameTokens, Answers DEF Incomplete, Codes

LEMMA FinishIInv ==
  ASSUME IInv, NEW t \in Tasks, Finish(t) PROVE IInv'
  <1>1. UNCHANGED <<rows, drawn, now, tokens, era, promised>> /\ task' = [task EXCEPT ![t] = Idle]
    BY DEF Finish
  <1>2. QED
    BY <1>1, IdleTyped, IdleSound, SameTokens, Local

\* The insert waits for its turn and meets the keys.
LEMMA InsertIInv ==
  ASSUME IInv, NEW t \in Tasks, Insert(t) PROVE IInv'
  <1> USE DEF IInv
  <1> DEFINE a == task[t]
  <1>1. /\ a.kind \in {"create_user", "create_warehouse"} /\ a.stage = "drawn" /\ ~Waits(t)
        /\ a \in Runs /\ Sound(a) /\ UNCHANGED <<rows, drawn, now, tokens, era, promised>>
    BY Tables DEF Insert, Creating, TypeOK
  <1>2. CASE Taken(a) \/ Orphan(a)
    <2>1. Answer(t, "VIOLATION", FALSE)
      BY <1>2 DEF Insert
    <2>2. ComesFrom(a.by, a.asker)
      BY <1>1 DEF Sound
    <2>3. Orphan(a) => a.asker.era # era
      BY <2>2 DEF Orphan, ComesFrom, NamesItsAsker
    <2>4. QED
      BY <1>1, <1>2, <2>1, <2>3, SameTokens, Answers DEF Codes
  <1>3. CASE ~(Taken(a) \/ Orphan(a))
    <2> DEFINE r == [a EXCEPT !.stage = "inserted"]
    <2>1. task' = [task EXCEPT ![t] = r]
      BY <1>3 DEF Insert
    <2>2. r \in Runs
      BY <1>1 DEF Runs
    <2>3. /\ r.kind = a.kind /\ r.stage = "inserted" /\ r.answer = a.answer /\ r.fault = a.fault
          /\ r.number = a.number /\ r.login = a.login /\ r.secret = a.secret /\ r.by = a.by
          /\ r.asker = a.asker /\ r.known = a.known /\ r.found = a.found
      BY <1>1 DEF Runs
    <2> HIDE DEF r, a
    <2>4. ~Taken(r) /\ (Taken(a) <=> Taken(r)) /\ Row(a) = Row(r)
      BY <1>3, <2>3 DEF Taken, Row
    <2>5. Inserting(r) <=> Inserting(a)
      BY <1>1, <2>3 DEF Inserting
    <2>6. Sound(r)
      BY <1>1, <2>3, <2>4, <2>5 DEF Sound
    <2>7. ASSUME NEW s \in Tasks \ {t} PROVE Apart(task[s], r) /\ Apart(r, task[s])
      <3>1. Apart(task[s], a) /\ Apart(a, task[s])
        BY DEF a
      <3>2. r.kind = "create_user" =>
              ~(task[s].kind = "create_user" /\ task[s].stage = "inserted" /\ task[s].login = r.login)
        BY <1>1, <2>3 DEF Waits, a
      <3>3. QED
        BY <2>3, <2>5, <3>1, <3>2 DEF Apart, Inserting
    <2>8. QED
      BY <1>1, <2>1, <2>2, <2>6, <2>7, SameTokens, Local
  <1>4. QED
    BY <1>2, <1>3
-----------------------------------------------------------------------------
\* One run goes on as r while the tables or their sequences grow.
LEMMA Onward ==
  ASSUME IInv, NEW t \in Tasks, NEW r \in Runs,
         task' = [task EXCEPT ![t] = r], UNCHANGED <<now, tokens, era>>,
         rows' \in [User : SUBSET Rows, Warehouse : SUBSET Rows],
         drawn' \in [User : Nat, Warehouse : Nat], drawn.User <= drawn'.User,
         rows.User \subseteq rows'.User, rows.Warehouse \subseteq rows'.Warehouse,
         \A row \in (rows'.User \cup rows'.Warehouse) \ (rows.User \cup rows.Warehouse) :
           ComesFrom(row.by, row.asker),
         promised' \subseteq Rows, Numbers',
         \A u \in rows'.User \ rows.User, s \in Tasks \ {t} :
           Inserting(task[s]) =>
             u.id # task[s].number /\ (task[s].stage = "inserted" => u.login # task[s].login),
         Sound(r)',
         \A s \in Tasks \ {t} : Apart(task[s], r) /\ Apart(r, task[s])
  PROVE  IInv'
  <1> USE DEF IInv
  <1>1. TypeOK'
    BY DEF TypeOK
  <1>2. \A id, asker : ComesFrom(id, asker) => ComesFrom(id, asker)'
    BY DEF ComesFrom, NamesItsAsker
  <1>3. Owners'
    BY <1>2 DEF Owners
  <1>4. task'[t] = r /\ \A s \in Tasks \ {t} : task'[s] = task[s]
    BY DEF TypeOK
  <1>5. ASSUME NEW s \in Tasks PROVE Sound(task[s])'
    <2>1. CASE s = t
      BY <1>4, <2>1 DEF Sound, ComesFrom, NamesItsAsker, Taken, Row, Inserting
    <2>2. CASE s # t
      <3>1. PICK x : x = task[s]
        OBVIOUS
      <3>2. Sound(x) /\ x.number \in Nat
        BY <3>1 DEF TypeOK, Runs
      <3>3. \A u \in rows'.User \ rows.User :
              Inserting(x) => u.id # x.number /\ (x.stage = "inserted" => u.login # x.login)
        BY <2>2, <3>1
      <3>4. drawn.User \in Nat /\ drawn'.User \in Nat
        BY DEF TypeOK
      <3>5. Sound(x)'
        BY <3>2, <3>3, <3>4, SoundStays
      <3>6. task'[s] = x
        BY <1>4, <2>2, <3>1
      <3>7. QED
        BY <3>5, <3>6 DEF Sound, ComesFrom, NamesItsAsker, Taken, Row, Inserting
    <2>3. QED
      BY <2>1, <2>2
  <1>6. ASSUME NEW u \in Tasks, NEW s \in Tasks, u # s PROVE Apart(task[u], task[s])'
    <2>1. CASE u = t
      BY <1>4, <1>6, <2>1 DEF Apart, Inserting
    <2>2. CASE s = t
      BY <1>4, <1>6, <2>2 DEF Apart, Inserting
    <2>3. CASE u # t /\ s # t
      <3>1. Apart(task[u], task[s])
        BY <1>6
      <3>2. QED
        BY <1>4, <2>3, <3>1 DEF Apart, Inserting
    <2>4. QED
      BY <2>1, <2>2, <2>3
  <1>7. QED
    BY <1>1, <1>3, <1>5, <1>6

\* The number that is drawn is higher than any that is used.
LEMMA DrawIInv ==
  ASSUME IInv, NEW t \in Tasks, Draw(t) PROVE IInv'
  <1> USE DEF IInv
  <1>1. PICK a : a = task[t]
    OBVIOUS
  <1>2. PICK table : table = TableOf[a.kind]
    OBVIOUS
  <1>3. PICK r : r = [a EXCEPT !.stage = "drawn", !.number = drawn[table] + 1]
    OBVIOUS
  <1>4. /\ a.kind \in {"create_user", "create_warehouse"} /\ a.stage = "begun"
        /\ drawn' = [drawn EXCEPT ![table] = @ + 1] /\ task' = [task EXCEPT ![t] = r]
        /\ a \in Runs /\ Sound(a) /\ UNCHANGED <<rows, now, tokens, era, promised>>
    BY <1>1, <1>2, <1>3, Tables DEF Draw, Creating, TypeOK
  <1>5. /\ drawn \in [User : Nat, Warehouse : Nat]
        /\ a.kind = "create_user" => table = "User"
        /\ a.kind = "create_warehouse" => table = "Warehouse"
    BY <1>2, Tables DEF TypeOK
  <1>6. /\ drawn' \in [User : Nat, Warehouse : Nat] /\ drawn.User <= drawn'.User
        /\ drawn[table] \in Nat /\ (a.kind = "create_user" => drawn'.User = drawn.User + 1)
    BY <1>4, <1>5
  <1>7. /\ r \in Runs /\ r.kind = a.kind /\ r.stage = "drawn" /\ r.number = drawn[table] + 1
        /\ r.login = a.login /\ r.secret = a.secret /\ r.by = a.by /\ r.asker = a.asker
        /\ r.answer = a.answer /\ r.fault = a.fault /\ r.known = a.known /\ r.found = a.found
    <2>1. drawn[table] + 1 \in Nat
      BY <1>6
    <2>2. r \in Runs
      BY <1>3, <1>4, <2>1 DEF Runs
    <2>3. QED
      BY <1>3, <1>4, <2>2 DEF Runs
  <1>8. Numbers'
    <2>1. \A u \in rows.User : u.id \in Nat
      BY DEF TypeOK, Rows
    <2>2. QED
      BY <1>4, <1>5, <1>6, <2>1 DEF Numbers
  <1>9. \A u \in rows.User : u.id \in Nat /\ u.id <= drawn.User
    BY DEF TypeOK, Rows, Numbers
  <1>10. a.kind = "create_user" => r.number = drawn.User + 1
    BY <1>5, <1>7
  <1>11. Sound(r)'
    <2>1. Inserting(r) => r.number <= drawn'.User /\ \A u \in rows.User : u.id # r.number
      BY <1>5, <1>6, <1>7, <1>9, <1>10 DEF Inserting
    <2>2. r.answer = "none"
      BY <1>4, <1>7 DEF Sound
    <2>3. ComesFrom(r.by, r.asker)'
      BY <1>4, <1>7 DEF Sound, ComesFrom, NamesItsAsker
    <2>4. r.known \subseteq rows.User
      BY <1>4, <1>7 DEF Sound
    <2>5. Inserting(r)' <=> Inserting(r)
      BY DEF Inserting
    <2>6. QED
      BY <1>4, <1>7, <2>1, <2>2, <2>3, <2>4, <2>5 DEF Sound
  <1>12. \A s \in Tasks \ {t} : Apart(task[s], r) /\ Apart(r, task[s])
    <2>1. \A s \in Tasks : Inserting(task[s]) => task[s].number \in Nat /\ task[s].number <= drawn.User
      BY DEF Sound, TypeOK, Runs
    <2>2. QED
      BY <1>5, <1>7, <1>10, <2>1 DEF Apart, Inserting
  <1>13. QED
    BY <1>4, <1>6, <1>7, <1>8, <1>11, <1>12, Onward DEF TypeOK
\* A commit adds the row of the run, whose number and login nobody has.
LEMMA CommitIInv ==
  ASSUME IInv, NEW t \in Tasks, Commit(t) PROVE IInv'
  <1> USE DEF IInv
  <1>1. PICK a : a = task[t]
    OBVIOUS
  <1>2. PICK table : table = TableOf[a.kind]
    OBVIOUS
  <1>3. PICK code \in {"SUCCESS", "ERROR"}, fault \in BOOLEAN :
          Commits(t) /\ Over(t, code, fault)
    BY DEF Commit
  <1>4. PICK r : r = [a EXCEPT !.stage = "answered", !.answer = code, !.fault = fault]
    OBVIOUS
  <1>5. /\ a.kind \in {"create_user", "create_warehouse"} /\ a.stage = "inserted"
        /\ a \in Runs /\ Sound(a) /\ UNCHANGED <<drawn, now, tokens, era>>
    BY <1>1, Tables DEF Commit, Creating, TypeOK
  <1>6. /\ rows' = [rows EXCEPT ![table] = @ \cup {Row(a)}]
        /\ task' = [task EXCEPT ![t] = r]
        /\ promised' = IF code = "SUCCESS" /\ a.kind = "create_user" THEN promised \cup {Row(a)}
                                                                     ELSE promised
    BY <1>1, <1>2, <1>3, <1>4 DEF Commits, Over, Answer
  <1>7. /\ r \in Runs /\ r.kind = a.kind /\ r.stage = "answered" /\ r.answer = code
        /\ r.login = a.login /\ r.by = a.by /\ r.asker = a.asker /\ r.known = a.known
    BY <1>4, <1>5 DEF Runs, Codes
  <1>8. Row(r) = Row(a)
    BY <1>4, <1>5 DEF Row, Runs
  <1>9. PICK new : new = Row(a)
    OBVIOUS
  <1>10. /\ new \in Rows /\ new.id = a.number /\ new.login = a.login
         /\ new.by = a.by /\ new.asker = a.asker
    BY <1>5, <1>9 DEF Row, Rows, Runs
  <1>11. /\ rows \in [User : SUBSET Rows, Warehouse : SUBSET Rows]
         /\ a.kind = "create_user" => table = "User"
         /\ a.kind = "create_warehouse" => table = "Warehouse"
    BY <1>2, Tables DEF TypeOK
  <1>12. /\ rows' \in [User : SUBSET Rows, Warehouse : SUBSET Rows]
         /\ new \in rows'[table] /\ rows.User \subseteq rows'.User
         /\ rows.Warehouse \subseteq rows'.Warehouse
         /\ rows'.User \subseteq rows.User \cup (IF a.kind = "create_user" THEN {new} ELSE {})
         /\ rows'.Warehouse \subseteq rows.Warehouse \cup {new}
    BY <1>5, <1>6, <1>9, <1>10, <1>11
  <1>13. a.kind = "create_user" =>
           /\ new.id <= drawn.User
           /\ \A u \in rows.User : u.id # new.id /\ u.login # new.login
    BY <1>5, <1>10 DEF Sound, Inserting, Taken
  <1>14. promised' \subseteq Rows /\ promised' \subseteq rows'.User
    BY <1>6, <1>9, <1>10, <1>11, <1>12 DEF TypeOK, Numbers
  <1>15. Numbers'
    BY <1>5, <1>12, <1>13, <1>14 DEF Numbers
  <1>16. ComesFrom(a.by, a.asker) /\ a.known \subseteq rows.User
    BY <1>5 DEF Sound
  <1>17. \A row \in (rows'.User \cup rows'.Warehouse) \ (rows.User \cup rows.Warehouse) :
           ComesFrom(row.by, row.asker)
    BY <1>10, <1>12, <1>16
  <1>18. \A u \in rows'.User \ rows.User, s \in Tasks \ {t} :
           Inserting(task[s]) =>
             u.id # task[s].number /\ (task[s].stage = "inserted" => u.login # task[s].login)
    <2> SUFFICES ASSUME NEW u \in rows'.User \ rows.User, NEW s \in Tasks \ {t}, Inserting(task[s])
                 PROVE  u.id # task[s].number
                        /\ (task[s].stage = "inserted" => u.login # task[s].login)
      OBVIOUS
    <2>1. u = new /\ a.kind = "create_user"
      BY <1>12
    <2>2. Apart(a, task[s]) /\ Inserting(a)
      BY <1>1, <1>5, <2>1 DEF Inserting
    <2>3. QED
      BY <1>5, <1>10, <2>1, <2>2 DEF Apart
  <1>19. Sound(r)'
    <2>1. ComesFrom(r.by, r.asker)'
      BY <1>5, <1>7, <1>12, <1>16 DEF ComesFrom, NamesItsAsker
    <2>2. ~Inserting(r) /\ (Inserting(r)' <=> Inserting(r))
      BY <1>7 DEF Inserting
    <2>3. r.known \subseteq rows'.User
      BY <1>7, <1>12, <1>16
    <2>4. Row(r) \in rows'[TableOf[r.kind]]
      BY <1>2, <1>7, <1>8, <1>9, <1>12
    <2>5. Row(r)' = Row(r)
      BY DEF Row
    <2>6. QED
      BY <1>5, <1>7, <2>1, <2>2, <2>3, <2>4, <2>5 DEF Sound
  <1>20. ~Inserting(r)
    BY <1>7 DEF Inserting
  <1>21. /\ drawn' \in [User : Nat, Warehouse : Nat] /\ drawn.User <= drawn'.User
         /\ \A s \in Tasks \ {t} : Apart(task[s], r) /\ Apart(r, task[s])
    BY <1>5, <1>20, NoInsert DEF TypeOK
  <1>22. QED
    BY <1>5, <1>6, <1>7, <1>12, <1>14, <1>15, <1>17, <1>18, <1>19, <1>21, Onward

LEMMA FailIInv ==
  ASSUME IInv, NEW t \in Tasks, Fail(t) PROVE IInv'
  <1>1. Answer(t, "ERROR", TRUE) /\ UNCHANGED <<rows, drawn, now, tokens, era, promised>>
    BY DEF Fail, Over
  <1>2. QED
    BY <1>1, SameTokens, Answers DEF Codes

\* A restart leaves no runs, and new tables make all tokens strange ones.
LEMMA RestartIInv == ASSUME IInv, Restart PROVE IInv'
  <1> USE DEF IInv
  <1>1. task' = [t \in Tasks |-> Idle] /\ UNCHANGED <<now, tokens>>
    BY DEF Restart
  <1>2. \A t \in Tasks : Sound(task[t])'
    BY <1>1, IdleSound, Tables DEF Sound, Inserting, Idle
  <1>3. \A s, t \in Tasks : s # t => Apart(task[s], task[t])'
    BY <1>1 DEF Apart, Inserting, Idle
  <1>4. CASE UNCHANGED <<rows, drawn, era, promised>>
    <2>1. TypeOK'
      BY <1>1, <1>4, IdleTyped DEF TypeOK
    <2>2. Numbers' /\ Owners'
      BY <1>1, <1>4 DEF Numbers, Owners, ComesFrom, NamesItsAsker
    <2>3. QED
      BY <1>2, <1>3, <2>1, <2>2
  <1>5. CASE era' = era + 1 /\ Fresh
    <2>1. /\ rows'.User = {Superuser} /\ rows'.Warehouse = {} /\ drawn'.User = 1
          /\ promised' = {Superuser}
      BY <1>5 DEF Fresh
    <2>2. TypeOK'
      BY <1>1, <1>5, SuperuserTyped, IdleTyped DEF TypeOK, Fresh
    <2>3. Numbers'
      BY <2>1, SuperuserTyped DEF Numbers
    <2>4. \A token \in tokens' : ComesFrom(token.id, token.asker)'
      BY <1>1, <1>5 DEF Owners, ComesFrom, NamesItsAsker, TypeOK, Askers
    <2>5. Owners'
      BY <2>1, <2>4, SuperuserTyped DEF Owners
    <2>6. QED
      BY <1>2, <1>3, <2>2, <2>3, <2>5
  <1>6. QED
    BY <1>4, <1>5 DEF Restart

\* Time, and nothing at all, disturb nothing.
LEMMA StillIInv ==
  ASSUME IInv, now' \in Nat, UNCHANGED <<rows, drawn, tokens, task, era, promised>>
  PROVE  IInv'
  <1> USE DEF IInv
  <1>1. TypeOK' /\ Numbers' /\ Owners'
    BY DEF TypeOK, Numbers, Owners, ComesFrom, NamesItsAsker
  <1>2. \A t \in Tasks : Sound(task[t])'
    BY DEF Sound, ComesFrom, NamesItsAsker, Taken, Row, Inserting
  <1>3. \A s, t \in Tasks : s # t => Apart(task[s], task[t])'
    BY DEF Apart, Inserting
  <1>4. QED
    BY <1>1, <1>2, <1>3

-----------------------------------------------------------------------------
\* Every step keeps the invariant.
LEMMA NextIInv == IInv /\ [Next]_vars => IInv'
  <1> SUFFICES ASSUME IInv, [Next]_vars PROVE IInv'
    OBVIOUS
  <1>1. ASSUME NEW t \in Tasks,
               \/ RequestToken(t) \/ (\E token \in tokens : RequestTask(t, token))
               \/ GenerateToken(t) \/ GetUserInfo(t) \/ Incomplete(t)
               \/ Draw(t) \/ Insert(t) \/ Commit(t) \/ Fail(t) \/ Finish(t)
        PROVE  IInv'
    BY <1>1, RequestIInv, GenerateTokenIInv, GetUserInfoIInv, IncompleteIInv, DrawIInv,
       InsertIInv, CommitIInv, FailIInv, FinishIInv
  <1>2. CASE Tick
    BY <1>2, StillIInv DEF Tick, IInv, TypeOK
  <1>3. CASE UNCHANGED vars
    BY <1>3, StillIInv DEF vars, IInv, TypeOK
  <1>4. QED
    BY <1>1, <1>2, <1>3, RestartIInv DEF Next

\* The inductive invariant of users, tokens and runs holds in every state.
THEOREM Invariance == Spec => []IInv
  BY InitIInv, NextIInv, PTL DEF Spec

\* Creators, tokens and get_current_user name the person who gave the
\* credentials, as long as the tables are the same ones.
THEOREM NamesTheAsker == Spec => []CreatorIsWhoAsked
  <1>1. IInv => CreatorIsWhoAsked
    BY DEF IInv, Owners, ComesFrom, Sound, CreatorIsWhoAsked, Answered
  <1>2. QED
    BY <1>1, Invariance, PTL

\* What creations are answered is what the tables hold.
THEOREM AnswersAreTrue == Spec => []AnswersAgree
  <1>1. IInv => AnswersAgree
    BY DEF IInv, Numbers, Sound, AnswersAgree, Answered
  <1>2. QED
    BY <1>1, Invariance, PTL

\* Whose creation was answered SUCCESS can log in and finds himself.
THEOREM PromisesKept == Spec => []CreatedUsersCanLogIn
  <1>1. IInv => CreatedUsersCanLogIn
    BY DEF IInv, Sound, CreatedUsersCanLogIn, Answered
  <1>2. QED
    BY <1>1, Invariance, PTL
=============================================================================
