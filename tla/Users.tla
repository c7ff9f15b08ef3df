------------------------------- MODULE Users -------------------------------
(***************************************************************************)
(* Users, their tokens, and what they create: the authorizer service with  *)
(* the tasks authorization, create_user, get_current_user and              *)
(* create_warehouse, and the authentication of requests by the session.    *)
(*                                                                         *)
(* A token is kept by its owner and holds no more than an id and a time:   *)
(* it outlives the tasks, the program and, when a restart makes the tables *)
(* again (DbStartup), the users.  Tasks run concurrently, each with one    *)
(* transaction of one statement; the database may fail in any of them.     *)
(***************************************************************************)
EXTENDS Integers, FiniteSets

CONSTANTS Tasks,            \* places for tasks that run at a time
          Credentials,      \* that a request may give: [login, secret], where the
                            \* secret is the hashed password
          Empty,            \* a login that is an empty text
          Null,
          Super, SuperSecret,  \* the user that InitializeTables inserts
          Lifetime,            \* of a token, 30 hours
          MaxClock, MaxTokens, MaxRemakes,  \* bounds
          MaxDrawn             \* bound: the last number of each table

ASSUME UsersAssumption ==
  /\ [login |-> Super, secret |-> SuperSecret] \in Credentials /\ Empty # Super
  /\ {Lifetime, MaxClock, MaxTokens, MaxRemakes} \subseteq Nat
  /\ MaxDrawn \in [{"User", "Warehouse"} -> Nat]

VARIABLES rows,     \* the committed rows of User and Warehouse
          drawn,    \* the last number of each table's sequence
          now,
          tokens,   \* that people hold
          task,     \* what runs at each place
          era,      \* how often the tables have been made again (history)
          promised  \* the users whose creation has been answered SUCCESS (history)

vars == <<rows, drawn, now, tokens, task, era, promised>>

Idle ==
  [kind |-> "idle", stage |-> "begun", login |-> Null, secret |-> Null, by |-> Null, asker |-> Null,
   number |-> 0, found |-> Null, answer |-> "none", fault |-> FALSE, known |-> {}]
TableOf == [create_user |-> "User", create_warehouse |-> "Warehouse"]

\* A user knows of a row: its id, login, password and creator.  asker is the
\* person behind it (history): the login the token was given for, and its era.
Superuser == [id |-> 1, login |-> Super, secret |-> SuperSecret, by |-> Null, asker |-> Null]

Fresh == /\ rows' = [User |-> {Superuser}, Warehouse |-> {}]
         /\ drawn' = [User |-> 1, Warehouse |-> 0]
         /\ promised' = {Superuser}

Init ==
  /\ rows = [User |-> {Superuser}, Warehouse |-> {}]
  /\ drawn = [User |-> 1, Warehouse |-> 0]
  /\ now = 0 /\ tokens = {} /\ era = 0 /\ promised = {Superuser}
  /\ task = [t \in Tasks |-> Idle]

-----------------------------------------------------------------------------
\* ValidateToken: what is not expired is believed.  Other requests end here,
\* and leave no trace.
Valid(token) == now <= token.exp

Start(t, kind, login, secret, id, asker) ==
  /\ task[t] = Idle
  /\ task' = [task EXCEPT ![t] =
       [Idle EXCEPT !.kind = kind, !.login = login, !.secret = secret, !.by = id, !.asker = asker,
                    !.known = IF kind \in DOMAIN TableOf THEN {} ELSE promised]]
  /\ UNCHANGED <<rows, drawn, now, tokens, era, promised>>

\* The one request that needs no token.
RequestToken(t) ==
  \E c \in Credentials : Start(t, "authorization", c.login, c.secret, Null, Null)

\* Any other request is authenticated; its task gets the id of the token.
RequestTask(t, token) ==
  /\ Valid(token)
  /\ \/ \E c \in Credentials :
          Start(t, "create_user", c.login, c.secret, token.id, token.asker)
     \/ \E kind \in {"create_warehouse", "get_current_user"} :
          Start(t, kind, Null, Null, token.id, token.asker)

-----------------------------------------------------------------------------
Begun(t, kind) == task[t].kind = kind /\ task[t].stage = "begun"

Answer(t, code, fault) ==
  task' = [task EXCEPT ![t] = [@ EXCEPT !.stage = "answered", !.answer = code, !.fault = fault]]

\* Mistaken: the login is no condition of the query.
WrongMatching(r) == {u \in rows.User : u.secret = r.secret}

\* ValidateCredentials.
Matching(r) == {u \in rows.User : u.login = r.login /\ u.secret = r.secret}

\* GenerateToken: the result of the transaction is not looked at, only its
\* rows.  A commit that fails after the select is no failure.
GenerateToken(t) ==
  /\ Begun(t, "authorization")
  /\ \/ /\ \/ Matching(task[t]) = {} /\ Answer(t, "UNAUTHORIZED", FALSE)
           \/ Answer(t, "UNAUTHORIZED", TRUE)
        /\ UNCHANGED tokens
     \/ \E u \in Matching(task[t]) :
          /\ Cardinality(tokens) < MaxTokens
          /\ tokens' = tokens \cup {[id |-> u.id, exp |-> now + Lifetime,
                                     asker |-> [login |-> task[t].login, era |-> era]]}
          /\ Answer(t, "SUCCESS", FALSE)
  /\ UNCHANGED <<rows, drawn, now, era, promised>>

\* GetUserInfo: without rows the user is not found, also when the select has
\* failed; without a transaction it is an error.
GetUserInfo(t) ==
  LET users == {u \in rows.User : u.id = task[t].by}
  IN  /\ Begun(t, "get_current_user")
      /\ \/ users = {} /\ Answer(t, "NOT_FOUND", FALSE)
         \/ \E code \in {"NOT_FOUND", "ERROR"} : Answer(t, code, TRUE)
         \/ \E u \in users :
              task' = [task EXCEPT ![t] =
                         [@ EXCEPT !.stage = "answered", !.answer = "SUCCESS", !.found = u]]
      /\ UNCHANGED <<rows, drawn, now, tokens, era, promised>>

-----------------------------------------------------------------------------
Creating(t) == task[t].kind \in DOMAIN TableOf /\ task[t].stage # "answered"

\* CreateUser wants a login and a name.
Incomplete(t) ==
  /\ Begun(t, "create_user") /\ task[t].login = Empty
  /\ Answer(t, "WRONG_FORMAT", FALSE)
  /\ UNCHANGED <<rows, drawn, now, tokens, era, promised>>

\* The insert draws its number, whatever becomes of it ...
Draw(t) ==
  LET table == TableOf[task[t].kind]
  IN  /\ Creating(t) /\ task[t].stage = "begun" /\ task[t].login # Empty
      /\ drawn[table] < MaxDrawn[table]
      /\ drawn' = [drawn EXCEPT ![table] = @ + 1]
      /\ task' = [task EXCEPT ![t] = [@ EXCEPT !.stage = "drawn", !.number = drawn[table] + 1]]
      /\ UNCHANGED <<rows, now, tokens, era, promised>>

Taken(r) == r.kind = "create_user" /\ \E u \in rows.User : u.login = r.login
Orphan(r) == \A u \in rows.User : u.id # r.by

\* Mistaken: the insert does not wait for another one of the same login.
WrongWaits(t) == FALSE

\* ... waits for an insert of the same login that is not committed ...
Waits(t) ==
  task[t].kind = "create_user" /\
    \E s \in Tasks \ {t} :
      task[s].kind = "create_user" /\ task[s].stage = "inserted" /\ task[s].login = task[t].login

\* ... and meets the unique key of the logins and the foreign key of the
\* creators.
Insert(t) ==
  /\ Creating(t) /\ task[t].stage = "drawn" /\ ~Waits(t)
  /\ IF Taken(task[t]) \/ Orphan(task[t]) THEN Answer(t, "VIOLATION", FALSE)
     ELSE task' = [task EXCEPT ![t] = [@ EXCEPT !.stage = "inserted"]]
  /\ UNCHANGED <<rows, drawn, now, tokens, era, promised>>

Row(r) == [id |-> r.number, login |-> r.login, secret |-> r.secret, by |-> r.by, asker |-> r.asker]

\* A creation is over, and a user who is told of success knows of the user.
Over(t, code, fault) ==
  /\ Answer(t, code, fault)
  /\ promised' = IF code = "SUCCESS" /\ task[t].kind = "create_user"
                 THEN promised \cup {Row(task[t])} ELSE promised

Commits(t) ==
  LET table == TableOf[task[t].kind]
  IN  rows' = [rows EXCEPT ![table] = @ \cup {Row(task[t])}]

\* Mistaken: a commit in doubt passes for a success.
WrongCommit(t) ==
  /\ Creating(t) /\ task[t].stage = "inserted"
  /\ \/ Commits(t) /\ Over(t, "SUCCESS", FALSE)
     \/ UNCHANGED rows /\ Over(t, "SUCCESS", TRUE)
  /\ UNCHANGED <<drawn, now, tokens, era>>

\* The commit, which may be done although the answer is ERROR.
Commit(t) ==
  /\ Creating(t) /\ task[t].stage = "inserted"
  /\ \/ Commits(t) /\ Over(t, "SUCCESS", FALSE)
     \/ Commits(t) /\ Over(t, "ERROR", TRUE)
  /\ UNCHANGED <<drawn, now, tokens, era>>

\* The database fails the transaction.
Fail(t) ==
  /\ Creating(t) /\ task[t].login # Empty
  /\ Over(t, "ERROR", TRUE)
  /\ UNCHANGED <<rows, drawn, now, tokens, era>>

\* The answer reaches whoever asked.
Finish(t) ==
  /\ task[t].answer # "none"
  /\ task' = [task EXCEPT ![t] = Idle]
  /\ UNCHANGED <<rows, drawn, now, tokens, era, promised>>

-----------------------------------------------------------------------------
Tick ==
  /\ now < MaxClock /\ now' = now + 1
  /\ UNCHANGED <<rows, drawn, tokens, task, era, promised>>

\* The program dies and starts again: the tasks are gone, and the tables too
\* if their check failed.
Restart ==
  /\ task' = [t \in Tasks |-> Idle]
  /\ UNCHANGED <<now, tokens>>
  /\ \/ UNCHANGED <<rows, drawn, era, promised>>
     \/ era < MaxRemakes /\ era' = era + 1 /\ Fresh

Next ==
  \/ \E t \in Tasks :
       \/ RequestToken(t) \/ (\E token \in tokens : RequestTask(t, token))
       \/ GenerateToken(t) \/ GetUserInfo(t) \/ Incomplete(t)
       \/ Draw(t) \/ Insert(t) \/ Commit(t) \/ Fail(t) \/ Finish(t)
  \/ Tick \/ Restart

Spec == Init /\ [][Next]_vars

-----------------------------------------------------------------------------
Answered(t, codes) == task[t].answer \in codes

NamesItsAsker(id, asker) ==
  asker.era = era => \E u \in rows.User : u.id = id /\ u.login = asker.login

\* What a user or a warehouse names as its creator, what a token names, and
\* whom get_current_user shows, is the person who gave the credentials, as
\* long as the tables have not been made again: ids are reused after that.
CreatorIsWhoAsked ==
  /\ \A row \in rows.User \cup rows.Warehouse : row.by # Null => NamesItsAsker(row.by, row.asker)
  /\ \A token \in tokens : NamesItsAsker(token.id, token.asker)
  /\ \A t \in Tasks :
       Answered(t, {"SUCCESS"}) /\ task[t].kind = "get_current_user" /\ task[t].asker.era = era
         => task[t].found.login = task[t].asker.login

\* The answers to concurrent creations tell what the tables hold: SUCCESS is
\* the row as requested, VIOLATION a login that is taken or a creator of tables
\* that have been made again, and a login has one user.
AnswersAgree ==
  /\ \A u, v \in rows.User : u.login = v.login => u = v
  /\ \A t \in Tasks :
       task[t].kind \in DOMAIN TableOf =>
         /\ Answered(t, {"SUCCESS"}) => Row(task[t]) \in rows[TableOf[task[t].kind]]
         /\ Answered(t, {"VIOLATION"}) => Taken(task[t]) \/ task[t].asker.era # era

\* Whose creation was answered SUCCESS before can log in, and whoever is known
\* by then finds himself, whatever runs and restarts meanwhile, unless the
\* database fails or the tables are made again.
CreatedUsersCanLogIn ==
  \A t \in Tasks :
    Answered(t, {"UNAUTHORIZED", "NOT_FOUND"}) /\ ~task[t].fault =>
      \A u \in task[t].known :
        /\ task[t].kind = "authorization" => <<u.login, u.secret>> # <<task[t].login, task[t].secret>>
        /\ task[t].kind = "get_current_user" => u.id # task[t].by
-----------------------------------------------------------------------------
Texts == {c.login : c \in Credentials} \cup {c.secret : c \in Credentials} \cup {Null}
Askers == [login : Texts, era : Nat]
Rows == [id : Nat, login : Texts, secret : Texts, by : Nat \cup {Null},
         asker : Askers \cup {Null}]
Kinds == {"idle", "authorization", "get_current_user", "create_user", "create_warehouse"}
Codes == {"none", "SUCCESS", "UNAUTHORIZED", "NOT_FOUND", "WRONG_FORMAT", "VIOLATION", "ERROR"}
Runs == [kind : Kinds, stage : {"begun", "drawn", "inserted", "answered"},
         login : Texts, secret : Texts, by : Nat \cup {Null}, asker : Askers \cup {Null},
         number : Nat, found : Rows \cup {Null}, answer : Codes, fault : BOOLEAN,
         known : SUBSET Rows]

\* Every variable has its type.
TypeOK ==
  /\ rows \in [User : SUBSET Rows, Warehouse : SUBSET Rows]
  /\ drawn \in [User : Nat, Warehouse : Nat]
  /\ now \in Nat /\ era \in Nat
  /\ tokens \subseteq [id : Nat, exp : Nat, asker : Askers]
  /\ task \in [Tasks -> Runs]
  /\ promised \subseteq Rows

\* What the proofs need besides.  Numbers and logins name one user each, and
\* whoever was promised a user has one ...
Numbers ==
  /\ \A u \in rows.User : u.id <= drawn.User
  /\ \A u, v \in rows.User : u.id = v.id \/ u.login = v.login => u = v
  /\ promised \subseteq rows.User

\* ... rows and tokens name the person that they come from ...
ComesFrom(id, asker) ==
  id \in Nat /\ asker \in Askers /\ asker.era <= era /\ NamesItsAsker(id, asker)
Owners ==
  /\ \A row \in rows.User \cup rows.Warehouse : row.by # Null => ComesFrom(row.by, row.asker)
  /\ \A token \in tokens : ComesFrom(token.id, token.asker)

\* ... as does what runs, whose number is not used and whose login is not
\* taken while it inserts, and which has answered by what it found ...
Inserting(r) == r.kind = "create_user" /\ r.stage \in {"drawn", "inserted"}
Sound(r) ==
  /\ r.kind \in {"create_user", "create_warehouse", "get_current_user"} => ComesFrom(r.by, r.asker)
  /\ Inserting(r) => r.number <= drawn.User /\ \A u \in rows.User : u.id # r.number
  /\ r.stage = "inserted" => ~Taken(r)
  /\ r.stage # "answered" => r.answer = "none"
  /\ r.known \subseteq rows.User
  /\ r.kind = "get_current_user" /\ r.answer = "SUCCESS" /\ r.asker.era = era =>
       r.found.login = r.asker.login
  /\ r.kind \in DOMAIN TableOf =>
       /\ r.answer = "SUCCESS" => Row(r) \in rows[TableOf[r.kind]]
       /\ r.answer = "VIOLATION" => Taken(r) \/ r.asker.era # era
  /\ r.answer \in {"UNAUTHORIZED", "NOT_FOUND"} /\ ~r.fault =>
       \A u \in r.known :
         /\ r.kind = "authorization" => <<u.login, u.secret>> # <<r.login, r.secret>>
         /\ r.kind = "get_current_user" => u.id # r.by

\* ... and no two inserts have one number or one login.
Apart(r, s) ==
  Inserting(r) /\ Inserting(s) =>
    r.number # s.number /\ (r.stage = "inserted" /\ s.stage = "inserted" => r.login # s.login)

IInv ==
  /\ TypeOK /\ Numbers /\ Owners
  /\ \A t \in Tasks : Sound(task[t])
  /\ \A s, t \in Tasks : s # t => Apart(task[s], task[t])
=============================================================================
