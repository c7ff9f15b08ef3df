----------------------------- MODULE DbStartup -----------------------------
(***************************************************************************)
(* How the program gets a database to serve from (accessor.cpp,            *)
(* db_manager.cpp, main.cpp): the pool is built and configured, the        *)
(* database of the settings is checked, and if need be its tables are      *)
(* made or the database is created over the connection to a master         *)
(* database; main serves if that worked and exits if not.                  *)
(*                                                                         *)
(* All of it runs on the main thread, Boot, the first client of the pool.  *)
(* The other clients ask for connections once main serves.  The database   *)
(* server may be away at any moment (ConnectFails, GiveUp), and a          *)
(* statement may fail.                                                     *)
(***************************************************************************)
EXTENDS ConnectionPool

CONSTANTS Boot,          \* the main thread
          Own, Master,   \* the database of the settings, and MasterDbname
          DefaultCount,  \* DEFAULT_CONNECTIONS_COUNT
          Counts,        \* what the settings may give as connectionCount
          NotGiven       \* a setting that the file leaves out

ASSUME StartupAssumption ==
  /\ Boot \in Clients
  /\ Databases = {Own, Master} /\ Own # Master
  /\ DefaultCount \in Nat /\ Counts \subseteq Nat /\ NotGiven \notin Nat

VARIABLES settings,  \* DBConnectorSettings
          stage,     \* what the main thread does next
          exists,    \* the databases of the server
          valid,     \* those of them that have all the tables
          remade,    \* those whose tables InitializeTables made again
          healthy    \* m_isDbHealty

own == <<settings, stage, exists, valid, remade, healthy>>

\* Given: some of the dbms* options are there.  Without them the options keep
\* their default, which is the master database.
Settings ==
  {s \in [given : BOOLEAN, db : Databases, count : Counts \cup {NotGiven},
          create : BOOLEAN, reinitialize : BOOLEAN] : ~s.given => s.db = Master}

Configured == settings.db
Wanted == IF settings.count = NotGiven THEN DefaultCount ELSE settings.count

\* Asking: the stage in which the main thread waits for the connection.
Asking == [check |-> "checking", create |-> "creating",
           fill |-> "filling", verify |-> "verifying"]

\* Releasing: the stage that follows when a connection in use is given back.
Releasing == [closing |-> "ready", created |-> "own", filled |-> "verify",
              verified |-> "ready", abandon |-> "recover"]

Stages == {"construct", "configure", "master", "own", "rebuild", "recover",
           "ready", "serving", "exited"}
          \cup DOMAIN Asking \cup {Asking[s] : s \in DOMAIN Asking}
          \cup DOMAIN Releasing

StartTypeOK ==
  /\ TypeOK
  /\ settings \in Settings
  /\ stage \in Stages
  /\ exists \subseteq Databases /\ valid \subseteq exists /\ remade \subseteq exists
  /\ healthy \in BOOLEAN

StartInit ==
  /\ settings \in Settings
  /\ Fresh(DefaultCount) /\ options = Master
  /\ stage = "construct"
  /\ exists \in {{Master}, Databases} /\ valid \in SUBSET exists
  /\ remade = {} /\ healthy = FALSE

-----------------------------------------------------------------------------
To(from, to) == stage = from /\ stage' = to

\* The pool's constructor and then the accessor's give the pool the settings;
\* DbManager prepares the database if the settings name one.
GiveSettings ==
  /\ \/ To("construct", "configure")
     \/ stage = "configure" /\ stage' = IF settings.given THEN "check" ELSE "ready"
  /\ SetSettings(settings.given, settings.db, settings.count # NotGiven, settings.count)
  /\ UNCHANGED <<settings, exists, valid, remade, healthy>>

\* The main thread asks the pool for a connection ...
Request ==
  /\ stage \in DOMAIN Asking /\ stage' = Asking[stage]
  /\ Ask(Boot)
  /\ UNCHANGED <<settings, exists, valid, remade, healthy>>

\* ... and the pool serves it; no connection opens to what does not exist.
Wait ==
  /\ \/ TakeFree(Boot) \/ BeginCreate(Boot) \/ ConnectFails(Boot) \/ GiveUp(Boot)
     \/ options \in exists /\ Connected(Boot)
  /\ UNCHANGED own

Connection == proxy[Boot]
Using(s) == stage = s /\ pc[Boot] = "using"
Refused(s) == stage = s /\ pc[Boot] = "refused"

\* IsDbValid: any failure of the query reads as not valid.
Validate ==
  /\ Using("checking")
  /\ \/ dbOf[Connection] \in valid /\ stage' = "closing" /\ healthy' = TRUE
     \/ stage' = "rebuild" /\ UNCHANGED healthy
  /\ UNCHANGED <<pool, settings, exists, valid, remade>>

\* InitializeTables drops the tables and makes them, in one go or not at all.
InitializeTables ==
  /\ valid' = valid \cup {dbOf[Connection]}
  /\ remade' = remade \cup {dbOf[Connection]}
  /\ UNCHANGED <<pool, settings, exists>>

TablesFail == UNCHANGED <<pool, settings, exists, valid, remade>>

\* Mistaken: the result of making the tables is not looked at.
WrongReinitialize ==
  /\ stage = "rebuild" /\ stage' = "closing"
  /\ InitializeTables \/ TablesFail
  /\ healthy' = TRUE

\* A reachable database that is not valid gets new tables.
Reinitialize ==
  /\ stage = "rebuild" /\ stage' = "closing"
  /\ \/ InitializeTables /\ healthy' = TRUE
     \/ TablesFail /\ healthy' = FALSE

\* A database that is not reachable is created, if the settings say so.
Unreachable ==
  /\ Refused("checking")
  /\ stage' = IF settings.create THEN "master" ELSE "ready"
  /\ healthy' = FALSE
  /\ UNCHANGED <<pool, settings, exists, valid, remade>>

\* CreateDb points the pool to the master database, and back again; when
\* anything fails, it only points it back.
PointTo(from, to, db) ==
  /\ To(from, to)
  /\ SetSettings(TRUE, db, FALSE, NotGiven)
  /\ UNCHANGED <<settings, exists, valid, remade, healthy>>

\* Mistaken: the pool still points to the master database when the new one
\* is filled.
WrongPointPool == \/ PointTo("master", "create", Master)
                  \/ PointTo("own", "fill", Master)
                  \/ PointTo("recover", "ready", settings.db)

PointPool == \/ PointTo("master", "create", Master)
             \/ PointTo("own", "fill", settings.db)
             \/ PointTo("recover", "ready", settings.db)

\* CREATE DATABASE fails when there is one of that name.
CreateDatabase ==
  /\ Using("creating")
  /\ \/ /\ settings.db \notin exists /\ exists' = exists \cup {settings.db}
        /\ stage' = "created"
     \/ stage' = "abandon" /\ UNCHANGED exists
  /\ UNCHANGED <<pool, settings, valid, remade, healthy>>

FillDatabase ==
  /\ Using("filling") /\ UNCHANGED healthy
  /\ \/ InitializeTables /\ stage' = "filled"
     \/ TablesFail /\ stage' = "abandon"

VerifyDatabase ==
  /\ Using("verifying")
  /\ \/ dbOf[Connection] \in valid /\ stage' = "verified" /\ healthy' = TRUE
     \/ stage' = "abandon" /\ UNCHANGED healthy
  /\ UNCHANGED <<pool, settings, exists, valid, remade>>

\* Mistaken: a failure in CreateDb is tried again.
WrongNoConnection ==
  /\ Refused("creating") \/ Refused("filling") \/ Refused("verifying")
  /\ stage' = "master"
  /\ UNCHANGED <<pool, settings, exists, valid, remade, healthy>>

\* GetConnection throws inside CreateDb: recover without a connection.
NoConnection ==
  /\ Refused("creating") \/ Refused("filling") \/ Refused("verifying")
  /\ stage' = "recover"
  /\ UNCHANGED <<pool, settings, exists, valid, remade, healthy>>

\* The proxy leaves its scope.
Release ==
  /\ stage \in DOMAIN Releasing /\ stage' = Releasing[stage]
  /\ Return(Boot)
  /\ UNCHANGED <<settings, exists, valid, remade, healthy>>

\* main asks IsDbValid.
Start ==
  /\ stage = "ready" /\ stage' = IF healthy THEN "serving" ELSE "exited"
  /\ UNCHANGED <<pool, settings, exists, valid, remade, healthy>>

Startup == \/ GiveSettings \/ Request \/ Wait \/ Validate \/ Reinitialize
           \/ Unreachable \/ PointPool \/ CreateDatabase \/ FillDatabase
           \/ VerifyDatabase \/ NoConnection \/ Release \/ Start

\* The program at work: the other clients use the pool.
Serve ==
  /\ stage = "serving" /\ UNCHANGED own
  /\ \E c \in Clients \ {Boot} : Ask(c) \/ Get(c) \/ Return(c)

StartNext == Startup \/ Serve

allvars == <<pool, own>>

\* The main thread goes on as long as it can.
StartSpec == StartInit /\ [][StartNext]_allvars
StartFairSpec == StartSpec /\ WF_allvars(Startup)

-----------------------------------------------------------------------------
\* While the program serves, every connection the pool keeps or has handed
\* out leads to the database of the settings: none is left over from the
\* detour by the master database.
NoStrayConnection ==
  stage = "serving" => /\ options = Configured
                       /\ \A k \in Open : dbOf[k] = Configured

\* Before a client can ask, and for as long as they do, the pool has the
\* number of connections the settings want: configuring it twice, changing
\* the options under it and failed attempts lose none and add none.
QuotaAsConfigured ==
  stage # "construct" => Balanced(Wanted)

\* What is served is a database with all its tables.
ServesValid == stage = "serving" => Configured \in valid

\* The master database never loses its tables unless it is the one to use.
OnlyConfiguredRemade == remade \subseteq {Configured}

\* Starting ends: the program serves or exits, whatever the server does.
StartupEnds == <>(stage \in {"serving", "exited"})

-----------------------------------------------------------------------------
\* What holds besides.  Until the program serves, only the main thread uses
\* the pool, ...
OnlyBoot ==
  stage # "serving" => \A c \in Clients \ {Boot} : pc[c] = "idle"

\* ... and it has no part in the pool but where it asks for a connection and
\* uses it.
BootInStep ==
  /\ pc[Boot] \in {"idle", "refused"}
       \/ stage \in {Asking[s] : s \in DOMAIN Asking} \cup {"rebuild"} \cup DOMAIN Releasing
  /\ stage \in {"rebuild"} \cup DOMAIN Releasing => pc[Boot] = "using"

\* Where the options point: to the database of the settings, except on the
\* detour by the master database.
AtMaster == {"construct", "create", "creating", "created", "own"}
Pointing ==
  /\ stage \in AtMaster => options = Master
  /\ stage \notin AtMaster \cup {"abandon", "recover"} => options = Configured

\* Connections lead where the options point, to a database that exists.
Leading == \A k \in Open : dbOf[k] = options /\ dbOf[k] \in exists

\* What main goes by: a healthy database has its tables.
Healthy ==
  /\ healthy => Configured \in valid
  /\ stage = "serving" => healthy

\* The number of connections the pool has been told to keep.
QuotaSoFar == IF stage = "construct" THEN DefaultCount ELSE Wanted

\* SetSettings never gets to see a connection in use.
StartIInv ==
  /\ StartTypeOK /\ PoolIInv(QuotaSoFar) /\ busy = 0
  /\ OnlyBoot /\ BootInStep /\ Pointing /\ Leading
  /\ Healthy /\ OnlyConfiguredRemade
=============================================================================
