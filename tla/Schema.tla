------------------------------- MODULE Schema -------------------------------
(***************************************************************************)
(* What get_db() of app.py does to the database file the first time a      *)
(* process calls it: a fixed sequence of CREATE TABLE IF NOT EXISTS and of *)
(* migrations of older files, run by every caller until one has reached    *)
(* its end, one SQLite statement at a time.  The sequence falls into       *)
(* chapters about tables of their own (and that of the favorites ends with *)
(* the accounts, which their migration reads); one chapter runs in a       *)
(* behaviour and the statements of the others do nothing in it.            *)
(*                                                                         *)
(* A statement that changes the schema commits by itself unless its        *)
(* connection is in a transaction; an INSERT, UPDATE or DELETE opens one,  *)
(* which lasts to the next commit, keeps every other writer waiting (at    *)
(* most 10 s, which are taken to be enough) and is lost with the           *)
(* connection.                                                             *)
(***************************************************************************)
EXTENDS Naturals, Sequences

CONSTANTS Pollers,      \* background threads, which call again after a failure
          StartupCalls, \* calls the main thread makes before it starts them
          MaxCuts       \* bound: statements that fail and restarts

Main == "main"
Threads == Pollers \cup {Main}
Nobody == "nobody"

ASSUME SchemaConstants == /\ Main \notin Pollers /\ Nobody \notin Pollers
                          /\ StartupCalls \in Nat /\ MaxCuts \in Nat

(***************************************************************************)
(* The statements.  "add" is an ALTER TABLE ADD COLUMN under a test of an  *)
(* earlier PRAGMA table_info ("look") for column g; "try" one whose error  *)
(* is swallowed.                                                           *)
(***************************************************************************)
Stmt(op, t, g, c) == [op |-> op, t |-> t, g |-> g, c |-> c]
Table(t, cs) == Stmt("create", {t}, "", cs)
Tables(ts) == Stmt("create", ts, "", {})
Look(t) == Stmt("look", t, "", "")
Add(t, g, c) == Stmt("add", t, g, c)
Adds(t, cs) == [i \in 1..Len(cs) |-> Add(t, cs[i], cs[i])]
Try(t, c) == Stmt("try", t, "", c)
Tries(t, cs) == [i \in 1..Len(cs) |-> Try(t, cs[i])]
Do(op) == Stmt(op, "", "", "")

Favorites == <<Table("favorites", {"user_id"}), Look("favorites"), Do("rename"),
    Do("recreate"), Do("copy"), Do("drop"), Do("commit"), Look("favorites"),
    Add("favorites", "sort_order", "sort_order"),
    Stmt("fill", "favorites", "sort_order", {"sort_order"}), Do("commit"),
    Do("touch"), Do("commit"), Table("users", {}), Do("legacy"), Do("commit")>>

Announcements ==
    <<Tables({"settings"})>> \o
    <<Table("announcements", {"idle_settle_sec", "tts_text", "tts_voice", "external_id",
                               "nws_expires", "max_defer_sec"}), Look("announcements")>>
    \o Adds("announcements", <<"idle_settle_sec", "tts_text", "tts_voice", "external_id",
                               "nws_expires", "max_defer_sec">>)

Connectors ==
    <<Tables({"permanent_links", "kiosk_temp_conns"}),
      Table("connectors", {"schedule_type", "schedule_days", "disconnect_all_first",
                            "disconnect_skip_permanent"}), Look("connectors")>>
    \o Adds("connectors", <<"schedule_type", "schedule_days", "disconnect_all_first",
                            "disconnect_skip_permanent">>)

Identifiers ==
    <<Table("id_configs", {"play_cmd", "sound_long", "sound_morse", "initial_sound",
                            "interval_sound", "final_sound"}), Look("id_configs")>>
    \o Adds("id_configs", <<"play_cmd", "interval_enabled", "sound_long", "sound_morse",
                            "initial_sound", "interval_sound", "final_sound">>)
    \o <<Table("connection_history", {"initiated_by"}), Look("connection_history"),
         Add("connection_history", "initiated_by", "initiated_by")>>

Alerts ==
    <<Table("alert_config", {"on_dns_stuck"}), Look("alert_config"),
      Add("alert_config", "on_dns_stuck", "on_dns_stuck")>>
    \o [i \in 1..3 |-> Add("alert_config", "ntfy_enabled",
            <<"ntfy_enabled", "pushover_enabled", "discord_enabled">>[i])]
    \o <<Stmt("fill", "alert_config", "ntfy_enabled", {"ntfy_enabled", "pushover_enabled"})>>
    \o Adds("alert_config", <<"chat_enabled", "irc_enabled", "on_disk_high">>)
    \o <<Add("alert_config", "on_disk_high", "disk_pct_threshold")>>
    \o Adds("alert_config",
            <<"on_password_reset_request", "on_geocode_down", "on_leak_detected">>)
    \o <<Do("commit")>>

Helpers ==
    <<Table("nws_alert_config", {"display_enabled", "zone_mode", "state"}),
      Look("nws_alert_config")>>
    \o Adds("nws_alert_config", <<"display_enabled", "zone_mode", "state">>)
    \o <<Tables({"recording_config"}), Table("stream_relay_config", {"overlay_website"}),
         Look("stream_relay_config"),
         Add("stream_relay_config", "overlay_website", "overlay_website"),
         Table("rx_audio_config", {"agc_enabled"}), Look("rx_audio_config"),
         Add("rx_audio_config", "agc_enabled", "agc_enabled"),
         Do("seedlook"), Do("seed"), Do("commit")>>

Bridges ==
    <<Tables({"meshtastic_config"}), Table("meshtastic_messages", {"packet_id"}),
      Look("meshtastic_messages"), Add("meshtastic_messages", "packet_id", "packet_id"),
      Tables({"meshtastic_node_names", "discord_relay_config",
                 "meshtastic_discord_relay_config", "irc_relay_config"}),
      Table("dvswitch_config", {"talkgroup_presets"}), Look("dvswitch_config"),
      Add("dvswitch_config", "talkgroup_presets", "talkgroup_presets"),
      Add("dvswitch_config", "latitude", "latitude"),
      Add("dvswitch_config", "latitude", "longitude")>>

Kiosk ==
    <<Tables({"node_lockouts", "kiosk_banner"}), Table("recordings", {})>>
    \o Tries("recordings", <<"label">>)
    \o <<Tables({"chat_messages"}), Table("net_schedules", {"end_time"}),
         Look("net_schedules"), Add("net_schedules", "end_time", "end_time")>>

Users ==
    <<Table("users", {}), Do("legacy"), Do("commit"), Do("flaglook"), Do("roles"),
      Do("commit")>>
    \o Tries("users", <<"session_idle_timeout", "restrict_disconnect", "can_record",
                        "listen_only", "totp_secret", "totp_enabled", "totp_recovery_codes",
                        "failed_login_count", "locked_until", "password_epoch">>)

Invites ==
    <<Tables({"password_reset_requests"}), Table("invites", {"listen_only"}),
      Look("invites"), Add("invites", "listen_only", "listen_only"), Do("commit"),
      Do("touch"), Do("commit")>>

ChapterNames == {"favorites", "announcements", "connectors", "identifiers", "alerts",
                 "services", "bridges", "kiosk", "users", "invites"}
Chapter(ch) ==
    CASE ch = "favorites" -> Favorites [] ch = "announcements" -> Announcements
      [] ch = "connectors" -> Connectors [] ch = "identifiers" -> Identifiers
      [] ch = "alerts" -> Alerts [] ch = "services" -> Helpers [] ch = "bridges" -> Bridges
      [] ch = "kiosk" -> Kiosk [] ch = "users" -> Users [] ch = "invites" -> Invites

VARIABLES
    chapter,  \* the chapter that runs
    stored,   \* the database as committed
    draft,    \* the database as the writer's transaction has it
    writer,   \* the thread in a transaction, or Nobody
    pc,       \* per thread: the statement it is at, 0 outside get_db
    told,     \* per thread: the answer of its last PRAGMA or SELECT
    conn,     \* per thread: its cached connection, _db_local.conn
    ready,    \* _db_ready
    tries,    \* calls the main thread made
    cuts,     \* statements that failed and restarts so far
    chosen    \* what people set since the migrations were over
schemaVars == <<chapter, stored, draft, writer, pc, told, conn, ready, tries, cuts, chosen>>

Script == Chapter(chapter)
\* the statement a thread is at
Now(t) == LET script == Script IN {script[i] : i \in {pc[t]} \cap (1..Len(script))}
View(t) == IF writer = t THEN draft ELSE stored
ColumnsOf(d, t) == {c[2] : c \in {x \in d.cols : x[1] = t}}

(* A file that does not exist yet; one of the time of a single login, kept *)
(* in settings; and one of the time of two roles.                          *)
Fresh == [tables |-> {}, cols |-> {}, filled |-> {}, old |-> "none", legacy |-> "none",
          role |-> [first |-> "none", second |-> "none"], flag |-> FALSE, row |-> "none"]
TablesOf(ch) == LET script == Chapter(ch)
                IN UNION {script[i].t : i \in {j \in DOMAIN script : script[j].op = "create"}}
SingleLogin(ch) == [Fresh EXCEPT !.tables = TablesOf(ch) \ {"users"}, !.old = "here",
                                 !.legacy = "here"]
TwoRoles(ch) == [Fresh EXCEPT !.tables = TablesOf(ch) \cup {"users"}, !.old = "here",
                              !.role = [first |-> "admin", second |-> "kiosk"]]

SchemaInit ==
    /\ chapter \in ChapterNames
    /\ stored \in {Fresh, SingleLogin(chapter), TwoRoles(chapter)} /\ draft = stored
    /\ writer = Nobody /\ pc = [t \in Threads |-> 0] /\ told = [t \in Threads |-> {}]
    /\ conn = [t \in Threads |-> FALSE] /\ ready = FALSE /\ tries = 0 /\ cuts = 0
    /\ chosen = {}

GoesOn(t) == pc' = [pc EXCEPT ![t] = @ + 1]
Learns(t, s) == told' = [told EXCEPT ![t] = s]
MayWrite(t) == writer \in {Nobody, t}
\* a change of the schema, d the database after it
Alter(t, d) == /\ MayWrite(t) /\ draft' = d
               /\ stored' = IF writer = t THEN stored ELSE d
               /\ UNCHANGED writer
\* an INSERT, UPDATE or DELETE
Change(t, d) == MayWrite(t) /\ draft' = d /\ writer' = t /\ UNCHANGED stored
DatabaseSame == UNCHANGED <<stored, draft, writer>>
RestSame == UNCHANGED <<chapter, conn, ready, tries, cuts, chosen>>
Skip(t) == GoesOn(t) /\ DatabaseSame /\ Learns(t, told[t]) /\ RestSame

\* a caller: a thread without a connection; the pollers start after the main thread's calls
MayCall(t) == pc[t] = 0 /\ ~conn[t]
              /\ IF t = Main THEN tries < StartupCalls ELSE conn[Main] \/ tries = StartupCalls
\* Mutant: the flag is set when the pass begins
CallEarly(t) == /\ MayCall(t) /\ ready' = TRUE
                /\ IF ready THEN conn' = [conn EXCEPT ![t] = TRUE] /\ UNCHANGED pc
                            ELSE GoesOn(t) /\ UNCHANGED conn
                /\ DatabaseSame /\ Learns(t, {}) /\ UNCHANGED <<chapter, tries, cuts, chosen>>
Call(t) == /\ MayCall(t)
           /\ IF ready THEN conn' = [conn EXCEPT ![t] = TRUE] /\ UNCHANGED pc
                       ELSE GoesOn(t) /\ UNCHANGED conn
           /\ DatabaseSame /\ Learns(t, {}) /\ UNCHANGED <<chapter, ready, tries, cuts, chosen>>

\* the exception leaves get_db, and its connection with the open transaction
Leaves(t) == /\ pc' = [pc EXCEPT ![t] = 0] /\ Learns(t, {})
             /\ writer' = IF writer = t THEN Nobody ELSE writer
             /\ draft' = IF writer = t THEN stored ELSE draft
             /\ tries' = IF t = Main THEN tries + 1 ELSE tries
             /\ UNCHANGED <<chapter, stored, conn, ready, chosen>>
Raise(t) == MayWrite(t) /\ Leaves(t) /\ UNCHANGED cuts

\* the file cannot be opened: sqlite3.connect raises
Unopened(t) == /\ MayCall(t) /\ t = Main /\ ~ready /\ tries' = tries + 1
               /\ DatabaseSame /\ UNCHANGED <<chapter, pc, told, conn, ready, cuts, chosen>>

CreateTables(t, s) ==
    /\ s.op = "create"
    /\ LET d == View(t)
           new == s.t \ d.tables
       IN IF new = {} THEN DatabaseSame
          ELSE Alter(t, [d EXCEPT !.tables = @ \cup new, !.cols = @ \cup (new \X s.c)])
    /\ GoesOn(t) /\ Learns(t, told[t]) /\ RestSame

TableInfo(t, s) == s.op = "look" /\ Learns(t, ColumnsOf(View(t), s.t)) /\ GoesOn(t)
                /\ DatabaseSame /\ RestSame

HasColumn(d, tb, c) == <<tb, c>> \in d.cols
\* Mutant: the test of the columns already there is left out
AddColumnUnguarded(t, s) ==
    /\ s.op = "add"
    /\ LET d == View(t)
       IN IF s.t \notin d.tables \/ HasColumn(d, s.t, s.c) THEN Raise(t)
          ELSE Alter(t, [d EXCEPT !.cols = @ \cup {<<s.t, s.c>>}])
               /\ GoesOn(t) /\ Learns(t, told[t]) /\ RestSame
AddColumn(t, s) ==
    /\ s.op = "add"
    /\ LET d == View(t)
       IN \/ s.g \in told[t] /\ Skip(t)
          \/ /\ s.g \notin told[t]
             /\ IF s.t \notin d.tables \/ HasColumn(d, s.t, s.c) THEN Raise(t)
                ELSE Alter(t, [d EXCEPT !.cols = @ \cup {<<s.t, s.c>>}])
                     /\ GoesOn(t) /\ Learns(t, told[t]) /\ RestSame

\* the error of a column that is there is swallowed
TryColumn(t, s) ==
    /\ s.op = "try"
    /\ LET d == View(t)
       IN IF HasColumn(d, s.t, s.c) THEN Skip(t)
          ELSE Alter(t, [d EXCEPT !.cols = @ \cup {<<s.t, s.c>>}])
               /\ GoesOn(t) /\ Learns(t, told[t]) /\ RestSame

Backfill(t, s) ==
    /\ s.op = "fill"
    /\ LET d == View(t)
       IN \/ s.g \in told[t] /\ Skip(t)
          \/ /\ s.g \notin told[t]
             /\ IF ~(s.c \subseteq ColumnsOf(d, s.t)) THEN Raise(t)
                ELSE Change(t, [d EXCEPT !.filled = @ \cup {s.t}])
                     /\ GoesOn(t) /\ Learns(t, told[t]) /\ RestSame

\* favorites without user_id: set aside, created anew, copied to the first account, if
\* there is one, and dropped
V1 == "_favorites_v1"
MoveFavorites(t, s) ==
    /\ s.op \in {"rename", "recreate", "copy", "drop"}
    /\ LET d == View(t)
           there == "favorites" \in d.tables
           without == [d EXCEPT !.tables = @ \ {"favorites"},
                                !.cols = {x \in @ : x[1] # "favorites"}]
           done == GoesOn(t) /\ Learns(t, told[t]) /\ RestSame
       IN \/ "user_id" \in told[t] /\ Skip(t)
          \/ /\ "user_id" \notin told[t] /\ s.op = "rename"
             /\ IF ~there \/ V1 \in d.tables THEN Raise(t)
                ELSE done /\ Alter(t, [without EXCEPT !.tables = @ \cup {V1},
                                            !.old = IF @ = "none" THEN @ ELSE "aside"])
          \/ /\ "user_id" \notin told[t] /\ s.op = "recreate"
             /\ IF there THEN Raise(t)
                ELSE done /\ Alter(t, [d EXCEPT !.tables = @ \cup {"favorites"},
                                            !.cols = @ \cup {<<"favorites", "user_id">>}])
          \/ /\ "user_id" \notin told[t] /\ s.op = "copy"
             /\ \/ "users" \notin d.tables /\ Raise(t)
                \/ "users" \in d.tables /\ d.role.first = "none" /\ done /\ DatabaseSame
                \/ /\ "users" \in d.tables /\ d.role.first # "none"
                   /\ IF ~({"favorites", V1} \subseteq d.tables) THEN Raise(t)
                      ELSE done /\ Change(t, [d EXCEPT !.old = IF @ = "aside" THEN "copied"
                                                              ELSE @])
          \/ /\ "user_id" \notin told[t] /\ s.op = "drop" /\ done
             /\ Alter(t, [d EXCEPT !.tables = @ \ {V1},
                                   !.old = IF @ = "aside" THEN "lost" ELSE @])

\* the one account kept in settings becomes a superuser
MoveLogin(t, s) ==
    /\ s.op = "legacy"
    /\ LET d == View(t)
       IN IF d.legacy = "here" /\ \A u \in DOMAIN d.role : d.role[u] # "superuser"
          THEN Change(t, [d EXCEPT !.legacy = "moved", !.role.first = "superuser"])
          ELSE DatabaseSame
    /\ GoesOn(t) /\ Learns(t, told[t]) /\ RestSame

\* roles_v3_migrated, and the two roles made three
LookFlag(t, s) == s.op = "flaglook" /\ Learns(t, IF View(t).flag THEN {"flag"} ELSE {})
               /\ GoesOn(t) /\ DatabaseSame /\ RestSame
NewRole(r) == CASE r = "admin" -> "superuser" [] r = "kiosk" -> "user" [] OTHER -> r
\* Mutant: the migration does not mark itself done
MigrateRolesUnflagged(t, s) ==
    /\ s.op = "roles"
    /\ \/ "flag" \in told[t] /\ DatabaseSame
       \/ "flag" \notin told[t]
          /\ Change(t, [View(t) EXCEPT !.role = [u \in DOMAIN @ |-> NewRole(@[u])]])
    /\ GoesOn(t) /\ Learns(t, told[t]) /\ RestSame
MigrateRoles(t, s) ==
    /\ s.op = "roles"
    /\ \/ "flag" \in told[t] /\ DatabaseSame
       \/ "flag" \notin told[t]
          /\ Change(t, [View(t) EXCEPT !.role = [u \in DOMAIN @ |-> NewRole(@[u])],
                                       !.flag = TRUE])
    /\ GoesOn(t) /\ Learns(t, told[t]) /\ RestSame

\* the default path of a new installation's audio, seeded where there is no row
LookRow(t, s) == s.op = "seedlook" /\ Learns(t, IF View(t).row = "none" THEN {} ELSE {"row"})
              /\ GoesOn(t) /\ DatabaseSame /\ RestSame
Seed(t, s) ==
    /\ s.op = "seed"
    /\ \/ "row" \in told[t] /\ Skip(t)
       \/ /\ "row" \notin told[t]
          /\ IF View(t).row # "none" THEN Raise(t)
             ELSE Change(t, [View(t) EXCEPT !.row = "default"])
                  /\ GoesOn(t) /\ Learns(t, told[t]) /\ RestSame

\* statements that change nothing the chapters tell apart, but open a transaction
Touch(t, s) == s.op = "touch" /\ Change(t, View(t)) /\ GoesOn(t) /\ Learns(t, told[t]) /\ RestSame

Commit(t, s) ==
    /\ s.op = "commit" /\ GoesOn(t) /\ Learns(t, told[t]) /\ RestSame
    /\ IF writer = t THEN stored' = draft /\ writer' = Nobody /\ UNCHANGED draft
                     ELSE DatabaseSame

Finish(t) == /\ pc[t] = Len(Script) + 1 /\ pc' = [pc EXCEPT ![t] = 0] /\ Learns(t, {})
             /\ ready' = TRUE /\ conn' = [conn EXCEPT ![t] = TRUE]
             /\ DatabaseSame /\ UNCHANGED <<chapter, tries, cuts, chosen>>

Statement(t) ==
    \E s \in Now(t) :
       \/ CreateTables(t, s) \/ TableInfo(t, s) \/ AddColumn(t, s) \/ TryColumn(t, s)
       \/ Backfill(t, s) \/ MoveFavorites(t, s) \/ MoveLogin(t, s) \/ LookFlag(t, s)
       \/ MigrateRoles(t, s) \/ LookRow(t, s) \/ Seed(t, s) \/ Touch(t, s) \/ Commit(t, s)
Step(t) == Call(t) \/ Statement(t) \/ Finish(t)

\* a statement fails, the disk being full or the file locked; under "try" nobody is told
StatementFails(t) == \E s \in Now(t) :
    /\ cuts < MaxCuts /\ cuts' = cuts + 1
    /\ IF s.op = "try" THEN GoesOn(t) /\ DatabaseSame /\ Learns(t, told[t])
                            /\ UNCHANGED <<chapter, conn, ready, tries, chosen>>
                       ELSE Leaves(t)
\* the service is restarted
RestartService ==
    /\ cuts < MaxCuts /\ cuts' = cuts + 1
    /\ pc' = [t \in Threads |-> 0] /\ told' = [t \in Threads |-> {}]
    /\ conn' = [t \in Threads |-> FALSE] /\ ready' = FALSE /\ tries' = 0
    /\ writer' = Nobody /\ draft' = stored /\ UNCHANGED <<chapter, stored, chosen>>

Quiet == \A t \in Threads : pc[t] = 0
\* an administrator makes an account an admin; the owner saves a path for the audio
Saved(t, what, d) == /\ conn[t] /\ pc[t] = 0 /\ writer = Nobody /\ stored' = d /\ draft' = d
                     /\ chosen' = IF Quiet THEN chosen \cup {what} ELSE chosen
                     /\ UNCHANGED <<chapter, writer, pc, told, conn, ready, tries, cuts>>
GiveRole(t) == chapter = "users" /\ stored.role.second # "none"
               /\ Saved(t, "role", [stored EXCEPT !.role.second = "admin"])
SavePath(t) == chapter = "services" /\ Saved(t, "row", [stored EXCEPT !.row = "chosen"])

SchemaNext ==
    \/ \E t \in Threads : Step(t) \/ StatementFails(t) \/ GiveRole(t) \/ SavePath(t)
    \/ Unopened(Main) \/ RestartService
Fairness == \A t \in Threads : WF_schemaVars(Step(t))
SchemaSpec == SchemaInit /\ [][SchemaNext]_schemaVars /\ Fairness

SchemaTypeOK == /\ chapter \in ChapterNames /\ writer \in Threads \cup {Nobody}
                /\ pc \in [Threads -> Nat] /\ \A t \in Threads : pc[t] <= Len(Script) + 1
                /\ conn \in [Threads -> BOOLEAN] /\ ready \in BOOLEAN
                /\ tries \in 0..StartupCalls /\ cuts \in 0..MaxCuts
                /\ writer = Nobody => draft = stored

(***************************************************************************)
(* When a caller has reached the end and none is under way, every column   *)
(* that has a test of its own is there, whatever failed before (favorites  *)
(* aside, a table that is itself replaced).  If nothing was cut short,     *)
(* every other column is there too, though callers raced at a cold start;  *)
(* and the older rows are filled if the main thread's first call did it.   *)
(* (A race may lose that: a backfill is rolled back with the exception its *)
(* pass meets at a column another pass has added, and not run again.)      *)
(***************************************************************************)
SchemaWhole ==
    /\ SchemaTypeOK
    /\ ready /\ Quiet =>
          \A i \in 1..Len(Script) :
             LET s == Script[i]
                 there == HasColumn(stored, s.t, s.c)
             IN /\ s.op = "add" /\ s.g = s.c /\ s.t # "favorites" => there
                /\ s.op \in {"add", "try"} /\ cuts = 0 => there
                /\ s.op = "fill" /\ cuts = 0 /\ conn[Main] => s.t \in stored.filled

(***************************************************************************)
(* A migration runs over old data only: what people set once the           *)
(* migrations are over survives every later start.  Neither the account of *)
(* an older file nor the favorites of one that has accounts are ever       *)
(* destroyed.  (Those of the time of the single login are, when another    *)
(* caller creates users while they are aside: they are dropped uncopied    *)
(* where users has no row yet.)                                            *)
(***************************************************************************)
ChoicesKept ==
    /\ "role" \in chosen => stored.role.second = "admin"
    /\ "row" \in chosen => stored.row = "chosen"
    /\ stored.old = "lost" => stored.legacy # "none"
    /\ stored.legacy = "moved" => stored.role.first # "none"

(***************************************************************************)
(* Nobody is locked out of the database: a poller that calls get_db gets   *)
(* its connection in the end, however an earlier start was cut short and   *)
(* whoever else starts with it.                                            *)
(***************************************************************************)
Served == \A p \in Pollers : []<>conn[p]
=============================================================================
