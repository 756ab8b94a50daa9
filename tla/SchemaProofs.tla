---------------------------- MODULE SchemaProofs ----------------------------
(***************************************************************************)
(* What the migrations of the database never touch, for every number of    *)
(* threads, failures and restarts.                                         *)
(***************************************************************************)
EXTENDS Schema, TLAPS

(***************************************************************************)
(* The statements of the chapters.                                         *)
(***************************************************************************)
Plain == {"create", "look", "add", "try", "fill", "commit", "touch", "seedlook", "seed"}
Ops(s, O) == Len(s) \in Nat /\ \A i \in 1..Len(s) : s[i].op \in O

LEMMA Joined ==
    ASSUME NEW s, NEW u, Len(s) \in Nat, Len(u) \in Nat
    PROVE  /\ Len(s \o u) = Len(s) + Len(u)
           /\ \A i \in 1..Len(s) : (s \o u)[i] = s[i]
           /\ \A i \in Len(s) + 1..Len(s) + Len(u) : (s \o u)[i] = u[i - Len(s)]
OBVIOUS

LEMMA JoinedOps == ASSUME NEW O, NEW s, NEW u, Ops(s, O), Ops(u, O) PROVE Ops(s \o u, O)
<1>1. Len(s) \in Nat /\ Len(u) \in Nat
  BY DEF Ops
<1>2. \A i \in 1..Len(s \o u) : i \in 1..Len(s) \/ i - Len(s) \in 1..Len(u)
  BY <1>1, Joined
<1> QED BY <1>1, <1>2, Joined DEF Ops

LEMMA TheOps == /\ \A t : Look(t).op = "look"
                /\ \A t, g, c : Add(t, g, c).op = "add"
                /\ \A t, c : Try(t, c).op = "try"
                /\ \A t, cs : Table(t, cs).op = "create"
                /\ \A ts : Tables(ts).op = "create"
                /\ \A op : Do(op).op = op
                /\ \A op, t, g, c : Stmt(op, t, g, c).op = op
BY DEF Look, Add, Try, Table, Tables, Do, Stmt

LEMMA Adding ==
    ASSUME NEW t, NEW cs, Len(cs) \in Nat
    PROVE  Ops(Adds(t, cs), Plain) /\ Len(Adds(t, cs)) = Len(cs)
BY TheOps DEF Adds, Ops, Plain

LEMMA Trying ==
    ASSUME NEW t, NEW cs, Len(cs) \in Nat
    PROVE  /\ Len(Tries(t, cs)) = Len(cs)
           /\ \A i \in 1..Len(cs) : Tries(t, cs)[i] = Try(t, cs[i])
BY DEF Tries

LEMMA Tuples ==
    ASSUME NEW O, NEW a, a.op \in O
    PROVE  /\ Ops(<<a>>, O)
           /\ \A b : b.op \in O => Ops(<<a, b>>, O)
           /\ \A b, c : b.op \in O /\ c.op \in O => Ops(<<a, b, c>>, O)
           /\ \A b, c, d : b.op \in O /\ c.op \in O /\ d.op \in O => Ops(<<a, b, c, d>>, O)
BY DEF Ops

LEMMA PlainOps ==
    /\ \A t : Look(t).op \in Plain
    /\ \A t, g, c : Add(t, g, c).op \in Plain
    /\ \A t, cs : Table(t, cs).op \in Plain
    /\ \A ts : Tables(ts).op \in Plain
    /\ \A t, g, c : Stmt("fill", t, g, c).op \in Plain
    /\ \A op \in Plain : Do(op).op \in Plain
    /\ \A t, cs : Len(cs) \in Nat => Ops(Tries(t, cs), Plain)
<1>1. \A t, cs : Len(cs) \in Nat => Ops(Tries(t, cs), Plain)
  <2> SUFFICES ASSUME NEW t, NEW cs, Len(cs) \in Nat PROVE Ops(Tries(t, cs), Plain)
    OBVIOUS
  <2>1. "try" \in Plain
    BY DEF Plain
  <2>2. \A i \in 1..Len(cs) : Tries(t, cs)[i].op \in Plain
    <3> SUFFICES ASSUME NEW i \in 1..Len(cs) PROVE Tries(t, cs)[i].op \in Plain
      OBVIOUS
    <3> QED BY <2>1, Trying, TheOps
  <2> QED BY <2>2, Trying DEF Ops
<1> QED BY <1>1, TheOps DEF Plain

LEMMA PlainChapters ==
    ASSUME NEW ch \in ChapterNames \ {"favorites", "users"}
    PROVE  Ops(Chapter(ch), Plain)
<1>0. "commit" \in Plain /\ "touch" \in Plain /\ "seedlook" \in Plain /\ "seed" \in Plain
  BY DEF Plain
<1> USE PlainOps, Adding, JoinedOps, Tuples
<1>1. Ops(Announcements, Plain)
  BY DEF Announcements
<1>2. Ops(Connectors, Plain)
  BY DEF Connectors
<1>3. Ops(Identifiers, Plain)
  BY DEF Identifiers
<1>4. Ops(Alerts, Plain)
  <2> DEFINE three == [i \in 1..3 |-> Add("alert_config", "ntfy_enabled",
                         <<"ntfy_enabled", "pushover_enabled", "discord_enabled">>[i])]
  <2>1. Ops(three, Plain)
    BY DEF Ops
  <2> HIDE DEF three
  <2> QED BY <1>0, <2>1 DEF Alerts, three
<1>5. Ops(Helpers, Plain)
  <2> DEFINE rest == <<Tables({"recording_config"}),
         Table("stream_relay_config", {"overlay_website"}),
         Look("stream_relay_config"),
         Add("stream_relay_config", "overlay_website", "overlay_website"),
         Table("rx_audio_config", {"agc_enabled"}), Look("rx_audio_config"),
         Add("rx_audio_config", "agc_enabled", "agc_enabled"),
         Do("seedlook"), Do("seed"), Do("commit")>>
  <2>1. Ops(rest, Plain)
    BY <1>0 DEF Ops
  <2> HIDE DEF rest
  <2> QED BY <2>1 DEF Helpers, rest
<1>6. Ops(Bridges, Plain)
  BY <1>0 DEF Bridges, Ops
<1>7. Ops(Kiosk, Plain)
  BY <1>0 DEF Kiosk
<1>8. Ops(Invites, Plain)
  BY <1>0 DEF Invites, Ops
<1> QED BY <1>1, <1>2, <1>3, <1>4, <1>5, <1>6, <1>7, <1>8 DEF Chapter, ChapterNames

LEMMA ThenTries ==
    ASSUME NEW s, NEW t, NEW cs, Len(s) \in Nat, Len(cs) \in Nat
    PROVE  /\ Len(s \o Tries(t, cs)) = Len(s) + Len(cs)
           /\ \A i \in 1..Len(s) : (s \o Tries(t, cs))[i] = s[i]
           /\ \A i \in Len(s) + 1..Len(s) + Len(cs) : (s \o Tries(t, cs))[i].op = "try"
<1>1. Len(Tries(t, cs)) = Len(cs) /\ \A i \in 1..Len(cs) : Tries(t, cs)[i].op = "try"
  BY Trying, TheOps
<1> DEFINE u == Tries(t, cs)
<1> HIDE DEF u
<1>2. Len(u) = Len(cs) /\ \A i \in 1..Len(cs) : u[i].op = "try"
  BY <1>1 DEF u
<1>3. /\ Len(s \o u) = Len(s) + Len(u)
      /\ \A i \in 1..Len(s) : (s \o u)[i] = s[i]
      /\ \A i \in Len(s) + 1..Len(s) + Len(u) : (s \o u)[i] = u[i - Len(s)]
  BY <1>2, Joined
<1>4. ASSUME NEW i \in Len(s) + 1..Len(s) + Len(cs) PROVE (s \o u)[i].op = "try"
  <2>1. i - Len(s) \in 1..Len(cs)
    OBVIOUS
  <2> QED BY <1>2, <1>3, <2>1
<1> QED BY <1>2, <1>3, <1>4 DEF u

LEMMA UsersScript ==
    /\ Len(Users) = 16 /\ Users[4].op = "flaglook" /\ Users[5].op = "roles"
    /\ Users[1].op = "create" /\ Users[2].op = "legacy"
    /\ Users[3].op = "commit" /\ Users[6].op = "commit"
    /\ \A i \in 7..16 : Users[i].op = "try"
<1> DEFINE first == <<Table("users", {}), Do("legacy"), Do("commit"), Do("flaglook"),
                      Do("roles"), Do("commit")>>
           names == <<"session_idle_timeout", "restrict_disconnect", "can_record",
                      "listen_only", "totp_secret", "totp_enabled", "totp_recovery_codes",
                      "failed_login_count", "locked_until", "password_epoch">>
<1> HIDE DEF first, names
<1>1. Users = first \o Tries("users", names)
  BY DEF Users, first, names
<1>2. Len(names) = 10 /\ Len(first) = 6
  BY DEF first, names
<1>3. /\ first[1].op = "create" /\ first[2].op = "legacy" /\ first[3].op = "commit"
      /\ first[4].op = "flaglook" /\ first[5].op = "roles" /\ first[6].op = "commit"
  BY TheOps DEF first
<1>4. /\ Len(Users) = Len(first) + Len(names)
      /\ \A i \in 1..Len(first) : Users[i] = first[i]
      /\ \A i \in Len(first) + 1..Len(first) + Len(names) : Users[i].op = "try"
  <2>1. Len(first) \in Nat /\ Len(names) \in Nat
    BY <1>2
  <2> QED BY <1>1, <2>1, ThenTries
<1>5. Len(Users) = 16
  BY <1>2, <1>4
<1>6. ASSUME NEW i \in 1..6 PROVE Users[i] = first[i]
  BY <1>2, <1>4
<1>7. ASSUME NEW i \in 7..16 PROVE Users[i].op = "try"
  BY <1>2, <1>4
<1> QED BY <1>3, <1>5, <1>6, <1>7

LEMMA FavoritesScript ==
    /\ Len(Favorites) = 16
    /\ \A i \in 1..16 : i # 3 => Favorites[i].op # "rename"
    /\ Favorites[5].op = "copy" /\ \A i \in 1..16 : i # 5 => Favorites[i].op # "copy"
    /\ \A i \in 1..16 : i # 6 => Favorites[i].op # "drop"
    /\ \A i \in 1..16 : i # 15 => Favorites[i].op # "legacy"
    /\ \A i \in 1..16 : Favorites[i].op \notin {"flaglook", "roles"}
<1>1. Len(Favorites) = 16
  BY DEF Favorites
<1>2. /\ Favorites[1].op = "create" /\ Favorites[2].op = "look" /\ Favorites[3].op = "rename"
      /\ Favorites[4].op = "recreate" /\ Favorites[5].op = "copy" /\ Favorites[6].op = "drop"
      /\ Favorites[7].op = "commit" /\ Favorites[8].op = "look" /\ Favorites[9].op = "add"
      /\ Favorites[10].op = "fill" /\ Favorites[11].op = "commit"
      /\ Favorites[12].op = "touch" /\ Favorites[13].op = "commit"
      /\ Favorites[14].op = "create" /\ Favorites[15].op = "legacy"
      /\ Favorites[16].op = "commit"
  BY TheOps DEF Favorites
<1>3. \A i \in 1..16 : \/ i = 1 \/ i = 2 \/ i = 3 \/ i = 4 \/ i = 5 \/ i = 6 \/ i = 7 \/ i = 8
                       \/ i = 9 \/ i = 10 \/ i = 11 \/ i = 12 \/ i = 13 \/ i = 14 \/ i = 15
                       \/ i = 16
  OBVIOUS
<1> QED BY <1>1, <1>2, <1>3

(***************************************************************************)
(* What a start and its migrations never touch.                            *)
(***************************************************************************)
Fields == {"tables", "cols", "filled", "old", "legacy", "role", "flag", "row"}
IsDb(d) == DOMAIN d = Fields /\ DOMAIN d.role = {"first", "second"} /\ d.flag \in BOOLEAN

DatabaseShape == /\ SchemaTypeOK /\ IsDb(stored) /\ IsDb(draft)
                 /\ told = [t \in Threads |-> told[t]]
                 /\ pc[Main] > 0 => tries < StartupCalls

(* What must be so of the database as committed and as it is drafted: an   *)
(* older file without a login in settings has an account.                  *)
Owned(d) == /\ d.old = "lost" => d.legacy # "none"
            /\ d.legacy = "none" /\ d.old # "none" => d.role.first # "none"
            /\ d.legacy = "moved" => d.role.first # "none"
SameFile(d, e) == /\ d.legacy = "none" <=> e.legacy = "none"
                  /\ d.old = "none" <=> e.old = "none"
Kept(d) == /\ Owned(d)
           /\ "role" \in chosen => d.role.second = "admin" /\ d.flag
           /\ "row" \in chosen => d.row = "chosen"

(* The roles are migrated once: the mark is there for whoever is past the  *)
(* migration, and for whoever is about to do it if a role was given since. *)
Migrated(t) ==
    chapter = "users" =>
        /\ pc[t] > 6 => stored.flag
        /\ pc[t] = 6 => View(t).flag
        /\ pc[t] = 5 => /\ "flag" \in told[t] => View(t).flag
                        /\ "role" \in chosen => "flag" \in told[t]
(* Old favorites of a file with accounts are dropped by the transaction    *)
(* that has copied them.                                                   *)
Copied(t) == chapter = "favorites" /\ pc[t] = 6 /\ "user_id" \notin told[t]
                /\ stored.legacy = "none" /\ stored.old # "none"
             => writer = t /\ draft.old # "aside"

Starts == /\ \A t \in Threads : conn[t] => ready
          /\ chapter = "users" => (ready => stored.flag) /\ (stored.flag => draft.flag)
          /\ "role" \in chosen => chapter = "users"
          /\ SameFile(stored, draft)

KeptInv == /\ DatabaseShape /\ Kept(stored) /\ Kept(draft) /\ Starts
           /\ \A t \in Threads : Migrated(t) /\ Copied(t)

LEMMA ScriptLength == ASSUME chapter \in ChapterNames PROVE Len(Script) \in Nat
<1>1. CASE chapter = "users"
  BY <1>1, UsersScript DEF Script, Chapter
<1>2. CASE chapter = "favorites"
  BY <1>2, FavoritesScript DEF Script, Chapter
<1>3. CASE chapter \notin {"users", "favorites"}
  BY <1>3, PlainChapters DEF Script, Ops
<1> QED BY <1>1, <1>2, <1>3

LEMMA AtStatement ==
    ASSUME DatabaseShape, NEW t \in Threads, NEW s \in Now(t)
    PROVE  /\ pc[t] \in Nat /\ pc[t] >= 1 /\ pc[t] <= Len(Script) /\ s = Script[pc[t]]
           /\ chapter \in ChapterNames /\ Len(Script) \in Nat
           /\ pc \in [Threads -> Nat]
BY ScriptLength DEF Now, DatabaseShape, SchemaTypeOK

LEMMA InUsers == chapter = "users" => Script = Users
BY DEF Script, Chapter
LEMMA InFavorites == chapter = "favorites" => Script = Favorites
BY DEF Script, Chapter

(* Where the statements that matter are.                                   *)
LEMMA Where ==
    ASSUME DatabaseShape, NEW t \in Threads, NEW s \in Now(t)
    PROVE  /\ s.op = "roles" => chapter = "users" /\ pc[t] = 5
           /\ s.op = "flaglook" => chapter = "users" /\ pc[t] = 4
           /\ s.op = "legacy" => \/ chapter = "users" /\ pc[t] = 2
                                 \/ chapter = "favorites" /\ pc[t] = 15
           /\ s.op = "copy" => chapter = "favorites" /\ pc[t] = 5
           /\ s.op = "drop" => chapter = "favorites" /\ pc[t] = 6
           /\ s.op \in {"rename", "recreate"} => chapter = "favorites"
           /\ chapter = "favorites" /\ pc[t] = 5 => s.op = "copy"
           /\ chapter = "users" => /\ pc[t] = 4 => s.op = "flaglook"
                                   /\ pc[t] = 5 => s.op = "roles"
                                   /\ pc[t] = 6 => s.op = "commit"
                                   /\ pc[t] > 6 => s.op = "try"
                                   /\ s.op = "try" => pc[t] > 6
<1> USE AtStatement
<1>1. CASE chapter = "users"
  <2>1. Script = Users /\ Len(Script) = 16
    BY <1>1, InUsers, UsersScript
  <2>2. \/ pc[t] = 1 \/ pc[t] = 2 \/ pc[t] = 3 \/ pc[t] = 4 \/ pc[t] = 5 \/ pc[t] = 6
        \/ pc[t] \in 7..16
    BY <2>1
  <2> QED BY <1>1, <2>1, <2>2, UsersScript
<1>2. CASE chapter = "favorites"
  <2>1. Script = Favorites /\ Len(Script) = 16
    BY <1>2, InFavorites, FavoritesScript
  <2>2. pc[t] \in 1..16 /\ s = Favorites[pc[t]]
    BY <2>1
  <2> QED BY <1>2, <2>2, FavoritesScript
<1>3. CASE chapter \notin {"users", "favorites"}
  <2>1. s.op \in Plain
    BY <1>3, PlainChapters DEF Script, Ops
  <2> QED BY <1>3, <2>1 DEF Plain
<1> QED BY <1>1, <1>2, <1>3

(* What a step of a thread may do to the database.                         *)
Written(t) ==
    /\ IsDb(stored') /\ IsDb(draft') /\ Kept(stored)' /\ Kept(draft)'
    /\ writer' \in Threads \cup {Nobody} /\ (writer' = Nobody => draft' = stored')
    /\ \A u \in Threads \ {t} : writer = u <=> writer' = u
    /\ writer \in Threads \ {t} => draft' = draft /\ stored' = stored
    /\ chapter = "users" => /\ stored.flag => stored'.flag
                            /\ stored'.flag => draft'.flag
    /\ SameFile(stored, stored') /\ SameFile(stored', draft')
Sees(t) == chapter = "users" /\ View(t).flag => View(t)'.flag

LEMMA ThreadNames == /\ Nobody \notin Threads /\ Main \in Threads
                     /\ \A p \in Pollers : p \in Threads /\ p # Main
BY SchemaConstants DEF Threads, Main, Nobody

LEMMA Moves ==
    ASSUME KeptInv, NEW t \in Threads, Written(t), NEW n \in Nat, NEW x,
           pc' = [pc EXCEPT ![t] = n], n <= Len(Script) + 1,
           told' = [told EXCEPT ![t] = x], UNCHANGED <<chapter, chosen>>,
           (Migrated(t) /\ Copied(t))',
           conn' \in [Threads -> BOOLEAN], ready' \in BOOLEAN,
           tries' \in 0..StartupCalls, cuts' \in 0..MaxCuts,
           pc'[Main] > 0 => tries' < StartupCalls,
           \A u \in Threads : conn'[u] => ready',
           chapter = "users" => (ready' => stored'.flag)
    PROVE  KeptInv'
<1> USE ThreadNames
<1>1. DatabaseShape'
  <2>1. Script' = Script /\ pc \in [Threads -> Nat] /\ told = [u \in Threads |-> told[u]]
    BY DEF Script, KeptInv, DatabaseShape, SchemaTypeOK
  <2>2. pc' \in [Threads -> Nat] /\ \A u \in Threads : pc'[u] <= Len(Script') + 1
    BY <2>1 DEF KeptInv, DatabaseShape, SchemaTypeOK
  <2>3. told' = [u \in Threads |-> told'[u]]
    BY <2>1
  <2> QED BY <2>1, <2>2, <2>3 DEF KeptInv, DatabaseShape, SchemaTypeOK, Written
<1>2. Kept(stored)' /\ Kept(draft)' /\ Starts'
  BY DEF Written, KeptInv, Starts
<1>3. ASSUME NEW u \in Threads PROVE Migrated(u)' /\ Copied(u)'
  <2>1. CASE u = t
    BY <2>1
  <2>2. CASE u # t
    <3>1. pc'[u] = pc[u] /\ told'[u] = told[u]
      BY <2>2 DEF KeptInv, DatabaseShape, SchemaTypeOK
    <3>2. Migrated(u) /\ Copied(u)
      BY DEF KeptInv
    <3>3. Copied(u)'
      BY <2>2, <3>1, <3>2 DEF Copied, Written, SameFile
    <3>4. chapter = "users" /\ View(u).flag => View(u)'.flag
      BY <2>2 DEF View, Written
    <3>5. Migrated(u)'
      BY <2>2, <3>1, <3>2, <3>4 DEF Migrated, Written
    <3> QED BY <3>3, <3>5
  <2> QED BY <2>1, <2>2
<1> QED BY <1>1, <1>2, <1>3 DEF KeptInv

(* The ways of writing.                                                    *)
LEMMA NotWritten == ASSUME KeptInv, NEW t \in Threads, DatabaseSame, UNCHANGED chosen
                    PROVE  Written(t) /\ Sees(t)
BY DEF Written, Sees, DatabaseSame, KeptInv, DatabaseShape, SchemaTypeOK, Kept, Owned, View, Starts, SameFile

LEMMA Writes ==
    ASSUME KeptInv, NEW t \in Threads, UNCHANGED chosen,
           NEW d, Alter(t, d) \/ Change(t, d), IsDb(d),
           Owned(d), SameFile(View(t), d),
           "role" \in chosen => d.role.second = "admin" /\ d.flag,
           "row" \in chosen => d.row = "chosen",
           chapter = "users" => (View(t).flag => d.flag)
    PROVE  Written(t) /\ Sees(t)
<1>1. Kept(stored)' /\ Kept(draft)'
  BY DEF Alter, Change, Kept, Owned, KeptInv
<1>2. /\ IsDb(stored') /\ IsDb(draft')
      /\ writer' \in Threads \cup {Nobody} /\ (writer' = Nobody => draft' = stored')
      /\ \A u \in Threads \ {t} : writer = u <=> writer' = u
      /\ writer \in Threads \ {t} => draft' = draft /\ stored' = stored
  BY ThreadNames DEF Alter, Change, KeptInv, DatabaseShape, SchemaTypeOK, MayWrite
<1>3. ASSUME chapter = "users"
      PROVE  /\ stored.flag => stored'.flag
             /\ stored'.flag => draft'.flag
             /\ View(t).flag => View(t)'.flag
  BY <1>3, ThreadNames
  DEF Alter, Change, KeptInv, DatabaseShape, SchemaTypeOK, MayWrite, View, Starts
<1>4. SameFile(stored, stored') /\ SameFile(stored', draft')
  BY DEF Alter, Change, KeptInv, View, Starts, SameFile
<1> QED BY <1>1, <1>2, <1>3, <1>4 DEF Written, Sees

(* A write that leaves alone what people chose.                            *)
Alike(d, e) == /\ IsDb(e) /\ e.legacy = d.legacy /\ e.role = d.role
               /\ e.flag = d.flag /\ e.row = d.row

LEMMA ViewKept == ASSUME KeptInv, NEW t \in Threads PROVE IsDb(View(t)) /\ Kept(View(t))
BY DEF KeptInv, DatabaseShape, View

LEMMA WritesAlike ==
    ASSUME KeptInv, NEW t \in Threads, UNCHANGED chosen,
           NEW e, Alter(t, e) \/ Change(t, e), Alike(View(t), e),
           \/ e.old = View(t).old
           \/ /\ View(t).old # "none" /\ e.old # "none"
              /\ e.old = "lost" => View(t).legacy # "none"
    PROVE  Written(t) /\ Sees(t)
BY ViewKept, Writes DEF Alike, Kept, Owned, SameFile

LEMMA Committed ==
    ASSUME KeptInv, NEW t \in Threads, UNCHANGED chosen, writer = t, stored' = draft,
           writer' = Nobody, UNCHANGED draft
    PROVE  Written(t) /\ (View(t).flag => stored'.flag)
BY ThreadNames DEF Written, KeptInv, DatabaseShape, SchemaTypeOK, Kept, Owned, View, Starts, SameFile

LEMMA RolledBack ==
    ASSUME KeptInv, NEW t \in Threads, UNCHANGED <<stored, chosen>>,
           writer' = IF writer = t THEN Nobody ELSE writer,
           draft' = IF writer = t THEN stored ELSE draft
    PROVE  Written(t)
BY ThreadNames DEF Written, KeptInv, DatabaseShape, SchemaTypeOK, Kept, Owned, View, Starts, SameFile

(* A thread that goes on to the next statement.                            *)
LEMMA Going ==
    ASSUME KeptInv, NEW t \in Threads, NEW s \in Now(t), Written(t),
           NEW x, GoesOn(t), Learns(t, x), UNCHANGED <<chapter, chosen, conn, ready, tries>>,
           cuts' \in 0..MaxCuts, (Migrated(t) /\ Copied(t))'
    PROVE  KeptInv'
<1>1. /\ pc[t] + 1 \in Nat /\ pc[t] + 1 <= Len(Script) + 1
      /\ pc' = [pc EXCEPT ![t] = pc[t] + 1] /\ told' = [told EXCEPT ![t] = x]
  BY AtStatement DEF KeptInv, GoesOn, Learns
<1>2. /\ conn' \in [Threads -> BOOLEAN] /\ ready' \in BOOLEAN /\ tries' \in 0..StartupCalls
      /\ \A u \in Threads : conn'[u] => ready'
      /\ chapter = "users" => (ready' => stored'.flag)
  BY DEF KeptInv, DatabaseShape, SchemaTypeOK, Starts, Written
<1>3. pc'[Main] > 0 => tries' < StartupCalls
  <2>1. pc'[Main] > 0 => pc[Main] > 0
    BY <1>1, AtStatement, ThreadNames DEF KeptInv
  <2> QED BY <2>1 DEF KeptInv, DatabaseShape
<1> QED BY <1>1, <1>2, <1>3, Moves

(* Most statements come to no place that matters.                          *)
LEMMA Elsewhere ==
    ASSUME KeptInv, NEW t \in Threads, NEW s \in Now(t), Written(t), GoesOn(t),
           UNCHANGED <<chapter, chosen>>,
           s.op \notin {"flaglook", "roles", "copy", "commit"}
    PROVE  (Migrated(t) /\ Copied(t))'
<1>1. pc'[t] = pc[t] + 1 /\ pc[t] \in Nat
  BY AtStatement DEF KeptInv, GoesOn
<1>2. Copied(t)'
  BY <1>1, Where DEF Copied, KeptInv
<1>3. Migrated(t)'
  BY <1>1, Where DEF Migrated, KeptInv, Written
<1> QED BY <1>2, <1>3

LEMMA Plainly ==
    ASSUME KeptInv, NEW t \in Threads, NEW s \in Now(t), Written(t), NEW x,
           GoesOn(t), Learns(t, x), RestSame,
           s.op \notin {"flaglook", "roles", "copy", "commit"}
    PROVE  KeptInv'
BY Going, Elsewhere DEF RestSame, KeptInv, DatabaseShape, SchemaTypeOK

LEMMA RaiseKept ==
    ASSUME KeptInv, NEW t \in Threads, pc[t] > 0, Leaves(t), cuts' \in 0..MaxCuts
    PROVE  KeptInv'
<1>1. Written(t)
  BY RolledBack DEF Leaves
<1>2. pc' = [pc EXCEPT ![t] = 0] /\ told' = [told EXCEPT ![t] = {}] /\ pc'[t] = 0
  BY DEF Leaves, Learns, KeptInv, DatabaseShape, SchemaTypeOK
<1>3. (Migrated(t) /\ Copied(t))'
  BY <1>2 DEF Migrated, Copied
<1>4. 0 \in Nat /\ 0 <= Len(Script) + 1
  BY ScriptLength DEF KeptInv, DatabaseShape, SchemaTypeOK
<1>5. tries' \in 0..StartupCalls /\ (pc'[Main] > 0 => tries' < StartupCalls)
  <2>1. CASE t = Main
    <3>1. tries < StartupCalls /\ tries' = tries + 1 /\ tries \in 0..StartupCalls
      BY <2>1 DEF Leaves, KeptInv, DatabaseShape, SchemaTypeOK
    <3> QED BY <1>2, <2>1, <3>1, SchemaConstants
  <2>2. CASE t # Main
    BY <1>2, <2>2, ThreadNames DEF Leaves, KeptInv, DatabaseShape, SchemaTypeOK
  <2> QED BY <2>1, <2>2
<1>6. /\ conn' \in [Threads -> BOOLEAN] /\ ready' \in BOOLEAN
      /\ \A u \in Threads : conn'[u] => ready'
      /\ chapter = "users" => (ready' => stored'.flag)
  BY <1>1 DEF Leaves, KeptInv, DatabaseShape, SchemaTypeOK, Starts, Written
<1> QED BY <1>1, <1>2, <1>3, <1>4, <1>5, <1>6, Moves DEF Leaves

LEMMA CreateTablesKept ==
    ASSUME KeptInv, NEW t \in Threads, NEW s \in Now(t), CreateTables(t, s) PROVE KeptInv'
<1>1. s.op = "create" /\ GoesOn(t) /\ Learns(t, told[t]) /\ RestSame
  BY DEF CreateTables
<1> DEFINE d == View(t)
           e == [d EXCEPT !.tables = @ \cup (s.t \ d.tables),
                          !.cols = @ \cup ((s.t \ d.tables) \X s.c)]
<1>2. DatabaseSame \/ Alter(t, e)
  BY DEF CreateTables
<1>3. Alike(d, e) /\ e.old = d.old
  BY ViewKept DEF Alike, IsDb, Fields
<1>4. Written(t)
  BY <1>1, <1>2, <1>3, NotWritten, WritesAlike DEF RestSame
<1> QED BY <1>1, <1>4, Plainly

LEMMA TableInfoKept ==
    ASSUME KeptInv, NEW t \in Threads, NEW s \in Now(t), TableInfo(t, s) PROVE KeptInv'
<1>1. Written(t)
  BY NotWritten DEF TableInfo, RestSame
<1> QED BY <1>1, Plainly DEF TableInfo

LEMMA SkipKept ==
    ASSUME KeptInv, NEW t \in Threads, NEW s \in Now(t), Skip(t),
           s.op \notin {"flaglook", "roles", "copy", "commit"}
    PROVE  KeptInv'
<1>1. Written(t)
  BY NotWritten DEF Skip, RestSame
<1> QED BY <1>1, Plainly DEF Skip

LEMMA RaisesKept ==
    ASSUME KeptInv, NEW t \in Threads, NEW s \in Now(t), Raise(t) PROVE KeptInv'
<1>1. pc[t] > 0 /\ cuts' \in 0..MaxCuts
  BY AtStatement DEF Raise, KeptInv, DatabaseShape, SchemaTypeOK
<1> QED BY <1>1, RaiseKept DEF Raise

ForColumn(s) == s.op \in {"add", "try"}

LEMMA ColumnKept ==
    ASSUME KeptInv, NEW t \in Threads, NEW s \in Now(t), NEW c, ForColumn(s),
           Alter(t, [View(t) EXCEPT !.cols = @ \cup {<<s.t, c>>}]),
           GoesOn(t), Learns(t, told[t]), RestSame
    PROVE  KeptInv'
<1> DEFINE d == View(t)
           e == [d EXCEPT !.cols = @ \cup {<<s.t, c>>}]
<1>1. Alike(d, e) /\ e.old = d.old
  BY ViewKept DEF Alike, IsDb, Fields
<1>2. Written(t)
  BY <1>1, WritesAlike DEF RestSame, ForColumn
<1> QED BY <1>2, Plainly DEF ForColumn

LEMMA AddColumnKept ==
    ASSUME KeptInv, NEW t \in Threads, NEW s \in Now(t), AddColumn(t, s) PROVE KeptInv'
BY SkipKept, RaisesKept, ColumnKept DEF AddColumn, ForColumn

LEMMA TryColumnKept ==
    ASSUME KeptInv, NEW t \in Threads, NEW s \in Now(t), TryColumn(t, s) PROVE KeptInv'
<1> DEFINE there == HasColumn(View(t), s.t, s.c)
<1>1. /\ s.op = "try"
      /\ there => Skip(t)
      /\ ~there => /\ Alter(t, [View(t) EXCEPT !.cols = @ \cup {<<s.t, s.c>>}])
                   /\ GoesOn(t) /\ Learns(t, told[t]) /\ RestSame
  BY DEF TryColumn
<1> HIDE DEF there
<1>2. ForColumn(s) /\ s.op \notin {"flaglook", "roles", "copy", "commit"}
  BY <1>1 DEF ForColumn
<1>3. CASE there
  <2>1. Skip(t)
    BY <1>1, <1>3
  <2> QED BY <1>2, <2>1, SkipKept
<1>4. CASE ~there
  <2>1. /\ Alter(t, [View(t) EXCEPT !.cols = @ \cup {<<s.t, s.c>>}])
        /\ GoesOn(t) /\ Learns(t, told[t]) /\ RestSame
    BY <1>1, <1>4
  <2> QED BY <1>2, <2>1, ColumnKept
<1> QED BY <1>3, <1>4

LEMMA BackfillKept ==
    ASSUME KeptInv, NEW t \in Threads, NEW s \in Now(t), Backfill(t, s) PROVE KeptInv'
<1>1. CASE Skip(t)
  BY <1>1, SkipKept DEF Backfill
<1>2. CASE Raise(t)
  BY <1>2, RaisesKept
<1>3. CASE ~Skip(t) /\ ~Raise(t)
  <2> DEFINE d == View(t)
             e == [d EXCEPT !.filled = @ \cup {s.t}]
  <2>1. Change(t, e) /\ GoesOn(t) /\ Learns(t, told[t]) /\ RestSame
    BY <1>3 DEF Backfill
  <2>2. Alike(d, e) /\ e.old = d.old
    BY ViewKept DEF Alike, IsDb, Fields
  <2>3. Written(t)
    BY <2>1, <2>2, WritesAlike DEF RestSame
  <2> QED BY <2>1, <2>3, Plainly DEF Backfill
<1> QED BY <1>1, <1>2, <1>3

LEMMA TouchKept ==
    ASSUME KeptInv, NEW t \in Threads, NEW s \in Now(t), Touch(t, s) PROVE KeptInv'
<1>1. Alike(View(t), View(t))
  BY ViewKept DEF Alike
<1>2. Written(t)
  BY <1>1, WritesAlike DEF Touch, RestSame
<1> QED BY <1>2, Plainly DEF Touch

LEMMA LookRowKept ==
    ASSUME KeptInv, NEW t \in Threads, NEW s \in Now(t), LookRow(t, s) PROVE KeptInv'
<1>1. Written(t)
  BY NotWritten DEF LookRow, RestSame
<1> QED BY <1>1, Plainly DEF LookRow

LEMMA SeedKept ==
    ASSUME KeptInv, NEW t \in Threads, NEW s \in Now(t), Seed(t, s) PROVE KeptInv'
<1>1. CASE Skip(t)
  BY <1>1, SkipKept DEF Seed
<1>2. CASE Raise(t)
  BY <1>2, RaisesKept
<1>3. CASE ~Skip(t) /\ ~Raise(t)
  <2> DEFINE d == View(t)
             e == [d EXCEPT !.row = "default"]
  <2>1. /\ Change(t, e) /\ GoesOn(t) /\ Learns(t, told[t]) /\ RestSame
        /\ d.row = "none"
    BY <1>3 DEF Seed
  <2>2. /\ IsDb(e) /\ e.old = d.old /\ e.legacy = d.legacy /\ e.role = d.role
        /\ e.flag = d.flag
    BY ViewKept DEF IsDb, Fields
  <2>3. "row" \notin chosen
    BY <2>1, ViewKept DEF Kept
  <2>4. Written(t)
    BY <2>1, <2>2, <2>3, ViewKept, Writes DEF RestSame, Kept, Owned,
     SameFile
  <2> QED BY <2>1, <2>4, Plainly DEF Seed
<1> QED BY <1>1, <1>2, <1>3

LEMMA MoveFavoritesKept ==
    ASSUME KeptInv, NEW t \in Threads, NEW s \in Now(t), MoveFavorites(t, s) PROVE KeptInv'
<1> DEFINE d == View(t)
           there == "favorites" \in d.tables
           without == [d EXCEPT !.tables = @ \ {"favorites"},
                                !.cols = {x \in @ : x[1] # "favorites"}]
           renamed == [without EXCEPT !.tables = @ \cup {V1},
                                      !.old = IF @ = "none" THEN @ ELSE "aside"]
           recreated == [d EXCEPT !.tables = @ \cup {"favorites"},
                                  !.cols = @ \cup {<<"favorites", "user_id">>}]
           copied == [d EXCEPT !.old = IF @ = "aside" THEN "copied" ELSE @]
           dropped == [d EXCEPT !.tables = @ \ {V1},
                                !.old = IF @ = "aside" THEN "lost" ELSE @]
           done == GoesOn(t) /\ Learns(t, told[t]) /\ RestSame
<1>1. CASE "user_id" \in told[t]
  <2>1. Skip(t) /\ s.op \in {"rename", "recreate", "copy", "drop"}
    BY <1>1 DEF MoveFavorites
  <2>2. Written(t)
    BY <2>1, NotWritten DEF Skip, RestSame
  <2>3. (Migrated(t) /\ Copied(t))'
    <3>1. pc'[t] = pc[t] + 1 /\ told'[t] = told[t]
      BY <2>1, AtStatement DEF Skip, GoesOn, Learns, KeptInv, DatabaseShape
    <3>2. chapter' = chapter /\ chapter # "users"
      BY <2>1, Where DEF Skip, RestSame, KeptInv
    <3> QED BY <1>1, <3>1, <3>2 DEF Migrated, Copied
  <2> QED BY <2>1, <2>2, <2>3, Going DEF Skip, RestSame, KeptInv, DatabaseShape, SchemaTypeOK
<1>2. CASE Raise(t)
  BY <1>2, RaisesKept
<1>3. CASE "user_id" \notin told[t] /\ ~Raise(t)
  <2>1. CASE s.op = "rename"
    <3>1. done /\ Alter(t, renamed)
      BY <1>3, <2>1 DEF MoveFavorites
    <3>2. /\ Alike(d, renamed)
          /\ renamed.old = d.old \/ (d.old # "none" /\ renamed.old = "aside")
      BY ViewKept DEF Alike, IsDb, Fields
    <3>3. Written(t)
      BY <3>1, <3>2, WritesAlike DEF RestSame
    <3> QED BY <2>1, <3>1, <3>3, Plainly
  <2>2. CASE s.op = "recreate"
    <3>1. done /\ Alter(t, recreated)
      BY <1>3, <2>2 DEF MoveFavorites
    <3>2. Alike(d, recreated) /\ recreated.old = d.old
      BY ViewKept DEF Alike, IsDb, Fields
    <3>3. Written(t)
      BY <3>1, <3>2, WritesAlike DEF RestSame
    <3> QED BY <2>2, <3>1, <3>3, Plainly
  <2>3. CASE s.op = "copy"
    <3>0. /\ chapter = "favorites"
          /\ d.legacy = "none" /\ d.old # "none" => d.role.first # "none"
      BY <2>3, Where, ViewKept DEF KeptInv, Kept, Owned
    <3>1. /\ done
          /\ \/ d.role.first = "none" /\ DatabaseSame
             \/ d.role.first # "none" /\ Change(t, copied)
      BY <1>3, <2>3 DEF MoveFavorites
    <3>2. /\ Alike(d, copied) /\ copied.old # "aside"
          /\ copied.old = d.old \/ (d.old # "none" /\ copied.old = "copied")
      BY ViewKept DEF Alike, IsDb, Fields
    <3>3. Written(t)
      BY <3>1, <3>2, NotWritten, WritesAlike DEF RestSame
    <3>4. (Migrated(t) /\ Copied(t))'
      <4>1. chapter' = chapter /\ chapter # "users"
        BY <3>0, <3>1 DEF RestSame
      <4>2. CASE Change(t, copied)
        <5>1. writer' = t /\ draft'.old # "aside"
          BY <3>2, <4>2 DEF Change
        <5> QED BY <4>1, <5>1 DEF Migrated, Copied
      <4>3. CASE d.role.first = "none" /\ DatabaseSame
        <5>1. stored.legacy = "none" => stored.old = "none"
          BY <3>0, <4>3 DEF KeptInv, Starts, View, SameFile
        <5> QED BY <4>1, <4>3, <5>1 DEF Migrated, Copied, DatabaseSame
      <4> QED BY <3>1, <4>2, <4>3
    <3> QED BY <3>1, <3>3, <3>4, Going DEF RestSame, KeptInv, DatabaseShape, SchemaTypeOK
  <2>4. CASE s.op = "drop"
    <3>1. done /\ Alter(t, dropped)
      BY <1>3, <2>4 DEF MoveFavorites
    <3>2. d.legacy = "none" => d.old # "aside"
      BY <1>3, <2>4, Where DEF Copied, KeptInv, View, Starts, SameFile
    <3>3. /\ Alike(d, dropped)
          /\ \/ dropped.old = d.old
             \/ d.old = "aside" /\ dropped.old = "lost" /\ d.legacy # "none"
      BY <3>2, ViewKept DEF Alike, IsDb, Fields
    <3>4. Written(t)
      BY <3>1, <3>3, WritesAlike DEF RestSame
    <3> QED BY <2>4, <3>1, <3>4, Plainly
  <2> QED BY <2>1, <2>2, <2>3, <2>4 DEF MoveFavorites
<1> QED BY <1>1, <1>2, <1>3

LEMMA MoveLoginKept ==
    ASSUME KeptInv, NEW t \in Threads, NEW s \in Now(t), MoveLogin(t, s) PROVE KeptInv'
<1>1. s.op = "legacy" /\ GoesOn(t) /\ Learns(t, told[t]) /\ RestSame
  BY DEF MoveLogin
<1> DEFINE d == View(t)
           e == [d EXCEPT !.legacy = "moved", !.role.first = "superuser"]
<1>2. DatabaseSame \/ (Change(t, e) /\ d.legacy = "here")
  BY DEF MoveLogin
<1>3. /\ IsDb(e) /\ e.old = d.old /\ e.legacy = "moved" /\ e.flag = d.flag /\ e.row = d.row
      /\ e.role.first = "superuser" /\ e.role.second = d.role.second
  BY ViewKept DEF IsDb, Fields
<1>4. Written(t)
  BY <1>1, <1>2, <1>3, NotWritten, ViewKept, Writes DEF RestSame, Kept, Owned,
     SameFile
<1> QED BY <1>1, <1>4, Plainly

LEMMA LookFlagKept ==
    ASSUME KeptInv, NEW t \in Threads, NEW s \in Now(t), LookFlag(t, s) PROVE KeptInv'
<1> DEFINE x == IF View(t).flag THEN {"flag"} ELSE {}
<1>1. s.op = "flaglook" /\ GoesOn(t) /\ Learns(t, x) /\ RestSame /\ DatabaseSame
  BY DEF LookFlag
<1>2. Written(t) /\ View(t)' = View(t)
  BY <1>1, NotWritten DEF RestSame, DatabaseSame, View
<1>3. (Migrated(t) /\ Copied(t))'
  <2>1. chapter = "users" /\ chapter' = chapter /\ pc'[t] = 5 /\ told'[t] = x /\ chosen' = chosen
    BY <1>1, Where, AtStatement DEF GoesOn, Learns, RestSame, KeptInv, DatabaseShape
  <2>2. View(t)'.flag = View(t).flag
    BY <1>2
  <2>3. "role" \in chosen => View(t).flag
    BY ViewKept DEF Kept
  <2> QED BY <2>1, <2>2, <2>3 DEF Migrated, Copied
<1> QED BY <1>1, <1>2, <1>3, Going DEF RestSame, KeptInv, DatabaseShape, SchemaTypeOK

LEMMA MigrateRolesKept ==
    ASSUME KeptInv, NEW t \in Threads, NEW s \in Now(t), MigrateRoles(t, s) PROVE KeptInv'
<1>1. s.op = "roles" /\ GoesOn(t) /\ Learns(t, told[t]) /\ RestSame
  BY DEF MigrateRoles
<1>2. chapter = "users" /\ chapter' = chapter /\ pc[t] = 5 /\ pc'[t] = 6
  BY <1>1, Where, AtStatement DEF GoesOn, RestSame, KeptInv
<1>3. CASE "flag" \in told[t]
  <2>1. Written(t) /\ DatabaseSame
    BY <1>1, <1>3, NotWritten DEF RestSame, MigrateRoles
  <2>2. (Migrated(t) /\ Copied(t))'
    BY <1>2, <1>3, <2>1 DEF KeptInv, Migrated, Copied, View, DatabaseSame
  <2> QED BY <1>1, <2>1, <2>2, Going DEF RestSame, KeptInv, DatabaseShape, SchemaTypeOK
<1>4. CASE "flag" \notin told[t]
  <2> DEFINE d == View(t)
             e == [d EXCEPT !.role = [u \in DOMAIN @ |-> NewRole(@[u])], !.flag = TRUE]
  <2>1. Change(t, e)
    BY <1>4 DEF MigrateRoles
  <2>2. /\ IsDb(e) /\ e.old = d.old /\ e.legacy = d.legacy /\ e.row = d.row /\ e.flag
        /\ e.role.first = NewRole(d.role.first)
    BY ViewKept DEF IsDb, Fields
  <2>3. d.role.first # "none" => e.role.first # "none"
    BY <2>2 DEF NewRole
  <2>4. "role" \notin chosen
    BY <1>2, <1>4 DEF KeptInv, Migrated
  <2>5. Written(t)
    BY <1>1, <2>1, <2>2, <2>3, <2>4, ViewKept, Writes DEF RestSame, Kept, Owned,
     SameFile
  <2>6. (Migrated(t) /\ Copied(t))'
    BY <1>2, <2>1, <2>2 DEF Migrated, Copied, View, Change
  <2> QED BY <1>1, <2>5, <2>6, Going DEF RestSame, KeptInv, DatabaseShape, SchemaTypeOK
<1> QED BY <1>3, <1>4

LEMMA CommitKept ==
    ASSUME KeptInv, NEW t \in Threads, NEW s \in Now(t), Commit(t, s) PROVE KeptInv'
<1>1. s.op = "commit" /\ GoesOn(t) /\ Learns(t, told[t]) /\ RestSame
  BY DEF Commit
<1>2. Written(t) /\ (chapter = "users" => (View(t).flag => stored'.flag))
  <2>1. CASE writer = t
    BY <1>1, <2>1, Committed DEF Commit, RestSame
  <2>2. CASE writer # t
    BY <1>1, <2>2, NotWritten DEF Commit, RestSame, DatabaseSame, View
  <2> QED BY <2>1, <2>2
<1>3. (Migrated(t) /\ Copied(t))'
  <2>1. pc'[t] = pc[t] + 1 /\ pc[t] \in Nat /\ chapter' = chapter
    BY <1>1, AtStatement DEF KeptInv, GoesOn, RestSame
  <2>2. Copied(t)'
    BY <1>1, <2>1, Where DEF Copied, KeptInv
  <2>3. chapter = "users" => pc[t] \notin {4, 5} /\ ~(pc[t] > 6)
    BY <1>1, Where DEF KeptInv
  <2>4. Migrated(t)'
    BY <1>2, <2>1, <2>3 DEF Migrated, KeptInv
  <2> QED BY <2>2, <2>4
<1> QED BY <1>1, <1>2, <1>3, Going DEF RestSame, KeptInv, DatabaseShape, SchemaTypeOK

LEMMA StatementKept == ASSUME KeptInv, NEW t \in Threads, Statement(t) PROVE KeptInv'
<1> SUFFICES ASSUME NEW s \in Now(t),
       \/ CreateTables(t, s) \/ TableInfo(t, s) \/ AddColumn(t, s) \/ TryColumn(t, s)
       \/ Backfill(t, s) \/ MoveFavorites(t, s) \/ MoveLogin(t, s) \/ LookFlag(t, s)
       \/ MigrateRoles(t, s) \/ LookRow(t, s) \/ Seed(t, s) \/ Touch(t, s) \/ Commit(t, s)
             PROVE  KeptInv'
  BY DEF Statement
<1> QED
  BY CreateTablesKept, TableInfoKept, AddColumnKept, TryColumnKept, BackfillKept,
     MoveFavoritesKept, MoveLoginKept, LookFlagKept, MigrateRolesKept, LookRowKept,
     SeedKept, TouchKept, CommitKept

LEMMA CallKept == ASSUME KeptInv, NEW t \in Threads, Call(t) PROVE KeptInv'
<1>1. Written(t)
  BY NotWritten DEF Call
<1>2. pc \in [Threads -> Nat] /\ pc[t] = 0 /\ Len(Script) \in Nat
  BY ScriptLength DEF Call, MayCall, KeptInv, DatabaseShape, SchemaTypeOK
<1>3. /\ cuts' \in 0..MaxCuts /\ tries' \in 0..StartupCalls /\ ready' \in BOOLEAN
      /\ UNCHANGED <<chapter, chosen>>
  BY DEF Call, KeptInv, DatabaseShape, SchemaTypeOK
<1>4. told' = [told EXCEPT ![t] = {}]
  BY DEF Call, Learns
<1>5. CASE ready
  <2>1. pc' = [pc EXCEPT ![t] = 0] /\ conn' = [conn EXCEPT ![t] = TRUE] /\ pc'[t] = 0
    BY <1>2, <1>5 DEF Call
  <2>2. (Migrated(t) /\ Copied(t))'
    BY <2>1 DEF Migrated, Copied
  <2>3. /\ conn' \in [Threads -> BOOLEAN] /\ \A u \in Threads : conn'[u] => ready'
        /\ chapter = "users" => (ready' => stored'.flag)
        /\ pc'[Main] > 0 => tries' < StartupCalls
    BY <1>1, <1>2, <1>5, <2>1, ThreadNames
    DEF Call, KeptInv, DatabaseShape, SchemaTypeOK, Starts, Written
  <2>4. 0 \in Nat /\ 0 <= Len(Script) + 1
    BY <1>2
  <2> QED BY <1>1, <1>3, <1>4, <2>1, <2>2, <2>3, <2>4, Moves
<1>6. CASE ~ready
  <2>1. pc' = [pc EXCEPT ![t] = 1] /\ conn' = conn /\ pc'[t] = 1
    BY <1>2, <1>6 DEF Call, GoesOn
  <2>2. (Migrated(t) /\ Copied(t))'
    BY <2>1 DEF Migrated, Copied
  <2>3. /\ conn' \in [Threads -> BOOLEAN] /\ \A u \in Threads : conn'[u] => ready'
        /\ chapter = "users" => (ready' => stored'.flag)
    BY <1>1, <1>6, <2>1 DEF Call, KeptInv, DatabaseShape, SchemaTypeOK, Starts, Written
  <2>4. pc'[Main] > 0 => tries' < StartupCalls
    BY <1>2, <2>1, ThreadNames DEF Call, MayCall, KeptInv, DatabaseShape
  <2>5. 1 \in Nat /\ 1 <= Len(Script) + 1
    BY <1>2
  <2> QED BY <1>1, <1>3, <1>4, <2>1, <2>2, <2>3, <2>4, <2>5, Moves
<1> QED BY <1>5, <1>6

LEMMA FinishKept == ASSUME KeptInv, NEW t \in Threads, Finish(t) PROVE KeptInv'
<1>1. Written(t)
  BY NotWritten DEF Finish
<1>2. /\ pc \in [Threads -> Nat] /\ Len(Script) \in Nat
      /\ pc' = [pc EXCEPT ![t] = 0] /\ pc'[t] = 0 /\ 0 \in Nat /\ 0 <= Len(Script) + 1
  BY ScriptLength DEF Finish, KeptInv, DatabaseShape, SchemaTypeOK
<1>3. /\ cuts' \in 0..MaxCuts /\ tries' \in 0..StartupCalls /\ ready' \in BOOLEAN
      /\ UNCHANGED <<chapter, chosen>> /\ told' = [told EXCEPT ![t] = {}]
      /\ conn' \in [Threads -> BOOLEAN] /\ \A u \in Threads : conn'[u] => ready'
  BY DEF Finish, Learns, KeptInv, DatabaseShape, SchemaTypeOK
<1>4. (Migrated(t) /\ Copied(t))'
  BY <1>2 DEF Migrated, Copied
<1>5. pc'[Main] > 0 => tries' < StartupCalls
  BY <1>2, ThreadNames DEF Finish, KeptInv, DatabaseShape
<1>6. chapter = "users" => (ready' => stored'.flag)
  <2> SUFFICES ASSUME chapter = "users" PROVE stored'.flag
    OBVIOUS
  <2>1. Len(Script) = 16
    BY InUsers, UsersScript
  <2>2. pc[t] > 6
    BY <2>1 DEF Finish
  <2> QED BY <2>2 DEF Finish, DatabaseSame, KeptInv, Migrated
<1> QED BY <1>1, <1>2, <1>3, <1>4, <1>5, <1>6, Moves

LEMMA StatementFailsKept ==
    ASSUME KeptInv, NEW t \in Threads, StatementFails(t) PROVE KeptInv'
<1> PICK s \in Now(t) : /\ cuts < MaxCuts /\ cuts' = cuts + 1
       /\ IF s.op = "try" THEN GoesOn(t) /\ DatabaseSame /\ Learns(t, told[t])
                               /\ UNCHANGED <<chapter, conn, ready, tries, chosen>>
          ELSE Leaves(t)
  BY DEF StatementFails
<1>1. cuts' \in 0..MaxCuts /\ pc[t] > 0
  BY SchemaConstants, AtStatement DEF KeptInv, DatabaseShape, SchemaTypeOK
<1>2. CASE s.op = "try"
  <2>1. Written(t)
    BY <1>2, NotWritten
  <2>2. (Migrated(t) /\ Copied(t))'
    BY <1>2, <2>1, Elsewhere
  <2> QED BY <1>1, <1>2, <2>1, <2>2, Going
<1>3. CASE s.op # "try"
  BY <1>1, <1>3, RaiseKept
<1> QED BY <1>2, <1>3

LEMMA SavedKept ==
    ASSUME KeptInv, NEW t \in Threads, GiveRole(t) \/ SavePath(t) PROVE KeptInv'
<1> DEFINE role == [stored EXCEPT !.role.second = "admin"]
           path == [stored EXCEPT !.row = "chosen"]
<1>1. /\ writer = Nobody /\ conn[t] /\ stored' = draft'
      /\ UNCHANGED <<chapter, writer, pc, told, conn, ready, tries, cuts>>
  BY DEF GiveRole, SavePath, Saved
<1>2. /\ stored'.old = stored.old /\ stored'.legacy = stored.legacy
      /\ stored'.role.first = stored.role.first /\ stored'.flag = stored.flag /\ IsDb(stored')
      /\ GiveRole(t) => stored'.role.second = "admin" /\ stored'.row = stored.row
      /\ SavePath(t) => stored'.row = "chosen" /\ stored'.role = stored.role
  BY DEF GiveRole, SavePath, Saved, KeptInv, DatabaseShape, IsDb, Fields
<1>3. DatabaseShape'
  BY <1>1, <1>2 DEF KeptInv, DatabaseShape, SchemaTypeOK, Script
<1>4. /\ "role" \in chosen' => "role" \in chosen \/ (GiveRole(t) /\ Quiet)
      /\ "row" \in chosen' => "row" \in chosen \/ SavePath(t)
  <2>1. CASE GiveRole(t)
    <3>1. chosen' = IF Quiet THEN chosen \cup {"role"} ELSE chosen
      BY <2>1 DEF GiveRole, Saved
    <3> QED BY <2>1, <3>1
  <2>2. CASE SavePath(t)
    <3>1. chosen' = IF Quiet THEN chosen \cup {"row"} ELSE chosen
      BY <2>2 DEF SavePath, Saved
    <3> QED BY <2>2, <3>1
  <2> QED BY <2>1, <2>2
<1>5. GiveRole(t) => chapter = "users" /\ stored.flag
  BY DEF GiveRole, Saved, KeptInv, Starts
<1>6. Kept(stored)' /\ Kept(draft)'
  BY <1>1, <1>2, <1>4, <1>5 DEF KeptInv, Kept, Owned
<1>7. Starts'
  BY <1>1, <1>2, <1>4, <1>5 DEF KeptInv, Starts, SameFile
<1>8. ASSUME NEW u \in Threads PROVE Migrated(u)' /\ Copied(u)'
  <2>1. Migrated(u) /\ Copied(u) /\ writer # u
    BY <1>1, ThreadNames DEF KeptInv
  <2>2. Copied(u)'
    BY <1>1, <1>2, <2>1 DEF Copied
  <2>3. Quiet => pc[u] = 0
    BY DEF Quiet
  <2>4. Migrated(u)'
    BY <1>1, <1>2, <1>4, <2>1, <2>3 DEF Migrated, View
  <2> QED BY <2>2, <2>4
<1> QED BY <1>3, <1>6, <1>7, <1>8 DEF KeptInv

LEMMA UnopenedKept == ASSUME KeptInv, Unopened(Main) PROVE KeptInv'
<1>1. tries' \in 0..StartupCalls /\ pc[Main] = 0
  BY SchemaConstants DEF Unopened, MayCall, KeptInv, DatabaseShape, SchemaTypeOK
<1> QED BY <1>1 DEF Unopened, DatabaseSame, KeptInv, DatabaseShape, SchemaTypeOK, Script,
                    Kept, Owned, Starts, SameFile, Migrated, Copied, View

LEMMA RestartKept == ASSUME KeptInv, RestartService PROVE KeptInv'
<1>1. cuts' \in 0..MaxCuts /\ tries' \in 0..StartupCalls /\ Script' = Script
  BY SchemaConstants DEF RestartService, KeptInv, DatabaseShape, SchemaTypeOK, Script
<1>2. pc' = [t \in Threads |-> 0] /\ Len(Script) \in Nat
  BY ScriptLength DEF RestartService, KeptInv, DatabaseShape, SchemaTypeOK
<1>3. DatabaseShape'
  <2>1. pc' \in [Threads -> Nat] /\ \A t \in Threads : pc'[t] <= Len(Script') + 1
    BY <1>1, <1>2
  <2>2. told' = [t \in Threads |-> told'[t]] /\ pc'[Main] = 0
    BY <1>2, ThreadNames DEF RestartService
  <2>3. conn' \in [Threads -> BOOLEAN] /\ ready' \in BOOLEAN
    BY DEF RestartService
  <2> QED BY <1>1, <2>1, <2>2, <2>3 DEF RestartService, KeptInv, DatabaseShape, SchemaTypeOK
<1>4. Kept(stored)' /\ Kept(draft)' /\ Starts'
  BY DEF RestartService, KeptInv, Kept, Owned, Starts, SameFile
<1>5. \A u \in Threads : Migrated(u)' /\ Copied(u)'
  BY <1>2 DEF Migrated, Copied
<1> QED BY <1>3, <1>4, <1>5 DEF KeptInv

LEMMA NextKept == ASSUME KeptInv, [SchemaNext]_schemaVars PROVE KeptInv'
<1>1. ASSUME NEW t \in Threads, Step(t) PROVE KeptInv'
  BY <1>1, CallKept, StatementKept, FinishKept DEF Step
<1>2. CASE UNCHANGED schemaVars
  BY <1>2 DEF schemaVars, KeptInv, DatabaseShape, SchemaTypeOK, Script, Kept, Owned,
              Starts, SameFile, Migrated, Copied, View
<1> QED BY <1>1, <1>2, StatementFailsKept, SavedKept, UnopenedKept, RestartKept DEF SchemaNext

LEMMA InitKept == SchemaInit => KeptInv
<1> SUFFICES ASSUME SchemaInit PROVE KeptInv
  OBVIOUS
<1>1. \A d \in {Fresh, SingleLogin(chapter), TwoRoles(chapter)} :
         IsDb(d) /\ Owned(d) /\ ~d.flag
  <2>1. IsDb(Fresh) /\ Fresh.old = "none" /\ Fresh.legacy = "none" /\ ~Fresh.flag
    BY DEF Fresh, IsDb, Fields
  <2>2. /\ IsDb(SingleLogin(chapter)) /\ SingleLogin(chapter).old = "here"
        /\ SingleLogin(chapter).legacy = "here" /\ ~SingleLogin(chapter).flag
    BY <2>1 DEF SingleLogin, IsDb, Fields
  <2>3. /\ IsDb(TwoRoles(chapter)) /\ TwoRoles(chapter).old = "here"
        /\ TwoRoles(chapter).legacy = "none" /\ ~TwoRoles(chapter).flag
        /\ TwoRoles(chapter).role.first = "admin"
    BY <2>1 DEF TwoRoles, IsDb, Fields
  <2> QED BY <2>1, <2>2, <2>3 DEF Owned
<1>2. /\ pc \in [Threads -> Nat] /\ (\A t \in Threads : pc[t] = 0) /\ Len(Script) \in Nat
  <2>1. pc \in [Threads -> Nat] /\ (\A t \in Threads : pc[t] = 0)
    BY DEF SchemaInit
  <2> QED BY <2>1, ScriptLength DEF SchemaInit
<1>3. DatabaseShape
  <2>1. IsDb(stored) /\ IsDb(draft)
    BY <1>1 DEF SchemaInit
  <2>2. \A t \in Threads : pc[t] <= Len(Script) + 1
    BY <1>2
  <2>3. told = [t \in Threads |-> told[t]] /\ conn \in [Threads -> BOOLEAN] /\ pc[Main] = 0
    BY <1>2, ThreadNames DEF SchemaInit
  <2>4. tries \in 0..StartupCalls /\ cuts \in 0..MaxCuts
    BY SchemaConstants DEF SchemaInit
  <2>5. chapter \in ChapterNames /\ writer \in Threads \cup {Nobody} /\ ready \in BOOLEAN
    BY DEF SchemaInit
  <2>6. draft = stored
    BY DEF SchemaInit
  <2>7. SchemaTypeOK
    BY <1>2, <2>2, <2>3, <2>4, <2>5, <2>6 DEF SchemaTypeOK
  <2> QED BY <2>1, <2>3, <2>7 DEF DatabaseShape
<1>4. Kept(stored) /\ Kept(draft) /\ Starts
  BY <1>1 DEF SchemaInit, Kept, Starts, SameFile
<1> QED BY <1>2, <1>3, <1>4 DEF KeptInv, Migrated, Copied

(* A migration runs over old data only: a role given and a path chosen     *)
(* survive every later start of get_db, its failures and its races, and    *)
(* neither the account of an older file nor the favorites of one that has  *)
(* accounts are destroyed.                                                 *)
THEOREM ChoicesAlwaysKept == SchemaSpec => []ChoicesKept
<1>1. KeptInv => ChoicesKept
  BY DEF KeptInv, Kept, Owned, ChoicesKept
<1> QED BY <1>1, InitKept, NextKept, PTL DEF SchemaSpec
=============================================================================
