------------------------- MODULE SchemaWholeProofs --------------------------
(***************************************************************************)
(* What the migrations of the database leave behind, for every number of   *)
(* threads, failures and restarts: the columns, and the rows filled.       *)
(***************************************************************************)
EXTENDS SchemaProofs

(***************************************************************************)
(* What a start leaves behind.                                             *)
(***************************************************************************)
Answers == {"look", "flaglook", "seedlook"}
Opening == {"fill", "touch", "seed", "legacy", "roles", "copy"}

(* A statement adds a column under a test that has been made, and a        *)
(* transaction that is opened is committed.                                *)
Tested(s) == \A i \in 1..Len(s) : s[i].op = "add" =>
                \E j \in 1..i - 1 : /\ s[j].op = "look" /\ s[j].t = s[i].t
                                    /\ \A k \in j + 1..i - 1 : s[k].op \notin Answers
Closed(s) == \A i \in 1..Len(s) : s[i].op \in Opening =>
                \E j \in i + 1..Len(s) : s[j].op = "commit"

(* A writer has its commit before it.                                      *)
Closing(t) == writer = t => pc[t] > 0 /\ \E j \in pc[t]..Len(Script) : Script[j].op = "commit"

(* The columns that the first n statements leave behind whatever fails.    *)
Own(s) == s.op = "add" /\ s.g = s.c
Leaving(s) == Own(s) \/ (s.op = "try" /\ cuts = 0)
Columns(d, n) == \A i \in 1..n : Leaving(Script[i]) =>
                    HasColumn(d, Script[i].t, Script[i].c)
(* Of what a thread was told it still sees every column.                   *)
StillSees(t) ==
    \A j \in 1..pc[t] - 1 :
       Script[j].op = "look" /\ (\A k \in j + 1..pc[t] - 1 : Script[k].op \notin Answers)
       => \A c \in told[t] : HasColumn(View(t), Script[j].t, c)
Growing == /\ stored.cols \subseteq draft.cols
           /\ ready => Columns(stored, Len(Script))
           /\ \A t \in Threads : Columns(View(t), pc[t] - 1) /\ StillSees(t)

(* Columns that are added together, the later ones under the test of the   *)
(* first, and that nothing else adds.                                      *)
GroupLines(k, m) == \A i \in k..k + m : /\ Script[i].op = "add" /\ Script[i].t = Script[k].t
                                         /\ Script[i].g = Script[k].c
OnlyThere(k, m) == \A i \in k..k + m, j \in 1..Len(Script) :
    /\ i # j /\ Script[j].op = "add" /\ Script[j].t = Script[k].t
       => Script[j].c # Script[i].c
    /\ Script[j].op = "create" /\ Script[k].t \in Script[j].t
       => Script[i].c \notin Script[j].c
Group(k, m) == /\ k \in 1..Len(Script) /\ m \in 1..2 /\ k + m <= Len(Script)
               /\ GroupLines(k, m) /\ OnlyThere(k, m)
               /\ \A j \in 1..Len(Script) : Script[j].op # "try"
Has(d, i) == HasColumn(d, Script[i].t, Script[i].c)
Amid(t, k, m) == pc[t] \in k + 1..k + m /\ Script[k].c \notin told[t]
OneAmid(k, m) == \A t, u \in Threads : Amid(t, k, m) /\ Amid(u, k, m) => t = u
Midway(t, k, m) == Amid(t, k, m) =>
    /\ \A i \in k..k + m : /\ Has(draft, i) <=> i < pc[t]
                           /\ writer # t => (Has(stored, i) <=> i < pc[t])
    /\ writer = t => ~Has(stored, k)
Within(d, k) == \A x \in d.cols : x[1] = Script[k].t => x[1] \in d.tables
Coherent(d, k, m) ==
    /\ Has(d, k) => \/ \A i \in k..k + m : Has(d, i)
                    \/ \E t \in Threads : Amid(t, k, m)
    /\ \A i \in k..k + m : Has(d, i) => Has(d, k)
    /\ Within(d, k)
Together(k, m) == /\ OneAmid(k, m) /\ \A t \in Threads : Midway(t, k, m)
                  /\ Coherent(stored, k, m) /\ Coherent(draft, k, m)

(* While the main thread starts, nobody else does.                         *)
Starting == tries < StartupCalls /\ ~conn[Main]
Alone == /\ \A t \in Threads : conn[t] => pc[t] = 0
         /\ Starting => ~ready /\ \A p \in Pollers : pc[p] = 0 /\ writer # p
Filled(d, tb) == tb \in d.filled
MainAt(d, n, x) ==
    /\ n > 1 => "alert_config" \in d.tables
    /\ \A c \in d.cols : c[1] = "alert_config" => "alert_config" \in d.tables
    /\ n <= 2 => \A c \in ColumnsOf(d, "alert_config") : c = "on_dns_stuck"
    /\ n > 2 => /\ \A c \in x : c = "on_dns_stuck"
                /\ \A i \in 3..14 : Script[i].op = "add" =>
                      /\ i >= n /\ Has(d, i) => Script[i].g \in x
                      /\ i < n => Script[i].g \in x \/ Has(d, i)
    /\ n > 7 => Filled(d, "alert_config")
MainOfAlerts == MainAt(View(Main), pc[Main], told[Main])
FilledByMain(tb) == cuts = 0 /\ conn[Main] => Filled(stored, tb)

(***************************************************************************)
(* Every chapter asks before it adds, and commits what it opens.           *)
(***************************************************************************)
Sound(s) == Len(s) \in Nat /\ Tested(s) /\ Closed(s)
Asking(s, tb) == /\ Sound(s)
                 /\ \E j \in 1..Len(s) : /\ s[j].op = "look" /\ s[j].t = tb
                                         /\ \A k \in j + 1..Len(s) : s[k].op \notin Answers

LEMMA TheFields ==
    /\ \A t : Look(t).t = t
    /\ \A t, g, c : Add(t, g, c).t = t /\ Add(t, g, c).g = g /\ Add(t, g, c).c = c
    /\ \A t, c : Try(t, c).t = t /\ Try(t, c).c = c
    /\ \A t, cs : Table(t, cs).t = {t} /\ Table(t, cs).c = cs
    /\ \A ts : Tables(ts).t = ts /\ Tables(ts).c = {}
    /\ \A op, t, g, c : Stmt(op, t, g, c).t = t /\ Stmt(op, t, g, c).g = g
                        /\ Stmt(op, t, g, c).c = c
BY DEF Look, Add, Try, Table, Tables, Stmt

LEMMA JoinedTested ==
    ASSUME NEW s, NEW u, Len(s) \in Nat, Len(u) \in Nat, Tested(s), Tested(u)
    PROVE  Tested(s \o u)
<1> DEFINE n == Len(s)
           w == s \o u
<1>1. /\ n \in Nat /\ Len(w) = n + Len(u) /\ \A i \in 1..n : w[i] = s[i]
      /\ \A i \in 1..Len(u) : w[n + i] = u[i]
  BY Joined
<1> HIDE DEF n, w
<1> SUFFICES ASSUME NEW i \in 1..Len(w), w[i].op = "add"
             PROVE  \E j \in 1..i - 1 : /\ w[j].op = "look" /\ w[j].t = w[i].t
                                        /\ \A k \in j + 1..i - 1 : w[k].op \notin Answers
  BY DEF Tested, w
<1>2. CASE i <= n
  <2>1. i \in 1..Len(s) /\ s[i].op = "add" /\ w[i] = s[i]
    BY <1>1, <1>2 DEF n
  <2>2. PICK j \in 1..i - 1 : /\ s[j].op = "look" /\ s[j].t = s[i].t
                              /\ \A k \in j + 1..i - 1 : s[k].op \notin Answers
    BY <2>1 DEF Tested
  <2>3. w[j] = s[j] /\ \A k \in j + 1..i - 1 : w[k] = s[k]
    BY <1>1, <1>2
  <2> QED BY <2>1, <2>2, <2>3
<1>3. CASE i > n
  <2>1. i - n \in 1..Len(u) /\ w[i] = u[i - n] /\ i = n + (i - n)
    BY <1>1, <1>3
  <2>2. PICK j \in 1..(i - n) - 1 :
             /\ u[j].op = "look" /\ u[j].t = u[i - n].t
             /\ \A k \in j + 1..(i - n) - 1 : u[k].op \notin Answers
    BY <2>1 DEF Tested
  <2>3. n + j \in 1..i - 1 /\ w[n + j] = u[j]
    <3>1. j \in 1..Len(u) /\ n + j \in 1..i - 1
      BY <1>1, <2>1, <2>2
    <3> QED BY <1>1, <3>1
  <2>4. ASSUME NEW k \in n + j + 1..i - 1 PROVE w[k].op \notin Answers
    <3>1. k - n \in j + 1..(i - n) - 1 /\ k - n \in 1..Len(u)
      BY <1>1, <2>1, <2>2
    <3>2. n + (k - n) = k
      BY <1>1
    <3>3. w[n + (k - n)] = u[k - n]
      BY <1>1, <3>1
    <3> QED BY <2>2, <3>1, <3>2, <3>3
  <2> QED BY <2>1, <2>2, <2>3, <2>4
<1> QED BY <1>1, <1>2, <1>3

LEMMA JoinedClosed ==
    ASSUME NEW s, NEW u, Len(s) \in Nat, Len(u) \in Nat, Closed(s), Closed(u)
    PROVE  Closed(s \o u)
<1> DEFINE n == Len(s)
           w == s \o u
<1>1. /\ n \in Nat /\ Len(w) = n + Len(u) /\ \A i \in 1..n : w[i] = s[i]
      /\ \A i \in 1..Len(u) : w[n + i] = u[i]
  BY Joined
<1> HIDE DEF n, w
<1> SUFFICES ASSUME NEW i \in 1..Len(w), w[i].op \in Opening
             PROVE  \E j \in i + 1..Len(w) : w[j].op = "commit"
  BY DEF Closed, w
<1>2. CASE i <= n
  <2>1. i \in 1..Len(s) /\ s[i].op \in Opening
    BY <1>1, <1>2 DEF n
  <2>2. PICK j \in i + 1..Len(s) : s[j].op = "commit"
    BY <2>1 DEF Closed
  <2> QED BY <1>1, <2>2 DEF n
<1>3. CASE i > n
  <2>1. i - n \in 1..Len(u) /\ w[n + (i - n)] = u[i - n] /\ i = n + (i - n)
    BY <1>1, <1>3
  <2>2. PICK j \in (i - n) + 1..Len(u) : u[j].op = "commit"
    BY <2>1 DEF Closed
  <2>3. n + j \in i + 1..Len(w) /\ j \in 1..Len(u)
    BY <1>1, <2>1, <2>2
  <2> QED BY <1>1, <2>2, <2>3
<1> QED BY <1>1, <1>2, <1>3

LEMMA JoinedSound == ASSUME NEW s, NEW u, Sound(s), Sound(u) PROVE Sound(s \o u)
BY JoinedTested, JoinedClosed, Joined DEF Sound

LEMMA JoinedAsking ==
    ASSUME NEW s, NEW u, NEW tb, Sound(s), Asking(u, tb) PROVE Asking(s \o u, tb)
<1> DEFINE n == Len(s)
           w == s \o u
<1>1. /\ n \in Nat /\ Len(u) \in Nat /\ Len(w) = n + Len(u)
      /\ \A i \in 1..Len(u) : w[n + i] = u[i]
  BY Joined DEF Sound, Asking
<1>2. Sound(w)
  BY JoinedSound DEF Asking
<1> HIDE DEF n, w
<1>3. PICK j \in 1..Len(u) : /\ u[j].op = "look" /\ u[j].t = tb
                             /\ \A k \in j + 1..Len(u) : u[k].op \notin Answers
  BY DEF Asking
<1>4. n + j \in 1..Len(w) /\ w[n + j] = u[j]
  BY <1>1
<1>5. ASSUME NEW k \in n + j + 1..Len(w) PROVE w[k].op \notin Answers
  <2>1. k - n \in j + 1..Len(u) /\ k - n \in 1..Len(u) /\ n + (k - n) = k
    BY <1>1
  <2> QED BY <1>1, <1>3, <2>1
<1>6. Asking(w, tb)
  BY <1>2, <1>3, <1>4, <1>5 DEF Asking
<1> QED BY <1>6 DEF w

(* Additions may follow the question they are about.                       *)
LEMMA AskedAdds ==
    ASSUME NEW s, NEW u, NEW tb, Asking(s, tb), Len(u) \in Nat,
           \A i \in 1..Len(u) : u[i].op = "add" /\ u[i].t = tb
    PROVE  Asking(s \o u, tb)
<1> DEFINE n == Len(s)
           w == s \o u
<1>1. /\ n \in Nat /\ Len(w) = n + Len(u) /\ \A i \in 1..n : w[i] = s[i]
      /\ \A i \in n + 1..n + Len(u) : w[i] = u[i - n]
  BY Joined DEF Sound, Asking
<1> HIDE DEF n, w
<1>2. ASSUME NEW i \in n + 1..Len(w) PROVE w[i].op = "add" /\ w[i].t = tb
  <2>1. i - n \in 1..Len(u) /\ w[i] = u[i - n]
    BY <1>1, <1>2
  <2> QED BY <2>1
<1>3. PICK j \in 1..n : /\ s[j].op = "look" /\ s[j].t = tb
                        /\ \A k \in j + 1..n : s[k].op \notin Answers
  BY DEF Asking, n
<1>4. /\ w[j].op = "look" /\ w[j].t = tb /\ j \in 1..Len(w)
      /\ \A k \in j + 1..Len(w) : w[k].op \notin Answers
  <2>1. \A k \in j + 1..Len(w) : k \in j + 1..n \/ k \in n + 1..Len(w)
    BY <1>1
  <2>2. \A k \in j + 1..n : w[k] = s[k]
    BY <1>1
  <2> QED BY <1>1, <1>2, <1>3, <2>1, <2>2 DEF Answers
<1>5. Tested(w)
  <2> SUFFICES ASSUME NEW i \in 1..Len(w), w[i].op = "add"
               PROVE  \E l \in 1..i - 1 : /\ w[l].op = "look" /\ w[l].t = w[i].t
                                          /\ \A k \in l + 1..i - 1 : w[k].op \notin Answers
    BY DEF Tested
  <2>1. CASE i <= n
    <3>1. i \in 1..Len(s) /\ w[i] = s[i]
      BY <1>1, <2>1 DEF n
    <3>2. PICK l \in 1..i - 1 : /\ s[l].op = "look" /\ s[l].t = s[i].t
                                /\ \A k \in l + 1..i - 1 : s[k].op \notin Answers
      BY <3>1 DEF Asking, Sound, Tested
    <3>3. w[l] = s[l] /\ \A k \in l + 1..i - 1 : w[k] = s[k]
      BY <1>1, <2>1
    <3> QED BY <3>1, <3>2, <3>3
  <2>2. CASE i > n
    <3>1. w[i].t = tb /\ j \in 1..i - 1 /\ \A k \in j + 1..i - 1 : k \in j + 1..Len(w)
      BY <1>1, <1>2, <2>2
    <3> QED BY <1>4, <3>1
  <2> QED BY <1>1, <2>1, <2>2
<1>6. Closed(w)
  <2> SUFFICES ASSUME NEW i \in 1..Len(w), w[i].op \in Opening
               PROVE  \E l \in i + 1..Len(w) : w[l].op = "commit"
    BY DEF Closed
  <2>1. i \in 1..Len(s) /\ w[i] = s[i]
    BY <1>1, <1>2 DEF n, Opening
  <2>2. PICK l \in i + 1..Len(s) : s[l].op = "commit"
    BY <2>1 DEF Asking, Sound, Closed
  <2> QED BY <1>1, <2>2 DEF n
<1>7. Asking(w, tb)
  BY <1>1, <1>4, <1>5, <1>6 DEF Asking, Sound
<1> QED BY <1>7 DEF w

LEMMA AddsAdd ==
    ASSUME NEW tb, NEW cs, Len(cs) \in Nat
    PROVE  /\ Len(Adds(tb, cs)) = Len(cs)
           /\ \A i \in 1..Len(cs) : Adds(tb, cs)[i] = Add(tb, cs[i], cs[i])
BY DEF Adds

LEMMA AskedNext ==
    ASSUME NEW s, NEW tb, NEW cs, Asking(s, tb), Len(cs) \in Nat
    PROVE  Asking(s \o Adds(tb, cs), tb)
<1> DEFINE u == Adds(tb, cs)
<1>1. Len(u) \in Nat /\ \A i \in 1..Len(u) : u[i].op = "add" /\ u[i].t = tb
  <2>1. Len(u) = Len(cs) /\ \A i \in 1..Len(cs) : u[i] = Add(tb, cs[i], cs[i])
    BY AddsAdd
  <2> HIDE DEF u
  <2> QED BY <2>1, TheOps, TheFields
<1> QED BY <1>1, AskedAdds

LEMMA FirstAsks ==
    ASSUME NEW tb, NEW cs
    PROVE  Asking(<<Table(tb, cs), Look(tb)>>, tb)
<1> DEFINE s == <<Table(tb, cs), Look(tb)>>
<1>1. /\ Len(s) = 2 /\ s[1].op = "create" /\ s[2].op = "look" /\ s[2].t = tb
      /\ \A i \in 1..2 : i = 1 \/ i = 2
  BY TheOps, TheFields
<1> HIDE DEF s
<1>2. Asking(s, tb)
  BY <1>1 DEF Asking, Sound, Tested, Closed, Answers, Opening
<1> QED BY <1>2 DEF s

LEMMA TablesSound == \A ts : Sound(<<Tables(ts)>>)
<1> SUFFICES ASSUME NEW ts PROVE Sound(<<Tables(ts)>>)
  OBVIOUS
<1> DEFINE s == <<Tables(ts)>>
<1>1. Len(s) = 1 /\ s[1].op = "create" /\ \A i \in 1..1 : i = 1
  BY TheOps
<1> HIDE DEF s
<1>2. Sound(s)
  BY <1>1 DEF Sound, Tested, Closed, Opening
<1> QED BY <1>2 DEF s

LEMMA TriesSound ==
    ASSUME NEW tb, NEW cs, Len(cs) \in Nat PROVE Sound(Tries(tb, cs))
<1> DEFINE u == Tries(tb, cs)
<1>1. Len(u) \in Nat /\ \A i \in 1..Len(u) : u[i].op = "try"
  <2>1. Len(u) = Len(cs) /\ \A i \in 1..Len(cs) : u[i] = Try(tb, cs[i])
    BY Trying
  <2> HIDE DEF u
  <2> QED BY <2>1, TheOps
<1> HIDE DEF u
<1>2. Sound(u)
  BY <1>1 DEF Sound, Tested, Closed, Opening
<1> QED BY <1>2 DEF u

LEMMA AnnouncementsSound == Sound(Announcements)
<1> DEFINE first == <<Tables({"settings"})>>
           asks == <<Table("announcements",
                           {"idle_settle_sec", "tts_text", "tts_voice", "external_id",
                            "nws_expires", "max_defer_sec"}), Look("announcements")>>
           names == <<"idle_settle_sec", "tts_text", "tts_voice", "external_id",
                      "nws_expires", "max_defer_sec">>
<1>1. Sound(first) /\ Asking(asks, "announcements") /\ Len(names) \in Nat
  BY TablesSound, FirstAsks
<1>2. Announcements = (first \o asks) \o Adds("announcements", names)
  BY DEF Announcements
<1> HIDE DEF first, asks, names
<1>3. Asking(first \o asks, "announcements")
  BY <1>1, JoinedAsking
<1> QED BY <1>1, <1>2, <1>3, AskedNext DEF Asking

LEMMA ConnectorsSound == Sound(Connectors)
<1> DEFINE first == <<Tables({"permanent_links", "kiosk_temp_conns"}),
      Table("connectors", {"schedule_type", "schedule_days", "disconnect_all_first",
                            "disconnect_skip_permanent"}), Look("connectors")>>
<1>1. /\ Len(first) = 3 /\ first[1].op = "create" /\ first[2].op = "create"
      /\ first[3].op = "look" /\ first[3].t = "connectors"
      /\ \A i \in 1..3 : i = 1 \/ i = 2 \/ i = 3
  BY TheOps, TheFields
<1> HIDE DEF first
<1>2. Asking(first, "connectors")
  BY <1>1 DEF Asking, Sound, Tested, Closed, Answers, Opening
<1> QED BY <1>2, AskedNext DEF Connectors, first, Asking

LEMMA IdentifiersSound == Sound(Identifiers)
<1> DEFINE last == <<Table("connection_history", {"initiated_by"}), Look("connection_history"),
                     Add("connection_history", "initiated_by", "initiated_by")>>
<1>1. /\ Len(last) = 3 /\ last[1].op = "create" /\ last[2].op = "look" /\ last[3].op = "add"
      /\ last[2].t = last[3].t /\ \A i \in 1..3 : i = 1 \/ i = 2 \/ i = 3
  BY TheOps, TheFields
<1> HIDE DEF last
<1>2. Sound(last)
  <2>1. Tested(last)
    BY <1>1 DEF Tested
  <2> QED BY <1>1, <2>1 DEF Sound, Closed, Opening
<1> DEFINE first ==
       <<Table("id_configs", {"play_cmd", "sound_long", "sound_morse", "initial_sound",
                               "interval_sound", "final_sound"}), Look("id_configs")>>
       \o Adds("id_configs", <<"play_cmd", "interval_enabled", "sound_long", "sound_morse",
                               "initial_sound", "interval_sound", "final_sound">>)
<1>3. Sound(first)
  BY FirstAsks, AskedNext DEF Asking
<1> HIDE DEF first
<1>4. Identifiers = first \o last
  BY DEF Identifiers, first, last
<1> QED BY <1>2, <1>3, <1>4, JoinedSound

LEMMA HelpersSound == Sound(Helpers)
<1> DEFINE last == <<Tables({"recording_config"}),
         Table("stream_relay_config", {"overlay_website"}),
         Look("stream_relay_config"),
         Add("stream_relay_config", "overlay_website", "overlay_website"),
         Table("rx_audio_config", {"agc_enabled"}), Look("rx_audio_config"),
         Add("rx_audio_config", "agc_enabled", "agc_enabled"),
         Do("seedlook"), Do("seed"), Do("commit")>>
<1>1. /\ Len(last) = 10 /\ last[1].op = "create" /\ last[2].op = "create"
      /\ last[3].op = "look" /\ last[4].op = "add" /\ last[5].op = "create"
      /\ last[6].op = "look" /\ last[7].op = "add" /\ last[8].op = "seedlook"
      /\ last[9].op = "seed" /\ last[10].op = "commit"
      /\ last[3].t = last[4].t /\ last[6].t = last[7].t
  BY TheOps, TheFields
<1>2. \A i \in 1..10 : \/ i = 1 \/ i = 2 \/ i = 3 \/ i = 4 \/ i = 5 \/ i = 6 \/ i = 7 \/ i = 8
                       \/ i = 9 \/ i = 10
  OBVIOUS
<1> HIDE DEF last
<1>3. Tested(last)
  <2> SUFFICES ASSUME NEW i \in 1..10, last[i].op = "add"
               PROVE  /\ i = 4 \/ i = 7
                      /\ last[i - 1].op = "look" /\ last[i - 1].t = last[i].t
    BY <1>1 DEF Tested
  <2>1. i = 4 \/ i = 7
    BY <1>1, <1>2
  <2> QED BY <1>1, <2>1
<1>4. Closed(last)
  BY <1>1, <1>2 DEF Closed, Opening
<1> DEFINE first == <<Table("nws_alert_config", {"display_enabled", "zone_mode", "state"}),
                      Look("nws_alert_config")>>
                    \o Adds("nws_alert_config", <<"display_enabled", "zone_mode", "state">>)
<1>5. Sound(first)
  BY FirstAsks, AskedNext DEF Asking
<1> HIDE DEF first
<1>6. Helpers = first \o last
  BY DEF Helpers, first, last
<1> QED BY <1>1, <1>3, <1>4, <1>5, <1>6, JoinedSound DEF Sound

LEMMA KioskSound == Sound(Kiosk)
<1> DEFINE last == <<Tables({"chat_messages"}), Table("net_schedules", {"end_time"}),
                     Look("net_schedules"), Add("net_schedules", "end_time", "end_time")>>
           first == <<Tables({"node_lockouts", "kiosk_banner"}), Table("recordings", {})>>
           middle == Tries("recordings", <<"label">>)
<1>1. /\ Len(last) = 4 /\ last[1].op = "create" /\ last[2].op = "create"
      /\ last[3].op = "look" /\ last[4].op = "add" /\ last[3].t = last[4].t
      /\ \A i \in 1..4 : i = 1 \/ i = 2 \/ i = 3 \/ i = 4
  BY TheOps, TheFields
<1>2. /\ Len(first) = 2 /\ first[1].op = "create" /\ first[2].op = "create"
      /\ \A i \in 1..2 : i = 1 \/ i = 2
  BY TheOps
<1>3. Sound(middle)
  BY TriesSound
<1> HIDE DEF last, first, middle
<1>4. Tested(last)
  <2> SUFFICES ASSUME NEW i \in 1..4, last[i].op = "add"
               PROVE  /\ i = 4 /\ last[i - 1].op = "look" /\ last[i - 1].t = last[i].t
    BY <1>1 DEF Tested
  <2> QED BY <1>1
<1>5. Sound(last) /\ Sound(first)
  BY <1>1, <1>2, <1>4 DEF Sound, Tested, Closed, Opening
<1>6. Kiosk = (first \o middle) \o last
  BY DEF Kiosk, first, middle, last
<1> QED BY <1>3, <1>5, <1>6, JoinedSound

LEMMA BridgesScript ==
    /\ Len(Bridges) = 10
    /\ Bridges[1] = Tables({"meshtastic_config"})
    /\ Bridges[2] = Table("meshtastic_messages", {"packet_id"})
    /\ Bridges[3] = Look("meshtastic_messages")
    /\ Bridges[4] = Add("meshtastic_messages", "packet_id", "packet_id")
    /\ Bridges[5] = Tables({"meshtastic_node_names", "discord_relay_config",
                             "meshtastic_discord_relay_config", "irc_relay_config"})
    /\ Bridges[6] = Table("dvswitch_config", {"talkgroup_presets"})
    /\ Bridges[7] = Look("dvswitch_config")
    /\ Bridges[8] = Add("dvswitch_config", "talkgroup_presets", "talkgroup_presets")
    /\ Bridges[9] = Add("dvswitch_config", "latitude", "latitude")
    /\ Bridges[10] = Add("dvswitch_config", "latitude", "longitude")
    /\ \A i \in 1..10 : \/ i = 1 \/ i = 2 \/ i = 3 \/ i = 4 \/ i = 5 \/ i = 6 \/ i = 7 \/ i = 8
                        \/ i = 9 \/ i = 10
BY DEF Bridges

LEMMA BridgesSound == Sound(Bridges)
<1> USE BridgesScript
<1>1. /\ \A i \in {1, 2, 5, 6} : Bridges[i].op = "create"
      /\ Bridges[3].op = "look" /\ Bridges[7].op = "look"
      /\ \A i \in {4, 8, 9, 10} : Bridges[i].op = "add"
      /\ Bridges[4].t = Bridges[3].t
      /\ \A i \in 8..10 : Bridges[i].t = Bridges[7].t
  BY TheOps, TheFields
<1>2. Tested(Bridges)
  <2> SUFFICES ASSUME NEW i \in 1..10, Bridges[i].op = "add"
               PROVE  \E j \in 1..i - 1 :
                         /\ Bridges[j].op = "look" /\ Bridges[j].t = Bridges[i].t
                         /\ \A k \in j + 1..i - 1 : Bridges[k].op \notin Answers
    BY DEF Tested
  <2>1. CASE i = 4
    BY <1>1, <2>1
  <2>2. CASE i \in 8..10
    <3>1. \A k \in 8..i - 1 : Bridges[k].op = "add"
      BY <1>1
    <3> QED BY <1>1, <2>2, <3>1 DEF Answers
  <2> QED BY <1>1, <2>1, <2>2
<1>3. Closed(Bridges)
  BY <1>1 DEF Closed, Opening
<1> QED BY <1>2, <1>3 DEF Sound

LEMMA BridgesGroup ==
    ASSUME chapter = "bridges" PROVE Group(9, 1)
<1>1. Script = Bridges
  BY DEF Script, Chapter
<1>2. /\ \A i \in {1, 2, 5, 6} : Bridges[i].op = "create"
      /\ Bridges[3].op = "look" /\ Bridges[7].op = "look"
      /\ \A i \in {4, 8, 9, 10} : Bridges[i].op = "add"
      /\ Bridges[4].t = "meshtastic_messages" /\ \A i \in 8..10 : Bridges[i].t = "dvswitch_config"
      /\ Bridges[1].c = {} /\ Bridges[2].c = {"packet_id"} /\ Bridges[5].c = {}
      /\ Bridges[6].c = {"talkgroup_presets"}
      /\ Bridges[8].c = "talkgroup_presets" /\ Bridges[9].c = "latitude"
      /\ Bridges[10].c = "longitude" /\ Bridges[9].g = "latitude" /\ Bridges[10].g = "latitude"
  BY BridgesScript, TheOps, TheFields
<1>3. \A i \in 9..10 : i = 9 \/ i = 10
  OBVIOUS
<1>0. \A i \in 1..10 : \/ i = 1 \/ i = 2 \/ i = 3 \/ i = 4 \/ i = 5 \/ i = 6 \/ i = 7 \/ i = 8
                       \/ i = 9 \/ i = 10
  OBVIOUS
<1>4. \A i \in 9..10, j \in 1..10 :
         /\ i # j /\ Bridges[j].op = "add" /\ Bridges[j].t = Bridges[9].t
            => Bridges[j].c # Bridges[i].c
         /\ Bridges[j].op = "create" => Bridges[i].c \notin Bridges[j].c
  BY <1>0, <1>2, <1>3
<1>5. \A i \in 9..10 : /\ Bridges[i].op = "add" /\ Bridges[i].t = Bridges[9].t
                       /\ Bridges[i].g = Bridges[9].c
  BY <1>2, <1>3
<1>6. \A j \in 1..10 : Bridges[j].op # "try"
  BY <1>0, <1>2
<1>7. Len(Script) = 10 /\ 9 + 1 = 10 /\ 9 \in 1..10 /\ 1 \in 1..2
  BY <1>1, BridgesScript
<1>8. GroupLines(9, 1)
  BY <1>1, <1>5, <1>7 DEF GroupLines
<1>9. OnlyThere(9, 1)
  BY <1>1, <1>4, <1>7 DEF OnlyThere
<1> QED BY <1>1, <1>6, <1>7, <1>8, <1>9 DEF Group

LEMMA InvitesSound == Sound(Invites)
<1>1. /\ Len(Invites) = 7 /\ Invites[1].op = "create" /\ Invites[2].op = "create"
      /\ Invites[3].op = "look" /\ Invites[4].op = "add" /\ Invites[5].op = "commit"
      /\ Invites[6].op = "touch" /\ Invites[7].op = "commit" /\ Invites[3].t = Invites[4].t
  BY TheOps, TheFields DEF Invites
<1>2. \A i \in 1..7 : i = 1 \/ i = 2 \/ i = 3 \/ i = 4 \/ i = 5 \/ i = 6 \/ i = 7
  OBVIOUS
<1>3. Tested(Invites)
  <2> SUFFICES ASSUME NEW i \in 1..7, Invites[i].op = "add"
               PROVE  i = 4 /\ Invites[i - 1].op = "look" /\ Invites[i - 1].t = Invites[i].t
    BY <1>1 DEF Tested
  <2> QED BY <1>1, <1>2
<1>4. Closed(Invites)
  BY <1>1, <1>2 DEF Closed, Opening
<1> QED BY <1>1, <1>3, <1>4 DEF Sound

LEMMA UsersSound == Sound(Users)
<1>1. \A i \in 1..16 : i = 1 \/ i = 2 \/ i = 3 \/ i = 4 \/ i = 5 \/ i = 6 \/ i \in 7..16
  OBVIOUS
<1>2. Tested(Users)
  BY <1>1, UsersScript DEF Tested
<1>3. Closed(Users)
  BY <1>1, UsersScript DEF Closed, Opening
<1> QED BY <1>2, <1>3, UsersScript DEF Sound

LEMMA FavoritesLines ==
    /\ Len(Favorites) = 16
    /\ Favorites[1] = Table("favorites", {"user_id"}) /\ Favorites[2] = Look("favorites")
    /\ Favorites[3] = Do("rename") /\ Favorites[4] = Do("recreate") /\ Favorites[5] = Do("copy")
    /\ Favorites[6] = Do("drop") /\ Favorites[7] = Do("commit") /\ Favorites[8] = Look("favorites")
    /\ Favorites[9] = Add("favorites", "sort_order", "sort_order")
    /\ Favorites[10] = Stmt("fill", "favorites", "sort_order", {"sort_order"})
    /\ Favorites[11] = Do("commit") /\ Favorites[12] = Do("touch") /\ Favorites[13] = Do("commit")
    /\ Favorites[14] = Table("users", {}) /\ Favorites[15] = Do("legacy")
    /\ Favorites[16] = Do("commit")
    /\ \A i \in 1..16 : \/ i = 1 \/ i = 2 \/ i = 3 \/ i = 4 \/ i = 5 \/ i = 6 \/ i = 7 \/ i = 8
                        \/ i = 9 \/ i = 10 \/ i = 11 \/ i = 12 \/ i = 13 \/ i = 14 \/ i = 15
                        \/ i = 16
BY DEF Favorites

LEMMA FavoritesOpAt ==
    /\ Favorites[1].op = "create" /\ Favorites[2].op = "look" /\ Favorites[3].op = "rename"
    /\ Favorites[4].op = "recreate" /\ Favorites[5].op = "copy" /\ Favorites[6].op = "drop"
    /\ Favorites[7].op = "commit" /\ Favorites[8].op = "look" /\ Favorites[9].op = "add"
    /\ Favorites[10].op = "fill" /\ Favorites[11].op = "commit"
    /\ Favorites[12].op = "touch" /\ Favorites[13].op = "commit" /\ Favorites[14].op = "create"
    /\ Favorites[15].op = "legacy" /\ Favorites[16].op = "commit"
BY FavoritesLines, TheOps

LEMMA FavoritesSound == Sound(Favorites)
<1>1. Favorites[8].t = Favorites[9].t
  BY FavoritesLines, TheFields
<1>2. Tested(Favorites)
  <2> SUFFICES ASSUME NEW i \in 1..16, Favorites[i].op = "add"
               PROVE  i = 9 /\ Favorites[8].op = "look" /\ Favorites[8].t = Favorites[i].t
    BY FavoritesLines DEF Tested
  <2> QED BY <1>1, FavoritesOpAt, FavoritesLines
<1>3. Closed(Favorites)
  BY <1>1, FavoritesOpAt, FavoritesLines DEF Closed, Opening
<1> QED BY <1>2, <1>3, FavoritesLines DEF Sound

Joins(w, s, u, n, m) == /\ Len(w) = n + m /\ \A i \in 1..n : w[i] = s[i]
                        /\ \A i \in n + 1..n + m : w[i] = u[i - n]
LEMMA JoinedAt ==
    ASSUME NEW s, NEW u, NEW n \in Nat, NEW m \in Nat, Len(s) = n, Len(u) = m
    PROVE  Joins(s \o u, s, u, n, m)
<1>1. Len(s) \in Nat /\ Len(u) \in Nat
  OBVIOUS
<1> QED BY <1>1, Joined DEF Joins

LEMMA AlertsScript ==
    /\ Len(Alerts) = 15
    /\ Alerts[1] = Table("alert_config", {"on_dns_stuck"}) /\ Alerts[2] = Look("alert_config")
    /\ Alerts[3] = Add("alert_config", "on_dns_stuck", "on_dns_stuck")
    /\ Alerts[4] = Add("alert_config", "ntfy_enabled", "ntfy_enabled")
    /\ Alerts[5] = Add("alert_config", "ntfy_enabled", "pushover_enabled")
    /\ Alerts[6] = Add("alert_config", "ntfy_enabled", "discord_enabled")
    /\ Alerts[7] = Stmt("fill", "alert_config", "ntfy_enabled",
                        {"ntfy_enabled", "pushover_enabled"})
    /\ Alerts[8] = Add("alert_config", "chat_enabled", "chat_enabled")
    /\ Alerts[9] = Add("alert_config", "irc_enabled", "irc_enabled")
    /\ Alerts[10] = Add("alert_config", "on_disk_high", "on_disk_high")
    /\ Alerts[11] = Add("alert_config", "on_disk_high", "disk_pct_threshold")
    /\ Alerts[12] = Add("alert_config", "on_password_reset_request", "on_password_reset_request")
    /\ Alerts[13] = Add("alert_config", "on_geocode_down", "on_geocode_down")
    /\ Alerts[14] = Add("alert_config", "on_leak_detected", "on_leak_detected")
    /\ Alerts[15] = Do("commit")
    /\ \A i \in 1..15 : \/ i = 1 \/ i = 2 \/ i = 3 \/ i = 4 \/ i = 5 \/ i = 6 \/ i = 7 \/ i = 8
                        \/ i = 9 \/ i = 10 \/ i = 11 \/ i = 12 \/ i = 13 \/ i = 14 \/ i = 15
<1> DEFINE a1 == <<Table("alert_config", {"on_dns_stuck"}), Look("alert_config"),
                   Add("alert_config", "on_dns_stuck", "on_dns_stuck")>>
           a2 == [i \in 1..3 |-> Add("alert_config", "ntfy_enabled",
                     <<"ntfy_enabled", "pushover_enabled", "discord_enabled">>[i])]
           a3 == <<Stmt("fill", "alert_config", "ntfy_enabled",
                        {"ntfy_enabled", "pushover_enabled"})>>
           n4 == <<"chat_enabled", "irc_enabled", "on_disk_high">>
           a4 == Adds("alert_config", n4)
           a5 == <<Add("alert_config", "on_disk_high", "disk_pct_threshold")>>
           n6 == <<"on_password_reset_request", "on_geocode_down", "on_leak_detected">>
           a6 == Adds("alert_config", n6)
           a7 == <<Do("commit")>>
           b2 == a1 \o a2
           b3 == b2 \o a3
           b4 == b3 \o a4
           b5 == b4 \o a5
           b6 == b5 \o a6
           b7 == b6 \o a7
<1>1. /\ Len(a1) = 3 /\ a1[1] = Table("alert_config", {"on_dns_stuck"})
      /\ a1[2] = Look("alert_config")
      /\ a1[3] = Add("alert_config", "on_dns_stuck", "on_dns_stuck")
  OBVIOUS
<1>2. /\ Len(a2) = 3 /\ a2[1] = Add("alert_config", "ntfy_enabled", "ntfy_enabled")
      /\ a2[2] = Add("alert_config", "ntfy_enabled", "pushover_enabled")
      /\ a2[3] = Add("alert_config", "ntfy_enabled", "discord_enabled")
  OBVIOUS
<1>3. Len(a3) = 1 /\ a3[1] = Stmt("fill", "alert_config", "ntfy_enabled",
                                  {"ntfy_enabled", "pushover_enabled"})
  OBVIOUS
<1>4. /\ Len(a4) = 3 /\ a4[1] = Add("alert_config", "chat_enabled", "chat_enabled")
      /\ a4[2] = Add("alert_config", "irc_enabled", "irc_enabled")
      /\ a4[3] = Add("alert_config", "on_disk_high", "on_disk_high")
  <2>1. Len(n4) = 3 /\ n4[1] = "chat_enabled" /\ n4[2] = "irc_enabled" /\ n4[3] = "on_disk_high"
    OBVIOUS
  <2> HIDE DEF n4
  <2> QED BY <2>1, AddsAdd
<1>5. Len(a5) = 1 /\ a5[1] = Add("alert_config", "on_disk_high", "disk_pct_threshold")
  OBVIOUS
<1>6. /\ Len(a6) = 3
      /\ a6[1] = Add("alert_config", "on_password_reset_request", "on_password_reset_request")
      /\ a6[2] = Add("alert_config", "on_geocode_down", "on_geocode_down")
      /\ a6[3] = Add("alert_config", "on_leak_detected", "on_leak_detected")
  <2>1. /\ Len(n6) = 3 /\ n6[1] = "on_password_reset_request" /\ n6[2] = "on_geocode_down"
        /\ n6[3] = "on_leak_detected"
    OBVIOUS
  <2> HIDE DEF n6
  <2> QED BY <2>1, AddsAdd
<1>7. Len(a7) = 1 /\ a7[1] = Do("commit")
  OBVIOUS
<1>8. Alerts = b7
  BY DEF Alerts
<1> HIDE DEF a1, a2, a3, a4, a5, a6, a7
<1>9. Len(b2) = 6 /\ (\A i \in 1..3 : b2[i] = a1[i]) /\ \A i \in 4..6 : b2[i] = a2[i - 3]
  <2>1. Len(a1) = 3 /\ Len(a2) = 3 /\ 3 \in Nat /\ 3 \in Nat
    BY <1>1, <1>2
  <2>2. Joins(b2, a1, a2, 3, 3)
    BY <2>1, JoinedAt
  <2> HIDE DEF b2
  <2> QED BY <2>2 DEF Joins
<1> HIDE DEF b2
<1>10. Len(b3) = 7 /\ (\A i \in 1..6 : b3[i] = b2[i]) /\ b3[7] = a3[1]
  <2>1. Len(b2) = 6 /\ Len(a3) = 1 /\ 6 \in Nat /\ 1 \in Nat
    BY <1>9, <1>3
  <2>2. Joins(b3, b2, a3, 6, 1)
    BY <2>1, JoinedAt
  <2> HIDE DEF b3
  <2> QED BY <2>2 DEF Joins
<1> HIDE DEF b3
<1>11. Len(b4) = 10 /\ (\A i \in 1..7 : b4[i] = b3[i]) /\ \A i \in 8..10 : b4[i] = a4[i - 7]
  <2>1. Len(b3) = 7 /\ Len(a4) = 3 /\ 7 \in Nat /\ 3 \in Nat
    BY <1>10, <1>4
  <2>2. Joins(b4, b3, a4, 7, 3)
    BY <2>1, JoinedAt
  <2> HIDE DEF b4
  <2> QED BY <2>2 DEF Joins
<1> HIDE DEF b4
<1>12. Len(b5) = 11 /\ (\A i \in 1..10 : b5[i] = b4[i]) /\ b5[11] = a5[1]
  <2>1. Len(b4) = 10 /\ Len(a5) = 1 /\ 10 \in Nat /\ 1 \in Nat
    BY <1>11, <1>5
  <2>2. Joins(b5, b4, a5, 10, 1)
    BY <2>1, JoinedAt
  <2> HIDE DEF b5
  <2> QED BY <2>2 DEF Joins
<1> HIDE DEF b5
<1>13. Len(b6) = 14 /\ (\A i \in 1..11 : b6[i] = b5[i]) /\ \A i \in 12..14 : b6[i] = a6[i - 11]
  <2>1. Len(b5) = 11 /\ Len(a6) = 3 /\ 11 \in Nat /\ 3 \in Nat
    BY <1>12, <1>6
  <2>2. Joins(b6, b5, a6, 11, 3)
    BY <2>1, JoinedAt
  <2> HIDE DEF b6
  <2> QED BY <2>2 DEF Joins
<1> HIDE DEF b6
<1>14. Len(b7) = 15 /\ (\A i \in 1..14 : b7[i] = b6[i]) /\ b7[15] = a7[1]
  <2>1. Len(b6) = 14 /\ Len(a7) = 1 /\ 14 \in Nat /\ 1 \in Nat
    BY <1>13, <1>7
  <2>2. Joins(b7, b6, a7, 14, 1)
    BY <2>1, JoinedAt
  <2> HIDE DEF b7
  <2> QED BY <2>2 DEF Joins
<1> HIDE DEF b7
<1>15. \A i \in 1..3 : b7[i] = a1[i]
  BY <1>9, <1>10, <1>11, <1>12, <1>13, <1>14
<1>16. b7[4] = a2[1] /\ b7[5] = a2[2] /\ b7[6] = a2[3] /\ b7[7] = a3[1]
  BY <1>9, <1>10, <1>11, <1>12, <1>13, <1>14
<1>17. b7[8] = a4[1] /\ b7[9] = a4[2] /\ b7[10] = a4[3] /\ b7[11] = a5[1]
  BY <1>11, <1>12, <1>13, <1>14
<1>18. b7[12] = a6[1] /\ b7[13] = a6[2] /\ b7[14] = a6[3] /\ b7[15] = a7[1]
  BY <1>13, <1>14
<1> QED
  BY <1>1, <1>2, <1>3, <1>4, <1>5, <1>6, <1>7, <1>8, <1>14, <1>15, <1>16, <1>17, <1>18

LEMMA AlertsLines ==
    /\ Alerts[1].op = "create" /\ Alerts[1].t = {"alert_config"}
    /\ Alerts[1].c = {"on_dns_stuck"}
    /\ Alerts[2].op = "look" /\ Alerts[2].t = "alert_config"
    /\ Alerts[7].op = "fill" /\ Alerts[7].t = "alert_config" /\ Alerts[7].g = "ntfy_enabled"
    /\ Alerts[7].c = {"ntfy_enabled", "pushover_enabled"}
    /\ Alerts[15].op = "commit"
    /\ \A i \in 3..6 : Alerts[i].op = "add" /\ Alerts[i].t = "alert_config"
    /\ \A i \in 8..14 : Alerts[i].op = "add" /\ Alerts[i].t = "alert_config"
    /\ Alerts[3].c = "on_dns_stuck" /\ Alerts[4].c = "ntfy_enabled"
    /\ Alerts[5].c = "pushover_enabled" /\ Alerts[6].c = "discord_enabled"
    /\ Alerts[8].c = "chat_enabled" /\ Alerts[9].c = "irc_enabled"
    /\ Alerts[10].c = "on_disk_high" /\ Alerts[11].c = "disk_pct_threshold"
    /\ Alerts[12].c = "on_password_reset_request" /\ Alerts[13].c = "on_geocode_down"
    /\ Alerts[14].c = "on_leak_detected"
    /\ \A i \in {3, 4, 8, 9, 10, 12, 13, 14} : Alerts[i].g = Alerts[i].c
    /\ Alerts[5].g = "ntfy_enabled" /\ Alerts[6].g = "ntfy_enabled"
    /\ Alerts[11].g = "on_disk_high"
<1> USE AlertsScript
<1>1. /\ Alerts[1].op = "create" /\ Alerts[2].op = "look" /\ Alerts[7].op = "fill"
      /\ Alerts[15].op = "commit"
      /\ \A i \in 3..6 : Alerts[i].op = "add"
      /\ \A i \in 8..14 : Alerts[i].op = "add"
  BY TheOps
<1>2. /\ Alerts[1].t = {"alert_config"} /\ Alerts[2].t = "alert_config"
      /\ Alerts[7].t = "alert_config" /\ \A i \in 3..6 : Alerts[i].t = "alert_config"
      /\ \A i \in 8..14 : Alerts[i].t = "alert_config"
  BY TheFields
<1>3. /\ Alerts[1].c = {"on_dns_stuck"} /\ Alerts[7].c = {"ntfy_enabled", "pushover_enabled"}
      /\ Alerts[3].c = "on_dns_stuck" /\ Alerts[4].c = "ntfy_enabled"
      /\ Alerts[5].c = "pushover_enabled" /\ Alerts[6].c = "discord_enabled"
      /\ Alerts[8].c = "chat_enabled" /\ Alerts[9].c = "irc_enabled"
      /\ Alerts[10].c = "on_disk_high" /\ Alerts[11].c = "disk_pct_threshold"
      /\ Alerts[12].c = "on_password_reset_request" /\ Alerts[13].c = "on_geocode_down"
      /\ Alerts[14].c = "on_leak_detected"
  BY TheFields
<1>4. /\ \A i \in {3, 4, 8, 9, 10, 12, 13, 14} : Alerts[i].g = Alerts[i].c
      /\ Alerts[5].g = "ntfy_enabled" /\ Alerts[6].g = "ntfy_enabled"
      /\ Alerts[11].g = "on_disk_high" /\ Alerts[7].g = "ntfy_enabled"
  BY TheFields
<1> QED BY <1>1, <1>2, <1>3, <1>4

LEMMA AlertsSound == Sound(Alerts)
<1>1. Tested(Alerts)
  <2> SUFFICES ASSUME NEW i \in 1..15, Alerts[i].op = "add"
               PROVE  /\ 2 \in 1..i - 1 /\ Alerts[2].op = "look" /\ Alerts[2].t = Alerts[i].t
                      /\ \A k \in 3..i - 1 : Alerts[k].op \notin Answers
    BY AlertsScript DEF Tested
  <2>1. i \in 3..6 \/ i \in 8..14
    BY AlertsScript, AlertsLines
  <2>2. \A k \in 3..14 : k \in 3..6 \/ k = 7 \/ k \in 8..14
    OBVIOUS
  <2>3. \A k \in 3..14 : Alerts[k].op \notin Answers
    BY <2>2, AlertsLines DEF Answers
  <2> QED BY <2>1, <2>3, AlertsLines
<1>2. Closed(Alerts)
  <2> SUFFICES ASSUME NEW i \in 1..15, Alerts[i].op \in Opening PROVE i < 15
    BY AlertsScript, AlertsLines DEF Closed
  <2> QED BY AlertsLines DEF Opening
<1> QED BY <1>1, <1>2, AlertsScript DEF Sound

LEMMA AlertsGroups ==
    ASSUME chapter = "alerts" PROVE Group(4, 2) /\ Group(10, 1)
<1>1. Script = Alerts
  BY DEF Script, Chapter
<1>2. \A j \in 1..15 : Alerts[j].op = "add" => j \in 3..6 \/ j \in 8..14
  BY AlertsScript, AlertsLines
<1>3. \A j \in 1..15 : Alerts[j].op = "create" => j = 1
  BY AlertsScript, AlertsLines
<1>4. \A j \in 1..15 : Alerts[j].op # "try"
  BY AlertsScript, AlertsLines
<1>5. \A i, j \in 1..15 : i # j /\ Alerts[j].op = "add" /\ Alerts[i].op = "add"
                          => Alerts[j].c # Alerts[i].c
  <2> DEFINE here == {3, 4, 5, 6, 8, 9, 10, 11, 12, 13, 14}
  <2>1. \A j \in 1..15 : Alerts[j].op = "add" => j \in here
    BY <1>2
  <2>2. \A i, j \in here : i # j => Alerts[j].c # Alerts[i].c
    BY AlertsLines
  <2> QED BY <2>1, <2>2
<1>6. \A i \in 4..6 : i = 4 \/ i = 5 \/ i = 6
  OBVIOUS
<1>7. \A i \in 10..11 : i = 10 \/ i = 11
  OBVIOUS
<1>8. /\ \A i \in 4..6 : /\ Alerts[i].op = "add" /\ Alerts[i].t = Alerts[4].t
                         /\ Alerts[i].g = Alerts[4].c /\ Alerts[i].c \notin Alerts[1].c
      /\ \A i \in 10..11 : /\ Alerts[i].op = "add" /\ Alerts[i].t = Alerts[10].t
                           /\ Alerts[i].g = Alerts[10].c /\ Alerts[i].c \notin Alerts[1].c
  BY <1>6, <1>7, AlertsLines
<1>9. Group(4, 2)
  <2>1. Len(Script) = 15 /\ 4 + 2 = 6 /\ 4 \in 1..15 /\ 2 \in 1..2
    BY <1>1, AlertsScript
  <2>2. GroupLines(4, 2)
    BY <1>1, <1>8, <2>1 DEF GroupLines
  <2>3. \A i \in 4..6 : i \in 1..15
    OBVIOUS
  <2>4. \A i \in 4..6, j \in 1..15 :
           /\ i # j /\ Alerts[j].op = "add" => Alerts[j].c # Alerts[i].c
           /\ Alerts[j].op = "create" => Alerts[i].c \notin Alerts[j].c
    BY <1>3, <1>5, <1>8, <2>3
  <2>5. OnlyThere(4, 2)
    BY <1>1, <2>1, <2>4 DEF OnlyThere
  <2> QED BY <1>1, <1>4, <2>1, <2>2, <2>5 DEF Group
<1>10. Group(10, 1)
  <2>1. Len(Script) = 15 /\ 10 + 1 = 11 /\ 10 \in 1..15 /\ 1 \in 1..2
    BY <1>1, AlertsScript
  <2>2. GroupLines(10, 1)
    BY <1>1, <1>8, <2>1 DEF GroupLines
  <2>3. \A i \in 10..11 : i \in 1..15
    OBVIOUS
  <2>4. \A i \in 10..11, j \in 1..15 :
           /\ i # j /\ Alerts[j].op = "add" => Alerts[j].c # Alerts[i].c
           /\ Alerts[j].op = "create" => Alerts[i].c \notin Alerts[j].c
    BY <1>3, <1>5, <1>8, <2>3
  <2>5. OnlyThere(10, 1)
    BY <1>1, <2>1, <2>4 DEF OnlyThere
  <2> QED BY <1>1, <1>4, <2>1, <2>2, <2>5 DEF Group
<1> QED BY <1>9, <1>10

LEMMA ScriptSound == ASSUME chapter \in ChapterNames PROVE Sound(Script)
BY AnnouncementsSound, ConnectorsSound, IdentifiersSound, HelpersSound, KioskSound, BridgesSound,
   InvitesSound, UsersSound, FavoritesSound, AlertsSound DEF Script, Chapter, ChapterNames

(* What a statement makes of the database its thread sees, and how.        *)
Effect(t, s, e) ==
    LET d == View(t)
    IN /\ s.op = "create" => /\ e.tables = d.tables \cup s.t
                             /\ e.cols = d.cols \cup ((s.t \ d.tables) \X s.c)
       /\ s.op # "create" => e.tables = d.tables
       /\ s.op = "add" => \/ s.g \in told[t] /\ e.cols = d.cols
                          \/ /\ s.g \notin told[t] /\ s.t \in d.tables
                             /\ ~HasColumn(d, s.t, s.c) /\ e.cols = d.cols \cup {<<s.t, s.c>>}
       /\ s.op = "try" => e.cols = d.cols \cup {<<s.t, s.c>>}
       /\ s.op \notin {"create", "add", "try"} => e.cols = d.cols
       /\ s.op = "fill" => e.filled = d.filled \cup (IF s.g \in told[t] THEN {} ELSE {s.t})
       /\ s.op # "fill" => e.filled = d.filled
Puts(t, s, e) ==
    \/ DatabaseSame /\ e = View(t) /\ (s.op = "commit" => writer # t)
    \/ Alter(t, e) /\ s.op \in {"create", "add", "try"}
    \/ Change(t, e) /\ s.op \in Opening
    \/ /\ s.op = "commit" /\ writer = t /\ e = draft
       /\ stored' = draft /\ writer' = Nobody /\ UNCHANGED draft
Hears(t, s) == /\ told' = [told EXCEPT ![t] = told'[t]]
               /\ s.op \notin Answers => told'[t] = told[t]
               /\ s.op = "look" => told'[t] = ColumnsOf(View(t), s.t)
Advances(t, s) == GoesOn(t) /\ Hears(t, s) /\ RestSame
Refused(t, s) ==
    LET d == View(t)
    IN /\ Raise(t)
       /\ \/ s.op = "add" /\ s.g \notin told[t]
             /\ (s.t \notin d.tables \/ HasColumn(d, s.t, s.c))
          \/ s.op = "fill" /\ s.g \notin told[t] /\ ~(s.c \subseteq ColumnsOf(d, s.t))
          \/ s.op = "seed"
Ordinary(t, s) == \/ Refused(t, s)
                  \/ Advances(t, s) /\ \E e : Puts(t, s, e) /\ Effect(t, s, e) /\ IsDb(e)

(***************************************************************************)
(* What the statements do, apart from those that move the favorites.       *)
(***************************************************************************)
LEMMA Hearing ==
    ASSUME DatabaseShape, NEW t \in Threads, NEW s, NEW x, Learns(t, x),
           s.op \notin Answers => x = told[t],
           s.op = "look" => x = ColumnsOf(View(t), s.t)
    PROVE  Hears(t, s)
<1>1. told = [u \in Threads |-> told[u]]
  BY DEF DatabaseShape
<1>2. told'[t] = x
  BY <1>1 DEF Learns
<1> QED BY <1>1, <1>2 DEF Learns, Hears

LEMMA Skipping ==
    ASSUME KeptInv, NEW t \in Threads, NEW s \in Now(t), Skip(t), Effect(t, s, View(t)),
           s.op \notin Answers, s.op # "commit"
    PROVE  Ordinary(t, s)
<1>1. Hears(t, s)
  BY Hearing DEF Skip, KeptInv, Answers
<1> QED BY <1>1, ViewKept DEF Skip, Ordinary, Advances, Puts

LEMMA Created ==
    ASSUME KeptInv, NEW t \in Threads, NEW s \in Now(t), CreateTables(t, s)
    PROVE  Ordinary(t, s)
<1> DEFINE d == View(t)
           new == s.t \ d.tables
           e == [d EXCEPT !.tables = @ \cup new, !.cols = @ \cup (new \X s.c)]
<1>1. s.op = "create" /\ Hears(t, s) /\ GoesOn(t) /\ RestSame /\ IsDb(d)
  BY Hearing, ViewKept DEF CreateTables, KeptInv, Answers
<1>2. CASE new = {}
  <2>1. d.tables = d.tables \cup s.t /\ d.cols = d.cols \cup (new \X s.c)
    BY <1>2
  <2>2. Effect(t, s, d) /\ DatabaseSame
    BY <1>1, <1>2, <2>1 DEF Effect, CreateTables
  <2> QED BY <1>1, <2>2 DEF Ordinary, Advances, Puts
<1>3. CASE new # {}
  <2>1. Alter(t, e)
    BY <1>3 DEF CreateTables
  <2>2. /\ IsDb(e) /\ e.tables = d.tables \cup s.t /\ e.cols = d.cols \cup (new \X s.c)
        /\ e.filled = d.filled
    BY <1>1 DEF IsDb, Fields
  <2>3. Effect(t, s, e)
    BY <1>1, <2>2 DEF Effect
  <2> QED BY <1>1, <2>1, <2>2, <2>3 DEF Ordinary, Advances, Puts
<1> QED BY <1>2, <1>3

LEMMA ColumnAdded ==
    ASSUME KeptInv, NEW t \in Threads, NEW s \in Now(t), NEW e,
           e = [View(t) EXCEPT !.cols = @ \cup {<<s.t, s.c>>}],
           s.op \in {"add", "try"}, s.op = "add" => /\ s.g \notin told[t] /\ s.t \in View(t).tables
                                                    /\ ~HasColumn(View(t), s.t, s.c),
           Alter(t, e), GoesOn(t), Learns(t, told[t]), RestSame
    PROVE  Ordinary(t, s)
<1> DEFINE d == View(t)
<1>1. Hears(t, s) /\ IsDb(d)
  BY Hearing, ViewKept DEF KeptInv, Answers
<1>2. /\ IsDb(e) /\ e.tables = d.tables /\ e.cols = d.cols \cup {<<s.t, s.c>>}
      /\ e.filled = d.filled
  BY <1>1 DEF IsDb, Fields
<1>3. Effect(t, s, e)
  BY <1>2 DEF Effect
<1> QED BY <1>1, <1>2, <1>3 DEF Ordinary, Advances, Puts

LEMMA Added ==
    ASSUME KeptInv, NEW t \in Threads, NEW s \in Now(t), AddColumn(t, s)
    PROVE  Ordinary(t, s)
<1> DEFINE d == View(t)
           e == [d EXCEPT !.cols = @ \cup {<<s.t, s.c>>}]
<1>1. s.op = "add"
  BY DEF AddColumn
<1>2. CASE s.g \in told[t]
  <2>1. Effect(t, s, d)
    BY <1>1, <1>2 DEF Effect
  <2>2. Skip(t)
    BY <1>2 DEF AddColumn
  <2>3. s.op \notin Answers /\ s.op # "commit"
    BY <1>1 DEF Answers
  <2> QED BY <2>1, <2>2, <2>3, Skipping
<1>3. CASE s.g \notin told[t] /\ (s.t \notin d.tables \/ HasColumn(d, s.t, s.c))
  BY <1>1, <1>3 DEF AddColumn, Ordinary, Refused
<1>4. CASE s.g \notin told[t] /\ s.t \in d.tables /\ ~HasColumn(d, s.t, s.c)
  <2>1. Alter(t, e) /\ GoesOn(t) /\ Learns(t, told[t]) /\ RestSame
    BY <1>4 DEF AddColumn
  <2> QED BY <1>1, <1>4, <2>1, ColumnAdded
<1> QED BY <1>2, <1>3, <1>4

LEMMA Tried ==
    ASSUME KeptInv, NEW t \in Threads, NEW s \in Now(t), TryColumn(t, s)
    PROVE  Ordinary(t, s)
<1> DEFINE d == View(t)
           e == [d EXCEPT !.cols = @ \cup {<<s.t, s.c>>}]
<1>1. s.op = "try"
  BY DEF TryColumn
<1>2. CASE HasColumn(d, s.t, s.c)
  <2>1. d.cols = d.cols \cup {<<s.t, s.c>>}
    BY <1>2 DEF HasColumn
  <2>2. Effect(t, s, d)
    BY <1>1, <2>1 DEF Effect
  <2>3. Skip(t)
    BY <1>2 DEF TryColumn
  <2>4. s.op \notin Answers /\ s.op # "commit"
    BY <1>1 DEF Answers
  <2> QED BY <2>2, <2>3, <2>4, Skipping
<1>3. CASE ~HasColumn(d, s.t, s.c)
  <2>1. Alter(t, e) /\ GoesOn(t) /\ Learns(t, told[t]) /\ RestSame
    BY <1>3 DEF TryColumn
  <2> QED BY <1>1, <2>1, ColumnAdded
<1> QED BY <1>2, <1>3

LEMMA BackfillDone ==
    ASSUME KeptInv, NEW t \in Threads, NEW s \in Now(t), Backfill(t, s)
    PROVE  Ordinary(t, s)
<1> DEFINE d == View(t)
           e == [d EXCEPT !.filled = @ \cup {s.t}]
<1>1. s.op = "fill"
  BY DEF Backfill
<1>2. CASE s.g \in told[t]
  <2>1. Effect(t, s, d)
    BY <1>1, <1>2 DEF Effect
  <2>2. Skip(t)
    BY <1>2 DEF Backfill
  <2>3. s.op \notin Answers /\ s.op # "commit"
    BY <1>1 DEF Answers
  <2> QED BY <2>1, <2>2, <2>3, Skipping
<1>3. CASE s.g \notin told[t] /\ ~(s.c \subseteq ColumnsOf(d, s.t))
  BY <1>1, <1>3 DEF Backfill, Ordinary, Refused
<1>4. CASE s.g \notin told[t] /\ s.c \subseteq ColumnsOf(d, s.t)
  <2>1. Change(t, e) /\ GoesOn(t) /\ Hears(t, s) /\ RestSame
    BY <1>1, <1>4, Hearing DEF Backfill, KeptInv, Answers
  <2>2. /\ IsDb(e) /\ e.tables = d.tables /\ e.cols = d.cols
        /\ e.filled = d.filled \cup {s.t}
    BY ViewKept DEF IsDb, Fields
  <2>3. Effect(t, s, e)
    BY <1>1, <1>4, <2>2 DEF Effect
  <2> QED BY <1>1, <2>1, <2>2, <2>3 DEF Ordinary, Advances, Puts, Opening
<1> QED BY <1>2, <1>3, <1>4

(* The other statements leave tables and columns as they are.              *)
Bystanders == {"legacy", "roles", "seed", "touch"}
LEMMA Bystanding ==
    ASSUME KeptInv, NEW t \in Threads, NEW s \in Now(t), NEW e, s.op \in Bystanders,
           Change(t, e), IsDb(e), e.tables = View(t).tables, e.cols = View(t).cols,
           e.filled = View(t).filled, GoesOn(t), Learns(t, told[t]), RestSame
    PROVE  Ordinary(t, s)
<1>1. Hears(t, s)
  BY Hearing DEF KeptInv, Answers, Bystanders
<1>2. Effect(t, s, e)
  BY DEF Effect, Bystanders
<1>3. Puts(t, s, e)
  BY DEF Puts, Opening, Bystanders
<1> QED BY <1>1, <1>2, <1>3 DEF Ordinary, Advances

LEMMA Idle ==
    ASSUME KeptInv, NEW t \in Threads, NEW s \in Now(t), s.op \in Bystanders,
           DatabaseSame, GoesOn(t), Learns(t, told[t]), RestSame
    PROVE  Ordinary(t, s)
<1>1. Hears(t, s)
  BY Hearing DEF KeptInv, Answers, Bystanders
<1>2. Effect(t, s, View(t))
  BY DEF Effect, Bystanders
<1>3. Puts(t, s, View(t))
  BY DEF Puts, Bystanders
<1> QED BY <1>1, <1>2, <1>3, ViewKept DEF Ordinary, Advances

LEMMA Looked ==
    ASSUME KeptInv, NEW t \in Threads, NEW s \in Now(t),
           TableInfo(t, s) \/ LookFlag(t, s) \/ LookRow(t, s)
    PROVE  Ordinary(t, s)
<1>1. s.op \in Answers /\ GoesOn(t) /\ RestSame /\ DatabaseSame
  BY DEF TableInfo, LookFlag, LookRow, Answers
<1>2. Hears(t, s)
  <2>1. CASE TableInfo(t, s)
    BY <2>1, Hearing DEF TableInfo, KeptInv, Answers
  <2>2. CASE LookFlag(t, s)
    BY <2>2, Hearing DEF LookFlag, KeptInv, Answers
  <2>3. CASE LookRow(t, s)
    BY <2>3, Hearing DEF LookRow, KeptInv, Answers
  <2> QED BY <2>1, <2>2, <2>3
<1>3. Effect(t, s, View(t)) /\ Puts(t, s, View(t))
  BY <1>1 DEF Effect, Puts, Answers
<1> QED BY <1>1, <1>2, <1>3, ViewKept DEF Ordinary, Advances

LEMMA LoginMoved ==
    ASSUME KeptInv, NEW t \in Threads, NEW s \in Now(t), MoveLogin(t, s)
    PROVE  Ordinary(t, s)
<1> DEFINE d == View(t)
           e == [d EXCEPT !.legacy = "moved", !.role.first = "superuser"]
<1>1. s.op \in Bystanders /\ GoesOn(t) /\ Learns(t, told[t]) /\ RestSame /\ IsDb(d)
  BY ViewKept DEF MoveLogin, Bystanders
<1>2. DatabaseSame \/ Change(t, e)
  BY DEF MoveLogin
<1>3. IsDb(e) /\ e.tables = d.tables /\ e.cols = d.cols /\ e.filled = d.filled
  BY <1>1 DEF IsDb, Fields
<1>4. CASE DatabaseSame
  BY <1>1, <1>4, Idle
<1>5. CASE Change(t, e)
  <2> HIDE DEF e
  <2> QED BY <1>1, <1>3, <1>5, Bystanding
<1> QED BY <1>2, <1>4, <1>5

LEMMA RolesMigrated ==
    ASSUME KeptInv, NEW t \in Threads, NEW s \in Now(t), MigrateRoles(t, s)
    PROVE  Ordinary(t, s)
<1> DEFINE d == View(t)
           e == [d EXCEPT !.role = [u \in DOMAIN @ |-> NewRole(@[u])], !.flag = TRUE]
<1>1. s.op \in Bystanders /\ GoesOn(t) /\ Learns(t, told[t]) /\ RestSame /\ IsDb(d)
  BY ViewKept DEF MigrateRoles, Bystanders
<1>2. DatabaseSame \/ Change(t, e)
  BY DEF MigrateRoles
<1>3. IsDb(e) /\ e.tables = d.tables /\ e.cols = d.cols /\ e.filled = d.filled
  BY <1>1 DEF IsDb, Fields
<1>4. CASE DatabaseSame
  BY <1>1, <1>4, Idle
<1>5. CASE Change(t, e)
  <2> HIDE DEF e
  <2> QED BY <1>1, <1>3, <1>5, Bystanding
<1> QED BY <1>2, <1>4, <1>5

LEMMA Seeded ==
    ASSUME KeptInv, NEW t \in Threads, NEW s \in Now(t), Seed(t, s)
    PROVE  Ordinary(t, s)
<1> DEFINE d == View(t)
           e == [d EXCEPT !.row = "default"]
<1>1. s.op \in Bystanders /\ s.op = "seed" /\ IsDb(d)
  BY ViewKept DEF Seed, Bystanders
<1>2. \/ Raise(t)
      \/ (DatabaseSame \/ Change(t, e)) /\ GoesOn(t) /\ Learns(t, told[t]) /\ RestSame
  BY DEF Seed, Skip
<1>3. IsDb(e) /\ e.tables = d.tables /\ e.cols = d.cols /\ e.filled = d.filled
  BY <1>1 DEF IsDb, Fields
<1>4. CASE Raise(t)
  BY <1>1, <1>4 DEF Ordinary, Refused
<1>5. CASE DatabaseSame /\ ~Raise(t)
  BY <1>1, <1>2, <1>5, Idle
<1>6. CASE Change(t, e) /\ ~Raise(t)
  <2>1. GoesOn(t) /\ Learns(t, told[t]) /\ RestSame
    BY <1>2, <1>6
  <2> HIDE DEF e
  <2> QED BY <1>1, <1>3, <1>6, <2>1, Bystanding
<1> QED BY <1>2, <1>4, <1>5, <1>6

LEMMA Touched ==
    ASSUME KeptInv, NEW t \in Threads, NEW s \in Now(t), Touch(t, s)
    PROVE  Ordinary(t, s)
<1>1. s.op \in Bystanders
  BY DEF Touch, Bystanders
<1> QED BY <1>1, ViewKept, Bystanding DEF Touch

LEMMA Committing ==
    ASSUME KeptInv, NEW t \in Threads, NEW s \in Now(t), Commit(t, s)
    PROVE  Ordinary(t, s)
<1>1. s.op = "commit" /\ GoesOn(t) /\ Hears(t, s) /\ RestSame
  BY Hearing DEF Commit, KeptInv, Answers
<1>2. Effect(t, s, View(t)) /\ Puts(t, s, View(t))
  BY <1>1 DEF Effect, Puts, Commit, View
<1> QED BY <1>1, <1>2, ViewKept DEF Ordinary, Advances

LEMMA OrdinaryStatement ==
    ASSUME KeptInv, NEW t \in Threads, Statement(t)
    PROVE  \E s \in Now(t) : \/ Ordinary(t, s)
                             \/ chapter = "favorites" /\ MoveFavorites(t, s)
<1>1. PICK s \in Now(t) :
       \/ CreateTables(t, s) \/ TableInfo(t, s) \/ AddColumn(t, s) \/ TryColumn(t, s)
       \/ Backfill(t, s) \/ MoveFavorites(t, s) \/ MoveLogin(t, s) \/ LookFlag(t, s)
       \/ MigrateRoles(t, s) \/ LookRow(t, s) \/ Seed(t, s) \/ Touch(t, s) \/ Commit(t, s)
  BY DEF Statement
<1>2. MoveFavorites(t, s) => chapter = "favorites"
  BY <1>1, Where DEF MoveFavorites, KeptInv
<1> QED
  BY <1>1, <1>2, Created, Looked, Added, Tried, BackfillDone, LoginMoved, RolesMigrated,
     Seeded, Touched, Committing

Closed1 == \A t \in Threads : Closing(t)
Grows == /\ stored.cols \subseteq stored'.cols /\ stored'.cols \subseteq draft'.cols
         /\ \A u \in Threads : View(u).cols \subseteq View(u)'.cols
Paired(d) == \A x \in d.cols : x = <<x[1], x[2]>>
AllPaired == Paired(stored) /\ Paired(draft)
GrowInv == KeptInv /\ Closed1 /\ AllPaired /\ (chapter # "favorites" => Growing)

(***************************************************************************)
(* Whoever is in a transaction comes to its commit.                        *)
(***************************************************************************)
LEMMA ThePlaces ==
    ASSUME DatabaseShape, NEW t \in Threads, NEW n, pc' = [pc EXCEPT ![t] = n], chapter' = chapter
    PROVE  /\ pc'[t] = n /\ \A u \in Threads \ {t} : pc'[u] = pc[u]
           /\ Script' = Script /\ \A u \in Threads : pc[u] \in Nat /\ pc[u] <= Len(Script) + 1
           /\ Len(Script) \in Nat
BY ScriptLength DEF DatabaseShape, SchemaTypeOK, Script

LEMMA ClosingGoes ==
    ASSUME KeptInv, Closed1, NEW t \in Threads, NEW s \in Now(t), GoesOn(t),
           chapter' = chapter, writer' = t => (writer = t /\ s.op # "commit") \/ s.op \in Opening,
           \A u \in Threads \ {t} : writer' = u => writer = u
    PROVE  Closed1'
<1>1. /\ pc'[t] = pc[t] + 1 /\ \A u \in Threads \ {t} : pc'[u] = pc[u]
      /\ Script' = Script /\ pc[t] \in 1..Len(Script) /\ s = Script[pc[t]] /\ Len(Script) \in Nat
  <2>1. pc' = [pc EXCEPT ![t] = pc[t] + 1] /\ DatabaseShape
    BY DEF KeptInv, GoesOn
  <2>2. /\ pc'[t] = pc[t] + 1 /\ (\A u \in Threads \ {t} : pc'[u] = pc[u])
        /\ Script' = Script /\ Len(Script) \in Nat
    BY <2>1, ThePlaces
  <2>3. pc[t] \in 1..Len(Script) /\ s = Script[pc[t]]
    BY <2>1, <2>2, AtStatement
  <2> QED BY <2>2, <2>3
<1>2. ASSUME NEW u \in Threads \ {t} PROVE Closing(u)'
  BY <1>1 DEF Closed1, Closing
<1>3. Closing(t)'
  <2> SUFFICES ASSUME writer' = t
               PROVE  \E j \in pc[t] + 1..Len(Script) : Script[j].op = "commit"
    BY <1>1 DEF Closing
  <2>1. CASE writer = t /\ s.op # "commit"
    <3>1. PICK j \in pc[t]..Len(Script) : Script[j].op = "commit"
      BY <2>1 DEF Closed1, Closing
    <3>2. j # pc[t]
      BY <1>1, <2>1, <3>1
    <3> QED BY <1>1, <3>1, <3>2
  <2>2. CASE s.op \in Opening
    <3>1. Closed(Script)
      BY ScriptSound DEF Sound, KeptInv, DatabaseShape, SchemaTypeOK
    <3> QED BY <1>1, <2>2, <3>1 DEF Closed
  <2> QED BY <2>1, <2>2
<1> QED BY <1>2, <1>3 DEF Closed1

LEMMA ClosingLeaves ==
    ASSUME KeptInv, Closed1, NEW t \in Threads, pc' = [pc EXCEPT ![t] = 0], chapter' = chapter,
           writer' # t, \A u \in Threads \ {t} : writer' = u => writer = u
    PROVE  Closed1'
<1>1. Script' = Script /\ \A u \in Threads \ {t} : pc'[u] = pc[u]
  BY ThePlaces DEF KeptInv
<1> QED BY <1>1 DEF Closed1, Closing

LEMMA PutsWriter ==
    ASSUME KeptInv, NEW t \in Threads, NEW s, NEW e, Puts(t, s, e)
    PROVE  /\ writer' = t => (writer = t /\ s.op # "commit") \/ s.op \in Opening
           /\ \A u \in Threads \ {t} : writer' = u <=> writer = u
<1>1. CASE DatabaseSame /\ e = View(t) /\ (s.op = "commit" => writer # t)
  BY <1>1 DEF DatabaseSame
<1>2. CASE Alter(t, e) /\ s.op \in {"create", "add", "try"}
  BY <1>2 DEF Alter
<1>3. CASE Change(t, e) /\ s.op \in Opening
  BY <1>3, ThreadNames DEF Change, MayWrite
<1>4. CASE s.op = "commit" /\ writer = t /\ e = draft
           /\ stored' = draft /\ writer' = Nobody /\ UNCHANGED draft
  BY <1>4, ThreadNames
<1> QED BY <1>1, <1>2, <1>3, <1>4 DEF Puts

LEMMA MovesWriter ==
    ASSUME KeptInv, NEW t \in Threads, NEW s, MoveFavorites(t, s), ~Raise(t)
    PROVE  /\ GoesOn(t) /\ RestSame
           /\ writer' = t => (writer = t /\ s.op # "commit") \/ s.op \in Opening
           /\ \A u \in Threads \ {t} : writer' = u <=> writer = u
<1>1. GoesOn(t) /\ RestSame
  BY DEF MoveFavorites, Skip
<1>2. /\ s.op # "commit"
      /\ \/ DatabaseSame
         \/ \E d : Alter(t, d)
         \/ \E d : Change(t, d) /\ s.op = "copy"
  BY DEF MoveFavorites, Skip
<1>3. ASSUME DatabaseSame \/ \E d : Alter(t, d)
      PROVE  writer' = writer
  BY <1>3 DEF DatabaseSame, Alter
<1>4. ASSUME NEW d, Change(t, d)
      PROVE  writer' = t /\ writer \in {Nobody, t}
  BY <1>4 DEF Change, MayWrite
<1> QED BY <1>1, <1>2, <1>3, <1>4, ThreadNames DEF Opening

LEMMA LeavesWriter ==
    ASSUME KeptInv, NEW t \in Threads, Leaves(t)
    PROVE  /\ pc' = [pc EXCEPT ![t] = 0] /\ chapter' = chapter /\ writer' # t
           /\ \A u \in Threads \ {t} : writer' = u <=> writer = u
BY ThreadNames DEF Leaves

LEMMA ClosingKept == ASSUME KeptInv, Closed1, [SchemaNext]_schemaVars PROVE Closed1'
<1>1. ASSUME NEW t \in Threads, Leaves(t) PROVE Closed1'
  BY <1>1, LeavesWriter, ClosingLeaves
<1>2. ASSUME NEW t \in Threads, Statement(t) PROVE Closed1'
  <2>1. PICK s \in Now(t) : \/ Ordinary(t, s)
                            \/ chapter = "favorites" /\ MoveFavorites(t, s)
    BY <1>2, OrdinaryStatement
  <2>2. CASE Raise(t)
    BY <1>1, <2>2 DEF Raise
  <2>3. CASE Ordinary(t, s) /\ ~Raise(t)
    <3>1. PICK e : Puts(t, s, e)
      BY <2>3 DEF Ordinary, Refused
    <3>2. GoesOn(t) /\ chapter' = chapter
      BY <2>3 DEF Ordinary, Refused, Advances, RestSame
    <3> QED BY <2>1, <3>1, <3>2, PutsWriter, ClosingGoes
  <2>4. CASE MoveFavorites(t, s) /\ ~Raise(t)
    BY <2>1, <2>4, MovesWriter, ClosingGoes DEF RestSame
  <2> QED BY <2>1, <2>2, <2>3, <2>4
<1>3. ASSUME NEW t \in Threads, Call(t) PROVE Closed1'
  <2>1. chapter' = chapter /\ writer' = writer /\ pc[t] = 0 /\ writer # t
    BY <1>3 DEF Call, MayCall, DatabaseSame, Closed1, Closing
  <2>2. Script' = Script /\ \A u \in Threads \ {t} : pc'[u] = pc[u]
    BY <1>3, <2>1 DEF Call, GoesOn, KeptInv, DatabaseShape, SchemaTypeOK, Script
  <2> QED BY <2>1, <2>2 DEF Closed1, Closing
<1>4. ASSUME NEW t \in Threads, Finish(t) PROVE Closed1'
  <2>1. /\ pc' = [pc EXCEPT ![t] = 0] /\ chapter' = chapter /\ writer' = writer
        /\ pc[t] = Len(Script) + 1 /\ Len(Script) \in Nat
    BY <1>4, ScriptLength DEF Finish, DatabaseSame, KeptInv, DatabaseShape, SchemaTypeOK
  <2>2. writer # t
    BY <2>1 DEF Closed1, Closing
  <2> QED BY <2>1, <2>2, ClosingLeaves
<1>5. ASSUME NEW t \in Threads, StatementFails(t) PROVE Closed1'
  <2>1. PICK s \in Now(t) : \/ Leaves(t)
                            \/ s.op = "try" /\ GoesOn(t) /\ DatabaseSame /\ chapter' = chapter
    BY <1>5 DEF StatementFails
  <2> QED BY <1>1, <2>1, ClosingGoes DEF DatabaseSame
<1>6. ASSUME NEW t \in Threads, GiveRole(t) \/ SavePath(t) PROVE Closed1'
  BY <1>6 DEF GiveRole, SavePath, Saved, Closed1, Closing, Script
<1>7. ASSUME Unopened(Main) PROVE Closed1'
  BY <1>7 DEF Unopened, DatabaseSame, Closed1, Closing, Script
<1>8. ASSUME RestartService PROVE Closed1'
  BY <1>8, ThreadNames DEF RestartService, Closed1, Closing
<1>9. CASE UNCHANGED schemaVars
  BY <1>9 DEF schemaVars, Closed1, Closing, Script
<1> QED BY <1>2, <1>3, <1>4, <1>5, <1>6, <1>7, <1>8, <1>9 DEF SchemaNext, Step

(***************************************************************************)
(* Outside the favorites a database only grows.                            *)
(***************************************************************************)
LEMMA EffectGrows ==
    ASSUME NEW t, NEW s, NEW e, Effect(t, s, e) PROVE View(t).cols \subseteq e.cols
BY DEF Effect

LEMMA PutsGrows ==
    ASSUME KeptInv, stored.cols \subseteq draft.cols, NEW t \in Threads, NEW s, NEW e,
           Puts(t, s, e), View(t).cols \subseteq e.cols
    PROVE  Grows /\ View(t)' = e
<1>1. CASE DatabaseSame /\ e = View(t)
  BY <1>1 DEF DatabaseSame, Grows, View
<1>2. CASE Alter(t, e)
  BY <1>2 DEF Alter, MayWrite, Grows, View, KeptInv, DatabaseShape, SchemaTypeOK
<1>3. CASE Change(t, e)
  BY <1>3, ThreadNames DEF Change, MayWrite, Grows, View, KeptInv, DatabaseShape, SchemaTypeOK
<1>4. CASE writer = t /\ e = draft /\ stored' = draft /\ writer' = Nobody /\ UNCHANGED draft
  BY <1>4, ThreadNames DEF Grows, View
<1> QED BY <1>1, <1>2, <1>3, <1>4 DEF Puts

(* A thread whose database grew, and whose place and answer are the same.  *)
LEMMA StaysGrown ==
    ASSUME Growing, Grows, chapter' = chapter, cuts' = cuts \/ cuts' # 0, NEW u \in Threads,
           pc'[u] = pc[u], told'[u] = told[u]
    PROVE  (Columns(View(u), pc[u] - 1) /\ StillSees(u))'
<1>1. Columns(View(u), pc[u] - 1) /\ StillSees(u) /\ View(u).cols \subseteq View(u)'.cols
  BY DEF Growing, Grows
<1>2. Script' = Script
  BY DEF Script
<1>3. Columns(View(u), pc[u] - 1)'
  BY <1>1, <1>2 DEF Columns, Leaving, HasColumn
<1>4. StillSees(u)'
  BY <1>1, <1>2 DEF StillSees, HasColumn
<1> QED BY <1>3, <1>4

LEMMA StartsGrown ==
    ASSUME KeptInv, NEW u \in Threads, chapter' = chapter, pc'[u] \in {0, 1}
    PROVE  (Columns(View(u), pc[u] - 1) /\ StillSees(u))'
<1>1. /\ \A i \in 1..pc'[u] - 1 : FALSE
  OBVIOUS
<1> QED BY <1>1 DEF Columns, StillSees

LEMMA ColumnThere ==
    ASSUME KeptInv, Growing, NEW t \in Threads, NEW s \in Now(t), NEW e, Effect(t, s, e),
           Leaving(s)
    PROVE  HasColumn(e, s.t, s.c)
<1>1. pc[t] \in 1..Len(Script) /\ s = Script[pc[t]] /\ Len(Script) \in Nat
  BY AtStatement DEF KeptInv
<1>2. CASE s.op = "try"
  BY <1>2 DEF Effect, HasColumn
<1>3. CASE s.op = "add" /\ s.g = s.c
  <2>1. PICK j \in 1..pc[t] - 1 : /\ Script[j].op = "look" /\ Script[j].t = s.t
                                  /\ \A k \in j + 1..pc[t] - 1 : Script[k].op \notin Answers
    BY <1>1, <1>3, ScriptSound DEF Sound, Tested, KeptInv, DatabaseShape, SchemaTypeOK
  <2>2. s.g \in told[t] => HasColumn(View(t), s.t, s.g)
    BY <2>1 DEF Growing, StillSees
  <2> QED BY <1>3, <2>2 DEF Effect, HasColumn
<1> QED BY <1>2, <1>3 DEF Leaving, Own

LEMMA GoesGrown ==
    ASSUME KeptInv, AllPaired, Growing, Grows, NEW t \in Threads, NEW s \in Now(t), GoesOn(t),
           Hears(t, s), chapter' = chapter, cuts' = cuts \/ cuts' # 0,
           Leaving(s)' => HasColumn(View(t)', s.t, s.c)
    PROVE  (Columns(View(t), pc[t] - 1) /\ StillSees(t))'
<1>1. /\ pc'[t] = pc[t] + 1 /\ Script' = Script /\ pc[t] \in 1..Len(Script) /\ s = Script[pc[t]]
      /\ Len(Script) \in Nat
  <2>1. pc' = [pc EXCEPT ![t] = pc[t] + 1] /\ DatabaseShape
    BY DEF KeptInv, GoesOn
  <2>2. pc'[t] = pc[t] + 1 /\ Script' = Script /\ Len(Script) \in Nat
    BY <2>1, ThePlaces
  <2>3. pc[t] \in 1..Len(Script) /\ s = Script[pc[t]]
    BY <2>1, <2>2, AtStatement
  <2> QED BY <2>2, <2>3
<1>2. Columns(View(t), pc[t] - 1) /\ StillSees(t) /\ View(t).cols \subseteq View(t)'.cols
  BY DEF Growing, Grows
<1>3. Columns(View(t), pc[t] - 1)'
  <2> SUFFICES ASSUME NEW i \in 1..pc[t], Leaving(Script[i])'
               PROVE  HasColumn(View(t)', Script[i].t, Script[i].c)
    BY <1>1 DEF Columns
  <2>1. CASE i = pc[t]
    BY <1>1, <2>1
  <2>2. CASE i # pc[t]
    <3>1. Leaving(Script[i]) /\ i \in 1..pc[t] - 1
      BY <1>1, <2>2 DEF Leaving
    <3> QED BY <1>2, <3>1 DEF Columns, HasColumn
  <2> QED BY <2>1, <2>2
<1>4. StillSees(t)'
  <2> SUFFICES ASSUME NEW j \in 1..pc[t], Script[j].op = "look",
                      \A k \in j + 1..pc[t] : Script[k].op \notin Answers, NEW c \in told'[t]
               PROVE  HasColumn(View(t)', Script[j].t, c)
    BY <1>1 DEF StillSees
  <2>1. CASE j = pc[t]
    <3>1. told'[t] = ColumnsOf(View(t), s.t)
      BY <1>1, <2>1 DEF Hears
    <3>2. PICK x \in View(t).cols : x[1] = s.t /\ x[2] = c
      BY <3>1 DEF ColumnsOf
    <3>3. x = <<x[1], x[2]>> /\ x \in View(t)'.cols
      BY <1>2, <3>2 DEF AllPaired, Paired, View
    <3> QED BY <1>1, <2>1, <3>2, <3>3 DEF HasColumn
  <2>2. CASE j # pc[t]
    <3>1. told'[t] = told[t] /\ j \in 1..pc[t] - 1
      BY <1>1, <2>2 DEF Hears
    <3> QED BY <1>1, <1>2, <3>1 DEF StillSees, HasColumn
  <2> QED BY <2>1, <2>2
<1> QED BY <1>3, <1>4

LEMMA EffectPaired ==
    ASSUME NEW t, NEW s, NEW e, Effect(t, s, e), Paired(View(t)) PROVE Paired(e)
<1>1. ASSUME NEW x \in e.cols PROVE x = <<x[1], x[2]>>
  <2>1. CASE x \in View(t).cols
    BY <2>1 DEF Paired
  <2>2. CASE x \in (s.t \ View(t).tables) \X s.c
    BY <2>2
  <2>3. CASE x = <<s.t, s.c>>
    BY <2>3
  <2>4. \/ x \in View(t).cols \/ x = <<s.t, s.c>> \/ x \in (s.t \ View(t).tables) \X s.c
    BY DEF Effect
  <2> QED BY <2>1, <2>2, <2>3, <2>4
<1> QED BY <1>1 DEF Paired

LEMMA PutsPaired ==
    ASSUME AllPaired, NEW t, NEW s, NEW e, Puts(t, s, e), Paired(e) PROVE AllPaired'
BY DEF AllPaired, Paired, Puts, DatabaseSame, Alter, Change

LEMMA MovesPaired ==
    ASSUME KeptInv, AllPaired, NEW t \in Threads, NEW s, MoveFavorites(t, s), ~Raise(t)
    PROVE  AllPaired'
<1> DEFINE d == View(t)
           without == [d EXCEPT !.tables = @ \ {"favorites"},
                                !.cols = {x \in @ : x[1] # "favorites"}]
           renamed == [without EXCEPT !.tables = @ \cup {V1},
                                      !.old = IF @ = "none" THEN @ ELSE "aside"]
           recreated == [d EXCEPT !.tables = @ \cup {"favorites"},
                                  !.cols = @ \cup {<<"favorites", "user_id">>}]
           copied == [d EXCEPT !.old = IF @ = "aside" THEN "copied" ELSE @]
           dropped == [d EXCEPT !.tables = @ \ {V1}, !.old = IF @ = "aside" THEN "lost" ELSE @]
<1>1. Paired(d) /\ IsDb(d)
  BY ViewKept DEF AllPaired, View
<1>2. /\ Paired(renamed) /\ Paired(recreated) /\ Paired(copied) /\ Paired(dropped)
  <2>1. renamed.cols = {x \in d.cols : x[1] # "favorites"}
    BY <1>1 DEF IsDb, Fields
  <2>2. recreated.cols = d.cols \cup {<<"favorites", "user_id">>}
    BY <1>1 DEF IsDb, Fields
  <2>3. copied.cols = d.cols /\ dropped.cols = d.cols
    BY <1>1 DEF IsDb, Fields
  <2> HIDE DEF d, without, renamed, recreated, copied, dropped
  <2>4. Paired(recreated)
    BY <1>1, <2>2 DEF Paired
  <2> QED BY <1>1, <2>1, <2>3, <2>4 DEF Paired
<1>3. \/ DatabaseSame
      \/ \E e \in {renamed, recreated, copied, dropped} : Alter(t, e) \/ Change(t, e)
  BY DEF MoveFavorites, Skip
<1> HIDE DEF d, without, renamed, recreated, copied, dropped
<1>4. ASSUME NEW e, Paired(e), Alter(t, e) \/ Change(t, e) PROVE AllPaired'
  BY <1>4 DEF AllPaired, Paired, Alter, Change
<1> QED BY <1>2, <1>3, <1>4 DEF AllPaired, Paired, DatabaseSame

LEMMA PairedKept == ASSUME KeptInv, AllPaired, [SchemaNext]_schemaVars PROVE AllPaired'
<1>1. ASSUME NEW t \in Threads, Leaves(t) PROVE AllPaired'
  BY <1>1 DEF Leaves, AllPaired, Paired
<1>2. ASSUME DatabaseSame PROVE AllPaired'
  BY <1>2 DEF DatabaseSame, AllPaired, Paired
<1>3. ASSUME NEW t \in Threads, Statement(t) PROVE AllPaired'
  <2>1. PICK s \in Now(t) : \/ Ordinary(t, s)
                            \/ chapter = "favorites" /\ MoveFavorites(t, s)
    BY <1>3, OrdinaryStatement
  <2>2. CASE Raise(t)
    BY <1>1, <2>2 DEF Raise
  <2>3. CASE Ordinary(t, s) /\ ~Raise(t)
    <3>1. PICK e : Puts(t, s, e) /\ Effect(t, s, e)
      BY <2>3 DEF Ordinary, Refused
    <3>2. Paired(View(t))
      BY DEF AllPaired, View
    <3> QED BY <3>1, <3>2, EffectPaired, PutsPaired
  <2>4. CASE MoveFavorites(t, s) /\ ~Raise(t)
    BY <2>4, MovesPaired
  <2> QED BY <2>1, <2>2, <2>3, <2>4
<1>4. ASSUME NEW t \in Threads, StatementFails(t) PROVE AllPaired'
  BY <1>1, <1>2, <1>4 DEF StatementFails
<1>5. ASSUME NEW t \in Threads, GiveRole(t) \/ SavePath(t) PROVE AllPaired'
  <2>1. stored'.cols = stored.cols /\ draft' = stored'
    BY <1>5 DEF GiveRole, SavePath, Saved, KeptInv, DatabaseShape, IsDb, Fields
  <2> QED BY <2>1 DEF AllPaired, Paired
<1>6. RestartService => AllPaired'
  BY DEF RestartService, AllPaired, Paired
<1>7. ASSUME NEW t \in Threads, Step(t) PROVE AllPaired'
  BY <1>2, <1>3, <1>7 DEF Step, Call, Finish
<1> QED BY <1>2, <1>4, <1>5, <1>6, <1>7 DEF SchemaNext, schemaVars, Unopened, DatabaseSame

(* A thread that gives up takes nothing from the others.                   *)
LEMMA LeavesGrown ==
    ASSUME KeptInv, Growing, NEW t \in Threads, Leaves(t), cuts' = cuts \/ cuts' # 0
    PROVE  Growing'
<1>1. /\ pc' = [pc EXCEPT ![t] = 0] /\ told' = [told EXCEPT ![t] = {}] /\ chapter' = chapter
      /\ stored' = stored /\ ready' = ready
      /\ draft' = IF writer = t THEN stored ELSE draft
      /\ writer' = IF writer = t THEN Nobody ELSE writer
  BY DEF Leaves, Learns
<1>2. /\ pc'[t] = 0 /\ \A u \in Threads \ {t} : pc'[u] = pc[u] /\ told'[u] = told[u]
      /\ Script' = Script
  <2>1. DatabaseShape
    BY DEF KeptInv
  <2> QED BY <1>1, <2>1, ThePlaces DEF DatabaseShape
<1>3. ASSUME NEW u \in Threads \ {t} PROVE (Columns(View(u), pc[u] - 1) /\ StillSees(u))'
  <2>1. View(u)' = View(u)
    BY <1>1, ThreadNames DEF View
  <2>2. Columns(View(u), pc[u] - 1) /\ StillSees(u)
    BY DEF Growing
  <2>3. Columns(View(u), pc[u] - 1)'
    BY <1>2, <2>1, <2>2 DEF Columns, Leaving
  <2>4. StillSees(u)'
    BY <1>2, <2>1, <2>2 DEF StillSees
  <2> QED BY <2>3, <2>4
<1>4. (Columns(View(t), pc[t] - 1) /\ StillSees(t))'
  BY <1>1, <1>2, StartsGrown
<1>5. ready' => Columns(stored, Len(Script))'
  BY <1>1, <1>2 DEF Growing, Columns, Leaving
<1>6. stored'.cols \subseteq draft'.cols
  BY <1>1 DEF Growing
<1> QED BY <1>3, <1>4, <1>5, <1>6 DEF Growing

LEMMA GoesAllGrown ==
    ASSUME KeptInv, AllPaired, Growing, Grows, NEW t \in Threads, NEW s \in Now(t), GoesOn(t),
           Hears(t, s), chapter' = chapter, ready' = ready, cuts' = cuts \/ cuts' # 0,
           Leaving(s)' => HasColumn(View(t)', s.t, s.c)
    PROVE  Growing'
<1>1. (Columns(View(t), pc[t] - 1) /\ StillSees(t))'
  BY GoesGrown
<1>2. ASSUME NEW u \in Threads \ {t} PROVE (Columns(View(u), pc[u] - 1) /\ StillSees(u))'
  <2>1. pc'[u] = pc[u] /\ told'[u] = told[u]
    BY DEF GoesOn, Hears, KeptInv, DatabaseShape, SchemaTypeOK
  <2> QED BY <2>1, StaysGrown
<1>3. ready' => Columns(stored, Len(Script))'
  BY DEF Growing, Grows, Columns, Leaving, HasColumn, Script
<1>4. stored'.cols \subseteq draft'.cols
  BY DEF Grows
<1> QED BY <1>1, <1>2, <1>3, <1>4 DEF Growing

LEMMA StatementGrown ==
    ASSUME GrowInv, chapter # "favorites", NEW t \in Threads, Statement(t) PROVE Growing'
<1>1. KeptInv /\ Growing /\ AllPaired /\ stored.cols \subseteq draft.cols
  BY DEF GrowInv, Growing
<1>2. PICK s \in Now(t) : Ordinary(t, s)
  BY <1>1, OrdinaryStatement
<1>3. CASE Refused(t, s)
  BY <1>1, <1>3, LeavesGrown DEF Refused, Raise
<1>4. CASE ~Refused(t, s)
  <2>1. PICK e : Puts(t, s, e) /\ Effect(t, s, e)
    BY <1>2, <1>4 DEF Ordinary
  <2>2. GoesOn(t) /\ Hears(t, s) /\ chapter' = chapter /\ ready' = ready /\ cuts' = cuts
    BY <1>2, <1>4 DEF Ordinary, Advances, RestSame
  <2>3. Grows /\ View(t)' = e
    BY <1>1, <2>1, EffectGrows, PutsGrows
  <2>4. Leaving(s)' => Leaving(s)
    BY <2>2 DEF Leaving, Own
  <2>5. Leaving(s) => HasColumn(e, s.t, s.c)
    BY <1>1, <2>1, ColumnThere
  <2> QED BY <1>1, <2>2, <2>3, <2>4, <2>5, GoesAllGrown
<1> QED BY <1>3, <1>4

LEMMA SameGrows == ASSUME Growing, DatabaseSame PROVE Grows
BY DEF Growing, Grows, DatabaseSame, View

LEMMA StatementFailsGrown ==
    ASSUME GrowInv, chapter # "favorites", NEW t \in Threads, StatementFails(t) PROVE Growing'
<1>1. KeptInv /\ Growing /\ AllPaired
  BY DEF GrowInv
<1>2. cuts' # 0
  BY <1>1 DEF StatementFails, KeptInv, DatabaseShape, SchemaTypeOK
<1>3. CASE Leaves(t)
  BY <1>1, <1>2, <1>3, LeavesGrown
<1>4. CASE ~Leaves(t)
  <2>1. PICK s \in Now(t) : s.op = "try" /\ GoesOn(t) /\ DatabaseSame /\ Learns(t, told[t])
                            /\ UNCHANGED <<chapter, conn, ready, tries, chosen>>
    BY <1>4 DEF StatementFails
  <2>2. Hears(t, s) /\ Grows
    BY <1>1, <2>1, Hearing, SameGrows DEF KeptInv, Answers
  <2>3. ~Leaving(s)'
    BY <1>2, <2>1 DEF Leaving, Own
  <2> QED BY <1>1, <1>2, <2>1, <2>2, <2>3, GoesAllGrown
<1> QED BY <1>3, <1>4

LEMMA CallGrown == ASSUME GrowInv, chapter # "favorites", NEW t \in Threads, Call(t) PROVE Growing'
<1>1. KeptInv /\ Growing /\ DatabaseSame /\ Grows
  BY SameGrows DEF GrowInv, Call
<1>2. /\ pc'[t] \in {0, 1} /\ \A u \in Threads \ {t} : pc'[u] = pc[u] /\ told'[u] = told[u]
      /\ UNCHANGED <<chapter, ready, cuts>>
  BY DEF Call, MayCall, GoesOn, Learns, KeptInv, DatabaseShape, SchemaTypeOK, GrowInv
<1>3. (Columns(View(t), pc[t] - 1) /\ StillSees(t))'
  BY <1>1, <1>2, StartsGrown
<1>4. ASSUME NEW u \in Threads \ {t} PROVE (Columns(View(u), pc[u] - 1) /\ StillSees(u))'
  BY <1>1, <1>2, StaysGrown
<1> QED
  BY <1>1, <1>2, <1>3, <1>4 DEF Growing, DatabaseSame, Columns, Leaving, HasColumn, Script

LEMMA FinishGrown ==
    ASSUME GrowInv, chapter # "favorites", NEW t \in Threads, Finish(t) PROVE Growing'
<1>1. KeptInv /\ Growing /\ DatabaseSame /\ Grows
  BY SameGrows DEF GrowInv, Finish
<1>2. /\ pc[t] = Len(Script) + 1 /\ pc' = [pc EXCEPT ![t] = 0]
      /\ told' = [told EXCEPT ![t] = {}] /\ UNCHANGED <<chapter, cuts>>
      /\ Len(Script) \in Nat
  BY <1>1, ScriptLength DEF Finish, Learns, KeptInv, DatabaseShape, SchemaTypeOK
<1>3. pc'[t] = 0 /\ \A u \in Threads \ {t} : pc'[u] = pc[u] /\ told'[u] = told[u]
  BY <1>1, <1>2 DEF KeptInv, DatabaseShape, SchemaTypeOK
<1>4. writer # t
  BY <1>2 DEF GrowInv, Closed1, Closing
<1>5. Columns(stored, Len(Script))
  BY <1>1, <1>2, <1>4 DEF Growing, View
<1>6. (Columns(View(t), pc[t] - 1) /\ StillSees(t))'
  BY <1>1, <1>2, <1>3, StartsGrown
<1>7. ASSUME NEW u \in Threads \ {t} PROVE (Columns(View(u), pc[u] - 1) /\ StillSees(u))'
  BY <1>1, <1>2, <1>3, StaysGrown
<1>8. Columns(stored, Len(Script))' /\ stored'.cols \subseteq draft'.cols
  BY <1>1, <1>2, <1>5 DEF DatabaseSame, Columns, Leaving, HasColumn, Script, Grows
<1> QED BY <1>6, <1>7, <1>8 DEF Growing

LEMMA RestGrown ==
    ASSUME GrowInv, chapter # "favorites",
           \/ Unopened(Main) \/ RestartService \/ UNCHANGED schemaVars
           \/ \E t \in Threads : GiveRole(t) \/ SavePath(t)
    PROVE  Growing'
<1>1. KeptInv /\ Growing
  BY DEF GrowInv
<1>2. CASE RestartService
  <2>1. /\ \A u \in Threads : pc'[u] = 0
        /\ chapter' = chapter /\ ~ready' /\ draft' = stored'
    BY <1>2 DEF RestartService
  <2>2. \A u \in Threads : (Columns(View(u), pc[u] - 1) /\ StillSees(u))'
    BY <1>1, <2>1, StartsGrown
  <2> QED BY <2>1, <2>2 DEF Growing
<1>3. ASSUME Grows, UNCHANGED <<chapter, ready, cuts, pc, told>> PROVE Growing'
  <2>1. \A u \in Threads : (Columns(View(u), pc[u] - 1) /\ StillSees(u))'
    BY <1>1, <1>3, StaysGrown
  <2>2. ready' => Columns(stored, Len(Script))'
    BY <1>1, <1>3 DEF Growing, Grows, Columns, Leaving, HasColumn, Script
  <2> QED BY <1>3, <2>1, <2>2 DEF Growing, Grows
<1>4. CASE Unopened(Main) \/ UNCHANGED schemaVars
  BY <1>1, <1>3, <1>4, SameGrows DEF Unopened, DatabaseSame, schemaVars
<1>5. ASSUME NEW t \in Threads, GiveRole(t) \/ SavePath(t) PROVE Growing'
  <2>1. stored'.cols = stored.cols /\ draft' = stored' /\ writer = Nobody /\ writer' = Nobody
    BY <1>1, <1>5 DEF GiveRole, SavePath, Saved, KeptInv, DatabaseShape, IsDb, Fields
  <2>2. Grows
    BY <2>1, ThreadNames DEF Grows, View
  <2> QED BY <1>3, <1>5, <2>2 DEF GiveRole, SavePath, Saved
<1> QED BY <1>2, <1>4, <1>5

LEMMA NextGrown == ASSUME GrowInv, [SchemaNext]_schemaVars PROVE GrowInv'
<1>1. KeptInv' /\ Closed1' /\ AllPaired'
  BY NextKept, ClosingKept, PairedKept DEF GrowInv
<1>2. chapter' = chapter
  <2>1. ASSUME NEW t \in Threads, Statement(t) PROVE chapter' = chapter
    <3>1. KeptInv
      BY DEF GrowInv
    <3>2. PICK s \in Now(t) : Ordinary(t, s) \/ MoveFavorites(t, s)
      BY <2>1, <3>1, OrdinaryStatement
    <3>3. CASE Raise(t)
      BY <3>3 DEF Raise, Leaves
    <3>4. CASE ~Raise(t)
      BY <3>1, <3>2, <3>4, MovesWriter DEF Ordinary, Refused, Advances, RestSame
    <3> QED BY <3>3, <3>4
  <2>2. ASSUME NEW t \in Threads, StatementFails(t) PROVE chapter' = chapter
    BY <2>2 DEF StatementFails, Leaves
  <2>3. ASSUME NEW t \in Threads, Call(t) \/ Finish(t) \/ GiveRole(t) \/ SavePath(t)
        PROVE  chapter' = chapter
    BY <2>3 DEF Call, Finish, GiveRole, SavePath, Saved
  <2> QED BY <2>1, <2>2, <2>3 DEF SchemaNext, Step, schemaVars, Unopened, RestartService
<1>3. ASSUME chapter # "favorites" PROVE Growing'
  BY <1>3, StatementGrown, StatementFailsGrown, CallGrown, FinishGrown, RestGrown
  DEF SchemaNext, Step
<1> QED BY <1>1, <1>2, <1>3 DEF GrowInv

LEMMA InitGrown == ASSUME SchemaInit PROVE GrowInv
<1>1. /\ KeptInv /\ stored.cols = {} /\ draft = stored /\ ~ready /\ writer = Nobody
      /\ \A t \in Threads : pc[t] = 0
  <2>1. /\ Fresh.cols = {} /\ SingleLogin(chapter).cols = {} /\ TwoRoles(chapter).cols = {}
    BY DEF Fresh, SingleLogin, TwoRoles
  <2>2. stored.cols = {}
    BY <2>1 DEF SchemaInit
  <2> QED BY <2>2, InitKept DEF SchemaInit
<1>2. Closed1 /\ AllPaired
  BY <1>1, ThreadNames DEF Closed1, Closing, AllPaired, Paired
<1>3. \A t \in Threads : \A i \in 1..pc[t] - 1 : FALSE
  BY <1>1
<1>4. Growing
  BY <1>1, <1>3 DEF Growing, Columns, StillSees
<1> QED BY <1>1, <1>2, <1>4 DEF GrowInv

(***************************************************************************)
(* Columns that are added together.                                        *)
(***************************************************************************)
Like(e, d, k, m) == (\A i \in k..k + m : Has(e, i) <=> Has(d, i)) /\ Within(e, k)
Others(t) == \A u \in Threads \ {t} : pc'[u] = pc[u] /\ told'[u] = told[u]

LEMMA OthersAmid ==
    ASSUME NEW k, NEW m, NEW t \in Threads, Others(t), chapter' = chapter,
           NEW u \in Threads \ {t}
    PROVE  Amid(u, k, m)' <=> Amid(u, k, m)
BY DEF Others, Amid, Script

(* A thread outside the group leaves the columns of the group alone.       *)
LEMMA OutsideCoherent ==
    ASSUME NEW k \in Nat, NEW m \in Nat, NEW t \in Threads, Others(t), chapter' = chapter,
           ~Amid(t, k, m), NEW d, NEW e, Like(e, d, k, m), Coherent(d, k, m)
    PROVE  Coherent(e, k, m)'
<1>1. \A u \in Threads : Amid(u, k, m) => Amid(u, k, m)'
  BY OthersAmid
<1>2. \A i : Has(e, i)' <=> Has(e, i)
  BY DEF Has, Script, HasColumn
<1>3. Within(e, k)'
  BY DEF Like, Within, Script
<1>4. k \in k..k + m
  OBVIOUS
<1> QED BY <1>1, <1>2, <1>3, <1>4 DEF Coherent, Like

Written1(t, e) ==
    \/ DatabaseSame
    \/ Alter(t, e)
    \/ Change(t, e)
    \/ writer = t /\ stored' = draft /\ writer' = Nobody /\ UNCHANGED draft
    \/ writer = t /\ writer' = Nobody /\ draft' = stored /\ UNCHANGED stored

LEMMA LikeSelf ==
    ASSUME NEW k, NEW m, NEW d, Coherent(d, k, m) PROVE Like(d, d, k, m)
BY DEF Like, Coherent

LEMMA OutsideTogether ==
    ASSUME KeptInv, NEW k \in Nat, NEW m \in Nat, Together(k, m), NEW t \in Threads,
           Others(t), chapter' = chapter, ~Amid(t, k, m), ~Amid(t, k, m)',
           NEW e, Like(e, View(t), k, m), Written1(t, e)
    PROVE  Together(k, m)'
<1>1. Coherent(stored, k, m) /\ Coherent(draft, k, m) /\ Coherent(View(t), k, m)
  BY DEF Together, View
<1>3. stored' \in {stored, draft, e} /\ draft' \in {stored, draft, e}
  BY DEF Written1, DatabaseSame, Alter, Change
<1>4. Coherent(stored, k, m)' /\ Coherent(draft, k, m)'
  <2>1. \A d : d \in {stored, draft, e} => Coherent(d, k, m)'
    <3> SUFFICES ASSUME NEW d \in {stored, draft, e} PROVE Coherent(d, k, m)'
      OBVIOUS
    <3>1. \E c : Like(d, c, k, m) /\ Coherent(c, k, m)
      BY <1>1, LikeSelf
    <3> QED BY <3>1, OutsideCoherent
  <2> QED BY <1>3, <2>1
<1>5. OneAmid(k, m)'
  BY OthersAmid DEF Together, OneAmid
<1>6. ASSUME NEW u \in Threads, Amid(u, k, m)' PROVE Midway(u, k, m)'
  <2>1. u # t /\ Amid(u, k, m) /\ pc'[u] = pc[u] /\ Midway(u, k, m)
    BY <1>6, OthersAmid DEF Others, Together
  <2>2. \A i \in k..k + m : \A d : Has(d, i)' <=> Has(d, i)
    BY DEF Has, Script, HasColumn
  <2>3. \A i \in k..k + m : Has(draft, i) <=> i < pc[u]
    BY <2>1 DEF Midway
  <2>4. CASE DatabaseSame
    BY <2>1, <2>2, <2>4 DEF DatabaseSame, Midway, Has, HasColumn, Script
  <2>5. CASE ~DatabaseSame
    <3>1. writer \in {Nobody, t} /\ writer' \in {Nobody, t}
      BY <2>5 DEF Written1, Alter, Change, MayWrite
    <3>2. \A i \in k..k + m : Has(stored, i) <=> i < pc[u]
      BY <2>1, <3>1, ThreadNames DEF Midway
    <3>3. \A i \in k..k + m : Has(e, i) <=> i < pc[u]
      BY <2>3, <3>2 DEF Like, View
    <3>4. \A d \in {stored, draft, e}, i \in k..k + m : Has(d, i)' <=> i < pc'[u]
      BY <2>1, <2>2, <2>3, <3>2, <3>3
    <3>5. \A i \in k..k + m : (Has(stored, i)' <=> i < pc'[u]) /\ (Has(draft, i)' <=> i < pc'[u])
      BY <1>3, <3>4
    <3>6. writer' # u
      BY <2>1, <3>1, ThreadNames
    <3> QED BY <3>5, <3>6 DEF Midway
  <2> QED BY <2>4, <2>5
<1> QED BY <1>4, <1>5, <1>6 DEF Together, Midway

(* The statements outside the group.                                       *)
LEMMA EffectLike ==
    ASSUME KeptInv, NEW k, NEW m, Group(k, m), NEW t \in Threads, Coherent(View(t), k, m),
           NEW s \in Now(t), NEW e, Effect(t, s, e),
           pc[t] \in k..k + m => Script[k].c \in told[t]
    PROVE  Like(e, View(t), k, m)
<1> DEFINE d == View(t)
<1>1. /\ pc[t] \in 1..Len(Script) /\ s = Script[pc[t]] /\ Len(Script) \in Nat
      /\ k..k + m \subseteq 1..Len(Script) /\ s.op # "try"
  BY AtStatement DEF Group, KeptInv
<1>2. Within(d, k)
  BY DEF Coherent
<1>3. CASE s.op = "create"
  <2>1. e.tables = d.tables \cup s.t /\ e.cols = d.cols \cup ((s.t \ d.tables) \X s.c)
    BY <1>3 DEF Effect
  <2>2. ASSUME NEW i \in k..k + m, HasColumn(e, Script[i].t, Script[i].c)
        PROVE  HasColumn(d, Script[i].t, Script[i].c)
    <3>1. Script[i].t = Script[k].t /\ (Script[k].t \in s.t => Script[i].c \notin s.c)
      BY <1>1, <1>3 DEF Group, GroupLines, OnlyThere
    <3> QED BY <2>1, <2>2, <3>1 DEF HasColumn
  <2>3. Within(e, k)
    BY <1>2, <2>1 DEF Within
  <2> QED BY <2>1, <2>2, <2>3 DEF Like, Has, HasColumn
<1>4. CASE s.op = "add" /\ s.g \notin told[t]
  <2>1. e.tables = d.tables /\ s.t \in d.tables /\ e.cols = d.cols \cup {<<s.t, s.c>>}
    BY <1>4 DEF Effect
  <2>2. pc[t] \notin k..k + m
    BY <1>1, <1>4 DEF Group, GroupLines
  <2>3. ASSUME NEW i \in k..k + m, HasColumn(e, Script[i].t, Script[i].c)
        PROVE  HasColumn(d, Script[i].t, Script[i].c)
    <3>1. Script[i].t = Script[k].t /\ (s.t = Script[k].t => s.c # Script[i].c)
      BY <1>1, <1>4, <2>2 DEF Group, GroupLines, OnlyThere
    <3> QED BY <2>1, <2>3, <3>1 DEF HasColumn
  <2>4. Within(e, k)
    BY <1>2, <2>1 DEF Within
  <2> QED BY <2>1, <2>3, <2>4 DEF Like, Has, HasColumn
<1>5. CASE s.op \notin {"create", "add"} \/ (s.op = "add" /\ s.g \in told[t])
  <2>1. e.tables = d.tables /\ e.cols = d.cols
    BY <1>1, <1>5 DEF Effect
  <2> QED BY <1>2, <2>1 DEF Like, Has, HasColumn, Within
<1> QED BY <1>3, <1>4, <1>5

LEMMA RefusedTogether ==
    ASSUME KeptInv, NEW k, NEW m, Group(k, m), Together(k, m), NEW t \in Threads,
           ~Amid(t, k, m), Leaves(t)
    PROVE  Together(k, m)'
<1>1. k \in Nat /\ m \in Nat /\ DatabaseShape /\ Coherent(View(t), k, m)
  BY DEF Group, KeptInv, Together, View
<1>2. pc'[t] = 0 /\ Others(t) /\ chapter' = chapter
  <2>1. pc' = [pc EXCEPT ![t] = 0] /\ told' = [told EXCEPT ![t] = {}] /\ chapter' = chapter
    BY DEF Leaves, Learns
  <2> QED BY <1>1, <2>1, ThePlaces DEF Others, DatabaseShape
<1>3. ~Amid(t, k, m)'
  BY <1>1, <1>2 DEF Amid
<1>4. Written1(t, View(t)) /\ Like(View(t), View(t), k, m)
  BY <1>1, LikeSelf DEF Leaves, Written1, DatabaseSame
<1> QED BY <1>1, <1>2, <1>3, <1>4, OutsideTogether

LEMMA OutsideGroup ==
    ASSUME KeptInv, NEW k, NEW m, Group(k, m), Together(k, m), NEW t \in Threads,
           NEW s \in Now(t), NEW e, Puts(t, s, e), Effect(t, s, e), Advances(t, s),
           pc[t] \in k..k + m => Script[k].c \in told[t]
    PROVE  Together(k, m)'
<1>1. k \in Nat /\ m \in Nat /\ k >= 1 /\ DatabaseShape
  BY AtStatement DEF Group, KeptInv
<1>2. pc[t] \in Nat /\ ~Amid(t, k, m) /\ Coherent(View(t), k, m)
  BY <1>1, AtStatement DEF Amid, Together, View
<1>3. Written1(t, e) /\ Like(e, View(t), k, m)
  BY <1>2, EffectLike DEF Puts, Written1
<1>4. Others(t) /\ chapter' = chapter /\ pc'[t] = pc[t] + 1 /\ Script' = Script
  <2>1. pc' = [pc EXCEPT ![t] = pc[t] + 1] /\ chapter' = chapter
    BY DEF Advances, GoesOn, RestSame
  <2> QED BY <1>1, <2>1, ThePlaces DEF Others, DatabaseShape, Hears, Advances
<1>5. ~Amid(t, k, m)'
  <2>1. CASE pc[t] \in k..k + m
    <3>1. Script[pc[t]].op = "add" /\ s = Script[pc[t]]
      BY <1>1, <2>1, AtStatement DEF Group, GroupLines
    <3>2. told'[t] = told[t]
      BY <3>1 DEF Advances, Hears, Answers
    <3> QED BY <1>4, <2>1, <3>2 DEF Amid
  <2>2. CASE pc[t] \notin k..k + m
    BY <1>1, <1>2, <1>4, <2>2 DEF Amid
  <2> QED BY <2>1, <2>2
<1> QED BY <1>1, <1>2, <1>3, <1>4, <1>5, OutsideTogether

(* The statements of the group, when its first column was not there.       *)
LEMMA ColumnsInside ==
    ASSUME KeptInv, NEW k, NEW m, Group(k, m), NEW t \in Threads,
           Coherent(View(t), k, m), Midway(t, k, m),
           NEW s \in Now(t), NEW e, Effect(t, s, e),
           pc[t] \in k..k + m, Script[k].c \notin told[t]
    PROVE  /\ s.op = "add" /\ Within(e, k) /\ e.cols # View(t).cols
           /\ \A i \in k..k + m : Has(e, i) <=> i <= pc[t]
           /\ pc[t] = k => ~Has(View(t), k)
<1> DEFINE d == View(t)
           p == pc[t]
<1>1. /\ p \in 1..Len(Script) /\ s = Script[p] /\ Len(Script) \in Nat
      /\ k..k + m \subseteq 1..Len(Script) /\ k \in Nat /\ m \in Nat
  BY AtStatement DEF Group, KeptInv
<1>2. s.op = "add" /\ s.g \notin told[t] /\ s.t = Script[k].t
  BY <1>1 DEF Group, GroupLines
<1>3. /\ e.tables = d.tables /\ s.t \in d.tables /\ e.cols = d.cols \cup {<<s.t, s.c>>}
      /\ ~HasColumn(d, s.t, s.c)
  BY <1>2 DEF Effect
<1>4. ASSUME NEW i \in k..k + m PROVE Has(e, i) <=> Has(d, i) \/ i = p
  <2>1. Script[i].t = Script[k].t /\ (i # p => Script[i].c # s.c)
    BY <1>1, <1>2 DEF Group, GroupLines, OnlyThere
  <2> QED BY <1>1, <1>2, <1>3, <2>1 DEF Has, HasColumn
<1>5. ASSUME NEW i \in k..k + m PROVE Has(d, i) <=> i < p
  <2>1. CASE p = k
    <3>1. ~Has(d, k)
      BY <1>1, <1>3, <2>1 DEF Has
    <3> QED BY <1>1, <2>1, <3>1 DEF Coherent
  <2>2. CASE p # k
    <3>1. Amid(t, k, m)
      BY <1>1, <2>2 DEF Amid
    <3> QED BY <3>1 DEF Midway, View
  <2> QED BY <2>1, <2>2
<1>6. \A i \in k..k + m : Has(e, i) <=> i <= p
  BY <1>1, <1>4, <1>5
<1>7. Within(e, k)
  BY <1>3 DEF Within, Coherent
<1>8. e.cols # d.cols
  BY <1>3 DEF HasColumn
<1>9. p = k => ~Has(d, k)
  BY <1>1, <1>3 DEF Has
<1> QED BY <1>2, <1>6, <1>7, <1>8, <1>9

LEMMA RefusedInside ==
    ASSUME KeptInv, NEW k, NEW m, Group(k, m), Together(k, m), NEW t \in Threads,
           NEW s \in Now(t), Refused(t, s), Amid(t, k, m)
    PROVE  FALSE
<1> DEFINE d == View(t)
           p == pc[t]
<1>1. /\ p \in k + 1..k + m /\ s = Script[p] /\ k \in Nat /\ m \in Nat /\ p \in Nat
      /\ DatabaseShape
  <2>1. DatabaseShape /\ k \in Nat /\ m \in Nat
    BY DEF KeptInv, Group
  <2> QED BY <2>1, AtStatement DEF Amid
<1>2. s.op = "add" /\ s.t = Script[k].t
  BY <1>1 DEF Group, GroupLines
<1>3. ~Has(d, p) /\ Has(d, k)
  BY <1>1 DEF Together, Midway, View
<1>4. s.t \in d.tables
  <2>1. Coherent(d, k, m)
    BY DEF Together, View
  <2> QED BY <1>2, <1>3, <2>1 DEF Coherent, Within, Has, HasColumn
<1> QED BY <1>1, <1>2, <1>3, <1>4 DEF Refused, Has

LEMMA NobodyAmid ==
    ASSUME KeptInv, stored.cols \subseteq draft.cols, NEW k, NEW m, Group(k, m), Together(k, m),
           NEW t \in Threads, MayWrite(t), pc[t] \in k..k + m, Script[k].c \notin told[t],
           pc[t] = k => ~Has(View(t), k)
    PROVE  \A u \in Threads \ {t} : ~Amid(u, k, m)
<1>1. k \in Nat /\ m \in Nat /\ k \in k..k + m
  BY DEF Group
<1>2. ASSUME NEW u \in Threads \ {t}, Amid(u, k, m) PROVE FALSE
  <2>1. CASE pc[t] = k
    <3>1. writer # u /\ k < pc[u] /\ Midway(u, k, m)
      BY <1>1, <1>2, ThreadNames DEF MayWrite, Amid, Together
    <3>2. Has(draft, k) /\ Has(stored, k)
      BY <1>1, <1>2, <3>1 DEF Midway
    <3> QED BY <2>1, <3>2 DEF View
  <2>2. CASE pc[t] # k
    <3>1. Amid(t, k, m)
      BY <1>1, <2>2 DEF Amid
    <3> QED BY <1>2, <3>1 DEF Together, OneAmid
  <2> QED BY <2>1, <2>2
<1> QED BY <1>2

LEMMA InsideGroup ==
    ASSUME KeptInv, stored.cols \subseteq draft.cols, NEW k, NEW m, Group(k, m), Together(k, m),
           NEW t \in Threads, NEW s \in Now(t), NEW e, Puts(t, s, e), Effect(t, s, e),
           Advances(t, s), pc[t] \in k..k + m, Script[k].c \notin told[t]
    PROVE  Together(k, m)'
<1>1. k \in Nat /\ m \in Nat /\ k \in k..k + m /\ DatabaseShape /\ pc[t] \in Nat
  <2>1. DatabaseShape /\ k \in Nat /\ m \in Nat
    BY DEF KeptInv, Group
  <2> QED BY <2>1, AtStatement
<1>2. /\ Coherent(View(t), k, m) /\ Midway(t, k, m) /\ Coherent(stored, k, m)
      /\ \A u \in Threads : Midway(u, k, m)
  BY DEF Together, View
<1>3. /\ s.op = "add" /\ Within(e, k) /\ e.cols # View(t).cols
      /\ \A i \in k..k + m : Has(e, i) <=> i <= pc[t]
      /\ pc[t] = k => ~Has(View(t), k)
  BY <1>2, ColumnsInside
<1>4. Alter(t, e)
  BY <1>3 DEF Puts, Opening
<1>5. /\ draft' = e /\ writer' = writer /\ MayWrite(t)
      /\ writer = t => stored' = stored
      /\ writer # t => stored' = e
  BY <1>4 DEF Alter
<1>6. \A u \in Threads \ {t} : ~Amid(u, k, m)
  BY <1>3, <1>5, NobodyAmid
<1>7. Others(t) /\ chapter' = chapter /\ pc'[t] = pc[t] + 1 /\ Script' = Script /\ told'[t] = told[t]
  <2>1. pc' = [pc EXCEPT ![t] = pc[t] + 1] /\ chapter' = chapter /\ told'[t] = told[t]
    BY <1>3 DEF Advances, GoesOn, RestSame, Hears, Answers
  <2> QED BY <1>1, <2>1, ThePlaces DEF Others, DatabaseShape, Hears, Advances
<1>8. \A i \in k..k + m : Has(e, i)' <=> i < pc'[t]
  BY <1>1, <1>3, <1>7 DEF Has, HasColumn
<1>9. Amid(t, k, m)' <=> pc[t] # k + m
  BY <1>1, <1>7 DEF Amid
<1>10. writer = t => ~Has(stored, k)
  <2>1. CASE pc[t] = k
    BY <1>3, <2>1 DEF View, Has, HasColumn
  <2>2. CASE pc[t] # k
    BY <1>1, <1>2, <2>2 DEF Midway, Amid
  <2> QED BY <2>1, <2>2
<1>11. OneAmid(k, m)'
  BY <1>6, <1>7, OthersAmid DEF OneAmid
<1>12. ASSUME NEW u \in Threads, Amid(u, k, m)' PROVE Midway(u, k, m)'
  <2>1. u = t
    BY <1>6, <1>7, <1>12, OthersAmid
  <2>2. \A i \in k..k + m : Has(draft, i)' <=> i < pc'[t]
    BY <1>5, <1>8
  <2>3. writer' # t => \A i \in k..k + m : Has(stored, i)' <=> i < pc'[t]
    BY <1>5, <1>8
  <2>4. writer' = t => ~Has(stored, k)'
    BY <1>5, <1>7, <1>10 DEF Has, HasColumn
  <2> QED BY <2>1, <2>2, <2>3, <2>4 DEF Midway
<1>13. Coherent(e, k, m)'
  <2>1. Within(e, k)'
    BY <1>3, <1>7 DEF Within
  <2>2. Has(e, k)'
    BY <1>1, <1>7, <1>8
  <2>3. pc[t] = k + m => \A i \in k..k + m : Has(e, i)'
    BY <1>1, <1>7, <1>8
  <2> QED BY <1>9, <2>1, <2>2, <2>3 DEF Coherent
<1>14. writer = t => Coherent(stored, k, m)'
  <2> SUFFICES ASSUME writer = t PROVE Coherent(stored, k, m)'
    OBVIOUS
  <2>1. \A i : Has(stored, i)' <=> Has(stored, i)
    BY <1>5, <1>7 DEF Has, HasColumn
  <2>2. ~Has(stored, k) /\ \A i \in k..k + m : ~Has(stored, i)
    BY <1>2, <1>10 DEF Coherent
  <2>3. Within(stored, k)'
    BY <1>2, <1>5, <1>7 DEF Coherent, Within
  <2> QED BY <2>1, <2>2, <2>3 DEF Coherent
<1>15. Coherent(stored, k, m)' /\ Coherent(draft, k, m)'
  BY <1>5, <1>13, <1>14
<1> QED BY <1>11, <1>12, <1>15 DEF Together, Midway

LEMMA TogetherStatement ==
    ASSUME KeptInv, stored.cols \subseteq draft.cols, NEW k, NEW m, Group(k, m), Together(k, m),
           NEW t \in Threads, NEW s \in Now(t), Ordinary(t, s)
    PROVE  Together(k, m)'
<1>1. CASE Refused(t, s)
  BY <1>1, RefusedInside, RefusedTogether DEF Refused, Raise
<1>2. CASE ~Refused(t, s)
  <2>1. PICK e : Puts(t, s, e) /\ Effect(t, s, e)
    BY <1>2 DEF Ordinary
  <2>2. Advances(t, s)
    BY <1>2 DEF Ordinary
  <2>3. CASE pc[t] \in k..k + m => Script[k].c \in told[t]
    BY <2>1, <2>2, <2>3, OutsideGroup
  <2>4. CASE pc[t] \in k..k + m /\ Script[k].c \notin told[t]
    BY <2>1, <2>2, <2>4, InsideGroup
  <2> QED BY <2>3, <2>4
<1> QED BY <1>1, <1>2

LEMMA TogetherOther ==
    ASSUME KeptInv, NEW k, NEW m, Group(k, m), Together(k, m), NEW t \in Threads,
           \/ Call(t) \/ Finish(t) \/ GiveRole(t) \/ SavePath(t) \/ Unopened(t)
    PROVE  Together(k, m)'
<1>1. /\ k \in Nat /\ m \in Nat /\ k >= 1 /\ k + m <= Len(Script) /\ Len(Script) \in Nat
      /\ DatabaseShape /\ Coherent(View(t), k, m)
  BY ScriptLength DEF Group, KeptInv, Together, View, DatabaseShape, SchemaTypeOK
<1>2. Others(t) /\ pc[t] \in {0, Len(Script) + 1} /\ pc'[t] \in {0, 1} /\ chapter' = chapter
  <2>1. CASE Call(t)
    BY <1>1, <2>1 DEF Call, MayCall, GoesOn, Learns, Others, DatabaseShape, SchemaTypeOK
  <2>2. CASE Finish(t)
    BY <1>1, <2>2 DEF Finish, Learns, Others, DatabaseShape, SchemaTypeOK
  <2>3. CASE Unopened(t)
    BY <2>3 DEF Unopened, MayCall, Others
  <2>4. CASE GiveRole(t) \/ SavePath(t)
    BY <2>4 DEF GiveRole, SavePath, Saved, Others
  <2> QED BY <2>1, <2>2, <2>3, <2>4
<1>3. ~Amid(t, k, m) /\ ~Amid(t, k, m)'
  BY <1>1, <1>2 DEF Amid
<1>4. CASE DatabaseSame
  <2>1. Written1(t, View(t)) /\ Like(View(t), View(t), k, m)
    BY <1>1, <1>4, LikeSelf DEF Written1
  <2> QED BY <1>1, <1>2, <1>3, <2>1, OutsideTogether
<1>5. CASE GiveRole(t) \/ SavePath(t)
  <2>1. /\ stored'.cols = stored.cols /\ stored'.tables = stored.tables /\ draft' = stored'
        /\ writer = Nobody /\ writer' = Nobody
    BY <1>5 DEF GiveRole, SavePath, Saved, KeptInv, DatabaseShape, IsDb, Fields
  <2>2. PICK e : e = stored'
    OBVIOUS
  <2>3. Alter(t, e)
    BY <2>1, <2>2, ThreadNames DEF Alter, MayWrite
  <2>4. View(t) = stored /\ e.cols = stored.cols /\ e.tables = stored.tables
    BY <2>1, <2>2, ThreadNames DEF View
  <2>5. Like(e, View(t), k, m)
    BY <1>1, <2>4 DEF Like, Has, HasColumn, Within, Coherent
  <2>6. Written1(t, e)
    BY <2>3 DEF Written1
  <2> QED BY <1>1, <1>2, <1>3, <2>5, <2>6, OutsideTogether
<1> QED BY <1>4, <1>5 DEF Call, Finish, Unopened

LEMMA TogetherKept ==
    ASSUME KeptInv, stored.cols \subseteq draft.cols, NEW k, NEW m, Group(k, m), Together(k, m),
           chapter # "favorites", cuts = 0, cuts' = 0, [SchemaNext]_schemaVars
    PROVE  Together(k, m)'
<1>1. ASSUME NEW t \in Threads, Step(t) PROVE Together(k, m)'
  <2>1. CASE Statement(t)
    <3>1. PICK s \in Now(t) : Ordinary(t, s)
      BY <2>1, OrdinaryStatement
    <3> QED BY <3>1, TogetherStatement
  <2> QED BY <1>1, <2>1, TogetherOther DEF Step
<1>2. CASE UNCHANGED schemaVars
  BY <1>2 DEF schemaVars, Together, OneAmid, Midway, Coherent, Amid, Has, HasColumn, Within, Script
<1>3. ASSUME NEW t \in Threads, StatementFails(t) PROVE FALSE
  BY <1>3 DEF StatementFails
<1>4. ASSUME RestartService PROVE FALSE
  BY <1>4 DEF RestartService
<1> QED BY <1>1, <1>2, <1>3, <1>4, TogetherOther, ThreadNames DEF SchemaNext

LEMMA TogetherFirst ==
    ASSUME SchemaInit, NEW k, NEW m, Group(k, m) PROVE Together(k, m)
<1>1. /\ stored.cols = {} /\ draft = stored /\ \A t \in Threads : pc[t] = 0
  <2>1. /\ Fresh.cols = {} /\ SingleLogin(chapter).cols = {} /\ TwoRoles(chapter).cols = {}
    BY DEF Fresh, SingleLogin, TwoRoles
  <2> QED BY <2>1 DEF SchemaInit
<1>2. \A t \in Threads : ~Amid(t, k, m)
  BY <1>1 DEF Amid, Group
<1> QED BY <1>1, <1>2 DEF Together, OneAmid, Midway, Coherent, Within, Has, HasColumn

(***************************************************************************)
(* While the main thread makes its calls nobody else is under way.         *)
(***************************************************************************)
Steady(t) == /\ pc[t] > 0 /\ chapter' = chapter /\ conn' = conn /\ ready' = ready
             /\ \A u \in Threads \ {t} : pc'[u] = pc[u] /\ (writer' = u <=> writer = u)
             /\ tries' # tries => t = Main /\ tries' = tries + 1

LEMMA LeavesSteady ==
    ASSUME KeptInv, NEW t \in Threads, NEW s \in Now(t), Leaves(t) PROVE Steady(t)
<1>1. DatabaseShape
  BY DEF KeptInv
<1>2. /\ pc[t] > 0 /\ chapter' = chapter /\ conn' = conn /\ ready' = ready
      /\ pc' = [pc EXCEPT ![t] = 0]
      /\ tries' # tries => t = Main /\ tries' = tries + 1
  BY <1>1, AtStatement DEF Leaves
<1>3. \A u \in Threads \ {t} : writer' = u <=> writer = u
  BY LeavesWriter
<1> QED BY <1>1, <1>2, <1>3, ThePlaces DEF Steady

LEMMA GoesSteady ==
    ASSUME KeptInv, NEW t \in Threads, NEW s \in Now(t), GoesOn(t),
           UNCHANGED <<chapter, conn, ready, tries>>,
           \A u \in Threads \ {t} : writer' = u <=> writer = u
    PROVE  Steady(t)
<1>1. DatabaseShape /\ pc' = [pc EXCEPT ![t] = pc[t] + 1] /\ pc[t] > 0
  BY AtStatement DEF KeptInv, GoesOn
<1> QED BY <1>1, ThePlaces DEF Steady

LEMMA StatementSteady ==
    ASSUME KeptInv, NEW t \in Threads, Statement(t) \/ StatementFails(t) PROVE Steady(t)
<1>1. CASE Statement(t)
  <2>1. PICK s \in Now(t) : Ordinary(t, s) \/ MoveFavorites(t, s)
    BY <1>1, OrdinaryStatement
  <2>2. CASE Raise(t)
    BY <2>2, LeavesSteady DEF Raise
  <2>3. CASE Ordinary(t, s) /\ ~Raise(t)
    <3>1. PICK e : Puts(t, s, e)
      BY <2>3 DEF Ordinary, Refused
    <3>2. GoesOn(t) /\ UNCHANGED <<chapter, conn, ready, tries>>
      BY <2>3 DEF Ordinary, Refused, Advances, RestSame
    <3> QED BY <3>1, <3>2, PutsWriter, GoesSteady
  <2>4. CASE MoveFavorites(t, s) /\ ~Raise(t)
    BY <2>4, MovesWriter, GoesSteady DEF RestSame
  <2> QED BY <2>1, <2>2, <2>3, <2>4
<1>2. CASE StatementFails(t)
  <2>1. PICK s \in Now(t) : \/ Leaves(t)
                            \/ GoesOn(t) /\ DatabaseSame /\ UNCHANGED <<chapter, conn, ready, tries>>
    BY <1>2 DEF StatementFails
  <2> QED BY <2>1, LeavesSteady, GoesSteady DEF DatabaseSame
<1> QED BY <1>1, <1>2

LEMMA SteadyAlone ==
    ASSUME KeptInv, Alone, NEW t \in Threads, Steady(t) PROVE Alone'
<1>1. ASSUME NEW u \in Threads, conn'[u] PROVE pc'[u] = 0
  BY <1>1 DEF Steady, Alone, KeptInv, DatabaseShape, SchemaTypeOK
<1>2. ASSUME Starting'
      PROVE  ~ready' /\ \A p \in Pollers : pc'[p] = 0 /\ writer' # p
  <2>1. tries \in Nat /\ StartupCalls \in Nat
    BY SchemaConstants DEF KeptInv, DatabaseShape, SchemaTypeOK
  <2>2. Starting
    BY <1>2, <2>1 DEF Starting, Steady
  <2>3. t = Main
    BY <2>2 DEF Alone, Steady, Threads
  <2> QED BY <2>2, <2>3, ThreadNames DEF Alone, Steady
<1> QED BY <1>1, <1>2 DEF Alone

LEMMA AloneKept == ASSUME KeptInv, Alone, [SchemaNext]_schemaVars PROVE Alone'
<1>1. DatabaseShape /\ tries \in Nat /\ StartupCalls \in Nat
  BY SchemaConstants DEF KeptInv, DatabaseShape, SchemaTypeOK
<1>2. ASSUME NEW t \in Threads, Call(t) PROVE Alone'
  <2>1. /\ MayCall(t) /\ tries' = tries /\ writer' = writer /\ ready' = ready
        /\ \A u \in Threads \ {t} : pc'[u] = pc[u] /\ conn'[u] = conn[u]
        /\ conn'[t] => pc'[t] = 0
    BY <1>1, <1>2 DEF Call, DatabaseSame, MayCall, GoesOn, DatabaseShape, SchemaTypeOK
  <2>2. Starting' => Starting /\ t = Main
    <3>1. conn[Main] => t # Main /\ conn'[Main]
      BY <1>2, <2>1, ThreadNames DEF Call, MayCall
    <3>2. Starting' => Starting
      BY <2>1, <3>1 DEF Starting
    <3>3. Starting => t = Main
      BY <1>1, <2>1 DEF Starting, MayCall
    <3> QED BY <3>2, <3>3
  <2> QED BY <2>1, <2>2, ThreadNames DEF Alone
<1>3. ASSUME NEW t \in Threads, Finish(t) PROVE Alone'
  <2>1. /\ tries' = tries /\ writer' = writer /\ pc[t] > 0 /\ pc'[t] = 0 /\ conn'[t]
        /\ \A u \in Threads \ {t} : pc'[u] = pc[u] /\ conn'[u] = conn[u]
    BY <1>1, <1>3, ScriptLength DEF Finish, DatabaseSame, DatabaseShape, SchemaTypeOK
  <2>2. ~Starting'
    <3> SUFFICES ASSUME Starting' PROVE FALSE
      OBVIOUS
    <3>1. t # Main
      BY <2>1 DEF Starting
    <3>2. Starting
      BY <2>1, <3>1, ThreadNames DEF Starting
    <3> QED BY <2>1, <3>1, <3>2 DEF Alone, Threads
  <2> QED BY <2>1, <2>2 DEF Alone
<1>4. ASSUME NEW t \in Threads, GiveRole(t) \/ SavePath(t) PROVE Alone'
  BY <1>4 DEF GiveRole, SavePath, Saved, Alone, Starting
<1>5. ASSUME Unopened(Main) PROVE Alone'
  BY <1>1, <1>5 DEF Unopened, DatabaseSame, Alone, Starting
<1>6. ASSUME RestartService PROVE Alone'
  BY <1>6, ThreadNames DEF RestartService, Alone
<1>7. CASE UNCHANGED schemaVars
  BY <1>7 DEF schemaVars, Alone, Starting
<1> QED BY <1>2, <1>3, <1>4, <1>5, <1>6, <1>7, StatementSteady, SteadyAlone DEF SchemaNext, Step

(***************************************************************************)
(* What was filled stays so.                                               *)
(***************************************************************************)
LEMMA PutsFilled ==
    ASSUME KeptInv, stored.filled \subseteq draft.filled, NEW t \in Threads, NEW s, NEW e,
           Puts(t, s, e), Effect(t, s, e)
    PROVE  stored.filled \subseteq stored'.filled /\ stored'.filled \subseteq draft'.filled
<1>1. View(t).filled \subseteq e.filled
  BY DEF Effect
<1> QED
  BY <1>1 DEF Puts, DatabaseSame, Alter, Change, MayWrite, View, KeptInv, DatabaseShape,
              SchemaTypeOK

LEMMA MovesFilled ==
    ASSUME KeptInv, stored.filled \subseteq draft.filled, NEW t \in Threads, NEW s,
           MoveFavorites(t, s), ~Raise(t)
    PROVE  stored.filled \subseteq stored'.filled /\ stored'.filled \subseteq draft'.filled
<1> DEFINE d == View(t)
           without == [d EXCEPT !.tables = @ \ {"favorites"},
                                !.cols = {x \in @ : x[1] # "favorites"}]
           renamed == [without EXCEPT !.tables = @ \cup {V1},
                                      !.old = IF @ = "none" THEN @ ELSE "aside"]
           recreated == [d EXCEPT !.tables = @ \cup {"favorites"},
                                  !.cols = @ \cup {<<"favorites", "user_id">>}]
           copied == [d EXCEPT !.old = IF @ = "aside" THEN "copied" ELSE @]
           dropped == [d EXCEPT !.tables = @ \ {V1}, !.old = IF @ = "aside" THEN "lost" ELSE @]
<1>1. IsDb(d)
  BY ViewKept
<1>2. \A e \in {renamed, recreated, copied, dropped} : e.filled = d.filled
  BY <1>1 DEF IsDb, Fields
<1>3. \/ DatabaseSame
      \/ \E e \in {renamed, recreated, copied, dropped} : Alter(t, e) \/ Change(t, e)
  BY DEF MoveFavorites, Skip
<1> HIDE DEF without, renamed, recreated, copied, dropped
<1>4. ASSUME NEW e, e.filled = d.filled, Alter(t, e) \/ Change(t, e)
      PROVE  stored.filled \subseteq stored'.filled /\ stored'.filled \subseteq draft'.filled
  BY <1>4 DEF Alter, Change, MayWrite, View, KeptInv, DatabaseShape, SchemaTypeOK
<1> QED BY <1>2, <1>3, <1>4 DEF DatabaseSame

LEMMA FilledKept ==
    ASSUME KeptInv, stored.filled \subseteq draft.filled, [SchemaNext]_schemaVars
    PROVE  stored.filled \subseteq stored'.filled /\ stored'.filled \subseteq draft'.filled
<1> DEFINE G == stored.filled \subseteq stored'.filled /\ stored'.filled \subseteq draft'.filled
<1>1. ASSUME NEW t \in Threads, Leaves(t) PROVE G
  BY <1>1 DEF Leaves
<1>2. ASSUME DatabaseSame PROVE G
  BY <1>2 DEF DatabaseSame
<1>3. ASSUME NEW t \in Threads, Statement(t) PROVE G
  <2>1. PICK s \in Now(t) : Ordinary(t, s) \/ MoveFavorites(t, s)
    BY <1>3, OrdinaryStatement
  <2>2. CASE Raise(t)
    BY <1>1, <2>2 DEF Raise
  <2>3. CASE Ordinary(t, s) /\ ~Raise(t)
    <3>1. PICK e : Puts(t, s, e) /\ Effect(t, s, e)
      BY <2>3 DEF Ordinary, Refused
    <3> QED BY <3>1, PutsFilled
  <2>4. CASE MoveFavorites(t, s) /\ ~Raise(t)
    BY <2>4, MovesFilled
  <2> QED BY <2>1, <2>2, <2>3, <2>4
<1>4. ASSUME NEW t \in Threads, StatementFails(t) PROVE G
  BY <1>1, <1>2, <1>4 DEF StatementFails
<1>5. ASSUME NEW t \in Threads, GiveRole(t) \/ SavePath(t) PROVE G
  BY <1>5 DEF GiveRole, SavePath, Saved, KeptInv, DatabaseShape, IsDb, Fields
<1>6. RestartService => G
  BY DEF RestartService
<1>7. ASSUME NEW t \in Threads, Step(t) PROVE G
  BY <1>2, <1>3, <1>7 DEF Step, Call, Finish
<1> QED BY <1>2, <1>4, <1>5, <1>6, <1>7 DEF SchemaNext, schemaVars, Unopened, DatabaseSame

(***************************************************************************)
(* The main thread adds to alert_config with nobody in its way.            *)
(***************************************************************************)
LEMMA AlertsColumns ==
    /\ \A i \in 1..15 : Alerts[i].op = "add" => i \in 3..6 \/ i \in 8..14
    /\ \A i \in 3..14 : Alerts[i].op = "add" =>
          /\ Alerts[i].t = "alert_config"
          /\ Alerts[i].g = "on_dns_stuck" \/ Alerts[i].c # "on_dns_stuck"
          /\ Alerts[i].c = "on_dns_stuck" => Alerts[i].g = "on_dns_stuck"
          /\ Alerts[i].g = "on_dns_stuck" => i = 3
          /\ i # 3 => Alerts[i].c # "on_dns_stuck"
    /\ \A i, j \in 3..14 : i # j /\ Alerts[j].op = "add" /\ Alerts[i].op = "add"
                           => Alerts[j].c # Alerts[i].c
<1>1. \A i \in 1..15 : Alerts[i].op = "add" => i \in 3..6 \/ i \in 8..14
  BY AlertsScript, AlertsLines
<1> DEFINE here == {3, 4, 5, 6, 8, 9, 10, 11, 12, 13, 14}
<1>2. \A j \in 3..14 : Alerts[j].op = "add" => j \in here
  BY <1>1
<1>3. \A i, j \in here : i # j => Alerts[j].c # Alerts[i].c
  BY AlertsLines
<1>4. \A i \in here : /\ Alerts[i].t = "alert_config"
                      /\ Alerts[i].c = "on_dns_stuck" => i = 3
                      /\ Alerts[i].g = "on_dns_stuck" => i = 3
  BY AlertsLines
<1>5. Alerts[3].g = "on_dns_stuck" /\ Alerts[3].c = "on_dns_stuck"
  BY AlertsLines
<1> HIDE DEF here
<1> QED BY <1>1, <1>2, <1>3, <1>4, <1>5

LEMMA InAlerts == chapter = "alerts" => Script = Alerts
BY DEF Script, Chapter

LEMMA MainLooks ==
    ASSUME chapter = "alerts", NEW d, MainAt(d, 2, {})
    PROVE  MainAt(d, 3, ColumnsOf(d, "alert_config"))
<1> DEFINE x == ColumnsOf(d, "alert_config")
<1>1. \A c \in x : c = "on_dns_stuck"
  BY DEF MainAt
<1>2. ASSUME NEW i \in 3..14, Script[i].op = "add", Has(d, i)
      PROVE  Script[i].g \in x
  <2>1. Script[i] = Alerts[i] /\ Alerts[i].op = "add" /\ Alerts[i].t = "alert_config"
    BY <1>2, InAlerts, AlertsColumns
  <2>2. Alerts[i].c \in x
    BY <1>2, <2>1 DEF Has, HasColumn, ColumnsOf
  <2> QED BY <1>1, <2>1, <2>2, AlertsColumns
<1>3. \A i \in 3..14 : ~(i < 3)
  OBVIOUS
<1> QED BY <1>1, <1>2, <1>3 DEF MainAt

LEMMA MainAdds ==
    ASSUME chapter = "alerts", NEW d, NEW e, NEW x, NEW n \in 3..14, MainAt(d, n, x),
           Alerts[n].op = "add", e.tables = d.tables, e.filled = d.filled,
           \/ Alerts[n].g \in x /\ e.cols = d.cols
           \/ Alerts[n].g \notin x /\ e.cols = d.cols \cup {<<Alerts[n].t, Alerts[n].c>>}
    PROVE  MainAt(e, n + 1, x)
<1>1. Script = Alerts /\ "alert_config" \in e.tables /\ (n + 1 > 7 => Filled(e, "alert_config"))
  <2>1. n + 1 > 7 => n > 7
    BY AlertsColumns
  <2> QED BY <2>1, InAlerts DEF MainAt, Filled
<1>2. ASSUME NEW i \in 3..14, Alerts[i].op = "add"
      PROVE  /\ i # n => (Has(e, i) <=> Has(d, i))
             /\ Has(d, i) => Has(e, i)
             /\ i = n /\ Alerts[n].g \notin x => Has(e, i)
  <2>1. i # n => Alerts[i].c # Alerts[n].c
    BY <1>2, AlertsColumns
  <2> QED BY <1>1, <2>1 DEF Has, HasColumn
<1>3. /\ \A c \in x : c = "on_dns_stuck"
      /\ \A i \in 3..14 : Alerts[i].op = "add" =>
            /\ i >= n /\ Has(d, i) => Alerts[i].g \in x
            /\ i < n => Alerts[i].g \in x \/ Has(d, i)
  BY <1>1 DEF MainAt
<1>4. ASSUME NEW i \in 3..14, Alerts[i].op = "add"
      PROVE  /\ i >= n + 1 /\ Has(e, i) => Alerts[i].g \in x
             /\ i < n + 1 => Alerts[i].g \in x \/ Has(e, i)
  BY <1>2, <1>3, <1>4
<1> QED BY <1>1, <1>3, <1>4 DEF MainAt

LEMMA MainSame ==
    ASSUME chapter = "alerts", NEW d, NEW e, NEW x, NEW n \in {7, 15}, MainAt(d, n, x),
           e.tables = d.tables, e.cols = d.cols, d.filled \subseteq e.filled,
           n = 7 => "alert_config" \in e.filled
    PROVE  MainAt(e, n + 1, x)
<1>1. Script = Alerts /\ Alerts[7].op # "add"
  BY InAlerts, AlertsLines
<1>2. /\ "alert_config" \in e.tables /\ Filled(e, "alert_config")
      /\ \A c \in x : c = "on_dns_stuck"
      /\ \A i \in 3..14 : Alerts[i].op = "add" =>
            /\ i >= n /\ Has(d, i) => Alerts[i].g \in x
            /\ i < n => Alerts[i].g \in x \/ Has(d, i)
  BY <1>1 DEF MainAt, Filled
<1>3. \A i : Has(e, i) <=> Has(d, i)
  BY DEF Has, HasColumn
<1>4. ASSUME NEW i \in 3..14, Alerts[i].op = "add"
      PROVE  /\ i >= n + 1 /\ Has(e, i) => Alerts[i].g \in x
             /\ i < n + 1 => Alerts[i].g \in x \/ Has(e, i)
  BY <1>1, <1>2, <1>3, <1>4
<1> QED BY <1>1, <1>2, <1>4 DEF MainAt

LEMMA MainCreates ==
    ASSUME chapter = "alerts", NEW d, NEW e, NEW x, MainAt(d, 1, x),
           e.tables = d.tables \cup Alerts[1].t,
           e.cols = d.cols \cup ((Alerts[1].t \ d.tables) \X Alerts[1].c)
    PROVE  MainAt(e, 2, {})
<1>1. e.tables = d.tables \cup {"alert_config"} /\ "alert_config" \in e.tables
  BY AlertsLines
<1>2. \A c \in e.cols : c \in d.cols \/ c \in {"alert_config"} \X {"on_dns_stuck"}
  BY AlertsLines
<1>3. \A c \in ColumnsOf(e, "alert_config") : c = "on_dns_stuck"
  BY <1>2 DEF MainAt, ColumnsOf
<1> QED BY <1>1, <1>3 DEF MainAt

LEMMA MainStatement ==
    ASSUME chapter = "alerts", KeptInv, MainOfAlerts, NEW s \in Now(Main), NEW e,
           Effect(Main, s, e), Hears(Main, s)
    PROVE  MainAt(e, pc[Main] + 1, told'[Main])
<1> DEFINE d == View(Main)
           n == pc[Main]
           x == told[Main]
<1>1. n \in 1..15 /\ s = Alerts[n] /\ Script = Alerts
  <2>1. DatabaseShape
    BY DEF KeptInv
  <2>2. Script = Alerts /\ Len(Script) = 15
    BY InAlerts, AlertsScript
  <2>3. Main \in Threads
    BY ThreadNames
  <2>4. pc[Main] \in Nat /\ pc[Main] >= 1 /\ pc[Main] <= Len(Script) /\ s = Script[pc[Main]]
    BY <2>1, <2>3, AtStatement
  <2> QED BY <2>2, <2>4
<1>2. MainAt(d, n, x)
  BY DEF MainOfAlerts
<1>3. CASE n = 1
  <2>1. MainAt(e, 2, {})
    <3>1. Alerts[1].op = "create"
      BY AlertsLines
    <3>2. /\ e.tables = d.tables \cup Alerts[1].t
          /\ e.cols = d.cols \cup ((Alerts[1].t \ d.tables) \X Alerts[1].c)
      BY <1>1, <1>3, <3>1 DEF Effect
    <3> QED BY <1>2, <1>3, <3>2, MainCreates
  <2>2. \A y : MainAt(e, 2, {}) => MainAt(e, 2, y)
    BY DEF MainAt
  <2> QED BY <1>3, <2>1, <2>2
<1>4. CASE n = 2
  <2>1. s.op = "look" /\ s.t = "alert_config"
    BY <1>1, <1>4, AlertsLines
  <2>2. told'[Main] = ColumnsOf(d, "alert_config")
    BY <2>1 DEF Hears
  <2>3. e.tables = d.tables /\ e.cols = d.cols /\ e.filled = d.filled
    BY <2>1 DEF Effect
  <2>4. MainAt(e, 2, {}) /\ ColumnsOf(e, "alert_config") = ColumnsOf(d, "alert_config")
    BY <1>2, <1>4, <2>3 DEF MainAt, ColumnsOf
  <2>5. MainAt(e, 3, ColumnsOf(e, "alert_config"))
    BY <2>4, MainLooks
  <2> QED BY <1>4, <2>2, <2>4, <2>5
<1>5. CASE n \in 3..6 \/ n \in 8..14
  <2>1. s.op = "add" /\ Alerts[n].op = "add" /\ n \in 3..14
    BY <1>1, <1>5, AlertsLines
  <2>2. told'[Main] = x
    BY <2>1 DEF Hears, Answers
  <2>3. /\ e.tables = d.tables /\ e.filled = d.filled
        /\ \/ Alerts[n].g \in x /\ e.cols = d.cols
           \/ Alerts[n].g \notin x /\ e.cols = d.cols \cup {<<Alerts[n].t, Alerts[n].c>>}
    BY <1>1, <2>1 DEF Effect
  <2>4. MainAt(e, n + 1, x)
    BY <1>2, <2>1, <2>3, MainAdds
  <2> QED BY <2>2, <2>4
<1>6. CASE n \in {7, 15}
  <2>1. n = 7 => s.op = "fill" /\ s.t = "alert_config" /\ s.g = "ntfy_enabled"
    BY <1>1, AlertsLines
  <2>2. n = 15 => s.op = "commit"
    BY <1>1, AlertsLines
  <2>3. told'[Main] = x
    BY <1>6, <2>1, <2>2 DEF Hears, Answers
  <2>4. "ntfy_enabled" \notin x
    BY <1>2, <1>6 DEF MainAt
  <2>5. /\ e.tables = d.tables /\ e.cols = d.cols /\ d.filled \subseteq e.filled
        /\ n = 7 => "alert_config" \in e.filled
    BY <1>6, <2>1, <2>2, <2>4 DEF Effect
  <2>6. MainAt(e, n + 1, x)
    BY <1>2, <1>6, <2>5, MainSame
  <2> QED BY <2>3, <2>6
<1>7. n = 1 \/ n = 2 \/ n \in 3..6 \/ n = 7 \/ n \in 8..14 \/ n = 15
  BY <1>1
<1> QED BY <1>3, <1>4, <1>5, <1>6, <1>7

(* So it is never refused.                                                 *)
LEMMA MainNotRefused ==
    ASSUME chapter = "alerts", KeptInv, MainOfAlerts, NEW s \in Now(Main), Refused(Main, s)
    PROVE  FALSE
<1> DEFINE d == View(Main)
           n == pc[Main]
           x == told[Main]
<1>1. n \in 1..15 /\ s = Alerts[n] /\ Script = Alerts
  <2>1. DatabaseShape
    BY DEF KeptInv
  <2>2. Script = Alerts /\ Len(Script) = 15
    BY InAlerts, AlertsScript
  <2>3. Main \in Threads
    BY ThreadNames
  <2>4. pc[Main] \in Nat /\ pc[Main] >= 1 /\ pc[Main] <= Len(Script) /\ s = Script[pc[Main]]
    BY <2>1, <2>3, AtStatement
  <2> QED BY <2>2, <2>4
<1>2. MainAt(d, n, x)
  BY DEF MainOfAlerts
<1>3. CASE s.op = "add"
  <2>1. n \in 3..14 /\ s.t = "alert_config" /\ Script[n].op = "add"
    <3>1. n \in 3..14
      BY <1>1, <1>3, AlertsColumns
    <3> QED BY <1>1, <1>3, <3>1, AlertsColumns
  <2>2. "alert_config" \in d.tables /\ (Has(d, n) => Script[n].g \in x)
    BY <1>2, <2>1 DEF MainAt
  <2> QED BY <1>1, <1>3, <2>1, <2>2 DEF Refused, Has
<1>4. CASE s.op = "fill"
  <2>1. n = 7 /\ s.t = "alert_config" /\ s.c = {"ntfy_enabled", "pushover_enabled"}
    <3>1. n \notin {1, 2, 15} /\ n \notin 3..6 /\ n \notin 8..14
      BY <1>1, <1>4, AlertsLines
    <3> QED BY <1>1, <3>1, AlertsLines
  <2>2. /\ Alerts[4].op = "add" /\ Alerts[5].op = "add" /\ Alerts[4].t = "alert_config"
        /\ Alerts[5].t = "alert_config" /\ Alerts[4].c = "ntfy_enabled"
        /\ Alerts[5].c = "pushover_enabled" /\ Alerts[4].g = "ntfy_enabled"
        /\ Alerts[5].g = "ntfy_enabled" /\ 4 \in 3..14 /\ 5 \in 3..14
    BY AlertsLines
  <2>3. "ntfy_enabled" \notin x
    BY <1>2, <2>1 DEF MainAt
  <2>4. Has(d, 4) /\ Has(d, 5)
    BY <1>1, <1>2, <2>1, <2>2, <2>3 DEF MainAt
  <2>5. s.c \subseteq ColumnsOf(d, s.t)
    BY <1>1, <2>1, <2>2, <2>4 DEF Has, HasColumn, ColumnsOf
  <2> QED BY <1>4, <2>5 DEF Refused
<1>5. CASE s.op = "seed"
  <2>1. \A i \in 1..15 : Alerts[i].op # "seed"
    BY AlertsScript, AlertsLines
  <2> QED BY <1>1, <1>5, <2>1
<1> QED BY <1>3, <1>4, <1>5 DEF Refused

LEMMA NoCut ==
    ASSUME KeptInv, [SchemaNext]_schemaVars, cuts' = 0
    PROVE  /\ cuts = 0 /\ ~RestartService /\ \A t \in Threads : ~StatementFails(t)
           /\ chapter' = chapter
<1>1. cuts \in Nat
  BY SchemaConstants DEF KeptInv, DatabaseShape, SchemaTypeOK
<1>2. ~RestartService /\ \A t \in Threads : ~StatementFails(t)
  BY <1>1 DEF RestartService, StatementFails
<1>3. ASSUME NEW t \in Threads, Statement(t) PROVE cuts' = cuts /\ chapter' = chapter
  <2>1. PICK s \in Now(t) : Ordinary(t, s) \/ MoveFavorites(t, s)
    BY <1>3, OrdinaryStatement
  <2>2. CASE Raise(t)
    BY <2>2 DEF Raise, Leaves
  <2>3. CASE ~Raise(t)
    BY <2>1, <2>3, MovesWriter DEF Ordinary, Refused, Advances, RestSame
  <2> QED BY <2>2, <2>3
<1>4. cuts' = cuts /\ chapter' = chapter
  BY <1>2, <1>3 DEF SchemaNext, Step, Call, Finish, GiveRole, SavePath, Saved, Unopened, schemaVars
<1> QED BY <1>2, <1>4

LEMMA StartingStep ==
    ASSUME KeptInv, Alone, [SchemaNext]_schemaVars, cuts' = 0, Starting'
    PROVE  /\ Starting
           /\ \/ Statement(Main)
              \/ DatabaseSame /\ pc[Main] = 0 /\ pc'[Main] \in {0, 1}
              \/ DatabaseSame /\ pc' = pc /\ told' = told
              \/ \E t \in Threads : GiveRole(t) \/ SavePath(t)
<1>1. /\ DatabaseShape /\ tries \in Nat /\ StartupCalls \in Nat
      /\ ~RestartService /\ \A t \in Threads : ~StatementFails(t)
  BY NoCut, SchemaConstants DEF KeptInv, DatabaseShape, SchemaTypeOK
<1>2. ASSUME NEW t \in Threads, Statement(t) PROVE Starting /\ t = Main
  <2>1. Steady(t)
    BY <1>2, StatementSteady
  <2>2. Starting
    BY <1>1, <2>1 DEF Starting, Steady
  <2> QED BY <2>1, <2>2 DEF Alone, Steady, Threads
<1>3. ASSUME NEW t \in Threads, Call(t)
      PROVE  Starting /\ t = Main /\ DatabaseSame /\ pc[Main] = 0 /\ pc'[Main] \in {0, 1}
  <2>1. MayCall(t) /\ tries' = tries /\ conn[Main] => conn'[Main]
    BY <1>1, <1>3, ThreadNames DEF Call, MayCall, DatabaseShape, SchemaTypeOK
  <2>2. Starting
    BY <1>1, <1>3, <2>1, ThreadNames DEF Starting, Call, MayCall, DatabaseShape, SchemaTypeOK
  <2>3. t = Main
    BY <1>1, <1>3, <2>2 DEF Starting, Call, MayCall
  <2> QED BY <1>1, <1>3, <2>2, <2>3 DEF Call, MayCall, GoesOn, DatabaseShape, SchemaTypeOK
<1>4. ASSUME NEW t \in Threads, Finish(t) PROVE FALSE
  <2>1. /\ tries' = tries /\ pc[t] > 0 /\ conn'[t]
        /\ \A u \in Threads \ {t} : conn'[u] = conn[u]
    BY <1>1, <1>4, ScriptLength DEF Finish, DatabaseSame, DatabaseShape, SchemaTypeOK
  <2>2. t # Main
    BY <2>1 DEF Starting
  <2>3. Starting
    BY <2>1, <2>2, ThreadNames DEF Starting
  <2> QED BY <2>1, <2>2, <2>3 DEF Alone, Threads
<1>5. ASSUME NEW t \in Threads, GiveRole(t) \/ SavePath(t) PROVE Starting
  BY <1>5 DEF GiveRole, SavePath, Saved, Starting
<1>6. Unopened(Main) => Starting /\ DatabaseSame /\ pc' = pc /\ told' = told
  BY <1>1 DEF Unopened, Starting
<1>7. UNCHANGED schemaVars => Starting /\ DatabaseSame /\ pc' = pc /\ told' = told
  BY DEF schemaVars, DatabaseSame, Starting
<1> QED BY <1>1, <1>2, <1>3, <1>4, <1>5, <1>6, <1>7 DEF SchemaNext, Step

LEMMA MainOfAlertsKept ==
    ASSUME GrowInv, Alone, chapter = "alerts", Starting => MainOfAlerts,
           [SchemaNext]_schemaVars, cuts' = 0, Starting'
    PROVE  MainOfAlerts'
<1>1. /\ KeptInv /\ chapter' = chapter /\ Starting /\ MainOfAlerts /\ Main \in Threads
      /\ stored.cols \subseteq draft.cols
      /\ \/ Statement(Main)
         \/ DatabaseSame /\ pc[Main] = 0 /\ pc'[Main] \in {0, 1}
         \/ DatabaseSame /\ pc' = pc /\ told' = told
  BY NoCut, StartingStep, ThreadNames DEF GrowInv, Growing, GiveRole, SavePath
<1>2. Script' = Script
  BY <1>1 DEF Script
<1>3. \A d, n, x : MainAt(d, n, x)' <=> MainAt(d, n, x)
  BY <1>2 DEF MainAt, Has, HasColumn, Filled, ColumnsOf
<1>4. CASE DatabaseSame /\ ((pc' = pc /\ told' = told) \/ (pc[Main] = 0 /\ pc'[Main] \in {0, 1}))
  <2>1. View(Main)' = View(Main)
    BY <1>4 DEF DatabaseSame, View
  <2>2. CASE pc' = pc /\ told' = told
    BY <1>1, <1>3, <2>1, <2>2 DEF MainOfAlerts
  <2>3. CASE pc[Main] = 0 /\ pc'[Main] \in {0, 1}
    <3>1. \A d, x, y : MainAt(d, 0, x) => MainAt(d, 0, y) /\ MainAt(d, 1, y)
      BY DEF MainAt
    <3> QED BY <1>1, <1>3, <2>1, <2>3, <3>1 DEF MainOfAlerts
  <2> QED BY <1>4, <2>2, <2>3
<1>5. CASE Statement(Main)
  <2>1. PICK s \in Now(Main) : Ordinary(Main, s)
    BY <1>1, <1>5, OrdinaryStatement
  <2>2. Advances(Main, s)
    BY <1>1, <2>1, MainNotRefused DEF Ordinary
  <2>3. PICK e : Puts(Main, s, e) /\ Effect(Main, s, e)
    BY <1>1, <2>1, MainNotRefused DEF Ordinary
  <2>4. View(Main)' = e
    BY <1>1, <2>3, EffectGrows, PutsGrows
  <2>5. pc'[Main] = pc[Main] + 1
    BY <1>1, <2>2 DEF Advances, GoesOn, KeptInv, DatabaseShape, SchemaTypeOK
  <2>6. MainAt(e, pc[Main] + 1, told'[Main])
    BY <1>1, <2>2, <2>3, MainStatement DEF Advances
  <2> QED BY <1>3, <2>4, <2>5, <2>6 DEF MainOfAlerts
<1> QED BY <1>1, <1>4, <1>5

LEMMA FilledByMainKept ==
    ASSUME KeptInv, Alone, stored.filled \subseteq draft.filled, NEW tb, FilledByMain(tb),
           [SchemaNext]_schemaVars, cuts = 0 /\ Finish(Main) => Filled(stored, tb)
    PROVE  FilledByMain(tb)'
<1> SUFFICES ASSUME cuts' = 0, conn'[Main] PROVE Filled(stored, tb)'
  BY DEF FilledByMain
<1>1. DatabaseShape /\ cuts = 0 /\ stored.filled \subseteq stored'.filled
  BY NoCut, FilledKept DEF KeptInv
<1>2. CASE conn[Main]
  BY <1>1, <1>2 DEF FilledByMain, Filled
<1>3. CASE ~conn[Main]
  <2>1. ~RestartService /\ \A t \in Threads : ~StatementFails(t)
    BY NoCut
  <2>2. \A t \in Threads : Statement(t) => conn' = conn
    BY StatementSteady DEF Steady
  <2>3. Call(Main) => ~ready
    BY <1>3 DEF Call, MayCall, Alone, Starting
  <2>4. ASSUME NEW t \in Threads, Call(t) PROVE FALSE
    <3>1. conn'[Main] = conn[Main] \/ (t = Main /\ ready)
      BY <1>1, <2>4, ThreadNames DEF Call, DatabaseShape, SchemaTypeOK
    <3> QED BY <1>3, <2>3, <2>4, <3>1
  <2>5. ASSUME NEW t \in Threads, Finish(t) PROVE t = Main
    BY <1>1, <1>3, <2>5, ThreadNames DEF Finish, DatabaseShape, SchemaTypeOK
  <2>6. Finish(Main)
    BY <1>3, <2>1, <2>2, <2>4, <2>5
    DEF SchemaNext, Step, GiveRole, SavePath, Saved, Unopened, schemaVars
  <2> QED BY <1>1, <2>6 DEF Filled
<1> QED BY <1>2, <1>3

(***************************************************************************)
(* Elsewhere every column is added under its own test, and nothing is      *)
(* filled.                                                                 *)
(***************************************************************************)
Simple(s) == /\ Len(s) \in Nat
             /\ \A i \in 1..Len(s) : s[i].op # "fill" /\ (s[i].op = "add" => s[i].g = s[i].c)

LEMMA JoinedSimple == ASSUME NEW s, NEW u, Simple(s), Simple(u) PROVE Simple(s \o u)
<1>1. /\ Len(s) \in Nat /\ Len(u) \in Nat /\ Len(s \o u) = Len(s) + Len(u)
      /\ \A i \in 1..Len(s) : (s \o u)[i] = s[i]
      /\ \A i \in Len(s) + 1..Len(s) + Len(u) : (s \o u)[i] = u[i - Len(s)]
  BY Joined DEF Simple
<1> DEFINE w == s \o u
<1> HIDE DEF w
<1>2. ASSUME NEW i \in 1..Len(w) PROVE w[i].op # "fill" /\ (w[i].op = "add" => w[i].g = w[i].c)
  <2>1. CASE i \in 1..Len(s)
    BY <1>1, <2>1 DEF Simple, w
  <2>2. CASE i \in Len(s) + 1..Len(s) + Len(u)
    <3>1. i - Len(s) \in 1..Len(u) /\ w[i] = u[i - Len(s)]
      BY <1>1, <2>2 DEF w
    <3> QED BY <3>1 DEF Simple
  <2> QED BY <1>1, <1>2, <2>1, <2>2 DEF w
<1>3. Simple(w)
  BY <1>1, <1>2 DEF Simple, w
<1> QED BY <1>3 DEF w

LEMMA SimpleTable == \A tb, cs : Simple(<<Table(tb, cs), Look(tb)>>)
<1> SUFFICES ASSUME NEW tb, NEW cs PROVE Simple(<<Table(tb, cs), Look(tb)>>)
  OBVIOUS
<1> DEFINE s == <<Table(tb, cs), Look(tb)>>
<1>1. Len(s) = 2 /\ s[1].op = "create" /\ s[2].op = "look" /\ \A i \in 1..2 : i = 1 \/ i = 2
  BY TheOps
<1> HIDE DEF s
<1>2. Simple(s)
  BY <1>1 DEF Simple
<1> QED BY <1>2 DEF s

LEMMA SimpleTables == \A ts : Simple(<<Tables(ts)>>)
<1> SUFFICES ASSUME NEW ts PROVE Simple(<<Tables(ts)>>)
  OBVIOUS
<1> DEFINE s == <<Tables(ts)>>
<1>1. Len(s) = 1 /\ s[1].op = "create" /\ \A i \in 1..1 : i = 1
  BY TheOps
<1> HIDE DEF s
<1>2. Simple(s)
  BY <1>1 DEF Simple
<1> QED BY <1>2 DEF s

LEMMA SimpleAdds == ASSUME NEW tb, NEW cs, Len(cs) \in Nat PROVE Simple(Adds(tb, cs))
<1> DEFINE u == Adds(tb, cs)
<1>1. /\ Len(u) \in Nat
      /\ \A i \in 1..Len(u) : u[i].op = "add" /\ u[i].g = u[i].c
  <2>1. Len(u) = Len(cs) /\ \A i \in 1..Len(cs) : u[i] = Add(tb, cs[i], cs[i])
    BY AddsAdd
  <2> HIDE DEF u
  <2> QED BY <2>1, TheOps, TheFields
<1> HIDE DEF u
<1>2. Simple(u)
  BY <1>1 DEF Simple
<1> QED BY <1>2 DEF u

LEMMA SimpleTries == ASSUME NEW tb, NEW cs, Len(cs) \in Nat PROVE Simple(Tries(tb, cs))
<1> DEFINE u == Tries(tb, cs)
<1>1. Len(u) \in Nat /\ \A i \in 1..Len(u) : u[i].op = "try"
  <2>1. Len(u) = Len(cs) /\ \A i \in 1..Len(cs) : u[i] = Try(tb, cs[i])
    BY Trying
  <2> HIDE DEF u
  <2> QED BY <2>1, TheOps
<1> HIDE DEF u
<1>2. Simple(u)
  BY <1>1 DEF Simple
<1> QED BY <1>2 DEF u

LEMMA AnnouncementsSimple == Simple(Announcements)
<1> DEFINE first == <<Tables({"settings"})>>
           asks == <<Table("announcements",
                           {"idle_settle_sec", "tts_text", "tts_voice", "external_id",
                            "nws_expires", "max_defer_sec"}), Look("announcements")>>
           adds == Adds("announcements", <<"idle_settle_sec", "tts_text", "tts_voice",
                                           "external_id", "nws_expires", "max_defer_sec">>)
<1>1. Simple(first) /\ Simple(asks) /\ Simple(adds)
  BY SimpleTables, SimpleTable, SimpleAdds
<1>2. Announcements = (first \o asks) \o adds
  BY DEF Announcements
<1> HIDE DEF first, asks, adds
<1> QED BY <1>1, <1>2, JoinedSimple

LEMMA ConnectorsSimple == Simple(Connectors)
<1> DEFINE first == <<Tables({"permanent_links", "kiosk_temp_conns"}),
      Table("connectors", {"schedule_type", "schedule_days", "disconnect_all_first",
                            "disconnect_skip_permanent"}), Look("connectors")>>
           adds == Adds("connectors", <<"schedule_type", "schedule_days",
                                        "disconnect_all_first", "disconnect_skip_permanent">>)
<1>1. /\ Len(first) = 3 /\ first[1].op = "create" /\ first[2].op = "create"
      /\ first[3].op = "look" /\ \A i \in 1..3 : i = 1 \/ i = 2 \/ i = 3
  BY TheOps
<1>2. Simple(adds)
  BY SimpleAdds
<1>3. Connectors = first \o adds
  BY DEF Connectors
<1> HIDE DEF first, adds
<1>4. Simple(first)
  BY <1>1 DEF Simple
<1> QED BY <1>2, <1>3, <1>4, JoinedSimple

LEMMA IdentifiersSimple == Simple(Identifiers)
<1> DEFINE last == <<Table("connection_history", {"initiated_by"}), Look("connection_history"),
                     Add("connection_history", "initiated_by", "initiated_by")>>
           asks == <<Table("id_configs", {"play_cmd", "sound_long", "sound_morse",
                           "initial_sound", "interval_sound", "final_sound"}),
                     Look("id_configs")>>
           adds == Adds("id_configs", <<"play_cmd", "interval_enabled", "sound_long",
                         "sound_morse", "initial_sound", "interval_sound", "final_sound">>)
<1>1. /\ Len(last) = 3 /\ last[1].op = "create" /\ last[2].op = "look" /\ last[3].op = "add"
      /\ last[3].g = last[3].c /\ \A i \in 1..3 : i = 1 \/ i = 2 \/ i = 3
  BY TheOps, TheFields
<1>2. Simple(asks) /\ Simple(adds)
  BY SimpleTable, SimpleAdds
<1>3. Identifiers = (asks \o adds) \o last
  BY DEF Identifiers
<1> HIDE DEF asks, adds, last
<1>4. Simple(last)
  BY <1>1 DEF Simple
<1> QED BY <1>2, <1>3, <1>4, JoinedSimple

LEMMA HelpersSimple == Simple(Helpers)
<1> DEFINE last == <<Tables({"recording_config"}),
         Table("stream_relay_config", {"overlay_website"}),
         Look("stream_relay_config"),
         Add("stream_relay_config", "overlay_website", "overlay_website"),
         Table("rx_audio_config", {"agc_enabled"}), Look("rx_audio_config"),
         Add("rx_audio_config", "agc_enabled", "agc_enabled"),
         Do("seedlook"), Do("seed"), Do("commit")>>
           asks == <<Table("nws_alert_config", {"display_enabled", "zone_mode", "state"}),
                     Look("nws_alert_config")>>
           adds == Adds("nws_alert_config", <<"display_enabled", "zone_mode", "state">>)
<1>1. /\ Len(last) = 10 /\ last[1].op = "create" /\ last[2].op = "create"
      /\ last[3].op = "look" /\ last[4].op = "add" /\ last[5].op = "create"
      /\ last[6].op = "look" /\ last[7].op = "add" /\ last[8].op = "seedlook"
      /\ last[9].op = "seed" /\ last[10].op = "commit"
      /\ last[4].g = last[4].c /\ last[7].g = last[7].c
  BY TheOps, TheFields
<1>2. \A i \in 1..10 : \/ i = 1 \/ i = 2 \/ i = 3 \/ i = 4 \/ i = 5 \/ i = 6 \/ i = 7 \/ i = 8
                       \/ i = 9 \/ i = 10
  OBVIOUS
<1>3. Simple(asks) /\ Simple(adds)
  BY SimpleTable, SimpleAdds
<1>4. Helpers = (asks \o adds) \o last
  BY DEF Helpers
<1> HIDE DEF asks, adds, last
<1>5. Simple(last)
  BY <1>1, <1>2 DEF Simple
<1> QED BY <1>3, <1>4, <1>5, JoinedSimple

LEMMA KioskSimple == Simple(Kiosk)
<1> DEFINE last == <<Tables({"chat_messages"}), Table("net_schedules", {"end_time"}),
                     Look("net_schedules"), Add("net_schedules", "end_time", "end_time")>>
           first == <<Tables({"node_lockouts", "kiosk_banner"}), Table("recordings", {})>>
           middle == Tries("recordings", <<"label">>)
<1>1. /\ Len(last) = 4 /\ last[1].op = "create" /\ last[2].op = "create"
      /\ last[3].op = "look" /\ last[4].op = "add" /\ last[4].g = last[4].c
      /\ \A i \in 1..4 : i = 1 \/ i = 2 \/ i = 3 \/ i = 4
  BY TheOps, TheFields
<1>2. /\ Len(first) = 2 /\ first[1].op = "create" /\ first[2].op = "create"
      /\ \A i \in 1..2 : i = 1 \/ i = 2
  BY TheOps
<1>3. Simple(middle)
  BY SimpleTries
<1> HIDE DEF last, first, middle
<1>4. Simple(last) /\ Simple(first)
  BY <1>1, <1>2 DEF Simple
<1>5. Kiosk = (first \o middle) \o last
  BY DEF Kiosk, first, middle, last
<1> QED BY <1>3, <1>4, <1>5, JoinedSimple

LEMMA InvitesSimple == Simple(Invites)
<1>1. /\ Len(Invites) = 7 /\ Invites[1].op = "create" /\ Invites[2].op = "create"
      /\ Invites[3].op = "look" /\ Invites[4].op = "add" /\ Invites[5].op = "commit"
      /\ Invites[6].op = "touch" /\ Invites[7].op = "commit" /\ Invites[4].g = Invites[4].c
  BY TheOps, TheFields DEF Invites
<1>2. \A i \in 1..7 : i = 1 \/ i = 2 \/ i = 3 \/ i = 4 \/ i = 5 \/ i = 6 \/ i = 7
  OBVIOUS
<1> QED BY <1>1, <1>2 DEF Simple

LEMMA UsersSimple == Simple(Users)
<1>1. \A i \in 1..16 : i = 1 \/ i = 2 \/ i = 3 \/ i = 4 \/ i = 5 \/ i = 6 \/ i \in 7..16
  OBVIOUS
<1> QED BY <1>1, UsersScript DEF Simple

LEMMA ScriptSimple ==
    ASSUME chapter \in ChapterNames \ {"favorites", "alerts", "bridges"} PROVE Simple(Script)
BY AnnouncementsSimple, ConnectorsSimple, IdentifiersSimple, HelpersSimple, KioskSimple,
   InvitesSimple, UsersSimple DEF Script, Chapter, ChapterNames

(***************************************************************************)
(* The chapters but the one of the favorites.                              *)
(***************************************************************************)
BackgroundInv == GrowInv /\ Alone /\ stored.filled \subseteq draft.filled
AlertsInv == chapter = "alerts" =>
    /\ cuts = 0 => Together(4, 2) /\ Together(10, 1)
    /\ cuts = 0 /\ Starting => MainOfAlerts
    /\ FilledByMain("alert_config")
BridgesInv == chapter = "bridges" /\ cuts = 0 => Together(9, 1)

LEMMA NextBackground == ASSUME BackgroundInv, [SchemaNext]_schemaVars PROVE BackgroundInv'
BY NextGrown, AloneKept, FilledKept DEF BackgroundInv, GrowInv

LEMMA SameChapter == ASSUME KeptInv, [SchemaNext]_schemaVars PROVE chapter' = chapter
<1>1. ASSUME NEW t \in Threads, Statement(t) \/ StatementFails(t) PROVE chapter' = chapter
  BY <1>1, StatementSteady DEF Steady
<1> QED
  BY <1>1 DEF SchemaNext, Step, Call, Finish, GiveRole, SavePath, Saved, Unopened,
              RestartService, schemaVars

LEMMA NextBridges ==
    ASSUME BackgroundInv, BridgesInv, [SchemaNext]_schemaVars PROVE BridgesInv'
<1>1. KeptInv /\ (chapter # "favorites" => stored.cols \subseteq draft.cols)
  BY DEF BackgroundInv, GrowInv, Growing
<1>2. chapter' = chapter
  BY <1>1, SameChapter
<1>3. ASSUME chapter = "bridges", cuts' = 0 PROVE Together(9, 1)'
  <2>1. cuts = 0 /\ Together(9, 1) /\ Group(9, 1)
    BY <1>1, <1>3, NoCut, BridgesGroup DEF BridgesInv
  <2>2. chapter # "favorites" /\ stored.cols \subseteq draft.cols
    BY <1>1, <1>3
  <2> QED BY <1>1, <1>3, <2>1, <2>2, TogetherKept
<1> QED BY <1>2, <1>3 DEF BridgesInv

LEMMA NextAlerts ==
    ASSUME BackgroundInv, AlertsInv, [SchemaNext]_schemaVars PROVE AlertsInv'
<1>1. KeptInv /\ (chapter # "favorites" => stored.cols \subseteq draft.cols)
  BY DEF BackgroundInv, GrowInv, Growing
<1>2. chapter' = chapter
  BY <1>1, SameChapter
<1>3. ASSUME chapter = "alerts", cuts' = 0 PROVE Together(4, 2)' /\ Together(10, 1)'
  <2>1. cuts = 0 /\ Together(4, 2) /\ Together(10, 1) /\ Group(4, 2) /\ Group(10, 1)
    BY <1>1, <1>3, NoCut, AlertsGroups DEF AlertsInv
  <2>2. chapter # "favorites" /\ stored.cols \subseteq draft.cols
    BY <1>1, <1>3
  <2>3. Together(4, 2)'
    BY <1>1, <1>3, <2>1, <2>2, TogetherKept
  <2>4. Together(10, 1)'
    BY <1>1, <1>3, <2>1, <2>2, TogetherKept
  <2> QED BY <2>3, <2>4
<1>4. ASSUME chapter = "alerts", cuts' = 0, Starting' PROVE MainOfAlerts'
  <2>1. cuts = 0
    BY <1>1, <1>4, NoCut
  <2> QED BY <1>4, <2>1, MainOfAlertsKept DEF BackgroundInv, AlertsInv
<1>5. ASSUME chapter = "alerts" PROVE FilledByMain("alert_config")'
  <2>1. ASSUME cuts = 0, Finish(Main) PROVE Filled(stored, "alert_config")
    <3>1. pc[Main] = 16
      <4>1. Len(Script) = 15
        BY <1>5, InAlerts, AlertsScript
      <4> QED BY <2>1, <4>1 DEF Finish
    <3>2. writer # Main
      BY <2>1, <1>1, ScriptLength, ThreadNames
      DEF BackgroundInv, GrowInv, Closed1, Closing, Finish, KeptInv, DatabaseShape, SchemaTypeOK
    <3>3. Starting
      <4>1. tries < StartupCalls
        BY <1>1, <3>1 DEF KeptInv, DatabaseShape
      <4>2. ~conn[Main]
        BY <3>1, ThreadNames DEF BackgroundInv, Alone
      <4> QED BY <4>1, <4>2 DEF Starting
    <3>4. MainAt(stored, 16, told[Main])
      BY <1>5, <2>1, <3>1, <3>2, <3>3 DEF AlertsInv, MainOfAlerts, View
    <3> QED BY <3>4 DEF MainAt
  <2> QED BY <1>1, <1>5, <2>1, FilledByMainKept DEF BackgroundInv, AlertsInv
<1> QED BY <1>2, <1>3, <1>4, <1>5 DEF AlertsInv

LEMMA FirstBackground == ASSUME SchemaInit PROVE BackgroundInv /\ AlertsInv /\ BridgesInv
<1>1. /\ GrowInv /\ draft = stored /\ writer = Nobody /\ ~ready /\ stored.cols = {}
      /\ \A t \in Threads : pc[t] = 0 /\ ~conn[t]
  <2>1. /\ Fresh.cols = {} /\ SingleLogin(chapter).cols = {} /\ TwoRoles(chapter).cols = {}
    BY DEF Fresh, SingleLogin, TwoRoles
  <2> QED BY <2>1, InitGrown DEF SchemaInit
<1>2. Alone
  BY <1>1, ThreadNames DEF Alone
<1>3. chapter = "alerts" => Together(4, 2) /\ Together(10, 1)
  BY AlertsGroups, TogetherFirst
<1>4. chapter = "bridges" => Together(9, 1)
  BY BridgesGroup, TogetherFirst
<1>5. MainAt(stored, 0, told[Main]) /\ View(Main) = stored
  BY <1>1 DEF MainAt, ColumnsOf, View
<1>6. MainOfAlerts
  BY <1>1, <1>5, ThreadNames DEF MainOfAlerts
<1>7. FilledByMain("alert_config")
  BY <1>1, ThreadNames DEF FilledByMain
<1> QED BY <1>1, <1>2, <1>3, <1>4, <1>6, <1>7 DEF BackgroundInv, AlertsInv, BridgesInv

(* Nobody is amid a group when nobody is under way.                        *)
LEMMA QuietTogether ==
    ASSUME NEW k, NEW m, Group(k, m), Together(k, m), Quiet, Has(stored, k)
    PROVE  \A i \in k..k + m : Has(stored, i)
BY DEF Together, Coherent, Amid, Quiet, Group

LEMMA WholeOrdinary ==
    ASSUME BackgroundInv, AlertsInv, BridgesInv, chapter # "favorites" PROVE SchemaWhole
<1>1. /\ KeptInv /\ SchemaTypeOK /\ chapter \in ChapterNames /\ Len(Script) \in Nat
      /\ ready => Columns(stored, Len(Script))
  BY ScriptLength DEF BackgroundInv, GrowInv, Growing, KeptInv, DatabaseShape, SchemaTypeOK
<1> SUFFICES ASSUME ready, Quiet, NEW i \in 1..Len(Script)
             PROVE  /\ Own(Script[i]) => Has(stored, i)
                    /\ Script[i].op \in {"add", "try"} /\ cuts = 0 => Has(stored, i)
                    /\ Script[i].op = "fill" /\ cuts = 0 /\ conn[Main]
                       => Script[i].t \in stored.filled
  BY <1>1 DEF SchemaWhole, Own, Has
<1>2. Leaving(Script[i]) => Has(stored, i)
  BY <1>1 DEF Columns, Has
<1>3. CASE chapter \notin {"alerts", "bridges"}
  <2>1. Simple(Script)
    BY <1>1, <1>3, ScriptSimple
  <2> QED BY <1>2, <2>1 DEF Simple, Leaving, Own
<1>4. CASE chapter = "bridges"
  <2>1. Script = Bridges /\ Len(Bridges) = 10 /\ i \in 1..10
    BY <1>4, BridgesScript DEF Script, Chapter
  <2>2. /\ \A j \in {1, 2, 5, 6} : Bridges[j].op = "create"
        /\ Bridges[3].op = "look" /\ Bridges[7].op = "look"
        /\ \A j \in {4, 8, 9} : Bridges[j].op = "add" /\ Bridges[j].g = Bridges[j].c
    BY BridgesScript, TheOps, TheFields
  <2>3. i \in {1, 2, 5, 6} \/ i = 3 \/ i = 7 \/ i \in {4, 8, 9} \/ i = 10
    BY <2>1
  <2>4. CASE i # 10
    BY <1>2, <2>1, <2>2, <2>3, <2>4 DEF Leaving, Own
  <2>5. CASE i = 10
    <3>1. Script[10].op = "add" /\ Script[10].g # Script[10].c
      BY <2>1, BridgesScript, TheOps, TheFields
    <3>2. cuts = 0 => Has(stored, 10)
      <4> SUFFICES ASSUME cuts = 0 PROVE Has(stored, 10)
        OBVIOUS
      <4>1. Group(9, 1) /\ Together(9, 1)
        BY <1>4, BridgesGroup DEF BridgesInv
      <4>2. Has(stored, 9)
        <5>1. Leaving(Script[9]) /\ 9 \in 1..Len(Script)
          BY <2>1, <2>2 DEF Leaving, Own
        <5> QED BY <1>1, <5>1 DEF Columns, Has
      <4>3. \A j \in 9..9 + 1 : Has(stored, j)
        BY <4>1, <4>2, QuietTogether
      <4> QED BY <4>3
    <3> QED BY <2>5, <3>1, <3>2 DEF Own
  <2> QED BY <2>4, <2>5
<1>5. CASE chapter = "alerts"
  <2>1. Script = Alerts /\ Len(Alerts) = 15 /\ i \in 1..15
    BY <1>5, InAlerts, AlertsScript
  <2>2. /\ \A j \in {3, 4, 8, 9, 10, 12, 13, 14} :
              Alerts[j].op = "add" /\ Alerts[j].g = Alerts[j].c
        /\ \A j \in {5, 6, 11} : Alerts[j].op = "add" /\ Alerts[j].g # Alerts[j].c
        /\ \A j \in {1, 2, 15} : Alerts[j].op \notin {"add", "try", "fill"}
        /\ Alerts[7].op = "fill" /\ Alerts[7].t = "alert_config"
    <3>1. \A j \in {3, 4, 8, 9, 10, 12, 13, 14} :
             Alerts[j].op = "add" /\ Alerts[j].g = Alerts[j].c
      <4>1. \A j \in {3, 4, 8, 9, 10, 12, 13, 14} : j \in 3..6 \/ j \in 8..14
        OBVIOUS
      <4>2. \A j \in 3..6 : Alerts[j].op = "add"
        BY AlertsLines
      <4>3. \A j \in 8..14 : Alerts[j].op = "add"
        BY AlertsLines
      <4>4. \A j \in {3, 4, 8, 9, 10, 12, 13, 14} : Alerts[j].op = "add"
        BY <4>1, <4>2, <4>3
      <4> QED BY <4>4, AlertsLines
    <3>2. \A j \in {5, 6, 11} : Alerts[j].op = "add" /\ Alerts[j].g # Alerts[j].c
      BY AlertsLines
    <3>3. \A j \in {1, 2, 15} : Alerts[j].op \notin {"add", "try", "fill"}
      BY AlertsLines
    <3> QED BY <3>1, <3>2, <3>3, AlertsLines
  <2>3. ASSUME cuts = 0 PROVE Has(stored, 5) /\ Has(stored, 6) /\ Has(stored, 11)
    <3>1. Group(4, 2) /\ Together(4, 2) /\ Group(10, 1) /\ Together(10, 1)
      BY <1>5, <2>3, AlertsGroups DEF AlertsInv
    <3>2. Has(stored, 4) /\ Has(stored, 10)
      <4>1. Leaving(Script[4]) /\ Leaving(Script[10]) /\ 4 \in 1..Len(Script) /\ 10 \in 1..Len(Script)
        BY <2>1, <2>2 DEF Leaving, Own
      <4> QED BY <1>1, <4>1 DEF Columns, Has
    <3>3. \A j \in 4..4 + 2 : Has(stored, j)
      BY <3>1, <3>2, QuietTogether
    <3>4. \A j \in 10..10 + 1 : Has(stored, j)
      BY <3>1, <3>2, QuietTogether
    <3> QED BY <3>3, <3>4
  <2>4. CASE i \in {3, 4, 8, 9, 10, 12, 13, 14}
    BY <1>2, <2>1, <2>2, <2>4 DEF Leaving, Own
  <2>5. CASE i \in {5, 6, 11}
    BY <2>1, <2>2, <2>3, <2>5 DEF Own
  <2>6. CASE i \in {1, 2, 15}
    BY <2>1, <2>2, <2>6 DEF Own
  <2>7. CASE i = 7
    BY <1>5, <2>1, <2>2, <2>7 DEF Own, AlertsInv, FilledByMain, Filled
  <2> QED BY <2>1, <2>4, <2>5, <2>6, <2>7
<1> QED BY <1>3, <1>4, <1>5

(* The favorites, and the table they are set aside in.                     *)
Fav == "favorites" \in stored.tables
HasUser == <<"favorites", "user_id">> \in stored.cols
HasOrder == <<"favorites", "sort_order">> \in stored.cols
HasAccounts == "users" \in stored.tables
Held == V1 \in stored.tables
HeldYet == V1 \in draft.tables
Knows(t) == "user_id" \in told[t]
Sorted(t) == "sort_order" \in told[t]
(* On the way from setting them aside to dropping what was set aside.      *)
Moving(t) == pc[t] \in 4..6 /\ ~Knows(t)
(* Past adding the order, and still to come to it.                         *)
Past(t) == pc[t] >= 10 \/ (pc[t] = 9 /\ Sorted(t))
Somebody == ready \/ \E t \in Threads : Past(t)
Comes(t) == pc[t] \in 2..9 /\ (pc[t] = 3 => Knows(t)) /\ (pc[t] = 9 => ~Sorted(t))

Drafted == draft.cols = stored.cols /\ draft.tables \ {V1} = stored.tables \ {V1}
OneMoves ==
    /\ \A t \in Threads : writer = t => pc[t] \in {6, 7, 11, 13, 16}
    /\ HeldYet => Held
    /\ Held /\ ~HeldYet => HasAccounts
    /\ (\A t \in Threads : writer # t) => (Held <=> HeldYet)
    /\ \A t, u \in Threads : Moving(t) /\ Moving(u) => t = u
    /\ \A t \in Threads : Moving(t) => HeldYet /\ Held
    /\ \A t \in Threads : Moving(t) /\ pc[t] = 6 => HasAccounts
Early == /\ ~Held /\ ~ready
         /\ \A t \in Threads : pc[t] <= 3 /\ (pc[t] = 3 => ~Knows(t))
WithUsers ==
    /\ HasUser \/ HasOrder => Fav
    /\ ~Fav /\ ~Held => \A t \in Threads : pc[t] <= 1
    /\ ~HasUser => Early \/ \E x \in Threads : Moving(x) /\ pc[x] = 4
    /\ \A x \in Threads : Moving(x) /\ pc[x] = 4 /\ Fav => HasUser
    /\ ~HasAccounts /\ HasUser /\ ~Held => \A t \in Threads : pc[t] = 3 => Knows(t)
WithOrder ==
    /\ Somebody => HasOrder \/ \E t \in Threads : Comes(t)
    /\ \A x \in Threads : /\ Moving(x) /\ Somebody
                          /\ (pc[x] = 4 /\ Fav) \/ (pc[x] = 5 /\ ~HasAccounts)
                          => HasOrder \/ \E c \in Threads \ {x} : Comes(c)
    /\ \A x \in Threads : Moving(x) /\ pc[x] = 4 /\ ~Fav /\ ~HasAccounts => ~Somebody
Favorited == Drafted /\ OneMoves /\ WithUsers /\ WithOrder

(* While it starts, the main thread fills the order of the rows it adds.   *)
Full == Filled(stored, "favorites")
FullYet == Filled(draft, "favorites")
MainOfFavorites ==
    /\ HasOrder => \/ Full
                   \/ pc[Main] = 10 /\ ~Sorted(Main)
                   \/ pc[Main] = 11 /\ writer = Main /\ FullYet
    /\ pc[Main] \in {9, 10} /\ Sorted(Main) => Full
    /\ pc[Main] = 11 => Full \/ (writer = Main /\ FullYet)
    /\ pc[Main] > 11 => Full
FavoritesInv == chapter = "favorites" =>
    /\ cuts = 0 => Favorited
    /\ cuts = 0 /\ Starting => MainOfFavorites
    /\ FilledByMain("favorites")

(***************************************************************************)
(* What the statements about the favorites do to them.                     *)
(* Each line of the chapter is one of these, told apart by what it changes *)
(* of the favorites, of what is set aside of them and of who writes.       *)
(***************************************************************************)
OthersStay(t) == /\ \A u \in Threads \ {t} : /\ pc'[u] = pc[u] /\ (Knows(u)' <=> Knows(u))
                                             /\ (Sorted(u)' <=> Sorted(u))
                 /\ (HasAccounts' <=> HasAccounts) \/ (pc[t] = 14 /\ HasAccounts')
Remembers(t) == (Knows(t)' <=> Knows(t)) /\ (Sorted(t)' <=> Sorted(t))
TableSame == (Fav' <=> Fav) /\ (HasUser' <=> HasUser) /\ (HasOrder' <=> HasOrder)
HeldSame == (Held' <=> Held) /\ (HeldYet' <=> HeldYet)
WriterSame == \A u \in Threads : writer' = u <=> writer = u
Goes(t) == /\ pc[t] \in 1..16 /\ pc'[t] = pc[t] + 1 /\ OthersStay(t) /\ (ready' <=> ready)
Passes(t) == /\ Goes(t) /\ Remembers(t) /\ TableSame /\ HeldSame /\ WriterSame
             /\ pc[t] \notin {2, 8} /\ (pc[t] = 1 => Fav)
             /\ (pc[t] \in 3..6 => Knows(t) \/ (pc[t] = 5 /\ HasAccounts))
             /\ (pc[t] = 9 => Sorted(t)) /\ (pc[t] \in {7, 11, 13, 16} => writer # t)
Asks(t) == /\ Goes(t) /\ TableSame /\ HeldSame /\ WriterSame /\ pc[t] \in {2, 8}
           /\ (Knows(t)' <=> HasUser) /\ (Sorted(t)' <=> HasOrder)
Makes(t) == /\ Goes(t) /\ Remembers(t) /\ HeldSame /\ WriterSame /\ pc[t] \in {1, 4}
            /\ ~Fav /\ (pc[t] = 4 => ~Knows(t))
            /\ Fav' /\ HasUser' /\ (HasOrder' <=> HasOrder)
SetsAside(t) == /\ Goes(t) /\ Remembers(t) /\ WriterSame /\ pc[t] = 3 /\ ~Knows(t)
                /\ Fav /\ ~Held /\ ~Fav' /\ ~HasUser' /\ ~HasOrder' /\ Held' /\ HeldYet'
Opens(t) == /\ Goes(t) /\ Remembers(t) /\ TableSame /\ HeldSame
            /\ writer' = t /\ (\A u \in Threads : writer # u \/ u = t) /\ pc[t] \in {5, 10, 12, 15}
            /\ pc[t] = 5 => HasAccounts
Drops(t) == /\ Goes(t) /\ Remembers(t) /\ TableSame /\ WriterSame /\ pc[t] = 6 /\ ~Knows(t)
            /\ ~HeldYet' /\ (Held' <=> Held /\ writer = t)
            /\ (\A u \in Threads : writer # u \/ u = t)
Commits(t) == /\ Goes(t) /\ Remembers(t) /\ TableSame /\ pc[t] \in {7, 11, 13, 16} /\ writer = t
              /\ (\A u \in Threads : writer' # u) /\ (Held' <=> HeldYet) /\ (HeldYet' <=> HeldYet)
Orders(t) == /\ Goes(t) /\ Remembers(t) /\ HeldSame /\ WriterSame /\ pc[t] = 9 /\ ~Sorted(t)
             /\ Fav /\ Fav' /\ (HasUser' <=> HasUser) /\ ~HasOrder /\ HasOrder'
Raises(t) == /\ pc'[t] = 0 /\ OthersStay(t) /\ (ready' <=> ready) /\ TableSame /\ HeldSame
             /\ WriterSame /\ writer # t
             /\ \/ pc[t] = 3 /\ ~Knows(t) /\ (~Fav \/ Held)
                \/ pc[t] = 4 /\ ~Knows(t) /\ Fav
                \/ pc[t] = 5 /\ ~Knows(t) /\ ~(HasAccounts /\ Fav /\ Held)
                \/ pc[t] = 9 /\ ~Sorted(t) /\ (~Fav \/ HasOrder)
                \/ pc[t] = 10 /\ ~Sorted(t) /\ ~HasOrder
Begins(t) == /\ pc[t] = 0 /\ pc'[t] \in {0, 1} /\ OthersStay(t) /\ (ready' <=> ready) /\ TableSame
             /\ HeldSame /\ WriterSame
Ends(t) == /\ pc[t] = 17 /\ pc'[t] = 0 /\ OthersStay(t) /\ ready' /\ TableSame /\ HeldSame
           /\ WriterSame
InTurn(t) == \/ Passes(t) \/ Asks(t) \/ Makes(t) \/ SetsAside(t) \/ Opens(t) \/ Drops(t)
             \/ Commits(t) \/ Orders(t) \/ Raises(t) \/ Begins(t) \/ Ends(t)
Counted == \A t \in Threads : pc[t] \in Nat /\ pc[t] <= 17

LEMMA OneMovesKept ==
    ASSUME Counted, OneMoves, WithUsers, WithOrder, NEW t \in Threads, InTurn(t)
    PROVE  OneMoves'
<1>1. CASE Passes(t)
  BY <1>1, SMTT(20) DEF Passes, OthersStay, Remembers, TableSame, HeldSame, WriterSame, Goes, OneMoves, WithUsers, Moving, Counted
<1>2. CASE Asks(t)
  BY <1>2, SMTT(20) DEF Asks, OthersStay, Remembers, TableSame, HeldSame, WriterSame, Goes, OneMoves, WithUsers, Moving, Counted
<1>3. CASE Makes(t)
  BY <1>3, SMTT(20) DEF Makes, OthersStay, Remembers, TableSame, HeldSame, WriterSame, Goes, OneMoves, WithUsers, Moving, Counted
<1>4. CASE SetsAside(t)
  BY <1>4, SMTT(20) DEF SetsAside, OthersStay, Remembers, TableSame, HeldSame, WriterSame, Goes, OneMoves, WithUsers, Moving, Counted
<1>5. CASE Opens(t)
  BY <1>5, SMTT(20) DEF Opens, OthersStay, Remembers, TableSame, HeldSame, WriterSame, Goes, OneMoves, WithUsers, Moving, Counted
<1>6. CASE Drops(t)
  BY <1>6, SMTT(20) DEF Drops, OthersStay, Remembers, TableSame, HeldSame, WriterSame, Goes, OneMoves, WithUsers, Moving, Counted
<1>7. CASE Commits(t)
  BY <1>7, SMTT(20) DEF Commits, OthersStay, Remembers, TableSame, HeldSame, WriterSame, Goes, OneMoves, WithUsers, Moving, Counted
<1>8. CASE Orders(t)
  BY <1>8, SMTT(20) DEF Orders, OthersStay, Remembers, TableSame, HeldSame, WriterSame, Goes, OneMoves, WithUsers, Moving, Counted
<1>9. CASE Raises(t)
  BY <1>9, SMTT(20) DEF Raises, OthersStay, Remembers, TableSame, HeldSame, WriterSame, Goes, OneMoves, WithUsers, Moving, Counted
<1>10. CASE Begins(t)
  BY <1>10, SMTT(20) DEF Begins, OthersStay, Remembers, TableSame, HeldSame, WriterSame, Goes, OneMoves, WithUsers, Moving, Counted
<1>11. CASE Ends(t)
  BY <1>11, SMTT(20) DEF Ends, OthersStay, Remembers, TableSame, HeldSame, WriterSame, Goes, OneMoves, WithUsers, Moving, Counted
<1> QED BY <1>1, <1>2, <1>3, <1>4, <1>5, <1>6, <1>7, <1>8, <1>9, <1>10, <1>11 DEF InTurn

LEMMA WithUsersKept ==
    ASSUME Counted, OneMoves, WithUsers, WithOrder, NEW t \in Threads, InTurn(t)
    PROVE  WithUsers'
<1>1. CASE Passes(t)
  BY <1>1, SMTT(20) DEF Passes, OthersStay, Remembers, TableSame, HeldSame, WriterSame, Goes, OneMoves, WithUsers, Moving, Early, Counted
<1>2. CASE Asks(t)
  BY <1>2, SMTT(20) DEF Asks, OthersStay, Remembers, TableSame, HeldSame, WriterSame, Goes, OneMoves, WithUsers, Moving, Early, Counted
<1>3. CASE Makes(t)
  BY <1>3, SMTT(20) DEF Makes, OthersStay, Remembers, TableSame, HeldSame, WriterSame, Goes, OneMoves, WithUsers, Moving, Early, Counted
<1>4. CASE SetsAside(t)
  BY <1>4, SMTT(20) DEF SetsAside, OthersStay, Remembers, TableSame, HeldSame, WriterSame, Goes, OneMoves, WithUsers, Moving, Early, Counted
<1>5. CASE Opens(t)
  BY <1>5, SMTT(20) DEF Opens, OthersStay, Remembers, TableSame, HeldSame, WriterSame, Goes, OneMoves, WithUsers, Moving, Early, Counted
<1>6. CASE Drops(t)
  BY <1>6, SMTT(20) DEF Drops, OthersStay, Remembers, TableSame, HeldSame, WriterSame, Goes, OneMoves, WithUsers, Moving, Early, Counted
<1>7. CASE Commits(t)
  BY <1>7, SMTT(20) DEF Commits, OthersStay, Remembers, TableSame, HeldSame, WriterSame, Goes, OneMoves, WithUsers, Moving, Early, Counted
<1>8. CASE Orders(t)
  BY <1>8, SMTT(20) DEF Orders, OthersStay, Remembers, TableSame, HeldSame, WriterSame, Goes, OneMoves, WithUsers, Moving, Early, Counted
<1>9. CASE Raises(t)
  BY <1>9, SMTT(20) DEF Raises, OthersStay, Remembers, TableSame, HeldSame, WriterSame, Goes, OneMoves, WithUsers, Moving, Early, Counted
<1>10. CASE Begins(t)
  BY <1>10, SMTT(20) DEF Begins, OthersStay, Remembers, TableSame, HeldSame, WriterSame, Goes, OneMoves, WithUsers, Moving, Early, Counted
<1>11. CASE Ends(t)
  BY <1>11, SMTT(20) DEF Ends, OthersStay, Remembers, TableSame, HeldSame, WriterSame, Goes, OneMoves, WithUsers, Moving, Early, Counted
<1> QED BY <1>1, <1>2, <1>3, <1>4, <1>5, <1>6, <1>7, <1>8, <1>9, <1>10, <1>11 DEF InTurn

LEMMA WithOrderKept ==
    ASSUME Counted, OneMoves, WithUsers, WithOrder, NEW t \in Threads, InTurn(t)
    PROVE  WithOrder'
<1>1. CASE Passes(t)
  BY <1>1, SMTT(20) DEF Passes, OthersStay, Remembers, TableSame, HeldSame, WriterSame, Goes, OneMoves, WithUsers, WithOrder, Moving, Past, Comes, Somebody, Early, Counted
<1>2. CASE Asks(t)
  BY <1>2, SMTT(20) DEF Asks, OthersStay, Remembers, TableSame, HeldSame, WriterSame, Goes, OneMoves, WithUsers, WithOrder, Moving, Past, Comes, Somebody, Early, Counted
<1>3. CASE Makes(t)
  BY <1>3, SMTT(20) DEF Makes, OthersStay, Remembers, TableSame, HeldSame, WriterSame, Goes, OneMoves, WithUsers, WithOrder, Moving, Past, Comes, Somebody, Early, Counted
<1>4. CASE SetsAside(t)
  BY <1>4, SMTT(20) DEF SetsAside, OthersStay, Remembers, TableSame, HeldSame, WriterSame, Goes, OneMoves, WithUsers, WithOrder, Moving, Past, Comes, Somebody, Early, Counted
<1>5. CASE Opens(t)
  BY <1>5, SMTT(20) DEF Opens, OthersStay, Remembers, TableSame, HeldSame, WriterSame, Goes, OneMoves, WithUsers, WithOrder, Moving, Past, Comes, Somebody, Early, Counted
<1>6. CASE Drops(t)
  BY <1>6, SMTT(20) DEF Drops, OthersStay, Remembers, TableSame, HeldSame, WriterSame, Goes, OneMoves, WithUsers, WithOrder, Moving, Past, Comes, Somebody, Early, Counted
<1>7. CASE Commits(t)
  BY <1>7, SMTT(20) DEF Commits, OthersStay, Remembers, TableSame, HeldSame, WriterSame, Goes, OneMoves, WithUsers, WithOrder, Moving, Past, Comes, Somebody, Early, Counted
<1>8. CASE Orders(t)
  BY <1>8, SMTT(20) DEF Orders, OthersStay, Remembers, TableSame, HeldSame, WriterSame, Goes, OneMoves, WithUsers, WithOrder, Moving, Past, Comes, Somebody, Early, Counted
<1>9. CASE Raises(t)
  BY <1>9, SMTT(20) DEF Raises, OthersStay, Remembers, TableSame, HeldSame, WriterSame, Goes, OneMoves, WithUsers, WithOrder, Moving, Past, Comes, Somebody, Early, Counted
<1>10. CASE Begins(t)
  BY <1>10, SMTT(20) DEF Begins, OthersStay, Remembers, TableSame, HeldSame, WriterSame, Goes, OneMoves, WithUsers, WithOrder, Moving, Past, Comes, Somebody, Early, Counted
<1>11. CASE Ends(t)
  BY <1>11, SMTT(20) DEF Ends, OthersStay, Remembers, TableSame, HeldSame, WriterSame, Goes, OneMoves, WithUsers, WithOrder, Moving, Past, Comes, Somebody, Early, Counted
<1> QED BY <1>1, <1>2, <1>3, <1>4, <1>5, <1>6, <1>7, <1>8, <1>9, <1>10, <1>11 DEF InTurn

LEMMA FavoritesPlace ==
    ASSUME KeptInv, chapter = "favorites", NEW t \in Threads, NEW s \in Now(t)
    PROVE  pc[t] \in 1..16 /\ s = Favorites[pc[t]]
<1>1. pc[t] \in Nat /\ pc[t] >= 1 /\ pc[t] <= Len(Script) /\ s = Script[pc[t]]
  BY AtStatement DEF KeptInv
<1>2. Script = Favorites /\ Len(Script) = 16
  BY InFavorites, FavoritesLines
<1> QED BY <1>1, <1>2

LEMMA GoingOn ==
    ASSUME KeptInv, NEW t \in Threads, pc[t] \in 1..16, GoesOn(t),
           told' = [told EXCEPT ![t] = told'[t]], RestSame,
           (HasAccounts' <=> HasAccounts) \/ (pc[t] = 14 /\ HasAccounts')
    PROVE  Goes(t) /\ (told'[t] = told[t] => Remembers(t))
BY DEF KeptInv, DatabaseShape, SchemaTypeOK, GoesOn, RestSame, Goes, OthersStay, Remembers,
       Knows, Sorted

LEMMA Untouched ==
    ASSUME Drafted, DatabaseSame
    PROVE  TableSame /\ HeldSame /\ WriterSame /\ (HasAccounts' <=> HasAccounts) /\ Drafted'
BY DEF DatabaseSame, TableSame, HeldSame, WriterSame, HasAccounts, Drafted, Fav, HasUser,
       HasOrder, Held, HeldYet

(* A change of the schema by a thread in no transaction is everybody's.    *)
LEMMA AtOnce ==
    ASSUME KeptInv, NEW t \in Threads, writer # t, NEW e, Alter(t, e)
    PROVE  /\ View(t) = stored /\ draft = stored /\ stored' = e /\ draft' = e
           /\ WriterSame /\ Drafted' /\ \A u \in Threads : writer # u
BY ThreadNames DEF KeptInv, DatabaseShape, SchemaTypeOK, Alter, MayWrite, View, WriterSame, Drafted

LEMMA NamesApart == /\ V1 # "favorites" /\ V1 # "users"
                    /\ <<"favorites", "user_id">> # <<"favorites", "sort_order">>
BY DEF V1

(* A transaction that is opened leaves the tables as they are.             *)
LEMMA Opened ==
    ASSUME KeptInv, Drafted, NEW t \in Threads, NEW e, Change(t, e), e.tables = View(t).tables,
           e.cols = View(t).cols
    PROVE  /\ TableSame /\ HeldSame /\ (HasAccounts' <=> HasAccounts) /\ Drafted' /\ writer' = t
           /\ \A u \in Threads : writer # u \/ u = t
<1>1. /\ draft'.tables = draft.tables /\ draft'.cols = draft.cols /\ stored' = stored
      /\ writer' = t /\ writer \in {Nobody, t}
  BY DEF KeptInv, DatabaseShape, SchemaTypeOK, Change, MayWrite, View
<1> QED BY <1>1, ThreadNames
        DEF TableSame, HeldSame, HasAccounts, Drafted, Fav, HasUser, HasOrder, Held, HeldYet

(* What a statement that raises leaves.                                    *)
LEMMA RaisedStays ==
    ASSUME KeptInv, Drafted, NEW t \in Threads, Leaves(t), writer # t
    PROVE  /\ pc'[t] = 0 /\ OthersStay(t) /\ (ready' <=> ready) /\ TableSame /\ HeldSame
           /\ WriterSame /\ Drafted'
<1>1. DatabaseSame /\ ready' = ready
  BY DEF Leaves, DatabaseSame
<1>2. TableSame /\ HeldSame /\ WriterSame /\ (HasAccounts' <=> HasAccounts) /\ Drafted'
  BY <1>1, Untouched
<1>3. /\ pc'[t] = 0 /\ \A u \in Threads \ {t} : pc'[u] = pc[u] /\ told'[u] = told[u]
  BY DEF Leaves, Learns, KeptInv, DatabaseShape, SchemaTypeOK
<1> QED BY <1>1, <1>2, <1>3 DEF OthersStay, Knows, Sorted

LEMMA MovesPlace ==
    ASSUME KeptInv, chapter = "favorites", NEW t \in Threads, NEW s \in Now(t),
           s.op \in {"rename", "recreate", "copy", "drop"}
    PROVE  /\ pc[t] \in 3..6
           /\ \/ s.op = "rename" /\ pc[t] = 3
              \/ s.op = "recreate" /\ pc[t] = 4
              \/ s.op = "copy" /\ pc[t] = 5
              \/ s.op = "drop" /\ pc[t] = 6
<1>1. pc[t] \in 1..16 /\ s = Favorites[pc[t]]
  BY FavoritesPlace
<1> QED BY <1>1, FavoritesOpAt, FavoritesLines

LEMMA MovesTurn ==
    ASSUME KeptInv, Drafted, OneMoves, chapter = "favorites", NEW t \in Threads,
           NEW s \in Now(t), MoveFavorites(t, s)
    PROVE  InTurn(t) /\ Drafted'
<1> DEFINE d == View(t)
           without == [d EXCEPT !.tables = @ \ {"favorites"},
                                !.cols = {x \in @ : x[1] # "favorites"}]
           renamed == [without EXCEPT !.tables = @ \cup {V1},
                                      !.old = IF @ = "none" THEN @ ELSE "aside"]
           recreated == [d EXCEPT !.tables = @ \cup {"favorites"},
                                  !.cols = @ \cup {<<"favorites", "user_id">>}]
           copied == [d EXCEPT !.old = IF @ = "aside" THEN "copied" ELSE @]
           dropped == [d EXCEPT !.tables = @ \ {V1}, !.old = IF @ = "aside" THEN "lost" ELSE @]
           done == GoesOn(t) /\ Learns(t, told[t]) /\ RestSame
<1>1. /\ pc[t] \in 1..16
      /\ \/ s.op = "rename" /\ pc[t] = 3
         \/ s.op = "recreate" /\ pc[t] = 4
         \/ s.op = "copy" /\ pc[t] = 5
         \/ s.op = "drop" /\ pc[t] = 6
  BY MovesPlace DEF MoveFavorites
<1>2. IsDb(d)
  BY ViewKept
<1>3. /\ renamed.tables = (d.tables \ {"favorites"}) \cup {V1}
      /\ renamed.cols = {x \in d.cols : x[1] # "favorites"}
      /\ recreated.tables = d.tables \cup {"favorites"}
      /\ recreated.cols = d.cols \cup {<<"favorites", "user_id">>}
      /\ copied.tables = d.tables /\ copied.cols = d.cols
      /\ dropped.tables = d.tables \ {V1} /\ dropped.cols = d.cols
  BY <1>2 DEF IsDb, Fields
<1>4. \/ Knows(t) /\ Skip(t)
      \/ /\ ~Knows(t)
         /\ \/ s.op = "rename" /\ ("favorites" \notin d.tables \/ V1 \in d.tables) /\ Raise(t)
            \/ s.op = "rename" /\ "favorites" \in d.tables /\ V1 \notin d.tables
               /\ done /\ Alter(t, renamed)
            \/ s.op = "recreate" /\ "favorites" \in d.tables /\ Raise(t)
            \/ s.op = "recreate" /\ "favorites" \notin d.tables /\ done /\ Alter(t, recreated)
            \/ s.op = "copy" /\ ~({"users", "favorites", V1} \subseteq d.tables) /\ Raise(t)
            \/ s.op = "copy" /\ "users" \in d.tables /\ done /\ DatabaseSame
            \/ s.op = "copy" /\ {"users", "favorites", V1} \subseteq d.tables
               /\ done /\ Change(t, copied)
            \/ s.op = "drop" /\ done /\ Alter(t, dropped)
  BY DEF MoveFavorites, Knows
<1> HIDE DEF without, renamed, recreated, copied, dropped
<1>5. pc[t] # 6 => writer # t /\ d = stored
  BY <1>1 DEF OneMoves, View
<1>6. ASSUME Raise(t), ~Knows(t), pc[t] # 6,
             \/ pc[t] = 3 /\ (~Fav \/ Held)
             \/ pc[t] = 4 /\ Fav
             \/ pc[t] = 5 /\ ~(HasAccounts /\ Fav /\ Held)
      PROVE  InTurn(t) /\ Drafted'
  <2>1. Leaves(t) /\ writer # t
    BY <1>5, <1>6 DEF Raise
  <2>2. Raises(t) /\ Drafted'
    BY <1>6, <2>1, RaisedStays DEF Raises
  <2> QED BY <2>2 DEF InTurn
<1>7. ASSUME done, HasAccounts' <=> HasAccounts PROVE Goes(t) /\ Remembers(t)
  BY <1>1, <1>7, GoingOn DEF Learns, KeptInv, DatabaseShape
<1>8. CASE Knows(t) /\ Skip(t)
  <2>1. done /\ DatabaseSame
    BY <1>8 DEF Skip
  <2>2. TableSame /\ HeldSame /\ WriterSame /\ (HasAccounts' <=> HasAccounts) /\ Drafted'
    BY <2>1, Untouched
  <2>3. Passes(t)
    BY <1>1, <1>7, <1>8, <2>1, <2>2 DEF Passes
  <2> QED BY <2>2, <2>3 DEF InTurn
<1>9. CASE ~Knows(t) /\ s.op = "rename" /\ ("favorites" \notin d.tables \/ V1 \in d.tables) /\ Raise(t)
  BY <1>1, <1>5, <1>6, <1>9 DEF Fav, Held
<1>10. CASE ~Knows(t) /\ s.op = "rename" /\ "favorites" \in d.tables /\ V1 \notin d.tables
            /\ done /\ Alter(t, renamed)
  <2>1. /\ d = stored /\ stored' = renamed /\ draft' = renamed /\ WriterSame /\ Drafted'
    BY <1>1, <1>5, <1>10, AtOnce
  <2>2. /\ Fav /\ ~Held /\ ~Fav' /\ ~HasUser' /\ ~HasOrder' /\ Held' /\ HeldYet'
        /\ (HasAccounts' <=> HasAccounts)
    BY <1>3, <1>10, <2>1, NamesApart
    DEF Fav, Held, HeldYet, HasUser, HasOrder, HasAccounts
  <2>3. SetsAside(t)
    BY <1>1, <1>7, <1>10, <2>1, <2>2 DEF SetsAside
  <2> QED BY <2>1, <2>3 DEF InTurn
<1>11. CASE ~Knows(t) /\ s.op = "recreate" /\ "favorites" \in d.tables /\ Raise(t)
  BY <1>1, <1>5, <1>6, <1>11 DEF Fav
<1>12. CASE ~Knows(t) /\ s.op = "recreate" /\ "favorites" \notin d.tables /\ done
            /\ Alter(t, recreated)
  <2>1. /\ d = stored /\ draft = stored /\ stored' = recreated /\ draft' = recreated
        /\ WriterSame /\ Drafted'
    BY <1>1, <1>5, <1>12, AtOnce
  <2>2. /\ ~Fav /\ Fav' /\ HasUser' /\ (HasOrder' <=> HasOrder) /\ HeldSame
        /\ (HasAccounts' <=> HasAccounts)
    BY <1>3, <1>12, <2>1, NamesApart
    DEF Fav, Held, HeldYet, HasUser, HasOrder, HasAccounts, HeldSame
  <2>3. Makes(t)
    BY <1>1, <1>7, <1>12, <2>1, <2>2 DEF Makes
  <2> QED BY <2>1, <2>3 DEF InTurn
<1>13. CASE ~Knows(t) /\ s.op = "copy" /\ ~({"users", "favorites", V1} \subseteq d.tables) /\ Raise(t)
  BY <1>1, <1>5, <1>6, <1>13 DEF Fav, Held, HasAccounts
<1>14. CASE ~Knows(t) /\ s.op = "copy" /\ {"users", "favorites", V1} \subseteq d.tables
            /\ done /\ Change(t, copied)
  <2>1. /\ TableSame /\ HeldSame /\ (HasAccounts' <=> HasAccounts) /\ Drafted' /\ writer' = t
        /\ \A u \in Threads : writer # u \/ u = t
    BY <1>3, <1>14, Opened
  <2>2. HasAccounts
    BY <1>1, <1>5, <1>14 DEF HasAccounts
  <2>3. Opens(t)
    BY <1>1, <1>7, <1>14, <2>1, <2>2 DEF Opens
  <2> QED BY <2>1, <2>3 DEF InTurn
<1>16. CASE ~Knows(t) /\ s.op = "copy" /\ "users" \in d.tables /\ done /\ DatabaseSame
  <2>1. TableSame /\ HeldSame /\ WriterSame /\ (HasAccounts' <=> HasAccounts) /\ Drafted'
    BY <1>16, Untouched
  <2>2. HasAccounts /\ pc[t] = 5
    BY <1>1, <1>5, <1>16 DEF HasAccounts
  <2>3. Passes(t)
    BY <1>7, <1>16, <2>1, <2>2 DEF Passes
  <2> QED BY <2>1, <2>3 DEF InTurn
<1>15. CASE ~Knows(t) /\ s.op = "drop" /\ done /\ Alter(t, dropped)
  <2>1. /\ \A u \in Threads : writer # u \/ u = t
        /\ writer' = writer /\ draft' = dropped /\ (writer = t => stored' = stored /\ d = draft)
        /\ writer # t => stored' = dropped /\ d = stored
    BY <1>15, ThreadNames DEF Alter, MayWrite, View
  <2>2. /\ TableSame /\ WriterSame /\ (HasAccounts' <=> HasAccounts) /\ Drafted'
        /\ ~HeldYet' /\ (Held' <=> Held /\ writer = t)
    <3>1. CASE writer = t
      BY <1>3, <2>1, <3>1, NamesApart
      DEF Drafted, Fav, Held, HeldYet, HasUser, HasOrder, HasAccounts, TableSame, WriterSame
    <3>2. CASE writer # t
      BY <1>3, <2>1, <3>2, NamesApart
      DEF Drafted, Fav, Held, HeldYet, HasUser, HasOrder, HasAccounts, TableSame, WriterSame
    <3> QED BY <3>1, <3>2
  <2>3. Drops(t)
    BY <1>1, <1>7, <1>15, <2>1, <2>2 DEF Drops
  <2> QED BY <2>2, <2>3 DEF InTurn
<1> QED BY <1>4, <1>8, <1>9, <1>10, <1>11, <1>12, <1>13, <1>14, <1>15, <1>16

(* The other statements of the chapter, by their places.                   *)
Elsewise == {"create", "look", "commit", "add", "fill", "touch", "legacy"}
LEMMA FavoritesOps ==
    ASSUME KeptInv, chapter = "favorites", NEW t \in Threads, NEW s \in Now(t),
           s.op \notin {"rename", "recreate", "copy", "drop"}
    PROVE  /\ pc[t] \in 1..16 /\ pc[t] \notin 3..6 /\ s.op \in Elsewise
           /\ pc[t] = 1 => s.op = "create" /\ s.t = {"favorites"} /\ s.c = {"user_id"}
           /\ pc[t] \in {2, 8} <=> s.op = "look"
           /\ pc[t] \in {2, 8} => s.t = "favorites"
           /\ pc[t] = 14 => s.op = "create" /\ s.t = {"users"} /\ s.c = {}
           /\ pc[t] \in {7, 11, 13, 16} <=> s.op = "commit"
           /\ pc[t] = 9 => s = Add("favorites", "sort_order", "sort_order")
           /\ pc[t] = 9 <=> s.op = "add"
           /\ pc[t] = 10 => s.t = "favorites" /\ s.g = "sort_order" /\ s.c = {"sort_order"}
           /\ pc[t] = 10 <=> s.op = "fill"
           /\ pc[t] = 12 <=> s.op = "touch"
           /\ pc[t] \in {1, 14} <=> s.op = "create"
           /\ pc[t] = 15 <=> s.op = "legacy"
<1>1. pc[t] \in 1..16 /\ s = Favorites[pc[t]]
  BY FavoritesPlace
<1>2. /\ Favorites[1].t = {"favorites"} /\ Favorites[1].c = {"user_id"}
      /\ Favorites[2].t = "favorites" /\ Favorites[8].t = "favorites"
      /\ Favorites[10].t = "favorites" /\ Favorites[10].g = "sort_order"
      /\ Favorites[10].c = {"sort_order"} /\ Favorites[14].t = {"users"} /\ Favorites[14].c = {}
  BY FavoritesLines, TheFields
<1>3. /\ pc[t] \in 1..16 /\ pc[t] \notin 3..6 /\ s.op \in Elsewise
      /\ pc[t] \in {2, 8} <=> s.op = "look"
      /\ pc[t] \in {7, 11, 13, 16} <=> s.op = "commit"
      /\ pc[t] = 9 <=> s.op = "add"
      /\ pc[t] = 10 <=> s.op = "fill"
      /\ pc[t] = 12 <=> s.op = "touch"
      /\ pc[t] \in {1, 14} <=> s.op = "create"
      /\ pc[t] = 15 <=> s.op = "legacy"
  BY <1>1, FavoritesOpAt, FavoritesLines DEF Elsewise
<1>4. pc[t] = 9 => s = Add("favorites", "sort_order", "sort_order")
  BY <1>1, FavoritesLines
<1> QED BY <1>1, <1>2, <1>3, <1>4

LEMMA OrderAdded ==
    ASSUME NEW s, s = Add("favorites", "sort_order", "sort_order")
    PROVE  s.t = "favorites" /\ s.g = "sort_order" /\ s.c = "sort_order"
BY TheFields

LEMMA FavoriteColumns ==
    ASSUME AllPaired
    PROVE  /\ "user_id" \in ColumnsOf(stored, "favorites") <=> HasUser
           /\ "sort_order" \in ColumnsOf(stored, "favorites") <=> HasOrder
<1>1. \A c : <<"favorites", c>> \in stored.cols => c \in ColumnsOf(stored, "favorites")
  <2> SUFFICES ASSUME NEW c, <<"favorites", c>> \in stored.cols
               PROVE  c \in ColumnsOf(stored, "favorites")
    OBVIOUS
  <2>1. <<"favorites", c>>[1] = "favorites" /\ <<"favorites", c>>[2] = c
    OBVIOUS
  <2> QED BY <2>1 DEF ColumnsOf
<1>2. \A c : c \in ColumnsOf(stored, "favorites") => <<"favorites", c>> \in stored.cols
  BY DEF ColumnsOf, AllPaired, Paired
<1> QED BY <1>1, <1>2 DEF HasUser, HasOrder

LEMMA OthersTurn ==
    ASSUME KeptInv, AllPaired, Drafted, OneMoves, chapter = "favorites", NEW t \in Threads,
           NEW s \in Now(t), Ordinary(t, s), s.op \notin {"rename", "recreate", "copy", "drop"}
    PROVE  InTurn(t) /\ Drafted'
<1>0. pc[t] \in 1..16 /\ pc[t] \notin 3..6 /\ s.op \in Elsewise
  BY FavoritesOps
<1>1. writer = t => pc[t] \in {7, 11, 13, 16}
  BY <1>0 DEF OneMoves
<1>2. writer # t => View(t) = stored
  BY DEF View
<1>3. CASE Refused(t, s)
  <2>1. \/ pc[t] = 9 /\ ~Sorted(t) /\ (~Fav \/ HasOrder)
        \/ pc[t] = 10 /\ ~Sorted(t) /\ ~HasOrder
    <3>1. s.op = "add" \/ s.op = "fill"
      BY <1>0, <1>3 DEF Refused, Elsewise
    <3>2. CASE s.op = "add"
      <4>1. pc[t] = 9 /\ s.t = "favorites" /\ s.g = "sort_order" /\ s.c = "sort_order"
        BY <3>2, FavoritesOps, OrderAdded
      <4> QED BY <1>1, <1>2, <1>3, <3>2, <4>1 DEF Refused, Sorted, Fav, HasOrder, HasColumn
    <3>3. CASE s.op = "fill"
      <4>1. pc[t] = 10 /\ s.t = "favorites" /\ s.g = "sort_order" /\ s.c = {"sort_order"}
        BY <3>3, FavoritesOps
      <4>2. "sort_order" \notin told[t] /\ ~({"sort_order"} \subseteq ColumnsOf(stored, "favorites"))
        BY <1>1, <1>2, <1>3, <3>3, <4>1 DEF Refused
      <4> QED BY <4>1, <4>2, FavoriteColumns DEF Sorted
    <3> QED BY <3>1, <3>2, <3>3
  <2>2. Leaves(t) /\ writer # t
    BY <1>1, <1>3, <2>1 DEF Refused, Raise
  <2>3. Raises(t) /\ Drafted'
    BY <2>1, <2>2, RaisedStays DEF Raises
  <2> QED BY <2>3 DEF InTurn
<1>4. CASE ~Refused(t, s)
  <2>1. PICK e : Puts(t, s, e) /\ Effect(t, s, e)
    BY <1>4 DEF Ordinary
  <2>2. Advances(t, s) /\ GoesOn(t) /\ Hears(t, s) /\ RestSame
    BY <1>4 DEF Ordinary, Advances
  <2>3. ASSUME (HasAccounts' <=> HasAccounts) \/ (pc[t] = 14 /\ HasAccounts')
        PROVE  Goes(t) /\ (s.op \notin Answers => Remembers(t))
    BY <1>0, <2>2, <2>3, GoingOn DEF Hears
  <2>4. ASSUME s.op = "look" PROVE InTurn(t) /\ Drafted'
    <3>1. pc[t] \in {2, 8} /\ s.t = "favorites"
      BY <2>4, FavoritesOps
    <3>2. DatabaseSame
      BY <2>1, <2>4 DEF Puts, Opening
    <3>3. TableSame /\ HeldSame /\ WriterSame /\ (HasAccounts' <=> HasAccounts) /\ Drafted'
      BY <3>2, Untouched
    <3>4. told'[t] = ColumnsOf(stored, "favorites")
      BY <1>1, <1>2, <2>2, <2>4, <3>1 DEF Hears
    <3>5. Asks(t)
      BY <2>3, <3>1, <3>3, <3>4, FavoriteColumns DEF Asks, Knows, Sorted
    <3> QED BY <3>3, <3>5 DEF InTurn
  <2>9. ASSUME s.op = "create", pc[t] = 14 PROVE InTurn(t) /\ Drafted'
    <3>1. s.t = {"users"} /\ s.c = {} /\ writer # t /\ s.op \notin Answers
      BY <1>1, <2>9, FavoritesOps DEF Answers
    <3>2. CASE Alter(t, e)
      <4>1. /\ stored' = e /\ draft = stored /\ draft' = e /\ WriterSame /\ Drafted'
        BY <3>1, <3>2, AtOnce
      <4>2. e.tables = stored.tables \cup {"users"} /\ e.cols = stored.cols
        BY <1>2, <2>1, <2>9, <3>1 DEF Effect
      <4>3. TableSame /\ HeldSame /\ HasAccounts'
        BY <4>1, <4>2, NamesApart
        DEF TableSame, HeldSame, Held, HeldYet, HasAccounts, Fav, HasUser, HasOrder
      <4>4. Passes(t)
        BY <2>3, <2>9, <3>1, <4>1, <4>3 DEF Passes
      <4> QED BY <4>1, <4>4 DEF InTurn
    <3>3. CASE DatabaseSame
      <4>1. TableSame /\ HeldSame /\ WriterSame /\ (HasAccounts' <=> HasAccounts) /\ Drafted'
        BY <3>3, Untouched
      <4>2. Passes(t)
        BY <2>3, <2>9, <3>1, <4>1 DEF Passes
      <4> QED BY <4>1, <4>2 DEF InTurn
    <3> QED BY <2>1, <2>9, <3>2, <3>3 DEF Puts, Opening
  <2>5. ASSUME s.op = "create", pc[t] # 14 PROVE InTurn(t) /\ Drafted'
    <3>1. pc[t] = 1 /\ s.t = {"favorites"} /\ s.c = {"user_id"}
      BY <2>5, FavoritesOps
    <3>2. writer # t /\ s.op \notin Answers
      BY <1>1, <2>5, <3>1 DEF Answers
    <3>3. CASE Alter(t, e)
      <4>1. /\ stored' = e /\ draft = stored /\ draft' = e /\ WriterSame /\ Drafted'
        BY <3>2, <3>3, AtOnce
      <4>2. /\ e.tables = stored.tables \cup {"favorites"}
            /\ e.cols = stored.cols \cup (({"favorites"} \ stored.tables) \X {"user_id"})
        BY <1>2, <2>1, <2>5, <3>1, <3>2 DEF Effect
      <4>3. HeldSame /\ (HasAccounts' <=> HasAccounts) /\ Fav'
        BY <4>1, <4>2, NamesApart DEF HeldSame, Held, HeldYet, HasAccounts, Fav
      <4>4. CASE Fav
        <5>1. e.cols = stored.cols
          BY <4>2, <4>4 DEF Fav
        <5>2. TableSame
          BY <4>1, <4>3, <4>4, <5>1 DEF TableSame, HasUser, HasOrder
        <5>3. Passes(t)
          BY <2>3, <3>1, <3>2, <4>1, <4>3, <4>4, <5>2 DEF Passes
        <5> QED BY <4>1, <5>3 DEF InTurn
      <4>5. CASE ~Fav
        <5>1. HasUser' /\ (HasOrder' <=> HasOrder)
          BY <4>1, <4>2, <4>5, NamesApart DEF Fav, HasUser, HasOrder
        <5>2. Makes(t)
          BY <2>3, <3>1, <3>2, <4>1, <4>3, <4>5, <5>1 DEF Makes
        <5> QED BY <4>1, <5>2 DEF InTurn
      <4> QED BY <4>4, <4>5
    <3>4. CASE DatabaseSame /\ e = View(t)
      <4>1. TableSame /\ HeldSame /\ WriterSame /\ (HasAccounts' <=> HasAccounts) /\ Drafted'
        BY <3>4, Untouched
      <4>2. Fav
        BY <1>2, <2>1, <2>5, <3>1, <3>2, <3>4 DEF Effect, Fav
      <4>3. Passes(t)
        BY <2>3, <3>1, <3>2, <4>1, <4>2 DEF Passes
      <4> QED BY <4>1, <4>3 DEF InTurn
    <3> QED BY <2>1, <2>5, <3>3, <3>4 DEF Puts, Opening
  <2>6. ASSUME s.op = "add" PROVE InTurn(t) /\ Drafted'
    <3>1. pc[t] = 9 /\ s.t = "favorites" /\ s.g = "sort_order" /\ s.c = "sort_order"
      BY <2>6, FavoritesOps, OrderAdded
    <3>2. writer # t /\ s.op \notin Answers
      BY <1>1, <2>6, <3>1 DEF Answers
    <3>3. /\ e.tables = stored.tables
          /\ \/ Sorted(t) /\ e.cols = stored.cols
             \/ ~Sorted(t) /\ Fav /\ ~HasOrder /\ e.cols = stored.cols \cup {<<"favorites", "sort_order">>}
      BY <1>2, <2>1, <2>6, <3>1, <3>2 DEF Effect, Sorted, Fav, HasOrder, HasColumn
    <3>4. CASE Alter(t, e)
      <4>1. /\ stored' = e /\ draft = stored /\ draft' = e /\ WriterSame /\ Drafted'
        BY <3>2, <3>4, AtOnce
      <4>2. HeldSame /\ (HasAccounts' <=> HasAccounts) /\ (Fav' <=> Fav)
        BY <3>3, <4>1 DEF HeldSame, Held, HeldYet, HasAccounts, Fav
      <4>3. CASE Sorted(t)
        <5>1. TableSame
          BY <3>3, <4>1, <4>2, <4>3 DEF TableSame, HasUser, HasOrder
        <5>2. Passes(t)
          BY <2>3, <3>1, <3>2, <4>1, <4>2, <4>3, <5>1 DEF Passes
        <5> QED BY <4>1, <5>2 DEF InTurn
      <4>4. CASE ~Sorted(t)
        <5>1. ~HasOrder /\ HasOrder' /\ (HasUser' <=> HasUser)
          BY <3>3, <4>1, <4>4, NamesApart DEF HasUser, HasOrder
        <5>2. Orders(t)
          BY <2>3, <3>1, <3>2, <3>3, <4>1, <4>2, <4>4, <5>1 DEF Orders
        <5> QED BY <4>1, <5>2 DEF InTurn
      <4> QED BY <4>3, <4>4
    <3>5. CASE DatabaseSame /\ e = View(t)
      <4>1. TableSame /\ HeldSame /\ WriterSame /\ (HasAccounts' <=> HasAccounts) /\ Drafted'
        BY <3>5, Untouched
      <4>2. Sorted(t)
        BY <1>2, <3>2, <3>3, <3>5 DEF HasOrder
      <4>3. Passes(t)
        BY <2>3, <3>1, <3>2, <4>1, <4>2 DEF Passes
      <4> QED BY <4>1, <4>3 DEF InTurn
    <3> QED BY <2>1, <2>6, <3>4, <3>5 DEF Puts, Opening
  <2>7. ASSUME s.op \in {"fill", "touch", "legacy"} PROVE InTurn(t) /\ Drafted'
    <3>1. pc[t] \in {10, 12, 15} /\ s.op \notin Answers
      BY <2>7, FavoritesOps DEF Answers
    <3>2. e.tables = View(t).tables /\ e.cols = View(t).cols
      BY <2>1, <2>7 DEF Effect
    <3>3. CASE Change(t, e)
      <4>1. /\ TableSame /\ HeldSame /\ (HasAccounts' <=> HasAccounts) /\ Drafted' /\ writer' = t
            /\ \A u \in Threads : writer # u \/ u = t
        BY <3>2, <3>3, Opened
      <4>2. Opens(t)
        BY <2>3, <3>1, <4>1 DEF Opens
      <4> QED BY <4>1, <4>2 DEF InTurn
    <3>4. CASE DatabaseSame
      <4>1. TableSame /\ HeldSame /\ WriterSame /\ (HasAccounts' <=> HasAccounts) /\ Drafted'
        BY <3>4, Untouched
      <4>2. Passes(t)
        BY <2>3, <3>1, <4>1 DEF Passes
      <4> QED BY <4>1, <4>2 DEF InTurn
    <3> QED BY <2>1, <2>7, <3>3, <3>4 DEF Puts
  <2>8. ASSUME s.op = "commit" PROVE InTurn(t) /\ Drafted'
    <3>1. pc[t] \in {7, 11, 13, 16} /\ s.op \notin Answers
      BY <2>8, FavoritesOps DEF Answers
    <3>2. CASE writer = t /\ stored' = draft /\ writer' = Nobody /\ UNCHANGED draft
      <4>1. /\ TableSame /\ (HasAccounts' <=> HasAccounts) /\ Drafted'
            /\ (Held' <=> HeldYet) /\ (HeldYet' <=> HeldYet) /\ \A u \in Threads : writer' # u
        BY <3>2, ThreadNames, NamesApart
        DEF Drafted, TableSame, HasAccounts, Held, HeldYet, Fav, HasUser, HasOrder
      <4>2. Commits(t)
        BY <2>3, <3>1, <3>2, <4>1 DEF Commits
      <4> QED BY <4>1, <4>2 DEF InTurn
    <3>3. CASE DatabaseSame /\ writer # t
      <4>1. TableSame /\ HeldSame /\ WriterSame /\ (HasAccounts' <=> HasAccounts) /\ Drafted'
        BY <3>3, Untouched
      <4>2. Passes(t)
        BY <2>3, <3>1, <3>3, <4>1 DEF Passes
      <4> QED BY <4>1, <4>2 DEF InTurn
    <3> QED BY <2>1, <2>8, <3>2, <3>3 DEF Puts, Opening
  <2> QED BY <1>0, <2>4, <2>5, <2>6, <2>7, <2>8, <2>9 DEF Elsewise
<1> QED BY <1>3, <1>4

LEMMA FavoritesStatement ==
    ASSUME KeptInv, NEW t \in Threads, Statement(t)
    PROVE  \E s \in Now(t) : \/ MoveFavorites(t, s)
                             \/ /\ Ordinary(t, s)
                                /\ s.op \notin {"rename", "recreate", "copy", "drop"}
<1>1. PICK s \in Now(t) :
       \/ CreateTables(t, s) \/ TableInfo(t, s) \/ AddColumn(t, s) \/ TryColumn(t, s)
       \/ Backfill(t, s) \/ MoveFavorites(t, s) \/ MoveLogin(t, s) \/ LookFlag(t, s)
       \/ MigrateRoles(t, s) \/ LookRow(t, s) \/ Seed(t, s) \/ Touch(t, s) \/ Commit(t, s)
  BY DEF Statement
<1>2. CASE s.op \in {"rename", "recreate", "copy", "drop"}
  <2>1. MoveFavorites(t, s)
    BY <1>1, <1>2 DEF CreateTables, TableInfo, AddColumn, TryColumn, Backfill, MoveLogin,
       LookFlag, MigrateRoles, LookRow, Seed, Touch, Commit
  <2> QED BY <2>1
<1>3. CASE s.op \notin {"rename", "recreate", "copy", "drop"}
  <2>1. PICK u \in Now(t) : Ordinary(t, u) \/ MoveFavorites(t, u)
    BY OrdinaryStatement
  <2>2. u = s
    BY <1>1, <2>1 DEF Now
  <2> QED BY <1>3, <2>1, <2>2
<1> QED BY <1>2, <1>3

LEMMA FavoritesTurn ==
    ASSUME KeptInv, AllPaired, Drafted, OneMoves, chapter = "favorites", NEW t \in Threads,
           Statement(t)
    PROVE  InTurn(t) /\ Drafted'
<1>1. PICK s \in Now(t) : \/ MoveFavorites(t, s)
                          \/ /\ Ordinary(t, s)
                             /\ s.op \notin {"rename", "recreate", "copy", "drop"}
  BY FavoritesStatement
<1>2. CASE MoveFavorites(t, s)
  BY <1>2, MovesTurn
<1>3. CASE Ordinary(t, s) /\ s.op \notin {"rename", "recreate", "copy", "drop"}
  BY <1>3, OthersTurn
<1> QED BY <1>1, <1>2, <1>3

LEMMA FavoritesCounted == ASSUME KeptInv, chapter = "favorites" PROVE Counted /\ Len(Script) = 16
<1>1. Len(Script) = 16
  BY InFavorites, FavoritesLines
<1>2. \A t \in Threads : pc[t] \in Nat /\ pc[t] <= Len(Script) + 1
  BY DEF KeptInv, DatabaseShape, SchemaTypeOK
<1> QED BY <1>1, <1>2 DEF Counted

LEMMA FavoritedTurn ==
    ASSUME KeptInv, chapter = "favorites", Favorited, NEW t \in Threads, InTurn(t), Drafted'
    PROVE  Favorited'
BY FavoritesCounted, OneMovesKept, WithUsersKept, WithOrderKept DEF Favorited

LEMMA BeginsTurn ==
    ASSUME KeptInv, Drafted, NEW t \in Threads, Call(t) PROVE InTurn(t) /\ Drafted'
<1>1. DatabaseSame /\ pc[t] = 0 /\ ready' = ready
  BY DEF Call, MayCall
<1>2. TableSame /\ HeldSame /\ WriterSame /\ (HasAccounts' <=> HasAccounts) /\ Drafted'
  BY <1>1, Untouched
<1>3. /\ pc'[t] \in {0, 1} /\ \A u \in Threads \ {t} : pc'[u] = pc[u] /\ told'[u] = told[u]
  BY <1>1 DEF Call, GoesOn, Learns, KeptInv, DatabaseShape, SchemaTypeOK
<1>4. Begins(t)
  BY <1>1, <1>2, <1>3 DEF Begins, OthersStay, Knows, Sorted
<1> QED BY <1>2, <1>4 DEF InTurn

LEMMA EndsTurn ==
    ASSUME KeptInv, Drafted, chapter = "favorites", NEW t \in Threads, Finish(t)
    PROVE  InTurn(t) /\ Drafted'
<1>1. DatabaseSame /\ pc[t] = 17 /\ ready'
  <2>1. Len(Script) = 16
    BY FavoritesCounted
  <2> QED BY <2>1 DEF Finish
<1>2. TableSame /\ HeldSame /\ WriterSame /\ (HasAccounts' <=> HasAccounts) /\ Drafted'
  BY <1>1, Untouched
<1>3. /\ pc'[t] = 0 /\ \A u \in Threads \ {t} : pc'[u] = pc[u] /\ told'[u] = told[u]
  BY <1>1 DEF Finish, Learns, KeptInv, DatabaseShape, SchemaTypeOK
<1>4. Ends(t)
  BY <1>1, <1>2, <1>3 DEF Ends, OthersStay, Knows, Sorted
<1> QED BY <1>2, <1>4 DEF InTurn

LEMMA NothingTurns ==
    ASSUME Favorited, UNCHANGED <<stored, draft, writer, pc, told, ready>> PROVE Favorited'
BY DEF Favorited, Drafted, OneMoves, WithUsers, WithOrder, Moving, Early, Comes, Past, Somebody,
       Fav, HasUser, HasOrder, HasAccounts, Held, HeldYet, Knows, Sorted

LEMMA FavoritedKept ==
    ASSUME KeptInv, AllPaired, chapter = "favorites", Favorited, [SchemaNext]_schemaVars,
           cuts' = 0
    PROVE  Favorited'
<1>1. ~RestartService /\ \A t \in Threads : ~StatementFails(t)
  BY NoCut
<1>2. Drafted /\ OneMoves
  BY DEF Favorited
<1>3. \A t \in Threads : Step(t) => InTurn(t) /\ Drafted'
  BY <1>2, FavoritesTurn, BeginsTurn, EndsTurn DEF Step
<1>4. \A t \in Threads : ~GiveRole(t) /\ ~SavePath(t)
  BY DEF GiveRole, SavePath
<1>5. Unopened(Main) \/ UNCHANGED schemaVars => UNCHANGED <<stored, draft, writer, pc, told, ready>>
  BY DEF Unopened, DatabaseSame, schemaVars
<1> QED BY <1>1, <1>3, <1>4, <1>5, FavoritedTurn, NothingTurns DEF SchemaNext

LEMMA NothingHeld == V1 \notin TablesOf("favorites")
<1>1. Chapter("favorites") = Favorites /\ DOMAIN Favorites = 1..16
  BY DEF Chapter, Favorites
<1>2. \A j \in 1..16 : Favorites[j].op = "create" => j = 1 \/ j = 14
  BY FavoritesOpAt, FavoritesLines
<1>3. Favorites[1].t = {"favorites"} /\ Favorites[14].t = {"users"}
  BY FavoritesLines, TheFields
<1> QED BY <1>1, <1>2, <1>3, NamesApart DEF TablesOf

LEMMA FavoritedFirst == ASSUME SchemaInit, chapter = "favorites" PROVE Favorited
<1>1. /\ Fresh.cols = {} /\ SingleLogin(chapter).cols = {} /\ TwoRoles(chapter).cols = {}
  BY DEF Fresh, SingleLogin, TwoRoles
<1>2. /\ stored.cols = {} /\ draft = stored /\ writer = Nobody /\ ~ready
      /\ \A t \in Threads : pc[t] = 0
  BY <1>1 DEF SchemaInit
<1>3. ~HasUser /\ ~HasOrder /\ (Held <=> HeldYet) /\ Drafted
  BY <1>2 DEF HasUser, HasOrder, Held, HeldYet, Drafted
<1>4. ~Held
  <2>1. /\ V1 \notin Fresh.tables /\ V1 \notin SingleLogin("favorites").tables
        /\ V1 \notin TwoRoles("favorites").tables
    BY NothingHeld, NamesApart DEF Fresh, SingleLogin, TwoRoles
  <2> QED BY <2>1 DEF SchemaInit, Held
<1> QED BY <1>2, <1>3, <1>4, ThreadNames
        DEF Favorited, OneMoves, WithUsers, WithOrder, Moving, Early, Comes, Past, Somebody

(***************************************************************************)
(* The rows of older favorites.                                            *)
(***************************************************************************)
LEMMA FillsRows ==
    ASSUME KeptInv, OneMoves, Drafted, stored.filled \subseteq draft.filled,
           chapter = "favorites", NEW t \in Threads, NEW s \in Now(t), Ordinary(t, s),
           s.op \notin {"rename", "recreate", "copy", "drop"}, pc'[t] = pc[t] + 1
    PROVE  /\ pc[t] = 10 => Sorted(t) \/ Full' \/ (writer' = t /\ FullYet')
           /\ pc[t] = 11 /\ writer = t /\ FullYet => Full'
<1>1. pc[t] \in Nat /\ ~Raise(t)
  <2>1. Raise(t) => pc'[t] = 0
    BY DEF Raise, Leaves, KeptInv, DatabaseShape, SchemaTypeOK
  <2>2. pc[t] \in Nat
    BY DEF KeptInv, DatabaseShape, SchemaTypeOK
  <2> QED BY <2>1, <2>2
<1>2. PICK e : Puts(t, s, e) /\ Effect(t, s, e)
  BY <1>1 DEF Ordinary, Refused
<1>3. ASSUME pc[t] = 10, ~Sorted(t) PROVE Full' \/ (writer' = t /\ FullYet')
  <2>1. s.op = "fill" /\ s.t = "favorites" /\ s.g = "sort_order" /\ writer # t
    BY <1>3, FavoritesOps DEF OneMoves
  <2>2. "favorites" \in e.filled
    BY <1>2, <1>3, <2>1 DEF Effect, Sorted
  <2>3. CASE DatabaseSame /\ e = View(t)
    BY <2>1, <2>2, <2>3 DEF View, DatabaseSame, Full, Filled
  <2>4. CASE Change(t, e)
    BY <2>2, <2>4 DEF Change, FullYet, Filled
  <2> QED BY <1>2, <2>1, <2>3, <2>4 DEF Puts
<1>4. ASSUME pc[t] = 11, writer = t, FullYet PROVE Full'
  <2>1. s.op = "commit"
    BY <1>4, FavoritesOps
  <2>2. stored' = draft
    BY <1>2, <1>4, <2>1 DEF Puts, Opening
  <2> QED BY <1>4, <2>2 DEF Full, FullYet, Filled
<1> QED BY <1>3, <1>4

LEMMA MainTurn ==
    ASSUME OneMoves, MainOfFavorites, Main \in Threads, InTurn(Main), Full => Full',
           pc[Main] = 10 /\ pc'[Main] = 11 => Sorted(Main) \/ Full' \/ (writer' = Main /\ FullYet'),
           pc[Main] = 11 /\ pc'[Main] = 12 => (writer = Main /\ FullYet => Full'),
           pc[Main] > 0
    PROVE  MainOfFavorites'
<1> USE DEF MainOfFavorites, OneMoves, Goes, Remembers, TableSame
<1>1. CASE Passes(Main)
  BY <1>1 DEF Passes
<1>2. CASE Asks(Main)
  BY <1>2 DEF Asks
<1>3. CASE Makes(Main)
  BY <1>3 DEF Makes
<1>4. CASE SetsAside(Main)
  BY <1>4 DEF SetsAside
<1>5. CASE Opens(Main)
  BY <1>5 DEF Opens
<1>6. CASE Drops(Main)
  BY <1>6 DEF Drops
<1>7. CASE Commits(Main)
  BY <1>7 DEF Commits
<1>8. CASE Orders(Main)
  BY <1>8 DEF Orders
<1>9. CASE Raises(Main)
  BY <1>9 DEF Raises
<1>10. CASE Begins(Main)
  BY <1>10 DEF Begins
<1>11. CASE Ends(Main)
  BY <1>11 DEF Ends
<1> QED BY <1>1, <1>2, <1>3, <1>4, <1>5, <1>6, <1>7, <1>8, <1>9, <1>10, <1>11 DEF InTurn

LEMMA MainOfFavoritesKept ==
    ASSUME BackgroundInv, chapter = "favorites", Favorited, Starting => MainOfFavorites,
           [SchemaNext]_schemaVars, cuts' = 0, Starting'
    PROVE  MainOfFavorites'
<1>1. /\ KeptInv /\ AllPaired /\ Alone /\ stored.filled \subseteq draft.filled /\ Main \in Threads
      /\ Drafted /\ OneMoves
  BY ThreadNames DEF BackgroundInv, GrowInv, Favorited
<1>2. /\ Starting /\ MainOfFavorites
      /\ \/ Statement(Main)
         \/ DatabaseSame /\ pc[Main] = 0 /\ pc'[Main] \in {0, 1}
         \/ DatabaseSame /\ pc' = pc /\ told' = told
  BY <1>1, StartingStep DEF GiveRole, SavePath
<1>3. stored.filled \subseteq stored'.filled /\ (Full => Full')
  BY <1>1, FilledKept DEF Full, Filled
<1>4. CASE DatabaseSame /\ ((pc' = pc /\ told' = told) \/ (pc[Main] = 0 /\ pc'[Main] \in {0, 1}))
  BY <1>2, <1>4 DEF DatabaseSame, MainOfFavorites, HasOrder, Full, FullYet, Filled, Sorted
<1>5. CASE Statement(Main)
  <2>1. InTurn(Main)
    BY <1>1, <1>5, FavoritesTurn
  <2>2. PICK s \in Now(Main) : \/ MoveFavorites(Main, s)
                               \/ /\ Ordinary(Main, s)
                                  /\ s.op \notin {"rename", "recreate", "copy", "drop"}
    BY <1>1, <1>5, FavoritesStatement
  <2>3. pc[Main] \in 1..16
    BY <1>1, <2>2, FavoritesPlace
  <2>4. CASE MoveFavorites(Main, s)
    <3>1. pc[Main] \in 3..6
      BY <1>1, <2>2, <2>4, MovesPlace DEF MoveFavorites
    <3> QED BY <1>1, <1>2, <1>3, <2>1, <2>3, <3>1, MainTurn
  <2>5. CASE Ordinary(Main, s) /\ s.op \notin {"rename", "recreate", "copy", "drop"}
    <3>1. pc'[Main] = pc[Main] + 1
          => /\ pc[Main] = 10 => Sorted(Main) \/ Full' \/ (writer' = Main /\ FullYet')
             /\ pc[Main] = 11 /\ writer = Main /\ FullYet => Full'
      BY <1>1, <2>2, <2>5, FillsRows
    <3> QED BY <1>1, <1>2, <1>3, <2>1, <2>3, <3>1, MainTurn
  <2> QED BY <2>2, <2>4, <2>5
<1> QED BY <1>2, <1>4, <1>5

LEMMA NextFavorites ==
    ASSUME BackgroundInv, FavoritesInv, [SchemaNext]_schemaVars PROVE FavoritesInv'
<1>1. KeptInv /\ AllPaired
  BY DEF BackgroundInv, GrowInv
<1>2. chapter' = chapter
  BY <1>1, SameChapter
<1>3. ASSUME chapter = "favorites", cuts' = 0 PROVE Favorited'
  <2>1. cuts = 0
    BY <1>1, <1>3, NoCut
  <2> QED BY <1>1, <1>3, <2>1, FavoritedKept DEF FavoritesInv
<1>4. ASSUME chapter = "favorites", cuts' = 0, Starting' PROVE MainOfFavorites'
  <2>1. cuts = 0
    BY <1>1, <1>4, NoCut
  <2> QED BY <1>4, <2>1, MainOfFavoritesKept DEF FavoritesInv
<1>5. ASSUME chapter = "favorites" PROVE FilledByMain("favorites")'
  <2>1. ASSUME cuts = 0, Finish(Main) PROVE Filled(stored, "favorites")
    <3>1. pc[Main] = 17
      <4>1. Len(Script) = 16
        BY <1>1, <1>5, FavoritesCounted
      <4> QED BY <2>1, <4>1 DEF Finish
    <3>2. Starting
      <4>1. tries < StartupCalls
        BY <1>1, <3>1 DEF KeptInv, DatabaseShape
      <4>2. ~conn[Main]
        BY <3>1, ThreadNames DEF BackgroundInv, Alone
      <4> QED BY <4>1, <4>2 DEF Starting
    <3> QED BY <1>5, <2>1, <3>1, <3>2 DEF FavoritesInv, MainOfFavorites, Full
  <2>2. Alone /\ stored.filled \subseteq draft.filled /\ FilledByMain("favorites")
    BY <1>5 DEF BackgroundInv, FavoritesInv
  <2> QED BY <1>1, <2>1, <2>2, FilledByMainKept
<1> QED BY <1>2, <1>3, <1>4, <1>5 DEF FavoritesInv

LEMMA FirstFavorites == ASSUME SchemaInit PROVE FavoritesInv
<1>1. /\ Fresh.cols = {} /\ SingleLogin(chapter).cols = {} /\ TwoRoles(chapter).cols = {}
  BY DEF Fresh, SingleLogin, TwoRoles
<1>2. stored.cols = {} /\ \A t \in Threads : pc[t] = 0 /\ ~conn[t]
  BY <1>1 DEF SchemaInit
<1>3. MainOfFavorites /\ FilledByMain("favorites")
  BY <1>2, ThreadNames DEF MainOfFavorites, HasOrder, FilledByMain
<1> QED BY <1>3, FavoritedFirst DEF FavoritesInv

LEMMA WholeFavorites ==
    ASSUME KeptInv, FavoritesInv, chapter = "favorites" PROVE SchemaWhole
<1>1. SchemaTypeOK /\ Script = Favorites /\ Len(Favorites) = 16
  BY InFavorites, FavoritesLines DEF KeptInv, DatabaseShape
<1>2. /\ Favorites[9].t = "favorites" /\ Favorites[9].c = "sort_order"
      /\ Favorites[10].t = "favorites"
  BY FavoritesLines, TheFields
<1>3. ASSUME ready, Quiet, cuts = 0 PROVE HasOrder
  <2>1. Somebody => HasOrder \/ \E t \in Threads : Comes(t)
    BY <1>3 DEF FavoritesInv, Favorited, WithOrder
  <2> QED BY <1>3, <2>1 DEF Somebody, Comes, Quiet
<1>4. cuts = 0 /\ conn[Main] => "favorites" \in stored.filled
  BY DEF FavoritesInv, FilledByMain, Filled
<1> SUFFICES ASSUME ready, Quiet, NEW i \in 1..16
             PROVE  /\ Own(Favorites[i]) /\ Favorites[i].t # "favorites" => Has(stored, i)
                    /\ Favorites[i].op \in {"add", "try"} /\ cuts = 0 => Has(stored, i)
                    /\ Favorites[i].op = "fill" /\ cuts = 0 /\ conn[Main]
                       => Favorites[i].t \in stored.filled
  BY <1>1 DEF SchemaWhole, Own, Has
<1>5. CASE i = 9
  BY <1>1, FavoritesOpAt, <1>2, <1>3, <1>5 DEF Has, HasColumn, HasOrder
<1>6. CASE i = 10
  BY FavoritesOpAt, <1>2, <1>4, <1>6 DEF Own
<1>7. CASE i \notin {9, 10}
  <2>1. Favorites[i].op \notin {"add", "try", "fill"}
    BY FavoritesOpAt, <1>7, FavoritesLines
  <2> QED BY <2>1 DEF Own
<1> QED BY <1>5, <1>6, <1>7

(***************************************************************************)
(* When a caller has reached the end and none is under way, every column   *)
(* with a test of its own is there whatever failed before, the favorites   *)
(* aside, whose table is itself replaced; and if nothing was cut short     *)
(* every other column is too, theirs with them, though callers raced at a  *)
(* cold start, and the older rows are filled if the main thread's first    *)
(* call did it.                                                            *)
(***************************************************************************)
WholeInv == BackgroundInv /\ AlertsInv /\ BridgesInv /\ FavoritesInv

LEMMA InitWhole == SchemaInit => WholeInv
BY FirstBackground, FirstFavorites DEF WholeInv

LEMMA NextWhole == WholeInv /\ [SchemaNext]_schemaVars => WholeInv'
BY NextBackground, NextAlerts, NextBridges, NextFavorites DEF WholeInv

LEMMA WholeWhole == WholeInv => SchemaWhole
BY WholeOrdinary, WholeFavorites DEF WholeInv, BackgroundInv, GrowInv

THEOREM SchemaAlwaysWhole == SchemaSpec => []SchemaWhole
BY InitWhole, NextWhole, WholeWhole, PTL DEF SchemaSpec
=============================================================================
