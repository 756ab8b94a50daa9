----------------------------- MODULE ConfLines ------------------------------
(***************************************************************************)
(* How app.py reads and edits rpt.conf: _collect_stanzas and               *)
(* _parse_kv_lines find the settings of a stanza, and                      *)
(* update_setting_in_content, append_node_stanza and                       *)
(* ensure_loopback_nodes_entry change the text.  A line is a header or a   *)
(* setting, each live or commented out; a comment indented past column 8   *)
(* is documentation.  Lines that are neither change nothing and are left   *)
(* out.                                                                    *)
(***************************************************************************)
EXTENDS Naturals, Sequences, FiniteSetsExt, SequencesExt

CONSTANTS Sections, Keys,
          Nodes,    \* the section [nodes]
          MaxLines  \* a bound: the lines of the first text

VARIABLES conf,   \* the lines of rpt.conf
          edited  \* it has been changed: one change per behaviour

linesVars == <<conf, edited>>

ASSUME LinesAssumption == MaxLines \in Nat

Header(n, m) == [kind |-> "head", name |-> n, value |-> "", mark |-> m]
Set(k, v, m) == [kind |-> "set", name |-> k, value |-> v, mark |-> m]
Lines == {Header(n, m) : n \in Sections, m \in {"live", "off"}}
         \cup {Set(k, v, m) : k \in Keys, v \in {"old", "new"}, m \in {"live", "off", "doc"}}

IsHead(l) == l.kind = "head"

----------------------------------------------------------------------------
(* Reading.                                                                *)

\* the lines from the header at i to the next header, live or commented out
Region(text, i) == {j \in (i + 1)..Len(text) : \A h \in (i + 1)..j : ~IsHead(text[h])}
Heads(text, n) == {i \in DOMAIN text : IsHead(text[i]) /\ text[i].name = n}
\* _collect_stanzas: the last header of that name, a live one before a sample
Chosen(text, n) == LET live == {i \in Heads(text, n) : text[i].mark = "live"}
                   IN IF live # {} THEN {Max(live)}
                      ELSE IF Heads(text, n) # {} THEN {Max(Heads(text, n))} ELSE {}
\* _parse_kv_lines: the last line of a key holds, documentation is passed over
Entries(text, n, k) == {j \in UNION {Region(text, i) : i \in Chosen(text, n)} :
                           text[j].name = k /\ text[j].mark # "doc"}
Settings(text, n) ==
    [k \in {k \in Keys : Entries(text, n, k) # {}} |->
        [value |-> text[Max(Entries(text, n, k))].value,
         mark |-> text[Max(Entries(text, n, k))].mark]]

----------------------------------------------------------------------------
(* Changing.                                                               *)

\* Mutant: a commented header does not end the section before it
LiveHeaderMatch(text, i) == IsHead(text[i]) /\ text[i].mark = "live"
\* _section_header_match
HeaderMatch(text, i) == IsHead(text[i])

\* where the scan of update_setting_in_content is in section n
InSection(text, n) ==
    {j \in DOMAIN text : \E i \in 1..j : /\ HeaderMatch(text, i) /\ text[i].name = n
                                         /\ \A h \in (i + 1)..j : ~HeaderMatch(text, h)}

\* before the header that ends the section's first stretch, or at the end
Stops(text, n) == {j \in InSection(text, n) : j = Len(text) \/ HeaderMatch(text, j + 1)}
Insert(text, n, line) ==
    IF InSection(text, n) = {} THEN text ELSE InsertAt(text, Min(Stops(text, n)) + 1, line)

\* update_setting_in_content: the first line of that key, commented or not, or a new one
Matches(text, n, k) == {j \in InSection(text, n) : text[j].kind = "set" /\ text[j].name = k}
Updated(text, n, k, v, on) ==
    LET line == Set(k, v, IF on THEN "live" ELSE "off")
    IN IF Matches(text, n, k) = {} THEN Insert(text, n, line)
       ELSE [text EXCEPT ![Min(Matches(text, n, k))] = line]

\* append_node_stanza, refused when the stanza exists
Appended(text, n, k) == text \o <<Header(n, "live"), Set(k, "new", "live")>>

\* ensure_loopback_nodes_entry: only live lines are looked at and a commented header is no end
Loopback(text, k) ==
    LET start == Min({i \in Heads(text, Nodes) : text[i].mark = "live"})
        stop == {i \in (start + 1)..Len(text) : IsHead(text[i]) /\ text[i].mark = "live"}
        end == IF stop = {} THEN Len(text) ELSE Min(stop) - 1
        entries == {i \in (start + 1)..end : text[i].mark = "live"}
    IN IF \E i \in entries : text[i].name = k THEN text
       ELSE InsertAt(text, (IF entries = {} THEN start ELSE Max(entries)) + 1,
                     Set(k, "new", "live"))

LinesInit ==
    /\ conf \in UNION {[1..n -> {l \in Lines : l.value # "new"}] : n \in 0..MaxLines}
    /\ edited = FALSE

\* api_save with one changed setting
Save(n, k, on) == /\ ~edited /\ conf' = Updated(conf, n, k, "new", on) /\ edited' = TRUE
AddStanza(n, k) == /\ ~edited /\ \A i \in Heads(conf, n) : conf[i].mark = "off"
                   /\ conf' = Appended(conf, n, k) /\ edited' = TRUE
Link(k) == /\ ~edited /\ \E i \in Heads(conf, Nodes) : conf[i].mark = "live"
           /\ conf' = Loopback(conf, k) /\ edited' = TRUE

LinesNext ==
    \E k \in Keys : \/ \E n \in Sections, on \in BOOLEAN : Save(n, k, on)
                    \/ \E n \in Sections : AddStanza(n, k)
                    \/ Link(k)
LinesSpec == LinesInit /\ [][LinesNext]_linesVars

----------------------------------------------------------------------------
(* Every line is a header or a setting.                                    *)
LinesTypeOK == conf \in Seq(Lines) /\ edited \in BOOLEAN

\* section n stands once in the text, sample or not, and key k once in it
Plain(text, n, k) ==
    /\ \E i \in DOMAIN text : Heads(text, n) = {i}
    /\ \A i, j \in Matches(text, n, k) : i = j
Reads(text, n, k) == IF k \in DOMAIN Settings(text, n) THEN {Settings(text, n)[k]} ELSE {}
ReadsBack(n, k, on) ==
    Reads(conf', n, k) = {[value |-> "new", mark |-> IF on THEN "live" ELSE "off"]}

(* A setting saved into a section is the one read from it afterwards,      *)
(* where the section and the setting stand only once in the text (a line   *)
(* repeated in its section is changed where it stands first and read where *)
(* it stands last); and a change to one section leaves what is read from   *)
(* every other one as it was, the commented-out samples between them       *)
(* included, and what is read of the other settings of its own.            *)
EditIsExact ==
    edited' # edited =>
       \A n \in Sections, k \in Keys :
          /\ \A on \in BOOLEAN : Save(n, k, on) /\ Plain(conf, n, k) => ReadsBack(n, k, on)
          /\ \A m \in Sections, q \in Keys :
                \/ AddStanza(n, k) /\ m # n
                \/ (\E on \in BOOLEAN : Save(n, k, on)) /\ <<m, q>> # <<n, k>>
                => Reads(conf', m, q) = Reads(conf, m, q)
OnlyItChanges == [][EditIsExact]_linesVars
=============================================================================
