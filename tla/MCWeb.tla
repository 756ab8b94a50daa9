------------------------------- MODULE MCWeb -------------------------------
(***************************************************************************)
(* The safety of what the web service keeps between requests: rpt.conf as  *)
(* a file (ConfFile) and as a text (ConfLines), the weather announcements  *)
(* (Announcer), the accounts (Accounts) and the database's own migrations  *)
(* (Schema).  One of them moves in a behaviour.                            *)
(***************************************************************************)
EXTENDS ConfFile, ConfLines, Accounts, Announcer, Schema

CONSTANTS k1, k2, n1, n2, b1, b2

VARIABLE part   \* the part at work in this behaviour; the others stand still

MCInit ==
    /\ part \in {"file", "alerts", "conf", "accounts", "schema"}
    /\ Init
    /\ AlertsInit /\ (part # "alerts" => busy)
    /\ LinesInit /\ (part # "conf" => conf = <<>>)
    /\ AccountsInit /\ (part # "accounts" => opened = 0)
    /\ SchemaInit /\ (part # "schema" => chapter = "kiosk" /\ stored = Fresh)

\* a step of one part
FileDoes(A) == /\ part = "file" /\ A
               /\ UNCHANGED <<part, alertVars, linesVars, accountVars, schemaVars>>
AlertsDoes(A) == /\ part = "alerts" /\ A
                 /\ UNCHANGED <<part, vars, linesVars, accountVars, schemaVars>>
ConfDoes(A) == /\ part = "conf" /\ A
               /\ UNCHANGED <<part, vars, alertVars, accountVars, schemaVars>>
AccountsDoes(A) == /\ part = "accounts" /\ A
                   /\ UNCHANGED <<part, vars, alertVars, linesVars, schemaVars>>
SchemaDoes(A) == /\ part = "schema" /\ A
                 /\ UNCHANGED <<part, vars, alertVars, linesVars, accountVars>>

MCNext == \/ FileDoes(Next)
          \/ AlertsDoes(AlertsNext)
          \/ ConfDoes(LinesNext)
          \/ AccountsDoes(AccountsNext)
          \/ SchemaDoes(SchemaNext)

MCVars == <<part, vars, alertVars, linesVars, accountVars, schemaVars>>
MCSpec == MCInit /\ [][MCNext]_MCVars

=============================================================================
