------------------------------ MODULE ConfFile ------------------------------
(***************************************************************************)
(* How app.py keeps rpt.conf as a file: read_conf_file with its cache by   *)
(* modification time, write_conf_file with its backup named after the      *)
(* second, the pruning of old backups and the rename of a temporary file,  *)
(* and the requests that use them, side by side and without a lock.  A     *)
(* text is a number; the clock of modification times never repeats one.    *)
(***************************************************************************)
EXTENDS Naturals, FiniteSetsExt

CONSTANTS Requests,             \* requests at work at one time
          Keep,                 \* MAX_BACKUPS
          Seconds,              \* 1..Seconds: the seconds backups are named after
          MaxWrites, MaxFaults  \* bounds: texts written, restarts and failed reads and writes

ASSUME ConfAssumption == Seconds \in Nat \ {0} /\ MaxWrites \in Nat

VARIABLES file,    \* [mtime, text] of rpt.conf
          cache,   \* [mtime, text] of _conf_file_cache
          req,     \* request -> [at, why, mtime, text, doomed]
          backup,  \* second -> the text of the backup named after it, 0 for none
          second,
          times,   \* modification times given
          writes,  \* texts saved, that of the first file among them
          faults,
          seen     \* request -> texts the file has had since it began to read

vars == <<file, cache, req, backup, second, times, writes, faults, seen>>

Texts == 0..MaxWrites + 1
Idle == [at |-> "idle", why |-> "get", mtime |-> 0, text |-> 0, doomed |-> {}]
Names == {n \in 1..Seconds : backup[n] # 0}

Init == /\ file = [mtime |-> 1, text |-> 1] /\ cache = [mtime |-> 0, text |-> 0]
        /\ req = [r \in Requests |-> Idle] /\ backup = [n \in 1..Seconds |-> 0]
        /\ second = 1 /\ times = 1 /\ writes = 1 /\ faults = 0
        /\ seen = [r \in Requests |-> {}]

Goes(r, where) == req' = [req EXCEPT ![r].at = where]

----------------------------------------------------------------------------
(* read_conf_file, for a page or at the start of api_save.                 *)

Stat(r, why) ==
    /\ req[r].at = "idle"
    /\ req' = [req EXCEPT ![r] = [Idle EXCEPT !.at = "lookup", !.why = why, !.mtime = file.mtime]]
    /\ seen' = [seen EXCEPT ![r] = {file.text}]
    /\ UNCHANGED <<file, cache, backup, second, times, writes, faults>>
Hit(r) == /\ req[r].at = "lookup" /\ cache.mtime = req[r].mtime
          /\ req' = [req EXCEPT ![r] = [@ EXCEPT !.at = "read", !.text = cache.text]]
          /\ UNCHANGED <<file, cache, backup, second, times, writes, faults, seen>>
Open(r) == /\ req[r].at = "lookup" /\ cache.mtime # req[r].mtime
           /\ req' = [req EXCEPT ![r] = [@ EXCEPT !.at = "store", !.text = file.text]]
           /\ UNCHANGED <<file, cache, backup, second, times, writes, faults, seen>>
\* Mutant: the text is stored with the time the file has by now
StoreLate(r) == /\ req[r].at = "store"
                /\ cache' = [mtime |-> file.mtime, text |-> req[r].text] /\ Goes(r, "read")
                /\ UNCHANGED <<file, backup, second, times, writes, faults, seen>>
Store(r) == /\ req[r].at = "store"
            /\ cache' = [mtime |-> req[r].mtime, text |-> req[r].text] /\ Goes(r, "read")
            /\ UNCHANGED <<file, backup, second, times, writes, faults, seen>>
\* no modification time is to be had: the file is read past the cache
StatFails(r) == /\ req[r].at = "lookup" /\ faults < MaxFaults /\ faults' = faults + 1
                /\ req' = [req EXCEPT ![r] = [@ EXCEPT !.at = "read", !.text = file.text]]
                /\ UNCHANGED <<file, cache, backup, second, times, writes, seen>>
\* the file cannot be opened, read or decoded: there is no text, and no cache entry
OpenFails(r) == /\ req[r].at = "lookup"
                /\ faults < MaxFaults /\ faults' = faults + 1
                /\ req' = [req EXCEPT ![r] = [Idle EXCEPT !.at = "failed", !.why = req[r].why]]
                /\ seen' = [seen EXCEPT ![r] = {}]
                /\ UNCHANGED <<file, cache, backup, second, times, writes>>
\* the page or an error is answered, or the values to save are refused
Answer(r) == /\ req[r].at \in {"read", "failed"} /\ req' = [req EXCEPT ![r] = Idle]
             /\ seen' = [seen EXCEPT ![r] = {}]
             /\ UNCHANGED <<file, cache, backup, second, times, writes, faults>>
\* api_save: settings are changed in the text read, in the empty text when the
\* read failed, or the one sent replaces it
Edit(r) == /\ req[r].at \in {"read", "failed"} /\ req[r].why = "save" /\ writes <= MaxWrites
           /\ writes' = writes + 1
           /\ req' = [req EXCEPT ![r] = [@ EXCEPT !.at = "backup", !.text = writes + 1]]
           /\ seen' = [seen EXCEPT ![r] = {}]
           /\ UNCHANGED <<file, cache, backup, second, times, faults>>
\* api_backup_restore
Restore(r) == /\ req[r].at = "idle" /\ writes <= MaxWrites /\ writes' = writes + 1
              /\ \E n \in Names : req' = [req EXCEPT ![r] = [Idle EXCEPT !.at = "backup",
                                                                         !.text = backup[n]]]
              /\ UNCHANGED <<file, cache, backup, second, times, faults, seen>>
DeleteBackup(n) == /\ n \in Names /\ backup' = [backup EXCEPT ![n] = 0]
                   /\ UNCHANGED <<file, cache, req, second, times, writes, faults, seen>>

----------------------------------------------------------------------------
(* write_conf_file.                                                        *)

\* a second backup of the same second replaces the first
Backup(r) == /\ req[r].at = "backup" /\ backup' = [backup EXCEPT ![second] = file.text]
             /\ Goes(r, "list")
             /\ UNCHANGED <<file, cache, second, times, writes, faults, seen>>
Newest(k) == {n \in Names : Cardinality({m \in Names : m > n}) < k}
List(r) == /\ req[r].at = "list"
           /\ req' = [req EXCEPT ![r] = [@ EXCEPT !.at = "prune", !.doomed = Names \ Newest(Keep)]]
           /\ UNCHANGED <<file, cache, backup, second, times, writes, faults, seen>>
\* oldest first; one that another has removed ends the pruning
Unlink(r) == /\ req[r].at = "prune" /\ req[r].doomed # {}
             /\ LET old == Min(req[r].doomed)
                IN IF backup[old] = 0
                   THEN req' = [req EXCEPT ![r].doomed = {}] /\ UNCHANGED backup
                   ELSE /\ backup' = [backup EXCEPT ![old] = 0]
                        /\ req' = [req EXCEPT ![r].doomed = @ \ {old}]
             /\ UNCHANGED <<file, cache, second, times, writes, faults, seen>>
Temp(r) == /\ req[r].at = "prune" /\ req[r].doomed = {}
           /\ times' = times + 1
           /\ req' = [req EXCEPT ![r] = [@ EXCEPT !.at = "rename", !.mtime = times + 1]]
           /\ UNCHANGED <<file, cache, backup, second, writes, faults, seen>>
Rename(r) == /\ req[r].at = "rename"
             /\ file' = [mtime |-> req[r].mtime, text |-> req[r].text]
             /\ seen' = [q \in Requests |-> IF seen[q] = {} THEN {} ELSE seen[q] \cup {req[r].text}]
             /\ req' = [req EXCEPT ![r] = Idle]
             /\ UNCHANGED <<cache, backup, second, times, writes, faults>>
\* the copy, the temporary file or its rename is refused; what was written of it is unlinked
WriteFails(r) == /\ req[r].at \in {"backup", "prune", "rename"} /\ faults < MaxFaults
                 /\ faults' = faults + 1 /\ req' = [req EXCEPT ![r] = Idle]
                 /\ UNCHANGED <<file, cache, backup, second, times, writes, seen>>

Tick == /\ second < Seconds /\ second' = second + 1
        /\ UNCHANGED <<file, cache, req, backup, times, writes, faults, seen>>
\* the service is restarted
Restart == /\ faults < MaxFaults /\ faults' = faults + 1
           /\ req' = [r \in Requests |-> Idle] /\ cache' = [mtime |-> 0, text |-> 0]
           /\ seen' = [r \in Requests |-> {}]
           /\ UNCHANGED <<file, backup, second, times, writes>>

Next == \/ \E r \in Requests : \/ \E why \in {"get", "save"} : Stat(r, why)
                               \/ Hit(r) \/ Open(r) \/ Store(r) \/ StatFails(r)
                               \/ OpenFails(r) \/ Answer(r) \/ Edit(r)
                               \/ Restore(r) \/ Backup(r) \/ List(r) \/ Unlink(r) \/ Temp(r)
                               \/ Rename(r) \/ WriteFails(r)
        \/ (\E n \in 1..Seconds : DeleteBackup(n)) \/ Tick \/ Restart
Spec == Init /\ [][Next]_vars

----------------------------------------------------------------------------
(* Requests, backups and times are in their ranges.                        *)
TypeOK == /\ file \in [mtime : 1..times, text : Texts]
          /\ cache \in [mtime : 0..times, text : Texts]
          /\ \A r \in Requests : /\ req[r].at \in {"idle", "lookup", "store", "read", "failed", "backup",
                                                  "list", "prune", "rename"}
                                 /\ req[r].text \in Texts /\ req[r].doomed \subseteq 1..Seconds
          /\ backup \in [1..Seconds -> Texts] /\ second \in 1..Seconds
          /\ writes \in 1..(MaxWrites + 1)

(* What a request reads is the text the file had at some moment since the  *)
(* request began, although the time of the cache entry was taken before     *)
(* the file was opened and other requests replace file and entry meanwhile. *)
(* A request whose read failed has no text and leaves none in the cache    *)
(* (api_save then goes on all the same, with the empty text).              *)
ReadsAreFresh == \A r \in Requests : req[r].at = "read" => req[r].text \in seen[r]
=============================================================================
