------------------------------- MODULE Settings -------------------------------
(***************************************************************************)
(* The managed selection file and the plugin catalog behind it: what the   *)
(* console saves (plugin_system/management.py, managed_config.py), and how *)
(* a refresh reads the plugin directories again (discovery.py).  Requests  *)
(* of the console run in worker threads; each reads the file, works on its *)
(* copy and replaces the file as a whole, without a lock.                  *)
(***************************************************************************)
EXTENDS Naturals, Sequences

CONSTANTS Plugins, Requests

VARIABLES
  disk,     \* the plugin files in the configured directories
  file,     \* the selection file, one record
  catalog,  \* the names the service has discovered
  req,      \* request -> [at, kind, todo: loads still to make, draft, dirty]
  told,     \* history: what the operator last saved, by field
  raced     \* history: a write replaced a file that had changed since it was read

vars == <<disk, file, catalog, req, told, raced>>

Fields == {"on", "robot", "screening", "held"}
File == [on : SUBSET Plugins, robot : BOOLEAN, screening : BOOLEAN, held : SUBSET Plugins]
Word == [robot : BOOLEAN, screening : BOOLEAN, held : SUBSET Plugins]
Idle == [at |-> "idle", kind |-> "none", todo |-> <<>>, dirty |-> FALSE,
         draft |-> [on |-> {}, robot |-> FALSE, screening |-> FALSE, held |-> {}]]

Saves == {"select", "run", "screen"}
Works == [at : {"idle", "loading", "writing", "stopping", "discovering", "normalising", "rewriting"},
          kind : Saves \cup {"none"}, todo : Seq(SUBSET Fields), dirty : BOOLEAN, draft : File]

TypeOK ==
  /\ disk \subseteq Plugins /\ catalog \subseteq Plugins /\ file \in File /\ told \in Word
  /\ req \in [Requests -> Works] /\ raced \in BOOLEAN

Init ==
  /\ disk \in SUBSET Plugins /\ catalog = disk
  /\ file \in {f \in File : f.on \subseteq disk /\ f.held \subseteq disk}
  /\ req = [r \in Requests |-> Idle] /\ told = [f \in Fields \ {"on"} |-> file[f]] /\ raced = FALSE

(* The loads of the file a save makes before it writes, and the fields each is for. *)
SelectForgetsPauses == <<{"robot"}, {"screening"}>>     \* a mistake: one field is not carried over
SelectLoads == <<{"robot"}, {"screening"}, {"held"}>>
Loads(kind) == CASE kind = "select" -> SelectLoads
                 [] kind = "run"    -> <<{"on", "screening"}>>
                 [] kind = "screen" -> <<{"on", "robot", "held"}>>

Begin(r, kind, draft) ==
  /\ req[r].at = "idle"
  /\ req' = [req EXCEPT ![r] = [Idle EXCEPT !.at = "loading", !.kind = kind, !.todo = Loads(kind),
                                            !.draft = draft]]
  /\ UNCHANGED <<disk, file, catalog, told, raced>>

(* Names that are not discovered are refused before anything is read. *)
SaveEnabled(r, on) ==
  on \subseteq catalog /\ Begin(r, "select", [Idle.draft EXCEPT !.on = on])
SaveRuntimeControl(r, robot, held) ==
  held \subseteq catalog /\ Begin(r, "run", [Idle.draft EXCEPT !.robot = robot, !.held = held])
SaveScreeningControl(r, b) == Begin(r, "screen", [Idle.draft EXCEPT !.screening = b])

Load(r) ==
  /\ req[r].at = "loading"
  /\ IF req[r].todo = <<>> THEN req' = [req EXCEPT ![r].at = "writing"]
     ELSE req' = [req EXCEPT ![r].todo = Tail(@),
            ![r].draft = [f \in Fields |-> IF f \in Head(req[r].todo) THEN file[f] ELSE @[f]]]
  /\ UNCHANGED <<disk, file, catalog, told, raced>>

(* A write by r makes the copies of all others out of date. *)
Written(r, after) ==
  [q \in Requests |-> IF q = r THEN after
                      ELSE [req[q] EXCEPT !.dirty = @ \/ req[q].at \in {"loading", "writing", "rewriting"}]]

(* The operator's word, field by field; enabling a plugin anew is a word about its pause too. *)
Said(r) ==
  LET d == req[r].draft IN
  CASE req[r].kind = "select" -> [told EXCEPT !.held = @ \ (d.on \ file.on)]
    [] req[r].kind = "run"    -> [told EXCEPT !.robot = d.robot, !.held = d.held]
    [] req[r].kind = "screen" -> [told EXCEPT !.screening = d.screening]

Write(r) ==                             \* save_managed_config; a new selection is followed by refresh
  /\ req[r].at = "writing"
  /\ file' = req[r].draft /\ told' = Said(r) /\ raced' = (raced \/ req[r].dirty)
  /\ req' = Written(r, IF req[r].kind = "select" THEN [Idle EXCEPT !.at = "stopping"] ELSE Idle)
  /\ UNCHANGED <<disk, catalog>>

InstallPlugin(r, p) ==                  \* refused when the name or the file exists
  /\ req[r].at = "idle" /\ p \notin catalog \cup disk
  /\ disk' = disk \cup {p} /\ req' = [req EXCEPT ![r] = [Idle EXCEPT !.at = "stopping"]]
  /\ UNCHANGED <<file, catalog, told, raced>>

RefreshOnly(r) ==                       \* a plugin's own form or the directories were saved
  /\ req[r].at = "idle" /\ req' = [req EXCEPT ![r] = [Idle EXCEPT !.at = "stopping"]]
  /\ UNCHANGED <<disk, file, catalog, told, raced>>

(* catalog.shutdown(): the catalog is emptied, and a failing teardown is raised after that. *)
StopCatalog(r) ==
  /\ req[r].at = "stopping" /\ catalog' = {}
  /\ \E e \in {"discovering", "idle"} :
       req' = [q \in Requests |-> IF q = r THEN [Idle EXCEPT !.at = e]
                                  ELSE [req[q] EXCEPT !.dirty = @ \/ req[q].at = "normalising"]]
  /\ UNCHANGED <<disk, file, told, raced>>

(* load_plugin_catalog: a new catalog, or an enabled plugin that cannot be initialised. *)
Discover(r) ==
  /\ req[r].at = "discovering"
  /\ \/ catalog' = disk /\ req' = [req EXCEPT ![r].at = "normalising"]
     \/ catalog' = catalog /\ req' = [req EXCEPT ![r] = Idle]
  /\ UNCHANGED <<disk, file, told, raced>>

(* What refresh writes back; the pause of the screening is not among it. *)
Normalised == [file EXCEPT !.on = @ \cap catalog, !.screening = FALSE, !.held = @ \cap catalog]

Normalise(r) ==                         \* another request may have emptied the catalog meanwhile
  /\ req[r].at = "normalising"
  /\ req' = [req EXCEPT ![r].at = "rewriting", ![r].draft = Normalised]
  /\ UNCHANGED <<disk, file, catalog, told, raced>>

Rewrite(r) ==                           \* never equal to what was read, so always written
  /\ req[r].at = "rewriting" /\ file' = req[r].draft /\ raced' = (raced \/ req[r].dirty)
  /\ req' = Written(r, Idle)
  /\ UNCHANGED <<disk, catalog, told>>

DiskChanges(p) ==                       \* a plugin file appears or disappears, or its directory does
  /\ disk' = (disk \ {p}) \cup ({p} \ disk)
  /\ UNCHANGED <<file, catalog, req, told, raced>>

Restart ==
  /\ catalog' = disk /\ req' = [r \in Requests |-> Idle]
  /\ UNCHANGED <<disk, file, told, raced>>

Next ==
  \/ \E r \in Requests :
       \/ \E on \in SUBSET Plugins : SaveEnabled(r, on)
       \/ \E b \in BOOLEAN, held \in SUBSET Plugins : SaveRuntimeControl(r, b, held)
       \/ \E b \in BOOLEAN : SaveScreeningControl(r, b)
       \/ Load(r) \/ Write(r) \/ RefreshOnly(r) \/ StopCatalog(r) \/ Discover(r)
       \/ Normalise(r) \/ Rewrite(r)
       \/ \E p \in Plugins : InstallPlugin(r, p)
  \/ \E p \in Plugins : DiskChanges(p)
  \/ Restart

Spec == Init /\ [][Next]_vars

(* As long as no save went over another's: the robot's pause is what the    *)
(* operator last saved, and a platform he paused is never selected without  *)
(* its pause, whatever was refreshed, installed, removed and found again.   *)
PausesOutliveEdits ==
  /\ TypeOK
  /\ ~raced => /\ file.robot = told.robot
               /\ told.held \cap file.on \subseteq file.held

(* The pause of the screening is the operator's, and stays over restarts.   *)
ScreeningPauseIsKept == ~raced => file.screening = told.screening
=============================================================================
