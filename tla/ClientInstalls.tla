---------------------------- MODULE ClientInstalls ----------------------------
(***************************************************************************)
(* Versioned installs of a command-line client (_client_control.py): a     *)
(* background check downloads and verifies a new version, the operator     *)
(* confirms it, and what nobody needs is removed.  Several controllers     *)
(* (the robot's plugin, the console's catalog, another container on the    *)
(* same volume) share the directory and its pointers; a file lock keeps    *)
(* the downloads apart, each controller's own lock its other operations.   *)
(***************************************************************************)
EXTENDS Naturals, FiniteSets

CONSTANTS
  Controllers,
  Dirs,         \* names a version directory may have
  MaxVersion,   \* of the package in the registry; version 1 is the image's own
  None

ClientInstallsAssumption ==
  /\ MaxVersion \in Nat \ {0}
  /\ None \notin Controllers \cup Dirs \cup [version : Nat, whole : BOOLEAN]

VARIABLES
  registry,  \* the latest version
  disk,      \* directory -> None, or [version, whole: it runs and says so]
  active,    \* active.json: None for the image's own client, or a directory
  staged,    \* staged.json
  flock,     \* who holds the lock on downloads
  ctl,       \* controller -> [at, latest, ready, installed, target, previous]
  crossed    \* history: an upgrade went on while another controller downloaded

vars == <<registry, disk, active, staged, flock, ctl, crossed>>

Fresh == [at |-> "idle", latest |-> 1, ready |-> FALSE, installed |-> 1, target |-> None, previous |-> None]
VersionOf(d) == IF d = None THEN 1 ELSE disk[d].version
Present == {d \in Dirs : disk[d] # None}
Whole == {d \in Present : disk[d].whole}
Entry(d) == IF d \in Present THEN d ELSE None       \* _managed_entry: a pointer to nothing is none

Copies == [version : 2..MaxVersion, whole : BOOLEAN]
Duties == [at : {"idle", "staging", "installing", "publishing", "pruning", "switching", "unlinking", "clearing"},
           latest : 1..MaxVersion, ready : BOOLEAN, installed : 1..MaxVersion,
           target : Dirs \cup {None}, previous : Dirs \cup {None}]

TypeOK ==
  /\ registry \in 1..MaxVersion /\ disk \in [Dirs -> Copies \cup {None}]
  /\ {active, staged} \subseteq Dirs \cup {None} /\ flock \in Controllers \cup {None}
  /\ ctl \in [Controllers -> Duties] /\ crossed \in BOOLEAN

Init ==
  /\ registry = 1 /\ disk = [d \in Dirs |-> None] /\ active = None /\ staged = None
  /\ flock = None /\ ctl = [c \in Controllers |-> Fresh] /\ crossed = FALSE

Released == registry < MaxVersion /\ registry' = registry + 1 /\ UNCHANGED <<disk, active, staged, flock, ctl, crossed>>

Inspect(c) ==                           \* runs the active client; one that is gone leaves an error
  /\ active \in Present \cup {None}
  /\ ctl' = [ctl EXCEPT ![c].installed = VersionOf(active)]
  /\ UNCHANGED <<registry, disk, active, staged, flock, crossed>>

CheckUpdate(c) ==
  /\ ctl[c].at = "idle"
  /\ LET newer == registry > ctl[c].installed
         found == Entry(staged) # None /\ VersionOf(staged) = registry IN
     ctl' = [ctl EXCEPT ![c].latest = registry, ![c].ready = newer /\ found,
                        ![c].at = IF newer /\ ~found THEN "staging" ELSE "idle"]
  /\ UNCHANGED <<registry, disk, active, staged, flock, crossed>>

CheckFails(c) ==                        \* no network: what was downloaded may still be confirmed
  /\ ctl[c].at = "idle" /\ Entry(staged) # None /\ VersionOf(staged) > ctl[c].installed
  /\ ctl' = [ctl EXCEPT ![c].latest = VersionOf(staged), ![c].ready = TRUE]
  /\ UNCHANGED <<registry, disk, active, staged, flock, crossed>>

Upgrading == {c \in Controllers : ctl[c].at \in {"switching", "unlinking", "clearing"}}
Staging == {c \in Controllers : ctl[c].at \in {"installing", "publishing", "pruning"}}

StageAnyway == TRUE                     \* a mistake: without the lock
MayStage == flock = None
StageBusy(c) ==
  /\ ctl[c].at = "staging" /\ ~MayStage /\ ctl' = [ctl EXCEPT ![c].at = "idle"]
  /\ UNCHANGED <<registry, disk, active, staged, flock, crossed>>

Without(gone) == [d \in Dirs |-> IF d \in gone THEN None ELSE disk[d]]

(* With the lock: what an interrupted download left is removed, and a new one begins. *)
StageBegins(c) ==
  LET left == Without((Present \ Whole) \ {active, staged}) IN
  /\ ctl[c].at = "staging" /\ MayStage
  /\ IF Entry(staged) # None /\ VersionOf(staged) = ctl[c].latest
     THEN /\ disk' = left /\ ctl' = [ctl EXCEPT ![c].at = "idle", ![c].ready = TRUE]
          /\ UNCHANGED <<flock, crossed>>
     ELSE \E d \in Dirs :
            /\ left[d] = None /\ d \notin {active, staged}      \* a name nobody had
            /\ disk' = [left EXCEPT ![d] = [version |-> ctl[c].latest, whole |-> FALSE]]
            /\ ctl' = [ctl EXCEPT ![c].at = "installing", ![c].target = d]
            /\ flock' = c /\ crossed' = (crossed \/ Upgrading # {})
  /\ UNCHANGED <<registry, active, staged>>

Verified(c) ==                          \* npm has ended and the client says its version
  /\ ctl[c].at = "installing" /\ ctl[c].target \in Present
  /\ disk' = [disk EXCEPT ![ctl[c].target].whole = TRUE] /\ ctl' = [ctl EXCEPT ![c].at = "publishing"]
  /\ UNCHANGED <<registry, active, staged, flock, crossed>>

(* Also a time-out: the directory of this download is removed, also when it *)
(* was published already and the cleaning up failed.                        *)
StageFails(c) ==
  /\ ctl[c].at \in {"installing", "publishing", "pruning"}
  /\ disk' = Without({ctl[c].target}) /\ flock' = None /\ ctl' = [ctl EXCEPT ![c].at = "idle", ![c].ready = FALSE]
  /\ UNCHANGED <<registry, active, staged, crossed>>

Publish(c) ==
  /\ ctl[c].at = "publishing" /\ staged' = ctl[c].target
  /\ ctl' = [ctl EXCEPT ![c].at = "pruning", ![c].ready = TRUE]
  /\ UNCHANGED <<registry, disk, active, flock, crossed>>

KeptByNewest(c) == {ctl[c].target}      \* a mistake: the version in use is thought obsolete
Kept(c) == {ctl[c].target, Entry(active)}
Prune(c) ==
  /\ ctl[c].at = "pruning" /\ disk' = Without(Present \ Kept(c))
  /\ flock' = None /\ ctl' = [ctl EXCEPT ![c].at = "idle"]
  /\ UNCHANGED <<registry, active, staged, crossed>>

Upgrade(c) ==                           \* confirmed: the version that was shown is the one staged
  /\ ctl[c].at = "idle" /\ ctl[c].ready /\ Entry(staged) # None /\ VersionOf(staged) = ctl[c].latest
  /\ ctl' = [ctl EXCEPT ![c].at = "switching", ![c].target = staged, ![c].previous = Entry(active)]
  /\ crossed' = (crossed \/ Staging # {} \/ Upgrading # {})
  /\ UNCHANGED <<registry, disk, active, staged, flock>>
Switch(c) ==
  /\ ctl[c].at = "switching" /\ active' = ctl[c].target
  /\ ctl' = [ctl EXCEPT ![c].at = "unlinking", ![c].installed = ctl[c].latest, ![c].ready = FALSE]
  /\ UNCHANGED <<registry, disk, staged, flock, crossed>>
Unlink(c) ==
  /\ ctl[c].at = "unlinking" /\ staged' = None /\ ctl' = [ctl EXCEPT ![c].at = "clearing"]
  /\ UNCHANGED <<registry, disk, active, flock, crossed>>
Clear(c) ==
  /\ ctl[c].at = "clearing" /\ disk' = Without(Present \ {ctl[c].target, ctl[c].previous})
  /\ ctl' = [ctl EXCEPT ![c].at = "idle"]
  /\ UNCHANGED <<registry, active, staged, flock, crossed>>

Crash ==                                \* the process and its installs; the file lock goes with it
  /\ flock' = None /\ ctl' = [c \in Controllers |-> [Fresh EXCEPT !.installed = IF active \in Present THEN VersionOf(active) ELSE 1]]
  /\ UNCHANGED <<registry, disk, active, staged, crossed>>

Next ==
  \/ Released \/ Crash
  \/ \E c \in Controllers :
       \/ Inspect(c) \/ CheckUpdate(c) \/ CheckFails(c) \/ StageBusy(c) \/ StageBegins(c) \/ Verified(c)
       \/ StageFails(c) \/ Publish(c) \/ Prune(c) \/ Upgrade(c) \/ Switch(c) \/ Unlink(c) \/ Clear(c)

Spec == Init /\ [][Next]_vars

(* One download at a time over all controllers; and as long as no upgrade   *)
(* met the download of another controller: the client in use was verified   *)
(* and is there, and so is the one offered for confirmation if it is there, *)
(* at every step and after every crash.                                     *)
TheClientInUseIsWhole ==
  /\ TypeOK
  /\ Cardinality(Staging) <= 1
  /\ ~crossed => {active, Entry(staged)} \ {None} \subseteq Whole
=============================================================================
