----------------------------- MODULE OperatorNotes -----------------------------
(***************************************************************************)
(* What the operator writes beside their money, on one venue: OperatorNotes *)
(* keeps the words in a file until the robot has taken them, harvest makes  *)
(* instructions of them, review closes those that are done.  The console    *)
(* and the robot hold different instances of the plugin, so they rewrite    *)
(* the file without a lock between them.                                    *)
(***************************************************************************)
EXTENDS Integers, FiniteSets

CONSTANTS
  Notes,
  MaxReads,      \* bound: how often one note may be read
  MaxCrashes     \* bound

OperatorNotesAssumption == MaxReads \in Nat \ {0} /\ MaxCrashes \in Nat

VARIABLES
  file,      \* the notes file
  add,       \* the console inside add(): the note and the file as it read it, or nothing
  robot,     \* harvest: "idle", "reading", "ack" (about to acknowledge), "write" (file read again)
  messages,  \* what harvest has still to read
  handled,   \* what it will acknowledge
  copy,      \* the file as acknowledge read it
  book,      \* operator_instructions: the rows, one per reading
  review,    \* the rows a review asked the model about; {} when none runs
  crashes,
  said,      \* history: notes whose add() returned
  taken,     \* history: notes that reached the book
  again,     \* history: notes read while a crash or a failed write kept them in the file
  torn       \* history: add() and acknowledge() overlapped

vars == <<file, add, robot, messages, handled, copy, book, review, crashes, said, taken, again, torn>>
harvest == <<robot, messages, handled, copy>>
history == <<said, taken, again, torn>>

Rows == [note : Notes, reading : 1..MaxReads, status : {"active", "noted", "done"}]
NoAdd == [on |-> FALSE, note |-> CHOOSE n \in Notes : TRUE, seen |-> {}]

TypeOK ==
  /\ file \subseteq Notes /\ add.on \in BOOLEAN /\ add.seen \subseteq Notes
  /\ robot \in {"idle", "reading", "ack", "write"}
  /\ messages \subseteq Notes /\ handled \subseteq Notes /\ copy \subseteq Notes
  /\ book \subseteq Rows /\ review \subseteq Rows /\ crashes \in 0..MaxCrashes
  /\ said \subseteq Notes /\ taken \subseteq Notes /\ again \subseteq Notes /\ torn \in BOOLEAN

Init ==
  /\ file = {} /\ add = NoAdd /\ robot = "idle" /\ messages = {} /\ handled = {} /\ copy = {}
  /\ book = {} /\ review = {} /\ crashes = 0
  /\ said = {} /\ taken = {} /\ again = {} /\ torn = FALSE

Readings(n) == {r.reading : r \in {q \in book : q.note = n}}

----------------------------------------------------------------------------
AddReads(n) ==                          \* OperatorNotes.add: the file is read
  /\ ~add.on /\ n \notin said
  /\ add' = [on |-> TRUE, note |-> n, seen |-> file]
  /\ torn' = (torn \/ robot = "write")
  /\ UNCHANGED <<file, harvest, book, review, crashes, said, taken, again>>

AddWrites ==                            \* and written back with the note at its end
  /\ add.on
  /\ file' = add.seen \cup {add.note} /\ said' = said \cup {add.note}
  /\ add' = NoAdd
  /\ UNCHANGED <<harvest, book, review, crashes, taken, again, torn>>

HarvestTakes ==                         \* a mistake: taken from the file before they are recorded
  /\ robot = "idle" /\ review = {} /\ file # {}
  /\ robot' = "reading" /\ messages' = file /\ handled' = {} /\ copy' = {} /\ file' = {}
  /\ UNCHANGED <<add, book, review, crashes, history>>

HarvestBegins ==                        \* operator_messages; nothing to do when there is none
  /\ robot = "idle" /\ review = {} /\ file # {}
  /\ robot' = "reading" /\ messages' = file /\ handled' = {} /\ copy' = {}
  /\ UNCHANGED <<file, add, book, review, crashes, history>>

(* The provider reads the note: an instruction, a remark that binds nothing, or, *)
(* when no model could read it, a reminder with the words as written.            *)
ReadNote(n) ==
  /\ robot = "reading" /\ n \in messages /\ Cardinality(Readings(n)) < MaxReads
  /\ \E s \in {"active", "noted"} :
       book' = book \cup {[note |-> n, reading |-> Cardinality(Readings(n)) + 1, status |-> s]}
  /\ messages' = messages \ {n} /\ handled' = handled \cup {n} /\ taken' = taken \cup {n}
  /\ UNCHANGED <<file, add, robot, copy, review, crashes, said, again, torn>>

AllRead ==
  /\ robot = "reading" /\ messages = {}
  /\ robot' = "ack"
  /\ UNCHANGED <<file, add, messages, handled, copy, book, review, crashes, history>>

AckReads ==                             \* acknowledge(): the file is read again
  /\ robot = "ack"
  /\ robot' = "write" /\ copy' = file /\ torn' = (torn \/ add.on)
  /\ UNCHANGED <<file, add, messages, handled, book, review, crashes, said, taken, again>>

AckWrites ==                            \* and written back without what was handled
  /\ robot = "write"
  /\ file' = copy \ handled
  /\ robot' = "idle" /\ handled' = {} /\ copy' = {}
  /\ UNCHANGED <<add, messages, book, review, crashes, history>>

AckFails ==                             \* "would not take the acknowledgement": logged, no more
  /\ robot \in {"ack", "write"}
  /\ robot' = "idle" /\ handled' = {} /\ copy' = {} /\ again' = again \cup handled
  /\ UNCHANGED <<file, add, messages, book, review, crashes, said, taken, torn>>

(* ---- Instructions ---- *)
ReviewBegins ==                         \* before and after a cycle, when something is open
  /\ robot = "idle" /\ review = {}
  /\ review' = {r \in book : r.status = "active"} /\ review' # {}
  /\ UNCHANGED <<file, add, harvest, book, crashes, history>>

ClosedAsRead(done) ==                   \* a mistake: the rows asked about are written back
  (book \ review) \cup (review \ done) \cup {[r EXCEPT !.status = "done"] : r \in done}
Closed(done) ==                         \* resolve_instruction: UPDATE ... WHERE id = ?
  (book \ done) \cup {[r EXCEPT !.status = "done"] : r \in done \cap book}

ReviewEnds ==                           \* verdicts, none when the model cannot answer
  /\ review # {}
  /\ \E done \in SUBSET review : book' = Closed(done)
  /\ review' = {}
  /\ UNCHANGED <<file, add, harvest, crashes, history>>

NoteInstruction(r) ==                   \* a decision round says itself that one is done
  /\ robot = "idle" /\ review = {}
  /\ r \in book /\ r.status = "active"
  /\ book' = Closed({r})
  /\ UNCHANGED <<file, add, harvest, review, crashes, history>>

Forget(r) ==                            \* the operator takes an instruction back
  /\ r \in book
  /\ book' = book \ {r}
  /\ UNCHANGED <<file, add, harvest, review, crashes, history>>

Crash ==                                \* the file and the book are on disk
  /\ crashes < MaxCrashes
  /\ crashes' = crashes + 1 /\ add' = NoAdd /\ robot' = "idle"
  /\ messages' = {} /\ handled' = {} /\ copy' = {} /\ review' = {}
  /\ again' = again \cup handled
  /\ UNCHANGED <<file, book, said, taken, torn>>

Next ==
  \/ \E n \in Notes : AddReads(n) \/ ReadNote(n)
  \/ AddWrites \/ HarvestBegins \/ AllRead \/ AckReads \/ AckWrites \/ AckFails
  \/ ReviewBegins \/ ReviewEnds \/ (\E r \in book : Forget(r) \/ NoteInstruction(r)) \/ Crash

Spec == Init /\ [][Next]_vars

----------------------------------------------------------------------------
(* "A note typed a second before a restart is still a condition the operator    *)
(* believes they set": unless the console and the robot rewrote the file over    *)
(* each other, every note is in the file or was read into an instruction, and    *)
(* none is read into two unless a crash or a failed write kept it in the file.   *)
NotesAreTakenOnce ==
  /\ TypeOK
  /\ torn \/ said \subseteq file \cup taken
  /\ \A n \in Notes : Cardinality(Readings(n)) > 1 => torn \/ n \in again

(* A deleted instruction stays deleted: neither a review that asked about it     *)
(* while it existed nor, save after one of those mishaps, a harvest brings back  *)
(* its row.                                                                      *)
NoRowReturns ==
  \A r \in book' \ book :
    \/ \E q \in book : q.note = r.note /\ q.reading = r.reading     \* closed by a review
    \/ r.note \in messages /\ (r.note \notin taken \/ r.note \in again \/ torn)
ForgottenStaysForgotten == [][NoRowReturns]_vars
=============================================================================
