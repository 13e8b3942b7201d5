---------------------------- MODULE ServicesProofs ----------------------------
(***************************************************************************)
(* Proofs about what serves the operator: the notes, the settings, the     *)
(* sign-in of the console and the stream of order books, each for every    *)
(* value of its constants.                                                 *)
(***************************************************************************)
EXTENDS Services, Integers, Sequences, SequenceTheorems, FiniteSetTheorems, TLAPS

----------------------------------------------------------------------------
(* ---- OperatorNotes ---- *)

(* What the words on their way add to the type: a word being added was never *)
(* said, the file holds words that were said and the book words that were    *)
(* taken, and, unless the file was torn, neither side's copy of it is out of *)
(* date and a taken word still in the file is about to be acknowledged.      *)
NotesInv ==
  /\ Notes!TypeOK
  /\ noteAdd.on => noteAdd.note \in Words \ noteSaid
  /\ noteAdd.seen \cup noteFile \cup noteCopy \cup noteMessages \cup noteTaken \subseteq noteSaid
  /\ noteHandled \subseteq noteTaken
  /\ noteRobot = "idle" => noteHandled = {}
  /\ \A r \in noteBook : r.note \in noteTaken
  /\ ~noteTorn =>
       /\ noteAdd.on => noteRobot # "write" /\ noteAdd.seen = noteFile
       /\ noteRobot = "write" => noteCopy = noteFile
       /\ noteSaid \subseteq noteFile \cup noteTaken
       /\ noteTaken \cap noteFile \subseteq noteAgain \cup noteHandled
       /\ noteTaken \cap noteMessages \subseteq noteAgain
  /\ \A n \in Words : Cardinality(Notes!Readings(n)) > 1 => noteTorn \/ n \in noteAgain

(* The bounds are numbers.                                                  *)
LEMMA NoteNumbers == MaxReads \in Nat \ {0} /\ MaxCrashes \in Nat
BY ServicesAssumption DEF Notes!OperatorNotesAssumption

(* The machine counts with the operator the library's facts are about.      *)
LEMMA SameCount == ASSUME NEW S PROVE Notes!Cardinality(S) = Cardinality(S)
BY DEF Notes!Cardinality, Cardinality

(* A word's readings are a finite set of numbers.                           *)
LEMMA ReadingsAreFew ==
  ASSUME NEW n, Notes!TypeOK
  PROVE  /\ Notes!Readings(n) \subseteq 1..MaxReads /\ IsFiniteSet(Notes!Readings(n))
         /\ Cardinality(Notes!Readings(n)) \in Nat
<1>1. Notes!Readings(n) \subseteq 1..MaxReads
  BY DEF Notes!TypeOK, Notes!Readings, Notes!Rows
<1>2. IsFiniteSet(1..MaxReads)
  BY NoteNumbers, FS_Interval
<1> QED
  BY <1>1, <1>2, FS_Subset, FS_CardinalityType

(* What a step that reads nothing does to the rows leaves every word with   *)
(* no more readings than it had.                                            *)
LEMMA RowsOnlyGo ==
  ASSUME NotesInv,
         noteBook' \subseteq Notes!Rows,
         \A r \in noteBook' : \E q \in noteBook : q.note = r.note /\ q.reading = r.reading,
         UNCHANGED noteTaken, noteTorn => noteTorn', noteAgain \subseteq noteAgain'
  PROVE  /\ \A r \in noteBook' : r.note \in noteTaken'
         /\ \A n \in Words : Cardinality(Notes!Readings(n)') > 1 => noteTorn' \/ n \in noteAgain'
<1>1. \A r \in noteBook' : r.note \in noteTaken'
  BY DEF NotesInv
<1>2. ASSUME NEW n \in Words, Cardinality(Notes!Readings(n)') > 1
      PROVE  noteTorn' \/ n \in noteAgain'
  <2>1. Notes!Readings(n)' \subseteq Notes!Readings(n)
    BY DEF Notes!Readings
  <2>2. IsFiniteSet(Notes!Readings(n)) /\ Cardinality(Notes!Readings(n)) \in Nat
    BY ReadingsAreFew DEF NotesInv
  <2>3. Cardinality(Notes!Readings(n)) > 1
    BY <1>2, <2>1, <2>2, FS_Subset, FS_CardinalityType
  <2> QED
    BY <2>3 DEF NotesInv
<1> QED
  BY <1>1, <1>2

(* A word read for the first time has one reading afterwards, and a word    *)
(* read again was in the file after it had been taken.                      *)
LEMMA NoteIsRead ==
  ASSUME NotesInv, NEW n \in Words, Notes!ReadNote(n)
  PROVE  NotesInv'
<1>1. Cardinality(Notes!Readings(n)) + 1 \in 1..MaxReads
  BY ReadingsAreFew, NoteNumbers, SameCount DEF NotesInv, Notes!ReadNote
<1>2. PICK s \in {"active", "noted"} :
        noteBook' = noteBook \cup {[note |-> n, reading |-> Cardinality(Notes!Readings(n)) + 1, status |-> s]}
  BY SameCount DEF Notes!ReadNote
<1> USE DEF Notes!ReadNote
<1>3. Notes!TypeOK'
  <2>1. noteBook' \subseteq Notes!Rows
    BY <1>1, <1>2 DEF NotesInv, Notes!TypeOK, Notes!Rows
  <2> QED
    BY <2>1 DEF NotesInv, Notes!TypeOK
<1>4. \A r \in noteBook' : r.note \in noteTaken'
  BY <1>2 DEF NotesInv
<1>5. ASSUME NEW m \in Words, Cardinality(Notes!Readings(m)') > 1
      PROVE  noteTorn' \/ m \in noteAgain'
  <2>1. CASE m # n
    <3>1. Notes!Readings(m)' = Notes!Readings(m)
      BY <1>2, <2>1 DEF Notes!Readings
    <3> QED
      BY <1>5, <3>1 DEF NotesInv
  <2>2. CASE m = n /\ n \in noteTaken
    BY <2>2 DEF NotesInv
  <2>3. CASE m = n /\ n \notin noteTaken
    <3>1. Notes!Readings(n) = {}
      BY <2>3 DEF NotesInv, Notes!Readings
    <3>2. Cardinality(Notes!Readings(n)) = 0
      BY <3>1, FS_EmptySet
    <3>3. \A r \in noteBook : r.note # n
      BY <2>3 DEF NotesInv
    <3>4. {q \in noteBook' : q.note = n} = {[note |-> n, reading |-> 1, status |-> s]}
      BY <1>2, <3>2, <3>3
    <3>5. Notes!Readings(n)' = {1}
      <4>1. Notes!Readings(n)' = {r.reading : r \in {[note |-> n, reading |-> 1, status |-> s]}}
        BY <3>4 DEF Notes!Readings
      <4> QED
        BY <4>1
    <3>6. Cardinality({1}) = 1
      BY FS_Singleton
    <3> QED
      BY <1>5, <2>3, <3>5, <3>6
  <2> QED
    BY <2>1, <2>2, <2>3
<1> QED
  BY <1>3, <1>4, <1>5 DEF NotesInv

(* The steps that leave the rows alone.                                     *)
LEMMA WordsMove ==
  ASSUME NotesInv,
         \/ \E n \in Words : Notes!AddReads(n)
         \/ Notes!AddWrites \/ Notes!HarvestBegins \/ Notes!AllRead \/ Notes!AckReads \/ Notes!AckWrites
         \/ Notes!AckFails \/ Notes!ReviewBegins \/ Notes!Crash
  PROVE  NotesInv'
<1>1. UNCHANGED <<noteBook, noteTaken>>
  BY DEF Notes!AddReads, Notes!AddWrites, Notes!HarvestBegins, Notes!AllRead, Notes!AckReads, Notes!AckWrites,
         Notes!AckFails, Notes!ReviewBegins, Notes!Crash, Notes!harvest, Notes!history
<1>t. noteTorn => noteTorn'
  BY DEF Notes!AddReads, Notes!AddWrites, Notes!HarvestBegins, Notes!AllRead, Notes!AckReads, Notes!AckWrites,
         Notes!AckFails, Notes!ReviewBegins, Notes!Crash, Notes!harvest, Notes!history
<1>a. noteAgain \subseteq noteAgain'
  BY DEF Notes!AddReads, Notes!AddWrites, Notes!HarvestBegins, Notes!AllRead, Notes!AckReads, Notes!AckWrites,
         Notes!AckFails, Notes!ReviewBegins, Notes!Crash, Notes!harvest, Notes!history
<1>2. /\ \A r \in noteBook' : r.note \in noteTaken'
      /\ \A n \in Words : Cardinality(Notes!Readings(n)') > 1 => noteTorn' \/ n \in noteAgain'
  BY <1>1, <1>t, <1>a, RowsOnlyGo DEF NotesInv, Notes!TypeOK
<1> USE <1>2, NoteNumbers DEF NotesInv, Notes!TypeOK, Notes!harvest, Notes!history
<1>3. ASSUME NEW n \in Words, Notes!AddReads(n) PROVE NotesInv'
  BY <1>3 DEF Notes!AddReads
<1>4. CASE Notes!AddWrites
  BY <1>4 DEF Notes!AddWrites, Notes!NoAdd
<1>5. CASE Notes!HarvestBegins \/ Notes!AllRead \/ Notes!AckReads
  BY <1>5 DEF Notes!HarvestBegins, Notes!AllRead, Notes!AckReads
<1>6. CASE Notes!AckWrites \/ Notes!AckFails
  BY <1>6 DEF Notes!AckWrites, Notes!AckFails
<1>7. CASE Notes!ReviewBegins
  BY <1>7 DEF Notes!ReviewBegins
<1>8. CASE Notes!Crash
  BY <1>8 DEF Notes!Crash, Notes!NoAdd
<1> QED
  BY <1>3, <1>4, <1>5, <1>6, <1>7, <1>8

(* Closing rows and deleting them.                                          *)
LEMMA RowsChange ==
  ASSUME NotesInv, Notes!ReviewEnds \/ \E r \in noteBook : Notes!Forget(r) \/ Notes!NoteInstruction(r)
  PROVE  NotesInv'
<1>1. ASSUME NEW done \in SUBSET Notes!Rows
      PROVE  /\ Notes!Closed(done) \subseteq Notes!Rows
             /\ \A r \in Notes!Closed(done) : \E q \in noteBook : q.note = r.note /\ q.reading = r.reading
  <2> USE DEF Notes!Closed, NotesInv, Notes!TypeOK, Notes!Rows
  <2>1. \A r \in Notes!Rows : /\ [r EXCEPT !.status = "done"] \in Notes!Rows
                              /\ [r EXCEPT !.status = "done"].note = r.note
                              /\ [r EXCEPT !.status = "done"].reading = r.reading
    OBVIOUS
  <2> QED
    BY <2>1
<1>2. /\ noteBook' \subseteq Notes!Rows
      /\ \A r \in noteBook' : \E q \in noteBook : q.note = r.note /\ q.reading = r.reading
      /\ noteReview' \subseteq Notes!Rows
      /\ UNCHANGED <<noteFile, noteAdd, noteRobot, noteMessages, noteHandled, noteCopy, noteCrashes, noteSaid,
                     noteTaken, noteAgain, noteTorn>>
  <2> USE DEF NotesInv, Notes!TypeOK, Notes!harvest, Notes!history
  <2>1. CASE Notes!ReviewEnds
    BY <1>1, <2>1 DEF Notes!ReviewEnds
  <2>2. ASSUME NEW r \in noteBook, Notes!Forget(r) PROVE <1>2
    BY <2>2 DEF Notes!Forget
  <2>3. ASSUME NEW r \in noteBook, Notes!NoteInstruction(r) PROVE <1>2
    <3>1. {r} \in SUBSET Notes!Rows
      OBVIOUS
    <3> QED
      BY <1>1, <2>3, <3>1 DEF Notes!NoteInstruction
  <2> QED
    BY <2>1, <2>2, <2>3
<1>3. /\ \A r \in noteBook' : r.note \in noteTaken'
      /\ \A n \in Words : Cardinality(Notes!Readings(n)') > 1 => noteTorn' \/ n \in noteAgain'
  BY <1>2, RowsOnlyGo
<1> QED
  BY <1>2, <1>3 DEF NotesInv, Notes!TypeOK

(* The file and the book begin empty.                                       *)
LEMMA NotesInit == Notes!Init => NotesInv
<1> SUFFICES ASSUME Notes!Init PROVE NotesInv
  OBVIOUS
<1>1. \A n \in Words : Notes!Readings(n) = {}
  BY DEF Notes!Init, Notes!Readings
<1>2. \A n \in Words : ~(Cardinality(Notes!Readings(n)) > 1)
  BY <1>1, FS_EmptySet
<1>3. noteAdd.on \in BOOLEAN /\ noteAdd.seen = {}
  BY DEF Notes!Init, Notes!NoAdd
<1>4. noteTorn \in BOOLEAN
  BY DEF Notes!Init
<1>5. Notes!TypeOK
  BY <1>3, <1>4, NoteNumbers DEF Notes!Init, Notes!TypeOK
<1> QED
  BY <1>2, <1>5 DEF Notes!Init, NotesInv, Notes!NoAdd

(* Every step keeps it.                                                     *)
LEMMA NotesStep == NotesInv /\ [Notes!Next]_Notes!vars => NotesInv'
<1>1. ASSUME NotesInv, UNCHANGED Notes!vars PROVE NotesInv'
  <2>1. \A n \in Words : Notes!Readings(n)' = Notes!Readings(n)
    BY <1>1 DEF Notes!vars, Notes!Readings
  <2> QED
    BY <1>1, <2>1 DEF NotesInv, Notes!vars, Notes!TypeOK
<1> QED
  BY <1>1, NoteIsRead, WordsMove, RowsChange DEF Notes!Next

(* Every note is read into one instruction unless the console and the robot *)
(* wrote the file over each other, a crash or a failed write kept it         *)
(* (runtime/operator_instructions.py:140-210, plugins/api/_funding.py:57).   *)
THEOREM WordsAreTakenOnce == Notes!Spec => []Notes!NotesAreTakenOnce
<1>1. NotesInv => Notes!NotesAreTakenOnce
  BY SameCount DEF NotesInv, Notes!NotesAreTakenOnce
<1> QED
  BY <1>1, NotesInit, NotesStep, PTL DEF Notes!Spec

(* A row that was not there before was made of a note the robot is reading. *)
LEMMA RowsComeFromNotes == NotesInv /\ [Notes!Next]_Notes!vars => Notes!NoRowReturns
<1> SUFFICES ASSUME NotesInv, [Notes!Next]_Notes!vars PROVE Notes!NoRowReturns
  OBVIOUS
<1>1. CASE UNCHANGED noteBook
  BY <1>1 DEF Notes!NoRowReturns
<1>2. ASSUME NEW n \in Words, Notes!ReadNote(n) PROVE Notes!NoRowReturns
  <2>1. \A r \in noteBook' \ noteBook : r.note = n
    BY <1>2 DEF Notes!ReadNote
  <2>2. n \in noteMessages /\ (n \notin noteTaken \/ n \in noteAgain \/ noteTorn)
    BY <1>2 DEF Notes!ReadNote, NotesInv
  <2> QED
    BY <2>1, <2>2 DEF Notes!NoRowReturns
<1>3. ASSUME NEW done, done \subseteq Notes!Rows, noteBook' = Notes!Closed(done) PROVE Notes!NoRowReturns
  <2>1. \A r \in Notes!Rows : /\ [r EXCEPT !.status = "done"].note = r.note
                              /\ [r EXCEPT !.status = "done"].reading = r.reading
    BY DEF Notes!Rows
  <2>2. \A r \in noteBook' \ noteBook : \E q \in done \cap noteBook : r = [q EXCEPT !.status = "done"]
    BY <1>3 DEF Notes!Closed
  <2>3. \A r \in noteBook' \ noteBook : \E q \in noteBook : q.note = r.note /\ q.reading = r.reading
    <3>1. SUFFICES ASSUME NEW r \in noteBook' \ noteBook
                   PROVE  \E q \in noteBook : q.note = r.note /\ q.reading = r.reading
      OBVIOUS
    <3>2. PICK q \in done \cap noteBook : r = [q EXCEPT !.status = "done"]
      BY <2>2
    <3>3. r.note = q.note /\ r.reading = q.reading
      BY <1>3, <2>1, <3>2
    <3> QED
      BY <3>2, <3>3
  <2> QED
    BY <2>3 DEF Notes!NoRowReturns
<1>4. CASE Notes!ReviewEnds
  BY <1>3, <1>4 DEF Notes!ReviewEnds, NotesInv, Notes!TypeOK
<1>5. ASSUME NEW r \in noteBook, Notes!NoteInstruction(r) PROVE Notes!NoRowReturns
  <2>1. {r} \subseteq Notes!Rows
    BY DEF NotesInv, Notes!TypeOK
  <2> QED
    BY <1>3, <1>5, <2>1 DEF Notes!NoteInstruction
<1>6. ASSUME NEW r \in noteBook, Notes!Forget(r) PROVE Notes!NoRowReturns
  BY <1>6 DEF Notes!Forget, Notes!NoRowReturns
<1>7. Notes!AddWrites \/ Notes!HarvestBegins \/ Notes!AllRead \/ Notes!AckReads \/ Notes!AckWrites
      \/ Notes!AckFails \/ Notes!ReviewBegins \/ Notes!Crash \/ UNCHANGED Notes!vars
      \/ (\E n \in Words : Notes!AddReads(n)) => UNCHANGED noteBook
  BY DEF Notes!AddReads, Notes!AddWrites, Notes!HarvestBegins, Notes!AllRead, Notes!AckReads, Notes!AckWrites,
         Notes!AckFails, Notes!ReviewBegins, Notes!Crash, Notes!vars
<1> QED
  BY <1>1, <1>2, <1>4, <1>5, <1>6, <1>7 DEF Notes!Next

----------------------------------------------------------------------------
(* ---- Settings ---- *)

(* What a save has still to load, and what it brings itself.                *)
Left(todo) == UNION {todo[i] : i \in DOMAIN todo}
Own(kind) == CASE kind = "select" -> {"on"}
               [] kind = "run" -> {"robot", "held"}
               [] kind = "screen" -> {"screening"}

(* As long as nobody wrote the file since a request began to read it, its   *)
(* copy agrees with the file in every field that is neither the operator's  *)
(* word nor still to be loaded.                                             *)
Agrees(q, kept) ==
  /\ "on" \in kept => q.draft.on = setFile.on
  /\ "robot" \in kept => q.draft.robot = setFile.robot
  /\ "screening" \in kept => q.draft.screening = setFile.screening
  /\ "held" \in kept => q.draft.held = setFile.held
Copied(q) ==
  /\ q.at \in {"loading", "writing"} => q.kind \in Choice!Saves
  /\ q.at = "writing" => q.todo = <<>>
  /\ q.at \in {"loading", "writing"} /\ ~q.dirty => Agrees(q, (Choice!Fields \ Own(q.kind)) \ Left(q.todo))
  /\ q.at = "rewriting" /\ ~q.dirty =>
       /\ q.draft.robot = setFile.robot
       /\ q.draft.on \subseteq setFile.on
       /\ setFile.held \cap q.draft.on \subseteq q.draft.held
Paused ==
  ~setRaced => /\ setFile.robot = setTold.robot
               /\ setTold.held \cap setFile.on \subseteq setFile.held
SetInv == Choice!TypeOK /\ Paused /\ \A r \in Requests : Copied(setReq[r])

(* A request that does nothing is one.                                      *)
LEMMA IdleFits == Choice!Idle \in Choice!Works
BY DEF Choice!Idle, Choice!Works, Choice!File

(* No request is at work in the beginning.                                  *)
LEMMA SetInit == Choice!Init => SetInv
<1> SUFFICES ASSUME Choice!Init PROVE SetInv
  OBVIOUS
<1>1. setFile \in Choice!File
  BY DEF Choice!Init
<1>2. setTold = [robot |-> setFile.robot, screening |-> setFile.screening, held |-> setFile.held]
  BY <1>1 DEF Choice!Init, Choice!Fields, Choice!File
<1>3. Choice!TypeOK
  <2>1. setTold \in Choice!Word
    BY <1>1, <1>2 DEF Choice!Word, Choice!File
  <2> QED
    BY <1>1, <2>1, IdleFits DEF Choice!Init, Choice!TypeOK
<1>4. \A r \in Requests : Copied(setReq[r])
  BY DEF Choice!Init, Copied, Choice!Idle
<1>5. Paused
  BY <1>1, <1>2 DEF Choice!Init, Paused, Choice!File
<1> QED
  BY <1>3, <1>4, <1>5 DEF SetInv

(* While the file stays, a request that moves needs only its own copy       *)
(* looked at, and a copy marked out of date needs no looking at.            *)
LEMMA OthersKeep ==
  ASSUME SetInv, NEW r \in Requests, UNCHANGED setFile, setReq' \in [Requests -> Choice!Works],
         \A s \in Requests \ {r} :
           /\ setReq'[s].at = setReq[s].at /\ setReq'[s].kind = setReq[s].kind
           /\ setReq'[s].todo = setReq[s].todo /\ setReq'[s].draft = setReq[s].draft
           /\ setReq[s].dirty => setReq'[s].dirty,
         Copied(setReq[r])'
  PROVE  \A s \in Requests : Copied(setReq[s])'
<1>1. ASSUME NEW s \in Requests, s # r PROVE Copied(setReq[s])'
  BY <1>1 DEF SetInv, Copied, Agrees
<1> QED
  BY <1>1

(* A write puts every other copy out of date.                               *)
LEMMA OthersDirty ==
  ASSUME SetInv, NEW r \in Requests, NEW after \in Choice!Works, after.at \in {"idle", "stopping"},
         setReq' = Choice!Written(r, after)
  PROVE  setReq' \in [Requests -> Choice!Works] /\ \A s \in Requests : Copied(setReq[s])'
<1>1. setReq' \in [Requests -> Choice!Works]
  BY DEF Choice!Written, SetInv, Choice!TypeOK, Choice!Works
<1>2. ASSUME NEW s \in Requests, s # r PROVE Copied(setReq[s])'
  <2> DEFINE old == setReq[s]
  <2>1. old \in Choice!Works
    BY DEF SetInv, Choice!TypeOK
  <2>2. setReq'[s] = [old EXCEPT !.dirty = old.dirty \/ old.at \in {"loading", "writing", "rewriting"}]
    BY <1>2 DEF Choice!Written
  <2>3. /\ setReq'[s].at = old.at /\ setReq'[s].kind = old.kind /\ setReq'[s].todo = old.todo
        /\ old.at \in {"loading", "writing", "rewriting"} => setReq'[s].dirty
    BY <2>1, <2>2 DEF Choice!Works
  <2> QED
    BY <2>3 DEF SetInv, Copied
<1>3. Copied(setReq[r])'
  BY DEF Choice!Written, Copied
<1> QED
  BY <1>1, <1>2, <1>3

(* A request begins with what it brings, the rest still to be loaded.       *)
LEMMA Beginning ==
  ASSUME SetInv, NEW r \in Requests, NEW kind \in Choice!Saves, NEW draft \in Choice!File,
         Choice!Begin(r, kind, draft)
  PROVE  SetInv'
<1> DEFINE q == [Choice!Idle EXCEPT !.at = "loading", !.kind = kind, !.todo = Choice!Loads(kind), !.draft = draft]
<1>1. Choice!Loads(kind) \in Seq(SUBSET Choice!Fields)
  <2>1. CASE kind = "select"
    BY <2>1 DEF Choice!Loads, Choice!SelectLoads, Choice!Fields
  <2>2. CASE kind = "run"
    BY <2>2 DEF Choice!Loads, Choice!SelectLoads, Choice!Fields
  <2>3. CASE kind = "screen"
    BY <2>3 DEF Choice!Loads, Choice!SelectLoads, Choice!Fields
  <2> QED
    BY <2>1, <2>2, <2>3 DEF Choice!Saves
<1>2. Left(Choice!Loads(kind)) = Choice!Fields \ Own(kind)
  <2>1. CASE kind = "select"
    BY <2>1 DEF Choice!Loads, Choice!SelectLoads, Choice!Fields, Own, Left
  <2>2. CASE kind = "run"
    BY <2>2 DEF Choice!Loads, Choice!SelectLoads, Choice!Fields, Own, Left
  <2>3. CASE kind = "screen"
    BY <2>3 DEF Choice!Loads, Choice!SelectLoads, Choice!Fields, Own, Left
  <2> QED
    BY <2>1, <2>2, <2>3 DEF Choice!Saves
<1>3. q.at = "loading" /\ q.kind = kind /\ q.todo = Choice!Loads(kind) /\ q.draft = draft
  BY DEF Choice!Idle
<1>4. q \in Choice!Works
  BY <1>1, IdleFits DEF Choice!Works
<1>5. setReq' = [setReq EXCEPT ![r] = q]
  BY DEF Choice!Begin
<1> HIDE DEF q
<1>6. Choice!TypeOK'
  BY <1>4, <1>5 DEF SetInv, Choice!TypeOK, Choice!Begin
<1>7. Copied(setReq[r])'
  BY <1>2, <1>3, <1>5 DEF SetInv, Choice!TypeOK, Copied, Agrees
<1>8. \A s \in Requests : Copied(setReq[s])'
  BY <1>5, <1>6, <1>7, OthersKeep DEF SetInv, Choice!TypeOK, Choice!Begin
<1> QED
  BY <1>6, <1>8 DEF SetInv, Paused, Choice!Begin

(* Each load copies one group of fields from the file as it is then.        *)
LEMMA Loading ==
  ASSUME SetInv, NEW r \in Requests, Choice!Load(r)
  PROVE  SetInv'
<1> DEFINE q == setReq[r]
<1>1. q \in Choice!Works /\ q.at = "loading" /\ Copied(q) /\ setFile \in Choice!File
  BY DEF SetInv, Choice!TypeOK, Choice!Load
<1>2. UNCHANGED <<setDisk, setFile, setCatalog, setTold, setRaced>>
  BY DEF Choice!Load
<1>3. CASE q.todo = <<>>
  <2>1. setReq' = [setReq EXCEPT ![r].at = "writing"]
    BY <1>3 DEF Choice!Load
  <2>2. setReq' \in [Requests -> Choice!Works]
    BY <2>1 DEF SetInv, Choice!TypeOK, Choice!Works
  <2>3. Copied(setReq[r])'
    BY <1>1, <1>2, <1>3, <2>1 DEF SetInv, Choice!TypeOK, Choice!Works, Copied, Agrees
  <2>4. \A s \in Requests : Copied(setReq[s])'
    BY <1>2, <2>1, <2>2, <2>3, OthersKeep DEF SetInv, Choice!TypeOK
  <2> QED
    BY <1>2, <2>2, <2>4 DEF SetInv, Paused, Choice!TypeOK
<1>4. CASE q.todo # <<>>
  <2> DEFINE draft == [f \in Choice!Fields |-> IF f \in Head(q.todo) THEN setFile[f] ELSE q.draft[f]]
             todo == Tail(q.todo)
  <2>1. setReq' = [setReq EXCEPT ![r].todo = todo, ![r].draft = draft]
    BY <1>4 DEF Choice!Load
  <2>2. q.todo \in Seq(SUBSET Choice!Fields) /\ q.draft \in Choice!File
    BY <1>1 DEF Choice!Works
  <2>3. todo \in Seq(SUBSET Choice!Fields) /\ Left(q.todo) = Head(q.todo) \cup Left(todo)
    <3>1. todo \in Seq(SUBSET Choice!Fields) /\ Len(todo) = Len(q.todo) - 1 /\ Len(q.todo) \in Nat \ {0}
          /\ \A i \in 1..Len(todo) : todo[i] = q.todo[i + 1]
      BY <1>4, <2>2, HeadTailProperties
    <3>2. DOMAIN q.todo = 1..Len(q.todo) /\ DOMAIN todo = 1..Len(todo) /\ Head(q.todo) = q.todo[1]
      BY <1>4, <2>2, <3>1
    <3> HIDE DEF todo
    <3>3. ASSUME NEW f PROVE f \in Left(q.todo) <=> f \in Head(q.todo) \cup Left(todo)
      <4>1. ASSUME NEW i \in 1..Len(q.todo), f \in q.todo[i] PROVE f \in Head(q.todo) \cup Left(todo)
        <5>1. CASE i = 1
          BY <3>2, <4>1, <5>1
        <5>2. CASE i # 1
          <6>1. i - 1 \in 1..Len(todo) /\ todo[i - 1] = q.todo[i]
            BY <3>1, <5>2
          <6> QED
            BY <3>2, <4>1, <6>1 DEF Left
        <5> QED
          BY <5>1, <5>2
      <4>2. ASSUME NEW i \in 1..Len(todo), f \in todo[i] PROVE f \in Left(q.todo)
        <5>1. i + 1 \in 1..Len(q.todo) /\ q.todo[i + 1] = todo[i]
          BY <3>1
        <5> QED
          BY <3>2, <4>2, <5>1 DEF Left
      <4>3. Head(q.todo) \subseteq Left(q.todo)
        BY <3>1, <3>2 DEF Left
      <4> QED
        BY <3>2, <4>1, <4>2, <4>3 DEF Left
    <3> QED
      BY <3>1, <3>3
  <2>4. draft \in Choice!File
    BY <1>1, <2>2 DEF Choice!File, Choice!Fields
  <2>5. /\ draft.on = IF "on" \in Head(q.todo) THEN setFile.on ELSE q.draft.on
        /\ draft.robot = IF "robot" \in Head(q.todo) THEN setFile.robot ELSE q.draft.robot
        /\ draft.screening = IF "screening" \in Head(q.todo) THEN setFile.screening ELSE q.draft.screening
        /\ draft.held = IF "held" \in Head(q.todo) THEN setFile.held ELSE q.draft.held
    BY <1>1, <2>2 DEF Choice!File, Choice!Fields
  <2> HIDE DEF draft, todo
  <2>6. setReq' \in [Requests -> Choice!Works]
    <3>1. [q EXCEPT !.todo = todo, !.draft = draft] \in Choice!Works
      BY <1>1, <2>3, <2>4 DEF Choice!Works
    <3>2. setReq' = [setReq EXCEPT ![r] = [q EXCEPT !.todo = todo, !.draft = draft]]
      BY <2>1 DEF SetInv, Choice!TypeOK
    <3> QED
      BY <3>1, <3>2 DEF SetInv, Choice!TypeOK
  <2>7. /\ setReq'[r].at = "loading" /\ setReq'[r].kind = q.kind /\ setReq'[r].todo = todo
        /\ setReq'[r].draft = draft /\ (setReq'[r].dirty <=> q.dirty)
    BY <1>1, <2>1 DEF SetInv, Choice!TypeOK, Choice!Works
  <2>8. Copied(setReq[r])'
    BY <1>1, <1>2, <2>3, <2>5, <2>7 DEF Copied, Agrees, Choice!Fields
  <2>9. \A s \in Requests : Copied(setReq[s])'
    BY <1>2, <2>1, <2>6, <2>8, OthersKeep DEF SetInv, Choice!TypeOK
  <2> QED
    BY <1>2, <2>6, <2>9 DEF SetInv, Paused, Choice!TypeOK
<1> QED
  BY <1>3, <1>4

(* A save writes what it loaded and the operator's word.                    *)
LEMMA Writing ==
  ASSUME SetInv, NEW r \in Requests, Choice!Write(r)
  PROVE  SetInv'
<1> DEFINE q == setReq[r]
           d == q.draft
           after == IF q.kind = "select" THEN [Choice!Idle EXCEPT !.at = "stopping"] ELSE Choice!Idle
<1>1. q \in Choice!Works /\ q.at = "writing" /\ Copied(q) /\ d \in Choice!File /\ q.kind \in Choice!Saves
  BY DEF SetInv, Choice!TypeOK, Choice!Write, Copied, Choice!Works
<1>2. after \in Choice!Works /\ after.at \in {"idle", "stopping"}
  BY IdleFits DEF Choice!Works, Choice!Idle
<1>3. setFile \in Choice!File /\ setTold \in Choice!Word
  BY DEF SetInv, Choice!TypeOK
<1>4. setFile' = d /\ setTold' = Choice!Said(r) /\ UNCHANGED <<setDisk, setCatalog>>
      /\ setReq' = Choice!Written(r, after)
  BY DEF Choice!Write
<1> HIDE DEF after
<1>5. setReq' \in [Requests -> Choice!Works] /\ \A s \in Requests : Copied(setReq[s])'
  BY <1>2, <1>4, OthersDirty
<1>6. setTold' \in Choice!Word
  BY <1>1, <1>3, <1>4 DEF Choice!Said, Choice!Saves, Choice!Word, Choice!File
<1>7. setRaced' \in BOOLEAN
  BY <1>1 DEF SetInv, Choice!TypeOK, Choice!Write, Choice!Works
<1>8. ASSUME ~setRaced'
      PROVE  d.robot = setTold'.robot /\ setTold'.held \cap d.on \subseteq d.held
  <2>1. ~setRaced /\ ~q.dirty
    BY <1>8 DEF Choice!Write
  <2>2. setFile.robot = setTold.robot /\ setTold.held \cap setFile.on \subseteq setFile.held
    BY <2>1 DEF SetInv, Paused
  <2>3. Agrees(q, Choice!Fields \ Own(q.kind))
    <3>1. q.todo = <<>>
      BY <1>1 DEF Copied
    <3>2. Left(<<>>) = {}
      BY DEF Left
    <3>3. Agrees(q, (Choice!Fields \ Own(q.kind)) \ Left(q.todo))
      BY <1>1, <2>1 DEF Copied
    <3> QED
      BY <3>1, <3>2, <3>3
  <2>4. CASE q.kind = "select"
    <3>1. d.robot = setFile.robot /\ d.held = setFile.held
      BY <2>3, <2>4 DEF Agrees, Own, Choice!Fields
    <3>2. setTold'.robot = setTold.robot /\ setTold'.held = setTold.held \ (d.on \ setFile.on)
      BY <1>3, <1>4, <2>4 DEF Choice!Said, Choice!Word
    <3> QED
      BY <2>2, <3>1, <3>2
  <2>5. CASE q.kind = "run"
    <3>1. setTold'.robot = d.robot /\ setTold'.held = d.held
      BY <1>3, <1>4, <2>5 DEF Choice!Said, Choice!Word
    <3> QED
      BY <3>1
  <2>6. CASE q.kind = "screen"
    <3>1. d.robot = setFile.robot /\ d.held = setFile.held /\ d.on = setFile.on
      BY <2>3, <2>6 DEF Agrees, Own, Choice!Fields
    <3>2. setTold'.robot = setTold.robot /\ setTold'.held = setTold.held
      BY <1>3, <1>4, <2>6 DEF Choice!Said, Choice!Word
    <3> QED
      BY <2>2, <3>1, <3>2
  <2> QED
    BY <1>1, <2>4, <2>5, <2>6 DEF Choice!Saves
<1>9. Paused'
  BY <1>4, <1>8 DEF Paused
<1>10. Choice!TypeOK'
  BY <1>1, <1>4, <1>5, <1>6, <1>7 DEF SetInv, Choice!TypeOK
<1> QED
  BY <1>5, <1>9, <1>10 DEF SetInv

(* A refresh writes back the file it normalised.                            *)
LEMMA Rewriting ==
  ASSUME SetInv, NEW r \in Requests, Choice!Rewrite(r)
  PROVE  SetInv'
<1> DEFINE q == setReq[r]
<1>1. q \in Choice!Works /\ q.at = "rewriting" /\ Copied(q)
  BY DEF SetInv, Choice!TypeOK, Choice!Rewrite
<1>2. setFile' = q.draft /\ UNCHANGED <<setTold, setDisk, setCatalog>> /\ setReq' = Choice!Written(r, Choice!Idle)
  BY DEF Choice!Rewrite
<1>3. setReq' \in [Requests -> Choice!Works] /\ \A s \in Requests : Copied(setReq[s])'
  <2>1. Choice!Idle.at = "idle"
    BY DEF Choice!Idle
  <2> QED
    BY <1>2, <2>1, IdleFits, OthersDirty
<1>4. setRaced' \in BOOLEAN
  BY <1>1 DEF SetInv, Choice!TypeOK, Choice!Rewrite, Choice!Works
<1>5. ASSUME ~setRaced'
      PROVE  q.draft.robot = setTold.robot /\ setTold.held \cap q.draft.on \subseteq q.draft.held
  <2>1. ~setRaced /\ ~q.dirty
    BY <1>5 DEF Choice!Rewrite
  <2>2. setFile.robot = setTold.robot /\ setTold.held \cap setFile.on \subseteq setFile.held
    BY <2>1 DEF SetInv, Paused
  <2> QED
    BY <1>1, <2>1, <2>2 DEF Copied
<1>6. Paused'
  BY <1>2, <1>5 DEF Paused
<1>7. Choice!TypeOK'
  BY <1>1, <1>2, <1>3, <1>4 DEF SetInv, Choice!TypeOK, Choice!Works
<1> QED
  BY <1>3, <1>6, <1>7 DEF SetInv

(* A refresh, up to what it will write back.                                *)
LEMMA Refreshing ==
  ASSUME SetInv, NEW r \in Requests,
         \/ Choice!RefreshOnly(r) \/ Choice!StopCatalog(r) \/ Choice!Discover(r) \/ Choice!Normalise(r)
         \/ \E p \in Plugins : Choice!InstallPlugin(r, p)
  PROVE  SetInv'
<1> USE DEF SetInv, Choice!TypeOK
<1>1. UNCHANGED <<setFile, setTold, setRaced>> /\ setDisk' \subseteq Plugins /\ setCatalog' \subseteq Plugins
  BY DEF Choice!RefreshOnly, Choice!StopCatalog, Choice!Discover, Choice!Normalise, Choice!InstallPlugin
<1>2. \A a \in {"idle", "stopping", "discovering"} :
        [Choice!Idle EXCEPT !.at = a] \in Choice!Works /\ [Choice!Idle EXCEPT !.at = a].at = a
  BY IdleFits DEF Choice!Works
<1>3. CASE Choice!RefreshOnly(r) \/ \E p \in Plugins : Choice!InstallPlugin(r, p)
  <2>1. setReq' = [setReq EXCEPT ![r] = [Choice!Idle EXCEPT !.at = "stopping"]]
    BY <1>3 DEF Choice!RefreshOnly, Choice!InstallPlugin
  <2>2. setReq' \in [Requests -> Choice!Works] /\ Copied(setReq[r])'
    BY <1>2, <2>1 DEF Copied
  <2> QED
    BY <1>1, <2>1, <2>2, OthersKeep DEF Paused
<1>4. CASE Choice!StopCatalog(r)
  <2>1. PICK e \in {"discovering", "idle"} :
          setReq' = [q \in Requests |-> IF q = r THEN [Choice!Idle EXCEPT !.at = e]
                                        ELSE [setReq[q] EXCEPT !.dirty = @ \/ setReq[q].at = "normalising"]]
    BY <1>4 DEF Choice!StopCatalog
  <2>2. ASSUME NEW s \in Requests, s # r
        PROVE  /\ setReq'[s] \in Choice!Works
               /\ setReq'[s].at = setReq[s].at /\ setReq'[s].kind = setReq[s].kind
               /\ setReq'[s].todo = setReq[s].todo /\ setReq'[s].draft = setReq[s].draft
               /\ setReq[s].dirty => setReq'[s].dirty
    <3>1. setReq[s] \in Choice!Works
      OBVIOUS
    <3>2. setReq'[s] = [setReq[s] EXCEPT !.dirty = setReq[s].dirty \/ setReq[s].at = "normalising"]
      BY <2>1, <2>2
    <3> QED
      BY <3>1, <3>2 DEF Choice!Works
  <2>3. setReq'[r] = [Choice!Idle EXCEPT !.at = e]
    BY <2>1
  <2>4. setReq' \in [Requests -> Choice!Works]
    <3>1. \A s \in Requests : setReq'[s] \in Choice!Works
      BY <1>2, <2>2, <2>3
    <3> QED
      BY <2>1, <3>1
  <2>5. Copied(setReq[r])'
    BY <1>2, <2>3 DEF Copied
  <2> QED
    BY <1>1, <2>2, <2>4, <2>5, OthersKeep DEF Paused
<1>5. CASE Choice!Discover(r)
  <2>1. setReq' = [setReq EXCEPT ![r].at = "normalising"] \/ setReq' = [setReq EXCEPT ![r] = Choice!Idle]
    BY <1>5 DEF Choice!Discover
  <2>2. CASE setReq' = [setReq EXCEPT ![r].at = "normalising"]
    <3>1. setReq' \in [Requests -> Choice!Works] /\ setReq'[r].at = "normalising"
      BY <2>2 DEF Choice!Works
    <3>2. Copied(setReq[r])'
      BY <3>1 DEF Copied
    <3> QED
      BY <1>1, <2>2, <3>1, <3>2, OthersKeep DEF Paused
  <2>3. CASE setReq' = [setReq EXCEPT ![r] = Choice!Idle]
    <3>1. setReq' \in [Requests -> Choice!Works] /\ setReq'[r].at = "idle"
      BY <2>3, IdleFits DEF Choice!Idle
    <3>2. Copied(setReq[r])'
      BY <3>1 DEF Copied
    <3> QED
      BY <1>1, <2>3, <3>1, <3>2, OthersKeep DEF Paused
  <2> QED
    BY <2>1, <2>2, <2>3
<1>6. CASE Choice!Normalise(r)
  <2>1. setReq' = [setReq EXCEPT ![r].at = "rewriting", ![r].draft = Choice!Normalised]
    BY <1>6 DEF Choice!Normalise
  <2>2. /\ Choice!Normalised \in Choice!File /\ Choice!Normalised.robot = setFile.robot
        /\ Choice!Normalised.on = setFile.on \cap setCatalog /\ Choice!Normalised.held = setFile.held \cap setCatalog
    BY DEF Choice!Normalised, Choice!File
  <2>3. /\ setReq' = [setReq EXCEPT ![r] = [setReq[r] EXCEPT !.at = "rewriting", !.draft = Choice!Normalised]]
        /\ [setReq[r] EXCEPT !.at = "rewriting", !.draft = Choice!Normalised] \in Choice!Works
    BY <2>1, <2>2 DEF Choice!Works
  <2>4. setReq' \in [Requests -> Choice!Works]
    BY <2>3
  <2>5. setReq'[r].at = "rewriting" /\ setReq'[r].draft = Choice!Normalised
    BY <2>3 DEF Choice!Works
  <2>6. Copied(setReq[r])'
    BY <1>1, <2>2, <2>5 DEF Copied
  <2> QED
    BY <1>1, <2>1, <2>4, <2>6, OthersKeep DEF Paused
<1> QED
  BY <1>3, <1>4, <1>5, <1>6

(* Every step keeps it.                                                     *)
LEMMA SetStep == SetInv /\ [Choice!Next]_Choice!vars => SetInv'
<1> SUFFICES ASSUME SetInv, [Choice!Next]_Choice!vars PROVE SetInv'
  OBVIOUS
<1>1. ASSUME NEW r \in Requests, NEW on \in SUBSET Plugins, Choice!SaveEnabled(r, on) PROVE SetInv'
  <2>1. [Choice!Idle.draft EXCEPT !.on = on] \in Choice!File
    BY DEF Choice!Idle, Choice!File
  <2> QED
    BY <1>1, <2>1, Beginning DEF Choice!SaveEnabled, Choice!Saves
<1>2. ASSUME NEW r \in Requests, NEW b \in BOOLEAN, NEW held \in SUBSET Plugins,
             Choice!SaveRuntimeControl(r, b, held)
      PROVE  SetInv'
  <2>1. [Choice!Idle.draft EXCEPT !.robot = b, !.held = held] \in Choice!File
    BY DEF Choice!Idle, Choice!File
  <2> QED
    BY <1>2, <2>1, Beginning DEF Choice!SaveRuntimeControl, Choice!Saves
<1>3. ASSUME NEW r \in Requests, NEW b \in BOOLEAN, Choice!SaveScreeningControl(r, b) PROVE SetInv'
  <2>1. [Choice!Idle.draft EXCEPT !.screening = b] \in Choice!File
    BY DEF Choice!Idle, Choice!File
  <2> QED
    BY <1>3, <2>1, Beginning DEF Choice!SaveScreeningControl, Choice!Saves
<1>4. ASSUME NEW p \in Plugins, Choice!DiskChanges(p) PROVE SetInv'
  BY <1>4 DEF Choice!DiskChanges, SetInv, Paused, Copied, Agrees, Choice!TypeOK
<1>5. CASE Choice!Restart
  <2>1. setReq' = [r \in Requests |-> Choice!Idle]
    BY <1>5 DEF Choice!Restart
  <2>2. \A r \in Requests : Copied(setReq[r])'
    BY <2>1 DEF Copied, Choice!Idle
  <2> QED
    BY <1>5, <2>1, <2>2, IdleFits DEF Choice!Restart, SetInv, Paused, Choice!TypeOK
<1>6. CASE UNCHANGED Choice!vars
  BY <1>6 DEF Choice!vars, SetInv, Paused, Copied, Agrees, Choice!TypeOK
<1> QED
  BY <1>1, <1>2, <1>3, <1>4, <1>5, <1>6, Loading, Writing, Rewriting, Refreshing DEF Choice!Next

(* As long as no save went over another's, the robot's pause is what the    *)
(* operator last said and a platform he paused is not selected without its  *)
(* pause, for any plugins and any number of requests                        *)
(* (plugin_system/management.py).                                           *)
THEOREM PausesLast == Choice!Spec => []Choice!PausesOutliveEdits
<1>1. SetInv => Choice!PausesOutliveEdits
  BY DEF SetInv, Paused, Choice!PausesOutliveEdits
<1> QED
  BY <1>1, SetInit, SetStep, PTL DEF Choice!Spec

----------------------------------------------------------------------------
(* ---- AdminAuth ---- *)

(* A number nobody bears but, perhaps, the ceremony or the login it is of.  *)
Unused(i) ==
  /\ \A s \in admSessions : s.id # i
  /\ \A r \in Requests : admReq[r].at # "idle" => admReq[r].id # i
  /\ \A x \in admRan \cup admRepeated : x[1] # i

OwnNumbers ==
  /\ \A c \in admChallenges : Unused(c.id) /\ (admLogin # None => admLogin.id # c.id)
  /\ \A c, d \in admChallenges : c.id = d.id => c = d
  /\ admLogin # None => Unused(admLogin.id)
  /\ \A s, t \in admSessions : s.id = t.id => s = t

(* While a session lives, an envelope of it that was opened is written down, *)
(* was not carried out yet, and is the only one with its nonce.              *)
Past(r) == admReq[r].at \in {"opened", "dispatched"}
OnceEach ==
  \A s \in admSessions :
    /\ \A x \in admRan : x[1] = s.id => x \in admNonces
    /\ \A x \in admRepeated : x[1] # s.id
    /\ \A r \in Requests : Past(r) /\ admReq[r].id = s.id =>
         /\ <<s.id, admReq[r].nonce>> \in admNonces
         /\ <<s.id, admReq[r].nonce>> \notin admRan
         /\ \A q \in Requests :
              Past(q) /\ admReq[q].id = s.id /\ admReq[q].nonce = admReq[r].nonce => q = r

KeysStay ==
  /\ admInitialised => admKeys # {}
  /\ \A s \in admSessions : s.key \in admKeys

AdmInv == Admin!TypeOK /\ KeysStay /\ OwnNumbers /\ OnceEach

(* The bounds are numbers.                                                  *)
LEMMA AdmNumbers ==
  /\ IsFiniteSet(Passkeys)
  /\ IdleTime \in Nat /\ LifeTime \in Nat /\ MaxTime \in Nat /\ MaxCeremonies \in Nat
BY ServicesAssumption DEF Admin!AdminAuthAssumption, IsFiniteSet, Admin!IsFiniteSet

(* In the beginning there is nobody.                                        *)
LEMMA AdmInit == Admin!Init => AdmInv
<1> SUFFICES ASSUME Admin!Init PROVE AdmInv
  OBVIOUS
<1>1. Admin!TypeOK
  BY AdmNumbers DEF Admin!Init, Admin!TypeOK
<1>2. KeysStay /\ OwnNumbers /\ OnceEach
  BY DEF Admin!Init, KeysStay, OwnNumbers, OnceEach
<1> QED
  BY <1>1, <1>2 DEF AdmInv

(* Sessions only go, with their nonces, and nothing else is touched.        *)
LEMMA CleaningKeeps ==
  ASSUME AdmInv, Admin!Cleanup,
         UNCHANGED <<admKeys, admInitialised, admRan, admRepeated>>
  PROVE  /\ KeysStay'
         /\ admSessions' \subseteq admSessions /\ admNonces' \subseteq admNonces
         /\ \A s \in admSessions' : \A x \in admNonces : x[1] = s.id => x \in admNonces'
<1>1. admSessions' \subseteq admSessions /\ admNonces' \subseteq admNonces
  BY DEF Admin!Cleanup, Admin!Cleaned, Admin!CleanNonces
<1>2. \A s \in admSessions' : \A x \in admNonces : x[1] = s.id => x \in admNonces'
  BY DEF Admin!Cleanup, Admin!CleanNonces
<1>3. KeysStay'
  BY <1>1 DEF AdmInv, KeysStay
<1> QED
  BY <1>1, <1>2, <1>3

(* Time passes, and sessions with it.                                       *)
LEMMA AdmTick == ASSUME AdmInv, Admin!Tick PROVE AdmInv'
<1> USE DEF Admin!Tick
<1>1. admNow \in Nat /\ admNow' = admNow + 1
  BY AdmNumbers DEF AdmInv, Admin!TypeOK
<1>2. 0..admNow \subseteq 0..admNow' /\ 0..(admNow + LifeTime) \subseteq 0..(admNow' + LifeTime)
  BY <1>1, AdmNumbers
<1>3. admChallenges' \subseteq Admin!Challenges' /\ admSessions' \subseteq Admin!Sessions'
  BY <1>2 DEF AdmInv, Admin!TypeOK, Admin!Challenges, Admin!Sessions, Admin!Numbers
<1>4. Admin!TypeOK'
  BY <1>1, <1>3, AdmNumbers DEF AdmInv, Admin!TypeOK, Admin!Logins, Admin!Envelopes, Admin!Numbers
<1> QED
  BY <1>4 DEF AdmInv, KeysStay, OwnNumbers, Unused, OnceEach, Past

(* A ceremony takes the next number.                                        *)
LEMMA AdmCeremony ==
  ASSUME AdmInv, NEW purpose \in {"register", "add", "login"}, Admin!Ceremony(purpose)
  PROVE  AdmInv'
<1> DEFINE c == [id |-> admBegun + 1, purpose |-> purpose, expires |-> admNow]
<1>1. Admin!Cleanup /\ UNCHANGED <<admNow, admKeys, admLogin, admReq, admInitialised, admRan, admRepeated>>
      /\ admBegun' = admBegun + 1 /\ admBegun \in 0..MaxCeremonies /\ admBegun + 1 \in 0..MaxCeremonies
      /\ admChallenges' \subseteq admChallenges \cup {c} /\ admNow \in Nat
  BY AdmNumbers DEF Admin!Ceremony, AdmInv, Admin!TypeOK
<1>2. KeysStay' /\ admSessions' \subseteq admSessions /\ admNonces' \subseteq admNonces
      /\ \A s \in admSessions' : \A x \in admNonces : x[1] = s.id => x \in admNonces'
  BY <1>1, CleaningKeeps
<1>3. Admin!Numbers \subseteq Admin!Numbers' /\ admBegun + 1 \in Admin!Numbers' /\ admBegun + 1 \notin Admin!Numbers
  BY <1>1, AdmNumbers DEF Admin!Numbers
<1>4. /\ Admin!Challenges \subseteq Admin!Challenges' /\ Admin!Sessions \subseteq Admin!Sessions'
      /\ Admin!Logins \subseteq Admin!Logins' /\ Admin!Envelopes \subseteq Admin!Envelopes'
      /\ c \in Admin!Challenges'
  BY <1>1, <1>3 DEF Admin!Challenges, Admin!Sessions, Admin!Logins, Admin!Envelopes
<1>5. Admin!TypeOK'
  BY <1>1, <1>2, <1>3, <1>4 DEF AdmInv, Admin!TypeOK, Admin!Resting
<1>6. /\ \A s \in admSessions : s.id \in Admin!Numbers
      /\ \A r \in Requests : admReq[r].at # "idle" => admReq[r].id \in Admin!Numbers
      /\ \A x \in admRan \cup admRepeated : x[1] \in Admin!Numbers
      /\ \A d \in admChallenges : d.id \in Admin!Numbers
      /\ admLogin # None => admLogin.id \in Admin!Numbers
  BY DEF AdmInv, Admin!TypeOK, Admin!Sessions, Admin!Envelopes, Admin!Resting, Admin!Challenges, Admin!Logins
<1>7. OwnNumbers'
  BY <1>1, <1>2, <1>3, <1>6 DEF AdmInv, OwnNumbers, Unused
<1>8. OnceEach'
  BY <1>1, <1>2 DEF AdmInv, OnceEach, Past
<1> QED
  BY <1>2, <1>5, <1>7, <1>8 DEF AdmInv

(* A session that begins bears a number nobody else does.                   *)
LEMMA AdmSession ==
  ASSUME AdmInv, NEW i \in Admin!Numbers, NEW k \in admKeys', Unused(i),
         \A c \in admChallenges' : c \in admChallenges /\ c.id # i,
         admKeys' \subseteq Passkeys, admKeys \subseteq admKeys' \/ admSessions = {},
         admSessions' = admSessions \cup {Admin!NewSession(i, k)}, admLogin' = None,
         UNCHANGED <<admNow, admBegun, admNonces, admReq, admRan, admRepeated>>
  PROVE  AdmInv'
<1> DEFINE new == Admin!NewSession(i, k)
<1>1. admNow \in Nat
  BY AdmNumbers DEF AdmInv, Admin!TypeOK
<1>2. new \in Admin!Sessions /\ new.id = i /\ new.key = k
  <2>1. admNow \in 0..admNow /\ admNow + LifeTime \in 0..(admNow + LifeTime)
    BY <1>1, AdmNumbers
  <2> QED
    BY <2>1 DEF Admin!NewSession, Admin!Sessions, AdmInv, Admin!TypeOK
<1> HIDE DEF new
<1>3. Admin!TypeOK'
  BY <1>2 DEF new, AdmInv, Admin!TypeOK, Admin!Numbers, Admin!Challenges, Admin!Sessions, Admin!Logins,
              Admin!Envelopes, Admin!Resting
<1>4. (admInitialised' => admKeys' # {}) /\ \A s \in admSessions' : s.key \in admKeys'
  BY <1>2 DEF AdmInv, KeysStay, new
<1>5. OwnNumbers'
  BY <1>2 DEF AdmInv, OwnNumbers, Unused, new
<1>6. OnceEach'
  <2>1. ASSUME NEW s \in admSessions', s \notin admSessions
        PROVE  /\ \A x \in admRan \cup admRepeated : x[1] # s.id
               /\ \A r \in Requests : Past(r) => admReq[r].id # s.id
    BY <1>2, <2>1 DEF Unused, Past, new
  <2> QED
    BY <2>1 DEF AdmInv, OnceEach, Past
<1> QED
  BY <1>3, <1>4, <1>5, <1>6 DEF AdmInv, KeysStay

(* A challenge is used up, for a passkey or for a login under way.          *)
LEMMA AdmRegister ==
  ASSUME AdmInv, NEW k \in Passkeys, Admin!Register(k) \/ Admin!AddPasskey(k) \/ Admin!LoginChecks(k)
  PROVE  AdmInv'
<1>1. PICK c \in admChallenges : admChallenges' = admChallenges \ {c} /\
        \/ /\ admLogin = None /\ admKeys = {} /\ admKeys' = {k} /\ admLogin' = admLogin
           /\ admSessions' = admSessions \cup {Admin!NewSession(c.id, k)}
        \/ /\ UNCHANGED <<admSessions, admLogin, admInitialised>>
           /\ admKeys' \in {admKeys, admKeys \cup {k}}
        \/ /\ UNCHANGED <<admSessions, admKeys, admInitialised>>
           /\ admLogin' \in {None, [id |-> c.id, key |-> k]}
  BY DEF Admin!Register, Admin!AddPasskey, Admin!LoginChecks
<1>2. UNCHANGED <<admNow, admBegun, admNonces, admReq, admRan, admRepeated>>
  BY DEF Admin!Register, Admin!AddPasskey, Admin!LoginChecks
<1>3. c.id \in Admin!Numbers /\ Unused(c.id) /\ \A d \in admChallenges' : d \in admChallenges /\ d.id # c.id
  BY <1>1 DEF AdmInv, Admin!TypeOK, Admin!Challenges, OwnNumbers
<1>4. CASE /\ admLogin = None /\ admKeys = {} /\ admKeys' = {k} /\ admLogin' = admLogin
           /\ admSessions' = admSessions \cup {Admin!NewSession(c.id, k)}
  <2>1. admSessions = {}
    BY <1>4 DEF AdmInv, KeysStay
  <2> QED
    BY <1>2, <1>3, <1>4, <2>1, AdmSession
<1>5. CASE UNCHANGED <<admSessions, admInitialised>> /\ admKeys' \in {admKeys, admKeys \cup {k}}
           /\ admLogin' \in {admLogin, None, [id |-> c.id, key |-> k]}
  <2>1. Admin!TypeOK'
    BY <1>1, <1>2, <1>3, <1>5 DEF AdmInv, Admin!TypeOK, Admin!Numbers, Admin!Challenges, Admin!Sessions, Admin!Logins,
              Admin!Envelopes, Admin!Resting
  <2>2. KeysStay'
    BY <1>5 DEF AdmInv, KeysStay
  <2>3. admLogin' # None => (admLogin' = admLogin \/ admLogin'.id = c.id)
    BY <1>5
  <2>4. OwnNumbers'
    BY <1>1, <1>2, <1>3, <1>5, <2>3 DEF AdmInv, OwnNumbers, Unused
  <2>5. OnceEach'
    BY <1>2, <1>5 DEF AdmInv, OnceEach, Past
  <2> QED
    BY <2>1, <2>2, <2>4, <2>5 DEF AdmInv
<1> QED
  BY <1>1, <1>4, <1>5

(* The login under way makes its session, when its passkey is still there.  *)
LEMMA AdmLogin == ASSUME AdmInv, Admin!LoginCreates PROVE AdmInv'
<1>1. /\ admLogin # None /\ admLogin' = None
      /\ UNCHANGED <<admNow, admKeys, admChallenges, admBegun, admNonces, admReq, admInitialised, admRan, admRepeated>>
      /\ admSessions' = IF admLogin.key \in admKeys
                        THEN admSessions \cup {Admin!NewSession(admLogin.id, admLogin.key)} ELSE admSessions
  BY DEF Admin!LoginCreates, Admin!Backed
<1>2. /\ admLogin.id \in Admin!Numbers /\ Unused(admLogin.id)
      /\ \A c \in admChallenges' : c \in admChallenges /\ c.id # admLogin.id
      /\ admKeys' \subseteq Passkeys
  BY <1>1 DEF AdmInv, OwnNumbers, Admin!TypeOK, Admin!Logins
<1>3. CASE admLogin.key \in admKeys
  BY <1>1, <1>2, <1>3, AdmSession
<1>4. CASE admLogin.key \notin admKeys
  BY <1>1, <1>4 DEF AdmInv, Admin!TypeOK, Admin!Numbers, Admin!Challenges, Admin!Sessions, Admin!Logins,
              Admin!Envelopes, Admin!Resting, KeysStay, OwnNumbers, Unused, OnceEach, Past
<1> QED
  BY <1>3, <1>4

(* An envelope arrives on a live session.                                   *)
LEMMA AdmArrive == ASSUME AdmInv, NEW r \in Requests, Admin!Arrive(r) PROVE AdmInv'
<1>1. PICK s \in Admin!Cleaned, n \in Nonces :
        admReq' = [admReq EXCEPT ![r] = [at |-> "checked", id |-> s.id, nonce |-> n]]
  BY DEF Admin!Arrive
<1>2. /\ Admin!Cleanup
      /\ UNCHANGED <<admNow, admKeys, admChallenges, admBegun, admLogin, admInitialised, admRan, admRepeated>>
  BY DEF Admin!Arrive
<1>3. s \in admSessions
  BY DEF Admin!Cleaned
<1>4. /\ KeysStay' /\ admSessions' \subseteq admSessions /\ admNonces' \subseteq admNonces
      /\ \A t \in admSessions' : \A x \in admNonces : x[1] = t.id => x \in admNonces'
  BY <1>2, CleaningKeeps
<1>5. [at |-> "checked", id |-> s.id, nonce |-> n] \in Admin!Envelopes
  BY <1>3 DEF AdmInv, Admin!TypeOK, Admin!Sessions, Admin!Envelopes
<1>6. Admin!TypeOK'
  BY <1>1, <1>2, <1>4, <1>5 DEF AdmInv, Admin!TypeOK, Admin!Numbers, Admin!Challenges, Admin!Sessions, Admin!Logins,
              Admin!Envelopes, Admin!Resting
<1>7. /\ \A q \in Requests : q # r => admReq'[q] = admReq[q]
      /\ admReq'[r].at = "checked" /\ admReq'[r].id = s.id
  BY <1>1 DEF AdmInv, Admin!TypeOK
<1>8. OwnNumbers'
  BY <1>2, <1>3, <1>4, <1>7 DEF AdmInv, OwnNumbers, Unused
<1>9. OnceEach'
  BY <1>2, <1>4, <1>7 DEF AdmInv, OnceEach, Past
<1> QED
  BY <1>4, <1>6, <1>8, <1>9 DEF AdmInv

(* An envelope is opened once: its nonce is written down first.             *)
LEMMA AdmOpen == ASSUME AdmInv, NEW r \in Requests, Admin!Open(r) PROVE AdmInv'
<1> DEFINE x == <<admReq[r].id, admReq[r].nonce>>
<1>1. /\ admReq[r].at = "checked" /\ admNonces' = admNonces \cup {x}
      /\ \/ admReq' = [admReq EXCEPT ![r] = Admin!Resting]
         \/ x \notin admNonces /\ admReq' = [admReq EXCEPT ![r].at = "opened"]
      /\ UNCHANGED <<admNow, admKeys, admChallenges, admBegun, admSessions, admLogin, admInitialised, admRan,
                     admRepeated>>
  BY DEF Admin!Open
<1>2. admReq[r] \in Admin!Envelopes
  BY <1>1 DEF AdmInv, Admin!TypeOK, Admin!Resting
<1>3. x \in Admin!Numbers \X Nonces /\ [admReq[r] EXCEPT !.at = "opened"] \in Admin!Envelopes
  BY <1>2 DEF Admin!Envelopes
<1>4. Admin!TypeOK'
  <2>1. admReq' \in [Requests -> Admin!Envelopes \cup {Admin!Resting}]
    BY <1>1, <1>3 DEF AdmInv, Admin!TypeOK
  <2> QED
    BY <1>1, <1>3, <2>1 DEF AdmInv, Admin!TypeOK, Admin!Numbers, Admin!Challenges, Admin!Sessions, Admin!Logins,
              Admin!Envelopes, Admin!Resting
<1>5. /\ \A q \in Requests : q # r => admReq'[q] = admReq[q]
      /\ \/ admReq'[r].at = "idle"
         \/ /\ x \notin admNonces /\ admReq'[r].at = "opened"
            /\ admReq'[r].id = admReq[r].id /\ admReq'[r].nonce = admReq[r].nonce
  BY <1>1, <1>2 DEF AdmInv, Admin!TypeOK, Admin!Resting, Admin!Envelopes
<1>6. KeysStay'
  BY <1>1 DEF AdmInv, KeysStay
<1>7. OwnNumbers'
  BY <1>1, <1>5 DEF AdmInv, OwnNumbers, Unused
<1>8. OnceEach'
  <2> SUFFICES ASSUME NEW s \in admSessions
               PROVE  /\ \A y \in admRan : y[1] = s.id => y \in admNonces'
                      /\ \A y \in admRepeated : y[1] # s.id
                      /\ \A q \in Requests : Past(q)' /\ admReq'[q].id = s.id =>
                           /\ <<s.id, admReq'[q].nonce>> \in admNonces'
                           /\ <<s.id, admReq'[q].nonce>> \notin admRan
                           /\ \A p \in Requests :
                                Past(p)' /\ admReq'[p].id = s.id /\ admReq'[p].nonce = admReq'[q].nonce => p = q
    BY <1>1 DEF OnceEach
  <2>1. (\A y \in admRan : y[1] = s.id => y \in admNonces') /\ \A y \in admRepeated : y[1] # s.id
    BY <1>1 DEF AdmInv, OnceEach
  <2>2. ASSUME NEW q \in Requests, q # r, Past(q)', admReq'[q].id = s.id
        PROVE  /\ Past(q) /\ admReq[q].id = s.id /\ admReq'[q].nonce = admReq[q].nonce
               /\ <<s.id, admReq[q].nonce>> \in admNonces /\ <<s.id, admReq[q].nonce>> \notin admRan
    BY <1>5, <2>2 DEF Past, AdmInv, OnceEach
  <2>3. ASSUME Past(r)', admReq'[r].id = s.id
        PROVE  /\ admReq'[r].nonce = admReq[r].nonce /\ x = <<s.id, admReq[r].nonce>>
               /\ x \notin admNonces /\ x \in admNonces' /\ x \notin admRan
    BY <1>1, <1>5, <2>3 DEF Past, AdmInv, OnceEach
  <2>4. ASSUME NEW q \in Requests, Past(q)', admReq'[q].id = s.id
        PROVE  <<s.id, admReq'[q].nonce>> \in admNonces' /\ <<s.id, admReq'[q].nonce>> \notin admRan
    BY <1>1, <2>2, <2>3, <2>4
  <2>5. ASSUME NEW q \in Requests, Past(q)', admReq'[q].id = s.id,
               NEW p \in Requests, Past(p)', admReq'[p].id = s.id, admReq'[p].nonce = admReq'[q].nonce
        PROVE  p = q
    <3>1. CASE p # r /\ q # r
      BY <2>2, <2>5, <3>1 DEF AdmInv, OnceEach
    <3>2. CASE p = r /\ q # r
      BY <2>2, <2>3, <2>5, <3>2
    <3>3. CASE p # r /\ q = r
      BY <2>2, <2>3, <2>5, <3>3
    <3> QED
      BY <3>1, <3>2, <3>3
  <2> QED
    BY <2>1, <2>4, <2>5
<1> QED
  BY <1>4, <1>6, <1>7, <1>8 DEF AdmInv

(* The session is cleaned or its idle clock starts again.                   *)
LEMMA AdmTouch == ASSUME AdmInv, NEW r \in Requests, Admin!Touch(r) PROVE AdmInv'
<1>1. /\ admReq[r].at = "opened" /\ admReq' = [admReq EXCEPT ![r].at = "dispatched"]
      /\ admSessions' = {IF s.id = admReq[r].id THEN [s EXCEPT !.last = admNow] ELSE s : s \in Admin!Cleaned}
      /\ admNonces' = Admin!CleanNonces(Admin!Cleaned)
      /\ UNCHANGED <<admNow, admKeys, admChallenges, admBegun, admLogin, admInitialised, admRan, admRepeated>>
  BY DEF Admin!Touch
<1>2. admNow \in 0..admNow
  BY AdmNumbers DEF AdmInv, Admin!TypeOK
<1>3. \A t \in admSessions' : \E s \in Admin!Cleaned :
        /\ t = IF s.id = admReq[r].id THEN [s EXCEPT !.last = admNow] ELSE s
        /\ t \in Admin!Sessions /\ t.id = s.id /\ t.key = s.key
  <2>1. Admin!Cleaned \subseteq admSessions /\ admSessions \subseteq Admin!Sessions
    BY DEF Admin!Cleaned, AdmInv, Admin!TypeOK
  <2>2. \A s \in Admin!Sessions : /\ [s EXCEPT !.last = admNow] \in Admin!Sessions
                                 /\ [s EXCEPT !.last = admNow].id = s.id
                                 /\ [s EXCEPT !.last = admNow].key = s.key
    BY <1>2 DEF Admin!Sessions
  <2>3. ASSUME NEW t \in admSessions'
        PROVE  \E s \in Admin!Cleaned : t = IF s.id = admReq[r].id THEN [s EXCEPT !.last = admNow] ELSE s
    BY <1>1
  <2> SUFFICES ASSUME NEW t \in admSessions'
               PROVE  \E s \in Admin!Cleaned :
                        /\ t = IF s.id = admReq[r].id THEN [s EXCEPT !.last = admNow] ELSE s
                        /\ t \in Admin!Sessions /\ t.id = s.id /\ t.key = s.key
    OBVIOUS
  <2>4. PICK s \in Admin!Cleaned : t = IF s.id = admReq[r].id THEN [s EXCEPT !.last = admNow] ELSE s
    BY <2>3
  <2>5. s \in Admin!Sessions
    BY <2>1
  <2>6. t \in Admin!Sessions /\ t.id = s.id /\ t.key = s.key
    BY <2>2, <2>4, <2>5
  <2> QED
    BY <2>4, <2>6
<1>4. Admin!Cleaned \subseteq admSessions /\ admNonces' \subseteq admNonces
      /\ \A s \in Admin!Cleaned : \A x \in admNonces : x[1] = s.id => x \in admNonces'
  BY <1>1 DEF Admin!Cleaned, Admin!CleanNonces
<1>5. /\ \A q \in Requests :
           /\ admReq'[q].id = admReq[q].id /\ admReq'[q].nonce = admReq[q].nonce
           /\ Past(q)' => Past(q)
           /\ admReq'[q].at # "idle" => admReq[q].at # "idle"
      /\ admReq' \in [Requests -> Admin!Envelopes \cup {Admin!Resting}]
  <2>1. admReq[r] \in Admin!Envelopes
    BY <1>1 DEF AdmInv, Admin!TypeOK, Admin!Resting
  <2>2. admReq'[r] = [admReq[r] EXCEPT !.at = "dispatched"] /\ \A q \in Requests : q # r => admReq'[q] = admReq[q]
    BY <1>1 DEF AdmInv, Admin!TypeOK
  <2>3. admReq'[r] \in Admin!Envelopes /\ admReq'[r].id = admReq[r].id /\ admReq'[r].nonce = admReq[r].nonce
        /\ admReq'[r].at = "dispatched"
    BY <2>1, <2>2 DEF Admin!Envelopes
  <2>4. admReq' \in [Requests -> Admin!Envelopes \cup {Admin!Resting}]
    BY <1>1, <2>2, <2>3 DEF AdmInv, Admin!TypeOK
  <2> QED
    BY <1>1, <2>2, <2>3, <2>4 DEF Past
<1>6. Admin!TypeOK'
  BY <1>1, <1>3, <1>4, <1>5 DEF AdmInv, Admin!TypeOK, Admin!Numbers, Admin!Challenges, Admin!Sessions, Admin!Logins,
              Admin!Envelopes, Admin!Resting
<1>7. KeysStay'
  BY <1>1, <1>3, <1>4 DEF AdmInv, KeysStay
<1>8. OwnNumbers'
  <2>1. \A s, t \in admSessions' : s.id = t.id => s = t
    BY <1>3, <1>4 DEF AdmInv, OwnNumbers
  <2>2. \A i : Unused(i) => Unused(i)'
    BY <1>1, <1>3, <1>4, <1>5 DEF Unused
  <2> QED
    BY <1>1, <2>1, <2>2 DEF AdmInv, OwnNumbers
<1>9. OnceEach'
  <2> SUFFICES ASSUME NEW t \in admSessions'
               PROVE  /\ \A y \in admRan : y[1] = t.id => y \in admNonces'
                      /\ \A y \in admRepeated : y[1] # t.id
                      /\ \A q \in Requests : Past(q)' /\ admReq'[q].id = t.id =>
                           /\ <<t.id, admReq'[q].nonce>> \in admNonces'
                           /\ <<t.id, admReq'[q].nonce>> \notin admRan
                           /\ \A p \in Requests :
                                Past(p)' /\ admReq'[p].id = t.id /\ admReq'[p].nonce = admReq'[q].nonce => p = q
    BY <1>1 DEF OnceEach
  <2>1. PICK s \in Admin!Cleaned : t.id = s.id
    BY <1>3
  <2>2. s \in admSessions /\ \A x \in admNonces : x[1] = s.id => x \in admNonces'
    BY <1>4
  <2>3. (\A y \in admRan : y[1] = s.id => y \in admNonces') /\ \A y \in admRepeated : y[1] # s.id
    BY <2>2 DEF AdmInv, OnceEach
  <2>4. ASSUME NEW q \in Requests, Past(q)', admReq'[q].id = s.id
        PROVE  /\ Past(q) /\ admReq[q].id = s.id /\ admReq'[q].nonce = admReq[q].nonce
               /\ <<s.id, admReq[q].nonce>> \in admNonces' /\ <<s.id, admReq[q].nonce>> \notin admRan
    <3>1. Past(q) /\ admReq[q].id = s.id /\ admReq'[q].nonce = admReq[q].nonce
      BY <1>5, <2>4
    <3>2. <<s.id, admReq[q].nonce>> \in admNonces /\ <<s.id, admReq[q].nonce>> \notin admRan
      BY <2>2, <3>1 DEF AdmInv, OnceEach
    <3>3. <<s.id, admReq[q].nonce>> \in admNonces'
      BY <2>2, <3>2
    <3> QED
      BY <3>1, <3>2, <3>3
  <2>5. ASSUME NEW q \in Requests, Past(q)', admReq'[q].id = s.id,
               NEW p \in Requests, Past(p)', admReq'[p].id = s.id, admReq'[p].nonce = admReq'[q].nonce
        PROVE  p = q
    BY <2>2, <2>4, <2>5 DEF AdmInv, OnceEach
  <2> QED
    BY <2>1, <2>3, <2>4, <2>5
<1> QED
  BY <1>6, <1>7, <1>8, <1>9 DEF AdmInv

(* What an administrator does to keys and sessions.                         *)
LEMMA AdmOperation ==
  ASSUME AdmInv, NEW own, Admin!Operation(own)
  PROVE  /\ admKeys' \subseteq admKeys /\ admSessions' \subseteq admSessions
         /\ admKeys # {} => admKeys' # {}
         /\ \A s \in admSessions' : s.key \in admKeys'
<1>1. CASE UNCHANGED <<admKeys, admSessions>> \/ \E ids : Admin!EndSessions(ids)
  BY <1>1 DEF Admin!EndSessions, AdmInv, KeysStay
<1>2. ASSUME NEW k \in admKeys, Admin!DeletePasskey(k)
      PROVE  /\ admKeys' \subseteq admKeys /\ admSessions' \subseteq admSessions
             /\ admKeys' # {} /\ \A s \in admSessions' : s.key \in admKeys'
  <2>1. Cardinality(admKeys) > 1
    BY <1>2 DEF Admin!DeletePasskey, Admin!Cardinality, Cardinality
  <2>2. IsFiniteSet(admKeys)
    BY AdmNumbers, FS_Subset DEF AdmInv, Admin!TypeOK
  <2>3. admKeys # {k}
    BY <2>1, FS_Singleton
  <2> QED
    BY <1>2, <2>3 DEF Admin!DeletePasskey, AdmInv, KeysStay
<1> QED
  BY <1>1, <1>2 DEF Admin!Operation

(* An operation is carried out, of an envelope or of the machine itself.    *)
LEMMA AdmDispatch ==
  ASSUME AdmInv, Admin!Local \/ \E r \in Requests : Admin!Dispatch(r)
  PROVE  AdmInv'
<1>1. /\ UNCHANGED <<admNow, admChallenges, admBegun, admNonces, admLogin, admInitialised>>
      /\ \E own : Admin!Operation(own)
  BY DEF Admin!Local, Admin!Dispatch
<1>2. /\ admKeys' \subseteq admKeys /\ admSessions' \subseteq admSessions
      /\ admKeys # {} => admKeys' # {}
      /\ \A s \in admSessions' : s.key \in admKeys'
  BY <1>1, AdmOperation
<1>3. KeysStay'
  BY <1>1, <1>2 DEF AdmInv, KeysStay
<1>4. CASE Admin!Local
  BY <1>1, <1>2, <1>3, <1>4 DEF Admin!Local, AdmInv, Admin!TypeOK, Admin!Numbers, Admin!Challenges, Admin!Sessions,
              Admin!Logins, Admin!Envelopes, Admin!Resting, OwnNumbers, Unused, OnceEach, Past
<1>5. ASSUME NEW r \in Requests, Admin!Dispatch(r) PROVE AdmInv'
  <2> DEFINE x == <<admReq[r].id, admReq[r].nonce>>
  <2>1. /\ admReq[r].at = "dispatched" /\ admRan' = admRan \cup {x}
        /\ admRepeated' = admRepeated \cup ({x} \cap admRan) /\ admReq' = [admReq EXCEPT ![r] = Admin!Resting]
    BY <1>5 DEF Admin!Dispatch
  <2>2. admReq[r] \in Admin!Envelopes
    BY <2>1 DEF AdmInv, Admin!TypeOK, Admin!Resting
  <2>3. x \in Admin!Numbers \X Nonces
    BY <2>2 DEF Admin!Envelopes
  <2>4. admReq' \in [Requests -> Admin!Envelopes \cup {Admin!Resting}] /\ admReq'[r].at = "idle"
        /\ \A q \in Requests : q # r => admReq'[q] = admReq[q]
    BY <2>1 DEF AdmInv, Admin!TypeOK, Admin!Resting
  <2>5. Admin!TypeOK'
    BY <1>1, <1>2, <2>1, <2>3, <2>4 DEF AdmInv, Admin!TypeOK, Admin!Numbers, Admin!Challenges, Admin!Sessions,
              Admin!Logins, Admin!Envelopes, Admin!Resting
  <2>6. \A i : Unused(i) => Unused(i)' /\ x[1] # i
    BY <1>2, <2>1, <2>4 DEF Unused
  <2>7. OwnNumbers'
    BY <1>1, <1>2, <2>6 DEF AdmInv, OwnNumbers
  <2>8. OnceEach'
    <3> SUFFICES ASSUME NEW s \in admSessions'
                 PROVE  /\ \A y \in admRan' : y[1] = s.id => y \in admNonces
                        /\ \A y \in admRepeated' : y[1] # s.id
                        /\ \A q \in Requests : Past(q)' /\ admReq'[q].id = s.id =>
                             /\ <<s.id, admReq'[q].nonce>> \in admNonces
                             /\ <<s.id, admReq'[q].nonce>> \notin admRan'
                             /\ \A p \in Requests :
                                  Past(p)' /\ admReq'[p].id = s.id /\ admReq'[p].nonce = admReq'[q].nonce => p = q
      BY <1>1 DEF OnceEach
    <3>1. s \in admSessions
      BY <1>2
    <3>2. x[1] = s.id => x \in admNonces /\ x \notin admRan
      BY <2>1, <3>1 DEF AdmInv, OnceEach, Past
    <3>3. ASSUME NEW q \in Requests, Past(q)', admReq'[q].id = s.id
          PROVE  /\ q # r /\ Past(q) /\ admReq[q].id = s.id /\ admReq'[q] = admReq[q]
                 /\ <<s.id, admReq[q].nonce>> \in admNonces /\ <<s.id, admReq[q].nonce>> \notin admRan
      BY <2>4, <3>1, <3>3 DEF Past, AdmInv, OnceEach
    <3>4. ASSUME NEW q \in Requests, Past(q)', admReq'[q].id = s.id
          PROVE  <<s.id, admReq[q].nonce>> # x
      <4>1. Past(r) /\ q # r /\ Past(q) /\ admReq[q].id = s.id
        BY <2>1, <3>3, <3>4 DEF Past
      <4>2. ~(admReq[r].id = s.id /\ admReq[r].nonce = admReq[q].nonce)
        BY <3>1, <4>1 DEF AdmInv, OnceEach
      <4> QED
        BY <4>2
    <3>5. (\A y \in admRan' : y[1] = s.id => y \in admNonces) /\ \A y \in admRepeated' : y[1] # s.id
      BY <2>1, <3>1, <3>2 DEF AdmInv, OnceEach
    <3>6. ASSUME NEW q \in Requests, Past(q)', admReq'[q].id = s.id,
                 NEW p \in Requests, Past(p)', admReq'[p].id = s.id, admReq'[p].nonce = admReq'[q].nonce
          PROVE  p = q
      <4>1. Past(p) /\ Past(q) /\ admReq[p].id = s.id /\ admReq[q].id = s.id /\ admReq[p].nonce = admReq[q].nonce
        BY <3>3, <3>6
      <4> QED
        BY <3>1, <4>1 DEF AdmInv, OnceEach
    <3>7. ASSUME NEW q \in Requests, Past(q)', admReq'[q].id = s.id
          PROVE  <<s.id, admReq'[q].nonce>> \in admNonces /\ <<s.id, admReq'[q].nonce>> \notin admRan'
      <4>1. <<s.id, admReq[q].nonce>> \notin admRan'
        BY <2>1, <3>3, <3>4, <3>7
      <4> QED
        BY <3>3, <3>7, <4>1
    <3> QED
      BY <3>5, <3>6, <3>7
  <2> QED
    BY <1>3, <2>5, <2>7, <2>8 DEF AdmInv
<1> QED
  BY <1>4, <1>5

(* Every step keeps it.                                                     *)
LEMMA AdmStep == AdmInv /\ [Admin!Next]_Admin!vars => AdmInv'
<1>1. ASSUME AdmInv, UNCHANGED Admin!vars PROVE AdmInv'
  BY <1>1 DEF Admin!vars, AdmInv, Admin!TypeOK, Admin!Numbers, Admin!Challenges, Admin!Sessions,
              Admin!Logins, Admin!Envelopes, Admin!Resting, KeysStay, OwnNumbers, Unused, OnceEach, Past
<1>2. AdmInv /\ (Admin!RegistrationOptions \/ Admin!LoginOptions) => AdmInv'
  BY AdmCeremony DEF Admin!RegistrationOptions, Admin!LoginOptions
<1> QED
  BY <1>1, <1>2, AdmTick, AdmRegister, AdmLogin, AdmArrive, AdmOpen, AdmTouch, AdmDispatch DEF Admin!Next

(* A session stands on a registered passkey and on a ceremony of its own,   *)
(* and no envelope is carried out twice (runtime/auth.py).                  *)
THEOREM SessionsStand == Admin!Spec => []Admin!SessionsAreEarned
<1>1. AdmInv => Admin!SessionsAreEarned
  BY DEF AdmInv, KeysStay, OwnNumbers, Unused, OnceEach, Admin!SessionsAreEarned
<1> QED
  BY <1>1, AdmInit, AdmStep, PTL DEF Admin!Spec

----------------------------------------------------------------------------
(* ---- MarketStream ---- *)

(* What is under way on the socket. *)
Command == {"subscribe", "unsubscribe"} \X Tokens
Message == [kind : {"book", "change"}, token : Tokens, version : 1..MaxVersion]

(* The last word of the commands on a token is to subscribe it, or they do  *)
(* not speak of it.                                                         *)
Silent(q, t) == \A k \in 1..Len(q) : q[k][2] # t
Subscribes(q, t) ==
  \E i \in 1..Len(q) : q[i] = <<"subscribe", t>> /\ \A k \in 1..Len(q) : k > i => q[k][2] # t

(* The last message on a token brings it to the venue's version; with none  *)
(* under way the book held is the venue's.                                  *)
NoWord(q, t) == \A k \in 1..Len(q) : q[k].token # t
BringsUp(q, t, v) ==
  \E i \in 1..Len(q) :
    q[i].token = t /\ q[i].version = v /\ \A k \in 1..Len(q) : k > i => q[k].token # t

(* A change under way is the one after the message before it, and the first *)
(* one the one after the book held.                                         *)
Follows(q, j) ==
  \E i \in 1..Len(q) :
    /\ i < j /\ q[i].token = q[j].token /\ q[i].version = q[j].version - 1
    /\ \A k \in 1..Len(q) : i < k /\ k < j => q[k].token # q[j].token
Chained(q, held) ==
  \A j \in 1..Len(q) : q[j].kind = "change" =>
    \/ Follows(q, j)
    \/ /\ \A k \in 1..Len(q) : k < j => q[k].token # q[j].token
       /\ held[q[j].token] \in {0, q[j].version - 1}

(* Those who ask: of the tokens wanted after one a caller waits for, all    *)
(* were asked for since.                                                    *)
AskedSince ==
  \A c \in Callers : strWaiting[c] # None =>
    /\ \A i, j \in 1..Len(strWanted) :
         strWanted[i] = strWaiting[c] /\ i < j => strWanted[j] \in strAsked[c]
    /\ strWaiting[c] \notin Stream!Want =>
         Cardinality(strAsked[c] \ {strWaiting[c]}) >= MaxSubscriptions

StreamFlags == strStopped \in BOOLEAN /\ strBroken \in BOOLEAN

Subscriptions ==
  /\ strWanted \in Seq(Tokens) /\ Len(strWanted) <= MaxSubscriptions
  /\ \A i, j \in 1..Len(strWanted) : strWanted[i] = strWanted[j] => i = j
  /\ strSubscribed \subseteq Tokens /\ strRefresh \subseteq Tokens /\ strInitial \subseteq Tokens
  /\ strWaiting \in [Callers -> Tokens \cup {None}] /\ strAsked \in [Callers -> SUBSET Tokens]
  /\ strServing \subseteq Tokens /\ strOut \in Seq(Command)

Wire ==
  /\ strLoop \in {"off", "idle", "connecting", "up"}
  /\ strBooks \in [Tokens -> 0..MaxVersion] /\ strFresh \subseteq Tokens
  /\ strVersion \in [Tokens -> 1..MaxVersion] /\ strIn \in Seq(Message)
  /\ strLoop # "up" =>
       /\ strIn = <<>> /\ strOut = <<>> /\ strServing = {} /\ ~strBroken
       /\ strBooks = [t \in Tokens |-> 0]
  /\ strBroken => strIn = <<>>
  /\ Chained(strIn, strBooks)
  /\ ~strBroken => \A t \in strServing :
       \/ BringsUp(strIn, t, strVersion[t])
       \/ NoWord(strIn, t) /\ strBooks[t] \in {0, strVersion[t]}

(* While the connection is up every token subscribed is served or about to  *)
(* be, and what a caller waits for is there or coming.                      *)
Served ==
  /\ \A t \in Tokens : strBooks[t] # 0 => t \in Stream!Want
  /\ strLoop = "up" /\ ~strBroken => \A t \in strSubscribed :
       Subscribes(strOut, t) \/ (Silent(strOut, t) /\ t \in strServing)
  /\ strLoop = "up" /\ ~strBroken => \A c \in Callers, t \in Stream!Want :
       strWaiting[c] = t => Stream!Usable(t) \/ Stream!SnapshotComing(t)

StreamInv == StreamFlags /\ Subscriptions /\ Wire /\ Served /\ AskedSince

(* The constants, as the machine assumes them.                              *)
LEMMA StreamNumbers ==
  /\ IsFiniteSet(Tokens) /\ None \notin Tokens
  /\ MaxSubscriptions \in Nat \ {0} /\ MaxVersion \in Nat \ {0}
BY ServicesAssumption DEF Stream!MarketStreamAssumption, Stream!IsFiniteSet, IsFiniteSet

(* The machine counts with the operator the library's facts are about.      *)
LEMMA StreamCounts == ASSUME NEW S PROVE Stream!Cardinality(S) = Cardinality(S)
BY DEF Stream!Cardinality, Cardinality

(* The tokens wanted, by their places.                                      *)
LEMMA WantedTokens == Stream!Want = {strWanted[i] : i \in DOMAIN strWanted}
BY DEF Stream!Want, Stream!ToSet

(* Written out as a sequence a finite set has each element in one place.    *)
LEMMA WrittenOut ==
  ASSUME NEW S, IsFiniteSet(S)
  PROVE  /\ Stream!SetToSeq(S) \in Seq(S)
         /\ \A i, j \in 1..Len(Stream!SetToSeq(S)) :
              Stream!SetToSeq(S)[i] = Stream!SetToSeq(S)[j] => i = j
         /\ \A x \in S : \E i \in 1..Len(Stream!SetToSeq(S)) : Stream!SetToSeq(S)[i] = x
<1> DEFINE n == Cardinality(S)
           q == Stream!SetToSeq(S)
<1>1. n \in Nat /\ ExistsBijection(1..n, S)
  BY FS_CardinalityType
<1>2. PICK f \in [1..n -> S] : \A i, j \in 1..n : f[i] = f[j] => i = j
  BY <1>1 DEF ExistsBijection, Bijection, Injection, IsInjective
<1>3. q = CHOOSE g \in [1..n -> S] : Stream!IsInjective(g)
  BY StreamCounts DEF Stream!SetToSeq
<1>4. q \in [1..n -> S] /\ Stream!IsInjective(q)
  <2>1. f \in [1..n -> S] /\ Stream!IsInjective(f)
    BY <1>2 DEF Stream!IsInjective
  <2> HIDE DEF q, n
  <2> QED
    BY <1>3, <2>1
<1> HIDE DEF q
<1>5. q \in Seq(S) /\ Len(q) = n /\ DOMAIN q = 1..n
  BY <1>1, <1>4
<1>6. \A i, j \in 1..n : q[i] = q[j] => i = j
  BY <1>4, <1>5 DEF Stream!IsInjective
<1>7. q \in Injection(1..n, S)
  BY <1>4, <1>5, <1>6 DEF Injection, IsInjective
<1>8. Cardinality(1..n) = n
  BY <1>1, FS_Interval
<1>9. q \in Surjection(1..n, S)
  BY <1>7, <1>8, FS_Injection
<1>10. \A x \in S : \E i \in 1..n : q[i] = x
  BY <1>9 DEF Surjection
<1> QED
  BY <1>5, <1>6, <1>10 DEF q

(* Commands of one kind for some tokens speak of each of them once, and of  *)
(* no other.                                                                *)
LEMMA CommandsSay ==
  ASSUME NEW kind \in {"subscribe", "unsubscribe"}, NEW s \in SUBSET Tokens
  PROVE  /\ Stream!Commands(kind, s) \in Seq(Command)
         /\ \A t \in Tokens \ s : Silent(Stream!Commands(kind, s), t)
         /\ kind = "subscribe" => \A t \in s : Subscribes(Stream!Commands(kind, s), t)
<1> DEFINE S == {<<kind, t>> : t \in s}
           q == Stream!SetToSeq(S)
<1>1. IsFiniteSet(s)
  BY StreamNumbers, FS_Subset
<1>2. IsFiniteSet(S)
  <2> DEFINE f == [t \in s |-> <<kind, t>>]
  <2>1. f \in Surjection(s, S)
    BY DEF Surjection
  <2> HIDE DEF f, S
  <2> QED
    BY <1>1, <2>1, FS_Surjection
<1>3. /\ q \in Seq(S)
      /\ \A i, j \in 1..Len(q) : q[i] = q[j] => i = j
      /\ \A x \in S : \E i \in 1..Len(q) : q[i] = x
  BY <1>2, WrittenOut
<1>4. Stream!Commands(kind, s) = q
  BY DEF Stream!Commands
<1> HIDE DEF q
<1>5. \A i \in 1..Len(q) : q[i] \in S
  BY <1>3
<1>6. \A i \in 1..Len(q) : q[i] = <<kind, q[i][2]>> /\ q[i][2] \in s
  BY <1>5
<1>7. q \in Seq(Command)
  BY <1>3, <1>6 DEF Command
<1>8. \A t \in Tokens \ s : Silent(q, t)
  BY <1>6 DEF Silent
<1>9. ASSUME kind = "subscribe", NEW t \in s PROVE Subscribes(q, t)
  <2>1. PICK i \in 1..Len(q) : q[i] = <<kind, t>>
    BY <1>3
  <2>2. ASSUME NEW k \in 1..Len(q), k > i, q[k][2] = t PROVE FALSE
    <3>1. q[k] = q[i]
      BY <1>6, <2>1, <2>2
    <3> QED
      BY <1>3, <2>2, <3>1
  <2> QED
    BY <1>9, <2>1, <2>2 DEF Subscribes
<1> QED
  BY <1>4, <1>7, <1>8, <1>9

(* What two sequences of commands say one after the other.                  *)
LEMMA Joined ==
  ASSUME NEW q \in Seq(Command), NEW p \in Seq(Command), NEW t
  PROVE  /\ q \o p \in Seq(Command)
         /\ Silent(q, t) /\ Silent(p, t) => Silent(q \o p, t)
         /\ Subscribes(q, t) /\ Silent(p, t) => Subscribes(q \o p, t)
         /\ Subscribes(p, t) => Subscribes(q \o p, t)
<1> DEFINE r == q \o p
<1>1. /\ r \in Seq(Command) /\ Len(r) = Len(q) + Len(p) /\ Len(q) \in Nat /\ Len(p) \in Nat
      /\ \A i \in 1..Len(q) : r[i] = q[i]
      /\ \A i \in 1..Len(p) : r[Len(q) + i] = p[i]
  OBVIOUS
<1> HIDE DEF r
<1>2. \A k \in 1..Len(r) : k \in 1..Len(q) \/ (k > Len(q) /\ k - Len(q) \in 1..Len(p) /\ r[k] = p[k - Len(q)])
  <2> SUFFICES ASSUME NEW k \in 1..Len(r), k \notin 1..Len(q)
               PROVE  k > Len(q) /\ k - Len(q) \in 1..Len(p) /\ r[k] = p[k - Len(q)]
    OBVIOUS
  <2>1. k > Len(q) /\ k - Len(q) \in 1..Len(p) /\ Len(q) + (k - Len(q)) = k
    BY <1>1
  <2> QED
    BY <1>1, <2>1
<1>3. Silent(q, t) /\ Silent(p, t) => Silent(r, t)
  BY <1>1, <1>2 DEF Silent
<1>4. ASSUME Subscribes(q, t), Silent(p, t) PROVE Subscribes(r, t)
  <2>1. PICK i \in 1..Len(q) : q[i] = <<"subscribe", t>> /\ \A k \in 1..Len(q) : k > i => q[k][2] # t
    BY <1>4 DEF Subscribes
  <2>2. i \in 1..Len(r) /\ r[i] = <<"subscribe", t>>
    BY <1>1, <2>1
  <2>3. ASSUME NEW k \in 1..Len(r), k > i PROVE r[k][2] # t
    <3>1. CASE k \in 1..Len(q)
      BY <1>1, <2>1, <2>3, <3>1
    <3>2. CASE k \notin 1..Len(q)
      BY <1>2, <1>4, <3>2 DEF Silent
    <3> QED
      BY <3>1, <3>2
  <2> QED
    BY <2>2, <2>3 DEF Subscribes
<1>5. ASSUME Subscribes(p, t) PROVE Subscribes(r, t)
  <2>1. PICK i \in 1..Len(p) : p[i] = <<"subscribe", t>> /\ \A k \in 1..Len(p) : k > i => p[k][2] # t
    BY <1>5 DEF Subscribes
  <2>2. Len(q) + i \in 1..Len(r) /\ r[Len(q) + i] = <<"subscribe", t>>
    BY <1>1, <2>1
  <2>3. \A k \in 1..Len(r) : k > Len(q) + i => r[k][2] # t
    <3> SUFFICES ASSUME NEW k \in 1..Len(r), k > Len(q) + i PROVE r[k][2] # t
      OBVIOUS
    <3>1. k \notin 1..Len(q) /\ k - Len(q) > i
      BY <1>1
    <3> QED
      BY <1>2, <2>1, <3>1
  <2> QED
    BY <2>2, <2>3 DEF Subscribes
<1> QED
  BY <1>1, <1>3, <1>4, <1>5 DEF r
(* What is left of the commands when the first is taken.                    *)
LEMMA CommandTaken ==
  ASSUME NEW q \in Seq(Command), q # <<>>, NEW t
  PROVE  /\ Tail(q) \in Seq(Command) /\ Head(q) \in Command
         /\ Silent(q, t) => Silent(Tail(q), t) /\ Head(q)[2] # t
         /\ Subscribes(q, t) =>
              \/ Subscribes(Tail(q), t)
              \/ Head(q) = <<"subscribe", t>> /\ Silent(Tail(q), t)
<1> DEFINE r == Tail(q)
<1>1. /\ r \in Seq(Command) /\ Len(r) = Len(q) - 1 /\ Len(q) \in Nat \ {0}
      /\ \A i \in 1..Len(r) : r[i] = q[i + 1]
      /\ Head(q) = q[1] /\ q[1] \in Command
  OBVIOUS
<1> HIDE DEF r
<1>2. Silent(q, t) => Silent(r, t) /\ Head(q)[2] # t
  BY <1>1 DEF Silent
<1>3. ASSUME Subscribes(q, t)
      PROVE  Subscribes(r, t) \/ (Head(q) = <<"subscribe", t>> /\ Silent(r, t))
  <2>1. PICK i \in 1..Len(q) : q[i] = <<"subscribe", t>> /\ \A k \in 1..Len(q) : k > i => q[k][2] # t
    BY <1>3 DEF Subscribes
  <2>2. CASE i = 1
    <3>1. Silent(r, t)
      BY <1>1, <2>1, <2>2 DEF Silent
    <3> QED
      BY <1>1, <2>1, <2>2, <3>1
  <2>3. CASE i # 1
    <3>1. i - 1 \in 1..Len(r) /\ r[i - 1] = <<"subscribe", t>>
      BY <1>1, <2>1, <2>3
    <3>2. \A k \in 1..Len(r) : k > i - 1 => r[k][2] # t
      BY <1>1, <2>1
    <3> QED
      BY <3>1, <3>2 DEF Subscribes
  <2> QED
    BY <2>2, <2>3
<1> QED
  BY <1>1, <1>2, <1>3 DEF r

(* A message put at the end of the wire.                                    *)
LEMMA MessageSent ==
  ASSUME NEW q \in Seq(Message), NEW m \in Message, NEW held
  PROVE  /\ Append(q, m) \in Seq(Message)
         /\ BringsUp(Append(q, m), m.token, m.version)
         /\ \A t, v : m.token # t /\ BringsUp(q, t, v) => BringsUp(Append(q, m), t, v)
         /\ \A t : m.token # t /\ NoWord(q, t) => NoWord(Append(q, m), t)
         /\ \A k \in 1..Len(q) : k \in 1..Len(Append(q, m)) /\ Append(q, m)[k] = q[k]
         /\ Append(q, m)[Len(Append(q, m))] = m /\ Len(Append(q, m)) \in 1..Len(Append(q, m))
         /\ /\ Chained(q, held)
            /\ m.kind = "change" =>
                 \/ BringsUp(q, m.token, m.version - 1)
                 \/ NoWord(q, m.token) /\ held[m.token] \in {0, m.version - 1}
            => Chained(Append(q, m), held)
<1> DEFINE r == Append(q, m)
           n == Len(q) + 1
<1>1. /\ r \in Seq(Message) /\ Len(r) = n /\ Len(q) \in Nat /\ r[n] = m
      /\ \A i \in 1..Len(q) : r[i] = q[i]
      /\ \A i \in 1..n : i \in 1..Len(q) \/ i = n
  OBVIOUS
<1>2. 1..Len(q) \subseteq 1..n /\ n \in 1..n
  BY <1>1
<1> HIDE DEF r
<1>3. BringsUp(r, m.token, m.version)
  BY <1>1, <1>2 DEF BringsUp
<1>4. ASSUME NEW t, NEW v, m.token # t, BringsUp(q, t, v) PROVE BringsUp(r, t, v)
  BY <1>1, <1>2, <1>4 DEF BringsUp
<1>5. \A t : m.token # t /\ NoWord(q, t) => NoWord(r, t)
  BY <1>1 DEF NoWord
<1>6. ASSUME Chained(q, held),
             m.kind = "change" =>
               \/ BringsUp(q, m.token, m.version - 1)
               \/ NoWord(q, m.token) /\ held[m.token] \in {0, m.version - 1}
      PROVE  Chained(r, held)
  <2> SUFFICES ASSUME NEW j \in 1..Len(r), r[j].kind = "change"
               PROVE  \/ Follows(r, j)
                      \/ /\ \A k \in 1..Len(r) : k < j => r[k].token # r[j].token
                         /\ held[r[j].token] \in {0, r[j].version - 1}
    BY DEF Chained
  <2>1. ASSUME j \in 1..Len(q)
        PROVE  \/ Follows(r, j)
               \/ /\ \A k \in 1..Len(r) : k < j => r[k].token # r[j].token
                  /\ held[r[j].token] \in {0, r[j].version - 1}
    <3>1. r[j] = q[j] /\ q[j].kind = "change"
      BY <1>1, <2>1
    <3>2. \A k \in 1..Len(r) : k < j => k \in 1..Len(q) /\ r[k] = q[k]
      BY <1>1, <2>1
    <3>3. \/ Follows(q, j)
          \/ /\ \A k \in 1..Len(q) : k < j => q[k].token # q[j].token
             /\ held[q[j].token] \in {0, q[j].version - 1}
      BY <1>6, <2>1, <3>1 DEF Chained
    <3>4. ASSUME Follows(q, j) PROVE Follows(r, j)
      <4>1. PICK i \in 1..Len(q) :
              /\ i < j /\ q[i].token = q[j].token /\ q[i].version = q[j].version - 1
              /\ \A k \in 1..Len(q) : i < k /\ k < j => q[k].token # q[j].token
        BY <3>4 DEF Follows
      <4> QED
        BY <1>1, <1>2, <3>1, <3>2, <4>1 DEF Follows
    <3> QED
      BY <3>1, <3>2, <3>3, <3>4
  <2>2. ASSUME j = n
        PROVE  \/ Follows(r, j)
               \/ /\ \A k \in 1..Len(r) : k < j => r[k].token # r[j].token
                  /\ held[r[j].token] \in {0, r[j].version - 1}
    <3>1. r[j] = m /\ m.kind = "change"
      BY <1>1, <2>2
    <3>2. \A k \in 1..Len(r) : k < j => k \in 1..Len(q) /\ r[k] = q[k]
      BY <1>1, <2>2
    <3>3. ASSUME BringsUp(q, m.token, m.version - 1) PROVE Follows(r, j)
      <4>1. PICK i \in 1..Len(q) :
              /\ q[i].token = m.token /\ q[i].version = m.version - 1
              /\ \A k \in 1..Len(q) : k > i => q[k].token # m.token
        BY <3>3 DEF BringsUp
      <4>2. i \in 1..Len(r) /\ i < j /\ r[i] = q[i]
        BY <1>1, <1>2, <2>2
      <4> QED
        BY <3>1, <3>2, <4>1, <4>2 DEF Follows
    <3>4. ASSUME NoWord(q, m.token), held[m.token] \in {0, m.version - 1}
          PROVE  /\ \A k \in 1..Len(r) : k < j => r[k].token # r[j].token
                 /\ held[r[j].token] \in {0, r[j].version - 1}
      BY <3>1, <3>2, <3>4 DEF NoWord
    <3> QED
      BY <1>6, <3>1, <3>3, <3>4
  <2> QED
    BY <1>1, <2>1, <2>2
<1> QED
  BY <1>1, <1>2, <1>3, <1>4, <1>5, <1>6 DEF r
(* What is left of the wire when the first message is taken and its token's *)
(* book is what the message says, or none.                                  *)
LEMMA MessageTaken ==
  ASSUME NEW q \in Seq(Message), q # <<>>, NEW held, NEW new,
         \A t \in Tokens : t # Head(q).token => new[t] = held[t],
         new[Head(q).token] \in {0, Head(q).version}
  PROVE  /\ Tail(q) \in Seq(Message) /\ Head(q) \in Message
         /\ Chained(q, held) => Chained(Tail(q), new)
         /\ \A t \in Tokens, v \in Nat :
              BringsUp(q, t, v) => BringsUp(Tail(q), t, v) \/ (NoWord(Tail(q), t) /\ new[t] \in {0, v})
         /\ \A t \in Tokens : NoWord(q, t) => NoWord(Tail(q), t) /\ new[t] = held[t]
<1> DEFINE r == Tail(q)
<1>1. /\ r \in Seq(Message) /\ Len(r) = Len(q) - 1 /\ Len(q) \in Nat \ {0}
      /\ \A i \in 1..Len(r) : r[i] = q[i + 1]
      /\ Head(q) = q[1] /\ q[1] \in Message
      /\ \A i \in 1..Len(q) : q[i] \in Message
  OBVIOUS
<1> HIDE DEF r
<1>2. \A i \in 1..Len(r) : i + 1 \in 1..Len(q)
  BY <1>1
<1>3. \A k \in 1..Len(q) : k = 1 \/ (k - 1 \in 1..Len(r) /\ q[k] = r[k - 1])
  <2> SUFFICES ASSUME NEW k \in 1..Len(q), k # 1 PROVE k - 1 \in 1..Len(r) /\ q[k] = r[k - 1]
    OBVIOUS
  <2>1. k - 1 \in 1..Len(r) /\ (k - 1) + 1 = k
    BY <1>1
  <2> QED
    BY <1>1, <2>1
<1>4. \A m \in Message : m.token \in Tokens /\ m.version \in Nat
  BY StreamNumbers DEF Message
<1>5. ASSUME Chained(q, held) PROVE Chained(r, new)
  <2> SUFFICES ASSUME NEW j \in 1..Len(r), r[j].kind = "change"
               PROVE  \/ Follows(r, j)
                      \/ /\ \A k \in 1..Len(r) : k < j => r[k].token # r[j].token
                         /\ new[r[j].token] \in {0, r[j].version - 1}
    BY DEF Chained
  <2>1. j + 1 \in 1..Len(q) /\ r[j] = q[j + 1] /\ r[j] \in Message
    BY <1>1, <1>2
  <2>2. \/ Follows(q, j + 1)
        \/ /\ \A k \in 1..Len(q) : k < j + 1 => q[k].token # q[j + 1].token
           /\ held[q[j + 1].token] \in {0, q[j + 1].version - 1}
    BY <1>5, <2>1 DEF Chained
  <2>3. ASSUME Follows(q, j + 1)
        PROVE  \/ Follows(r, j)
               \/ /\ \A k \in 1..Len(r) : k < j => r[k].token # r[j].token
                  /\ new[r[j].token] \in {0, r[j].version - 1}
    <3>1. PICK i \in 1..Len(q) :
            /\ i < j + 1 /\ q[i].token = r[j].token /\ q[i].version = r[j].version - 1
            /\ \A k \in 1..Len(q) : i < k /\ k < j + 1 => q[k].token # r[j].token
      BY <2>1, <2>3 DEF Follows
    <3>2. \A k \in 1..Len(r) : i < k + 1 /\ k < j => r[k].token # r[j].token
      <4> SUFFICES ASSUME NEW k \in 1..Len(r), i < k + 1, k < j PROVE r[k].token # r[j].token
        OBVIOUS
      <4>1. k + 1 \in 1..Len(q) /\ i < k + 1 /\ k + 1 < j + 1 /\ r[k] = q[k + 1]
        BY <1>1, <1>2
      <4> QED
        BY <3>1, <4>1
    <3>3. ASSUME i = 1
          PROVE  /\ \A k \in 1..Len(r) : k < j => r[k].token # r[j].token
                 /\ new[r[j].token] \in {0, r[j].version - 1}
      <4>1. \A k \in 1..Len(r) : i < k + 1
        BY <3>3
      <4>2. Head(q) = q[i]
        BY <1>1, <3>3
      <4> QED
        BY <3>1, <3>2, <4>1, <4>2
    <3>4. ASSUME i # 1 PROVE Follows(r, j)
      <4>1. i - 1 \in 1..Len(r) /\ r[i - 1] = q[i] /\ i - 1 < j
        BY <1>3, <3>1, <3>4
      <4>2. \A k \in 1..Len(r) : i - 1 < k /\ k < j => r[k].token # r[j].token
        BY <3>2
      <4> QED
        BY <3>1, <4>1, <4>2 DEF Follows
    <3> QED
      BY <3>3, <3>4
  <2>4. ASSUME \A k \in 1..Len(q) : k < j + 1 => q[k].token # q[j + 1].token,
               held[q[j + 1].token] \in {0, q[j + 1].version - 1}
        PROVE  /\ \A k \in 1..Len(r) : k < j => r[k].token # r[j].token
               /\ new[r[j].token] \in {0, r[j].version - 1}
    <3>1. 1 \in 1..Len(q) /\ 1 < j + 1
      BY <1>1
    <3>2. Head(q).token # r[j].token /\ r[j].token \in Tokens
      BY <1>1, <1>4, <2>1, <2>4, <3>1
    <3>3. ASSUME NEW k \in 1..Len(r), k < j PROVE r[k].token # r[j].token
      <4>1. k + 1 \in 1..Len(q) /\ k + 1 < j + 1 /\ r[k] = q[k + 1]
        BY <1>1, <1>2, <3>3
      <4> QED
        BY <2>1, <2>4, <4>1
    <3> QED
      BY <2>1, <2>4, <3>2, <3>3
  <2> QED
    BY <2>2, <2>3, <2>4
<1>6. ASSUME NEW t \in Tokens, NEW v \in Nat, BringsUp(q, t, v)
      PROVE  BringsUp(r, t, v) \/ (NoWord(r, t) /\ new[t] \in {0, v})
  <2>1. PICK i \in 1..Len(q) :
          q[i].token = t /\ q[i].version = v /\ \A k \in 1..Len(q) : k > i => q[k].token # t
    BY <1>6 DEF BringsUp
  <2>2. \A k \in 1..Len(r) : k + 1 > i => r[k].token # t
    BY <1>1, <1>2, <2>1
  <2>3. ASSUME i = 1 PROVE NoWord(r, t) /\ new[t] \in {0, v}
    <3>1. \A k \in 1..Len(r) : k + 1 > i
      BY <2>3
    <3> QED
      BY <1>1, <2>1, <2>2, <2>3, <3>1 DEF NoWord
  <2>4. ASSUME i # 1 PROVE BringsUp(r, t, v)
    <3>1. i - 1 \in 1..Len(r) /\ r[i - 1] = q[i] /\ \A k \in 1..Len(r) : k > i - 1 => k + 1 > i
      BY <1>3, <2>4
    <3> QED
      BY <2>1, <2>2, <3>1 DEF BringsUp
  <2> QED
    BY <2>3, <2>4
<1>7. ASSUME NEW t \in Tokens, NoWord(q, t) PROVE NoWord(r, t) /\ new[t] = held[t]
  <2>1. 1 \in 1..Len(q)
    BY <1>1
  <2> QED
    BY <1>1, <1>2, <1>7, <2>1 DEF NoWord
<1> QED
  BY <1>1, <1>5, <1>6, <1>7 DEF r

(* A sequence without the element at one place.                             *)
LEMMA WithoutPlace ==
  ASSUME NEW q \in Seq(Tokens), NEW p \in 1..Len(q)
  PROVE  /\ Stream!RemoveAt(q, p) \in Seq(Tokens) /\ Len(Stream!RemoveAt(q, p)) = Len(q) - 1
         /\ \A i \in 1..(Len(q) - 1) :
              Stream!RemoveAt(q, p)[i] = IF i < p THEN q[i] ELSE q[i + 1]
<1> DEFINE n == Len(q)
           front == SubSeq(q, 1, p - 1)
           back == SubSeq(q, p + 1, n)
           b == Stream!RemoveAt(q, p)
<1>1. n \in Nat /\ p \in Int /\ 1 <= p /\ p <= n /\ \A i \in 1..n : q[i] \in Tokens
  OBVIOUS
<1>2. b = front \o back
  BY DEF Stream!RemoveAt
<1>3. /\ front \in Seq(Tokens) /\ Len(front) = p - 1
      /\ \A i \in 1..(p - 1) : front[i] = q[i]
  <2> HIDE DEF n
  <2>1. \A i \in 1..(p - 1) : q[i] \in Tokens
    BY <1>1
  <2> QED
    BY <1>1, <2>1, SubSeqProperties
<1>4. /\ back \in Seq(Tokens) /\ Len(back) = n - p
      /\ \A i \in 1..(n - p) : back[i] = q[p + i]
  <2> HIDE DEF n
  <2>1. \A i \in (p + 1)..n : q[i] \in Tokens
    BY <1>1
  <2>2. /\ back \in Seq(Tokens) /\ Len(back) = IF p + 1 <= n THEN n - (p + 1) + 1 ELSE 0
        /\ \A i \in 1..(n - (p + 1) + 1) : back[i] = q[p + 1 + i - 1]
    BY <1>1, <2>1, SubSeqProperties
  <2>3. n - (p + 1) + 1 = n - p /\ \A i \in 1..(n - p) : p + 1 + i - 1 = p + i
    BY <1>1
  <2> HIDE DEF back
  <2>4. Len(back) = n - p
    BY <1>1, <2>2
  <2> QED
    BY <2>2, <2>3, <2>4
<1> HIDE DEF front, back, b, n
<1>5. /\ b \in Seq(Tokens) /\ Len(b) = n - 1
      /\ \A i \in 1..(n - 1) : b[i] = IF i <= p - 1 THEN front[i] ELSE back[i - (p - 1)]
  <2>1. (p - 1) + (n - p) = n - 1
    BY <1>1
  <2>2. /\ front \o back \in Seq(Tokens) /\ Len(front \o back) = Len(front) + Len(back)
        /\ \A i \in 1..Len(front) + Len(back) :
             (front \o back)[i] = IF i <= Len(front) THEN front[i] ELSE back[i - Len(front)]
    BY <1>3, <1>4, ConcatProperties
  <2> QED
    BY <1>2, <1>3, <1>4, <2>1, <2>2
<1>6. ASSUME NEW i \in 1..(n - 1), i < p PROVE b[i] = q[i]
  <2>1. i <= p - 1 /\ i \in 1..(p - 1)
    BY <1>1, <1>6
  <2> QED
    BY <1>3, <1>5, <2>1
<1>7. ASSUME NEW i \in 1..(n - 1), ~(i < p) PROVE b[i] = q[i + 1]
  <2>1. ~(i <= p - 1) /\ i - (p - 1) \in 1..(n - p) /\ p + (i - (p - 1)) = i + 1
    BY <1>1, <1>7
  <2> QED
    BY <1>4, <1>5, <2>1
<1> QED
  BY <1>5, <1>6, <1>7 DEF b, n

(* The tokens wanted that stay when t is asked for, and where each was.     *)
Stay(b, t, f) ==
  /\ b \in Seq(Tokens) /\ Len(b) < MaxSubscriptions /\ f \in [1..Len(b) -> 1..Len(strWanted)]
  /\ \A i \in 1..Len(b) : b[i] = strWanted[f[i]] /\ b[i] # t /\ b[i] \notin Stream!Evicted(t)
  /\ \A i, j \in 1..Len(b) : i < j => f[i] < f[j]
  /\ \A k \in 1..Len(strWanted) : strWanted[k] # t /\ strWanted[k] \notin Stream!Evicted(t) =>
       \E i \in 1..Len(b) : f[i] = k

(* The tokens wanted after one is asked for: it is the last, the others stay *)
(* in their order, and one that is dropped over the limit was the first.     *)
LEMMA PutLast ==
  ASSUME Subscriptions, NEW t \in Tokens
  PROVE  /\ Stream!Requested(t) \in Seq(Tokens) /\ Len(Stream!Requested(t)) <= MaxSubscriptions
         /\ \A i, j \in 1..Len(Stream!Requested(t)) :
              Stream!Requested(t)[i] = Stream!Requested(t)[j] => i = j
         /\ \A i, j \in 1..Len(Stream!Requested(t)) : i < j =>
              /\ Stream!Requested(t)[i] # t
              /\ \/ Stream!Requested(t)[j] = t
                 \/ \E k, l \in 1..Len(strWanted) :
                      k < l /\ strWanted[k] = Stream!Requested(t)[i]
                            /\ strWanted[l] = Stream!Requested(t)[j]
         /\ {Stream!Requested(t)[i] : i \in DOMAIN Stream!Requested(t)} =
               (Stream!Want \ Stream!Evicted(t)) \cup {t}
<1> DEFINE n == Len(strWanted)
           base == IF t \in Stream!Want THEN Stream!RemoveAt(strWanted, Stream!Place(t))
                   ELSE IF Stream!Evicted(t) # {} THEN Tail(strWanted) ELSE strWanted
<1>1. /\ strWanted \in Seq(Tokens) /\ n \in Nat /\ n <= MaxSubscriptions /\ DOMAIN strWanted = 1..n
      /\ \A i, j \in 1..n : strWanted[i] = strWanted[j] => i = j
      /\ MaxSubscriptions \in Nat \ {0}
  BY StreamNumbers DEF Subscriptions
<1>2. t \in Stream!Want <=> \E i \in 1..n : strWanted[i] = t
  BY <1>1, WantedTokens
<1>3. \E f : Stay(base, t, f)
  <2>0. n \in Nat /\ MaxSubscriptions \in Nat /\ n <= MaxSubscriptions
    BY <1>1
  <2>1. CASE t \in Stream!Want
    <3> DEFINE p == Stream!Place(t)
               b == Stream!RemoveAt(strWanted, p)
    <3>1. p \in 1..n /\ strWanted[p] = t
      BY <1>1, <1>2, <2>1 DEF Stream!Place
    <3>2. Stream!Evicted(t) = {} /\ base = b
      BY <2>1 DEF Stream!Evicted
    <3> HIDE DEF p
    <3>3. /\ b \in Seq(Tokens) /\ Len(b) = n - 1
          /\ \A i \in 1..(n - 1) : b[i] = IF i < p THEN strWanted[i] ELSE strWanted[i + 1]
      BY <1>1, <3>1, WithoutPlace
    <3> HIDE DEF b, base, n
    <3> DEFINE f == [i \in 1..Len(b) |-> IF i < p THEN i ELSE i + 1]
    <3>4. /\ f \in [1..Len(b) -> 1..n]
          /\ \A i \in 1..Len(b) : f[i] = (IF i < p THEN i ELSE i + 1) /\ f[i] # p
      BY <2>0, <3>1, <3>3
    <3>5. \A i, j \in 1..Len(b) : i < j => f[i] < f[j]
      BY <2>0, <3>1, <3>3
    <3>6. \A k \in 1..n : k # p => \E i \in 1..Len(b) : f[i] = k
      <4> SUFFICES ASSUME NEW k \in 1..n, k # p PROVE \E i \in 1..Len(b) : f[i] = k
        OBVIOUS
      <4> HIDE DEF f
      <4>1. CASE k < p
        <5>1. k \in 1..Len(b)
          BY <2>0, <3>1, <3>3, <4>1
        <5> QED
          BY <3>4, <4>1, <5>1
      <4>2. CASE ~(k < p)
        <5>1. k - 1 \in 1..Len(b) /\ ~(k - 1 < p) /\ (k - 1) + 1 = k
          BY <2>0, <3>1, <3>3, <4>2
        <5> QED
          BY <3>4, <5>1
      <4> QED
        BY <4>1, <4>2
    <3> HIDE DEF f
    <3>7. \A i \in 1..Len(b) : b[i] = strWanted[f[i]]
      BY <3>3, <3>4
    <3>8. Len(b) < MaxSubscriptions
      BY <2>0, <3>3
    <3>9. ASSUME NEW i \in 1..Len(b) PROVE b[i] # t /\ b[i] \notin Stream!Evicted(t)
      <4>1. f[i] \in 1..n /\ f[i] # p
        BY <3>4
      <4> QED
        BY <1>1, <3>1, <3>2, <3>7, <4>1 DEF n
    <3> QED
      <4>1. Stay(b, t, f)
        BY <3>1, <3>3, <3>4, <3>5, <3>6, <3>7, <3>8, <3>9 DEF Stay, n
      <4> QED
        BY <3>2, <4>1
  <2>2. CASE t \notin Stream!Want /\ n = MaxSubscriptions
    <3> DEFINE b == Tail(strWanted)
    <3>1. /\ b \in Seq(Tokens) /\ Len(b) = n - 1 /\ n # 0
          /\ \A i \in 1..(n - 1) : b[i] = strWanted[i + 1]
      BY <1>1, <2>2
    <3>2. Stream!Evicted(t) = {strWanted[1]} /\ base = b
      <4>1. Stream!Evicted(t) = {strWanted[1]}
        BY <2>2 DEF Stream!Evicted
      <4>2. Stream!Evicted(t) # {}
        BY <4>1
      <4> QED
        BY <2>2, <4>1, <4>2
    <3> HIDE DEF b, base, n
    <3> DEFINE f == [i \in 1..Len(b) |-> i + 1]
    <3>3. /\ f \in [1..Len(b) -> 1..n]
          /\ \A i \in 1..Len(b) : f[i] = i + 1 /\ f[i] # 1
      BY <2>0, <3>1
    <3>4. \A i, j \in 1..Len(b) : i < j => f[i] < f[j]
      BY <3>3
    <3>5. \A k \in 1..n : k # 1 => \E i \in 1..Len(b) : f[i] = k
      <4> SUFFICES ASSUME NEW k \in 1..n, k # 1 PROVE \E i \in 1..Len(b) : f[i] = k
        OBVIOUS
      <4> HIDE DEF f
      <4>1. k - 1 \in 1..Len(b) /\ (k - 1) + 1 = k
        BY <2>0, <3>1
      <4> QED
        BY <3>3, <4>1
    <3> HIDE DEF f
    <3>6. \A i \in 1..Len(b) : b[i] = strWanted[f[i]]
      BY <3>1, <3>3
    <3>7. Len(b) < MaxSubscriptions
      BY <2>0, <3>1
    <3>8. 1 \in 1..n
      BY <2>0, <3>1
    <3>9. ASSUME NEW i \in 1..Len(b) PROVE b[i] # t /\ b[i] \notin Stream!Evicted(t)
      <4>1. f[i] \in 1..n /\ f[i] # 1
        BY <3>3
      <4> QED
        BY <1>1, <1>2, <2>2, <3>2, <3>6, <3>8, <4>1 DEF n
    <3>10. \A k \in 1..n : strWanted[k] \notin Stream!Evicted(t) => k # 1
      BY <3>2
    <3> QED
      <4>1. Stay(b, t, f)
        BY <3>1, <3>3, <3>4, <3>5, <3>6, <3>7, <3>9, <3>10 DEF Stay, n
      <4> QED
        BY <3>2, <4>1
  <2>3. CASE t \notin Stream!Want /\ n # MaxSubscriptions
    <3>1. Stream!Evicted(t) = {} /\ base = strWanted
      BY <2>3 DEF Stream!Evicted
    <3>2. n < MaxSubscriptions
      <4> HIDE DEF n
      <4> QED
        BY <2>0, <2>3
    <3>3. \A i \in 1..n : strWanted[i] # t
      BY <1>2, <2>3
    <3> HIDE DEF base, n
    <3> DEFINE f == [i \in 1..Len(strWanted) |-> i]
    <3>4. /\ f \in [1..Len(strWanted) -> 1..n] /\ \A i \in 1..Len(strWanted) : f[i] = i
      BY DEF n
    <3> HIDE DEF f
    <3>5. \A i, j \in 1..Len(strWanted) : i < j => f[i] < f[j]
      BY <3>4
    <3>6. /\ Len(strWanted) < MaxSubscriptions
          /\ \A k \in 1..n : k \in 1..Len(strWanted)
      BY <3>2 DEF n
    <3>7. \A i \in 1..Len(strWanted) : strWanted[i] = strWanted[f[i]] /\ strWanted[i] # t
      BY <3>3, <3>4 DEF n
    <3> QED
      <4>1. Stay(strWanted, t, f)
        BY <1>1, <3>1, <3>4, <3>5, <3>6, <3>7 DEF Stay, n
      <4> QED
        BY <3>1, <4>1
  <2> QED
    BY <2>1, <2>2, <2>3
<1>4. Stream!Requested(t) = Append(base, t)
  BY DEF Stream!Requested
<1> HIDE DEF base
<1> DEFINE w == Append(base, t)
<1>6. PICK f : Stay(base, t, f)
  BY <1>3
<1>7. base \in Seq(Tokens) /\ Len(base) \in Nat /\ Len(base) < MaxSubscriptions
  BY <1>6 DEF Stay
<1>8. /\ w \in Seq(Tokens) /\ Len(w) = Len(base) + 1 /\ w[Len(w)] = t /\ DOMAIN w = 1..Len(w)
      /\ \A i \in 1..Len(base) : w[i] = base[i]
      /\ \A i \in 1..Len(w) : i \in 1..Len(base) \/ i = Len(w)
  BY <1>7
<1> HIDE DEF w
<1>9. Len(w) <= MaxSubscriptions
  BY <1>1, <1>7, <1>8
<1>10. \A i, j \in 1..Len(w) : i < j => i \in 1..Len(base) /\ w[i] = strWanted[f[i]] /\ w[i] # t
  BY <1>6, <1>7, <1>8 DEF Stay
<1>11. ASSUME NEW i \in 1..Len(w), NEW j \in 1..Len(w), i < j
       PROVE  \/ w[j] = t
              \/ \E k, l \in 1..n : k < l /\ strWanted[k] = w[i] /\ strWanted[l] = w[j]
  <2>1. CASE j = Len(w)
    BY <1>8, <2>1
  <2>2. CASE j \in 1..Len(base)
    <3>1. f[i] \in 1..n /\ f[j] \in 1..n /\ f[i] < f[j] /\ w[j] = strWanted[f[j]]
      BY <1>6, <1>8, <1>10, <1>11, <2>2 DEF Stay
    <3> QED
      BY <1>10, <1>11, <3>1
  <2> QED
    BY <1>8, <2>1, <2>2
<1>12. ASSUME NEW i \in 1..Len(w), NEW j \in 1..Len(w), i < j PROVE w[i] # w[j]
  <2>1. CASE w[j] = t
    BY <1>10, <1>12, <2>1
  <2>2. CASE w[j] # t
    <3>1. PICK k, l \in 1..n : k < l /\ strWanted[k] = w[i] /\ strWanted[l] = w[j]
      BY <1>11, <1>12, <2>2
    <3> QED
      BY <1>1, <3>1
  <2> QED
    BY <2>1, <2>2
<1>13. \A i, j \in 1..Len(w) : w[i] = w[j] => i = j
  <2> SUFFICES ASSUME NEW i \in 1..Len(w), NEW j \in 1..Len(w), w[i] = w[j], i # j PROVE FALSE
    OBVIOUS
  <2>1. i < j \/ j < i
    BY <1>7, <1>8
  <2> QED
    BY <1>12, <2>1
<1>14. {w[i] : i \in DOMAIN w} = (Stream!Want \ Stream!Evicted(t)) \cup {t}
  <2>1. ASSUME NEW i \in 1..Len(w) PROVE w[i] \in (Stream!Want \ Stream!Evicted(t)) \cup {t}
    <3>1. CASE i \in 1..Len(base)
      BY <1>1, <1>6, <1>8, <3>1, WantedTokens DEF Stay
    <3>2. CASE i = Len(w)
      BY <1>8, <3>2
    <3> QED
      BY <1>8, <3>1, <3>2
  <2>2. ASSUME NEW u \in Stream!Want, u \notin Stream!Evicted(t), u # t
        PROVE  \E i \in 1..Len(w) : w[i] = u
    <3>1. PICK k \in 1..n : strWanted[k] = u
      BY <1>1, WantedTokens
    <3>2. PICK i \in 1..Len(base) : f[i] = k
      BY <1>6, <2>2, <3>1 DEF Stay
    <3>3. i \in 1..Len(w) /\ w[i] = u
      BY <1>6, <1>7, <1>8, <3>1, <3>2 DEF Stay
    <3> QED
      BY <3>3
  <2>3. Len(w) \in 1..Len(w)
    BY <1>7, <1>8
  <2> QED
    BY <1>8, <2>1, <2>2, <2>3
<1> QED
  BY <1>4, <1>8, <1>9, <1>10, <1>11, <1>13, <1>14 DEF w
(* What is wanted, to a token, after a request.                             *)
LEMMA WantedThen ==
  ASSUME Subscriptions, NEW t \in Tokens, strWanted' = Stream!Requested(t)
  PROVE  Stream!Want' = (Stream!Want \ Stream!Evicted(t)) \cup {t}
<1>1. Stream!Want' = {strWanted'[i] : i \in DOMAIN strWanted'}
  BY DEF Stream!Want, Stream!ToSet
<1>2. Stream!Want' = {Stream!Requested(t)[i] : i \in DOMAIN Stream!Requested(t)}
  BY <1>1
<1> QED
  BY <1>2, PutLast, Zenon

(* A book on its way, seen in the wire or in the commands.                  *)
LEMMA ComingWhen ==
  ASSUME NEW t, Subscribes(strOut, t) PROVE Stream!SnapshotComing(t)
BY DEF Subscribes, Stream!SnapshotComing

LEMMA StreamStart == Stream!Init => StreamInv
<1> SUFFICES ASSUME Stream!Init PROVE StreamInv
  OBVIOUS
<1>1. StreamFlags
  BY DEF Stream!Init, StreamFlags
<1>2. Subscriptions
  <2>1. strWanted = <<>> /\ Len(strWanted) = 0 /\ strOut \in Seq(Command)
    BY DEF Stream!Init
  <2> QED
    BY <2>1, StreamNumbers DEF Stream!Init, Subscriptions
<1>3. Wire
  <2>1. strIn = <<>> /\ Len(strIn) = 0 /\ strIn \in Seq(Message)
    BY DEF Stream!Init
  <2>2. Chained(strIn, strBooks)
    BY <2>1 DEF Chained
  <2> QED
    BY <2>1, <2>2, StreamNumbers DEF Stream!Init, Wire
<1>4. Served
  BY StreamNumbers DEF Stream!Init, Served
<1>5. AskedSince
  BY StreamNumbers DEF Stream!Init, AskedSince
<1> QED
  BY <1>1, <1>2, <1>3, <1>4, <1>5 DEF StreamInv

(* The steps that touch neither what is wanted nor what is under way: a     *)
(* caller stops waiting, a book that no one waits for grows old, the stream *)
(* is closed, a connection is begun or given up before it stood.            *)
LEMMA QuietSteps ==
  ASSUME StreamInv,
         UNCHANGED <<strWanted, strSubscribed, strRefresh, strBooks, strAsked, strVersion,
                     strServing, strBroken, strOut, strIn>>,
         strStopped' \in BOOLEAN, strInitial' \subseteq Tokens, strFresh' \subseteq strFresh,
         strWaiting' \in [Callers -> Tokens \cup {None}],
         \A c \in Callers : strWaiting'[c] # None => strWaiting'[c] = strWaiting[c],
         \A c \in Callers : strWaiting[c] \in strFresh => strWaiting[c] \in strFresh',
         \/ strLoop' = strLoop
         \/ strLoop # "up" /\ strLoop' \in {"off", "idle", "connecting"}
  PROVE  StreamInv'
<1>1. StreamFlags'
  BY DEF StreamInv, StreamFlags
<1>2. Subscriptions'
  BY DEF StreamInv, Subscriptions
<1>3. Wire'
  BY DEF StreamInv, Wire, Chained, Follows, BringsUp, NoWord
<1>4. /\ Stream!Want' = Stream!Want
      /\ \A t : Stream!SnapshotComing(t)' <=> Stream!SnapshotComing(t)
  BY DEF Stream!Want, Stream!SnapshotComing, Stream!Added, Stream!Renewed
<1>5. Served'
  <2>1. \A t \in Tokens : strBooks'[t] # 0 => t \in Stream!Want'
    BY <1>4 DEF StreamInv, Served
  <2>2. strLoop' = "up" /\ ~strBroken' => strLoop = "up" /\ ~strBroken
    OBVIOUS
  <2>3. strLoop' = "up" /\ ~strBroken' => \A t \in strSubscribed' :
          Subscribes(strOut', t) \/ (Silent(strOut', t) /\ t \in strServing')
    BY <2>2 DEF StreamInv, Served, Subscribes, Silent
  <2>4. ASSUME strLoop' = "up", ~strBroken', NEW c \in Callers, NEW t \in Stream!Want',
               strWaiting'[c] = t
        PROVE  Stream!Usable(t)' \/ Stream!SnapshotComing(t)'
    <3>1. t = strWaiting[c] /\ t \in Stream!Want
      <4>1. Stream!Want \subseteq Tokens
        BY WantedTokens DEF StreamInv, Subscriptions
      <4> QED
        BY <1>4, <2>4, <4>1, StreamNumbers
    <3>2. Stream!Usable(t) \/ Stream!SnapshotComing(t)
      BY <2>2, <2>4, <3>1 DEF StreamInv, Served
    <3>3. ASSUME Stream!Usable(t) PROVE Stream!Usable(t)'
      BY <2>4, <3>1, <3>3 DEF Stream!Usable, Stream!Connected
    <3> QED
      BY <1>4, <3>1, <3>2, <3>3
  <2> QED
    BY <2>1, <2>3, <2>4 DEF Served
<1>6. AskedSince'
  BY <1>4 DEF StreamInv, AskedSince
<1> QED
  BY <1>1, <1>2, <1>3, <1>5, <1>6 DEF StreamInv

(* A caller asks for a book: over the limit the token asked for longest ago *)
(* goes, all the others wanted were asked for after it.                     *)
LEMMA RequestKeeps ==
  ASSUME StreamInv, NEW c \in Callers, NEW t \in Tokens, Stream!GetBook(c, t)
  PROVE  StreamInv'
<1> DEFINE gone == Stream!Evicted(t)
<1>1. /\ strWanted' = Stream!Requested(t)
      /\ strBooks' = [u \in Tokens |-> IF u \in gone THEN 0 ELSE strBooks[u]]
      /\ strRefresh' = (strRefresh \ gone) \cup Stream!Needed(t) /\ strFresh' = strFresh \ gone
      /\ strLoop' = IF ~Stream!Usable(t) /\ strLoop = "off" THEN "idle" ELSE strLoop
      /\ strWaiting' = [strWaiting EXCEPT ![c] = IF Stream!Usable(t) THEN None ELSE t]
      /\ strAsked' = [d \in Callers |-> IF d = c THEN {} ELSE strAsked[d] \cup {t}]
      /\ UNCHANGED <<strSubscribed, strInitial, strStopped, strVersion,
                     strServing, strBroken, strOut, strIn>>
  BY DEF Stream!GetBook, Stream!socket
<1>2. /\ strWanted \in Seq(Tokens) /\ Len(strWanted) <= MaxSubscriptions
      /\ \A i, j \in 1..Len(strWanted) : strWanted[i] = strWanted[j] => i = j
      /\ strWaiting \in [Callers -> Tokens \cup {None}] /\ strAsked \in [Callers -> SUBSET Tokens]
      /\ strBooks \in [Tokens -> 0..MaxVersion]
  BY DEF StreamInv, Subscriptions, Wire
<1>3. Stream!Want' = (Stream!Want \ gone) \cup {t}
  BY <1>1, WantedThen DEF StreamInv
<1>4. Stream!Want \subseteq Tokens /\ gone \subseteq Stream!Want
  <2>1. Stream!Want \subseteq Tokens
    BY <1>2, WantedTokens
  <2>2. ASSUME NEW u \in gone PROVE u \in Stream!Want
    <3>1. u = strWanted[1] /\ Len(strWanted) = MaxSubscriptions
      BY <2>2 DEF Stream!Evicted
    <3>2. 1 \in DOMAIN strWanted
      BY <1>2, <3>1, StreamNumbers
    <3> QED
      BY <3>1, <3>2, WantedTokens
  <2> QED
    BY <2>1, <2>2
<1>5. \A u \in Tokens : strBooks'[u] = IF u \in gone THEN 0 ELSE strBooks[u]
  BY <1>1
<1>6. \A d \in Callers :
        /\ strWaiting'[d] = IF d = c THEN (IF Stream!Usable(t) THEN None ELSE t) ELSE strWaiting[d]
        /\ strAsked'[d] = IF d = c THEN {} ELSE strAsked[d] \cup {t}
  BY <1>1, <1>2
<1>7. StreamFlags'
  BY <1>1 DEF StreamInv, StreamFlags
<1>8. Subscriptions'
  <2>1. strRefresh' \subseteq Tokens
    BY <1>1 DEF Stream!Needed, StreamInv, Subscriptions
  <2>2. strWaiting' \in [Callers -> Tokens \cup {None}] /\ strAsked' \in [Callers -> SUBSET Tokens]
    BY <1>1, <1>2
  <2>3. /\ strWanted' \in Seq(Tokens) /\ Len(strWanted') <= MaxSubscriptions
        /\ \A i, j \in 1..Len(strWanted') : strWanted'[i] = strWanted'[j] => i = j
    BY <1>1, PutLast DEF StreamInv
  <2>4. strSubscribed' \subseteq Tokens /\ strInitial' \subseteq Tokens
        /\ strServing' \subseteq Tokens /\ strOut' \in Seq(Command)
    BY <1>1 DEF StreamInv, Subscriptions
  <2> QED
    BY <2>1, <2>2, <2>3, <2>4 DEF Subscriptions
<1>9. Wire'
  <2>1. strBooks' \in [Tokens -> 0..MaxVersion] /\ strFresh' \subseteq Tokens
    <3>1. 0 \in 0..MaxVersion
      BY StreamNumbers
    <3> QED
      BY <1>1, <1>2, <3>1 DEF StreamInv, Wire
  <2>2. strLoop' # "up" => strLoop # "up"
    BY <1>1
  <2>3. strLoop' # "up" => strBooks' = [u \in Tokens |-> 0]
    <3> SUFFICES ASSUME strLoop' # "up" PROVE strBooks' = [u \in Tokens |-> 0]
      OBVIOUS
    <3>1. \A u \in Tokens : strBooks[u] = 0
      BY <2>2 DEF StreamInv, Wire
    <3> QED
      BY <1>1, <3>1
  <2>4. Chained(strIn', strBooks')
    <3>1. Chained(strIn, strBooks) /\ \A j \in 1..Len(strIn) : strIn[j].token \in Tokens
      <4>1. strIn \in Seq(Message) /\ Chained(strIn, strBooks)
        BY DEF StreamInv, Wire
      <4>2. \A j \in 1..Len(strIn) : strIn[j] \in Message
        BY <4>1
      <4>3. \A m \in Message : m.token \in Tokens
        BY DEF Message
      <4> QED
        BY <4>1, <4>2, <4>3
    <3>2. ASSUME NEW j \in 1..Len(strIn), strBooks[strIn[j].token] \in {0, strIn[j].version - 1}
          PROVE  strBooks'[strIn[j].token] \in {0, strIn[j].version - 1}
      BY <1>5, <3>1, <3>2
    <3> QED
      BY <1>1, <3>1, <3>2 DEF Chained, Follows
  <2>5. ASSUME ~strBroken', NEW u \in strServing'
        PROVE  \/ BringsUp(strIn', u, strVersion'[u])
               \/ NoWord(strIn', u) /\ strBooks'[u] \in {0, strVersion'[u]}
    <3>1. u \in Tokens
      BY <1>1, <2>5 DEF StreamInv, Subscriptions
    <3>2. \/ BringsUp(strIn, u, strVersion[u])
          \/ NoWord(strIn, u) /\ strBooks[u] \in {0, strVersion[u]}
      BY <1>1, <2>5 DEF StreamInv, Wire
    <3> QED
      BY <1>1, <1>5, <3>1, <3>2 DEF BringsUp, NoWord
  <2> QED
    BY <1>1, <2>1, <2>2, <2>3, <2>4, <2>5 DEF StreamInv, Wire
<1>10. Served'
  <2>1. \A u \in Tokens : strBooks'[u] # 0 => u \in Stream!Want'
    BY <1>3, <1>5 DEF StreamInv, Served
  <2>2. strLoop' = "up" /\ ~strBroken' => strLoop = "up" /\ ~strBroken
    BY <1>1
  <2>3. strLoop' = "up" /\ ~strBroken' => \A u \in strSubscribed' :
          Subscribes(strOut', u) \/ (Silent(strOut', u) /\ u \in strServing')
    BY <1>1, <2>2 DEF StreamInv, Served, Subscribes, Silent
  <2>4. ASSUME ~Stream!Usable(t) PROVE Stream!SnapshotComing(t)'
    <3>1. t \in strRefresh' /\ t \in Stream!Want'
      BY <1>1, <1>3, <2>4 DEF Stream!Needed
    <3> QED
      BY <3>1 DEF Stream!SnapshotComing, Stream!Added, Stream!Renewed
  <2>5. ASSUME strLoop' = "up", ~strBroken', NEW d \in Callers, NEW w \in Stream!Want',
               strWaiting'[d] = w
        PROVE  Stream!Usable(w)' \/ Stream!SnapshotComing(w)'
    <3>1. w # None
      BY <1>3, <1>4, <2>5, StreamNumbers
    <3>2. CASE w = t /\ ~Stream!Usable(t)
      <4>1. Stream!SnapshotComing(t)'
        BY <2>4, <3>2
      <4> QED
        BY <3>2, <4>1
    <3>3. CASE w # t \/ Stream!Usable(t)
      <4>1. d # c /\ strWaiting[d] = w
        BY <1>6, <2>5, <3>1, <3>3
      <4>2. ASSUME w = t PROVE w \in Stream!Want
        <5>1. strBooks[t] # 0
          BY <3>3, <4>1, <4>2 DEF Stream!Usable
        <5> QED
          BY <4>2, <5>1 DEF StreamInv, Served
      <4>3. w \in Stream!Want
        BY <1>3, <2>5, <4>1, <4>2
      <4>4. w \in Tokens /\ w \notin gone
        <5>1. ASSUME w = t PROVE gone = {}
          BY <4>2, <5>1 DEF Stream!Evicted
        <5>2. w \in Stream!Want \ gone \/ w = t
          BY <1>3, <2>5
        <5>3. w \notin gone
          BY <5>1, <5>2
        <5> QED
          BY <1>4, <4>3, <5>3
      <4>5. Stream!Usable(w) \/ Stream!SnapshotComing(w)
        BY <2>2, <2>5, <4>1, <4>3 DEF StreamInv, Served
      <4>6. ASSUME Stream!Usable(w) PROVE Stream!Usable(w)'
        <5>1. strBooks'[w] # 0 /\ w \in strFresh' /\ strLoop' = "up"
          BY <1>1, <1>5, <2>5, <4>4, <4>6 DEF Stream!Usable
        <5> QED
          BY <4>1, <5>1 DEF Stream!Usable, Stream!Connected
      <4>7. ASSUME Stream!SnapshotComing(w) PROVE Stream!SnapshotComing(w)'
        <5>1. CASE w \in Stream!Added \/ w \in Stream!Renewed
          <6>1. w \in Stream!Want' /\ (w \in strRefresh => w \in strRefresh')
            BY <1>1, <2>5, <4>1, <4>4
          <6> QED
            BY <1>1, <4>1, <5>1, <6>1 DEF Stream!SnapshotComing, Stream!Added, Stream!Renewed
        <5>2. CASE ~(w \in Stream!Added \/ w \in Stream!Renewed)
          BY <1>1, <4>1, <4>7, <5>2 DEF Stream!SnapshotComing
        <5> QED
          BY <5>1, <5>2
      <4> QED
        BY <4>5, <4>6, <4>7
    <3> QED
      BY <3>2, <3>3
  <2> QED
    BY <2>1, <2>3, <2>5 DEF Served
<1>11. ASSUME NEW d \in Callers, strWaiting'[d] # None
       PROVE  /\ \A i, j \in 1..Len(strWanted') :
                   strWanted'[i] = strWaiting'[d] /\ i < j => strWanted'[j] \in strAsked'[d]
              /\ strWaiting'[d] \notin Stream!Want' =>
                   Cardinality(strAsked'[d] \ {strWaiting'[d]}) >= MaxSubscriptions
  <2>1. /\ \A i, j \in 1..Len(strWanted') : i < j =>
             /\ strWanted'[i] # t
             /\ \/ strWanted'[j] = t
                \/ \E k, l \in 1..Len(strWanted) :
                     k < l /\ strWanted[k] = strWanted'[i] /\ strWanted[l] = strWanted'[j]
    BY <1>1, PutLast DEF StreamInv
  <2>2. CASE d = c
    <3>1. strWaiting'[d] = t /\ t \in Stream!Want'
      BY <1>3, <1>6, <1>11, <2>2
    <3> QED
      BY <2>1, <3>1
  <2>3. CASE d # c
    <3> DEFINE w == strWaiting[d]
    <3>1. strWaiting'[d] = w /\ strAsked'[d] = strAsked[d] \cup {t} /\ w # None
      BY <1>6, <1>11, <2>3
    <3>2. /\ \A i, j \in 1..Len(strWanted) : strWanted[i] = w /\ i < j => strWanted[j] \in strAsked[d]
          /\ w \notin Stream!Want => Cardinality(strAsked[d] \ {w}) >= MaxSubscriptions
      BY <3>1 DEF StreamInv, AskedSince
    <3> HIDE DEF w
    <3>3. \A i, j \in 1..Len(strWanted') :
            strWanted'[i] = w /\ i < j => strWanted'[j] \in strAsked'[d]
      BY <2>1, <3>1, <3>2
    <3>4. ASSUME w \notin Stream!Want'
          PROVE  Cardinality(strAsked'[d] \ {w}) >= MaxSubscriptions
      <4> DEFINE now == strAsked'[d] \ {w}
      <4>1. IsFiniteSet(now) /\ Cardinality(now) \in Nat
        <5>1. now \subseteq Tokens
          BY <1>2, <3>1
        <5> QED
          BY <5>1, StreamNumbers, FS_Subset, FS_CardinalityType
      <4>2. CASE w \notin Stream!Want
        <5>1. strAsked[d] \ {w} \subseteq now
          BY <3>1
        <5>2. Cardinality(strAsked[d] \ {w}) <= Cardinality(now) /\ Cardinality(strAsked[d] \ {w}) \in Nat
          BY <4>1, <5>1, FS_Subset, FS_CardinalityType
        <5> QED
          BY <3>2, <4>1, <4>2, <5>2, StreamNumbers
      <4>3. CASE w \in Stream!Want
        <5> DEFINE n == Len(strWanted)
        <5>1. w = strWanted[1] /\ t \notin Stream!Want /\ n = MaxSubscriptions
          BY <1>3, <3>4, <4>3 DEF Stream!Evicted
        <5>2. n \in Nat \ {0} /\ \A k \in 1..n : strWanted[k] \in Stream!Want
          <6>1. n \in Nat \ {0}
            BY <5>1, StreamNumbers
          <6>2. DOMAIN strWanted = 1..n
            BY <1>2
          <6> QED
            BY <6>1, <6>2, WantedTokens
        <5> DEFINE f == [k \in 1..n |-> IF k = 1 THEN t ELSE strWanted[k]]
        <5>3. f \in Injection(1..n, now)
          <6>1. ASSUME NEW k \in 1..n PROVE f[k] \in now
            <7>1. CASE k = 1
              <8>1. f[k] = t /\ t # w
                BY <4>3, <5>1, <7>1
              <8> QED
                BY <3>1, <8>1
            <7>2. CASE k # 1
              <8>1. 1 \in 1..n /\ 1 < k /\ f[k] = strWanted[k]
                BY <5>2, <7>2
              <8>2. strWanted[k] \in strAsked[d] /\ strWanted[k] # w
                BY <1>2, <3>2, <5>1, <7>2, <8>1
              <8> QED
                BY <3>1, <8>1, <8>2
            <7> QED
              BY <7>1, <7>2
          <6>2. ASSUME NEW k \in 1..n, NEW l \in 1..n, f[k] = f[l] PROVE k = l
            BY <1>2, <5>1, <5>2, <6>2
          <6> HIDE DEF now, n
          <6> QED
            BY <6>1, <6>2 DEF Injection, IsInjective
        <5>4. Cardinality(1..n) <= Cardinality(now)
          BY <4>1, <5>3, FS_Injection
        <5>5. Cardinality(1..n) = n
          BY <5>2, FS_Interval
        <5> QED
          BY <4>1, <5>1, <5>2, <5>4, <5>5, StreamNumbers
      <4> QED
        BY <4>2, <4>3
    <3> QED
      BY <3>1, <3>3, <3>4 DEF w
  <2> QED
    BY <2>2, <2>3
<1> QED
  BY <1>7, <1>8, <1>9, <1>10, <1>11 DEF StreamInv, AskedSince
(* The connection stands: no book is held, and whatever the connection opens *)
(* with is about to be asked of the venue.                                  *)
LEMMA ConnectKeeps == ASSUME StreamInv, Stream!Connect PROVE StreamInv'
<1>1. /\ strBooks' = [t \in Tokens |-> 0] /\ strFresh' = {} /\ strLoop' = "up"
      /\ strSubscribed' = strInitial /\ strRefresh' = strRefresh \ strInitial
      /\ strOut' = Stream!Commands("subscribe", strInitial) /\ strIn' = <<>>
      /\ strServing' = {} /\ strBroken' = FALSE
      /\ UNCHANGED <<strWanted, strInitial, strWaiting, strAsked, strStopped, strVersion>>
  BY DEF Stream!Connect
<1>2. /\ strOut' \in Seq(Command)
      /\ \A t \in strInitial : Subscribes(strOut', t)
  BY <1>1, CommandsSay DEF StreamInv, Subscriptions
<1>3. StreamFlags'
  BY <1>1 DEF StreamInv, StreamFlags
<1>4. Subscriptions'
  BY <1>1, <1>2 DEF StreamInv, Subscriptions
<1>5. Wire'
  <2>1. strIn' \in Seq(Message) /\ Len(strIn') = 0
    BY <1>1
  <2>2. Chained(strIn', strBooks')
    BY <2>1 DEF Chained
  <2>3. strBooks' \in [Tokens -> 0..MaxVersion]
    BY <1>1, StreamNumbers
  <2> QED
    BY <1>1, <2>1, <2>2, <2>3 DEF StreamInv, Wire
<1>6. Stream!Want' = Stream!Want
  BY <1>1 DEF Stream!Want
<1>7. Served'
  <2>1. ASSUME NEW t \in Stream!Want' PROVE Stream!SnapshotComing(t)'
    <3>1. CASE t \in strInitial
      <4>1. Subscribes(strOut', t)
        BY <1>2, <3>1
      <4> QED
        BY <4>1 DEF Subscribes, Stream!SnapshotComing
    <3>2. CASE t \notin strInitial
      BY <1>1, <2>1, <3>2 DEF Stream!SnapshotComing, Stream!Added
    <3> QED
      BY <3>1, <3>2
  <2>2. \A t \in Tokens : strBooks'[t] = 0
    BY <1>1
  <2>3. \A t \in strSubscribed' : Subscribes(strOut', t)
    BY <1>1, <1>2
  <2> QED
    BY <2>1, <2>2, <2>3 DEF Served
<1>8. AskedSince'
  BY <1>1, <1>6 DEF StreamInv, AskedSince
<1> QED
  BY <1>3, <1>4, <1>5, <1>7, <1>8 DEF StreamInv

(* What is subscribed is brought in line with what is wanted: the last      *)
(* command on a token that was added or is to be renewed subscribes it, on  *)
(* one that stays nothing is said.                                          *)
LEMMA SynchroniseKeeps == ASSUME StreamInv, Stream!Synchronise PROVE StreamInv'
<1> DEFINE removed == strSubscribed \ Stream!Want
           added == Stream!Added
           renewed == Stream!Renewed
           one == strOut \o Stream!Commands("unsubscribe", removed)
           two == one \o Stream!Commands("subscribe", added)
           three == two \o Stream!Commands("unsubscribe", renewed)
           four == three \o Stream!Commands("subscribe", renewed)
<1>1. /\ strSubscribed' = (strSubscribed \ removed) \cup added
      /\ strRefresh' = strRefresh \ (added \cup renewed) /\ strOut' = four
      /\ UNCHANGED <<strWanted, strBooks, strFresh, strLoop, strInitial, strWaiting, strAsked,
                     strStopped, strVersion, strServing, strBroken, strIn>>
  BY DEF Stream!Synchronise, Stream!RefreshLeft
<1>2. /\ strOut \in Seq(Command) /\ strSubscribed \subseteq Tokens /\ Stream!Want \subseteq Tokens
      /\ strLoop = "up"
  BY WantedTokens DEF StreamInv, Subscriptions, Stream!Synchronise
<1>3. removed \in SUBSET Tokens /\ added \in SUBSET Tokens /\ renewed \in SUBSET Tokens
  BY <1>2 DEF Stream!Added, Stream!Renewed
<1>4. /\ Stream!Commands("unsubscribe", removed) \in Seq(Command)
      /\ \A t \in Tokens \ removed : Silent(Stream!Commands("unsubscribe", removed), t)
      /\ Stream!Commands("subscribe", added) \in Seq(Command)
      /\ \A t \in Tokens \ added : Silent(Stream!Commands("subscribe", added), t)
      /\ \A t \in added : Subscribes(Stream!Commands("subscribe", added), t)
      /\ Stream!Commands("unsubscribe", renewed) \in Seq(Command)
      /\ \A t \in Tokens \ renewed : Silent(Stream!Commands("unsubscribe", renewed), t)
      /\ Stream!Commands("subscribe", renewed) \in Seq(Command)
      /\ \A t \in Tokens \ renewed : Silent(Stream!Commands("subscribe", renewed), t)
      /\ \A t \in renewed : Subscribes(Stream!Commands("subscribe", renewed), t)
  BY <1>3, CommandsSay
<1>5. one \in Seq(Command) /\ two \in Seq(Command) /\ three \in Seq(Command) /\ four \in Seq(Command)
  BY <1>2, <1>4
<1> HIDE DEF removed, added, renewed
<1>6. ASSUME NEW t \in added, t \notin renewed PROVE Subscribes(four, t)
  <2>1. t \in Tokens \ renewed
    BY <1>3, <1>6
  <2>2. Subscribes(two, t)
    BY <1>4, <1>5, <1>6, Joined
  <2>3. Subscribes(three, t)
    BY <1>4, <1>5, <2>1, <2>2, Joined
  <2> QED
    BY <1>4, <1>5, <2>1, <2>3, Joined
<1>7. ASSUME NEW t \in renewed PROVE Subscribes(four, t)
  BY <1>4, <1>5, <1>7, Joined
<1>8. ASSUME NEW t \in Tokens, t \notin removed, t \notin added, t \notin renewed
      PROVE  /\ Subscribes(strOut, t) => Subscribes(four, t)
             /\ Silent(strOut, t) => Silent(four, t)
  <2>1. Subscribes(strOut, t) => Subscribes(one, t)
    BY <1>2, <1>4, <1>8, Joined
  <2>2. Subscribes(one, t) => Subscribes(two, t)
    BY <1>4, <1>5, <1>8, Joined
  <2>3. Subscribes(two, t) => Subscribes(three, t)
    BY <1>4, <1>5, <1>8, Joined
  <2>4. Subscribes(three, t) => Subscribes(four, t)
    BY <1>4, <1>5, <1>8, Joined
  <2>5. Silent(strOut, t) => Silent(one, t)
    BY <1>2, <1>4, <1>8, Joined
  <2>6. Silent(one, t) => Silent(two, t)
    BY <1>4, <1>5, <1>8, Joined
  <2>7. Silent(two, t) => Silent(three, t)
    BY <1>4, <1>5, <1>8, Joined
  <2>8. Silent(three, t) => Silent(four, t)
    BY <1>4, <1>5, <1>8, Joined
  <2> HIDE DEF one, two, three, four
  <2> QED
    BY <2>1, <2>2, <2>3, <2>4, <2>5, <2>6, <2>7, <2>8
<1>9. \A i \in 1..Len(strOut) : i \in 1..Len(four) /\ four[i] = strOut[i]
  <2>1. ASSUME NEW q \in Seq(Command), NEW p \in Seq(Command), NEW i \in 1..Len(q)
        PROVE  i \in 1..Len(q \o p) /\ (q \o p)[i] = q[i]
    BY <2>1
  <2> SUFFICES ASSUME NEW i \in 1..Len(strOut) PROVE i \in 1..Len(four) /\ four[i] = strOut[i]
    OBVIOUS
  <2>2. i \in 1..Len(one) /\ one[i] = strOut[i]
    BY <1>2, <1>4, <2>1
  <2>3. i \in 1..Len(two) /\ two[i] = strOut[i]
    BY <1>4, <1>5, <2>1, <2>2
  <2>4. i \in 1..Len(three) /\ three[i] = strOut[i]
    BY <1>4, <1>5, <2>1, <2>3
  <2> QED
    BY <1>4, <1>5, <2>1, <2>4
<1> HIDE DEF one, two, three, four
<1>10. StreamFlags'
  BY <1>1 DEF StreamInv, StreamFlags
<1>11. Subscriptions'
  BY <1>1, <1>2, <1>3, <1>5 DEF StreamInv, Subscriptions
<1>12. Wire'
  BY <1>1, <1>2 DEF StreamInv, Wire, Chained, Follows, BringsUp, NoWord
<1>13. Stream!Want' = Stream!Want
  BY <1>1 DEF Stream!Want
<1>14. Served'
  <2>1. \A t \in Tokens : strBooks'[t] # 0 => t \in Stream!Want'
    BY <1>1, <1>13 DEF StreamInv, Served
  <2>2. ASSUME ~strBroken', NEW t \in strSubscribed'
        PROVE  Subscribes(strOut', t) \/ (Silent(strOut', t) /\ t \in strServing')
    <3>1. CASE t \in renewed
      BY <1>1, <1>7, <3>1
    <3>2. CASE t \in added /\ t \notin renewed
      BY <1>1, <1>6, <3>2
    <3>3. CASE t \notin added /\ t \notin renewed
      <4>1. t \in strSubscribed /\ t \notin removed /\ t \in Tokens
        BY <1>1, <1>2, <2>2, <3>3
      <4>2. Subscribes(strOut, t) \/ (Silent(strOut, t) /\ t \in strServing)
        BY <1>1, <1>2, <2>2, <4>1 DEF StreamInv, Served
      <4> QED
        BY <1>1, <1>8, <3>3, <4>1, <4>2
    <3> QED
      BY <3>1, <3>2, <3>3
  <2>3. ASSUME ~strBroken', NEW c \in Callers, NEW t \in Stream!Want', strWaiting'[c] = t
        PROVE  Stream!Usable(t)' \/ Stream!SnapshotComing(t)'
    <3>1. Stream!Usable(t) \/ Stream!SnapshotComing(t)
      BY <1>1, <1>2, <1>13, <2>3 DEF StreamInv, Served
    <3>2. Stream!Usable(t) => Stream!Usable(t)'
      BY <1>1 DEF Stream!Usable, Stream!Connected
    <3>3. ASSUME t \in added \/ t \in renewed PROVE Stream!SnapshotComing(t)'
      <4>1. Subscribes(strOut', t)
        BY <1>1, <1>6, <1>7, <3>3
      <4> QED
        BY <4>1 DEF Subscribes, Stream!SnapshotComing
    <3>4. ASSUME \E i \in 1..Len(strOut) : strOut[i] = <<"subscribe", t>>
          PROVE  Stream!SnapshotComing(t)'
      <4>1. \E i \in 1..Len(strOut') : strOut'[i] = <<"subscribe", t>>
        BY <1>1, <1>9, <3>4
      <4> QED
        BY <4>1 DEF Stream!SnapshotComing
    <3>5. ASSUME \E i \in 1..Len(strIn) : strIn[i].kind = "book" /\ strIn[i].token = t
          PROVE  Stream!SnapshotComing(t)'
      BY <1>1, <3>5 DEF Stream!SnapshotComing
    <3> QED
      BY <3>1, <3>2, <3>3, <3>4, <3>5 DEF Stream!SnapshotComing, added, renewed
  <2> QED
    BY <2>1, <2>2, <2>3 DEF Served
<1>15. AskedSince'
  BY <1>1, <1>13 DEF StreamInv, AskedSince
<1> QED
  BY <1>10, <1>11, <1>12, <1>14, <1>15 DEF StreamInv

(* The connection is lost, or the socket breaks unnoticed: with it goes all *)
(* that was under way.                                                      *)
LEMMA LossKeeps ==
  ASSUME StreamInv, Stream!Disconnect \/ Stream!Break PROVE StreamInv'
<1>1. /\ strIn' = <<>> /\ strOut' = <<>>
      /\ \/ /\ strLoop' \in {"off", "idle"} /\ strServing' = {} /\ strBroken' = FALSE
            /\ strBooks' = [t \in Tokens |-> 0] /\ strFresh' = {} /\ strSubscribed' = {}
         \/ /\ strLoop = "up" /\ strBroken' = TRUE
            /\ UNCHANGED <<strLoop, strServing, strBooks, strFresh, strSubscribed>>
      /\ UNCHANGED <<strWanted, strRefresh, strInitial, strWaiting, strAsked, strStopped, strVersion>>
  BY DEF Stream!Disconnect, Stream!Break, Stream!client
<1>2. StreamFlags'
  BY <1>1 DEF StreamInv, StreamFlags
<1>3. Subscriptions'
  <2>1. strOut' \in Seq(Command) /\ strServing' \subseteq Tokens /\ strSubscribed' \subseteq Tokens
    BY <1>1 DEF StreamInv, Subscriptions
  <2> QED
    BY <1>1, <2>1 DEF StreamInv, Subscriptions
<1>4. Wire'
  <2>1. strIn' \in Seq(Message) /\ Len(strIn') = 0
    BY <1>1
  <2>2. Chained(strIn', strBooks')
    BY <2>1 DEF Chained
  <2>3. strBooks' \in [Tokens -> 0..MaxVersion] /\ strFresh' \subseteq Tokens
    BY <1>1, StreamNumbers DEF StreamInv, Wire
  <2>4. strLoop' \in {"off", "idle", "connecting", "up"}
    BY <1>1 DEF StreamInv, Wire
  <2>5. strLoop' # "up" => /\ strServing' = {} /\ ~strBroken' /\ strBooks' = [t \in Tokens |-> 0]
    BY <1>1
  <2>6. ~strBroken' => strServing' = {}
    BY <1>1
  <2> QED
    BY <1>1, <2>1, <2>2, <2>3, <2>4, <2>5, <2>6 DEF StreamInv, Wire
<1>5. Stream!Want' = Stream!Want
  BY <1>1 DEF Stream!Want
<1>6. Served'
  <2>1. ~(strLoop' = "up" /\ ~strBroken')
    BY <1>1
  <2>2. \A t \in Tokens : strBooks'[t] \in {0, strBooks[t]}
    BY <1>1
  <2> QED
    BY <1>5, <2>1, <2>2 DEF StreamInv, Served
<1>7. AskedSince'
  BY <1>1, <1>5 DEF StreamInv, AskedSince
<1> QED
  BY <1>2, <1>3, <1>4, <1>6, <1>7 DEF StreamInv
(* A message is taken from the wire: a change is the one after the book     *)
(* held, so the book stays a whole one.                                     *)
LEMMA ReceiveKeeps == ASSUME StreamInv, Stream!Receive PROVE StreamInv'
<1> DEFINE m == Head(strIn)
           v == IF m.kind = "book" THEN m.version ELSE Stream!AcceptChange(m.token, m.version)
           taken == m.token \in Stream!Want /\ v # 0
<1>1. /\ strIn # <<>> /\ strIn' = Tail(strIn) /\ strLoop = "up"
      /\ taken => /\ strBooks' = [strBooks EXCEPT ![m.token] = v]
                  /\ strFresh' = strFresh \cup {m.token}
      /\ ~taken => UNCHANGED <<strBooks, strFresh>>
      /\ UNCHANGED <<strWanted, strSubscribed, strRefresh, strLoop, strInitial, strWaiting, strAsked,
                     strStopped, strVersion, strServing, strBroken, strOut>>
  BY DEF Stream!Receive
<1>2. /\ strIn \in Seq(Message) /\ Chained(strIn, strBooks)
      /\ strBooks \in [Tokens -> 0..MaxVersion] /\ strVersion \in [Tokens -> 1..MaxVersion]
      /\ strFresh \subseteq Tokens
  BY DEF StreamInv, Wire
<1>3. m \in Message /\ Len(strIn) \in Nat \ {0} /\ m = strIn[1] /\ 1 \in 1..Len(strIn)
  BY <1>1, <1>2
<1>4. m.kind \in {"book", "change"} /\ m.token \in Tokens /\ m.version \in 1..MaxVersion
  BY <1>3 DEF Message
<1>5. m.kind = "change" => strBooks[m.token] \in {0, m.version - 1}
  <2>1. ~Follows(strIn, 1)
    BY DEF Follows
  <2> QED
    BY <1>2, <1>3, <2>1 DEF Chained
<1>6. v \in {0, m.version} /\ (v = 0 => m.kind = "change" /\ strBooks[m.token] = 0)
  BY <1>4, <1>5, StreamNumbers DEF Stream!AcceptChange
<1>7. Stream!Want' = Stream!Want
  BY <1>1 DEF Stream!Want
<1>8. m.token \notin Stream!Want => strBooks[m.token] = 0
  BY <1>4 DEF StreamInv, Served
<1> HIDE DEF v, m
<1>9. /\ \A t \in Tokens : t # m.token => strBooks'[t] = strBooks[t]
      /\ strBooks'[m.token] \in {0, m.version}
      /\ strBooks' \in [Tokens -> 0..MaxVersion] /\ strFresh' \subseteq Tokens
  <2>1. CASE taken
    <3>1. v \in 0..MaxVersion
      BY <1>4, <1>6, StreamNumbers
    <3> QED
      BY <1>1, <1>2, <1>4, <1>6, <2>1, <3>1
  <2>2. CASE ~taken
    <3>1. strBooks[m.token] = 0
      BY <1>6, <1>8, <2>2
    <3> QED
      BY <1>1, <1>2, <2>2, <3>1
  <2> QED
    BY <2>1, <2>2
<1>10. /\ strIn' \in Seq(Message) /\ Chained(strIn', strBooks')
       /\ \A t \in Tokens, n \in Nat :
            BringsUp(strIn, t, n) =>
              BringsUp(strIn', t, n) \/ (NoWord(strIn', t) /\ strBooks'[t] \in {0, n})
       /\ \A t \in Tokens : NoWord(strIn, t) => NoWord(strIn', t) /\ strBooks'[t] = strBooks[t]
  <2> DEFINE new == strBooks'
  <2>1. /\ \A t \in Tokens : t # Head(strIn).token => new[t] = strBooks[t]
        /\ new[Head(strIn).token] \in {0, Head(strIn).version}
    BY <1>9 DEF m
  <2> HIDE DEF new
  <2>2. /\ Tail(strIn) \in Seq(Message) /\ Chained(Tail(strIn), new)
        /\ \A t \in Tokens, n \in Nat :
             BringsUp(strIn, t, n) =>
               BringsUp(Tail(strIn), t, n) \/ (NoWord(Tail(strIn), t) /\ new[t] \in {0, n})
        /\ \A t \in Tokens : NoWord(strIn, t) => NoWord(Tail(strIn), t) /\ new[t] = strBooks[t]
    BY <1>1, <1>2, <2>1, MessageTaken
  <2> QED
    BY <1>1, <2>2 DEF new
<1>11. StreamFlags'
  BY <1>1 DEF StreamInv, StreamFlags
<1>12. Subscriptions'
  BY <1>1 DEF StreamInv, Subscriptions
<1>13. Wire'
  <2>1. strBroken = FALSE
    <3>1. strBroken => strIn = <<>>
      BY DEF StreamInv, Wire
    <3> QED
      BY <1>1, <3>1 DEF StreamInv, StreamFlags
  <2>2. ASSUME NEW t \in strServing'
        PROVE  \/ BringsUp(strIn', t, strVersion'[t])
               \/ NoWord(strIn', t) /\ strBooks'[t] \in {0, strVersion'[t]}
    <3>1. t \in Tokens /\ strVersion'[t] = strVersion[t] /\ strVersion[t] \in Nat
      BY <1>1, <1>2, <2>2, StreamNumbers DEF StreamInv, Subscriptions
    <3>2. \/ BringsUp(strIn, t, strVersion[t])
          \/ NoWord(strIn, t) /\ strBooks[t] \in {0, strVersion[t]}
      BY <1>1, <2>1, <2>2 DEF StreamInv, Wire
    <3> QED
      BY <1>10, <3>1, <3>2
  <2> QED
    BY <1>1, <1>2, <1>9, <1>10, <2>1, <2>2 DEF Wire
<1>14. Served'
  <2>1. \A t \in Tokens : strBooks'[t] # 0 => t \in Stream!Want'
    <3> SUFFICES ASSUME NEW t \in Tokens, strBooks'[t] # 0 PROVE t \in Stream!Want
      BY <1>7
    <3>1. CASE taken /\ t = m.token
      BY <3>1
    <3>2. CASE ~(taken /\ t = m.token)
      <4>1. strBooks'[t] = strBooks[t]
        BY <1>1, <1>9, <3>2
      <4> QED
        BY <4>1 DEF StreamInv, Served
    <3> QED
      BY <3>1, <3>2
  <2>2. ~strBroken' => \A t \in strSubscribed' :
          Subscribes(strOut', t) \/ (Silent(strOut', t) /\ t \in strServing')
    BY <1>1 DEF StreamInv, Served, Subscribes, Silent
  <2>3. ASSUME ~strBroken', NEW c \in Callers, NEW t \in Stream!Want', strWaiting'[c] = t
        PROVE  Stream!Usable(t)' \/ Stream!SnapshotComing(t)'
    <3>1. Stream!Usable(t) \/ Stream!SnapshotComing(t)
      BY <1>1, <1>7, <2>3 DEF StreamInv, Served
    <3>2. t \in Tokens
      BY <1>7, WantedTokens DEF StreamInv, Subscriptions
    <3>3. ASSUME taken, m.token = t PROVE Stream!Usable(t)'
      <4>1. strBooks'[t] # 0 /\ t \in strFresh' /\ strLoop' = "up"
        BY <1>1, <1>2, <3>2, <3>3
      <4> QED
        BY <4>1 DEF Stream!Usable, Stream!Connected
    <3>4. ASSUME ~(taken /\ m.token = t), Stream!Usable(t) PROVE Stream!Usable(t)'
      <4>1. strBooks'[t] = strBooks[t] /\ (t \in strFresh => t \in strFresh')
        BY <1>1, <1>9, <3>2, <3>4
      <4> QED
        BY <1>1, <3>4, <4>1 DEF Stream!Usable, Stream!Connected
    <3>5. ASSUME NEW i \in 1..Len(strIn), strIn[i].kind = "book", strIn[i].token = t
          PROVE  Stream!Usable(t)' \/ Stream!SnapshotComing(t)'
      <4>1. CASE i = 1
        <5>1. m.kind = "book" /\ m.token = t
          BY <1>3, <3>5, <4>1
        <5>2. taken
          BY <1>4, <1>6, <1>7, <2>3, <5>1
        <5> QED
          BY <3>3, <5>1, <5>2
      <4>2. CASE i # 1
        <5>1. i - 1 \in 1..Len(strIn') /\ strIn'[i - 1] = strIn[i]
          BY <1>1, <1>2, <4>2
        <5> QED
          BY <3>5, <5>1 DEF Stream!SnapshotComing
      <4> QED
        BY <4>1, <4>2
    <3>6. ASSUME Stream!SnapshotComing(t),
                 ~\E i \in 1..Len(strIn) : strIn[i].kind = "book" /\ strIn[i].token = t
          PROVE  Stream!SnapshotComing(t)'
      BY <1>1, <1>7, <3>6 DEF Stream!SnapshotComing, Stream!Added, Stream!Renewed
    <3> QED
      BY <3>1, <3>3, <3>4, <3>5, <3>6
  <2> QED
    BY <2>1, <2>2, <2>3 DEF Served
<1>15. AskedSince'
  BY <1>1, <1>7 DEF StreamInv, AskedSince
<1> QED
  BY <1>11, <1>12, <1>13, <1>14, <1>15 DEF StreamInv

(* The venue takes a command: a subscription it answers with the book it    *)
(* has.                                                                     *)
LEMMA VenueTakesKeeps == ASSUME StreamInv, Stream!VenueTakes PROVE StreamInv'
<1> DEFINE cmd == Head(strOut)
           s == cmd[2]
           m == [kind |-> "book", token |-> s, version |-> strVersion[s]]
<1>1. /\ strOut # <<>> /\ ~strBroken /\ strOut' = Tail(strOut)
      /\ cmd[1] = "subscribe" => strServing' = strServing \cup {s} /\ strIn' = Append(strIn, m)
      /\ cmd[1] # "subscribe" => strServing' = strServing \ {s} /\ strIn' = strIn
      /\ UNCHANGED <<strWanted, strSubscribed, strRefresh, strBooks, strFresh, strLoop, strInitial,
                     strWaiting, strAsked, strStopped, strVersion, strBroken>>
  BY DEF Stream!VenueTakes, Stream!client
<1>2. /\ strOut \in Seq(Command) /\ strIn \in Seq(Message) /\ Chained(strIn, strBooks)
      /\ strVersion \in [Tokens -> 1..MaxVersion] /\ strServing \subseteq Tokens
  BY DEF StreamInv, Wire, Subscriptions
<1>3. strLoop = "up"
  BY <1>1 DEF StreamInv, Wire
<1>4. /\ strOut' \in Seq(Command) /\ cmd \in Command
      /\ \A t : Silent(strOut, t) => Silent(strOut', t) /\ s # t
      /\ \A t : Subscribes(strOut, t) =>
           Subscribes(strOut', t) \/ (cmd = <<"subscribe", t>> /\ Silent(strOut', t))
  BY <1>1, <1>2, CommandTaken
<1>5. s \in Tokens
  BY <1>4 DEF Command
<1>6. m \in Message /\ m.token = s /\ m.version = strVersion[s] /\ m.kind = "book"
  BY <1>2, <1>5 DEF Message
<1> HIDE DEF m
<1>7. /\ Append(strIn, m) \in Seq(Message)
      /\ BringsUp(Append(strIn, m), s, strVersion[s])
      /\ \A t, v : s # t /\ BringsUp(strIn, t, v) => BringsUp(Append(strIn, m), t, v)
      /\ \A t : s # t /\ NoWord(strIn, t) => NoWord(Append(strIn, m), t)
      /\ \A k \in 1..Len(strIn) : k \in 1..Len(Append(strIn, m)) /\ Append(strIn, m)[k] = strIn[k]
      /\ Append(strIn, m)[Len(Append(strIn, m))] = m
      /\ Len(Append(strIn, m)) \in 1..Len(Append(strIn, m))
      /\ Chained(Append(strIn, m), strBooks)
  BY <1>2, <1>6, MessageSent
<1> HIDE DEF s, cmd
<1>8. StreamFlags'
  BY <1>1 DEF StreamInv, StreamFlags
<1>9. Subscriptions'
  <2>1. strServing' \subseteq Tokens
    BY <1>1, <1>2, <1>5
  <2> QED
    BY <1>1, <1>4, <2>1 DEF StreamInv, Subscriptions
<1>10. Wire'
  <2>1. strIn' \in Seq(Message) /\ Chained(strIn', strBooks')
    BY <1>1, <1>2, <1>7
  <2>2. ASSUME NEW t \in strServing'
        PROVE  \/ BringsUp(strIn', t, strVersion'[t])
               \/ NoWord(strIn', t) /\ strBooks'[t] \in {0, strVersion'[t]}
    <3>1. CASE t = s
      <4>1. cmd[1] = "subscribe"
        BY <1>1, <2>2, <3>1
      <4> QED
        BY <1>1, <1>7, <3>1, <4>1
    <3>2. CASE t # s
      <4>1. t \in strServing
        BY <1>1, <2>2, <3>2
      <4>2. \/ BringsUp(strIn, t, strVersion[t])
            \/ NoWord(strIn, t) /\ strBooks[t] \in {0, strVersion[t]}
        BY <1>1, <4>1 DEF StreamInv, Wire
      <4> QED
        BY <1>1, <1>7, <3>2, <4>2
    <3> QED
      BY <3>1, <3>2
  <2> QED
    BY <1>1, <1>3, <2>1, <2>2 DEF StreamInv, Wire
<1>11. Stream!Want' = Stream!Want
  BY <1>1 DEF Stream!Want
<1>12. Served'
  <2>1. \A t \in Tokens : strBooks'[t] # 0 => t \in Stream!Want'
    BY <1>1, <1>11 DEF StreamInv, Served
  <2>2. ASSUME NEW t \in strSubscribed'
        PROVE  Subscribes(strOut', t) \/ (Silent(strOut', t) /\ t \in strServing')
    <3>1. Subscribes(strOut, t) \/ (Silent(strOut, t) /\ t \in strServing)
      BY <1>1, <1>3, <2>2 DEF StreamInv, Served
    <3>2. ASSUME cmd = <<"subscribe", t>> PROVE t \in strServing'
      <4>1. cmd[1] = "subscribe" /\ s = t
        BY <3>2 DEF s
      <4> QED
        BY <1>1, <4>1
    <3>3. ASSUME Silent(strOut, t), t \in strServing PROVE t \in strServing'
      <4>1. s # t
        BY <1>4, <3>3
      <4> QED
        BY <1>1, <3>3, <4>1
    <3> QED
      BY <1>4, <3>1, <3>2, <3>3
  <2>3. ASSUME NEW c \in Callers, NEW t \in Stream!Want', strWaiting'[c] = t
        PROVE  Stream!Usable(t)' \/ Stream!SnapshotComing(t)'
    <3>1. Stream!Usable(t) \/ Stream!SnapshotComing(t)
      BY <1>1, <1>3, <1>11, <2>3 DEF StreamInv, Served
    <3>2. Stream!Usable(t) => Stream!Usable(t)'
      BY <1>1 DEF Stream!Usable, Stream!Connected
    <3>3. ASSUME NEW i \in 1..Len(strIn), strIn[i].kind = "book", strIn[i].token = t
          PROVE  Stream!SnapshotComing(t)'
      <4>1. i \in 1..Len(strIn') /\ strIn'[i] = strIn[i]
        BY <1>1, <1>7
      <4> QED
        BY <3>3, <4>1 DEF Stream!SnapshotComing
    <3>4. ASSUME NEW i \in 1..Len(strOut), strOut[i] = <<"subscribe", t>>
          PROVE  Stream!SnapshotComing(t)'
      <4>1. CASE i = 1
        <5>1. cmd = <<"subscribe", t>>
          BY <1>1, <1>2, <3>4, <4>1 DEF cmd
        <5>2. cmd[1] = "subscribe" /\ s = t
          BY <5>1 DEF s
        <5>3. /\ Len(strIn') \in 1..Len(strIn') /\ strIn'[Len(strIn')].kind = "book"
              /\ strIn'[Len(strIn')].token = t
          BY <1>1, <1>6, <1>7, <5>2
        <5> QED
          BY <5>3 DEF Stream!SnapshotComing
      <4>2. CASE i # 1
        <5>1. i - 1 \in 1..Len(strOut') /\ strOut'[i - 1] = strOut[i]
          BY <1>1, <1>2, <4>2
        <5> QED
          BY <3>4, <5>1 DEF Stream!SnapshotComing
      <4> QED
        BY <4>1, <4>2
    <3>5. ASSUME t \in Stream!Added \/ t \in Stream!Renewed PROVE Stream!SnapshotComing(t)'
      BY <1>1, <1>11, <3>5 DEF Stream!SnapshotComing, Stream!Added, Stream!Renewed
    <3> QED
      BY <3>1, <3>2, <3>3, <3>4, <3>5 DEF Stream!SnapshotComing
  <2> QED
    BY <2>1, <2>2, <2>3 DEF Served
<1>13. AskedSince'
  BY <1>1, <1>11 DEF StreamInv, AskedSince
<1> QED
  BY <1>8, <1>9, <1>10, <1>12, <1>13 DEF StreamInv

(* A book at the venue changes: whoever is served is told, and the change   *)
(* is the one after all it was told before.                                 *)
LEMMA VenueMovesKeeps ==
  ASSUME StreamInv, NEW s \in Tokens, Stream!VenueMoves(s) PROVE StreamInv'
<1> DEFINE m == [kind |-> "change", token |-> s, version |-> strVersion[s] + 1]
           told == s \in strServing /\ ~strBroken
<1>1. /\ strVersion[s] < MaxVersion /\ strVersion' = [strVersion EXCEPT ![s] = @ + 1]
      /\ strIn' = IF told THEN Append(strIn, m) ELSE strIn
      /\ UNCHANGED <<strWanted, strSubscribed, strRefresh, strBooks, strFresh, strLoop, strInitial,
                     strWaiting, strAsked, strStopped, strServing, strBroken, strOut>>
  BY DEF Stream!VenueMoves, Stream!client
<1>2. /\ strIn \in Seq(Message) /\ Chained(strIn, strBooks)
      /\ strVersion \in [Tokens -> 1..MaxVersion] /\ strServing \subseteq Tokens
  BY DEF StreamInv, Wire, Subscriptions
<1>3. strVersion[s] \in Nat /\ strVersion[s] + 1 \in 1..MaxVersion
  BY <1>1, <1>2, StreamNumbers
<1>4. /\ strVersion' \in [Tokens -> 1..MaxVersion] /\ strVersion'[s] = strVersion[s] + 1
      /\ \A t \in Tokens : t # s => strVersion'[t] = strVersion[t]
  BY <1>1, <1>2, <1>3
<1>5. m \in Message /\ m.token = s /\ m.version = strVersion[s] + 1 /\ m.version - 1 = strVersion[s]
  BY <1>3 DEF Message
<1> HIDE DEF m
<1>6. ASSUME told
      PROVE  /\ Append(strIn, m) \in Seq(Message)
             /\ BringsUp(Append(strIn, m), s, strVersion[s] + 1)
             /\ \A t, v : s # t /\ BringsUp(strIn, t, v) => BringsUp(Append(strIn, m), t, v)
             /\ \A t : s # t /\ NoWord(strIn, t) => NoWord(Append(strIn, m), t)
             /\ \A k \in 1..Len(strIn) :
                  k \in 1..Len(Append(strIn, m)) /\ Append(strIn, m)[k] = strIn[k]
             /\ Chained(Append(strIn, m), strBooks)
  <2>1. \/ BringsUp(strIn, s, strVersion[s])
        \/ NoWord(strIn, s) /\ strBooks[s] \in {0, strVersion[s]}
    BY <1>6 DEF StreamInv, Wire
  <2> QED
    BY <1>2, <1>5, <2>1, MessageSent
<1>7. StreamFlags'
  BY <1>1 DEF StreamInv, StreamFlags
<1>8. Subscriptions'
  BY <1>1 DEF StreamInv, Subscriptions
<1>9. Wire'
  <2>1. strIn' \in Seq(Message) /\ Chained(strIn', strBooks')
    BY <1>1, <1>2, <1>6
  <2>2. ASSUME ~strBroken', NEW t \in strServing'
        PROVE  \/ BringsUp(strIn', t, strVersion'[t])
               \/ NoWord(strIn', t) /\ strBooks'[t] \in {0, strVersion'[t]}
    <3>1. CASE t = s
      <4>1. told
        BY <1>1, <2>2, <3>1
      <4> QED
        BY <1>1, <1>4, <1>6, <3>1, <4>1
    <3>2. CASE t # s
      <4>1. t \in Tokens /\ strVersion'[t] = strVersion[t]
        BY <1>1, <1>2, <1>4, <2>2, <3>2
      <4>2. \/ BringsUp(strIn, t, strVersion[t])
            \/ NoWord(strIn, t) /\ strBooks[t] \in {0, strVersion[t]}
        BY <1>1, <2>2 DEF StreamInv, Wire
      <4>3. CASE told
        BY <1>1, <1>6, <3>2, <4>1, <4>2, <4>3
      <4>4. CASE ~told
        BY <1>1, <4>1, <4>2, <4>4
      <4> QED
        BY <4>3, <4>4
    <3> QED
      BY <3>1, <3>2
  <2>3. strLoop' # "up" => strIn' = <<>>
    BY <1>1 DEF StreamInv, Wire
  <2>4. strBroken' => strIn' = <<>>
    BY <1>1 DEF StreamInv, Wire
  <2> QED
    BY <1>1, <1>4, <2>1, <2>2, <2>3, <2>4 DEF StreamInv, Wire
<1>10. Stream!Want' = Stream!Want
  BY <1>1 DEF Stream!Want
<1>11. Served'
  <2>1. \A t \in Tokens : strBooks'[t] # 0 => t \in Stream!Want'
    BY <1>1, <1>10 DEF StreamInv, Served
  <2>2. strLoop' = "up" /\ ~strBroken' => \A t \in strSubscribed' :
          Subscribes(strOut', t) \/ (Silent(strOut', t) /\ t \in strServing')
    BY <1>1 DEF StreamInv, Served, Subscribes, Silent
  <2>3. ASSUME strLoop' = "up", ~strBroken',
               NEW c \in Callers, NEW t \in Stream!Want', strWaiting'[c] = t
        PROVE  Stream!Usable(t)' \/ Stream!SnapshotComing(t)'
    <3>1. Stream!Usable(t) \/ Stream!SnapshotComing(t)
      BY <1>1, <1>10, <2>3 DEF StreamInv, Served
    <3>2. Stream!Usable(t) => Stream!Usable(t)'
      BY <1>1 DEF Stream!Usable, Stream!Connected
    <3>3. ASSUME NEW i \in 1..Len(strIn), strIn[i].kind = "book", strIn[i].token = t
          PROVE  Stream!SnapshotComing(t)'
      <4>1. i \in 1..Len(strIn') /\ strIn'[i] = strIn[i]
        BY <1>1, <1>6
      <4> QED
        BY <3>3, <4>1 DEF Stream!SnapshotComing
    <3>4. ASSUME Stream!SnapshotComing(t),
                 ~\E i \in 1..Len(strIn) : strIn[i].kind = "book" /\ strIn[i].token = t
          PROVE  Stream!SnapshotComing(t)'
      BY <1>1, <1>10, <3>4 DEF Stream!SnapshotComing, Stream!Added, Stream!Renewed
    <3> QED
      BY <3>1, <3>2, <3>3, <3>4
  <2> QED
    BY <2>1, <2>2, <2>3 DEF Served
<1>12. AskedSince'
  BY <1>1, <1>10 DEF StreamInv, AskedSince
<1> QED
  BY <1>7, <1>8, <1>9, <1>11, <1>12 DEF StreamInv

LEMMA StreamStep == StreamInv /\ [Stream!Next]_Stream!vars => StreamInv'
<1> SUFFICES ASSUME StreamInv, [Stream!Next]_Stream!vars PROVE StreamInv'
  OBVIOUS
<1>1. /\ strStopped \in BOOLEAN /\ strInitial \subseteq Tokens /\ Stream!Want \subseteq Tokens
      /\ strWaiting \in [Callers -> Tokens \cup {None}]
      /\ strLoop \in {"off", "idle", "connecting", "up"}
  BY WantedTokens DEF StreamInv, StreamFlags, Subscriptions, Wire
<1>2. ASSUME NEW c \in Callers, NEW t \in Tokens, Stream!GetBook(c, t) PROVE StreamInv'
  BY <1>2, RequestKeeps
<1>3. ASSUME NEW c \in Callers, Stream!Return(c) \/ Stream!GiveUp(c) PROVE StreamInv'
  <2>1. /\ strWaiting' = [strWaiting EXCEPT ![c] = None]
        /\ UNCHANGED <<strWanted, strSubscribed, strRefresh, strBooks, strFresh, strLoop, strInitial,
                       strAsked, strStopped, strVersion, strServing, strBroken, strOut, strIn>>
    BY <1>3 DEF Stream!Return, Stream!GiveUp, Stream!socket
  <2>2. \A d \in Callers : strWaiting'[d] # None => strWaiting'[d] = strWaiting[d]
    BY <1>1, <2>1
  <2> QED
    BY <1>1, <2>1, <2>2, QuietSteps
<1>4. ASSUME NEW t \in Tokens, Stream!GrowOld(t) PROVE StreamInv'
  <2>1. /\ strFresh' = strFresh \ {t} /\ \A c \in Callers : strWaiting[c] # t
        /\ UNCHANGED <<strWanted, strSubscribed, strRefresh, strBooks, strLoop, strInitial, strWaiting,
                       strAsked, strStopped, strVersion, strServing, strBroken, strOut, strIn>>
    BY <1>4 DEF Stream!GrowOld, Stream!socket
  <2> QED
    BY <1>1, <2>1, QuietSteps
<1>5. ASSUME Stream!Close \/ Stream!Begin \/ Stream!ConnectFails \/ Stream!LoopEnds PROVE StreamInv'
  <2>1. /\ UNCHANGED <<strWanted, strSubscribed, strRefresh, strBooks, strFresh, strWaiting,
                       strAsked, strVersion, strServing, strBroken, strOut, strIn>>
        /\ strStopped' \in BOOLEAN /\ strInitial' \subseteq Tokens
        /\ strLoop' = strLoop \/ (strLoop # "up" /\ strLoop' \in {"off", "idle", "connecting"})
    BY <1>1, <1>5 DEF Stream!Close, Stream!Begin, Stream!ConnectFails, Stream!LoopEnds, Stream!socket
  <2> QED
    BY <1>1, <2>1, QuietSteps
<1>6. ASSUME UNCHANGED Stream!vars PROVE StreamInv'
  <2>1. UNCHANGED <<strWanted, strSubscribed, strRefresh, strBooks, strFresh, strLoop, strInitial,
                    strWaiting, strAsked, strStopped, strVersion, strServing, strBroken, strOut, strIn>>
    BY <1>6 DEF Stream!vars
  <2> QED
    BY <1>1, <2>1, QuietSteps
<1> QED
  BY <1>2, <1>3, <1>4, <1>5, <1>6, ConnectKeeps, SynchroniseKeeps, ReceiveKeeps, LossKeeps,
     VenueTakesKeeps, VenueMovesKeeps DEF Stream!Next

(* The invariant says what is promised.                                     *)
LEMMA StreamPromises == StreamInv => Stream!BooksAreCurrent /\ Stream!RequestsAreServed
<1> SUFFICES ASSUME StreamInv PROVE Stream!BooksAreCurrent /\ Stream!RequestsAreServed
  OBVIOUS
<1>1. Stream!TypeOK
  <2>1. strWanted \in Stream!BoundedSeq(Tokens, MaxSubscriptions)
    <3>1. Len(strWanted) \in 0..MaxSubscriptions /\ strWanted \in [1..Len(strWanted) -> Tokens]
      BY StreamNumbers DEF StreamInv, Subscriptions
    <3> QED
      BY <3>1 DEF Stream!BoundedSeq, Stream!SeqOf
  <2>2. Stream!IsInjective(strWanted)
    <3>1. DOMAIN strWanted = 1..Len(strWanted)
      BY DEF StreamInv, Subscriptions
    <3> QED
      BY <3>1 DEF StreamInv, Subscriptions, Stream!IsInjective
  <2>3. strBooks \in [Tokens -> 0..Stream!Torn]
    BY StreamNumbers DEF StreamInv, Wire, Stream!Torn
  <2>4. strStopped \in BOOLEAN /\ strBroken \in BOOLEAN
    BY DEF StreamInv, StreamFlags
  <2> QED
    BY <2>1, <2>2, <2>3, <2>4 DEF StreamInv, Subscriptions, Wire, Stream!TypeOK
<1>2. ASSUME NEW t \in Tokens
      PROVE  strBooks[t] # Stream!Torn /\ (strBooks[t] # 0 => Stream!Connected /\ t \in Stream!Want)
  <2>1. strBooks[t] \in 0..MaxVersion
    BY DEF StreamInv, Wire
  <2>2. strBooks[t] # 0 => strLoop = "up" /\ t \in Stream!Want
    BY DEF StreamInv, Wire, Served
  <2> QED
    BY <2>1, <2>2, StreamNumbers DEF Stream!Torn, Stream!Connected
<1>3. ASSUME NEW t \in Tokens, strBooks[t] \notin {0, strVersion[t]}, ~strBroken
      PROVE  Stream!SnapshotComing(t) \/ \E i \in 1..Len(strIn) : strIn[i].token = t
  <2>1. t \in Stream!Want /\ strLoop = "up"
    BY <1>2, <1>3 DEF Stream!Connected
  <2>2. CASE t \notin strSubscribed
    BY <2>1, <2>2 DEF Stream!SnapshotComing, Stream!Added
  <2>3. CASE t \in strSubscribed
    <3>1. Subscribes(strOut, t) \/ t \in strServing
      BY <1>3, <2>1, <2>3 DEF StreamInv, Served
    <3>2. t \in strServing => BringsUp(strIn, t, strVersion[t])
      BY <1>3 DEF StreamInv, Wire
    <3> QED
      BY <3>1, <3>2, ComingWhen DEF BringsUp
  <2> QED
    BY <2>2, <2>3
<1>4. Stream!BooksAreCurrent
  BY <1>1, <1>2, <1>3 DEF Stream!BooksAreCurrent
<1>5. Stream!RequestsAreServed
  <2> SUFFICES ASSUME NEW c \in Callers, strWaiting[c] # None
               PROVE  IF strWaiting[c] \in Stream!Want
                      THEN Stream!Connected /\ ~strBroken =>
                             Stream!Usable(strWaiting[c]) \/ Stream!SnapshotComing(strWaiting[c])
                      ELSE Stream!Cardinality(strAsked[c] \ {strWaiting[c]}) >= MaxSubscriptions
    BY DEF Stream!RequestsAreServed
  <2>1. strWaiting[c] \notin Stream!Want =>
          Stream!Cardinality(strAsked[c] \ {strWaiting[c]}) >= MaxSubscriptions
    BY StreamCounts DEF StreamInv, AskedSince
  <2>2. ASSUME strWaiting[c] \in Stream!Want, Stream!Connected, ~strBroken
        PROVE  Stream!Usable(strWaiting[c]) \/ Stream!SnapshotComing(strWaiting[c])
    BY <2>2 DEF StreamInv, Served, Stream!Connected
  <2> QED
    BY <2>1, <2>2
<1> QED
  BY <1>4, <1>5

(* A book a caller can be given is a whole one of this connection, and who  *)
(* waits is answered unless the socket fails (market_stream.py:30-330).     *)
THEOREM StreamServes == Stream!Spec => [](Stream!BooksAreCurrent /\ Stream!RequestsAreServed)
  BY StreamStart, StreamStep, StreamPromises, PTL DEF Stream!Spec

----------------------------------------------------------------------------
(* ---- the four machines beside each other ---- *)

(* What all of them do, each does.                                          *)
LEMMA EachServiceIsItself ==
  /\ EveryInit => Choice!Init /\ Admin!Init /\ Stream!Init /\ Notes!Init
  /\ [EveryNext]_<<part, setVars, admVars, strVars, noteVars>> =>
       /\ [Choice!Next]_Choice!vars /\ [Admin!Next]_Admin!vars
       /\ [Stream!Next]_Stream!vars /\ [Notes!Next]_Notes!vars
<1>1. EveryInit => Choice!Init /\ Admin!Init /\ Stream!Init /\ Notes!Init
  BY DEF EveryInit
<1>2. setVars = Choice!vars /\ admVars = Admin!vars /\ strVars = Stream!vars /\ noteVars = Notes!vars
  BY DEF setVars, admVars, strVars, noteVars, Choice!vars, Admin!vars, Stream!vars, Notes!vars,
     Notes!harvest, Notes!history
<1>3. /\ setVars' = Choice!vars' /\ admVars' = Admin!vars' /\ strVars' = Stream!vars'
      /\ noteVars' = Notes!vars'
  BY DEF setVars, admVars, strVars, noteVars, Choice!vars, Admin!vars, Stream!vars, Notes!vars,
     Notes!harvest, Notes!history
<1> SUFFICES ASSUME [EveryNext]_<<part, setVars, admVars, strVars, noteVars>>
             PROVE  /\ Choice!Next \/ Choice!vars' = Choice!vars
                    /\ Admin!Next \/ Admin!vars' = Admin!vars
                    /\ Stream!Next \/ Stream!vars' = Stream!vars
                    /\ Notes!Next \/ Notes!vars' = Notes!vars
  BY <1>1
<1>4. /\ Choice!Next \/ setVars' = setVars
      /\ Admin!Next \/ admVars' = admVars
      /\ Stream!Next \/ strVars' = strVars
      /\ Notes!Next \/ noteVars' = noteVars
  BY DEF EveryNext
<1> QED
  BY <1>2, <1>3, <1>4

(* What the operator paused stays paused over every edit, refresh and       *)
(* removal (plugin_system/management.py).                                   *)
THEOREM PausesHoldOverEdits == EverySpec => []PausesOutliveEdits
<1>1. Choice!PausesOutliveEdits => PausesOutliveEdits
  BY DEF PausesOutliveEdits
<1> QED
  BY <1>1, EachServiceIsItself, PausesLast, PTL DEF EverySpec, Choice!Spec

(* A session is earned and an envelope carried out once (runtime/auth.py).  *)
THEOREM SessionsHold == EverySpec => []SessionsAreEarned
<1>1. Admin!SessionsAreEarned => SessionsAreEarned
  BY DEF SessionsAreEarned
<1> QED
  BY <1>1, EachServiceIsItself, SessionsStand, PTL DEF EverySpec, Admin!Spec

(* Books are of this connection, and a caller that waits is answered unless  *)
(* the socket fails (_polymarket/market_stream.py).                         *)
THEOREM StreamHolds == EverySpec => []TheStreamServes
<1>1. Stream!BooksAreCurrent /\ Stream!RequestsAreServed => TheStreamServes
  BY DEF TheStreamServes
<1> QED
  BY <1>1, EachServiceIsItself, StreamServes, PTL DEF EverySpec, Stream!Spec

(* Every note is read into one instruction                                  *)
(* (runtime/operator_instructions.py:140-210, plugins/api/_funding.py).     *)
THEOREM NotesHold == EverySpec => []NotesAreTakenOnce
<1>1. Notes!NotesAreTakenOnce => NotesAreTakenOnce
  BY DEF NotesAreTakenOnce
<1> QED
  BY <1>1, EachServiceIsItself, WordsAreTakenOnce, PTL DEF EverySpec, Notes!Spec

(* A deleted instruction stays deleted: neither a review nor a harvest      *)
(* brings back its row (runtime/operator_instructions.py:60-140).           *)
THEOREM ForgottenHold == EverySpec => ForgottenStaysForgotten
<1>1. [Notes!NoRowReturns]_Notes!vars => [Notes!NoRowReturns]_noteVars
  BY DEF noteVars, Notes!vars, Notes!harvest, Notes!history
<1> QED
  BY <1>1, EachServiceIsItself, NotesInit, NotesStep, RowsComeFromNotes, PTL
     DEF EverySpec, Notes!Spec, ForgottenStaysForgotten
==============================================================================
