------------------------------- MODULE Services -------------------------------
(***************************************************************************)
(* What serves the operator and the market data: the settings, the notes,  *)
(* the sign-in of the console, and the stream of order books.  Their       *)
(* states do not meet, so they are put side by side: every behaviour is    *)
(* one of one machine, named by part, while the others wait where they     *)
(* began.                                                                  *)
(***************************************************************************)
EXTENDS Naturals, FiniteSets

CONSTANTS
  None,
  Plugins, Requests,                                  \* Settings; AdminAuth's requests too
  Passkeys, Nonces, IdleTime, LifeTime, MaxTime, MaxCeremonies,            \* AdminAuth
  Tokens, Callers, MaxSubscriptions, MaxVersion, MaxConnects, MaxWire, \* MarketStream
  Words, MaxReads, MaxCrashes                         \* OperatorNotes, whose notes are Words

VARIABLES
  part,  \* the machine this behaviour is one of
  \* Settings
  setDisk, setFile, setCatalog, setReq, setTold, setRaced,
  \* AdminAuth
  admNow, admKeys, admChallenges, admBegun, admSessions, admNonces, admLogin,
  admReq, admInitialised, admRan, admRepeated,
  \* MarketStream
  strWanted, strSubscribed, strRefresh, strBooks, strFresh, strLoop,
  strInitial, strWaiting, strAsked, strStopped, strVersion, strServing,
  strBroken, strOut, strIn, strConnects,
  \* OperatorNotes
  noteFile, noteAdd, noteRobot, noteMessages, noteHandled, noteCopy, noteBook,
  noteReview, noteCrashes, noteSaid, noteTaken, noteAgain, noteTorn

Choice == INSTANCE Settings WITH
  disk <- setDisk, file <- setFile,
  catalog <- setCatalog, req <- setReq, told <- setTold, raced <- setRaced

Admin == INSTANCE AdminAuth WITH
  Idle <- IdleTime, Absolute <- LifeTime,
  now <- admNow, keys <- admKeys, challenges <- admChallenges,
  begun <- admBegun, sessions <- admSessions, nonces <- admNonces,
  login <- admLogin, req <- admReq, initialised <- admInitialised,
  ran <- admRan, repeated <- admRepeated

Stream == INSTANCE MarketStream WITH
  wanted <- strWanted, subscribed <- strSubscribed, refresh <- strRefresh,
  books <- strBooks, fresh <- strFresh, loop <- strLoop,
  initial <- strInitial, waiting <- strWaiting, asked <- strAsked,
  stopped <- strStopped, version <- strVersion, serving <- strServing,
  broken <- strBroken, out <- strOut, in <- strIn, connects <- strConnects

Notes == INSTANCE OperatorNotes WITH
  Notes <- Words, file <- noteFile,
  add <- noteAdd, robot <- noteRobot, messages <- noteMessages,
  handled <- noteHandled, copy <- noteCopy, book <- noteBook,
  review <- noteReview, crashes <- noteCrashes, said <- noteSaid,
  taken <- noteTaken, again <- noteAgain, torn <- noteTorn

setVars == <<setDisk, setFile, setCatalog, setReq, setTold, setRaced>>
admVars == <<admNow, admKeys, admChallenges, admBegun, admSessions, admNonces,
             admLogin, admReq, admInitialised, admRan, admRepeated>>
strVars == <<strWanted, strSubscribed, strRefresh, strBooks, strFresh,
             strLoop, strInitial, strWaiting, strAsked, strStopped,
             strVersion, strServing, strBroken, strOut, strIn, strConnects>>
noteVars == <<noteFile, noteAdd, noteRobot, noteMessages, noteHandled,
              noteCopy, noteBook, noteReview, noteCrashes, noteSaid,
              noteTaken, noteAgain, noteTorn>>

Parts == {"set", "adm", "str", "note"}

EveryInit ==
  /\ part \in Parts
  /\ Choice!Init
  /\ Admin!Init
  /\ Stream!Init
  /\ Notes!Init

(* One machine moves, the others wait where they began. *)
EveryNext ==
  /\ UNCHANGED part
  /\ \/ /\ part = "set" /\ Choice!Next
        /\ UNCHANGED <<admVars, strVars, noteVars>>
     \/ /\ part = "adm" /\ Admin!Next
        /\ UNCHANGED <<setVars, strVars, noteVars>>
     \/ /\ part = "str" /\ Stream!Next
        /\ UNCHANGED <<setVars, admVars, noteVars>>
     \/ /\ part = "note" /\ Notes!Next
        /\ UNCHANGED <<setVars, admVars, strVars>>

EverySpec == EveryInit /\ [][EveryNext]_<<part, setVars, admVars, strVars, noteVars>>

ASSUME ServicesAssumption ==
  Admin!AdminAuthAssumption /\ Stream!MarketStreamAssumption /\ Notes!OperatorNotesAssumption

----------------------------------------------------------------------------
(* What the operator paused stays paused over every edit, refresh and      *)
(* removal (plugin_system/management.py).                                  *)
PausesOutliveEdits == part = "set" => Choice!PausesOutliveEdits

(* A session stands on a registered passkey and a ceremony of its own, and *)
(* an envelope is carried out once (runtime/auth.py).                      *)
SessionsAreEarned == part = "adm" => Admin!SessionsAreEarned

(* Books are of this connection, and a caller that waits is answered       *)
(* unless the socket fails (_polymarket/market_stream.py).                 *)
TheStreamServes == part = "str" => Stream!BooksAreCurrent /\ Stream!RequestsAreServed

(* Every note is read into one instruction, whatever crashes between       *)
(* (runtime/operator_instructions.py:140-210, plugins/api/_funding.py).    *)
NotesAreTakenOnce == part = "note" => Notes!NotesAreTakenOnce

(* A deleted instruction stays deleted                                     *)
(* (runtime/operator_instructions.py:60-140).                              *)
ForgottenStaysForgotten == [][Notes!NoRowReturns]_noteVars
==============================================================================
