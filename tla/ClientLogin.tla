----------------------------- MODULE ClientLogin -----------------------------
(***************************************************************************)
(* Signing a command-line client in from the console                       *)
(* (plugins/providers/_client_control.py) and the relay that brings the    *)
(* browser's answer back to it (_login_relay.py, _callback_gateway.py).    *)
(* Threads: the console's requests, one reader per login process, the      *)
(* thread that inspects, the robot's own requests through the client.      *)
(***************************************************************************)
EXTENDS Naturals, FiniteSets

CONSTANT MaxFlows

ClientLoginAssumption == MaxFlows \in Nat

Flows == 1..MaxFlows
NoFlow == 0

VARIABLES
  last,      \* number of logins started
  proc,      \* self.process: the flow that is waited for
  relay,     \* self.relay: the flow it was made for
  flow,      \* flow -> [mode, process, reader, kill: cancelled, to be killed, failed: its reader gave up]
  link,      \* flow -> its relay: [open, known: whose link, ready, consumed, accepted]
  page,      \* self.state: [state, flow: the flow_id, from: whose link or code]
  notice,    \* the mark that the client's credentials were rejected
  looking,   \* an inspection is under way
  overtaken  \* history: a login began before the one before it was wound up

vars == <<last, proc, relay, flow, link, page, notice, looking, overtaken>>
account == <<notice, looking>>

NoLogin == [mode |-> "remote", process |-> "none", reader |-> "none", kill |-> FALSE, failed |-> FALSE]
Begun(mode) == [NoLogin EXCEPT !.mode = mode, !.process = "running", !.reader = "reading"]
NoLink == [open |-> FALSE, known |-> NoFlow, ready |-> "no", consumed |-> FALSE, accepted |-> 0]

Running == {f \in Flows : flow[f].process = "running"}
Ending == {f \in Flows : flow[f].reader \notin {"none", "done"} \/ flow[f].kill}

Logins == [mode : {"local", "remote"}, process : {"none", "running", "success", "failure"},
           reader : {"none", "reading", "leaving", "inspecting", "closing", "done"}, kill : BOOLEAN, failed : BOOLEAN]
Links == [open : BOOLEAN, known : 0..last, ready : {"no", "direct", "helper"}, consumed : BOOLEAN, accepted : Nat]
Pages == [state : {"login_required", "authorizing", "authenticated", "error"}, flow : 0..last, from : 0..last]

TypeOK ==
  /\ last \in 0..MaxFlows /\ {proc, relay} \subseteq 0..last
  /\ flow \in [Flows -> Logins] /\ link \in [Flows -> Links] /\ page \in Pages
  /\ {notice, looking, overtaken} \subseteq BOOLEAN

Init ==
  /\ last = 0 /\ proc = NoFlow /\ relay = NoFlow /\ overtaken = FALSE
  /\ flow = [f \in Flows |-> NoLogin] /\ link = [f \in Flows |-> NoLink]
  /\ page = [state |-> "login_required", flow |-> NoFlow, from |-> NoFlow]
  /\ notice \in BOOLEAN /\ looking = FALSE

Shut(links, f) ==
  IF f = NoFlow THEN links ELSE [links EXCEPT ![f].open = FALSE, ![f].ready = "no"]

(* The link on the page: the relay's own answer hides what self.state has. *)
Shown == IF relay = NoFlow THEN page.from ELSE IF link[relay].ready = "no" THEN NoFlow ELSE link[relay].known

(* login(): the relay is made, and login_mode set, before the client starts. *)
NewRelay(f, mode) ==
  /\ f \in Flows /\ proc = NoFlow /\ last' = f /\ relay' = (IF mode = "remote" THEN NoFlow ELSE f)
  /\ link' = [Shut(link, relay) EXCEPT ![f].open = (mode = "local")]
  /\ overtaken' = (overtaken \/ Ending # {}) /\ UNCHANGED account
Login(mode) ==
  LET f == last + 1 IN
  /\ NewRelay(f, mode) /\ proc' = f /\ flow' = [flow EXCEPT ![f] = Begun(mode)]
  /\ page' = [state |-> "authorizing", flow |-> f, from |-> NoFlow]
LoginFails(mode) ==                     \* the client cannot be started
  LET f == last + 1 IN
  /\ NewRelay(f, mode) /\ flow' = [flow EXCEPT ![f].mode = mode] /\ UNCHANGED <<proc, page>>

(* The reader of f hands on what its process printed, to the mode and the   *)
(* relay of the latest login; only the remote one asks for a process.       *)
Instructions(f) ==
  /\ flow[f].reader = "reading"
  /\ IF flow[last].mode = "remote" /\ proc # NoFlow
     THEN page' = [page EXCEPT !.from = f] /\ UNCHANGED link
     ELSE /\ relay # NoFlow /\ link[relay].known \in {NoFlow, f}
          /\ link' = [link EXCEPT ![relay].known = f] /\ UNCHANGED page
  /\ UNCHANGED <<last, proc, relay, flow, account, overtaken>>

Active(f) == link[f].open /\ ~link[f].consumed
DirectReady(f) ==                       \* the browser proved that the port leads to this listener
  /\ relay = f /\ proc # NoFlow /\ Active(f) /\ link[f].known # NoFlow
  /\ link[f].ready # "helper" /\ link' = [link EXCEPT ![f].ready = "direct"]
  /\ UNCHANGED <<last, proc, relay, flow, page, account, overtaken>>
HelperReady(f) ==
  /\ relay = f /\ link[f].open /\ link[f].known # NoFlow
  /\ link' = [link EXCEPT ![f].ready = "helper"]
  /\ UNCHANGED <<last, proc, relay, flow, page, account, overtaken>>
HelperFails(f) ==
  /\ relay = f /\ link[f].open /\ link' = [link EXCEPT ![f].ready = "no"]
  /\ UNCHANGED <<last, proc, relay, flow, page, account, overtaken>>

(* The browser comes back; the client behind the link accepts it, refuses it or is gone. *)
ForwardAgain(f) == link[f].ready # "no" /\ link[f].open   \* a mistake: the answer may come twice
MayForward(f) == link[f].ready # "no" /\ Active(f)
ForwardCallback(f) ==
  /\ MayForward(f) /\ flow[link[f].known].process = "running"
  /\ link' = [link EXCEPT ![f].consumed = TRUE, ![f].accepted = @ + 1]
  /\ UNCHANGED <<last, proc, relay, flow, page, account, overtaken>>

(* The client ends by itself: signed in, refused, or killed by the timer of its reader. *)
ClientEnds(f, how) ==
  /\ f \in Running /\ flow' = [flow EXCEPT ![f].process = how]
  /\ UNCHANGED <<last, proc, relay, link, page, account, overtaken>>

KeepLink(p) == p                        \* a mistake: the page keeps the link of an ended login
ForgetLink(p) == [p EXCEPT !.flow = NoFlow, !.from = NoFlow]

ReadEnds(f) ==
  /\ flow[f].reader = "reading" /\ flow[f].process \in {"success", "failure"}
  /\ IF proc # f THEN flow' = [flow EXCEPT ![f].reader = "closing"] /\ UNCHANGED <<proc, page>>
     ELSE /\ proc' = NoFlow
          /\ IF flow[f].process = "failure"
             THEN /\ page' = [ForgetLink(page) EXCEPT !.state = "login_required"]
                  /\ flow' = [flow EXCEPT ![f].reader = "closing"]
             ELSE page' = ForgetLink(page) /\ flow' = [flow EXCEPT ![f].reader = "leaving"]
  /\ UNCHANGED <<last, relay, link, account, overtaken>>

NoticeRemoved(f) ==
  /\ flow[f].reader = "leaving" /\ flow' = [flow EXCEPT ![f].reader = "inspecting"] /\ notice' = FALSE
  /\ UNCHANGED <<last, proc, relay, link, page, looking, overtaken>>

(* Output that cannot be read, a link that cannot be taken apart, a mark    *)
(* that cannot be removed: whoever is waited for, the page loses its link,  *)
(* and a client that runs goes on, with nobody to end it at its time.       *)
ReadFails(f) ==
  /\ flow[f].reader \in {"reading", "leaving"}
  /\ flow' = [flow EXCEPT ![f].reader = "closing", ![f].failed = f \in Running]
  /\ proc' = (IF proc = f THEN NoFlow ELSE proc) /\ page' = [ForgetLink(page) EXCEPT !.state = "error"]
  /\ UNCHANGED <<last, relay, link, account, overtaken>>

(* An inspection asks the client, whose answer is its own, and then looks   *)
(* for the mark; it says nothing while a login is waited for.               *)
Inspected ==
  \/ \E answer \in BOOLEAN :
       page' = IF proc # NoFlow THEN page
               ELSE [page EXCEPT !.state = IF answer /\ ~notice THEN "authenticated" ELSE "login_required"]
  \/ page' = [page EXCEPT !.state = "error"]

(* The inspection of the reader: its own, or none when another one is under way. *)
ReaderInspected(f) ==
  /\ flow[f].reader = "inspecting" /\ flow' = [flow EXCEPT ![f].reader = "closing"]
  /\ IF looking THEN UNCHANGED page ELSE Inspected
  /\ UNCHANGED <<last, proc, relay, link, account, overtaken>>

ReaderCloses(f) ==                      \* the finally: whichever relay the controller holds now
  /\ flow[f].reader = "closing" /\ flow' = [flow EXCEPT ![f].reader = "done"]
  /\ link' = Shut(link, relay) /\ UNCHANGED <<last, proc, relay, page, account, overtaken>>

(* cancel(), also the beginning of logout() and of an import: take the process, then kill it. *)
Cancel ==
  /\ proc' = NoFlow /\ page' = [ForgetLink(page) EXCEPT !.state = "login_required"]
  /\ flow' = IF proc # NoFlow THEN [flow EXCEPT ![proc].kill = TRUE] ELSE flow
  /\ IF proc = NoFlow THEN relay' = NoFlow /\ link' = Shut(link, relay) ELSE UNCHANGED <<relay, link>>
  /\ UNCHANGED <<last, account, overtaken>>

Kill(f) ==
  /\ flow[f].kill /\ f \in Running /\ flow' = [flow EXCEPT ![f].process = "failure"]
  /\ UNCHANGED <<last, proc, relay, link, page, account, overtaken>>

(* The reader has ended, or was waited for long enough. *)
CancelCloses(f) ==
  /\ flow[f].kill /\ f \notin Running /\ flow' = [flow EXCEPT ![f].kill = FALSE]
  /\ link' = Shut(link, relay) /\ relay' = NoFlow
  /\ UNCHANGED <<last, proc, page, account, overtaken>>

Logout ==                               \* after its cancel(); an import clears the mark likewise
  /\ notice' = FALSE /\ UNCHANGED <<last, proc, relay, flow, link, page, looking, overtaken>>

InspectBegins ==
  /\ ~looking /\ proc = NoFlow /\ looking' = TRUE
  /\ UNCHANGED <<last, proc, relay, flow, link, page, notice, overtaken>>
InspectEnds ==
  /\ looking /\ looking' = FALSE /\ Inspected
  /\ UNCHANGED <<last, proc, relay, flow, link, notice, overtaken>>

RobotIsRefused ==                       \* an answer to a request sent at some time before
  /\ notice' = TRUE /\ page' = [page EXCEPT !.state = "login_required"]
  /\ UNCHANGED <<last, proc, relay, flow, link, looking, overtaken>>

Next ==
  \/ \E mode \in {"local", "remote"} : Login(mode) \/ LoginFails(mode)
  \/ \E f \in Flows :
       \/ Instructions(f) \/ DirectReady(f) \/ HelperReady(f) \/ HelperFails(f) \/ ForwardCallback(f)
       \/ \E how \in {"success", "failure"} : ClientEnds(f, how)
       \/ ReadEnds(f) \/ NoticeRemoved(f) \/ ReadFails(f) \/ ReaderInspected(f) \/ ReaderCloses(f) \/ Kill(f) \/ CancelCloses(f)
  \/ Cancel \/ Logout \/ InspectBegins \/ InspectEnds \/ RobotIsRefused

Spec == Init /\ [][Next]_vars

(* One login is waited for: another client runs only to be killed, or       *)
(* because its reader failed.  The answer of the browser reaches a client   *)
(* at most once.  As long as no login begins before the one before it is    *)
(* wound up, the link on the page is that of the login that is waited for,  *)
(* or of one whose relay is about to be closed; the relay of the login      *)
(* that is waited for is open, and no other one.                            *)
OneLoginAtATime ==
  /\ TypeOK
  /\ \A f \in Running : f = proc \/ flow[f].kill \/ flow[f].failed
  /\ \A f \in Flows : link[f].accepted <= 1
  /\ ~overtaken =>
       /\ {page.from, page.flow} \subseteq {NoFlow, proc}
       /\ Shown \in {NoFlow, proc} \cup Ending
       /\ proc # NoFlow /\ flow[proc].mode = "local" => relay = proc /\ link[proc].open
       /\ \A f \in Flows : link[f].open => relay = f /\ link[f].known \in {NoFlow, f}
=============================================================================
