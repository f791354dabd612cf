------------------------------- MODULE Recovery -------------------------------
(***************************************************************************)
(* The control connections of the main controller through crashes and      *)
(* stalls of the ePDG and of the IMS: what Controller.java does when a     *)
(* read ends in a time-out, in the end of the stream or in an exception,   *)
(* how it connects again and how it restarts the servers.  The lines       *)
(* themselves are the business of Testbed and ImsSession; here an exchange *)
(* with a server is answered, or times out, or fails.                      *)
(*                                                                         *)
(* A server accepts one connection in its life (listener_run) and keeps    *)
(* its listening socket open: a later connection is established by the     *)
(* kernel and waits in the backlog for ever.  The start and stop commands  *)
(* of the configuration are started and not waited for (runProcess).       *)
(***************************************************************************)
EXTENDS Integers

CONSTANTS
    MaxTrials,    \* DEFAULT_NUMBER_OF_TRIALS
    MaxCrashes,   \* bound: crashes in one behaviour, of either server
    MaxStalls,    \* bound: times a server does not run for longer than a time-out
    MaxLives      \* bound: times a server is started

ASSUME RecoveryAssumption ==
    /\ MaxTrials \in Nat \ {0}
    /\ MaxCrashes \in Nat /\ MaxStalls \in Nat /\ MaxLives \in Nat \ {0}

VARIABLES
    proc,         \* the server processes
    sock,         \* the controller's sockets
    cmds,         \* start and stop commands still running
    ctl,          \* the controller's program counter and locals
    faults        \* crashes and stalls so far

vars == <<proc, sock, cmds, ctl, faults>>

-----------------------------------------------------------------------------
Servers == {"epdg", "ims"}

(* pc is where the controller stands:
     connect, greet        initEPDGConnection, initIMSConnection of server who
     init                  initEPDG or initIMS of who, in pre
     hello                 isEPDGAlive or isIMSAlive of who, for pre or handleTimeout
     run                   a testcase between pre and the end of post
     kill, start           restartEPDG or restartIMS of who
     exited, died          System.exit(1), StackOverflowError in main
   job is what the controller connects or asks for:
     new                   the constructor
     pre, timeout          isEPDGAlive or isIMSAlive, called by pre or by handleTimeout
     failure               handleEPDGIMSFailure *)
Control == [pc : {"connect", "greet", "init", "hello", "run", "kill", "start", "exited", "died"},
            who : Servers, job : {"new", "pre", "timeout", "failure"}, trial : 0..MaxTrials]

(* The types of processes, sockets, commands and the controller. *)
RecoveryTypeOK ==
    /\ proc \in [Servers -> [up : BOOLEAN, life : 0..MaxLives, accepted : BOOLEAN,
                             stalled : BOOLEAN]]
    /\ sock \in [Servers -> [life : 0..MaxLives, first : BOOLEAN, reset : BOOLEAN]]
    /\ cmds \in [Servers -> SUBSET {"start", "stop"}]
    /\ ctl \in Control
    /\ faults \in [crashes : 0..MaxCrashes, stalls : 0..MaxStalls]

(* The IMS has been started; the ePDG has been, or is started when the     *)
(* connection is refused.                                                  *)
RecoveryInit ==
    /\ \E up \in BOOLEAN :
         proc = [s \in Servers |->
                   [up |-> s = "ims" \/ up, life |-> IF s = "ims" \/ up THEN 1 ELSE 0,
                    accepted |-> FALSE, stalled |-> FALSE]]
    /\ sock = [s \in Servers |-> [life |-> 0, first |-> FALSE, reset |-> FALSE]]
    /\ cmds = [s \in Servers |-> {}]
    /\ ctl = [pc |-> "connect", who |-> "epdg", job |-> "new", trial |-> 0]
    /\ faults = [crashes |-> 0, stalls |-> 0]

(* The process the socket was connected to still runs. *)
Open(s) == proc[s].up /\ proc[s].life = sock[s].life

(* It is the one connection the listener has accepted. *)
Served(s) == Open(s) /\ sock[s].first

(* After a write on a closed connection, the next one fails. *)
Written(s) == [sock EXCEPT ![s].reset = ~Open(s)]

-----------------------------------------------------------------------------
(* The servers and the commands (external) *)

Crash(s) ==
    /\ proc[s].up /\ faults.crashes < MaxCrashes
    /\ proc' = [proc EXCEPT ![s].up = FALSE, ![s].stalled = FALSE]
    /\ faults' = [faults EXCEPT !.crashes = @ + 1]
    /\ UNCHANGED <<sock, cmds, ctl>>

Stall(s) ==
    /\ proc[s].up /\ ~proc[s].stalled /\ faults.stalls < MaxStalls
    /\ proc' = [proc EXCEPT ![s].stalled = TRUE]
    /\ faults' = [faults EXCEPT !.stalls = @ + 1]
    /\ UNCHANGED <<sock, cmds, ctl>>

Resume(s) ==
    /\ proc[s].stalled
    /\ proc' = [proc EXCEPT ![s].stalled = FALSE]
    /\ UNCHANGED <<sock, cmds, ctl, faults>>

Stopped(s) ==
    /\ "stop" \in cmds[s]
    /\ proc' = [proc EXCEPT ![s].up = FALSE, ![s].stalled = FALSE]
    /\ cmds' = [cmds EXCEPT ![s] = @ \ {"stop"}]
    /\ UNCHANGED <<sock, ctl, faults>>

(* A start command does nothing when the server runs. *)
Started(s) ==
    /\ "start" \in cmds[s]
    /\ IF proc[s].up THEN UNCHANGED proc
       ELSE /\ proc[s].life < MaxLives
            /\ proc' = [proc EXCEPT ![s] = [up |-> TRUE, life |-> proc[s].life + 1,
                                            accepted |-> FALSE, stalled |-> FALSE]]
    /\ cmds' = [cmds EXCEPT ![s] = @ \ {"start"}]
    /\ UNCHANGED <<sock, ctl, faults>>

-----------------------------------------------------------------------------
(* initEPDGConnection and initIMSConnection *)

(* Mutant of StartServer: neither command is run. *)
StartServer_Nothing(s) == UNCHANGED cmds

(* startEPDG; the command of startIMS is commented out. *)
StartServer(s) ==
    cmds' = IF s = "epdg" THEN [cmds EXCEPT ![s] = @ \cup {"start"}] ELSE cmds

(* The connection is refused: start the server, try again. *)
Refused ==
    /\ ctl.pc = "connect" /\ ~proc[ctl.who].up
    /\ "start" \notin cmds[ctl.who]
    /\ StartServer(ctl.who)
    /\ UNCHANGED <<proc, sock, ctl, faults>>

(* Each attempt is a call inside the last one.  A start command takes      *)
(* effect before the stack is used up; without one, the controller dies.   *)
Overflow ==
    /\ ctl.pc = "connect" /\ ~proc[ctl.who].up
    /\ ctl.who = "ims" /\ cmds[ctl.who] \cap {"start"} = {}
    /\ ctl' = [ctl EXCEPT !.pc = "died"]
    /\ UNCHANGED <<proc, sock, cmds, faults>>

Connected ==
    /\ ctl.pc = "connect" /\ proc[ctl.who].up
    /\ sock' = [sock EXCEPT ![ctl.who] = [life |-> proc[ctl.who].life,
                                          first |-> ~proc[ctl.who].accepted, reset |-> FALSE]]
    /\ proc' = [proc EXCEPT ![ctl.who].accepted = TRUE]
    /\ ctl' = [ctl EXCEPT !.pc = "greet"]
    /\ UNCHANGED <<cmds, faults>>

(* What follows a connection: the constructor goes on to the IMS and to    *)
(* the first testcase; isEPDGAlive and isIMSAlive return false, to pre or  *)
(* to handleTimeout; restartEPDG is followed by restartIMS.                *)
AfterConnect(c) ==
    CASE c.job = "new" /\ c.who = "epdg" -> [c EXCEPT !.pc = "connect", !.who = "ims"]
      [] c.job = "new" /\ c.who = "ims" -> [c EXCEPT !.pc = "init", !.who = "epdg", !.job = "pre"]
      [] c.job = "pre" -> [c EXCEPT !.pc = "init", !.who = "epdg", !.trial = 0]
      [] c.job = "timeout" -> [c EXCEPT !.pc = "kill", !.who = "epdg", !.job = "failure"]
      [] c.job = "failure" /\ c.who = "epdg" -> [c EXCEPT !.pc = "kill", !.who = "ims"]
      [] c.job = "failure" /\ c.who = "ims" -> [c EXCEPT !.pc = "run"]

(* Mutant of Greeted: Hello is read with a time-out. *)
Greeted_Impatient ==
    /\ ctl.pc = "greet" /\ Open(ctl.who)
    /\ ctl' = AfterConnect(ctl)
    /\ UNCHANGED <<proc, sock, cmds, faults>>

(* Hello is read without a time-out: it is answered on an accepted         *)
(* connection, and otherwise the controller waits.                         *)
Greeted ==
    /\ ctl.pc = "greet" /\ Served(ctl.who) /\ ~proc[ctl.who].stalled
    /\ ctl' = AfterConnect(ctl)
    /\ UNCHANGED <<proc, sock, cmds, faults>>

(* The server went down before it answered. *)
GreetLost ==
    /\ ctl.pc = "greet" /\ ~Open(ctl.who)
    /\ StartServer(ctl.who)
    /\ ctl' = [ctl EXCEPT !.pc = "connect"]
    /\ UNCHANGED <<proc, sock, faults>>

-----------------------------------------------------------------------------
(* pre *)

(* The outcomes of writing a line to who and reading one *)
Answers == Served(ctl.who) /\ ~proc[ctl.who].stalled

TimesOut == Served(ctl.who) /\ proc[ctl.who].stalled

EndOfStream == ~Open(ctl.who) /\ ~sock[ctl.who].reset

Fails == ~Open(ctl.who) /\ sock[ctl.who].reset

(* Mutant of InitResult: a failure is left to isEPDGAlive. *)
InitResult_Trusting(ok) == [ctl EXCEPT !.who = "ims"]

(* initEPDG has returned ok.  The third trial is the last one, also when   *)
(* it succeeds.                                                            *)
InitResult(ok) ==
    CASE ctl.trial + 1 = MaxTrials -> [ctl EXCEPT !.pc = "exited"]
      [] ctl.trial + 1 # MaxTrials /\ ok -> [ctl EXCEPT !.who = "ims"]
      [] OTHER -> [ctl EXCEPT !.trial = @ + 1]

InitEpdg ==
    /\ ctl.pc = "init" /\ ctl.who = "epdg"
    /\ Answers \/ TimesOut \/ Fails
    /\ ctl' = InitResult(Answers)
    /\ UNCHANGED <<proc, sock, cmds, faults>>

(* initIMS returns true in each of the cases. *)
InitIms ==
    /\ ctl.pc = "init" /\ ctl.who = "ims"
    /\ Answers \/ TimesOut \/ Fails
    /\ ctl' = [ctl EXCEPT !.pc = "hello", !.who = "epdg", !.job = "pre"]
    /\ UNCHANGED <<proc, sock, cmds, faults>>

(* readLine returns null: the exception is caught in pre, which begins     *)
(* again.                                                                  *)
InitNull ==
    /\ ctl.pc = "init" /\ EndOfStream
    /\ sock' = Written(ctl.who)
    /\ ctl' = [ctl EXCEPT !.who = "epdg", !.trial = 0]
    /\ UNCHANGED <<proc, cmds, faults>>

(* isEPDGAlive, then isIMSAlive *)
Alive ==
    /\ ctl.pc = "hello" /\ Answers
    /\ ctl' = IF ctl.who = "epdg" THEN [ctl EXCEPT !.who = "ims"]
              ELSE [ctl EXCEPT !.pc = "run", !.trial = 0]
    /\ UNCHANGED <<proc, sock, cmds, faults>>

NotAlive ==
    /\ ctl.pc = "hello" /\ (TimesOut \/ EndOfStream \/ Fails)
    /\ ctl' = [ctl EXCEPT !.pc = "connect"]
    /\ UNCHANGED <<proc, sock, cmds, faults>>

-----------------------------------------------------------------------------
(* A testcase *)

(* A line is written to s, which is down, and the exception of the read is *)
(* logged as a null_action or ends sendEnableVoWiFi.                       *)
RunLost(s) ==
    /\ ctl.pc = "run" /\ ~Open(s)
    /\ sock' = Written(s)
    /\ UNCHANGED <<proc, cmds, ctl, faults>>

(* Nothing came from s: handleTimeout. *)
RunTimeout(s) ==
    /\ ctl.pc = "run" /\ Open(s)
    /\ ctl' = [ctl EXCEPT !.pc = "hello", !.who = "epdg", !.job = "timeout"]
    /\ UNCHANGED <<proc, sock, cmds, faults>>

(* post writes fin to both; the next testcase begins with pre. *)
RunEnd ==
    /\ ctl.pc = "run"
    /\ sock' = [s \in Servers |-> Written(s)[s]]
    /\ ctl' = [ctl EXCEPT !.pc = "init", !.who = "epdg", !.job = "pre", !.trial = 0]
    /\ UNCHANGED <<proc, cmds, faults>>

-----------------------------------------------------------------------------
(* restartEPDG, restartIMS *)

(* Mutant of Kill: the server is not stopped. *)
Kill_Nothing ==
    /\ ctl.pc = "kill"
    /\ ctl' = [ctl EXCEPT !.pc = "start"]
    /\ UNCHANGED <<proc, sock, cmds, faults>>

Kill ==
    /\ ctl.pc = "kill"
    /\ cmds' = [cmds EXCEPT ![ctl.who] = @ \cup {"stop"}]
    /\ ctl' = [ctl EXCEPT !.pc = "start"]
    /\ UNCHANGED <<proc, sock, faults>>

Start ==
    /\ ctl.pc = "start"
    /\ StartServer(ctl.who)
    /\ ctl' = [ctl EXCEPT !.pc = "connect"]
    /\ UNCHANGED <<proc, sock, faults>>

-----------------------------------------------------------------------------
ControllerStep ==
    \/ Refused \/ Overflow \/ Connected \/ Greeted \/ GreetLost
    \/ InitEpdg \/ InitIms \/ InitNull \/ Alive \/ NotAlive
    \/ RunEnd \/ \E s \in Servers : RunLost(s) \/ RunTimeout(s)
    \/ Kill \/ Start

(* The controller is gone, or waits for a server that never answers it. *)
Hung == ctl.pc = "greet" /\ Open(ctl.who) /\ ~Served(ctl.who) /\ cmds[ctl.who] = {}

Gone == (ctl.pc \in {"exited", "died"} \/ Hung) /\ UNCHANGED vars

RecoveryNext ==
    \/ ControllerStep
    \/ \E s \in Servers : Crash(s) \/ Stall(s) \/ Resume(s) \/ Stopped(s) \/ Started(s)
    \/ Gone

(* The controller runs and its testcases end (StepsEnd of Testbed, and a   *)
(* UE does not retransmit for ever), a command does what it is for, and a  *)
(* server that stalls goes on.                                             *)
RecoveryFairness ==
    /\ WF_vars(ControllerStep) /\ SF_vars(RunEnd)
    /\ \A s \in Servers : WF_vars(Resume(s)) /\ WF_vars(Stopped(s)) /\ WF_vars(Started(s))

RecoverySpec == RecoveryInit /\ [][RecoveryNext]_vars /\ RecoveryFairness

-----------------------------------------------------------------------------
(* No testcase and no reset goes on over a connection that the server's    *)
(* listener has not accepted: what the controller writes to a living       *)
(* server is read.                                                         *)
NeverUnserved ==
    ctl.pc \in {"init", "hello", "run"} => \A s \in Servers : Open(s) => Served(s)

(* The controller waits for ever on a connection in the backlog only after *)
(* a server did not answer in time; a crash alone does not lead there.     *)
HangsOnlyAfterStall == Hung => faults.stalls > 0

(* handleEPDGIMSFailure never comes back: restartIMS stops the IMS and     *)
(* nothing starts it, which is not what restartIMS is for.                 *)
FailureIsFinal == ctl.job = "failure" => ctl.pc # "run"

Over == ctl.pc \in {"exited", "died"} \/ Hung

(* An ePDG that goes down while a testcase runs ends the whole run: pre    *)
(* asks it to reset, three times, before it asks whether it is alive, and  *)
(* handleTimeout, which does ask, restarts the IMS as well.                *)
CrashEndsRun == (ctl.pc = "run" /\ ~Open("epdg")) ~> Over

(* isEPDGAlive of pre, when it finds the ePDG down, starts it and brings   *)
(* the controller back to the reset of a living ePDG.                      *)
EpdgRestored ==
    (ctl.pc = "connect" /\ ctl.who = "epdg" /\ ctl.job = "pre")
        ~> (ctl.pc = "init" \/ Hung)
=============================================================================
