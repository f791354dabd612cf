---------------------------- MODULE RecoveryProofs ----------------------------
(***************************************************************************)
(* Proofs about the controller's server connections (Recovery), for any    *)
(* number of trials, crashes, stalls and starts:                           *)
(*                                                                         *)
(*   RecoveryTyped    RecoverySpec => []RecoveryTypeOK                     *)
(*   AlwaysServed     RecoverySpec => []NeverUnserved                      *)
(*   NoWayBack        RecoverySpec => []FailureIsFinal                     *)
(*   NoHangByCrash    RecoverySpec => []HangsOnlyAfterStall                *)
(*                                                                         *)
(* They rest on one inductive invariant, whose parts say which life of a   *)
(* server a socket can be connected to and what is left of the connection  *)
(* it has accepted.                                                        *)
(***************************************************************************)
EXTENDS Recovery, TLAPS

-----------------------------------------------------------------------------
(* The inductive invariant *)

(* A trial that is begun is not yet the last one's successor. *)
TrialsLeft == ctl.trial < MaxTrials

(* A socket never belongs to a life that is still to come, and a process   *)
(* that has accepted its one connection has it with the controller's       *)
(* socket.                                                                 *)
SocketsOfLives ==
    \A s \in Servers :
        /\ sock[s].life <= proc[s].life
        /\ proc[s].up => proc[s].life > 0
        /\ proc[s].up /\ proc[s].accepted => sock[s].life = proc[s].life

(* Only the connection that is being greeted can be one in the backlog. *)
OthersServed ==
    \A s \in Servers : Open(s) /\ ~(ctl.pc = "greet" /\ ctl.who = s) => sock[s].first

(* The IMS is never started again, and once the constructor is done its    *)
(* one connection is used up: no later greeting of it is answered.         *)
ImsUsedUp ==
    /\ "start" \notin cmds["ims"]
    /\ ctl.job # "new" =>
         /\ proc["ims"].accepted
         /\ ctl.pc = "greet" /\ ctl.who = "ims" => ~sock["ims"].first
    /\ ctl.job = "new" =>
         /\ ctl.pc \in {"connect", "greet", "died"}
         /\ ctl.pc = "greet" /\ ctl.who = "ims" => proc["ims"].accepted
         /\ ctl.who = "epdg" => ~proc["ims"].accepted

(* handleEPDGIMSFailure restarts and connects, and nothing else. *)
FailureRestarts ==
    ctl.job = "failure" => ctl.pc \in {"kill", "start", "connect", "greet", "died"}

(* As long as no server has stalled, the controller connects to a process  *)
(* that has accepted its connection only while the process is being        *)
(* stopped.                                                                *)
BacklogOnlyWhenStopped ==
    /\ \A s \in Servers : proc[s].stalled => faults.stalls > 0
    /\ faults.stalls = 0 =>
         /\ ctl.pc \in {"connect", "start"} /\ proc[ctl.who].up /\ proc[ctl.who].accepted
              => "stop" \in cmds[ctl.who]
         /\ ctl.pc = "greet" /\ Open(ctl.who) /\ ~sock[ctl.who].first
              => "stop" \in cmds[ctl.who]

Inv ==
    /\ RecoveryTypeOK /\ TrialsLeft /\ SocketsOfLives
    /\ OthersServed /\ ImsUsedUp /\ FailureRestarts /\ BacklogOnlyWhenStopped

-----------------------------------------------------------------------------
(* Types *)

Process == [up : BOOLEAN, life : 0..MaxLives, accepted : BOOLEAN, stalled : BOOLEAN]

Socket == [life : 0..MaxLives, first : BOOLEAN, reset : BOOLEAN]

(* The steps of the servers and the commands keep the types. *)
LEMMA ServerTyped ==
    ASSUME RecoveryTypeOK, NEW s \in Servers,
           Crash(s) \/ Stall(s) \/ Resume(s) \/ Stopped(s) \/ Started(s)
    PROVE  RecoveryTypeOK'
<1>1. proc \in [Servers -> Process] /\ proc[s] \in Process
  BY DEF RecoveryTypeOK, Process
<1>2. proc' \in [Servers -> Process]
  <2>1. CASE Crash(s) \/ Stopped(s)
    <3>1. proc' = [proc EXCEPT ![s] = [proc[s] EXCEPT !.up = FALSE, !.stalled = FALSE]]
      BY <1>1, <2>1 DEF Crash, Stopped, Process
    <3>2. [proc[s] EXCEPT !.up = FALSE, !.stalled = FALSE] \in Process
      BY <1>1 DEF Process
    <3> QED
      BY <1>1, <3>1, <3>2
  <2>2. CASE Stall(s) \/ Resume(s)
    <3>1. \E b \in BOOLEAN : proc' = [proc EXCEPT ![s] = [proc[s] EXCEPT !.stalled = b]]
      BY <1>1, <2>2 DEF Stall, Resume, Process
    <3>2. \A b \in BOOLEAN : [proc[s] EXCEPT !.stalled = b] \in Process
      BY <1>1 DEF Process
    <3> QED
      BY <1>1, <3>1, <3>2
  <2>3. CASE Started(s)
    <3>1. CASE proc[s].up
      BY <1>1, <2>3, <3>1 DEF Started
    <3>2. CASE ~proc[s].up
      <4>1. [up |-> TRUE, life |-> proc[s].life + 1, accepted |-> FALSE, stalled |-> FALSE]
              \in Process
        BY <1>1, <2>3, <3>2, RecoveryAssumption DEF Started, Process
      <4> QED
        BY <1>1, <2>3, <3>2, <4>1 DEF Started
    <3> QED
      BY <3>1, <3>2
  <2> QED
    BY <2>1, <2>2, <2>3
<1>3. cmds' \in [Servers -> SUBSET {"start", "stop"}]
  BY DEF RecoveryTypeOK, Crash, Stall, Resume, Stopped, Started
<1>4. faults' \in [crashes : 0..MaxCrashes, stalls : 0..MaxStalls]
  BY RecoveryAssumption DEF RecoveryTypeOK, Crash, Stall, Resume, Stopped, Started
<1>5. UNCHANGED <<sock, ctl>>
  BY DEF Crash, Stall, Resume, Stopped, Started
<1> QED
  BY <1>2, <1>3, <1>4, <1>5 DEF RecoveryTypeOK, Process

(* What is written to a connection leaves the sockets well typed. *)
LEMMA WrittenTyped ==
    ASSUME RecoveryTypeOK, NEW s \in Servers
    PROVE  Written(s) \in [Servers -> Socket]
<1>1. sock \in [Servers -> Socket] /\ sock[s] \in Socket /\ Open(s) \in BOOLEAN
  BY DEF RecoveryTypeOK, Socket, Open
<1>2. [sock[s] EXCEPT !.reset = ~Open(s)] \in Socket
  BY <1>1 DEF Socket
<1>3. Written(s) = [sock EXCEPT ![s] = [sock[s] EXCEPT !.reset = ~Open(s)]]
  BY <1>1 DEF Written, Socket
<1> QED
  BY <1>1, <1>2, <1>3

(* So do the steps of the controller. *)
LEMMA ControllerTyped ==
    ASSUME Inv, ControllerStep
    PROVE  RecoveryTypeOK'
<1> USE DEF Inv
<1>1. /\ proc \in [Servers -> Process] /\ sock \in [Servers -> Socket] /\ ctl \in Control
      /\ cmds \in [Servers -> SUBSET {"start", "stop"}]
      /\ faults \in [crashes : 0..MaxCrashes, stalls : 0..MaxStalls]
      /\ ctl.who \in Servers
  BY DEF RecoveryTypeOK, Process, Socket, Control
<1>2. faults' = faults
  BY DEF ControllerStep, Refused, Overflow, Connected, Greeted, GreetLost, InitEpdg, InitIms,
         InitNull, Alive, NotAlive, RunEnd, RunLost, RunTimeout, Kill, Start
<1>3. cmds' \in [Servers -> SUBSET {"start", "stop"}]
  BY <1>1
  DEF ControllerStep, Refused, Overflow, Connected, Greeted, GreetLost, InitEpdg, InitIms,
      InitNull, Alive, NotAlive, RunEnd, RunLost, RunTimeout, Kill, Start, StartServer
<1>4. ctl' \in Control
  <2>1. /\ ctl.trial + 1 \in 0..MaxTrials /\ 0 \in 0..MaxTrials /\ ctl.trial \in 0..MaxTrials
        /\ ctl.who \in {"epdg", "ims"} /\ ctl.job \in {"new", "pre", "timeout", "failure"}
    BY <1>1, RecoveryAssumption DEF Control, TrialsLeft, Servers
  <2>2. CASE Greeted
    BY <1>1, <2>1, <2>2 DEF Greeted, AfterConnect, Control, Servers
  <2>3. CASE InitEpdg
    BY <1>1, <2>1, <2>3 DEF InitEpdg, InitResult, Control, Servers
  <2>4. CASE Refused \/ Overflow \/ Connected \/ GreetLost \/ Kill \/ Start
    BY <1>1, <2>4
    DEF Refused, Overflow, Connected, GreetLost, Kill, Start, Control
  <2>5. CASE InitIms \/ InitNull \/ Alive \/ NotAlive
    BY <1>1, <2>1, <2>5
    DEF InitIms, InitNull, Alive, NotAlive, Control, Servers
  <2>6. CASE RunEnd \/ \E s \in Servers : RunLost(s) \/ RunTimeout(s)
    BY <1>1, <2>1, <2>6
    DEF RunEnd, RunLost, RunTimeout, Control, Servers
  <2> QED
    BY <2>2, <2>3, <2>4, <2>5, <2>6 DEF ControllerStep
<1>5. proc' \in [Servers -> Process] /\ sock' \in [Servers -> Socket]
  <2>1. CASE Connected
    <3>1. proc' = [proc EXCEPT ![ctl.who] = [proc[ctl.who] EXCEPT !.accepted = TRUE]]
      BY <1>1, <2>1 DEF Connected, Process
    <3>2. proc[ctl.who] \in Process
      BY <1>1
    <3>3. [proc[ctl.who] EXCEPT !.accepted = TRUE] \in Process
      BY <3>2 DEF Process
    <3>4. [life |-> proc[ctl.who].life, first |-> ~proc[ctl.who].accepted, reset |-> FALSE]
            \in Socket
      BY <3>2 DEF Process, Socket
    <3> QED
      BY <1>1, <2>1, <3>1, <3>3, <3>4 DEF Connected
  <2>2. CASE InitNull \/ \E s \in Servers : RunLost(s)
    BY <1>1, <2>2, WrittenTyped DEF InitNull, RunLost
  <2>3. CASE RunEnd
    BY <1>1, <2>3, WrittenTyped DEF RunEnd
  <2>4. CASE UNCHANGED <<proc, sock>>
    BY <1>1, <2>4
  <2> QED
    BY <2>1, <2>2, <2>3, <2>4
    DEF ControllerStep, Refused, Overflow, Greeted, GreetLost, InitEpdg, InitIms,
        Alive, NotAlive, RunTimeout, Kill, Start
<1> QED
  BY <1>1, <1>2, <1>3, <1>4, <1>5 DEF RecoveryTypeOK, Process, Socket

-----------------------------------------------------------------------------
(* The other parts of the invariant, action by action *)

Rest ==
    /\ TrialsLeft /\ SocketsOfLives
    /\ OthersServed /\ ImsUsedUp /\ FailureRestarts /\ BacklogOnlyWhenStopped

(* Initially nothing is connected. *)
LEMMA InitInv == RecoveryInit => Inv
  BY RecoveryAssumption
  DEF RecoveryInit, Inv, RecoveryTypeOK, Control, Servers, TrialsLeft, SocketsOfLives,
      OthersServed, Open, ImsUsedUp, FailureRestarts, BacklogOnlyWhenStopped

(* The start of the server that refuses a connection is asked for. *)
LEMMA RefusedKeeps == ASSUME Inv, Refused PROVE Rest'
  BY RecoveryAssumption
  DEF Refused, StartServer, Inv, Rest, RecoveryTypeOK, Control, Servers, TrialsLeft,
      SocketsOfLives, OthersServed, Open, ImsUsedUp, FailureRestarts, BacklogOnlyWhenStopped

(* The stack is used up. *)
LEMMA OverflowKeeps == ASSUME Inv, Overflow PROVE Rest'
  BY RecoveryAssumption
  DEF Overflow, Inv, Rest, RecoveryTypeOK, Control, Servers, TrialsLeft,
      SocketsOfLives, OthersServed, Open, ImsUsedUp, FailureRestarts, BacklogOnlyWhenStopped

(* A connection is established, served or not. *)
LEMMA ConnectedKeeps == ASSUME Inv, Connected PROVE Rest'
<1> USE DEF Connected, Open, Inv, RecoveryTypeOK, Control, Servers
<1>1. TrialsLeft'
  BY RecoveryAssumption DEF TrialsLeft
<1>2. SocketsOfLives'
  BY RecoveryAssumption DEF SocketsOfLives
<1>3. OthersServed'
  BY RecoveryAssumption DEF OthersServed, SocketsOfLives
<1>4. ImsUsedUp'
  <2>1. CASE ctl.who = "ims"
    <3>1. /\ proc'["ims"].accepted /\ cmds' = cmds
          /\ sock'["ims"].first = ~proc["ims"].accepted
          /\ ctl'.job = ctl.job /\ ctl'.who = "ims" /\ ctl'.pc = "greet"
      BY <2>1
    <3> QED
      BY <3>1, Zenon DEF ImsUsedUp
  <2>2. CASE ctl.who = "epdg"
    BY <2>2 DEF ImsUsedUp
  <2> QED
    BY <2>1, <2>2
<1>5. FailureRestarts'
  BY RecoveryAssumption DEF FailureRestarts, ImsUsedUp
<1>6. BacklogOnlyWhenStopped'
  BY RecoveryAssumption DEF BacklogOnlyWhenStopped, SocketsOfLives, ImsUsedUp
<1> QED
  BY <1>1, <1>2, <1>3, <1>4, <1>5, <1>6 DEF Rest

(* A greeting is answered on a served connection only. *)
LEMMA GreetedKeeps == ASSUME Inv, Greeted PROVE Rest'
<1> USE DEF Greeted, Served, Open, AfterConnect, Inv, RecoveryTypeOK, Control, Servers
<1>1. TrialsLeft'
  BY RecoveryAssumption DEF TrialsLeft
<1>2. SocketsOfLives'
  BY RecoveryAssumption DEF SocketsOfLives
<1>3. OthersServed'
  BY RecoveryAssumption DEF OthersServed, SocketsOfLives
<1>4. ImsUsedUp'
  BY RecoveryAssumption DEF ImsUsedUp
<1>5. FailureRestarts'
  BY RecoveryAssumption DEF FailureRestarts, ImsUsedUp
<1>6. BacklogOnlyWhenStopped'
  BY RecoveryAssumption DEF BacklogOnlyWhenStopped, SocketsOfLives, ImsUsedUp
<1> QED
  BY <1>1, <1>2, <1>3, <1>4, <1>5, <1>6 DEF Rest

(* The server goes down while it is greeted. *)
LEMMA GreetLostKeeps == ASSUME Inv, GreetLost PROVE Rest'
  BY RecoveryAssumption
  DEF GreetLost, StartServer, Inv, Rest, RecoveryTypeOK, Control, Servers, TrialsLeft,
      SocketsOfLives, OthersServed, Open, ImsUsedUp, FailureRestarts, BacklogOnlyWhenStopped

(* InitEPDG returns. *)
LEMMA InitEpdgKeeps == ASSUME Inv, InitEpdg PROVE Rest'
  BY RecoveryAssumption
  DEF InitEpdg, InitResult, Inv, Rest, RecoveryTypeOK, Control, Servers, TrialsLeft,
      SocketsOfLives, OthersServed, Open, ImsUsedUp, FailureRestarts, BacklogOnlyWhenStopped

(* InitIMS returns. *)
LEMMA InitImsKeeps == ASSUME Inv, InitIms PROVE Rest'
  BY RecoveryAssumption
  DEF InitIms, Inv, Rest, RecoveryTypeOK, Control, Servers, TrialsLeft,
      SocketsOfLives, OthersServed, Open, ImsUsedUp, FailureRestarts, BacklogOnlyWhenStopped

(* Pre begins again. *)
LEMMA InitNullKeeps == ASSUME Inv, InitNull PROVE Rest'
  BY RecoveryAssumption
  DEF InitNull, Written, Inv, Rest, RecoveryTypeOK, Control, Servers, TrialsLeft,
      SocketsOfLives, OthersServed, Open, ImsUsedUp, FailureRestarts, BacklogOnlyWhenStopped

(* A server answers that it is alive. *)
LEMMA AliveKeeps == ASSUME Inv, Alive PROVE Rest'
  BY RecoveryAssumption
  DEF Alive, Inv, Rest, RecoveryTypeOK, Control, Servers, TrialsLeft,
      SocketsOfLives, OthersServed, Open, ImsUsedUp, FailureRestarts, BacklogOnlyWhenStopped

(* A server does not answer. *)
LEMMA NotAliveKeeps == ASSUME Inv, NotAlive PROVE Rest'
  BY RecoveryAssumption
  DEF NotAlive, TimesOut, EndOfStream, Fails, Served, Inv, Rest, RecoveryTypeOK, Control, Servers, TrialsLeft,
      SocketsOfLives, OthersServed, Open, ImsUsedUp, FailureRestarts, BacklogOnlyWhenStopped

(* Post ends the testcase. *)
LEMMA RunEndKeeps == ASSUME Inv, RunEnd PROVE Rest'
  BY RecoveryAssumption
  DEF RunEnd, Written, Inv, Rest, RecoveryTypeOK, Control, Servers, TrialsLeft,
      SocketsOfLives, OthersServed, Open, ImsUsedUp, FailureRestarts, BacklogOnlyWhenStopped

(* A server is to be stopped. *)
LEMMA KillKeeps == ASSUME Inv, Kill PROVE Rest'
  BY RecoveryAssumption
  DEF Kill, Inv, Rest, RecoveryTypeOK, Control, Servers, TrialsLeft,
      SocketsOfLives, OthersServed, Open, ImsUsedUp, FailureRestarts, BacklogOnlyWhenStopped

(* A server is to be started. *)
LEMMA StartKeeps == ASSUME Inv, Start PROVE Rest'
  BY RecoveryAssumption
  DEF Start, StartServer, Inv, Rest, RecoveryTypeOK, Control, Servers, TrialsLeft,
      SocketsOfLives, OthersServed, Open, ImsUsedUp, FailureRestarts, BacklogOnlyWhenStopped

(* A line is written to a server that is down. *)
LEMMA RunLostKeeps == ASSUME Inv, NEW s \in Servers, RunLost(s) PROVE Rest'
  BY RecoveryAssumption
  DEF RunLost, Written, Inv, Rest, RecoveryTypeOK, Control, Servers, TrialsLeft,
      SocketsOfLives, OthersServed, Open, ImsUsedUp, FailureRestarts, BacklogOnlyWhenStopped

(* Nothing came in a testcase. *)
LEMMA RunTimeoutKeeps == ASSUME Inv, NEW s \in Servers, RunTimeout(s) PROVE Rest'
  BY RecoveryAssumption
  DEF RunTimeout, Inv, Rest, RecoveryTypeOK, Control, Servers, TrialsLeft,
      SocketsOfLives, OthersServed, Open, ImsUsedUp, FailureRestarts, BacklogOnlyWhenStopped

(* A server crashes. *)
LEMMA CrashKeeps == ASSUME Inv, NEW s \in Servers, Crash(s) PROVE Rest'
  BY RecoveryAssumption
  DEF Crash, Inv, Rest, RecoveryTypeOK, Control, Servers, TrialsLeft,
      SocketsOfLives, OthersServed, Open, ImsUsedUp, FailureRestarts, BacklogOnlyWhenStopped

(* A server stalls. *)
LEMMA StallKeeps == ASSUME Inv, NEW s \in Servers, Stall(s) PROVE Rest'
  BY RecoveryAssumption
  DEF Stall, Inv, Rest, RecoveryTypeOK, Control, Servers, TrialsLeft,
      SocketsOfLives, OthersServed, Open, ImsUsedUp, FailureRestarts, BacklogOnlyWhenStopped

(* A server goes on. *)
LEMMA ResumeKeeps == ASSUME Inv, NEW s \in Servers, Resume(s) PROVE Rest'
  BY RecoveryAssumption
  DEF Resume, Inv, Rest, RecoveryTypeOK, Control, Servers, TrialsLeft,
      SocketsOfLives, OthersServed, Open, ImsUsedUp, FailureRestarts, BacklogOnlyWhenStopped

(* A stop command takes effect. *)
LEMMA StoppedKeeps == ASSUME Inv, NEW s \in Servers, Stopped(s) PROVE Rest'
  BY RecoveryAssumption
  DEF Stopped, Inv, Rest, RecoveryTypeOK, Control, Servers, TrialsLeft,
      SocketsOfLives, OthersServed, Open, ImsUsedUp, FailureRestarts, BacklogOnlyWhenStopped

(* A start command takes effect. *)
LEMMA StartedKeeps == ASSUME Inv, NEW s \in Servers, Started(s) PROVE Rest'
  BY RecoveryAssumption
  DEF Started, Inv, Rest, RecoveryTypeOK, Control, Servers, TrialsLeft,
      SocketsOfLives, OthersServed, Open, ImsUsedUp, FailureRestarts, BacklogOnlyWhenStopped

(* Every step keeps the invariant. *)
LEMMA StepInv == Inv /\ [RecoveryNext]_vars => Inv'
<1> SUFFICES ASSUME Inv, [RecoveryNext]_vars PROVE Inv'
  OBVIOUS
<1>1. CASE ControllerStep
  <2>1. Rest'
    BY <1>1, RefusedKeeps, OverflowKeeps, ConnectedKeeps, GreetedKeeps, GreetLostKeeps,
       InitEpdgKeeps, InitImsKeeps, InitNullKeeps, AliveKeeps, NotAliveKeeps, RunEndKeeps,
       RunLostKeeps, RunTimeoutKeeps, KillKeeps, StartKeeps
    DEF ControllerStep
  <2> QED
    BY <1>1, <2>1, ControllerTyped DEF Inv, Rest
<1>2. ASSUME NEW s \in Servers, Crash(s) \/ Stall(s) \/ Resume(s) \/ Stopped(s) \/ Started(s)
      PROVE  Inv'
  <2>1. Rest'
    BY <1>2, CrashKeeps, StallKeeps, ResumeKeeps, StoppedKeeps, StartedKeeps
  <2>2. RecoveryTypeOK'
    BY <1>2, ServerTyped DEF Inv
  <2> QED
    BY <2>1, <2>2 DEF Inv, Rest
<1>3. CASE UNCHANGED vars
  BY <1>3
  DEF vars, Inv, RecoveryTypeOK, TrialsLeft, SocketsOfLives, OthersServed, Open, ImsUsedUp,
      FailureRestarts, BacklogOnlyWhenStopped
<1> QED
  BY <1>1, <1>2, <1>3 DEF RecoveryNext, Gone

(* The inductive invariant holds of every behaviour. *)
THEOREM RecoveryInvariance == RecoverySpec => []Inv
  BY InitInv, StepInv, PTL DEF RecoverySpec

-----------------------------------------------------------------------------
(* Processes, sockets, commands and the controller keep their types: in    *)
(* particular pre never counts beyond its last trial.                      *)
THEOREM RecoveryTyped == RecoverySpec => []RecoveryTypeOK
<1>1. Inv => RecoveryTypeOK
  BY DEF Inv
<1> QED
  BY <1>1, RecoveryInvariance, PTL

(* Whatever crashes, stalls and restarts there were, a testcase and the    *)
(* reset before it run over connections the servers' listeners accepted.   *)
THEOREM AlwaysServed == RecoverySpec => []NeverUnserved
<1>1. Inv => NeverUnserved
  BY DEF Inv, OthersServed, NeverUnserved, Served
<1> QED
  BY <1>1, RecoveryInvariance, PTL

(* handleEPDGIMSFailure never leads back to a testcase. *)
THEOREM NoWayBack == RecoverySpec => []FailureIsFinal
<1>1. Inv => FailureIsFinal
  BY DEF Inv, FailureRestarts, FailureIsFinal
<1> QED
  BY <1>1, RecoveryInvariance, PTL

(* Without a stall the controller never waits for ever in the backlog of   *)
(* a server, however often the servers crash.                              *)
THEOREM NoHangByCrash == RecoverySpec => []HangsOnlyAfterStall
<1>1. Inv => HangsOnlyAfterStall
  BY DEF Inv, RecoveryTypeOK, BacklogOnlyWhenStopped, HangsOnlyAfterStall, Hung, Served
<1> QED
  BY <1>1, RecoveryInvariance, PTL
=============================================================================
