------------------------------- MODULE UeProofs -------------------------------
(***************************************************************************)
(* Proofs about the UE controller and its callers (UeControl), for any     *)
(* number of retries, reboots, testcases, late reads and commands:         *)
(*                                                                         *)
(*   UeTyped          UeSpec => []UeTypeOK                                 *)
(*   AnswersInOrder   UeSpec => []LagBounded                               *)
(*   StaleExit        UeSpec => []ExitOnStaleFail                          *)
(*   QuietReset       UeSpec => []OffBetweenTestcases                      *)
(*   EnabledRight     UeSpec => []EnabledByWifiOn                          *)
(*                                                                         *)
(* Answers carry no tag, so the invariant counts: the commands and answers *)
(* on their way have consecutive numbers up to the last command sent, and  *)
(* there are no more of them than reads that timed out, and the one that   *)
(* is awaited.                                                             *)
(***************************************************************************)
EXTENDS UeControl, SequenceLemmas, TLAPS

-----------------------------------------------------------------------------
(* The inductive invariant *)

Busy == IF srv.pc \in {"read", "spin"} THEN 0 ELSE 1

Awaited == IF ctl.waits THEN 1 ELSE 0

(* What is on its way is numbered in the order it was asked for. *)
Numbered ==
    /\ \A i \in 1..Len(toUe) : toUe[i].id = ctl.sent - Len(toUe) + i
    /\ Busy = 1 => srv.cmd.id = ctl.sent - Len(toUe)
    /\ \A i \in 1..Len(fromUe) :
          fromUe[i].id = ctl.sent - Len(toUe) - Busy - Len(fromUe) + i

(* Each read that timed out leaves at most one answer behind. *)
Counted ==
    /\ Len(toUe) + Busy + Len(fromUe) <= ctl.late + Awaited
    /\ ctl.late = 0 => Len(toUe) + Busy + Len(fromUe) = Awaited
    /\ ctl.late + Awaited <= ctl.sent

(* What the handler is at, by the command it has read. *)
HandlerInLine ==
    /\ srv.pc \in {"read", "spin"} <=> srv.cmd = NoCommand
    /\ srv.pc = "again" => srv.cmd.op \in {"wifi_off", "wifi_on"} /\ phone.up
    /\ srv.pc \in {"poll", "config"} => srv.cmd.op = "ue_reboot"
    /\ srv.late => srv.pc \in {"poll", "config"} /\ ~(ctl.waits /\ ctl.sent = srv.cmd.id)

(* The device is asked for once, first. *)
DeviceFirst ==
    /\ ctl.pc = "connect" => ctl.sent = Awaited
    /\ ctl.pc # "connect" => ctl.sent > Awaited
    /\ \A i \in 1..Len(toUe) : toUe[i].op = "device" => toUe[i].id = 1
    /\ srv.cmd.op = "device" => srv.cmd.id = 1
    /\ \A i \in 1..Len(fromUe) : fromUe[i].line = "model" => fromUe[i].id = 1

(* A Fail is never the answer that is awaited. *)
FailsComeLate ==
    \A i \in 1..Len(fromUe) :
        fromUe[i].line = "Fail" => ~(ctl.waits /\ ctl.sent = fromUe[i].id)

(* Where the controller can be when it waits, and with which locals. *)
ControllerInLine ==
    /\ ctl.waits => ctl.pc \in Asking
    /\ ctl.pc \in {"off", "init", "on", "retry"} => ctl.retry > 0
    /\ ctl.pc \in {"judge", "ue_off", "ue_reboot"} => ctl.by = "none"

(* As long as no read has timed out: the Wi-Fi is on only from a wifi_on   *)
(* to the wifi_off that follows the testcase, never while the phone boots. *)
Switched ==
    ctl.late = 0 =>
        /\ phone.wifi => phone.up
        /\ toUe # << >> => toUe[1].op = Op
        /\ Busy = 1 => srv.cmd.op = Op
        /\ phone.wifi => ctl.pc \in {"on", "run", "post_off", "ue_off", "exited"}
        /\ ctl.pc \in {"ue_off", "post_off"} /\ fromUe # << >> => ~phone.wifi
        /\ ctl.pc = "on" /\ fromUe # << >> => phone.wifi \/ phone.missed
        /\ EnabledByWifiOn

Queues == Numbered /\ Counted /\ DeviceFirst /\ FailsComeLate

Inv ==
    /\ UeTypeOK /\ Queues /\ HandlerInLine /\ ControllerInLine /\ Switched
    /\ LagBounded /\ ExitOnStaleFail

-----------------------------------------------------------------------------
(* Types *)

HandlerState ==
    [pc : {"read", "work", "again", "poll", "config", "spin"},
     cmd : Command \cup {NoCommand}, cnt : 0..MaxReboots, late : BOOLEAN]

PhoneState ==
    [up : BOOLEAN, wifi : BOOLEAN, listed : BOOLEAN, button : BOOLEAN, missed : BOOLEAN]

ControlState ==
    [pc : Asking \cup {"pre", "init", "retry", "run", "retest", "judge"} \cup Ended,
     back : {"run", "retest", "pre"}, waits : BOOLEAN, sent : 0..MaxCommands, retry : 0..MaxRetries,
     by : {"none", "wifi_on", "ue_reboot"}, live : BOOLEAN, tc : Nat, again : Nat,
     lag : 0..MaxCommands, late : 0..MaxCommands]

(* The controller's ways on from a testcase. *)
Judges == Retest \/ JudgeTestcase \/ JudgeLiveness

(* The type invariant by variables. *)
LEMMA Types ==
    UeTypeOK <=> /\ toUe \in Seq(Command) /\ fromUe \in Seq(Answer)
                 /\ srv \in HandlerState /\ phone \in PhoneState /\ ctl \in ControlState
  BY DEF UeTypeOK, HandlerState, PhoneState, ControlState

(* The command in work. *)
LEMMA InWork ==
    ASSUME Inv, srv.pc \notin {"read", "spin"}
    PROVE  /\ srv.cmd \in Command /\ Busy = 1
           /\ srv.cmd.id \in 1..MaxCommands /\ srv.cmd.op \in Ops
<1>1. srv.cmd \in Command
  BY Types DEF Inv, HandlerInLine, HandlerState
<1>2. srv.cmd.id \in 1..MaxCommands /\ srv.cmd.op \in Ops
  BY <1>1 DEF Command
<1> QED
  BY <1>1, <1>2 DEF Busy

(* What a reply does to the handler and the answers. *)
LEMMA ReplyTyped ==
    ASSUME Inv, srv.pc \notin {"read", "spin"}, NEW line \in {"ACK", "Fail", "model"}, Reply(line)
    PROVE  /\ srv' \in HandlerState /\ fromUe' \in Seq(Answer)
           /\ srv'.pc = "read" /\ srv'.cmd = NoCommand /\ ~srv'.late
           /\ Len(fromUe') = Len(fromUe) + 1
           /\ \A k \in 1..Len(fromUe) : fromUe'[k] = fromUe[k]
           /\ fromUe'[Len(fromUe) + 1].line = line /\ fromUe'[Len(fromUe) + 1].id = srv.cmd.id
<1>1. fromUe \in Seq(Answer) /\ srv \in HandlerState
  BY Types DEF Inv
<1>2. [line |-> line, id |-> srv.cmd.id] \in Answer
  BY InWork DEF Answer
<1>3. srv' \in HandlerState /\ srv'.pc = "read" /\ srv'.cmd = NoCommand /\ ~srv'.late
  <2>1. 0 \in 0..MaxReboots
    BY UeAssumption
  <2>2. srv' \in HandlerState
    BY <1>1, <2>1 DEF Reply, HandlerState
  <2>3. srv'.pc = "read" /\ srv'.cmd = NoCommand /\ srv'.late = FALSE
    BY <1>1 DEF Reply, HandlerState
  <2> QED
    BY <2>2, <2>3
<1> DEFINE r == [line |-> line, id |-> srv.cmd.id]
<1>4. fromUe' = Append(fromUe, r) /\ r.line = line /\ r.id = srv.cmd.id
  BY DEF Reply
<1> HIDE DEF r
<1>5. /\ Append(fromUe, r) \in Seq(Answer)
      /\ Len(Append(fromUe, r)) = Len(fromUe) + 1
      /\ \A k \in 1..Len(fromUe) : Append(fromUe, r)[k] = fromUe[k]
      /\ Append(fromUe, r)[Len(fromUe) + 1] = r
  BY <1>1, <1>2, Appended DEF r
<1> QED
  BY <1>3, <1>4, <1>5

(* The handler's replies, by line. *)
LEMMA Replies ==
    ASSUME Inv, Device \/ Switch \/ LeaveAlone \/ PressAgain \/ RebootFailed \/ Configure
    PROVE  /\ \E line \in {"ACK", "Fail", "model"} :
                 /\ Reply(line)
                 /\ line = "Fail" => srv.late
                 /\ line = "model" => srv.cmd.op = "device"
           /\ srv.pc \notin {"read", "spin"}
           /\ UNCHANGED <<toUe, ctl>>
  BY DEF Device, Switch, LeaveAlone, PressAgain, RebootFailed, Configure

(* A handler's step keeps the types. *)
LEMMA HandlerTyped ==
    ASSUME Inv, Handler \/ Booted
    PROVE  UeTypeOK'
<1>1. /\ toUe \in Seq(Command) /\ fromUe \in Seq(Answer)
      /\ srv \in HandlerState /\ phone \in PhoneState /\ ctl \in ControlState
  BY Types DEF Inv
<1>2. ctl' = ctl
  BY DEF Handler, Booted, Receive, Spin, Device, Switch, LeaveAlone, Press, PressAgain, Reboot, Found,
         TimeOver, RebootAgain, RebootFailed, Configure
<1>3. phone' \in PhoneState
  BY <1>1
  DEF Handler, Booted, Receive, Spin, Device, Switch, LeaveAlone, Press, PressAgain, Reboot, Found,
      TimeOver, RebootAgain, RebootFailed, Configure, PhoneState, Wanted
<1>4. toUe' \in Seq(Command) /\ fromUe' \in Seq(Answer) /\ srv' \in HandlerState
  <2>1. CASE Receive
    <3>1. Head(toUe) \in Command /\ Tail(toUe) \in Seq(Command)
      BY <1>1, <2>1, Shifted DEF Receive
    <3> QED
      BY <1>1, <2>1, <3>1 DEF Receive, HandlerState
  <2>2. CASE Device \/ Switch \/ LeaveAlone \/ PressAgain \/ RebootFailed \/ Configure
    BY <1>1, <2>2, Replies, ReplyTyped
  <2>3. CASE Spin \/ Press \/ Reboot \/ Found \/ TimeOver \/ Booted
    BY <1>1, <2>3 DEF Spin, Press, Reboot, Found, TimeOver, Booted, HandlerState
  <2>4. CASE RebootAgain
    <3>1. srv.cnt + 1 \in 0..MaxReboots
      BY <1>1, <2>4, UeAssumption DEF RebootAgain, HandlerState
    <3> QED
      BY <1>1, <2>4, <3>1 DEF RebootAgain, HandlerState
  <2> QED
    BY <2>1, <2>2, <2>3, <2>4 DEF Handler
<1> QED
  BY <1>1, <1>2, <1>3, <1>4, Types DEF UeTypeOK, HandlerState, PhoneState, ControlState

(* Where an answer, or none, leads, and what it leaves alone. *)
LEMMA AfterAnswerTyped ==
    ASSUME NEW c \in ControlState, c.pc \in Asking, NEW ok \in BOOLEAN
    PROVE  /\ AfterAnswer(c, ok) \in ControlState
           /\ AfterAnswer(c, ok).waits = c.waits /\ AfterAnswer(c, ok).sent = c.sent
           /\ AfterAnswer(c, ok).late = c.late /\ AfterAnswer(c, ok).lag = c.lag
           /\ AfterAnswer(c, ok).retry = c.retry
           /\ AfterAnswer(c, ok).pc # "connect"
           /\ AfterAnswer(c, ok).pc = "exited" => c.pc = "reboot" /\ ~ok
<1> USE DEF ControlState, Asking, Ended
<1>1. CASE c.pc \in {"connect", "off", "ue_off", "ue_reboot", "main_off"}
  BY <1>1 DEF AfterAnswer
<1>2. CASE c.pc \in {"on", "reboot", "post_off"}
  BY <1>2 DEF AfterAnswer
<1> QED
  BY <1>1, <1>2

(* The number of the answer at the head of the stream. *)
LEMMA HeadNumber ==
    ASSUME Inv, fromUe # << >>
    PROVE  /\ Head(fromUe).id = ctl.sent - Len(toUe) - Busy - Len(fromUe) + 1
           /\ Len(fromUe) \in Nat \ {0} /\ Head(fromUe) = fromUe[1]
           /\ ctl.sent - Head(fromUe).id \in 0..MaxCommands
           /\ ctl.sent - Head(fromUe).id <= ctl.late + Awaited - 1
<1>1. /\ Len(fromUe) \in Nat \ {0} /\ Head(fromUe) = fromUe[1] /\ Head(fromUe) \in Answer
      /\ Len(toUe) \in Nat
  BY Types, Shifted DEF Inv
<1>2. ctl.sent \in 0..MaxCommands /\ ctl.late \in 0..MaxCommands /\ Head(fromUe).id \in 1..MaxCommands
  BY <1>1, Types DEF Inv, ControlState, Answer
<1>3. Busy \in {0, 1} /\ Awaited \in {0, 1}
  BY DEF Busy, Awaited
<1>4. Head(fromUe).id = ctl.sent - Len(toUe) - Busy - Len(fromUe) + 1
  <2>1. 1 \in 1..Len(fromUe)
    BY <1>1
  <2>2. fromUe[1].id = ctl.sent - Len(toUe) - Busy - Len(fromUe) + 1
    BY <2>1 DEF Inv, Queues, Numbered
  <2> QED
    BY <1>1, <2>2
<1>5. Len(toUe) + Busy + Len(fromUe) <= ctl.late + Awaited
  BY DEF Inv, Queues, Counted
<1>6. ctl.sent - Head(fromUe).id = Len(toUe) + Busy + Len(fromUe) - 1
  BY <1>1, <1>2, <1>3, <1>4
<1>7. ctl.sent - Head(fromUe).id \in 0..MaxCommands
  BY <1>1, <1>2, <1>3, <1>6, UeAssumption
<1> QED
  BY <1>1, <1>2, <1>3, <1>4, <1>5, <1>6, <1>7

(* What reading a line does to the controller. *)
LEMMA ReadTyped ==
    ASSUME Inv, Read
    PROVE  /\ ctl' \in ControlState
           /\ ctl'.waits = FALSE /\ ctl'.sent = ctl.sent /\ ctl'.late = ctl.late
           /\ ctl'.lag = ctl.sent - Head(fromUe).id /\ ctl'.retry = ctl.retry
           /\ ctl'.pc # "connect"
           /\ ctl'.pc = "exited" => ctl.pc = "reboot" /\ Head(fromUe).line # "ACK"
<1> DEFINE c == [ctl EXCEPT !.waits = FALSE, !.lag = ctl.sent - Head(fromUe).id]
<1>1. ctl \in ControlState /\ ctl.pc \in Asking
  BY Types DEF Read, Inv, ControllerInLine
<1>2. ctl.sent - Head(fromUe).id \in 0..MaxCommands
  BY HeadNumber DEF Read
<1>3. c \in ControlState
  BY <1>1, <1>2 DEF ControlState
<1>4. /\ c.pc = ctl.pc /\ c.waits = FALSE /\ c.sent = ctl.sent /\ c.late = ctl.late
      /\ c.lag = ctl.sent - Head(fromUe).id /\ c.retry = ctl.retry
  BY <1>1 DEF ControlState
<1>5. ctl' = AfterAnswer(c, Head(fromUe).line = "ACK")
  BY DEF Read
<1> HIDE DEF c
<1> DEFINE ok == Head(fromUe).line = "ACK"
<1>6. ok \in BOOLEAN
  OBVIOUS
<1> HIDE DEF ok
<1>7. /\ AfterAnswer(c, ok) \in ControlState
      /\ AfterAnswer(c, ok).waits = c.waits /\ AfterAnswer(c, ok).sent = c.sent
      /\ AfterAnswer(c, ok).late = c.late /\ AfterAnswer(c, ok).lag = c.lag
      /\ AfterAnswer(c, ok).retry = c.retry
      /\ AfterAnswer(c, ok).pc # "connect"
      /\ AfterAnswer(c, ok).pc = "exited" => c.pc = "reboot" /\ ~ok
  BY <1>1, <1>3, <1>4, <1>6, AfterAnswerTyped
<1> QED
  BY <1>4, <1>5, <1>7 DEF ok

(* What giving up does to it: one more read is late, and it never exits. *)
LEMMA ReadTimeoutTyped ==
    ASSUME Inv, ReadTimeout
    PROVE  /\ ctl' \in ControlState
           /\ ctl'.waits = FALSE /\ ctl'.sent = ctl.sent /\ ctl'.late = ctl.late + 1
           /\ ctl'.lag = ctl.lag /\ ctl'.retry = ctl.retry
           /\ ctl'.pc # "connect" /\ ctl'.pc # "exited"
<1> DEFINE c == [ctl EXCEPT !.waits = FALSE, !.late = @ + 1]
<1>1. ctl \in ControlState /\ ctl.pc \in Asking /\ ctl.waits
  BY Types DEF ReadTimeout, Inv, ControllerInLine
<1>2. ctl.late + 1 \in 0..MaxCommands
  BY <1>1, UeAssumption DEF ControlState, Inv, Queues, Counted, Awaited
<1>3. c \in ControlState
  BY <1>1, <1>2 DEF ControlState
<1>4. /\ c.pc = ctl.pc /\ c.waits = FALSE /\ c.sent = ctl.sent /\ c.late = ctl.late + 1
      /\ c.lag = ctl.lag /\ c.retry = ctl.retry
  BY <1>1 DEF ControlState
<1>5. ctl' = IF c.pc = "reboot" THEN [c EXCEPT !.pc = "run"] ELSE AfterAnswer(c, FALSE)
  BY DEF ReadTimeout
<1> HIDE DEF c
<1>6. CASE c.pc = "reboot"
  <2>1. ctl' = [c EXCEPT !.pc = "run"]
    BY <1>5, <1>6
  <2>2. ctl' \in ControlState /\ ctl'.pc = "run"
    BY <1>3, <2>1 DEF ControlState
  <2>3. /\ ctl'.waits = c.waits /\ ctl'.sent = c.sent /\ ctl'.late = c.late
        /\ ctl'.lag = c.lag /\ ctl'.retry = c.retry
    BY <1>3, <2>1 DEF ControlState
  <2> QED
    BY <1>4, <2>2, <2>3
<1>7. CASE c.pc # "reboot"
  <2>1. /\ AfterAnswer(c, FALSE) \in ControlState
        /\ AfterAnswer(c, FALSE).waits = c.waits /\ AfterAnswer(c, FALSE).sent = c.sent
        /\ AfterAnswer(c, FALSE).late = c.late /\ AfterAnswer(c, FALSE).lag = c.lag
        /\ AfterAnswer(c, FALSE).retry = c.retry
        /\ AfterAnswer(c, FALSE).pc # "connect" /\ AfterAnswer(c, FALSE).pc # "exited"
    BY <1>1, <1>3, <1>4, <1>7, AfterAnswerTyped
  <2> QED
    BY <1>4, <1>5, <1>7, <2>1
<1> QED
  BY <1>6, <1>7

(* A step of the main controller keeps the types. *)
LEMMA MainTyped ==
    ASSUME Inv, Main
    PROVE  UeTypeOK'
<1>1. /\ toUe \in Seq(Command) /\ fromUe \in Seq(Answer)
      /\ srv \in HandlerState /\ phone \in PhoneState /\ ctl \in ControlState
  BY Types DEF Inv
<1>2. UNCHANGED <<srv, phone>>
  BY DEF Main, Ask, Read, ReadTimeout, Pre, InitServers, Retry, Finish, RebootInStep, Judges, Retest, JudgeTestcase, JudgeLiveness, Done
<1>3. toUe' \in Seq(Command) /\ fromUe' \in Seq(Answer) /\ ctl' \in ControlState
  <2>1. CASE Ask
    <3>1. ctl.sent + 1 \in 1..MaxCommands /\ ctl.sent + 1 \in 0..MaxCommands
      BY <1>1, <2>1, UeAssumption DEF Ask, ControlState
    <3>2. Op \in Ops
      BY <2>1 DEF Ask, Op, Ops, Asking
    <3>3. [op |-> Op, id |-> ctl.sent + 1] \in Command
      BY <3>1, <3>2 DEF Command
    <3>4. toUe' \in Seq(Command)
      BY <1>1, <2>1, <3>3, Appended DEF Ask
    <3>5. ctl' \in ControlState
      BY <1>1, <2>1, <3>1 DEF Ask, ControlState
    <3> QED
      BY <1>1, <2>1, <3>4, <3>5 DEF Ask
  <2>2. CASE Read
    BY <1>1, <2>2, ReadTyped, Shifted DEF Read
  <2>3. CASE ReadTimeout
    BY <1>1, <2>3, ReadTimeoutTyped DEF ReadTimeout
  <2>4. CASE Pre
    <3>1. MaxRetries \in 0..MaxRetries
      BY UeAssumption
    <3>2. ctl' \in ControlState
      BY <1>1, <2>4, <3>1 DEF Pre, ControlState, Asking
    <3>3. fromUe' \in Seq(Answer)
      BY <1>1, <2>4, Dropped DEF Pre
    <3> QED
      BY <1>1, <2>4, <3>2, <3>3 DEF Pre
  <2>5. CASE Retry
    <3>1. ctl.retry - 1 \in 0..MaxRetries
      BY <1>1, <2>5, UeAssumption DEF Retry, ControlState, Inv, ControllerInLine
    <3> QED
      BY <1>1, <2>5, <3>1 DEF Retry, ControlState, Asking
  <2>6. CASE Judges
    <3>1. ctl.tc + 1 \in Nat /\ ctl.again + 1 \in Nat
      BY <1>1 DEF ControlState
    <3>2. CASE Retest
      BY <1>1, <3>1, <3>2 DEF Retest, ControlState, Ended
    <3>3. CASE JudgeTestcase
      BY <1>1, <3>1, <3>3 DEF JudgeTestcase, ControlState, Asking
    <3>4. CASE JudgeLiveness
      <4>1. PICK pc \in {"pre", "ue_off"} :
                ctl' = [ctl EXCEPT !.pc = pc, !.back = "pre", !.live = FALSE, !.tc = @ + 1]
        BY <3>4 DEF JudgeLiveness
      <4>2. ctl' \in ControlState
        BY <1>1, <3>1, <4>1 DEF ControlState, Asking
      <4> QED
        BY <1>1, <3>4, <4>2 DEF JudgeLiveness
    <3> QED
      BY <2>6, <3>2, <3>3, <3>4 DEF Judges
  <2>7. CASE InitServers \/ Finish \/ RebootInStep \/ Done
    BY <1>1, <2>7 DEF InitServers, Finish, RebootInStep, Done, ControlState, Asking, Ended
  <2> QED
    BY <2>1, <2>2, <2>3, <2>4, <2>5, <2>6, <2>7 DEF Main, Judges
<1> QED
  BY <1>1, <1>2, <1>3, Types DEF UeTypeOK, HandlerState, PhoneState, ControlState

-----------------------------------------------------------------------------
(* What is on its way *)

(* The numbers of the queues' part of the invariant are numbers. *)
LEMMA Numbers ==
    ASSUME Inv
    PROVE  /\ Len(toUe) \in Nat /\ Len(fromUe) \in Nat /\ ctl.sent \in Nat /\ ctl.late \in Nat
           /\ Busy \in {0, 1} /\ Awaited \in {0, 1}
<1>1. toUe \in Seq(Command) /\ fromUe \in Seq(Answer) /\ ctl \in ControlState
  BY Types DEF Inv
<1>2. ctl.sent \in Nat /\ ctl.late \in Nat
  BY <1>1, UeAssumption DEF ControlState
<1>3. Busy \in {0, 1} /\ Awaited \in {0, 1}
  BY DEF Busy, Awaited
<1> QED
  BY <1>1, <1>2, <1>3

(* Steps that move no command and no answer. *)
LEMMA QueuesStill ==
    ASSUME Inv, UNCHANGED <<toUe, fromUe>>, Busy' = Busy, srv'.cmd = srv.cmd,
           ctl'.sent = ctl.sent, ctl'.waits = ctl.waits, ctl'.late = ctl.late,
           ctl'.pc = "connect" <=> ctl.pc = "connect"
    PROVE  Queues'
<1>1. Awaited' = Awaited
  BY DEF Awaited
<1>2. Numbered' /\ Counted'
  BY <1>1 DEF Inv, Queues, Numbered, Counted
<1>3. DeviceFirst' /\ FailsComeLate'
  BY <1>1 DEF Inv, Queues, DeviceFirst, FailsComeLate
<1> QED
  BY <1>2, <1>3 DEF Queues

(* The handler's steps within a command, and the phone's. *)
LEMMA QueuesHandlerStill ==
    ASSUME Inv, Spin \/ Press \/ Reboot \/ Found \/ TimeOver \/ RebootAgain \/ Booted
    PROVE  Queues'
<1>1. srv \in HandlerState
  BY Types DEF Inv
<1>2. UNCHANGED <<toUe, fromUe, ctl>>
  BY DEF Spin, Press, Reboot, Found, TimeOver, RebootAgain, Booted
<1>3. Busy' = Busy /\ srv'.cmd = srv.cmd
  BY <1>1 DEF Spin, Press, Reboot, Found, TimeOver, RebootAgain, Booted, HandlerState, Busy
<1> QED
  BY <1>2, <1>3, QueuesStill

(* The controller's steps between two commands. *)
LEMMA QueuesMainStill ==
    ASSUME Inv, InitServers \/ Retry \/ Finish \/ RebootInStep \/ Judges \/ Done
    PROVE  Queues'
<1>1. ctl \in ControlState
  BY Types DEF Inv
<1>2. UNCHANGED <<toUe, fromUe, srv>>
  BY DEF InitServers, Retry, Finish, RebootInStep, Judges, Retest, JudgeTestcase, JudgeLiveness, Done
<1>3. Busy' = Busy
  BY <1>2 DEF Busy
<1>4. /\ ctl'.sent = ctl.sent /\ ctl'.waits = ctl.waits /\ ctl'.late = ctl.late
      /\ ctl.pc # "connect" /\ ctl'.pc # "connect"
  BY <1>1 DEF InitServers, Retry, Finish, RebootInStep, Judges, Retest, JudgeTestcase, JudgeLiveness, Done, ControlState
<1> QED
  BY <1>2, <1>3, <1>4, QueuesStill

(* The handler reads the next command. *)
LEMMA QueuesReceive ==
    ASSUME Inv, Receive
    PROVE  Queues'
<1>1. toUe \in Seq(Command) /\ srv \in HandlerState /\ toUe # << >>
  BY Types DEF Inv, Receive
<1>2. /\ Len(toUe) \in Nat \ {0} /\ Len(toUe') = Len(toUe) - 1
      /\ \A k \in 1..Len(toUe') : toUe'[k] = toUe[k + 1] /\ k + 1 \in 1..Len(toUe)
      /\ srv'.cmd = toUe[1] /\ 1 \in 1..Len(toUe)
  <2>1. srv'.cmd = Head(toUe) /\ toUe' = Tail(toUe)
    BY <1>1 DEF Receive, HandlerState
  <2>2. /\ Len(toUe) \in Nat \ {0} /\ Head(toUe) = toUe[1] /\ Len(Tail(toUe)) = Len(toUe) - 1
        /\ \A k \in 1..Len(toUe) - 1 : Tail(toUe)[k] = toUe[k + 1]
    BY <1>1, Shifted
  <2> QED
    BY <2>1, <2>2
<1>3. Busy = 0 /\ Busy' = 1 /\ Awaited' = Awaited /\ UNCHANGED <<fromUe, ctl>>
  BY <1>1 DEF Receive, Busy, Awaited, HandlerState
<1>4. Numbered'
  <2>1. \A i \in 1..Len(toUe') : toUe'[i].id = ctl.sent - Len(toUe') + i
    <3> TAKE i \in 1..Len(toUe')
    <3>1. toUe'[i].id = ctl.sent - Len(toUe) + (i + 1)
      BY <1>2 DEF Inv, Queues, Numbered
    <3>2. i \in Int /\ ctl.sent \in Int /\ Len(toUe) \in Int /\ Len(toUe') = Len(toUe) - 1
      BY <1>2, Numbers
    <3> QED
      BY <3>1, <3>2
  <2>2. srv'.cmd.id = ctl.sent - Len(toUe')
    BY <1>2, Numbers DEF Inv, Queues, Numbered
  <2>3. \A i \in 1..Len(fromUe) :
            fromUe[i].id = ctl.sent - Len(toUe') - 1 - Len(fromUe) + i
    <3>1. \A i \in 1..Len(fromUe) : fromUe[i].id = ctl.sent - Len(toUe) - Busy - Len(fromUe) + i
      BY DEF Inv, Queues, Numbered
    <3> QED
      BY <1>2, <1>3, <3>1, Numbers
  <2> QED
    BY <1>3, <2>1, <2>2, <2>3 DEF Numbered
<1>5. Counted'
  BY <1>2, <1>3, Numbers DEF Inv, Queues, Counted
<1>6. DeviceFirst'
  BY <1>2, <1>3 DEF Inv, Queues, DeviceFirst
<1>7. FailsComeLate'
  BY <1>3 DEF Inv, Queues, FailsComeLate
<1> QED
  BY <1>4, <1>5, <1>6, <1>7 DEF Queues

(* The handler answers: what it was at is now on its way back. *)
LEMMA QueuesReply ==
    ASSUME Inv, Device \/ Switch \/ LeaveAlone \/ PressAgain \/ RebootFailed \/ Configure
    PROVE  Queues'
<1>1. PICK line \in {"ACK", "Fail", "model"} :
          /\ Reply(line)
          /\ line = "Fail" => srv.late
          /\ line = "model" => srv.cmd.op = "device"
  BY Replies
<1>2. srv.pc \notin {"read", "spin"} /\ UNCHANGED <<toUe, ctl>>
  BY Replies
<1>3. /\ srv'.pc = "read" /\ srv'.cmd = NoCommand
      /\ Len(fromUe') = Len(fromUe) + 1
      /\ \A k \in 1..Len(fromUe) : fromUe'[k] = fromUe[k]
      /\ fromUe'[Len(fromUe) + 1].line = line /\ fromUe'[Len(fromUe) + 1].id = srv.cmd.id
  BY <1>1, <1>2, ReplyTyped
<1>4. Busy = 1 /\ Busy' = 0 /\ Awaited' = Awaited
  BY <1>2, <1>3 DEF Busy, Awaited
<1>5. \A i \in 1..Len(fromUe') : i \in 1..Len(fromUe) \/ i = Len(fromUe) + 1
  BY <1>3, Numbers
<1>6. Numbered'
  <2>1. \A i \in 1..Len(fromUe') : fromUe'[i].id = ctl.sent - Len(toUe) - Len(fromUe') + i
    <3> SUFFICES ASSUME NEW i \in 1..Len(fromUe')
                 PROVE  fromUe'[i].id = ctl.sent - Len(toUe) - Len(fromUe') + i
      OBVIOUS
    <3>1. CASE i \in 1..Len(fromUe)
      <4>1. fromUe[i].id = ctl.sent - Len(toUe) - Busy - Len(fromUe) + i
        BY <3>1 DEF Inv, Queues, Numbered
      <4>2. /\ i \in Int /\ ctl.sent \in Int /\ Len(toUe) \in Int /\ Len(fromUe) \in Int
            /\ Busy = 1 /\ Len(fromUe') = Len(fromUe) + 1 /\ fromUe'[i] = fromUe[i]
        BY <1>3, <1>4, <3>1, Numbers
      <4> QED
        BY <4>1, <4>2
    <3>2. CASE i = Len(fromUe) + 1
      BY <1>3, <1>4, <3>2, Numbers DEF Inv, Queues, Numbered
    <3> QED
      BY <1>5, <3>1, <3>2
  <2>2. \A i \in 1..Len(toUe') : toUe'[i].id = ctl'.sent - Len(toUe') + i
    BY <1>2 DEF Inv, Queues, Numbered
  <2>3. \A i \in 1..Len(fromUe') : fromUe'[i].id = ctl'.sent - Len(toUe') - Busy' - Len(fromUe') + i
    BY <1>2, <1>3, <1>4, <2>1, Numbers
  <2> QED
    BY <1>4, <2>2, <2>3 DEF Numbered
<1>7. Counted'
  BY <1>2, <1>3, <1>4, Numbers DEF Inv, Queues, Counted
<1>8. DeviceFirst'
  <2>1. \A i \in 1..Len(fromUe') : fromUe'[i].line = "model" => fromUe'[i].id = 1
    BY <1>1, <1>3, <1>5 DEF Inv, Queues, DeviceFirst
  <2>2. srv'.cmd.op # "device"
    BY <1>3 DEF NoCommand
  <2> QED
    BY <1>2, <1>4, <2>1, <2>2 DEF Inv, Queues, DeviceFirst
<1>9. FailsComeLate'
  <2>1. line = "Fail" => ~(ctl.waits /\ ctl.sent = srv.cmd.id)
    BY <1>1 DEF Inv, HandlerInLine
  <2> QED
    BY <1>2, <1>3, <1>5, <2>1 DEF Inv, Queues, FailsComeLate
<1> QED
  BY <1>6, <1>7, <1>8, <1>9 DEF Queues

(* The controller sends a command. *)
LEMMA QueuesAsk ==
    ASSUME Inv, Ask
    PROVE  Queues'
<1>1. toUe \in Seq(Command) /\ ctl \in ControlState /\ UNCHANGED <<fromUe, srv>>
  BY Types DEF Inv, Ask
<1>2. /\ Len(toUe') = Len(toUe) + 1
      /\ \A k \in 1..Len(toUe) : toUe'[k] = toUe[k]
      /\ toUe'[Len(toUe) + 1].op = Op /\ toUe'[Len(toUe) + 1].id = ctl.sent + 1
  <2> DEFINE r == [op |-> Op, id |-> ctl.sent + 1]
  <2>1. r \in Command
    <3>1. ctl.sent + 1 \in 1..MaxCommands
      BY <1>1, UeAssumption DEF Ask, ControlState
    <3>2. Op \in Ops
      BY DEF Ask, Op, Ops, Asking
    <3> QED
      BY <3>1, <3>2 DEF Command
  <2>2. toUe' = Append(toUe, r) /\ r.op = Op /\ r.id = ctl.sent + 1
    BY DEF Ask
  <2> HIDE DEF r
  <2>3. /\ Len(Append(toUe, r)) = Len(toUe) + 1
        /\ \A k \in 1..Len(toUe) : Append(toUe, r)[k] = toUe[k]
        /\ Append(toUe, r)[Len(toUe) + 1] = r
    BY <1>1, <2>1, Appended
  <2> QED
    BY <2>2, <2>3
<1>3. /\ ctl.waits = FALSE /\ ctl'.waits = TRUE /\ ctl'.sent = ctl.sent + 1
      /\ ctl'.late = ctl.late /\ ctl'.pc = ctl.pc
  BY <1>1 DEF Ask, ControlState
<1>4. Awaited = 0 /\ Awaited' = 1 /\ Busy' = Busy
  BY <1>1, <1>3 DEF Awaited, Busy
<1>5. \A i \in 1..Len(toUe') : i \in 1..Len(toUe) \/ i = Len(toUe) + 1
  BY <1>2, Numbers
<1>6. Numbered'
  <2>1. \A i \in 1..Len(toUe') : toUe'[i].id = ctl'.sent - Len(toUe') + i
    <3> SUFFICES ASSUME NEW i \in 1..Len(toUe')
                 PROVE  toUe'[i].id = ctl'.sent - Len(toUe') + i
      OBVIOUS
    <3>1. CASE i \in 1..Len(toUe)
      BY <1>2, <1>3, <3>1, Numbers DEF Inv, Queues, Numbered
    <3>2. CASE i = Len(toUe) + 1
      BY <1>2, <1>3, <3>2, Numbers
    <3> QED
      BY <1>5, <3>1, <3>2
  <2>2. Busy' = 1 => srv'.cmd.id = ctl'.sent - Len(toUe')
    BY <1>1, <1>2, <1>3, <1>4, Numbers DEF Inv, Queues, Numbered
  <2>3. \A i \in 1..Len(fromUe') : fromUe'[i].id = ctl'.sent - Len(toUe') - Busy' - Len(fromUe') + i
    <3>1. \A i \in 1..Len(fromUe) : fromUe[i].id = ctl.sent - Len(toUe) - Busy - Len(fromUe) + i
      BY DEF Inv, Queues, Numbered
    <3>2. ctl'.sent - Len(toUe') - Busy' - Len(fromUe')
            = ctl.sent - Len(toUe) - Busy - Len(fromUe)
      BY <1>1, <1>2, <1>3, <1>4, Numbers
    <3> QED
      BY <1>1, <3>1, <3>2
  <2> QED
    BY <2>1, <2>2, <2>3 DEF Numbered
<1>7. Counted'
  BY <1>1, <1>2, <1>3, <1>4, Numbers DEF Inv, Queues, Counted
<1>8. DeviceFirst'
  <2>1. ctl.pc # "connect" => Op # "device"
    BY DEF Op, Ask, Asking
  <2>2. ctl.pc = "connect" => ctl.sent = 0
    BY <1>4 DEF Inv, Queues, DeviceFirst
  <2>3. \A i \in 1..Len(toUe') : toUe'[i].op = "device" => toUe'[i].id = 1
    BY <1>2, <1>5, <2>1, <2>2 DEF Inv, Queues, DeviceFirst
  <2>4. (ctl'.pc = "connect" => ctl'.sent = Awaited') /\ (ctl'.pc # "connect" => ctl'.sent > Awaited')
    BY <1>3, <1>4, <2>2, Numbers DEF Inv, Queues, DeviceFirst
  <2> QED
    BY <1>1, <2>3, <2>4 DEF Inv, Queues, DeviceFirst
<1>9. FailsComeLate'
  <2>1. \A i \in 1..Len(fromUe) : fromUe[i].id = ctl.sent - Len(toUe) - Busy - Len(fromUe) + i
    BY DEF Inv, Queues, Numbered
  <2>2. \A i \in 1..Len(fromUe) : fromUe[i].id # ctl.sent + 1
    BY <2>1, Numbers
  <2> QED
    BY <1>1, <1>3, <2>2 DEF FailsComeLate
<1> QED
  BY <1>6, <1>7, <1>8, <1>9 DEF Queues

(* The controller reads a line. *)
LEMMA QueuesRead ==
    ASSUME Inv, Read
    PROVE  Queues'
<1>1. /\ fromUe \in Seq(Answer) /\ fromUe # << >> /\ ctl \in ControlState
      /\ ctl.waits = TRUE /\ UNCHANGED <<toUe, srv>>
  BY Types DEF Inv, Read, ControlState
<1>2. /\ Len(fromUe) \in Nat \ {0} /\ Len(fromUe') = Len(fromUe) - 1
      /\ \A k \in 1..Len(fromUe') : fromUe'[k] = fromUe[k + 1] /\ k + 1 \in 1..Len(fromUe)
  <2>1. /\ Len(fromUe) \in Nat \ {0} /\ Len(Tail(fromUe)) = Len(fromUe) - 1
        /\ \A k \in 1..Len(fromUe) - 1 : Tail(fromUe)[k] = fromUe[k + 1]
    BY <1>1, Shifted
  <2>2. fromUe' = Tail(fromUe)
    BY DEF Read
  <2> QED
    BY <2>1, <2>2
<1>3. /\ ctl'.waits = FALSE /\ ctl'.sent = ctl.sent /\ ctl'.late = ctl.late
      /\ ctl'.pc # "connect"
  BY ReadTyped
<1>4. Awaited = 1 /\ Awaited' = 0 /\ Busy' = Busy
  BY <1>1, <1>3 DEF Awaited, Busy
<1>5. Numbered'
  <2>1. \A i \in 1..Len(fromUe) : fromUe[i].id = ctl.sent - Len(toUe) - Busy - Len(fromUe) + i
    BY DEF Inv, Queues, Numbered
  <2>2. \A i \in 1..Len(fromUe') : fromUe'[i].id = ctl'.sent - Len(toUe') - Busy' - Len(fromUe') + i
    <3> TAKE i \in 1..Len(fromUe')
    <3>1. fromUe'[i].id = ctl.sent - Len(toUe) - Busy - Len(fromUe) + (i + 1)
      BY <1>2, <2>1
    <3> DEFINE a == ctl.sent - Len(toUe) - Busy
    <3>2. a \in Int /\ i \in Int /\ Len(fromUe) \in Int /\ Len(fromUe') = Len(fromUe) - 1
      BY <1>2, Numbers
    <3>3. a = ctl'.sent - Len(toUe') - Busy'
      BY <1>1, <1>3, <1>4
    <3> HIDE DEF a
    <3>4. a - Len(fromUe) + (i + 1) = a - Len(fromUe') + i
      BY <3>2
    <3> QED
      BY <3>1, <3>3, <3>4 DEF a
  <2> QED
    BY <1>1, <1>3, <1>4, <2>2 DEF Inv, Queues, Numbered
<1>6. Counted'
  BY <1>1, <1>2, <1>3, <1>4, Numbers DEF Inv, Queues, Counted
<1>7. DeviceFirst'
  <2>1. \A i \in 1..Len(fromUe') : fromUe'[i].line = "model" => fromUe'[i].id = 1
    BY <1>2 DEF Inv, Queues, DeviceFirst
  <2>2. ctl'.sent > Awaited'
    BY <1>3, <1>4, Numbers DEF Inv, Queues, DeviceFirst
  <2> QED
    BY <1>1, <1>3, <2>1, <2>2 DEF Inv, Queues, DeviceFirst
<1>8. FailsComeLate'
  BY <1>3 DEF FailsComeLate
<1> QED
  BY <1>5, <1>6, <1>7, <1>8 DEF Queues

(* The controller gives up reading: one more answer will come late. *)
LEMMA QueuesReadTimeout ==
    ASSUME Inv, ReadTimeout
    PROVE  Queues'
<1>1. UNCHANGED <<toUe, fromUe, srv>> /\ ctl.waits = TRUE /\ ctl.pc # "connect" /\ Len(fromUe) = 0
  BY Types DEF Inv, ReadTimeout, ControlState
<1>2. /\ ctl'.waits = FALSE /\ ctl'.sent = ctl.sent /\ ctl'.late = ctl.late + 1
      /\ ctl'.pc # "connect"
  BY ReadTimeoutTyped
<1>3. Awaited = 1 /\ Awaited' = 0 /\ Busy' = Busy
  BY <1>1, <1>2 DEF Awaited, Busy
<1>4. Numbered'
  BY <1>1, <1>2, <1>3 DEF Inv, Queues, Numbered
<1>5. Counted'
  BY <1>1, <1>2, <1>3, Numbers DEF Inv, Queues, Counted
<1>6. DeviceFirst'
  <2>1. ctl'.sent > Awaited'
    BY <1>1, <1>2, <1>3, Numbers DEF Inv, Queues, DeviceFirst
  <2> QED
    BY <1>1, <1>2, <2>1 DEF Inv, Queues, DeviceFirst
<1>7. FailsComeLate'
  BY <1>2 DEF FailsComeLate
<1> QED
  BY <1>4, <1>5, <1>6, <1>7 DEF Queues

(* The new reader of a testcase may lose what the old one had read ahead. *)
LEMMA QueuesPre ==
    ASSUME Inv, Pre
    PROVE  Queues'
<1>1. /\ fromUe \in Seq(Answer) /\ ctl \in ControlState /\ UNCHANGED <<toUe, srv>>
      /\ ctl.pc = "pre" /\ ctl.waits = FALSE
  BY Types DEF Inv, Pre, ControllerInLine, Asking, ControlState
<1>2. /\ ctl'.waits = FALSE /\ ctl'.sent = ctl.sent /\ ctl'.late = ctl.late
      /\ ctl'.pc = "off"
  BY <1>1 DEF Pre, ControlState
<1>3. PICK n \in 0..Len(fromUe) : fromUe' = SubSeq(fromUe, n + 1, Len(fromUe))
  BY DEF Pre
<1>4. /\ n \in Nat /\ n <= Len(fromUe) /\ Len(fromUe') = Len(fromUe) - n
      /\ \A k \in 1..Len(fromUe') : fromUe'[k] = fromUe[k + n] /\ k + n \in 1..Len(fromUe)
  <2>1. /\ Len(SubSeq(fromUe, n + 1, Len(fromUe))) = Len(fromUe) - n
        /\ \A k \in 1..Len(fromUe) - n : SubSeq(fromUe, n + 1, Len(fromUe))[k] = fromUe[k + n]
    BY <1>1, Dropped
  <2> QED
    BY <1>3, <2>1, Numbers
<1>5. Awaited = 0 /\ Awaited' = 0 /\ Busy' = Busy
  BY <1>1, <1>2 DEF Awaited, Busy
<1>6. Numbered'
  <2>1. \A i \in 1..Len(fromUe) : fromUe[i].id = ctl.sent - Len(toUe) - Busy - Len(fromUe) + i
    BY DEF Inv, Queues, Numbered
  <2>2. \A i \in 1..Len(fromUe') : fromUe'[i].id = ctl'.sent - Len(toUe') - Busy' - Len(fromUe') + i
    <3> TAKE i \in 1..Len(fromUe')
    <3>1. fromUe'[i].id = ctl.sent - Len(toUe) - Busy - Len(fromUe) + (i + n)
      BY <1>4, <2>1
    <3>2. /\ i \in Int /\ ctl.sent \in Int /\ Len(toUe) \in Int /\ Busy \in Int
          /\ Len(fromUe) \in Int /\ Len(fromUe') = Len(fromUe) - n /\ n \in Int
      BY <1>1, <1>2, <1>4, <1>5, Numbers
    <3>3. ctl'.sent = ctl.sent /\ toUe' = toUe /\ Busy' = Busy
      BY <1>1, <1>2, <1>4, <1>5
    <3> QED
      BY <3>1, <3>2, <3>3
  <2> QED
    BY <1>1, <1>2, <1>5, <2>2 DEF Inv, Queues, Numbered
<1>7. Counted'
  BY <1>1, <1>2, <1>4, <1>5, Numbers DEF Inv, Queues, Counted
<1>8. DeviceFirst'
  <2>1. \A i \in 1..Len(fromUe') : fromUe'[i].line = "model" => fromUe'[i].id = 1
    BY <1>4 DEF Inv, Queues, DeviceFirst
  <2>2. ctl'.sent > Awaited'
    BY <1>1, <1>2, <1>5 DEF Inv, Queues, DeviceFirst
  <2> QED
    BY <1>1, <1>2, <2>1, <2>2 DEF Inv, Queues, DeviceFirst
<1>9. FailsComeLate'
  BY <1>2 DEF FailsComeLate
<1> QED
  BY <1>6, <1>7, <1>8, <1>9 DEF Queues

-----------------------------------------------------------------------------
(* The handler and the controller in their programs *)

(* The handler's own steps and the phone's. *)
LEMMA HandlerKept ==
    ASSUME Inv, Handler \/ Booted
    PROVE  HandlerInLine' /\ ControllerInLine' /\ LagBounded' /\ ExitOnStaleFail'
<1>1. srv \in HandlerState /\ toUe \in Seq(Command) /\ phone \in PhoneState
  BY Types DEF Inv
<1>2. ctl' = ctl
  BY DEF Handler, Booted, Receive, Spin, Device, Switch, LeaveAlone, Press, PressAgain, Reboot, Found,
         TimeOver, RebootAgain, RebootFailed, Configure
<1>3. ControllerInLine' /\ LagBounded' /\ ExitOnStaleFail'
  BY <1>2 DEF Inv, ControllerInLine, LagBounded, ExitOnStaleFail
<1>4. HandlerInLine'
  <2>1. CASE Receive
    <3>1. Head(toUe) \in Command
      BY <1>1, <2>1, Shifted DEF Receive
    <3>2. Head(toUe) # NoCommand
      BY <3>1 DEF Command, Ops, NoCommand
    <3>3. srv'.pc = "work" /\ srv'.cmd = Head(toUe) /\ srv'.late = srv.late /\ srv.pc = "read"
      BY <1>1, <2>1 DEF Receive, HandlerState
    <3> QED
      BY <3>2, <3>3 DEF Inv, HandlerInLine
  <2>2. CASE Device \/ Switch \/ LeaveAlone \/ PressAgain \/ RebootFailed \/ Configure
    <3>1. srv'.pc = "read" /\ srv'.cmd = NoCommand /\ ~srv'.late
      BY <2>2, Replies, ReplyTyped
    <3> QED
      BY <3>1 DEF HandlerInLine
  <2>3. CASE Spin \/ Press \/ Reboot \/ Found
    <3>1. /\ srv'.cmd = srv.cmd /\ srv'.late = srv.late
          /\ \/ srv.pc = "read" /\ srv'.pc = "spin"
             \/ /\ srv.pc = "work" /\ srv'.pc = "again" /\ srv.cmd.op \in {"wifi_off", "wifi_on"}
                /\ phone'.up
             \/ srv.pc = "work" /\ srv'.pc = "poll" /\ srv.cmd.op = "ue_reboot"
             \/ srv.pc = "poll" /\ srv'.pc = "config"
      BY <1>1, <2>3 DEF Spin, Press, Reboot, Found, HandlerState, PhoneState
    <3> QED
      BY <1>2, <3>1 DEF Inv, HandlerInLine
  <2>4. CASE TimeOver \/ RebootAgain
    <3>1. /\ srv'.cmd = srv.cmd /\ srv'.pc = srv.pc /\ srv.pc = "poll"
          /\ srv'.late => srv.late \/ ~(ctl.waits /\ ctl.sent = srv.cmd.id)
      BY <1>1, <2>4 DEF TimeOver, RebootAgain, HandlerState
    <3> QED
      BY <1>2, <3>1 DEF Inv, HandlerInLine
  <2>5. CASE Booted
    <3>1. phone'.up /\ srv' = srv
      BY <1>1, <2>5 DEF Booted, PhoneState
    <3> QED
      BY <1>2, <3>1 DEF Inv, HandlerInLine
  <2> QED
    BY <2>1, <2>2, <2>3, <2>4, <2>5 DEF Handler
<1> QED
  BY <1>3, <1>4

(* Where an answer, or none, leads. *)
LEMMA AfterAnswerMoves ==
    ASSUME NEW c \in ControlState, NEW ok \in BOOLEAN
    PROVE  /\ c.pc = "connect" => AfterAnswer(c, ok).pc = "pre"
           /\ c.pc = "off" => AfterAnswer(c, ok).pc \in {"init", "retry"}
           /\ c.pc = "on" /\ ~ok => AfterAnswer(c, ok).pc = "retry"
           /\ c.pc = "on" /\ ok => AfterAnswer(c, ok).pc = "run" /\ AfterAnswer(c, ok).by = "wifi_on"
           /\ c.pc = "reboot" /\ ok => AfterAnswer(c, ok).pc = "run" /\ AfterAnswer(c, ok).by = "ue_reboot"
           /\ c.pc = "reboot" /\ ~ok => AfterAnswer(c, ok).pc = "exited"
           /\ c.pc = "ue_off" => AfterAnswer(c, ok).pc = "ue_reboot" /\ AfterAnswer(c, ok).by = c.by
           /\ c.pc = "ue_reboot" => AfterAnswer(c, ok).pc \in {"run", "retest", "pre"} /\ AfterAnswer(c, ok).by = c.by
           /\ c.pc = "post_off" => AfterAnswer(c, ok).pc = "judge" /\ AfterAnswer(c, ok).by = "none"
           /\ c.pc = "main_off" => AfterAnswer(c, ok).pc = "pre"
<1>1. CASE c.pc \in {"connect", "off", "ue_off", "ue_reboot", "main_off"}
  BY <1>1 DEF AfterAnswer, ControlState
<1>2. CASE c.pc \in {"on", "reboot", "post_off"}
  BY <1>2 DEF AfterAnswer, ControlState
<1> QED
  BY <1>1, <1>2

(* Where the line that was read leads. *)
LEMMA ReadMoves ==
    ASSUME Inv, Read
    PROVE  LET ok == Head(fromUe).line = "ACK" IN
           /\ ctl.pc = "connect" => ctl'.pc = "pre"
           /\ ctl.pc = "off" => ctl'.pc \in {"init", "retry"}
           /\ ctl.pc = "on" /\ ~ok => ctl'.pc = "retry"
           /\ ctl.pc = "on" /\ ok => ctl'.pc = "run" /\ ctl'.by = "wifi_on"
           /\ ctl.pc = "reboot" /\ ok => ctl'.pc = "run" /\ ctl'.by = "ue_reboot"
           /\ ctl.pc = "reboot" /\ ~ok => ctl'.pc = "exited"
           /\ ctl.pc = "ue_off" => ctl'.pc = "ue_reboot" /\ ctl'.by = ctl.by
           /\ ctl.pc = "ue_reboot" => ctl'.pc \in {"run", "retest", "pre"} /\ ctl'.by = ctl.by
           /\ ctl.pc = "post_off" => ctl'.pc = "judge" /\ ctl'.by = "none"
           /\ ctl.pc = "main_off" => ctl'.pc = "pre"
<1> DEFINE c == [ctl EXCEPT !.waits = FALSE, !.lag = ctl.sent - Head(fromUe).id]
           ok == Head(fromUe).line = "ACK"
<1>1. ctl \in ControlState /\ ctl.sent - Head(fromUe).id \in 0..MaxCommands
  BY Types, HeadNumber DEF Read, Inv
<1>2. c \in ControlState
  BY <1>1 DEF ControlState
<1>3. c.pc = ctl.pc /\ c.by = ctl.by
  BY <1>1 DEF ControlState
<1>4. ctl' = AfterAnswer(c, ok) /\ ok \in BOOLEAN
  BY DEF Read
<1> HIDE DEF c, ok
<1> QED
  BY <1>2, <1>3, <1>4, AfterAnswerMoves DEF ok

(* Where giving up leads. *)
LEMMA ReadTimeoutMoves ==
    ASSUME Inv, ReadTimeout
    PROVE  /\ ctl'.pc \in {"init", "retry"} => ctl.pc \in {"off", "on"}
           /\ ctl'.pc \notin {"off", "on", "ue_off"}
           /\ ctl'.pc = "ue_reboot" => ctl.pc = "ue_off" /\ ctl'.by = ctl.by
           /\ ctl'.pc = "judge" => ctl'.by = "none"
<1> DEFINE c == [ctl EXCEPT !.waits = FALSE, !.late = @ + 1]
<1>1. ctl \in ControlState /\ ctl.pc \in Asking /\ ctl.waits
  BY Types DEF ReadTimeout, Inv, ControllerInLine
<1>2. ctl.late + 1 \in 0..MaxCommands
  BY <1>1, UeAssumption DEF ControlState, Inv, Queues, Counted, Awaited
<1>3. c \in ControlState
  BY <1>1, <1>2 DEF ControlState
<1>4. c.pc = ctl.pc /\ c.by = ctl.by
  BY <1>1 DEF ControlState
<1>5. ctl' = IF c.pc = "reboot" THEN [c EXCEPT !.pc = "run"] ELSE AfterAnswer(c, FALSE)
  BY DEF ReadTimeout
<1> HIDE DEF c
<1>6. [c EXCEPT !.pc = "run"].pc = "run"
  BY <1>3 DEF ControlState
<1>7. CASE ctl.pc = "reboot"
  BY <1>4, <1>5, <1>6, <1>7
<1>8. CASE ctl.pc # "reboot"
  <2>1. ctl' = AfterAnswer(c, FALSE)
    BY <1>4, <1>5, <1>8
  <2>2. CASE c.pc \in {"connect", "off", "on", "main_off"}
    <3>1. ctl'.pc \in {"pre", "init", "retry"} /\ (ctl'.pc # "pre" => ctl.pc \in {"off", "on"})
      BY <1>3, <1>4, <2>1, <2>2, AfterAnswerMoves
    <3> QED
      BY <3>1
  <2>3. CASE c.pc \in {"ue_off", "ue_reboot", "post_off"}
    BY <1>3, <1>4, <2>1, <2>3, AfterAnswerMoves
  <2> QED
    BY <1>1, <1>4, <1>8, <2>2, <2>3 DEF Asking
<1> QED
  BY <1>7, <1>8

(* The controller's steps. *)
LEMMA MainKept ==
    ASSUME Inv, Main
    PROVE  HandlerInLine' /\ ControllerInLine' /\ LagBounded' /\ ExitOnStaleFail'
<1>1. ctl \in ControlState /\ srv' = srv /\ phone' = phone
  BY Types DEF Inv, Main, Ask, Read, ReadTimeout, Pre, InitServers, Retry, Finish, RebootInStep,
               Retest, JudgeTestcase, JudgeLiveness, Done
<1>2. CASE Ask
  <2>1. /\ ctl'.pc = ctl.pc /\ ctl.pc \in Asking /\ ctl'.retry = ctl.retry /\ ctl'.by = ctl.by
        /\ ctl'.lag = ctl.lag /\ ctl'.late = ctl.late /\ ctl'.sent = ctl.sent + 1
    BY <1>1, <1>2 DEF Ask, ControlState
  <2>2. HandlerInLine'
    <3>1. srv.late => srv.cmd.id = ctl.sent - Len(toUe)
      BY DEF Inv, Queues, Numbered, HandlerInLine, Busy
    <3>2. srv.late => ctl'.sent # srv.cmd.id
      BY <2>1, <3>1, Numbers
    <3> QED
      BY <1>1, <3>2 DEF Inv, HandlerInLine
  <2> QED
    BY <2>1, <2>2 DEF Inv, ControllerInLine, LagBounded, ExitOnStaleFail, Asking
<1>3. CASE Read
  <2>1. /\ ctl'.waits = FALSE /\ ctl'.sent = ctl.sent /\ ctl'.late = ctl.late
        /\ ctl'.lag = ctl.sent - Head(fromUe).id /\ ctl'.retry = ctl.retry
        /\ ctl'.pc = "exited" => ctl.pc = "reboot" /\ Head(fromUe).line # "ACK"
    BY <1>3, ReadTyped
  <2>2. HandlerInLine'
    BY <1>1, <2>1 DEF Inv, HandlerInLine
  <2>3. ControllerInLine'
    BY <1>1, <1>3, <2>1, ReadMoves DEF Inv, ControllerInLine, Read, Asking
  <2>4. /\ Head(fromUe) = fromUe[1] /\ Len(fromUe) \in Nat \ {0}
        /\ ctl.sent - Head(fromUe).id \in 0..MaxCommands
        /\ ctl.sent - Head(fromUe).id <= ctl.late + Awaited - 1
    BY <1>3, HeadNumber DEF Read
  <2>5. LagBounded'
    <3>1. Awaited = 1
      BY <1>3 DEF Awaited, Read
    <3> QED
      BY <2>1, <2>4, <3>1, Numbers, UeAssumption DEF LagBounded
  <2>6. ExitOnStaleFail'
    <3> SUFFICES ASSUME ctl'.pc = "exited" PROVE ctl.sent - Head(fromUe).id > 0
      BY <2>1 DEF ExitOnStaleFail
    <3>1. fromUe[1] \in Answer /\ 1 \in 1..Len(fromUe)
      BY <1>3, <2>4, Types, Shifted DEF Inv, Read
    <3>2. fromUe[1].line \in {"Fail", "model"} /\ fromUe[1].id \in Int
      BY <2>1, <2>4, <3>1 DEF Answer
    <3>3. ctl.waits /\ ctl.sent > 1
      BY <1>3, <2>1, Numbers DEF Read, Inv, Queues, DeviceFirst, Awaited
    <3>4. fromUe[1].id # ctl.sent
      BY <3>1, <3>2, <3>3, Numbers DEF Inv, Queues, DeviceFirst, FailsComeLate
    <3> QED
      BY <2>4, <3>2, <3>4, Numbers, UeAssumption
  <2> QED
    BY <2>2, <2>3, <2>5, <2>6
<1>4. CASE ReadTimeout
  <2>1. /\ ctl'.waits = FALSE /\ ctl'.late = ctl.late + 1
        /\ ctl'.lag = ctl.lag /\ ctl'.retry = ctl.retry /\ ctl'.pc # "exited"
    BY <1>4, ReadTimeoutTyped
  <2>2. HandlerInLine'
    BY <1>1, <2>1 DEF Inv, HandlerInLine
  <2>3. ControllerInLine'
    BY <1>4, <2>1, ReadTimeoutMoves DEF Inv, ControllerInLine
  <2>4. LagBounded'
    <3>1. ctl.lag \in Nat
      BY <1>1, UeAssumption DEF ControlState
    <3> QED
      BY <2>1, <3>1, Numbers DEF Inv, LagBounded
  <2> QED
    BY <2>1, <2>2, <2>3, <2>4 DEF ExitOnStaleFail
<1>5. CASE Pre \/ InitServers \/ Retry \/ Finish \/ RebootInStep \/ Judges \/ Done
  <2>1. /\ ctl'.waits = ctl.waits /\ ctl'.sent = ctl.sent /\ ctl'.late = ctl.late
        /\ ctl'.lag = ctl.lag /\ ctl.pc \notin Asking
        /\ ctl'.pc \notin {"exited", "ue_reboot", "judge"}
    BY <1>1, <1>5 DEF Pre, InitServers, Retry, Finish, RebootInStep, Judges, Retest, JudgeTestcase, JudgeLiveness, Done, ControlState, Asking
  <2>2. ctl'.pc \in {"off", "init", "on", "retry"} => ctl'.retry > 0
    <3>1. CASE Pre
      BY <1>1, <3>1, UeAssumption DEF Pre, ControlState
    <3>2. CASE InitServers
      BY <1>1, <3>2 DEF InitServers, ControlState, Inv, ControllerInLine
    <3>3. CASE Retry
      <4>1. ctl.retry \in Nat
        BY <1>1, UeAssumption DEF ControlState
      <4>2. ctl'.pc = (IF ctl.retry > 1 THEN "off" ELSE "reboot") /\ ctl'.retry = ctl.retry - 1
        BY <1>1, <3>3 DEF Retry, ControlState
      <4> QED
        BY <4>1, <4>2
    <3>4. CASE Finish \/ RebootInStep \/ Judges \/ Done
      BY <1>1, <3>4 DEF Finish, RebootInStep, Judges, Retest, JudgeTestcase, JudgeLiveness, Done, ControlState
    <3> QED
      BY <1>5, <3>1, <3>2, <3>3, <3>4
  <2>3. ctl'.pc = "ue_off" => ctl'.by = "none"
    <3>1. CASE RebootInStep
      BY <1>1, <3>1 DEF RebootInStep, ControlState
    <3>2. CASE Judges
      BY <1>1, <3>2 DEF Judges, Retest, JudgeTestcase, JudgeLiveness, ControlState, Inv,
                        ControllerInLine
    <3>3. CASE Pre \/ InitServers \/ Retry \/ Finish \/ Done
      BY <1>1, <3>3 DEF Pre, InitServers, Retry, Finish, Done, ControlState
    <3> QED
      BY <1>5, <3>1, <3>2, <3>3
  <2>4. ControllerInLine'
    BY <2>1, <2>2, <2>3 DEF Inv, ControllerInLine
  <2> QED
    BY <1>1, <2>1, <2>4 DEF Inv, HandlerInLine, LagBounded, ExitOnStaleFail
<1> QED
  BY <1>2, <1>3, <1>4, <1>5 DEF Main, Judges

-----------------------------------------------------------------------------
(* The Wi-Fi as long as no read has timed out *)

(* Of three things that are one at most, one leaves no room for another.   *)
LEMMA AtMostOne ==
    ASSUME NEW a \in Nat, NEW b \in {0, 1}, NEW c \in Nat, a + b + c <= 1
    PROVE  /\ b = 1 => a = 0 /\ c = 0
           /\ a > 0 => a = 1 /\ b = 0 /\ c = 0
           /\ c > 0 => c = 1 /\ b = 0 /\ a = 0
  OBVIOUS

(* Then exactly what is awaited is on its way. *)
LEMMA InStep ==
    ASSUME Inv, ctl.late = 0
    PROVE  /\ ~ctl.waits => toUe = << >> /\ Busy = 0 /\ fromUe = << >>
           /\ Busy = 1 => ctl.waits /\ toUe = << >> /\ fromUe = << >>
           /\ toUe # << >> => ctl.waits /\ Busy = 0 /\ fromUe = << >> /\ Len(toUe) = 1
           /\ fromUe # << >> => ctl.waits /\ Busy = 0 /\ toUe = << >> /\ Len(fromUe) = 1
<1>1. Len(toUe) + Busy + Len(fromUe) = Awaited
  BY DEF Inv, Queues, Counted
<1>2. toUe \in Seq(Command) /\ fromUe \in Seq(Answer)
  BY Types DEF Inv
<1>3. (Len(toUe) = 0 => toUe = << >>) /\ (Len(fromUe) = 0 => fromUe = << >>)
  BY <1>2
<1>4. (toUe # << >> => Len(toUe) > 0) /\ (fromUe # << >> => Len(fromUe) > 0)
  BY <1>3, Numbers
<1>5. (ctl.waits => Awaited = 1) /\ (~ctl.waits => Awaited = 0)
  BY DEF Awaited
<1>6. ~ctl.waits => Len(toUe) = 0 /\ Busy = 0 /\ Len(fromUe) = 0
  BY <1>1, <1>5, Numbers
<1>7. Len(toUe) + Busy + Len(fromUe) <= 1
  BY <1>1, Numbers
<1>8. /\ Busy = 1 => Len(toUe) = 0 /\ Len(fromUe) = 0
      /\ Len(toUe) > 0 => Len(toUe) = 1 /\ Busy = 0 /\ Len(fromUe) = 0
      /\ Len(fromUe) > 0 => Len(fromUe) = 1 /\ Busy = 0 /\ Len(toUe) = 0
  BY <1>7, Numbers, AtMostOne
<1>9. (Busy = 1 \/ Len(toUe) > 0 \/ Len(fromUe) > 0) => ctl.waits
  BY <1>6, Numbers
<1> QED
  BY <1>3, <1>4, <1>6, <1>8, <1>9

(* And what the handler is at is what the controller asked for. *)
LEMMA InHand ==
    ASSUME Inv, ctl.late = 0, srv.pc \notin {"read", "spin"}
    PROVE  /\ ctl.waits /\ toUe = << >> /\ fromUe = << >> /\ Busy = 1
           /\ srv.cmd.op = "device" <=> ctl.pc = "connect"
           /\ srv.cmd.op = "wifi_off" <=> ctl.pc \in {"off", "ue_off", "post_off", "main_off"}
           /\ srv.cmd.op = "wifi_on" <=> ctl.pc = "on"
           /\ srv.cmd.op = "ue_reboot" <=> ctl.pc \in {"reboot", "ue_reboot"}
           /\ ctl.pc \in Asking
<1>1. Busy = 1
  BY DEF Busy
<1>2. ctl.waits /\ toUe = << >> /\ fromUe = << >> /\ ctl.pc \in Asking
  BY <1>1, InStep DEF Inv, ControllerInLine
<1>3. srv.cmd.op = Op
  BY <1>1 DEF Inv, Switched
<1> QED
  BY <1>1, <1>2, <1>3 DEF Op, Asking

(* The handler reads, waits or polls: the phone is left alone. *)
LEMMA SwitchedSame ==
    ASSUME Inv, Receive \/ Spin \/ Found \/ TimeOver
    PROVE  Switched'
<1> SUFFICES ASSUME ctl'.late = 0 PROVE Switched'
  BY DEF Switched
<1>1. UNCHANGED <<fromUe, phone, ctl>> /\ srv \in HandlerState /\ toUe \in Seq(Command)
  BY Types DEF Receive, Spin, Found, TimeOver, Inv
<1>2. Op' = Op /\ (EnabledByWifiOn' <=> EnabledByWifiOn)
  BY <1>1 DEF Op, EnabledByWifiOn
<1>3. (toUe' # << >> => toUe'[1].op = Op) /\ (Busy' = 1 => srv'.cmd.op = Op)
  <2>1. CASE Receive
    <3>1. toUe # << >> /\ toUe' = Tail(toUe) /\ srv'.cmd = Head(toUe)
      BY <1>1, <2>1 DEF Receive, HandlerState
    <3>2. Len(toUe) = 1
      BY <1>1, <3>1, InStep
    <3>3. Tail(toUe) = << >> /\ Head(toUe) = toUe[1]
      BY <1>1, <3>1, <3>2
    <3> QED
      BY <1>1, <3>1, <3>3 DEF Inv, Switched
  <2>2. CASE Spin \/ Found \/ TimeOver
    <3>1. toUe' = toUe /\ srv'.cmd = srv.cmd /\ Busy' = Busy
      BY <1>1, <2>2 DEF Spin, Found, TimeOver, HandlerState, Busy
    <3> QED
      BY <1>1, <3>1 DEF Inv, Switched
  <2> QED
    BY <2>1, <2>2
<1> QED
  BY <1>1, <1>2, <1>3 DEF Inv, Switched

(* A press of the button, a reboot and the end of one. *)
LEMMA SwitchedInWork ==
    ASSUME Inv, Press \/ Reboot \/ RebootAgain \/ Booted
    PROVE  Switched'
<1> SUFFICES ASSUME ctl'.late = 0 PROVE Switched'
  BY DEF Switched
<1>1. UNCHANGED <<toUe, fromUe, ctl>> /\ srv \in HandlerState /\ phone \in PhoneState
  BY Types DEF Press, Reboot, RebootAgain, Booted, Inv
<1>2. Op' = Op /\ srv'.cmd = srv.cmd /\ Busy' = Busy /\ phone'.missed = phone.missed
  BY <1>1 DEF Op, Press, Reboot, RebootAgain, Booted, HandlerState, PhoneState, Busy
<1>3. CASE Booted
  <2>1. phone'.wifi = phone.wifi /\ phone'.up = TRUE
    BY <1>1, <1>3 DEF Booted, PhoneState
  <2> QED
    BY <1>1, <1>2, <2>1 DEF Inv, Switched, EnabledByWifiOn
<1>4. CASE Press
  <2>1. srv.pc \notin {"read", "spin"} /\ ctl.late = 0
    BY <1>1, <1>4 DEF Press
  <2>2. phone'.up = phone.up /\ (phone'.wifi => phone.up /\ (phone.wifi \/ srv.cmd.op = "wifi_on"))
    BY <1>1, <1>4, <2>1 DEF Press, PhoneState, Wanted, Inv, Switched
  <2> QED
    BY <1>1, <1>2, <2>1, <2>2, InHand DEF Inv, Switched, EnabledByWifiOn, Asking
<1>5. CASE Reboot \/ RebootAgain
  <2>1. srv.pc \notin {"read", "spin"} /\ ctl.late = 0 /\ srv.cmd.op = "ue_reboot"
    BY <1>1, <1>5 DEF Reboot, RebootAgain, Inv, HandlerInLine
  <2>2. phone'.wifi = phone.wifi
    BY <1>1, <1>5 DEF Reboot, RebootAgain, PhoneState
  <2>3. ctl.pc \in {"reboot", "ue_reboot"}
    BY <2>1, InHand
  <2>4. ~phone'.wifi
    BY <2>1, <2>2, <2>3 DEF Inv, Switched
  <2> QED
    BY <1>1, <1>2, <2>1, <2>3, <2>4, InHand DEF Inv, Switched, EnabledByWifiOn
<1> QED
  BY <1>3, <1>4, <1>5

(* The handler answers. *)
LEMMA SwitchedReply ==
    ASSUME Inv, Device \/ Switch \/ LeaveAlone \/ PressAgain \/ RebootFailed \/ Configure
    PROVE  Switched'
<1> SUFFICES ASSUME ctl'.late = 0 PROVE Switched'
  BY DEF Switched
<1>1. phone \in PhoneState /\ UNCHANGED <<toUe, ctl>> /\ srv.pc \notin {"read", "spin"}
  BY Types, Replies DEF Inv
<1>2. Busy' = 0
  BY <1>1, Replies, ReplyTyped DEF Busy
<1>3. toUe' = << >>
  BY <1>1, InHand
<1>4. /\ phone'.wifi => phone'.up
      /\ phone'.wifi => phone.wifi \/ srv.cmd.op = "wifi_on"
      /\ srv.cmd.op = "wifi_off" => ~phone'.wifi
      /\ srv.cmd.op = "wifi_on" => phone'.wifi \/ phone'.missed
  <2>1. phone.wifi => phone.up
    BY <1>1 DEF Inv, Switched
  <2>2. CASE Switch
    BY <1>1, <2>1, <2>2 DEF Switch, PhoneState, Wanted
  <2>3. CASE LeaveAlone \/ PressAgain
    BY <1>1, <2>1, <2>3 DEF LeaveAlone, PressAgain, PhoneState, Wanted, Inv, HandlerInLine
  <2>4. CASE Device \/ RebootFailed \/ Configure
    BY <1>1, <2>1, <2>4 DEF Device, RebootFailed, Configure, Inv, HandlerInLine
  <2> QED
    BY <2>2, <2>3, <2>4
<1>5. /\ ctl.pc \in {"ue_off", "post_off"} => ~phone'.wifi
      /\ ctl.pc = "on" => phone'.wifi \/ phone'.missed
      /\ ctl.pc # "run"
  BY <1>1, <1>4, InHand DEF Asking
<1>6. phone'.wifi => ctl.pc \in {"on", "run", "post_off", "ue_off", "exited"}
  BY <1>1, <1>4, InHand DEF Inv, Switched
<1> QED
  BY <1>1, <1>2, <1>3, <1>4, <1>5, <1>6 DEF Switched, EnabledByWifiOn

(* The controller asks. *)
LEMMA SwitchedAsk ==
    ASSUME Inv, Ask
    PROVE  Switched'
<1> SUFFICES ASSUME ctl'.late = 0 PROVE Switched'
  BY DEF Switched
<1>1. ctl \in ControlState /\ UNCHANGED <<fromUe, srv, phone>>
  BY Types DEF Inv, Ask
<1>2. ctl.late = 0 /\ ctl'.pc = ctl.pc /\ ctl'.by = ctl.by /\ ~ctl.waits
  BY <1>1 DEF Ask, ControlState
<1>3. toUe = << >> /\ Busy = 0 /\ fromUe = << >>
  BY <1>2, InStep
<1>4. Op' = Op /\ Busy' = 0 /\ fromUe' = << >>
  BY <1>1, <1>2, <1>3 DEF Op, Busy
<1>5. toUe'[1].op = Op
  BY <1>3 DEF Ask
<1> QED
  BY <1>1, <1>2, <1>4, <1>5 DEF Inv, Switched, EnabledByWifiOn

(* The controller reads a line: the acknowledgement of what it asked for. *)
LEMMA SwitchedRead ==
    ASSUME Inv, Read
    PROVE  Switched'
<1> SUFFICES ASSUME ctl'.late = 0 PROVE Switched'
  BY DEF Switched
<1>1. UNCHANGED <<toUe, srv, phone>> /\ fromUe \in Seq(Answer) /\ fromUe # << >> /\ ctl.waits
  BY Types DEF Inv, Read
<1>2. ctl.late = 0 /\ ctl.pc \in Asking
  BY <1>1, ReadTyped DEF Inv, ControllerInLine
<1>3. toUe = << >> /\ Busy = 0 /\ Len(fromUe) = 1
  BY <1>1, <1>2, InStep
<1>4. toUe' = << >> /\ Busy' = 0 /\ fromUe' = << >>
  BY <1>1, <1>3 DEF Read, Busy
<1>5. ctl.pc # "connect" => Head(fromUe).line = "ACK"
  <2> SUFFICES ASSUME ctl.pc # "connect" PROVE Head(fromUe).line = "ACK"
    OBVIOUS
  <2>1. Head(fromUe).id = ctl.sent /\ Head(fromUe) = fromUe[1] /\ 1 \in 1..Len(fromUe)
    BY <1>1, <1>3, HeadNumber, Numbers
  <2>2. ctl.sent > 1
    BY <1>1, Numbers DEF Inv, Queues, DeviceFirst, Awaited
  <2>3. Head(fromUe).line \notin {"model", "Fail"}
    BY <1>1, <2>1, <2>2, Numbers DEF Inv, Queues, DeviceFirst, FailsComeLate
  <2>4. Head(fromUe) \in Answer
    BY <1>1, Shifted
  <2> QED
    BY <2>3, <2>4 DEF Answer
<1>6. /\ phone.wifi => phone.up
      /\ phone.wifi => ctl.pc \in {"on", "run", "post_off", "ue_off", "exited"}
      /\ ctl.pc \in {"ue_off", "post_off"} => ~phone.wifi
      /\ ctl.pc = "on" => phone.wifi \/ phone.missed
  BY <1>1, <1>2 DEF Inv, Switched
<1>7. phone.wifi \in BOOLEAN
  BY Types DEF Inv, PhoneState
<1>8. CASE ctl.pc = "on"
  <2>1. ctl'.pc = "run" /\ ctl'.by = "wifi_on"
    BY <1>5, <1>8, ReadMoves
  <2> QED
    BY <1>1, <1>4, <1>6, <1>7, <1>8, <2>1 DEF Switched, EnabledByWifiOn
<1>9. CASE ctl.pc # "on"
  <2>1. ~phone.wifi
    BY <1>2, <1>6, <1>9 DEF Asking
  <2>2. ctl'.pc # "on" /\ (ctl'.pc = "run" => ctl'.by # "wifi_on")
    <3>1. ctl.pc = "ue_reboot" => ctl.by = "none"
      BY DEF Inv, ControllerInLine
    <3> QED
      BY <1>2, <1>5, <1>9, <3>1, ReadMoves DEF Asking
  <2> QED
    BY <1>1, <1>4, <1>7, <2>1, <2>2 DEF Switched, EnabledByWifiOn
<1> QED
  BY <1>8, <1>9

(* The controller goes on between two commands. *)
LEMMA SwitchedMain ==
    ASSUME Inv, Pre \/ InitServers \/ Retry \/ Finish \/ RebootInStep \/ Judges \/ Done
    PROVE  Switched'
<1> SUFFICES ASSUME ctl'.late = 0 PROVE Switched'
  BY DEF Switched
<1>1. ctl \in ControlState /\ fromUe \in Seq(Answer) /\ UNCHANGED <<toUe, srv, phone>>
  BY Types DEF Inv, Pre, InitServers, Retry, Finish, RebootInStep, Judges, Retest, JudgeTestcase, JudgeLiveness, Done
<1>2. /\ ctl.late = 0 /\ ctl.pc \notin Asking
      /\ ctl.pc \in {"pre", "init", "retry", "run", "retest", "judge"}
      /\ ctl.pc = "run" => ctl'.pc \in {"post_off", "ue_off"}
      /\ ctl'.pc # "run"
  BY <1>1 DEF Pre, InitServers, Retry, Finish, RebootInStep, Judges, Retest, JudgeTestcase, JudgeLiveness, Done, ControlState, Asking
<1>3. toUe = << >> /\ Busy = 0 /\ fromUe = << >>
  BY <1>2, InStep DEF Inv, ControllerInLine
<1>4. toUe' = << >> /\ Busy' = 0
  BY <1>1, <1>3 DEF Busy
<1>5. fromUe' = << >>
  <2>1. CASE Pre
    <3>1. PICK n \in 0..Len(fromUe) : fromUe' = SubSeq(fromUe, n + 1, Len(fromUe))
      BY <2>1 DEF Pre
    <3>2. Len(fromUe) = 0 /\ n = 0
      BY <1>3, <3>1
    <3>3. fromUe' \in Seq(Answer) /\ Len(fromUe') = 0
      BY <1>1, <3>1, <3>2, Dropped
    <3> QED
      BY <3>3
  <2>2. CASE InitServers \/ Retry \/ Finish \/ RebootInStep \/ Judges \/ Done
    BY <1>3, <2>2 DEF InitServers, Retry, Finish, RebootInStep, Judges, Retest, JudgeTestcase, JudgeLiveness, Done
  <2> QED
    BY <2>1, <2>2
<1>6. (phone.wifi => phone.up) /\ (phone.wifi => ctl.pc = "run")
  BY <1>2 DEF Inv, Switched
<1> QED
  BY <1>1, <1>2, <1>4, <1>5, <1>6 DEF Switched, EnabledByWifiOn

-----------------------------------------------------------------------------
(* The theorems *)

(* The invariant holds at first. *)
LEMMA InvInit == UeInit => Inv
<1> SUFFICES ASSUME UeInit PROVE Inv
  OBVIOUS
<1>1. UeTypeOK
  <2>1. /\ 0 \in 0..MaxCommands /\ 0 \in 0..MaxReboots
        /\ MaxRetries \in 0..MaxRetries
    BY UeAssumption
  <2>2. toUe \in Seq(Command) /\ fromUe \in Seq(Answer)
    BY DEF UeInit
  <2>3. srv \in HandlerState /\ phone \in PhoneState
    BY <2>1 DEF UeInit, HandlerState, PhoneState
  <2>4. ctl \in ControlState
    BY <2>1 DEF UeInit, ControlState, Asking
  <2> QED
    BY <2>2, <2>3, <2>4, Types
<1>2. Len(toUe) = 0 /\ Len(fromUe) = 0 /\ Busy = 0 /\ Awaited = 0
  BY DEF UeInit, Busy, Awaited
<1>3. Numbered /\ Counted
  BY <1>2 DEF Numbered, Counted, UeInit
<1>4. DeviceFirst /\ FailsComeLate
  BY <1>2 DEF DeviceFirst, FailsComeLate, UeInit, NoCommand
<1>5. HandlerInLine /\ ControllerInLine
  BY DEF HandlerInLine, ControllerInLine, UeInit
<1>6. LagBounded /\ ExitOnStaleFail
  BY DEF LagBounded, ExitOnStaleFail, UeInit
<1>7. Switched
  <2>1. ~phone.wifi /\ ctl.pc = "connect" /\ toUe = << >> /\ fromUe = << >>
    BY DEF UeInit
  <2> QED
    BY <1>2, <2>1 DEF Switched, EnabledByWifiOn
<1> QED
  BY <1>1, <1>3, <1>4, <1>5, <1>6, <1>7 DEF Inv, Queues

(* Every step keeps it. *)
LEMMA InvStep == Inv /\ [UeNext]_vars => Inv'
<1> SUFFICES ASSUME Inv, [UeNext]_vars PROVE Inv'
  OBVIOUS
<1>1. CASE Handler \/ Booted
  <2>1. UeTypeOK' /\ HandlerInLine' /\ ControllerInLine' /\ LagBounded' /\ ExitOnStaleFail'
    BY <1>1, HandlerTyped, HandlerKept
  <2>2. Queues'
    BY <1>1, QueuesReceive, QueuesReply, QueuesHandlerStill DEF Handler
  <2>3. Switched'
    BY <1>1, SwitchedSame, SwitchedReply, SwitchedInWork DEF Handler
  <2> QED
    BY <2>1, <2>2, <2>3 DEF Inv
<1>2. CASE Main
  <2>1. UeTypeOK' /\ HandlerInLine' /\ ControllerInLine' /\ LagBounded' /\ ExitOnStaleFail'
    BY <1>2, MainTyped, MainKept
  <2>2. Queues'
    BY <1>2, QueuesAsk, QueuesRead, QueuesReadTimeout, QueuesPre, QueuesMainStill DEF Main, Judges
  <2>3. Switched'
    <3>1. CASE ReadTimeout
      <4>1. ctl'.late # 0
        BY <3>1, ReadTimeoutTyped, Numbers
      <4> QED
        BY <4>1 DEF Switched
    <3> QED
      BY <1>2, <3>1, SwitchedAsk, SwitchedRead, SwitchedMain DEF Main, Judges
  <2> QED
    BY <2>1, <2>2, <2>3 DEF Inv
<1>3. CASE UNCHANGED vars
  <2>1. UNCHANGED <<toUe, fromUe, srv, phone, ctl>>
    BY <1>3 DEF vars
  <2>2. UeTypeOK' /\ HandlerInLine' /\ ControllerInLine' /\ LagBounded' /\ ExitOnStaleFail'
    BY <2>1 DEF Inv, UeTypeOK, HandlerInLine, ControllerInLine, LagBounded, ExitOnStaleFail
  <2>3. Busy' = Busy /\ Op' = Op
    BY <2>1 DEF Busy, Op
  <2>4. Queues'
    BY <2>1, <2>3, QueuesStill
  <2>5. Switched'
    BY <2>1, <2>3 DEF Inv, Switched, EnabledByWifiOn
  <2> QED
    BY <2>2, <2>4, <2>5 DEF Inv
<1> QED
  BY <1>1, <1>2, <1>3 DEF UeNext

(* The invariant of the UE controller, its phone and its callers. *)
THEOREM UeInvariance == UeSpec => []Inv
  BY InvInit, InvStep, PTL DEF UeSpec

(* Its state keeps its types: the retries of sendEnableVoWiFi never fall   *)
(* below zero, and no answer belongs to a command that was not sent.       *)
THEOREM UeTyped == UeSpec => []UeTypeOK
<1>1. Inv => UeTypeOK
  BY DEF Inv
<1> QED
  BY <1>1, UeInvariance, PTL

(* The answer sendDisableWiFi, sendEnableWiFi or rebootUE takes for its    *)
(* own is at most as many commands old as reads have timed out.            *)
THEOREM AnswersInOrder == UeSpec => []LagBounded
<1>1. Inv => LagBounded
  BY DEF Inv
<1> QED
  BY <1>1, UeInvariance, PTL

(* sendEnableVoWiFi exits on the Fail of an earlier ue_reboot only.        *)
THEOREM StaleExit == UeSpec => []ExitOnStaleFail
<1>1. Inv => ExitOnStaleFail
  BY DEF Inv
<1> QED
  BY <1>1, UeInvariance, PTL

(* Before a read has timed out the Wi-Fi is off between testcases.         *)
THEOREM QuietReset == UeSpec => []OffBetweenTestcases
<1>1. Inv => OffBetweenTestcases
  BY DEF Inv, Switched, OffBetweenTestcases
<1> QED
  BY <1>1, UeInvariance, PTL

(* And a testcase runs with the Wi-Fi on exactly if wifi_on enabled it.    *)
THEOREM EnabledRight == UeSpec => []EnabledByWifiOn
<1>1. Inv => EnabledByWifiOn
  BY DEF Inv, Switched, EnabledByWifiOn
<1> QED
  BY <1>1, UeInvariance, PTL
===============================================================================
