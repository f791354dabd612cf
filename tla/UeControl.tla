------------------------------- MODULE UeControl -------------------------------
(***************************************************************************)
(* The UE controller (ue_controller.py), the phone behind it, and the part *)
(* of the main controller that uses it: sendDisableWiFi, sendEnableWiFi,   *)
(* sendEnableVoWiFi, rebootUE and the places that call them.               *)
(*                                                                         *)
(* Commands are handled one by one and each is answered by one line that   *)
(* does not say which command it answers.  What adb does is not looked at: *)
(* a command to a phone that is booting does nothing and is acknowledged.  *)
(*                                                                         *)
(* Time: every command but ue_reboot is answered within the shortest       *)
(* time-out (30 s), so a read times out only while a ue_reboot is handled; *)
(* and REBOOT_TIMEOUT starts after the command has been read, so it is     *)
(* over only when the read of 45 s or 120 s for its answer has given up.   *)
(***************************************************************************)
EXTENDS Integers, Sequences

CONSTANTS
    MaxRetries,     \* the trials of sendEnableVoWiFi
    MaxReboots,     \* cnt of handle_ue_reboot
    MaxTestcases,   \* testcases of the file
    MaxRepeats,     \* bound: repetitions of a testcase that are followed
    MaxLate,        \* bound: reads timed out before rebootUE is called again
    MaxCommands     \* bound: commands sent

ASSUME UeAssumption ==
    /\ MaxRetries \in Nat \ {0} /\ MaxReboots \in Nat
    /\ MaxTestcases \in Nat /\ MaxRepeats \in Nat
    /\ MaxLate \in Nat /\ MaxCommands \in Nat

VARIABLES
    toUe,           \* commands written and not yet read by handle_client_connection
    fromUe,         \* answers written and not yet read by the main controller
    srv,            \* the handler of the connection
    phone,          \* the device
    ctl             \* the main controller

vars == <<toUe, fromUe, srv, phone, ctl>>

-----------------------------------------------------------------------------
Ops == {"device", "wifi_off", "wifi_on", "ue_reboot"}

Command == [op : Ops, id : 1..MaxCommands]

(* id, the command an answer is for, is not part of the line. *)
Answer == [line : {"ACK", "Fail", "model"}, id : 1..MaxCommands]

NoCommand == [op |-> "none", id |-> 0]

(* The main controller stands
     connect               in initUEConnection
     pre                   at the new reader of pre
     off, init, on, retry  in the loop of sendEnableVoWiFi
     reboot                at its ue_reboot
     run                   between sendEnableVoWiFi and post
     ue_off, ue_reboot     in rebootUE, called in a step (back is run, or retest
                           when the step asks for a new start) or by main (pre)
     retest                at the return of null from executeTestcase
     post_off              in finEPDG
     judge                 back in main, which may reboot the UE or go on
     main_off              at the sendDisableWiFi between a testcase and its liveness test
     done, exited, died    after the last testcase, after System.exit(1), after
                           the exception that the null of a liveness test raises
   waits says that the answer to the last command is awaited, by how
   sendEnableVoWiFi came to enabled, live that the liveness test is executed,
   tc how many testcases main has finished, again how often it has repeated
   one, lag how many commands before the last one the answer last taken
   belongs to, late how many reads timed out. *)
Asking == {"connect", "off", "on", "reboot", "ue_off", "ue_reboot", "post_off", "main_off"}

Ended == {"done", "exited", "died"}

(* The types of the handler's, the phone's and the controller's state. *)
UeTypeOK ==
    /\ toUe \in Seq(Command) /\ fromUe \in Seq(Answer)
    /\ srv \in [pc : {"read", "work", "again", "poll", "config", "spin"},
                cmd : Command \cup {NoCommand}, cnt : 0..MaxReboots, late : BOOLEAN]
    /\ phone \in [up : BOOLEAN, wifi : BOOLEAN, listed : BOOLEAN, button : BOOLEAN,
                  missed : BOOLEAN]
    /\ ctl \in [pc : Asking \cup {"pre", "init", "retry", "run", "retest", "judge"} \cup Ended,
                back : {"run", "retest", "pre"}, waits : BOOLEAN, sent : 0..MaxCommands, retry : 0..MaxRetries,
                by : {"none", "wifi_on", "ue_reboot"},
                live : BOOLEAN, tc : Nat, again : Nat,
                lag : 0..MaxCommands, late : 0..MaxCommands]

(* main of ue_controller.py has turned the Wi-Fi off.  listed says whether *)
(* the name check_device_model gives the device occurs in adb's list, as   *)
(* it does not for some of the models; button, whether its Wi-Fi is        *)
(* switched on its settings page (five of the models); missed, whether a   *)
(* command reached the phone while it was booting.                         *)
UeInit ==
    /\ toUe = << >> /\ fromUe = << >>
    /\ srv = [pc |-> "read", cmd |-> NoCommand, cnt |-> 0, late |-> FALSE]
    /\ phone \in [up : {TRUE}, wifi : {FALSE}, listed : BOOLEAN, button : BOOLEAN,
                  missed : {FALSE}]
    /\ ctl = [pc |-> "connect", back |-> "pre", waits |-> FALSE, sent |-> 0, retry |-> MaxRetries,
              by |-> "none", live |-> FALSE, tc |-> 0, again |-> 0, lag |-> 0, late |-> 0]

-----------------------------------------------------------------------------
(* handle_client_connection *)

Receive ==
    /\ srv.pc = "read" /\ toUe # << >>
    /\ srv' = [srv EXCEPT !.pc = "work", !.cmd = Head(toUe)]
    /\ toUe' = Tail(toUe)
    /\ UNCHANGED <<fromUe, phone, ctl>>

(* recv returns nothing for ever when the connection is closed. *)
Spin ==
    /\ srv.pc = "read" /\ toUe = << >> /\ ctl.pc \in Ended
    /\ srv' = [srv EXCEPT !.pc = "spin"]
    /\ UNCHANGED <<toUe, fromUe, phone, ctl>>

Reply(line) ==
    /\ fromUe' = Append(fromUe, [line |-> line, id |-> srv.cmd.id])
    /\ srv' = [srv EXCEPT !.pc = "read", !.cmd = NoCommand, !.cnt = 0, !.late = FALSE]

Device ==
    /\ srv.pc = "work" /\ srv.cmd.op = "device"
    /\ Reply("model")
    /\ UNCHANGED <<toUe, phone, ctl>>

Wanted == srv.cmd.op = "wifi_on"

(* handle_turn_off_wifi_interface and handle_turn_on_wifi_interface by svc *)
Switch ==
    /\ srv.pc = "work" /\ srv.cmd.op \in {"wifi_off", "wifi_on"} /\ ~phone.button
    /\ phone' = [phone EXCEPT !.wifi = IF phone.up THEN Wanted ELSE @, !.missed = @ \/ ~phone.up]
    /\ Reply("ACK")
    /\ UNCHANGED <<toUe, ctl>>

(* By the button: it is pressed when dumpsys says that the Wi-Fi is not as *)
(* it should be.  A phone that is booting says nothing, and the button is  *)
(* left alone.                                                             *)
LeaveAlone ==
    /\ srv.pc = "work" /\ srv.cmd.op \in {"wifi_off", "wifi_on"} /\ phone.button
    /\ ~(phone.up /\ phone.wifi # Wanted)
    /\ phone' = [phone EXCEPT !.missed = @ \/ ~phone.up]
    /\ Reply("ACK")
    /\ UNCHANGED <<toUe, ctl>>

(* The first press may only wake the page up. *)
Press ==
    /\ srv.pc = "work" /\ srv.cmd.op \in {"wifi_off", "wifi_on"} /\ phone.button
    /\ phone.up /\ phone.wifi # Wanted
    /\ \E wifi \in {phone.wifi, Wanted} : phone' = [phone EXCEPT !.wifi = wifi]
    /\ srv' = [srv EXCEPT !.pc = "again"]
    /\ UNCHANGED <<toUe, fromUe, ctl>>

(* Mutant of PressAgain: the second press does not look at the state. *)
PressAgain_Blind ==
    /\ srv.pc = "again"
    /\ phone' = [phone EXCEPT !.wifi = ~@]
    /\ Reply("ACK")
    /\ UNCHANGED <<toUe, ctl>>

(* The second press, when the Wi-Fi still is not as it should be; the      *)
(* phone goes down in no other command than ue_reboot.                     *)
PressAgain ==
    /\ srv.pc = "again"
    /\ phone' = [phone EXCEPT !.wifi = Wanted]
    /\ Reply("ACK")
    /\ UNCHANGED <<toUe, ctl>>

(* handle_ue_reboot: ue_reboot, then the list of devices every 7 seconds *)
Reboot ==
    /\ srv.pc = "work" /\ srv.cmd.op = "ue_reboot"
    /\ phone' = [phone EXCEPT !.up = FALSE]
    /\ srv' = [srv EXCEPT !.pc = "poll"]
    /\ UNCHANGED <<toUe, fromUe, ctl>>

(* The device is in the list: adb may know it before it has gone down and  *)
(* before it is up again.                                                  *)
Found ==
    /\ srv.pc = "poll" /\ phone.listed
    /\ srv' = [srv EXCEPT !.pc = "config"]
    /\ UNCHANGED <<toUe, fromUe, phone, ctl>>

(* Mutant of TimeOver: the time-out is shorter than the controller's. *)
TimeOver_Early ==
    /\ srv.pc = "poll" /\ ~srv.late
    /\ ~(phone.up /\ phone.listed)
    /\ srv' = [srv EXCEPT !.late = TRUE]
    /\ UNCHANGED <<toUe, fromUe, phone, ctl>>

(* REBOOT_TIMEOUT seconds have gone by. *)
TimeOver ==
    /\ srv.pc = "poll" /\ ~srv.late
    /\ ~(phone.up /\ phone.listed)
    /\ ~(ctl.waits /\ ctl.sent = srv.cmd.id)
    /\ srv' = [srv EXCEPT !.late = TRUE]
    /\ UNCHANGED <<toUe, fromUe, phone, ctl>>

(* start is never reset: from then on each round reboots. *)
RebootAgain ==
    /\ srv.pc = "poll" /\ srv.late /\ ~(phone.up /\ phone.listed)
    /\ srv.cnt < MaxReboots
    /\ phone' = [phone EXCEPT !.up = FALSE]
    /\ srv' = [srv EXCEPT !.cnt = @ + 1]
    /\ UNCHANGED <<toUe, fromUe, ctl>>

(* Mutant of RebootFailed: the success path is taken as well. *)
RebootFailed_Twice ==
    /\ srv.pc = "poll" /\ srv.late /\ ~(phone.up /\ phone.listed)
    /\ srv.cnt = MaxReboots
    /\ fromUe' = Append(fromUe, [line |-> "Fail", id |-> srv.cmd.id])
    /\ srv' = [srv EXCEPT !.pc = "config"]
    /\ UNCHANGED <<toUe, phone, ctl>>

RebootFailed ==
    /\ srv.pc = "poll" /\ srv.late /\ ~(phone.up /\ phone.listed)
    /\ srv.cnt = MaxReboots
    /\ Reply("Fail")
    /\ UNCHANGED <<toUe, phone, ctl>>

(* handle_init_config, after REBOOT_WAIT_TIME *)
Configure ==
    /\ srv.pc = "config"
    /\ Reply("ACK")
    /\ UNCHANGED <<toUe, phone, ctl>>

Handler ==
    \/ Receive \/ Spin \/ Device \/ Switch \/ LeaveAlone \/ Press \/ PressAgain
    \/ Reboot \/ Found \/ TimeOver \/ RebootAgain \/ RebootFailed \/ Configure

(* The phone has booted; the Wi-Fi is as it was (external). *)
Booted ==
    /\ ~phone.up
    /\ phone' = [phone EXCEPT !.up = TRUE]
    /\ UNCHANGED <<toUe, fromUe, srv, ctl>>

-----------------------------------------------------------------------------
(* The main controller *)

Op ==
    CASE ctl.pc = "connect" -> "device"
      [] ctl.pc \in {"off", "ue_off", "post_off", "main_off"} -> "wifi_off"
      [] ctl.pc = "on" -> "wifi_on"
      [] ctl.pc \in {"reboot", "ue_reboot"} -> "ue_reboot"

Ask ==
    /\ ctl.pc \in Asking /\ ~ctl.waits /\ ctl.sent < MaxCommands
    /\ toUe' = Append(toUe, [op |-> Op, id |-> ctl.sent + 1])
    /\ ctl' = [ctl EXCEPT !.waits = TRUE, !.sent = @ + 1]
    /\ UNCHANGED <<fromUe, srv, phone>>

(* Where the controller goes when the command of c.pc was acknowledged (or *)
(* not, or not answered): the answers of rebootUE, finEPDG and main's      *)
(* sendDisableWiFi are not looked at.                                      *)
AfterAnswer(c, ok) ==
    CASE c.pc = "connect" -> [c EXCEPT !.pc = "pre"]
      [] c.pc = "off" -> [c EXCEPT !.pc = IF ok THEN "init" ELSE "retry"]
      [] c.pc = "on" /\ ok -> [c EXCEPT !.pc = "run", !.by = "wifi_on"]
      [] c.pc = "on" /\ ~ok -> [c EXCEPT !.pc = "retry"]
      [] c.pc = "reboot" /\ ok -> [c EXCEPT !.pc = "run", !.by = "ue_reboot"]
      [] c.pc = "reboot" /\ ~ok -> [c EXCEPT !.pc = "exited"]
      [] c.pc = "ue_off" -> [c EXCEPT !.pc = "ue_reboot"]
      [] c.pc = "ue_reboot" -> [c EXCEPT !.pc = c.back]
      [] c.pc = "post_off" -> [c EXCEPT !.pc = "judge", !.by = "none"]
      [] c.pc = "main_off" -> [c EXCEPT !.pc = "pre", !.live = TRUE]

Read ==
    /\ ctl.waits /\ fromUe # << >>
    /\ fromUe' = Tail(fromUe)
    /\ ctl' = AfterAnswer([ctl EXCEPT !.waits = FALSE, !.lag = ctl.sent - Head(fromUe).id],
                          Head(fromUe).line = "ACK")
    /\ UNCHANGED <<toUe, srv, phone>>

(* initUEConnection reads without a time-out.  The exception of a reboot   *)
(* in sendEnableVoWiFi skips its exit: the step goes on.                   *)
ReadTimeout ==
    /\ ctl.waits /\ fromUe = << >> /\ ctl.pc # "connect"
    /\ srv.cmd.op = "ue_reboot"
    /\ ctl' = LET c == [ctl EXCEPT !.waits = FALSE, !.late = @ + 1] IN
              IF c.pc = "reboot" THEN [c EXCEPT !.pc = "run"] ELSE AfterAnswer(c, FALSE)
    /\ UNCHANGED <<toUe, fromUe, srv, phone>>

(* pre: the new reader does not see what the old one had read ahead. *)
Pre ==
    /\ ctl.pc = "pre" /\ ctl.tc < MaxTestcases /\ ctl.again <= MaxRepeats
    /\ \E n \in 0..Len(fromUe) : fromUe' = SubSeq(fromUe, n + 1, Len(fromUe))
    /\ ctl' = [ctl EXCEPT !.pc = "off", !.retry = MaxRetries]
    /\ UNCHANGED <<toUe, srv, phone>>

(* initEPDG and initIMS, which may fail *)
InitServers ==
    /\ ctl.pc = "init"
    /\ \E pc \in {"on", "retry"} : ctl' = [ctl EXCEPT !.pc = pc]
    /\ UNCHANGED <<toUe, fromUe, srv, phone>>

(* Mutant of Retry: the trials are not counted, and only initEPDG and      *)
(* initIMS are repeated.                                                   *)
Retry_Uncounted ==
    /\ ctl.pc = "retry"
    /\ ctl' = [ctl EXCEPT !.pc = "init"]
    /\ UNCHANGED <<toUe, fromUe, srv, phone>>

Retry ==
    /\ ctl.pc = "retry"
    /\ ctl' = [ctl EXCEPT !.retry = @ - 1, !.pc = IF ctl.retry > 1 THEN "off" ELSE "reboot"]
    /\ UNCHANGED <<toUe, fromUe, srv, phone>>

(* Mutant of Finish: finEPDG does not turn the Wi-Fi off. *)
Finish_StaysOn ==
    /\ ctl.pc = "run"
    /\ ctl' = [ctl EXCEPT !.pc = "pre", !.by = "none"]
    /\ UNCHANGED <<toUe, fromUe, srv, phone>>

(* The steps are over: post. *)
Finish ==
    /\ ctl.pc = "run"
    /\ ctl' = [ctl EXCEPT !.pc = "post_off"]
    /\ UNCHANGED <<toUe, fromUe, srv, phone>>

(* rebootUE in a step (modelled once in a testcase): after an exception   *)
(* the testcase goes on, after a failed authentication it is left          *)
RebootInStep ==
    /\ ctl.pc = "run" /\ ctl.by # "none" /\ ctl.late < MaxLate
    /\ \E back \in {"run", "retest"} :
          ctl' = [ctl EXCEPT !.pc = "ue_off", !.back = back, !.by = "none"]
    /\ UNCHANGED <<toUe, fromUe, srv, phone>>

(* executeTestcase returns null without post: main executes the testcase   *)
(* again, and does not look at the null of a liveness test before it uses  *)
(* it.                                                                     *)
Retest ==
    /\ ctl.pc = "retest"
    /\ ctl' = IF ctl.live THEN [ctl EXCEPT !.pc = "died"]
              ELSE [ctl EXCEPT !.pc = "pre", !.again = @ + 1]
    /\ UNCHANGED <<toUe, fromUe, srv, phone>>

(* main, after a testcase: the liveness test, or rebootUE and the same     *)
(* testcase again because the UE did not start                             *)
JudgeTestcase ==
    /\ ctl.pc = "judge" /\ ~ctl.live
    /\ \/ ctl' = [ctl EXCEPT !.pc = "main_off"]
       \/ /\ ctl.late < MaxLate
          /\ ctl' = [ctl EXCEPT !.pc = "ue_off", !.back = "pre", !.again = @ + 1]
    /\ UNCHANGED <<toUe, fromUe, srv, phone>>

(* main, after the liveness test: the next testcase, or first rebootUE     *)
(* because the UE failed the test                                          *)
JudgeLiveness ==
    /\ ctl.pc = "judge" /\ ctl.live
    /\ \E pc \in {"pre"} \cup IF ctl.late < MaxLate THEN {"ue_off"} ELSE {} :
          ctl' = [ctl EXCEPT !.pc = pc, !.back = "pre", !.live = FALSE, !.tc = @ + 1]
    /\ UNCHANGED <<toUe, fromUe, srv, phone>>

Done ==
    /\ ctl.pc = "pre" /\ ctl.tc = MaxTestcases
    /\ ctl' = [ctl EXCEPT !.pc = "done"]
    /\ UNCHANGED <<toUe, fromUe, srv, phone>>

Main ==
    \/ Ask \/ Read \/ ReadTimeout \/ Pre \/ InitServers \/ Retry \/ Finish
    \/ RebootInStep \/ Retest \/ JudgeTestcase \/ JudgeLiveness \/ Done

(* The run is over, or repeats its testcase more often than is followed. *)
Cut == ctl.pc = "pre" /\ ctl.again > MaxRepeats

Over ==
    \/ ctl.pc \in Ended /\ srv.pc = "spin"
    \/ Cut /\ toUe = << >> /\ srv.pc = "read"

UeNext == Handler \/ Booted \/ Main \/ (Over /\ UNCHANGED vars)

(* Both programs run. *)
UeFairness == WF_vars(Handler) /\ WF_vars(Main)

UeSpec == UeInit /\ [][UeNext]_vars /\ UeFairness

-----------------------------------------------------------------------------
(* The answer taken for a command belongs to a command that is at most as  *)
(* many older as reads have timed out: answers are not tagged, and nothing *)
(* but the new reader of pre ever makes up for one that came too late.     *)
LagBounded == ctl.lag <= ctl.late

(* When no read has timed out and no command fell into a boot, a testcase  *)
(* runs with the Wi-Fi on exactly if wifi_on enabled it: the ue_reboot that *)
(* sendEnableVoWiFi falls back on counts as enabled and leaves it off.     *)
EnabledByWifiOn ==
    ctl.pc = "run" /\ ctl.by # "none" /\ ctl.late = 0 /\ ~phone.missed =>
        phone.wifi = (ctl.by = "wifi_on")

(* When no read has timed out the Wi-Fi is off between testcases, even     *)
(* when commands reached a booting phone: the UE of one testcase does not  *)
(* talk into the reset of the next.                                        *)
OffBetweenTestcases == ctl.pc \in {"pre", "done", "died"} /\ ctl.late = 0 => ~phone.wifi

(* "Failed to start the VoWiFi protocol" is never the failure of the       *)
(* reboot that was asked for: its Fail comes after the read has given up,  *)
(* and what ends the run is the Fail of an earlier one.                    *)
ExitOnStaleFail == ctl.pc = "exited" => ctl.lag > 0

(* Only main's loop over one testcase, which has no limit, keeps the       *)
(* controller from the end: the run is over (by its last testcase, an exit *)
(* or an exception), or a testcase is repeated once more than any number   *)
(* of repetitions that is looked at.  No wait and no other loop lasts,     *)
(* whatever the phone does.                                                *)
RunsToTheEnd == <>(ctl.pc \in Ended \/ Cut)
=============================================================================
