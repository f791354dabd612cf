------------------------------ MODULE Controller ------------------------------
(***************************************************************************)
(* The main controller (Controller.java) as far as it drives the ePDG and  *)
(* the UE: main runs the testcases of Plan in order, each with pre, one    *)
(* step per message, and post.  A step sends the message's query (or turns *)
(* the UE's Wi-Fi on, for enable_vowifi) and reads the block of the        *)
(* response the ePDG sent and the block of the request the UE answered.    *)
(*                                                                         *)
(* Plan holds the testcases with the liveness testcase after each of them. *)
(* The IMS (initIMS always returns true, and it is taken to be alive) and  *)
(* the UE controller (taken to answer ACK) do not change the control flow  *)
(* here.  A read that returns nothing in time is an action of its own,     *)
(* which the composition guards with what the timeout gives time for.      *)
(***************************************************************************)
EXTENDS ControlChannel

CONSTANTS
    Plan,       \* the testcases: [messages : Seq(Message), live : BOOLEAN]
    MaxTrials   \* DEFAULT_NUMBER_OF_TRIALS, and the retries of sendEnableVoWiFi

(* A message for the UE (enable_vowifi) or a query for the ePDG. *)
Message == [name : Responses \cup {"enable_vowifi"}, kind : Kinds]

ASSUME ControllerAssumption ==
    /\ MaxTrials \in Nat \ {0}
    /\ Plan \in Seq([messages : Seq(Message), live : BOOLEAN])
    /\ \A i \in 1..Len(Plan) :
         /\ Plan[i].messages # << >>
         /\ \A j \in 1..Len(Plan[i].messages) :
              Plan[i].messages[j].name = "enable_vowifi" <=> j = 1

VARIABLES
    ctl,        \* the controller's program counter and locals
    wifi,       \* the UE's Wi-Fi is on
    log         \* the query/reply pairs of the testcase so far

control == <<ctl, wifi, log>>

-----------------------------------------------------------------------------
Names == Symbols \cup {"enable_vowifi", "timeout", "null_action", "retest", "retransmission"}

Pair == [q : Names, r : Names]

(* pc is where the controller stands:
     pre, pre_ack          initEPDG in pre
     alive, alive_ack      isEPDGAlive; back is where it returns to
     renew                 pre makes a new reader of the socket
     step                  the next message is sent
     enable, enable_ack    initEPDG in sendEnableVoWiFi
     wifi_on               sendEnableWiFi
     query, reply          processResult of either half of a step
     post                  the testcase is over: finEPDG
     next                  main goes on to the next testcase
     done, failed, died    all testcases run, System.exit(1), an exception in main *)
Pcs == {"pre", "pre_ack", "alive", "alive_ack", "renew", "step", "enable", "enable_ack",
        "wifi_on", "query", "reply", "post", "next", "done", "failed", "died"}

ControlState == [pc : Pcs, back : Pcs, tc : Nat, msg : Nat, trial : Nat, name : Names,
                 depth : Nat, qname : Names, sent : 0..MaxQueries, acked : BOOLEAN,
                 verdict : 0..2]

ControllerTypeOK ==
    /\ ctl \in ControlState
    /\ wifi \in BOOLEAN
    /\ log \in Seq(Pair)

ControllerInit ==
    /\ ctl = [pc |-> IF Plan = << >> THEN "done" ELSE "pre", back |-> "pre", tc |-> 1,
              msg |-> 1, trial |-> 0, name |-> NULL, depth |-> 0, qname |-> NULL,
              sent |-> 0, acked |-> FALSE, verdict |-> 0]
    /\ wifi = FALSE
    /\ log = << >>

messages == Plan[ctl.tc].messages

(* rebootUE turns the Wi-Fi off first, and it stays off. *)
rebootUE == wifi' = FALSE

-----------------------------------------------------------------------------
(* pre *)

PreInit ==
    /\ ctl.pc = "pre"
    /\ WriteToEpdg(Control("init"))
    /\ ctl' = [ctl EXCEPT !.pc = "pre_ack", !.trial = @ + 1]
    /\ UNCHANGED <<fromEpdg, wifi, log>>

(* Mutant of AfterPreInit: one trial less. *)
AfterPreInit_OneLess(ok) ==
    [ctl EXCEPT !.acked = ok,
       !.pc = CASE ~ok /\ ctl.trial < MaxTrials - 1 -> "pre"
                [] ctl.trial = MaxTrials - 1 -> "failed"
                [] OTHER -> "alive",
       !.back = "renew"]

(* What initEPDG returned: the last trial counts as a failure also when it *)
(* succeeds.                                                               *)
AfterPreInit(ok) ==
    [ctl EXCEPT !.acked = ok,
       !.pc = CASE ~ok /\ ctl.trial < MaxTrials -> "pre"
                [] ctl.trial = MaxTrials -> "failed"
                [] OTHER -> "alive",
       !.back = "renew"]

(* initEPDG takes the next line for the answer, whatever it is. *)
PreAck ==
    /\ ctl.pc = "pre_ack" /\ fromEpdg # << >>
    /\ ctl' = AfterPreInit(Head(fromEpdg) = Ack)
    /\ fromEpdg' = Tail(fromEpdg)
    /\ UNCHANGED <<toEpdg, wifi, log>>

PreAckTimeout ==
    /\ ctl.pc = "pre_ack" /\ fromEpdg = << >>
    /\ ctl' = AfterPreInit(FALSE)
    /\ UNCHANGED <<channel, wifi, log>>

(* isEPDGAlive *)
SendHello ==
    /\ ctl.pc = "alive"
    /\ WriteToEpdg(Control("Hello"))
    /\ ctl' = [ctl EXCEPT !.pc = "alive_ack"]
    /\ UNCHANGED <<fromEpdg, wifi, log>>

(* Lines other than an ACK are thrown away. *)
AliveAck ==
    /\ ctl.pc = "alive_ack" /\ fromEpdg # << >>
    /\ fromEpdg' = Tail(fromEpdg)
    /\ ctl' = IF Head(fromEpdg) = Ack THEN [ctl EXCEPT !.pc = ctl.back] ELSE ctl
    /\ UNCHANGED <<toEpdg, wifi, log>>

(* The new BufferedReader does not see what the old one had read ahead. *)
Renew ==
    /\ ctl.pc = "renew"
    /\ \E n \in 0..Len(fromEpdg) : fromEpdg' = SubSeq(fromEpdg, n + 1, Len(fromEpdg))
    /\ ctl' = [ctl EXCEPT !.pc = "step"]
    /\ UNCHANGED <<toEpdg, wifi, log>>

-----------------------------------------------------------------------------
(* step *)

(* sendEnableVoWiFi: the Wi-Fi is turned off, the ePDG initialised and the *)
(* Wi-Fi turned on, up to MaxTrials times.                                 *)
EnableOff ==
    /\ ctl.pc = "step" /\ messages[ctl.msg].name = "enable_vowifi"
    /\ wifi' = FALSE
    /\ ctl' = [ctl EXCEPT !.pc = "enable", !.trial = 0]
    /\ UNCHANGED <<channel, log>>

EnableInit ==
    /\ ctl.pc = "enable"
    /\ WriteToEpdg(Control("init"))
    /\ ctl' = [ctl EXCEPT !.pc = "enable_ack", !.trial = @ + 1]
    /\ UNCHANGED <<fromEpdg, wifi, log>>

(* After the last failure the UE is rebooted, which leaves its Wi-Fi off,  *)
(* and the step goes on as if it were enabled.                             *)
AfterEnableInit(ok) ==
    [ctl EXCEPT !.acked = ok,
       !.pc = CASE ok -> "wifi_on"
                [] ~ok /\ ctl.trial < MaxTrials -> "enable"
                [] OTHER -> "reply",
       !.qname = "enable_vowifi", !.name = NULL, !.depth = 0]

EnableAck ==
    /\ ctl.pc = "enable_ack" /\ fromEpdg # << >>
    /\ ctl' = AfterEnableInit(Head(fromEpdg) = Ack)
    /\ fromEpdg' = Tail(fromEpdg)
    /\ UNCHANGED <<toEpdg, wifi, log>>

EnableAckTimeout ==
    /\ ctl.pc = "enable_ack" /\ fromEpdg = << >>
    /\ ctl' = AfterEnableInit(FALSE)
    /\ UNCHANGED <<channel, wifi, log>>

WifiOn ==
    /\ ctl.pc = "wifi_on"
    /\ wifi' = TRUE
    /\ ctl' = [ctl EXCEPT !.pc = "reply"]
    /\ UNCHANGED <<channel, log>>

(* sendMSGToEPDG *)
SendQuery ==
    LET m == messages[ctl.msg] IN
    /\ ctl.pc = "step" /\ m.name # "enable_vowifi"
    /\ ctl.sent < MaxQueries
    /\ WriteToEpdg([kind |-> "query",
                    query |-> [id |-> ctl.sent + 1, name |-> m.name, kind |-> m.kind]])
    /\ ctl' = [ctl EXCEPT !.pc = "query", !.sent = @ + 1, !.name = NULL, !.depth = 0]
    /\ UNCHANGED <<fromEpdg, wifi, log>>

(* executeTestcase returns null and main starts the testcase again, without *)
(* post.  main does not expect this of the liveness testcase.               *)
Retested == [ctl EXCEPT !.pc = IF Plan[ctl.tc].live THEN "died" ELSE "pre",
                        !.msg = 1, !.trial = 0]

(* The rest of step and executeTestcase when the reply is named r. *)
AfterReply(r) ==
    IF r = "retest" THEN Retested
    ELSE IF "retransmission" \in {ctl.qname, r} THEN [ctl EXCEPT !.pc = "step"]
    ELSE IF r = "timeout" \/ ctl.msg = Len(messages) THEN [ctl EXCEPT !.pc = "post"]
    ELSE [ctl EXCEPT !.pc = "step", !.msg = @ + 1]

AfterQuery(q) ==
    IF q = "retest" THEN Retested
    ELSE [ctl EXCEPT !.pc = "reply", !.qname = q, !.name = NULL, !.depth = 0]

(* processResult returns a message named n. *)
Result(n) ==
    \/ /\ ctl.pc = "query"
       /\ ctl' = AfterQuery(n)
       /\ log' = IF n = "retest" THEN << >> ELSE log
    \/ /\ ctl.pc = "reply"
       /\ ctl' = AfterReply(n)
       /\ log' = CASE n = "retest" -> << >>
                   [] n # "retest" /\ "retransmission" \in {ctl.qname, n} -> log
                   [] OTHER -> Append(log, [q |-> ctl.qname, r |-> n])

(* The name processResult gives a block whose last line is e. *)
BlockName(e) ==
    CASE e.symbol = "retest_required:auth_failed" -> "retest"
      [] e.symbol \in {"retransmission:no_proposal_chosen",
                       "retransmission:invalid_ke_payload"} -> "retransmission"
      [] OTHER -> ctl.name

Reading == ctl.pc \in {"query", "reply"} /\ ctl.name # "timeout" /\ fromEpdg # << >>

(* Short lines are skipped: late ACKs. *)
SkipAck ==
    /\ Reading /\ Head(fromEpdg) = Ack
    /\ fromEpdg' = Tail(fromEpdg)
    /\ UNCHANGED <<toEpdg, control>>

(* Mutant of ReadStart: processResult returns when a block opens. *)
ReadStart_Returns ==
    /\ Reading /\ Head(fromEpdg).type = "start"
    /\ fromEpdg' = Tail(fromEpdg)
    /\ Result(Head(fromEpdg).symbol)
    /\ UNCHANGED <<toEpdg, wifi>>

(* A block opens, or one inside it. *)
ReadStart ==
    /\ Reading /\ Head(fromEpdg).type = "start"
    /\ fromEpdg' = Tail(fromEpdg)
    /\ ctl' = [ctl EXCEPT !.depth = @ + 1,
                          !.name = IF ctl.depth = 0 THEN Head(fromEpdg).symbol ELSE @]
    /\ UNCHANGED <<toEpdg, wifi, log>>

ReadInnerEnd ==
    /\ Reading /\ Head(fromEpdg).type = "end" /\ ctl.depth > 1
    /\ fromEpdg' = Tail(fromEpdg)
    /\ ctl' = [ctl EXCEPT !.depth = @ - 1]
    /\ UNCHANGED <<toEpdg, wifi, log>>

ReadEnd ==
    /\ Reading /\ Head(fromEpdg).type = "end" /\ ctl.depth = 1
    /\ fromEpdg' = Tail(fromEpdg)
    /\ Result(BlockName(Head(fromEpdg)))
    /\ IF BlockName(Head(fromEpdg)) = "retest" THEN rebootUE ELSE UNCHANGED wifi
    /\ UNCHANGED toEpdg

(* The end of a block that never began: mlog is null, and the exception    *)
(* makes it a null_action.                                                 *)
ReadStrayEnd ==
    /\ Reading /\ Head(fromEpdg).type = "end" /\ ctl.depth = 0
    /\ fromEpdg' = Tail(fromEpdg)
    /\ Result("null_action")
    /\ rebootUE
    /\ UNCHANGED toEpdg

(* handleTimeout asks whether the ePDG is alive before processResult       *)
(* returns; ResultTimeout does the rest when it is.                        *)
ReadTimeout ==
    /\ ctl.pc \in {"query", "reply"} /\ fromEpdg = << >> /\ ctl.name # "timeout"
    /\ ctl' = [ctl EXCEPT !.pc = "alive", !.back = ctl.pc, !.name = "timeout"]
    /\ UNCHANGED <<channel, wifi, log>>

(* Mutant of ResultTimeout: the read is tried again. *)
ResultTimeout_ReadsAgain ==
    /\ ctl.pc \in {"query", "reply"} /\ ctl.name = "timeout"
    /\ ctl' = [ctl EXCEPT !.name = NULL]
    /\ UNCHANGED <<channel, wifi, log>>

ResultTimeout ==
    /\ ctl.pc \in {"query", "reply"} /\ ctl.name = "timeout"
    /\ Result("timeout")
    /\ UNCHANGED <<channel, wifi>>

-----------------------------------------------------------------------------
(* post and main *)

(* finEPDG: the Wi-Fi is turned off and fin sent; nobody answers it. *)
PostOff ==
    /\ ctl.pc = "post" /\ wifi
    /\ wifi' = FALSE
    /\ UNCHANGED <<channel, ctl, log>>

Fin ==
    /\ ctl.pc = "post" /\ ~wifi
    /\ WriteToEpdg(Control("fin"))
    /\ ctl' = [ctl EXCEPT !.pc = "next"]
    /\ UNCHANGED <<fromEpdg, wifi, log>>

(* Oracle: the reply that follows a query when the UE goes on normally;    *)
(* after the last response of the IKE exchanges the two verdicts differ.   *)
Normal(last) == [enable_vowifi |-> "ike_sa_init_request",
                 ike_sa_init_response |-> "ike_auth_1_request",
                 ike_auth_1_response |-> "ike_auth_2_request",
                 ike_auth_2_response |-> "ike_auth_3_request",
                 ike_auth_3_response |-> last]

(* Oracle.getLivenessOracleResult *)
LivenessVerdict(pairs) ==
    LET expected == Normal("timeout")
    IN IF \E i \in 1..Len(pairs) : pairs[i].r = "client_error" THEN 2
       ELSE IF \E i \in 1..Len(pairs) :
                  pairs[i].q \in DOMAIN expected /\ pairs[i].r # expected[pairs[i].q]
            THEN 1 ELSE 0


(* Oracle.getFunctionalOracleResult and isNormalSequence: the last reply   *)
(* is a timeout, the normal one, or a deviation.                           *)
FunctionalVerdict(pairs) ==
    LET last == pairs[Len(pairs)]
        expected == Normal("register_1")
    IN IF last.r = "timeout" THEN 0
       ELSE IF last.q \notin DOMAIN expected \/ last.r = expected[last.q] THEN 2
       ELSE 1

(* main: a testcase whose enable_vowifi was not followed by a request is   *)
(* run again, after a reboot.                                              *)
Again == ~Plan[ctl.tc].live /\ log[1].q = "enable_vowifi" /\ log[1].r = "timeout"

NextTestcase ==
    /\ ctl.pc = "next"
    /\ ctl' = IF Again THEN [ctl EXCEPT !.pc = "pre", !.msg = 1, !.trial = 0]
              ELSE [ctl EXCEPT !.pc = IF ctl.tc = Len(Plan) THEN "done" ELSE "pre",
                               !.tc = @ + 1, !.msg = 1, !.trial = 0,
                               !.verdict = IF Plan[ctl.tc].live THEN LivenessVerdict(log)
                                           ELSE @]
    /\ log' = << >>
    /\ wifi' = FALSE
    /\ UNCHANGED channel

-----------------------------------------------------------------------------
(* settled: the ePDG has done all it can, which the sleeps before these     *)
(* lines and the UE controller's commands leave time for.  silent: nothing  *)
(* was going to arrive within the socket's timeout.                         *)
ControllerNext(settled, silent) ==
    \/ settled /\ (PreInit \/ EnableInit \/ WifiOn \/ Fin)
    \/ silent /\ (PreAckTimeout \/ EnableAckTimeout \/ ReadTimeout)
    \/ PreAck \/ SendHello \/ AliveAck \/ Renew
    \/ EnableOff \/ EnableAck \/ SendQuery
    \/ SkipAck \/ ReadStart \/ ReadInnerEnd \/ ReadEnd \/ ReadStrayEnd \/ ResultTimeout
    \/ PostOff \/ NextTestcase
=============================================================================
