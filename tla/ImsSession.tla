------------------------------ MODULE ImsSession ------------------------------
(***************************************************************************)
(* The IMS half of the main controller (Controller.java), the instrumented *)
(* IMS and a UE that registers.  The controller runs the testcases of Plan *)
(* in order: pre, sendEnableVoWiFi, the IKE messages (which end with the   *)
(* UE attached or with the testcase given up), the messages for the IMS,   *)
(* post.  The ePDG is taken to be alive; module Testbed has its half.      *)
(*                                                                         *)
(* As in Testbed, a line that follows one of the controller's sleeps finds *)
(* the IMS with nothing left to do (ImsQuiet), and a read times out only   *)
(* when nothing was on its way (Silent).                                   *)
(***************************************************************************)
EXTENDS SipInstance

CONSTANTS
    Plan,         \* the testcases: the queries for the IMS, [name, edit]
    Refusals      \* whether the IMS may refuse a REGISTER, or challenge it again

ASSUME SessionAssumption ==
    /\ Refusals \in BOOLEAN
    /\ Plan \in Seq(Seq([name : QueryNames, edit : {"none", "nonce", "other"}]))
    /\ \A i \in 1..Len(Plan) : Plan[i] # << >>

(* Every testcase the repository ships that goes beyond the attachment     *)
(* asks for the 401, and then, if for more, for the 200.  MAX_QUEUE_LEN    *)
(* has room for the four lines that may wait at once: those of a response  *)
(* and of the REGISTER that answers it.                                    *)
ASSUME RegistrationAssumption ==
    /\ MaxQueueLen >= 4
    /\ \A t \in 1..Len(Plan) :
         /\ Len(Plan[t]) <= 2
         /\ \A i \in 1..Len(Plan[t]) :
              Plan[t][i].name = IF i = 1 THEN "401_unauthorized" ELSE "200_ok"

VARIABLES
    ctl,          \* the controller's program counter and locals
    log,          \* the query/reply pairs of the testcase so far
    ue,           \* the UE: off, ready to send, waiting, registered or given up
    net           \* requests on their way to the IMS

control == <<ctl, log>>

phone == <<ue, net>>

-----------------------------------------------------------------------------
Names == RequestLabels \cup QueryNames
            \cup {NULL, "ike_auth_3_response", "timeout", "null_action", "done"}

(* A pair, and the messages its halves were reported for (0: none) *)
Pair == [q : Names, r : Names, about : SUBSET (0..MaxRequests)]

(* pc is where the controller stands:
     pre, pre_ack          initIMS in pre
     alive, alive_ack      isIMSAlive; back is where it returns to
     renew                 pre makes a new reader of the socket
     enable, enable_ack    initIMS in sendEnableVoWiFi
     attach                sendEnableWiFi and the messages for the ePDG
     step                  the next query for the IMS is sent
     query, reply          processResult of either half of a step
     post, next, done      finIMS, the next testcase, all testcases run *)
Pcs == {"pre", "pre_ack", "alive", "alive_ack", "renew", "enable", "enable_ack", "attach",
        "step", "query", "reply", "post", "next", "done"}

(* The types of the controller's and the UE's state. *)
SessionTypeOK ==
    /\ SipTypeOK
    /\ ctl \in [pc : Pcs, back : Pcs, tc : Nat, msg : Nat, name : Names, depth : Nat,
                qname : Names, sent : 0..MaxQueries, about : SUBSET (0..MaxRequests)]
    /\ log \in Seq(Pair)
    /\ ue \in [pc : {"off", "ready", "waiting", "registered", "stopped"}, n : 0..MaxRequests,
               first : 1..MaxRequests + 1]
    /\ net \subseteq Request

SessionInit ==
    /\ SipInit
    /\ ctl = [pc |-> IF Plan = << >> THEN "done" ELSE "pre", back |-> "pre", tc |-> 1,
              msg |-> 0, name |-> NULL, depth |-> 0, qname |-> NULL, sent |-> 0, about |-> {}]
    /\ log = << >>
    /\ ue = [pc |-> "off", n |-> 0, first |-> 1]
    /\ net = {}

ims == <<inst, lpc, spc, worker, freed, pending, wire, crashed>>

-----------------------------------------------------------------------------
(* pre, and initIMS in sendEnableVoWiFi *)

SendInit ==
    /\ ctl.pc \in {"pre", "enable"}
    /\ WriteToIms(Control("init"))
    /\ ctl' = [ctl EXCEPT !.pc = IF ctl.pc = "pre" THEN "pre_ack" ELSE "enable_ack"]
    /\ UNCHANGED <<fromIms, ims, log, phone>>

(* initIMS takes whatever line comes first and returns true. *)
InitAck ==
    /\ ctl.pc \in {"pre_ack", "enable_ack"} /\ fromIms # << >>
    /\ fromIms' = Tail(fromIms)
    /\ ctl' = [ctl EXCEPT !.pc = IF ctl.pc = "pre_ack" THEN "alive" ELSE "attach",
                          !.back = "renew"]
    /\ UNCHANGED <<toIms, ims, log, phone>>

(* isIMSAlive *)
SendHello ==
    /\ ctl.pc = "alive"
    /\ WriteToIms(Control("Hello"))
    /\ ctl' = [ctl EXCEPT !.pc = "alive_ack"]
    /\ UNCHANGED <<fromIms, ims, log, phone>>

(* Lines other than an ACK are thrown away. *)
AliveAck ==
    /\ ctl.pc = "alive_ack" /\ fromIms # << >>
    /\ fromIms' = Tail(fromIms)
    /\ ctl' = IF Head(fromIms) = Ack THEN [ctl EXCEPT !.pc = ctl.back] ELSE ctl
    /\ UNCHANGED <<toIms, ims, log, phone>>

(* The new BufferedReader does not see what the old one had read ahead. *)
Renew ==
    /\ ctl.pc = "renew"
    /\ \E n \in 0..Len(fromIms) : fromIms' = SubSeq(fromIms, n + 1, Len(fromIms))
    /\ ctl' = [ctl EXCEPT !.pc = "enable"]
    /\ UNCHANGED <<toIms, ims, log, phone>>

(* The Wi-Fi is on and the UE attaches: the reply to ike_auth_3_response   *)
(* is read from the IMS. *)
Attach ==
    /\ ctl.pc = "attach"
    /\ ctl' = [ctl EXCEPT !.pc = "reply", !.qname = "ike_auth_3_response",
                          !.name = NULL, !.depth = 0, !.about = {}]
    /\ ue' = [ue EXCEPT !.pc = "ready", !.first = ue.n + 1]
    /\ UNCHANGED <<toIms, fromIms, ims, log, net>>

(* A message for the ePDG was not answered: the testcase ends. *)
NoAttach ==
    /\ ctl.pc = "attach"
    /\ ctl' = [ctl EXCEPT !.pc = "post"]
    /\ UNCHANGED <<toIms, fromIms, ims, log, phone>>

-----------------------------------------------------------------------------
(* step *)

(* sendMSGToIMS *)
SendQuery ==
    LET m == Plan[ctl.tc][ctl.msg] IN
    /\ ctl.pc = "step" /\ ctl.sent < MaxQueries
    /\ WriteToIms([kind |-> "query",
                   query |-> [id |-> ctl.sent + 1, name |-> m.name, edit |-> m.edit]])
    /\ ctl' = [ctl EXCEPT !.pc = "query", !.sent = @ + 1, !.name = NULL, !.depth = 0,
                          !.about = {}]
    /\ UNCHANGED <<fromIms, ims, log, phone>>

(* executeTestcase goes on unless the reply is a timeout. *)
AfterReply(r) ==
    IF r = "timeout" \/ ctl.msg = Len(Plan[ctl.tc]) THEN [ctl EXCEPT !.pc = "post"]
    ELSE [ctl EXCEPT !.pc = "step", !.msg = @ + 1]

(* The reporter of the reply to 200_ok is "none": processResult reads      *)
(* nothing and returns "done".                                             *)
Reporter == IF ctl.msg > 0 /\ Plan[ctl.tc][ctl.msg].name = "200_ok" THEN "none" ELSE "ims"

(* processResult returns a message named n, read from the lines about b. *)
Result(n, b) ==
    \/ /\ ctl.pc = "query" /\ Reporter = "ims"
       /\ ctl' = [ctl EXCEPT !.pc = "reply", !.qname = n, !.name = NULL, !.depth = 0,
                             !.about = b]
       /\ UNCHANGED log
    \/ /\ ctl.pc = "query" /\ Reporter = "none"
       /\ ctl' = AfterReply("done")
       /\ log' = Append(log, [q |-> n, r |-> "done", about |-> b])
    \/ /\ ctl.pc = "reply"
       /\ ctl' = AfterReply(n)
       /\ log' = Append(log, [q |-> ctl.qname, r |-> n, about |-> b])

Reading == ctl.pc \in {"query", "reply"} /\ ctl.name # "timeout" /\ fromIms # << >>

(* Mutant of SkipAck: a late ACK ends the block. *)
SkipAck_TakesIt ==
    /\ Reading /\ Head(fromIms) = Ack
    /\ fromIms' = Tail(fromIms)
    /\ Result("null_action", ctl.about)
    /\ UNCHANGED <<toIms, ims, phone>>

(* Short lines are skipped: late ACKs. *)
SkipAck ==
    /\ Reading /\ Head(fromIms) = Ack
    /\ fromIms' = Tail(fromIms)
    /\ UNCHANGED <<toIms, ims, control, phone>>

ReadStart ==
    /\ Reading /\ Head(fromIms).type = "start"
    /\ fromIms' = Tail(fromIms)
    /\ ctl' = [ctl EXCEPT !.depth = @ + 1, !.about = @ \cup {Head(fromIms).n},
                          !.name = IF ctl.depth = 0 THEN Head(fromIms).symbol ELSE @]
    /\ UNCHANGED <<toIms, ims, log, phone>>

(* The last line of a block, the end of one inside another, or the end of  *)
(* one that never began: then mlog is null, and the exception makes it a   *)
(* null_action and reboots the UE, which turns its Wi-Fi off first.        *)
ReadEnd ==
    LET b == ctl.about \cup {Head(fromIms).n} IN
    /\ Reading /\ Head(fromIms).type = "end"
    /\ fromIms' = Tail(fromIms)
    /\ IF ctl.depth > 1 THEN ctl' = [ctl EXCEPT !.depth = @ - 1, !.about = b] /\ UNCHANGED log
       ELSE Result(IF ctl.depth = 1 THEN ctl.name ELSE "null_action", b)
    /\ ue' = IF ctl.depth = 0 THEN [ue EXCEPT !.pc = "off"] ELSE ue
    /\ UNCHANGED <<toIms, ims, net>>

(* Mutant of ReadTimeout: processResult reads again. *)
ReadTimeout_Again ==
    /\ ctl.pc \in {"query", "reply"} /\ fromIms = << >>
    /\ ctl' = [ctl EXCEPT !.pc = "alive", !.back = ctl.pc]
    /\ UNCHANGED <<toIms, fromIms, ims, log, phone>>

(* handleTimeout asks whether the IMS is alive before processResult        *)
(* returns; ResultTimeout does the rest when it is.                        *)
ReadTimeout ==
    /\ ctl.pc \in {"query", "reply"} /\ fromIms = << >> /\ ctl.name # "timeout"
    /\ ctl' = [ctl EXCEPT !.pc = "alive", !.back = ctl.pc, !.name = "timeout"]
    /\ UNCHANGED <<toIms, fromIms, ims, log, phone>>

ResultTimeout ==
    /\ ctl.pc \in {"query", "reply"} /\ ctl.name = "timeout"
    /\ Result("timeout", ctl.about)
    /\ UNCHANGED <<toIms, fromIms, ims, phone>>

-----------------------------------------------------------------------------
(* post: the Wi-Fi is turned off, then fin is sent, which nobody answers. *)

PostOff ==
    /\ ctl.pc = "post" /\ ue.pc # "off"
    /\ ue' = [ue EXCEPT !.pc = "off"]
    /\ UNCHANGED <<toIms, fromIms, ims, control, net>>

Fin ==
    /\ ctl.pc = "post" /\ ue.pc = "off"
    /\ WriteToIms(Control("fin"))
    /\ ctl' = [ctl EXCEPT !.pc = "next"]
    /\ UNCHANGED <<fromIms, ims, log, phone>>

NextTestcase ==
    /\ ctl.pc = "next"
    /\ ctl' = [ctl EXCEPT !.pc = IF ctl.tc = Len(Plan) THEN "done" ELSE "pre",
                          !.tc = @ + 1, !.msg = 0]
    /\ log' = << >>
    /\ UNCHANGED <<toIms, fromIms, ims, phone>>

-----------------------------------------------------------------------------
(* The UE and Kamailio's own logic (external) *)

Answer == {r \in wire : r.n = ue.n}

Challenged == \E r \in wire : r.n >= ue.first /\ r.name = "unauthorized"

Answered(name) == ue.pc = "waiting" /\ \E r \in Answer : r.name = name

MaySend ==
    /\ ue.n < MaxRequests
    /\ ue.pc = "ready" \/ Answered("unauthorized")

UeSend(name, pc) ==
    /\ net' = net \cup {[name |-> name, n |-> ue.n + 1]}
    /\ ue' = [ue EXCEPT !.pc = pc, !.n = @ + 1]
    /\ UNCHANGED <<vars, control>>

(* The first REGISTER, and the one that answers a challenge *)
UeRegister == MaySend /\ UeSend("register", "waiting")

UeAccepted ==
    /\ Answered("ok")
    /\ ue' = [ue EXCEPT !.pc = "registered"]
    /\ UNCHANGED <<vars, control, net>>

(* What a registered UE goes on with, without waiting for the answers *)
UeSubscribe ==
    /\ ue.pc = "registered" /\ ue.n < MaxRequests
    /\ UeSend("subscribe", "registered")

UeGiveUp ==
    /\ MaySend \/ Answered("forbidden")
    /\ ue' = [ue EXCEPT !.pc = "stopped"]
    /\ UNCHANGED <<vars, control, net>>

UeStep == UeRegister \/ UeAccepted \/ UeSubscribe \/ UeGiveUp

(* A request reaches a worker. *)
Arrive ==
    /\ \E w \in Workers, m \in net : Receive(w, m) /\ net' = net \ {m}
    /\ UNCHANGED <<control, ue>>

(* The IMS answers: a REGISTER is challenged first. *)
Outcomes(m) ==
    IF m.name = "subscribe" THEN {"ok"}
    ELSE IF Challenged THEN {"ok"} \cup IF Refusals THEN {"unauthorized", "forbidden"} ELSE {}
    ELSE {"unauthorized"} \cup IF Refusals THEN {"forbidden"} ELSE {}

Conclude ==
    /\ \E w \in Workers, m \in pending : \E name \in Outcomes(m) :
          Respond(w, [name |-> name, n |-> m.n])
    /\ UNCHANGED <<control, phone>>

-----------------------------------------------------------------------------
(* Time *)

Free == {w \in Workers : worker[w] = Idle}

(* Nothing more goes out. *)
SenderQuiet == spc = "asleep" \/ inst.sendq = << >>

ImsQuiet ==
    /\ toIms = << >> /\ lpc = "read" /\ SenderQuiet
    /\ \A w \in Workers : worker[w].pc \in {"idle", "asleep"} \/ Waiting(w)
    /\ (net = {} /\ pending = {}) \/ Free = {}

Silent == ImsQuiet /\ fromIms = << >> /\ ~MaySend /\ ~Answered("ok")

ControllerStep ==
    \/ ImsQuiet /\ (SendInit \/ Attach \/ Fin)
    \/ Silent /\ ReadTimeout
    \/ InitAck \/ SendHello \/ AliveAck \/ Renew \/ NoAttach
    \/ SendQuery \/ SkipAck \/ ReadStart \/ ReadEnd \/ ResultTimeout
    \/ PostOff \/ NextTestcase

ListenerStep == Listener /\ UNCHANGED <<control, phone>>

SenderStep == Sender /\ UNCHANGED <<control, phone>>

LoseSender == SenderFallsAsleep /\ UNCHANGED <<control, phone>>

WorkerStep(w) == Work(w) /\ UNCHANGED <<control, phone>>

(* The controller has stopped, or the IMS. *)
Stopped == (ctl.pc = "done" \/ crashed) /\ UNCHANGED <<vars, control, phone>>

SessionNext ==
    \/ ~crashed /\ (ControllerStep \/ ListenerStep \/ SenderStep \/ LoseSender \/ UeStep
                    \/ Arrive \/ Conclude)
    \/ ~crashed /\ \E w \in Workers : WorkerStep(w)
    \/ Stopped

all == <<vars, control, phone>>

(* Processes run, and Kamailio answers. *)
SessionFairness ==
    /\ WF_all(~crashed /\ ControllerStep) /\ WF_all(~crashed /\ ListenerStep)
    /\ WF_all(~crashed /\ SenderStep) /\ WF_all(~crashed /\ UeStep)
    /\ WF_all(~crashed /\ Arrive) /\ WF_all(~crashed /\ Conclude)
    /\ \A w \in Workers : WF_all(~crashed /\ WorkerStep(w))

SessionSpec == SessionInit /\ [][SessionNext]_all /\ SessionFairness

-----------------------------------------------------------------------------
(* Every block processResult reads from the IMS is opened before it is     *)
(* closed and none is opened inside another, although two processes may    *)
(* put the lines of their reports into the queue in turn, and also after   *)
(* fin: what a testcase leaves unread is gone before a step reads.         *)
BlocksPaired ==
    /\ ctl.depth <= 1
    /\ \A i \in 1..Len(log) : "null_action" \notin {log[i].q, log[i].r}

(* What a testcase logs was reported for messages of the UE's attachment   *)
(* in that testcase: a response held since the testcase before, and the    *)
(* reports made after its fin, are never taken for an answer.              *)
ReportsFresh ==
    \A i \in 1..Len(log) : log[i].about \subseteq ue.first..ue.n

(* The responses to the UE since it attached, sent or on their way *)
Known ==
    {[name |-> r.name, n |-> r.n] : r \in wire}
        \cup {worker[w].msg : w \in {v \in Workers : worker[v] # Idle}}

Regular ==
    /\ ue.pc \in {"waiting", "registered"} /\ ~Answered("unauthorized")
    /\ spc # "asleep" /\ \A w \in Workers : worker[w].pc # "asleep"
    /\ \A m \in Known : m.n >= ue.first =>
          m.name # "forbidden" /\ (m.name = "unauthorized" => m.n = ue.first)

ExpectedPair(m) ==
    IF m = "401_unauthorized" THEN <<m, "register_2">> ELSE <<m, "done">>

(* A UE that goes through the registration leaves the log its testcase     *)
(* expects, whatever the testcase before left in the IMS, as long as the   *)
(* lock of the send queue has cost neither the sender nor a worker: each   *)
(* response is reported under its query, each REGISTER under its number,   *)
(* and no read times out.                                                  *)
RegularLog ==
    ctl.pc = "post" /\ Regular =>
        /\ Len(log) = Len(Plan[ctl.tc]) + 1
        /\ <<log[1].q, log[1].r>> = <<"ike_auth_3_response", "register_1">>
        /\ \A i \in 1..Len(Plan[ctl.tc]) :
              <<log[i + 1].q, log[i + 1].r>> = ExpectedPair(Plan[ctl.tc][i].name)

(* A 401 sent in an open session carries the modification of the query it  *)
(* was reported under, and one that was not reported carries none:         *)
(* process_query asks for the query again after get_next_query has         *)
(* returned one.                                                           *)
ModifiedAsReported ==
    \A r \in wire : r.name = "unauthorized" /\ ~r.late => r.edit = r.rep

(* The assertion in the edit of the nonce only fails for a REGISTER that   *)
(* was refused, or once fin has released the responses the session held.   *)
AbortOnlyLate ==
    crashed => inst.finished \/ \E m \in Known : m.name = "forbidden"

(* A response that waits for a query in get_next_query is sent in the end: *)
(* a query or fin comes.                                                   *)
ResponsesReleased ==
    \A w \in Workers :
        worker[w].pc \in {"poll", "sleep"} ~> worker[w].pc \notin {"poll", "sleep"} \/ crashed

(* The controller gets through all its testcases, unless the IMS aborts,   *)
(* whatever the UE and the lock of the send queue do.                      *)
AllTestcasesRun == <>(ctl.pc = "done" \/ crashed)

(* For the IMS fin is a line like a query: it promises nothing about the   *)
(* reports that follow.                                                    *)
ImsKind(l) == IF l.kind = "fin" THEN "query" ELSE l.kind

Peer == INSTANCE ControlPeer
          WITH Lines <- Line, Reports <- Report, AckLine <- Ack, Capacity <- MaxQueueLen,
               Kind <- ImsKind, inbox <- toIms, outbox <- fromIms,
               backlog <- inst.sendq, closed <- FALSE

(* The instrumented IMS answers each Hello and init by one ACK in order    *)
(* and passes on the reports in the order they were made, at most          *)
(* MAX_QUEUE_LEN of them waiting.  The new reader of pre, which loses      *)
(* several lines at once, is no step of the peer.                          *)
ImplementsPeer == Peer!Init /\ [][Peer!Next \/ Renew]_(Peer!peer)
=============================================================================
