-------------------------------- MODULE Testbed -------------------------------
(***************************************************************************)
(* The main controller, the ePDG and a UE.  The controller's sleeps and    *)
(* socket timeouts are long against what the ePDG does on its own: a line  *)
(* that follows a sleep is sent once the ePDG has nothing left to do       *)
(* (EpdgQuiet), and a read times out only when nothing was on its way        *)
(* (Silent).  With SlowUE the UE may be slower than the timeouts.          *)
(***************************************************************************)
EXTENDS EpdgInstance, Controller

CONSTANTS
    SlowUE,       \* the UE may send a request after a read has timed out
    UeExchanges   \* the exchanges the UE goes on with after IKE_SA_INIT

ASSUME TestbedAssumption == SlowUE \in BOOLEAN /\ UeExchanges \subseteq Exchanges

VARIABLES
    cur,          \* the IKE_SA of the UE since its Wi-Fi was turned on, or Unbound
    stalled,      \* the UE has given up until its Wi-Fi is turned on again
    overtaken,    \* a read timed out before the UE was done: "no", "now" (in this
                  \* execution of a testcase) or "before"
    shared,       \* a worker was handed an IKE_SA in work (CheckoutBusy): likewise
    left          \* lines unread when pre began, as long as pre asks for the ACK

phone == <<cur, stalled, overtaken, shared, left>>

When == {"no", "now", "before"}

(* Type invariant of the ePDG's instance, the controller and the UE; the   *)
(* theorem TestbedTyped of TestbedProofs, where the proofs start from.     *)
TestbedTypeOK ==
    /\ TypeOK /\ ControllerTypeOK
    /\ cur \in SA \cup {Unbound} /\ stalled \in BOOLEAN
    /\ overtaken \in When /\ shared \in When /\ left \in Nat

-----------------------------------------------------------------------------
(* The UE (external) *)

Fresh == {s \in SA : ue[s] = << >>}

(* It may attach: for the first time, or after its IKE_SA was refused. *)
MayOpen ==
    /\ wifi /\ ~stalled /\ Fresh # {}
    /\ \/ cur = Unbound
       \/ \E r \in wire : r.sa = cur /\ ~r.ok

MayGoOn ==
    /\ wifi /\ ~stalled /\ cur # Unbound /\ UeExchanges # {} /\ Len(ue[cur]) < MaxExchanges
    /\ \E r \in wire : r.sa = cur /\ r.mid = Len(ue[cur]) - 1 /\ r.ok

Attach ==
    /\ MayOpen
    /\ \E s \in Fresh : UeOpen(s) /\ cur' = s
    /\ UNCHANGED <<control, stalled, overtaken, shared, left>>

GoOn ==
    /\ MayGoOn
    /\ \E ex \in UeExchanges : UeNext(cur, ex)
    /\ UNCHANGED <<control, phone>>

GiveUp ==
    /\ wifi /\ ~stalled
    /\ stalled' = TRUE
    /\ UNCHANGED <<vars, control, cur, overtaken, shared, left>>

(* A request reaches the ePDG while the Wi-Fi is on. *)
Arrive ==
    /\ wifi /\ cur # Unbound /\ ~crashed
    /\ \/ (\E t \in Workers : Hand(t, cur)) /\ UNCHANGED shared
       \/ (\E t \in Workers : HandBusy(t, cur)) /\ shared' = "now"
    /\ UNCHANGED <<control, cur, stalled, overtaken, left>>

-----------------------------------------------------------------------------
(* Time *)

Waiting(t) == worker[t].pc = "wait" /\ ~Takeable /\ ~inst.finished

EpdgQuiet ==
    /\ toEpdg = << >> /\ lpc = "read" /\ inst.sendq = << >>
    /\ \A t \in Workers : worker[t] = Idle \/ Waiting(t)

InFlight ==
    /\ cur # Unbound /\ wifi /\ received < MaxReceived
    /\ seen[cur] < Len(ue[cur]) /\ (seen[cur] = 0 \/ cur \in entries)

UeBusy == InFlight \/ MayOpen \/ MayGoOn

Silent == EpdgQuiet /\ fromEpdg = << >> /\ (SlowUE \/ ~UeBusy)

-----------------------------------------------------------------------------
TestbedInit ==
    /\ Init /\ ControllerInit
    /\ cur = Unbound /\ stalled = FALSE
    /\ overtaken = "no" /\ shared = "no" /\ left = 0

(* What happened in an execution of a testcase is over when the next begins. *)
Past(when) == IF ctl'.pc = "pre" /\ when = "now" THEN "before" ELSE when

ControllerStep ==
    /\ ControllerNext(EpdgQuiet, Silent)
    /\ cur' = IF wifi' THEN cur ELSE Unbound
    /\ stalled' = (wifi' /\ stalled)
    /\ overtaken' = IF ReadTimeout /\ UeBusy THEN "now" ELSE Past(overtaken)
    /\ shared' = Past(shared)
    /\ left' = CASE ctl'.pc \notin {"pre", "pre_ack", "failed"} -> 0
                 [] ctl.pc = "pre" /\ ctl.trial = 0 -> Len(fromEpdg)
                 [] OTHER -> left
    /\ UNCHANGED <<inst, lpc, manager, worker, network, crashed>>

ListenerStep == ~crashed /\ Listener /\ UNCHANGED <<control, phone>>

SenderStep == ~crashed /\ Sender /\ UNCHANGED <<control, phone>>

WorkerStep(t) == ~crashed /\ Work(t) /\ UNCHANGED <<control, phone>>

UeStep == Attach \/ GoOn \/ GiveUp \/ Arrive

(* The controller has stopped. *)
Stopped == ctl.pc \in {"done", "failed", "died"} /\ UNCHANGED <<vars, control, phone>>

TestbedNext ==
    \/ ControllerStep \/ ListenerStep \/ SenderStep \/ UeStep \/ Stopped
    \/ \E t \in Workers : WorkerStep(t)

TestbedSpec == TestbedInit /\ [][TestbedNext]_<<vars, control, phone>>

(* Threads run; the UE acts or gives up, and then the timeouts fire. *)
Fairness ==
    /\ WF_<<vars, control, phone>>(ControllerStep)
    /\ WF_<<vars, control, phone>>(ListenerStep)
    /\ WF_<<vars, control, phone>>(SenderStep)
    /\ WF_<<vars, control, phone>>(UeStep)
    /\ \A t \in Workers : WF_<<vars, control, phone>>(WorkerStep(t))

LiveSpec == TestbedSpec /\ Fairness

-----------------------------------------------------------------------------
(* Two things spoil what the controller reads of an execution of a         *)
(* testcase: a read that gave up before the UE was done, and a repeated    *)
(* request that was handed the IKE_SA another worker was still at work on. *)
Undisturbed == overtaken # "now" /\ shared # "now"

(* Every block processResult reads is opened before it is closed, and none *)
(* is opened inside another: the reports of the request and of the         *)
(* response of one IKE_SA, made by different workers, do not interleave,   *)
(* and what a testcase leaves unread is gone before the next step reads.   *)
(* An early timeout or a shared IKE_SA spoils this only until the testcase *)
(* is over.                                                                *)
BlocksPaired ==
    Undisturbed =>
        /\ ctl.pc \in {"query", "reply"} => ctl.depth <= 1
        /\ \A i \in 1..Len(log) : "null_action" \notin {log[i].q, log[i].r}

(* A pair of the log belongs to one message of the testcase: its query     *)
(* half is the response the message asked for, and its reply the request   *)
(* that follows that response.  Requests the UE repeats do not change it,  *)
(* unless one of them shares the IKE_SA of another worker.                 *)
Expected(q) ==
    IF q = "enable_vowifi" THEN {"ike_sa_init_request"}
    ELSE {RequestChain[i + 1] : i \in {j \in 1..5 : ResponseChain[j] = q}}

PairsMatchMessages ==
    Undisturbed =>
        \A i \in 1..Len(log) :
            /\ log[i].q \in {messages[i].name, "timeout"}
            /\ log[i].r \in Expected(log[i].q) \cup {"timeout", "client_error"}

(* No response is built or encoded under a query other than the one it is  *)
(* reported under, although the listener may publish the next one between  *)
(* the end of the report and generate_message; and an IKE_SA_INIT response *)
(* is encoded while its query is still there.  (After an early timeout the *)
(* controller sends the query of a step twice, and the second may replace  *)
(* the next one; workers that share an IKE_SA take each other's.)          *)
QueryOwnsResponse ==
    overtaken = "no" /\ shared = "no" =>
        \A r \in wire :
            /\ r.taskq = r.q.id
            /\ r.encq \in {0, r.q.id}
            /\ r.ex = "IKE_SA_INIT" => r.encq = r.q.id

(* A response sent for a query that generate is to apply while it encodes  *)
(* the payloads is encoded under that query.                               *)
EditsAreEncoded == \A r \in wire : r.q.kind = "encode" => r.encq = r.q.id

(* The query a worker builds a response with stays in place until the end  *)
(* of the report frees it: neither fin nor init nor another query takes it *)
(* away, although no lock is held.  (Of two workers that share an IKE_SA   *)
(* one may free what the other is using.)                                  *)
QueryHeldWhileBuilt ==
    overtaken = "no" /\ shared = "no" =>
        \A t \in Workers : worker[t].pc \in {"build", "end"} /\ worker[t].q # NoQuery
                             => inst.query = worker[t].q

(* A query line only travels in an open session: the instance is reset and *)
(* not finished, and no init or fin is on the way with it.                 *)
QueriesInSession ==
    \A i \in 1..Len(toEpdg) : toEpdg[i].kind = "query" =>
        /\ inst.initiated /\ ~inst.finished /\ lpc = "read"
        /\ \A j \in 1..Len(toEpdg) : toEpdg[j].kind \notin {"init", "fin"}

(* The liveness test raises no false alarm: when the UE went through it    *)
(* without giving up, the ePDG neither refused a request nor failed at its *)
(* tasks, no read timed out early and no repeated request was handed a     *)
(* busy IKE_SA, the oracle reports nothing but a client error of the UE,   *)
(* whatever the testcase before it left behind in the ePDG.                *)
NoFalseAlarm ==
    ~Rejects /\ ~Failures /\ Undisturbed
        /\ ctl.pc = "post" /\ Plan[ctl.tc].live /\ wifi /\ ~stalled /\ cur # Unbound
        /\ received < MaxReceived
        => LivenessVerdict(log) # 1


(* pre gives up on an ePDG that works only when the testcase before has    *)
(* left as many lines unread as pre has trials but one: initEPDG takes     *)
(* each of them for the answer to an init, and the last trial counts as a  *)
(* failure whatever it reads.                                              *)
GivesUpOnLeftovers == ctl.pc = "failed" => left >= MaxTrials - 1

(* "the experiment should be retested" is followed by another run of the   *)
(* testcase, never by the end of main.                                     *)
RetestRuns == ctl.pc # "died"

(* A checked out IKE_SA is accessible by one thread only. *)
ExclusiveCheckout ==
    \A t, u \in Workers : t # u /\ worker[t] # Idle => worker[t].sa # worker[u].sa

(* A worker that waits for a query in get_next_query does not wait for     *)
(* ever: a query or fin comes, unless the ePDG or the controller is gone.  *)
Gone == crashed \/ ctl.pc \in {"failed", "died"}

WaitersReleased ==
    \A t \in Workers : worker[t].pc = "wait" ~> (worker[t].pc # "wait" \/ Gone)

(* Every half of a step comes to an end: processResult returns a block or *)
(* a timeout, and the step goes on, is repeated, or ends the testcase.     *)
(* (How often a step is repeated because of retransmissions, or a testcase *)
(* because of retests, has no limit in the code.)                          *)
StepsEnd ==
    /\ ctl.pc = "query" ~> (ctl.pc \in {"reply", "pre"} \/ Gone)
    /\ ctl.pc = "reply" ~> (ctl.pc \in {"step", "post", "pre"} \/ Gone)
=============================================================================
