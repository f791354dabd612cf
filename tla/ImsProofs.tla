------------------------------- MODULE ImsProofs ------------------------------
(***************************************************************************)
(* Proofs about the instrumented IMS and the half of the controller that   *)
(* drives it (ImsSession), for any number of processes and any length of   *)
(* the queues:                                                             *)
(*                                                                         *)
(*   SessionTyped         SessionSpec => []SessionTypeOK                   *)
(*   ImsRefinement        SessionSpec => ImplementsPeer                    *)
(*   BlocksArePaired      SessionSpec => []BlocksPaired                    *)
(*   ReportsAreFresh      SessionSpec => []ReportsFresh                    *)
(*   ModifiedUnderReport  SessionSpec => []ModifiedAsReported              *)
(*   AbortsOnlyLate       SessionSpec => []AbortOnlyLate                   *)
(*                                                                         *)
(* The first two hold for any testcases.  The lines of init and fin are    *)
(* taken off the connection by the last of their steps, so Inv says which  *)
(* line the listener is at; the processes' steps are typed by the message  *)
(* they are at; and the controller stays within its testcases.             *)
(*                                                                         *)
(* The others rest on RegistrationAssumption: the testcases ask for the    *)
(* 401 and then for the 200, and the send queue holds four reports.        *)
(* RegInv follows a testcase through its phases (Opening, Session,         *)
(* Closed).  Between two sessions the instance is finished or nothing runs *)
(* in the IMS (Rests), and what is still reported after fin stands before  *)
(* the ACKs that pre reads up to (AcksLast).  In a session the UE has only *)
(* one message under way until it is registered, and the number p of the   *)
(* lines of reports made so far says where that message is (Stage), which  *)
(* lines are waiting to be read (Tape) and what the controller reads next  *)
(* (Desk).  When the sender is lost on the lock of its queue the lines on  *)
(* the connection are the last ones, and every later read times out.       *)
(***************************************************************************)
EXTENDS ImsSession, SequenceLemmas, TLAPS

-----------------------------------------------------------------------------
(* The inductive invariant *)

(* The line the listener is at. *)
LineInWork ==
    /\ lpc \in {"init_flag", "init_prev"} => toIms # << >> /\ toIms[1].kind = "init"
    /\ lpc \in {"fin_query", "fin_prev"} => toIms # << >> /\ toIms[1].kind = "fin"

(* A process's step, by the message it is at. *)
InLine(j) ==
    /\ j.pc \in {"label", "rprev"} => j.msg \in Request
    /\ j.pc \in {"next", "poll", "sleep", "match", "sprev", "edit"} => j.msg \in Response
    /\ j.pc = "rprev" => j.symbol \in RequestLabels
    /\ j.pc = "sprev" => j.symbol \in QueryNames

WorkersOK == worker \in [Workers -> Job \cup {Idle}] /\ \A w \in Workers : InLine(worker[w])

(* The controller's place in the testcases. *)
InPlan ==
    /\ ctl.pc # "done" => ctl.tc \in 1..Len(Plan) /\ ctl.msg \in 0..Len(Plan[ctl.tc])
    /\ ctl.pc = "step" => ctl.msg > 0
    /\ ctl.back \in {"pre", "renew", "query", "reply"}

Inv == SessionTypeOK /\ LineInWork /\ WorkersOK /\ InPlan

-----------------------------------------------------------------------------
(* The types by parts *)

ConnectionOK ==
    /\ toIms \in Seq(Line) /\ Len(toIms) <= Buffer
    /\ fromIms \in Seq(Report \cup {Ack}) /\ Len(fromIms) <= Buffer

InstanceOK == inst \in Instance /\ Len(inst.sendq) <= MaxQueueLen

ListenerOK ==
    /\ lpc \in {"read", "init_flag", "init_prev", "fin_query", "fin_prev"}
    /\ LineInWork
    /\ freed \subseteq 1..MaxQueries

SenderOK == spc \in {"poll", "asleep"}

MessagesOK == pending \subseteq Request /\ wire \subseteq Sent /\ crashed \in BOOLEAN

ControlState ==
    [pc : Pcs, back : Pcs, tc : Nat, msg : Nat, name : Names, depth : Nat,
     qname : Names, sent : 0..MaxQueries, about : SUBSET (0..MaxRequests)]

ControlOK == ctl \in ControlState /\ InPlan /\ log \in Seq(Pair)

UeState ==
    [pc : {"off", "ready", "waiting", "registered", "stopped"}, n : 0..MaxRequests,
     first : 1..MaxRequests + 1]

PhoneOK == ue \in UeState /\ net \subseteq Request

(* The invariant by the parts the proofs work with. *)
LEMMA Parts ==
    Inv <=> /\ ConnectionOK /\ InstanceOK /\ ListenerOK /\ WorkersOK /\ MessagesOK
            /\ ControlOK /\ PhoneOK /\ SenderOK
  BY DEF Inv, SessionTypeOK, SipTypeOK, ConnectionOK, InstanceOK, ListenerOK, WorkersOK, SenderOK,
         MessagesOK, ControlOK, PhoneOK, ControlState, UeState

-----------------------------------------------------------------------------
(* The connection *)

(* Control lines and their kinds. *)
LEMMA ControlLine ==
    ASSUME NEW k \in {"Hello", "init", "fin"}
    PROVE  Control(k) \in Line
  BY DEF Control, Line

(* The controller writes a line. *)
LEMMA Written ==
    ASSUME ConnectionOK, ListenerOK, NEW l \in Line, WriteToIms(l), UNCHANGED <<fromIms, lpc, freed>>
    PROVE  ConnectionOK' /\ ListenerOK'
<1>1. /\ toIms' = Append(toIms, l) /\ toIms \in Seq(Line) /\ Len(toIms) \in Nat
      /\ Len(toIms) < Buffer
  BY DEF WriteToIms, ConnectionOK
<1>2. /\ Append(toIms, l) \in Seq(Line) /\ Len(Append(toIms, l)) = Len(toIms) + 1
      /\ \A k \in 1..Len(toIms) : Append(toIms, l)[k] = toIms[k]
  BY <1>1, Appended
<1>3. Len(toIms') <= Buffer
  BY <1>1, <1>2, SipAssumption
<1>4. toIms # << >> => toIms' # << >> /\ toIms'[1] = toIms[1]
  <2>1. toIms # << >> => 1 \in 1..Len(toIms)
    BY <1>1
  <2>2. toIms' # << >>
    BY <1>1, <1>2
  <2> QED
    BY <1>1, <1>2, <2>1, <2>2
<1>5. ListenerOK'
  BY <1>4 DEF ListenerOK, LineInWork
<1> QED
  BY <1>1, <1>2, <1>3, <1>5 DEF ConnectionOK

(* The controller reads a line. *)
LEMMA ReadOff ==
    ASSUME ConnectionOK, fromIms # << >>, fromIms' = Tail(fromIms), toIms' = toIms
    PROVE  ConnectionOK' /\ Head(fromIms) \in Report \cup {Ack}
<1>1. /\ Tail(fromIms) \in Seq(Report \cup {Ack}) /\ Len(Tail(fromIms)) = Len(fromIms) - 1
      /\ Len(fromIms) \in Nat /\ Head(fromIms) \in Report \cup {Ack}
  BY Shifted DEF ConnectionOK
<1>2. Len(fromIms') <= Buffer
  BY <1>1, SipAssumption DEF ConnectionOK
<1> QED
  BY <1>1, <1>2 DEF ConnectionOK

(* The IMS writes a line. *)
LEMMA LineOut ==
    ASSUME ConnectionOK, NEW l \in Report \cup {Ack}, WriteFromIms(l)
    PROVE  fromIms' \in Seq(Report \cup {Ack}) /\ Len(fromIms') <= Buffer
<1>1. /\ fromIms' = Append(fromIms, l) /\ fromIms \in Seq(Report \cup {Ack})
      /\ Len(fromIms) \in Nat /\ Len(fromIms) < Buffer
  BY DEF WriteFromIms, ConnectionOK
<1>2. Append(fromIms, l) \in Seq(Report \cup {Ack}) /\ Len(Append(fromIms, l)) = Len(fromIms) + 1
  BY <1>1, Appended
<1> QED
  BY <1>1, <1>2, SipAssumption

(* The fields of the instance that its processes set. *)
LEMMA FieldsReplaced ==
    ASSUME NEW i \in Instance
    PROVE  /\ \A q \in Query \cup {NoQuery} :
                [i EXCEPT !.query = q] \in Instance /\ [i EXCEPT !.query = q].sendq = i.sendq
           /\ \A b \in BOOLEAN :
                [i EXCEPT !.finished = b] \in Instance /\ [i EXCEPT !.finished = b].sendq = i.sendq
           /\ \A x \in RequestLabels :
                [i EXCEPT !.rprev = x] \in Instance /\ [i EXCEPT !.rprev = x].sendq = i.sendq
           /\ \A x \in QueryNames :
                [i EXCEPT !.sprev = x] \in Instance /\ [i EXCEPT !.sprev = x].sendq = i.sendq
           /\ [i EXCEPT !.rprev = FirstRprev, !.sprev = FirstSprev] \in Instance
           /\ [i EXCEPT !.rprev = FirstRprev, !.sprev = FirstSprev].sendq = i.sendq
           /\ \A s \in Seq(Report) :
                [i EXCEPT !.sendq = s] \in Instance /\ [i EXCEPT !.sendq = s].sendq = s
<1>1. \A q \in Query \cup {NoQuery} :
        [i EXCEPT !.query = q] \in Instance /\ [i EXCEPT !.query = q].sendq = i.sendq
  BY DEF Instance
<1>2. \A b \in BOOLEAN :
        [i EXCEPT !.finished = b] \in Instance /\ [i EXCEPT !.finished = b].sendq = i.sendq
  BY DEF Instance
<1>3. \A x \in RequestLabels :
        [i EXCEPT !.rprev = x] \in Instance /\ [i EXCEPT !.rprev = x].sendq = i.sendq
  BY DEF Instance
<1>4. \A x \in QueryNames :
        [i EXCEPT !.sprev = x] \in Instance /\ [i EXCEPT !.sprev = x].sendq = i.sendq
  BY DEF Instance
<1>5. /\ [i EXCEPT !.rprev = FirstRprev, !.sprev = FirstSprev] \in Instance
      /\ [i EXCEPT !.rprev = FirstRprev, !.sprev = FirstSprev].sendq = i.sendq
  BY DEF Instance
<1>6. \A s \in Seq(Report) :
        [i EXCEPT !.sendq = s] \in Instance /\ [i EXCEPT !.sendq = s].sendq = s
  BY DEF Instance
<1> QED
  BY <1>1, <1>2, <1>3, <1>4, <1>5, <1>6

-----------------------------------------------------------------------------
(* The listener and the sender *)

(* The line at the head of the connection. *)
LEMMA HeadLine ==
    ASSUME ConnectionOK, toIms # << >>
    PROVE  /\ Head(toIms) \in Line /\ Head(toIms) = toIms[1]
           /\ Tail(toIms) \in Seq(Line) /\ Len(Tail(toIms)) <= Buffer
<1>1. /\ Head(toIms) \in Line /\ Head(toIms) = toIms[1] /\ Tail(toIms) \in Seq(Line)
      /\ Len(Tail(toIms)) = Len(toIms) - 1 /\ Len(toIms) \in Nat
  BY Shifted DEF ConnectionOK
<1>2. Len(Tail(toIms)) <= Buffer
  BY <1>1, SipAssumption DEF ConnectionOK
<1> QED
  BY <1>1, <1>2

(* A line of kind "query" holds a query. *)
LEMMA QueryLine ==
    ASSUME NEW l \in Line
    PROVE  /\ l.kind \in {"Hello", "init", "fin", "query"}
           /\ l.kind = "query" => l.query \in Query
  BY DEF Line

(* A step of the listener changes the connection, the listener and the     *)
(* instance, whose send queue it leaves alone.                             *)
LEMMA ListenerKeeps ==
    ASSUME ConnectionOK, InstanceOK, ListenerOK, Listener
    PROVE  ConnectionOK' /\ InstanceOK' /\ ListenerOK' /\ inst'.sendq = inst.sendq
<1>1. inst \in Instance /\ inst.query \in Query \cup {NoQuery} /\ Len(inst.sendq) <= MaxQueueLen
  BY DEF InstanceOK, Instance
<1>2. Ack \in Report \cup {Ack}
  OBVIOUS
<1>3. CASE Hello
  <2>1. toIms # << >> /\ toIms' = Tail(toIms) /\ WriteFromIms(Ack) /\ UNCHANGED <<inst, lpc, freed>>
        /\ lpc = "read"
    BY <1>3 DEF Hello, Reads
  <2>2. ConnectionOK'
    BY <1>2, <2>1, HeadLine, LineOut DEF ConnectionOK
  <2> QED
    BY <2>1, <2>2 DEF InstanceOK, ListenerOK, LineInWork
<1>4. CASE SetQuery
  <2>1. /\ toIms # << >> /\ toIms' = Tail(toIms) /\ Head(toIms).kind = "query"
        /\ inst' = [inst EXCEPT !.query = Head(toIms).query]
        /\ lpc = "read" /\ UNCHANGED <<fromIms, lpc, freed>>
    BY <1>4 DEF SetQuery, Reads
  <2>2. Head(toIms).query \in Query
    BY <2>1, HeadLine, QueryLine
  <2>3. inst' \in Instance /\ inst'.sendq = inst.sendq
    BY <1>1, <2>1, <2>2, FieldsReplaced
  <2>4. ConnectionOK'
    BY <2>1, HeadLine DEF ConnectionOK
  <2> QED
    BY <1>1, <2>1, <2>3, <2>4 DEF InstanceOK, ListenerOK, LineInWork
<1>5. ASSUME NEW pc, DropQuery(pc)
      PROVE  inst' \in Instance /\ inst'.sendq = inst.sendq /\ freed' \subseteq 1..MaxQueries
  <2>1. inst' = [inst EXCEPT !.query = NoQuery] /\ freed' = freed \cup ({inst.query.id} \ {0})
    BY <1>5 DEF DropQuery
  <2>2. inst.query.id \in 1..MaxQueries \cup {0}
    BY <1>1 DEF Query, NoQuery
  <2>3. freed' \subseteq 1..MaxQueries
    BY <2>1, <2>2 DEF ListenerOK
  <2> QED
    BY <1>1, <2>1, <2>3, FieldsReplaced
<1>6. CASE ResetQuery
  <2>1. /\ toIms # << >> /\ Head(toIms).kind = "init" /\ DropQuery("init_flag")
        /\ lpc' = "init_flag" /\ UNCHANGED <<toIms, fromIms>>
    BY <1>6 DEF ResetQuery, Reads, DropQuery
  <2>2. toIms[1].kind = "init"
    BY <2>1, HeadLine
  <2> QED
    BY <1>1, <1>5, <2>1, <2>2 DEF ConnectionOK, InstanceOK, ListenerOK, LineInWork
<1>7. CASE FinMark
  <2>1. /\ toIms # << >> /\ Head(toIms).kind = "fin" /\ lpc' = "fin_query"
        /\ inst' = [inst EXCEPT !.finished = TRUE] /\ UNCHANGED <<toIms, fromIms, freed>>
    BY <1>7 DEF FinMark, Reads
  <2>2. toIms[1].kind = "fin"
    BY <2>1, HeadLine
  <2>3. inst' \in Instance /\ inst'.sendq = inst.sendq
    BY <1>1, <2>1, FieldsReplaced
  <2> QED
    BY <1>1, <2>1, <2>2, <2>3 DEF ConnectionOK, InstanceOK, ListenerOK, LineInWork
<1>8. CASE ResetFlag
  <2>1. /\ lpc = "init_flag" /\ lpc' = "init_prev"
        /\ inst' = [inst EXCEPT !.finished = FALSE] /\ UNCHANGED <<toIms, fromIms, freed>>
    BY <1>8 DEF ResetFlag
  <2>2. inst' \in Instance /\ inst'.sendq = inst.sendq
    BY <1>1, <2>1, FieldsReplaced
  <2> QED
    BY <1>1, <2>1, <2>2 DEF ConnectionOK, InstanceOK, ListenerOK, LineInWork
<1>9. CASE FinQuery
  <2>1. lpc = "fin_query" /\ lpc' = "fin_prev" /\ DropQuery("fin_prev") /\ UNCHANGED <<toIms, fromIms>>
    BY <1>9 DEF FinQuery, DropQuery
  <2> QED
    BY <1>1, <1>5, <2>1 DEF ConnectionOK, InstanceOK, ListenerOK, LineInWork
<1>10. CASE ResetPrev \/ FinPrev
  <2>1. /\ lpc \in {"init_prev", "fin_prev"} /\ lpc' = "read" /\ toIms' = Tail(toIms)
        /\ inst' = [inst EXCEPT !.rprev = FirstRprev, !.sprev = FirstSprev]
        /\ WriteFromIms(Ack) \/ UNCHANGED fromIms
        /\ UNCHANGED freed
    BY <1>10 DEF ResetPrev, FinPrev
  <2>2. inst' \in Instance /\ inst'.sendq = inst.sendq
    BY <1>1, <2>1, FieldsReplaced
  <2>3. toIms # << >>
    BY <2>1 DEF ListenerOK, LineInWork
  <2>4. fromIms' \in Seq(Report \cup {Ack}) /\ Len(fromIms') <= Buffer
    BY <1>2, <2>1, LineOut DEF ConnectionOK
  <2>5. ConnectionOK'
    BY <2>1, <2>3, <2>4, HeadLine DEF ConnectionOK
  <2> QED
    BY <1>1, <2>1, <2>2, <2>5 DEF InstanceOK, ListenerOK, LineInWork
<1> QED
  BY <1>3, <1>4, <1>6, <1>7, <1>8, <1>9, <1>10 DEF Listener

(* A step of the sender moves one report from the queue to the socket. *)
LEMMA SenderKeeps ==
    ASSUME ConnectionOK, InstanceOK, Sender
    PROVE  /\ ConnectionOK' /\ InstanceOK'
           /\ inst.sendq # << >> /\ inst'.sendq = Tail(inst.sendq)
           /\ fromIms' = Append(fromIms, Head(inst.sendq)) /\ UNCHANGED <<toIms, lpc, freed>>
<1>1. inst \in Instance /\ inst.sendq \in Seq(Report) /\ Len(inst.sendq) <= MaxQueueLen
  BY DEF InstanceOK, Instance
<1>2. /\ inst.sendq # << >> /\ WriteFromIms(Head(inst.sendq)) /\ UNCHANGED <<toIms, lpc, freed>>
      /\ inst' = [inst EXCEPT !.sendq = Tail(inst.sendq)]
  BY DEF Sender
<1>3. /\ Head(inst.sendq) \in Report /\ Tail(inst.sendq) \in Seq(Report)
      /\ Len(Tail(inst.sendq)) = Len(inst.sendq) - 1 /\ Len(inst.sendq) \in Nat
  BY <1>1, <1>2, Shifted
<1>4. inst' \in Instance /\ inst'.sendq = Tail(inst.sendq)
  BY <1>1, <1>2, <1>3, FieldsReplaced
<1>5. Len(inst'.sendq) <= MaxQueueLen
  BY <1>1, <1>3, <1>4, SipAssumption
<1>6. fromIms' \in Seq(Report \cup {Ack}) /\ Len(fromIms') <= Buffer
  BY <1>2, <1>3, LineOut
<1>7. fromIms' = Append(fromIms, Head(inst.sendq))
  BY <1>2 DEF WriteFromIms
<1> QED
  BY <1>2, <1>4, <1>5, <1>6, <1>7 DEF ConnectionOK, InstanceOK

-----------------------------------------------------------------------------
(* The processes *)

(* What a process does to the send queue: one report, or nothing. *)
OneReport ==
    \/ inst'.sendq = inst.sendq
    \/ /\ Len(inst.sendq) < MaxQueueLen
       /\ \E r \in Report : inst'.sendq = Append(inst.sendq, r)

(* add_message_to_send_queue keeps the queue within MAX_QUEUE_LEN. *)
LEMMA Enqueued ==
    ASSUME InstanceOK, NEW type \in {"start", "end"},
           NEW symbol \in RequestLabels \cup QueryNames \cup {NULL}, NEW n \in 1..MaxRequests,
           Enqueue(type, symbol, n)
    PROVE  InstanceOK' /\ OneReport
<1> DEFINE r == [type |-> type, symbol |-> symbol, n |-> n]
<1>1. inst \in Instance /\ inst.sendq \in Seq(Report) /\ Len(inst.sendq) <= MaxQueueLen
  BY DEF InstanceOK, Instance
<1>2. r \in Report
  BY DEF Report
<1>3. inst' = IF Len(inst.sendq) < MaxQueueLen
              THEN [inst EXCEPT !.sendq = Append(inst.sendq, r)] ELSE inst
  BY DEF Enqueue
<1> HIDE DEF r
<1>4. CASE Len(inst.sendq) < MaxQueueLen
  <2>1. /\ Append(inst.sendq, r) \in Seq(Report) /\ Len(Append(inst.sendq, r)) = Len(inst.sendq) + 1
        /\ Len(inst.sendq) \in Nat
    BY <1>1, <1>2, Appended
  <2>2. inst' \in Instance /\ inst'.sendq = Append(inst.sendq, r)
    BY <1>1, <1>3, <1>4, <2>1, FieldsReplaced
  <2>3. Len(inst'.sendq) <= MaxQueueLen
    BY <1>4, <2>1, <2>2, SipAssumption
  <2> QED
    BY <1>2, <1>4, <2>2, <2>3 DEF InstanceOK, OneReport
<1>5. CASE ~(Len(inst.sendq) < MaxQueueLen)
  BY <1>3, <1>5 DEF InstanceOK, OneReport
<1> QED
  BY <1>4, <1>5

(* A process at a message. *)
LEMMA AtWork ==
    ASSUME WorkersOK, NEW w \in Workers, worker[w].pc # "idle"
    PROVE  /\ worker[w] \in Job /\ InLine(worker[w])
           /\ worker[w].msg \in Request \cup Response /\ worker[w].msg.n \in 1..MaxRequests
           /\ worker[w].q \in Query \cup {NoQuery} /\ worker[w].rep \in 0..MaxQueries
           /\ worker[w].symbol \in RequestLabels \cup QueryNames \cup {NULL}
<1>1. worker[w] \in Job /\ InLine(worker[w])
  BY DEF WorkersOK, Idle
<1>2. /\ worker[w].msg \in Request \cup Response
      /\ worker[w].q \in Query \cup {NoQuery} /\ worker[w].rep \in 0..MaxQueries
      /\ worker[w].symbol \in RequestLabels \cup QueryNames \cup {NULL}
  BY <1>1 DEF Job
<1>3. worker[w].msg.n \in 1..MaxRequests
  BY <1>2 DEF Request, Response
<1> QED
  BY <1>1, <1>2, <1>3

(* A process goes on to another step. *)
LEMMA JobReplaced ==
    ASSUME WorkersOK, NEW w \in Workers, NEW j \in Job \cup {Idle}, InLine(j),
           worker' = [worker EXCEPT ![w] = j]
    PROVE  WorkersOK'
<1>1. worker' \in [Workers -> Job \cup {Idle}]
  BY DEF WorkersOK
<1>2. \A v \in Workers : worker'[v] = IF v = w THEN j ELSE worker[v]
  BY DEF WorkersOK
<1> QED
  BY <1>1, <1>2 DEF WorkersOK

(* It is done with its message. *)
LEMMA JobDone ==
    ASSUME WorkersOK, NEW w \in Workers, worker' = [worker EXCEPT ![w] = Idle]
    PROVE  WorkersOK'
<1>1. InLine(Idle)
  BY DEF InLine, Idle
<1> QED
  BY <1>1, JobReplaced

(* Only the step changes. *)
LEMMA Gone ==
    ASSUME WorkersOK, NEW w \in Workers, worker[w].pc # "idle",
           NEW pc \in {"poll", "start", "end", "edit", "match", "sleep", "asleep"},
           pc \in {"poll", "sleep", "match", "edit"} => worker[w].msg \in Response,
           Goto(w, pc)
    PROVE  WorkersOK'
<1> DEFINE j == [worker[w] EXCEPT !.pc = pc]
<1>1. worker[w] \in Job
  BY AtWork
<1>2. worker' = [worker EXCEPT ![w] = j]
  BY DEF Goto, WorkersOK
<1>3. j \in Job /\ j.pc = pc /\ j.msg = worker[w].msg
  BY <1>1 DEF Job
<1> HIDE DEF j
<1>4. InLine(j)
  BY <1>3 DEF InLine
<1> QED
  BY <1>2, <1>3, <1>4, JobReplaced

(* A request is never a response. *)
LEMMA Apart == \A m \in Response : m \notin Request /\ m.name \in ResponseNames
  BY DEF Request, Response, RequestNames, ResponseNames

(* The labels of a request. *)
LEMMA Labelled ==
    ASSUME NEW name \in RequestNames, NEW prev
    PROVE  RequestLabel(name, prev) \in RequestLabels
  BY DEF RequestLabel, RequestNames, RequestLabels

(* The label of a response, or none. *)
LEMMA Matched ==
    ASSUME NEW qname, NEW mname, NEW prev
    PROVE  ResponseLabel(qname, mname, prev) \in QueryNames \cup {NULL}
  BY DEF ResponseLabel, QueryNames

(* A query's number is within the bound. *)
LEMMA QueryNumber ==
    ASSUME NEW q \in Query \cup {NoQuery}
    PROVE  q.id \in 0..MaxQueries
  BY SipAssumption DEF Query, NoQuery

(* A step of a process makes at most one report and leaves the connection  *)
(* and the listener alone.                                                 *)
LEMMA WorkKeeps ==
    ASSUME InstanceOK, WorkersOK, MessagesOK, NEW w \in Workers, Work(w)
    PROVE  InstanceOK' /\ WorkersOK' /\ MessagesOK' /\ OneReport /\ UNCHANGED channel
<1>1. inst \in Instance /\ inst.query \in Query \cup {NoQuery} /\ inst.finished \in BOOLEAN
  BY DEF InstanceOK, Instance
<1>2. worker[w].pc # "idle"
  BY DEF Work, Label, SetRprev, ReportStart, ReportEnd, FallAsleep, NextQuery, Poll, Sleep, Match,
         SetSprev, Abort, EditAndSend
<1>3. /\ worker[w] \in Job /\ InLine(worker[w])
      /\ worker[w].msg \in Request \cup Response /\ worker[w].msg.n \in 1..MaxRequests
      /\ worker[w].q \in Query \cup {NoQuery} /\ worker[w].rep \in 0..MaxQueries
      /\ worker[w].symbol \in RequestLabels \cup QueryNames \cup {NULL}
  BY <1>2, AtWork
<1>4. ASSUME UNCHANGED inst PROVE InstanceOK' /\ OneReport
  BY <1>4 DEF InstanceOK, OneReport
<1>5. ASSUME UNCHANGED <<pending, wire, crashed>> PROVE MessagesOK'
  BY <1>5 DEF MessagesOK
<1>6. CASE Label(w)
  <2> DEFINE l == RequestLabel(worker[w].msg.name, inst.rprev)
             j == [worker[w] EXCEPT !.pc = "rprev", !.symbol = l]
  <2>1. worker[w].msg \in Request
    BY <1>3, <1>6 DEF Label, InLine
  <2>2. l \in RequestLabels
    BY <2>1, Labelled DEF Request
  <2>3. worker' = [worker EXCEPT ![w] = j] /\ UNCHANGED <<channel, inst, pending, wire, crashed>>
    BY <1>6 DEF Label, WorkersOK
  <2> HIDE DEF l
  <2>4. j \in Job /\ j.pc = "rprev" /\ j.msg = worker[w].msg /\ j.symbol = l
    BY <1>3, <2>2 DEF Job
  <2> HIDE DEF j
  <2>5. InLine(j)
    BY <2>1, <2>2, <2>4 DEF InLine
  <2> QED
    BY <1>4, <1>5, <2>3, <2>4, <2>5, JobReplaced
<1>7. CASE SetRprev(w)
  <2>1. /\ Goto(w, "start") /\ UNCHANGED <<channel, pending, wire, crashed>>
        /\ inst' = [inst EXCEPT !.rprev = worker[w].symbol] /\ worker[w].symbol \in RequestLabels
    BY <1>3, <1>7 DEF SetRprev, InLine
  <2>2. inst' \in Instance /\ inst'.sendq = inst.sendq
    BY <1>1, <2>1, FieldsReplaced
  <2> QED
    BY <1>2, <1>5, <2>1, <2>2, Gone DEF InstanceOK, OneReport
<1>8. CASE ReportStart(w)
  <2>1. /\ Enqueue("start", worker[w].symbol, worker[w].msg.n) /\ Goto(w, "end")
        /\ UNCHANGED <<channel, pending, wire, crashed>>
    BY <1>8 DEF ReportStart
  <2>2. InstanceOK' /\ OneReport
    BY <1>3, <2>1, Enqueued
  <2> QED
    BY <1>2, <1>5, <2>1, <2>2, Gone
<1>9. CASE ReportEnd(w)
  <2>1. Enqueue("end", NULL, worker[w].msg.n) /\ UNCHANGED <<channel, wire, crashed>>
    BY <1>9 DEF ReportEnd
  <2>2. InstanceOK' /\ OneReport
    BY <1>3, <2>1, Enqueued
  <2>3. CASE worker[w].msg \in Request
    <3>1. worker' = [worker EXCEPT ![w] = Idle] /\ pending' = pending \cup {worker[w].msg}
      BY <1>9, <2>3 DEF ReportEnd
    <3>2. MessagesOK'
      BY <2>1, <2>3, <3>1 DEF MessagesOK
    <3> QED
      BY <2>1, <2>2, <3>1, <3>2, JobDone
  <2>4. CASE worker[w].msg \notin Request
    <3>1. Goto(w, "edit") /\ UNCHANGED pending
      BY <1>9, <2>4 DEF ReportEnd
    <3>2. worker[w].msg \in Response
      BY <1>3, <2>4
    <3> QED
      BY <1>2, <1>5, <2>1, <2>2, <3>1, <3>2, Gone
  <2> QED
    BY <2>3, <2>4
<1>10. CASE FallAsleep(w)
  BY <1>2, <1>4, <1>5, <1>10, Gone DEF FallAsleep
<1>11. CASE NextQuery(w)
  <2>1. /\ Goto(w, IF inst.finished THEN "edit" ELSE "poll") /\ worker[w].msg \in Response
        /\ UNCHANGED <<channel, inst, pending, wire, crashed>>
    BY <1>3, <1>11 DEF NextQuery, InLine
  <2>2. \E pc \in {"edit", "poll"} : Goto(w, pc)
    BY <2>1
  <2>3. WorkersOK'
    BY <1>2, <2>1, <2>2, Gone
  <2> QED
    BY <1>4, <1>5, <2>1, <2>3
<1>12. CASE Poll(w)
  <2>1. PICK pc \in {"match", "sleep"} :
           worker' = [worker EXCEPT ![w] = [worker[w] EXCEPT !.q = inst.query, !.pc = pc]]
    BY <1>12 DEF Poll, WorkersOK
  <2> DEFINE j == [worker[w] EXCEPT !.q = inst.query, !.pc = pc]
  <2>2. worker[w].msg \in Response /\ UNCHANGED <<channel, inst, pending, wire, crashed>>
    BY <1>3, <1>12 DEF Poll, InLine
  <2>3. j \in Job /\ j.pc = pc /\ j.msg = worker[w].msg
    BY <1>1, <1>3 DEF Job
  <2>4. worker' = [worker EXCEPT ![w] = j]
    BY <2>1
  <2> HIDE DEF j
  <2>5. InLine(j)
    BY <2>2, <2>3 DEF InLine
  <2> QED
    BY <1>4, <1>5, <2>2, <2>3, <2>4, <2>5, JobReplaced
<1>13. CASE Sleep(w)
  <2>1. \E pc \in {"poll", "edit", "match"} : Goto(w, pc)
    BY <1>1, <1>13 DEF Sleep
  <2>2. worker[w].msg \in Response /\ UNCHANGED <<channel, inst, pending, wire, crashed>>
    BY <1>3, <1>13 DEF Sleep, InLine
  <2>3. WorkersOK'
    BY <1>2, <2>1, <2>2, Gone
  <2> QED
    BY <1>4, <1>5, <2>2, <2>3
<1>14. CASE Match(w)
  <2>1. PICK qname \in NamesRead(worker[w].q) :
           LET symbol == ResponseLabel(qname, worker[w].msg.name, inst.sprev) IN
           worker' = [worker EXCEPT ![w].symbol = symbol,
                                    ![w].rep = IF symbol = NULL THEN 0 ELSE worker[w].q.id,
                                    ![w].pc = IF symbol = NULL THEN "edit" ELSE "sprev"]
    BY <1>14 DEF Match
  <2> DEFINE s == ResponseLabel(qname, worker[w].msg.name, inst.sprev)
             rep == IF s = NULL THEN 0 ELSE worker[w].q.id
             pc == IF s = NULL THEN "edit" ELSE "sprev"
             j == [worker[w] EXCEPT !.symbol = s, !.rep = rep, !.pc = pc]
  <2>2. worker' = [worker EXCEPT ![w] = j]
    BY <2>1 DEF WorkersOK
  <2>3. s \in QueryNames \cup {NULL}
    BY Matched
  <2>4. worker[w].msg \in Response /\ UNCHANGED <<channel, inst, pending, wire, crashed>>
    BY <1>3, <1>14 DEF Match, InLine
  <2> HIDE DEF s
  <2>5. rep \in 0..MaxQueries /\ pc \in {"edit", "sprev"} /\ (pc = "sprev" => s \in QueryNames)
    BY <1>3, <2>3, QueryNumber, SipAssumption
  <2> HIDE DEF rep, pc
  <2>6. j \in Job /\ j.pc = pc /\ j.msg = worker[w].msg /\ j.symbol = s
    BY <1>3, <2>3, <2>5 DEF Job
  <2> HIDE DEF j
  <2>7. InLine(j)
    BY <2>4, <2>5, <2>6 DEF InLine
  <2> QED
    BY <1>4, <1>5, <2>2, <2>4, <2>6, <2>7, JobReplaced
<1>15. CASE SetSprev(w)
  <2>1. /\ Goto(w, "start") /\ UNCHANGED <<channel, pending, wire, crashed>>
        /\ inst' = [inst EXCEPT !.sprev = worker[w].symbol] /\ worker[w].symbol \in QueryNames
    BY <1>3, <1>15 DEF SetSprev, InLine
  <2>2. inst' \in Instance /\ inst'.sendq = inst.sendq
    BY <1>1, <2>1, FieldsReplaced
  <2> QED
    BY <1>2, <1>5, <2>1, <2>2, Gone DEF InstanceOK, OneReport
<1>16. CASE Abort(w)
  BY <1>4, <1>16 DEF Abort, WorkersOK, MessagesOK
<1>17. CASE EditAndSend(w)
  <2> DEFINE r == [name |-> worker[w].msg.name, n |-> worker[w].msg.n, rep |-> worker[w].rep,
                   edit |-> EditedBy(w), late |-> inst.finished]
  <2>1. worker[w].msg \in Response
    BY <1>3, <1>17 DEF EditAndSend, InLine
  <2>2. EditedBy(w) \in 0..MaxQueries
    BY <1>1, QueryNumber, SipAssumption DEF EditedBy
  <2>3. worker[w].msg.name \in ResponseNames
    BY <2>1, Apart
  <2>4. r \in Sent
    BY <1>1, <1>3, <2>2, <2>3 DEF Sent
  <2>5. wire' = wire \cup {r} /\ worker' = [worker EXCEPT ![w] = Idle]
        /\ UNCHANGED <<channel, inst, pending, crashed>>
    BY <1>17 DEF EditAndSend
  <2> HIDE DEF r
  <2>6. MessagesOK'
    BY <2>4, <2>5 DEF MessagesOK
  <2> QED
    BY <1>4, <2>5, <2>6, JobDone
<1> QED
  BY <1>6, <1>7, <1>8, <1>9, <1>10, <1>11, <1>12, <1>13, <1>14, <1>15, <1>16, <1>17 DEF Work

(* A request or a response reaches a process that is idle. *)
LEMMA JobTaken ==
    ASSUME WorkersOK, NEW w \in Workers, NEW pc \in {"label", "next"},
           NEW m, (pc = "label" /\ m \in Request) \/ (pc = "next" /\ m \in Response),
           worker' = [worker EXCEPT ![w] = [pc |-> pc, msg |-> m, q |-> NoQuery,
                                            symbol |-> NULL, rep |-> 0]]
    PROVE  WorkersOK'
<1> DEFINE j == [pc |-> pc, msg |-> m, q |-> NoQuery, symbol |-> NULL, rep |-> 0]
<1>1. j \in Job
  BY SipAssumption DEF Job
<1>2. InLine(j)
  BY DEF InLine
<1>3. worker' = [worker EXCEPT ![w] = j]
  OBVIOUS
<1> HIDE DEF j
<1> QED
  BY <1>1, <1>2, <1>3, JobReplaced

(* A request of the UE arrives. *)
LEMMA ArriveKeeps ==
    ASSUME WorkersOK, MessagesOK, PhoneOK, Arrive
    PROVE  /\ WorkersOK' /\ MessagesOK' /\ PhoneOK'
           /\ UNCHANGED <<toIms, fromIms, inst, lpc, spc, freed, ctl, log>>
<1>1. PICK w \in Workers, m \in net : Receive(w, m) /\ net' = net \ {m}
  BY DEF Arrive
<1>2. m \in Request
  BY DEF PhoneOK
<1>3. /\ worker' = [worker EXCEPT ![w] = [pc |-> "label", msg |-> m, q |-> NoQuery,
                                          symbol |-> NULL, rep |-> 0]]
      /\ UNCHANGED <<toIms, fromIms, inst, lpc, spc, freed, pending, wire, crashed>>
  BY <1>1 DEF Receive, channel
<1>4. WorkersOK'
  BY <1>2, <1>3, JobTaken
<1>5. UNCHANGED <<ctl, log, ue>>
  BY DEF Arrive, control
<1>6. MessagesOK' /\ PhoneOK'
  BY <1>1, <1>3, <1>5 DEF MessagesOK, PhoneOK
<1> QED
  BY <1>3, <1>4, <1>5, <1>6

(* Kamailio answers a request. *)
LEMMA ConcludeKeeps ==
    ASSUME WorkersOK, MessagesOK, Conclude
    PROVE  /\ WorkersOK' /\ MessagesOK'
           /\ UNCHANGED <<toIms, fromIms, inst, lpc, spc, freed, ctl, log, ue, net>>
<1>0. PICK w \in Workers, r \in pending :
          \E name \in Outcomes(r) : Respond(w, [name |-> name, n |-> r.n])
  BY DEF Conclude
<1>1. PICK name \in Outcomes(r) : Respond(w, [name |-> name, n |-> r.n])
  BY <1>0
<1> DEFINE m == [name |-> name, n |-> r.n]
<1>2. m \in Response
  <2>1. name \in ResponseNames
    BY DEF Outcomes, ResponseNames
  <2>2. r.n \in 1..MaxRequests
    BY DEF MessagesOK, Request
  <2> QED
    BY <2>1, <2>2 DEF Response
<1>3. Respond(w, m)
  BY <1>1
<1> HIDE DEF m
<1>4. /\ worker' = [worker EXCEPT ![w] = [pc |-> "next", msg |-> m, q |-> NoQuery,
                                          symbol |-> NULL, rep |-> 0]]
      /\ pending' \subseteq pending
      /\ UNCHANGED <<toIms, fromIms, inst, lpc, spc, freed, wire, crashed>>
  BY <1>3 DEF Respond, channel
<1>5. WorkersOK'
  BY <1>2, <1>4, JobTaken
<1>6. MessagesOK'
  BY <1>4 DEF MessagesOK
<1> QED
  BY <1>4, <1>5, <1>6 DEF Conclude, control, phone

(* The UE's steps. *)
LEMMA UeKeeps ==
    ASSUME PhoneOK, UeStep
    PROVE  PhoneOK' /\ UNCHANGED <<vars, control>>
<1>1. ue \in UeState /\ net \subseteq Request
  BY DEF PhoneOK
<1>2. ASSUME NEW name \in RequestNames, NEW pc \in {"waiting", "registered"}, UeSend(name, pc),
             ue.n < MaxRequests
      PROVE  PhoneOK'
  <2>1. ue.n + 1 \in 1..MaxRequests /\ ue.n + 1 \in 0..MaxRequests
    BY <1>1, <1>2, SipAssumption DEF UeState
  <2>2. [name |-> name, n |-> ue.n + 1] \in Request
    BY <2>1 DEF Request
  <2>3. ue' \in UeState
    BY <1>1, <1>2, <2>1 DEF UeSend, UeState
  <2> QED
    BY <1>1, <1>2, <2>2, <2>3 DEF UeSend, PhoneOK
<1>3. CASE UeRegister \/ UeSubscribe
  <2>1. PICK name \in RequestNames, pc \in {"waiting", "registered"} :
           UeSend(name, pc) /\ ue.n < MaxRequests
    BY <1>3 DEF UeRegister, UeSubscribe, MaySend, RequestNames
  <2> QED
    BY <1>2, <2>1 DEF UeSend
<1>4. CASE UeAccepted \/ UeGiveUp
  <2>1. ue' \in UeState
    BY <1>1, <1>4 DEF UeAccepted, UeGiveUp, UeState
  <2> QED
    BY <1>1, <1>4, <2>1 DEF UeAccepted, UeGiveUp, PhoneOK
<1> QED
  BY <1>3, <1>4 DEF UeStep

-----------------------------------------------------------------------------
(* The controller *)

(* The testcase the controller is at. *)
LEMMA AtTestcase ==
    ASSUME ControlOK, ctl.pc # "done"
    PROVE  /\ ctl.tc \in 1..Len(Plan) /\ Len(Plan) \in Nat
           /\ Plan[ctl.tc] \in Seq([name : QueryNames, edit : {"none", "nonce", "other"}])
           /\ Len(Plan[ctl.tc]) \in Nat /\ ctl.msg \in 0..Len(Plan[ctl.tc])
<1>1. ctl.tc \in 1..Len(Plan) /\ ctl.msg \in 0..Len(Plan[ctl.tc])
  BY DEF ControlOK, InPlan
<1>2. Plan[ctl.tc] \in Seq([name : QueryNames, edit : {"none", "nonce", "other"}])
  BY <1>1, SessionAssumption
<1> QED
  BY <1>1, <1>2, SessionAssumption

(* A step within a testcase that is not the next query. *)
LEMMA Moved ==
    ASSUME ControlOK, ctl.pc # "done", ctl' \in ControlState, log' \in Seq(Pair),
           ctl'.tc = ctl.tc, ctl'.msg = ctl.msg, ctl'.pc # "step",
           ctl'.back \in {"pre", "renew", "query", "reply"}
    PROVE  ControlOK'
  BY DEF ControlOK, InPlan

(* After a reply the next query follows, or the testcase is over. *)
LEMMA Replied ==
    ASSUME ControlOK, ctl.pc # "done", NEW r, ctl' = AfterReply(r), log' \in Seq(Pair)
    PROVE  ControlOK'
<1>1. ctl \in ControlState /\ ctl.back \in {"pre", "renew", "query", "reply"}
  BY DEF ControlOK, InPlan
<1>2. CASE ctl' = [ctl EXCEPT !.pc = "post"]
  <2>1. ctl' \in ControlState
    BY <1>1, <1>2 DEF ControlState, Pcs
  <2>2. ctl'.tc = ctl.tc /\ ctl'.msg = ctl.msg /\ ctl'.pc = "post" /\ ctl'.back = ctl.back
    BY <1>1, <1>2 DEF ControlState
  <2> QED
    BY <1>1, <2>1, <2>2, Moved
<1>3. CASE ctl.msg # Len(Plan[ctl.tc]) /\ ctl' = [ctl EXCEPT !.pc = "step", !.msg = @ + 1]
  <2>1. ctl.msg + 1 \in 0..Len(Plan[ctl.tc]) /\ ctl.msg + 1 \in Nat /\ ctl.msg + 1 > 0
    BY <1>3, AtTestcase
  <2>2. ctl' \in ControlState
    BY <1>1, <1>3, <2>1 DEF ControlState, Pcs
  <2>3. ctl'.tc = ctl.tc /\ ctl'.msg = ctl.msg + 1 /\ ctl'.pc = "step" /\ ctl'.back = ctl.back
    BY <1>1, <1>3 DEF ControlState
  <2> QED
    BY <1>1, <2>1, <2>2, <2>3, AtTestcase DEF ControlOK, InPlan
<1> QED
  BY <1>2, <1>3 DEF AfterReply

(* processResult returns. *)
LEMMA Returned ==
    ASSUME ControlOK, NEW n \in Names, NEW b \in SUBSET (0..MaxRequests), Result(n, b)
    PROVE  ControlOK'
<1>1. /\ ctl \in ControlState /\ log \in Seq(Pair) /\ ctl.back \in {"pre", "renew", "query", "reply"}
      /\ ctl.qname \in Names
  BY DEF ControlOK, InPlan, ControlState
<1>2. ctl.pc \in {"query", "reply"}
  BY DEF Result
<1>3. CASE /\ ctl' = [ctl EXCEPT !.pc = "reply", !.qname = n, !.name = NULL, !.depth = 0, !.about = b]
           /\ UNCHANGED log
  <2>1. NULL \in Names
    BY DEF Names
  <2>2. ctl' \in ControlState
    BY <1>1, <1>3, <2>1 DEF ControlState, Pcs
  <2>3. ctl'.tc = ctl.tc /\ ctl'.msg = ctl.msg /\ ctl'.pc = "reply" /\ ctl'.back = ctl.back
    BY <1>1, <1>3 DEF ControlState
  <2> QED
    BY <1>1, <1>2, <1>3, <2>2, <2>3, Moved
<1>4. ASSUME NEW q \in Names, NEW r \in Names, log' = Append(log, [q |-> q, r |-> r, about |-> b])
      PROVE  log' \in Seq(Pair)
  <2>1. [q |-> q, r |-> r, about |-> b] \in Pair
    BY DEF Pair
  <2> QED
    BY <1>1, <1>4, <2>1, Appended
<1>5. CASE ctl' = AfterReply("done") /\ log' = Append(log, [q |-> n, r |-> "done", about |-> b])
  <2>1. "done" \in Names
    BY DEF Names
  <2>2. log' \in Seq(Pair)
    BY <1>4, <1>5, <2>1
  <2> QED
    BY <1>2, <1>5, <2>2, Replied
<1>6. CASE ctl' = AfterReply(n) /\ log' = Append(log, [q |-> ctl.qname, r |-> n, about |-> b])
  <2>1. log' \in Seq(Pair)
    BY <1>1, <1>4, <1>6
  <2> QED
    BY <1>2, <1>6, <2>1, Replied
<1> QED
  BY <1>3, <1>5, <1>6 DEF Result

(* The lines the controller writes. *)
LEMMA SendKeeps ==
    ASSUME ControlOK, SendInit \/ SendHello \/ SendQuery \/ Fin
    PROVE  /\ ControlOK'
           /\ \E l \in Line : WriteToIms(l)
           /\ UNCHANGED <<fromIms, ims, phone>>
<1>1. /\ ctl \in ControlState /\ log \in Seq(Pair) /\ ctl.back \in {"pre", "renew", "query", "reply"}
  BY DEF ControlOK, InPlan
<1>2. CASE SendInit \/ SendHello \/ Fin
  <2>1. PICK k \in {"Hello", "init", "fin"} : WriteToIms(Control(k))
    BY <1>2 DEF SendInit, SendHello, Fin
  <2>2. PICK pc \in {"pre_ack", "enable_ack", "alive_ack", "next"} : ctl' = [ctl EXCEPT !.pc = pc]
    BY <1>2 DEF SendInit, SendHello, Fin
  <2>3. ctl' \in ControlState
    BY <1>1, <2>2 DEF ControlState, Pcs
  <2>4. ctl'.tc = ctl.tc /\ ctl'.msg = ctl.msg /\ ctl'.pc = pc /\ ctl'.back = ctl.back
    BY <1>1, <2>2 DEF ControlState
  <2>5. ctl.pc # "done" /\ UNCHANGED <<fromIms, ims, log, phone>>
    BY <1>2 DEF SendInit, SendHello, Fin
  <2>6. ControlOK'
    BY <1>1, <2>2, <2>3, <2>4, <2>5, Moved
  <2> QED
    BY <2>1, <2>5, <2>6, ControlLine
<1>3. CASE SendQuery
  <2> DEFINE m == Plan[ctl.tc][ctl.msg]
             q == [id |-> ctl.sent + 1, name |-> m.name, edit |-> m.edit]
             l == [kind |-> "query", query |-> q]
  <2>1. /\ ctl.pc = "step" /\ ctl.sent < MaxQueries /\ WriteToIms(l)
        /\ ctl' = [ctl EXCEPT !.pc = "query", !.sent = @ + 1, !.name = NULL, !.depth = 0, !.about = {}]
        /\ UNCHANGED <<fromIms, ims, log, phone>>
    BY <1>3 DEF SendQuery
  <2>2. m \in [name : QueryNames, edit : {"none", "nonce", "other"}]
    <3>1. ctl.msg \in 1..Len(Plan[ctl.tc])
      BY <2>1, AtTestcase DEF ControlOK, InPlan
    <3>2. Plan[ctl.tc] \in Seq([name : QueryNames, edit : {"none", "nonce", "other"}])
      BY <2>1, AtTestcase
    <3> QED
      BY <3>1, <3>2, Element
  <2>3. ctl.sent + 1 \in 1..MaxQueries /\ ctl.sent + 1 \in 0..MaxQueries
    BY <1>1, <2>1, SipAssumption DEF ControlState
  <2> HIDE DEF m
  <2>4. q \in Query
    BY <2>2, <2>3 DEF Query
  <2> HIDE DEF q
  <2>5. l \in Line
    BY <2>4 DEF Line
  <2>6. NULL \in Names
    BY DEF Names
  <2>7. ctl' \in ControlState
    BY <1>1, <2>1, <2>3, <2>6 DEF ControlState, Pcs
  <2>8. ctl'.tc = ctl.tc /\ ctl'.msg = ctl.msg /\ ctl'.pc = "query" /\ ctl'.back = ctl.back
    BY <1>1, <2>1 DEF ControlState
  <2>9. ControlOK'
    BY <1>1, <2>1, <2>7, <2>8, Moved
  <2> QED
    BY <2>1, <2>5, <2>9
<1> QED
  BY <1>2, <1>3

(* The lines the controller reads. *)
LEMMA ReadKeeps ==
    ASSUME ConnectionOK, ControlOK, PhoneOK, InitAck \/ AliveAck \/ SkipAck \/ ReadStart \/ ReadEnd
    PROVE  /\ ControlOK' /\ PhoneOK'
           /\ fromIms # << >> /\ fromIms' = Tail(fromIms) /\ UNCHANGED <<toIms, ims>>
<1>1. /\ ctl \in ControlState /\ log \in Seq(Pair) /\ ctl.back \in {"pre", "renew", "query", "reply"}
      /\ ue \in UeState
  BY DEF ControlOK, InPlan, PhoneOK
<1>2. fromIms # << >> /\ fromIms' = Tail(fromIms) /\ UNCHANGED <<toIms, ims>> /\ ctl.pc # "done"
  BY DEF InitAck, AliveAck, SkipAck, ReadStart, ReadEnd, Reading
<1>3. Head(fromIms) \in Report \cup {Ack}
  BY <1>2, ReadOff
<1>4. CASE InitAck
  <2>1. PICK pc \in {"alive", "attach"} : ctl' = [ctl EXCEPT !.pc = pc, !.back = "renew"]
    BY <1>4 DEF InitAck
  <2>2. ctl' \in ControlState
    BY <1>1, <2>1 DEF ControlState, Pcs
  <2>3. ctl'.tc = ctl.tc /\ ctl'.msg = ctl.msg /\ ctl'.pc = pc /\ ctl'.back = "renew"
    BY <1>1, <2>1 DEF ControlState
  <2>4. UNCHANGED <<log, phone>>
    BY <1>4 DEF InitAck
  <2> QED
    BY <1>1, <1>2, <2>1, <2>2, <2>3, <2>4, Moved DEF PhoneOK, phone
<1>5. CASE AliveAck
  <2>1. UNCHANGED <<log, phone>> /\ (ctl' = [ctl EXCEPT !.pc = ctl.back] \/ ctl' = ctl)
    BY <1>5 DEF AliveAck
  <2>2. CASE ctl' = ctl
    BY <1>2, <2>1, <2>2 DEF ControlOK, InPlan, PhoneOK, phone
  <2>3. CASE ctl' = [ctl EXCEPT !.pc = ctl.back]
    <3>1. ctl' \in ControlState
      BY <1>1, <2>3 DEF ControlState, Pcs
    <3>2. ctl'.tc = ctl.tc /\ ctl'.msg = ctl.msg /\ ctl'.pc = ctl.back /\ ctl'.back = ctl.back
      BY <1>1, <2>3 DEF ControlState
    <3> QED
      BY <1>1, <1>2, <2>1, <3>1, <3>2, Moved DEF PhoneOK, phone
  <2> QED
    BY <2>1, <2>2, <2>3
<1>6. CASE SkipAck
  <2>1. UNCHANGED <<ctl, log, ue, net>>
    BY <1>6 DEF SkipAck, control, phone
  <2> QED
    BY <1>2, <2>1 DEF ControlOK, InPlan, PhoneOK
<1>7. ASSUME Head(fromIms).type \in {"start", "end"}
      PROVE  /\ Head(fromIms).n \in 0..MaxRequests
             /\ Head(fromIms).symbol \in Names
  <2>1. Head(fromIms) \in Report
    BY <1>3, <1>7 DEF Ack
  <2> QED
    BY <2>1, SipAssumption DEF Report, Names
<1>8. CASE ReadStart
  <2>1. PICK name \in Names :
           ctl' = [ctl EXCEPT !.depth = @ + 1, !.about = @ \cup {Head(fromIms).n}, !.name = name]
    BY <1>1, <1>7, <1>8 DEF ReadStart, ControlState
  <2>2. ctl.about \cup {Head(fromIms).n} \in SUBSET (0..MaxRequests) /\ ctl.depth + 1 \in Nat
    BY <1>1, <1>7, <1>8 DEF ReadStart, ControlState
  <2>3. ctl' \in ControlState
    BY <1>1, <2>1, <2>2 DEF ControlState
  <2>4. ctl'.tc = ctl.tc /\ ctl'.msg = ctl.msg /\ ctl'.pc = ctl.pc /\ ctl'.back = ctl.back
    BY <1>1, <2>1 DEF ControlState
  <2>5. UNCHANGED <<log, phone>> /\ ctl.pc \in {"query", "reply"}
    BY <1>8 DEF ReadStart, Reading
  <2> QED
    BY <1>1, <1>2, <2>3, <2>4, <2>5, Moved DEF PhoneOK, phone
<1>9. CASE ReadEnd
  <2> DEFINE b == ctl.about \cup {Head(fromIms).n}
  <2>1. b \in SUBSET (0..MaxRequests)
    BY <1>1, <1>7, <1>9 DEF ReadEnd, ControlState
  <2>2. PhoneOK'
    <3>1. [ue EXCEPT !.pc = "off"] \in UeState
      BY <1>1 DEF UeState
    <3> QED
      BY <1>9, <3>1 DEF ReadEnd, PhoneOK
  <2>3. CASE ctl.depth > 1
    <3>1. ctl' = [ctl EXCEPT !.depth = @ - 1, !.about = b] /\ UNCHANGED log /\ ctl.pc \in {"query", "reply"}
      BY <1>9, <2>3 DEF ReadEnd, Reading
    <3>2. ctl.depth - 1 \in Nat
      BY <1>1, <2>3 DEF ControlState
    <3> HIDE DEF b
    <3>3. ctl' \in ControlState
      BY <1>1, <2>1, <3>1, <3>2 DEF ControlState
    <3>4. ctl'.tc = ctl.tc /\ ctl'.msg = ctl.msg /\ ctl'.pc = ctl.pc /\ ctl'.back = ctl.back
      BY <1>1, <3>1 DEF ControlState
    <3> QED
      BY <1>1, <1>2, <2>2, <3>1, <3>3, <3>4, Moved
  <2>4. CASE ~(ctl.depth > 1)
    <3> DEFINE n == IF ctl.depth = 1 THEN ctl.name ELSE "null_action"
    <3>1. n \in Names
      BY <1>1 DEF ControlState, Names
    <3>2. Result(n, b)
      BY <1>9, <2>4 DEF ReadEnd
    <3> HIDE DEF n, b
    <3> QED
      BY <1>2, <2>1, <2>2, <3>1, <3>2, Returned
  <2> QED
    BY <2>3, <2>4
<1> QED
  BY <1>4, <1>5, <1>6, <1>8, <1>9

(* The controller's other steps. *)
LEMMA StepKeeps ==
    ASSUME ControlOK, PhoneOK, Attach \/ NoAttach \/ ReadTimeout \/ ResultTimeout \/ PostOff \/ NextTestcase
    PROVE  ControlOK' /\ PhoneOK' /\ UNCHANGED <<toIms, fromIms, ims>>
<1>1. /\ ctl \in ControlState /\ log \in Seq(Pair) /\ ctl.back \in {"pre", "renew", "query", "reply"}
      /\ ue \in UeState
  BY DEF ControlOK, InPlan, PhoneOK
<1>2. UNCHANGED <<toIms, fromIms, ims>> /\ ctl.pc # "done"
  BY DEF Attach, NoAttach, ReadTimeout, ResultTimeout, PostOff, NextTestcase
<1>3. /\ NULL \in Names /\ "timeout" \in Names /\ "ike_auth_3_response" \in Names
  BY DEF Names
<1>4. CASE Attach
  <2>1. /\ ctl' = [ctl EXCEPT !.pc = "reply", !.qname = "ike_auth_3_response", !.name = NULL,
                              !.depth = 0, !.about = {}]
        /\ ue' = [ue EXCEPT !.pc = "ready", !.first = ue.n + 1] /\ UNCHANGED <<log, net>>
    BY <1>4 DEF Attach
  <2>2. ctl' \in ControlState
    BY <1>1, <1>3, <2>1 DEF ControlState, Pcs
  <2>3. ctl'.tc = ctl.tc /\ ctl'.msg = ctl.msg /\ ctl'.pc = "reply" /\ ctl'.back = ctl.back
    BY <1>1, <2>1 DEF ControlState
  <2>4. ue.n + 1 \in 1..MaxRequests + 1
    BY <1>1, SipAssumption DEF UeState
  <2>5. ue' \in UeState
    BY <1>1, <2>1, <2>4 DEF UeState
  <2> QED
    BY <1>1, <1>2, <2>1, <2>2, <2>3, <2>5, Moved DEF PhoneOK
<1>5. CASE NoAttach
  <2>1. ctl' = [ctl EXCEPT !.pc = "post"] /\ UNCHANGED <<log, phone>>
    BY <1>5 DEF NoAttach
  <2>2. ctl' \in ControlState
    BY <1>1, <2>1 DEF ControlState, Pcs
  <2>3. ctl'.tc = ctl.tc /\ ctl'.msg = ctl.msg /\ ctl'.pc = "post" /\ ctl'.back = ctl.back
    BY <1>1, <2>1 DEF ControlState
  <2> QED
    BY <1>1, <1>2, <2>1, <2>2, <2>3, Moved DEF PhoneOK, phone
<1>6. CASE ReadTimeout
  <2>1. /\ ctl' = [ctl EXCEPT !.pc = "alive", !.back = ctl.pc, !.name = "timeout"]
        /\ ctl.pc \in {"query", "reply"} /\ UNCHANGED <<log, phone>>
    BY <1>6 DEF ReadTimeout
  <2>2. ctl' \in ControlState
    BY <1>1, <1>3, <2>1 DEF ControlState, Pcs
  <2>3. ctl'.tc = ctl.tc /\ ctl'.msg = ctl.msg /\ ctl'.pc = "alive" /\ ctl'.back = ctl.pc
    BY <1>1, <2>1 DEF ControlState
  <2> QED
    BY <1>1, <1>2, <2>1, <2>2, <2>3, Moved DEF PhoneOK, phone
<1>7. CASE ResultTimeout
  <2>1. Result("timeout", ctl.about) /\ UNCHANGED phone
    BY <1>7 DEF ResultTimeout
  <2>2. ctl.about \in SUBSET (0..MaxRequests)
    BY <1>1 DEF ControlState
  <2> QED
    BY <1>2, <1>3, <2>1, <2>2, Returned DEF PhoneOK, phone
<1>8. CASE PostOff
  <2>1. ue' \in UeState /\ UNCHANGED <<ctl, log, net>>
    BY <1>1, <1>8 DEF PostOff, UeState, control
  <2> QED
    BY <1>2, <2>1 DEF PhoneOK, ControlOK, InPlan
<1>9. CASE NextTestcase
  <2>1. /\ ctl' = [ctl EXCEPT !.pc = IF ctl.tc = Len(Plan) THEN "done" ELSE "pre",
                              !.tc = @ + 1, !.msg = 0]
        /\ log' = << >> /\ UNCHANGED phone
    BY <1>9 DEF NextTestcase
  <2>2. ctl.tc + 1 \in Nat
    BY <1>1 DEF ControlState
  <2>3. ctl' \in ControlState
    BY <1>1, <2>1, <2>2 DEF ControlState, Pcs
  <2>4. /\ ctl'.tc = ctl.tc + 1 /\ ctl'.msg = 0 /\ ctl'.back = ctl.back
        /\ ctl'.pc = IF ctl.tc = Len(Plan) THEN "done" ELSE "pre"
    BY <1>1, <2>1 DEF ControlState
  <2>5. ctl.tc # Len(Plan) => ctl.tc + 1 \in 1..Len(Plan)
    BY <1>2, AtTestcase
  <2>6. ctl.tc + 1 \in 1..Len(Plan) => 0 \in 0..Len(Plan[ctl.tc + 1])
    BY SessionAssumption
  <2>7. InPlan'
    BY <1>1, <2>4, <2>5, <2>6 DEF InPlan
  <2> QED
    BY <1>2, <2>1, <2>3, <2>7 DEF PhoneOK, ControlOK, phone
<1> QED
  BY <1>4, <1>5, <1>6, <1>7, <1>8, <1>9

(* The new reader of pre. *)
LEMMA RenewKeeps ==
    ASSUME ConnectionOK, ControlOK, Renew
    PROVE  ConnectionOK' /\ ControlOK' /\ UNCHANGED <<toIms, ims, phone>>
<1>1. PICK n \in 0..Len(fromIms) : fromIms' = SubSeq(fromIms, n + 1, Len(fromIms))
  BY DEF Renew
<1>2. fromIms \in Seq(Report \cup {Ack}) /\ Len(fromIms) \in Nat /\ Len(fromIms) <= Buffer
  BY DEF ConnectionOK
<1>3. fromIms' \in Seq(Report \cup {Ack}) /\ Len(fromIms') = Len(fromIms) - n
  BY <1>1, <1>2, Dropped
<1>4. Len(fromIms') <= Buffer
  BY <1>2, <1>3, SipAssumption
<1>5. /\ ctl.pc = "renew" /\ ctl' = [ctl EXCEPT !.pc = "enable"] /\ UNCHANGED <<toIms, ims, log, phone>>
  BY DEF Renew
<1>6. ctl \in ControlState /\ log \in Seq(Pair) /\ ctl.back \in {"pre", "renew", "query", "reply"}
  BY DEF ControlOK, InPlan
<1>7. ctl' \in ControlState
  BY <1>5, <1>6 DEF ControlState, Pcs
<1>8. ctl'.tc = ctl.tc /\ ctl'.msg = ctl.msg /\ ctl'.pc = "enable" /\ ctl'.back = ctl.back
  BY <1>5, <1>6 DEF ControlState
<1>9. ControlOK'
  BY <1>5, <1>6, <1>7, <1>8, Moved
<1> QED
  BY <1>3, <1>4, <1>5, <1>9 DEF ConnectionOK

-----------------------------------------------------------------------------
(* The invariant *)

(* It holds when the controller has connected. *)
LEMMA InvInit == SessionInit => Inv
<1> SUFFICES ASSUME SessionInit PROVE Inv
  OBVIOUS
<1>1. ConnectionOK
  BY SipAssumption DEF SessionInit, SipInit, ConnectionOK
<1>2. InstanceOK
  <2>1. InitInstance \in Instance /\ InitInstance.sendq = << >>
    BY DEF InitInstance, Instance
  <2> QED
    BY <2>1, SipAssumption DEF SessionInit, SipInit, InstanceOK
<1>3. ListenerOK
  BY DEF SessionInit, SipInit, ListenerOK, LineInWork
<1>4. WorkersOK
  BY DEF SessionInit, SipInit, WorkersOK, InLine, Idle
<1>5. MessagesOK
  BY DEF SessionInit, SipInit, MessagesOK
<1>6. ControlOK
  <2>1. 0 \in 0..MaxQueries /\ NULL \in Names /\ log \in Seq(Pair)
    BY SipAssumption DEF SessionInit, Names
  <2>2. ctl \in ControlState
    BY <2>1 DEF SessionInit, ControlState, Pcs
  <2>3. /\ ctl.tc = 1 /\ ctl.msg = 0 /\ ctl.back = "pre"
        /\ ctl.pc = IF Plan = << >> THEN "done" ELSE "pre"
    BY DEF SessionInit
  <2>4. Plan # << >> => 1 \in 1..Len(Plan) /\ 0 \in 0..Len(Plan[1])
    BY SessionAssumption
  <2> QED
    BY <2>1, <2>2, <2>3, <2>4 DEF ControlOK, InPlan
<1>7. PhoneOK
  BY SipAssumption DEF SessionInit, PhoneOK, UeState
<1>8. SenderOK
  BY DEF SessionInit, SipInit, SenderOK
<1> QED
  BY <1>1, <1>2, <1>3, <1>4, <1>5, <1>6, <1>7, <1>8, Parts

(* Every step keeps it. *)
LEMMA InvStep == Inv /\ [SessionNext]_all => Inv'
<1> SUFFICES ASSUME Inv, [SessionNext]_all PROVE Inv'
  OBVIOUS
<1>1. ConnectionOK /\ InstanceOK /\ ListenerOK /\ WorkersOK /\ MessagesOK /\ ControlOK /\ PhoneOK
      /\ SenderOK
  BY Parts
<1>2. ASSUME ConnectionOK', InstanceOK', ListenerOK', WorkersOK', MessagesOK', ControlOK', PhoneOK',
             SenderOK'
      PROVE  Inv'
  BY <1>2
  DEF Inv, SessionTypeOK, SipTypeOK, ConnectionOK, InstanceOK, ListenerOK, WorkersOK, SenderOK,
      MessagesOK, ControlOK, PhoneOK, ControlState, UeState
<1>3. UNCHANGED inst => InstanceOK'
  BY <1>1 DEF InstanceOK
<1>4. UNCHANGED <<toIms, lpc, freed>> => ListenerOK'
  BY <1>1 DEF ListenerOK, LineInWork
<1>5. UNCHANGED worker => WorkersOK'
  BY <1>1 DEF WorkersOK
<1>6. UNCHANGED <<pending, wire, crashed>> => MessagesOK'
  BY <1>1 DEF MessagesOK
<1>7. UNCHANGED <<ctl, log>> => ControlOK'
  BY <1>1 DEF ControlOK, InPlan
<1>8. UNCHANGED <<ue, net>> => PhoneOK'
  BY <1>1 DEF PhoneOK
<1>9. UNCHANGED <<toIms, fromIms>> => ConnectionOK'
  BY <1>1 DEF ConnectionOK
<1>9a. UNCHANGED spc => SenderOK'
  BY <1>1 DEF SenderOK
<1>10. CASE UNCHANGED all \/ Stopped
  <2>1. UNCHANGED <<toIms, fromIms, inst, lpc, spc, worker, freed, pending, wire, crashed, ctl, log, ue, net>>
    BY <1>10 DEF all, Stopped, vars, control, phone
  <2> QED
    BY <1>2, <1>9a, <1>3, <1>4, <1>5, <1>6, <1>7, <1>8, <1>9, <2>1
<1>11. CASE SendInit \/ SendHello \/ SendQuery \/ Fin
  <2>1. ControlOK' /\ (\E l \in Line : WriteToIms(l)) /\ UNCHANGED <<fromIms, ims, phone>>
    BY <1>1, <1>11, SendKeeps
  <2>2. UNCHANGED <<fromIms, inst, lpc, spc, worker, freed, pending, wire, crashed, ue, net>>
    BY <2>1 DEF ims, phone
  <2>3. ConnectionOK' /\ ListenerOK'
    BY <1>1, <2>1, <2>2, Written
  <2> QED
    BY <1>2, <1>9a, <1>3, <1>5, <1>6, <1>8, <2>1, <2>2, <2>3
<1>12. CASE InitAck \/ AliveAck \/ SkipAck \/ ReadStart \/ ReadEnd
  <2>1. /\ ControlOK' /\ PhoneOK'
        /\ fromIms # << >> /\ fromIms' = Tail(fromIms) /\ UNCHANGED <<toIms, ims>>
    BY <1>1, <1>12, ReadKeeps
  <2>2. UNCHANGED <<toIms, inst, lpc, spc, worker, freed, pending, wire, crashed>>
    BY <2>1 DEF ims
  <2>3. ConnectionOK'
    BY <1>1, <2>1, <2>2, ReadOff
  <2> QED
    BY <1>2, <1>9a, <1>3, <1>4, <1>5, <1>6, <2>1, <2>2, <2>3
<1>13. CASE Attach \/ NoAttach \/ ReadTimeout \/ ResultTimeout \/ PostOff \/ NextTestcase
  <2>1. ControlOK' /\ PhoneOK' /\ UNCHANGED <<toIms, fromIms, ims>>
    BY <1>1, <1>13, StepKeeps
  <2>2. UNCHANGED <<toIms, fromIms, inst, lpc, spc, worker, freed, pending, wire, crashed>>
    BY <2>1 DEF ims
  <2> QED
    BY <1>2, <1>9a, <1>3, <1>4, <1>5, <1>6, <1>9, <2>1, <2>2
<1>14. CASE Renew
  <2>1. ConnectionOK' /\ ControlOK' /\ UNCHANGED <<toIms, ims, phone>>
    BY <1>1, <1>14, RenewKeeps
  <2>2. UNCHANGED <<toIms, inst, lpc, spc, worker, freed, pending, wire, crashed, ue, net>>
    BY <2>1 DEF ims, phone
  <2> QED
    BY <1>2, <1>9a, <1>3, <1>4, <1>5, <1>6, <1>8, <2>1, <2>2
<1>15. CASE ListenerStep
  <2>1. Listener /\ UNCHANGED <<ctl, log, ue, net>>
    BY <1>15 DEF ListenerStep, control, phone
  <2>2. UNCHANGED <<spc, worker, pending, wire, crashed>>
    BY <2>1 DEF Listener, Hello, SetQuery, ResetQuery, ResetFlag, ResetPrev, FinMark, FinQuery,
                FinPrev, rest
  <2>3. ConnectionOK' /\ InstanceOK' /\ ListenerOK'
    BY <1>1, <2>1, ListenerKeeps
  <2> QED
    BY <1>2, <1>9a, <1>5, <1>6, <1>7, <1>8, <2>1, <2>2, <2>3
<1>16. CASE SenderStep
  <2>1. Sender /\ UNCHANGED <<ctl, log, ue, net>>
    BY <1>16 DEF SenderStep, control, phone
  <2>2. UNCHANGED <<spc, worker, pending, wire, crashed>>
    BY <2>1 DEF Sender, rest
  <2>3. ConnectionOK' /\ InstanceOK' /\ UNCHANGED <<toIms, lpc, freed>>
    BY <1>1, <2>1, SenderKeeps
  <2> QED
    BY <1>2, <1>9a, <1>4, <1>5, <1>6, <1>7, <1>8, <2>1, <2>2, <2>3
<1>16a. CASE LoseSender
  <2>1. /\ spc' = "asleep"
        /\ UNCHANGED <<toIms, fromIms, inst, lpc, freed, worker, pending, wire, crashed, ctl, log, ue, net>>
    BY <1>16a DEF LoseSender, SenderFallsAsleep, control, phone
  <2> QED
    BY <1>2, <1>3, <1>4, <1>5, <1>6, <1>7, <1>8, <1>9, <2>1 DEF SenderOK
<1>17. CASE UeStep
  <2>1. PhoneOK' /\ UNCHANGED <<vars, control>>
    BY <1>1, <1>17, UeKeeps
  <2>2. UNCHANGED <<toIms, fromIms, inst, lpc, spc, worker, freed, pending, wire, crashed, ctl, log>>
    BY <2>1 DEF vars, control
  <2> QED
    BY <1>2, <1>9a, <1>3, <1>4, <1>5, <1>6, <1>7, <1>9, <2>1, <2>2
<1>18. CASE Arrive
  <2>1. /\ WorkersOK' /\ MessagesOK' /\ PhoneOK'
        /\ UNCHANGED <<toIms, fromIms, inst, lpc, spc, freed, ctl, log>>
    BY <1>1, <1>18, ArriveKeeps
  <2> QED
    BY <1>2, <1>9a, <1>3, <1>4, <1>7, <1>9, <2>1
<1>19. CASE Conclude
  <2>1. /\ WorkersOK' /\ MessagesOK'
        /\ UNCHANGED <<toIms, fromIms, inst, lpc, spc, freed, ctl, log, ue, net>>
    BY <1>1, <1>19, ConcludeKeeps
  <2> QED
    BY <1>2, <1>9a, <1>3, <1>4, <1>7, <1>8, <1>9, <2>1
<1>20. CASE \E w \in Workers : WorkerStep(w)
  <2>1. PICK w \in Workers : Work(w) /\ UNCHANGED <<ctl, log, ue, net>>
    BY <1>20 DEF WorkerStep, control, phone
  <2>2. InstanceOK' /\ WorkersOK' /\ MessagesOK' /\ UNCHANGED channel
    BY <1>1, <2>1, WorkKeeps
  <2>3. UNCHANGED <<toIms, fromIms, lpc, spc, freed>>
    BY <2>2 DEF channel
  <2> QED
    BY <1>2, <1>9a, <1>4, <1>7, <1>8, <1>9, <2>1, <2>2, <2>3
<1> QED
  BY <1>10, <1>11, <1>12, <1>13, <1>14, <1>15, <1>16, <1>17, <1>18, <1>19, <1>20, <1>16a
  DEF SessionNext, ControllerStep

(* The invariant of the IMS, its controller and the UE. *)
THEOREM SessionInvariance == SessionSpec => []Inv
  BY InvInit, InvStep, PTL DEF SessionSpec

(* The state of sip_instance.c, of the controller and of the UE keeps its  *)
(* types: the send queue and both directions of the connection stay within *)
(* their bounds, and the controller within its testcases.                  *)
THEOREM SessionTyped == SessionSpec => []SessionTypeOK
<1>1. Inv => SessionTypeOK
  BY DEF Inv
<1> QED
  BY <1>1, SessionInvariance, PTL

-----------------------------------------------------------------------------
(* Refinement *)

(* The IMS starts as the abstract peer does. *)
LEMMA InitRefines == SessionInit => Peer!Init
  BY DEF SessionInit, SipInit, InitInstance, Peer!Init

(* A process's step is a report made, or nothing. *)
LEMMA WorkRefines ==
    ASSUME InstanceOK, InstanceOK', OneReport, UNCHANGED <<toIms, fromIms>>
    PROVE  Peer!Make \/ UNCHANGED Peer!peer
<1>1. CASE inst'.sendq = inst.sendq
  BY <1>1 DEF Peer!peer
<1>2. CASE \E r \in Report : inst'.sendq = Append(inst.sendq, r)
  <2>1. PICK r \in Report : inst'.sendq = Append(inst.sendq, r)
    BY <1>2
  <2>2. inst.sendq \in Seq(Report) /\ Len(inst'.sendq) <= MaxQueueLen
    BY DEF InstanceOK, Instance
  <2>3. /\ Append(inst.sendq, r) \in Seq(Report)
        /\ Len(Append(inst.sendq, r)) = Len(inst.sendq) + 1 /\ Len(inst.sendq) \in Nat
        /\ \A k \in 1..Len(inst.sendq) : Append(inst.sendq, r)[k] = inst.sendq[k]
    BY <2>2, Appended
  <2>4. Len(inst'.sendq) \in Len(inst.sendq) + 1 .. Len(inst.sendq) + 2
    BY <2>1, <2>3
  <2>5. /\ inst'.sendq \in Seq(Report)
        /\ \A k \in 1..Len(inst.sendq) : inst'.sendq[k] = inst.sendq[k]
    BY <2>1, <2>3
  <2> QED
    BY <2>2, <2>4, <2>5 DEF Peer!Make
<1> QED
  BY <1>1, <1>2 DEF OneReport

(* A step of the listener answers a Hello or an init at its last step,     *)
(* takes a query or, at its last step, a fin, or changes nothing the       *)
(* controller sees.                                                        *)
LEMMA ListenerRefines ==
    ASSUME ConnectionOK, InstanceOK, ListenerOK, Listener
    PROVE  Peer!Answer \/ Peer!Absorb \/ UNCHANGED Peer!peer
<1>1. inst'.sendq = inst.sendq
  BY ListenerKeeps
<1>2. CASE Hello
  BY <1>1, <1>2 DEF Hello, Reads, WriteFromIms, ImsKind, Peer!Answer, Peer!Consume
<1>3. CASE SetQuery
  BY <1>1, <1>3 DEF SetQuery, Reads, ImsKind, Peer!Absorb, Peer!Consume
<1>4. CASE ResetQuery \/ ResetFlag \/ FinMark \/ FinQuery
  BY <1>1, <1>4 DEF ResetQuery, ResetFlag, FinMark, FinQuery, Peer!peer
<1>5. CASE ResetPrev
  <2>1. toIms # << >> /\ Head(toIms).kind = "init"
    BY <1>5, HeadLine DEF ResetPrev, ListenerOK, LineInWork
  <2> QED
    BY <1>1, <1>5, <2>1 DEF ResetPrev, WriteFromIms, ImsKind, Peer!Answer, Peer!Consume
<1>6. CASE FinPrev
  <2>1. toIms # << >> /\ Head(toIms).kind = "fin"
    BY <1>6, HeadLine DEF FinPrev, ListenerOK, LineInWork
  <2> QED
    BY <1>1, <1>6, <2>1 DEF FinPrev, ImsKind, Peer!Absorb, Peer!Consume
<1> QED
  BY <1>2, <1>3, <1>4, <1>5, <1>6 DEF Listener

(* Every step of the IMS, its controller and the UE is one step of the     *)
(* control peer, the new reader, or none.                                  *)
LEMMA StepRefines ==
    Inv /\ Inv' /\ [SessionNext]_all => [Peer!Next \/ Renew]_(Peer!peer)
<1> SUFFICES ASSUME Inv, Inv', [SessionNext]_all
             PROVE  Peer!Next \/ Renew \/ UNCHANGED Peer!peer
  OBVIOUS
<1>1. ConnectionOK /\ InstanceOK /\ ListenerOK /\ WorkersOK /\ MessagesOK /\ ControlOK /\ PhoneOK
  BY Parts
<1>2. InstanceOK'
  BY DEF Inv, SessionTypeOK, SipTypeOK, InstanceOK
<1>3. CASE UNCHANGED all \/ Stopped
  <2>1. UNCHANGED <<toIms, fromIms, inst>>
    BY <1>3 DEF all, Stopped, vars
  <2> QED
    BY <2>1 DEF Peer!peer
<1>4. CASE SendInit \/ SendHello \/ SendQuery \/ Fin
  <2>1. (\E l \in Line : WriteToIms(l)) /\ UNCHANGED <<fromIms, inst>>
    BY <1>1, <1>4, SendKeeps DEF ims
  <2>2. Peer!Write
    BY <2>1 DEF WriteToIms, Peer!Write
  <2> QED
    BY <2>2 DEF Peer!Next
<1>5. CASE InitAck \/ AliveAck \/ SkipAck \/ ReadStart \/ ReadEnd
  <2>1. fromIms # << >> /\ fromIms' = Tail(fromIms) /\ UNCHANGED <<toIms, inst>>
    BY <1>1, <1>5, ReadKeeps DEF ims
  <2>2. Peer!Read
    BY <2>1 DEF Peer!Read
  <2> QED
    BY <2>2 DEF Peer!Next
<1>6. CASE Attach \/ NoAttach \/ ReadTimeout \/ ResultTimeout \/ PostOff \/ NextTestcase
  <2>1. UNCHANGED <<toIms, fromIms, inst>>
    BY <1>1, <1>6, StepKeeps DEF ims
  <2> QED
    BY <2>1 DEF Peer!peer
<1>7. CASE ListenerStep
  BY <1>1, <1>7, ListenerRefines DEF ListenerStep, Peer!Next
<1>8. CASE SenderStep
  <2>1. /\ inst.sendq # << >> /\ inst'.sendq = Tail(inst.sendq)
        /\ fromIms' = Append(fromIms, Head(inst.sendq)) /\ toIms' = toIms
    BY <1>1, <1>8, SenderKeeps DEF SenderStep
  <2>2. Peer!Emit
    BY <2>1 DEF Peer!Emit
  <2> QED
    BY <2>2 DEF Peer!Next
<1>8a. CASE LoseSender
  <2>1. UNCHANGED <<toIms, fromIms, inst>>
    BY <1>8a DEF LoseSender, SenderFallsAsleep
  <2> QED
    BY <2>1 DEF Peer!peer
<1>9. CASE UeStep \/ Arrive \/ Conclude
  <2>1. UNCHANGED <<toIms, fromIms, inst>>
    BY <1>1, <1>9, UeKeeps, ArriveKeeps, ConcludeKeeps DEF vars
  <2> QED
    BY <2>1 DEF Peer!peer
<1>10. CASE \E w \in Workers : WorkerStep(w)
  <2>1. OneReport /\ UNCHANGED channel
    BY <1>1, <1>10, WorkKeeps DEF WorkerStep
  <2>2. UNCHANGED <<toIms, fromIms>>
    BY <2>1 DEF channel
  <2> QED
    BY <1>1, <1>2, <2>1, <2>2, WorkRefines DEF Peer!Next
<1> QED
  BY <1>3, <1>4, <1>5, <1>6, <1>7, <1>8, <1>9, <1>10, <1>8a DEF SessionNext, ControllerStep

(* The instrumented IMS implements the control peer: one ACK for each      *)
(* Hello and init, in order, and the reports in the order the processes    *)
(* put them into the send queue.                                           *)
THEOREM ImsRefinement == SessionSpec => ImplementsPeer
  BY SessionInvariance, InitRefines, StepRefines, PTL DEF SessionSpec, ImplementsPeer

-----------------------------------------------------------------------------
(* The IMS between two sessions *)

Quiet(w) == worker[w].pc \in {"idle", "asleep"}

Calm == \A w \in Workers : Quiet(w)

(* No message can reach a process. *)
Still == (net = {} /\ pending = {}) \/ Free = {}

Rests == Calm /\ Still /\ ue.pc = "off" /\ SenderQuiet

OnlyAcks == \A i \in 1..Len(fromIms) : fromIms[i] = Ack

NoAcks == \A i \in 1..Len(fromIms) : fromIms[i] # Ack

(* What a testcase has left unread stands before the ACKs. *)
AcksLast ==
    \E a \in 0..Len(fromIms) : \A i \in 1..Len(fromIms) : fromIms[i] = Ack <=> i > a

(* The instance as init leaves it *)
Reopened == ~inst.finished /\ inst.query = NoQuery /\ inst.sprev = FirstSprev

(* Init has been done, or is on its way. *)
Reset ==
    /\ \A i \in 1..Len(toIms) : toIms[i].kind \in {"init", "Hello"}
    /\ Reopened \/ \E i \in 1..Len(toIms) : toIms[i].kind = "init"
    /\ lpc \in {"read", "init_flag", "init_prev"}
    /\ lpc # "read" => inst.query = NoQuery
    /\ lpc = "init_prev" => ~inst.finished

Unused == Rests /\ Reset /\ log = << >>

(* From the init of pre to the attachment *)
Opening ==
    /\ \/ ctl.pc = "pre_ack" /\ AcksLast
       \/ ctl.pc \in {"alive", "alive_ack"} /\ ctl.back = "renew" /\ AcksLast
       \/ ctl.pc \in {"renew", "enable", "enable_ack", "attach"} /\ OnlyAcks
    /\ ctl.msg = 0 /\ Unused

(* The UE did not attach. *)
Skipped == ctl.pc = "post" /\ Unused /\ OnlyAcks

(* fin is on its way, in work or done; what it has released may go on. *)
Finishing ==
    \/ /\ toIms = <<Control("fin")>> /\ lpc = "read" /\ SenderQuiet
       /\ Still /\ \A w \in Workers : Quiet(w) \/ Waiting(w)
    \/ /\ toIms = <<Control("fin")>> /\ lpc \in {"fin_query", "fin_prev"} /\ inst.finished
       /\ lpc = "fin_prev" => inst.query = NoQuery
    \/ /\ toIms = << >> /\ lpc = "read" /\ inst.query = NoQuery
       /\ inst.finished \/ Rests

(* From fin to the next init *)
Closed ==
    /\ ctl.pc \in {"next", "pre", "done"} /\ ue.pc = "off"
    /\ ctl.pc = "pre" => log = << >> /\ ctl.msg = 0
    /\ NoAcks \/ (Rests /\ OnlyAcks)
    /\ Finishing

-----------------------------------------------------------------------------
(* The session: where the one message under way is when p lines of reports *)
(* have been made.  Exchange e is the REGISTER number ue.first + e and its *)
(* response: it makes the lines 4e + 1 to 4e + 4.                          *)

Reg(n) == [name |-> "register", n |-> n]

Nowhere == net = {} /\ pending = {} /\ Calm

OnNet(m) == net = {m} /\ pending = {} /\ Calm

Due(m) == net = {} /\ pending = {m} /\ Calm

At(w) == net = {} /\ pending = {} /\ ~Quiet(w) /\ \A v \in Workers \ {w} : Quiet(v)

(* Every process has been lost in an earlier session. *)
Dead == \A w \in Workers : worker[w].pc = "asleep"

Unanswered == ue.pc \in {"waiting", "off"} /\ \A r \in wire : r.n < ue.n

AnsweredBy(names) ==
    ue.pc \in {"waiting", "off", "stopped"} /\ \A r \in wire : r.n = ue.n => r.name \in names

(* The number of the exchange *)
Exchange == ue.n - ue.first

Good(e) == IF e = 0 THEN "unauthorized" ELSE "ok"

LabelOf(e) == IF e = 0 THEN "401_unauthorized" ELSE "200_ok"

Before(e) == IF e = 0 THEN FirstSprev ELSE "401_unauthorized"

(* The request is not reported yet: of the first two exchanges, or of one  *)
(* more when the answer to the second was not the one asked for.           *)
Sending(p, e, q) ==
    \/ e \in {0, 1} /\ p = 4 * e
    \/ e > 1 /\ p = 6 /\ q.name = "200_ok"

(* The response is not reported yet. *)
Answering(e, j, q, s) ==
    /\ e = 0 => j.msg.name # "ok"
    /\ \/ j.pc \in {"next", "poll", "sleep"} /\ j.rep = 0 /\ s = Before(e)
       \/ /\ q.name = LabelOf(e)
          /\ \/ j.pc = "match" /\ j.q = q /\ s = Before(e)
             \/ j.pc = "sprev" /\ j.msg.name = Good(e) /\ j.symbol = LabelOf(e) /\ j.rep = q.id
             \/ j.pc = "start" /\ j.msg.name = Good(e) /\ s = LabelOf(e) /\ j.rep = q.id
             \/ j.pc = "edit" /\ j.msg.name # Good(e) /\ j.rep = 0

Spot(p, e, j, q, s) ==
    \/ /\ j.msg.name = "register"
       /\ \/ Sending(p, e, q) /\ j.pc \in {"label", "rprev", "start"}
          \/ Sending(p - 1, e, q) /\ j.pc = "end"
    \/ /\ e \in {0, 1}
       /\ \/ p = 4 * e + 2 /\ Answering(e, j, q, s)
          \/ p = 4 * e + 3 /\ j.pc = "end" /\ j.msg.name = Good(e) /\ j.rep = q.id
    \/ p = 4 /\ e = 0 /\ j.pc = "edit" /\ j.msg.name = "unauthorized" /\ j.rep = q.id

(* The UE may move, or its message is lost with the process that had it. *)
Idling(p, e, q) ==
    \/ p = 0 /\ e = -1 /\ ue.pc \in {"ready", "off", "stopped"}
    \/ Unanswered
    \/ p = 2 /\ AnsweredBy({"forbidden"})
    \/ p = 4 /\ e = 0 /\ AnsweredBy({"unauthorized"})
    \/ p = 6 /\ e >= 1 /\ q.name = "200_ok" /\ AnsweredBy({"unauthorized", "forbidden"})

(* One message is under way. *)
Single(p) ==
    /\ ue.pc # "registered" /\ \A r \in wire : r.n >= ue.first => r.name # "ok"
    /\ \/ p = 0 /\ Dead
       \/ Nowhere /\ Idling(p, Exchange, inst.query)
       \/ Unanswered /\ OnNet(Reg(ue.n)) /\ Sending(p, Exchange, inst.query)
       \/ /\ Unanswered /\ Due(Reg(ue.n)) /\ Exchange \in {0, 1} /\ p = 4 * Exchange + 2
          /\ inst.sprev = Before(Exchange)
       \/ /\ Unanswered
          /\ \E w \in Workers :
               /\ At(w) /\ worker[w].msg.n = ue.n
               /\ Spot(p, Exchange, worker[w], inst.query, inst.sprev)

(* The UE is registered and sends as it likes: no 401 is reported.  *)
Loose(j) ==
    /\ j.pc = "match" => j.q.name = "200_ok"
    /\ j.pc \notin {"idle", "asleep"} /\ j.msg.name = "unauthorized" =>
          j.rep = 0 /\ j.pc \notin {"sprev", "start", "end"}

(* The queries the instance has been given, and the labels *)
Fit(p, q, s) ==
    /\ p \in 0..8
    /\ q = NoQuery => p <= 2
    /\ q.name = "401_unauthorized" => p \in 2..6
    /\ q.name = "200_ok" => p >= 6
    /\ p <= 1 => s = FirstSprev
    /\ p \in 3..5 => s = "401_unauthorized"

Stage(p) ==
    /\ Fit(p, inst.query, inst.sprev)
    /\ IF p < 8 THEN Single(p) ELSE \A w \in Workers : Loose(worker[w])

-----------------------------------------------------------------------------
(* The lines of the reports *)

(* Line number i is the begin of a block, or its end. *)
Fits(l, i) ==
    i \in 1..8 => l.n \in ue.first..ue.n /\ l.type = IF i \in {1, 3, 5, 7} THEN "start" ELSE "end"

(* The reports that wait in the send queue, after the first k: all of the  *)
(* rest of the p lines, or no more than they when the sender is lost.      *)
Queued(k, p) ==
    IF spc = "asleep" THEN p < 8 => k <= p
    ELSE /\ \A i \in 1..Len(inst.sendq) : Fits(inst.sendq[i], k + i)
         /\ IF p < 8 THEN k + Len(inst.sendq) = p ELSE k + Len(inst.sendq) >= 8

(* a ACKs and c lines are read; the rest of the p lines is under way. *)
Tape(a, c, p) ==
    /\ a \in 0..Len(fromIms)
    /\ \A i \in 1..a : fromIms[i] = Ack
    /\ \A i \in a + 1..Len(fromIms) : fromIms[i] # Ack /\ Fits(fromIms[i], c + i - a)
    /\ Queued(c + Len(fromIms) - a, p)

(* No line will come before the controller writes one. *)
Stuck ==
    \/ spc = "asleep"
    \/ /\ inst.sendq = << >> /\ Still /\ \A w \in Workers : Quiet(w) \/ Waiting(w)
       /\ ~MaySend /\ ~Answered("ok") /\ ue.pc # "registered"

(* How many queries the instance has been given in the session *)
Taken == IF inst.query = NoQuery THEN 0 ELSE IF inst.query.name = "401_unauthorized" THEN 1 ELSE 2

(* The lines before the half of a pair *)
Base(pc, msg) == IF pc = "reply" THEN 4 * msg ELSE 4 * msg - 2

(* The query of the step is on its way. *)
Underway(msg) ==
    \E q \in Query :
        /\ toIms = <<[kind |-> "query", query |-> q]>>
        /\ q.name = IF msg = 1 THEN "401_unauthorized" ELSE "200_ok"

ReadsOn(p) ==
    /\ ctl.pc \in {"query", "reply"} /\ ctl.name # "timeout"
    /\ \E a \in Nat : Tape(a, Base(ctl.pc, ctl.msg) + ctl.depth, p)
    /\ \/ toIms = << >> /\ Taken = ctl.msg
       \/ /\ ctl.pc = "query" /\ Taken = ctl.msg - 1 /\ p = Base("query", ctl.msg)
          /\ Underway(ctl.msg)

(* A read has timed out, and nothing is under way but isIMSAlive. *)
TimesOut ==
    /\ Stuck /\ Taken = ctl.msg
    /\ \/ /\ toIms = << >> /\ fromIms = << >>
          /\ \/ ctl.pc = "alive" /\ ctl.back \in {"query", "reply"} /\ ctl.name = "timeout"
             \/ ctl.pc \in {"query", "reply"} /\ ctl.name = "timeout"
             \/ ctl.pc = "reply" /\ ctl.msg = 1 /\ ctl.depth = 0
       \/ /\ ctl.pc = "alive_ack" /\ ctl.back \in {"query", "reply"} /\ ctl.name = "timeout"
          /\ \/ toIms = <<Control("Hello")>> /\ fromIms = << >>
             \/ toIms = << >> /\ fromIms = <<Ack>>

(* What the controller is at when p lines have been made *)
Desk(p) ==
    \/ ctl.pc = "post" /\ toIms = << >> /\ NoAcks
    \/ /\ ctl.pc = "step" /\ p = Base("query", ctl.msg) /\ Taken = ctl.msg - 1
       /\ toIms = << >> /\ fromIms = << >> /\ SenderQuiet
    \/ ReadsOn(p)
    \/ TimesOut

(* Which half of which pair is read *)
Half ==
    /\ ctl.pc = "query" \/ (ctl.pc \in {"alive", "alive_ack"} /\ ctl.back = "query")
          => ctl.msg \in {1, 2}
    /\ ctl.pc = "reply" \/ (ctl.pc \in {"alive", "alive_ack"} /\ ctl.back = "reply")
          => ctl.msg \in {0, 1}

Session ==
    /\ ~inst.finished /\ lpc = "read" /\ Half
    /\ \E p \in 0..8 : Stage(p) /\ Desk(p)

-----------------------------------------------------------------------------
(* The invariant of the registration *)

(* No message is ahead of the UE. *)
Numbered ==
    /\ ue.n >= ue.first - 1
    /\ ue.pc \in {"waiting", "registered"} => ue.n >= ue.first
    /\ \A m \in net \cup pending \cup wire : m.n <= ue.n
    /\ \A w \in Workers : ~Quiet(w) => worker[w].msg.n <= ue.n

(* What the controller has logged *)
Logged ==
    /\ ctl.depth <= 1 /\ ctl.name # "null_action" /\ ctl.qname # "null_action"
    /\ ctl.about \subseteq ue.first..ue.n
    /\ \A i \in 1..Len(log) :
          "null_action" \notin {log[i].q, log[i].r} /\ log[i].about \subseteq ue.first..ue.n

(* The query in force, and one on its way, have not been freed. *)
Kept ==
    /\ freed \subseteq 1..ctl.sent
    /\ inst.query.id <= ctl.sent /\ inst.query.id \notin freed
    /\ \A i \in 1..Len(toIms) :
          toIms[i].kind = "query" => toIms[i].query.id <= ctl.sent /\ toIms[i].query.id \notin freed

Phases == Opening \/ Skipped \/ Closed \/ Session

RegInv == Numbered /\ Logged /\ Kept /\ Phases /\ ModifiedAsReported /\ AbortOnlyLate

-----------------------------------------------------------------------------
(* One message under way *)

(* A process that is at work has the message. *)
LEMMA HasIt ==
    ASSUME NEW p, Single(p), NEW w \in Workers, ~Quiet(w)
    PROVE  /\ Unanswered /\ At(w) /\ worker[w].msg.n = ue.n
           /\ Spot(p, Exchange, worker[w], inst.query, inst.sprev)
<1>1. ~Calm /\ ~Dead
  BY DEF Calm, Dead, Quiet
<1>2. /\ Unanswered
      /\ \E v \in Workers :
           /\ At(v) /\ worker[v].msg.n = ue.n
           /\ Spot(p, Exchange, worker[v], inst.query, inst.sprev)
  BY <1>1 DEF Single, Nowhere, OnNet, Due
<1>3. PICK v \in Workers : /\ At(v) /\ worker[v].msg.n = ue.n
                           /\ Spot(p, Exchange, worker[v], inst.query, inst.sprev)
  BY <1>2
<1>4. v = w
  BY <1>3 DEF At
<1> QED
  BY <1>2, <1>3, <1>4

(* A process goes on, the others stay. *)
LEMMA OneMoves ==
    ASSUME WorkersOK, NEW w \in Workers, NEW j, worker' = [worker EXCEPT ![w] = j]
    PROVE  worker'[w] = j /\ \A v \in Workers \ {w} : worker'[v] = worker[v]
  BY DEF WorkersOK

(* The process that has the message goes on with it. *)
LEMMA Carries ==
    ASSUME WorkersOK, NEW p, NEW p2, Single(p), NEW w \in Workers, ~Quiet(w),
           NEW j, worker' = [worker EXCEPT ![w] = j], j.pc \notin {"idle", "asleep"},
           j.msg = worker[w].msg, UNCHANGED <<net, pending, wire, ue>>,
           Spot(p2, Exchange, j, inst'.query, inst'.sprev)
    PROVE  Single(p2)'
<1>1. Unanswered /\ At(w) /\ worker[w].msg.n = ue.n
  BY HasIt
<1>2. worker'[w] = j /\ \A v \in Workers \ {w} : worker'[v] = worker[v]
  BY OneMoves
<1>3. At(w)'
  BY <1>1, <1>2 DEF At, Quiet
<1>4. Unanswered' /\ Exchange' = Exchange
  BY <1>1 DEF Unanswered, Exchange
<1>5. Spot(p2, Exchange, worker[w], inst.query, inst.sprev)'
  BY <1>2, <1>4 DEF Spot, Sending, Answering
<1>6. worker'[w].msg.n = ue'.n
  BY <1>1, <1>2
<1>7. ue'.pc # "registered" /\ \A r \in wire' : r.n >= ue'.first => r.name # "ok"
  BY DEF Single
<1> QED
  BY <1>3, <1>4, <1>5, <1>6, <1>7 DEF Single

(* It is lost with the message. *)
LEMMA Drops ==
    ASSUME WorkersOK, NEW p, Single(p), NEW w \in Workers, ~Quiet(w),
           NEW j, worker' = [worker EXCEPT ![w] = j], j.pc \in {"idle", "asleep"}
    PROVE  Calm' /\ (UNCHANGED <<net, pending, wire, ue>> => Single(p)')
<1>1. Unanswered /\ At(w)
  BY HasIt
<1>2. worker'[w] = j /\ \A v \in Workers \ {w} : worker'[v] = worker[v]
  BY OneMoves
<1>3. Calm'
  BY <1>1, <1>2 DEF At, Calm, Quiet
<1>4. ASSUME UNCHANGED <<net, pending, wire, ue>> PROVE Single(p)'
  <2>1. Unanswered' /\ Nowhere'
    BY <1>1, <1>3, <1>4 DEF Unanswered, Nowhere, At
  <2>2. ue'.pc # "registered" /\ \A r \in wire' : r.n >= ue'.first => r.name # "ok"
    BY <1>4 DEF Single
  <2> QED
    BY <2>1, <2>2 DEF Single, Idling
<1> QED
  BY <1>3, <1>4

-----------------------------------------------------------------------------
(* The steps of the message *)

(* The request gets its label. *)
LEMMA SpotRequest ==
    ASSUME NEW p \in 0..7, NEW e \in Int, NEW i, NEW j, NEW q, NEW s,
           Spot(p, e, i, q, s), i.pc \in {"label", "rprev"}, j.pc \in {"rprev", "start"},
           j.msg = i.msg
    PROVE  Spot(p, e, j, q, s)
  BY DEF Spot, Answering

(* The first line of a report *)
LEMMA SpotStart ==
    ASSUME NEW p \in 0..7, NEW e \in Int, NEW i, NEW j, NEW q, NEW s,
           Spot(p, e, i, q, s), i.pc = "start", j.pc = "end", j.msg = i.msg, j.rep = i.rep
    PROVE  /\ Spot(p + 1, e, j, q, s) /\ p \in {0, 2, 4, 6}
           /\ Fit(p, q, s) => Fit(p + 1, q, s)
<1>1. CASE j.msg.name = "register" /\ Sending(p, e, q)
  <2>1. Spot(p + 1, e, j, q, s)
    BY <1>1 DEF Spot
  <2> QED
    BY <1>1, <2>1 DEF Sending, Fit, NoQuery, NULL
<1>2. CASE e \in {0, 1} /\ p = 4 * e + 2 /\ Answering(e, i, q, s)
  <2>1. j.msg.name = Good(e) /\ s = LabelOf(e) /\ j.rep = q.id /\ q.name = LabelOf(e)
    BY <1>2 DEF Answering
  <2>2. Spot(p + 1, e, j, q, s)
    BY <1>2, <2>1 DEF Spot
  <2> QED
    BY <1>2, <2>1, <2>2 DEF Fit, LabelOf, NoQuery, NULL
<1> QED
  BY <1>1, <1>2 DEF Spot

(* The response asks for a query. *)
LEMMA SpotWaits ==
    ASSUME NEW p \in 0..7, NEW e \in Int, NEW i, NEW j, NEW q, NEW s,
           Spot(p, e, i, q, s), i.pc \in {"next", "poll", "sleep"},
           j.pc \in {"next", "poll", "sleep"}, j.msg = i.msg, j.rep = i.rep
    PROVE  Spot(p, e, j, q, s)
  BY DEF Spot, Answering

(* The last line of the report of a request *)
LEMMA SpotRequestEnd ==
    ASSUME NEW p \in 0..7, NEW e \in Int, NEW i, NEW q \in Query \cup {NoQuery}, NEW s,
           Spot(p, e, i, q, s), i.pc = "end", i.msg \in Request, Fit(p, q, s)
    PROVE  /\ i.msg.name = "register" /\ Fit(p + 1, q, s)
           /\ \/ p = 1 /\ e = 0 /\ s = Before(e)
              \/ p = 5 /\ e = 1 /\ s = Before(e)
              \/ p = 7
<1>1. i.msg.name \in RequestNames
  BY DEF Request
<1>2. i.msg.name # "ok" /\ i.msg.name # "unauthorized"
  BY <1>1 DEF RequestNames
<1>3. i.msg.name = "register" /\ Sending(p - 1, e, q)
  BY <1>2 DEF Spot, Answering, Good
<1>4. p \in {1, 5, 7} /\ (p # 7 => e \in {0, 1} /\ p + 1 = 4 * e + 2) /\ (p = 7 => q.name = "200_ok")
  BY <1>3 DEF Sending
<1>5. s = Before(e) \/ p = 7
  BY <1>4 DEF Fit, Before
<1>6. Fit(p + 1, q, s)
  BY <1>4 DEF Fit, NoQuery, NULL
<1>7. (p = 1 => e = 0) /\ (p = 5 => e = 1)
  BY <1>4
<1> QED
  BY <1>3, <1>4, <1>5, <1>6, <1>7

(* The last line of the report of a response *)
LEMMA SpotResponseEnd ==
    ASSUME NEW p \in 0..7, NEW e \in Int, NEW i, NEW j, NEW q \in Query \cup {NoQuery}, NEW s,
           Spot(p, e, i, q, s), i.pc = "end", i.msg \in Response, Fit(p, q, s),
           j.pc = "edit", j.msg = i.msg, j.rep = i.rep
    PROVE  /\ p \in {3, 7} /\ Fit(p + 1, q, s)
           /\ p = 3 => Spot(p + 1, e, j, q, s)
           /\ p = 7 => i.msg.name = "ok"
<1>1. i.msg.name # "register"
  BY Apart DEF ResponseNames
<1>2. e \in {0, 1} /\ p = 4 * e + 3 /\ i.msg.name = Good(e) /\ i.rep = q.id
  BY <1>1 DEF Spot, Answering
<1>3. p \in {3, 7} /\ (p = 3 => e = 0) /\ (p = 7 => e = 1)
  BY <1>2
<1>4. p = 3 => Spot(p + 1, e, j, q, s)
  BY <1>2, <1>3 DEF Spot, Good
<1>5. p = 7 => i.msg.name = "ok"
  BY <1>2, <1>3 DEF Good
<1>6. p = 7 => q.name = "200_ok" /\ q # NoQuery
  BY DEF Fit, Query, QueryNames, NoQuery, NULL
<1>7. p = 3 => q.name = "401_unauthorized" /\ q # NoQuery
  BY DEF Fit, Query, QueryNames, NoQuery, NULL
<1>8. p = 3 => s = "401_unauthorized"
  BY DEF Fit
<1>9. Fit(p + 1, q, s)
  BY <1>3, <1>6, <1>7, <1>8 DEF Fit
<1> QED
  BY <1>3, <1>4, <1>5, <1>9

(* get_next_query finds a query. *)
LEMMA SpotPoll ==
    ASSUME NEW p \in 0..7, NEW e \in Int, NEW i, NEW j, NEW q \in Query \cup {NoQuery}, NEW s,
           Spot(p, e, i, q, s), i.pc = "poll", Fit(p, q, s), i.msg \in Response,
           q # NoQuery, q.name # s, j.pc = "match", j.q = q, j.msg = i.msg
    PROVE  Spot(p, e, j, q, s)
<1>1. i.msg.name # "register"
  BY Apart DEF ResponseNames
<1>2. e \in {0, 1} /\ p = 4 * e + 2 /\ (e = 0 => i.msg.name # "ok") /\ s = Before(e)
  BY <1>1 DEF Spot, Answering
<1>3. q.name \in {"401_unauthorized", "200_ok"}
  BY DEF Query, QueryNames
<1>4. q.name = LabelOf(e)
  BY <1>2, <1>3 DEF Fit, LabelOf, Before
<1> QED
  BY <1>2, <1>4 DEF Spot, Answering

(* The response is labelled, or goes out without a report. *)
LEMMA SpotMatch ==
    ASSUME NEW p \in 0..7, NEW e \in Int, NEW i, NEW j, NEW q \in Query \cup {NoQuery}, NEW s,
           Spot(p, e, i, q, s), i.pc = "match", i.msg \in Response,
           j.symbol = ResponseLabel(q.name, i.msg.name, s), j.msg = i.msg,
           j.rep = IF j.symbol = NULL THEN 0 ELSE q.id,
           j.pc = IF j.symbol = NULL THEN "edit" ELSE "sprev"
    PROVE  Spot(p, e, j, q, s) /\ i.q = q
<1>1. i.msg.name # "register"
  BY Apart DEF ResponseNames
<1>2. /\ e \in {0, 1} /\ p = 4 * e + 2 /\ (e = 0 => i.msg.name # "ok") /\ s = Before(e)
      /\ q.name = LabelOf(e) /\ i.q = q
  BY <1>1 DEF Spot, Answering
<1>3. j.symbol = IF i.msg.name = Good(e) THEN LabelOf(e) ELSE NULL
  BY <1>2 DEF ResponseLabel, LabelOf, Good, Before, FirstSprev, NULL
<1>4. LabelOf(e) # NULL
  BY DEF LabelOf, NULL
<1> QED
  BY <1>2, <1>3, <1>4 DEF Spot, Answering

(* Its label is the last one. *)
LEMMA SpotSprev ==
    ASSUME NEW p \in 0..7, NEW e \in Int, NEW i, NEW j, NEW q \in Query \cup {NoQuery}, NEW s,
           Spot(p, e, i, q, s), i.pc = "sprev", i.msg \in Response,
           j.msg = i.msg, j.rep = i.rep, j.pc = "start", Fit(p, q, s)
    PROVE  Spot(p, e, j, q, i.symbol) /\ Fit(p, q, i.symbol)
<1>1. i.msg.name # "register"
  BY Apart DEF ResponseNames
<1>2. /\ e \in {0, 1} /\ p = 4 * e + 2 /\ (e = 0 => i.msg.name # "ok")
      /\ q.name = LabelOf(e) /\ i.msg.name = Good(e) /\ i.symbol = LabelOf(e) /\ i.rep = q.id
  BY <1>1 DEF Spot, Answering
<1>3. Spot(p, e, j, q, i.symbol)
  BY <1>2 DEF Spot, Answering
<1>4. p \in {2, 6}
  BY <1>2
<1> QED
  BY <1>3, <1>4 DEF Fit

(* The response goes out. *)
LEMMA SpotEdit ==
    ASSUME NEW p \in 0..7, NEW e \in Int, NEW i, NEW q \in Query \cup {NoQuery}, NEW s,
           Spot(p, e, i, q, s), i.pc = "edit", i.msg \in Response
    PROVE  /\ i.msg.name # "ok"
           /\ \/ p = 2 /\ i.msg.name = "forbidden"
              \/ p = 4 /\ e = 0 /\ i.msg.name = "unauthorized" /\ i.rep = q.id
              \/ p = 6 /\ e >= 1 /\ q.name = "200_ok" /\ i.rep = 0
<1>1. i.msg.name # "register" /\ i.msg.name \in {"unauthorized", "ok", "forbidden"}
  BY Apart DEF ResponseNames
<1>2. CASE p = 4 /\ e = 0 /\ i.msg.name = "unauthorized" /\ i.rep = q.id
  BY <1>2
<1>3. CASE e \in {0, 1} /\ p = 4 * e + 2 /\ Answering(e, i, q, s)
  <2>1. q.name = LabelOf(e) /\ i.msg.name # Good(e) /\ i.rep = 0 /\ (e = 0 => i.msg.name # "ok")
    BY <1>3 DEF Answering
  <2> QED
    BY <1>1, <1>3, <2>1 DEF LabelOf, Good
<1> QED
  BY <1>1, <1>2, <1>3 DEF Spot

(* What the fields a process sets leave alone. *)
LEMMA OtherFields ==
    ASSUME NEW i \in Instance, NEW x
    PROVE  /\ [i EXCEPT !.rprev = x].query = i.query /\ [i EXCEPT !.rprev = x].finished = i.finished
           /\ [i EXCEPT !.rprev = x].sprev = i.sprev /\ [i EXCEPT !.rprev = x].sendq = i.sendq
           /\ [i EXCEPT !.sprev = x].query = i.query /\ [i EXCEPT !.sprev = x].finished = i.finished
           /\ [i EXCEPT !.sprev = x].sprev = x /\ [i EXCEPT !.sprev = x].sendq = i.sendq
           /\ [i EXCEPT !.sendq = x].query = i.query /\ [i EXCEPT !.sendq = x].finished = i.finished
           /\ [i EXCEPT !.sendq = x].sprev = i.sprev /\ [i EXCEPT !.sendq = x].sendq = x
  BY DEF Instance

(* Line number i of the session is put into the send queue. *)
LineMade(i) ==
    \E symbol \in RequestLabels \cup QueryNames \cup {NULL} :
        Enqueue(IF i \in {1, 3, 5, 7} THEN "start" ELSE "end", symbol, ue.n)

(* What a report leaves alone *)
LEMMA EnqueueLeaves ==
    ASSUME InstanceOK, NEW type, NEW symbol, NEW n, Enqueue(type, symbol, n)
    PROVE  inst'.query = inst.query /\ inst'.finished = inst.finished /\ inst'.sprev = inst.sprev
<1>1. inst \in Instance
  BY DEF InstanceOK
<1> DEFINE x == Append(inst.sendq, [type |-> type, symbol |-> symbol, n |-> n])
<1>2. inst' = inst \/ inst' = [inst EXCEPT !.sendq = x]
  BY DEF Enqueue
<1> HIDE DEF x
<1>3. CASE inst' = [inst EXCEPT !.sendq = x]
  BY <1>1, <1>3 DEF Instance
<1> QED
  BY <1>2, <1>3

(* A process changes no more of the instance than its labels and queue. *)
LEMMA WorkLeaves ==
    ASSUME InstanceOK, NEW w \in Workers, Work(w)
    PROVE  inst'.query = inst.query /\ inst'.finished = inst.finished
<1>1. inst \in Instance
  BY DEF InstanceOK
<1>2. CASE ReportStart(w) \/ ReportEnd(w)
  <2>1. \E type, symbol, n : Enqueue(type, symbol, n)
    BY <1>2 DEF ReportStart, ReportEnd
  <2> QED
    BY <2>1, EnqueueLeaves
<1>3. CASE SetRprev(w)
  BY <1>1, <1>3, OtherFields DEF SetRprev
<1>4. CASE SetSprev(w)
  BY <1>1, <1>4, OtherFields DEF SetSprev
<1>5. CASE ~(ReportStart(w) \/ ReportEnd(w) \/ SetRprev(w) \/ SetSprev(w))
  BY <1>5 DEF Work, Label, FallAsleep, NextQuery, Poll, Sleep, Match, Abort, EditAndSend
<1> QED
  BY <1>2, <1>3, <1>4, <1>5

(* The response goes out, and the UE may have it. *)
LEMMA Leaves ==
    ASSUME InstanceOK, WorkersOK, MessagesOK, PhoneOK, Numbered, NEW p \in 0..7, Single(p),
           NEW w \in Workers, EditAndSend(w), UNCHANGED <<ue, net>>
    PROVE  Single(p)'
<1>1. worker[w].pc = "edit" /\ ~Quiet(w)
  BY DEF EditAndSend, Quiet
<1>2. worker[w].msg \in Response /\ inst.query \in Query \cup {NoQuery}
  BY <1>1, AtWork DEF InLine, InstanceOK, Instance
<1>3. /\ Unanswered /\ At(w) /\ worker[w].msg.n = ue.n
      /\ Spot(p, Exchange, worker[w], inst.query, inst.sprev)
  BY <1>1, HasIt
<1>4. Exchange \in Int
  BY DEF Exchange, PhoneOK, UeState
<1>5. /\ worker[w].msg.name # "ok"
      /\ \/ p = 2 /\ worker[w].msg.name = "forbidden"
         \/ p = 4 /\ Exchange = 0 /\ worker[w].msg.name = "unauthorized"
         \/ p = 6 /\ Exchange >= 1 /\ inst.query.name = "200_ok"
  BY <1>1, <1>2, <1>3, <1>4, SpotEdit
<1>6. PICK r : /\ r.name = worker[w].msg.name /\ r.n = worker[w].msg.n
               /\ wire' = wire \cup {r} /\ worker' = [worker EXCEPT ![w] = Idle]
               /\ UNCHANGED <<inst, pending>>
  BY DEF EditAndSend
<1>7. Nowhere'
  <2>1. Idle.pc \in {"idle", "asleep"}
    BY DEF Idle
  <2>2. Calm'
    BY <1>1, <1>6, <2>1, Drops
  <2> QED
    BY <1>3, <1>6, <2>2 DEF Nowhere, At
<1>8. ue'.pc # "registered" /\ \A x \in wire' : x.n >= ue'.first => x.name # "ok"
  BY <1>5, <1>6 DEF Single
<1>9. /\ ue'.pc \in {"waiting", "off", "stopped"}
      /\ \A x \in wire' : x.n = ue'.n => x.name = worker[w].msg.name
  <2>1. \A x \in wire : x.n \in Nat /\ ue.n \in Nat
    BY DEF MessagesOK, PhoneOK, Sent, UeState
  <2> QED
    BY <1>3, <1>6, <2>1 DEF Unanswered
<1>10. worker[w].msg.name \in {"unauthorized", "forbidden"}
  BY <1>2, <1>5, Apart DEF ResponseNames
<1>11. Exchange' = Exchange
  BY DEF Exchange
<1>12. Idling(p, Exchange, inst.query)'
  BY <1>5, <1>6, <1>9, <1>10, <1>11 DEF Idling, AnsweredBy
<1> QED
  BY <1>7, <1>8, <1>12 DEF Single

(* What a process's step does to the session: p lines become p2. *)
Makes(p, p2) ==
    /\ Stage(p2)'
    /\ \/ p2 = p /\ inst'.sendq = inst.sendq
       \/ p < 8 /\ p2 = p + 1 /\ LineMade(p2)
       \/ p = 8 /\ p2 = 8

(* A step of the process that has the message. *)
LEMMA WorkSingle ==
    ASSUME InstanceOK, WorkersOK, MessagesOK, PhoneOK, Numbered, inst.query.id \notin freed,
           ~inst.finished, NEW p \in 0..7, Stage(p),
           NEW w \in Workers, Work(w), UNCHANGED <<ue, net>>
    PROVE  \E p2 \in 0..8 : Makes(p, p2)
<1>1. worker[w].pc \notin {"idle", "asleep"} /\ ~Quiet(w)
  BY DEF Work, Label, SetRprev, ReportStart, ReportEnd, FallAsleep, NextQuery, Poll, Sleep, Match,
         SetSprev, Abort, EditAndSend, Quiet
<1>2. Single(p) /\ Fit(p, inst.query, inst.sprev)
  BY DEF Stage
<1>3. /\ Unanswered /\ At(w) /\ worker[w].msg.n = ue.n
      /\ Spot(p, Exchange, worker[w], inst.query, inst.sprev)
  BY <1>1, <1>2, HasIt
<1>4. Exchange \in Int
  BY DEF Exchange, PhoneOK, UeState
<1>5. inst \in Instance /\ inst.query \in Query \cup {NoQuery}
  BY DEF InstanceOK, Instance
<1>6. /\ worker[w] \in Job /\ InLine(worker[w]) /\ worker[w].msg \in Request \cup Response
      /\ worker[w].symbol \in RequestLabels \cup QueryNames \cup {NULL}
  BY <1>1, AtWork
<1> DEFINE e == Exchange
           i == worker[w]
           q == inst.query
           s == inst.sprev
(* The message stays with the process, and no line is made. *)
<1>7. ASSUME NEW j, worker' = [worker EXCEPT ![w] = j], j.pc \notin {"idle", "asleep"}, j.msg = i.msg,
             UNCHANGED <<pending, wire>>, inst'.query = q, inst'.sendq = inst.sendq,
             Spot(p, e, j, q, inst'.sprev), Fit(p, q, inst'.sprev)
      PROVE  \E p2 \in 0..8 : Makes(p, p2)
  <2>1. Spot(p, Exchange, j, inst'.query, inst'.sprev)
    BY <1>7
  <2>2. Single(p)'
    BY <1>1, <1>2, <1>7, <2>1, Carries
  <2>3. Stage(p)'
    BY <1>7, <2>2 DEF Stage
  <2> QED
    BY <1>7, <2>3 DEF Makes
<1>8. CASE Label(w)
  <2> DEFINE l == RequestLabel(i.msg.name, inst.rprev)
             j == [i EXCEPT !.pc = "rprev", !.symbol = l]
  <2>1. worker' = [worker EXCEPT ![w] = j] /\ UNCHANGED <<inst, pending, wire>> /\ i.pc = "label"
    BY <1>8 DEF Label, WorkersOK
  <2> HIDE DEF l
  <2>2. j.pc = "rprev" /\ j.msg = i.msg
    BY <1>6 DEF Job
  <2> HIDE DEF j
  <2>3. Spot(p, e, j, q, s)
    BY <1>3, <1>4, <2>1, <2>2, SpotRequest
  <2> QED
    BY <1>2, <1>7, <2>1, <2>2, <2>3
<1>9. CASE SetRprev(w)
  <2> DEFINE j == [i EXCEPT !.pc = "start"]
  <2>1. /\ worker' = [worker EXCEPT ![w] = j] /\ UNCHANGED <<pending, wire>> /\ i.pc = "rprev"
        /\ inst' = [inst EXCEPT !.rprev = i.symbol]
    BY <1>9 DEF SetRprev, Goto, WorkersOK
  <2>2. j.pc = "start" /\ j.msg = i.msg
    BY <1>6 DEF Job
  <2> HIDE DEF j
  <2>3. Spot(p, e, j, q, s)
    BY <1>3, <1>4, <2>1, <2>2, SpotRequest
  <2>4. inst'.query = q /\ inst'.sprev = s /\ inst'.sendq = inst.sendq
    BY <1>5, <2>1, OtherFields
  <2> QED
    BY <1>2, <1>7, <2>1, <2>2, <2>3, <2>4
<1>10. CASE ReportStart(w)
  <2> DEFINE j == [i EXCEPT !.pc = "end"]
  <2>1. /\ worker' = [worker EXCEPT ![w] = j] /\ UNCHANGED <<pending, wire>> /\ i.pc = "start"
        /\ Enqueue("start", i.symbol, i.msg.n)
    BY <1>10 DEF ReportStart, Goto, WorkersOK
  <2>2. j.pc = "end" /\ j.msg = i.msg /\ j.rep = i.rep
    BY <1>6 DEF Job
  <2> HIDE DEF j
  <2>3. Spot(p + 1, e, j, q, s) /\ p \in {0, 2, 4, 6} /\ Fit(p + 1, q, s)
    BY <1>2, <1>3, <1>4, <2>1, <2>2, SpotStart
  <2>4. inst'.query = q /\ inst'.sprev = s
    BY <2>1, EnqueueLeaves
  <2>5. Spot(p + 1, Exchange, j, inst'.query, inst'.sprev)
    BY <2>3, <2>4
  <2>6. Single(p + 1)'
    BY <1>1, <1>2, <2>1, <2>2, <2>5, Carries
  <2>7. Stage(p + 1)' /\ p + 1 \in {1, 3, 5, 7}
    BY <2>3, <2>4, <2>6 DEF Stage
  <2>8. LineMade(p + 1)
    BY <1>3, <1>6, <2>1, <2>7 DEF LineMade
  <2> QED
    BY <2>7, <2>8 DEF Makes
<1>11. CASE ReportEnd(w)
  <2>1. i.pc = "end" /\ Enqueue("end", NULL, i.msg.n) /\ UNCHANGED wire
    BY <1>11 DEF ReportEnd
  <2>2. inst'.query = q /\ inst'.sprev = s
    BY <2>1, EnqueueLeaves
  <2>3. ASSUME p \in {1, 3, 5, 7}, Stage(p + 1)' PROVE \E p2 \in 0..8 : Makes(p, p2)
    <3>1. p + 1 \in {2, 4, 6, 8}
      BY <2>3
    <3>2. LineMade(p + 1)
      BY <1>3, <2>1, <3>1 DEF LineMade
    <3> QED
      BY <2>3, <3>1, <3>2 DEF Makes
  <2>4. ASSUME p = 7, NEW j, worker' = [worker EXCEPT ![w] = j], Loose(j), Fit(p + 1, q, s)
        PROVE  Stage(p + 1)'
    <3>1. worker'[w] = j /\ \A v \in Workers \ {w} : worker'[v] = worker[v]
      BY <2>4, OneMoves
    <3>2. \A v \in Workers \ {w} : Loose(worker[v])
      BY <1>3 DEF At, Quiet, Loose
    <3>3. (\A v \in Workers : Loose(worker[v]))'
      BY <2>4, <3>1, <3>2 DEF Loose
    <3> QED
      BY <2>2, <2>4, <3>3, 7 + 1 = 8 DEF Stage
  <2>5. CASE i.msg \in Request
    <3>1. worker' = [worker EXCEPT ![w] = Idle] /\ pending' = pending \cup {i.msg}
      BY <1>11, <2>5 DEF ReportEnd
    <3>2. /\ i.msg.name = "register" /\ Fit(p + 1, q, s)
          /\ \/ p = 1 /\ e = 0 /\ s = Before(e)
             \/ p = 5 /\ e = 1 /\ s = Before(e)
             \/ p = 7
      <4> HIDE DEF e, i, q, s
      <4>1. /\ Spot(p, e, i, q, s) /\ Fit(p, q, s) /\ e \in Int /\ q \in Query \cup {NoQuery}
            /\ i.pc = "end" /\ i.msg \in Request
        BY <1>2, <1>3, <1>4, <1>5, <2>1, <2>5 DEF e, i, q, s
      <4> QED
        BY <4>1, SpotRequestEnd
    <3>3. i.msg = Reg(ue.n)
      <4>1. \A m \in Request : m = [name |-> m.name, n |-> m.n]
        BY DEF Request
      <4>2. i.msg = [name |-> i.msg.name, n |-> i.msg.n]
        BY <2>5, <4>1
      <4> HIDE DEF i
      <4> QED
        BY <1>3, <3>2, <4>2 DEF i, Reg
    <3>4. CASE p # 7
      <4>1. Calm'
        BY <1>1, <1>2, <3>1, Drops DEF Idle
      <4>2. Due(Reg(ue.n))'
        BY <1>3, <3>1, <3>3, <4>1 DEF Due, At, Reg
      <4>3. /\ Unanswered' /\ Exchange' = e
            /\ ue'.pc # "registered" /\ \A r \in wire' : r.n >= ue'.first => r.name # "ok"
        BY <1>2, <1>3, <2>1 DEF Unanswered, Exchange, Single
      <4>4. Single(p + 1)'
        BY <2>2, <3>2, <3>4, <4>2, <4>3 DEF Single
      <4> QED
        <5>1. p + 1 < 8 /\ p + 1 \in 0..8
          BY <3>2, <3>4
        <5>2. Stage(p + 1)'
          BY <2>2, <3>2, <4>4, <5>1 DEF Stage
        <5> QED
          BY <2>3, <3>2, <5>2
    <3>5. CASE p = 7
      <4>1. Loose(Idle)
        BY DEF Loose, Idle
      <4> QED
        BY <2>3, <2>4, <3>1, <3>2, <3>5, <4>1
    <3> QED
      BY <3>4, <3>5
  <2>6. CASE i.msg \notin Request
    <3> DEFINE j == [i EXCEPT !.pc = "edit"]
    <3>1. worker' = [worker EXCEPT ![w] = j] /\ UNCHANGED pending
      BY <1>11, <2>6 DEF ReportEnd, Goto, WorkersOK
    <3>2. j.pc = "edit" /\ j.msg = i.msg /\ j.rep = i.rep
      BY <1>6 DEF Job
    <3> HIDE DEF j
    <3>3. i.msg \in Response
      BY <1>6, <2>6
    <3>4. /\ p \in {3, 7} /\ Fit(p + 1, q, s)
          /\ p = 3 => Spot(p + 1, e, j, q, s)
          /\ p = 7 => i.msg.name = "ok"
      BY <1>2, <1>3, <1>4, <1>5, <2>1, <3>2, <3>3, SpotResponseEnd
    <3>5. CASE p = 3
      <4>1. Spot(p + 1, Exchange, j, inst'.query, inst'.sprev)
        BY <2>2, <3>4, <3>5
      <4>2. Single(p + 1)'
        BY <1>1, <1>2, <2>1, <3>1, <3>2, <4>1, Carries
      <4> QED
        <5>1. p + 1 < 8
          BY <3>5
        <5>2. Stage(p + 1)'
          BY <2>2, <3>4, <4>2, <5>1 DEF Stage
        <5> QED
          BY <2>3, <3>5, <5>2
    <3>6. CASE p = 7
      <4>1. Loose(j)
        BY <3>2, <3>4, <3>6 DEF Loose
      <4> QED
        BY <2>3, <2>4, <3>1, <3>4, <3>6, <4>1
    <3> QED
      BY <3>4, <3>5, <3>6
  <2> QED
    BY <2>5, <2>6
<1>12. CASE FallAsleep(w)
  <2> DEFINE j == [i EXCEPT !.pc = "asleep"]
  <2>1. worker' = [worker EXCEPT ![w] = j] /\ UNCHANGED <<inst, pending, wire>>
    BY <1>12 DEF FallAsleep, Goto, WorkersOK
  <2>2. j.pc = "asleep"
    BY <1>6 DEF Job
  <2> HIDE DEF j
  <2>3. Single(p)'
    BY <1>1, <1>2, <2>1, <2>2, Drops
  <2> QED
    BY <1>2, <2>1, <2>3 DEF Makes, Stage
<1>13. CASE NextQuery(w) \/ Sleep(w)
  <2>1. PICK pc \in {"next", "poll", "sleep"} : worker' = [worker EXCEPT ![w] = [i EXCEPT !.pc = pc]]
    BY <1>13 DEF NextQuery, Sleep, Goto, WorkersOK
  <2> DEFINE j == [i EXCEPT !.pc = pc]
  <2>2. worker' = [worker EXCEPT ![w] = j] /\ UNCHANGED <<inst, pending, wire>> /\ i.pc \in {"next", "sleep"}
    BY <1>13, <2>1 DEF NextQuery, Sleep
  <2>3. j.pc = pc /\ j.msg = i.msg /\ j.rep = i.rep
    BY <1>6 DEF Job
  <2> HIDE DEF j
  <2>4. Spot(p, e, j, q, s)
    BY <1>3, <1>4, <2>2, <2>3, SpotWaits
  <2> QED
    BY <1>2, <1>7, <2>2, <2>3, <2>4
<1>14. CASE Poll(w)
  <2> DEFINE pc == IF Wanted(q) THEN "match" ELSE "sleep"
             j == [i EXCEPT !.q = q, !.pc = pc]
  <2>1. worker' = [worker EXCEPT ![w] = j] /\ UNCHANGED <<inst, pending, wire>> /\ i.pc = "poll"
    BY <1>14 DEF Poll, WorkersOK
  <2>2. j.pc = pc /\ j.msg = i.msg /\ j.rep = i.rep /\ j.q = q
    BY <1>6 DEF Job
  <2> HIDE DEF j
  <2>3. i.msg \in Response
    BY <1>6, <2>1 DEF InLine
  <2>4. CASE Wanted(q)
    <3>1. q # NoQuery /\ q.name # s
      BY <2>4 DEF Wanted
    <3>2. Spot(p, e, j, q, s)
      BY <1>2, <1>3, <1>4, <1>5, <2>1, <2>2, <2>3, <2>4, <3>1, SpotPoll
    <3> QED
      BY <1>2, <1>7, <2>1, <2>2, <2>4, <3>2
  <2>5. CASE ~Wanted(q)
    <3>1. Spot(p, e, j, q, s)
      BY <1>3, <1>4, <2>1, <2>2, <2>5, SpotWaits
    <3> QED
      BY <1>2, <1>7, <2>1, <2>2, <2>5, <3>1
  <2> QED
    BY <2>4, <2>5
<1>15. CASE Match(w)
  <2>1. i.pc = "match" /\ UNCHANGED <<inst, pending, wire>> /\ i.msg \in Response
    BY <1>6, <1>15 DEF Match, InLine
  <2>2. i.q = q
    <3>1. i.msg.name # "register"
      BY <2>1, Apart DEF ResponseNames
    <3> QED
      BY <1>3, <2>1, <3>1 DEF Spot, Answering
  <2>3. NamesRead(i.q) = {q.name}
    BY <2>2 DEF NamesRead
  <2> DEFINE l == ResponseLabel(q.name, i.msg.name, s)
             rep == IF l = NULL THEN 0 ELSE q.id
             pc == IF l = NULL THEN "edit" ELSE "sprev"
             j == [i EXCEPT !.symbol = l, !.rep = rep, !.pc = pc]
  <2>4. worker' = [worker EXCEPT ![w] = j]
    BY <1>15, <2>2, <2>3 DEF Match, WorkersOK
  <2> HIDE DEF l
  <2>5. j.symbol = l /\ j.rep = rep /\ j.pc = pc /\ j.msg = i.msg
    BY <1>6 DEF Job
  <2> HIDE DEF j
  <2>6. Spot(p, e, j, q, s)
    BY <1>3, <1>4, <1>5, <2>1, <2>5, SpotMatch DEF l
  <2> QED
    BY <1>2, <1>7, <2>1, <2>4, <2>5, <2>6
<1>16. CASE SetSprev(w)
  <2> DEFINE j == [i EXCEPT !.pc = "start"]
  <2>1. /\ worker' = [worker EXCEPT ![w] = j] /\ UNCHANGED <<pending, wire>> /\ i.pc = "sprev"
        /\ inst' = [inst EXCEPT !.sprev = i.symbol]
    BY <1>16 DEF SetSprev, Goto, WorkersOK
  <2>2. j.pc = "start" /\ j.msg = i.msg /\ j.rep = i.rep
    BY <1>6 DEF Job
  <2> HIDE DEF j
  <2>3. i.msg \in Response
    BY <1>6, <2>1 DEF InLine
  <2>4. Spot(p, e, j, q, i.symbol) /\ Fit(p, q, i.symbol)
    BY <1>2, <1>3, <1>4, <1>5, <2>1, <2>2, <2>3, SpotSprev
  <2>5. inst'.query = q /\ inst'.sprev = i.symbol /\ inst'.sendq = inst.sendq
    BY <1>5, <2>1, OtherFields
  <2>6. Spot(p, e, j, q, inst'.sprev) /\ Fit(p, q, inst'.sprev)
    BY <2>4, <2>5
  <2> HIDE DEF i
  <2> QED
    BY <1>7, <2>1, <2>2, <2>5, <2>6
<1>17. CASE Abort(w)
  <2>1. UNCHANGED <<inst, worker, pending, wire>>
    BY <1>17 DEF Abort
  <2>2. worker' = [worker EXCEPT ![w] = i]
    BY <2>1 DEF WorkersOK
  <2> QED
    BY <1>1, <1>2, <1>3, <1>7, <2>1, <2>2
<1>18. CASE EditAndSend(w)
  <2>1. Single(p)' /\ UNCHANGED inst
    BY <1>2, <1>18, Leaves DEF EditAndSend
  <2> QED
    BY <1>2, <2>1 DEF Makes, Stage
<1> QED
  BY <1>8, <1>9, <1>10, <1>11, <1>12, <1>13, <1>14, <1>15, <1>16, <1>17, <1>18 DEF Work

(* A process's step when the UE is registered. *)
LEMMA WorkLoose ==
    ASSUME InstanceOK, WorkersOK, ~inst.finished, Stage(8), NEW w \in Workers, Work(w)
    PROVE  Makes(8, 8)
<1>1. worker[w].pc \notin {"idle", "asleep"}
  BY DEF Work, Label, SetRprev, ReportStart, ReportEnd, FallAsleep, NextQuery, Poll, Sleep, Match,
         SetSprev, Abort, EditAndSend
<1>2. Fit(8, inst.query, inst.sprev) /\ \A v \in Workers : Loose(worker[v])
  BY DEF Stage
<1>3. inst.query \in Query \cup {NoQuery}
  BY DEF InstanceOK, Instance
<1>4. inst.query.name = "200_ok"
  BY <1>2, <1>3 DEF Fit, Query, QueryNames
<1>5. inst'.query = inst.query
  BY WorkLeaves
<1>6. Fit(8, inst.query, inst.sprev)'
  BY <1>2, <1>5 DEF Fit
<1>7. /\ worker[w] \in Job /\ InLine(worker[w]) /\ worker[w].msg \in Request \cup Response
  BY <1>1, AtWork
<1> DEFINE i == worker[w]
<1>8. ASSUME NEW j, worker' = [worker EXCEPT ![w] = j], Loose(j)
      PROVE  Makes(8, 8)
  <2>1. worker'[w] = j /\ \A v \in Workers \ {w} : worker'[v] = worker[v]
    BY <1>8, OneMoves
  <2>2. (\A v \in Workers : Loose(worker[v]))'
    BY <1>2, <1>8, <2>1 DEF Loose
  <2> QED
    BY <1>6, <2>2 DEF Makes, Stage
<1>9. ASSUME NEW pc, worker' = [worker EXCEPT ![w] = [i EXCEPT !.pc = pc]], pc # "match",
             i.msg.name = "unauthorized" => pc \notin {"sprev", "start", "end"}
      PROVE  Makes(8, 8)
  <2> DEFINE j == [i EXCEPT !.pc = pc]
  <2>1. j.pc = pc /\ j.msg = i.msg /\ j.rep = i.rep
    BY <1>7 DEF Job
  <2>2. worker' = [worker EXCEPT ![w] = j]
    BY <1>9
  <2> HIDE DEF j
  <2>3. Loose(j)
    BY <1>1, <1>2, <1>9, <2>1 DEF Loose
  <2> QED
    BY <1>8, <2>2, <2>3
<1>10. CASE Label(w) \/ SetRprev(w)
  <2>1. i.msg \in Request
    BY <1>7, <1>10 DEF Label, SetRprev, InLine
  <2>2. i.msg.name # "unauthorized"
    BY <2>1 DEF Request, RequestNames
  <2>3. CASE Label(w)
    <3> DEFINE l == RequestLabel(i.msg.name, inst.rprev)
               j == [i EXCEPT !.pc = "rprev", !.symbol = l]
    <3>1. worker' = [worker EXCEPT ![w] = j]
      BY <2>3 DEF Label, WorkersOK
    <3> HIDE DEF l
    <3>2. j.pc = "rprev" /\ j.msg = i.msg
      BY <1>7 DEF Job
    <3> HIDE DEF j
    <3>3. Loose(j)
      BY <2>2, <3>2 DEF Loose
    <3> QED
      BY <1>8, <3>1, <3>3
  <2>4. CASE SetRprev(w)
    <3>1. worker' = [worker EXCEPT ![w] = [i EXCEPT !.pc = "start"]]
      BY <2>4 DEF SetRprev, Goto, WorkersOK
    <3> QED
      BY <1>9, <2>2, <3>1
  <2> QED
    BY <1>10, <2>3, <2>4
<1>11. CASE ReportStart(w) \/ SetSprev(w)
  <2>1. i.msg.name # "unauthorized" /\ i.pc \in {"start", "sprev"}
    BY <1>1, <1>2, <1>11 DEF ReportStart, SetSprev, Loose
  <2>2. PICK pc \in {"start", "end"} : worker' = [worker EXCEPT ![w] = [i EXCEPT !.pc = pc]]
    BY <1>11 DEF ReportStart, SetSprev, Goto, WorkersOK
  <2> QED
    BY <1>9, <2>1, <2>2
<1>12. CASE worker' = [worker EXCEPT ![w] = Idle]
  <2>1. Loose(Idle)
    BY DEF Loose, Idle
  <2> QED
    BY <1>8, <1>12, <2>1
<1>13. CASE worker' = worker
  <2>1. worker' = [worker EXCEPT ![w] = i]
    BY <1>13 DEF WorkersOK
  <2> QED
    BY <1>2, <1>8, <2>1
<1>14. CASE FallAsleep(w) \/ NextQuery(w) \/ Sleep(w) \/ (ReportEnd(w) /\ worker' # [worker EXCEPT ![w] = Idle])
  <2>1. PICK pc \in {"asleep", "edit", "poll"} : worker' = [worker EXCEPT ![w] = [i EXCEPT !.pc = pc]]
    BY <1>14 DEF FallAsleep, NextQuery, Sleep, ReportEnd, Goto, WorkersOK
  <2> QED
    BY <1>9, <2>1
<1>15. CASE Poll(w)
  <2> DEFINE q == inst.query
             pc == IF Wanted(q) THEN "match" ELSE "sleep"
             j == [i EXCEPT !.q = q, !.pc = pc]
  <2>1. worker' = [worker EXCEPT ![w] = j]
    BY <1>15 DEF Poll, WorkersOK
  <2>2. j.pc = pc /\ j.msg = i.msg /\ j.rep = i.rep /\ j.q = q
    BY <1>7 DEF Job
  <2> HIDE DEF j
  <2>3. Loose(j)
    BY <1>1, <1>2, <1>4, <2>2 DEF Loose
  <2> QED
    BY <1>8, <2>1, <2>3
<1>16. CASE Match(w)
  <2>1. i.q.name = "200_ok"
    BY <1>2, <1>16 DEF Match, Loose
  <2>2. PICK qname \in {"200_ok", NULL} :
          LET symbol == ResponseLabel(qname, i.msg.name, inst.sprev) IN
          worker' = [worker EXCEPT ![w].symbol = symbol,
                                   ![w].rep = IF symbol = NULL THEN 0 ELSE i.q.id,
                                   ![w].pc = IF symbol = NULL THEN "edit" ELSE "sprev"]
    BY <1>16, <2>1 DEF Match, NamesRead
  <2> DEFINE l == ResponseLabel(qname, i.msg.name, inst.sprev)
             rep == IF l = NULL THEN 0 ELSE i.q.id
             pc == IF l = NULL THEN "edit" ELSE "sprev"
             j == [i EXCEPT !.symbol = l, !.rep = rep, !.pc = pc]
  <2>3. worker' = [worker EXCEPT ![w] = j]
    BY <2>2 DEF WorkersOK
  <2>4. i.msg.name = "unauthorized" => l = NULL
    BY <2>2 DEF ResponseLabel, NULL
  <2> HIDE DEF l
  <2>5. j.pc = pc /\ j.msg = i.msg /\ j.rep = rep
    BY <1>7 DEF Job
  <2> HIDE DEF j
  <2>6. Loose(j)
    BY <2>4, <2>5 DEF Loose
  <2> QED
    BY <1>8, <2>3, <2>6
<1> QED
  BY <1>10, <1>11, <1>12, <1>13, <1>14, <1>15, <1>16 DEF Work, Abort, EditAndSend

-----------------------------------------------------------------------------
(* The lines *)

(* A line is put behind the others. *)
LEMMA TapeGrows ==
    ASSUME ConnectionOK, InstanceOK, NEW a \in Nat, NEW c \in Nat, NEW p \in 0..8, NEW p2 \in 0..8,
           Tape(a, c, p), NEW r \in Report, inst'.sendq = Append(inst.sendq, r),
           p < 8 => p2 = p + 1 /\ Fits(r, p2), p = 8 => p2 = 8,
           spc # "asleep", UNCHANGED <<fromIms, ue, spc>>
    PROVE  Tape(a, c, p2)'
<1> DEFINE z == inst.sendq
           k == Len(fromIms)
           b == c + k - a
           y == Append(z, r)
<1>1. z \in Seq(Report) /\ k \in Nat /\ a \in 0..k
  BY DEF InstanceOK, Instance, ConnectionOK, Tape
<1>2. /\ Len(z) \in Nat /\ Len(y) = Len(z) + 1 /\ b \in Nat
      /\ \A i \in 1..Len(z) : y[i] = z[i]
      /\ y[Len(z) + 1] = r
  <2>1. b \in Nat /\ Len(z) \in Nat
    BY <1>1
  <2> QED
    BY <1>1, <2>1, Appended
<1>3. (p < 8 => b + Len(z) = p) /\ (p = 8 => b + Len(z) >= 8)
  <2>1. IF p < 8 THEN b + Len(z) = p ELSE b + Len(z) >= 8
    BY DEF Tape, Queued
  <2> HIDE DEF b, z
  <2> QED
    BY <2>1
<1>4. \A i \in 1..Len(z) : Fits(z[i], b + i)
  BY DEF Tape, Queued
<1>5. /\ \A i \in 1..a : fromIms[i] = Ack
      /\ \A i \in a + 1..k : fromIms[i] # Ack /\ Fits(fromIms[i], c + i - a)
  BY DEF Tape
<1>6. inst'.sendq = y
  OBVIOUS
<1>7. c + Len(fromIms') - a = b /\ Len(fromIms') = k
  OBVIOUS
<1> HIDE DEF z, k, b, y
<1>8. Fits(r, b + Len(z) + 1)
  <2>1. CASE p < 8
    <3>1. b + Len(z) + 1 = p2
      BY <1>2, <1>3, <2>1
    <3> QED
      BY <2>1, <3>1
  <2>2. CASE p = 8
    <3>1. b + Len(z) + 1 \notin 1..8
      BY <1>2, <1>3, <2>2
    <3> QED
      BY <3>1 DEF Fits
  <2> QED
    BY <2>1, <2>2
<1>9. \A i \in 1..Len(y) : Fits(y[i], b + i)
  <2> SUFFICES ASSUME NEW i \in 1..Len(z) + 1 PROVE Fits(y[i], b + i)
    BY <1>2
  <2>1. CASE i \in 1..Len(z)
    BY <1>2, <1>4, <2>1
  <2>2. CASE i = Len(z) + 1
    <3>1. b + i = b + Len(z) + 1
      BY <1>2, <2>2
    <3> QED
      BY <1>2, <1>8, <2>2, <3>1
  <2> QED
    BY <1>2, <2>1, <2>2
<1>10. (p2 < 8 => b + Len(y) = p2) /\ (~(p2 < 8) => b + Len(y) >= 8)
  BY <1>2, <1>3
<1>11. \A l, i : Fits(l, i)' <=> Fits(l, i)
  BY DEF Fits
<1>12. \A i \in 1..Len(inst'.sendq) : Fits(inst.sendq[i], c + Len(fromIms) - a + i)'
  BY <1>6, <1>7, <1>9, <1>11
<1>13. IF p2 < 8 THEN c + Len(fromIms') - a + Len(inst'.sendq) = p2
       ELSE c + Len(fromIms') - a + Len(inst'.sendq) >= 8
  BY <1>6, <1>7, <1>10
<1>14. /\ a \in 0..Len(fromIms')
       /\ \A i \in 1..a : fromIms'[i] = Ack
       /\ \A i \in a + 1..Len(fromIms') : fromIms'[i] # Ack /\ Fits(fromIms[i], c + i - a)'
  BY <1>1, <1>5, <1>7, <1>11
<1>15. Queued(c + Len(fromIms) - a, p2)'
  BY <1>12, <1>13 DEF Queued
<1> QED
  BY <1>14, <1>15 DEF Tape

(* Once the sender is lost no line joins those on the connection. *)
LEMMA TapeLost ==
    ASSUME ConnectionOK, InstanceOK, NEW a \in Nat, NEW c \in Nat, NEW p \in 0..8, NEW p2 \in 0..8,
           p <= p2, Tape(a, c, p), spc' = "asleep", UNCHANGED <<fromIms, ue>>
    PROVE  Tape(a, c, p2)'
<1>1. Len(fromIms) \in Nat /\ Len(inst.sendq) \in Nat /\ a \in 0..Len(fromIms)
  BY DEF ConnectionOK, InstanceOK, Instance, Tape
<1>a. PICK x \in Nat, y \in Nat : x = Len(fromIms) /\ y = Len(inst.sendq)
  BY <1>1
<1>c. a \in 0..x
  BY <1>1, <1>a
<1>b. PICK k \in Nat : k = c + x - a
  <2>1. c + x - a \in Nat
    BY <1>c
  <2> QED
    BY <2>1
<1>2. k = c + Len(fromIms) - a
  BY <1>a, <1>b
<1>3. p < 8 => k <= p
  <2>1. Queued(k, p)
    BY <1>2 DEF Tape
  <2>2. p < 8 => k <= p \/ k + y = p
    BY <1>a, <2>1 DEF Queued
  <2> QED
    BY <2>2
<1>4. p2 < 8 => k <= p2
  BY <1>2, <1>3
<1>5. Queued(k, p2)'
  BY <1>4 DEF Queued
<1> QED
  BY <1>2, <1>5 DEF Tape, Fits

(* Nothing happens to it. *)
LEMMA TapeStays ==
    ASSUME NEW a, NEW c, NEW p, Tape(a, c, p), inst'.sendq = inst.sendq,
           UNCHANGED <<fromIms, ue, spc>>
    PROVE  Tape(a, c, p)'
  BY DEF Tape, Queued, Fits

(* The line a process makes is as the next one should be. *)
LEMMA LineFits ==
    ASSUME PhoneOK, NEW i \in 1..8, LineMade(i), ue.n >= ue.first, Len(inst.sendq) < MaxQueueLen,
           InstanceOK
    PROVE  \E r : inst'.sendq = Append(inst.sendq, r) /\ Fits(r, i) /\ (r.n \in 1..MaxRequests => r \in Report)
<1>1. PICK symbol \in RequestLabels \cup QueryNames \cup {NULL} :
         Enqueue(IF i \in {1, 3, 5, 7} THEN "start" ELSE "end", symbol, ue.n)
  BY DEF LineMade
<1> DEFINE type == IF i \in {1, 3, 5, 7} THEN "start" ELSE "end"
           r == [type |-> type, symbol |-> symbol, n |-> ue.n]
<1>2. inst' = [inst EXCEPT !.sendq = Append(inst.sendq, r)] /\ inst \in Instance
  BY <1>1 DEF Enqueue, InstanceOK
<1>3. r.n = ue.n /\ r.type = type /\ (r.n \in 1..MaxRequests => r \in Report)
  BY <1>1 DEF Report
<1> HIDE DEF r
<1>4. inst'.sendq = Append(inst.sendq, r)
  BY <1>2, OtherFields
<1>5. ue.n \in ue.first..ue.n
  BY DEF PhoneOK, UeState
<1>6. Fits(r, i)
  BY <1>3, <1>5 DEF Fits
<1> QED
  BY <1>3, <1>4, <1>6

(* The message under way is one of the attachment. *)
LEMMA SpotFirst ==
    ASSUME NEW p, NEW e \in Int, NEW j, NEW q, NEW s, Spot(p, e, j, q, s)
    PROVE  e >= 0
<1>1. CASE \E x : Sending(x, e, q)
  BY <1>1 DEF Sending
<1>2. CASE e \in {0, 1}
  BY <1>2
<1>3. CASE e = 0
  BY <1>3
<1> QED
  BY <1>1, <1>2, <1>3 DEF Spot

-----------------------------------------------------------------------------
(* The reads that time out *)

(* A process that waits for a query goes on waiting. *)
LEMMA Waits ==
    ASSUME WorkersOK, NEW w \in Workers, Work(w), \A v \in Workers : Quiet(v) \/ Waiting(v)
    PROVE  /\ UNCHANGED <<inst, pending, wire, crashed>> /\ Free' = Free
           /\ (\A v \in Workers : Quiet(v) \/ Waiting(v))' /\ Waiting(w) /\ ~Quiet(w)'
           /\ worker'[w].msg = worker[w].msg /\ \A v \in Workers \ {w} : worker'[v] = worker[v]
<1>1. ~Quiet(w)
  BY DEF Work, Label, SetRprev, ReportStart, ReportEnd, FallAsleep, NextQuery, Poll, Sleep, Match,
         SetSprev, Abort, EditAndSend, Quiet
<1>2. Waiting(w) /\ worker[w].pc \in {"poll", "sleep"} /\ ~inst.finished /\ ~Wanted(inst.query)
  BY <1>1 DEF Waiting
<1>3. Poll(w) \/ Sleep(w)
  BY <1>2 DEF Work, Label, SetRprev, ReportStart, ReportEnd, FallAsleep, NextQuery, Poll, Sleep, Match,
         SetSprev, Abort, EditAndSend
<1>4. worker[w] \in Job
  BY <1>2, AtWork
<1>5. \E j : /\ worker' = [worker EXCEPT ![w] = j] /\ j.pc \in {"poll", "sleep"}
             /\ j.msg = worker[w].msg
  <2>1. CASE Poll(w)
    <3> DEFINE j == [worker[w] EXCEPT !.q = inst.query, !.pc = "sleep"]
    <3>1. worker' = [worker EXCEPT ![w] = j]
      BY <1>2, <2>1 DEF Poll, WorkersOK
    <3>2. j.pc = "sleep" /\ j.msg = worker[w].msg
      BY <1>4 DEF Job
    <3> QED
      BY <3>1, <3>2
  <2>2. CASE Sleep(w)
    <3> DEFINE j == [worker[w] EXCEPT !.pc = "poll"]
    <3>1. worker' = [worker EXCEPT ![w] = j]
      BY <1>2, <2>2 DEF Sleep, Goto, WorkersOK
    <3>2. j.pc = "poll" /\ j.msg = worker[w].msg
      BY <1>4 DEF Job
    <3> QED
      BY <3>1, <3>2
  <2> QED
    BY <1>3, <2>1, <2>2
<1>6. UNCHANGED <<inst, pending, wire, crashed>>
  BY <1>3 DEF Poll, Sleep
<1>7. PICK j : /\ worker' = [worker EXCEPT ![w] = j] /\ j.pc \in {"poll", "sleep"}
               /\ j.msg = worker[w].msg
  BY <1>5
<1>8. worker'[w] = j /\ \A v \in Workers \ {w} : worker'[v] = worker[v]
  BY <1>7, OneMoves
<1>9. (\A v \in Workers : Quiet(v) \/ Waiting(v))'
  BY <1>2, <1>6, <1>7, <1>8 DEF Quiet, Waiting, Wanted
<1>10. Free' = Free
  <2>1. worker[w] # Idle /\ worker'[w] # Idle
    BY <1>2, <1>7, <1>8 DEF Idle
  <2> QED
    BY <1>8, <2>1 DEF Free
<1> QED
  BY <1>2, <1>6, <1>7, <1>8, <1>9, <1>10 DEF Quiet

(* How many queries have been taken, by the query in force. *)
LEMMA TakenIs ==
    ASSUME InstanceOK
    PROVE  /\ Taken \in {0, 1, 2}
           /\ Taken = 0 <=> inst.query = NoQuery
           /\ Taken = 1 <=> inst.query.name = "401_unauthorized"
           /\ Taken = 2 <=> inst.query.name = "200_ok"
<1>1. inst.query \in Query \cup {NoQuery}
  BY DEF InstanceOK, Instance
<1> QED
  BY <1>1 DEF Taken, Query, QueryNames, NoQuery, NULL

(* The lines the queries taken allow *)
LEMMA FitTaken ==
    ASSUME InstanceOK, NEW p, Fit(p, inst.query, inst.sprev)
    PROVE  /\ p \in 0..8
           /\ Taken = 0 => p <= 2
           /\ Taken = 1 => p \in 2..6
           /\ Taken = 2 => p >= 6
  BY TakenIs DEF Fit

(* The lines read when a half of a pair begins *)
LEMMA HalfBase ==
    ASSUME ControlOK, Half, ctl.pc \in {"query", "reply"}
    PROVE  /\ ctl.msg \in {0, 1, 2}
           /\ Base(ctl.pc, ctl.msg) \in {0, 2, 4, 6} /\ Base(ctl.pc, ctl.msg) + ctl.depth \in Nat
           /\ ctl.msg = 0 => ctl.pc = "reply"
           /\ ctl.msg = 1 => Base(ctl.pc, ctl.msg) \in {2, 4}
           /\ ctl.msg = 2 => Base(ctl.pc, ctl.msg) = 6
           /\ Base("query", 1) = 2 /\ Base("query", 2) = 6
           /\ Base("reply", 0) = 0 /\ Base("reply", 1) = 4
<1>1. ctl.depth \in Nat
  BY DEF ControlOK, ControlState
<1>2. /\ Base("query", 1) = 2 /\ Base("query", 2) = 6
      /\ Base("reply", 0) = 0 /\ Base("reply", 1) = 4
  BY DEF Base
<1>3. \/ ctl.pc = "query" /\ ctl.msg = 1
      \/ ctl.pc = "query" /\ ctl.msg = 2
      \/ ctl.pc = "reply" /\ ctl.msg = 0
      \/ ctl.pc = "reply" /\ ctl.msg = 1
  BY DEF Half
<1>4. Base(ctl.pc, ctl.msg) \in {0, 2, 4, 6}
  BY <1>2, <1>3
<1> QED
  BY <1>1, <1>2, <1>3, <1>4

(* The number of lines before the query of a step *)
LEMMA QueryBase ==
    ASSUME ControlOK, NEW p \in 0..8, p = Base("query", ctl.msg), Taken = ctl.msg - 1, InstanceOK
    PROVE  (ctl.msg = 1 /\ p = 2 /\ Taken = 0) \/ (ctl.msg = 2 /\ p = 6 /\ Taken = 1)
<1>1. ctl.msg \in Nat /\ p = 4 * ctl.msg - 2
  BY DEF ControlOK, ControlState, Base
<1>2. ctl.msg \in {1, 2, 3}
  BY <1>1, TakenIs
<1> QED
  BY <1>1, <1>2

(* What the controller is at when a process has taken a step. *)
LEMMA DeskWork ==
    ASSUME ConnectionOK, InstanceOK, InstanceOK', WorkersOK, PhoneOK, ControlOK, MessagesOK,
           ~inst.finished, Half, NEW p \in 0..8, NEW p2 \in 0..8, Stage(p), Desk(p), Makes(p, p2),
           NEW w \in Workers, Work(w), UNCHANGED <<ctl, ue, net>>
    PROVE  Desk(p2)'
<1>1. UNCHANGED <<toIms, fromIms, lpc, spc>> /\ OneReport
  BY WorkKeeps DEF channel
<1>2. inst'.query = inst.query /\ inst'.finished = inst.finished
  BY WorkLeaves
<1>3. Taken' = Taken
  BY <1>2 DEF Taken
<1>4. Fit(p2, inst'.query, inst'.sprev)
  BY DEF Makes, Stage
<1>5. /\ Taken' = 0 => p2 <= 2
      /\ Taken' = 1 => p2 \in 2..6
      /\ Taken' = 2 => p2 >= 6
  <2>1. /\ Taken' = 0 <=> inst'.query = NoQuery
        /\ Taken' = 1 <=> inst'.query.name = "401_unauthorized"
        /\ Taken' = 2 <=> inst'.query.name = "200_ok"
    BY <1>2, <1>3, TakenIs
  <2> QED
    BY <1>4, <2>1 DEF Fit
<1>6. ASSUME p = Base("query", ctl.msg), Taken = ctl.msg - 1
      PROVE  p2 = p /\ inst'.sendq = inst.sendq
  <2>1. (ctl.msg = 1 /\ p = 2 /\ Taken = 0) \/ (ctl.msg = 2 /\ p = 6 /\ Taken = 1)
    BY <1>6, QueryBase
  <2>2. ~(p2 = p + 1) /\ p # 8
    BY <1>3, <1>5, <2>1
  <2> QED
    BY <2>2 DEF Makes
<1>7. CASE ctl.pc = "post" /\ toIms = << >> /\ NoAcks
  BY <1>1, <1>7 DEF Desk, NoAcks
<1>8. CASE /\ ctl.pc = "step" /\ p = Base("query", ctl.msg) /\ Taken = ctl.msg - 1
           /\ toIms = << >> /\ fromIms = << >> /\ SenderQuiet
  BY <1>1, <1>3, <1>6, <1>8 DEF Desk, SenderQuiet
<1>9. CASE ReadsOn(p)
  <2>1. PICK a \in Nat : Tape(a, Base(ctl.pc, ctl.msg) + ctl.depth, p)
    BY <1>9 DEF ReadsOn
  <2>2. PICK c \in Nat : c = Base(ctl.pc, ctl.msg) + ctl.depth
    BY <1>9, HalfBase DEF ReadsOn
  <2>a. Tape(a, c, p) /\ ctl.msg \in {0, 1, 2} /\ ctl.depth \in Nat
    BY <1>9, <2>1, <2>2, HalfBase DEF ReadsOn, ControlOK, ControlState
  <2>3. Tape(a, c, p2)'
    <3>1. CASE inst'.sendq = inst.sendq /\ p2 = p
      BY <1>1, <2>a, <3>1, TapeStays
    <3>a. CASE spc = "asleep"
      <4>1. p <= p2
        BY DEF Makes
      <4> QED
        BY <1>1, <2>2, <2>a, <3>a, <4>1, TapeLost
    <3>2. CASE spc # "asleep" /\ p = 8 /\ p2 = 8 /\ inst'.sendq # inst.sendq
      <4>1. PICK r \in Report : inst'.sendq = Append(inst.sendq, r)
        BY <1>1, <3>2 DEF OneReport
      <4> QED
        BY <1>1, <2>2, <2>a, <3>2, <4>1, TapeGrows
    <3>3. CASE spc # "asleep" /\ p < 8 /\ p2 = p + 1 /\ LineMade(p2)
      <4>1. Taken = ctl.msg
        BY <1>6, <1>9, <3>3 DEF ReadsOn
      <4>2. Len(inst.sendq) < MaxQueueLen
        <5>1. /\ a \in Nat /\ Len(fromIms) \in Nat /\ Len(inst.sendq) \in Nat /\ a <= Len(fromIms)
              /\ c + Len(fromIms) - a + Len(inst.sendq) = p
          BY <2>a, <3>3 DEF Tape, Queued, ConnectionOK, InstanceOK, Instance
        <5>2. c + Len(inst.sendq) <= p
          BY <2>2, <2>a, <5>1
        <5>3. p - c <= 3
          <6>1. Base(ctl.pc, ctl.msg) \in Nat /\ Base(ctl.pc, ctl.msg) <= c
            BY <1>9, <2>2, <2>a, HalfBase DEF ReadsOn
          <6>2. CASE ctl.msg = 0
            BY <1>3, <1>5, <2>2, <2>a, <3>3, <4>1, <6>2
          <6>3. CASE ctl.msg = 1
            <7>1. Base(ctl.pc, ctl.msg) \in {2, 4}
              BY <1>9, <6>3, HalfBase DEF ReadsOn
            <7>2. p <= 5
              BY <1>3, <1>5, <3>3, <4>1, <6>3
            <7> QED
              BY <2>2, <2>a, <6>1, <7>1, <7>2
          <6>4. CASE ctl.msg = 2
            <7>1. Base(ctl.pc, ctl.msg) = 6
              BY <1>9, <6>4, HalfBase DEF ReadsOn
            <7> QED
              BY <2>2, <2>a, <3>3, <6>1, <7>1
          <6> QED
            BY <2>2, <2>a, <6>2, <6>3, <6>4
        <5>4. PICK y \in Nat : y = Len(inst.sendq)
          BY <5>1
        <5>5. y <= 3
          BY <2>2, <5>2, <5>3, <5>4
        <5> QED
          BY <5>4, <5>5, RegistrationAssumption, SipAssumption
      <4>3. ue.n >= ue.first
        <5>1. ~Quiet(w)
          BY DEF Work, Label, SetRprev, ReportStart, ReportEnd, FallAsleep, NextQuery, Poll, Sleep,
                 Match, SetSprev, Abort, EditAndSend, Quiet
        <5>2. Single(p)
          BY <3>3 DEF Stage
        <5>3. Spot(p, Exchange, worker[w], inst.query, inst.sprev)
          BY <5>1, <5>2, HasIt
        <5>4. Exchange \in Int
          BY DEF Exchange, PhoneOK, UeState
        <5>5. Exchange >= 0
          BY <5>3, <5>4, SpotFirst
        <5> QED
          BY <5>5 DEF Exchange, PhoneOK, UeState
      <4>4. PICK r : inst'.sendq = Append(inst.sendq, r) /\ Fits(r, p2)
                     /\ (r.n \in 1..MaxRequests => r \in Report)
        BY <3>3, <4>2, <4>3, LineFits
      <4>5. r \in Report
        <5>1. r.n \in ue.first..ue.n
          BY <3>3, <4>4 DEF Fits
        <5>2. r.n \in 1..MaxRequests
          BY <5>1, SipAssumption DEF PhoneOK, UeState
        <5> QED
          BY <4>4, <5>2
      <4> QED
        BY <1>1, <2>2, <2>a, <3>3, <4>4, <4>5, TapeGrows
    <3> QED
      BY <3>1, <3>2, <3>3, <3>a DEF Makes
  <2>4. \/ toIms = << >> /\ Taken = ctl.msg
        \/ /\ ctl.pc = "query" /\ Taken = ctl.msg - 1 /\ p2 = Base("query", ctl.msg)
           /\ Underway(ctl.msg)
    BY <1>6, <1>9 DEF ReadsOn
  <2>5. ReadsOn(p2)'
    BY <1>1, <1>3, <1>9, <2>2, <2>3, <2>4 DEF ReadsOn, Underway
  <2> QED
    BY <2>5 DEF Desk
<1>9a. CASE TimesOut /\ spc = "asleep"
  BY <1>1, <1>3, <1>9a DEF Desk, TimesOut, Stuck
<1>10. CASE TimesOut /\ spc # "asleep"
  <2>1. \A v \in Workers : Quiet(v) \/ Waiting(v)
    BY <1>10 DEF TimesOut, Stuck
  <2>2. /\ UNCHANGED <<inst, pending, wire>> /\ Free' = Free
        /\ (\A v \in Workers : Quiet(v) \/ Waiting(v))'
    BY <2>1, Waits
  <2>3. Stuck'
    <3>1. inst.sendq = << >> /\ Still /\ ~MaySend /\ ~Answered("ok") /\ ue.pc # "registered"
      BY <1>10 DEF TimesOut, Stuck
    <3>2. Still' /\ ~MaySend' /\ ~Answered("ok")'
      BY <2>2, <3>1 DEF Still, MaySend, Answered, Answer
    <3> QED
      BY <2>2, <3>1, <3>2 DEF Stuck
  <2>4. TimesOut'
    BY <1>1, <1>3, <1>10, <2>3 DEF TimesOut
  <2> QED
    BY <2>4 DEF Desk
<1> QED
  BY <1>7, <1>8, <1>9, <1>10, <1>9a DEF Desk

-----------------------------------------------------------------------------
(* A step of a process *)

(* The message of a process goes on with it, to the pending requests, or   *)
(* to the UE.                                                              *)
LEMMA WorkPasses ==
    ASSUME WorkersOK, NEW w \in Workers, Work(w)
    PROVE  /\ ~Quiet(w)
           /\ \A v \in Workers : ~Quiet(v)' => ~Quiet(v) /\ worker'[v].msg = worker[v].msg
           /\ \A m \in pending' : m \in pending \/ m.n = worker[w].msg.n
           /\ \A r \in wire' : r \in wire \/ r.n = worker[w].msg.n
<1>1. worker[w].pc \notin {"idle", "asleep"} /\ ~Quiet(w)
  BY DEF Work, Label, SetRprev, ReportStart, ReportEnd, FallAsleep, NextQuery, Poll, Sleep, Match,
         SetSprev, Abort, EditAndSend, Quiet
<1>2. worker[w] \in Job
  BY <1>1, AtWork
<1> DEFINE i == worker[w]
<1>3. ASSUME NEW j, worker' = [worker EXCEPT ![w] = j], j.pc \notin {"idle", "asleep"} => j.msg = i.msg
      PROVE  \A v \in Workers : ~Quiet(v)' => ~Quiet(v) /\ worker'[v].msg = worker[v].msg
  <2>1. worker'[w] = j /\ \A v \in Workers \ {w} : worker'[v] = worker[v]
    BY <1>3, OneMoves
  <2> QED
    BY <1>1, <1>3, <2>1 DEF Quiet
<1>4. \A pc : [i EXCEPT !.pc = pc].msg = i.msg
  BY <1>2 DEF Job
<1>5. \A v \in Workers : ~Quiet(v)' => ~Quiet(v) /\ worker'[v].msg = worker[v].msg
  <2>1. CASE worker' = [worker EXCEPT ![w] = Idle]
    BY <1>3, <2>1 DEF Idle
  <2>2. CASE worker' = worker
    BY <2>2 DEF Quiet
  <2>3. CASE SetRprev(w) \/ ReportStart(w) \/ FallAsleep(w) \/ NextQuery(w) \/ Sleep(w) \/ SetSprev(w)
             \/ (ReportEnd(w) /\ worker' # [worker EXCEPT ![w] = Idle])
    <3>1. PICK pc : worker' = [worker EXCEPT ![w] = [i EXCEPT !.pc = pc]]
      BY <2>3 DEF SetRprev, ReportStart, FallAsleep, NextQuery, Sleep, SetSprev, ReportEnd, Goto, WorkersOK
    <3> QED
      BY <1>3, <1>4, <3>1
  <2>4. CASE Label(w)
    <3> DEFINE l == RequestLabel(i.msg.name, inst.rprev)
               j == [i EXCEPT !.pc = "rprev", !.symbol = l]
    <3>1. worker' = [worker EXCEPT ![w] = j]
      BY <2>4 DEF Label, WorkersOK
    <3> HIDE DEF l
    <3>2. j.msg = i.msg
      BY <1>2 DEF Job
    <3> HIDE DEF j
    <3> QED
      BY <1>3, <3>1, <3>2
  <2>5. CASE Poll(w)
    <3> DEFINE pc == IF Wanted(inst.query) THEN "match" ELSE "sleep"
               j == [i EXCEPT !.q = inst.query, !.pc = pc]
    <3>1. worker' = [worker EXCEPT ![w] = j]
      BY <2>5 DEF Poll, WorkersOK
    <3>2. j.msg = i.msg
      BY <1>2 DEF Job
    <3> HIDE DEF j
    <3> QED
      BY <1>3, <3>1, <3>2
  <2>6. CASE Match(w)
    <3>1. PICK l : worker' = [worker EXCEPT ![w].symbol = l,
                                            ![w].rep = IF l = NULL THEN 0 ELSE i.q.id,
                                            ![w].pc = IF l = NULL THEN "edit" ELSE "sprev"]
      BY <2>6 DEF Match
    <3> DEFINE j == [i EXCEPT !.symbol = l, !.rep = IF l = NULL THEN 0 ELSE i.q.id,
                              !.pc = IF l = NULL THEN "edit" ELSE "sprev"]
    <3>2. worker' = [worker EXCEPT ![w] = j]
      BY <3>1 DEF WorkersOK
    <3>3. j.msg = i.msg
      BY <1>2 DEF Job
    <3> HIDE DEF j
    <3> QED
      BY <1>3, <3>2, <3>3
  <2> QED
    BY <2>1, <2>2, <2>3, <2>4, <2>5, <2>6 DEF Work, Abort, EditAndSend
<1>6. \A m \in pending' : m \in pending \/ m.n = i.msg.n
  BY DEF Work, Label, SetRprev, ReportStart, ReportEnd, FallAsleep, NextQuery, Poll, Sleep, Match,
         SetSprev, Abort, EditAndSend
<1>7. \A r \in wire' : r \in wire \/ r.n = i.msg.n
  <2>1. CASE EditAndSend(w)
    <3>1. PICK r : r.n = i.msg.n /\ wire' = wire \cup {r}
      BY <2>1 DEF EditAndSend
    <3> QED
      BY <3>1
  <2>2. CASE ~EditAndSend(w)
    BY <2>2 DEF Work, Label, SetRprev, ReportStart, ReportEnd, FallAsleep, NextQuery, Poll, Sleep,
       Match, SetSprev, Abort
  <2> QED
    BY <2>1, <2>2
<1> QED
  BY <1>1, <1>5, <1>6, <1>7

(* What is sent in an open session, and when the edit fails. *)
LEMMA OpenEdit ==
    ASSUME InstanceOK, WorkersOK, PhoneOK, ~inst.finished, NEW p \in 0..8, Stage(p), NEW w \in Workers,
           worker[w].pc = "edit"
    PROVE  /\ worker[w].msg.name = "unauthorized" => EditedBy(w) = worker[w].rep
           /\ Aborts(w) => worker[w].msg.name = "forbidden"
<1>1. worker[w].msg \in Response /\ ~Quiet(w)
  BY AtWork DEF InLine, Quiet
<1>2. worker[w].msg.name \in {"unauthorized", "ok", "forbidden"}
  BY <1>1, Apart DEF ResponseNames
<1>3. inst.query \in Query \cup {NoQuery}
  BY DEF InstanceOK, Instance
<1>4. Fit(p, inst.query, inst.sprev)
  BY DEF Stage
<1>5. Exchange \in Int
  BY DEF Exchange, PhoneOK, UeState
<1>6. CASE p = 8
  <2>1. inst.query.name # "401_unauthorized"
    BY <1>4, <1>6 DEF Fit
  <2>2. Loose(worker[w])
    BY <1>6 DEF Stage
  <2> QED
    BY <2>1, <2>2 DEF Loose, EditedBy, Aborts
<1>7. CASE p < 8
  <2>1. Spot(p, Exchange, worker[w], inst.query, inst.sprev) /\ p \in 0..7
    BY <1>1, <1>7, HasIt DEF Stage
  <2>2. /\ worker[w].msg.name # "ok"
        /\ \/ p = 2 /\ worker[w].msg.name = "forbidden"
           \/ p = 4 /\ Exchange = 0 /\ worker[w].msg.name = "unauthorized" /\ worker[w].rep = inst.query.id
           \/ p = 6 /\ Exchange >= 1 /\ inst.query.name = "200_ok" /\ worker[w].rep = 0
    <3> DEFINE e == Exchange
               i == worker[w]
               q == inst.query
               s == inst.sprev
    <3>1. /\ Spot(p, e, i, q, s) /\ e \in Int /\ q \in Query \cup {NoQuery}
          /\ i.pc = "edit" /\ i.msg \in Response
      BY <1>1, <1>3, <1>5, <2>1
    <3> HIDE DEF e, i, q, s
    <3>2. /\ i.msg.name # "ok"
          /\ \/ p = 2 /\ i.msg.name = "forbidden"
             \/ p = 4 /\ e = 0 /\ i.msg.name = "unauthorized" /\ i.rep = q.id
             \/ p = 6 /\ e >= 1 /\ q.name = "200_ok" /\ i.rep = 0
      BY <2>1, <3>1, SpotEdit
    <3> QED
      BY <3>2 DEF e, i, q
  <2>3. p = 4 => inst.query.name = "401_unauthorized"
    BY <1>3, <1>4 DEF Fit, Query, QueryNames
  <2> QED
    BY <1>2, <2>2, <2>3 DEF EditedBy, Aborts
<1> QED
  BY <1>6, <1>7

(* A process's step keeps the invariant. *)
LEMMA WorkReg ==
    ASSUME Inv, Inv', RegInv, ~crashed, NEW w \in Workers, WorkerStep(w)
    PROVE  RegInv'
<1>1. /\ ConnectionOK /\ InstanceOK /\ ListenerOK /\ WorkersOK /\ MessagesOK /\ ControlOK /\ PhoneOK
      /\ InstanceOK'
  BY Parts DEF Inv, SessionTypeOK, SipTypeOK, InstanceOK
<1>2. Work(w) /\ UNCHANGED <<ctl, log, ue, net>> /\ UNCHANGED <<toIms, fromIms, lpc, spc, freed>>
  <2>1. Work(w) /\ UNCHANGED <<ctl, log, ue, net>>
    BY DEF WorkerStep, control, phone
  <2> QED
    BY <1>1, <2>1, WorkKeeps DEF channel
<1>3. inst'.query = inst.query /\ inst'.finished = inst.finished
  BY <1>1, <1>2, WorkLeaves
<1>4. /\ ~Quiet(w)
      /\ \A v \in Workers : ~Quiet(v)' => ~Quiet(v) /\ worker'[v].msg = worker[v].msg
      /\ \A m \in pending' : m \in pending \/ m.n = worker[w].msg.n
      /\ \A r \in wire' : r \in wire \/ r.n = worker[w].msg.n
  BY <1>1, <1>2, WorkPasses
<1>5. Numbered'
  BY <1>2, <1>4 DEF RegInv, Numbered
<1>6. Logged' /\ Kept'
  BY <1>2, <1>3 DEF RegInv, Logged, Kept
<1>7. ~Rests
  BY <1>4 DEF Rests, Calm
<1>8. CASE Closed
  <2>1. ~(NoAcks \/ (Rests /\ OnlyAcks)) \/ NoAcks'
    BY <1>2, <1>7 DEF NoAcks
  <2>2. Finishing'
    <3>1. CASE /\ toIms = <<Control("fin")>> /\ lpc = "read" /\ SenderQuiet
               /\ Still /\ \A v \in Workers : Quiet(v) \/ Waiting(v)
      <4>1. /\ UNCHANGED <<inst, pending, wire>> /\ Free' = Free
            /\ (\A v \in Workers : Quiet(v) \/ Waiting(v))'
        BY <1>1, <1>2, <3>1, Waits
      <4>2. Still'
        BY <1>2, <3>1, <4>1 DEF Still
      <4> QED
        BY <1>2, <3>1, <4>1, <4>2 DEF Finishing, SenderQuiet, Control, NoQuery
    <3>2. CASE ~(/\ toIms = <<Control("fin")>> /\ lpc = "read" /\ SenderQuiet
                 /\ Still /\ \A v \in Workers : Quiet(v) \/ Waiting(v))
      BY <1>2, <1>3, <1>7, <1>8, <3>2 DEF Closed, Finishing, Control, NoQuery
    <3> QED
      BY <3>1, <3>2
  <2>3. Closed'
    BY <1>2, <1>8, <2>1, <2>2 DEF Closed
  <2>4. \/ inst.finished
        \/ worker[w].pc # "edit"
    BY <1>4, <1>7, <1>8 DEF Closed, Finishing, Waiting, Quiet
  <2>5. ModifiedAsReported'
    <3>1. CASE EditAndSend(w)
      BY <2>4, <3>1 DEF RegInv, ModifiedAsReported, EditAndSend
    <3>2. CASE ~EditAndSend(w)
      <4>1. wire' = wire
        BY <1>2, <3>2 DEF Work, Label, SetRprev, ReportStart, ReportEnd, FallAsleep, NextQuery, Poll,
           Sleep, Match, SetSprev, Abort
      <4> QED
        BY <4>1 DEF RegInv, ModifiedAsReported
    <3> QED
      BY <3>1, <3>2
  <2>6. AbortOnlyLate'
    <3>1. CASE Abort(w)
      BY <1>3, <2>4, <3>1 DEF AbortOnlyLate, Abort
    <3>2. CASE ~Abort(w)
      <4>1. crashed' = crashed
        BY <1>2, <3>2 DEF Work, Label, SetRprev, ReportStart, ReportEnd, FallAsleep, NextQuery, Poll,
           Sleep, Match, SetSprev, EditAndSend
      <4> QED
        BY <4>1 DEF AbortOnlyLate
    <3> QED
      BY <3>1, <3>2
  <2> QED
    BY <1>5, <1>6, <2>3, <2>5, <2>6 DEF RegInv, Phases
<1>9. CASE Session
  <2>1. ~inst.finished /\ lpc = "read" /\ Half
    BY <1>9 DEF Session
  <2>2. PICK p \in 0..8 : Stage(p) /\ Desk(p)
    BY <1>9 DEF Session
  <2>3. \E p2 \in 0..8 : Makes(p, p2)
    <3>1. CASE p = 8
      BY <1>1, <1>2, <2>1, <2>2, <3>1, WorkLoose
    <3>2. CASE p \in 0..7
      <4>1. Numbered /\ inst.query.id \notin freed
        BY DEF RegInv, Kept
      <4> QED
        BY <1>1, <1>2, <2>1, <2>2, <3>2, <4>1, WorkSingle
    <3> QED
      BY <3>1, <3>2
  <2>4. PICK p2 \in 0..8 : Makes(p, p2)
    BY <2>3
  <2>5. Stage(p2)' /\ Desk(p2)'
    BY <1>1, <1>2, <2>1, <2>2, <2>4, DeskWork DEF Makes
  <2>6. Session'
    BY <1>2, <1>3, <2>1, <2>5 DEF Session, Half
  <2>7. worker[w].pc = "edit" =>
          /\ worker[w].msg.name = "unauthorized" => EditedBy(w) = worker[w].rep
          /\ Aborts(w) => worker[w].msg.name = "forbidden"
    BY <1>1, <2>1, <2>2, OpenEdit
  <2>8. ModifiedAsReported'
    <3>1. CASE EditAndSend(w)
      BY <2>7, <3>1 DEF RegInv, ModifiedAsReported, EditAndSend
    <3>2. CASE ~EditAndSend(w)
      <4>1. wire' = wire
        BY <1>2, <3>2 DEF Work, Label, SetRprev, ReportStart, ReportEnd, FallAsleep, NextQuery, Poll,
           Sleep, Match, SetSprev, Abort
      <4> QED
        BY <4>1 DEF RegInv, ModifiedAsReported
    <3> QED
      BY <3>1, <3>2
  <2>9. AbortOnlyLate'
    <3>1. CASE Abort(w)
      <4>1. worker'[w].msg.name = "forbidden" /\ worker'[w] # Idle
        BY <1>4, <2>7, <3>1 DEF Abort, Quiet, Idle
      <4>2. worker'[w].msg \in Known'
        BY <4>1 DEF Known
      <4> QED
        BY <4>1, <4>2 DEF AbortOnlyLate
    <3>2. CASE ~Abort(w)
      <4>1. crashed' = crashed
        BY <1>2, <3>2 DEF Work, Label, SetRprev, ReportStart, ReportEnd, FallAsleep, NextQuery, Poll,
           Sleep, Match, SetSprev, EditAndSend
      <4> QED
        BY <4>1 DEF AbortOnlyLate
    <3> QED
      BY <3>1, <3>2
  <2> QED
    BY <1>5, <1>6, <2>6, <2>8, <2>9 DEF RegInv, Phases
<1> QED
  BY <1>7, <1>8, <1>9 DEF RegInv, Phases, Opening, Skipped, Unused

-----------------------------------------------------------------------------
(* What a step of another leaves alone *)

(* A step that leaves the messages and the processes alone *)
LEMMA Elsewhere ==
    ASSUME RegInv, ~crashed, UNCHANGED <<worker, pending, wire, crashed, net, ue>>
    PROVE  Numbered' /\ ModifiedAsReported' /\ AbortOnlyLate'
<1>1. Numbered'
  BY DEF RegInv, Numbered, Quiet
<1>2. ModifiedAsReported'
  BY DEF RegInv, ModifiedAsReported
<1>3. AbortOnlyLate'
  BY DEF AbortOnlyLate
<1> QED
  BY <1>1, <1>2, <1>3

(* The message under way stays where it is. *)
LEMMA SingleStays ==
    ASSUME NEW p, Single(p), UNCHANGED <<worker, pending, wire, net, ue>>,
           inst'.query = inst.query, inst'.sprev = inst.sprev
    PROVE  Single(p)'
<1>1. /\ Unanswered' = Unanswered /\ Nowhere' = Nowhere /\ Dead' = Dead /\ Exchange' = Exchange
      /\ \A m : OnNet(m)' = OnNet(m) /\ Due(m)' = Due(m)
  BY DEF Unanswered, Nowhere, Dead, Exchange, OnNet, Due, Calm, Quiet
<1>2. \A w \in Workers : At(w)' = At(w)
  BY DEF At, Quiet
<1>3. Idling(p, Exchange, inst.query)' = Idling(p, Exchange, inst.query)
  BY <1>1 DEF Idling, AnsweredBy
<1>4. \A w \in Workers : Spot(p, Exchange, worker[w], inst.query, inst.sprev)'
                         = Spot(p, Exchange, worker[w], inst.query, inst.sprev)
  BY <1>1 DEF Spot, Sending, Answering
<1>5. Sending(p, Exchange, inst.query)' = Sending(p, Exchange, inst.query)
  BY <1>1 DEF Sending
<1>6. ue'.pc # "registered" /\ \A r \in wire' : r.n >= ue'.first => r.name # "ok"
  BY DEF Single
<1>7. CASE p = 0 /\ Dead
  BY <1>1, <1>6, <1>7 DEF Single
<1>8. CASE Nowhere /\ Idling(p, Exchange, inst.query)
  BY <1>1, <1>3, <1>6, <1>8 DEF Single
<1>9. CASE Unanswered /\ OnNet(Reg(ue.n)) /\ Sending(p, Exchange, inst.query)
  BY <1>1, <1>5, <1>6, <1>9 DEF Single, Reg
<1>10. CASE /\ Unanswered /\ Due(Reg(ue.n)) /\ Exchange \in {0, 1} /\ p = 4 * Exchange + 2
            /\ inst.sprev = Before(Exchange)
  BY <1>1, <1>6, <1>10 DEF Single, Reg, Before
<1>11. CASE /\ Unanswered
            /\ \E w \in Workers :
                 /\ At(w) /\ worker[w].msg.n = ue.n
                 /\ Spot(p, Exchange, worker[w], inst.query, inst.sprev)
  BY <1>1, <1>2, <1>4, <1>6, <1>11 DEF Single
<1> QED
  BY <1>7, <1>8, <1>9, <1>10, <1>11 DEF Single

(* So does the session. *)
LEMMA StageStays ==
    ASSUME NEW p, Stage(p), UNCHANGED <<worker, pending, wire, net, ue>>,
           inst'.query = inst.query, inst'.sprev = inst.sprev
    PROVE  Stage(p)'
<1>1. Fit(p, inst.query, inst.sprev)'
  BY DEF Stage, Fit
<1>2. CASE p < 8
  BY <1>1, <1>2, SingleStays DEF Stage
<1>3. CASE ~(p < 8)
  BY <1>1, <1>3 DEF Stage, Loose
<1> QED
  BY <1>2, <1>3

-----------------------------------------------------------------------------
(* sender_run *)

(* The first line of the queue goes out. *)
LEMMA TapeShifts ==
    ASSUME ConnectionOK, InstanceOK, NEW a \in Nat, NEW c \in Nat, NEW p, Tape(a, c, p),
           inst.sendq # << >>, fromIms' = Append(fromIms, Head(inst.sendq)),
           inst'.sendq = Tail(inst.sendq), spc # "asleep", UNCHANGED <<ue, spc>>
    PROVE  Tape(a, c, p)'
<1> DEFINE z == inst.sendq
           f == fromIms
           y == Tail(z)
           g == Append(f, Head(z))
           k == Len(f)
<1>1. z \in Seq(Report) /\ f \in Seq(Report \cup {Ack}) /\ k \in Nat /\ a \in 0..k
  BY DEF InstanceOK, Instance, ConnectionOK, Tape
<1>2. /\ Len(z) \in Nat \ {0} /\ z[1] = Head(z) /\ z[1] \in Report
      /\ Len(y) = Len(z) - 1 /\ \A i \in 1..Len(z) - 1 : y[i] = z[i + 1]
  BY <1>1, Shifted
<1>3. Head(z) \in Report \cup {Ack}
  BY <1>2
<1>4. /\ Len(g) = k + 1 /\ \A i \in 1..k : g[i] = f[i]
      /\ g[k + 1] = z[1]
  BY <1>1, <1>2, <1>3, Appended
<1>5. /\ \A i \in 1..a : f[i] = Ack
      /\ \A i \in a + 1..k : f[i] # Ack /\ Fits(f[i], c + i - a)
      /\ \A i \in 1..Len(z) : Fits(z[i], c + k - a + i)
      /\ IF p < 8 THEN c + k - a + Len(z) = p ELSE c + k - a + Len(z) >= 8
  BY DEF Tape, Queued
<1>6. fromIms' = g /\ inst'.sendq = y
  OBVIOUS
<1> HIDE DEF z, f, y, g, k
<1>7. z[1] # Ack
  BY <1>2 DEF Report, Ack
<1>8. \A i \in a + 1..k + 1 : g[i] # Ack /\ Fits(g[i], c + i - a)
  <2> SUFFICES ASSUME NEW i \in a + 1..k + 1 PROVE g[i] # Ack /\ Fits(g[i], c + i - a)
    OBVIOUS
  <2>1. CASE i \in a + 1..k
    <3>1. i \in 1..k
      BY <1>1, <2>1
    <3> QED
      BY <1>4, <1>5, <2>1, <3>1
  <2>2. CASE i = k + 1
    <3>1. c + i - a = c + k - a + 1 /\ 1 \in 1..Len(z)
      BY <1>1, <1>2, <2>2
    <3>2. Fits(z[1], c + k - a + 1)
      BY <1>5, <3>1
    <3> QED
      BY <1>4, <1>7, <2>2, <3>1, <3>2
  <2> QED
    BY <1>1, <2>1, <2>2
<1>9. \A i \in 1..Len(y) : Fits(y[i], c + (k + 1) - a + i)
  <2> SUFFICES ASSUME NEW i \in 1..Len(z) - 1 PROVE Fits(y[i], c + (k + 1) - a + i)
    BY <1>2
  <2>1. i + 1 \in 1..Len(z) /\ c + (k + 1) - a + i = c + k - a + (i + 1)
    BY <1>1, <1>2
  <2>2. Fits(z[i + 1], c + k - a + (i + 1))
    BY <1>5, <2>1
  <2> QED
    BY <1>2, <2>1, <2>2
<1>10. c + (k + 1) - a + Len(y) = c + k - a + Len(z)
  BY <1>1, <1>2
<1>11. \A l, i : Fits(l, i)' <=> Fits(l, i)
  BY DEF Fits
<1>12. a \in 0..k + 1 /\ \A i \in 1..a : g[i] = Ack
  BY <1>1, <1>4, <1>5
<1>13. /\ a \in 0..Len(fromIms') /\ \A i \in 1..a : fromIms'[i] = Ack
       /\ \A i \in a + 1..Len(fromIms') : fromIms'[i] # Ack /\ Fits(fromIms[i], c + i - a)'
  BY <1>4, <1>6, <1>8, <1>11, <1>12
<1>14. \A i \in 1..Len(inst'.sendq) : Fits(inst.sendq[i], c + Len(fromIms) - a + i)'
  BY <1>4, <1>6, <1>9, <1>11
<1>15. IF p < 8 THEN c + Len(fromIms') - a + Len(inst'.sendq) = p
       ELSE c + Len(fromIms') - a + Len(inst'.sendq) >= 8
  BY <1>4, <1>5, <1>6, <1>10
<1>16. Queued(c + Len(fromIms) - a, p)'
  BY <1>14, <1>15 DEF Queued
<1> QED
  BY <1>13, <1>16 DEF Tape

(* A line that is no ACK *)
LEMMA StillNoAcks ==
    ASSUME ConnectionOK, NoAcks, NEW l \in Report, fromIms' = Append(fromIms, l)
    PROVE  NoAcks'
<1>1. fromIms \in Seq(Report \cup {Ack}) /\ l \in Report \cup {Ack} /\ l # Ack
  BY DEF ConnectionOK, Report, Ack
<1>2. /\ Len(fromIms) \in Nat /\ Len(fromIms') = Len(fromIms) + 1
      /\ \A i \in 1..Len(fromIms) : fromIms'[i] = fromIms[i]
      /\ fromIms'[Len(fromIms) + 1] = l
  BY <1>1, Appended
<1>3. \A i \in 1..Len(fromIms') : i \in 1..Len(fromIms) \/ i = Len(fromIms) + 1
  BY <1>2
<1> QED
  BY <1>1, <1>2, <1>3 DEF NoAcks

(* The sender's step keeps the invariant. *)
LEMMA SenderReg ==
    ASSUME Inv, RegInv, ~crashed, SenderStep
    PROVE  RegInv'
<1>1. /\ ConnectionOK /\ InstanceOK /\ ControlOK
  BY Parts
<1>2. /\ spc # "asleep" /\ inst.sendq # << >> /\ fromIms' = Append(fromIms, Head(inst.sendq))
      /\ inst' = [inst EXCEPT !.sendq = Tail(inst.sendq)]
      /\ UNCHANGED <<toIms, lpc, spc, freed>> /\ UNCHANGED <<worker, pending, wire, crashed, net, ue>>
      /\ UNCHANGED <<ctl, log>>
  BY DEF SenderStep, Sender, WriteFromIms, rest, control, phone
<1>3. /\ inst'.query = inst.query /\ inst'.sprev = inst.sprev /\ inst'.finished = inst.finished
      /\ inst'.sendq = Tail(inst.sendq)
  BY <1>1, <1>2, OtherFields DEF InstanceOK
<1>4. Numbered' /\ ModifiedAsReported' /\ AbortOnlyLate'
  BY <1>2, Elsewhere
<1>5. Logged' /\ Kept'
  BY <1>2, <1>3 DEF RegInv, Logged, Kept
<1>6. ~Rests
  BY <1>2 DEF Rests, SenderQuiet
<1>7. Head(inst.sendq) \in Report
  BY <1>1, <1>2, Shifted DEF InstanceOK, Instance
<1>8. NoAcks => NoAcks'
  BY <1>1, <1>2, <1>7, StillNoAcks
<1>9. CASE Closed
  <2>1. Finishing'
    BY <1>2, <1>3, <1>6, <1>9 DEF Closed, Finishing, SenderQuiet, Control, NoQuery
  <2>2. Closed'
    BY <1>2, <1>6, <1>8, <1>9, <2>1 DEF Closed
  <2> QED
    BY <1>4, <1>5, <2>2 DEF RegInv, Phases
<1>10. CASE Session
  <2>1. ~inst.finished /\ lpc = "read" /\ Half
    BY <1>10 DEF Session
  <2>2. PICK p \in 0..8 : Stage(p) /\ Desk(p)
    BY <1>10 DEF Session
  <2>3. Stage(p)'
    BY <1>2, <1>3, <2>2, StageStays
  <2>4. Taken' = Taken
    BY <1>3 DEF Taken
  <2>5. CASE ctl.pc = "post" /\ toIms = << >> /\ NoAcks
    <3>1. Desk(p)'
      BY <1>2, <1>8, <2>5 DEF Desk
    <3> QED
      BY <1>2, <1>3, <1>4, <1>5, <2>1, <2>3, <3>1 DEF RegInv, Phases, Session, Half
  <2>6. CASE ReadsOn(p)
    <3>1. PICK a \in Nat : Tape(a, Base(ctl.pc, ctl.msg) + ctl.depth, p)
      BY <2>6 DEF ReadsOn
    <3>2. PICK c \in Nat : c = Base(ctl.pc, ctl.msg) + ctl.depth
      BY <1>1, <2>1, <2>6, HalfBase DEF ReadsOn
    <3>3. Tape(a, c, p)
      BY <3>1, <3>2
    <3>4. Tape(a, c, p)'
      BY <1>1, <1>2, <1>3, <3>3, TapeShifts
    <3>5. ReadsOn(p)'
      BY <1>2, <2>4, <2>6, <3>2, <3>4 DEF ReadsOn, Underway
    <3> QED
      BY <1>2, <1>3, <1>4, <1>5, <2>1, <2>3, <3>5 DEF RegInv, Phases, Session, Half, Desk
  <2> QED
    BY <1>2, <2>2, <2>5, <2>6 DEF Desk, TimesOut, Stuck, SenderQuiet
<1> QED
  BY <1>6, <1>9, <1>10 DEF RegInv, Phases, Opening, Skipped, Unused

(* The sender is lost, on the lock of a process that reports. *)
LEMMA LoseReg ==
    ASSUME Inv, RegInv, ~crashed, LoseSender
    PROVE  RegInv'
<1>1. /\ ConnectionOK /\ InstanceOK /\ ControlOK
  BY Parts
<1>2. /\ spc' = "asleep" /\ UNCHANGED <<toIms, fromIms, inst, lpc, freed, ctl, log>>
      /\ UNCHANGED <<worker, pending, wire, crashed, net, ue>>
  BY DEF LoseSender, SenderFallsAsleep, control, phone
<1>3. PICK w \in Workers : worker[w].pc \in {"start", "end"}
  BY DEF LoseSender, SenderFallsAsleep
<1>4. Numbered' /\ ModifiedAsReported' /\ AbortOnlyLate'
  BY <1>2, Elsewhere
<1>5. Logged' /\ Kept'
  BY <1>2 DEF RegInv, Logged, Kept
<1>6. ~Quiet(w) /\ ~Waiting(w) /\ ~Rests
  BY <1>3 DEF Quiet, Waiting, Rests, Calm
<1>7. (NoAcks => NoAcks') /\ Taken' = Taken
  BY <1>2 DEF NoAcks, Taken
<1>8. CASE Closed
  <2>1. Finishing'
    BY <1>2, <1>6, <1>8 DEF Closed, Finishing
  <2>2. Closed'
    BY <1>2, <1>6, <1>7, <1>8, <2>1 DEF Closed
  <2> QED
    BY <1>4, <1>5, <2>2 DEF RegInv, Phases
<1>9. CASE Session
  <2>1. ~inst.finished /\ lpc = "read" /\ Half
    BY <1>9 DEF Session
  <2>2. PICK p \in 0..8 : Stage(p) /\ Desk(p)
    BY <1>9 DEF Session
  <2>3. Stage(p)'
    BY <1>2, <2>2, StageStays
  <2>4. ASSUME ReadsOn(p) PROVE Desk(p)'
    <3>1. PICK a \in Nat : Tape(a, Base(ctl.pc, ctl.msg) + ctl.depth, p)
      BY <2>4 DEF ReadsOn
    <3>2. PICK c \in Nat : c = Base(ctl.pc, ctl.msg) + ctl.depth
      BY <1>1, <2>1, <2>4, HalfBase DEF ReadsOn
    <3>3. Tape(a, c, p) /\ p <= p
      BY <3>1, <3>2
    <3>4. Tape(a, c, p)'
      BY <1>1, <1>2, <3>3, TapeLost
    <3> QED
      BY <1>2, <1>7, <2>4, <3>2, <3>4 DEF Desk, ReadsOn, Underway
  <2>5. ASSUME ~ReadsOn(p) PROVE Desk(p)'
    BY <1>2, <1>7, <2>2, <2>5 DEF Desk, TimesOut, Stuck, SenderQuiet
  <2>6. Desk(p)'
    BY <2>4, <2>5
  <2> QED
    BY <1>2, <1>4, <1>5, <2>1, <2>3, <2>6 DEF RegInv, Phases, Session, Half
<1> QED
  BY <1>6, <1>8, <1>9 DEF RegInv, Phases, Opening, Skipped, Unused

-----------------------------------------------------------------------------
(* listener_run *)

(* An ACK goes out. *)
LEMMA AckOut ==
    ASSUME ConnectionOK, fromIms' = Append(fromIms, Ack)
    PROVE  (OnlyAcks => OnlyAcks') /\ (AcksLast => AcksLast')
<1>1. fromIms \in Seq(Report \cup {Ack}) /\ Ack \in Report \cup {Ack}
  BY DEF ConnectionOK
<1>2. /\ Len(fromIms) \in Nat /\ Len(fromIms') = Len(fromIms) + 1
      /\ \A i \in 1..Len(fromIms) : fromIms'[i] = fromIms[i]
      /\ fromIms'[Len(fromIms) + 1] = Ack
  BY <1>1, Appended
<1>3. \A i \in 1..Len(fromIms') : i \in 1..Len(fromIms) \/ i = Len(fromIms) + 1
  BY <1>2
<1>4. OnlyAcks => OnlyAcks'
  BY <1>2, <1>3 DEF OnlyAcks
<1>5. ASSUME AcksLast PROVE AcksLast'
  <2>1. PICK a \in 0..Len(fromIms) : \A i \in 1..Len(fromIms) : fromIms[i] = Ack <=> i > a
    BY <1>5 DEF AcksLast
  <2>2. a \in 0..Len(fromIms') /\ Len(fromIms) + 1 > a
    BY <1>2
  <2>3. \A i \in 1..Len(fromIms') : fromIms'[i] = Ack <=> i > a
    BY <1>2, <1>3, <2>1, <2>2
  <2> QED
    BY <2>2, <2>3 DEF AcksLast
<1> QED
  BY <1>4, <1>5

(* The line at the head is taken off. *)
LEMMA LineOff ==
    ASSUME ConnectionOK, toIms # << >>, toIms' = Tail(toIms)
    PROVE  /\ \A i \in 1..Len(toIms') : i + 1 \in 1..Len(toIms) /\ toIms'[i] = toIms[i + 1]
           /\ \A i \in 1..Len(toIms) : i # 1 => i - 1 \in 1..Len(toIms') /\ toIms'[i - 1] = toIms[i]
           /\ 1 \in 1..Len(toIms) /\ Head(toIms) = toIms[1]
<1>1. /\ Len(toIms) \in Nat \ {0} /\ Len(toIms') = Len(toIms) - 1 /\ Head(toIms) = toIms[1]
      /\ \A k \in 1..Len(toIms) - 1 : toIms'[k] = toIms[k + 1]
  BY Shifted DEF ConnectionOK
<1>2. \A i \in 1..Len(toIms) : i # 1 => i - 1 \in 1..Len(toIms') /\ toIms'[i - 1] = toIms[i]
  <2> SUFFICES ASSUME NEW i \in 1..Len(toIms), i # 1
               PROVE  i - 1 \in 1..Len(toIms') /\ toIms'[i - 1] = toIms[i]
    OBVIOUS
  <2>1. i - 1 \in 1..Len(toIms) - 1 /\ (i - 1) + 1 = i
    BY <1>1
  <2> QED
    BY <1>1, <2>1
<1> QED
  BY <1>1, <1>2

(* Nothing of the rest changes. *)
LEMMA RestsStays ==
    ASSUME UNCHANGED <<worker, pending, net, ue, spc>>, inst'.sendq = inst.sendq
    PROVE  (Rests => Rests') /\ (Still => Still')
  BY DEF Rests, Calm, Quiet, Still, Free, SenderQuiet

(* free_query *)
LEMMA Frees ==
    ASSUME InstanceOK, Kept, ControlOK, NEW pc, DropQuery(pc), UNCHANGED <<ctl, toIms>>,
           \A i \in 1..Len(toIms) : toIms[i].kind # "query"
    PROVE  Kept' /\ inst'.query = NoQuery /\ inst'.finished = inst.finished
<1>1. inst \in Instance /\ inst.query \in Query \cup {NoQuery} /\ ctl.sent \in Nat
  BY DEF InstanceOK, Instance, ControlOK, ControlState
<1>2. inst' = [inst EXCEPT !.query = NoQuery] /\ freed' = freed \cup ({inst.query.id} \ {0})
  BY DEF DropQuery
<1>3. inst'.query = NoQuery /\ inst'.finished = inst.finished
  BY <1>1, <1>2 DEF Instance
<1>4. inst.query.id \in Nat /\ NoQuery.id = 0
  BY <1>1, QueryNumber, SipAssumption DEF NoQuery
<1>5. freed' \subseteq 1..ctl.sent
  BY <1>1, <1>2, <1>4 DEF Kept
<1>6. 0 \notin freed' /\ 0 <= ctl.sent
  BY <1>1, <1>5
<1> QED
  BY <1>3, <1>4, <1>5, <1>6 DEF Kept

(* Before a session: the init, and the isIMSAlive of pre *)
LEMMA ListenerUnused ==
    ASSUME ConnectionOK, InstanceOK, ListenerOK, ControlOK, Kept, Reset, Listener, UNCHANGED ctl
    PROVE  Reset' /\ Kept' /\ (OnlyAcks => OnlyAcks') /\ (AcksLast => AcksLast')
<1>1. inst \in Instance
  BY DEF InstanceOK
<1>2. \A i \in 1..Len(toIms) : toIms[i].kind \in {"init", "Hello"}
  BY DEF Reset
<1>3. toIms # << >> => 1 \in 1..Len(toIms) /\ Head(toIms) = toIms[1]
  BY Shifted DEF ConnectionOK
<1>4. CASE Hello
  <2>1. /\ toIms # << >> /\ Head(toIms).kind = "Hello" /\ toIms' = Tail(toIms)
        /\ fromIms' = Append(fromIms, Ack) /\ UNCHANGED <<inst, lpc, freed>>
    BY <1>4 DEF Hello, Reads, WriteFromIms
  <2>2. /\ \A i \in 1..Len(toIms') : i + 1 \in 1..Len(toIms) /\ toIms'[i] = toIms[i + 1]
        /\ \A i \in 1..Len(toIms) : i # 1 => i - 1 \in 1..Len(toIms') /\ toIms'[i - 1] = toIms[i]
    BY <2>1, LineOff
  <2>3. (\E i \in 1..Len(toIms) : toIms[i].kind = "init") => \E i \in 1..Len(toIms') : toIms'[i].kind = "init"
    BY <1>3, <2>1, <2>2
  <2>4. Reset'
    BY <1>2, <2>1, <2>2, <2>3 DEF Reset, Reopened
  <2>5. Kept'
    BY <2>1, <2>2 DEF Kept
  <2> QED
    BY <2>1, <2>4, <2>5, AckOut
<1>5. CASE ResetQuery
  <2>1. /\ toIms # << >> /\ Head(toIms).kind = "init" /\ DropQuery("init_flag")
        /\ lpc' = "init_flag" /\ UNCHANGED <<toIms, fromIms>>
    BY <1>5 DEF ResetQuery, Reads, DropQuery
  <2>2. Kept' /\ inst'.query = NoQuery
    BY <1>2, <2>1, Frees
  <2>3. Reset'
    BY <1>2, <1>3, <2>1, <2>2 DEF Reset
  <2> QED
    BY <2>1, <2>2, <2>3 DEF OnlyAcks, AcksLast
<1>6. CASE ResetFlag
  <2>1. /\ lpc = "init_flag" /\ lpc' = "init_prev"
        /\ inst' = [inst EXCEPT !.finished = FALSE] /\ UNCHANGED <<toIms, fromIms, freed>>
    BY <1>6 DEF ResetFlag
  <2>2. ~inst'.finished /\ inst'.query = inst.query
    BY <1>1, <2>1 DEF Instance
  <2>3. \E i \in 1..Len(toIms) : toIms[i].kind = "init"
    BY <1>3, <2>1 DEF ListenerOK, LineInWork
  <2>4. Reset'
    BY <1>2, <2>1, <2>2, <2>3 DEF Reset
  <2> QED
    BY <2>1, <2>2, <2>4 DEF OnlyAcks, AcksLast, Kept
<1>7. CASE ResetPrev
  <2>1. /\ lpc = "init_prev" /\ lpc' = "read" /\ toIms' = Tail(toIms)
        /\ inst' = [inst EXCEPT !.rprev = FirstRprev, !.sprev = FirstSprev]
        /\ fromIms' = Append(fromIms, Ack) /\ UNCHANGED freed
    BY <1>7 DEF ResetPrev, WriteFromIms
  <2>2. toIms # << >>
    BY <2>1 DEF ListenerOK, LineInWork
  <2>3. \A i \in 1..Len(toIms') : i + 1 \in 1..Len(toIms) /\ toIms'[i] = toIms[i + 1]
    BY <2>1, <2>2, LineOff
  <2>4. inst'.query = inst.query /\ inst'.finished = inst.finished /\ inst'.sprev = FirstSprev
    BY <1>1, <2>1 DEF Instance
  <2>5. Reopened'
    BY <2>1, <2>4 DEF Reset, Reopened
  <2>6. Reset'
    BY <1>2, <2>1, <2>3, <2>5 DEF Reset
  <2>7. Kept'
    BY <2>1, <2>3, <2>4 DEF Kept
  <2> QED
    BY <2>1, <2>6, <2>7, AckOut
<1> QED
  BY <1>2, <1>3, <1>4, <1>5, <1>6, <1>7
     DEF Listener, SetQuery, FinMark, FinQuery, FinPrev, Reads, Reset

(* The line of a fin *)
LEMMA FinLine ==
    /\ Control("fin").kind = "fin" /\ Len(<<Control("fin")>>) = 1 /\ <<Control("fin")>> # << >>
    /\ Head(<<Control("fin")>>) = Control("fin") /\ Tail(<<Control("fin")>>) = << >>
    /\ \A i \in 1..Len(<<Control("fin")>>) : <<Control("fin")>>[i].kind = "fin"
<1>1. Control("fin").kind = "fin"
  BY DEF Control
<1> QED
  BY <1>1

(* After a session: fin *)
LEMMA ListenerClosed ==
    ASSUME ConnectionOK, InstanceOK, ListenerOK, ControlOK, Kept, Closed, Listener,
           UNCHANGED <<ctl, log, worker, pending, net, ue, spc>>
    PROVE  Closed' /\ Kept'
<1>1. inst \in Instance
  BY DEF InstanceOK
<1>2. inst'.sendq = inst.sendq
  BY ListenerKeeps
<1>3. toIms # << >> => toIms = <<Control("fin")>>
  BY DEF Closed, Finishing
<1>4. \A i \in 1..Len(toIms) : toIms[i].kind = "fin"
  <2>1. CASE toIms = << >>
    BY <2>1
  <2>2. CASE toIms = <<Control("fin")>>
    BY <2>2, FinLine
  <2> QED
    BY <1>3, <2>1, <2>2
<1>5. (Rests => Rests') /\ (Still => Still')
  BY <1>2, RestsStays
<1>6. ASSUME Finishing', fromIms' = fromIms PROVE Closed'
  <2>1. (NoAcks \/ (Rests /\ OnlyAcks)) /\ ctl.pc \in {"next", "pre", "done"} /\ ue.pc = "off"
        /\ (ctl.pc = "pre" => log = << >> /\ ctl.msg = 0)
    BY DEF Closed
  <2>2. (NoAcks => NoAcks') /\ (OnlyAcks => OnlyAcks')
    BY <1>6 DEF NoAcks, OnlyAcks
  <2> QED
    BY <1>5, <1>6, <2>1, <2>2 DEF Closed
<1>7. CASE FinMark
  <2>1. /\ lpc' = "fin_query" /\ toIms # << >>
        /\ inst' = [inst EXCEPT !.finished = TRUE] /\ UNCHANGED <<toIms, fromIms, freed>>
    BY <1>7 DEF FinMark, Reads
  <2>2. inst'.finished /\ inst'.query = inst.query
    BY <1>1, <2>1 DEF Instance
  <2>3. Finishing'
    BY <1>3, <2>1, <2>2 DEF Finishing, Control, NoQuery
  <2>4. Kept'
    BY <2>1, <2>2 DEF Kept
  <2> QED
    BY <1>6, <2>1, <2>3, <2>4
<1>8. CASE FinQuery
  <2>1. /\ lpc = "fin_query" /\ lpc' = "fin_prev" /\ DropQuery("fin_prev")
        /\ UNCHANGED <<toIms, fromIms>>
    BY <1>8 DEF FinQuery, DropQuery
  <2>2. Kept' /\ inst'.query = NoQuery /\ inst'.finished = inst.finished
    BY <1>4, <2>1, Frees
  <2>3. Finishing'
    BY <2>1, <2>2 DEF Closed, Finishing, Control, NoQuery
  <2> QED
    BY <1>6, <2>1, <2>2, <2>3
<1>9. CASE FinPrev
  <2>1. /\ lpc = "fin_prev" /\ lpc' = "read" /\ toIms' = Tail(toIms)
        /\ inst' = [inst EXCEPT !.rprev = FirstRprev, !.sprev = FirstSprev]
        /\ UNCHANGED <<fromIms, freed>>
    BY <1>9 DEF FinPrev
  <2>2. toIms = <<Control("fin")>> /\ inst.finished /\ inst.query = NoQuery
    BY <2>1 DEF Closed, Finishing
  <2>3. toIms' = << >>
    BY <2>1, <2>2, FinLine
  <2>4. inst'.query = inst.query /\ inst'.finished = inst.finished
    BY <1>1, <2>1 DEF Instance
  <2>5. Finishing'
    BY <2>1, <2>2, <2>3, <2>4 DEF Finishing, NoQuery
  <2>6. Kept'
    BY <2>1, <2>3, <2>4 DEF Kept
  <2> QED
    BY <1>6, <2>1, <2>5, <2>6
<1>10. toIms # << >> => Head(toIms).kind = "fin"
  BY <1>3, FinLine
<1> QED
  BY <1>7, <1>8, <1>9, <1>10
     DEF Listener, Hello, SetQuery, ResetQuery, ResetFlag, ResetPrev, Reads, Closed, Finishing

(* The query of the step is taken: the message under way is at rest or     *)
(* waits for it.                                                           *)
LEMMA TakesQuery ==
    ASSUME InstanceOK, PhoneOK, NEW p \in 0..8, Stage(p),
           (p = 2 /\ Taken = 0) \/ (p = 6 /\ Taken = 1),
           inst'.query.name = IF p = 2 THEN "401_unauthorized" ELSE "200_ok",
           inst'.query \in Query, inst'.sprev = inst.sprev, UNCHANGED <<worker, pending, wire, net, ue>>
    PROVE  Stage(p)'
<1>1. Fit(p, inst.query, inst.sprev) /\ Single(p) /\ p \in {2, 6}
  BY DEF Stage
<1>2. /\ p = 2 => inst.query = NoQuery
      /\ p = 6 => inst.query.name = "401_unauthorized"
  BY TakenIs
<1>3. inst'.query # NoQuery
  BY DEF Query, QueryNames, NoQuery, NULL
<1>4. Fit(p, inst.query, inst.sprev)'
  BY <1>1, <1>3 DEF Fit
<1>5. Exchange \in Int /\ Exchange' = Exchange
  BY DEF Exchange, PhoneOK, UeState
<1>6. ~Sending(p, Exchange, inst.query) /\ ~Sending(p - 1, Exchange, inst.query)
  <2>1. inst.query.name # "200_ok"
    BY <1>1, <1>2 DEF NoQuery, NULL
  <2>2. \A e \in {0, 1} : p # 4 * e /\ p - 1 # 4 * e
    BY <1>1
  <2> QED
    BY <2>1, <2>2 DEF Sending
<1>7. /\ Unanswered' = Unanswered /\ Nowhere' = Nowhere /\ \A m : Due(m)' = Due(m)
      /\ \A w \in Workers : At(w)' = At(w)
      /\ \A names : AnsweredBy(names)' = AnsweredBy(names)
  BY DEF Unanswered, Nowhere, Due, At, Calm, Quiet, AnsweredBy
<1>8. ue'.pc # "registered" /\ \A r \in wire' : r.n >= ue'.first => r.name # "ok"
  BY <1>1 DEF Single
<1>9. CASE Nowhere /\ Idling(p, Exchange, inst.query)
  <2>1. Idling(p, Exchange, inst.query)'
    BY <1>1, <1>5, <1>7, <1>9 DEF Idling
  <2> QED
    BY <1>1, <1>4, <1>7, <1>8, <1>9, <2>1 DEF Stage, Single
<1>10. CASE /\ Unanswered /\ Due(Reg(ue.n)) /\ Exchange \in {0, 1} /\ p = 4 * Exchange + 2
            /\ inst.sprev = Before(Exchange)
  BY <1>1, <1>4, <1>5, <1>7, <1>8, <1>10 DEF Stage, Single, Reg, Before
<1>11. CASE /\ Unanswered
            /\ \E w \in Workers :
                 /\ At(w) /\ worker[w].msg.n = ue.n
                 /\ Spot(p, Exchange, worker[w], inst.query, inst.sprev)
  <2>1. PICK w \in Workers : /\ At(w) /\ worker[w].msg.n = ue.n
                             /\ Spot(p, Exchange, worker[w], inst.query, inst.sprev)
    BY <1>11
  <2>2. /\ Exchange \in {0, 1} /\ p = 4 * Exchange + 2
        /\ Answering(Exchange, worker[w], inst.query, inst.sprev)
    <3>1. p # 4 /\ \A e \in {0, 1} : p # 4 * e + 3
      BY <1>1
    <3> QED
      BY <1>6, <2>1, <3>1 DEF Spot
  <2>3. inst.query.name # LabelOf(Exchange)
    BY <1>1, <1>2, <2>2 DEF LabelOf, NoQuery, NULL
  <2>4. Answering(Exchange, worker[w], inst.query, inst.sprev)'
    BY <1>5, <2>2, <2>3 DEF Answering, Before
  <2>5. Spot(p, Exchange, worker[w], inst.query, inst.sprev)'
    BY <1>5, <2>2, <2>4 DEF Spot
  <2> QED
    BY <1>1, <1>4, <1>7, <1>8, <1>11, <2>1, <2>5 DEF Stage, Single
<1> QED
  BY <1>1, <1>6, <1>9, <1>10, <1>11 DEF Single

(* In a session: a query, or the isIMSAlive of a read that timed out *)
LEMMA ListenerSession ==
    ASSUME ConnectionOK, InstanceOK, ListenerOK, ControlOK, PhoneOK, Kept, Session, Listener,
           UNCHANGED <<ctl, log, worker, pending, wire, net, ue, spc>>
    PROVE  Session' /\ Kept'
<1>1. inst \in Instance
  BY DEF InstanceOK
<1>2. inst'.sendq = inst.sendq
  BY ListenerKeeps
<1>3. ~inst.finished /\ lpc = "read" /\ Half
  BY DEF Session
<1>4. PICK p \in 0..8 : Stage(p) /\ Desk(p)
  BY DEF Session
<1>5. toIms # << >>
  BY <1>3 DEF Listener, Hello, SetQuery, ResetQuery, ResetFlag, ResetPrev, FinMark, FinQuery, FinPrev, Reads
<1>6. CASE ReadsOn(p)
  <2>1. /\ ctl.pc = "query" /\ Taken = ctl.msg - 1 /\ p = Base("query", ctl.msg)
        /\ Underway(ctl.msg)
    BY <1>5, <1>6 DEF ReadsOn
  <2>2. PICK q \in Query : /\ toIms = <<[kind |-> "query", query |-> q]>>
                           /\ q.name = IF ctl.msg = 1 THEN "401_unauthorized" ELSE "200_ok"
    BY <2>1 DEF Underway
  <2>3. Head(toIms).kind = "query" /\ Head(toIms).query = q /\ Tail(toIms) = << >>
    BY <2>2
  <2>4. SetQuery
    BY <1>3, <2>3 DEF Listener, Hello, SetQuery, ResetQuery, ResetFlag, ResetPrev, FinMark, FinQuery,
       FinPrev, Reads
  <2>5. inst' = [inst EXCEPT !.query = q] /\ toIms' = << >> /\ UNCHANGED <<fromIms, lpc, freed>>
    BY <2>3, <2>4 DEF SetQuery
  <2>6. inst'.query = q /\ inst'.sprev = inst.sprev /\ inst'.finished = inst.finished
    BY <1>1, <2>5 DEF Instance
  <2>7. (ctl.msg = 1 /\ p = 2 /\ Taken = 0) \/ (ctl.msg = 2 /\ p = 6 /\ Taken = 1)
    BY <2>1, QueryBase
  <2>8. q.name = IF p = 2 THEN "401_unauthorized" ELSE "200_ok"
    BY <2>2, <2>7
  <2>9. Stage(p)'
    BY <1>4, <2>6, <2>7, <2>8, TakesQuery
  <2>10. Taken' = ctl'.msg
    BY <2>2, <2>6, <2>7, <2>8 DEF Taken, Query, QueryNames, NoQuery, NULL
  <2>11. PICK a \in Nat : Tape(a, Base(ctl.pc, ctl.msg) + ctl.depth, p)
    BY <1>6 DEF ReadsOn
  <2>12. PICK c \in Nat : c = Base(ctl.pc, ctl.msg) + ctl.depth
    BY <1>3, <1>6, HalfBase DEF ReadsOn
  <2>13. Tape(a, c, p)'
    BY <1>2, <2>5, <2>11, <2>12, TapeStays
  <2>14. ReadsOn(p)'
    BY <1>6, <2>5, <2>10, <2>12, <2>13 DEF ReadsOn
  <2>15. Session'
    BY <1>3, <2>5, <2>6, <2>9, <2>14 DEF Session, Half, Desk
  <2>16. q.id <= ctl.sent /\ q.id \notin freed
    <3>1. 1 \in 1..Len(toIms) /\ toIms[1].kind = "query" /\ toIms[1].query = q
      BY <2>2
    <3> QED
      BY <3>1 DEF Kept
  <2>17. Kept'
    BY <2>5, <2>6, <2>16 DEF Kept
  <2> QED
    BY <2>15, <2>17
<1>7. CASE TimesOut
  <2>1. /\ ctl.pc = "alive_ack" /\ ctl.back \in {"query", "reply"} /\ ctl.name = "timeout"
        /\ toIms = <<Control("Hello")>> /\ fromIms = << >> /\ Stuck /\ Taken = ctl.msg
    BY <1>5, <1>7 DEF TimesOut
  <2>2. Head(toIms).kind = "Hello" /\ Tail(toIms) = << >>
    BY <2>1 DEF Control
  <2>3. Hello
    BY <1>3, <2>2 DEF Listener, Hello, SetQuery, ResetQuery, ResetFlag, ResetPrev, FinMark, FinQuery,
       FinPrev, Reads
  <2>4. toIms' = << >> /\ fromIms' = Append(<< >>, Ack) /\ UNCHANGED <<inst, lpc, freed>>
    BY <2>1, <2>2, <2>3 DEF Hello, WriteFromIms
  <2>5. fromIms' = <<Ack>>
    BY <2>4
  <2>6. Stuck' /\ Taken' = Taken
    BY <2>1, <2>4 DEF Stuck, Taken, Still, Free, Quiet, Waiting, Wanted, MaySend, Answered, Answer
  <2>7. TimesOut'
    BY <2>1, <2>4, <2>5, <2>6 DEF TimesOut
  <2>8. Stage(p)'
    BY <1>4, <2>4, StageStays
  <2>9. Session'
    BY <1>3, <2>4, <2>7, <2>8 DEF Session, Half, Desk
  <2>10. Kept'
    BY <2>4 DEF Kept
  <2> QED
    BY <2>9, <2>10
<1> QED
  BY <1>4, <1>5, <1>6, <1>7 DEF Desk

(* The listener's step keeps the invariant. *)
LEMMA ListenerReg ==
    ASSUME Inv, RegInv, ~crashed, ListenerStep
    PROVE  RegInv'
<1>1. ConnectionOK /\ InstanceOK /\ ListenerOK /\ ControlOK /\ PhoneOK
  BY Parts
<1>2. /\ Listener /\ UNCHANGED <<ctl, log, ue, net>>
      /\ UNCHANGED <<spc, worker, pending, wire, crashed>>
  BY DEF ListenerStep, control, phone, rest, Listener, Hello, SetQuery, ResetQuery, ResetFlag,
         ResetPrev, FinMark, FinQuery, FinPrev
<1>3. Numbered' /\ ModifiedAsReported' /\ AbortOnlyLate'
  BY <1>2, Elsewhere
<1>4. Logged' /\ Kept
  BY <1>2 DEF RegInv, Logged
<1>5. ASSUME Unused
      PROVE  Unused' /\ Kept' /\ (OnlyAcks => OnlyAcks') /\ (AcksLast => AcksLast')
  <2>1. Reset' /\ Kept' /\ (OnlyAcks => OnlyAcks') /\ (AcksLast => AcksLast')
    BY <1>1, <1>2, <1>4, <1>5, ListenerUnused DEF Unused
  <2>2. inst'.sendq = inst.sendq
    BY <1>1, <1>2, ListenerKeeps
  <2>3. Rests'
    BY <1>2, <1>5, <2>2, RestsStays DEF Unused
  <2> QED
    BY <1>2, <1>5, <2>1, <2>3 DEF Unused
<1>6. CASE Opening
  <2>1. Opening' /\ Kept'
    BY <1>2, <1>5, <1>6 DEF Opening
  <2> QED
    BY <1>3, <1>4, <2>1 DEF RegInv, Phases
<1>7. CASE Skipped
  <2>1. Skipped' /\ Kept'
    BY <1>2, <1>5, <1>7 DEF Skipped
  <2> QED
    BY <1>3, <1>4, <2>1 DEF RegInv, Phases
<1>8. CASE Closed
  <2>1. Closed' /\ Kept'
    BY <1>1, <1>2, <1>4, <1>8, ListenerClosed
  <2> QED
    BY <1>3, <1>4, <2>1 DEF RegInv, Phases
<1>9. CASE Session
  <2>1. Session' /\ Kept'
    BY <1>1, <1>2, <1>4, <1>9, ListenerSession
  <2> QED
    BY <1>3, <1>4, <2>1 DEF RegInv, Phases
<1> QED
  BY <1>6, <1>7, <1>8, <1>9 DEF RegInv, Phases

-----------------------------------------------------------------------------
(* Kamailio and the UE *)

(* What the controller is at does not depend on them, but for a timeout. *)
LEMMA DeskStays ==
    ASSUME PhoneOK, PhoneOK', NEW p, Desk(p), UNCHANGED <<toIms, fromIms, inst, spc, ctl>>,
           ue'.first = ue.first, ue'.n >= ue.n, Stuck => Stuck'
    PROVE  Desk(p)'
<1>1. Taken' = Taken
  BY DEF Taken
<1>2. CASE ctl.pc = "post" /\ toIms = << >> /\ NoAcks
  BY <1>2 DEF Desk, NoAcks
<1>3. CASE /\ ctl.pc = "step" /\ p = Base("query", ctl.msg) /\ Taken = ctl.msg - 1
           /\ toIms = << >> /\ fromIms = << >> /\ SenderQuiet
  BY <1>1, <1>3 DEF Desk, SenderQuiet
<1>4. CASE ReadsOn(p)
  <2>1. \A l, i : Fits(l, i) => Fits(l, i)'
    <3>1. ue.first \in Nat /\ ue.n \in Nat /\ ue'.n \in Nat
      BY DEF PhoneOK, UeState
    <3>2. ue.first..ue.n \subseteq ue'.first..ue'.n
      BY <3>1
    <3> QED
      BY <3>2 DEF Fits
  <2>2. PICK a \in Nat : Tape(a, Base(ctl.pc, ctl.msg) + ctl.depth, p)
    BY <1>4 DEF ReadsOn
  <2>3. PICK c : c = Base(ctl.pc, ctl.msg) + ctl.depth
    OBVIOUS
  <2>4. Tape(a, c, p)'
    BY <2>1, <2>2, <2>3 DEF Tape, Queued
  <2>5. ReadsOn(p)'
    BY <1>1, <1>4, <2>3, <2>4 DEF ReadsOn, Underway
  <2> QED
    BY <2>5 DEF Desk
<1>5. CASE TimesOut
  BY <1>1, <1>5 DEF Desk, TimesOut
<1> QED
  BY <1>2, <1>3, <1>4, <1>5 DEF Desk

(* A message that is on its way reaches a process: the phase is a session, *)
(* or the session's end.                                                   *)
LEMMA MessageTaken ==
    ASSUME Inv, Inv', RegInv, ~crashed, NEW w \in Workers, worker[w] = Idle,
           net # {} \/ pending # {},
           \A v \in Workers \ {w} : worker'[v] = worker[v],
           worker'[w].msg.n <= ue.n, net' \subseteq net, pending' \subseteq pending,
           UNCHANGED <<toIms, fromIms, lpc, spc, freed, inst, wire, crashed, ctl, log, ue>>,
           NEW p \in 0..8, Session => Desk(p) /\ Stage(p)'
    PROVE  RegInv'
<1>1. WorkersOK /\ PhoneOK /\ PhoneOK'
  BY Parts DEF Inv, SessionTypeOK, PhoneOK, UeState
<1>2. w \in Free
  BY DEF Free
<1>3. ~Still /\ ~Rests
  BY <1>2 DEF Still, Rests
<1>4. Numbered'
  BY <1>2 DEF RegInv, Numbered, Quiet
<1>5. Logged' /\ Kept' /\ ModifiedAsReported' /\ AbortOnlyLate'
  BY DEF RegInv, Logged, Kept, ModifiedAsReported, AbortOnlyLate
<1>6. CASE Closed
  <2>1. Finishing'
    BY <1>3, <1>6 DEF Closed, Finishing, Control, NoQuery
  <2>2. Closed'
    BY <1>3, <1>6, <2>1 DEF Closed, NoAcks
  <2> QED
    BY <1>4, <1>5, <2>2 DEF RegInv, Phases
<1>7. CASE Session
  <2>1. Desk(p) /\ Stage(p)'
    BY <1>7
  <2>2. (Stuck => Stuck') /\ ue'.first = ue.first /\ ue'.n >= ue.n
    BY <1>1, <1>3 DEF Stuck, PhoneOK, UeState
  <2>3. Desk(p)'
    BY <1>1, <2>1, <2>2, DeskStays
  <2>4. Session'
    BY <1>7, <2>1, <2>3 DEF Session, Half
  <2> QED
    BY <1>4, <1>5, <2>4 DEF RegInv, Phases
<1> QED
  BY <1>3, <1>6, <1>7 DEF RegInv, Phases, Opening, Skipped, Unused

(* A request reaches a process. *)
LEMMA ArriveReg ==
    ASSUME Inv, Inv', RegInv, ~crashed, Arrive
    PROVE  RegInv'
<1>1. WorkersOK /\ PhoneOK
  BY Parts
<1>2. PICK w \in Workers, m \in net : Receive(w, m) /\ net' = net \ {m}
  BY DEF Arrive
<1>3. /\ worker[w] = Idle
      /\ UNCHANGED <<toIms, fromIms, lpc, spc, freed, inst, pending, wire, crashed, ctl, log, ue>>
  BY <1>2 DEF Arrive, Receive, channel, control
<1>4. PICK j : j.pc = "label" /\ j.msg = m /\ worker' = [worker EXCEPT ![w] = j]
  BY <1>2 DEF Receive
<1>5. /\ worker'[w] = j /\ \A v \in Workers \ {w} : worker'[v] = worker[v]
  BY <1>1, <1>4, OneMoves
<1>b. ~Dead
  BY <1>3 DEF Dead, Idle
<1>a. PICK p \in 0..8 : Session => Stage(p) /\ Desk(p)
  BY DEF Session
<1>6. ASSUME Stage(p) PROVE Stage(p)'
  <2>1. Fit(p, inst.query, inst.sprev)'
    BY <1>3, <1>6 DEF Stage, Fit
  <2>2. CASE p = 8
    <3>1. m.name # "unauthorized"
      BY <1>1, <1>2 DEF PhoneOK, Request, RequestNames
    <3>2. Loose(j)
      BY <1>4, <3>1 DEF Loose
    <3>3. \A v \in Workers : Loose(worker[v])'
      BY <1>5, <1>6, <2>2, <3>2 DEF Stage, Loose
    <3> QED
      BY <2>1, <2>2, <3>3 DEF Stage
  <2>3. CASE p < 8
    <3>1. Single(p)
      BY <1>6, <2>3 DEF Stage
    <3>2. Unanswered /\ OnNet(Reg(ue.n)) /\ Sending(p, Exchange, inst.query)
      BY <1>2, <1>b, <3>1 DEF Single, Nowhere, Due, At
    <3>3. m = Reg(ue.n) /\ net' = {} /\ pending' = {} /\ Calm
      BY <1>2, <1>3, <3>2 DEF OnNet
    <3>4. At(w)' /\ worker'[w].msg.n = ue'.n
      BY <1>3, <1>4, <1>5, <3>3 DEF At, Reg, Calm, Quiet
    <3>5. Spot(p, Exchange, worker[w], inst.query, inst.sprev)'
      BY <1>3, <1>4, <1>5, <3>2, <3>3 DEF Spot, Sending, Exchange, Reg
    <3>6. Unanswered' /\ ue'.pc # "registered" /\ \A r \in wire' : r.n >= ue'.first => r.name # "ok"
      BY <1>3, <3>1, <3>2 DEF Unanswered, Single
    <3>7. Single(p)'
      BY <3>4, <3>5, <3>6 DEF Single
    <3> QED
      BY <2>1, <2>3, <3>7 DEF Stage
  <2> QED
    BY <2>2, <2>3
<1>7. worker'[w].msg.n <= ue.n /\ net # {} /\ net' \subseteq net /\ pending' \subseteq pending
  BY <1>2, <1>3, <1>4, <1>5 DEF RegInv, Numbered
<1> QED
  BY <1>3, <1>5, <1>6, <1>7, <1>a, MessageTaken

(* The IMS answers. *)
LEMMA ConcludeReg ==
    ASSUME Inv, Inv', RegInv, ~crashed, Conclude
    PROVE  RegInv'
<1>1. WorkersOK /\ PhoneOK /\ MessagesOK
  BY Parts
<1>2. PICK w \in Workers, m \in pending : \E name \in Outcomes(m) : Respond(w, [name |-> name, n |-> m.n])
  BY DEF Conclude
<1>3. PICK name \in Outcomes(m) : Respond(w, [name |-> name, n |-> m.n])
  BY <1>2
<1>4. PICK r \in pending : r.n = m.n /\ pending' = pending \ {r}
  BY <1>3 DEF Respond
<1>5. /\ worker[w] = Idle
      /\ UNCHANGED <<toIms, fromIms, lpc, spc, freed, inst, wire, crashed, ctl, log, ue, net>>
  BY <1>3 DEF Conclude, Respond, channel, control, phone
<1>6. PICK j : /\ j.pc = "next" /\ j.msg.n = m.n /\ j.msg.name = name /\ j.rep = 0
               /\ worker' = [worker EXCEPT ![w] = j]
  BY <1>3 DEF Respond
<1>7. /\ worker'[w] = j /\ \A v \in Workers \ {w} : worker'[v] = worker[v]
  BY <1>1, <1>6, OneMoves
<1>b. ~Dead
  BY <1>5 DEF Dead, Idle
<1>a. PICK p \in 0..8 : Session => Stage(p) /\ Desk(p)
  BY DEF Session
<1>8. ASSUME Stage(p) PROVE Stage(p)'
  <2>1. Fit(p, inst.query, inst.sprev)'
    BY <1>5, <1>8 DEF Stage, Fit
  <2>2. CASE p = 8
    <3>1. Loose(j)
      BY <1>6 DEF Loose
    <3>2. \A v \in Workers : Loose(worker[v])'
      BY <1>7, <1>8, <2>2, <3>1 DEF Stage, Loose
    <3> QED
      BY <2>1, <2>2, <3>2 DEF Stage
  <2>3. CASE p < 8
    <3>1. Single(p)
      BY <1>8, <2>3 DEF Stage
    <3>2. /\ Unanswered /\ Due(Reg(ue.n)) /\ Exchange \in {0, 1} /\ p = 4 * Exchange + 2
          /\ inst.sprev = Before(Exchange)
      BY <1>2, <1>b, <3>1 DEF Single, Nowhere, OnNet, At
    <3>3. m = Reg(ue.n) /\ r = Reg(ue.n) /\ net' = {} /\ pending' = {} /\ Calm
      BY <1>2, <1>4, <1>5, <3>2 DEF Due
    <3>4. At(w)' /\ worker'[w].msg.n = ue'.n
      BY <1>5, <1>6, <1>7, <3>3 DEF At, Reg, Calm, Quiet
    <3>5. Exchange = 0 => name # "ok"
      <4>1. ASSUME Exchange = 0 PROVE ~Challenged
        <5>1. ue.n = ue.first /\ ue.n \in Nat
          BY <1>1, <4>1 DEF Exchange, PhoneOK, UeState
        <5>2. \A x \in wire : x.n \in Nat /\ x.n < ue.n
          BY <1>1, <3>2 DEF Unanswered, MessagesOK, Sent
        <5> QED
          BY <5>1, <5>2 DEF Challenged
      <4>2. m.name = "register"
        BY <3>3 DEF Reg
      <4> QED
        BY <1>3, <4>1, <4>2 DEF Outcomes
    <3>6. Answering(Exchange, worker[w], inst.query, inst.sprev)'
      BY <1>5, <1>6, <1>7, <3>2, <3>5 DEF Answering, Exchange, Before
    <3>7. Exchange' = Exchange
      BY <1>5 DEF Exchange
    <3>8. Spot(p, Exchange, worker[w], inst.query, inst.sprev)'
      BY <3>2, <3>6, <3>7 DEF Spot
    <3>9. Unanswered' /\ ue'.pc # "registered" /\ \A x \in wire' : x.n >= ue'.first => x.name # "ok"
      BY <1>5, <3>1, <3>2 DEF Unanswered, Single
    <3>10. Single(p)'
      BY <3>4, <3>8, <3>9 DEF Single
    <3> QED
      BY <2>1, <2>3, <3>10 DEF Stage
  <2> QED
    BY <2>2, <2>3
<1>9. worker'[w].msg.n <= ue.n /\ pending # {} /\ net' \subseteq net /\ pending' \subseteq pending
  BY <1>2, <1>4, <1>5, <1>6, <1>7 DEF RegInv, Numbered
<1> QED
  BY <1>5, <1>7, <1>8, <1>9, <1>a, MessageTaken

(* Where the UE's message is when it may go on *)
LEMMA MayGoOn ==
    ASSUME PhoneOK, MessagesOK, Numbered, NEW p \in 0..7, Single(p),
           ue.pc = "ready" \/ \E name : Answered(name)
    PROVE  /\ ~Answered("ok") /\ ue.pc # "registered"
           /\ \/ p = 0 /\ Dead
              \/ /\ Nowhere /\ ~Unanswered
                 /\ \/ ue.pc = "ready" /\ p = 0 /\ Exchange = -1
                    \/ p = 2 /\ AnsweredBy({"forbidden"}) /\ Answered("forbidden") /\ ~Answered("unauthorized")
                    \/ p = 4 /\ Exchange = 0 /\ AnsweredBy({"unauthorized"}) /\ ue.pc # "ready"
                    \/ /\ p = 6 /\ Exchange >= 1 /\ inst.query.name = "200_ok" /\ ue.pc # "ready"
                       /\ AnsweredBy({"unauthorized", "forbidden"})
<1>1. ~Unanswered
  <2>1. \A r \in wire : r.n \in Nat /\ ue.n \in Nat
    BY DEF MessagesOK, PhoneOK, Sent, UeState
  <2> QED
    BY <2>1 DEF Unanswered, Answered, Answer
<1>2. ue.pc # "registered" /\ \A r \in wire : r.n >= ue.first => r.name # "ok"
  BY DEF Single
<1>3. ~Answered("ok")
  <2>1. ue.pc = "waiting" => ue.n >= ue.first
    BY DEF Numbered
  <2> QED
    BY <1>2, <2>1 DEF Answered, Answer
<1>4. (p = 0 /\ Dead) \/ (Nowhere /\ Idling(p, Exchange, inst.query))
  BY <1>1 DEF Single
<1>5. ASSUME Idling(p, Exchange, inst.query)
      PROVE  \/ ue.pc = "ready" /\ p = 0 /\ Exchange = -1
             \/ p = 2 /\ AnsweredBy({"forbidden"}) /\ Answered("forbidden") /\ ~Answered("unauthorized")
             \/ p = 4 /\ Exchange = 0 /\ AnsweredBy({"unauthorized"}) /\ ue.pc # "ready"
             \/ /\ p = 6 /\ Exchange >= 1 /\ inst.query.name = "200_ok" /\ ue.pc # "ready"
                /\ AnsweredBy({"unauthorized", "forbidden"})
  <2>1. \A names : AnsweredBy(names) => ue.pc # "ready"
    BY DEF AnsweredBy
  <2>2. ASSUME p = 2, AnsweredBy({"forbidden"}) PROVE Answered("forbidden") /\ ~Answered("unauthorized")
    <3>1. PICK name : Answered(name)
      BY <2>1, <2>2
    <3> QED
      BY <2>2, <3>1 DEF AnsweredBy, Answered, Answer
  <2> QED
    BY <1>1, <1>5, <2>1, <2>2 DEF Idling, Answered
<1> QED
  BY <1>1, <1>2, <1>3, <1>4, <1>5

(* The next request leaves the UE. *)
LEMMA StageSends ==
    ASSUME PhoneOK, PhoneOK', MessagesOK, Numbered, NEW p \in 0..8, Stage(p), MaySend, UeRegister
    PROVE  Stage(p)'
<1>1. /\ net' = net \cup {Reg(ue.n + 1)} /\ ue' = [ue EXCEPT !.pc = "waiting", !.n = ue.n + 1]
      /\ UNCHANGED <<inst, worker, pending, wire>>
  BY DEF UeRegister, UeSend, Reg, vars
<1>2. ue'.pc = "waiting" /\ ue'.n = ue.n + 1 /\ ue'.first = ue.first /\ ue.n \in Nat /\ ue.first \in Nat
  BY <1>1 DEF PhoneOK, UeState
<1>3. Fit(p, inst.query, inst.sprev)'
  BY <1>1 DEF Stage, Fit
<1>4. CASE p = 8
  BY <1>1, <1>3, <1>4 DEF Stage, Loose
<1>5. CASE p < 8
  <2>1. Single(p) /\ p \in 0..7
    BY <1>5 DEF Stage
  <2>2. ue.pc = "ready" \/ Answered("unauthorized")
    BY DEF MaySend
  <2>3. /\ ~Answered("ok") /\ ue.pc # "registered"
        /\ \/ p = 0 /\ Dead
           \/ /\ Nowhere /\ ~Unanswered
              /\ \/ ue.pc = "ready" /\ p = 0 /\ Exchange = -1
                 \/ p = 2 /\ AnsweredBy({"forbidden"}) /\ Answered("forbidden") /\ ~Answered("unauthorized")
                 \/ p = 4 /\ Exchange = 0 /\ AnsweredBy({"unauthorized"}) /\ ue.pc # "ready"
                 \/ /\ p = 6 /\ Exchange >= 1 /\ inst.query.name = "200_ok" /\ ue.pc # "ready"
                    /\ AnsweredBy({"unauthorized", "forbidden"})
    BY <2>1, <2>2, MayGoOn
  <2>4. ue'.pc # "registered" /\ \A r \in wire' : r.n >= ue'.first => r.name # "ok"
    BY <1>1, <1>2, <2>1 DEF Single
  <2>5. CASE p = 0 /\ Dead
    BY <1>1, <1>3, <1>5, <2>4, <2>5 DEF Stage, Single, Dead
  <2>6. CASE ~(p = 0 /\ Dead)
    <3>1. /\ Nowhere
          /\ \/ p = 0 /\ Exchange = -1
             \/ p = 4 /\ Exchange = 0
             \/ p = 6 /\ Exchange >= 1 /\ inst.query.name = "200_ok"
      BY <2>2, <2>3, <2>6 DEF AnsweredBy
    <3>2. Exchange' = Exchange + 1 /\ Exchange \in Int
      BY <1>2 DEF Exchange
    <3>3. Sending(p, Exchange, inst.query)'
      <4>1. CASE p = 0 /\ Exchange = -1
        BY <3>2, <4>1 DEF Sending
      <4>2. CASE p = 4 /\ Exchange = 0
        BY <3>2, <4>2 DEF Sending
      <4>3. CASE p = 6 /\ Exchange >= 1 /\ inst.query.name = "200_ok"
        BY <1>1, <3>2, <4>3 DEF Sending
      <4> QED
        BY <3>1, <4>1, <4>2, <4>3
    <3>4. Unanswered'
      <4>1. \A r \in wire : r.n \in Nat /\ r.n <= ue.n
        BY DEF MessagesOK, Sent, Numbered
      <4> QED
        BY <1>1, <1>2, <4>1 DEF Unanswered
    <3>5. OnNet(Reg(ue.n))'
      BY <1>1, <1>2, <3>1 DEF OnNet, Nowhere, Calm, Quiet, Reg
    <3>6. Single(p)'
      BY <2>4, <3>3, <3>4, <3>5 DEF Single
    <3> QED
      BY <1>3, <1>5, <3>6 DEF Stage
  <2> QED
    BY <2>5, <2>6
<1> QED
  BY <1>4, <1>5

(* The UE gives up. *)
LEMMA StageStops ==
    ASSUME PhoneOK, MessagesOK, Numbered, NEW p \in 0..8, Stage(p), MaySend \/ Answered("forbidden"),
           ue' = [ue EXCEPT !.pc = "stopped"], UNCHANGED <<inst, worker, pending, wire, net>>
    PROVE  Stage(p)'
<1>1. ue'.pc = "stopped" /\ ue'.n = ue.n /\ ue'.first = ue.first
  BY DEF PhoneOK, UeState
<1>2. Fit(p, inst.query, inst.sprev)'
  BY DEF Stage, Fit
<1>3. CASE p = 8
  BY <1>2, <1>3 DEF Stage, Loose
<1>4. CASE p < 8
  <2>1. Single(p) /\ p \in 0..7
    BY <1>4 DEF Stage
  <2>2. ue.pc = "ready" \/ \E name : Answered(name)
    BY DEF MaySend
  <2>3. /\ ~Answered("ok") /\ ue.pc # "registered"
        /\ \/ p = 0 /\ Dead
           \/ /\ Nowhere /\ ~Unanswered
              /\ \/ ue.pc = "ready" /\ p = 0 /\ Exchange = -1
                 \/ p = 2 /\ AnsweredBy({"forbidden"}) /\ Answered("forbidden") /\ ~Answered("unauthorized")
                 \/ p = 4 /\ Exchange = 0 /\ AnsweredBy({"unauthorized"}) /\ ue.pc # "ready"
                 \/ /\ p = 6 /\ Exchange >= 1 /\ inst.query.name = "200_ok" /\ ue.pc # "ready"
                    /\ AnsweredBy({"unauthorized", "forbidden"})
    BY <2>1, <2>2, MayGoOn
  <2>4. ue'.pc # "registered" /\ \A r \in wire' : r.n >= ue'.first => r.name # "ok"
    BY <1>1, <2>1 DEF Single
  <2>5. CASE p = 0 /\ Dead
    BY <1>2, <1>4, <2>4, <2>5 DEF Stage, Single, Dead
  <2>6. CASE ~(p = 0 /\ Dead)
    <3>1. Nowhere' /\ Exchange' = Exchange
      BY <1>1, <2>3, <2>6 DEF Nowhere, Calm, Quiet, Exchange
    <3>2. \A names : AnsweredBy(names) => AnsweredBy(names)'
      BY <1>1 DEF AnsweredBy
    <3>3. Idling(p, Exchange, inst.query)'
      BY <1>1, <2>3, <2>6, <3>1, <3>2 DEF Idling
    <3>4. Single(p)'
      BY <2>4, <3>1, <3>3 DEF Single
    <3> QED
      BY <1>2, <1>4, <3>4 DEF Stage
  <2> QED
    BY <2>5, <2>6
<1> QED
  BY <1>3, <1>4

(* A step of the UE keeps the invariant: it is in a session. *)
LEMMA UeReg ==
    ASSUME Inv, Inv', RegInv, ~crashed, UeStep
    PROVE  RegInv'
<1>1. PhoneOK /\ PhoneOK' /\ MessagesOK /\ ControlOK
  BY Parts DEF Inv, SessionTypeOK, PhoneOK, UeState
<1>2. /\ UNCHANGED <<toIms, fromIms, inst, lpc, spc, worker, freed, pending, wire, crashed>>
      /\ UNCHANGED <<ctl, log>>
  BY DEF UeStep, UeRegister, UeAccepted, UeSubscribe, UeGiveUp, UeSend, vars, control
<1>3. ue.pc # "off"
  BY DEF UeStep, UeRegister, UeAccepted, UeSubscribe, UeGiveUp, MaySend, Answered
<1>4. Session
  BY <1>3 DEF RegInv, Phases, Opening, Skipped, Unused, Rests, Closed
<1>5. PICK p \in 0..8 : Stage(p) /\ Desk(p)
  BY <1>4 DEF Session
<1>6. Kept' /\ ModifiedAsReported' /\ AbortOnlyLate'
  BY <1>2 DEF RegInv, Kept, ModifiedAsReported, AbortOnlyLate
<1>7. Numbered
  BY DEF RegInv
<1>8. ue.n \in Nat /\ ue.first \in Nat
  BY <1>1 DEF PhoneOK, UeState
<1>9. ASSUME ue'.first = ue.first, ue'.n >= ue.n, Stage(p)', Stuck => Stuck', Numbered'
      PROVE  RegInv'
  <2>1. Desk(p)'
    BY <1>1, <1>2, <1>5, <1>9, DeskStays
  <2>2. Session'
    BY <1>2, <1>4, <1>9, <2>1 DEF Session, Half
  <2>3. ue'.n \in Nat
    BY <1>1 DEF PhoneOK, UeState
  <2>4. ue.first..ue.n \subseteq ue'.first..ue'.n
    BY <1>8, <1>9, <2>3
  <2>5. Logged'
    BY <1>2, <2>4 DEF RegInv, Logged
  <2> QED
    BY <1>6, <1>9, <2>2, <2>5 DEF RegInv, Phases
<1>10. ASSUME NEW name \in RequestNames, NEW pc, UeSend(name, pc)
       PROVE  ue'.n = ue.n + 1 /\ ue'.first = ue.first /\ ue'.pc = pc /\ ue'.n >= ue.n /\ Numbered'
  <2>1. net' = net \cup {[name |-> name, n |-> ue.n + 1]} /\ ue' = [ue EXCEPT !.pc = pc, !.n = ue.n + 1]
    BY <1>10 DEF UeSend
  <2>2. ue'.n = ue.n + 1 /\ ue'.first = ue.first /\ ue'.pc = pc
    BY <1>1, <2>1 DEF PhoneOK, UeState
  <2>3. \A m \in net \cup pending \cup wire : m.n \in Nat /\ m.n <= ue.n
    BY <1>1, <1>7 DEF Numbered, PhoneOK, MessagesOK, Request, Sent
  <2>4. \A m \in net' \cup pending' \cup wire' : m.n <= ue'.n
    BY <1>2, <1>8, <2>1, <2>2, <2>3
  <2>5. \A w \in Workers : ~Quiet(w) => worker[w].msg.n \in Nat /\ worker[w].msg.n <= ue.n
    <3>1. WorkersOK
      BY Parts
    <3> QED
      BY <1>7, <3>1, AtWork, SipAssumption DEF Numbered, Quiet
  <2>6. (\A w \in Workers : ~Quiet(w) => worker[w].msg.n <= ue.n)'
    BY <1>2, <1>8, <2>2, <2>5 DEF Quiet
  <2>7. ue'.n >= ue'.first /\ ue'.n >= ue'.first - 1
    BY <1>7, <1>8, <2>2 DEF Numbered
  <2>8. ue'.n >= ue.n
    BY <1>8, <2>2
  <2> QED
    BY <2>2, <2>4, <2>6, <2>7, <2>8 DEF Numbered
<1>11. CASE UeRegister
  <2>1. MaySend /\ UeSend("register", "waiting")
    BY <1>11 DEF UeRegister
  <2>2. Stuck => Stuck'
    BY <1>2, <2>1 DEF Stuck
  <2>3. Stage(p)'
    BY <1>1, <1>5, <1>7, <1>11, <2>1, StageSends
  <2>4. ue'.n = ue.n + 1 /\ ue'.first = ue.first /\ ue'.n >= ue.n /\ Numbered'
    BY <1>10, <2>1 DEF RequestNames
  <2> QED
    BY <1>9, <2>2, <2>3, <2>4
<1>12. CASE UeAccepted
  <2>1. Answered("ok") /\ ue' = [ue EXCEPT !.pc = "registered"] /\ net' = net
    BY <1>12 DEF UeAccepted
  <2>2. ue'.n = ue.n /\ ue'.first = ue.first
    BY <1>1, <2>1 DEF PhoneOK, UeState
  <2>3. p = 8
    <3>1. ASSUME p \in 0..7 PROVE FALSE
      <4>1. Single(p)
        BY <1>5, <3>1 DEF Stage
      <4> QED
        BY <1>1, <1>7, <2>1, <3>1, <4>1, MayGoOn
    <3> QED
      BY <3>1
  <2>4. Stage(p)'
    BY <1>2, <1>5, <2>3 DEF Stage, Fit, Loose
  <2>5. Numbered'
    BY <1>2, <1>7, <2>1, <2>2 DEF Numbered, Quiet, Answered
  <2> QED
    BY <1>2, <1>8, <1>9, <2>1, <2>2, <2>4, <2>5 DEF Stuck
<1>13. CASE UeSubscribe
  <2>1. ue.pc = "registered" /\ UeSend("subscribe", "registered")
    BY <1>13 DEF UeSubscribe
  <2>2. p = 8
    BY <1>5, <2>1 DEF Stage, Single
  <2>3. Stage(p)'
    BY <1>2, <1>5, <2>2 DEF Stage, Fit, Loose
  <2>4. ue'.n = ue.n + 1 /\ ue'.first = ue.first /\ ue'.n >= ue.n /\ Numbered'
    BY <1>10, <2>1 DEF RequestNames
  <2> QED
    BY <1>2, <1>9, <2>1, <2>3, <2>4 DEF Stuck
<1>14. CASE UeGiveUp
  <2>1. (MaySend \/ Answered("forbidden")) /\ ue' = [ue EXCEPT !.pc = "stopped"] /\ net' = net
    BY <1>14 DEF UeGiveUp
  <2>2. ue'.n = ue.n /\ ue'.first = ue.first /\ ue'.pc = "stopped"
    BY <1>1, <2>1 DEF PhoneOK, UeState
  <2>3. Stage(p)'
    BY <1>1, <1>2, <1>5, <1>7, <2>1, StageStops
  <2>4. Numbered'
    BY <1>2, <1>7, <2>1, <2>2 DEF Numbered, Quiet
  <2>5. Stuck => Stuck'
    BY <1>2, <2>1, <2>2 DEF Stuck, Still, Free, Quiet, Waiting, Wanted, MaySend, Answered
  <2> QED
    BY <1>8, <1>9, <2>2, <2>3, <2>4, <2>5
<1> QED
  BY <1>11, <1>12, <1>13, <1>14 DEF UeStep

-----------------------------------------------------------------------------
(* The controller *)

(* What a step that only reads and writes lines leaves alone *)
LEMMA ControllerFrame ==
    ASSUME RegInv, ~crashed, UNCHANGED <<inst, lpc, spc, worker, freed, pending, wire, crashed, ue, net>>
    PROVE  /\ Numbered' /\ ModifiedAsReported' /\ AbortOnlyLate'
           /\ (Rests => Rests') /\ (Still => Still') /\ (Stuck => Stuck') /\ Taken' = Taken
           /\ (inst.query = NoQuery => inst'.query = NoQuery) /\ inst'.finished = inst.finished
<1>1. Numbered' /\ ModifiedAsReported' /\ AbortOnlyLate'
  BY Elsewhere
<1>2. (Rests => Rests') /\ (Still => Still')
  BY RestsStays
<1>3. Stuck => Stuck'
  BY <1>2 DEF Stuck, Quiet, Waiting, Wanted, MaySend, Answered, Answer
<1> QED
  BY <1>1, <1>2, <1>3 DEF Taken

(* The instance is at rest when it is quiet and no session is open. *)
LEMMA QuietRests ==
    ASSUME ImsQuiet, ue.pc = "off", inst.finished \/ Rests
    PROVE  Rests
<1>1. CASE inst.finished
  <2>1. \A w \in Workers : Quiet(w)
    BY <1>1 DEF ImsQuiet, Waiting, Quiet
  <2> QED
    BY <2>1 DEF ImsQuiet, Rests, Calm, Still
<1> QED
  BY <1>1

(* The first line is read. *)
LEMMA LineRead ==
    ASSUME ConnectionOK, fromIms # << >>, fromIms' = Tail(fromIms)
    PROVE  /\ Len(fromIms) \in Nat \ {0} /\ Len(fromIms') = Len(fromIms) - 1
           /\ \A i \in 1..Len(fromIms') : i + 1 \in 1..Len(fromIms) /\ fromIms'[i] = fromIms[i + 1]
           /\ 1 \in 1..Len(fromIms) /\ Head(fromIms) = fromIms[1]
           /\ Head(fromIms) \in Report \cup {Ack}
<1>1. /\ Len(fromIms) \in Nat \ {0} /\ Len(fromIms') = Len(fromIms) - 1 /\ Head(fromIms) = fromIms[1]
      /\ Head(fromIms) \in Report \cup {Ack}
      /\ \A k \in 1..Len(fromIms) - 1 : fromIms'[k] = fromIms[k + 1]
  BY Shifted DEF ConnectionOK
<1> QED
  BY <1>1

(* What is left unread when a line is read *)
LEMMA AcksRead ==
    ASSUME ConnectionOK, fromIms # << >>, fromIms' = Tail(fromIms)
    PROVE  /\ OnlyAcks => OnlyAcks'
           /\ NoAcks => NoAcks'
           /\ AcksLast => AcksLast'
           /\ AcksLast /\ Head(fromIms) = Ack => OnlyAcks'
<1>1. /\ Len(fromIms) \in Nat \ {0} /\ Len(fromIms') = Len(fromIms) - 1
      /\ \A i \in 1..Len(fromIms') : i + 1 \in 1..Len(fromIms) /\ fromIms'[i] = fromIms[i + 1]
      /\ 1 \in 1..Len(fromIms) /\ Head(fromIms) = fromIms[1]
  BY LineRead
<1>2. (OnlyAcks => OnlyAcks') /\ (NoAcks => NoAcks')
  BY <1>1 DEF OnlyAcks, NoAcks
<1>3. ASSUME AcksLast PROVE AcksLast' /\ (Head(fromIms) = Ack => OnlyAcks')
  <2>1. PICK a \in 0..Len(fromIms) : \A i \in 1..Len(fromIms) : fromIms[i] = Ack <=> i > a
    BY <1>3 DEF AcksLast
  <2>2. CASE a = 0
    <3>1. \A i \in 1..Len(fromIms') : fromIms'[i] = Ack
      BY <1>1, <2>1, <2>2
    <3>2. OnlyAcks'
      BY <3>1 DEF OnlyAcks
    <3>3. 0 \in 0..Len(fromIms') /\ \A i \in 1..Len(fromIms') : fromIms'[i] = Ack <=> i > 0
      BY <1>1, <3>1
    <3> QED
      BY <3>2, <3>3 DEF AcksLast
  <2>3. CASE a > 0
    <3>1. a - 1 \in 0..Len(fromIms')
      BY <1>1, <2>3
    <3>2. \A i \in 1..Len(fromIms') : fromIms'[i] = Ack <=> i > a - 1
      BY <1>1, <2>1, <2>3
    <3>3. Head(fromIms) # Ack
      BY <1>1, <2>1, <2>3
    <3> QED
      BY <3>1, <3>2, <3>3 DEF AcksLast
  <2> QED
    BY <2>2, <2>3
<1> QED
  BY <1>2, <1>3

(* A control line is written. *)
LEMMA ControlOut ==
    ASSUME ConnectionOK, NEW k \in {"Hello", "init", "fin"}, WriteToIms(Control(k))
    PROVE  /\ Len(toIms') = Len(toIms) + 1 /\ Len(toIms) \in Nat
           /\ \A i \in 1..Len(toIms) : toIms'[i] = toIms[i]
           /\ toIms'[Len(toIms) + 1] = Control(k) /\ Control(k).kind = k
           /\ \A i \in 1..Len(toIms') : i \in 1..Len(toIms) \/ i = Len(toIms) + 1
           /\ toIms = << >> => toIms' = <<Control(k)>>
<1>1. toIms' = Append(toIms, Control(k)) /\ toIms \in Seq(Line) /\ Control(k) \in Line
  BY ControlLine DEF WriteToIms, ConnectionOK
<1>2. /\ Len(toIms') = Len(toIms) + 1 /\ Len(toIms) \in Nat
      /\ \A i \in 1..Len(toIms) : toIms'[i] = toIms[i]
      /\ toIms'[Len(toIms) + 1] = Control(k)
  BY <1>1, Appended
<1>3. \A i \in 1..Len(toIms') : i \in 1..Len(toIms) \/ i = Len(toIms) + 1
  BY <1>2
<1>4. Control(k).kind = k
  BY DEF Control
<1>5. toIms = << >> => toIms' = <<Control(k)>>
  BY <1>1
<1> QED
  BY <1>2, <1>3, <1>4, <1>5

(* The queries on their way are not freed by it. *)
LEMMA KeptOut ==
    ASSUME ConnectionOK, NEW k \in {"Hello", "init", "fin"}, WriteToIms(Control(k)), Kept,
           UNCHANGED <<inst, freed>>, ctl'.sent = ctl.sent
    PROVE  Kept'
<1>1. /\ \A i \in 1..Len(toIms) : toIms'[i] = toIms[i]
      /\ toIms'[Len(toIms) + 1].kind # "query"
      /\ \A i \in 1..Len(toIms') : i \in 1..Len(toIms) \/ i = Len(toIms) + 1
  BY ControlOut
<1> QED
  BY <1>1 DEF Kept

(* init *)
LEMMA SendInitReg ==
    ASSUME Inv, RegInv, ~crashed, ImsQuiet, SendInit
    PROVE  RegInv'
<1>1. ConnectionOK /\ InstanceOK /\ ControlOK
  BY Parts
<1>2. /\ WriteToIms(Control("init")) /\ ctl.pc \in {"pre", "enable"}
      /\ UNCHANGED <<inst, lpc, spc, worker, freed, pending, wire, crashed, ue, net>>
      /\ UNCHANGED <<fromIms, log>>
      /\ ctl' = [ctl EXCEPT !.pc = IF ctl.pc = "pre" THEN "pre_ack" ELSE "enable_ack"]
  BY DEF SendInit, ims, phone
<1>3. /\ ctl'.pc = IF ctl.pc = "pre" THEN "pre_ack" ELSE "enable_ack"
      /\ ctl'.msg = ctl.msg /\ ctl'.sent = ctl.sent /\ ctl'.depth = ctl.depth /\ ctl'.name = ctl.name
      /\ ctl'.qname = ctl.qname /\ ctl'.about = ctl.about
  BY <1>1, <1>2 DEF ControlOK, ControlState
<1>4. toIms = << >> /\ lpc = "read"
  BY DEF ImsQuiet
<1>5. Numbered' /\ ModifiedAsReported' /\ AbortOnlyLate' /\ (Rests => Rests')
  BY <1>2, ControllerFrame
<1>6. Logged'
  BY <1>2, <1>3 DEF RegInv, Logged
<1>7. Kept'
  BY <1>1, <1>2, <1>3, KeptOut DEF RegInv
<1>8. Reset'
  <2>1. toIms' = <<Control("init")>>
    BY <1>1, <1>2, <1>4, ControlOut
  <2>2. Len(toIms') = 1 /\ toIms'[1].kind = "init"
    BY <2>1 DEF Control
  <2> QED
    BY <1>2, <1>4, <2>2 DEF Reset
<1>9. CASE ctl.pc = "pre"
  <2>1. Closed
    BY <1>9 DEF RegInv, Phases, Opening, Skipped, Session, Desk, ReadsOn, TimesOut
  <2>2. ue.pc = "off" /\ log = << >> /\ ctl.msg = 0 /\ (inst.finished \/ Rests)
        /\ (NoAcks \/ (Rests /\ OnlyAcks))
    BY <1>4, <1>9, <2>1 DEF Closed, Finishing
  <2>3. Rests
    BY <2>2, QuietRests
  <2>4. Len(fromIms) \in Nat
    BY <1>1 DEF ConnectionOK
  <2>5. AcksLast
    <3>1. CASE NoAcks
      <4>1. Len(fromIms) \in 0..Len(fromIms) /\ \A i \in 1..Len(fromIms) : fromIms[i] = Ack <=> i > Len(fromIms)
        BY <2>4, <3>1 DEF NoAcks
      <4> QED
        BY <4>1 DEF AcksLast
    <3>2. CASE OnlyAcks
      <4>1. 0 \in 0..Len(fromIms) /\ \A i \in 1..Len(fromIms) : fromIms[i] = Ack <=> i > 0
        BY <2>4, <3>2 DEF OnlyAcks
      <4> QED
        BY <4>1 DEF AcksLast
    <3> QED
      BY <2>2, <3>1, <3>2
  <2>6. AcksLast'
    BY <1>2, <2>5 DEF AcksLast
  <2>7. Opening'
    BY <1>2, <1>3, <1>5, <1>8, <1>9, <2>2, <2>3, <2>6 DEF Opening, Unused
  <2> QED
    BY <1>5, <1>6, <1>7, <2>7 DEF RegInv, Phases
<1>10. CASE ctl.pc = "enable"
  <2>1. Opening
    BY <1>10 DEF RegInv, Phases, Closed, Skipped, Session, Desk, ReadsOn, TimesOut
  <2>2. Opening'
    BY <1>2, <1>3, <1>5, <1>8, <1>10, <2>1 DEF Opening, Unused, OnlyAcks
  <2> QED
    BY <1>5, <1>6, <1>7, <2>2 DEF RegInv, Phases
<1> QED
  BY <1>2, <1>9, <1>10

(* Its answer *)
LEMMA InitAckReg ==
    ASSUME Inv, RegInv, ~crashed, InitAck
    PROVE  RegInv'
<1>1. ConnectionOK /\ ControlOK
  BY Parts
<1>2. /\ ctl.pc \in {"pre_ack", "enable_ack"} /\ fromIms # << >> /\ fromIms' = Tail(fromIms)
      /\ ctl' = [ctl EXCEPT !.pc = IF ctl.pc = "pre_ack" THEN "alive" ELSE "attach", !.back = "renew"]
      /\ UNCHANGED <<inst, lpc, spc, worker, freed, pending, wire, crashed, ue, net>>
      /\ UNCHANGED <<toIms, log>>
  BY DEF InitAck, ims, phone
<1>3. /\ ctl'.pc = IF ctl.pc = "pre_ack" THEN "alive" ELSE "attach"
      /\ ctl'.back = "renew"
      /\ ctl'.msg = ctl.msg /\ ctl'.sent = ctl.sent /\ ctl'.depth = ctl.depth /\ ctl'.name = ctl.name
      /\ ctl'.qname = ctl.qname /\ ctl'.about = ctl.about
  BY <1>1, <1>2 DEF ControlOK, ControlState
<1>4. Numbered' /\ ModifiedAsReported' /\ AbortOnlyLate' /\ (Rests => Rests')
  BY <1>2, ControllerFrame
<1>5. Logged' /\ Kept'
  BY <1>2, <1>3 DEF RegInv, Logged, Kept
<1>6. Opening
  BY <1>2 DEF RegInv, Phases, Closed, Skipped, Session, Desk, ReadsOn, TimesOut
<1>7. (OnlyAcks => OnlyAcks') /\ (AcksLast => AcksLast')
  BY <1>1, <1>2, AcksRead
<1>8. Unused'
  BY <1>2, <1>4, <1>6 DEF Opening, Unused, Reset, Reopened
<1>9. Opening'
  BY <1>2, <1>3, <1>6, <1>7, <1>8 DEF Opening
<1> QED
  BY <1>4, <1>5, <1>9 DEF RegInv, Phases

(* isIMSAlive, of pre or after a read that timed out *)
LEMMA SendHelloReg ==
    ASSUME Inv, RegInv, ~crashed, SendHello
    PROVE  RegInv'
<1>1. ConnectionOK /\ InstanceOK /\ ControlOK
  BY Parts
<1>2. /\ WriteToIms(Control("Hello")) /\ ctl.pc = "alive" /\ ctl' = [ctl EXCEPT !.pc = "alive_ack"]
      /\ UNCHANGED <<inst, lpc, spc, worker, freed, pending, wire, crashed, ue, net>>
      /\ UNCHANGED <<fromIms, log>>
  BY DEF SendHello, ims, phone
<1>3. /\ ctl'.pc = "alive_ack" /\ ctl'.back = ctl.back
      /\ ctl'.msg = ctl.msg /\ ctl'.sent = ctl.sent /\ ctl'.depth = ctl.depth /\ ctl'.name = ctl.name
      /\ ctl'.qname = ctl.qname /\ ctl'.about = ctl.about
  BY <1>1, <1>2 DEF ControlOK, ControlState
<1>4. /\ Numbered' /\ ModifiedAsReported' /\ AbortOnlyLate' /\ (Rests => Rests')
      /\ (Stuck => Stuck') /\ Taken' = Taken
  BY <1>2, ControllerFrame
<1>5. Logged'
  BY <1>2, <1>3 DEF RegInv, Logged
<1>6. Kept'
  BY <1>1, <1>2, <1>3, KeptOut DEF RegInv
<1>7. CASE Opening
  <2>1. /\ \A i \in 1..Len(toIms) : toIms'[i] = toIms[i] /\ i \in 1..Len(toIms')
        /\ toIms'[Len(toIms) + 1].kind = "Hello"
        /\ \A i \in 1..Len(toIms') : i \in 1..Len(toIms) \/ i = Len(toIms) + 1
    <3>1. Len(toIms') = Len(toIms) + 1 /\ Len(toIms) \in Nat
      BY <1>1, <1>2, ControlOut
    <3>2. \A i \in 1..Len(toIms) : i \in 1..Len(toIms')
      BY <3>1
    <3> QED
      BY <1>1, <1>2, <3>2, ControlOut
  <2>2. Reset'
    BY <1>2, <1>7, <2>1 DEF Opening, Unused, Reset, Reopened
  <2>3. Opening'
    BY <1>2, <1>3, <1>4, <1>7, <2>2 DEF Opening, Unused, AcksLast
  <2> QED
    BY <1>4, <1>5, <1>6, <2>3 DEF RegInv, Phases
<1>8. CASE Session
  <2>1. PICK p \in 0..8 : Stage(p) /\ Desk(p)
    BY <1>8 DEF Session
  <2>2. Stage(p)'
    BY <1>2, <2>1, StageStays
  <2>3. /\ Stuck /\ Taken = ctl.msg /\ toIms = << >> /\ fromIms = << >>
        /\ ctl.back \in {"query", "reply"} /\ ctl.name = "timeout"
    BY <1>2, <2>1 DEF Desk, ReadsOn, TimesOut
  <2>4. toIms' = <<Control("Hello")>>
    BY <1>1, <1>2, <2>3, ControlOut
  <2>5. TimesOut'
    BY <1>2, <1>3, <1>4, <2>3, <2>4 DEF TimesOut
  <2>6. Half'
    BY <1>2, <1>3, <1>8 DEF Session, Half
  <2>7. Session'
    BY <1>2, <1>8, <2>2, <2>5, <2>6 DEF Session, Desk
  <2> QED
    BY <1>4, <1>5, <1>6, <2>7 DEF RegInv, Phases
<1> QED
  BY <1>2, <1>7, <1>8 DEF RegInv, Phases, Closed, Skipped

(* isIMSAlive takes the first ACK. *)
LEMMA AliveAckReg ==
    ASSUME Inv, RegInv, ~crashed, AliveAck
    PROVE  RegInv'
<1>1. ConnectionOK /\ InstanceOK /\ ControlOK
  BY Parts
<1>2. /\ ctl.pc = "alive_ack" /\ fromIms # << >> /\ fromIms' = Tail(fromIms)
      /\ ctl' = IF Head(fromIms) = Ack THEN [ctl EXCEPT !.pc = ctl.back] ELSE ctl
      /\ UNCHANGED <<inst, lpc, spc, worker, freed, pending, wire, crashed, ue, net>>
      /\ UNCHANGED <<toIms, log>>
  BY DEF AliveAck, ims, phone
<1>3. /\ ctl'.pc = IF Head(fromIms) = Ack THEN ctl.back ELSE ctl.pc
      /\ ctl'.back = ctl.back
      /\ ctl'.msg = ctl.msg /\ ctl'.sent = ctl.sent /\ ctl'.depth = ctl.depth /\ ctl'.name = ctl.name
      /\ ctl'.qname = ctl.qname /\ ctl'.about = ctl.about
  <2>1. CASE Head(fromIms) = Ack
    BY <1>1, <1>2, <2>1 DEF ControlOK, ControlState
  <2>2. CASE Head(fromIms) # Ack
    BY <1>2, <2>2
  <2> QED
    BY <2>1, <2>2
<1>4. /\ Numbered' /\ ModifiedAsReported' /\ AbortOnlyLate' /\ (Rests => Rests')
      /\ (Stuck => Stuck') /\ Taken' = Taken
  BY <1>2, ControllerFrame
<1>5. Logged' /\ Kept'
  BY <1>2, <1>3 DEF RegInv, Logged, Kept
<1>6. CASE Opening
  <2>1. Unused'
    BY <1>2, <1>4, <1>6 DEF Opening, Unused, Reset, Reopened
  <2>2. AcksLast /\ ctl.back = "renew" /\ ctl.msg = 0
    BY <1>2, <1>6 DEF Opening
  <2>3. AcksLast' /\ (Head(fromIms) = Ack => OnlyAcks')
    BY <1>1, <1>2, <2>2, AcksRead
  <2>4. Opening'
    BY <1>2, <1>3, <2>1, <2>2, <2>3 DEF Opening
  <2> QED
    BY <1>4, <1>5, <2>4 DEF RegInv, Phases
<1>7. CASE Session
  <2>1. PICK p \in 0..8 : Stage(p) /\ Desk(p)
    BY <1>7 DEF Session
  <2>2. Stage(p)'
    BY <1>2, <2>1, StageStays
  <2>3. /\ Stuck /\ Taken = ctl.msg /\ toIms = << >> /\ fromIms = <<Ack>>
        /\ ctl.back \in {"query", "reply"} /\ ctl.name = "timeout"
    BY <1>2, <2>1 DEF Desk, ReadsOn, TimesOut
  <2>4. fromIms' = << >> /\ Head(fromIms) = Ack
    BY <1>2, <2>3
  <2>5. TimesOut'
    BY <1>2, <1>3, <1>4, <2>3, <2>4 DEF TimesOut
  <2>6. Half'
    BY <1>2, <1>3, <1>7, <2>3, <2>4 DEF Session, Half
  <2>7. Session'
    BY <1>2, <1>7, <2>2, <2>5, <2>6 DEF Session, Desk
  <2> QED
    BY <1>4, <1>5, <2>7 DEF RegInv, Phases
<1> QED
  BY <1>2, <1>6, <1>7 DEF RegInv, Phases, Closed, Skipped

(* The new reader *)
LEMMA RenewReg ==
    ASSUME Inv, RegInv, ~crashed, Renew
    PROVE  RegInv'
<1>1. ConnectionOK /\ ControlOK
  BY Parts
<1>2. /\ ctl.pc = "renew" /\ ctl' = [ctl EXCEPT !.pc = "enable"]
      /\ \E n \in 0..Len(fromIms) : fromIms' = SubSeq(fromIms, n + 1, Len(fromIms))
      /\ UNCHANGED <<inst, lpc, spc, worker, freed, pending, wire, crashed, ue, net>>
      /\ UNCHANGED <<toIms, log>>
  BY DEF Renew, ims, phone
<1>3. /\ ctl'.pc = "enable"
      /\ ctl'.msg = ctl.msg /\ ctl'.sent = ctl.sent /\ ctl'.depth = ctl.depth /\ ctl'.name = ctl.name
      /\ ctl'.qname = ctl.qname /\ ctl'.about = ctl.about
  BY <1>1, <1>2 DEF ControlOK, ControlState
<1>4. Numbered' /\ ModifiedAsReported' /\ AbortOnlyLate' /\ (Rests => Rests')
  BY <1>2, ControllerFrame
<1>5. Logged' /\ Kept'
  BY <1>2, <1>3 DEF RegInv, Logged, Kept
<1>6. Opening
  BY <1>2 DEF RegInv, Phases, Closed, Skipped, Session, Desk, ReadsOn, TimesOut
<1>7. Unused' /\ OnlyAcks /\ ctl.msg = 0
  BY <1>2, <1>4, <1>6 DEF Opening, Unused, Reset, Reopened
<1>8. OnlyAcks'
  <2>1. PICK n \in 0..Len(fromIms) : fromIms' = SubSeq(fromIms, n + 1, Len(fromIms))
    BY <1>2
  <2>2. fromIms \in Seq(Report \cup {Ack}) /\ Len(fromIms) \in Nat
    BY <1>1 DEF ConnectionOK
  <2>3. Len(fromIms') = Len(fromIms) - n /\ \A k \in 1..Len(fromIms) - n : fromIms'[k] = fromIms[k + n]
    BY <2>1, <2>2, Dropped
  <2>4. \A k \in 1..Len(fromIms) - n : k + n \in 1..Len(fromIms)
    BY <2>2
  <2> QED
    BY <1>7, <2>3, <2>4 DEF OnlyAcks
<1>9. Opening'
  BY <1>3, <1>7, <1>8 DEF Opening
<1> QED
  BY <1>4, <1>5, <1>9 DEF RegInv, Phases

(* The UE does not attach. *)
LEMMA NoAttachReg ==
    ASSUME Inv, RegInv, ~crashed, NoAttach
    PROVE  RegInv'
<1>1. ControlOK
  BY Parts
<1>2. /\ ctl.pc = "attach" /\ ctl' = [ctl EXCEPT !.pc = "post"]
      /\ UNCHANGED <<inst, lpc, spc, worker, freed, pending, wire, crashed, ue, net>>
      /\ UNCHANGED <<toIms, fromIms, log>>
  BY DEF NoAttach, ims, phone
<1>3. /\ ctl'.pc = "post" /\ ctl'.sent = ctl.sent /\ ctl'.depth = ctl.depth /\ ctl'.name = ctl.name
      /\ ctl'.qname = ctl.qname /\ ctl'.about = ctl.about
  BY <1>1, <1>2 DEF ControlOK, ControlState
<1>4. Numbered' /\ ModifiedAsReported' /\ AbortOnlyLate' /\ (Rests => Rests')
  BY <1>2, ControllerFrame
<1>5. Logged' /\ Kept'
  BY <1>2, <1>3 DEF RegInv, Logged, Kept
<1>6. Opening
  BY <1>2 DEF RegInv, Phases, Closed, Skipped, Session, Desk, ReadsOn, TimesOut
<1>7. Skipped'
  BY <1>2, <1>3, <1>4, <1>6 DEF Opening, Skipped, Unused, Reset, Reopened, OnlyAcks
<1> QED
  BY <1>4, <1>5, <1>7 DEF RegInv, Phases

(* fin *)
LEMMA FinReg ==
    ASSUME Inv, RegInv, ~crashed, ImsQuiet, Fin
    PROVE  RegInv'
<1>1. ConnectionOK /\ InstanceOK /\ ControlOK
  BY Parts
<1>2. /\ WriteToIms(Control("fin")) /\ ctl.pc = "post" /\ ue.pc = "off"
      /\ ctl' = [ctl EXCEPT !.pc = "next"]
      /\ UNCHANGED <<inst, lpc, spc, worker, freed, pending, wire, crashed, ue, net>>
      /\ UNCHANGED <<fromIms, log>>
  BY DEF Fin, ims, phone
<1>3. /\ ctl'.pc = "next" /\ ctl'.sent = ctl.sent /\ ctl'.depth = ctl.depth /\ ctl'.name = ctl.name
      /\ ctl'.qname = ctl.qname /\ ctl'.about = ctl.about
  BY <1>1, <1>2 DEF ControlOK, ControlState
<1>4. /\ Numbered' /\ ModifiedAsReported' /\ AbortOnlyLate' /\ (Rests => Rests') /\ (Still => Still')
  BY <1>2, ControllerFrame
<1>5. Logged'
  BY <1>2, <1>3 DEF RegInv, Logged
<1>6. Kept'
  BY <1>1, <1>2, <1>3, KeptOut DEF RegInv
<1>7. toIms = << >> /\ lpc = "read" /\ SenderQuiet /\ Still
      /\ \A w \in Workers : Quiet(w) \/ Waiting(w)
  BY DEF ImsQuiet, Still, Quiet
<1>8. toIms' = <<Control("fin")>>
  BY <1>1, <1>2, <1>7, ControlOut
<1>9. (\A w \in Workers : Quiet(w) \/ Waiting(w))'
  BY <1>2, <1>7 DEF Quiet, Waiting, Wanted
<1>10. Finishing'
  <2>1. Control("fin")' = Control("fin")
    BY DEF Control, NoQuery
  <2> QED
    BY <1>2, <1>4, <1>7, <1>8, <1>9, <2>1 DEF Finishing, SenderQuiet
<1>11. NoAcks \/ (Rests /\ OnlyAcks)
  BY <1>2 DEF RegInv, Phases, Opening, Closed, Skipped, Unused, Session, Desk, ReadsOn, TimesOut
<1>12. Closed'
  BY <1>2, <1>3, <1>4, <1>10, <1>11 DEF Closed, NoAcks, OnlyAcks
<1> QED
  BY <1>4, <1>5, <1>6, <1>12 DEF RegInv, Phases

(* The next testcase *)
LEMMA NextTestcaseReg ==
    ASSUME Inv, RegInv, ~crashed, NextTestcase
    PROVE  RegInv'
<1>1. ControlOK
  BY Parts
<1>2. /\ ctl.pc = "next" /\ log' = << >>
      /\ ctl' = [ctl EXCEPT !.pc = IF ctl.tc = Len(Plan) THEN "done" ELSE "pre",
                            !.tc = ctl.tc + 1, !.msg = 0]
      /\ UNCHANGED <<inst, lpc, spc, worker, freed, pending, wire, crashed, ue, net>>
      /\ UNCHANGED <<toIms, fromIms>>
  BY DEF NextTestcase, ims, phone
<1>3. /\ ctl'.pc \in {"done", "pre"} /\ ctl'.sent = ctl.sent /\ ctl'.depth = ctl.depth
      /\ ctl'.name = ctl.name /\ ctl'.qname = ctl.qname /\ ctl'.about = ctl.about /\ ctl'.msg = 0
  BY <1>1, <1>2 DEF ControlOK, ControlState
<1>4. /\ Numbered' /\ ModifiedAsReported' /\ AbortOnlyLate' /\ (Rests => Rests') /\ (Still => Still')
      /\ (inst.query = NoQuery => inst'.query = NoQuery) /\ inst'.finished = inst.finished
  BY <1>2, ControllerFrame
<1>5. Logged' /\ Kept'
  BY <1>2, <1>3 DEF RegInv, Logged, Kept
<1>6. Closed
  BY <1>2 DEF RegInv, Phases, Opening, Skipped, Session, Desk, ReadsOn, TimesOut
<1>7. Finishing'
  BY <1>2, <1>4, <1>6 DEF Closed, Finishing, SenderQuiet, Control, NoQuery, Quiet, Waiting, Wanted
<1>8. Closed'
  BY <1>2, <1>3, <1>4, <1>6, <1>7 DEF Closed, NoAcks, OnlyAcks
<1> QED
  BY <1>4, <1>5, <1>8 DEF RegInv, Phases

(* The UE attaches: a session begins. *)
LEMMA AttachReg ==
    ASSUME Inv, Inv', RegInv, ~crashed, ImsQuiet, Attach
    PROVE  RegInv'
<1>1. ConnectionOK /\ InstanceOK /\ ControlOK /\ PhoneOK /\ WorkersOK /\ MessagesOK
  BY Parts
<1>2. /\ ctl.pc = "attach" /\ ue' = [ue EXCEPT !.pc = "ready", !.first = ue.n + 1]
      /\ ctl' = [ctl EXCEPT !.pc = "reply", !.qname = "ike_auth_3_response",
                            !.name = NULL, !.depth = 0, !.about = {}]
      /\ UNCHANGED <<inst, lpc, spc, worker, freed, pending, wire, crashed, net>>
      /\ UNCHANGED <<toIms, fromIms, log>>
  BY DEF Attach, ims
<1>3. /\ ctl'.pc = "reply" /\ ctl'.msg = ctl.msg /\ ctl'.sent = ctl.sent /\ ctl'.depth = 0
      /\ ctl'.name = NULL /\ ctl'.qname = "ike_auth_3_response" /\ ctl'.about = {}
  BY <1>1, <1>2 DEF ControlOK, ControlState
<1>4. /\ ue'.pc = "ready" /\ ue'.first = ue.n + 1 /\ ue'.n = ue.n /\ ue.n \in Nat
  BY <1>1, <1>2 DEF PhoneOK, UeState
<1>5. toIms = << >> /\ lpc = "read" /\ SenderQuiet
  BY DEF ImsQuiet
<1>6. Opening
  BY <1>2 DEF RegInv, Phases, Closed, Skipped, Session, Desk, ReadsOn, TimesOut
<1>7. OnlyAcks /\ ctl.msg = 0 /\ Rests /\ log = << >> /\ Reopened
  BY <1>2, <1>5, <1>6 DEF Opening, Unused, Reset
<1>8. \A m \in net \cup pending \cup wire : m.n \in Nat /\ m.n <= ue.n
  BY <1>1 DEF RegInv, Numbered, PhoneOK, MessagesOK, Request, Sent
<1>9. Numbered'
  BY <1>2, <1>4, <1>8 DEF RegInv, Numbered, Quiet
<1>10. Logged'
  BY <1>2, <1>3, <1>7 DEF Logged, NULL
<1>11. Kept' /\ ModifiedAsReported' /\ AbortOnlyLate'
  BY <1>2, <1>3 DEF RegInv, Kept, ModifiedAsReported, AbortOnlyLate
<1>12. Stage(0)'
  <2>1. Fit(0, inst.query, inst.sprev)'
    BY <1>2, <1>7 DEF Fit, Reopened, NoQuery, NULL
  <2>2. Exchange' = -1
    BY <1>4 DEF Exchange
  <2>3. ue'.pc # "registered" /\ \A r \in wire' : r.n >= ue'.first => r.name # "ok"
    BY <1>2, <1>4, <1>8
  <2>4. CASE net = {} /\ pending = {}
    <3>1. Nowhere'
      BY <1>2, <1>7, <2>4 DEF Nowhere, Rests, Calm, Quiet
    <3>2. Idling(0, Exchange, inst.query)'
      BY <1>4, <2>2 DEF Idling
    <3>3. Single(0)'
      BY <2>3, <3>1, <3>2 DEF Single
    <3> QED
      BY <2>1, <3>3 DEF Stage
  <2>5. CASE Free = {}
    <3>1. Dead
      <4>1. \A w \in Workers : worker[w] # Idle /\ worker[w].pc \in {"idle", "asleep"}
        BY <1>7, <2>5 DEF Free, Rests, Calm, Quiet
      <4>2. \A w \in Workers : worker[w] \in Job
        BY <1>1, <4>1 DEF WorkersOK
      <4>3. \A w \in Workers : worker[w].pc # "idle"
        BY <4>2 DEF Job
      <4> QED
        BY <4>1, <4>3 DEF Dead
    <3>2. Dead'
      BY <1>2, <3>1 DEF Dead
    <3>3. Single(0)'
      BY <2>3, <3>2 DEF Single
    <3> QED
      BY <2>1, <3>3 DEF Stage
  <2> QED
    BY <1>7, <2>4, <2>5 DEF Rests, Still
<1>13. Desk(0)'
  <2>1. Len(fromIms) \in Nat
    BY <1>1 DEF ConnectionOK
  <2>2. Tape(Len(fromIms), 0, 0)'
    BY <1>2, <1>5, <1>7, <2>1 DEF Tape, Queued, SenderQuiet, OnlyAcks
  <2>3. Base(ctl'.pc, ctl'.msg) + ctl'.depth = 0
    BY <1>3, <1>7 DEF Base
  <2>4. Taken' = ctl'.msg
    BY <1>2, <1>3, <1>7 DEF Taken, Reopened
  <2>5. \E a \in Nat : Tape(a, Base(ctl.pc, ctl.msg) + ctl.depth, 0)'
    <3>1. PICK a \in Nat : a = Len(fromIms)
      BY <2>1
    <3>2. Tape(a, 0, 0)'
      BY <1>2, <2>2, <3>1
    <3> QED
      BY <2>3, <3>2
  <2>6. ReadsOn(0)'
    BY <1>2, <1>3, <1>5, <2>4, <2>5 DEF ReadsOn, NULL
  <2> QED
    BY <2>6 DEF Desk
<1>14. Session'
  BY <1>2, <1>3, <1>5, <1>7, <1>12, <1>13 DEF Session, Half, Reopened
<1> QED
  BY <1>9, <1>10, <1>11, <1>14 DEF RegInv, Phases

(* The Wi-Fi is turned off. *)
LEMMA PostOffReg ==
    ASSUME Inv, RegInv, ~crashed, PostOff
    PROVE  RegInv'
<1>1. PhoneOK /\ ControlOK
  BY Parts
<1>2. /\ ctl.pc = "post" /\ ue.pc # "off" /\ ue' = [ue EXCEPT !.pc = "off"]
      /\ UNCHANGED <<inst, lpc, spc, worker, freed, pending, wire, crashed, net>>
      /\ UNCHANGED <<toIms, fromIms, log, ctl>>
  BY DEF PostOff, ims, control
<1>3. ue'.pc = "off" /\ ue'.n = ue.n /\ ue'.first = ue.first
  BY <1>1, <1>2 DEF PhoneOK, UeState
<1>4. Numbered'
  BY <1>2, <1>3 DEF RegInv, Numbered, Quiet
<1>5. Logged' /\ Kept' /\ ModifiedAsReported' /\ AbortOnlyLate'
  BY <1>2, <1>3 DEF RegInv, Logged, Kept, ModifiedAsReported, AbortOnlyLate
<1>6. Session
  BY <1>2 DEF RegInv, Phases, Opening, Closed, Skipped, Unused, Rests
<1>7. PICK p \in 0..8 : Stage(p) /\ Desk(p)
  BY <1>6 DEF Session
<1>8. Desk(p)'
  BY <1>2, <1>7 DEF Desk, ReadsOn, TimesOut, NoAcks
<1>9. Stage(p)'
  <2>1. Fit(p, inst.query, inst.sprev)'
    BY <1>2, <1>7 DEF Stage, Fit
  <2>2. CASE p = 8
    BY <1>2, <1>7, <2>1, <2>2 DEF Stage, Loose
  <2>3. CASE p < 8
    <3>1. Single(p)
      BY <1>7, <2>3 DEF Stage
    <3>2. /\ Unanswered => Unanswered'
          /\ \A names : AnsweredBy(names) => AnsweredBy(names)'
          /\ Exchange' = Exchange
      BY <1>2, <1>3 DEF Unanswered, AnsweredBy, Exchange
    <3>3. ue'.pc # "registered" /\ \A r \in wire' : r.n >= ue'.first => r.name # "ok"
      BY <1>2, <1>3, <3>1 DEF Single
    <3>4. CASE p = 0 /\ Dead
      <4>1. Single(p)'
        BY <1>2, <3>3, <3>4 DEF Single, Dead
      <4> QED
        BY <2>1, <2>3, <4>1 DEF Stage
    <3>5. CASE Nowhere /\ Idling(p, Exchange, inst.query)
      <4>1. Nowhere'
        BY <1>2, <3>5 DEF Nowhere, Calm, Quiet
      <4>2. Idling(p, Exchange, inst.query)'
        BY <1>2, <1>3, <3>2, <3>5 DEF Idling
      <4>3. Single(p)'
        BY <3>3, <4>1, <4>2 DEF Single
      <4> QED
        BY <2>1, <2>3, <4>3 DEF Stage
    <3>6. CASE Unanswered /\ OnNet(Reg(ue.n)) /\ Sending(p, Exchange, inst.query)
      <4>1. OnNet(Reg(ue.n))' /\ Sending(p, Exchange, inst.query)'
        BY <1>2, <1>3, <3>2, <3>6 DEF OnNet, Calm, Quiet, Reg, Sending
      <4>2. Single(p)'
        BY <3>2, <3>3, <3>6, <4>1 DEF Single
      <4> QED
        BY <2>1, <2>3, <4>2 DEF Stage
    <3>7. CASE /\ Unanswered /\ Due(Reg(ue.n)) /\ Exchange \in {0, 1} /\ p = 4 * Exchange + 2
               /\ inst.sprev = Before(Exchange)
      <4>1. Due(Reg(ue.n))' /\ inst'.sprev = Before(Exchange)'
        BY <1>2, <1>3, <3>2, <3>7 DEF Due, Calm, Quiet, Reg, Before
      <4>2. Single(p)'
        BY <3>2, <3>3, <3>7, <4>1 DEF Single
      <4> QED
        BY <2>1, <2>3, <4>2 DEF Stage
    <3>8. CASE /\ Unanswered
               /\ \E w \in Workers :
                    /\ At(w) /\ worker[w].msg.n = ue.n
                    /\ Spot(p, Exchange, worker[w], inst.query, inst.sprev)
      <4>1. PICK w \in Workers : /\ At(w) /\ worker[w].msg.n = ue.n
                                 /\ Spot(p, Exchange, worker[w], inst.query, inst.sprev)
        BY <3>8
      <4>2. At(w)' /\ worker'[w].msg.n = ue'.n
        BY <1>2, <1>3, <4>1 DEF At, Quiet
      <4>3. Spot(p, Exchange, worker[w], inst.query, inst.sprev)'
        BY <1>2, <3>2, <4>1 DEF Spot, Sending, Answering
      <4>4. Single(p)'
        BY <3>2, <3>3, <3>8, <4>2, <4>3 DEF Single
      <4> QED
        BY <2>1, <2>3, <4>4 DEF Stage
    <3> QED
      BY <3>1, <3>4, <3>5, <3>6, <3>7, <3>8 DEF Single
  <2> QED
    BY <2>2, <2>3
<1>10. Session'
  BY <1>2, <1>6, <1>8, <1>9 DEF Session, Half
<1> QED
  BY <1>4, <1>5, <1>10 DEF RegInv, Phases

(* The query of a step goes out. *)
LEMMA SendQueryReg ==
    ASSUME Inv, Inv', RegInv, ~crashed, SendQuery
    PROVE  RegInv'
<1>1. ConnectionOK /\ InstanceOK /\ ControlOK /\ PhoneOK /\ ListenerOK
  BY Parts
<1> DEFINE m == Plan[ctl.tc][ctl.msg]
           q == [id |-> ctl.sent + 1, name |-> m.name, edit |-> m.edit]
           l == [kind |-> "query", query |-> q]
<1>2. /\ ctl.pc = "step" /\ ctl.sent < MaxQueries /\ WriteToIms(l)
      /\ ctl' = [ctl EXCEPT !.pc = "query", !.sent = ctl.sent + 1, !.name = NULL, !.depth = 0,
                            !.about = {}]
      /\ UNCHANGED <<inst, lpc, spc, worker, freed, pending, wire, crashed, ue, net>>
      /\ UNCHANGED <<fromIms, log>>
  BY DEF SendQuery, ims, phone
<1>3. /\ ctl'.pc = "query" /\ ctl'.msg = ctl.msg /\ ctl'.sent = ctl.sent + 1 /\ ctl'.depth = 0
      /\ ctl'.name = NULL /\ ctl'.qname = ctl.qname /\ ctl'.about = {} /\ ctl.sent \in Nat
  BY <1>1, <1>2 DEF ControlOK, ControlState
<1>4. Numbered' /\ ModifiedAsReported' /\ AbortOnlyLate' /\ Taken' = Taken
  BY <1>2, ControllerFrame
<1>5. Session
  BY <1>2 DEF RegInv, Phases, Opening, Closed, Skipped
<1>6. PICK p \in 0..8 : Stage(p) /\ Desk(p)
  BY <1>5 DEF Session
<1>7. /\ p = Base("query", ctl.msg) /\ Taken = ctl.msg - 1
      /\ toIms = << >> /\ fromIms = << >> /\ SenderQuiet
  BY <1>2, <1>6 DEF Desk, ReadsOn, TimesOut
<1>8. (ctl.msg = 1 /\ p = 2) \/ (ctl.msg = 2 /\ p = 6)
  BY <1>1, <1>7, QueryBase
<1>9. m \in [name : QueryNames, edit : {"none", "nonce", "other"}]
      /\ m.name = IF ctl.msg = 1 THEN "401_unauthorized" ELSE "200_ok"
  <2>1. ctl.tc \in 1..Len(Plan) /\ ctl.msg \in 1..Len(Plan[ctl.tc])
    BY <1>1, <1>2, <1>8 DEF ControlOK, ControlState, InPlan
  <2>2. Plan[ctl.tc] \in Seq([name : QueryNames, edit : {"none", "nonce", "other"}])
    BY <2>1, SessionAssumption, Element
  <2>3. m \in [name : QueryNames, edit : {"none", "nonce", "other"}]
    BY <2>1, <2>2, Element
  <2> QED
    BY <2>1, <2>3, RegistrationAssumption
<1> HIDE DEF m
<1>10. q \in Query /\ q.name = m.name /\ q.id = ctl.sent + 1
  BY <1>2, <1>3, <1>9, SipAssumption DEF Query
<1>11. toIms' = <<l>> /\ l.kind = "query" /\ l.query = q
  BY <1>2, <1>7 DEF WriteToIms
<1>12. Logged'
  BY <1>2, <1>3 DEF RegInv, Logged, NULL
<1>13. Kept'
  <2>1. freed \subseteq 1..ctl.sent /\ inst.query.id <= ctl.sent /\ inst.query.id \notin freed
    BY DEF RegInv, Kept
  <2>2. inst.query.id \in Nat
    BY <1>1, QueryNumber, SipAssumption DEF InstanceOK, Instance
  <2>3. freed \subseteq 1..ctl.sent + 1 /\ ctl.sent + 1 \notin freed /\ inst.query.id <= ctl.sent + 1
    BY <1>3, <2>1, <2>2
  <2> HIDE DEF q, l
  <2>4. \A i \in 1..Len(toIms') : toIms'[i] = l
    BY <1>11
  <2> QED
    BY <1>2, <1>3, <1>10, <1>11, <2>1, <2>3, <2>4 DEF Kept
<1>14. Underway(ctl.msg)'
  <2>1. \E x \in Query : /\ toIms' = <<[kind |-> "query", query |-> x]>>
                         /\ x.name = IF ctl.msg = 1 THEN "401_unauthorized" ELSE "200_ok"
    BY <1>9, <1>10, <1>11
  <2> QED
    BY <1>3, <2>1 DEF Underway
<1>15. Tape(0, p, p)'
  BY <1>2, <1>7, <1>8 DEF Tape, Queued, SenderQuiet
<1>16. p = Base(ctl'.pc, ctl'.msg) + ctl'.depth /\ p = Base("query", ctl'.msg)
  BY <1>3, <1>7, <1>8
<1>17. ReadsOn(p)'
  <2>1. Tape(0, Base(ctl.pc, ctl.msg) + ctl.depth, p)'
    BY <1>15, <1>16
  <2> QED
    BY <1>3, <1>4, <1>7, <1>14, <1>16, <2>1 DEF ReadsOn, NULL
<1>18. Stage(p)'
  BY <1>2, <1>6, StageStays
<1>19. Session'
  BY <1>2, <1>3, <1>5, <1>8, <1>17, <1>18 DEF Session, Half, Desk
<1> QED
  BY <1>4, <1>12, <1>13, <1>19 DEF RegInv, Phases

(* The ACKs before the lines are read first. *)
LEMMA TapeSkips ==
    ASSUME ConnectionOK, InstanceOK, NEW a \in Nat, NEW c \in Nat, NEW p \in 0..8, Tape(a, c, p),
           fromIms # << >>, fromIms' = Tail(fromIms), Head(fromIms) = Ack, UNCHANGED <<inst, ue, spc>>
    PROVE  a > 0 /\ Tape(a - 1, c, p)'
<1>1. /\ Len(fromIms) \in Nat \ {0} /\ Len(fromIms') = Len(fromIms) - 1
      /\ \A i \in 1..Len(fromIms') : i + 1 \in 1..Len(fromIms) /\ fromIms'[i] = fromIms[i + 1]
      /\ 1 \in 1..Len(fromIms) /\ Head(fromIms) = fromIms[1]
  BY LineRead
<1>2. /\ a \in 0..Len(fromIms) /\ \A i \in 1..a : fromIms[i] = Ack
      /\ \A i \in a + 1..Len(fromIms) : fromIms[i] # Ack /\ Fits(fromIms[i], c + i - a)
      /\ Queued(c + Len(fromIms) - a, p)
  BY DEF Tape
<1>3. a > 0
  <2>1. a = 0 => 1 \in a + 1..Len(fromIms)
    BY <1>1
  <2> QED
    BY <1>1, <1>2, <2>1
<1>4. a - 1 \in 0..Len(fromIms') /\ \A i \in 1..a - 1 : fromIms'[i] = Ack
  <2>1. \A i \in 1..a - 1 : i \in 1..Len(fromIms') /\ i + 1 \in 1..a
    BY <1>1, <1>2
  <2> QED
    BY <1>1, <1>2, <1>3, <2>1
<1>5. \A i \in (a - 1) + 1..Len(fromIms') : fromIms'[i] # Ack /\ Fits(fromIms'[i], c + i - (a - 1))
  <2> TAKE i \in (a - 1) + 1..Len(fromIms')
  <2>1. i \in 1..Len(fromIms') /\ i + 1 \in a + 1..Len(fromIms) /\ c + (i + 1) - a = c + i - (a - 1)
    BY <1>1, <1>2, <1>3
  <2>2. fromIms[i + 1] # Ack /\ Fits(fromIms[i + 1], c + (i + 1) - a)
    BY <1>2, <2>1
  <2> QED
    BY <1>1, <2>1, <2>2
<1>6. c + Len(fromIms') - (a - 1) = c + Len(fromIms) - a
  BY <1>1, <1>3
<1>7. (\A x, i : Fits(x, i)' <=> Fits(x, i)) /\ (\A k : Queued(k, p)' <=> Queued(k, p))
  BY DEF Fits, Queued
<1> QED
  BY <1>2, <1>3, <1>4, <1>5, <1>6, <1>7 DEF Tape

(* The first line that is no ACK is the next one. *)
LEMMA TapeHead ==
    ASSUME ConnectionOK, NEW a \in Nat, NEW c \in Nat, NEW p \in 0..8, Tape(a, c, p),
           fromIms # << >>, Head(fromIms) # Ack
    PROVE  a = 0 /\ Fits(Head(fromIms), c + 1)
<1>1. Len(fromIms) \in Nat \ {0} /\ 1 \in 1..Len(fromIms) /\ Head(fromIms) = fromIms[1]
  BY DEF ConnectionOK
<1>2. /\ a \in 0..Len(fromIms) /\ \A i \in 1..a : fromIms[i] = Ack
      /\ \A i \in a + 1..Len(fromIms) : fromIms[i] # Ack /\ Fits(fromIms[i], c + i - a)
  BY DEF Tape
<1>3. a = 0
  <2>1. a # 0 => 1 \in 1..a
    OBVIOUS
  <2> QED
    BY <1>1, <1>2, <2>1
<1>4. 1 \in a + 1..Len(fromIms) /\ c + 1 - a = c + 1
  BY <1>1, <1>3
<1>5. Fits(fromIms[1], c + 1 - a)
  BY <1>2, <1>4
<1> QED
  BY <1>1, <1>3, <1>4, <1>5

(* The next line is read when no ACK is before it. *)
LEMMA TapeReads ==
    ASSUME ConnectionOK, InstanceOK, NEW a \in Nat, NEW c \in Nat, NEW p \in 0..8, Tape(a, c, p),
           fromIms # << >>, fromIms' = Tail(fromIms), Head(fromIms) # Ack, UNCHANGED <<inst, ue, spc>>
    PROVE  /\ Tape(0, c + 1, p)' /\ Fits(Head(fromIms), c + 1) /\ Head(fromIms) \in Report
           /\ p < 8 => c + 1 <= p
<1>1. /\ Len(fromIms) \in Nat \ {0} /\ Len(fromIms') = Len(fromIms) - 1
      /\ \A i \in 1..Len(fromIms') : i + 1 \in 1..Len(fromIms) /\ fromIms'[i] = fromIms[i + 1]
      /\ 1 \in 1..Len(fromIms) /\ Head(fromIms) = fromIms[1]
      /\ Head(fromIms) \in Report \cup {Ack}
  BY LineRead
<1>2. /\ a \in 0..Len(fromIms) /\ \A i \in 1..a : fromIms[i] = Ack
      /\ \A i \in a + 1..Len(fromIms) : fromIms[i] # Ack /\ Fits(fromIms[i], c + i - a)
      /\ Queued(c + Len(fromIms) - a, p)
  BY DEF Tape
<1>3. a = 0
  BY TapeHead
<1>4. Fits(Head(fromIms), c + 1)
  BY TapeHead
<1>5. \A i \in 0 + 1..Len(fromIms') : fromIms'[i] # Ack /\ Fits(fromIms'[i], (c + 1) + i - 0)
  <2> TAKE i \in 0 + 1..Len(fromIms')
  <2>1. i \in 1..Len(fromIms') /\ i + 1 \in a + 1..Len(fromIms) /\ c + (i + 1) - a = (c + 1) + i - 0
    BY <1>1, <1>3
  <2>2. fromIms[i + 1] # Ack /\ Fits(fromIms[i + 1], c + (i + 1) - a)
    BY <1>2, <2>1
  <2> QED
    BY <1>1, <2>1, <2>2
<1>6. c + Len(fromIms) - a = (c + 1) + Len(fromIms') - 0 /\ 0 \in 0..Len(fromIms')
  BY <1>1, <1>3
<1>7. (\A x, i : Fits(x, i)' <=> Fits(x, i)) /\ (\A k : Queued(k, p)' <=> Queued(k, p))
  BY DEF Fits, Queued
<1>8. Tape(0, c + 1, p)'
  <2>1. PICK z \in Nat, d \in Nat : z = 0 /\ d = c + 1
    OBVIOUS
  <2>2. /\ z \in 0..Len(fromIms') /\ \A i \in 1..z : fromIms'[i] = Ack
        /\ d + Len(fromIms') - z = c + Len(fromIms) - a
    BY <1>6, <2>1
  <2>3. \A i \in z + 1..Len(fromIms') : fromIms'[i] # Ack /\ Fits(fromIms'[i], d + i - z)
    BY <1>5, <2>1
  <2>4. Tape(z, d, p)'
    BY <1>2, <1>7, <2>2, <2>3 DEF Tape
  <2> QED
    BY <2>1, <2>4
<1>9. p < 8 => c + 1 <= p
  <2>1. Len(inst.sendq) \in Nat
    BY DEF InstanceOK, Instance
  <2>2. Len(fromIms) \in Nat /\ Len(fromIms) >= 1
    BY <1>1
  <2>3. PICK x \in Nat : x = Len(fromIms)
    BY <2>2
  <2>4. PICK y \in Nat : y = Len(inst.sendq)
    BY <2>1
  <2>5. p < 8 => c + x - a <= p
    <3>1. PICK k \in Int : k = c + x - a
      OBVIOUS
    <3>2. Queued(k, p)
      BY <1>2, <2>3, <3>1
    <3>3. p < 8 => k <= p
      BY <2>4, <3>2 DEF Queued
    <3> QED
      BY <3>1, <3>3
  <2> QED
    BY <1>3, <2>2, <2>3, <2>5
<1> QED
  BY <1>1, <1>4, <1>8, <1>9

(* A line is read only in a session. *)
LEMMA ReadsInSession ==
    ASSUME RegInv, Reading
    PROVE  Session /\ \E p \in 0..8 : Stage(p) /\ ReadsOn(p)
<1>1. ctl.pc \in {"query", "reply"} /\ ctl.name # "timeout" /\ fromIms # << >>
  BY DEF Reading
<1>2. Session
  BY <1>1 DEF RegInv, Phases, Opening, Skipped, Closed
<1>3. PICK p \in 0..8 : Stage(p) /\ Desk(p)
  BY <1>2 DEF Session
<1>4. ReadsOn(p)
  BY <1>1, <1>3 DEF Desk, TimesOut
<1> QED
  BY <1>2, <1>3, <1>4

(* A late ACK is skipped. *)
LEMMA SkipAckReg ==
    ASSUME Inv, RegInv, ~crashed, SkipAck
    PROVE  RegInv'
<1>1. ConnectionOK /\ InstanceOK /\ ControlOK
  BY Parts
<1>2. /\ Reading /\ Head(fromIms) = Ack /\ fromIms' = Tail(fromIms) /\ fromIms # << >>
      /\ UNCHANGED <<inst, lpc, spc, worker, freed, pending, wire, crashed, ue, net>>
      /\ UNCHANGED <<toIms, ctl, log>>
  BY DEF SkipAck, Reading, ims, control, phone
<1>3. Numbered' /\ ModifiedAsReported' /\ AbortOnlyLate' /\ Taken' = Taken
  BY <1>2, ControllerFrame
<1>4. Logged' /\ Kept'
  BY <1>2 DEF RegInv, Logged, Kept
<1>5. PICK p \in 0..8 : Session /\ Stage(p) /\ ReadsOn(p)
  BY <1>2, ReadsInSession
<1>6. Half /\ ctl.pc \in {"query", "reply"}
  BY <1>5 DEF Session, ReadsOn
<1>7. PICK c \in Nat : c = Base(ctl.pc, ctl.msg) + ctl.depth
  BY <1>1, <1>6, HalfBase
<1>8. PICK a \in Nat : Tape(a, c, p)
  BY <1>5, <1>7 DEF ReadsOn
<1>9. a > 0 /\ Tape(a - 1, c, p)'
  BY <1>1, <1>2, <1>8, TapeSkips
<1>10. \E b \in Nat : Tape(b, Base(ctl.pc, ctl.msg) + ctl.depth, p)'
  <2>1. PICK b \in Nat : b = a - 1
    BY <1>9
  <2>2. Tape(b, c, p)'
    BY <1>9, <2>1
  <2> QED
    BY <1>2, <1>7, <2>2
<1>11. ReadsOn(p)'
  BY <1>2, <1>3, <1>5, <1>10 DEF ReadsOn, Underway
<1>12. Stage(p)'
  BY <1>2, <1>5, StageStays
<1>13. Session'
  BY <1>2, <1>5, <1>11, <1>12 DEF Session, Half, Desk
<1> QED
  BY <1>3, <1>4, <1>13 DEF RegInv, Phases

(* A line of a report is read: it is the next one of the exchange.         *)
LEMMA ReadsLine ==
    ASSUME Inv, RegInv, ~crashed, Reading, Head(fromIms) # Ack, fromIms' = Tail(fromIms),
           UNCHANGED <<inst, lpc, spc, worker, freed, pending, wire, crashed, ue, net>>
    PROVE  /\ Session /\ Half /\ toIms = << >> /\ Taken = ctl.msg /\ Head(fromIms) \in Report
           /\ Head(fromIms).n \in ue.first..ue.n
           /\ ctl.depth = IF Head(fromIms).type = "start" THEN 0 ELSE 1
           /\ \E p \in 0..8, c \in 0..7 :
                /\ Stage(p) /\ Stage(p)' /\ c = Base(ctl.pc, ctl.msg) + ctl.depth
                /\ Tape(0, c + 1, p)' /\ (p < 8 => c + 1 <= p)
<1>1. ConnectionOK /\ InstanceOK /\ ControlOK
  BY Parts
<1>2. ctl.pc \in {"query", "reply"} /\ fromIms # << >>
  BY DEF Reading
<1>3. PICK p \in 0..8 : Session /\ Stage(p) /\ ReadsOn(p)
  BY ReadsInSession
<1>4. Half
  BY <1>3 DEF Session
<1>5. ctl.depth \in {0, 1}
  BY <1>1 DEF RegInv, Logged, ControlOK, ControlState
<1>6. Base(ctl.pc, ctl.msg) \in {0, 2, 4, 6}
  BY <1>1, <1>2, <1>4, HalfBase
<1>7. PICK c \in 0..7 : c = Base(ctl.pc, ctl.msg) + ctl.depth
  BY <1>5, <1>6
<1>8. PICK a \in Nat : Tape(a, c, p)
  BY <1>3, <1>7 DEF ReadsOn
<1>9. c \in Nat /\ c + 1 \in 1..8
  BY <1>7
<1>10. /\ Tape(0, c + 1, p)' /\ Fits(Head(fromIms), c + 1) /\ Head(fromIms) \in Report
       /\ p < 8 => c + 1 <= p
  BY <1>1, <1>2, <1>8, <1>9, TapeReads
<1>11. /\ Head(fromIms).n \in ue.first..ue.n
       /\ Head(fromIms).type = IF c + 1 \in {1, 3, 5, 7} THEN "start" ELSE "end"
  BY <1>9, <1>10 DEF Fits
<1>12. ctl.depth = IF Head(fromIms).type = "start" THEN 0 ELSE 1
  BY <1>5, <1>6, <1>7, <1>11
<1>13. toIms = << >> /\ Taken = ctl.msg
  <2>1. SUFFICES ASSUME ctl.pc = "query", p = Base("query", ctl.msg) PROVE FALSE
    BY <1>3 DEF ReadsOn
  <2> QED
    BY <1>5, <1>6, <1>7, <1>10, <2>1
<1>14. Stage(p)'
  BY <1>3, StageStays
<1> QED
  BY <1>3, <1>4, <1>7, <1>10, <1>11, <1>12, <1>13, <1>14

(* A block begins. *)
LEMMA ReadStartReg ==
    ASSUME Inv, RegInv, ~crashed, ReadStart
    PROVE  RegInv'
<1>1. ConnectionOK /\ InstanceOK /\ ControlOK
  BY Parts
<1> DEFINE h == Head(fromIms)
<1>2. /\ Reading /\ h.type = "start" /\ fromIms' = Tail(fromIms)
      /\ ctl' = [ctl EXCEPT !.depth = ctl.depth + 1, !.about = ctl.about \cup {h.n},
                            !.name = IF ctl.depth = 0 THEN h.symbol ELSE ctl.name]
      /\ UNCHANGED <<inst, lpc, spc, worker, freed, pending, wire, crashed, ue, net>>
      /\ UNCHANGED <<toIms, log>>
  BY DEF ReadStart, ims, phone
<1>3. h # Ack
  BY <1>2 DEF Ack
<1>4. /\ Session /\ Half /\ toIms = << >> /\ Taken = ctl.msg /\ h \in Report
      /\ h.n \in ue.first..ue.n /\ ctl.depth = IF h.type = "start" THEN 0 ELSE 1
  BY <1>2, <1>3, ReadsLine
<1>5. PICK p \in 0..8, c \in 0..7 :
        /\ Stage(p)' /\ c = Base(ctl.pc, ctl.msg) + ctl.depth /\ Tape(0, c + 1, p)'
  BY <1>2, <1>3, ReadsLine
<1>6. h.symbol \in RequestLabels \cup QueryNames \cup {NULL}
  BY <1>4 DEF Report
<1>7. h.symbol # "timeout" /\ h.symbol # "null_action"
  BY <1>6 DEF RequestLabels, RequestNames, QueryNames, NULL
<1> HIDE DEF h
<1>8. /\ ctl.depth = 0 /\ ctl'.depth = 1 /\ ctl'.name = h.symbol /\ ctl'.about = ctl.about \cup {h.n}
      /\ ctl'.pc = ctl.pc /\ ctl'.back = ctl.back /\ ctl'.msg = ctl.msg /\ ctl'.sent = ctl.sent
      /\ ctl'.qname = ctl.qname
  BY <1>1, <1>2, <1>4 DEF ControlOK, ControlState
<1>9. Numbered' /\ ModifiedAsReported' /\ AbortOnlyLate' /\ Taken' = Taken
  BY <1>2, ControllerFrame
<1>10. Logged'
  BY <1>2, <1>4, <1>7, <1>8 DEF RegInv, Logged
<1>11. Kept'
  BY <1>2, <1>8 DEF RegInv, Kept
<1>12. ctl.pc \in {"query", "reply"}
  BY <1>2 DEF Reading
<1>13. Base(ctl.pc, ctl.msg) \in {0, 2, 4, 6}
  BY <1>1, <1>4, <1>12, HalfBase
<1>14. Tape(0, Base(ctl.pc, ctl.msg) + ctl.depth, p)'
  <2>1. Base(ctl.pc, ctl.msg)' = Base(ctl.pc, ctl.msg)
    BY <1>8
  <2>2. Base(ctl'.pc, ctl'.msg) + ctl'.depth = c + 1
    BY <1>5, <1>8, <1>13
  <2> QED
    BY <1>5, <2>2
<1>15. ReadsOn(p)'
  BY <1>2, <1>4, <1>7, <1>8, <1>9, <1>12, <1>14 DEF ReadsOn
<1>16. Half'
  BY <1>4, <1>8 DEF Half
<1>17. Session'
  BY <1>2, <1>4, <1>5, <1>15, <1>16 DEF Session, Desk
<1> QED
  BY <1>9, <1>10, <1>11, <1>17 DEF RegInv, Phases

(* What the controller does with the result of a read, by the half it was  *)
(* reading.                                                                *)
LEMMA ResultIs ==
    ASSUME ControlOK, Half, NEW n, NEW b, Result(n, b)
    PROVE  /\ ctl'.sent = ctl.sent /\ ctl'.depth \in {ctl.depth, 0} /\ ctl'.back = ctl.back
           /\ ctl'.about \in {ctl.about, b} /\ ctl'.name \in {ctl.name, NULL}
           /\ \/ /\ ctl.pc = "query" /\ ctl.msg = 1 /\ UNCHANGED log
                 /\ ctl'.pc = "reply" /\ ctl'.msg = 1 /\ ctl'.name = NULL /\ ctl'.depth = 0
                 /\ ctl'.qname = n
              \/ /\ ctl.pc = "query" /\ ctl'.pc = "post" /\ ctl'.qname = ctl.qname
                 /\ log' = Append(log, [q |-> n, r |-> "done", about |-> b])
              \/ /\ ctl.pc = "reply" /\ ctl'.qname = ctl.qname
                 /\ log' = Append(log, [q |-> ctl.qname, r |-> n, about |-> b])
                 /\ \/ ctl'.pc = "post"
                    \/ n # "timeout" /\ ctl'.pc = "step" /\ ctl'.msg = ctl.msg + 1
<1>1. ctl \in ControlState /\ InPlan
  BY DEF ControlOK
<1>2. ctl.pc \in {"query", "reply"}
  BY DEF Result
<1>3. /\ ctl.tc \in 1..Len(Plan) /\ ctl.msg \in 0..Len(Plan[ctl.tc]) /\ ctl.msg \in Nat
      /\ Len(Plan[ctl.tc]) \in Nat /\ Len(Plan[ctl.tc]) <= 2
  <2>1. ctl.tc \in 1..Len(Plan) /\ ctl.msg \in 0..Len(Plan[ctl.tc]) /\ ctl.msg \in Nat
    BY <1>1, <1>2 DEF InPlan, ControlState
  <2>2. Plan[ctl.tc] \in Seq([name : QueryNames, edit : {"none", "nonce", "other"}])
    BY <2>1, SessionAssumption, Element
  <2>3. Len(Plan[ctl.tc]) \in Nat
    BY <2>2
  <2> QED
    BY <2>1, <2>3, RegistrationAssumption
<1>4. CASE ctl.pc = "query" /\ Reporter = "ims"
  <2>1. /\ ctl' = [ctl EXCEPT !.pc = "reply", !.qname = n, !.name = NULL, !.depth = 0, !.about = b]
        /\ UNCHANGED log
    BY <1>4 DEF Result
  <2>2. ctl.msg \in {1, 2}
    BY <1>4 DEF Half
  <2>3. ctl.msg # 2
    <3>1. ctl.msg = 2 => ctl.msg \in 1..Len(Plan[ctl.tc])
      BY <1>3
    <3>2. ctl.msg = 2 => Plan[ctl.tc][ctl.msg].name = "200_ok"
      BY <1>3, <3>1, RegistrationAssumption
    <3> QED
      BY <1>4, <3>2 DEF Reporter
  <2> QED
    BY <1>1, <1>4, <2>1, <2>2, <2>3 DEF ControlState
<1>5. CASE ctl.pc = "query" /\ Reporter = "none"
  <2>1. /\ ctl' = AfterReply("done")
        /\ log' = Append(log, [q |-> n, r |-> "done", about |-> b])
    BY <1>5 DEF Result
  <2>2. ctl.msg = 2
    <3>1. ctl.msg \in {1, 2}
      BY <1>5 DEF Half
    <3>2. ctl.msg = 1 => ctl.msg \in 1..Len(Plan[ctl.tc])
      BY <1>3
    <3>3. ctl.msg = 1 => Plan[ctl.tc][ctl.msg].name = "401_unauthorized"
      BY <1>3, <3>2, RegistrationAssumption
    <3> QED
      BY <1>5, <3>1, <3>3 DEF Reporter
  <2>3. ctl.msg = Len(Plan[ctl.tc])
    <3>1. PICK k \in Nat : k = Len(Plan[ctl.tc])
      BY <1>3
    <3>2. 2 \in 0..k /\ k <= 2
      BY <1>3, <2>2, <3>1
    <3>3. k = 2
      BY <3>2
    <3> QED
      BY <2>2, <3>1, <3>3
  <2>4. ctl' = [ctl EXCEPT !.pc = "post"]
    BY <2>1, <2>3 DEF AfterReply
  <2>5. /\ ctl'.pc = "post" /\ ctl'.sent = ctl.sent /\ ctl'.depth = ctl.depth /\ ctl'.back = ctl.back
        /\ ctl'.about = ctl.about /\ ctl'.name = ctl.name /\ ctl'.qname = ctl.qname
    BY <1>1, <2>4 DEF ControlState
  <2> QED
    BY <1>5, <2>1, <2>5
<1>6. CASE ctl.pc = "reply"
  <2>1. /\ ctl' = AfterReply(n)
        /\ log' = Append(log, [q |-> ctl.qname, r |-> n, about |-> b])
    BY <1>6 DEF Result
  <2>2. CASE n = "timeout" \/ ctl.msg = Len(Plan[ctl.tc])
    <3>1. ctl' = [ctl EXCEPT !.pc = "post"]
      BY <2>1, <2>2 DEF AfterReply
    <3>2. /\ ctl'.pc = "post" /\ ctl'.sent = ctl.sent /\ ctl'.depth = ctl.depth
          /\ ctl'.back = ctl.back /\ ctl'.about = ctl.about /\ ctl'.name = ctl.name
          /\ ctl'.qname = ctl.qname
      BY <1>1, <3>1 DEF ControlState
    <3> QED
      BY <1>6, <2>1, <3>2
  <2>3. CASE n # "timeout" /\ ctl.msg # Len(Plan[ctl.tc])
    <3>1. ctl' = [ctl EXCEPT !.pc = "step", !.msg = ctl.msg + 1]
      BY <2>1, <2>3 DEF AfterReply
    <3> QED
      BY <1>1, <1>6, <2>1, <2>3, <3>1 DEF ControlState
  <2> QED
    BY <2>2, <2>3
<1> QED
  BY <1>2, <1>4, <1>5, <1>6 DEF Reporter

(* The pair a result completes is logged. *)
LEMMA ResultLogged ==
    ASSUME ControlOK, Half, Logged, NEW n, n # "null_action", NEW b, b \subseteq ue.first..ue.n,
           Result(n, b), UNCHANGED ue
    PROVE  Logged'
<1>1. /\ ctl'.depth \in {ctl.depth, 0} /\ ctl'.about \in {ctl.about, b}
      /\ ctl'.name \in {ctl.name, NULL} /\ ctl'.qname \in {ctl.qname, n}
      /\ \/ UNCHANGED log
         \/ log' = Append(log, [q |-> n, r |-> "done", about |-> b])
         \/ log' = Append(log, [q |-> ctl.qname, r |-> n, about |-> b])
  BY ResultIs
<1>2. /\ ctl'.depth <= 1 /\ ctl'.name # "null_action" /\ ctl'.qname # "null_action"
      /\ ctl'.about \subseteq ue'.first..ue'.n
  <2>1. /\ ctl.depth <= 1 /\ ctl.name # "null_action" /\ ctl.qname # "null_action"
        /\ ctl.about \subseteq ue.first..ue.n
    BY DEF Logged
  <2>2. ctl'.depth <= 1
    BY <1>1, <2>1
  <2>3. ctl'.name # "null_action" /\ ctl'.qname # "null_action"
    BY <1>1, <2>1 DEF NULL
  <2>4. ctl'.about \subseteq ue'.first..ue'.n
    BY <1>1, <2>1
  <2> QED
    BY <2>2, <2>3, <2>4
<1>3. CASE UNCHANGED log
  BY <1>2, <1>3 DEF Logged
<1>4. CASE ~ UNCHANGED log
  <2>1. PICK q \in {ctl.qname, n}, r \in {n, "done"} :
          log' = Append(log, [q |-> q, r |-> r, about |-> b])
    BY <1>1, <1>4
  <2> DEFINE l == [q |-> q, r |-> r, about |-> b]
  <2>2. "null_action" \notin {l.q, l.r} /\ l.about \subseteq ue.first..ue.n
    BY DEF Logged
  <2> HIDE DEF l
  <2>3. /\ Len(log') = Len(log) + 1 /\ Len(log) \in Nat /\ log'[Len(log) + 1] = l
        /\ \A i \in 1..Len(log) : log'[i] = log[i]
    BY <2>1 DEF ControlOK, l
  <2>4. \A i \in 1..Len(log') : i \in 1..Len(log) \/ i = Len(log) + 1
    BY <2>3
  <2>5. \A i \in 1..Len(log') :
          "null_action" \notin {log'[i].q, log'[i].r} /\ log'[i].about \subseteq ue'.first..ue'.n
    BY <2>2, <2>3, <2>4 DEF Logged
  <2> QED
    BY <1>2, <2>5 DEF Logged
<1> QED
  BY <1>3, <1>4

(* A block ends. *)
LEMMA ReadEndReg ==
    ASSUME Inv, RegInv, ~crashed, ReadEnd
    PROVE  RegInv'
<1>1. ConnectionOK /\ InstanceOK /\ ControlOK
  BY Parts
<1> DEFINE h == Head(fromIms)
           b == ctl.about \cup {h.n}
<1>2. /\ Reading /\ h.type = "end" /\ fromIms' = Tail(fromIms)
      /\ IF ctl.depth > 1 THEN ctl' = [ctl EXCEPT !.depth = @ - 1, !.about = b] /\ UNCHANGED log
         ELSE Result(IF ctl.depth = 1 THEN ctl.name ELSE "null_action", b)
      /\ ue' = IF ctl.depth = 0 THEN [ue EXCEPT !.pc = "off"] ELSE ue
      /\ UNCHANGED <<inst, lpc, spc, worker, freed, pending, wire, crashed, net>>
      /\ UNCHANGED <<toIms>>
  BY DEF ReadEnd, ims
<1>3. h # Ack /\ h.type # "start"
  BY <1>2 DEF Ack
<1>4. ctl.depth = 1 /\ UNCHANGED ue
  <2>1. ctl.depth \in {0, 1}
    BY <1>1 DEF RegInv, Logged, ControlOK, ControlState
  <2>2. PICK p \in 0..8 : Session /\ Stage(p) /\ ReadsOn(p)
    BY <1>2, ReadsInSession
  <2>3. ctl.pc \in {"query", "reply"} /\ fromIms # << >> /\ Half
    BY <1>2, <2>2 DEF Reading, Session
  <2>4. Base(ctl.pc, ctl.msg) \in {0, 2, 4, 6}
    BY <1>1, <2>3, HalfBase
  <2>5. PICK c \in 0..7 : c = Base(ctl.pc, ctl.msg) + ctl.depth
    BY <2>1, <2>4
  <2>6. PICK a \in Nat : Tape(a, c, p)
    BY <2>2, <2>5 DEF ReadsOn
  <2>7. Fits(h, c + 1) /\ c + 1 \in 1..8
    <3>1. c \in Nat /\ c + 1 \in 1..8
      BY <2>5
    <3>2. Fits(h, c + 1)
      BY <1>1, <1>3, <2>3, <2>6, <3>1, TapeHead
    <3> QED
      BY <3>1, <3>2
  <2>8. c + 1 \notin {1, 3, 5, 7}
    BY <1>3, <2>7 DEF Fits
  <2>9. ctl.depth = 1
    BY <2>1, <2>4, <2>5, <2>7, <2>8
  <2> QED
    BY <1>2, <2>9
<1>5. /\ Session /\ Half /\ toIms = << >> /\ Taken = ctl.msg /\ h \in Report
      /\ h.n \in ue.first..ue.n
  BY <1>2, <1>3, <1>4, ReadsLine
<1>6. PICK p \in 0..8, c \in 0..7 :
        /\ Stage(p) /\ Stage(p)' /\ c = Base(ctl.pc, ctl.msg) + ctl.depth
        /\ Tape(0, c + 1, p)' /\ (p < 8 => c + 1 <= p)
  BY <1>2, <1>3, <1>4, ReadsLine
<1> HIDE DEF h
<1>7. Result(ctl.name, b)
  BY <1>2, <1>4
<1>8. b \subseteq ue.first..ue.n /\ ctl.name # "null_action" /\ ctl.name # "timeout"
  BY <1>2, <1>5 DEF RegInv, Logged, Reading
<1> HIDE DEF b
<1>9. Numbered' /\ ModifiedAsReported' /\ AbortOnlyLate' /\ Taken' = Taken
  BY <1>2, <1>4, ControllerFrame
<1>10. Logged'
  BY <1>1, <1>4, <1>5, <1>7, <1>8, ResultLogged DEF RegInv
<1>11. Kept'
  <2>1. ctl'.sent = ctl.sent
    BY <1>1, <1>5, <1>7, ResultIs
  <2> QED
    BY <1>2, <2>1 DEF RegInv, Kept
<1>12. ctl.pc \in {"query", "reply"}
  BY <1>2 DEF Reading
<1>13. NoAcks'
  <2>1. \A i \in 0 + 1..Len(fromIms') : fromIms'[i] # Ack
    BY <1>6 DEF Tape
  <2> QED
    BY <2>1 DEF NoAcks
<1>14. Desk(p)' /\ Half'
  <2>1. CASE /\ ctl.pc = "query" /\ ctl.msg = 1 /\ ctl'.pc = "reply" /\ ctl'.msg = 1
             /\ ctl'.name = NULL /\ ctl'.depth = 0
    <3>1. Base(ctl'.pc, ctl'.msg) + ctl'.depth = c + 1
      BY <1>4, <1>6, <2>1 DEF Base
    <3>2. Tape(0, Base(ctl.pc, ctl.msg) + ctl.depth, p)'
      BY <1>6, <3>1
    <3>3. ReadsOn(p)'
      BY <1>2, <1>5, <1>9, <2>1, <3>2 DEF ReadsOn, NULL
    <3> QED
      BY <2>1, <3>3 DEF Desk, Half
  <2>2. CASE ctl'.pc = "post"
    BY <1>2, <1>5, <1>13, <2>2 DEF Desk, Half
  <2>3. CASE ctl.pc = "reply" /\ ctl'.pc = "step" /\ ctl'.msg = ctl.msg + 1
    <3>1. (ctl.msg = 0 /\ c + 1 = 2) \/ (ctl.msg = 1 /\ c + 1 = 6)
      <4>1. ctl.msg \in {0, 1}
        BY <1>5, <2>3 DEF Half
      <4> QED
        BY <1>4, <1>6, <2>3, <4>1 DEF Base
    <3>2. p = c + 1
      <4>1. (Taken = 0 => p <= 2) /\ (Taken = 1 => p \in 2..6)
        BY <1>1, <1>6, FitTaken DEF Stage
      <4> QED
        BY <1>5, <1>6, <3>1, <4>1
    <3>3. fromIms' = << >> /\ SenderQuiet'
      <4>1. Queued(c + 1 + Len(fromIms) - 0, p)'
        BY <1>6 DEF Tape
      <4>2. fromIms' \in Seq(Report \cup {Ack}) /\ inst'.sendq \in Seq(Report)
        <5>1. fromIms \in Seq(Report \cup {Ack}) /\ fromIms # << >>
          BY <1>1, <1>2 DEF ConnectionOK, Reading
        <5> QED
          BY <1>1, <1>2, <5>1 DEF InstanceOK, Instance
      <4>3. Len(fromIms') \in Nat /\ Len(inst'.sendq) \in Nat
        BY <4>2
      <4>4. Len(fromIms') = 0 /\ (spc' # "asleep" => Len(inst'.sendq) = 0)
        <5>1. PICK x \in Nat, y \in Nat : x = Len(fromIms') /\ y = Len(inst'.sendq)
          BY <4>3
        <5>2. PICK k \in Nat : k = p + x
          OBVIOUS
        <5>a. c + 1 + Len(fromIms') - 0 = k
          BY <3>2, <5>1, <5>2
        <5>3. Queued(k, p)'
          BY <4>1, <5>a
        <5>b. p < 8
          BY <3>1, <3>2
        <5>4. k <= p /\ (spc' # "asleep" => k + y = p)
          <6>1. (spc' = "asleep" => k <= p) /\ (spc' # "asleep" => k + y = p)
            BY <5>1, <5>3, <5>b DEF Queued
          <6> QED
            BY <6>1
        <5>5. x = 0 /\ (k + y = p => y = 0)
          BY <5>2, <5>4
        <5> QED
          BY <5>1, <5>4, <5>5
      <4> QED
        BY <4>2, <4>4 DEF SenderQuiet
    <3>4. p = Base("query", ctl'.msg) /\ Taken' = ctl'.msg - 1
      BY <1>5, <1>9, <2>3, <3>1, <3>2 DEF Base
    <3> QED
      BY <1>2, <1>5, <2>3, <3>3, <3>4 DEF Desk, Half
  <2> QED
    BY <1>1, <1>5, <1>7, <2>1, <2>2, <2>3, ResultIs
<1>15. Session'
  BY <1>2, <1>5, <1>6, <1>14 DEF Session
<1> QED
  BY <1>9, <1>10, <1>11, <1>15 DEF RegInv, Phases

(* A read times out. *)
LEMMA ReadTimeoutReg ==
    ASSUME Inv, RegInv, ~crashed, Silent, ReadTimeout
    PROVE  RegInv'
<1>1. ConnectionOK /\ InstanceOK /\ ControlOK
  BY Parts
<1>2. /\ ctl.pc \in {"query", "reply"} /\ fromIms = << >> /\ ctl.name # "timeout"
      /\ ctl' = [ctl EXCEPT !.pc = "alive", !.back = ctl.pc, !.name = "timeout"]
      /\ UNCHANGED <<inst, lpc, spc, worker, freed, pending, wire, crashed, ue, net>>
      /\ UNCHANGED <<toIms, fromIms, log>>
  BY DEF ReadTimeout, ims, phone
<1>3. /\ ctl'.pc = "alive" /\ ctl'.back = ctl.pc /\ ctl'.name = "timeout"
      /\ ctl'.msg = ctl.msg /\ ctl'.sent = ctl.sent /\ ctl'.depth = ctl.depth
      /\ ctl'.qname = ctl.qname /\ ctl'.about = ctl.about
  BY <1>1, <1>2 DEF ControlOK, ControlState
<1>4. Numbered' /\ ModifiedAsReported' /\ AbortOnlyLate' /\ (Stuck => Stuck') /\ Taken' = Taken
  BY <1>2, ControllerFrame
<1>5. Logged'
  BY <1>2, <1>3 DEF RegInv, Logged
<1>6. Kept'
  BY <1>2, <1>3 DEF RegInv, Kept
<1>7. Session
  BY <1>2 DEF RegInv, Phases, Opening, Skipped, Closed
<1>8. PICK p \in 0..8 : Stage(p) /\ Desk(p)
  BY <1>7 DEF Session
<1>9. toIms = << >> /\ SenderQuiet
  BY DEF Silent, ImsQuiet
<1>10. Stuck /\ Taken = ctl.msg
  <2>1. CASE TimesOut
    BY <2>1 DEF TimesOut
  <2>a. CASE ReadsOn(p) /\ spc = "asleep"
    BY <1>9, <2>a DEF ReadsOn, Underway, Stuck
  <2>2. CASE ReadsOn(p) /\ spc # "asleep"
    <3>1. Taken = ctl.msg
      BY <1>9, <2>2 DEF ReadsOn, Underway
    <3>2. Base(ctl.pc, ctl.msg) \in {0, 2, 4, 6}
      BY <1>1, <1>2, <1>7, HalfBase DEF Session
    <3>3. PICK c \in 0..7 : c = Base(ctl.pc, ctl.msg) + ctl.depth
      <4>1. ctl.depth \in {0, 1}
        BY <1>1 DEF RegInv, Logged, ControlOK, ControlState
      <4> QED
        BY <3>2, <4>1
    <3>4. PICK a \in Nat : Tape(a, c, p)
      BY <2>2, <3>3 DEF ReadsOn
    <3>5. inst.sendq = << >> /\ Len(fromIms) = 0 /\ Len(inst.sendq) = 0
      BY <1>2, <1>9, <2>2 DEF SenderQuiet
    <3>6. p < 8
      BY <2>2, <3>4, <3>5 DEF Tape, Queued
    <3>7. ue.pc # "registered"
      BY <1>8, <3>6 DEF Stage, Single
    <3>8. \A w \in Workers : Quiet(w) \/ Waiting(w)
      BY DEF Silent, ImsQuiet, Quiet
    <3>9. Stuck
      BY <3>5, <3>7, <3>8 DEF Stuck, Silent, ImsQuiet, Still
    <3> QED
      BY <3>1, <3>9
  <2> QED
    BY <1>2, <1>8, <2>1, <2>2, <2>a DEF Desk
<1>11. TimesOut'
  BY <1>2, <1>3, <1>4, <1>9, <1>10 DEF TimesOut
<1>12. Stage(p)'
  BY <1>2, <1>8, StageStays
<1>13. Half'
  BY <1>2, <1>3, <1>7 DEF Session, Half
<1>14. Session'
  BY <1>2, <1>7, <1>11, <1>12, <1>13 DEF Session, Desk
<1> QED
  BY <1>4, <1>5, <1>6, <1>14 DEF RegInv, Phases

(* The IMS is alive: the read ends with the timeout. *)
LEMMA ResultTimeoutReg ==
    ASSUME Inv, RegInv, ~crashed, ResultTimeout
    PROVE  RegInv'
<1>1. ControlOK
  BY Parts
<1>2. /\ ctl.pc \in {"query", "reply"} /\ ctl.name = "timeout" /\ Result("timeout", ctl.about)
      /\ UNCHANGED <<inst, lpc, spc, worker, freed, pending, wire, crashed, ue, net>>
      /\ UNCHANGED <<toIms, fromIms>>
  BY DEF ResultTimeout, ims, phone
<1>3. Numbered' /\ ModifiedAsReported' /\ AbortOnlyLate' /\ (Stuck => Stuck') /\ Taken' = Taken
  BY <1>2, ControllerFrame
<1>4. Session
  BY <1>2 DEF RegInv, Phases, Opening, Skipped, Closed
<1>5. PICK p \in 0..8 : Stage(p) /\ Desk(p)
  BY <1>4 DEF Session
<1>6. Stuck /\ Taken = ctl.msg /\ toIms = << >> /\ fromIms = << >>
  BY <1>2, <1>5 DEF Desk, ReadsOn, TimesOut
<1>7. Half
  BY <1>4 DEF Session
<1>8. Logged'
  <2>1. ctl.about \subseteq ue.first..ue.n /\ Logged
    BY DEF RegInv, Logged
  <2> QED
    BY <1>1, <1>2, <1>7, <2>1, ResultLogged
<1>9. Kept'
  <2>1. ctl'.sent = ctl.sent
    BY <1>1, <1>2, <1>7, ResultIs
  <2> QED
    BY <1>2, <2>1 DEF RegInv, Kept
<1>10. Desk(p)' /\ Half'
  <2>1. CASE /\ ctl.pc = "query" /\ ctl.msg = 1 /\ ctl'.pc = "reply" /\ ctl'.msg = 1
             /\ ctl'.name = NULL /\ ctl'.depth = 0
    <3>1. TimesOut'
      BY <1>2, <1>3, <1>6, <2>1 DEF TimesOut
    <3> QED
      BY <2>1, <3>1 DEF Desk, Half
  <2>2. CASE ctl'.pc = "post"
    <3>1. NoAcks'
      BY <1>2, <1>6 DEF NoAcks
    <3> QED
      BY <1>2, <1>6, <2>2, <3>1 DEF Desk, Half
  <2> QED
    BY <1>1, <1>2, <1>7, <2>1, <2>2, ResultIs
<1>11. Stage(p)'
  BY <1>2, <1>5, StageStays
<1>12. Session'
  BY <1>2, <1>4, <1>10, <1>11 DEF Session
<1> QED
  BY <1>3, <1>8, <1>9, <1>12 DEF RegInv, Phases

-----------------------------------------------------------------------------
(* The properties of the registration *)

(* The IMS, the controller and the UE start between two sessions. *)
LEMMA RegInit == SessionInit => RegInv
<1> SUFFICES ASSUME SessionInit PROVE RegInv
  OBVIOUS
<1>1. /\ toIms = << >> /\ fromIms = << >> /\ inst = InitInstance /\ lpc = "read"
      /\ worker = [w \in Workers |-> Idle] /\ freed = {} /\ pending = {} /\ wire = {}
      /\ ~crashed /\ log = << >> /\ net = {} /\ ue = [pc |-> "off", n |-> 0, first |-> 1]
  BY DEF SessionInit, SipInit
<1>2. /\ ctl.pc \in {"done", "pre"} /\ ctl.msg = 0 /\ ctl.name = NULL /\ ctl.depth = 0
      /\ ctl.qname = NULL /\ ctl.sent = 0 /\ ctl.about = {}
  BY DEF SessionInit
<1>3. inst.query = NoQuery /\ inst.sendq = << >>
  BY <1>1 DEF InitInstance
<1>4. ue.pc = "off" /\ ue.n = 0 /\ ue.first = 1
  BY <1>1
<1>5. \A w \in Workers : Quiet(w)
  BY <1>1 DEF Quiet, Idle
<1>6. Numbered
  BY <1>1, <1>4, <1>5 DEF Numbered
<1>7. Logged
  BY <1>1, <1>2 DEF Logged, NULL
<1>8. Kept
  BY <1>1, <1>2, <1>3 DEF Kept, NoQuery
<1>9. Rests
  BY <1>1, <1>3, <1>4, <1>5 DEF Rests, Calm, Still, SenderQuiet
<1>10. Closed
  BY <1>1, <1>2, <1>3, <1>4, <1>9 DEF Closed, NoAcks, Finishing
<1> QED
  BY <1>1, <1>6, <1>7, <1>8, <1>10 DEF RegInv, Phases, ModifiedAsReported, AbortOnlyLate

(* A step that changes nothing. *)
LEMMA RegStays ==
    ASSUME RegInv, UNCHANGED all
    PROVE  RegInv'
<1>1. UNCHANGED <<toIms, fromIms, inst, lpc, spc, worker, freed, pending, wire, crashed, ctl, log, ue, net>>
  BY DEF all, vars, control, phone
<1>2. Numbered' /\ Logged' /\ Kept' /\ ModifiedAsReported'
  BY <1>1 DEF RegInv, Numbered, Quiet, Logged, Kept, ModifiedAsReported
<1>3. AbortOnlyLate'
  BY <1>1 DEF RegInv, AbortOnlyLate, Known
<1>4. /\ (Rests => Rests') /\ (Still => Still') /\ (Stuck => Stuck') /\ Taken' = Taken
      /\ (\A w \in Workers : Quiet(w) \/ Waiting(w)) => (\A w \in Workers : Quiet(w) \/ Waiting(w))'
  <2>1. \A w \in Workers : (Quiet(w)' <=> Quiet(w)) /\ (Waiting(w)' <=> Waiting(w))
    BY <1>1 DEF Quiet, Waiting, Wanted
  <2>2. Still' <=> Still
    BY <1>1 DEF Still, Free
  <2> QED
    BY <1>1, <2>1, <2>2 DEF Rests, Calm, Stuck, SenderQuiet, Taken, MaySend, Answered, Answer
<1>5. Unused => Unused'
  BY <1>1, <1>4 DEF Unused, Reset, Reopened
<1>6. (OnlyAcks => OnlyAcks') /\ (NoAcks => NoAcks') /\ (AcksLast => AcksLast')
  BY <1>1 DEF OnlyAcks, NoAcks, AcksLast
<1>7. Opening => Opening'
  BY <1>1, <1>5, <1>6 DEF Opening
<1>8. Skipped => Skipped'
  BY <1>1, <1>5, <1>6 DEF Skipped
<1>9. Closed => Closed'
  BY <1>1, <1>4, <1>6 DEF Closed, Finishing, SenderQuiet
<1>10. ASSUME Session PROVE Session'
  <2>1. PICK p \in 0..8 : Stage(p) /\ Desk(p)
    BY <1>10 DEF Session
  <2>2. Stage(p)'
    BY <1>1, <2>1, StageStays
  <2>3. ReadsOn(p) => ReadsOn(p)'
    <3>1. ASSUME NEW a \in Nat, Tape(a, Base(ctl.pc, ctl.msg) + ctl.depth, p)
          PROVE  Tape(a, Base(ctl.pc, ctl.msg) + ctl.depth, p)'
      BY <1>1, <3>1 DEF Tape, Queued, Fits
    <3> QED
      BY <1>1, <1>4, <3>1 DEF ReadsOn, Underway
  <2>4. TimesOut => TimesOut'
    BY <1>1, <1>4 DEF TimesOut
  <2>5. Desk(p)'
    BY <1>1, <1>4, <1>6, <2>1, <2>3, <2>4 DEF Desk, SenderQuiet
  <2>6. Half'
    BY <1>1, <1>10 DEF Session, Half
  <2> QED
    BY <1>1, <1>10, <2>2, <2>5, <2>6 DEF Session
<1> QED
  BY <1>2, <1>3, <1>7, <1>8, <1>9, <1>10 DEF RegInv, Phases

(* Every step of the IMS, the controller and the UE. *)
LEMMA RegStep == Inv /\ Inv' /\ RegInv /\ [SessionNext]_all => RegInv'
<1> SUFFICES ASSUME Inv, Inv', RegInv, [SessionNext]_all PROVE RegInv'
  OBVIOUS
<1>1. CASE UNCHANGED all \/ Stopped
  BY <1>1, RegStays DEF Stopped, all
<1>2. CASE ~crashed /\ ControllerStep
  BY <1>2, SendInitReg, AttachReg, FinReg, ReadTimeoutReg, InitAckReg, SendHelloReg, AliveAckReg,
     RenewReg, NoAttachReg, SendQueryReg, SkipAckReg, ReadStartReg, ReadEndReg, ResultTimeoutReg,
     PostOffReg, NextTestcaseReg
  DEF ControllerStep
<1>3. CASE ~crashed /\ (ListenerStep \/ SenderStep \/ LoseSender \/ UeStep \/ Arrive \/ Conclude)
  BY <1>3, ListenerReg, SenderReg, LoseReg, UeReg, ArriveReg, ConcludeReg
<1>4. CASE ~crashed /\ \E w \in Workers : WorkerStep(w)
  BY <1>4, WorkReg
<1> QED
  BY <1>1, <1>2, <1>3, <1>4 DEF SessionNext

(* In every reachable state the IMS is between two sessions, with nothing  *)
(* of the last one left that could be taken for a report of the next, or   *)
(* in a session whose one message under way accounts for every line that   *)
(* processResult has read and will read.                                   *)
THEOREM RegistrationInvariance == SessionSpec => [](Inv /\ RegInv)
<1>1. SessionInit => Inv /\ RegInv
  BY InvInit, RegInit
<1>2. (Inv /\ RegInv) /\ [SessionNext]_all => (Inv /\ RegInv)'
  BY InvStep, RegStep
<1> QED
  BY <1>1, <1>2, PTL DEF SessionSpec

(* Every block processResult reads from the IMS is opened before it is     *)
(* closed, and none is opened inside another: no log has a null_action,    *)
(* for any number of processes and of testcases.                           *)
THEOREM BlocksArePaired == SessionSpec => []BlocksPaired
<1>1. RegInv => BlocksPaired
  BY DEF RegInv, Logged, BlocksPaired
<1> QED
  BY <1>1, RegistrationInvariance, PTL

(* What processResult logs was reported for messages the UE has sent since *)
(* it attached in the same testcase.                                       *)
THEOREM ReportsAreFresh == SessionSpec => []ReportsFresh
<1>1. RegInv => ReportsFresh
  BY DEF RegInv, Logged, ReportsFresh
<1> QED
  BY <1>1, RegistrationInvariance, PTL

(* A 401 sent before fin is modified by the query it was reported under,   *)
(* although process_query reads the query once more to modify it.          *)
THEOREM ModifiedUnderReport == SessionSpec => []ModifiedAsReported
<1>1. RegInv => ModifiedAsReported
  BY DEF RegInv
<1> QED
  BY <1>1, RegistrationInvariance, PTL

(* The assertion on the nonce fails only for a refused REGISTER or after   *)
(* fin has marked the instance finished.                                   *)
THEOREM AbortsOnlyLate == SessionSpec => []AbortOnlyLate
<1>1. RegInv => AbortOnlyLate
  BY DEF RegInv
<1> QED
  BY <1>1, RegistrationInvariance, PTL
===============================================================================
