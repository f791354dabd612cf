---------------------------- MODULE TestbedProofs -----------------------------
(***************************************************************************)
(* Proofs about the main controller, the ePDG and the UE together          *)
(* (Testbed), for any testcases, any number of workers and IKE_SAs, any    *)
(* length of the queues and a UE of any pace:                              *)
(*                                                                         *)
(*   TestbedTyped    TestbedSpec => []TestbedTypeOK                        *)
(*   QueriesMeetSession  TestbedSpec => []QueriesInSession                 *)
(*                                                                         *)
(* The inductive invariant Inv goes by the controller's place.  From init  *)
(* to wifi_on the ePDG rests, so nothing but ACKs comes and initEPDG does  *)
(* not take a report for its answer; while it reads, ACKs come before the  *)
(* reports; and before the first query no response can fail.               *)
(***************************************************************************)
EXTENDS Testbed, EpdgLemmas

-----------------------------------------------------------------------------
(* Where the controller stands *)

(* isEPDGAlive, to return to b *)
Asking(b) == ctl.pc \in {"alive", "alive_ack"} /\ ctl.back = b

(* pre before its first initEPDG *)
Entering == ctl.pc = "pre" /\ ctl.trial = 0

(* initEPDG of pre *)
Greeting == ctl.pc = "pre_ack" \/ (ctl.pc = "pre" /\ ctl.trial > 0)

(* From there until the Wi-Fi is turned on *)
Greeted ==
    \/ ctl.pc \in {"renew", "enable", "enable_ack", "wifi_on"}
    \/ ctl.pc = "step" /\ ctl.msg = 1
    \/ Asking("renew")

InQuery == ctl.pc = "query" \/ Asking("query")

InReply == ctl.pc = "reply" \/ Asking("reply")

(* The next query is due. *)
GoingOn == ctl.pc = "step" /\ ctl.msg > 1

Session == InQuery \/ InReply \/ GoingOn

(* The reply to enable_vowifi: no query has been sent in this session. *)
FirstReply == ctl.msg = 1 /\ InReply

(* The controller's locals at these places *)
Placed ==
    /\ ctl.pc # "done" => ctl.tc \in 1..Len(Plan) /\ ctl.msg \in 1..Len(messages)
    /\ ctl.name \in Symbols \cup {"timeout"}
    /\ ctl.pc \in {"alive", "alive_ack"} => ctl.back \in {"renew", "query", "reply"}
    /\ Asking("query") \/ Asking("reply") => ctl.name = "timeout"
    /\ ctl.pc \in {"pre", "pre_ack", "renew"} \/ Asking("renew") => ctl.msg = 1
    /\ InQuery => ctl.msg > 1
    /\ ctl.pc = "pre" => ctl.trial < MaxTrials
    /\ ctl.pc = "pre_ack" => ctl.trial \in 1..MaxTrials
    /\ ctl.pc = "wifi_on" \/ FirstReply => ctl.qname = "enable_vowifi"
    /\ ctl.pc = "wifi_on" => ctl.name = NULL
    /\ wifi => Session \/ ctl.pc = "post"

-----------------------------------------------------------------------------
(* The lines on their way to the ePDG *)

OnlyLines(K) == \A i \in 1..Len(toEpdg) : toEpdg[i].kind \in K

SessionOpen ==
    lpc = "read" /\ inst.initiated /\ ~inst.finished /\ OnlyLines({"query", "Hello"})

NoQueries == OnlyLines({"init", "fin", "Hello"})

(* init has been read, or is still to come. *)
Reopened == inst.initiated /\ ~inst.finished /\ inst.query = NoQuery

Reopening ==
    /\ OnlyLines({"init", "Hello"})
    /\ Reopened \/ \E i \in 1..Len(toEpdg) : toEpdg[i].kind = "init"

SessionLines ==
    /\ Session \/ ctl.pc = "post" => SessionOpen
    /\ Entering \/ ctl.pc = "died" => SessionOpen \/ NoQueries
    /\ ctl.pc \in {"next", "done", "failed"} => NoQueries
    /\ Greeting \/ Greeted => Reopening

-----------------------------------------------------------------------------
(* The lines on their way to the controller *)

NoAcks == \A i \in 1..Len(fromEpdg) : fromEpdg[i] # Ack

OnlyAcks == \A i \in 1..Len(fromEpdg) : fromEpdg[i] = Ack

AcksFirst == \A i, j \in 1..Len(fromEpdg) : i < j /\ fromEpdg[j] = Ack => fromEpdg[i] = Ack

AcksLast == \A i, j \in 1..Len(fromEpdg) : i < j /\ fromEpdg[i] = Ack => fromEpdg[j] = Ack

OneAck ==
    \A i, j \in 1..Len(fromEpdg) : fromEpdg[i] = Ack /\ fromEpdg[j] = Ack => i = j

(* No line the ePDG will answer is on its way. *)
NoAckDue == OnlyLines({"query", "fin"})

Answers ==
    /\ ctl.pc \in {"post", "next"} \/ Entering \/ GoingOn => NoAcks /\ NoAckDue
    /\ ctl.pc \in {"query", "reply"} =>
         NoAckDue /\ AcksFirst /\ (ctl.name = "timeout" => NoAcks)
    /\ ctl.pc = "alive" /\ ctl.back # "renew" => toEpdg = << >> /\ NoAcks
    /\ ctl.pc = "alive_ack" /\ ctl.back # "renew" =>
         \/ toEpdg = <<Control("Hello")>> /\ NoAcks
         \/ toEpdg = << >> /\ OneAck
    /\ Greeting => AcksLast
    /\ Greeted => OnlyAcks

-----------------------------------------------------------------------------
(* The ePDG *)

(* Its workers rest, or wait for a query that has not come. *)
Asleep == inst.sendq = << >> /\ \A t \in Workers : worker[t] = Idle \/ Waiting(t)

Dormant == Greeting \/ Greeted => Asleep

(* What the end of a failed response carries *)
Failed == {"retest_required:auth_failed", "retransmission:no_proposal_chosen",
           "retransmission:invalid_ke_payload"}

Benign(q) == \A k \in 1..Len(q) : q[k].symbol \notin Failed

(* A worker that has not been given a query. *)
Unasked(t) ==
    /\ worker[t].pc \in {"idle", "process", "request", "respond", "wait"}
    /\ worker[t].pc \in {"request", "respond"} => inst.sa = worker[t].sa

NoneAsked ==
    /\ inst.query = NoQuery /\ OnlyLines({"Hello"})
    /\ Benign(inst.sendq) /\ Benign(fromEpdg)
    /\ \A t \in Workers : Unasked(t)

BeforeQuery == FirstReply => NoneAsked

Inv ==
    /\ TestbedTypeOK /\ LineInWork /\ NoQueryAfterFin
    /\ Placed /\ SessionLines /\ Answers /\ Dormant /\ BeforeQuery

(* A query line travels in an open session. *)
LEMMA InvQueries == Inv => QueriesInSession
<1> SUFFICES ASSUME Inv PROVE QueriesInSession
  OBVIOUS
<1>1. ASSUME SessionOpen PROVE QueriesInSession
  BY <1>1 DEF SessionOpen, OnlyLines, QueriesInSession
<1>2. ASSUME NoQueries PROVE QueriesInSession
  BY <1>2 DEF NoQueries, OnlyLines, QueriesInSession
<1>3. ASSUME Reopening PROVE NoQueries
  BY <1>3 DEF Reopening, NoQueries, OnlyLines
<1>4. ctl.pc \in Pcs /\ ctl.msg \in Nat /\ ctl.trial \in Nat
  BY DEF Inv, TestbedTypeOK, ControllerTypeOK, ControlState
<1>5. ctl.pc \in {"pre", "pre_ack"} \/ Greeted \/ Session
        \/ ctl.pc \in {"post", "next", "done", "failed", "died"}
  <2>1. CASE ctl.pc = "step"
    <3>1. ctl.msg # 0
      BY <2>1 DEF Inv, Placed
    <3> QED
      BY <1>4, <2>1, <3>1 DEF Greeted, Session, GoingOn
  <2>2. CASE ctl.pc \in {"alive", "alive_ack"}
    BY <2>2 DEF Inv, Placed, Greeted, Session, InQuery, InReply, Asking
  <2> QED
    BY <1>4, <2>1, <2>2 DEF Pcs, Greeted, Session, InQuery, InReply
<1>6. ctl.pc \in {"pre", "pre_ack"} => Greeting \/ Entering
  BY <1>4 DEF Greeting, Entering
<1> QED
  BY <1>1, <1>2, <1>3, <1>5, <1>6 DEF Inv, SessionLines

-----------------------------------------------------------------------------
(* A worker before the first query *)

(* Instance j is what such a worker makes of instance i: it stays bound,   *)
(* and no report of a failed response is made.                             *)
Mild(i, j) ==
    Bounded(j) /\ j.sa = i.sa /\ (Benign(i.sendq) => Benign(j.sendq))

LEMMA MildEnqueue ==
    ASSUME NEW i, Bounded(i), NEW type \in {"start", "end"}, NEW symbol \in Symbols \ Failed
    PROVE  Mild(i, Enqueue(i, type, symbol))
<1> DEFINE r == [type |-> type, symbol |-> symbol, sa |-> i.sa]
<1>1. Bounded(Enqueue(i, type, symbol)) /\ Enqueue(i, type, symbol).sa = i.sa
  BY EnqueueTouches
<1>2. i.sendq \in Seq(Report) /\ i.sa \in SA \cup {Unbound, Closed}
  BY DEF Bounded, Instance
<1>3. r \in Report /\ r.symbol \notin Failed
  BY <1>2 DEF Report
<1> HIDE DEF r
<1>4. Enqueue(i, type, symbol).sendq \in {i.sendq, Append(i.sendq, r)}
  <2> DEFINE q == Append(i.sendq, r)
  <2>1. Enqueue(i, type, symbol) = [i EXCEPT !.sendq = q] \/ Enqueue(i, type, symbol) = i
    BY DEF Enqueue, r
  <2>2. q \in Seq(Report)
    BY <1>2, <1>3, Appended
  <2> HIDE DEF q
  <2>3. [i EXCEPT !.sendq = q].sendq = q
    BY <2>2, QueueReplaced
  <2> QED
    BY <2>1, <2>3 DEF q
<1>5. Benign(i.sendq) => Benign(Append(i.sendq, r))
  <2>1. /\ Len(Append(i.sendq, r)) = Len(i.sendq) + 1 /\ Len(i.sendq) \in Nat
        /\ \A k \in 1..Len(i.sendq) : Append(i.sendq, r)[k] = i.sendq[k]
        /\ Append(i.sendq, r)[Len(i.sendq) + 1] = r
    BY <1>2, <1>3, Appended
  <2>2. \A k \in 1..Len(i.sendq) + 1 : k \in 1..Len(i.sendq) \/ k = Len(i.sendq) + 1
    BY <2>1
  <2> QED
    BY <1>3, <2>1, <2>2 DEF Benign
<1> QED
  BY <1>1, <1>4, <1>5 DEF Mild

(* The fields such a worker sets on its way. *)
LEMMA MildFields ==
    ASSUME NEW i, Bounded(i)
    PROVE  /\ Mild(i, i)
           /\ \A x \in Requests \cup {NULL, "error"} : Mild(i, [i EXCEPT !.rprev = x])
           /\ \A x \in Requests \cup {NULL, "error"}, m \in Int :
                Mild(i, [i EXCEPT !.rprev = x, !.imid = m])
           /\ \A m \in Int : Mild(i, [i EXCEPT !.retransmission = m])
           /\ \A m, x \in Int : Mild(i, [i EXCEPT !.imid = m, !.retransmission = x])
           /\ \A m \in Int : Mild(i, [i EXCEPT !.retransmission = m, !.not_report = FALSE])
           /\ Mild(i, [i EXCEPT !.not_report = TRUE])
<1>1. Mild(i, i)
  BY DEF Mild
<1>2. \A x \in Requests \cup {NULL, "error"} : Mild(i, [i EXCEPT !.rprev = x])
  BY DEF Mild, Bounded, Instance
<1>3. \A x \in Requests \cup {NULL, "error"}, m \in Int :
        Mild(i, [i EXCEPT !.rprev = x, !.imid = m])
  BY DEF Mild, Bounded, Instance
<1>4. \A m \in Int : Mild(i, [i EXCEPT !.retransmission = m])
  BY DEF Mild, Bounded, Instance
<1>5. \A m, x \in Int : Mild(i, [i EXCEPT !.imid = m, !.retransmission = x])
  BY DEF Mild, Bounded, Instance
<1>6. \A m \in Int : Mild(i, [i EXCEPT !.retransmission = m, !.not_report = FALSE])
  BY DEF Mild, Bounded, Instance
<1>7. Mild(i, [i EXCEPT !.not_report = TRUE])
  BY DEF Mild, Bounded, Instance
<1> QED
  BY <1>1, <1>2, <1>3, <1>4, <1>5, <1>6, <1>7

LEMMA MildTwice ==
    ASSUME NEW i, NEW j, NEW k, Mild(i, j), Mild(j, k)
    PROVE  Mild(i, k)
  BY DEF Mild

(* The report of a request names no failure. *)
LEMMA MildReport ==
    ASSUME Bounded(inst), NEW t \in Workers, ReportRequest(t)
    PROVE  Mild(inst, inst')
<1> DEFINE i == Counted(t)
           auth == NextRequest(i.rprev)
           label(j, symbol) == IF reporting(j) THEN Enqueue(j, "start", symbol) ELSE j
<1>1. Mild(inst, i) /\ Bounded(i)
  <2>1. inst.imid + 1 \in Int /\ inst.retransmission + 1 \in Int /\ 0 \in Int
    BY DEF Bounded, Instance
  <2>2. Mild(inst, Counted(t))
    BY <2>1, MildFields DEF Counted
  <2> QED
    BY <2>2 DEF Mild
<1>2. "ike_sa_init_request" \in Requests
  <2>1. RequestChain[1] = "ike_sa_init_request" /\ 1 \in 1..6
    BY DEF RequestChain
  <2> QED
    BY <2>1 DEF Requests
<1>3. auth \in Requests \cup {"error"}
  BY NextRequestNamed
<1>4. Requests \subseteq Symbols \ Failed
  <2>1. \A k \in 1..6 : RequestChain[k] \notin Failed
    <3>1. /\ RequestChain[1] \notin Failed /\ RequestChain[2] \notin Failed
          /\ RequestChain[3] \notin Failed /\ RequestChain[4] \notin Failed
          /\ RequestChain[5] \notin Failed /\ RequestChain[6] \notin Failed
      BY DEF RequestChain, Failed
    <3>2. \A k \in 1..6 : k \in {1, 2, 3, 4, 5, 6}
      OBVIOUS
    <3> QED
      BY <3>1, <3>2
  <2> QED
    BY <2>1 DEF Requests, Symbols
<1>5. /\ "ike_sa_init_request" \in Symbols \ Failed /\ "client_error" \in Symbols \ Failed
      /\ (IF auth = "error" THEN "error in ike_auth" ELSE auth) \in Symbols \ Failed
  <2> HIDE DEF auth
  <2>1. "client_error" \in Symbols \ Failed /\ "error in ike_auth" \in Symbols \ Failed
    BY DEF Symbols, Failed
  <2> QED
    BY <1>2, <1>3, <1>4, <2>1
<1>6. \/ inst' = i
      \/ inst' = label([i EXCEPT !.rprev = "ike_sa_init_request", !.imid = 0],
                       "ike_sa_init_request")
      \/ \E symbol \in {IF auth = "error" THEN "error in ike_auth" ELSE auth,
                         "client_error"} : inst' = label([i EXCEPT !.rprev = auth], symbol)
      \/ inst' = [i EXCEPT !.not_report = TRUE]
  BY DEF ReportRequest
<1> HIDE DEF i, auth
<1>7. ASSUME NEW j, Mild(i, j), NEW symbol \in Symbols \ Failed
      PROVE  Mild(inst, label(j, symbol))
  <2>1. Bounded(j) /\ Mild(inst, j)
    BY <1>1, <1>7, MildTwice DEF Mild
  <2>2. Mild(inst, Enqueue(j, "start", symbol))
    BY <2>1, MildEnqueue, MildTwice
  <2> QED
    BY <2>1, <2>2
<1>8. /\ Mild(i, [i EXCEPT !.rprev = "ike_sa_init_request", !.imid = 0])
      /\ Mild(i, [i EXCEPT !.rprev = auth]) /\ Mild(i, [i EXCEPT !.not_report = TRUE])
  <2>1. /\ "ike_sa_init_request" \in Requests \cup {NULL, "error"} /\ 0 \in Int
        /\ auth \in Requests \cup {NULL, "error"}
    BY <1>2, <1>3
  <2> QED
    BY <1>1, <2>1, MildFields
<1>9. CASE inst' = i
  BY <1>1, <1>9
<1>10. CASE inst' = label([i EXCEPT !.rprev = "ike_sa_init_request", !.imid = 0],
                          "ike_sa_init_request")
  BY <1>5, <1>7, <1>8, <1>10
<1>11. CASE \E symbol \in {IF auth = "error" THEN "error in ike_auth" ELSE auth,
                            "client_error"} : inst' = label([i EXCEPT !.rprev = auth], symbol)
  BY <1>5, <1>7, <1>8, <1>11
<1>12. CASE inst' = [i EXCEPT !.not_report = TRUE]
  BY <1>1, <1>8, <1>12, MildTwice
<1> QED
  BY <1>6, <1>9, <1>10, <1>11, <1>12

(* The end of that report does not either. *)
LEMMA MildEnd ==
    ASSUME Bounded(inst)
    PROVE  Mild(inst, EndRequest(inst))
<1>1. inst.retransmission - 1 \in Int
  BY DEF Bounded, Instance
<1>2. NULL \in Symbols \ Failed
  BY DEF Symbols, Failed, NULL
<1>3. CASE reporting(inst)
  BY <1>2, <1>3, MildEnqueue DEF EndRequest
<1>4. CASE ~reporting(inst)
  BY <1>1, <1>4, MildFields DEF EndRequest
<1> QED
  BY <1>3, <1>4

(* A worker that has no query takes its request as far as get_next_query.  *)
LEMMA UnaskedWork ==
    ASSUME Bounded(inst), WorkersOK, NEW t \in Workers, Work(t), Unasked(t),
           inst.query = NoQuery, inst.initiated, ~inst.finished
    PROVE  /\ Mild(inst, inst')
           /\ \A u \in Workers : Unasked(u) => Unasked(u)'
<1>1. /\ worker[t] \in Job \cup {Idle} /\ worker \in [Workers -> Job \cup {Idle}]
      /\ worker[t].pc # "idle" => worker[t] \in Job
  BY DEF WorkersOK, Idle
<1>2. ASSUME Mild(inst, inst'),
             NEW w, worker' = [worker EXCEPT ![t] = w],
             w.pc \in {"idle", "process", "request", "respond", "wait"},
             w.pc \in {"request", "respond"} => inst.sa = w.sa
      PROVE  \A u \in Workers : Unasked(u) => Unasked(u)'
  BY <1>1, <1>2 DEF Unasked, Mild
<1>3. ASSUME worker[t].pc # "idle", NEW pc \in {"request", "respond", "wait"}, Goto(t, pc)
      PROVE  \E w : /\ worker' = [worker EXCEPT ![t] = w]
                    /\ w.pc = pc /\ w.sa = worker[t].sa
  <2>1. worker' = [worker EXCEPT ![t] = [worker[t] EXCEPT !.pc = pc]]
    BY <1>1, <1>3 DEF Goto
  <2>2. [worker[t] EXCEPT !.pc = pc].pc = pc /\ [worker[t] EXCEPT !.pc = pc].sa = worker[t].sa
    BY <1>1, <1>3 DEF Job
  <2> QED
    BY <2>1, <2>2
<1>4. ASSUME checkin(t) \/ checkin_and_destroy(t)
      PROVE  worker' = [worker EXCEPT ![t] = Idle] /\ Idle.pc = "idle"
  BY <1>4 DEF checkin, checkin_and_destroy, Release, Idle
<1>5. Mild(inst, inst)
  BY MildFields
<1>6. CASE RefuseUnbound(t) \/ Stale(t) \/ Reject(t) \/ GenerateFails(t)
  <2>1. inst' = inst /\ (checkin(t) \/ checkin_and_destroy(t))
    BY <1>6 DEF RefuseUnbound, Stale, Reject, GenerateFails
  <2> QED
    BY <1>2, <1>4, <1>5, <2>1
<1>7. CASE RefuseRepeated(t)
  <2>1. inst.imid + 1 \in Int /\ inst.retransmission + 1 \in Int /\ 0 \in Int
    BY DEF Bounded, Instance
  <2>2. Mild(inst, Counted(t))
    BY <2>1, MildFields DEF Counted
  <2>3. inst' = Counted(t) /\ checkin(t)
    BY <1>7 DEF RefuseRepeated
  <2> QED
    BY <1>2, <1>4, <2>2, <2>3
<1>8. CASE ReportRequest(t)
  <2>1. Mild(inst, inst')
    BY <1>8, MildReport
  <2>2. worker[t].pc # "idle" /\ Goto(t, "request") /\ inst.sa = worker[t].sa
    BY <1>8 DEF ReportRequest, check_instance
  <2>3. PICK w : worker' = [worker EXCEPT ![t] = w] /\ w.pc = "request" /\ w.sa = worker[t].sa
    BY <1>3, <2>2
  <2> QED
    BY <1>2, <2>1, <2>2, <2>3
<1>9. CASE CrashOnRequest(t)
  BY <1>5, <1>9 DEF CrashOnRequest, Unasked
<1>10. CASE ParseFails(t)
  <2>1. /\ inst' = inst \/ inst' = EndRequest(inst)
        /\ checkin(t) \/ checkin_and_destroy(t)
    BY <1>10 DEF ParseFails
  <2> QED
    BY <1>2, <1>4, <1>5, <2>1, MildEnd
<1>11. CASE Accept(t)
  <2>1. /\ inst' = inst \/ inst' = EndRequest(inst)
        /\ worker[t].pc = "request" /\ Goto(t, "respond")
    BY <1>11 DEF Accept
  <2>2. inst.sa = worker[t].sa
    BY <2>1 DEF Unasked
  <2>3. PICK w : worker' = [worker EXCEPT ![t] = w] /\ w.pc = "respond" /\ w.sa = worker[t].sa
    BY <1>3, <2>1
  <2> QED
    BY <1>2, <1>5, <2>1, <2>2, <2>3, MildEnd
<1>12. CASE Respond(t)
  <2>1. inst' = inst /\ worker[t].pc = "respond"
    BY <1>12 DEF Respond
  <2>2. inst.sa = worker[t].sa
    BY <2>1 DEF Unasked
  <2>3. Goto(t, "wait")
    BY <1>12, <2>2 DEF Respond, check_instance
  <2>4. PICK w : worker' = [worker EXCEPT ![t] = w] /\ w.pc = "wait" /\ w.sa = worker[t].sa
    BY <1>3, <2>1, <2>3
  <2> QED
    BY <1>2, <1>5, <2>1, <2>4
<1>13. ~(TakeQuery(t) \/ CrashOnQuery(t) \/ NotifyError(t) \/ Released(t))
  BY DEF TakeQuery, CrashOnQuery, NotifyError, Released, Takeable
<1>14. ~(Build(t) \/ EndResponse(t) \/ Send(t))
  BY DEF Build, EndResponse, Send, Unasked
<1> QED
  BY <1>6, <1>7, <1>8, <1>9, <1>10, <1>11, <1>12, <1>13, <1>14 DEF Work

(* A request that arrives binds the instance only if no worker counts on   *)
(* the binding.                                                            *)
LEMMA UnaskedReceive ==
    ASSUME Bounded(inst), WorkersOK, NEW t \in Workers, NEW s \in SA, Receive(t, s)
    PROVE  /\ inst'.sendq = inst.sendq
           /\ \A u \in Workers : Unasked(u) => Unasked(u)'
<1>1. inst' = inst \/ inst' = Bind(s)
  BY DEF Receive, Hand, HandBusy, CheckoutNew, Checkout, CheckoutBusy
<1>2. /\ inst'.sendq = inst.sendq
      /\ inst'.sa = inst.sa \/ inst.sa = Unbound
  BY <1>1 DEF Bind, Bounded, Instance
<1>3. PICK k, x : worker' = [worker EXCEPT ![t] = [Idle EXCEPT !.pc = "process", !.sa = s,
                                                             !.mid = k, !.ex = x]]
  <2>1. PICK k : Start(t, s, k)
    BY DEF Receive, Hand, HandBusy, CheckoutNew, Checkout, CheckoutBusy
  <2> QED
    BY <2>1 DEF Start
<1>4. PICK w : worker' = [worker EXCEPT ![t] = w] /\ w.pc = "process"
  <2> DEFINE w == [Idle EXCEPT !.pc = "process", !.sa = s, !.mid = k, !.ex = x]
  <2>1. w.pc = "process"
    BY DEF Idle
  <2>2. worker' = [worker EXCEPT ![t] = w]
    BY <1>3
  <2> HIDE DEF w
  <2> QED
    BY <2>1, <2>2
<1>5. \A u \in Workers : worker[u].pc \in {"request", "respond"} => worker[u].sa # Unbound
  BY ChannelAssumption, BusyWorker DEF WorkersOK
<1> QED
  BY <1>2, <1>4, <1>5 DEF Unasked, WorkersOK

-----------------------------------------------------------------------------
(* The places exclude each other, and stay where the controller rests.     *)

LEMMA Disjoint ==
    Session \/ ctl.pc = "post" => ~Greeting /\ ~Greeted /\ ~Entering
  BY DEF Session, InQuery, InReply, GoingOn, Asking, Greeting, Greeted, Entering

LEMMA SamePlace ==
    ASSUME UNCHANGED control
    PROVE  /\ ctl' = ctl /\ wifi' = wifi /\ log' = log
           /\ Placed => Placed'
           /\ (Session' <=> Session) /\ (FirstReply' <=> FirstReply)
           /\ (Entering' <=> Entering) /\ (GoingOn' <=> GoingOn)
           /\ (Greeting' <=> Greeting) /\ (Greeted' <=> Greeted)
<1>1. ctl' = ctl /\ wifi' = wifi /\ log' = log
  BY DEF control
<1>2. /\ (Session' <=> Session) /\ (FirstReply' <=> FirstReply)
      /\ (Entering' <=> Entering) /\ (GoingOn' <=> GoingOn)
      /\ (Greeting' <=> Greeting) /\ (Greeted' <=> Greeted)
  BY <1>1 DEF Session, FirstReply, InQuery, InReply, Asking, Entering, GoingOn, Greeting, Greeted
<1>3. Placed => Placed'
  BY <1>1 DEF Placed, Session, FirstReply, InQuery, InReply, Asking, GoingOn, messages
<1> QED
  BY <1>1, <1>2, <1>3

(* Lines leave the stream from its head. *)
LEMMA FewerLines ==
    ASSUME toEpdg \in Seq(Line), toEpdg # << >>, toEpdg' \in {toEpdg, Tail(toEpdg)}, NEW K
    PROVE  OnlyLines(K) => OnlyLines(K)'
<1>1. CASE toEpdg' = toEpdg
  BY <1>1 DEF OnlyLines
<1>2. CASE toEpdg' = Tail(toEpdg)
  <2>1. /\ Len(toEpdg) \in Nat \ {0} /\ Len(Tail(toEpdg)) = Len(toEpdg) - 1
        /\ \A k \in 1..Len(toEpdg) - 1 : Tail(toEpdg)[k] = toEpdg[k + 1]
    BY Shifted
  <2> QED
    BY <1>2, <2>1 DEF OnlyLines
<1> QED
  BY <1>1, <1>2

(* A report follows the lines on their way to the controller. *)
LEMMA ReportAppended ==
    ASSUME fromEpdg \in Seq(Out), NEW r \in Report, fromEpdg' = Append(fromEpdg, r)
    PROVE  /\ NoAcks => NoAcks'
           /\ AcksFirst => AcksFirst'
           /\ OneAck => OneAck'
           /\ Benign(fromEpdg) /\ r.symbol \notin Failed => Benign(fromEpdg)'
<1>1. r # Ack /\ r \in Out
  BY DEF Report, Ack, Out
<1>2. /\ Len(fromEpdg') = Len(fromEpdg) + 1 /\ Len(fromEpdg) \in Nat
      /\ \A k \in 1..Len(fromEpdg) : fromEpdg'[k] = fromEpdg[k]
      /\ fromEpdg'[Len(fromEpdg) + 1] = r
  BY <1>1, Appended
<1>3. \A k \in 1..Len(fromEpdg') : k \in 1..Len(fromEpdg) \/ k = Len(fromEpdg) + 1
  BY <1>2
<1>4. NoAcks => NoAcks'
  BY <1>1, <1>2, <1>3 DEF NoAcks
<1>5. AcksFirst => AcksFirst'
  BY <1>1, <1>2, <1>3 DEF AcksFirst
<1>6. OneAck => OneAck'
  BY <1>1, <1>2, <1>3 DEF OneAck
<1>7. Benign(fromEpdg) /\ r.symbol \notin Failed => Benign(fromEpdg)'
  BY <1>1, <1>2, <1>3 DEF Benign
<1> QED
  BY <1>4, <1>5, <1>6, <1>7

(* An ACK follows them. *)
LEMMA AckAppended ==
    ASSUME fromEpdg \in Seq(Out), fromEpdg' = Append(fromEpdg, Ack)
    PROVE  /\ OnlyAcks => OnlyAcks'
           /\ AcksLast => AcksLast'
           /\ NoAcks => OneAck'
           /\ Benign(fromEpdg) => Benign(fromEpdg)'
<1>1. Ack \in Out /\ Ack.symbol \notin Failed
  BY DEF Ack, Out, NULL, Failed
<1>2. /\ Len(fromEpdg') = Len(fromEpdg) + 1 /\ Len(fromEpdg) \in Nat
      /\ \A k \in 1..Len(fromEpdg) : fromEpdg'[k] = fromEpdg[k]
      /\ fromEpdg'[Len(fromEpdg) + 1] = Ack
  BY <1>1, Appended
<1>3. \A k \in 1..Len(fromEpdg') : k \in 1..Len(fromEpdg) \/ k = Len(fromEpdg) + 1
  BY <1>2
<1>4. OnlyAcks => OnlyAcks'
  BY <1>2, <1>3 DEF OnlyAcks
<1>5. AcksLast => AcksLast'
  BY <1>2, <1>3 DEF AcksLast
<1>6. NoAcks => OneAck'
  BY <1>2, <1>3 DEF NoAcks, OneAck
<1>7. Benign(fromEpdg) => Benign(fromEpdg)'
  BY <1>1, <1>2, <1>3 DEF Benign
<1> QED
  BY <1>4, <1>5, <1>6, <1>7

(* The controller reads a line. *)
LEMMA LineTaken ==
    ASSUME fromEpdg \in Seq(Out), fromEpdg # << >>, fromEpdg' = Tail(fromEpdg)
    PROVE  /\ NoAcks => NoAcks'
           /\ OnlyAcks => OnlyAcks' /\ Head(fromEpdg) = Ack
           /\ AcksFirst => AcksFirst'
           /\ AcksLast => AcksLast'
           /\ OneAck => OneAck'
           /\ AcksLast /\ Head(fromEpdg) = Ack => OnlyAcks'
           /\ OneAck /\ Head(fromEpdg) = Ack => NoAcks'
           /\ AcksFirst /\ Head(fromEpdg) # Ack => NoAcks'
           /\ Benign(fromEpdg) => Benign(fromEpdg)' /\ Head(fromEpdg).symbol \notin Failed
           /\ fromEpdg' \in Seq(Out) /\ Len(fromEpdg') <= Len(fromEpdg)
<1>1. /\ Len(fromEpdg) \in Nat \ {0} /\ Head(fromEpdg) = fromEpdg[1]
      /\ Len(fromEpdg') = Len(fromEpdg) - 1 /\ fromEpdg' \in Seq(Out)
      /\ \A k \in 1..Len(fromEpdg) - 1 : fromEpdg'[k] = fromEpdg[k + 1]
  BY Shifted
<1>2. /\ 1 \in 1..Len(fromEpdg)
      /\ \A k \in 1..Len(fromEpdg') : k + 1 \in 1..Len(fromEpdg) /\ 1 < k + 1
                                        /\ fromEpdg'[k] = fromEpdg[k + 1]
  BY <1>1
<1>3. NoAcks => NoAcks'
  BY <1>2 DEF NoAcks
<1>4. OnlyAcks => OnlyAcks' /\ Head(fromEpdg) = Ack
  BY <1>1, <1>2 DEF OnlyAcks
<1>5. \A k, l \in 1..Len(fromEpdg') : k < l => k + 1 < l + 1
  BY <1>1
<1>6. AcksFirst => AcksFirst'
  BY <1>2, <1>5 DEF AcksFirst
<1>7. AcksLast => AcksLast'
  BY <1>2, <1>5 DEF AcksLast
<1>8. OneAck => OneAck'
  <2>1. \A k, l \in 1..Len(fromEpdg') : k + 1 = l + 1 => k = l
    BY <1>1
  <2> QED
    BY <1>2, <2>1 DEF OneAck
<1>9. AcksLast /\ Head(fromEpdg) = Ack => OnlyAcks'
  BY <1>1, <1>2 DEF AcksLast, OnlyAcks
<1>10. OneAck /\ Head(fromEpdg) = Ack => NoAcks'
  <2>1. \A k \in 1..Len(fromEpdg') : k + 1 # 1
    BY <1>1
  <2> QED
    BY <1>1, <1>2, <2>1 DEF OneAck, NoAcks
<1>11. AcksFirst /\ Head(fromEpdg) # Ack => NoAcks'
  BY <1>1, <1>2 DEF AcksFirst, NoAcks
<1>12. Benign(fromEpdg) => Benign(fromEpdg)' /\ Head(fromEpdg).symbol \notin Failed
  BY <1>1, <1>2 DEF Benign
<1>13. Len(fromEpdg') <= Len(fromEpdg)
  BY <1>1
<1> QED
  BY <1>1, <1>3, <1>4, <1>6, <1>7, <1>8, <1>9, <1>10, <1>11, <1>12, <1>13

-----------------------------------------------------------------------------
(* The steps of the ePDG and of the UE *)

(* A worker that rests or waits takes no step. *)
LEMMA Resting ==
    ASSUME NEW t, worker[t] = Idle \/ Waiting(t)
    PROVE  ~Work(t)
<1>1. worker[t].pc \in {"idle", "wait"} /\ (worker[t].pc = "wait" => ~Takeable /\ ~inst.finished)
  BY DEF Idle, Waiting
<1> QED
  BY <1>1 DEF Work, RefuseUnbound, RefuseRepeated, ReportRequest, CrashOnRequest, ParseFails,
              Stale, Reject, Accept, Respond, TakeQuery, CrashOnQuery, NotifyError, Released,
              Build, EndResponse, Send, GenerateFails

PhoneOK ==
    /\ cur \in SA \cup {Unbound} /\ stalled \in BOOLEAN
    /\ overtaken \in When /\ shared \in When /\ left \in Nat

(* The types of the composition are those of its parts. *)
LEMMA TestbedParts == TestbedTypeOK <=> TypeOK /\ ControllerTypeOK /\ PhoneOK
  BY DEF TestbedTypeOK, PhoneOK

(* A step that leaves the UE and the history alone keeps their types. *)
LEMMA PhoneFrame == ASSUME PhoneOK, UNCHANGED phone PROVE PhoneOK'
  BY DEF PhoneOK, phone

(* A step of a worker or of the UE outside the reset. *)
LEMMA TouchKeepsInv ==
    ASSUME Inv, UNCHANGED <<control, channel, lpc>>, Touches(inst, inst', 2), RestOK',
           PhoneOK', ~Greeting, ~Greeted,
           FirstReply => Benign(inst'.sendq) /\ \A t \in Workers : Unasked(t)'
    PROVE  Inv'
<1>1. TestbedTypeOK'
  <2>1. ChannelTypeOK' /\ lpc' \in {"read", "reset", "fin_query", "fin_spi"}
    BY TestbedParts, TypeParts DEF Inv, ChannelTypeOK, channel
  <2>2. TypeOK'
    BY <2>1 DEF TypeOK, Touches, Bounded, RestOK, ManagerOK, WorkersOK, NetworkOK
  <2>3. ControllerTypeOK'
    BY TestbedParts, SamePlace DEF Inv, ControllerTypeOK
  <2> QED
    BY <2>2, <2>3 DEF TestbedTypeOK, PhoneOK
<1>2. /\ inst'.initiated = inst.initiated /\ inst'.finished = inst.finished
      /\ inst'.sa = Closed <=> inst.sa = Closed
      /\ inst'.query \in {inst.query, NoQuery}
      /\ toEpdg' = toEpdg /\ fromEpdg' = fromEpdg /\ lpc' = lpc
  BY DEF Touches, channel
<1>3. LineInWork' /\ NoQueryAfterFin'
  BY <1>2 DEF Inv, LineInWork, NoQueryAfterFin
<1>4. Placed'
  BY SamePlace DEF Inv
<1>5. \A K : OnlyLines(K)' <=> OnlyLines(K)
  BY <1>2 DEF OnlyLines
<1>6. (SessionOpen' <=> SessionOpen) /\ (NoQueries' <=> NoQueries) /\ (NoAckDue' <=> NoAckDue)
  BY <1>2, <1>5 DEF SessionOpen, NoQueries, NoAckDue
<1>7. SessionLines'
  BY <1>6, SamePlace DEF Inv, SessionLines
<1>8. (NoAcks' <=> NoAcks) /\ (AcksFirst' <=> AcksFirst) /\ (OneAck' <=> OneAck)
  BY <1>2 DEF NoAcks, AcksFirst, OneAck
<1>9. Answers'
  BY <1>2, <1>6, <1>8, SamePlace DEF Inv, Answers
<1>10. Dormant'
  BY SamePlace DEF Dormant, Asleep
<1>11. BeforeQuery'
  <2>1. Benign(fromEpdg) => Benign(fromEpdg)'
    BY <1>2 DEF Benign
  <2>2. Benign(inst'.sendq) <=> Benign(inst.sendq)'
    BY DEF Benign
  <2> QED
    BY <1>2, <1>5, <2>1, <2>2, SamePlace DEF Inv, BeforeQuery, NoneAsked
<1> QED
  BY <1>1, <1>3, <1>4, <1>7, <1>9, <1>10, <1>11 DEF Inv

(* A worker of the ePDG. *)
LEMMA WorkKeepsInv ==
    ASSUME Inv, NEW t \in Workers, WorkerStep(t)
    PROVE  Inv'
<1>1. Work(t) /\ UNCHANGED control /\ UNCHANGED phone
  BY DEF WorkerStep
<1>2. Bounded(inst) /\ RestOK /\ WorkersOK
  BY TestbedParts, TypeParts DEF Inv, RestOK
<1>3. Touches(inst, inst', 2) /\ UNCHANGED <<channel, lpc>> /\ RestOK'
  BY <1>1, <1>2, WorkTouches, WorkTypes DEF Inv, WorkersOK
<1>4. ~Greeting /\ ~Greeted
  BY <1>1, Resting DEF Inv, Dormant, Asleep
<1>5. ASSUME FirstReply
      PROVE  Benign(inst'.sendq) /\ \A u \in Workers : Unasked(u)'
  <2>1. inst.query = NoQuery /\ Benign(inst.sendq) /\ \A u \in Workers : Unasked(u)
    BY <1>5 DEF Inv, BeforeQuery, NoneAsked
  <2>2. inst.initiated /\ ~inst.finished
    BY <1>5 DEF Inv, SessionLines, Session, FirstReply, SessionOpen
  <2>3. Mild(inst, inst') /\ \A u \in Workers : Unasked(u) => Unasked(u)'
    BY <1>1, <1>2, <2>1, <2>2, UnaskedWork
  <2> QED
    BY <2>1, <2>3 DEF Mild
<1>6. PhoneOK'
  BY <1>1, TestbedParts, PhoneFrame DEF Inv
<1> QED
  BY <1>1, <1>3, <1>4, <1>5, <1>6, TouchKeepsInv

(* The UE, and the arrival of its requests. *)
LEMMA UeKeepsInv ==
    ASSUME Inv, UeStep
    PROVE  Inv'
<1>1. Bounded(inst) /\ RestOK /\ WorkersOK
  BY TestbedParts, TypeParts DEF Inv, RestOK
<1>2. PhoneOK
  BY TestbedParts DEF Inv
<1>3. wifi /\ UNCHANGED control
  BY DEF UeStep, Attach, MayOpen, GoOn, MayGoOn, GiveUp, Arrive
<1>4. ~Greeting /\ ~Greeted
  BY <1>3, Disjoint DEF Inv, Placed
<1>5. ASSUME FirstReply, inst' = inst, worker' = worker
      PROVE  Benign(inst'.sendq) /\ \A t \in Workers : Unasked(t)'
  BY <1>5 DEF Inv, BeforeQuery, NoneAsked, Unasked
<1>6. Touches(inst, inst, 2)
  BY <1>1, NothingTouches, TouchesLess
<1>7. CASE Attach
  <2>1. PICK s \in SA : UeOpen(s) /\ cur' = s
    BY <1>7 DEF Attach, Fresh
  <2>2. RestOK' /\ UNCHANGED <<channel, inst, lpc, worker>>
    BY <1>1, <2>1, UETypes
  <2>3. PhoneOK'
    BY <1>2, <1>7, <2>1 DEF Attach, PhoneOK
  <2> QED
    BY <1>2, <1>3, <1>4, <1>5, <1>6, <2>1, <2>2, <2>3, TouchKeepsInv
<1>8. CASE GoOn
  <2>1. cur \in SA /\ PhoneOK'
    BY <1>2, <1>8, PhoneFrame DEF GoOn, MayGoOn, PhoneOK
  <2>2. \E ex \in Exchanges : UeNext(cur, ex)
    BY <1>8, TestbedAssumption DEF GoOn
  <2>3. RestOK' /\ UNCHANGED <<channel, inst, lpc, worker>>
    BY <1>1, <2>1, <2>2, UETypes
  <2> QED
    BY <1>2, <1>3, <1>4, <1>5, <1>6, <2>1, <2>3, TouchKeepsInv
<1>9. CASE GiveUp
  <2>1. /\ UNCHANGED <<channel, inst, lpc, worker>> /\ PhoneOK'
        /\ UNCHANGED <<manager, worker, network, crashed>>
    BY <1>2, <1>9 DEF GiveUp, vars, PhoneOK
  <2>2. RestOK'
    BY <1>1, <2>1, RestUnchanged
  <2> QED
    BY <1>2, <1>3, <1>4, <1>5, <1>6, <2>1, <2>2, TouchKeepsInv
<1>10. CASE Arrive
  <2>1. cur \in SA /\ PhoneOK'
    BY <1>2, <1>10 DEF Arrive, PhoneOK, When
  <2>2. PICK t \in Workers : Receive(t, cur)
    BY <1>10 DEF Arrive, Receive
  <2>3. Touches(inst, inst', 0) /\ UNCHANGED <<channel, lpc>> /\ RestOK'
    BY <1>1, <2>1, <2>2, ReceiveTypes
  <2>4. Touches(inst, inst', 2)
    BY <1>1, <2>3, TouchesLess
  <2>5. /\ inst'.sendq = inst.sendq
        /\ \A u \in Workers : Unasked(u) => Unasked(u)'
    BY <1>1, <2>1, <2>2, UnaskedReceive
  <2>6. FirstReply => Benign(inst'.sendq) /\ \A u \in Workers : Unasked(u)'
    BY <2>5 DEF Inv, BeforeQuery, NoneAsked
  <2> QED
    BY <1>2, <1>3, <1>4, <2>1, <2>3, <2>4, <2>6, TouchKeepsInv
<1> QED
  BY <1>7, <1>8, <1>9, <1>10 DEF UeStep

(* The types of the composition after a step that leaves the controller    *)
(* and the UE alone.                                                       *)
LEMMA TypesFrame ==
    ASSUME TestbedTypeOK, TypeOK', UNCHANGED <<control, phone>>
    PROVE  TestbedTypeOK'
<1>1. ControllerTypeOK'
  BY TestbedParts, SamePlace DEF ControllerTypeOK
<1> QED
  BY <1>1, TestbedParts, PhoneFrame DEF TestbedTypeOK, PhoneOK

(* What the controller reads in a session. *)
LEMMA ReadingInSession ==
    ASSUME Placed
    PROVE  /\ ctl.pc \in {"query", "reply"} => Session
           /\ ctl.pc \in {"alive", "alive_ack"} /\ ctl.back # "renew" => Session
           /\ GoingOn => Session
  BY DEF Placed, Session, InQuery, InReply, GoingOn, Asking

(* The sender. *)
LEMMA SenderKeepsInv ==
    ASSUME Inv, SenderStep
    PROVE  Inv'
<1>1. Sender /\ UNCHANGED control /\ UNCHANGED phone
  BY DEF SenderStep
<1>2. ChannelTypeOK /\ Bounded(inst) /\ RestOK /\ lpc \in {"read", "reset", "fin_query", "fin_spi"}
  BY TestbedParts, TypeParts DEF Inv
<1>3. /\ ChannelTypeOK' /\ Bounded(inst)' /\ RestOK' /\ UNCHANGED <<toEpdg, lpc, worker>>
      /\ inst.sendq # << >> /\ Head(inst.sendq) \in Report
      /\ fromEpdg' = Append(fromEpdg, Head(inst.sendq))
      /\ inst'.initiated = inst.initiated /\ inst'.finished = inst.finished
      /\ inst'.sa = inst.sa /\ inst'.query = inst.query /\ inst'.sendq = Tail(inst.sendq)
  BY <1>1, <1>2, SenderTypes
<1>4. ~Greeting /\ ~Greeted
  BY <1>3 DEF Inv, Dormant, Asleep
<1>5. TestbedTypeOK'
  <2>1. TypeOK'
    BY <1>2, <1>3 DEF TypeOK, Bounded, RestOK, ManagerOK, WorkersOK, NetworkOK
  <2> QED
    BY <1>1, <2>1, TypesFrame DEF Inv
<1>6. LineInWork' /\ NoQueryAfterFin'
  BY <1>3 DEF Inv, LineInWork, NoQueryAfterFin
<1>7. Placed'
  BY <1>1, SamePlace DEF Inv
<1>8. \A K : OnlyLines(K)' <=> OnlyLines(K)
  BY <1>3 DEF OnlyLines
<1>9. (SessionOpen' <=> SessionOpen) /\ (NoQueries' <=> NoQueries) /\ (NoAckDue' <=> NoAckDue)
  BY <1>3, <1>8 DEF SessionOpen, NoQueries, NoAckDue
<1>10. SessionLines'
  BY <1>1, <1>4, <1>9, SamePlace DEF Inv, SessionLines
<1>11. /\ NoAcks => NoAcks'
       /\ AcksFirst => AcksFirst'
       /\ OneAck => OneAck'
       /\ Benign(fromEpdg) /\ Head(inst.sendq).symbol \notin Failed => Benign(fromEpdg)'
  BY <1>2, <1>3, ReportAppended DEF ChannelTypeOK
<1>12. Answers'
  BY <1>1, <1>3, <1>4, <1>9, <1>11, SamePlace DEF Inv, Answers
<1>13. Dormant'
  BY <1>1, <1>4, SamePlace DEF Dormant, Asleep
<1>14. BeforeQuery'
  <2> SUFFICES ASSUME FirstReply
               PROVE  /\ inst'.query = NoQuery /\ OnlyLines({"Hello"})'
                      /\ Benign(inst'.sendq) /\ Benign(fromEpdg)'
                      /\ \A t \in Workers : Unasked(t)'
    BY <1>1, SamePlace DEF BeforeQuery, NoneAsked, Benign
  <2>1. /\ inst.query = NoQuery /\ OnlyLines({"Hello"}) /\ Benign(inst.sendq) /\ Benign(fromEpdg)
        /\ \A t \in Workers : Unasked(t)
    BY DEF Inv, BeforeQuery, NoneAsked
  <2>2. /\ Len(inst.sendq) \in Nat \ {0} /\ Head(inst.sendq) = inst.sendq[1]
        /\ Len(Tail(inst.sendq)) = Len(inst.sendq) - 1
        /\ \A k \in 1..Len(inst.sendq) - 1 : Tail(inst.sendq)[k] = inst.sendq[k + 1]
    BY <1>2, <1>3, QueueOf, Shifted
  <2>3. Head(inst.sendq).symbol \notin Failed /\ Benign(Tail(inst.sendq))
    BY <2>1, <2>2 DEF Benign
  <2>4. \A t \in Workers : Unasked(t)'
    BY <1>3, <2>1 DEF Unasked
  <2> QED
    BY <1>3, <1>8, <1>11, <2>1, <2>3, <2>4
<1> QED
  BY <1>5, <1>6, <1>7, <1>10, <1>12, <1>13, <1>14 DEF Inv

(* The listener. *)
LEMMA ListenerKeepsInv ==
    ASSUME Inv, ListenerStep
    PROVE  Inv'
<1>1. Listener /\ UNCHANGED control /\ UNCHANGED phone
  BY DEF ListenerStep
<1>2. TypeOK /\ fromEpdg \in Seq(Out) /\ toEpdg \in Seq(Line)
  BY TestbedParts, TypeParts DEF Inv, ChannelTypeOK
<1>3. Head(toEpdg).kind = "query" => ~inst.finished
  <2>1. toEpdg # << >>
    BY <1>1 DEF Listener, Hello, SetQuery, ResetUnbind, ResetRest, FinMark, FinClear, FinUnbind,
                Inv, LineInWork
  <2>2. Head(toEpdg) = toEpdg[1] /\ 1 \in 1..Len(toEpdg)
    BY <1>2, <2>1, Shifted
  <2> QED
    BY <2>2, InvQueries DEF QueriesInSession
<1>4. /\ TypeOK' /\ LineInWork' /\ NoQueryAfterFin' /\ worker' = worker
      /\ inst'.sendq = inst.sendq /\ toEpdg # << >> /\ 1 \in 1..Len(toEpdg)
      /\ \/ /\ toEpdg[1].kind = "Hello" /\ toEpdg' = Tail(toEpdg)
            /\ fromEpdg' = Append(fromEpdg, Ack) /\ UNCHANGED <<inst, lpc>>
         \/ /\ toEpdg[1].kind = "query" /\ toEpdg' = Tail(toEpdg)
            /\ inst'.initiated = inst.initiated /\ inst'.finished = inst.finished
            /\ UNCHANGED <<fromEpdg, lpc>>
         \/ /\ toEpdg[1].kind = "init" /\ lpc' = "reset" /\ UNCHANGED channel
            /\ inst'.initiated = inst.initiated /\ inst'.finished = inst.finished
            /\ inst'.query = inst.query /\ inst'.sprev = inst.sprev
         \/ /\ toEpdg[1].kind = "init" /\ toEpdg' = Tail(toEpdg) /\ lpc' = "read"
            /\ fromEpdg' = Append(fromEpdg, Ack)
            /\ inst'.initiated = TRUE /\ inst'.finished = FALSE /\ inst'.query = NoQuery
         \/ /\ toEpdg[1].kind = "fin" /\ toEpdg' \in {toEpdg, Tail(toEpdg)}
            /\ UNCHANGED fromEpdg
  <2>1. toEpdg # << >> => 1 \in 1..Len(toEpdg)
    BY <1>2, Shifted
  <2> QED
    BY <1>1, <1>2, <1>3, <2>1, ListenerSteps DEF Inv
<1>5. TestbedTypeOK' /\ Placed'
  BY <1>1, <1>4, TypesFrame, SamePlace DEF Inv
<1>6. toEpdg' \in {toEpdg, Tail(toEpdg)}
  BY <1>4 DEF channel
<1>7. \A K : OnlyLines(K) => OnlyLines(K)' /\ toEpdg[1].kind \in K
  BY <1>2, <1>4, <1>6, FewerLines DEF OnlyLines
<1>8. (NoQueries => NoQueries') /\ (NoAckDue => NoAckDue')
  BY <1>7 DEF NoQueries, NoAckDue
<1>9. SessionOpen => toEpdg[1].kind \in {"query", "Hello"}
  BY <1>7 DEF SessionOpen
<1>10. Reopening => toEpdg[1].kind \in {"init", "Hello"}
  BY <1>7 DEF Reopening
<1>11. CASE /\ toEpdg[1].kind = "Hello" /\ toEpdg' = Tail(toEpdg)
            /\ fromEpdg' = Append(fromEpdg, Ack) /\ UNCHANGED <<inst, lpc>>
  <2>1. ~NoAckDue
    BY <1>7, <1>11 DEF NoAckDue
  <2>2. SessionOpen => SessionOpen'
    BY <1>7, <1>11 DEF SessionOpen
  <2>3. Reopening => Reopening'
    <3>1. ASSUME NEW i \in 1..Len(toEpdg), toEpdg[i].kind = "init"
          PROVE  \E j \in 1..Len(toEpdg') : toEpdg'[j].kind = "init"
      <4>1. i # 1
        BY <1>11, <3>1
      <4>2. /\ Len(toEpdg) \in Nat \ {0} /\ Len(Tail(toEpdg)) = Len(toEpdg) - 1
            /\ \A k \in 1..Len(toEpdg) - 1 : Tail(toEpdg)[k] = toEpdg[k + 1]
        BY <1>2, <1>4, Shifted
      <4>3. i - 1 \in 1..Len(toEpdg') /\ toEpdg'[i - 1] = toEpdg[i]
        BY <1>11, <4>1, <4>2
      <4> QED
        BY <3>1, <4>3
    <3> QED
      BY <1>7, <1>11, <3>1 DEF Reopening, Reopened
  <2>4. SessionLines'
    BY <1>1, <1>8, <2>2, <2>3, SamePlace DEF Inv, SessionLines
  <2>5. /\ OnlyAcks => OnlyAcks'
        /\ AcksLast => AcksLast'
        /\ NoAcks => OneAck'
        /\ Benign(fromEpdg) => Benign(fromEpdg)'
    BY <1>2, <1>11, AckAppended
  <2>6. Answers'
    <3>1. toEpdg = <<Control("Hello")>> => toEpdg' = << >>
      BY <1>11
    <3> QED
      BY <1>1, <1>4, <2>1, <2>5, <3>1, SamePlace DEF Inv, Answers
  <2>7. Dormant'
    BY <1>1, <1>4, <1>11, SamePlace DEF Inv, Dormant, Asleep, Waiting, Takeable
  <2>8. BeforeQuery'
    BY <1>1, <1>4, <1>7, <1>11, <2>5, SamePlace DEF Inv, BeforeQuery, NoneAsked, Unasked, Benign
  <2> QED
    BY <1>4, <1>5, <2>4, <2>6, <2>7, <2>8 DEF Inv
<1>12. CASE /\ toEpdg[1].kind = "query" /\ toEpdg' = Tail(toEpdg)
            /\ inst'.initiated = inst.initiated /\ inst'.finished = inst.finished
            /\ UNCHANGED <<fromEpdg, lpc>>
  <2>1. ~NoQueries /\ ~Reopening /\ ~OnlyLines({"Hello"})
    BY <1>7, <1>10, <1>12 DEF NoQueries
  <2>2. ~Greeting /\ ~Greeted /\ ~FirstReply
    BY <2>1 DEF Inv, SessionLines, BeforeQuery, NoneAsked
  <2>3. SessionOpen => SessionOpen'
    BY <1>7, <1>12 DEF SessionOpen
  <2>4. SessionLines'
    BY <1>1, <1>8, <2>2, <2>3, SamePlace DEF Inv, SessionLines
  <2>5. (NoAcks' <=> NoAcks) /\ (AcksFirst' <=> AcksFirst)
    BY <1>12 DEF NoAcks, AcksFirst
  <2>6. Answers'
    <3>1. toEpdg # <<Control("Hello")>>
      BY <1>12 DEF Control
    <3> QED
      BY <1>1, <1>4, <1>8, <2>2, <2>5, <3>1, SamePlace DEF Inv, Answers
  <2>7. Dormant' /\ BeforeQuery'
    BY <1>1, <2>2, SamePlace DEF Dormant, Asleep, BeforeQuery, NoneAsked
  <2> QED
    BY <1>4, <1>5, <2>4, <2>6, <2>7 DEF Inv
<1>13. ASSUME toEpdg[1].kind \in {"init", "fin"}
       PROVE  ~Session /\ ctl.pc # "post" /\ ~FirstReply
  BY <1>9, <1>13 DEF Inv, SessionLines, FirstReply, Session
<1>14. ASSUME toEpdg[1].kind \in {"init", "fin"},
              Greeting \/ Greeted => Reopening' /\ Dormant',
              Greeting => AcksLast', Greeted => OnlyAcks',
              NoAckDue => fromEpdg' = fromEpdg
       PROVE  Inv'
  <2>1. ~Session /\ ctl.pc # "post" /\ ~FirstReply
    BY <1>13, <1>14
  <2>2. SessionLines'
    BY <1>1, <1>8, <1>9, <1>14, <2>1, SamePlace DEF Inv, SessionLines
  <2>3. Answers'
    <3>1. NoAckDue /\ NoAcks => NoAcks'
      BY <1>14 DEF NoAcks
    <3>2. /\ ctl.pc \notin {"query", "reply"} /\ ~GoingOn
          /\ ~(ctl.pc \in {"alive", "alive_ack"} /\ ctl.back # "renew")
      BY <2>1, ReadingInSession DEF Inv
    <3> QED
      BY <1>1, <1>8, <1>14, <2>1, <3>1, <3>2, SamePlace DEF Inv, Answers
  <2>4. Dormant' /\ BeforeQuery'
    BY <1>1, <1>14, <2>1, SamePlace DEF Dormant, Asleep, BeforeQuery, NoneAsked
  <2> QED
    BY <1>4, <1>5, <2>2, <2>3, <2>4 DEF Inv
<1>15. CASE /\ toEpdg[1].kind = "init" /\ lpc' = "reset" /\ UNCHANGED channel
            /\ inst'.initiated = inst.initiated /\ inst'.finished = inst.finished
            /\ inst'.query = inst.query /\ inst'.sprev = inst.sprev
  <2>1. toEpdg' = toEpdg /\ fromEpdg' = fromEpdg
    BY <1>15 DEF channel
  <2>2. Reopening => Reopening'
    BY <1>4, <1>7, <1>15, <2>1 DEF Reopening
  <2>3. Dormant'
    BY <1>1, <1>4, <1>15, SamePlace DEF Inv, Dormant, Asleep, Waiting, Takeable
  <2>4. (AcksLast => AcksLast') /\ (OnlyAcks => OnlyAcks')
    BY <2>1 DEF AcksLast, OnlyAcks
  <2> QED
    BY <1>14, <1>15, <2>1, <2>2, <2>3, <2>4 DEF Inv, SessionLines, Answers
<1>16. CASE /\ toEpdg[1].kind = "init" /\ toEpdg' = Tail(toEpdg) /\ lpc' = "read"
            /\ fromEpdg' = Append(fromEpdg, Ack)
            /\ inst'.initiated = TRUE /\ inst'.finished = FALSE /\ inst'.query = NoQuery
  <2>1. ~NoAckDue
    BY <1>7, <1>16 DEF NoAckDue
  <2>2. Reopening => Reopening'
    BY <1>7, <1>16 DEF Reopening, Reopened
  <2>3. Dormant'
    BY <1>1, <1>4, <1>16, SamePlace DEF Inv, Dormant, Asleep, Waiting, Takeable
  <2>4. (AcksLast => AcksLast') /\ (OnlyAcks => OnlyAcks')
    BY <1>2, <1>16, AckAppended
  <2> QED
    BY <1>14, <1>16, <2>1, <2>2, <2>3, <2>4 DEF Inv, SessionLines, Answers
<1>17. CASE /\ toEpdg[1].kind = "fin" /\ toEpdg' \in {toEpdg, Tail(toEpdg)}
            /\ UNCHANGED fromEpdg
  <2>1. ~Greeting /\ ~Greeted
    BY <1>10, <1>17 DEF Inv, SessionLines
  <2> QED
    BY <1>14, <1>17, <2>1
<1> QED
  BY <1>4, <1>11, <1>12, <1>15, <1>16, <1>17

-----------------------------------------------------------------------------
(* Where a step of the controller leads *)

Course == Placed /\ SessionLines /\ Answers /\ Dormant /\ BeforeQuery

(* What a step of the controller establishes. *)
Proceeds ==
    /\ ControllerTypeOK' /\ Course'
    /\ fromEpdg' \in Seq(Out) /\ Len(fromEpdg') <= Buffer
    /\ UNCHANGED toEpdg \/ \E l \in Line : WriteToEpdg(l)

LEMMA ToGreeting ==
    ASSUME Placed', Greeting', Reopening', AcksLast', Asleep'
    PROVE  Course'
  BY DEF Course, SessionLines, Answers, Dormant, BeforeQuery, Greeting, Greeted, Entering,
         Session, FirstReply, InQuery, InReply, GoingOn, Asking

LEMMA ToGreeted ==
    ASSUME Placed', Greeted', Reopening', OnlyAcks', Asleep'
    PROVE  Course'
  BY DEF Course, SessionLines, Answers, Dormant, BeforeQuery, Greeting, Greeted, Entering,
         Session, FirstReply, InQuery, InReply, GoingOn, Asking

LEMMA ToEntering ==
    ASSUME Placed', Entering', SessionOpen' \/ NoQueries', NoAcks', NoAckDue'
    PROVE  Course'
  BY DEF Course, SessionLines, Answers, Dormant, BeforeQuery, Greeting, Greeted, Entering,
         Session, FirstReply, InQuery, InReply, GoingOn, Asking

LEMMA ToReading ==
    ASSUME Placed', ctl'.pc \in {"query", "reply"}, SessionOpen', NoAckDue', AcksFirst',
           ctl'.name = "timeout" => NoAcks', FirstReply' => NoneAsked'
    PROVE  Course'
  BY DEF Course, SessionLines, Answers, Dormant, BeforeQuery, Greeting, Greeted, Entering,
         Session, FirstReply, InQuery, InReply, GoingOn, Asking

LEMMA ToNextStep ==
    ASSUME Placed', GoingOn' \/ ctl'.pc = "post", SessionOpen', NoAcks', NoAckDue'
    PROVE  Course'
  BY DEF Course, SessionLines, Answers, Dormant, BeforeQuery, Greeting, Greeted, Entering,
         Session, FirstReply, InQuery, InReply, GoingOn, Asking

LEMMA ToAsking ==
    ASSUME Placed', ctl'.pc \in {"alive", "alive_ack"}, ctl'.back # "renew", SessionOpen',
           ctl'.pc = "alive" => toEpdg' = << >> /\ NoAcks',
           ctl'.pc = "alive_ack" => \/ toEpdg' = <<Control("Hello")>> /\ NoAcks'
                                    \/ toEpdg' = << >> /\ OneAck',
           FirstReply' => NoneAsked'
    PROVE  Course'
  BY DEF Course, SessionLines, Answers, Dormant, BeforeQuery, Greeting, Greeted, Entering,
         Session, FirstReply, InQuery, InReply, GoingOn, Asking

LEMMA ToEnd ==
    ASSUME Placed', ctl'.pc \in {"next", "done", "failed", "died"},
           NoQueries' \/ (ctl'.pc = "died" /\ SessionOpen'),
           ctl'.pc = "next" => NoAcks' /\ NoAckDue'
    PROVE  Course'
  BY DEF Course, SessionLines, Answers, Dormant, BeforeQuery, Greeting, Greeted, Entering,
         Session, FirstReply, InQuery, InReply, GoingOn, Asking

-----------------------------------------------------------------------------
(* What a step of the controller leaves alone *)

LEMMA EpdgRests ==
    ASSUME UNCHANGED <<inst, worker>>
    PROVE  /\ Asleep' <=> Asleep
           /\ Reopened' <=> Reopened
           /\ inst.query = NoQuery /\ OnlyLines({"Hello"})' /\ Benign(inst.sendq)
                /\ Benign(fromEpdg)' /\ (\A t \in Workers : Unasked(t)) => NoneAsked'
<1>1. inst' = inst /\ worker' = worker
  OBVIOUS
<1>2. (Asleep' <=> Asleep) /\ (Reopened' <=> Reopened)
  BY <1>1 DEF Asleep, Waiting, Takeable, Reopened
<1>3. ASSUME inst.query = NoQuery, OnlyLines({"Hello"})', Benign(inst.sendq),
             Benign(fromEpdg)', \A t \in Workers : Unasked(t)
      PROVE  NoneAsked'
  BY <1>1, <1>3 DEF NoneAsked, Unasked, Benign
<1> QED
  BY <1>2, <1>3

LEMMA LinesRest ==
    ASSUME UNCHANGED <<inst, lpc, toEpdg>>
    PROVE  /\ SessionOpen' <=> SessionOpen
           /\ NoQueries' <=> NoQueries
           /\ Reopening' <=> Reopening
           /\ NoAckDue' <=> NoAckDue
           /\ OnlyLines({"Hello"})' <=> OnlyLines({"Hello"})
<1>1. \A K : OnlyLines(K)' <=> OnlyLines(K)
  BY DEF OnlyLines
<1> QED
  BY <1>1 DEF SessionOpen, NoQueries, Reopening, Reopened, NoAckDue

LEMMA ReportsRest ==
    ASSUME UNCHANGED fromEpdg
    PROVE  /\ NoAcks' <=> NoAcks
           /\ OnlyAcks' <=> OnlyAcks
           /\ AcksFirst' <=> AcksFirst
           /\ AcksLast' <=> AcksLast
           /\ Benign(fromEpdg)' <=> Benign(fromEpdg)
  BY DEF NoAcks, OnlyAcks, AcksFirst, AcksLast, Benign

(* The kinds of ACK orders *)
LEMMA AckOrders ==
    ASSUME fromEpdg \in Seq(Out)
    PROVE  /\ NoAcks => AcksFirst /\ AcksLast /\ OneAck
           /\ OnlyAcks => AcksFirst /\ AcksLast /\ Benign(fromEpdg)
           /\ fromEpdg = << >> => NoAcks /\ OnlyAcks
<1>1. Ack.symbol \notin Failed
  BY DEF Ack, NULL, Failed
<1> QED
  BY <1>1 DEF NoAcks, OnlyAcks, AcksFirst, AcksLast, OneAck, Benign

(* The controller writes to an ePDG that has read everything. *)
LEMMA FirstLine ==
    ASSUME toEpdg = << >>, NEW k \in {"Hello", "init", "fin"}, WriteToEpdg(Control(k))
    PROVE  /\ toEpdg' = <<Control(k)>> /\ Len(toEpdg') = 1 /\ toEpdg'[1].kind = k
           /\ \A K : k \in K => OnlyLines(K)'
<1>1. toEpdg' = <<Control(k)>>
  BY DEF WriteToEpdg
<1>2. Control(k).kind = k
  BY DEF Control
<1> QED
  BY <1>1, <1>2 DEF OnlyLines

(* The controller writes after other lines. *)
LEMMA NextLine ==
    ASSUME toEpdg \in Seq(Line), NEW l \in Line, WriteToEpdg(l)
    PROVE  /\ \A K : OnlyLines(K) /\ l.kind \in K => OnlyLines(K)'
           /\ (\E i \in 1..Len(toEpdg) : toEpdg[i].kind = "init")
                => (\E i \in 1..Len(toEpdg') : toEpdg'[i].kind = "init")
<1>1. /\ Len(toEpdg') = Len(toEpdg) + 1 /\ Len(toEpdg) \in Nat
      /\ \A k \in 1..Len(toEpdg) : toEpdg'[k] = toEpdg[k]
      /\ toEpdg'[Len(toEpdg) + 1] = l
  BY Appended DEF WriteToEpdg
<1>2. \A k \in 1..Len(toEpdg') : k \in 1..Len(toEpdg) \/ k = Len(toEpdg) + 1
  BY <1>1
<1>3. \A k \in 1..Len(toEpdg) : k \in 1..Len(toEpdg')
  BY <1>1
<1> QED
  BY <1>1, <1>2, <1>3 DEF OnlyLines

(* A testcase of the plan *)
LEMMA PlanShape ==
    ASSUME NEW i \in 1..Len(Plan)
    PROVE  /\ Plan[i].messages \in Seq(Message) /\ Len(Plan[i].messages) \in Nat \ {0}
           /\ \A j \in 1..Len(Plan[i].messages) :
                /\ Plan[i].messages[j] \in Message
                /\ Plan[i].messages[j].name = "enable_vowifi" <=> j = 1
<1>1. Plan[i] \in [messages : Seq(Message), live : BOOLEAN]
  BY ControllerAssumption, Element
<1>2. Plan[i].messages \in Seq(Message) /\ Plan[i].messages # << >>
  BY <1>1, ControllerAssumption
<1>3. Len(Plan[i].messages) \in Nat \ {0}
  BY <1>2, Shifted
<1> QED
  BY <1>2, <1>3, ControllerAssumption, Element

(* What the invariant says of the controller and of the connection. *)
LEMMA Basics ==
    ASSUME Inv
    PROVE  /\ ctl \in ControlState /\ wifi \in BOOLEAN /\ log \in Seq(Pair)
           /\ toEpdg \in Seq(Line) /\ Len(toEpdg) <= Buffer
           /\ fromEpdg \in Seq(Out) /\ Len(fromEpdg) <= Buffer
           /\ Placed
  BY TestbedParts, TypeParts DEF Inv, ControllerTypeOK, ChannelTypeOK

-----------------------------------------------------------------------------
(* The steps of the controller *)

(* Its locals after a trial of sendEnableVoWiFi. *)
LEMMA EnableTried ==
    ASSUME NEW c \in ControlState, NEW pc \in Pcs, NEW ok \in BOOLEAN
    PROVE  LET d == [c EXCEPT !.acked = ok, !.pc = pc, !.qname = "enable_vowifi",
                              !.name = NULL, !.depth = 0]
           IN  /\ d \in ControlState /\ d.pc = pc /\ d.name = NULL
               /\ d.qname = "enable_vowifi" /\ d.tc = c.tc /\ d.msg = c.msg
  BY DEF ControlState, Names, Symbols

(* init, wifi_on and fin, for which the controller waits. *)
LEMMA QuietKeeps ==
    ASSUME Inv, UNCHANGED <<inst, lpc, worker>>, EpdgQuiet,
           PreInit \/ EnableInit \/ WifiOn \/ Fin
    PROVE  Proceeds
<1>1. /\ ctl \in ControlState /\ wifi \in BOOLEAN /\ log \in Seq(Pair)
      /\ fromEpdg \in Seq(Out) /\ Len(fromEpdg) <= Buffer /\ Placed
  BY Basics
<1>2. toEpdg = << >> /\ lpc = "read" /\ Asleep /\ Asleep' /\ UNCHANGED fromEpdg
  BY EpdgRests DEF EpdgQuiet, Asleep, PreInit, EnableInit, WifiOn, Fin, channel
<1>3. ASSUME NEW k \in {"init", "fin"}, WriteToEpdg(Control(k))
      PROVE  /\ k = "init" => Reopening'
             /\ k = "fin" => NoQueries' /\ NoAckDue'
             /\ \E l \in Line : WriteToEpdg(l)
  <2>1. Len(toEpdg') = 1 /\ toEpdg'[1].kind = k /\ \A K : k \in K => OnlyLines(K)'
    BY <1>2, <1>3, FirstLine
  <2>2. Control(k) \in Line
    BY ControlLines
  <2> QED
    BY <1>3, <2>1, <2>2 DEF Reopening, NoQueries, NoAckDue
<1>4. CASE PreInit
  <2>1. /\ ctl' \in ControlState /\ ctl'.pc = "pre_ack" /\ ctl'.trial = ctl.trial + 1
        /\ ctl'.tc = ctl.tc /\ ctl'.msg = ctl.msg /\ ctl'.name = ctl.name
        /\ wifi' = wifi /\ log' = log /\ ctl.pc = "pre" /\ ctl.trial \in Nat
    <3> DEFINE n == ctl.trial + 1
    <3>1. ctl.trial \in Nat /\ n \in Nat /\ "pre_ack" \in Pcs
      BY <1>1 DEF ControlState, Pcs
    <3>2. /\ ctl' = [ctl EXCEPT !.pc = "pre_ack", !.trial = n]
          /\ wifi' = wifi /\ log' = log /\ ctl.pc = "pre"
      BY <1>4 DEF PreInit
    <3> HIDE DEF n
    <3>3. /\ ctl' \in ControlState /\ ctl'.pc = "pre_ack" /\ ctl'.trial = n
          /\ ctl'.tc = ctl.tc /\ ctl'.msg = ctl.msg /\ ctl'.name = ctl.name
      BY <1>1, <3>1, <3>2 DEF ControlState
    <3> QED
      BY <3>1, <3>2, <3>3 DEF n
  <2>2. Placed'
    BY <1>1, <2>1, ControllerAssumption
       DEF Placed, messages, Session, FirstReply, InQuery, InReply, GoingOn, Asking
  <2>3. AcksLast'
    <3>1. Entering \/ Greeting
      BY <2>1 DEF Entering, Greeting
    <3> QED
      BY <1>1, <1>2, <3>1, AckOrders, ReportsRest DEF Inv, Answers
  <2>4. Reopening' /\ \E l \in Line : WriteToEpdg(l)
    BY <1>3, <1>4 DEF PreInit
  <2>5. Greeting'
    BY <2>1 DEF Greeting
  <2> QED
    BY <1>1, <1>2, <2>1, <2>2, <2>3, <2>4, <2>5, ToGreeting DEF Proceeds, ControllerTypeOK
<1>5. CASE EnableInit
  <2>1. /\ ctl' \in ControlState /\ ctl'.pc = "enable_ack"
        /\ ctl'.tc = ctl.tc /\ ctl'.msg = ctl.msg /\ ctl'.name = ctl.name
        /\ wifi' = wifi /\ log' = log /\ ctl.pc = "enable"
    <3> DEFINE n == ctl.trial + 1
    <3>1. ctl.trial \in Nat /\ n \in Nat /\ "enable_ack" \in Pcs
      BY <1>1 DEF ControlState, Pcs
    <3>2. /\ ctl' = [ctl EXCEPT !.pc = "enable_ack", !.trial = n]
          /\ wifi' = wifi /\ log' = log /\ ctl.pc = "enable"
      BY <1>5 DEF EnableInit
    <3> HIDE DEF n
    <3>3. /\ ctl' \in ControlState /\ ctl'.pc = "enable_ack" /\ ctl'.trial = n
          /\ ctl'.tc = ctl.tc /\ ctl'.msg = ctl.msg /\ ctl'.name = ctl.name
      BY <1>1, <3>1, <3>2 DEF ControlState
    <3> QED
      BY <3>1, <3>2, <3>3 DEF n
  <2>2. Placed'
    BY <1>1, <2>1 DEF Placed, messages, Session, FirstReply, InQuery, InReply, GoingOn, Asking
  <2>3. Greeted /\ Greeted'
    BY <2>1 DEF Greeted
  <2>4. OnlyAcks'
    BY <1>2, <2>3, ReportsRest DEF Inv, Answers
  <2>5. Reopening' /\ \E l \in Line : WriteToEpdg(l)
    BY <1>3, <1>5 DEF EnableInit
  <2> QED
    BY <1>1, <1>2, <2>1, <2>2, <2>3, <2>4, <2>5, ToGreeted DEF Proceeds, ControllerTypeOK
<1>6. CASE WifiOn
  <2>1. /\ ctl' \in ControlState /\ ctl'.pc = "reply" /\ ctl'.qname = ctl.qname
        /\ ctl'.tc = ctl.tc /\ ctl'.msg = ctl.msg /\ ctl'.name = ctl.name
        /\ wifi' = TRUE /\ log' = log /\ ctl.pc = "wifi_on" /\ UNCHANGED toEpdg
    BY <1>1, <1>6 DEF WifiOn, ControlState, Pcs, channel
  <2>2. Placed' /\ ctl'.name = NULL
    BY <1>1, <2>1 DEF Placed, messages, Session, FirstReply, InQuery, InReply, GoingOn, Asking
  <2>3. Reopened /\ OnlyAcks
    BY <1>2, <2>1 DEF Inv, Greeted, SessionLines, Answers, Reopening
  <2>4. SessionOpen' /\ NoAckDue' /\ OnlyLines({"Hello"})'
    BY <1>2, <2>1, <2>3, LinesRest DEF SessionOpen, NoAckDue, OnlyLines, Reopened
  <2>5. AcksFirst' /\ Benign(fromEpdg)'
    BY <1>1, <1>2, <2>3, AckOrders, ReportsRest
  <2>6. NoneAsked'
    <3>1. Benign(inst.sendq) /\ \A t \in Workers : Unasked(t)
      BY <1>2 DEF Asleep, Benign, Unasked, Waiting, Idle
    <3> QED
      BY <2>3, <2>4, <2>5, <3>1, EpdgRests DEF Reopened
  <2> QED
    BY <1>1, <1>2, <2>1, <2>2, <2>4, <2>5, <2>6, ToReading DEF Proceeds, ControllerTypeOK, NULL
<1>7. CASE Fin
  <2>1. /\ ctl' \in ControlState /\ ctl'.pc = "next"
        /\ ctl'.tc = ctl.tc /\ ctl'.msg = ctl.msg /\ ctl'.name = ctl.name
        /\ wifi' = FALSE /\ log' = log /\ ctl.pc = "post"
    BY <1>1, <1>7 DEF Fin, ControlState, Pcs
  <2>2. Placed'
    BY <1>1, <2>1 DEF Placed, messages, Session, FirstReply, InQuery, InReply, GoingOn, Asking
  <2>3. NoAcks'
    BY <1>2, <2>1, ReportsRest DEF Inv, Answers
  <2>4. NoQueries' /\ NoAckDue' /\ \E l \in Line : WriteToEpdg(l)
    BY <1>3, <1>7 DEF Fin
  <2> QED
    BY <1>1, <1>2, <2>1, <2>2, <2>3, <2>4, ToEnd DEF Proceeds, ControllerTypeOK
<1> QED
  BY <1>4, <1>5, <1>6, <1>7

(* The answer of initEPDG in pre, or none: a line other than an ACK may    *)
(* only cost a trial.                                                      *)
LEMMA PreKeeps ==
    ASSUME Inv, UNCHANGED <<inst, lpc, worker, toEpdg, wifi, log>>, ctl.pc = "pre_ack",
           NEW ok \in BOOLEAN, ctl' = AfterPreInit(ok), AcksLast', ok => OnlyAcks',
           fromEpdg' \in Seq(Out), Len(fromEpdg') <= Buffer
    PROVE  Proceeds
<1>1. ctl \in ControlState /\ wifi \in BOOLEAN /\ log \in Seq(Pair) /\ Placed
  BY Basics
<1>2. ctl.trial \in 1..MaxTrials /\ ctl.msg = 1 /\ wifi = FALSE
  BY <1>1 DEF Placed, Session, InQuery, InReply, GoingOn, Asking
<1>3. /\ ctl' \in ControlState /\ ctl'.back = "renew" /\ ctl'.trial = ctl.trial
      /\ ctl'.tc = ctl.tc /\ ctl'.msg = ctl.msg /\ ctl'.name = ctl.name
      /\ \/ ctl'.pc = "pre" /\ ctl.trial < MaxTrials
         \/ ctl'.pc = "failed"
         \/ ctl'.pc = "alive" /\ ok
  <2> DEFINE pc == CASE ~ok /\ ctl.trial < MaxTrials -> "pre"
                     [] ctl.trial = MaxTrials -> "failed"
                     [] OTHER -> "alive"
  <2>1. ctl' = [ctl EXCEPT !.acked = ok, !.pc = pc, !.back = "renew"]
    BY DEF AfterPreInit
  <2>2. \/ pc = "pre" /\ ctl.trial < MaxTrials
        \/ pc = "failed"
        \/ pc = "alive" /\ ok
    BY <1>2, ControllerAssumption
  <2>3. pc \in Pcs
    BY <2>2 DEF Pcs
  <2> HIDE DEF pc
  <2> QED
    <3>1. /\ ctl' \in ControlState /\ ctl'.back = "renew" /\ ctl'.trial = ctl.trial
          /\ ctl'.tc = ctl.tc /\ ctl'.msg = ctl.msg /\ ctl'.name = ctl.name /\ ctl'.pc = pc
      BY <1>1, <2>1, <2>3 DEF ControlState, Pcs
    <3> QED
      BY <2>2, <3>1
<1>4. Placed'
  BY <1>1, <1>2, <1>3
     DEF Placed, messages, Session, FirstReply, InQuery, InReply, GoingOn, Asking
<1>5. Reopening /\ Asleep
  BY DEF Inv, SessionLines, Dormant, Greeting
<1>6. Reopening' /\ Asleep' /\ NoQueries'
  <2>1. Reopening => NoQueries
    BY DEF Reopening, NoQueries, OnlyLines
  <2> QED
    BY <1>5, <2>1, LinesRest, EpdgRests
<1>7. Course'
  <2>1. CASE ctl'.pc = "pre" /\ ctl.trial < MaxTrials
    BY <1>2, <1>3, <1>4, <1>6, <2>1, ToGreeting DEF Greeting
  <2>2. CASE ctl'.pc = "failed"
    BY <1>4, <1>6, <2>2, ToEnd
  <2>3. CASE ctl'.pc = "alive" /\ ok
    BY <1>3, <1>4, <1>6, <2>3, ToGreeted DEF Greeted, Asking
  <2> QED
    BY <1>3, <2>1, <2>2, <2>3
<1> QED
  BY <1>1, <1>3, <1>7 DEF Proceeds, ControllerTypeOK

(* Reads that time out. *)
LEMMA SilentKeeps ==
    ASSUME Inv, UNCHANGED <<inst, lpc, worker>>, Silent,
           PreAckTimeout \/ EnableAckTimeout \/ ReadTimeout
    PROVE  Proceeds
<1>1. /\ ctl \in ControlState /\ wifi \in BOOLEAN /\ log \in Seq(Pair)
      /\ fromEpdg \in Seq(Out) /\ Len(fromEpdg) <= Buffer /\ Placed
  BY Basics
<1>2. /\ toEpdg = << >> /\ fromEpdg = << >> /\ lpc = "read" /\ Asleep
      /\ UNCHANGED <<toEpdg, fromEpdg, wifi, log>>
  BY DEF Silent, EpdgQuiet, Asleep, PreAckTimeout, EnableAckTimeout, ReadTimeout, channel
<1>3. NoAcks' /\ OnlyAcks' /\ AcksFirst' /\ AcksLast' /\ Benign(fromEpdg)'
  BY <1>1, <1>2, AckOrders, ReportsRest
<1>4. NoAckDue' /\ OnlyLines({"Hello"})' /\ Asleep'
  BY <1>2, EpdgRests DEF NoAckDue, OnlyLines
<1>5. CASE PreAckTimeout
  BY <1>1, <1>2, <1>3, <1>5, PreKeeps DEF PreAckTimeout
<1>6. CASE EnableAckTimeout
  <2>1. /\ ctl' \in ControlState /\ ctl'.pc \in {"enable", "reply"}
        /\ ctl'.qname = "enable_vowifi" /\ ctl'.name = NULL
        /\ ctl'.tc = ctl.tc /\ ctl'.msg = ctl.msg /\ ctl.pc = "enable_ack"
    <3> DEFINE pc == CASE FALSE -> "wifi_on"
                       [] ~FALSE /\ ctl.trial < MaxTrials -> "enable"
                       [] OTHER -> "reply"
    <3>1. /\ ctl' = [ctl EXCEPT !.acked = FALSE, !.pc = pc, !.qname = "enable_vowifi",
                                !.name = NULL, !.depth = 0]
          /\ ctl.pc = "enable_ack"
      BY <1>6 DEF EnableAckTimeout, AfterEnableInit
    <3>2. pc \in {"enable", "reply"} /\ pc \in Pcs
      BY DEF Pcs
    <3> HIDE DEF pc
    <3> QED
      BY <1>1, <3>1, <3>2, EnableTried
  <2>2. Placed'
    BY <1>1, <1>2, <2>1
       DEF Placed, messages, Session, FirstReply, InQuery, InReply, GoingOn, Asking, Symbols
  <2>3. Reopening /\ Reopened
    BY <1>2, <2>1 DEF Inv, Greeted, SessionLines, Reopening
  <2>4. SessionOpen' /\ Reopening'
    BY <1>2, <2>3, LinesRest DEF SessionOpen, OnlyLines, Reopened
  <2>5. NoneAsked'
    <3>1. Benign(inst.sendq) /\ \A t \in Workers : Unasked(t)
      BY <1>2 DEF Asleep, Benign, Unasked, Waiting, Idle
    <3> QED
      BY <1>3, <1>4, <2>3, <3>1, EpdgRests DEF Reopened
  <2>6. Course'
    <3>1. CASE ctl'.pc = "enable"
      BY <1>3, <1>4, <2>2, <2>4, <3>1, ToGreeted DEF Greeted
    <3>2. CASE ctl'.pc = "reply"
      BY <1>3, <1>4, <2>2, <2>4, <2>5, <3>2, ToReading
    <3> QED
      BY <2>1, <3>1, <3>2
  <2> QED
    BY <1>1, <1>2, <2>1, <2>6 DEF Proceeds, ControllerTypeOK
<1>7. CASE ReadTimeout
  <2>1. /\ ctl' \in ControlState /\ ctl'.pc = "alive" /\ ctl'.back = ctl.pc
        /\ ctl'.name = "timeout" /\ ctl'.tc = ctl.tc /\ ctl'.msg = ctl.msg
        /\ ctl'.qname = ctl.qname /\ ctl.pc \in {"query", "reply"}
    BY <1>1, <1>7 DEF ReadTimeout, ControlState, Pcs, Names
  <2>2. Placed'
    BY <1>1, <1>2, <2>1
       DEF Placed, messages, Session, FirstReply, InQuery, InReply, GoingOn, Asking
  <2>3. SessionOpen'
    BY <1>1, <1>2, <2>1, ReadingInSession, LinesRest DEF Inv, SessionLines
  <2>4. FirstReply' => NoneAsked'
    <3>1. FirstReply' => FirstReply
      BY <2>1 DEF FirstReply, InReply, Asking
    <3> QED
      BY <1>3, <1>4, <3>1, EpdgRests DEF Inv, BeforeQuery, NoneAsked
  <2> QED
    BY <1>1, <1>2, <1>3, <2>1, <2>2, <2>3, <2>4, ToAsking DEF Proceeds, ControllerTypeOK
<1> QED
  BY <1>5, <1>6, <1>7

(* The steps from initEPDG's answer until the Wi-Fi is turned on. *)
LEMMA GreetKeeps ==
    ASSUME Inv, UNCHANGED <<inst, lpc, worker>>, PreAck \/ Renew \/ EnableOff \/ EnableAck
    PROVE  Proceeds
<1>1. /\ ctl \in ControlState /\ wifi \in BOOLEAN /\ log \in Seq(Pair)
      /\ fromEpdg \in Seq(Out) /\ Len(fromEpdg) <= Buffer /\ Placed
  BY Basics
<1>2. UNCHANGED <<toEpdg, log>>
  BY DEF PreAck, Renew, EnableOff, EnableAck, channel
<1>3. CASE PreAck
  <2>1. /\ fromEpdg # << >> /\ fromEpdg' = Tail(fromEpdg) /\ ctl.pc = "pre_ack"
        /\ ctl' = AfterPreInit(Head(fromEpdg) = Ack) /\ UNCHANGED wifi
    BY <1>3 DEF PreAck
  <2>2. AcksLast
    BY <2>1 DEF Inv, Answers, Greeting
  <2>3. /\ AcksLast' /\ (Head(fromEpdg) = Ack => OnlyAcks')
        /\ fromEpdg' \in Seq(Out) /\ Len(fromEpdg') <= Len(fromEpdg)
    BY <1>1, <2>1, <2>2, LineTaken
  <2>4. Len(fromEpdg') <= Buffer
    BY <1>1, <2>3, ChannelAssumption
  <2> QED
    BY <1>2, <2>1, <2>3, <2>4, PreKeeps
<1>4. ASSUME Greeted, Greeted', Placed', OnlyAcks', ctl' \in ControlState, wifi' \in BOOLEAN,
             fromEpdg' \in Seq(Out), Len(fromEpdg') <= Buffer
      PROVE  Proceeds
  <2>1. Reopening' /\ Asleep'
    BY <1>2, <1>4, LinesRest, EpdgRests DEF Inv, SessionLines, Dormant
  <2> QED
    BY <1>1, <1>2, <1>4, <2>1, ToGreeted DEF Proceeds, ControllerTypeOK
<1>5. CASE Renew
  <2>1. /\ ctl' \in ControlState /\ ctl'.pc = "step" /\ ctl'.tc = ctl.tc /\ ctl'.msg = ctl.msg
        /\ ctl'.name = ctl.name /\ wifi' = wifi /\ ctl.pc = "renew"
    BY <1>1, <1>5 DEF Renew, ControlState, Pcs
  <2>2. Placed' /\ ctl'.msg = 1
    BY <1>1, <1>2, <2>1
       DEF Placed, messages, Session, FirstReply, InQuery, InReply, GoingOn, Asking
  <2>3. Greeted /\ Greeted'
    BY <2>1, <2>2 DEF Greeted
  <2>4. PICK n \in 0..Len(fromEpdg) : fromEpdg' = SubSeq(fromEpdg, n + 1, Len(fromEpdg))
    BY <1>5 DEF Renew
  <2>5. /\ fromEpdg' \in Seq(Out) /\ Len(fromEpdg') = Len(fromEpdg) - n
        /\ \A k \in 1..Len(fromEpdg) - n : fromEpdg'[k] = fromEpdg[k + n]
    BY <1>1, <2>4, Dropped
  <2>6. Len(fromEpdg) \in Nat /\ \A k \in 1..Len(fromEpdg) - n : k + n \in 1..Len(fromEpdg)
    BY <1>1
  <2>7. OnlyAcks' /\ Len(fromEpdg') <= Buffer
    <3>1. OnlyAcks
      BY <2>3 DEF Inv, Answers
    <3> QED
      BY <1>1, <2>5, <2>6, <3>1, ChannelAssumption DEF OnlyAcks
  <2> QED
    BY <1>1, <1>4, <2>1, <2>2, <2>3, <2>5, <2>7
<1>6. CASE EnableOff
  <2>1. /\ ctl' \in ControlState /\ ctl'.pc = "enable" /\ ctl'.tc = ctl.tc /\ ctl'.msg = ctl.msg
        /\ ctl'.name = ctl.name /\ wifi' = FALSE /\ ctl.pc = "step" /\ fromEpdg' = fromEpdg
        /\ messages[ctl.msg].name = "enable_vowifi"
    BY <1>1, <1>6 DEF EnableOff, ControlState, Pcs, channel
  <2>2. Placed'
    BY <1>1, <1>2, <2>1
       DEF Placed, messages, Session, FirstReply, InQuery, InReply, GoingOn, Asking
  <2>3. ctl.msg = 1
    BY <1>1, <2>1, PlanShape DEF Placed, messages
  <2>4. Greeted /\ Greeted'
    BY <2>1, <2>3 DEF Greeted
  <2>5. OnlyAcks'
    BY <2>1, <2>4, ReportsRest DEF Inv, Answers
  <2> QED
    BY <1>1, <1>4, <2>1, <2>2, <2>4, <2>5
<1>7. CASE EnableAck
  <2>1. /\ fromEpdg # << >> /\ fromEpdg' = Tail(fromEpdg) /\ ctl.pc = "enable_ack"
        /\ ctl' = AfterEnableInit(Head(fromEpdg) = Ack) /\ wifi' = wifi
    BY <1>7 DEF EnableAck
  <2>2. Greeted
    BY <2>1 DEF Greeted
  <2>3. OnlyAcks
    BY <2>2 DEF Inv, Answers
  <2>4. /\ OnlyAcks' /\ Head(fromEpdg) = Ack
        /\ fromEpdg' \in Seq(Out) /\ Len(fromEpdg') <= Len(fromEpdg)
    BY <1>1, <2>1, <2>3, LineTaken
  <2>5. Len(fromEpdg') <= Buffer
    BY <1>1, <2>4, ChannelAssumption
  <2>6. /\ ctl' \in ControlState /\ ctl'.pc = "wifi_on" /\ ctl'.name = NULL
        /\ ctl'.qname = "enable_vowifi" /\ ctl'.tc = ctl.tc /\ ctl'.msg = ctl.msg
    <3>1. ctl' = [ctl EXCEPT !.acked = TRUE, !.pc = "wifi_on", !.qname = "enable_vowifi",
                             !.name = NULL, !.depth = 0]
      BY <2>1, <2>4 DEF AfterEnableInit
    <3>2. "wifi_on" \in Pcs
      BY DEF Pcs
    <3> QED
      BY <1>1, <3>1, <3>2, EnableTried
  <2>7. Placed'
    BY <1>1, <1>2, <2>1, <2>6
       DEF Placed, messages, Session, FirstReply, InQuery, InReply, GoingOn, Asking, Symbols
  <2>8. Greeted'
    BY <2>6 DEF Greeted
  <2> QED
    BY <1>1, <1>4, <2>1, <2>2, <2>4, <2>5, <2>6, <2>7, <2>8
<1> QED
  BY <1>3, <1>5, <1>6, <1>7

(* isEPDGAlive *)
LEMMA AliveKeeps ==
    ASSUME Inv, UNCHANGED <<inst, lpc, worker>>, SendHello \/ AliveAck
    PROVE  Proceeds
<1>1. /\ ctl \in ControlState /\ wifi \in BOOLEAN /\ log \in Seq(Pair) /\ toEpdg \in Seq(Line)
      /\ fromEpdg \in Seq(Out) /\ Len(fromEpdg) <= Buffer /\ Placed
  BY Basics
<1>2. /\ ctl.pc \in {"alive", "alive_ack"} /\ ctl.back \in {"renew", "query", "reply"}
      /\ UNCHANGED <<wifi, log>>
  BY <1>1 DEF SendHello, AliveAck, Placed
<1>3. ctl.back = "renew" => Greeted /\ Reopening /\ OnlyAcks /\ Asleep
  BY <1>2 DEF Inv, SessionLines, Answers, Dormant, Greeted, Asking
<1>4. ctl.back # "renew" => SessionOpen
  BY <1>1, <1>2, ReadingInSession DEF Inv, SessionLines
<1>5. ASSUME FirstReply' => FirstReply, Benign(fromEpdg) => Benign(fromEpdg)',
             OnlyLines({"Hello"}) => OnlyLines({"Hello"})'
      PROVE  FirstReply' => NoneAsked'
  BY <1>5, EpdgRests DEF Inv, BeforeQuery, NoneAsked
<1>6. CASE SendHello
  <2>1. /\ ctl' \in ControlState /\ ctl'.pc = "alive_ack" /\ ctl'.tc = ctl.tc
        /\ ctl'.msg = ctl.msg /\ ctl'.name = ctl.name /\ ctl'.back = ctl.back
        /\ ctl'.qname = ctl.qname /\ ctl.pc = "alive" /\ UNCHANGED fromEpdg
    BY <1>1, <1>6 DEF SendHello, ControlState, Pcs
  <2>2. Placed'
    BY <1>1, <1>2, <2>1
       DEF Placed, messages, Session, FirstReply, InQuery, InReply, GoingOn, Asking
  <2>3. Control("Hello") \in Line /\ WriteToEpdg(Control("Hello")) /\ Control("Hello").kind = "Hello"
    BY <1>6, ControlLines DEF SendHello, Control
  <2>4. /\ \A K : OnlyLines(K) /\ "Hello" \in K => OnlyLines(K)'
        /\ (\E i \in 1..Len(toEpdg) : toEpdg[i].kind = "init")
             => (\E i \in 1..Len(toEpdg') : toEpdg'[i].kind = "init")
    BY <1>1, <2>3, NextLine
  <2>5. CASE ctl.back = "renew"
    <3>1. Reopening' /\ Asleep' /\ OnlyAcks'
      BY <1>3, <2>1, <2>4, <2>5, EpdgRests, ReportsRest DEF Reopening
    <3>2. Greeted'
      BY <2>1, <2>5 DEF Greeted, Asking
    <3> QED
      BY <1>1, <1>2, <2>1, <2>2, <2>3, <3>1, <3>2, ToGreeted DEF Proceeds, ControllerTypeOK
  <2>6. CASE ctl.back # "renew"
    <3>1. SessionOpen'
      BY <1>4, <2>4, <2>6 DEF SessionOpen
    <3>2. toEpdg = << >> /\ NoAcks
      BY <2>1, <2>6 DEF Inv, Answers
    <3>3. toEpdg' = <<Control("Hello")>> /\ NoAcks'
      BY <2>1, <2>3, <3>2, FirstLine, ReportsRest
    <3>4. FirstReply' => NoneAsked'
      <4>1. FirstReply' => FirstReply
        BY <2>1 DEF FirstReply, InReply, Asking
      <4> QED
        BY <1>5, <2>1, <2>4, <4>1, ReportsRest
    <3>5. Course'
      BY <2>1, <2>2, <2>6, <3>1, <3>3, <3>4, ToAsking
    <3> QED
      BY <1>1, <1>2, <2>1, <2>3, <3>5 DEF Proceeds, ControllerTypeOK
  <2> QED
    BY <2>5, <2>6
<1>7. CASE AliveAck
  <2>1. /\ fromEpdg # << >> /\ fromEpdg' = Tail(fromEpdg) /\ ctl.pc = "alive_ack"
        /\ ctl' = IF Head(fromEpdg) = Ack THEN [ctl EXCEPT !.pc = ctl.back] ELSE ctl
        /\ UNCHANGED toEpdg
    BY <1>7 DEF AliveAck
  <2>2. /\ ctl' \in ControlState /\ ctl'.tc = ctl.tc /\ ctl'.msg = ctl.msg
        /\ ctl'.name = ctl.name /\ ctl'.back = ctl.back /\ ctl'.qname = ctl.qname
        /\ Head(fromEpdg) = Ack => ctl'.pc = ctl.back
        /\ Head(fromEpdg) # Ack => ctl'.pc = "alive_ack"
    BY <1>1, <2>1 DEF ControlState
  <2>3. Placed'
    BY <1>1, <1>2, <2>1, <2>2
       DEF Placed, messages, Session, FirstReply, InQuery, InReply, GoingOn, Asking
  <2>4. /\ NoAcks => NoAcks'
        /\ OnlyAcks => OnlyAcks' /\ Head(fromEpdg) = Ack
        /\ OneAck => OneAck'
        /\ OneAck /\ Head(fromEpdg) = Ack => NoAcks'
        /\ Benign(fromEpdg) => Benign(fromEpdg)'
        /\ fromEpdg' \in Seq(Out) /\ Len(fromEpdg') <= Len(fromEpdg)
    BY <1>1, <2>1, LineTaken
  <2>5. Len(fromEpdg') <= Buffer
    BY <1>1, <2>4, ChannelAssumption
  <2>6. Course'
    <3>1. CASE ctl.back = "renew"
      <4>1. Reopening' /\ Asleep' /\ OnlyAcks' /\ Head(fromEpdg) = Ack
        BY <1>3, <2>1, <2>4, <3>1, EpdgRests, LinesRest
      <4>2. Greeted'
        BY <2>2, <3>1, <4>1 DEF Greeted
      <4> QED
        BY <2>3, <4>1, <4>2, ToGreeted
    <3>2. CASE ctl.back # "renew"
      <4>1. SessionOpen' /\ (OnlyLines({"Hello"}) => OnlyLines({"Hello"})')
        BY <1>4, <2>1, <3>2, LinesRest
      <4>2. \/ toEpdg = <<Control("Hello")>> /\ NoAcks
            \/ toEpdg = << >> /\ OneAck
        BY <2>1, <3>2 DEF Inv, Answers
      <4>3. FirstReply' => NoneAsked'
        <5>1. FirstReply' => FirstReply
          BY <1>2, <2>1, <2>2 DEF FirstReply, InReply, Asking
        <5> QED
          BY <1>5, <2>4, <4>1, <5>1
      <4>4. CASE Head(fromEpdg) = Ack
        <5>1. ~NoAcks
          BY <1>1, <2>1, <4>4, Shifted DEF NoAcks
        <5>2. NoAcks' /\ toEpdg = << >>
          BY <2>4, <4>2, <4>4, <5>1
        <5>3. NoAckDue' /\ AcksFirst'
          <6>1. NoAckDue
            BY <5>2 DEF NoAckDue, OnlyLines
          <6>2. AcksFirst'
            BY <5>2 DEF NoAcks, AcksFirst
          <6> QED
            BY <2>1, <6>1, <6>2, LinesRest
        <5> QED
          BY <1>2, <2>2, <2>3, <3>2, <4>1, <4>3, <4>4, <5>2, <5>3, ToReading
      <4>5. CASE Head(fromEpdg) # Ack
        BY <2>1, <2>2, <2>3, <2>4, <3>2, <4>1, <4>2, <4>3, <4>5, ToAsking
      <4> QED
        BY <4>4, <4>5
    <3> QED
      BY <3>1, <3>2
  <2> QED
    BY <1>1, <1>2, <2>1, <2>2, <2>4, <2>5, <2>6 DEF Proceeds, ControllerTypeOK
<1> QED
  BY <1>6, <1>7

(* The query of a step *)
LEMMA QueryKeeps ==
    ASSUME Inv, UNCHANGED <<inst, lpc, worker>>, SendQuery
    PROVE  Proceeds
<1> DEFINE m == messages[ctl.msg]
           q == [id |-> ctl.sent + 1, name |-> m.name, kind |-> m.kind]
           l == [kind |-> "query", query |-> q]
<1>1. /\ ctl \in ControlState /\ wifi \in BOOLEAN /\ log \in Seq(Pair) /\ toEpdg \in Seq(Line)
      /\ fromEpdg \in Seq(Out) /\ Len(fromEpdg) <= Buffer /\ Placed
  BY Basics
<1>2. /\ ctl.pc = "step" /\ m.name # "enable_vowifi" /\ ctl.sent < MaxQueries
      /\ WriteToEpdg(l) /\ UNCHANGED <<fromEpdg, wifi, log>>
      /\ ctl' = [ctl EXCEPT !.pc = "query", !.sent = ctl.sent + 1, !.name = NULL, !.depth = 0]
  BY DEF SendQuery
<1>3. ctl.tc \in 1..Len(Plan) /\ ctl.msg \in 1..Len(messages) /\ ctl.sent \in 0..MaxQueries
  BY <1>1, <1>2 DEF Placed, ControlState
<1>4. m \in Message /\ ctl.msg # 1
  BY <1>2, <1>3, PlanShape DEF messages
<1>5. l \in Line /\ l.kind = "query"
  <2>1. ctl.sent + 1 \in 1..MaxQueries
    BY <1>2, <1>3, ChannelAssumption
  <2>2. m.name \in Responses /\ m.kind \in Kinds
    BY <1>2, <1>4 DEF Message
  <2> HIDE DEF m
  <2> QED
    BY <2>1, <2>2 DEF Line, Query
<1>6. /\ ctl' \in ControlState /\ ctl'.pc = "query" /\ ctl'.tc = ctl.tc /\ ctl'.msg = ctl.msg
      /\ ctl'.name = NULL
  <2> DEFINE n == ctl.sent + 1
  <2>1. n \in 0..MaxQueries
    BY <1>2, <1>3, ChannelAssumption
  <2>2. ctl' = [ctl EXCEPT !.pc = "query", !.sent = n, !.name = NULL, !.depth = 0]
    BY <1>2
  <2>3. "query" \in Pcs /\ NULL \in Names
    BY DEF Pcs, Names, Symbols
  <2> HIDE DEF n
  <2> QED
    BY <1>1, <2>1, <2>2, <2>3 DEF ControlState
<1>7. GoingOn
  <2>1. ctl.msg > 1
    BY <1>3, <1>4, PlanShape DEF messages
  <2> QED
    BY <1>2, <2>1 DEF GoingOn
<1>8. Placed'
  BY <1>1, <1>2, <1>6, <1>7
     DEF Placed, messages, Session, FirstReply, InQuery, InReply, GoingOn, Asking, Symbols
<1>9. SessionOpen /\ NoAcks /\ NoAckDue
  BY <1>7 DEF Inv, SessionLines, Answers, Session
<1> HIDE DEF l
<1>10. SessionOpen' /\ NoAckDue'
  BY <1>1, <1>2, <1>5, <1>9, NextLine DEF SessionOpen, NoAckDue
<1>11. AcksFirst'
  BY <1>1, <1>2, <1>9, AckOrders, ReportsRest
<1>12. Course'
  <2>1. ctl'.name # "timeout" /\ ~FirstReply'
    BY <1>6 DEF NULL, FirstReply, InReply, Asking
  <2> QED
    BY <1>6, <1>8, <1>10, <1>11, <2>1, ToReading
<1> QED
  BY <1>1, <1>2, <1>5, <1>6, <1>12 DEF Proceeds, ControllerTypeOK

(* Lines that leave processResult where it is *)
LEMMA ReadKeeps ==
    ASSUME Inv, UNCHANGED <<inst, lpc, worker>>, SkipAck \/ ReadStart \/ ReadInnerEnd
    PROVE  Proceeds
<1>1. /\ ctl \in ControlState /\ wifi \in BOOLEAN /\ log \in Seq(Pair)
      /\ fromEpdg \in Seq(Out) /\ Len(fromEpdg) <= Buffer /\ Placed
  BY Basics
<1>2. /\ ctl.pc \in {"query", "reply"} /\ ctl.name # "timeout" /\ fromEpdg # << >>
      /\ fromEpdg' = Tail(fromEpdg) /\ UNCHANGED <<toEpdg, wifi, log>>
  BY DEF SkipAck, ReadStart, ReadInnerEnd, Reading, control
<1>3. Head(fromEpdg) \in Out
  BY <1>1, <1>2, Shifted
<1>4. /\ ctl' \in ControlState /\ ctl'.pc = ctl.pc /\ ctl'.tc = ctl.tc /\ ctl'.msg = ctl.msg
      /\ ctl'.qname = ctl.qname
      /\ \/ ctl'.name = ctl.name
         \/ ctl'.name \in Symbols /\ Head(fromEpdg) # Ack
  <2>1. CASE SkipAck
    BY <1>1, <2>1 DEF SkipAck, control
  <2>2. CASE ReadStart
    <3> DEFINE n == ctl.depth + 1
               x == IF ctl.depth = 0 THEN Head(fromEpdg).symbol ELSE ctl.name
    <3>1. Head(fromEpdg) # Ack /\ Head(fromEpdg) \in Report
      BY <1>3, <2>2 DEF ReadStart, Ack, Out
    <3>2. n \in Nat /\ Head(fromEpdg).symbol \in Symbols /\ ctl.name \in Names
      BY <1>1, <3>1 DEF ControlState, Report
    <3>3. (x = ctl.name \/ x \in Symbols) /\ x \in Names
      BY <3>2 DEF Names
    <3>4. ctl' = [ctl EXCEPT !.depth = n, !.name = x]
      BY <2>2 DEF ReadStart
    <3> HIDE DEF n, x
    <3> QED
      BY <1>1, <3>1, <3>2, <3>3, <3>4 DEF ControlState
  <2>3. CASE ReadInnerEnd
    <3> DEFINE n == ctl.depth - 1
    <3>1. n \in Nat
      BY <1>1, <2>3 DEF ReadInnerEnd, ControlState
    <3>2. ctl' = [ctl EXCEPT !.depth = n]
      BY <2>3 DEF ReadInnerEnd
    <3> HIDE DEF n
    <3> QED
      BY <1>1, <3>1, <3>2 DEF ControlState
  <2> QED
    BY <2>1, <2>2, <2>3
<1>5. Placed'
  BY <1>1, <1>2, <1>4
     DEF Placed, messages, Session, FirstReply, InQuery, InReply, GoingOn, Asking
<1>6. /\ AcksFirst => AcksFirst'
      /\ AcksFirst /\ Head(fromEpdg) # Ack => NoAcks'
      /\ Benign(fromEpdg) => Benign(fromEpdg)'
      /\ fromEpdg' \in Seq(Out) /\ Len(fromEpdg') <= Len(fromEpdg)
  BY <1>1, <1>2, LineTaken
<1>7. NoAckDue /\ AcksFirst
  BY <1>2 DEF Inv, Answers
<1>8. /\ SessionOpen' /\ NoAckDue' /\ AcksFirst'
      /\ (OnlyLines({"Hello"}) => OnlyLines({"Hello"})')
  BY <1>1, <1>2, <1>6, <1>7, ReadingInSession, LinesRest DEF Inv, SessionLines
<1>9. ctl'.name = "timeout" => NoAcks'
  BY <1>2, <1>4, <1>6, <1>7
<1>10. FirstReply' => NoneAsked'
  <2>1. FirstReply' => FirstReply
    BY <1>2, <1>4 DEF FirstReply, InReply, Asking
  <2> QED
    BY <1>6, <1>8, <2>1, EpdgRests DEF Inv, BeforeQuery, NoneAsked
<1>11. Course'
  BY <1>2, <1>4, <1>5, <1>8, <1>9, <1>10, ToReading
<1>12. Len(fromEpdg') <= Buffer
  BY <1>1, <1>6, ChannelAssumption
<1> QED
  BY <1>1, <1>2, <1>4, <1>6, <1>11, <1>12 DEF Proceeds, ControllerTypeOK

(* What processResult may return *)
Returned == Symbols \cup {"timeout", "retest", "retransmission", "null_action"}

(* processResult returns: the reply is read next, or the step is over.     *)
LEMMA ResultKeeps ==
    ASSUME Inv, UNCHANGED <<inst, lpc, worker, toEpdg>>,
           fromEpdg' \in Seq(Out), Len(fromEpdg') <= Buffer, NoAcks',
           NEW n \in Returned, Result(n), FirstReply => n # "retransmission",
           wifi' = wifi \/ wifi' = FALSE, n = "retest" => wifi' = FALSE
    PROVE  Proceeds
<1>1. ctl \in ControlState /\ wifi \in BOOLEAN /\ log \in Seq(Pair) /\ Placed
  BY Basics
<1>2. ctl.pc \in {"query", "reply"}
  BY DEF Result
<1>3. NoAckDue' /\ SessionOpen' /\ AcksFirst'
  <2>1. NoAckDue /\ SessionOpen
    BY <1>1, <1>2, ReadingInSession DEF Inv, SessionLines, Answers
  <2>2. AcksFirst'
    BY DEF NoAcks, AcksFirst
  <2> QED
    BY <2>1, <2>2, LinesRest
<1>4. n \in Names /\ ctl.qname \in Names /\ wifi' \in BOOLEAN
  BY <1>1 DEF Returned, Names, ControlState
<1>5. log' \in Seq(Pair)
  <2>1. [q |-> ctl.qname, r |-> n] \in Pair
    BY <1>4 DEF Pair
  <2>2. Append(log, [q |-> ctl.qname, r |-> n]) \in Seq(Pair) /\ << >> \in Seq(Pair)
    BY <1>1, <2>1, Appended
  <2> QED
    BY <1>1, <2>2 DEF Result
<1>6. /\ ctl.tc \in 1..Len(Plan) /\ ctl.msg \in 1..Len(messages) /\ Len(messages) \in Nat \ {0}
      /\ ctl.msg \in Nat
  BY <1>1, <1>2, PlanShape DEF Placed, messages
<1>7. CASE n = "retest"
  <2>1. ctl' = Retested
    BY <1>7 DEF Result, AfterQuery, AfterReply
  <2>2. /\ ctl' \in ControlState /\ ctl'.tc = ctl.tc /\ ctl'.msg = 1 /\ ctl'.trial = 0
        /\ ctl'.name = ctl.name /\ ctl'.pc \in {"died", "pre"}
    <3> DEFINE pc == IF Plan[ctl.tc].live THEN "died" ELSE "pre"
    <3>1. ctl' = [ctl EXCEPT !.pc = pc, !.msg = 1, !.trial = 0]
      BY <2>1 DEF Retested
    <3>2. pc \in {"died", "pre"} /\ pc \in Pcs
      BY DEF Pcs
    <3> HIDE DEF pc
    <3> QED
      BY <1>1, <3>1, <3>2 DEF ControlState
  <2>3. Placed'
    BY <1>1, <1>2, <1>6, <1>7, <2>2, ControllerAssumption
       DEF Placed, messages, Session, FirstReply, InQuery, InReply, GoingOn, Asking
  <2>4. Course'
    BY <1>3, <2>2, <2>3, ToEntering, ToEnd DEF Entering
  <2> QED
    BY <1>4, <1>5, <2>2, <2>4 DEF Proceeds, ControllerTypeOK
<1>8. CASE n # "retest" /\ ctl.pc = "query"
  <2>1. ctl' = [ctl EXCEPT !.pc = "reply", !.qname = n, !.name = NULL, !.depth = 0]
    BY <1>8 DEF Result, AfterQuery
  <2>2. "reply" \in Pcs /\ NULL \in Names /\ NULL \in Symbols
    BY DEF Pcs, Names, Symbols
  <2>3. /\ ctl' \in ControlState /\ ctl'.pc = "reply" /\ ctl'.tc = ctl.tc
        /\ ctl'.msg = ctl.msg /\ ctl'.name = NULL
    BY <1>1, <1>4, <2>1, <2>2 DEF ControlState
  <2>4. ctl.msg > 1
    BY <1>1, <1>8 DEF Placed, InQuery
  <2>5. Placed'
    BY <1>1, <1>6, <1>8, <2>2, <2>3, <2>4
       DEF Placed, messages, Session, FirstReply, InQuery, InReply, GoingOn, Asking
  <2>6. Course'
    <3>1. ~FirstReply' /\ ctl'.name # "timeout"
      BY <1>6, <2>3, <2>4 DEF FirstReply, NULL
    <3> QED
      BY <1>3, <2>3, <2>5, <3>1, ToReading
  <2> QED
    BY <1>4, <1>5, <2>3, <2>6 DEF Proceeds, ControllerTypeOK
<1>9. CASE n # "retest" /\ ctl.pc = "reply"
  <2>1. ctl' = AfterReply(n)
    BY <1>9 DEF Result
  <2>2. ASSUME "retransmission" \in {ctl.qname, n}
        PROVE  ctl.msg > 1
    <3>1. ctl.msg # 1
      BY <1>1, <1>9, <2>2 DEF Placed, FirstReply, InReply
    <3> QED
      BY <1>6, <3>1
  <2>3. \/ ctl' = [ctl EXCEPT !.pc = "step"] /\ ctl.msg > 1
        \/ ctl' = [ctl EXCEPT !.pc = "post"]
        \/ ctl' = [ctl EXCEPT !.pc = "step", !.msg = ctl.msg + 1] /\ ctl.msg # Len(messages)
    BY <1>9, <2>1, <2>2 DEF AfterReply
  <2>4. /\ ctl' \in ControlState /\ ctl'.tc = ctl.tc /\ ctl'.name = ctl.name
        /\ \/ ctl'.pc = "step" /\ ctl'.msg = ctl.msg /\ ctl.msg > 1
           \/ ctl'.pc = "post" /\ ctl'.msg = ctl.msg
           \/ ctl'.pc = "step" /\ ctl'.msg = ctl.msg + 1 /\ ctl.msg # Len(messages)
    <3>1. "step" \in Pcs /\ "post" \in Pcs
      BY DEF Pcs
    <3>2. CASE ctl' = [ctl EXCEPT !.pc = "step"] /\ ctl.msg > 1
      BY <1>1, <3>1, <3>2 DEF ControlState
    <3>3. CASE ctl' = [ctl EXCEPT !.pc = "post"]
      BY <1>1, <3>1, <3>3 DEF ControlState
    <3>4. CASE /\ ctl' = [ctl EXCEPT !.pc = "step", !.msg = ctl.msg + 1]
               /\ ctl.msg # Len(messages)
      <4> DEFINE k == ctl.msg + 1
      <4>1. ctl' = [ctl EXCEPT !.pc = "step", !.msg = k] /\ k \in Nat
        BY <1>6, <3>4
      <4> HIDE DEF k
      <4>2. /\ ctl' \in ControlState /\ ctl'.tc = ctl.tc /\ ctl'.name = ctl.name
            /\ ctl'.pc = "step" /\ ctl'.msg = k
        BY <1>1, <3>1, <4>1 DEF ControlState
      <4> QED
        BY <3>4, <4>2 DEF k
    <3> QED
      BY <2>3, <3>2, <3>3, <3>4
  <2>5. ctl'.msg \in 1..Len(messages) /\ (GoingOn' \/ ctl'.pc = "post")
    BY <1>6, <2>4 DEF GoingOn
  <2>6. Placed'
    BY <1>1, <1>6, <1>9, <2>4, <2>5
       DEF Placed, messages, Session, FirstReply, InQuery, InReply, GoingOn, Asking
  <2>7. Course'
    BY <1>3, <2>5, <2>6, ToNextStep
  <2> QED
    BY <1>4, <1>5, <2>4, <2>7 DEF Proceeds, ControllerTypeOK
<1> QED
  BY <1>2, <1>7, <1>8, <1>9

(* The end of a block, or of the wait for one *)
LEMMA EndKeeps ==
    ASSUME Inv, UNCHANGED <<inst, lpc, worker>>, ReadEnd \/ ReadStrayEnd \/ ResultTimeout
    PROVE  Proceeds
<1>1. /\ ctl \in ControlState /\ fromEpdg \in Seq(Out) /\ Len(fromEpdg) <= Buffer /\ Placed
  BY Basics
<1>2. ASSUME Reading, Head(fromEpdg).type = "end", fromEpdg' = Tail(fromEpdg)
      PROVE  /\ NoAcks' /\ fromEpdg' \in Seq(Out) /\ Len(fromEpdg') <= Buffer
             /\ FirstReply => Head(fromEpdg).symbol \notin Failed
  <2>1. Head(fromEpdg) # Ack
    BY <1>2 DEF Ack
  <2>2. AcksFirst /\ (FirstReply => Benign(fromEpdg))
    BY <1>2 DEF Inv, Answers, Reading, BeforeQuery, NoneAsked
  <2>3. /\ AcksFirst /\ Head(fromEpdg) # Ack => NoAcks'
        /\ Benign(fromEpdg) => Head(fromEpdg).symbol \notin Failed
        /\ fromEpdg' \in Seq(Out) /\ Len(fromEpdg') <= Len(fromEpdg)
    BY <1>1, <1>2, LineTaken DEF Reading
  <2>4. Len(fromEpdg') <= Buffer
    BY <1>1, <2>3, ChannelAssumption
  <2> QED
    BY <2>1, <2>2, <2>3, <2>4
<1>3. CASE ReadEnd
  <2> DEFINE e == Head(fromEpdg)
             n == BlockName(e)
  <2>1. /\ Reading /\ e.type = "end" /\ fromEpdg' = Tail(fromEpdg) /\ Result(n)
        /\ n = "retest" => wifi' = FALSE
        /\ n # "retest" => wifi' = wifi
        /\ UNCHANGED toEpdg
    BY <1>3 DEF ReadEnd, rebootUE
  <2>2. ctl.name \in Symbols
    BY <1>1, <2>1 DEF Placed, Reading
  <2>3. "retransmission" \notin Symbols
    <3>1. \A k \in 1..6 : RequestChain[k] # "retransmission" /\ ResponseChain[k] # "retransmission"
      <4>1. /\ RequestChain[1] # "retransmission" /\ RequestChain[2] # "retransmission"
            /\ RequestChain[3] # "retransmission" /\ RequestChain[4] # "retransmission"
            /\ RequestChain[5] # "retransmission" /\ RequestChain[6] # "retransmission"
        BY DEF RequestChain
      <4>2. /\ ResponseChain[1] # "retransmission" /\ ResponseChain[2] # "retransmission"
            /\ ResponseChain[3] # "retransmission" /\ ResponseChain[4] # "retransmission"
            /\ ResponseChain[5] # "retransmission" /\ ResponseChain[6] # "retransmission"
        BY DEF ResponseChain
      <4>3. \A k \in 1..6 : k \in {1, 2, 3, 4, 5, 6}
        OBVIOUS
      <4> QED
        BY <4>1, <4>2, <4>3
    <3> QED
      BY <3>1 DEF Symbols, Requests, Responses, NULL
  <2>4. n \in {ctl.name, "retest", "retransmission"} /\ (e.symbol \notin Failed => n = ctl.name)
    BY DEF BlockName, Failed
  <2>5. n \in Returned
    BY <2>2, <2>4 DEF Returned
  <2>6. FirstReply => n # "retransmission"
    BY <1>2, <2>1, <2>2, <2>3, <2>4
  <2> HIDE DEF n
  <2> QED
    BY <1>2, <2>1, <2>5, <2>6, ResultKeeps
<1>4. CASE ReadStrayEnd
  <2>1. /\ Reading /\ Head(fromEpdg).type = "end" /\ fromEpdg' = Tail(fromEpdg)
        /\ Result("null_action") /\ wifi' = FALSE /\ UNCHANGED toEpdg
    BY <1>4 DEF ReadStrayEnd, rebootUE
  <2>2. "null_action" \in Returned
    BY DEF Returned
  <2> QED
    BY <1>2, <2>1, <2>2, ResultKeeps
<1>5. CASE ResultTimeout
  <2>1. /\ ctl.pc \in {"query", "reply"} /\ ctl.name = "timeout" /\ Result("timeout")
        /\ UNCHANGED <<toEpdg, fromEpdg, wifi>>
    BY <1>5 DEF ResultTimeout, channel
  <2>2. "timeout" \in Returned
    BY DEF Returned
  <2>3. NoAcks'
    BY <2>1, ReportsRest DEF Inv, Answers
  <2> QED
    BY <1>1, <2>1, <2>2, <2>3, ResultKeeps
<1> QED
  BY <1>3, <1>4, <1>5

(* post turns the Wi-Fi off, and main goes on. *)
LEMMA MainKeeps ==
    ASSUME Inv, UNCHANGED <<inst, lpc, worker>>, PostOff \/ NextTestcase
    PROVE  Proceeds
<1>1. /\ ctl \in ControlState /\ log \in Seq(Pair) /\ Placed
      /\ fromEpdg \in Seq(Out) /\ Len(fromEpdg) <= Buffer
  BY Basics
<1>2. UNCHANGED <<toEpdg, fromEpdg>> /\ wifi' = FALSE
  BY DEF PostOff, NextTestcase, channel
<1>3. (NoAcks => NoAcks') /\ (NoAckDue => NoAckDue')
  BY <1>2, ReportsRest, LinesRest
<1>4. CASE PostOff
  <2>1. ctl' = ctl /\ log' = log /\ ctl.pc = "post"
    BY <1>4 DEF PostOff
  <2>2. Placed'
    BY <1>1, <1>2, <2>1
       DEF Placed, messages, Session, FirstReply, InQuery, InReply, GoingOn, Asking
  <2>3. SessionOpen' /\ NoAcks' /\ NoAckDue'
    BY <1>2, <1>3, <2>1, LinesRest DEF Inv, SessionLines, Answers
  <2>4. Course'
    BY <2>1, <2>2, <2>3, ToNextStep
  <2> QED
    BY <1>1, <1>2, <2>1, <2>4 DEF Proceeds, ControllerTypeOK
<1>5. CASE NextTestcase
  <2>1. ctl.pc = "next" /\ log' = << >>
    BY <1>5 DEF NextTestcase
  <2>2. ctl.tc \in 1..Len(Plan) /\ Len(Plan) \in Nat /\ ctl.tc \in Nat
    BY <1>1, <2>1, ControllerAssumption DEF Placed
  <2>3. \/ ctl' = [ctl EXCEPT !.pc = "pre", !.msg = 1, !.trial = 0]
        \/ \E pc \in {"done", "pre"}, n \in Nat, v \in 0..2 :
             /\ pc = "pre" => n \in 1..Len(Plan)
             /\ ctl' = [ctl EXCEPT !.pc = pc, !.tc = n, !.msg = 1, !.trial = 0, !.verdict = v]
    <3> DEFINE pc == IF ctl.tc = Len(Plan) THEN "done" ELSE "pre"
               n == ctl.tc + 1
               v == IF Plan[ctl.tc].live THEN LivenessVerdict(log) ELSE ctl.verdict
    <3>1. LivenessVerdict(log) \in 0..2
      BY DEF LivenessVerdict
    <3>2. ctl.verdict \in 0..2
      BY <1>1 DEF ControlState
    <3>3. v \in 0..2
      BY <3>1, <3>2
    <3>4. n \in Nat /\ (pc = "pre" => n \in 1..Len(Plan)) /\ pc \in {"done", "pre"}
      BY <2>2
    <3>5. \/ ctl' = [ctl EXCEPT !.pc = "pre", !.msg = 1, !.trial = 0]
          \/ ctl' = [ctl EXCEPT !.pc = pc, !.tc = n, !.msg = 1, !.trial = 0, !.verdict = v]
      BY <1>5 DEF NextTestcase
    <3> HIDE DEF pc, n, v
    <3> QED
      BY <3>3, <3>4, <3>5
  <2>4. /\ ctl' \in ControlState /\ ctl'.msg = 1 /\ ctl'.trial = 0 /\ ctl'.name = ctl.name
        /\ ctl'.pc \in {"done", "pre"} /\ (ctl'.pc = "pre" => ctl'.tc \in 1..Len(Plan))
    <3>1. "done" \in Pcs /\ "pre" \in Pcs
      BY DEF Pcs
    <3>2. CASE ctl' = [ctl EXCEPT !.pc = "pre", !.msg = 1, !.trial = 0]
      BY <1>1, <2>2, <3>1, <3>2 DEF ControlState
    <3>3. ASSUME NEW pc \in {"done", "pre"}, NEW n \in Nat, NEW v \in 0..2,
                 pc = "pre" => n \in 1..Len(Plan),
                 ctl' = [ctl EXCEPT !.pc = pc, !.tc = n, !.msg = 1, !.trial = 0, !.verdict = v]
          PROVE  /\ ctl' \in ControlState /\ ctl'.msg = 1 /\ ctl'.trial = 0
                 /\ ctl'.name = ctl.name /\ ctl'.pc \in {"done", "pre"}
                 /\ ctl'.pc = "pre" => ctl'.tc \in 1..Len(Plan)
      BY <1>1, <3>1, <3>3 DEF ControlState
    <3> QED
      BY <2>3, <3>2, <3>3
  <2>5. ctl'.pc = "pre" => 1 \in 1..Len(Plan[ctl'.tc].messages)
    BY <2>4, PlanShape
  <2>6. Placed'
    BY <1>1, <1>2, <2>4, <2>5, ControllerAssumption
       DEF Placed, messages, Session, FirstReply, InQuery, InReply, GoingOn, Asking
  <2>7. NoQueries' /\ NoAcks' /\ NoAckDue'
    BY <1>2, <1>3, <2>1, LinesRest DEF Inv, SessionLines, Answers
  <2>8. Course'
    BY <2>4, <2>6, <2>7, ToEntering, ToEnd DEF Entering
  <2>9. << >> \in Seq(Pair)
    OBVIOUS
  <2> QED
    BY <1>1, <1>2, <2>1, <2>4, <2>8, <2>9 DEF Proceeds, ControllerTypeOK
<1> QED
  BY <1>4, <1>5

(* The controller. *)
LEMMA ControllerKeepsInv ==
    ASSUME Inv, ControllerStep
    PROVE  Inv'
<1>1. /\ ControllerNext(EpdgQuiet, Silent)
      /\ UNCHANGED <<inst, lpc, worker>> /\ UNCHANGED <<manager, worker, network, crashed>>
  BY DEF ControllerStep
<1>2. Proceeds
  BY <1>1, QuietKeeps, SilentKeeps, GreetKeeps, AliveKeeps, QueryKeeps, ReadKeeps, EndKeeps,
     MainKeeps DEF ControllerNext
<1>3. toEpdg \in Seq(Line) /\ Len(toEpdg) <= Buffer
  BY Basics
<1>4. /\ toEpdg' \in Seq(Line) /\ Len(toEpdg') <= Buffer
      /\ toEpdg # << >> => toEpdg' # << >> /\ toEpdg'[1] = toEpdg[1]
  <2>1. CASE UNCHANGED toEpdg
    BY <1>3, <2>1
  <2>2. ASSUME NEW l \in Line, WriteToEpdg(l)
        PROVE  /\ toEpdg' \in Seq(Line) /\ Len(toEpdg') <= Buffer
               /\ toEpdg # << >> => toEpdg' # << >> /\ toEpdg'[1] = toEpdg[1]
    <3>1. /\ toEpdg' \in Seq(Line) /\ Len(toEpdg') = Len(toEpdg) + 1 /\ Len(toEpdg) < Buffer
          /\ \A k \in 1..Len(toEpdg) : toEpdg'[k] = toEpdg[k]
      BY <1>3, <2>2, Appended DEF WriteToEpdg
    <3>2. Len(toEpdg) \in Nat /\ (toEpdg # << >> => 1 \in 1..Len(toEpdg))
      BY <1>3, Shifted
    <3> QED
      BY <3>1, <3>2, ChannelAssumption
  <2> QED
    BY <1>2, <2>1, <2>2 DEF Proceeds
<1>5. TypeOK'
  <2>1. /\ Bounded(inst) /\ RestOK /\ lpc \in {"read", "reset", "fin_query", "fin_spi"}
    BY TestbedParts, TypeParts DEF Inv
  <2>2. RestOK'
    BY <1>1, <2>1, RestUnchanged
  <2>3. ChannelTypeOK'
    BY <1>2, <1>4 DEF Proceeds, ChannelTypeOK
  <2> QED
    BY <1>1, <2>1, <2>2, <2>3 DEF TypeOK, Bounded, RestOK, ManagerOK, WorkersOK, NetworkOK
<1>6. TestbedTypeOK'
  <2>1. PhoneOK /\ ChannelTypeOK
    BY TestbedParts, TypeParts DEF Inv
  <2>2. cur' \in SA \cup {Unbound} /\ stalled' \in BOOLEAN
    BY <1>2, <2>1 DEF ControllerStep, Proceeds, ControllerTypeOK, PhoneOK
  <2>3. overtaken' \in When /\ shared' \in When
    BY <2>1 DEF ControllerStep, PhoneOK, Past, When
  <2>4. Len(fromEpdg) \in Nat
    BY <2>1 DEF ChannelTypeOK
  <2>5. left' \in {0, Len(fromEpdg), left}
    BY DEF ControllerStep
  <2>6. left' \in Nat
    BY <2>1, <2>4, <2>5 DEF PhoneOK
  <2> QED
    BY <1>2, <1>5, <2>2, <2>3, <2>6 DEF TestbedTypeOK, Proceeds
<1>7. LineInWork' /\ NoQueryAfterFin'
  BY <1>1, <1>4 DEF Inv, LineInWork, NoQueryAfterFin
<1> QED
  BY <1>2, <1>6, <1>7 DEF Inv, Proceeds, Course

-----------------------------------------------------------------------------
LEMMA InitInv == TestbedInit => Inv
<1> SUFFICES ASSUME TestbedInit PROVE Inv
  OBVIOUS
<1>1. TypeOK /\ LineInWork /\ NoQueryAfterFin
  BY InitTypes DEF TestbedInit
<1>2. /\ ctl = [pc |-> IF Plan = << >> THEN "done" ELSE "pre", back |-> "pre", tc |-> 1,
                msg |-> 1, trial |-> 0, name |-> NULL, depth |-> 0, qname |-> NULL,
                sent |-> 0, acked |-> FALSE, verdict |-> 0]
      /\ wifi = FALSE /\ log = << >> /\ toEpdg = << >> /\ fromEpdg = << >>
  BY DEF TestbedInit, ControllerInit, Init
<1>3. /\ ctl \in ControlState /\ ctl.tc = 1 /\ ctl.msg = 1 /\ ctl.trial = 0 /\ ctl.name = NULL
      /\ ctl.pc \in {"done", "pre"} /\ (ctl.pc = "pre" => Plan # << >>)
  <2>1. NULL \in Names /\ "done" \in Pcs /\ "pre" \in Pcs /\ 0 \in 0..MaxQueries
    BY ChannelAssumption DEF Names, Symbols, Pcs
  <2> QED
    BY <1>2, <2>1 DEF ControlState
<1>4. ControllerTypeOK
  <2>1. << >> \in Seq(Pair)
    OBVIOUS
  <2>2. wifi \in BOOLEAN /\ log \in Seq(Pair)
    BY <1>2, <2>1
  <2> QED
    BY <1>3, <2>2 DEF ControllerTypeOK
<1>5. TestbedTypeOK
  BY <1>1, <1>4 DEF TestbedTypeOK, TestbedInit, When
<1>6. Placed
  <2>1. ctl.pc = "pre" => 1 \in 1..Len(Plan) /\ 1 \in 1..Len(messages)
    <3>1. Plan # << >> => 1 \in 1..Len(Plan)
      BY ControllerAssumption, Shifted
    <3>2. 1 \in 1..Len(Plan) => 1 \in 1..Len(messages)
      BY <1>3, PlanShape DEF messages
    <3> QED
      BY <1>3, <3>1, <3>2
  <2>2. NULL \in Symbols
    BY DEF Symbols
  <2> QED
    BY <1>2, <1>3, <2>1, <2>2, ControllerAssumption
       DEF Placed, Session, FirstReply, InQuery, InReply, GoingOn, Asking
<1>7. NoQueries /\ NoAcks /\ NoAckDue
  BY <1>2 DEF NoQueries, NoAcks, NoAckDue, OnlyLines
<1>8. SessionLines /\ Answers /\ Dormant /\ BeforeQuery
  BY <1>3, <1>7 DEF SessionLines, Answers, Dormant, BeforeQuery, Greeting, Greeted, Entering,
                    Session, FirstReply, InQuery, InReply, GoingOn, Asking
<1> QED
  BY <1>1, <1>5, <1>6, <1>8 DEF Inv

(* Nothing changes. *)
LEMMA StutterInv ==
    ASSUME Inv, UNCHANGED <<vars, control, phone>>
    PROVE  Inv'
<1>1. /\ UNCHANGED <<control, phone>> /\ toEpdg' = toEpdg /\ fromEpdg' = fromEpdg
      /\ inst' = inst /\ lpc' = lpc /\ worker' = worker
      /\ UNCHANGED <<manager, worker, network, crashed>>
  BY DEF vars, channel
<1>2. TypeOK'
  <2>1. /\ Bounded(inst) /\ RestOK /\ lpc \in {"read", "reset", "fin_query", "fin_spi"}
        /\ ChannelTypeOK
    BY TestbedParts, TypeParts DEF Inv
  <2>2. RestOK'
    BY <1>1, <2>1, RestUnchanged
  <2> QED
    BY <1>1, <2>1, <2>2
       DEF TypeOK, Bounded, RestOK, ManagerOK, WorkersOK, NetworkOK, ChannelTypeOK
<1>3. TestbedTypeOK' /\ Placed'
  BY <1>1, <1>2, TypesFrame, SamePlace DEF Inv
<1>4. LineInWork' /\ NoQueryAfterFin'
  BY <1>1 DEF Inv, LineInWork, NoQueryAfterFin
<1>5. SessionLines'
  BY <1>1, SamePlace, LinesRest DEF Inv, SessionLines
<1>6. Answers'
  <2>1. OneAck' <=> OneAck
    BY <1>1 DEF OneAck
  <2> QED
    BY <1>1, <2>1, SamePlace, LinesRest, ReportsRest DEF Inv, Answers
<1>7. Dormant' /\ BeforeQuery'
  BY <1>1, SamePlace, LinesRest, ReportsRest, EpdgRests DEF Inv, Dormant, BeforeQuery, NoneAsked
<1> QED
  BY <1>3, <1>4, <1>5, <1>6, <1>7 DEF Inv

LEMMA NextInv == Inv /\ [TestbedNext]_<<vars, control, phone>> => Inv'
<1> SUFFICES ASSUME Inv, [TestbedNext]_<<vars, control, phone>> PROVE Inv'
  OBVIOUS
<1>1. CASE ControllerStep
  BY <1>1, ControllerKeepsInv
<1>2. CASE ListenerStep
  BY <1>2, ListenerKeepsInv
<1>3. CASE SenderStep
  BY <1>3, SenderKeepsInv
<1>4. CASE UeStep
  BY <1>4, UeKeepsInv
<1>5. CASE \E t \in Workers : WorkerStep(t)
  BY <1>5, WorkKeepsInv
<1>6. CASE Stopped \/ UNCHANGED <<vars, control, phone>>
  BY <1>6, StutterInv DEF Stopped
<1> QED
  BY <1>1, <1>2, <1>3, <1>4, <1>5, <1>6 DEF TestbedNext

(* The inductive invariant holds in every state of the testbed. *)
THEOREM TestbedInvariance == TestbedSpec => []Inv
  BY InitInv, NextInv, PTL DEF TestbedSpec

(* The instance, the controller and the UE stay of their types, and both   *)
(* directions of the connection within their buffers, whatever the         *)
(* testcases are and however the threads and the UE interleave.            *)
THEOREM TestbedTyped == TestbedSpec => []TestbedTypeOK
<1>1. Inv => TestbedTypeOK
  BY DEF Inv
<1> QED
  BY <1>1, TestbedInvariance, PTL

(* sendMSGToEPDG only writes a query while the ePDG's session is open:     *)
(* initEPDG in sendEnableVoWiFi never mistakes a late report for its ACK,  *)
(* and a failed response never sends a step of the controller back to      *)
(* enable_vowifi.                                                          *)
THEOREM QueriesMeetSession == TestbedSpec => []QueriesInSession
  BY InvQueries, TestbedInvariance, PTL
=============================================================================
