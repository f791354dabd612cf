------------------------------ MODULE EpdgLemmas ------------------------------
(***************************************************************************)
(* What the steps of the ePDG keep, whoever drives it: lemmas about        *)
(* EpdgInstance for the proofs about EpdgDriver and Testbed.               *)
(*                                                                         *)
(* All a worker does to the instance is summed up in Touches, so that the  *)
(* steps of the workers are looked at once.                                *)
(***************************************************************************)
EXTENDS EpdgInstance, SequenceLemmas, TLAPS

(* The listener is at a later step of init or fin only while that line is  *)
(* the one in work.                                                        *)
LineInWork ==
    /\ lpc = "reset" =>
         toEpdg # << >> /\ toEpdg[1].kind = "init" /\ inst.sa # Closed
    /\ lpc \in {"fin_query", "fin_spi"} =>
         toEpdg # << >> /\ toEpdg[1].kind = "fin" /\ inst.finished
    /\ lpc = "fin_spi" => inst.query = NoQuery

-----------------------------------------------------------------------------
(* What a worker does to the instance *)

(* An instance whose queue is within its bound. *)
Bounded(i) == i \in Instance /\ Len(i.sendq) <= MaxQueueLen

Extends(p, q, n) ==
    /\ Len(q) \in Len(p) .. Len(p) + n
    /\ \A k \in 1..Len(p) : q[k] = p[k]

(* Instance j is what a worker's step makes of instance i: init and fin    *)
(* are not undone, no query is published, and up to n reports are made,    *)
(* none of them by a closed instance.                                      *)
Touches(i, j, n) ==
    /\ Bounded(j)
    /\ j.initiated = i.initiated /\ j.finished = i.finished
    /\ j.sa = Closed <=> i.sa = Closed
    /\ j.query \in {i.query, NoQuery}
    /\ j.sendq = i.sendq \/ (i.sa # Closed /\ Extends(i.sendq, j.sendq, n))

(* An instance with another queue. *)
LEMMA QueueReplaced ==
    ASSUME NEW i \in Instance, NEW q \in Seq(Report)
    PROVE  /\ [i EXCEPT !.sendq = q] \in Instance
           /\ [i EXCEPT !.sendq = q].sendq = q
           /\ [i EXCEPT !.sendq = q].sa = i.sa
           /\ [i EXCEPT !.sendq = q].query = i.query
           /\ [i EXCEPT !.sendq = q].initiated = i.initiated
           /\ [i EXCEPT !.sendq = q].finished = i.finished
  BY DEF Instance

(* add_message_to_send_queue keeps the queue within MAX_QUEUE_LEN and      *)
(* changes nothing but the queue, whose content it keeps.                  *)
LEMMA EnqueueTouches ==
    ASSUME NEW i, Bounded(i), NEW type \in {"start", "end"}, NEW symbol \in Symbols
    PROVE  /\ Bounded(Enqueue(i, type, symbol))
           /\ Extends(i.sendq, Enqueue(i, type, symbol).sendq, 1)
           /\ Enqueue(i, type, symbol).sa = i.sa
           /\ Enqueue(i, type, symbol).query = i.query
           /\ Enqueue(i, type, symbol).initiated = i.initiated
           /\ Enqueue(i, type, symbol).finished = i.finished
<1> DEFINE r == [type |-> type, symbol |-> symbol, sa |-> i.sa]
<1>1. i.sendq \in Seq(Report) /\ i.sa \in SA \cup {Unbound, Closed}
  BY DEF Bounded, Instance
<1>2. r \in Report
  BY <1>1 DEF Report
<1>3. /\ Append(i.sendq, r) \in Seq(Report)
      /\ Len(Append(i.sendq, r)) = Len(i.sendq) + 1
      /\ \A k \in 1..Len(i.sendq) : Append(i.sendq, r)[k] = i.sendq[k]
  BY <1>1, <1>2, Appended
<1>4. CASE Len(i.sendq) < MaxQueueLen
  <2>1. Enqueue(i, type, symbol) = [i EXCEPT !.sendq = Append(i.sendq, r)]
    BY <1>4 DEF Enqueue
  <2> DEFINE q == Append(i.sendq, r)
  <2> HIDE DEF q, r
  <2>2. Enqueue(i, type, symbol) = [i EXCEPT !.sendq = q]
    BY <2>1 DEF q
  <2>3. /\ q \in Seq(Report) /\ Len(q) = Len(i.sendq) + 1
        /\ \A k \in 1..Len(i.sendq) : q[k] = i.sendq[k]
    BY <1>3 DEF q
  <2>4. Len(q) <= MaxQueueLen /\ Extends(i.sendq, q, 1)
    BY <2>3, <1>1, <1>4, EpdgAssumption DEF Extends
  <2> QED
    BY <2>2, <2>3, <2>4, QueueReplaced DEF Bounded
<1>5. CASE ~(Len(i.sendq) < MaxQueueLen)
  BY <1>1, <1>5 DEF Enqueue, Bounded, Extends
<1> QED
  BY <1>4, <1>5

(* The fields a worker's step may set on its way, besides the queue. *)
LEMMA FieldsReplaced ==
    ASSUME NEW i, Bounded(i)
    PROVE  /\ \A x \in Responses \cup {NULL, "error"} : Touches(i, [i EXCEPT !.sprev = x], 0)
           /\ \A x \in Requests \cup {NULL, "error"} : Touches(i, [i EXCEPT !.rprev = x], 0)
           /\ \A x \in Requests \cup {NULL, "error"}, m \in Int :
                Touches(i, [i EXCEPT !.rprev = x, !.imid = m], 0)
           /\ \A m \in Int : Touches(i, [i EXCEPT !.retransmission = m], 0)
           /\ \A m, x \in Int : Touches(i, [i EXCEPT !.imid = m, !.retransmission = x], 0)
           /\ \A m \in Int : Touches(i, [i EXCEPT !.retransmission = m, !.not_report = FALSE], 0)
           /\ Touches(i, [i EXCEPT !.not_report = TRUE], 0)
           /\ Touches(i, [i EXCEPT !.no_proposal_chosen = TRUE], 0)
           /\ Touches(i, [i EXCEPT !.invalid_ke_payload = TRUE], 0)
           /\ Touches(i, [i EXCEPT !.authentication_failed = TRUE], 0)
           /\ Touches(i, [i EXCEPT !.authentication_failed = FALSE,
                                   !.no_proposal_chosen = FALSE,
                                   !.invalid_ke_payload = FALSE], 0)
           /\ Touches(i, [i EXCEPT !.query = NoQuery], 0)
<1>1. \A x \in Responses \cup {NULL, "error"} : Touches(i, [i EXCEPT !.sprev = x], 0)
  BY DEF Touches, Bounded, Instance
<1>2. \A x \in Requests \cup {NULL, "error"} : Touches(i, [i EXCEPT !.rprev = x], 0)
  BY DEF Touches, Bounded, Instance
<1>3. \A x \in Requests \cup {NULL, "error"}, m \in Int :
        Touches(i, [i EXCEPT !.rprev = x, !.imid = m], 0)
  BY DEF Touches, Bounded, Instance
<1>4. \A m \in Int : Touches(i, [i EXCEPT !.retransmission = m], 0)
  BY DEF Touches, Bounded, Instance
<1>5. \A m, x \in Int : Touches(i, [i EXCEPT !.imid = m, !.retransmission = x], 0)
  BY DEF Touches, Bounded, Instance
<1>6. \A m \in Int : Touches(i, [i EXCEPT !.retransmission = m, !.not_report = FALSE], 0)
  BY DEF Touches, Bounded, Instance
<1>7. Touches(i, [i EXCEPT !.not_report = TRUE], 0)
  BY DEF Touches, Bounded, Instance
<1>8. Touches(i, [i EXCEPT !.no_proposal_chosen = TRUE], 0)
  BY DEF Touches, Bounded, Instance
<1>9. Touches(i, [i EXCEPT !.invalid_ke_payload = TRUE], 0)
  BY DEF Touches, Bounded, Instance
<1>10. Touches(i, [i EXCEPT !.authentication_failed = TRUE], 0)
  BY DEF Touches, Bounded, Instance
<1>11. Touches(i, [i EXCEPT !.authentication_failed = FALSE,
                            !.no_proposal_chosen = FALSE,
                            !.invalid_ke_payload = FALSE], 0)
  BY DEF Touches, Bounded, Instance
<1>12. Touches(i, [i EXCEPT !.query = NoQuery], 0)
  BY DEF Touches, Bounded, Instance
<1> QED
  BY <1>1, <1>2, <1>3, <1>4, <1>5, <1>6, <1>7, <1>8, <1>9, <1>10, <1>11, <1>12

(* Extensions of the send queue add up. *)
LEMMA ExtendsTwice ==
    ASSUME NEW p \in Seq(Report), NEW q \in Seq(Report), NEW r \in Seq(Report),
           NEW m \in Nat, NEW n \in Nat, Extends(p, q, m), Extends(q, r, n)
    PROVE  Extends(p, r, m + n)
<1>1. Len(p) \in Nat /\ Len(q) \in Nat /\ Len(r) \in Nat
  OBVIOUS
<1>2. Len(r) \in Len(p) .. Len(p) + (m + n)
  BY <1>1 DEF Extends
<1>3. \A k \in 1..Len(p) : r[k] = p[k]
  BY <1>1 DEF Extends
<1> QED
  BY <1>2, <1>3 DEF Extends

(* No report, or fewer than allowed. *)
LEMMA ExtendsLess ==
    ASSUME NEW p \in Seq(Report), NEW q \in Seq(Report), NEW m \in Nat, NEW n \in Nat, m <= n
    PROVE  Extends(p, p, n) /\ (Extends(p, q, m) => Extends(p, q, n))
<1>1. Len(p) \in Nat /\ Len(q) \in Nat
  OBVIOUS
<1> QED
  BY <1>1 DEF Extends

(* The send queue of a well-typed instance. *)
LEMMA QueueOf ==
    ASSUME NEW i, Bounded(i)
    PROVE  i.sendq \in Seq(Report)
  BY DEF Bounded, Instance

(* Two changes one after the other. *)
LEMMA TouchesTwice ==
    ASSUME NEW i, NEW j, NEW k, NEW m \in Nat, NEW n \in Nat,
           Bounded(i), Touches(i, j, m), Touches(j, k, n)
    PROVE  Touches(i, k, m + n)
<1>1. i.sendq \in Seq(Report) /\ j.sendq \in Seq(Report) /\ k.sendq \in Seq(Report)
  BY QueueOf DEF Touches
<1>2. m <= m + n /\ n <= m + n /\ m + n \in Nat
  OBVIOUS
<1>3. k.sendq = i.sendq \/ (i.sa # Closed /\ Extends(i.sendq, k.sendq, m + n))
  <2>1. CASE j.sendq = i.sendq /\ k.sendq = j.sendq
    BY <2>1
  <2>2. CASE j.sendq = i.sendq /\ j.sa # Closed /\ Extends(j.sendq, k.sendq, n)
    BY <2>2, <1>1, <1>2, ExtendsLess DEF Touches
  <2>3. CASE i.sa # Closed /\ Extends(i.sendq, j.sendq, m) /\ k.sendq = j.sendq
    BY <2>3, <1>1, <1>2, ExtendsLess
  <2>4. CASE i.sa # Closed /\ Extends(i.sendq, j.sendq, m) /\ Extends(j.sendq, k.sendq, n)
    BY <2>4, <1>1, ExtendsTwice
  <2> QED
    BY <2>1, <2>2, <2>3, <2>4 DEF Touches
<1> QED
  BY <1>3 DEF Touches

(* A bound on the number of reports may be raised. *)
LEMMA TouchesLess ==
    ASSUME NEW i, NEW j, NEW m \in Nat, NEW n \in Nat, m <= n, Bounded(i), Touches(i, j, m)
    PROVE  Touches(i, j, n)
<1>1. i.sendq \in Seq(Report) /\ j.sendq \in Seq(Report)
  BY QueueOf DEF Touches
<1> QED
  BY <1>1, ExtendsLess DEF Touches

(* A report made by an instance that is not closed. *)
LEMMA ReportTouches ==
    ASSUME NEW i, Bounded(i), i.sa # Closed,
           NEW type \in {"start", "end"}, NEW symbol \in Symbols
    PROVE  Touches(i, Enqueue(i, type, symbol), 1)
  BY EnqueueTouches DEF Touches

(* An instance left alone. *)
LEMMA NothingTouches ==
    ASSUME NEW i, Bounded(i)
    PROVE  Touches(i, i, 0)
  BY DEF Touches

(* Binding an instance that is not closed to another IKE_SA, or to none. *)
LEMMA BoundReplaced ==
    ASSUME NEW i, Bounded(i), i.sa # Closed, NEW s \in SA \cup {Unbound}, NEW m \in Int
    PROVE  /\ Touches(i, [i EXCEPT !.sa = s, !.imid = m], 0)
           /\ Touches(i, [i EXCEPT !.sprev = NULL, !.sa = s, !.imid = m], 0)
<1>1. s # Closed
  BY ChannelAssumption
<1>2. Touches(i, [i EXCEPT !.sa = s, !.imid = m], 0)
  BY <1>1 DEF Touches, Bounded, Instance
<1>3. Touches(i, [i EXCEPT !.sprev = NULL, !.sa = s, !.imid = m], 0)
  BY <1>1 DEF Touches, Bounded, Instance
<1> QED
  BY <1>2, <1>3

(* What the shared operations do to the instance. *)
LEMMA BindTouches ==
    ASSUME Bounded(inst), NEW s \in SA
    PROVE  Touches(inst, Bind(s), 0)
<1>1. CASE inst.sa = Unbound
  <2>1. Bind(s) = [inst EXCEPT !.sa = s, !.imid = -1]
    BY <1>1 DEF Bind
  <2>2. s # Closed /\ inst.sa # Closed
    BY <1>1, ChannelAssumption
  <2>3. PICK m \in Int : m = -1
    OBVIOUS
  <2>4. Touches(inst, [inst EXCEPT !.sa = s, !.imid = m], 0)
    BY <2>2, BoundReplaced
  <2> QED
    BY <2>1, <2>3, <2>4
<1>2. CASE inst.sa # Unbound
  BY <1>2, NothingTouches DEF Bind
<1> QED
  BY <1>1, <1>2

(* The counters of process_message report nothing. *)
LEMMA CountedTouches ==
    ASSUME Bounded(inst), NEW t \in Workers
    PROVE  Touches(inst, Counted(t), 0)
<1>1. inst.imid + 1 \in Int /\ inst.retransmission + 1 \in Int /\ 0 \in Int
  BY DEF Bounded, Instance
<1> QED
  BY <1>1, FieldsReplaced DEF Counted

(* The end of a request's report makes at most one report. *)
LEMMA EndRequestTouches ==
    ASSUME NEW i, Bounded(i), i.sa # Closed
    PROVE  Touches(i, EndRequest(i), 1)
<1>1. CASE reporting(i)
  BY <1>1, ReportTouches DEF EndRequest, Symbols
<1>2. CASE ~reporting(i)
  <2>1. i.retransmission - 1 \in Int
    BY DEF Bounded, Instance
  <2>2. Touches(i, EndRequest(i), 0)
    BY <1>2, <2>1, FieldsReplaced DEF EndRequest
  <2> QED
    BY <2>2, TouchesLess
<1> QED
  BY <1>1, <1>2

(* An IKE_AUTH request is labelled with a name of the chain or error. *)
LEMMA NextRequestNamed ==
    ASSUME NEW prev
    PROVE  NextRequest(prev) \in Requests \cup {"error"}
<1>1. CASE \E i \in 1..5 : RequestChain[i] = prev
  <2> DEFINE c == CHOOSE i \in 1..5 : RequestChain[i] = prev
  <2>1. c \in 1..5
    BY <1>1
  <2>2. c + 1 \in 1..6 /\ NextRequest(prev) = RequestChain[c + 1]
    BY <2>1, <1>1 DEF NextRequest
  <2> QED
    BY <2>2 DEF Requests
<1>2. CASE ~\E i \in 1..5 : RequestChain[i] = prev
  BY <1>2 DEF NextRequest
<1> QED
  BY <1>1, <1>2

(* The begin of a response's report makes one report. *)
LEMMA StartResponseTouches ==
    ASSUME Bounded(inst), inst.sa # Closed, inst.query # NoQuery, NEW ex
    PROVE  Touches(inst, StartResponse(ex), 1)
<1>1. inst.query.name \in Responses
  BY DEF Bounded, Instance, Query
<1>2. inst.query.name \in Symbols /\ OutOfChain(ex) \in Symbols
  BY <1>1 DEF Symbols, OutOfChain
<1>4. ASSUME NEW x \in Responses \cup {NULL, "error"}, NEW symbol \in Symbols
      PROVE  Touches(inst, Enqueue([inst EXCEPT !.sprev = x], "start", symbol), 1)
  <2> DEFINE j == [inst EXCEPT !.sprev = x]
  <2>0. Touches(inst, j, 0)
    BY FieldsReplaced
  <2> HIDE DEF j
  <2>1. Touches(inst, j, 0) /\ Bounded(j) /\ j.sa # Closed
    BY <2>0 DEF Touches
  <2>2. Touches(j, Enqueue(j, "start", symbol), 1)
    BY <2>1, ReportTouches
  <2>3. Touches(inst, Enqueue(j, "start", symbol), 0 + 1)
    BY <2>1, <2>2, TouchesTwice
  <2> QED
    BY <2>3 DEF j
<1> QED
  BY <1>1, <1>2, <1>4 DEF StartResponse

(* The outcome a report ends with is a symbol of the channel. *)
LEMMA OutcomeNamed ==
    ASSUME NEW i
    PROVE  Outcome(i) \in Symbols
  BY DEF Outcome, Symbols

(* A failure unbinds the instance and reports nothing by itself. *)
LEMMA SettledTouches ==
    ASSUME NEW i, Bounded(i), i.sa # Closed
    PROVE  Touches(i, Settled(i), 0)
<1>1. CASE Outcome(i) = NULL
  BY <1>1, NothingTouches DEF Settled
<1>2. CASE Outcome(i) # NULL
  <2>1. Settled(i) = [i EXCEPT !.sprev = NULL, !.sa = Unbound, !.imid = -1]
    BY <1>2 DEF Settled
  <2>2. PICK m \in Int : m = -1
    OBVIOUS
  <2>3. Touches(i, [i EXCEPT !.sprev = NULL, !.sa = Unbound, !.imid = m], 0)
    BY BoundReplaced
  <2> QED
    BY <2>1, <2>2, <2>3
<1> QED
  BY <1>1, <1>2

(* Changes without a report between others. *)
LEMMA TouchesQuietly ==
    ASSUME NEW i, NEW j, NEW k, NEW n \in Nat, Bounded(i)
    PROVE  /\ Touches(i, j, 0) /\ Touches(j, k, n) => Touches(i, k, n)
           /\ Touches(i, j, n) /\ Touches(j, k, 0) => Touches(i, k, n)
<1>1. 0 + n = n /\ n + 0 = n /\ 0 \in Nat
  OBVIOUS
<1> QED
  BY <1>1, TouchesTwice

-----------------------------------------------------------------------------
(* A worker at a request knows its IKE_SA. *)
LEMMA BusyWorker ==
    ASSUME worker \in [Workers -> Job \cup {Idle}], NEW t \in Workers, worker[t].pc # "idle"
    PROVE  worker[t] \in Job /\ worker[t].sa \in SA
<1>1. worker[t] \in Job
  BY DEF Idle
<1> QED
  BY <1>1 DEF Job

(* Every step of a worker at a request leaves the connection and the       *)
(* listener alone and touches the instance by at most two reports.         *)
LEMMA WorkTouches ==
    ASSUME Bounded(inst), NoQueryAfterFin, worker \in [Workers -> Job \cup {Idle}],
           NEW t \in Workers, Work(t)
    PROVE  Touches(inst, inst', 2) /\ UNCHANGED <<channel, lpc>>
<1> DEFINE Quiet == Touches(inst, inst', 0)
           Once == Touches(inst, inst', 1)
           Frame == UNCHANGED <<channel, lpc>>
<1>1. ASSUME inst' = inst
      PROVE  Quiet
  BY <1>1, NothingTouches
<1>2. ASSUME worker[t].pc # "idle", check_instance(worker[t].sa)
      PROVE  inst.sa # Closed
  BY <1>2, BusyWorker, ChannelAssumption DEF check_instance
<1>3. ASSUME Takeable
      PROVE  inst.sa # Closed /\ inst.query # NoQuery
  BY <1>3 DEF Takeable, NoQueryAfterFin
<1>4. ASSUME RefuseUnbound(t) \/ Stale(t) \/ Reject(t) \/ Respond(t) \/ Released(t) \/ Send(t)
               \/ CrashOnRequest(t) \/ CrashOnQuery(t) \/ GenerateFails(t)
      PROVE  Quiet /\ Frame
  BY <1>1, <1>4 DEF RefuseUnbound, Stale, Reject, Respond, Released, Send, CrashOnRequest,
                    CrashOnQuery, GenerateFails, channel
<1>5. ASSUME RefuseRepeated(t)
      PROVE  Quiet /\ Frame
  BY <1>5, CountedTouches DEF RefuseRepeated, channel
<1>6. ASSUME ReportRequest(t)
      PROVE  Once /\ Frame
  <2> DEFINE i == Counted(t)
             auth == NextRequest(i.rprev)
             label(j, symbol) == IF reporting(j) THEN Enqueue(j, "start", symbol) ELSE j
  <2>1. Touches(inst, i, 0) /\ Bounded(i)
    BY CountedTouches DEF Touches
  <2>2. i.sa # Closed
    <3>1. worker[t].pc # "idle" /\ check_instance(worker[t].sa)
      BY <1>6 DEF ReportRequest
    <3> QED
      BY <3>1, <1>2, <2>1 DEF Touches
  <2>3. ASSUME NEW j, Touches(i, j, 0), NEW symbol \in Symbols
        PROVE  Touches(inst, label(j, symbol), 1)
    <3> HIDE DEF i
    <3>1. Bounded(j) /\ j.sa # Closed
      BY <2>2, <2>3 DEF Touches
    <3>2. Touches(inst, j, 0)
      BY <2>1, <2>3, TouchesQuietly
    <3>3. Touches(inst, Enqueue(j, "start", symbol), 1)
      BY <3>1, <3>2, ReportTouches, TouchesQuietly
    <3> QED
      BY <3>2, <3>3, TouchesLess
  <2>4. auth \in Requests \cup {"error"}
    BY NextRequestNamed
  <2>5. "ike_sa_init_request" \in Requests
    <3>1. RequestChain[1] = "ike_sa_init_request" /\ 1 \in 1..6
      BY DEF RequestChain
    <3> QED
      BY <3>1 DEF Requests
  <2>6. /\ "ike_sa_init_request" \in Symbols /\ "client_error" \in Symbols
         /\ (IF auth = "error" THEN "error in ike_auth" ELSE auth) \in Symbols
    <3> HIDE DEF auth
    <3> QED
      BY <2>4, <2>5 DEF Symbols
  <2>7. \/ inst' = i
        \/ inst' = label([i EXCEPT !.rprev = "ike_sa_init_request", !.imid = 0],
                         "ike_sa_init_request")
        \/ \E symbol \in {IF auth = "error" THEN "error in ike_auth" ELSE auth,
                           "client_error"} : inst' = label([i EXCEPT !.rprev = auth], symbol)
        \/ inst' = [i EXCEPT !.not_report = TRUE]
    BY <1>6 DEF ReportRequest
  <2> HIDE DEF i, auth
  <2>8. Touches(i, [i EXCEPT !.rprev = "ike_sa_init_request", !.imid = 0], 0)
    <3>1. "ike_sa_init_request" \in Requests \cup {NULL, "error"} /\ 0 \in Int
      BY <2>5
    <3> QED
      BY <2>1, <3>1, FieldsReplaced
  <2>9. Touches(i, [i EXCEPT !.rprev = auth], 0)
    <3>1. auth \in Requests \cup {NULL, "error"}
      BY <2>4
    <3> QED
      BY <2>1, <3>1, FieldsReplaced
  <2>10. Touches(i, [i EXCEPT !.not_report = TRUE], 0)
    BY <2>1, FieldsReplaced
  <2>11. Frame
    BY <1>6 DEF ReportRequest, channel
  <2>12. CASE inst' = i
    BY <2>12, <2>1, <2>11, TouchesLess
  <2>13. CASE inst' = label([i EXCEPT !.rprev = "ike_sa_init_request", !.imid = 0],
                           "ike_sa_init_request")
    BY <2>13, <2>3, <2>6, <2>8, <2>11
  <2>14. CASE \E symbol \in {IF auth = "error" THEN "error in ike_auth" ELSE auth,
                              "client_error"} : inst' = label([i EXCEPT !.rprev = auth], symbol)
    BY <2>14, <2>3, <2>6, <2>9, <2>11
  <2>15. CASE inst' = [i EXCEPT !.not_report = TRUE]
    BY <2>15, <2>1, <2>10, <2>11, TouchesQuietly, TouchesLess
  <2> QED
    BY <2>7, <2>12, <2>13, <2>14, <2>15
<1>7. ASSUME ParseFails(t) \/ Accept(t)
      PROVE  Once /\ Frame
  <2>1. worker[t].pc # "idle" /\ Frame
        /\ inst' = IF check_instance(worker[t].sa) THEN EndRequest(inst) ELSE inst
    BY <1>7 DEF ParseFails, Accept, channel
  <2> QED
    BY <2>1, <1>2, EndRequestTouches, NothingTouches, TouchesLess
<1>8. ASSUME TakeQuery(t)
      PROVE  Once /\ Frame
  BY <1>8, <1>3, StartResponseTouches DEF TakeQuery, channel
<1>9. ASSUME NotifyError(t)
      PROVE  Touches(inst, inst', 2) /\ Frame
  <2> DEFINE j == StartResponse(worker[t].ex)
  <2>1. Touches(inst, j, 1) /\ inst.sa # Closed
    BY <1>9, <1>3, StartResponseTouches DEF NotifyError
  <2>2. inst' = Enqueue(j, "end", NULL) /\ Frame
    BY <1>9 DEF NotifyError, channel
  <2> HIDE DEF j
  <2>3. Bounded(j) /\ j.sa # Closed
    BY <2>1 DEF Touches
  <2>4. Touches(j, Enqueue(j, "end", NULL), 1)
    BY <2>3, ReportTouches DEF Symbols
  <2>5. Touches(inst, Enqueue(j, "end", NULL), 1 + 1)
    BY <2>1, <2>4, TouchesTwice
  <2> QED
    BY <2>2, <2>5
<1>10. ASSUME Build(t)
      PROVE  Quiet /\ Frame
  <2>1. inst' \in {inst} \cup FailureMarks(worker[t].ex) /\ Frame
    BY <1>10 DEF Build, channel
  <2>2. \A j \in {inst} \cup FailureMarks(worker[t].ex) : Touches(inst, j, 0)
    BY NothingTouches, FieldsReplaced DEF FailureMarks
  <2> QED
    BY <2>1, <2>2
<1>11. ASSUME EndResponse(t)
      PROVE  Once /\ Frame
  <2>1. Frame
    BY <1>11 DEF EndResponse, channel
  <2>2. CASE ~check_instance(worker[t].sa)
    BY <1>11, <2>1, <2>2, NothingTouches, TouchesLess DEF EndResponse
  <2>3. CASE check_instance(worker[t].sa)
    <3> DEFINE i == Settled(inst)
               j == [i EXCEPT !.query = NoQuery]
               k == Enqueue(j, "end", Outcome(inst))
               l == [k EXCEPT !.authentication_failed = FALSE, !.no_proposal_chosen = FALSE,
                              !.invalid_ke_payload = FALSE]
    <3>1. inst' = l
      BY <1>11, <2>3 DEF EndResponse
    <3>2. inst.sa # Closed
      BY <1>11, <1>2, <2>3 DEF EndResponse
    <3>3. Touches(inst, i, 0)
      BY <3>2, SettledTouches
    <3> HIDE DEF i
    <3>4. Bounded(i) /\ i.sa # Closed
      BY <3>2, <3>3 DEF Touches
    <3>5. Touches(i, j, 0)
      BY <3>4, FieldsReplaced
    <3> HIDE DEF j
    <3>6. Bounded(j) /\ j.sa # Closed
      BY <3>4, <3>5 DEF Touches
    <3>7. Touches(j, k, 1)
      BY <3>6, ReportTouches, OutcomeNamed
    <3> HIDE DEF k
    <3>8. Bounded(k)
      BY <3>7 DEF Touches
    <3>9. Touches(k, l, 0)
      BY <3>8, FieldsReplaced
    <3> HIDE DEF l
    <3>10. Touches(inst, j, 0)
      BY <3>3, <3>5, TouchesQuietly
    <3>11. Touches(inst, k, 1)
      BY <3>10, <3>7, TouchesQuietly
    <3> QED
      BY <3>1, <3>9, <3>11, <2>1, TouchesQuietly
  <2> QED
    BY <2>2, <2>3
<1>12. (Quiet \/ Once) => Touches(inst, inst', 2)
  BY TouchesLess
<1> QED
  BY <1>4, <1>5, <1>6, <1>7, <1>8, <1>9, <1>10, <1>11, <1>12 DEF Work

-----------------------------------------------------------------------------
(* The types of what only the workers and the UE change *)

ManagerOK ==
    /\ entries \subseteq SA
    /\ checked_out \in [SA -> BOOLEAN]
    /\ processing \in [SA -> Int]
    /\ resp_mid \in [SA -> Nat]

WorkersOK == worker \in [Workers -> Job \cup {Idle}]

NetworkOK ==
    /\ ue \in [SA -> Seq(Exchanges)]
    /\ \A s \in SA : Len(ue[s]) <= MaxExchanges
    /\ seen \in [SA -> Nat]
    /\ wire \subseteq Response
    /\ received \in Nat

RestOK == ManagerOK /\ WorkersOK /\ NetworkOK /\ crashed \in BOOLEAN

(* TypeOK by the parts the proofs work with. *)
LEMMA TypeParts ==
    TypeOK <=> /\ ChannelTypeOK /\ Bounded(inst) /\ RestOK
               /\ lpc \in {"read", "reset", "fin_query", "fin_spi"}
  BY DEF TypeOK, Bounded, RestOK, ManagerOK, WorkersOK, NetworkOK

(* The worker lets go of its IKE_SA. *)
LEMMA CheckinTypes ==
    ASSUME ManagerOK, WorkersOK, NEW t \in Workers, worker[t].pc # "idle",
           checkin(t) \/ checkin_and_destroy(t)
    PROVE  /\ WorkersOK'
           /\ entries' \subseteq SA
           /\ checked_out' \in [SA -> BOOLEAN]
           /\ processing' \in [SA -> Int]
<1>1. worker[t].sa \in SA
  BY BusyWorker DEF WorkersOK
<1>2. Release(t) /\ entries' \subseteq entries \cup {worker[t].sa}
  BY DEF checkin, checkin_and_destroy
<1>3. /\ worker' = [worker EXCEPT ![t] = Idle]
      /\ checked_out' = [checked_out EXCEPT ![worker[t].sa] = FALSE]
      /\ processing' = [processing EXCEPT ![worker[t].sa] = -1]
  BY <1>2 DEF Release
<1>4. WorkersOK'
  BY <1>3 DEF WorkersOK
<1>5. entries' \subseteq SA
  BY <1>1, <1>2 DEF ManagerOK
<1>6. checked_out' \in [SA -> BOOLEAN]
  BY <1>1, <1>3 DEF ManagerOK
<1>7. processing' \in [SA -> Int]
  BY <1>1, <1>3 DEF ManagerOK
<1> QED
  BY <1>4, <1>5, <1>6, <1>7

(* A worker goes on with its request. *)
LEMMA JobTypes ==
    ASSUME NEW w \in Job
    PROVE  /\ \A pc \in {"process", "request", "respond", "wait", "build", "end", "encode"} :
                [w EXCEPT !.pc = pc] \in Job
           /\ \A q \in Query : [w EXCEPT !.pc = "build", !.q = q] \in Job
           /\ \A ok \in BOOLEAN, a, b \in 0..MaxQueries :
                [w EXCEPT !.pc = "end", !.ok = ok, !.taskq = a, !.encq = b] \in Job
<1>1. \A pc \in {"process", "request", "respond", "wait", "build", "end", "encode"} :
        [w EXCEPT !.pc = pc] \in Job
  BY DEF Job
<1>2. \A q \in Query : [w EXCEPT !.pc = "build", !.q = q] \in Job
  BY DEF Job
<1>3. \A ok \in BOOLEAN, a, b \in 0..MaxQueries :
        [w EXCEPT !.pc = "end", !.ok = ok, !.taskq = a, !.encq = b] \in Job
  BY DEF Job
<1> QED
  BY <1>1, <1>2, <1>3

(* The query in force has an identity within the bound. *)
LEMMA InForceTyped ==
    ASSUME Bounded(inst), NEW t
    PROVE  InForce(t) \in 0..MaxQueries
<1>1. inst.query \in Query \cup {NoQuery}
  BY DEF Bounded, Instance
<1>2. inst.query.id \in 0..MaxQueries
  BY <1>1, ChannelAssumption DEF Query, NoQuery
<1> QED
  BY <1>2, ChannelAssumption DEF InForce

(* The steps of a worker keep the types of all but the instance. *)
LEMMA WorkTypes ==
    ASSUME Bounded(inst), RestOK, NEW t \in Workers, Work(t)
    PROVE  RestOK'
<1>1. ASSUME worker[t].pc # "idle",
             \E pc \in {"process", "request", "respond", "wait", "build", "end", "encode"} :
                Goto(t, pc)
      PROVE  WorkersOK'
  <2>1. worker[t] \in Job
    BY <1>1, BusyWorker DEF RestOK, WorkersOK
  <2>2. PICK pc \in {"process", "request", "respond", "wait", "build", "end", "encode"} :
           worker' = [worker EXCEPT ![t] = [worker[t] EXCEPT !.pc = pc]]
    BY <1>1 DEF Goto, RestOK, WorkersOK
  <2>3. [worker[t] EXCEPT !.pc = pc] \in Job
    BY <2>1, JobTypes
  <2> QED
    BY <2>2, <2>3 DEF RestOK, WorkersOK
<1>2. ASSUME ReportRequest(t) \/ Accept(t) \/ Respond(t) \/ Released(t) \/ EndResponse(t)
      PROVE  RestOK'
  <2>1. worker[t].pc # "idle" /\ UNCHANGED <<manager, network, crashed>>
    BY <1>2 DEF ReportRequest, Accept, Respond, Released, EndResponse
  <2>2. \E pc \in {"process", "request", "respond", "wait", "build", "end", "encode"} :
           Goto(t, pc)
    BY <1>2 DEF ReportRequest, Accept, Respond, Released, EndResponse
  <2>3. WorkersOK'
    BY <1>1, <2>1, <2>2
  <2> QED
    BY <2>1, <2>3 DEF RestOK, ManagerOK, NetworkOK, manager, network
<1>3. ASSUME RefuseUnbound(t) \/ RefuseRepeated(t) \/ Stale(t) \/ Reject(t)
               \/ GenerateFails(t)
      PROVE  RestOK'
  <2>1. /\ worker[t].pc # "idle" /\ UNCHANGED <<resp_mid, network, crashed>>
        /\ checkin(t) \/ checkin_and_destroy(t)
    BY <1>3 DEF RefuseUnbound, RefuseRepeated, Stale, Reject, GenerateFails
  <2>2. ManagerOK' /\ WorkersOK'
    BY <2>1, CheckinTypes DEF RestOK, ManagerOK
  <2> QED
    BY <2>1, <2>2 DEF RestOK, NetworkOK, network
<1>4. ASSUME ParseFails(t)
      PROVE  RestOK'
  <2>1. /\ worker[t].pc # "idle" /\ UNCHANGED <<network, crashed>>
        /\ checkin(t) \/ checkin_and_destroy(t)
    BY <1>4 DEF ParseFails
  <2>2. PICK answered \in {0, 1} :
           resp_mid' = [resp_mid EXCEPT ![worker[t].sa] = @ + answered]
    BY <1>4 DEF ParseFails
  <2>3. worker[t].sa \in SA
    BY <2>1, BusyWorker DEF RestOK, WorkersOK
  <2>4. resp_mid' \in [SA -> Nat]
    BY <2>2, <2>3 DEF RestOK, ManagerOK
  <2>5. ManagerOK' /\ WorkersOK'
    BY <2>1, <2>4, CheckinTypes DEF RestOK, ManagerOK
  <2> QED
    BY <2>1, <2>5 DEF RestOK, NetworkOK, network
<1>5. ASSUME CrashOnRequest(t) \/ CrashOnQuery(t)
      PROVE  RestOK'
  BY <1>5 DEF CrashOnRequest, CrashOnQuery, RestOK, ManagerOK, WorkersOK, NetworkOK,
              manager, network
<1>6. ASSUME TakeQuery(t)
      PROVE  RestOK'
  <2>1. /\ worker[t].pc = "wait" /\ UNCHANGED <<manager, network, crashed>>
        /\ worker' = [worker EXCEPT ![t] = [worker[t] EXCEPT !.pc = "build", !.q = inst.query]]
    BY <1>6 DEF TakeQuery, RestOK, WorkersOK
  <2>2. inst.query \in Query
    BY <1>6 DEF TakeQuery, Takeable, Bounded, Instance
  <2>3. [worker[t] EXCEPT !.pc = "build", !.q = inst.query] \in Job
    BY <2>1, <2>2, BusyWorker, JobTypes DEF RestOK, WorkersOK
  <2>4. WorkersOK'
    BY <2>1, <2>3 DEF RestOK, WorkersOK
  <2> QED
    BY <2>1, <2>4 DEF RestOK, ManagerOK, NetworkOK, manager, network
<1>7. ASSUME NotifyError(t)
      PROVE  RestOK'
  <2> DEFINE w == worker[t]
             r == [sa |-> w.sa, mid |-> w.mid, ex |-> w.ex, q |-> inst.query,
                   taskq |-> inst.query.id, encq |-> inst.query.id, ok |-> FALSE]
  <2>1. /\ w.pc # "idle" /\ UNCHANGED <<ue, seen, received, crashed>>
        /\ wire' = wire \cup {r}
        /\ resp_mid' = [resp_mid EXCEPT ![w.sa] = @ + 1]
        /\ checkin_and_destroy(t)
    BY <1>7 DEF NotifyError
  <2>2. w \in Job /\ w.sa \in SA
    BY <2>1, BusyWorker DEF RestOK, WorkersOK
  <2>3. inst.query \in Query /\ inst.query.id \in 0..MaxQueries
    <3>1. inst.query \in Query
      BY <1>7 DEF NotifyError, Takeable, Bounded, Instance
    <3> QED
      BY <3>1, ChannelAssumption DEF Query
  <2>4. r \in Response
    BY <2>2, <2>3 DEF Job, Response
  <2>5. resp_mid' \in [SA -> Nat]
    BY <2>1, <2>2 DEF RestOK, ManagerOK
  <2>6. ManagerOK' /\ WorkersOK'
    BY <2>1, <2>5, CheckinTypes DEF RestOK, ManagerOK
  <2> QED
    BY <2>1, <2>4, <2>6 DEF RestOK, NetworkOK
<1>8. ASSUME Build(t)
      PROVE  RestOK'
  <2>1. worker[t].pc # "idle" /\ UNCHANGED <<manager, network, crashed>>
    BY <1>8 DEF Build
  <2>2. worker[t] \in Job
    BY <2>1, BusyWorker DEF RestOK, WorkersOK
  <2>3. PICK ok \in BOOLEAN, a \in 0..MaxQueries, b \in 0..MaxQueries :
           worker' = [worker EXCEPT ![t] = [worker[t] EXCEPT !.pc = "end", !.ok = ok,
                                                              !.taskq = a, !.encq = b]]
    <3>1. PICK ok \in {TRUE, ~Failures} :
             worker' = [worker EXCEPT ![t].pc = "end", ![t].ok = ok, ![t].taskq = InForce(t),
                          ![t].encq = IF worker[t].ex = "IKE_SA_INIT" THEN InForce(t) ELSE 0]
      BY <1>8 DEF Build
    <3>2. PICK b \in 0..MaxQueries :
             b = IF worker[t].ex = "IKE_SA_INIT" THEN InForce(t) ELSE 0
      BY InForceTyped, ChannelAssumption
    <3>3. PICK a \in 0..MaxQueries : a = InForce(t)
      BY InForceTyped
    <3>4. worker' = [worker EXCEPT ![t].pc = "end", ![t].ok = ok, ![t].taskq = a, ![t].encq = b]
      BY <3>1, <3>2, <3>3
    <3>5. worker' = [worker EXCEPT ![t] = [worker[t] EXCEPT !.pc = "end", !.ok = ok,
                                                              !.taskq = a, !.encq = b]]
      BY <3>4, <2>2 DEF RestOK, WorkersOK
    <3> QED
      BY <3>5
  <2>4. [worker[t] EXCEPT !.pc = "end", !.ok = ok, !.taskq = a, !.encq = b] \in Job
    BY <2>2, JobTypes
  <2>5. WorkersOK'
    BY <2>3, <2>4 DEF RestOK, WorkersOK
  <2> QED
    BY <2>1, <2>5 DEF RestOK, ManagerOK, NetworkOK, manager, network
<1>9. ASSUME Send(t)
      PROVE  RestOK'
  <2> DEFINE w == worker[t]
             e == IF w.ex = "IKE_SA_INIT" THEN w.encq ELSE InForce(t)
             r == [sa |-> w.sa, mid |-> w.mid, ex |-> w.ex, q |-> w.q,
                   taskq |-> w.taskq, ok |-> w.ok, encq |-> e]
  <2>1. /\ w.pc # "idle" /\ UNCHANGED <<ue, seen, received, crashed>>
        /\ wire' = wire \cup {r}
        /\ checkin(t) \/ checkin_and_destroy(t)
        /\ resp_mid' = resp_mid \/ resp_mid' = [resp_mid EXCEPT ![w.sa] = @ + 1]
    BY <1>9 DEF Send
  <2>2. w \in Job /\ w.sa \in SA
    BY <2>1, BusyWorker DEF RestOK, WorkersOK
  <2>3. e \in 0..MaxQueries
    BY <2>2, InForceTyped DEF Job
  <2>4. r \in Response
    <3> HIDE DEF e
    <3> QED
      BY <2>2, <2>3 DEF Job, Response
  <2>5. resp_mid' \in [SA -> Nat]
    BY <2>1, <2>2 DEF RestOK, ManagerOK
  <2>6. ManagerOK' /\ WorkersOK'
    BY <2>1, <2>5, CheckinTypes DEF RestOK, ManagerOK
  <2> QED
    BY <2>1, <2>4, <2>6 DEF RestOK, NetworkOK
<1> QED
  BY <1>2, <1>3, <1>4, <1>5, <1>6, <1>7, <1>8, <1>9 DEF Work

(* Steps that leave the workers' side alone keep its types. *)
LEMMA RestUnchanged ==
    ASSUME RestOK, UNCHANGED <<manager, worker, network, crashed>>
    PROVE  RestOK'
  BY DEF RestOK, ManagerOK, WorkersOK, NetworkOK, manager, network

(* A worker receives a request: the instance may be bound, and the worker  *)
(* starts on it.                                                           *)
LEMMA ReceiveTypes ==
    ASSUME Bounded(inst), RestOK, NEW t \in Workers, NEW s \in SA, Receive(t, s)
    PROVE  Touches(inst, inst', 0) /\ UNCHANGED <<channel, lpc>> /\ RestOK'
<1>1. inst' = inst \/ inst' = Bind(s)
  BY DEF Receive, Hand, HandBusy, CheckoutNew, Checkout, CheckoutBusy
<1>2. Touches(inst, inst', 0)
  BY <1>1, BindTouches, NothingTouches
<1>3. PICK k \in 1..Len(ue[s]) : Start(t, s, k)
  <2>1. ue[s] \in Seq(Exchanges)
    BY DEF RestOK, NetworkOK
  <2>2. CASE CheckoutNew(t, s)
    BY <2>1, <2>2 DEF CheckoutNew
  <2>3. CASE \E k \in 1..MaxExchanges : Checkout(t, s, k) \/ CheckoutBusy(t, s, k)
    BY <2>3 DEF Checkout, CheckoutBusy, Deliverable
  <2> QED
    BY <2>2, <2>3 DEF Receive, Hand, HandBusy
<1>4. k \in Nat /\ k - 1 \in Mids /\ ue[s][k] \in Exchanges
  <2>1. ue[s] \in Seq(Exchanges) /\ Len(ue[s]) <= MaxExchanges /\ Len(ue[s]) \in Nat
    BY DEF RestOK, NetworkOK
  <2> QED
    BY <2>1, <1>3, EpdgAssumption DEF Mids
<1>5. WorkersOK'
  <2> DEFINE w == [Idle EXCEPT !.pc = "process", !.sa = s, !.mid = k - 1, !.ex = ue[s][k]]
  <2>1. worker' = [worker EXCEPT ![t] = w]
    BY <1>3 DEF Start
  <2>2. 0 \in 0..MaxQueries
    BY ChannelAssumption
  <2>3. w \in Job
    BY <1>4, <2>2 DEF Idle, Job
  <2> HIDE DEF w
  <2> QED
    BY <2>1, <2>3 DEF RestOK, WorkersOK
<1>6. NetworkOK' /\ crashed' \in BOOLEAN
  <2>1. /\ received' = received + 1 /\ UNCHANGED <<ue, wire, crashed>>
        /\ seen' = [seen EXCEPT ![s] = IF k > seen[s] THEN k ELSE seen[s]]
    BY <1>3 DEF Start, RestOK, NetworkOK
  <2>2. received' \in Nat
    BY <2>1 DEF RestOK, NetworkOK
  <2>3. seen' \in [SA -> Nat]
    BY <2>1, <1>4 DEF RestOK, NetworkOK
  <2> QED
    BY <2>1, <2>2, <2>3 DEF RestOK, NetworkOK
<1>7. ManagerOK'
  <2>1. resp_mid' = resp_mid
    BY <1>3 DEF Start
  <2>2. CASE CheckoutNew(t, s)
    BY <2>1, <2>2 DEF CheckoutNew, RestOK, ManagerOK
  <2>3. CASE \E l \in 1..MaxExchanges : Checkout(t, s, l)
    <3>1. PICK l \in 1..MaxExchanges :
            /\ entries' = entries
            /\ checked_out' = [checked_out EXCEPT ![s] = TRUE]
            /\ processing' = [processing EXCEPT ![s] = l - 1]
      BY <2>3 DEF Checkout
    <3>2. l - 1 \in Int
      OBVIOUS
    <3> QED
      BY <2>1, <3>1, <3>2 DEF RestOK, ManagerOK
  <2>4. CASE \E l \in 1..MaxExchanges : CheckoutBusy(t, s, l)
    BY <2>1, <2>4 DEF CheckoutBusy, RestOK, ManagerOK
  <2> QED
    BY <2>2, <2>3, <2>4 DEF Receive, Hand, HandBusy
<1>8. UNCHANGED <<channel, lpc>>
  BY <1>3 DEF Start, channel
<1> QED
  BY <1>2, <1>5, <1>6, <1>7, <1>8 DEF RestOK

(* The UE's steps, whatever exchange it goes on with. *)
LEMMA UETypes ==
    ASSUME RestOK, NEW s \in SA, UeOpen(s) \/ \E ex \in Exchanges : UeNext(s, ex)
    PROVE  RestOK' /\ UNCHANGED <<channel, inst, lpc, worker>>
<1>1. PICK q \in Seq(Exchanges) : Len(q) <= MaxExchanges /\ ue' = [ue EXCEPT ![s] = q]
  <2>1. CASE UeOpen(s)
    <3> DEFINE q == <<"IKE_SA_INIT">>
    <3>1. q \in Seq(Exchanges) /\ Len(q) = 1
      BY DEF Exchanges
    <3>2. ue' = [ue EXCEPT ![s] = q]
      BY <2>1 DEF UeOpen
    <3> HIDE DEF q
    <3>3. Len(q) <= MaxExchanges
      BY <3>1, EpdgAssumption
    <3> QED
      BY <3>1, <3>2, <3>3
  <2>2. CASE \E ex \in Exchanges : UeNext(s, ex)
    <3>1. PICK ex \in Exchanges :
            Len(ue[s]) < MaxExchanges /\ ue' = [ue EXCEPT ![s] = Append(ue[s], ex)]
      BY <2>2 DEF UeNext, Exchanges, RestOK, NetworkOK
    <3>2. ue[s] \in Seq(Exchanges)
      BY DEF RestOK, NetworkOK
    <3>3. Append(ue[s], ex) \in Seq(Exchanges) /\ Len(Append(ue[s], ex)) = Len(ue[s]) + 1
      BY <3>2, Appended
    <3>4. Len(Append(ue[s], ex)) <= MaxExchanges
      BY <3>1, <3>2, <3>3, EpdgAssumption
    <3> QED
      BY <3>1, <3>3, <3>4
  <2> QED
    BY <2>1, <2>2
<1>2. UNCHANGED <<channel, inst, lpc, manager, worker, seen, wire, received, crashed>>
  BY DEF UeOpen, UeNext
<1>3. NetworkOK'
  <2>1. ue' \in [SA -> Seq(Exchanges)] /\ \A x \in SA : Len(ue'[x]) <= MaxExchanges
    BY <1>1 DEF RestOK, NetworkOK
  <2> QED
    BY <2>1, <1>2 DEF RestOK, NetworkOK
<1> QED
  BY <1>2, <1>3 DEF RestOK, ManagerOK, WorkersOK, manager

-----------------------------------------------------------------------------
(* The listener, the sender and the controller *)

(* Lines of the controller have one of four kinds. *)
LEMMA LineKinds ==
    ASSUME NEW l \in Line
    PROVE  /\ l.kind \in {"Hello", "init", "fin", "query"}
           /\ l.kind = "query" => l.query \in Query
<1>1. CASE l \in [kind : {"Hello", "init", "fin"}, query : {NoQuery}]
  BY <1>1
<1>2. CASE l \in [kind : {"query"}, query : Query]
  BY <1>2
<1> QED
  BY <1>1, <1>2 DEF Line

(* Control lines are lines of the channel. *)
LEMMA ControlLines ==
    ASSUME NEW k \in {"Hello", "init", "fin"}
    PROVE  Control(k) \in Line
  BY DEF Control, Line

(* A write of the ePDG keeps the connection's bound. *)
LEMMA WriteTypes ==
    ASSUME ChannelTypeOK, NEW l \in Out, WriteFromEpdg(l)
    PROVE  fromEpdg' \in Seq(Out) /\ Len(fromEpdg') <= Buffer
<1>1. fromEpdg \in Seq(Out) /\ Len(fromEpdg) \in Nat
  BY DEF ChannelTypeOK
<1>2. Append(fromEpdg, l) \in Seq(Out) /\ Len(Append(fromEpdg, l)) = Len(fromEpdg) + 1
  BY <1>1, Appended
<1> QED
  BY <1>1, <1>2, ChannelAssumption DEF WriteFromEpdg

(* The values init_instance and init give the fields. *)
LEMMA InitFields ==
    /\ InitInstance \in Instance /\ InitInstance.query = NoQuery
    /\ InitInstance.finished = FALSE
<1>1. -1 \in Int /\ << >> \in Seq(Report)
  OBVIOUS
<1>2. InitInstance \in Instance
  BY <1>1 DEF InitInstance, Instance
<1> QED
  BY <1>2 DEF InitInstance

(* The ePDG starts in a state of its types. *)
LEMMA InitTypes ==
    ASSUME Init
    PROVE  TypeOK /\ LineInWork /\ NoQueryAfterFin
<1> USE DEF Init
<1>1. ChannelTypeOK
  BY ChannelAssumption DEF ChannelTypeOK
<1>2. InitInstance \in Instance
  BY InitFields
<1>3. Bounded(inst)
  BY <1>2, EpdgAssumption DEF Bounded, InitInstance
<1>4. RestOK
  <2>1. ManagerOK
    BY DEF ManagerOK
  <2>2. WorkersOK
    BY DEF WorkersOK
  <2>3. NetworkOK
    <3>1. ue \in [SA -> Seq(Exchanges)]
      OBVIOUS
    <3>2. \A s \in SA : Len(ue[s]) <= MaxExchanges
      <4>1. \A s \in SA : ue[s] = << >>
        OBVIOUS
      <4>2. Len(<< >>) = 0 /\ 0 <= MaxExchanges
        BY EpdgAssumption
      <4> QED
        BY <4>1, <4>2
    <3> QED
      BY <3>1, <3>2 DEF NetworkOK
  <2> QED
    BY <2>1, <2>2, <2>3 DEF RestOK
<1>5. TypeOK
  BY <1>1, <1>3, <1>4, TypeParts
<1>6. LineInWork /\ NoQueryAfterFin
  BY ChannelAssumption DEF LineInWork, NoQueryAfterFin, InitInstance
<1> QED
  BY <1>5, <1>6

(* sender_run moves one report and leaves the rest of the instance alone. *)
LEMMA SenderTypes ==
    ASSUME ChannelTypeOK, Bounded(inst), RestOK, Sender
    PROVE  /\ ChannelTypeOK' /\ Bounded(inst)' /\ RestOK' /\ UNCHANGED <<toEpdg, lpc, worker>>
           /\ inst.sendq # << >> /\ Head(inst.sendq) \in Report
           /\ fromEpdg' = Append(fromEpdg, Head(inst.sendq))
           /\ inst'.initiated = inst.initiated /\ inst'.finished = inst.finished
           /\ inst'.sa = inst.sa /\ inst'.query = inst.query
           /\ inst'.sendq = Tail(inst.sendq) /\ inst'.sprev = inst.sprev
<1> DEFINE q == Tail(inst.sendq)
<1>1. /\ inst.sendq # << >> /\ inst' = [inst EXCEPT !.sendq = q]
      /\ WriteFromEpdg(Head(inst.sendq))
      /\ UNCHANGED <<toEpdg, lpc, manager, worker, network, crashed>>
  BY DEF Sender
<1>2. /\ q \in Seq(Report) /\ Len(q) <= MaxQueueLen
      /\ Head(inst.sendq) \in Report /\ Head(inst.sendq) \in Out
  <2>1. inst.sendq \in Seq(Report) /\ Len(inst.sendq) <= MaxQueueLen
    BY DEF Bounded, Instance
  <2>2. /\ q \in Seq(Report) /\ Head(inst.sendq) \in Report
        /\ Len(q) = Len(inst.sendq) - 1 /\ Len(inst.sendq) \in Nat
    BY <1>1, <2>1, Shifted
  <2>3. Len(q) <= MaxQueueLen
    BY <2>1, <2>2, EpdgAssumption
  <2> QED
    BY <2>2, <2>3 DEF Out
<1> HIDE DEF q
<1>3. /\ Bounded(inst)' /\ inst'.initiated = inst.initiated
      /\ inst'.finished = inst.finished /\ inst'.sa = inst.sa /\ inst'.query = inst.query
      /\ inst'.sendq = q /\ inst'.sprev = inst.sprev
  BY <1>1, <1>2 DEF Bounded, Instance
<1>4. ChannelTypeOK' /\ RestOK'
  BY <1>1, <1>2, WriteTypes, RestUnchanged DEF ChannelTypeOK
<1> QED
  BY <1>1, <1>2, <1>3, <1>4 DEF WriteFromEpdg, q

(* ResetRest leaves the queue and the SPIs and opens the session. *)
LEMMA ResetFields ==
    ASSUME Bounded(inst),
           inst' = [InitInstance EXCEPT !.initiated = TRUE, !.sa = inst.sa, !.sendq = inst.sendq]
    PROVE  /\ Bounded(inst)' /\ inst'.initiated = TRUE /\ inst'.finished = FALSE
           /\ inst'.query = NoQuery /\ inst'.sa = inst.sa /\ inst'.sendq = inst.sendq
<1>1. inst.sa \in SA \cup {Unbound, Closed} /\ inst.sendq \in Seq(Report)
  BY DEF Bounded, Instance
<1> DEFINE a == inst.sa
           q == inst.sendq
           i == InitInstance
           j == [i EXCEPT !.initiated = TRUE, !.sa = a, !.sendq = q]
<1>2. inst' = j
  OBVIOUS
<1>3. i \in Instance /\ i.query = NoQuery /\ i.finished = FALSE
  BY InitFields
<1>4. a \in SA \cup {Unbound, Closed} /\ q \in Seq(Report)
  BY <1>1
<1> HIDE DEF a, q, i
<1>5. /\ j \in Instance /\ j.initiated = TRUE /\ j.finished = i.finished
      /\ j.query = i.query /\ j.sa = a /\ j.sendq = q
  BY <1>4, <1>3 DEF Instance
<1> HIDE DEF j
<1>6. /\ inst' \in Instance /\ inst'.initiated = TRUE /\ inst'.finished = FALSE
      /\ inst'.query = NoQuery /\ inst'.sa = inst.sa /\ inst'.sendq = inst.sendq
  BY <1>2, <1>3, <1>5 DEF a, q
<1> QED
  BY <1>6 DEF Bounded

(* What a step of listener_run does, by the line it works on: Hello and    *)
(* init are answered, fin closes the instance in three steps, a query is   *)
(* published in a session.                                                 *)
LEMMA ListenerSteps ==
    ASSUME TypeOK, LineInWork, NoQueryAfterFin, Listener,
           Head(toEpdg).kind = "query" => ~inst.finished
    PROVE  /\ TypeOK' /\ LineInWork' /\ NoQueryAfterFin' /\ RestOK'
           /\ UNCHANGED <<manager, worker, network, crashed>>
           /\ inst'.sendq = inst.sendq
           /\ toEpdg # << >> /\ toEpdg[1] = Head(toEpdg) /\ toEpdg[1] \in Line
           /\ \/ /\ toEpdg[1].kind = "Hello" /\ toEpdg' = Tail(toEpdg)
                 /\ fromEpdg' = Append(fromEpdg, Ack) /\ UNCHANGED <<inst, lpc>>
              \/ /\ toEpdg[1].kind = "query" /\ toEpdg' = Tail(toEpdg)
                 /\ inst'.initiated = inst.initiated /\ inst'.finished = inst.finished
                 /\ UNCHANGED <<fromEpdg, lpc>>
              \/ /\ toEpdg[1].kind = "init" /\ lpc' = "reset" /\ UNCHANGED channel
                 /\ inst'.initiated = inst.initiated /\ inst'.finished = inst.finished
                 /\ inst'.query = inst.query /\ inst'.sprev = inst.sprev
              \/ /\ toEpdg[1].kind = "init" /\ toEpdg' = Tail(toEpdg) /\ lpc' = "read"
                 /\ fromEpdg' = Append(fromEpdg, Ack)
                 /\ inst'.initiated = TRUE /\ inst'.finished = FALSE /\ inst'.query = NoQuery
              \/ /\ toEpdg[1].kind = "fin" /\ toEpdg' \in {toEpdg, Tail(toEpdg)}
                 /\ UNCHANGED fromEpdg
<1>1. /\ ChannelTypeOK /\ Bounded(inst) /\ RestOK
      /\ toEpdg \in Seq(Line) /\ Len(toEpdg) <= Buffer /\ Len(toEpdg) \in Nat
  BY TypeParts DEF ChannelTypeOK
<1>2. UNCHANGED <<manager, worker, network, crashed>>
  BY DEF Listener, Hello, SetQuery, ResetUnbind, ResetRest, FinMark, FinClear, FinUnbind
<1>3. /\ toEpdg # << >> /\ toEpdg[1] = Head(toEpdg) /\ toEpdg[1] \in Line
      /\ Tail(toEpdg) \in Seq(Line) /\ Len(Tail(toEpdg)) <= Buffer /\ RestOK'
  <2>1. toEpdg # << >>
    BY DEF LineInWork, Listener, Hello, SetQuery, ResetUnbind, ResetRest, FinMark,
           FinClear, FinUnbind
  <2>2. Tail(toEpdg) \in Seq(Line) /\ Len(Tail(toEpdg)) = Len(toEpdg) - 1
    BY <1>1, <2>1, Shifted
  <2>3. Len(Tail(toEpdg)) <= Buffer
    BY <1>1, <2>2, ChannelAssumption
  <2> QED
    BY <1>1, <1>2, <2>1, <2>2, <2>3, Shifted, RestUnchanged
<1>4. ASSUME ChannelTypeOK', Bounded(inst)', lpc' \in {"read", "reset", "fin_query", "fin_spi"}
      PROVE  TypeOK'
  BY <1>3, <1>4 DEF TypeOK, Bounded, RestOK, ManagerOK, WorkersOK, NetworkOK
<1>5. CASE Hello
  <2>1. /\ toEpdg[1].kind = "Hello" /\ toEpdg' = Tail(toEpdg) /\ WriteFromEpdg(Ack)
        /\ lpc = "read" /\ UNCHANGED <<inst, lpc>>
    BY <1>3, <1>5 DEF Hello
  <2>2. Bounded(inst)'
    BY <1>1, <2>1 DEF Bounded
  <2>3. ChannelTypeOK'
    BY <1>1, <1>3, <2>1, WriteTypes DEF ChannelTypeOK, Out
  <2>4. LineInWork' /\ NoQueryAfterFin'
    BY <2>1 DEF LineInWork, NoQueryAfterFin
  <2> QED
    BY <1>2, <1>3, <1>4, <2>1, <2>2, <2>3, <2>4 DEF WriteFromEpdg
<1>6. CASE SetQuery
  <2>1. /\ toEpdg[1].kind = "query" /\ toEpdg' = Tail(toEpdg)
        /\ inst' = [inst EXCEPT !.query = toEpdg[1].query]
        /\ lpc = "read" /\ UNCHANGED <<fromEpdg, lpc>>
    BY <1>3, <1>6 DEF SetQuery
  <2>2. toEpdg[1].query \in Query
    BY <1>3, <2>1, LineKinds
  <2>3. /\ Bounded(inst)' /\ inst'.initiated = inst.initiated /\ inst'.sa = inst.sa
        /\ inst'.finished = inst.finished /\ inst'.sendq = inst.sendq
    BY <1>1, <2>1, <2>2 DEF Bounded, Instance
  <2>4. ChannelTypeOK'
    BY <1>1, <1>3, <2>1 DEF ChannelTypeOK
  <2>5. LineInWork' /\ NoQueryAfterFin'
    BY <1>3, <2>1, <2>3 DEF LineInWork, NoQueryAfterFin
  <2> QED
    BY <1>2, <1>3, <1>4, <2>1, <2>3, <2>4, <2>5
<1>7. CASE ResetUnbind
  <2>1. /\ toEpdg[1].kind = "init" /\ inst' = [inst EXCEPT !.sa = Unbound]
        /\ lpc' = "reset" /\ UNCHANGED <<toEpdg, fromEpdg>>
    BY <1>3, <1>7 DEF ResetUnbind, channel
  <2>2. /\ Bounded(inst)' /\ inst'.initiated = inst.initiated /\ inst'.sa = Unbound
        /\ inst'.finished = inst.finished /\ inst'.sendq = inst.sendq
        /\ inst'.query = inst.query /\ inst'.sprev = inst.sprev
    BY <1>1, <2>1 DEF Bounded, Instance
  <2>3. ChannelTypeOK'
    BY <1>1, <2>1 DEF ChannelTypeOK
  <2>4. LineInWork' /\ NoQueryAfterFin'
    BY <1>3, <2>1, <2>2, ChannelAssumption DEF LineInWork, NoQueryAfterFin
  <2> QED
    BY <1>2, <1>3, <1>4, <2>1, <2>2, <2>3, <2>4 DEF channel
<1>8. CASE ResetRest
  <2>1. /\ toEpdg' = Tail(toEpdg) /\ WriteFromEpdg(Ack) /\ lpc = "reset" /\ lpc' = "read"
        /\ inst' = [InitInstance EXCEPT !.initiated = TRUE, !.sa = inst.sa, !.sendq = inst.sendq]
    BY <1>8 DEF ResetRest
  <2>2. toEpdg[1].kind = "init"
    BY <2>1 DEF LineInWork
  <2>3. /\ Bounded(inst)' /\ inst'.initiated = TRUE /\ inst'.finished = FALSE
        /\ inst'.query = NoQuery /\ inst'.sa = inst.sa /\ inst'.sendq = inst.sendq
    BY <1>1, <2>1, ResetFields
  <2>4. ChannelTypeOK'
    BY <1>1, <1>3, <2>1, WriteTypes DEF ChannelTypeOK, Out
  <2>5. LineInWork' /\ NoQueryAfterFin'
    BY <2>1, <2>3 DEF LineInWork, NoQueryAfterFin
  <2> QED
    BY <1>2, <1>3, <1>4, <2>1, <2>2, <2>3, <2>4, <2>5 DEF WriteFromEpdg
<1>9. CASE FinMark
  <2>1. /\ toEpdg[1].kind = "fin" /\ inst' = [inst EXCEPT !.finished = TRUE]
        /\ lpc' = "fin_query" /\ UNCHANGED <<toEpdg, fromEpdg>>
    BY <1>3, <1>9 DEF FinMark, channel
  <2>2. /\ Bounded(inst)' /\ inst'.finished = TRUE /\ inst'.sa = inst.sa
        /\ inst'.query = inst.query /\ inst'.sendq = inst.sendq
    BY <1>1, <2>1 DEF Bounded, Instance
  <2>3. ChannelTypeOK'
    BY <1>1, <2>1 DEF ChannelTypeOK
  <2>4. LineInWork' /\ NoQueryAfterFin'
    BY <1>3, <2>1, <2>2 DEF LineInWork, NoQueryAfterFin
  <2> QED
    BY <1>2, <1>3, <1>4, <2>1, <2>2, <2>3, <2>4
<1>10. CASE FinClear
  <2>1. /\ lpc = "fin_query" /\ inst' = [inst EXCEPT !.query = NoQuery]
        /\ lpc' = "fin_spi" /\ UNCHANGED <<toEpdg, fromEpdg>>
    BY <1>10 DEF FinClear, channel
  <2>2. toEpdg[1].kind = "fin" /\ inst.finished
    BY <2>1 DEF LineInWork
  <2>3. /\ Bounded(inst)' /\ inst'.finished = inst.finished /\ inst'.sa = inst.sa
        /\ inst'.query = NoQuery /\ inst'.sendq = inst.sendq
    BY <1>1, <2>1 DEF Bounded, Instance
  <2>4. ChannelTypeOK'
    BY <1>1, <2>1 DEF ChannelTypeOK
  <2>5. LineInWork' /\ NoQueryAfterFin'
    BY <1>3, <2>1, <2>2, <2>3 DEF LineInWork, NoQueryAfterFin
  <2> QED
    BY <1>2, <1>3, <1>4, <2>1, <2>2, <2>3, <2>4, <2>5
<1>11. CASE FinUnbind
  <2>1. /\ lpc = "fin_spi" /\ inst' = [inst EXCEPT !.sa = Closed]
        /\ lpc' = "read" /\ toEpdg' = Tail(toEpdg) /\ UNCHANGED fromEpdg
    BY <1>11 DEF FinUnbind
  <2>2. toEpdg[1].kind = "fin" /\ inst.finished /\ inst.query = NoQuery
    BY <2>1 DEF LineInWork
  <2>3. /\ Bounded(inst)' /\ inst'.finished = inst.finished
        /\ inst'.query = inst.query /\ inst'.sendq = inst.sendq
    BY <1>1, <2>1 DEF Bounded, Instance
  <2>4. ChannelTypeOK'
    BY <1>1, <1>3, <2>1 DEF ChannelTypeOK
  <2>5. LineInWork' /\ NoQueryAfterFin'
    BY <2>1, <2>2, <2>3 DEF LineInWork, NoQueryAfterFin
  <2> QED
    BY <1>2, <1>3, <1>4, <2>1, <2>2, <2>3, <2>4, <2>5
<1> QED
  BY <1>5, <1>6, <1>7, <1>8, <1>9, <1>10, <1>11 DEF Listener
=============================================================================
