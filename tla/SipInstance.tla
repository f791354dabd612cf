------------------------------ MODULE SipInstance ------------------------------
(***************************************************************************)
(* The instrumented IMS server: the processes that share one instance_t in *)
(* System V shared memory (sip_instance.c).                                *)
(*                                                                         *)
(*   listener  listener_run: reads the controller's lines, resets the      *)
(*             instance, publishes queries, writes ACKs                    *)
(*   sender    sender_run: moves reports from the send queue to the socket *)
(*   workers   Kamailio's processes whose pid passes check_instance: what  *)
(*             the framework adds to receive_msg (requests are reported)   *)
(*             and to tcp_send (responses wait for a query, are reported   *)
(*             and edited as the query says)                               *)
(*                                                                         *)
(* No field but the send queue has a lock, so a worker's step is one       *)
(* access to the instance.  The lock of the send queue is a mutex that is  *)
(* private to a process and used across processes: a worker or the sender  *)
(* that finds it taken may never be woken (the sender's process, tcp_main, *)
(* has no other thread that takes it).  Before the controller connects     *)
(* there is no instance and nothing is reported.                           *)
(***************************************************************************)
EXTENDS Integers, Sequences, FiniteSets

CONSTANTS
    Workers,      \* processes within five of the listener's pid
    MaxQueueLen,  \* MAX_QUEUE_LEN
    Buffer,       \* bound: lines a direction of the connection holds; a write blocks
    MaxQueries,   \* bound: query messages sent in one behaviour
    MaxRequests,  \* bound: SIP requests of the UE in one behaviour
    LockFails     \* whether a process may sleep for ever on the send queue's lock

ASSUME SipAssumption ==
    /\ MaxQueueLen \in Nat \ {0} /\ Buffer \in Nat \ {0}
    /\ MaxQueries \in Nat /\ MaxRequests \in Nat
    /\ LockFails \in BOOLEAN

VARIABLES
    toIms,        \* lines written by the controller and not yet read by listener_run
    fromIms,      \* lines written by the IMS and not yet read by the controller
    inst,         \* the instance_t
    lpc,          \* the listener: "read", or at a later step of the line it read
    spc,          \* the sender: "poll", or "asleep" on the lock of the send queue
    worker,       \* the workers' program counters and locals
    freed,        \* ids of the queries whose memory has been freed
    pending,      \* requests received and not answered yet
    wire,         \* the responses sent
    crashed       \* an assertion has failed in process_query

vars == <<toIms, fromIms, inst, lpc, spc, worker, freed, pending, wire, crashed>>

-----------------------------------------------------------------------------
(* State *)

NULL == "NULL"

RequestNames == {"register", "subscribe"}

ResponseNames == {"unauthorized", "ok", "forbidden"}

(* The n-th request of the UE, or a response to it. *)
Request == [name : RequestNames, n : 1..MaxRequests]

Response == [name : ResponseNames, n : 1..MaxRequests]

(* A query for the IMS: edit is what its sub-queries change, the nonce of  *)
(* WWW-Authenticate, another attribute, or nothing.                        *)
QueryNames == {"401_unauthorized", "200_ok"}

NoQuery == [id |-> 0, name |-> NULL, edit |-> "none"]

Query == [id : 1..MaxQueries, name : QueryNames, edit : {"none", "nonce", "other"}]

Line == [kind : {"Hello", "init", "fin"}, query : {NoQuery}]
            \cup [kind : {"query"}, query : Query]

Control(k) == [kind |-> k, query |-> NoQuery]

RequestLabels == {"register_1", "register_2"} \cup RequestNames

(* n, the message a report is about, is not part of the line. *)
Report == [type : {"start", "end"}, symbol : RequestLabels \cup QueryNames \cup {NULL},
           n : 1..MaxRequests]

Ack == [type |-> "ACK", symbol |-> NULL, n |-> 0]

FirstRprev == "ike_auth_3_request"

FirstSprev == "ike_auth_3_response"

Instance == [query : Query \cup {NoQuery}, finished : BOOLEAN,
             rprev : RequestLabels \cup {FirstRprev}, sprev : QueryNames \cup {FirstSprev},
             sendq : Seq(Report)]

(* init_instance, when the controller has connected *)
InitInstance == [query |-> NoQuery, finished |-> FALSE, rprev |-> FirstRprev,
                 sprev |-> FirstSprev, sendq |-> << >>]

(* A worker at message msg: q is what get_next_query holds, symbol the     *)
(* label of the report, rep the query the report was made under.           *)
Job == [pc : {"label", "rprev", "next", "poll", "sleep", "match", "sprev", "start", "end",
              "edit", "asleep"},
        msg : Request \cup Response, q : Query \cup {NoQuery},
        symbol : RequestLabels \cup QueryNames \cup {NULL}, rep : 0..MaxQueries]

Idle == [pc |-> "idle"]

(* A response sent: the query it was reported under, the query whose edits *)
(* it carries, and whether fin had come.                                   *)
Sent == [name : ResponseNames, n : 1..MaxRequests, rep : 0..MaxQueries,
         edit : 0..MaxQueries, late : BOOLEAN]

(* The types of the instance, the processes and the messages. *)
SipTypeOK ==
    /\ toIms \in Seq(Line) /\ Len(toIms) <= Buffer
    /\ fromIms \in Seq(Report \cup {Ack}) /\ Len(fromIms) <= Buffer
    /\ inst \in Instance
    /\ Len(inst.sendq) <= MaxQueueLen
    /\ lpc \in {"read", "init_flag", "init_prev", "fin_query", "fin_prev"}
    /\ spc \in {"poll", "asleep"}
    /\ worker \in [Workers -> Job \cup {Idle}]
    /\ freed \subseteq 1..MaxQueries
    /\ pending \subseteq Request
    /\ wire \subseteq Sent
    /\ crashed \in BOOLEAN

SipInit ==
    /\ toIms = << >> /\ fromIms = << >>
    /\ inst = InitInstance
    /\ lpc = "read" /\ spc = "poll"
    /\ worker = [w \in Workers |-> Idle]
    /\ freed = {}
    /\ pending = {} /\ wire = {}
    /\ crashed = FALSE

WriteToIms(l) == Len(toIms) < Buffer /\ toIms' = Append(toIms, l)

WriteFromIms(l) == Len(fromIms) < Buffer /\ fromIms' = Append(fromIms, l)

-----------------------------------------------------------------------------
(* listener_run.  The line in work stays at the head of toIms until its    *)
(* last step.                                                              *)

rest == <<spc, worker, pending, wire, crashed>>

Reads(kind) == lpc = "read" /\ toIms # << >> /\ Head(toIms).kind = kind

Hello ==
    /\ Reads("Hello")
    /\ toIms' = Tail(toIms)
    /\ WriteFromIms(Ack)
    /\ UNCHANGED <<inst, lpc, freed, rest>>

(* free_query, and the pointer to the query is cleared. *)
DropQuery(next) ==
    /\ inst' = [inst EXCEPT !.query = NoQuery]
    /\ freed' = freed \cup ({inst.query.id} \ {0})
    /\ lpc' = next

(* init: the query, the flag, the labels; the send queue stays. *)
ResetQuery ==
    /\ Reads("init")
    /\ DropQuery("init_flag")
    /\ UNCHANGED <<toIms, fromIms, rest>>

ResetFlag ==
    /\ lpc = "init_flag"
    /\ inst' = [inst EXCEPT !.finished = FALSE]
    /\ lpc' = "init_prev"
    /\ UNCHANGED <<toIms, fromIms, freed, rest>>

(* Mutant of ResetPrev: the label of the last response is kept. *)
ResetPrev_KeepsSprev ==
    /\ lpc = "init_prev"
    /\ inst' = [inst EXCEPT !.rprev = FirstRprev]
    /\ toIms' = Tail(toIms)
    /\ WriteFromIms(Ack)
    /\ lpc' = "read"
    /\ UNCHANGED <<freed, rest>>

(* Mutant of ResetPrev: no ACK. *)
ResetPrev_Silent ==
    /\ lpc = "init_prev"
    /\ inst' = [inst EXCEPT !.rprev = FirstRprev, !.sprev = FirstSprev]
    /\ toIms' = Tail(toIms)
    /\ lpc' = "read"
    /\ UNCHANGED <<fromIms, freed, rest>>

ResetPrev ==
    /\ lpc = "init_prev"
    /\ inst' = [inst EXCEPT !.rprev = FirstRprev, !.sprev = FirstSprev]
    /\ toIms' = Tail(toIms)
    /\ WriteFromIms(Ack)
    /\ lpc' = "read"
    /\ UNCHANGED <<freed, rest>>

(* Mutant of FinMark: finished is not set. *)
FinMark_NotFinished ==
    /\ Reads("fin")
    /\ lpc' = "fin_query"
    /\ UNCHANGED <<toIms, fromIms, inst, freed, rest>>

(* fin: the flag that releases the waiting workers, the query, the labels. *)
FinMark ==
    /\ Reads("fin")
    /\ inst' = [inst EXCEPT !.finished = TRUE]
    /\ lpc' = "fin_query"
    /\ UNCHANGED <<toIms, fromIms, freed, rest>>

FinQuery ==
    /\ lpc = "fin_query"
    /\ DropQuery("fin_prev")
    /\ UNCHANGED <<toIms, fromIms, rest>>

FinPrev ==
    /\ lpc = "fin_prev"
    /\ inst' = [inst EXCEPT !.rprev = FirstRprev, !.sprev = FirstSprev]
    /\ toIms' = Tail(toIms)
    /\ lpc' = "read"
    /\ UNCHANGED <<fromIms, freed, rest>>

(* A query message is complete: set_query.  The one it replaces is neither *)
(* freed nor used again.                                                   *)
SetQuery ==
    /\ Reads("query")
    /\ inst' = [inst EXCEPT !.query = Head(toIms).query]
    /\ toIms' = Tail(toIms)
    /\ UNCHANGED <<fromIms, lpc, freed, rest>>

Listener ==
    \/ Hello \/ SetQuery
    \/ ResetQuery \/ ResetFlag \/ ResetPrev
    \/ FinMark \/ FinQuery \/ FinPrev

(* sender_run *)
Sender ==
    /\ spc = "poll" /\ inst.sendq # << >>
    /\ WriteFromIms(Head(inst.sendq))
    /\ inst' = [inst EXCEPT !.sendq = Tail(@)]
    /\ UNCHANGED <<toIms, lpc, freed, rest>>

(* fetch_message_from_send_queue is called again and again, and one of the *)
(* calls finds the lock taken by a worker that reports.                    *)
SenderFallsAsleep ==
    /\ LockFails /\ spc = "poll"
    /\ \E w \in Workers : worker[w].pc \in {"start", "end"}
    /\ spc' = "asleep"
    /\ UNCHANGED <<toIms, fromIms, inst, lpc, freed, worker, pending, wire, crashed>>

-----------------------------------------------------------------------------
(* The workers *)

channel == <<toIms, fromIms, lpc, spc, freed>>

Goto(w, pc) == worker' = [worker EXCEPT ![w].pc = pc]

(* receive_msg *)
Receive(w, m) ==
    /\ worker[w] = Idle
    /\ worker' = [worker EXCEPT ![w] = [pc |-> "label", msg |-> m, q |-> NoQuery,
                                        symbol |-> NULL, rep |-> 0]]
    /\ UNCHANGED <<channel, inst, pending, wire, crashed>>

(* report_message: the label of a request comes from the previous one. *)
RequestLabel(name, prev) ==
    CASE name = "register" /\ prev = FirstRprev -> "register_1"
      [] name = "register" /\ prev = "register_1" -> "register_2"
      [] OTHER -> name

Label(w) ==
    /\ worker[w].pc = "label"
    /\ worker' = [worker EXCEPT ![w].pc = "rprev",
                                ![w].symbol = RequestLabel(worker[w].msg.name, inst.rprev)]
    /\ UNCHANGED <<channel, inst, pending, wire, crashed>>

SetRprev(w) ==
    /\ worker[w].pc = "rprev"
    /\ inst' = [inst EXCEPT !.rprev = worker[w].symbol]
    /\ Goto(w, "start")
    /\ UNCHANGED <<channel, pending, wire, crashed>>

(* add_message_to_send_queue *)
Enqueue(type, symbol, n) ==
    inst' = IF Len(inst.sendq) < MaxQueueLen
            THEN [inst EXCEPT !.sendq = Append(@, [type |-> type, symbol |-> symbol, n |-> n])]
            ELSE inst

(* The two lines of a report are put into the queue one by one. *)
ReportStart(w) ==
    /\ worker[w].pc = "start"
    /\ Enqueue("start", worker[w].symbol, worker[w].msg.n)
    /\ Goto(w, "end")
    /\ UNCHANGED <<channel, pending, wire, crashed>>

ReportEnd(w) ==
    /\ worker[w].pc = "end"
    /\ Enqueue("end", NULL, worker[w].msg.n)
    /\ IF worker[w].msg \in Request
       THEN worker' = [worker EXCEPT ![w] = Idle] /\ pending' = pending \cup {worker[w].msg}
       ELSE Goto(w, "edit") /\ UNCHANGED pending
    /\ UNCHANGED <<channel, wire, crashed>>

(* The lock was taken, and the wake-up stays in the other process. *)
FallAsleep(w) ==
    /\ LockFails /\ worker[w].pc \in {"start", "end"}
    /\ Goto(w, "asleep")
    /\ UNCHANGED <<channel, inst, pending, wire, crashed>>

(* tcp_send *)
Respond(w, m) ==
    /\ worker[w] = Idle
    /\ \E r \in pending : r.n = m.n /\ pending' = pending \ {r}
    /\ worker' = [worker EXCEPT ![w] = [pc |-> "next", msg |-> m, q |-> NoQuery,
                                        symbol |-> NULL, rep |-> 0]]
    /\ UNCHANGED <<channel, inst, wire, crashed>>

(* get_next_query: NULL when fin has come. *)
NextQuery(w) ==
    /\ worker[w].pc = "next"
    /\ Goto(w, IF inst.finished THEN "edit" ELSE "poll")
    /\ UNCHANGED <<channel, inst, pending, wire, crashed>>

(* Mutant of Wanted: a query that has been used is taken again. *)
Wanted_Again(q) == q # NoQuery

(* A query other than the one the last report was made under *)
Wanted(q) == q # NoQuery /\ q.name # inst.sprev

Poll(w) ==
    /\ worker[w].pc = "poll"
    /\ worker' = [worker EXCEPT ![w].q = inst.query,
                                ![w].pc = IF Wanted(inst.query) THEN "match" ELSE "sleep"]
    /\ UNCHANGED <<channel, inst, pending, wire, crashed>>

(* The loop is left with what it holds when fin has come. *)
Sleep(w) ==
    /\ worker[w].pc = "sleep"
    /\ Goto(w, CASE ~inst.finished -> "poll"
                 [] inst.finished /\ worker[w].q = NoQuery -> "edit"
                 [] OTHER -> "match")
    /\ UNCHANGED <<channel, inst, pending, wire, crashed>>

(* report_message: a response is reported when it is what the query asks   *)
(* for and comes in its order.                                             *)
ResponseLabel(qname, mname, prev) ==
    CASE qname = "401_unauthorized" /\ mname = "unauthorized" /\ prev = FirstSprev
           -> "401_unauthorized"
      [] qname = "200_ok" /\ mname = "ok" /\ prev = "401_unauthorized" -> "200_ok"
      [] OTHER -> NULL

(* The name of a query that is freed may be overwritten when it is read. *)
NamesRead(q) == IF q.id \in freed THEN {q.name, NULL} ELSE {q.name}

Match(w) ==
    /\ worker[w].pc = "match"
    /\ \E qname \in NamesRead(worker[w].q) :
         LET symbol == ResponseLabel(qname, worker[w].msg.name, inst.sprev) IN
         worker' = [worker EXCEPT ![w].symbol = symbol,
                                  ![w].rep = IF symbol = NULL THEN 0 ELSE worker[w].q.id,
                                  ![w].pc = IF symbol = NULL THEN "edit" ELSE "sprev"]
    /\ UNCHANGED <<channel, inst, pending, wire, crashed>>

SetSprev(w) ==
    /\ worker[w].pc = "sprev"
    /\ inst' = [inst EXCEPT !.sprev = worker[w].symbol]
    /\ Goto(w, "start")
    /\ UNCHANGED <<channel, pending, wire, crashed>>

(* process_query asks for the query again.  Only a 401 has the headers its *)
(* edits are about, and the edit of the nonce asserts that they are there. *)
Aborts(w) ==
    inst.query.name = "401_unauthorized" /\ inst.query.edit = "nonce"
        /\ worker[w].msg.name # "unauthorized"

(* Mutant of EditedBy: the query get_next_query returned is applied. *)
EditedBy_Held(w) ==
    IF worker[w].msg.name = "unauthorized" THEN worker[w].q.id ELSE 0

EditedBy(w) ==
    IF inst.query.name = "401_unauthorized" /\ worker[w].msg.name = "unauthorized"
    THEN inst.query.id ELSE 0

Abort(w) ==
    /\ worker[w].pc = "edit" /\ Aborts(w)
    /\ crashed' = TRUE
    /\ UNCHANGED <<channel, inst, worker, pending, wire>>

EditAndSend(w) ==
    /\ worker[w].pc = "edit" /\ ~Aborts(w)
    /\ wire' = wire \cup {[name |-> worker[w].msg.name, n |-> worker[w].msg.n,
                           rep |-> worker[w].rep, edit |-> EditedBy(w),
                           late |-> inst.finished]}
    /\ worker' = [worker EXCEPT ![w] = Idle]
    /\ UNCHANGED <<channel, inst, pending, crashed>>

Work(w) ==
    \/ Label(w) \/ SetRprev(w) \/ ReportStart(w) \/ ReportEnd(w) \/ FallAsleep(w)
    \/ NextQuery(w) \/ Poll(w) \/ Sleep(w) \/ Match(w) \/ SetSprev(w)
    \/ Abort(w) \/ EditAndSend(w)

Waiting(w) == worker[w].pc \in {"poll", "sleep"} /\ ~inst.finished /\ ~Wanted(inst.query)
=============================================================================
