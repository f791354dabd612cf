----------------------------- MODULE EpdgInstance -----------------------------
(***************************************************************************)
(* The instrumented ePDG: the threads that share one instance_t.           *)
(*                                                                         *)
(*   listener  listener_run, ike_sa_manager.c: reads the controller's      *)
(*             lines, resets the instance, publishes queries, writes ACKs  *)
(*   sender    sender_run, ike_sa_manager.c: moves reports from the        *)
(*             bounded send queue to the socket                            *)
(*   workers   strongSwan's pool: checkout_by_message, process_message,    *)
(*             process_request and build_response for each request of the  *)
(*             UE, with the reports and the wait for a query the framework *)
(*             adds to them                                                *)
(*                                                                         *)
(* Only the send queue has a lock.  A worker's step runs from one point    *)
(* where the code looks at the shared instance (check_instance) to the     *)
(* next.  The listener resets the instance field by field: init and fin    *)
(* are as many steps as the workers can tell apart.  The line in work      *)
(* stays at the head of toEpdg until its last step.                        *)
(***************************************************************************)
EXTENDS ControlChannel, FiniteSets

CONSTANTS
    Workers,      \* threads of the pool that handle the UE's requests
    MaxQueueLen,  \* MAX_QUEUE_LEN
    MaxExchanges, \* bound: requests a UE sends in one IKE_SA
    MaxReceived,  \* bound: requests received, retransmissions included
    HighEntries,  \* IKE_SAs whose entry_t is allocated above 0x7f0000000000
    Duplicates,   \* what the UE or the network repeats: "none", "last" or "any"
    Rejects,      \* whether requests are refused after their report has begun
    Failures      \* whether parsing and the tasks that build a response may fail

ASSUME EpdgAssumption ==
    /\ MaxQueueLen \in Nat \ {0} /\ MaxExchanges \in Nat \ {0} /\ MaxReceived \in Nat
    /\ HighEntries \subseteq SA
    /\ Duplicates \in {"none", "last", "any"}
    /\ Rejects \in BOOLEAN /\ Failures \in BOOLEAN

VARIABLES
    inst,         \* the instance_t of the connection
    lpc,          \* the listener: "read", or at a later step of the line it read
    entries,      \* IKE_SAs in the manager's table
    checked_out,  \* entry_t.checked_out is set
    processing,   \* entry_t.processing: the message ID in work, or -1
    resp_mid,     \* responding.mid of an IKE_SA's task manager
    worker,       \* the workers' program counters and locals
    ue,           \* exchange types of the requests the UE has sent in an IKE_SA
    seen,         \* how many of them the ePDG has received
    wire,         \* the responses sent
    received,     \* requests received so far
    crashed       \* a NULL name was passed to strncmp

manager == <<entries, checked_out, processing, resp_mid>>
network == <<ue, seen, wire, received>>
vars == <<channel, inst, lpc, manager, worker, network, crashed>>

-----------------------------------------------------------------------------
(* State *)

Exchanges == {"IKE_SA_INIT", "IKE_AUTH", "OTHER"}

Mids == 0..MaxExchanges

(* instance_t; the SPIs are the IKE_SA they name, and retransmission is an *)
(* int that the code also decrements below zero.                           *)
Instance == [sa : SA \cup {Unbound, Closed}, query : Query \cup {NoQuery},
             initiated : BOOLEAN, finished : BOOLEAN,
             sprev : Responses \cup {NULL, "error"},
             rprev : Requests \cup {NULL, "error"},
             imid : Int, retransmission : Int, not_report : BOOLEAN,
             authentication_failed : BOOLEAN, no_proposal_chosen : BOOLEAN,
             invalid_ke_payload : BOOLEAN, sendq : Seq(Report)]

InitInstance == [sa |-> Unbound, query |-> NoQuery, initiated |-> FALSE,
                 finished |-> FALSE, sprev |-> NULL, rprev |-> NULL, imid |-> -1,
                 retransmission |-> 0, not_report |-> FALSE,
                 authentication_failed |-> FALSE, no_proposal_chosen |-> FALSE,
                 invalid_ke_payload |-> FALSE, sendq |-> << >>]

(* A worker at its request; q is the query its response is reported under, *)
(* taskq and encq the queries in force while the tasks built the payloads  *)
(* and while they were encoded.                                            *)
Job == [pc : {"process", "request", "respond", "wait", "build", "end", "encode"},
        sa : SA, mid : Mids, ex : Exchanges, q : Query \cup {NoQuery},
        taskq : 0..MaxQueries, encq : 0..MaxQueries, ok : BOOLEAN]

Idle == [pc |-> "idle", sa |-> Unbound, mid |-> 0, ex |-> "OTHER",
         q |-> NoQuery, taskq |-> 0, encq |-> 0, ok |-> FALSE]

Response == [sa : SA, mid : Mids, ex : Exchanges, q : Query \cup {NoQuery},
             taskq : 0..MaxQueries, encq : 0..MaxQueries, ok : BOOLEAN]

TypeOK ==
    /\ ChannelTypeOK
    /\ inst \in Instance
    /\ Len(inst.sendq) <= MaxQueueLen
    /\ lpc \in {"read", "reset", "fin_query", "fin_spi"}
    /\ entries \subseteq SA
    /\ checked_out \in [SA -> BOOLEAN]
    /\ processing \in [SA -> Int]
    /\ resp_mid \in [SA -> Nat]
    /\ worker \in [Workers -> Job \cup {Idle}]
    /\ ue \in [SA -> Seq(Exchanges)]
    /\ \A s \in SA : Len(ue[s]) <= MaxExchanges
    /\ seen \in [SA -> Nat]
    /\ wire \subseteq Response
    /\ received \in Nat
    /\ crashed \in BOOLEAN

Init ==
    /\ toEpdg = << >> /\ fromEpdg = << >>
    /\ inst = InitInstance
    /\ lpc = "read"
    /\ entries = {}
    /\ checked_out = [s \in SA |-> FALSE]
    /\ processing = [s \in SA |-> -1]
    /\ resp_mid = [s \in SA |-> 0]
    /\ worker = [t \in Workers |-> Idle]
    /\ ue = [s \in SA |-> << >>]
    /\ seen = [s \in SA |-> 0]
    /\ wire = {}
    /\ received = 0
    /\ crashed = FALSE

-----------------------------------------------------------------------------
(* Operations on the instance *)

(* check_instance with NON_UPDATE: the instance follows this IKE_SA.  A    *)
(* repeated IKE_SA_INIT carries no responder SPI and is matched by its     *)
(* initiator SPI alone; it belongs to the same member of SA.               *)
check_instance(s) == inst.sa = s

(* Mutant of Enqueue: one message too many fits. *)
Enqueue_OffByOne(i, type, symbol) ==
    IF Len(i.sendq) <= MaxQueueLen
    THEN [i EXCEPT !.sendq = Append(@, [type |-> type, symbol |-> symbol, sa |-> i.sa])]
    ELSE i

(* add_message_to_send_queue(init_message(type, symbol)) on instance i:    *)
(* the report carries the SPIs of the moment, and is dropped when the      *)
(* queue is full.                                                          *)
Enqueue(i, type, symbol) ==
    IF Len(i.sendq) < MaxQueueLen
    THEN [i EXCEPT !.sendq = Append(@, [type |-> type, symbol |-> symbol, sa |-> i.sa])]
    ELSE i

reporting(i) == ~i.not_report /\ i.retransmission = 0

(* Mutant of EndRequest: the end of an unreported request is reported. *)
EndRequest_Always(i) == Enqueue(i, "end", NULL)

(* The end of a request's report: BLOCK_END, or the marks that suppressed  *)
(* the report are taken back.                                              *)
EndRequest(i) ==
    IF reporting(i)
    THEN Enqueue(i, "end", NULL)
    ELSE [i EXCEPT !.retransmission = @ - 1, !.not_report = FALSE]

Follows(chain, prev, name) ==
    \E i \in 1..5 : chain[i] = prev /\ chain[i + 1] = name

(* The label of an IKE_AUTH request comes from the previous request. *)
NextRequest(prev) ==
    IF \E i \in 1..5 : RequestChain[i] = prev
    THEN RequestChain[(CHOOSE i \in 1..5 : RequestChain[i] = prev) + 1]
    ELSE "error"

-----------------------------------------------------------------------------
(* listener_run *)

Hello ==
    /\ lpc = "read" /\ toEpdg # << >> /\ Head(toEpdg).kind = "Hello"
    /\ toEpdg' = Tail(toEpdg)
    /\ WriteFromEpdg(Ack)
    /\ UNCHANGED <<inst, lpc, manager, worker, network, crashed>>

(* Mutant of ResetUnbind: the SPIs are not reset. *)
ResetUnbind_KeepsSpis ==
    /\ lpc = "read" /\ toEpdg # << >> /\ Head(toEpdg).kind = "init"
    /\ lpc' = "reset"
    /\ UNCHANGED <<channel, inst, manager, worker, network, crashed>>

(* init resets the SPIs and then everything else but the send queue (and  *)
(* pispi); a request that arrives in between finds the instance unbound.   *)
ResetUnbind ==
    /\ lpc = "read" /\ toEpdg # << >> /\ Head(toEpdg).kind = "init"
    /\ inst' = [inst EXCEPT !.sa = Unbound]
    /\ lpc' = "reset"
    /\ UNCHANGED <<channel, manager, worker, network, crashed>>

(* Mutant of ResetRest: finished is not reset. *)
ResetRest_KeepsFinished ==
    /\ lpc = "reset"
    /\ toEpdg' = Tail(toEpdg)
    /\ inst' = [InitInstance EXCEPT !.initiated = TRUE, !.sa = inst.sa, !.sendq = inst.sendq,
                                   !.finished = inst.finished]
    /\ WriteFromEpdg(Ack)
    /\ lpc' = "read"
    /\ UNCHANGED <<manager, worker, network, crashed>>

ResetRest ==
    /\ lpc = "reset"
    /\ toEpdg' = Tail(toEpdg)
    /\ inst' = [InitInstance EXCEPT !.initiated = TRUE, !.sa = inst.sa, !.sendq = inst.sendq]
    /\ WriteFromEpdg(Ack)
    /\ lpc' = "read"
    /\ UNCHANGED <<manager, worker, network, crashed>>

(* Mutant of FinMark: finished is not set. *)
FinMark_NotFinished ==
    /\ lpc = "read" /\ toEpdg # << >> /\ Head(toEpdg).kind = "fin"
    /\ lpc' = "fin_query"
    /\ UNCHANGED <<channel, inst, manager, worker, network, crashed>>

(* fin: the flag that releases a waiting worker, the query, the SPIs. *)
FinMark ==
    /\ lpc = "read" /\ toEpdg # << >> /\ Head(toEpdg).kind = "fin"
    /\ inst' = [inst EXCEPT !.finished = TRUE]
    /\ lpc' = "fin_query"
    /\ UNCHANGED <<channel, manager, worker, network, crashed>>

(* Mutant of FinClear: the query is not freed. *)
FinClear_Keeps ==
    /\ lpc = "fin_query"
    /\ lpc' = "fin_spi"
    /\ UNCHANGED <<channel, inst, manager, worker, network, crashed>>

FinClear ==
    /\ lpc = "fin_query"
    /\ inst' = [inst EXCEPT !.query = NoQuery]
    /\ lpc' = "fin_spi"
    /\ UNCHANGED <<channel, manager, worker, network, crashed>>

FinUnbind ==
    /\ lpc = "fin_spi"
    /\ toEpdg' = Tail(toEpdg)
    /\ inst' = [inst EXCEPT !.sa = Closed]
    /\ lpc' = "read"
    /\ UNCHANGED <<fromEpdg, manager, worker, network, crashed>>

(* A query message is complete: set_query publishes it and forgets the one *)
(* it replaces.                                                            *)
SetQuery ==
    /\ lpc = "read" /\ toEpdg # << >> /\ Head(toEpdg).kind = "query"
    /\ toEpdg' = Tail(toEpdg)
    /\ inst' = [inst EXCEPT !.query = Head(toEpdg).query]
    /\ UNCHANGED <<fromEpdg, lpc, manager, worker, network, crashed>>

Listener ==
    \/ Hello \/ SetQuery
    \/ ResetUnbind \/ ResetRest
    \/ FinMark \/ FinClear \/ FinUnbind

(* sender_run *)
Sender ==
    /\ inst.sendq # << >>
    /\ WriteFromEpdg(Head(inst.sendq))
    /\ inst' = [inst EXCEPT !.sendq = Tail(@)]
    /\ UNCHANGED <<toEpdg, lpc, manager, worker, network, crashed>>


-----------------------------------------------------------------------------
(* A worker's way through checkout_by_message and checkin *)

(* The requests of IKE_SA s that may arrive: the next one the UE sent, or  *)
(* a repetition of the last or of any earlier one.                         *)
Deliverable(s) ==
    {k \in 1..Len(ue[s]) : \/ k = seen[s] + 1
                           \/ Duplicates = "last" /\ k = seen[s]
                           \/ Duplicates = "any" /\ k <= seen[s]}

(* check_instance with UPDATE: an unbound instance is bound to IKE_SA s. *)
Bind(s) == IF inst.sa = Unbound THEN [inst EXCEPT !.sa = s, !.imid = -1] ELSE inst

Start(t, s, k) ==
    /\ worker[t] = Idle
    /\ received < MaxReceived
    /\ received' = received + 1
    /\ seen' = [seen EXCEPT ![s] = IF k > @ THEN k ELSE @]
    /\ worker' = [worker EXCEPT ![t] = [Idle EXCEPT !.pc = "process", !.sa = s,
                                                   !.mid = k - 1, !.ex = ue[s][k]]]
    /\ UNCHANGED <<channel, lpc, resp_mid, ue, wire, crashed>>

(* An IKE_SA_INIT whose hash is unknown creates the IKE_SA. *)
CheckoutNew(t, s) ==
    /\ seen[s] = 0 /\ ue[s] # << >>
    /\ Start(t, s, 1)
    /\ entries' = entries \cup {s}
    /\ checked_out' = [checked_out EXCEPT ![s] = TRUE]
    /\ processing' = [processing EXCEPT ![s] = 0]
    /\ inst' = Bind(s)

(* The entry is found and free.  The block added at the end of the         *)
(* function binds the instance when the entry's address passes its test.   *)
Checkout(t, s, k) ==
    /\ s \in entries /\ k \in Deliverable(s)
    /\ processing[s] # k - 1 /\ ~checked_out[s]
    /\ Start(t, s, k)
    /\ checked_out' = [checked_out EXCEPT ![s] = TRUE]
    /\ processing' = [processing EXCEPT ![s] = k - 1]
    /\ inst' = IF s \in HighEntries THEN Bind(s) ELSE inst
    /\ UNCHANGED entries

(* The same message ID is in work already.  The message is ignored, but    *)
(* the added block still returns the entry's IKE_SA when the address of    *)
(* the entry passes its test, and the worker goes on with it.              *)
CheckoutBusy(t, s, k) ==
    /\ s \in entries \cap HighEntries /\ k \in Deliverable(s)
    /\ processing[s] = k - 1
    /\ Start(t, s, k)
    /\ inst' = Bind(s)
    /\ UNCHANGED <<entries, checked_out, processing>>

Release(t) ==
    LET s == worker[t].sa IN
    /\ worker' = [worker EXCEPT ![t] = Idle]
    /\ checked_out' = [checked_out EXCEPT ![s] = FALSE]
    /\ processing' = [processing EXCEPT ![s] = -1]

checkin(t) == Release(t) /\ entries' = entries \cup {worker[t].sa}

checkin_and_destroy(t) == Release(t) /\ entries' = entries \ {worker[t].sa}

-----------------------------------------------------------------------------
(* process_message *)

Goto(t, pc) == worker' = [worker EXCEPT ![t].pc = pc]

Repeated(t) == inst.imid >= 0 /\ inst.imid = worker[t].mid

(* Mutant of Counted: a repeated request is counted as a new one. *)
Counted_NotRepeated(t) == [inst EXCEPT !.imid = @ + 1, !.retransmission = 0]

Counted(t) ==
    IF Repeated(t) THEN [inst EXCEPT !.retransmission = @ + 1]
    ELSE [inst EXCEPT !.imid = @ + 1, !.retransmission = 0]

(* The instance follows another IKE_SA, or none: the request fails. *)
RefuseUnbound(t) ==
    /\ worker[t].pc = "process" /\ ~check_instance(worker[t].sa)
    /\ checkin(t)
    /\ UNCHANGED <<channel, inst, lpc, resp_mid, network, crashed>>

(* A repeated request with a positive message ID fails at once. *)
RefuseRepeated(t) ==
    /\ worker[t].pc = "process" /\ check_instance(worker[t].sa)
    /\ Repeated(t) /\ inst.imid > 0
    /\ inst' = Counted(t)
    /\ checkin(t)
    /\ UNCHANGED <<channel, lpc, resp_mid, network, crashed>>

(* The request is labelled and its report begins.  A repeated IKE_SA_INIT  *)
(* is not reported; exchanges other than the initial ones never are.       *)
ReportRequest(t) ==
    LET i == Counted(t)
        auth == NextRequest(i.rprev)
        label(j, symbol) == IF reporting(j) THEN Enqueue(j, "start", symbol) ELSE j
    IN
    /\ worker[t].pc = "process" /\ check_instance(worker[t].sa)
    /\ ~(Repeated(t) /\ inst.imid > 0)
    /\ ~(i.retransmission = 0 /\ worker[t].ex = "IKE_AUTH" /\ i.rprev = NULL)
    /\ \/ i.retransmission # 0 /\ inst' = i
       \/ /\ i.retransmission = 0 /\ worker[t].ex = "IKE_SA_INIT"
          /\ inst' = label([i EXCEPT !.rprev = "ike_sa_init_request", !.imid = 0],
                           "ike_sa_init_request")
       \/ /\ i.retransmission = 0 /\ worker[t].ex = "IKE_AUTH"
          /\ \E symbol \in {IF auth = "error" THEN "error in ike_auth" ELSE auth,
                             "client_error"} :
                inst' = label([i EXCEPT !.rprev = auth], symbol)
       \/ /\ i.retransmission = 0 /\ worker[t].ex = "OTHER"
          /\ inst' = [i EXCEPT !.not_report = TRUE]
    /\ Goto(t, "request")
    /\ UNCHANGED <<channel, lpc, manager, network, crashed>>

(* strncmp(instance->rprev, ...) with rprev NULL. *)
CrashOnRequest(t) ==
    LET i == Counted(t) IN
    /\ worker[t].pc = "process" /\ check_instance(worker[t].sa)
    /\ ~(Repeated(t) /\ inst.imid > 0)
    /\ i.retransmission = 0 /\ worker[t].ex = "IKE_AUTH" /\ i.rprev = NULL
    /\ crashed' = TRUE
    /\ UNCHANGED <<channel, inst, lpc, manager, worker, network>>

(* parse_message fails.  An IKE_SA still in its creation is destroyed. *)
ParseFails(t) ==
    LET s == worker[t].sa IN
    /\ Failures
    /\ worker[t].pc = "request"
    /\ inst' = IF check_instance(s) THEN EndRequest(inst) ELSE inst
    /\ \E answered \in {0, 1} : resp_mid' = [resp_mid EXCEPT ![s] = @ + answered]
    /\ \/ checkin_and_destroy(t)
       \/ resp_mid[s] > 0 /\ checkin(t)
    /\ UNCHANGED <<channel, lpc, network, crashed>>

(* The message ID is not the expected one: the stored response is resent   *)
(* or the request ignored, and its report stays open.                      *)
Stale(t) ==
    /\ worker[t].pc = "request"
    /\ worker[t].mid # resp_mid[worker[t].sa]
    /\ checkin(t)
    /\ UNCHANGED <<channel, inst, lpc, resp_mid, network, crashed>>

(* reject_request, a missing configuration, a fragment, or a task that     *)
(* refuses the request: the function returns and the report stays open.    *)
Reject(t) ==
    /\ Rejects
    /\ worker[t].pc = "request"
    /\ worker[t].mid = resp_mid[worker[t].sa]
    /\ checkin(t) \/ checkin_and_destroy(t)
    /\ UNCHANGED <<channel, inst, lpc, resp_mid, network, crashed>>

(* process_request: the tasks take the request and its report ends. *)
Accept(t) ==
    /\ worker[t].pc = "request"
    /\ worker[t].mid = resp_mid[worker[t].sa]
    /\ inst' = IF check_instance(worker[t].sa) THEN EndRequest(inst) ELSE inst
    /\ Goto(t, "respond")
    /\ UNCHANGED <<channel, lpc, manager, network, crashed>>

-----------------------------------------------------------------------------
(* build_response *)

(* The binding is tested once, before get_next_query starts to wait. *)
Respond(t) ==
    /\ worker[t].pc = "respond"
    /\ Goto(t, IF check_instance(worker[t].sa) /\ inst.initiated /\ ~inst.finished
               THEN "wait" ELSE "build")
    /\ UNCHANGED <<channel, inst, lpc, manager, network, crashed>>

(* get_next_query polls: a query whose name is the last one answered is    *)
(* not taken, unless the session finishes while the worker looks at it.    *)
Takeable == inst.query # NoQuery /\ (inst.query.name # inst.sprev \/ inst.finished)

(* Mutant of InChain: the names are compared the wrong way round. *)
InChain_Swapped(ex) ==
    \/ ex = "IKE_SA_INIT" /\ inst.query.name = "ike_sa_init_response"
    \/ ex = "IKE_AUTH" /\ Follows(ResponseChain, inst.query.name, inst.sprev)

InChain(ex) ==
    \/ ex = "IKE_SA_INIT" /\ inst.query.name = "ike_sa_init_response"
    \/ ex = "IKE_AUTH" /\ Follows(ResponseChain, inst.sprev, inst.query.name)

OutOfChain(ex) ==
    CASE ex = "IKE_SA_INIT" -> "error in ike_sa_init"
      [] ex = "IKE_AUTH" -> "error in ike_auth"
      [] OTHER -> "error in exchange_type"

(* The report of the response begins, under the query's name when it is    *)
(* the response due.                                                       *)
StartResponse(ex) ==
    IF InChain(ex)
    THEN Enqueue([inst EXCEPT !.sprev = inst.query.name], "start", inst.query.name)
    ELSE Enqueue([inst EXCEPT !.sprev = "error"], "start", OutOfChain(ex))

(* strncmp(instance->sprev, ...) with sprev NULL. *)
NullPrevious(t) ==
    /\ worker[t].ex = "IKE_AUTH" /\ inst.sprev = NULL
    /\ inst.query.name # "ike_sa_init_response"

TakeQuery(t) ==
    /\ worker[t].pc = "wait" /\ Takeable /\ ~NullPrevious(t)
    /\ inst.query.kind # "error"
    /\ inst' = StartResponse(worker[t].ex)
    /\ worker' = [worker EXCEPT ![t].pc = "build", ![t].q = inst.query]
    /\ UNCHANGED <<channel, lpc, manager, network, crashed>>

CrashOnQuery(t) ==
    /\ worker[t].pc = "wait" /\ Takeable /\ NullPrevious(t)
    /\ crashed' = TRUE
    /\ UNCHANGED <<channel, inst, lpc, manager, worker, network>>

(* A query for an error notify: the report is closed at once, the notify   *)
(* sent and the IKE_SA destroyed.  The query stays where it is.            *)
NotifyError(t) ==
    LET w == worker[t] IN
    /\ w.pc = "wait" /\ Takeable /\ ~NullPrevious(t)
    /\ inst.query.kind = "error"
    /\ inst' = Enqueue(StartResponse(w.ex), "end", NULL)
    /\ wire' = wire \cup {[sa |-> w.sa, mid |-> w.mid, ex |-> w.ex, q |-> inst.query,
                           taskq |-> inst.query.id, encq |-> inst.query.id, ok |-> FALSE]}
    /\ resp_mid' = [resp_mid EXCEPT ![w.sa] = @ + 1]
    /\ checkin_and_destroy(t)
    /\ UNCHANGED <<channel, lpc, ue, seen, received, crashed>>

(* fin releases a worker that waits for a query. *)
Released(t) ==
    /\ worker[t].pc = "wait" /\ inst.query = NoQuery /\ inst.finished
    /\ Goto(t, "build")
    /\ UNCHANGED <<channel, inst, lpc, manager, network, crashed>>

(* The query the tasks and the encoder find, by its identity. *)
InForce(t) == IF check_instance(worker[t].sa) THEN inst.query.id ELSE 0

(* What a task that fails leaves for the end of the report. *)
FailureMarks(ex) ==
    {inst} \cup (IF ex = "IKE_SA_INIT"
                 THEN {[inst EXCEPT !.no_proposal_chosen = TRUE],
                       [inst EXCEPT !.invalid_ke_payload = TRUE]}
                 ELSE IF ex = "IKE_AUTH" THEN {[inst EXCEPT !.authentication_failed = TRUE]}
                 ELSE {})

(* Mutant of Build: nothing is encoded before the end of the report. *)
Build_NotEncoded(t) ==
    /\ worker[t].pc = "build"
    /\ \E ok \in {TRUE, ~Failures} :
         /\ worker' = [worker EXCEPT ![t].pc = "end", ![t].ok = ok, ![t].taskq = InForce(t)]
         /\ inst' \in (IF ok \/ ~check_instance(worker[t].sa) THEN {inst}
                        ELSE FailureMarks(worker[t].ex))
    /\ UNCHANGED <<channel, lpc, manager, network, crashed>>

(* The passive tasks build their payloads.  The ike_auth task encodes an   *)
(* IKE_SA_INIT response on the way, since it signs its octets.             *)
Build(t) ==
    /\ worker[t].pc = "build"
    /\ \E ok \in {TRUE, ~Failures} :
         /\ worker' = [worker EXCEPT ![t].pc = "end", ![t].ok = ok, ![t].taskq = InForce(t),
                          ![t].encq = IF worker[t].ex = "IKE_SA_INIT"
                                      THEN InForce(t) ELSE 0]
         /\ inst' \in (IF ok \/ ~check_instance(worker[t].sa) THEN {inst}
                        ELSE FailureMarks(worker[t].ex))
    /\ UNCHANGED <<channel, lpc, manager, network, crashed>>

Outcome(i) ==
    CASE i.authentication_failed -> "retest_required:auth_failed"
      [] i.no_proposal_chosen /\ ~i.authentication_failed ->
             "retransmission:no_proposal_chosen"
      [] i.invalid_ke_payload /\ ~i.no_proposal_chosen /\ ~i.authentication_failed ->
             "retransmission:invalid_ke_payload"
      [] OTHER -> NULL

(* A failure unbinds the instance. *)
Settled(i) ==
    IF Outcome(i) = NULL THEN i
    ELSE [i EXCEPT !.sprev = NULL, !.sa = Unbound, !.imid = -1]

(* Mutant of EndResponse: the binding is not tested again. *)
EndResponse_Unchecked(t) ==
    /\ worker[t].pc = "end"
    /\ inst' = Enqueue([Settled(inst) EXCEPT !.query = NoQuery], "end", Outcome(inst))
    /\ Goto(t, "encode")
    /\ UNCHANGED <<channel, lpc, manager, network, crashed>>

(* The query is freed and the report of the response ends, whether it has  *)
(* begun or not.                                                           *)
EndResponse(t) ==
    /\ worker[t].pc = "end"
    /\ inst' = IF ~check_instance(worker[t].sa) THEN inst
               ELSE [Enqueue([Settled(inst) EXCEPT !.query = NoQuery], "end", Outcome(inst))
                       EXCEPT !.authentication_failed = FALSE, !.no_proposal_chosen = FALSE,
                              !.invalid_ke_payload = FALSE]
    /\ Goto(t, "encode")
    /\ UNCHANGED <<channel, lpc, manager, network, crashed>>

(* generate_message encodes what is not encoded yet under the query in     *)
(* force now, and the response is sent.                                    *)
Send(t) ==
    LET w == worker[t] IN
    /\ w.pc = "encode"
    /\ wire' = wire \cup {[sa |-> w.sa, mid |-> w.mid, ex |-> w.ex, q |-> w.q,
                           taskq |-> w.taskq, ok |-> w.ok,
                           encq |-> IF w.ex = "IKE_SA_INIT" THEN w.encq ELSE InForce(t)]}
    /\ IF w.ok
       THEN checkin(t) /\ resp_mid' = [resp_mid EXCEPT ![w.sa] = @ + 1]
       ELSE checkin_and_destroy(t) /\ UNCHANGED resp_mid
    /\ UNCHANGED <<channel, inst, lpc, ue, seen, received, crashed>>

(* generate_message fails: nothing is sent and the IKE_SA is destroyed,    *)
(* although the report of the response has ended.                          *)
GenerateFails(t) ==
    /\ Failures
    /\ worker[t].pc = "encode"
    /\ checkin_and_destroy(t)
    /\ UNCHANGED <<channel, inst, lpc, resp_mid, network, crashed>>

-----------------------------------------------------------------------------
(* Worker t receives a request of IKE_SA s: it is handed the IKE_SA, or it *)
(* is handed one that another worker has checked out.                      *)
Hand(t, s) == CheckoutNew(t, s) \/ \E k \in 1..MaxExchanges : Checkout(t, s, k)

HandBusy(t, s) == \E k \in 1..MaxExchanges : CheckoutBusy(t, s, k)

Receive(t, s) == Hand(t, s) \/ HandBusy(t, s)

Work(t) ==
    \/ RefuseUnbound(t) \/ RefuseRepeated(t) \/ ReportRequest(t) \/ CrashOnRequest(t)
    \/ ParseFails(t) \/ Stale(t) \/ Reject(t) \/ Accept(t)
    \/ Respond(t) \/ TakeQuery(t) \/ CrashOnQuery(t) \/ NotifyError(t) \/ Released(t)
    \/ Build(t) \/ EndResponse(t) \/ Send(t) \/ GenerateFails(t)

EpdgNext ==
    /\ ~crashed
    /\ \/ Listener \/ Sender
       \/ \E t \in Workers : Work(t) \/ \E s \in SA : Receive(t, s)

(* The UE (external): it opens an IKE_SA with an IKE_SA_INIT and goes on   *)
(* to the next exchange when its last request is answered.                 *)
UeOpen(s) ==
    /\ ue[s] = << >>
    /\ ue' = [ue EXCEPT ![s] = <<"IKE_SA_INIT">>]
    /\ UNCHANGED <<channel, inst, lpc, manager, worker, seen, wire, received, crashed>>

UeNext(s, ex) ==
    /\ ue[s] # << >> /\ Len(ue[s]) < MaxExchanges
    /\ \E r \in wire : r.sa = s /\ r.mid = Len(ue[s]) - 1 /\ r.ok
    /\ ue' = [ue EXCEPT ![s] = Append(@, ex)]
    /\ UNCHANGED <<channel, inst, lpc, manager, worker, seen, wire, received, crashed>>

UE == \E s \in SA : UeOpen(s) \/ \E ex \in {"IKE_AUTH", "OTHER"} : UeNext(s, ex)

-----------------------------------------------------------------------------
(* From the end of fin to the next init the instance holds no query, so    *)
(* no worker, also one still in get_next_query, answers or reports under   *)
(* one: a query line never overtakes the fin of its session.               *)
NoQueryAfterFin == inst.sa = Closed => inst.finished /\ inst.query = NoQuery
=============================================================================
