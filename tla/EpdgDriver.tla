------------------------------ MODULE EpdgDriver ------------------------------
(***************************************************************************)
(* The ePDG under every controller that keeps to sessions: Hello at any    *)
(* time, init opens a session and fin closes it, and query messages are    *)
(* only sent in an open session.  The UE repeats and abandons requests as  *)
(* it likes.                                                               *)
(***************************************************************************)
EXTENDS EpdgInstance

CONSTANTS
    MaxLines,     \* bound: lines the controller sends
    Asked         \* the names and kinds of the queries it sends

ASSUME DriverAssumption ==
    MaxLines \in Nat /\ Asked \subseteq [name : Responses, kind : Kinds]

VARIABLES
    session,      \* the last init or fin the controller sent was an init
    lines,        \* lines sent so far
    queries       \* queries among them

driver == <<session, lines, queries>>

SendLine(l) ==
    /\ lines < MaxLines
    /\ lines' = lines + 1
    /\ WriteToEpdg(l)
    /\ UNCHANGED <<fromEpdg, inst, lpc, manager, worker, network, crashed>>

SendHello == SendLine(Control("Hello")) /\ UNCHANGED <<session, queries>>

SendInit == SendLine(Control("init")) /\ session' = TRUE /\ UNCHANGED queries

SendFin == SendLine(Control("fin")) /\ session' = FALSE /\ UNCHANGED queries

SendQuery ==
    /\ session /\ queries < MaxQueries
    /\ \E a \in Asked :
         SendLine([kind |-> "query",
                   query |-> [id |-> queries + 1, name |-> a.name, kind |-> a.kind]])
    /\ queries' = queries + 1
    /\ UNCHANGED session

ReadLine ==
    /\ fromEpdg # << >>
    /\ fromEpdg' = Tail(fromEpdg)
    /\ UNCHANGED <<toEpdg, inst, lpc, manager, worker, network, crashed, driver>>

DriverInit == Init /\ session = FALSE /\ lines = 0 /\ queries = 0

DriverNext ==
    \/ SendHello \/ SendInit \/ SendFin \/ SendQuery \/ ReadLine
    \/ (EpdgNext \/ UE) /\ UNCHANGED driver

DriverSpec == DriverInit /\ [][DriverNext]_<<vars, driver>>

DriverTypeOK ==
    /\ TypeOK
    /\ session \in BOOLEAN /\ lines \in Nat /\ queries \in 0..MaxQueries

-----------------------------------------------------------------------------
KindOf(l) == l.kind

Peer == INSTANCE ControlPeer
          WITH Lines <- Line, Reports <- Report, AckLine <- Ack, Capacity <- MaxQueueLen,
               Kind <- KindOf, inbox <- toEpdg, outbox <- fromEpdg,
               backlog <- inst.sendq, closed <- (inst.sa = Closed)

(* The instrumented ePDG implements the control peer: each Hello and init  *)
(* is answered by one ACK in order, and check_instance keeps every worker, *)
(* also one that waited in get_next_query while fin arrived, from          *)
(* reporting between fin and the next init.                                *)
ImplementsPeer == Peer!Spec
=============================================================================
