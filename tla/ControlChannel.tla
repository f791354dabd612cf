---------------------------- MODULE ControlChannel ----------------------------
(***************************************************************************)
(* The TCP connection between the main controller (Controller.java) and a  *)
(* component under control (the listener and sender threads the framework  *)
(* adds to strongSwan's ike_sa_manager.c).  Both directions are streams of *)
(* newline-terminated lines, delivered reliably and in order.              *)
(*                                                                         *)
(* Controller -> ePDG: "Hello", "init" and "fin" control lines, and query  *)
(* lines.  The lines of one query message (BLOCK_START ... BLOCK_END) only *)
(* take effect when the block closes (set_query at depth 0), so they are   *)
(* one element here; module QueryTree models them line by line.            *)
(* ePDG -> controller: "ACK" lines, and reports that open (BLOCK_START)    *)
(* or close (BLOCK_END) the block of one IKE message.                      *)
(***************************************************************************)
EXTENDS Integers, Sequences

CONSTANTS
    SA,         \* the IKE_SAs a UE may open: pairs of an initiator and a responder SPI
    Unbound,    \* the SPI pair 0, 0: no IKE_SA is bound to the instance
    Closed,     \* the SPI pair -1, -1 that fin stores
    MaxQueries, \* bound: query messages sent in one behaviour
    Buffer      \* bound: lines a direction of the connection holds; a write blocks

ASSUME ChannelAssumption ==
    /\ Unbound \notin SA /\ Closed \notin SA /\ Unbound # Closed
    /\ MaxQueries \in Nat
    /\ Buffer \in Nat \ {0}

VARIABLES
    toEpdg,     \* lines written by the controller and not yet read by listener_run
    fromEpdg    \* lines written by the ePDG and not yet read by the controller

channel == <<toEpdg, fromEpdg>>

-----------------------------------------------------------------------------
(* Names of IKE messages, in the order of a VoWiFi attach. *)

NULL == "NULL"

ResponseChain == <<"ike_sa_init_response", "ike_auth_1_response",
                   "ike_auth_2_response", "ike_auth_3_response",
                   "ike_auth_4_response", "ike_auth_5_response">>

RequestChain == <<"ike_sa_init_request", "ike_auth_1_request",
                  "ike_auth_2_request", "ike_auth_3_request",
                  "ike_auth_4_request", "ike_auth_5_request">>

Responses == {ResponseChain[i] : i \in 1..6}

Requests == {RequestChain[i] : i \in 1..6}

(* What a report may be labelled with; NULL stands for a line without a    *)
(* name.                                                                   *)
Symbols == Responses \cup Requests \cup
           {NULL, "client_error", "error in ike_sa_init", "error in ike_auth",
            "error in exchange_type", "retest_required:auth_failed",
            "retransmission:no_proposal_chosen",
            "retransmission:invalid_ke_payload"}

(* What a query asks for besides its name: nothing, an error notify in     *)
(* place of the response, a change a task makes while it builds its        *)
(* payload (proposal, EAP packet), or one made while the message is        *)
(* encoded (dropped payload, header, MAC, size).                           *)
Kinds == {"plain", "error", "task", "encode"}

NoQuery == [id |-> 0, name |-> NULL, kind |-> "plain"]

Query == [id : 1..MaxQueries, name : Responses, kind : Kinds]

Line == [kind : {"Hello", "init", "fin"}, query : {NoQuery}]
            \cup [kind : {"query"}, query : Query]

Control(k) == [kind |-> k, query |-> NoQuery]

Report == [type : {"start", "end"}, symbol : Symbols, sa : SA \cup {Unbound, Closed}]

Ack == [type |-> "ACK", symbol |-> NULL, sa |-> Unbound]

Out == Report \cup {Ack}

WriteToEpdg(l) == Len(toEpdg) < Buffer /\ toEpdg' = Append(toEpdg, l)

WriteFromEpdg(l) == Len(fromEpdg) < Buffer /\ fromEpdg' = Append(fromEpdg, l)

ChannelTypeOK ==
    /\ toEpdg \in Seq(Line) /\ Len(toEpdg) <= Buffer
    /\ fromEpdg \in Seq(Out) /\ Len(fromEpdg) <= Buffer
=============================================================================
