------------------------------- MODULE MCTestbed ------------------------------
(* Testcases of the shapes in testcases/, on small instances. *)
EXTENDS Testbed, TLC

Msg(name, kind) == [name |-> name, kind |-> kind]

Enable == Msg("enable_vowifi", "plain")

Liveness == [live |-> TRUE,
             messages |-> <<Enable, Msg("ike_sa_init_response", "plain"),
                            Msg("ike_auth_1_response", "plain")>>]

Case(m) == [live |-> FALSE, messages |-> <<Enable, m>>]

(* A response modified while it is encoded, then the liveness test. *)
PlanEncode == <<Case(Msg("ike_sa_init_response", "encode")), Liveness>>

(* An error notify, then the liveness test. *)
PlanError == <<Case(Msg("ike_sa_init_response", "error")), Liveness>>

(* An IKE_AUTH response modified while it is encoded. *)
PlanAuth == <<[live |-> FALSE,
               messages |-> <<Enable, Msg("ike_sa_init_response", "plain"),
                              Msg("ike_auth_1_response", "encode")>>]>>

Phones == Permutations(SA)
=============================================================================
