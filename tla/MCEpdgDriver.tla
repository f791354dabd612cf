----------------------------- MODULE MCEpdgDriver -----------------------------
(* The ePDG under session-keeping controllers, on small instances. *)
EXTENDS EpdgDriver, TLC

CONSTANTS w1, w2, s1, s2

(* The first two responses of an attach, as they are and as an error. *)
MCAsked == {[name |-> "ike_sa_init_response", kind |-> "plain"],
            [name |-> "ike_auth_1_response", kind |-> "plain"],
            [name |-> "ike_sa_init_response", kind |-> "error"]}

MCWorkers == Permutations({w1, w2})
=============================================================================
