-------------------------------- MODULE MCIms ---------------------------------
(* The sessions of testcases/ims.json: a testcase whose 401 has an         *)
(* attribute of Security-Server modified is followed by the registration   *)
(* of the liveness test (testcases/reliability.json).  The last testcase   *)
(* modifies the nonce instead, which no file of the repository does but    *)
(* process_query provides for: its assertion is on that path.              *)
EXTENDS ImsSession

Asks(name, edit) == [name |-> name, edit |-> edit]

SecurityServer == <<Asks("401_unauthorized", "other")>>

Registration == <<Asks("401_unauthorized", "none"), Asks("200_ok", "none")>>

Nonce == <<Asks("401_unauthorized", "nonce")>>

PlanIms == <<SecurityServer, Registration, Nonce>>
=============================================================================
