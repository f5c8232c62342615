------------------------------- MODULE MCRenew -------------------------------
(* `server renew` beside the renewal of the running server: the certificate *)
(* and the account (Issuance), or the Cloudflare token (Tokens).  The two    *)
(* share nothing that either property is about; a behaviour is one of them.  *)
EXTENDS MCIssuance, Tokens

VARIABLE which

ASSUME TokensAssumption

RenewInit ==
  /\ which \in {"certificate", "token"}
  /\ TokensInit
  /\ \/ which = "certificate" /\ Init /\ hub.tls = ManualTls /\ hub.cloudflare = {}
     \/ which = "token" /\ ManualHub

RenewNext ==
  \/ which = "certificate" /\ Next /\ UNCHANGED <<which, tokenVars>>
  \/ which = "token" /\ TokensNext /\ UNCHANGED <<which, vars>>

RenewSpec == RenewInit /\ [][RenewNext]_<<which, vars, tokenVars>> /\ Fairness
=============================================================================
