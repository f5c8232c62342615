------------------------------ MODULE MCIssuance ------------------------------
(* Values for Issuance: the two directories of Let's Encrypt.  The task and  *)
(* a terminal are enough, and a set of one terminal has no symmetry to use.  *)
EXTENDS Issuance

Directories == {"staging", "production"}

(* A hub somebody tried out at the staging directory, as the documents       *)
(* advise, and now moves with `server renew --acme-production`.              *)
StagedInit == \E contact \in Contacts : AcmeHub("staging", contact)

StagedSpec == StagedInit /\ [][Next]_vars
=============================================================================
