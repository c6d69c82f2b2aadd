---------------------------- MODULE MCValidation ----------------------------
(***************************************************************************)
(* The validation of a token in three parts.  "client": backends that call *)
(* get_json in any order, with every kind of header section and a document *)
(* that is broken text.  "validator": whole validations, with a key set    *)
(* that is rotated, a discovery document that stops naming it, and answers *)
(* that are kept for a second.  "decision": the decision alone, over many  *)
(* settings, key sets and tokens.  part says which of them a behaviour     *)
(* exercises; what belongs to the others stays as it is.                   *)
(***************************************************************************)
EXTENDS MCOidcValidator, MCTokenDecision

MCAllUrls == MCUrls \cup {"bad/info"}

MCEditions ==
  [u \in MCAllUrls |-> CASE u = "iss/info" -> <<tInfo, tBare>>
                         [] u = "iss/keys" -> <<tKeys1, tKeys2>>
                         [] u = "bad/info" -> <<tBroken>>]

ClientUrls == {"bad/info", "iss/keys"}
Calls == INSTANCE HttpClient WITH Urls <- ClientUrls, HeaderSections <- MCHeaderSections

VARIABLE part

validationVars == <<part, validatorVars, decisionVars>>

\* Nothing to decide in the other parts.
NoDecision ==
  /\ hba = CHOOSE h \in Settings : TRUE
  /\ jwks = CHOOSE k \in KeySets : TRUE
  /\ token = CHOOSE t \in Presented : TRUE
  /\ result = Pending

ValidationInit ==
  /\ part \in {"client", "validator", "decision"}
  /\ ValidatorInit
  /\ IF part = "decision" THEN DecisionInit ELSE NoDecision

ValidationNext ==
  \/ part = "client" /\ Calls!ClientNext /\ UNCHANGED <<part, session, decisionVars>>
  \/ part = "validator" /\ ValidatorNext /\ UNCHANGED <<part, decisionVars>>
  \/ part = "decision" /\ DecideToken /\ UNCHANGED <<part, validatorVars>>

ValidationSpec == ValidationInit /\ [][ValidationNext]_validationVars
=============================================================================
