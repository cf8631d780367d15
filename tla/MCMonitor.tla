----------------------------- MODULE MCMonitor ------------------------------
(* Two checks; the cfg files choose the runners and the credentials.       *)
EXTENDS Monitor, TLC

OneCheck  == {1}
OnePlain  == [c \in OneCheck |-> "none"]
OneGood   == [c \in OneCheck |-> "good"]

TwoChecks == {1, 2}
Plain     == [c \in TwoChecks |-> "none"]
Shared    == 1 :> "good" @@ 2 :> "unusable"
Broken    == 1 :> "unusable" @@ 2 :> "corrupt"

(* Credential ids: each check its own, or one for all.                      *)
OwnCred     == [c \in Checks |-> c]
OneCred     == [c \in Checks |-> 1]
=============================================================================
