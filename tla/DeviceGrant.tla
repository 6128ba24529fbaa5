----------------------------- MODULE DeviceGrant -----------------------------
(***************************************************************************)
(* What the device flow promises a command line that wants to log in: its  *)
(* code is open for a while, users approve it while it is open, each for   *)
(* an identity, and all the command line is ever given are identities the  *)
(* code was approved for.                                                  *)
(***************************************************************************)
CONSTANTS Logins, Identities, Nobody

VARIABLES
  grant,      \* "unissued", "open", "closed", for each login's code
  granted,    \* identities it was approved for
  held        \* whose token, and which identity, the command line holds

GrantInit ==
  /\ grant = [l \in Logins |-> "unissued"]
  /\ granted = [l \in Logins |-> {}]
  /\ held = [l \in Logins |-> [token |-> Nobody, who |-> Nobody]]

Issue(l) ==
  /\ grant[l] = "unissued" /\ grant' = [grant EXCEPT ![l] = "open"]
  /\ UNCHANGED <<granted, held>>

Approve(l, i) ==
  /\ grant[l] = "open" /\ granted' = [granted EXCEPT ![l] = @ \cup {i}]
  /\ UNCHANGED <<grant, held>>

Close(S) ==
  /\ \A l \in S : grant[l] = "open"
  /\ grant' = [l \in Logins |-> IF l \in S THEN "closed" ELSE grant[l]]
  /\ UNCHANGED <<granted, held>>

Deliver(l) ==
  /\ held[l].token = Nobody
  /\ \E t, w \in granted[l] : held' = [held EXCEPT ![l] = [token |-> t, who |-> w]]
  /\ UNCHANGED <<grant, granted>>

GrantNext ==
  \/ \E l \in Logins : Issue(l) \/ Deliver(l) \/ \E i \in Identities : Approve(l, i)
  \/ \E S \in SUBSET Logins : Close(S)

GrantSpec == GrantInit /\ [][GrantNext]_<<grant, granted, held>>
=============================================================================
