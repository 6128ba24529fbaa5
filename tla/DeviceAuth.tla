----------------------------- MODULE DeviceAuth -----------------------------
(***************************************************************************)
(* The device login (device_auth.go, auth.go): a command line asks the     *)
(* server for a code and polls it; a user approves the code in a browser.  *)
(* Codes live in the server's memory, under a lock.  Complete writes an    *)
(* entry's fields under the lock; the poll handler takes the entry under   *)
(* the lock and reads its fields after letting go.                         *)
(***************************************************************************)
EXTENDS Naturals, FiniteSets

CONSTANTS
  Logins,         \* runs of gc auth login, each with the code it was given
  Users,          \* people who approve in a browser
  Personal,       \* those whose claims name no organisation
  Forms,          \* what a request to approve may fill in, [user, org]
  MaxApprovals,   \* bound: approvals
  MaxAccidents    \* bound: server restarts and lost answers

NoUser == "nobody"

ASSUME DeviceAssumption ==
  /\ NoUser \notin Users /\ MaxApprovals \in Nat /\ MaxAccidents \in Nat
  /\ Forms \subseteq [user : Users \cup {NoUser}, org : Users \cup {NoUser}]

VARIABLES
  entry,          \* what the server keeps for each code
  expired,        \* codes older than ten minutes
  writer,         \* the approval that holds the lock, if any
  cli,            \* each login: where it is, and what it has read
  granters,       \* history: the approvals of each code, [by, form]
  approvals, accidents

deviceVars == <<entry, expired, writer, cli, granters, approvals, accidents>>

(* The claims of a verified session fill in what the request leaves empty;   *)
(* an organisation is written as the user whose it is, and is that of the    *)
(* user written, on his own, when there is no other.                         *)
Identity(u, form) ==
  LET user == IF form.user = NoUser THEN u ELSE form.user
  IN [user |-> user,
      org |-> IF form.org # NoUser THEN form.org ELSE IF u \in Personal THEN user ELSE u]

Identities == [user : Users, org : Users]
NoIdentity == [user |-> NoUser, org |-> NoUser]
NoWriter == [as |-> NoIdentity, login |-> CHOOSE l \in Logins : TRUE, step |-> "who"]
Absent == [state |-> "absent", who |-> NoIdentity, token |-> NoIdentity]

DeviceInit ==
  /\ entry = [l \in Logins |-> Absent]
  /\ expired = {} /\ writer = NoWriter
  /\ cli = [l \in Logins |-> [at |-> "start", token |-> NoIdentity, who |-> NoIdentity]]
  /\ granters = [l \in Logins |-> {}]
  /\ approvals = 0 /\ accidents = 0

Unlocked == writer = NoWriter
MoveTo(l, place) == cli' = [cli EXCEPT ![l].at = place]
Accident == accidents < MaxAccidents /\ accidents' = accidents + 1

\* handleDeviceAuthStart, Create
StartLogin(l) ==
  /\ cli[l].at = "start" /\ Unlocked /\ MoveTo(l, "waiting")
  /\ entry' = [entry EXCEPT ![l] = [Absent EXCEPT !.state = "pending"]]
  /\ UNCHANGED <<expired, writer, granters, approvals, accidents>>

Expire(l) ==
  /\ cli[l].at # "start" /\ l \notin expired /\ expired' = expired \cup {l}
  /\ UNCHANGED <<entry, writer, cli, granters, approvals, accidents>>

Cleanup ==
  /\ Unlocked /\ \E l \in expired : entry[l] # Absent
  /\ entry' = [l \in Logins |-> IF l \in expired /\ cli[l].at \notin {"status", "token", "who"}
                                THEN Absent ELSE entry[l]]
  /\ entry' # entry
  /\ UNCHANGED <<expired, writer, cli, granters, approvals, accidents>>

-----------------------------------------------------------------------------
(* handleDeviceAuthApprove, of a session that was verified; Complete: the    *)
(* identity, then the token, which is minted for it, then the status, under  *)
(* the lock.                                                                 *)
Live(l) == entry[l].state # "absent" /\ l \notin expired

\* mutant of BeginApproval: an entry is enough, however old
BeginApprovalLate(l, u, form) ==
  /\ Unlocked /\ entry[l].state # "absent" /\ approvals < MaxApprovals
  /\ approvals' = approvals + 1
  /\ writer' = [as |-> Identity(u, form), login |-> l, step |-> "token"]
  /\ entry' = [entry EXCEPT ![l].who = Identity(u, form)]
  /\ granters' = [granters EXCEPT ![l] = @ \cup {[by |-> u, form |-> form]}]
  /\ UNCHANGED <<expired, cli, accidents>>

\* mutant of BeginApproval: the status is written with the identity, before the token
BeginApprovalDone(l, u, form) ==
  /\ Unlocked /\ Live(l) /\ approvals < MaxApprovals
  /\ approvals' = approvals + 1
  /\ writer' = [as |-> Identity(u, form), login |-> l, step |-> "token"]
  /\ entry' = [entry EXCEPT ![l].who = Identity(u, form), ![l].state = "completed"]
  /\ granters' = [granters EXCEPT ![l] = @ \cup {[by |-> u, form |-> form]}]
  /\ UNCHANGED <<expired, cli, accidents>>

BeginApproval(l, u, form) ==
  /\ Unlocked /\ Live(l) /\ approvals < MaxApprovals
  /\ approvals' = approvals + 1
  /\ writer' = [as |-> Identity(u, form), login |-> l, step |-> "token"]
  /\ entry' = [entry EXCEPT ![l].who = Identity(u, form)]
  /\ granters' = [granters EXCEPT ![l] = @ \cup {[by |-> u, form |-> form]}]
  /\ UNCHANGED <<expired, cli, accidents>>

WriteToken ==
  /\ writer.step = "token"
  /\ entry' = [entry EXCEPT ![writer.login].token = writer.as]
  /\ writer' = [writer EXCEPT !.step = "status"]
  /\ UNCHANGED <<expired, cli, granters, approvals, accidents>>

WriteStatus ==
  /\ writer.step = "status"
  /\ entry' = [entry EXCEPT ![writer.login].state = "completed"]
  /\ writer' = NoWriter
  /\ UNCHANGED <<expired, cli, granters, approvals, accidents>>

-----------------------------------------------------------------------------
(* handleDeviceAuthPoll, every two seconds: Get, the status, and, when it    *)
(* no longer says pending, the token, then the organisation, user and rest.  *)
(* These reads race with Complete's writes; amd64 keeps the order of both,   *)
(* and of a half-written status the handler sees only that it is not         *)
(* pending, when everything before it has been written.                      *)
PollGet(l) ==
  /\ cli[l].at = "waiting" /\ Unlocked /\ Live(l) /\ MoveTo(l, "status")
  /\ UNCHANGED <<entry, expired, writer, granters, approvals, accidents>>

PollStatus(l) ==
  /\ cli[l].at = "status"
  /\ MoveTo(l, IF entry[l].state = "completed" THEN "token" ELSE "waiting")
  /\ UNCHANGED <<entry, expired, writer, granters, approvals, accidents>>

PollToken(l) ==
  /\ cli[l].at = "token"
  /\ cli' = [cli EXCEPT ![l] = [at |-> "who", token |-> entry[l].token, who |-> NoIdentity]]
  /\ UNCHANGED <<entry, expired, writer, granters, approvals, accidents>>

PollWho(l) ==
  /\ cli[l].at = "who"
  /\ cli' = [cli EXCEPT ![l] = [@ EXCEPT !.at = "saved", !.who = entry[l].who]]
  /\ UNCHANGED <<entry, expired, writer, granters, approvals, accidents>>

\* The answer does not arrive: the login polls on
LoseAnswer(l) ==
  /\ cli[l].at \in {"status", "token", "who"} /\ Accident
  /\ cli' = [cli EXCEPT ![l] = [at |-> "waiting", token |-> NoIdentity, who |-> NoIdentity]]
  /\ UNCHANGED <<entry, expired, writer, granters, approvals>>

\* Codes are in memory: after a restart they are not found
ServerRestarts ==
  /\ Accident /\ entry' = [l \in Logins |-> Absent] /\ writer' = NoWriter
  /\ cli' = [l \in Logins |-> IF cli[l].at \in {"status", "token", "who"}
                              THEN [at |-> "waiting", token |-> NoIdentity, who |-> NoIdentity]
                              ELSE cli[l]]
  /\ UNCHANGED <<expired, granters, approvals>>

\* The login's deadline is not before the code's
GiveUp(l) ==
  /\ cli[l].at = "waiting" /\ l \in expired /\ MoveTo(l, "lapsed")
  /\ UNCHANGED <<entry, expired, writer, granters, approvals, accidents>>

LoginStep(l) == PollGet(l) \/ PollStatus(l) \/ PollToken(l) \/ PollWho(l) \/ GiveUp(l)

DeviceNext ==
  \/ \E l \in Logins :
       \/ StartLogin(l) \/ Expire(l) \/ LoginStep(l) \/ LoseAnswer(l)
       \/ \E u \in Users, form \in Forms : BeginApproval(l, u, form)
  \/ WriteToken \/ WriteStatus \/ Cleanup \/ ServerRestarts

DeviceSpec == DeviceInit /\ [][DeviceNext]_deviceVars

-----------------------------------------------------------------------------
IdentitiesOf(G) == {Identity(g.by, g.form) : g \in G}

DeviceTypeOK ==
  /\ \A l \in Logins :
       /\ entry[l].state \in {"absent", "pending", "completed"}
       /\ {entry[l].who, entry[l].token} \subseteq IdentitiesOf(granters[l]) \cup {NoIdentity}
  /\ expired \subseteq Logins /\ writer.as \in Identities \cup {NoIdentity}
  /\ granters \in [Logins -> SUBSET [by : Users, form : Forms]]

(* The store implements what the device flow promises: nothing is approved   *)
(* for a code that has expired or that a restart has lost, and all that a    *)
(* login saves is what approvals of its code wrote while it was open.        *)
grantBar == [l \in Logins |-> IF cli[l].at = "start" THEN "unissued"
                             ELSE IF Live(l) THEN "open" ELSE "closed"]
grantedBar == [l \in Logins |-> IdentitiesOf(granters[l])]
heldBar == [l \in Logins |-> IF cli[l].at = "saved"
                             THEN [token |-> cli[l].token, who |-> cli[l].who]
                             ELSE [token |-> NoIdentity, who |-> NoIdentity]]
Grant == INSTANCE DeviceGrant WITH grant <- grantBar, granted <- grantedBar, held <- heldBar,
                                   Nobody <- NoIdentity

ImplementsGrant == Grant!GrantSpec

(* A login whose code got a single approval ends with the user, organisation *)
(* and token of that approval, each part of it: it does not see a            *)
(* half-written entry, although the handler reads it without the lock.  They *)
(* are those the request filled in, and the verified user's where it filled  *)
(* in none: that the two agree is up to the page, which sends the user it    *)
(* signed in.  (After two approvals a login may hold the token of one and    *)
(* the identity of the other.)                                               *)
OneApprovalWhole ==
  \A l \in Logins : cli[l].at = "saved" =>
    \A u \in Users, form \in Forms :
      granters[l] = {[by |-> u, form |-> form]} =>
        /\ cli[l].token = Identity(u, form) /\ cli[l].who = cli[l].token
        /\ form.user \in {NoUser, u} => cli[l].token.user = u
        /\ form.user = NoUser /\ form.org = NoUser => cli[l].who.org = u

=============================================================================
