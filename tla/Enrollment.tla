----------------------------- MODULE Enrollment -----------------------------
(***************************************************************************)
(* A connector and the instance it asks to be let into: Connector composed *)
(* with Membership.  A call is one step of both when its answer arrives;   *)
(* the answer to a submission may be lost after the hub has filed it, and  *)
(* the operator, other machines and the hub itself act in between.         *)
(***************************************************************************)
EXTENDS Membership

CONSTANTS
  Self,         \* the connector's key
  MaxStops      \* bound on how often the connector is stopped

ASSUME SelfAssumption == Self \in Connectors /\ MaxStops \in Nat

VARIABLES
  files, proc, stops,   \* the connector
  issued                \* history: request ids used so far, since ids are random

Conn == INSTANCE Connector WITH RequestIds <- Ids, Certs <- Cert

ASSUME AbsentAssumption == None \notin Ids /\ None \notin Conn!Bundle

connVars == <<files, proc, stops>>
allVars == <<vars, connVars, issued>>

-----------------------------------------------------------------------------
Present(inst) == {id \in Ids : inst.requests[id] # None}

\* A hub step, with the ids it uses noted down.
OnHub(step) == step /\ issued' = issued \cup Present(mem')

\* A request is filed under an id never used before.
EnrollFresh(k, name, mac) ==
  /\ Enroll(k, name, mac)
  /\ Present(mem') \cap issued \subseteq Present(mem)

EnrollSelf == OnHub(\E mac \in Tokens \cup {NoToken} : EnrollFresh(Self, NoName, mac))

\* The hub filed the request, saved it, and the answer arrived.
Submit ==
  /\ EnrollSelf /\ disk' = mem'
  /\ \E id \in RequestsOf(mem', Self) : Conn!submit(id)

\* It was filed, and the answer was lost or said that saving failed.
SubmitUnheard == EnrollSelf /\ Conn!submitFailed

\* It was refused, or never arrived.
SubmitRefused == Conn!submitFailed /\ UNCHANGED <<vars, issued>>

\* Wrong on purpose: the answer is the newest approval rather than one's own.
ResultOfAny(id) == {r \in {mem.requests[i] : i \in Ids} : r # None}

\* What the hub says of a request, if it has it.
Result(id) == {mem.requests[i] : i \in Ids \cap {id}} \ {None}

Poll ==
  /\ \E r \in Result(proc.request) :
       \/ r.status = "approved" /\ Conn!approved(r.cert, blockedIn(mem))
       \/ r.status = "rejected" /\ Conn!rejected
  /\ UNCHANGED <<vars, issued>>

Watch ==
  /\ \E r \in Result(proc.request) :
       r.status = "approved" /\ Conn!watchBlocklist(blockedIn(mem))
  /\ UNCHANGED <<vars, issued>>

\* The process goes on by itself.
Local ==
  /\ \/ Conn!Start \/ Conn!WritePublicKey \/ Conn!SaveRequestID
     \/ Conn!SaveBundle \/ Conn!refused
  /\ UNCHANGED <<vars, issued>>

Stopped == Conn!Stop /\ UNCHANGED <<vars, issued>>

\* Everybody else.  Left off is what takes no part in enrolling: the lighthouse,
\* bans of the owner, who has no certificate here, and changes of the token,
\* which only add refusals.
HubStep ==
  /\ OnHub(\/ \E k \in Keys \ {Self}, name \in Names \cup {NoName}, mac \in Tokens \cup {NoToken} :
              EnrollFresh(k, name, mac)
           \/ \E id \in Ids, name \in Names \cup {NoName}, s \in Serials : Approve(id, name, {}, s)
           \/ \E id \in Ids : Reject(id) \/ Forget(id)
           \/ \E k \in Keys : Ban(k) \/ Unban(k) \/ RemoveMember(k)
           \/ applyBlocklist
           \/ Register
           \/ Restart)
  /\ UNCHANGED connVars

EnrollmentInit == Init /\ Conn!ConnInit /\ issued = {}

EnrollmentNext ==
  \/ Submit \/ SubmitUnheard \/ SubmitRefused \/ Poll \/ Watch \/ Local \/ Stopped \/ HubStep

EnrollmentSpec == EnrollmentInit /\ [][EnrollmentNext]_allVars

\* The supervisor starts a process that ended, a running one goes on, the two
\* tickers fire, and a hub that is asked again and again answers now and then.
FairEnrollment ==
  /\ EnrollmentSpec
  /\ WF_allVars(Local) /\ WF_allVars(Poll) /\ WF_allVars(Watch)
  /\ SF_allVars(Submit)
-----------------------------------------------------------------------------
(* Properties.                                                             *)

\* The grant a connector keeps is one signed over its own key, and so is the
\* one it runs with (waitForApproval, SaveBundle, Hub.Result): whatever is
\* lost, stopped, forgotten or rolled back, it never comes up as another.
GrantIsOwn ==
  \A b \in {files.bundle, proc.bundle} \ {None} : b.cert \in signed /\ b.cert.key = Self

\* "A restart keeps polling the same one instead of queueing another"
\* (SaveRequestID, Hub.Enroll): once an id is in the state directory, the hub
\* has no other request of this connector, so an approval is never given to
\* one that nobody polls.
PollsTheOne == files.request # None => RequestsOf(mem, Self) \subseteq {files.request}

Approved == \E id \in RequestsOf(mem, Self) : mem.requests[id].status = "approved"
Running == proc.pc = "run"

\* An approval is acted upon (waitForApproval, Run): a connector whose request
\* is approved comes up, unless the approval is taken back first, whichever
\* answers are lost and wherever the process is stopped.
ApprovedComesUp == Approved ~> Running \/ ~Approved

\* The connector still accepts a certificate the hub says to refuse.
Behind ==
  /\ Running /\ Approved
  /\ ~(blockedIn(mem) \ {proc.bundle.cert} \subseteq proc.applied)

\* "The only way a ban reaches the node carrying the network" (watchBlocklist,
\* withBlocklist): a running connector does not stay behind the blocklist.
BanReachesConnector == Behind ~> ~Behind
-----------------------------------------------------------------------------
(* What the comments say and the code does not do.                         *)

TurnedDown == \E id \in RequestsOf(mem, Self) : mem.requests[id].status = "rejected"

\* "A restart is how the connector asks again" (waitForApproval): a refused
\* connector whose supervisor restarts it is in front of the owner again.
RefusedAsksAgain == TurnedDown /\ proc.pc = "refused" ~> ~TurnedDown
=============================================================================
