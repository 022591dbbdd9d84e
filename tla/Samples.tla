------------------------------- MODULE Samples -------------------------------
(***************************************************************************)
(* Sample leads (apps/api/src/samples) and the screens that work on them:  *)
(* a client asks for samples, the owning agent forwards or rejects the     *)
(* request, an admin assigns leads of the sample pool or rejects it.       *)
(*                                                                         *)
(* The service checks a request, then the pool, then writes, each with a   *)
(* statement of its own and no lock.  The screens offer what the list they *)
(* loaded last allows, and that list may be old.                           *)
(*                                                                         *)
(* A session has one call under way; a second dialog opened meanwhile is   *)
(* another session.  Left out: who receives the samples (client_id), the   *)
(* reviewer, and assignments by an agent, which no screen offers.          *)
(***************************************************************************)
EXTENDS Naturals, FiniteSets

CONSTANTS
    Admins,         \* sessions of AdminSamplesScreen
    Agents,         \* sessions of AgentSamplesScreen of the owning agent
    SampleRequests, \* sample_requests ids
    PoolLeads,      \* leads ids
    SampleType,     \* lead_type of a request or a lead
    Quantity        \* quantity of a request

ASSUME SamplesAssumption ==
    /\ Admins \cap Agents = {}
    /\ IsFiniteSet(PoolLeads)
    /\ SampleRequests \cap PoolLeads = {}
    /\ Quantity \in [SampleRequests -> Nat \ {0}]

Staff == Admins \cup Agents

VARIABLES
    requestStatus,  \* sample_requests.status, "none" before the row exists
    pool,           \* leads with in_sample_pool
    deliveries,     \* sample_deliveries: <<request, lead>>
    shownRequests,  \* the requests on the screen of a session
    shownPool,      \* the pool on the screen of a session
    staffCall,      \* the call of a session
    undisturbed     \* history: requests decided one call at a time, from current screens

samplesVars == <<requestStatus, pool, deliveries, shownRequests, shownPool, staffCall, undisturbed>>
-----------------------------------------------------------------------------
RequestStatuses == {"PENDING", "FORWARDED", "ASSIGNED", "REJECTED"}
StatusRows == [SampleRequests -> RequestStatuses \cup {"none"}]

\* seen: the leads that were in the pool at some time since the call began.
StaffCall == [op : {"forward", "reject", "assign"}, step : {"status", "pool", "write"},
              request : SampleRequests, leads : SUBSET PoolLeads, seen : SUBSET PoolLeads]
NoCall == [op |-> "none"]

Busy(u) == staffCall[u] # NoCall
Delivered(r) == {x \in PoolLeads : <<r, x>> \in deliveries}
-----------------------------------------------------------------------------
(* The screens. *)

CreateRequest(r) ==
    /\ requestStatus[r] = "none"
    /\ requestStatus' = [requestStatus EXCEPT ![r] = "PENDING"]
    /\ UNCHANGED <<pool, deliveries, shownRequests, shownPool, staffCall, undisturbed>>

ReloadRequests(u) ==
    /\ shownRequests' = [shownRequests EXCEPT ![u] = requestStatus]
    /\ UNCHANGED <<requestStatus, pool, deliveries, shownPool, staffCall, undisturbed>>

ReloadPool(u) ==
    /\ u \in Admins
    /\ shownPool' = [shownPool EXCEPT ![u] = pool]
    /\ UNCHANGED <<requestStatus, pool, deliveries, shownRequests, staffCall, undisturbed>>

\* Fault: assigned requests can be topped up.
AdminOffersAssigned(status) == status \in {"PENDING", "FORWARDED", "ASSIGNED"}
\* The rows the admin may assign to or reject.
AdminOffers(status) == status \in {"PENDING", "FORWARDED"}

AgentOffers(status) == status = "PENDING"

\* AssignDialog: at most quantity leads of the type, from the pool on the screen.
Selections(u, r) ==
    {S \in SUBSET {x \in shownPool[u] : SampleType[x] = SampleType[r]} :
        S # {} /\ Cardinality(S) <= Quantity[r]}

\* The call leaves the browser of session u.
Call(u, r, op, leads) ==
    /\ ~Busy(u)
    /\ staffCall' = [staffCall EXCEPT ![u] =
          [op |-> op, step |-> "status", request |-> r, leads |-> leads, seen |-> pool]]
    /\ undisturbed' = IF \/ shownRequests[u][r] # requestStatus[r]
                         \/ \E v \in Staff : Busy(v) /\ staffCall[v].request = r
                      THEN undisturbed \ {r} ELSE undisturbed
    /\ UNCHANGED <<requestStatus, pool, deliveries, shownRequests, shownPool>>

CallForward(u, r) ==
    u \in Agents /\ AgentOffers(shownRequests[u][r]) /\ Call(u, r, "forward", {})

CallReject(u, r) ==
    /\ IF u \in Admins THEN AdminOffers(shownRequests[u][r]) ELSE AgentOffers(shownRequests[u][r])
    /\ Call(u, r, "reject", {})

CallAssign(u, r) ==
    /\ u \in Admins /\ AdminOffers(shownRequests[u][r])
    /\ \E leads \in Selections(u, r) : Call(u, r, "assign", leads)
-----------------------------------------------------------------------------
(* The service. *)

EndCall(u) == staffCall' = [staffCall EXCEPT ![u] = NoCall]
GoOnWith(u, step) == staffCall' = [staffCall EXCEPT ![u].step = step]

\* The checks of forwardToAdmin, rejectRequest and assignLeads.
Accepts(c, status) ==
    CASE c.op = "forward" -> status = "PENDING"
      [] c.op = "reject" -> status \in {"PENDING", "FORWARDED"}
      [] c.op = "assign" -> status # "REJECTED" /\ Cardinality(c.leads) <= Quantity[c.request]

CheckRequest(u) ==
    LET c == staffCall[u] IN
    /\ Busy(u) /\ c.step = "status"
    /\ IF Accepts(c, requestStatus[c.request])
       THEN GoOnWith(u, IF c.op = "assign" THEN "pool" ELSE "write")
       ELSE EndCall(u)
    /\ UNCHANGED <<requestStatus, pool, deliveries, shownRequests, shownPool, undisturbed>>

\* Fault: the leads are looked up without the flag.
InPoolUnchecked(c) == \A x \in c.leads : SampleType[x] = SampleType[c.request]
\* The findMany of assignLeads finds every lead.
InPool(c) == \A x \in c.leads : x \in pool /\ SampleType[x] = SampleType[c.request]

CheckPool(u) ==
    /\ Busy(u) /\ staffCall[u].step = "pool"
    /\ IF InPool(staffCall[u]) THEN GoOnWith(u, "write") ELSE EndCall(u)
    /\ UNCHANGED <<requestStatus, pool, deliveries, shownRequests, shownPool, undisturbed>>

\* The update of forward and reject; the transaction of assign, which upserts.
WriteRequest(u) ==
    LET c == staffCall[u] IN
    /\ Busy(u) /\ c.step = "write"
    /\ requestStatus' = [requestStatus EXCEPT ![c.request] =
          CASE c.op = "forward" -> "FORWARDED"
            [] c.op = "reject" -> "REJECTED"
            [] c.op = "assign" -> "ASSIGNED"]
    /\ deliveries' = deliveries \cup {<<c.request, x>> : x \in c.leads}
    /\ EndCall(u)
    /\ UNCHANGED <<pool, shownRequests, shownPool, undisturbed>>

\* A statement of the call of session u fails, or the API dies.
FailCall(u) ==
    /\ Busy(u)
    /\ EndCall(u)
    /\ UNCHANGED <<requestStatus, pool, deliveries, shownRequests, shownPool, undisturbed>>

AddToPool(x) ==
    /\ pool' = pool \cup {x}
    /\ staffCall' = [u \in Staff |->
          IF Busy(u) THEN [staffCall[u] EXCEPT !.seen = @ \cup {x}] ELSE NoCall]
    /\ UNCHANGED <<requestStatus, deliveries, shownRequests, shownPool, undisturbed>>

RemoveFromPool(x) ==
    /\ pool' = pool \ {x}
    /\ UNCHANGED <<requestStatus, deliveries, shownRequests, shownPool, staffCall, undisturbed>>
-----------------------------------------------------------------------------
SamplesInit ==
    /\ requestStatus = [r \in SampleRequests |-> "none"]
    /\ pool = {} /\ deliveries = {}
    /\ shownRequests = [u \in Staff |-> [r \in SampleRequests |-> "none"]]
    /\ shownPool = [u \in Staff |-> {}]
    /\ staffCall = [u \in Staff |-> NoCall]
    /\ undisturbed = SampleRequests

Reload(u) == ReloadRequests(u) \/ ReloadPool(u)
Decide(u) == \E r \in SampleRequests : CallForward(u, r) \/ CallReject(u, r) \/ CallAssign(u, r)
Serve(u) == CheckRequest(u) \/ CheckPool(u) \/ WriteRequest(u) \/ FailCall(u)

SamplesNext ==
    \/ \E r \in SampleRequests : CreateRequest(r)
    \/ \E u \in Staff : Reload(u) \/ Decide(u) \/ Serve(u)
    \/ \E x \in PoolLeads : AddToPool(x) \/ RemoveFromPool(x)

SamplesSpec == SamplesInit /\ [][SamplesNext]_samplesVars
-----------------------------------------------------------------------------
\* Every variable keeps the type its comment gives it.
SamplesTypes ==
    /\ requestStatus \in StatusRows
    /\ pool \subseteq PoolLeads
    /\ deliveries \subseteq SampleRequests \X PoolLeads
    /\ shownRequests \in [Staff -> StatusRows]
    /\ shownPool \in [Staff -> SUBSET PoolLeads]
    /\ staffCall \in [Staff -> StaffCall \cup {NoCall}]
    /\ undisturbed \subseteq SampleRequests

\* A request whose decisions did not overlap and came from screens that showed
\* its status is served once: it gets leads only when it is assigned, at least
\* one and no more than it asked for, and a rejected one none.  The service
\* itself lets an assigned request be assigned again (assignLeads checks for
\* REJECTED only): the screens have to keep that apart.
UndisturbedRequestsAreServedOnce ==
    \A r \in undisturbed :
        /\ Cardinality(Delivered(r)) <= Quantity[r]
        /\ Delivered(r) # {} <=> requestStatus[r] = "ASSIGNED"

\* A lead that was taken out of the pool before a call began, and not put back,
\* is not delivered by that call, however old the pool on its screen is.
RemovedLeadsAreNotSampled ==
    [][\A r \in SampleRequests, x \in PoolLeads :
          <<r, x>> \in deliveries' \ deliveries =>
              \E u \in Staff : Busy(u) /\ x \in staffCall[u].seen]_samplesVars
=============================================================================
