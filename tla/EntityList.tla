----------------------------- MODULE EntityList -----------------------------
(***************************************************************************)
(* The list screens of staff users, clients, campaigns and landing pages:  *)
(* useResource keeps the rows, useEntityActions (UsersScreen has a copy)   *)
(* the ticked rows and the calls that change or delete them.  One screen   *)
(* of one kind is open; what other people do is one step.                  *)
(*                                                                         *)
(* A run of the screen sends its calls, waits for them and loads the list  *)
(* again.  Only the buttons of BulkActionsBar wait for a run, so the loads *)
(* of two runs may overlap; and a failed run does not load.                *)
(*                                                                         *)
(* An id is used once.  The other fields of a row, names, passwords, roles *)
(* and the drawer of a landing page are left out.                          *)
(***************************************************************************)
EXTENDS Naturals

CONSTANTS
    Entities,  \* ids
    Runs,      \* bound: runs of the screen under way at once
    MaxActs    \* bound: runs of the screen and writes of others in all

ASSUME EntityAssumption == MaxActs \in Nat

VARIABLES
    kind,       \* the screen that is open
    entity,     \* status of a row, "none" before it exists, "gone" after it
    data,       \* useResource: the rows on the screen
    loading,    \* useResource: a skeleton is shown
    failed,     \* useResource: an error is shown
    requests,   \* pendingClients: the approval requests on the screen
    selected,   \* the rows that are ticked
    pending,    \* the buttons of BulkActionsBar are disabled
    run,        \* the runs under way
    crossed,    \* history: two loads overlapped
    behind,     \* history: rows changed by others or by a failed run
    acts        \* counts towards MaxActs

entityVars == <<kind, entity, data, loading, failed, requests, selected, pending,
                run, crossed, behind, acts>>
-----------------------------------------------------------------------------
Kinds == {"users", "clients", "campaigns", "landing-pages"}
Accounts == {"users", "clients"}

\* OFF: SUSPENDED, INACTIVE, WORKING.  ACTIVE: PUBLISHED, any campaign.
EntityStatus == {"PENDING", "ACTIVE", "OFF"}
EntityTable == [Entities -> EntityStatus \cup {"none", "gone"}]
NoTable == [x \in Entities |-> "none"]

\* left: calls without an answer.
\* clean: since the load read, nothing was written that no later load will show.
Run == [op : {"mount", "create", "edit", "status", "delete", "decide"},
        to : EntityStatus \cup {"none"}, ids : SUBSET Entities, left : SUBSET Entities,
        step : {"calls", "write", "load", "read", "stray"}, seen : EntityTable, clean : BOOLEAN]
NoRun == [op |-> "none"]

Exists(x) == entity[x] \in EntityStatus
OnScreen == {x \in Entities : data[x] \in EntityStatus}
InStep(k, step) == run[k] # NoRun /\ run[k].step = step
Loads == {k \in Runs : InStep(k, "load") \/ InStep(k, "read")}
TableShown == ~loading /\ ~failed

\* The loads that have read already miss a change nobody will load again.
Overtaken(runs) == [k \in Runs |->
    IF runs[k] # NoRun /\ runs[k].step = "read" THEN [runs[k] EXCEPT !.clean = FALSE] ELSE runs[k]]
-----------------------------------------------------------------------------
(* The operator. *)

\* toggleOne and toggleAll.
TickEntities(S) ==
    /\ TableShown /\ S \subseteq selected \cup OnScreen
    /\ selected' = S
    /\ UNCHANGED <<kind, entity, data, loading, failed, requests, pending, run, crossed, behind, acts>>

Begin(k, op, ids, to) ==
    /\ run[k] = NoRun
    /\ run' = [run EXCEPT ![k] = [op |-> op, to |-> to, ids |-> ids, left |-> ids, step |-> "calls",
                                  seen |-> NoTable, clean |-> TRUE]]
    /\ pending' = (pending \/ op \in {"status", "delete"})
    /\ acts < MaxActs /\ acts' = acts + 1
    /\ UNCHANGED <<kind, entity, data, loading, failed, requests, selected, crossed, behind>>

\* onCreate.
Create(k, x) == entity[x] = "none" /\ Begin(k, "create", {x}, "ACTIVE")

\* onEditSubmit, and togglePublished, which patches the status alone.
EditEntity(k, x) ==
    /\ TableShown /\ x \in OnScreen
    /\ \E to \in IF kind = "landing-pages" THEN {"ACTIVE", "OFF"} ELSE {"none"} :
          Begin(k, "edit", {x}, to)

\* RowActions.
RowStatus(k, x) ==
    /\ TableShown /\ x \in OnScreen /\ kind \in Accounts
    /\ Begin(k, "status", {x}, IF data[x] = "ACTIVE" THEN "OFF" ELSE "ACTIVE")
RowDelete(k, x) == TableShown /\ x \in OnScreen /\ Begin(k, "delete", {x}, "none")

\* Only UsersScreen leaves out what is ticked and not on the screen.
BulkIds == IF kind = "users" THEN selected \cap OnScreen ELSE selected

\* BulkActionsBar, which stays while the list loads.
Bulk(k) ==
    /\ selected # {} /\ ~pending
    /\ \/ kind \in Accounts /\ \E to \in {"ACTIVE", "OFF"} : Begin(k, "status", BulkIds, to)
       \/ Begin(k, "delete", BulkIds, "none")

\* handlePendingAction.
Decision(k, x) ==
    /\ x \in requests /\ \A i \in Runs : run[i] # NoRun /\ run[i].op = "decide" => x \notin run[i].left
    /\ \E to \in {"ACTIVE", "OFF"} : Begin(k, "decide", {x}, to)
-----------------------------------------------------------------------------
(* The services. *)

AcceptsCall(op, x) ==
    CASE op = "create" -> entity[x] = "none"
      [] op \in {"edit", "status", "delete"} -> Exists(x)

AfterCall(r, x) ==
    [entity EXCEPT ![x] = IF r.op = "delete" THEN "gone" ELSE IF r.to = "none" THEN @ ELSE r.to]

Answered(r, x) == [r EXCEPT !.left = @ \ {x}]

\* A call of run k is served; the answer arrives, or is lost (Abandon).
ServeCall(k, x) ==
    /\ InStep(k, "calls") /\ run[k].op # "decide"
    /\ x \in run[k].left /\ AcceptsCall(run[k].op, x)
    /\ entity' = AfterCall(run[k], x)
    /\ run' = [run EXCEPT ![k] = Answered(run[k], x)]
    /\ UNCHANGED <<kind, data, loading, failed, requests, selected, pending, crossed, behind, acts>>

\* A call left behind by a failed run.
ServeStray(k, x) ==
    /\ InStep(k, "stray") /\ x \in run[k].left
    /\ \/ AcceptsCall(run[k].op, x) /\ entity' = AfterCall(run[k], x)
       \/ UNCHANGED entity
    /\ run' = Overtaken([run EXCEPT ![k] = IF run[k].left = {x} THEN NoRun ELSE Answered(run[k], x)])
    /\ behind' = behind \cup {x}
    /\ UNCHANGED <<kind, data, loading, failed, requests, selected, pending, crossed, acts>>

\* approve and reject: the check, then the update.
CheckDecision(k) ==
    /\ InStep(k, "calls") /\ run[k].op = "decide"
    /\ \A x \in run[k].left : entity[x] = "PENDING"
    /\ run[k].left # {}
    /\ run' = [run EXCEPT ![k].step = "write"]
    /\ UNCHANGED <<kind, entity, data, loading, failed, requests, selected, pending, crossed, behind, acts>>

WriteDecision(k) ==
    /\ InStep(k, "write")
    /\ \A x \in run[k].left : Exists(x)
    /\ entity' = [x \in Entities |-> IF x \in run[k].left THEN run[k].to ELSE entity[x]]
    /\ run' = [run EXCEPT ![k].step = "calls", ![k].left = {}]
    /\ UNCHANGED <<kind, data, loading, failed, requests, selected, pending, crossed, behind, acts>>

\* deleteIds goes on when a call fails: the row is gone, or referred to (deleteOrConflict).
RefuseDelete(k, x) ==
    /\ InStep(k, "calls") /\ run[k].op = "delete" /\ x \in run[k].left
    /\ run' = [run EXCEPT ![k] = Answered(run[k], x)]
    /\ UNCHANGED <<kind, entity, data, loading, failed, requests, selected, pending, crossed, behind, acts>>

\* Any other run ends with the first call that fails: the others go astray, and
\* the ticks stay.
Abandon(k, x) ==
    /\ InStep(k, "calls") \/ InStep(k, "write")
    /\ run[k].op # "delete" /\ x \in run[k].ids
    /\ run' = Overtaken([run EXCEPT ![k] =
          IF run[k].left \ {x} = {} THEN NoRun
          ELSE [Answered(run[k], x) EXCEPT !.step = "stray"]])
    /\ pending' = (pending /\ run[k].op # "status")
    /\ behind' = behind \cup run[k].ids
    /\ UNCHANGED <<kind, entity, data, loading, failed, requests, selected, crossed, acts>>
-----------------------------------------------------------------------------
(* reload of useResource. *)

AllPending == {x \in Entities : kind = "clients" /\ entity[x] = "PENDING"}

\* All calls are answered; decide reloads the requests first.
LoadEntities(k) ==
    /\ InStep(k, "calls") /\ run[k].left = {}
    /\ run' = [i \in Runs |->
          IF i = k THEN [run[k] EXCEPT !.step = "load", !.clean = (Loads = {})]
          ELSE IF i \in Loads THEN [run[i] EXCEPT !.clean = FALSE] ELSE run[i]]
    /\ crossed' = (crossed \/ Loads # {})
    /\ loading' = TRUE /\ failed' = FALSE
    /\ pending' = (pending /\ run[k].op # "delete")
    /\ requests' \in IF run[k].op = "decide" THEN {requests, AllPending} ELSE {requests}
    /\ UNCHANGED <<kind, entity, data, selected, behind, acts>>

ListEntities(k) ==
    /\ InStep(k, "load")
    /\ run' = [run EXCEPT ![k].step = "read", ![k].seen = entity]
    /\ UNCHANGED <<kind, entity, data, loading, failed, requests, selected, pending, crossed, behind, acts>>

\* setStatus and deleteIds clear the ticks after the load, even a failed one.
EndRun(k) ==
    /\ run' = [run EXCEPT ![k] = NoRun]
    /\ loading' = FALSE
    /\ selected' = IF run[k].op \in {"status", "delete"} THEN {} ELSE selected
    /\ pending' = (pending /\ run[k].op # "status")
    /\ requests' \in IF run[k].op = "mount" THEN {requests, AllPending} ELSE {requests}
    /\ UNCHANGED <<kind, entity, acts>>

\* Fault: the rows are merged into what is there.
MergedData(r) == [x \in Entities |-> IF r.seen[x] \in EntityStatus THEN r.seen[x] ELSE data[x]]
\* setData.
DataAfterLoad(r) == r.seen

ShowEntities(k) ==
    /\ InStep(k, "read")
    /\ data' = DataAfterLoad(run[k])
    /\ behind' = IF run[k].clean THEN {} ELSE behind
    /\ crossed' = (crossed /\ ~run[k].clean)
    /\ EndRun(k) /\ UNCHANGED failed

\* The catch of reload leaves the rows alone.
DataAfterError == data

ListFails(k) ==
    /\ k \in Loads
    /\ failed' = TRUE /\ data' = DataAfterError
    /\ EndRun(k) /\ UNCHANGED <<crossed, behind>>
-----------------------------------------------------------------------------
(* Other people: sign-ups and other screens. *)

OtherWrite(x) ==
    /\ entity[x] # "gone"
    /\ \/ entity[x] = "none" /\ \E s \in {"ACTIVE", "PENDING"} : entity' = [entity EXCEPT ![x] = s]
       \/ Exists(x) /\ \E s \in {"ACTIVE", "OFF"} : entity' = [entity EXCEPT ![x] = s]
       \/ Exists(x) /\ entity' = [entity EXCEPT ![x] = "gone"]
    /\ run' = Overtaken(run)
    /\ behind' = behind \cup {x}
    /\ acts < MaxActs /\ acts' = acts + 1
    /\ UNCHANGED <<kind, data, loading, failed, requests, selected, pending, crossed>>
-----------------------------------------------------------------------------
ListClosed ==
    /\ kind \in Kinds
    /\ entity \in [Entities -> {"none", "ACTIVE"}]
    /\ data = NoTable /\ loading = TRUE /\ failed = FALSE
    /\ requests = {} /\ selected = {} /\ pending = FALSE
    /\ crossed = FALSE /\ behind = Entities /\ acts = 0

\* The screen loads when it is opened.
EntityInit ==
    /\ ListClosed
    /\ \E k \in Runs : run = [i \in Runs |->
          IF i = k THEN [op |-> "mount", to |-> "none", ids |-> {}, left |-> {}, step |-> "load",
                         seen |-> NoTable, clean |-> TRUE] ELSE NoRun]

Operate(k) ==
    \/ Bulk(k)
    \/ \E x \in Entities :
          Create(k, x) \/ EditEntity(k, x) \/ RowStatus(k, x) \/ RowDelete(k, x) \/ Decision(k, x)

Answer(k) ==
    \/ CheckDecision(k) \/ WriteDecision(k)
    \/ LoadEntities(k) \/ ListEntities(k) \/ ShowEntities(k) \/ ListFails(k)
    \/ \E x \in Entities : ServeCall(k, x) \/ ServeStray(k, x) \/ RefuseDelete(k, x) \/ Abandon(k, x)

EntityNext ==
    \/ \E S \in SUBSET Entities : TickEntities(S)
    \/ \E k \in Runs : Operate(k) \/ Answer(k)
    \/ \E x \in Entities : OtherWrite(x)

EntitySpec == EntityInit /\ [][EntityNext]_entityVars
-----------------------------------------------------------------------------
\* Every variable keeps the type its comment gives it.
EntityTypes ==
    /\ kind \in Kinds
    /\ entity \in EntityTable /\ data \in EntityTable
    /\ requests \subseteq Entities /\ selected \subseteq Entities /\ behind \subseteq Entities
    /\ loading \in BOOLEAN /\ failed \in BOOLEAN /\ pending \in BOOLEAN /\ crossed \in BOOLEAN
    /\ acts \in Nat
    /\ run \in [Runs -> Run \cup {NoRun}]

\* When nothing is under way, the screen shows every row as it is stored, but
\* for the rows that others changed or that a failed run left behind, and
\* unless the loads of two runs overlapped.  Runs may overlap otherwise.
ShownRowsAreStored ==
    (TableShown /\ ~crossed /\ \A k \in Runs : run[k] = NoRun) =>
        \A x \in Entities \ behind :
            IF Exists(x) THEN data[x] = entity[x] ELSE x \notin OnScreen

\* A row that a bulk action of any screen is about to change is on that screen,
\* or gone already, unless two loads overlapped: a tick that outlived its row
\* does no harm.
HiddenTicksAreGone ==
    ~crossed => \A x \in selected \ OnScreen : ~Exists(x)
=============================================================================
