------------------------------ MODULE OrderDesk ------------------------------
(***************************************************************************)
(* The screens on which orders and replacements are decided: OrdersScreen  *)
(* (an agent uploads a proof of payment, an administrator reviews it, both *)
(* cancel) and ReplacementsScreen (a reviewer approves or denies).         *)
(*                                                                         *)
(* One busyId stands for all rows: an action on another row takes it over, *)
(* and whichever action ends clears it.  The two dialogs have a busy flag  *)
(* of their own, which is gone when they are closed; whichever of their    *)
(* calls succeeds closes the dialog that is open by then.                  *)
(*                                                                         *)
(* A service checks and writes in one step here; module Orders takes that  *)
(* apart.  The steps of a running order, the files and the forms are left  *)
(* out.                                                                    *)
(***************************************************************************)
EXTENDS Naturals

CONSTANTS
    DeskOrders,  \* orders, or replacements
    Actions,     \* bound: calls of the screen under way at once
    MaxActions   \* bound: calls of the screen and writes of others in all

ASSUME OrderDeskAssumption == MaxActions \in Nat

VARIABLES
    role,          \* whose screen it is
    status,        \* the status of an order, "none" before it exists
    writes,        \* how many calls of the screen were carried out on an order
    rows,          \* useResource: the status on the screen, and writes as of then
    tableLoading,  \* useResource: a skeleton is shown
    tableFailed,   \* useResource: an error is shown
    busyId,        \* the row whose buttons are disabled
    modal,         \* the dialog or prompt that is open
    action,        \* the calls under way
    known,         \* history: writes as of the last answer
    loose,         \* history: orders whose busy mark was lost while a call was under way
    overlapped,    \* history: two loads overlapped
    actions        \* counts towards MaxActions

orderDeskVars == <<role, status, writes, rows, tableLoading, tableFailed, busyId, modal, action,
                   known, loose, overlapped, actions>>
-----------------------------------------------------------------------------
Roles == {"AGENT", "ADMIN", "CLIENT", "REVIEWER"}

\* RUNNING: ACTIVE, FULFILLING, PAUSED.  REQUESTED: also REVIEW of a replacement.
OpenStatuses == {"AWAITING_PAYMENT", "PROOF_SUBMITTED", "RUNNING", "REQUESTED"}
OrderStatuses == OpenStatuses \cup {"none", "ENDED"}
Row == [status : OrderStatuses, writes : Nat]
Table == [DeskOrders -> Row]

\* rowActions.
Buttons(s) ==
    CASE role = "AGENT" /\ s = "AWAITING_PAYMENT" -> {"upload", "cancel"}
      [] role = "ADMIN" /\ s = "PROOF_SUBMITTED" -> {"review", "cancel"}
      [] role = "ADMIN" /\ s = "AWAITING_PAYMENT" -> {"reject", "cancel"}
      [] role = "ADMIN" /\ s = "RUNNING" -> {"cancel"}
      [] role = "REVIEWER" /\ s = "REQUESTED" -> {"approve", "deny"}
      [] OTHER -> {}

Prompts == {"cancel", "reject", "deny"}
Dialogs == {"upload", "review"}

\* proof: of the review.  shaky: opened on a row that may have been outdated.
Modal == [order : DeskOrders, asks : Prompts \cup Dialogs, proof : {"loading", "there", "failed"},
          busy : BOOLEAN, writes : Nat, shaky : BOOLEAN]
NoModal == [asks |-> "none"]

\* mine: the dialog that sent the call is still open.
\* alone: no other load was under way since this one began.
Action == [order : DeskOrders, op : Prompts \cup {"upload", "accept", "approve", "place"},
           via : {"row", "dialog", "form"}, step : {"sent", "served", "load", "read"},
           mine : BOOLEAN, seen : Table, alone : BOOLEAN]
NoAction == [op |-> "none"]

InFlight(o) == {k \in Actions : action[k] # NoAction /\ action[k].order = o}
Loading == {k \in Actions : action[k] # NoAction /\ action[k].step \in {"load", "read"}}
TableUp == ~tableLoading /\ ~tableFailed

Send(k, o, op, via) ==
    /\ action[k] = NoAction
    /\ action' = [action EXCEPT ![k] = [order |-> o, op |-> op, via |-> via, step |-> "sent",
                                        mine |-> TRUE, seen |-> rows, alone |-> TRUE]]
    /\ actions < MaxActions /\ actions' = actions + 1

\* setBusyId(id): the row that had the mark loses it.
TakeBusy(o) ==
    /\ busyId' = o
    /\ loose' = IF busyId \in DeskOrders \ {o} THEN loose \cup {busyId} ELSE loose
-----------------------------------------------------------------------------
(* The operator. *)

\* onCreate.
Place(k, o) ==
    /\ role = "CLIENT" /\ status[o] = "none" /\ InFlight(o) = {}
    /\ Send(k, o, "place", "form")
    /\ UNCHANGED <<role, status, writes, rows, tableLoading, tableFailed, busyId, modal, known, loose, overlapped>>

Clickable(o) == TableUp /\ modal = NoModal /\ busyId # o

\* A button that opens a prompt or a dialog.
OpenModal(o, asks) ==
    /\ Clickable(o) /\ asks \in Buttons(rows[o].status) \cap (Prompts \cup Dialogs)
    /\ modal' = [order |-> o, asks |-> asks, proof |-> "loading", busy |-> FALSE,
                 writes |-> rows[o].writes, shaky |-> overlapped \/ o \in loose]
    /\ UNCHANGED <<role, status, writes, rows, tableLoading, tableFailed, busyId, action, known, loose,
                   overlapped, actions>>

\* review without a prompt.
Approve(k, o) ==
    /\ Clickable(o) /\ "approve" \in Buttons(rows[o].status)
    /\ Send(k, o, "approve", "row") /\ TakeBusy(o)
    /\ UNCHANGED <<role, status, writes, rows, tableLoading, tableFailed, modal, known, overlapped>>

\* The prompt resolves with a note, and runAction sends the call.
SubmitPrompt(k) ==
    /\ modal.asks \in Prompts
    /\ Send(k, modal.order, modal.asks, "row") /\ TakeBusy(modal.order)
    /\ modal' = NoModal
    /\ UNCHANGED <<role, status, writes, rows, tableLoading, tableFailed, known, overlapped>>

\* The effect of ReviewPaymentDialog.
ProofLoaded(proof) ==
    /\ modal.asks = "review" /\ modal.proof = "loading"
    /\ modal' = [modal EXCEPT !.proof = proof]
    /\ UNCHANGED <<role, status, writes, rows, tableLoading, tableFailed, busyId, action, known, loose,
                   overlapped, actions>>

\* handle, confirmReject and accept, which waits for the proof or its error.
DialogOps == IF modal.asks = "upload" THEN {"upload"}
             ELSE IF modal.proof = "loading" THEN {"reject"} ELSE {"reject", "accept"}

SubmitDialog(k) ==
    /\ modal.asks \in Dialogs /\ ~modal.busy
    /\ \E op \in DialogOps : Send(k, modal.order, op, "dialog")
    /\ modal' = [modal EXCEPT !.busy = TRUE]
    /\ UNCHANGED <<role, status, writes, rows, tableLoading, tableFailed, busyId, known, loose, overlapped>>

Orphaned(calls) == [k \in Actions |->
    IF calls[k] # NoAction THEN [calls[k] EXCEPT !.mine = FALSE] ELSE NoAction]

\* A dialog is closed while its call is under way, too.
CloseModal ==
    /\ modal # NoModal /\ modal' = NoModal
    /\ loose' = IF modal.busy THEN loose \cup {modal.order} ELSE loose
    /\ action' = Orphaned(action)
    /\ UNCHANGED <<role, status, writes, rows, tableLoading, tableFailed, busyId, known, overlapped, actions>>
-----------------------------------------------------------------------------
(* The services. *)

\* The statuses that an operation is allowed in.
AllowedIn(op) ==
    CASE op = "place" -> {"none"}
      [] op = "upload" -> {"AWAITING_PAYMENT"}
      [] op = "accept" -> {"PROOF_SUBMITTED"}
      [] op = "reject" -> {"AWAITING_PAYMENT", "PROOF_SUBMITTED"}
      [] op = "cancel" -> IF role = "AGENT" THEN {"AWAITING_PAYMENT"} ELSE OpenStatuses
      [] op \in {"approve", "deny"} -> {"REQUESTED"}

Becomes(op) ==
    CASE op = "place" -> "AWAITING_PAYMENT"
      [] op = "upload" -> "PROOF_SUBMITTED"
      [] op = "accept" -> "RUNNING"
      [] OTHER -> "ENDED"

ServeAction(k) ==
    LET o == action[k].order IN
    /\ action[k] # NoAction /\ action[k].step = "sent"
    /\ status[o] \in AllowedIn(action[k].op)
    /\ status' = [status EXCEPT ![o] = Becomes(action[k].op)]
    /\ writes' = [writes EXCEPT ![o] = @ + 1]
    /\ action' = [action EXCEPT ![k].step = "served"]
    /\ UNCHANGED <<role, rows, tableLoading, tableFailed, busyId, modal, known, loose, overlapped, actions>>

\* Another screen.
OtherMoves(o) ==
    /\ \E op \in {"upload", "accept", "reject", "cancel", "deny"} :
          status[o] \in AllowedIn(op) /\ status' = [status EXCEPT ![o] = Becomes(op)]
    /\ actions < MaxActions /\ actions' = actions + 1
    /\ UNCHANGED <<role, writes, rows, tableLoading, tableFailed, busyId, modal, action, known, loose, overlapped>>
-----------------------------------------------------------------------------
(* The answers. *)

\* onDone closes the dialog that is open by now, be it another with a call of its own.
CloseDialog(k) ==
    IF action[k].via = "dialog" /\ modal.asks \in Dialogs
    THEN /\ modal' = NoModal
         /\ loose' = IF modal.busy /\ ~action[k].mine THEN loose \cup {modal.order} ELSE loose
    ELSE UNCHANGED <<modal, loose>>

\* The call goes on as a load of the list.
Reloading(k) ==
    [(IF action[k].via = "dialog" THEN Orphaned(action) ELSE action)
        EXCEPT ![k].step = "load", ![k].alone = (Loading = {})]

\* Fault: onDone does not load.
AnsweredOnly(k) ==
    /\ action' = [action EXCEPT ![k] = NoAction]
    /\ UNCHANGED <<overlapped, tableLoading, tableFailed>>
\* reload.
LoadsAgain(k) ==
    /\ action' = [i \in Actions |->
          IF i \in Loading THEN [action[i] EXCEPT !.alone = FALSE] ELSE Reloading(k)[i]]
    /\ overlapped' = (overlapped \/ Loading # {})
    /\ tableLoading' = TRUE /\ tableFailed' = FALSE

AnswerAction(k) ==
    /\ action[k] # NoAction /\ action[k].step = "served"
    /\ known' = [known EXCEPT ![action[k].order] = writes[action[k].order]]
    /\ CloseDialog(k) /\ LoadsAgain(k)
    /\ UNCHANGED <<role, status, writes, rows, busyId, actions>>

ListOrders(k) ==
    /\ action[k] # NoAction /\ action[k].step = "load"
    /\ action' = [action EXCEPT ![k].step = "read",
                                ![k].seen = [o \in DeskOrders |-> [status |-> status[o], writes |-> writes[o]]]]
    /\ UNCHANGED <<role, status, writes, rows, tableLoading, tableFailed, busyId, modal, known, loose,
                   overlapped, actions>>

\* setBusyId(null) of runAction: another row that has a call under way loses its mark.
EndAction(k) ==
    LET row == action[k].via = "row"
        o == action[k].order
        freed == {p \in DeskOrders \ {o} : \E i \in InFlight(p) : action[i].via = "row"}
    IN
    /\ action' = [action EXCEPT ![k] = NoAction]
    /\ busyId' = IF row THEN "none" ELSE busyId
    /\ loose' = (IF row THEN loose \cup freed ELSE loose) \ (IF InFlight(o) = {k} THEN {o} ELSE {})

ShowOrderRows(k) ==
    /\ action[k] # NoAction /\ action[k].step = "read"
    /\ rows' = action[k].seen
    /\ tableLoading' = FALSE
    /\ overlapped' = (overlapped /\ ~action[k].alone)
    /\ EndAction(k)
    /\ UNCHANGED <<role, status, writes, tableFailed, modal, known, actions>>

OrderRowsFail(k) ==
    /\ k \in Loading
    /\ tableFailed' = TRUE /\ tableLoading' = FALSE
    /\ EndAction(k)
    /\ UNCHANGED <<role, status, writes, rows, modal, known, overlapped, actions>>

\* The call is refused, or its answer is lost: an error is shown, the dialog stays.
ActionFails(k) ==
    /\ action[k] # NoAction /\ action[k].step \in {"sent", "served"}
    /\ modal' = IF action[k].via = "dialog" /\ action[k].mine THEN [modal EXCEPT !.busy = FALSE] ELSE modal
    /\ EndAction(k)
    /\ UNCHANGED <<role, status, writes, rows, tableLoading, tableFailed, known, overlapped, actions>>
-----------------------------------------------------------------------------
OrderDeskInit ==
    /\ role \in Roles
    /\ status \in [DeskOrders -> IF role = "REVIEWER" THEN {"REQUESTED"}
                                 ELSE {"none", "AWAITING_PAYMENT", "PROOF_SUBMITTED"}]
    /\ writes = [o \in DeskOrders |-> 0] /\ known = writes
    /\ rows = [o \in DeskOrders |-> [status |-> status[o], writes |-> 0]]
    /\ tableLoading = FALSE /\ tableFailed = FALSE
    /\ busyId = "none" /\ modal = NoModal
    /\ action = [k \in Actions |-> NoAction]
    /\ loose = {} /\ overlapped = FALSE /\ actions = 0

DecideOrder(k) ==
    \/ \E o \in DeskOrders : Place(k, o) \/ Approve(k, o)
    \/ SubmitPrompt(k) \/ SubmitDialog(k)

Settle(k) ==
    \/ ServeAction(k) \/ AnswerAction(k) \/ ActionFails(k)
    \/ ListOrders(k) \/ ShowOrderRows(k) \/ OrderRowsFail(k)

OrderDeskNext ==
    \/ \E k \in Actions : DecideOrder(k) \/ Settle(k)
    \/ \E o \in DeskOrders :
          OtherMoves(o) \/ \E asks \in Prompts \cup Dialogs : OpenModal(o, asks)
    \/ \E proof \in {"there", "failed"} : ProofLoaded(proof)
    \/ CloseModal

OrderDeskSpec == OrderDeskInit /\ [][OrderDeskNext]_orderDeskVars
-----------------------------------------------------------------------------
\* Every variable keeps the type its comment gives it.
OrderDeskTypes ==
    /\ role \in Roles /\ status \in [DeskOrders -> OrderStatuses]
    /\ writes \in [DeskOrders -> Nat] /\ known \in [DeskOrders -> Nat]
    /\ rows \in Table
    /\ tableLoading \in BOOLEAN /\ tableFailed \in BOOLEAN /\ overlapped \in BOOLEAN
    /\ busyId \in DeskOrders \cup {"none"} /\ loose \subseteq DeskOrders
    /\ modal \in Modal \cup {NoModal}
    /\ action \in [Actions -> Action \cup {NoAction}]
    /\ actions \in 0..MaxActions

\* What an operator is about to do to an order is based on a row that shows what
\* the operator's own answered calls did to it: a dialog, a prompt or an enabled
\* button never invites to decide once more what is decided.  Excepted are
\* overlapping loads, and a dialog or prompt for an order whose busy mark was
\* lost (to an action on another row, or because its dialog was closed) while
\* its call was under way.
NothingIsDecidedTwice ==
    /\ (modal # NoModal /\ ~modal.shaky)
          => modal.writes >= known[modal.order]
    /\ (TableUp /\ ~overlapped) => \A o \in DeskOrders : rows[o].writes >= known[o]
=============================================================================
