------------------------------ MODULE AssignDesk ------------------------------
(***************************************************************************)
(* The staff's screens for unsold leads: LeadsSheetScreen (manage) or      *)
(* LeadsScreen, and the AssignLeadDialog that both open.  Lists and orders *)
(* are fetched by calls that nothing cancels, so an answer may arrive when *)
(* the operator has moved on, and a run of the dialog goes on when it is   *)
(* closed and closes the dialog there is when it ends.                     *)
(*                                                                         *)
(* What assigning and rematching do to leads is module Distribution, here  *)
(* a lead just leaves the pool.  A modal dialog keeps the operator from    *)
(* the page behind it.  Of the rows the model keeps the unsold ones, for   *)
(* one lead type (the sheet) or for all; a search may match any of them.   *)
(* Columns, sorting, progress and the delay between two leads are left out.*)
(***************************************************************************)
EXTENDS FiniteSets

CONSTANTS
    DeskLeads,  \* leads ids
    DeskType,   \* lead_type of a lead
    Lists,      \* bound: calls of leads/sheet or leads under way at once
    Fetches     \* bound: calls of orders under way at once

VARIABLES
    desk,      \* the screen that is open
    unsold,    \* leads in UNSOLD_POOL
    page,      \* what the screen shows
    lists,     \* the calls for rows
    picked,    \* selected: the leads that are ticked
    dialog,    \* AssignLeadDialog: its leads, the orders it offers, the one chosen
    fetches,   \* the calls for orders
    assigning, \* busy: the loop of assign runs
    late       \* history: the dialog got orders that were fetched for an earlier opening

deskVars == <<desk, unsold, page, lists, picked, dialog, fetches, assigning, late>>
-----------------------------------------------------------------------------
LeadTypes == {DeskType[x] : x \in DeskLeads}
\* pool: the rows that are UNSOLD_POOL.
Page == [pool : SUBSET DeskLeads, view : {"loading", "table", "error"}]

List == [step : {"sent", "read"}, pool : SUBSET DeskLeads]
NoList == [step |-> "none"]
Sent == [step |-> "sent", pool |-> {}]

Dialog == [open : BOOLEAN, leads : SUBSET DeskLeads,
           offered : LeadTypes \cup {"none"}, order : LeadTypes \cup {"none"}]

\* old: the dialog was opened again since.
Fetch == [type : LeadTypes, old : BOOLEAN]
NoFetch == [type |-> "none"]

TypesOf(S) == {DeskType[x] : x \in S}
OneType(S) == \E t \in LeadTypes : TypesOf(S) = {t}
-----------------------------------------------------------------------------
(* The rows. *)

\* load: LeadsScreen forgets its rows, LeadsSheetScreen hides them.
Load ==
    /\ \E i \in Lists : lists[i] = NoList /\ lists' = [lists EXCEPT ![i] = Sent]
    /\ page' = [pool |-> IF desk = "sheet" THEN page.pool ELSE {}, view |-> "loading"]

\* The lead types a list may be for.
Filters == {{t} : t \in LeadTypes} \cup (IF desk = "sheet" THEN {} ELSE {LeadTypes})

\* sheet and list of the leads services.
ReadRows(i) ==
    /\ lists[i].step = "sent"
    /\ \E types \in Filters :
          lists' = [lists EXCEPT ![i] =
              [step |-> "read", pool |-> {x \in unsold : DeskType[x] \in types}]]
    /\ UNCHANGED <<desk, unsold, page, picked, dialog, fetches, assigning, late>>

\* Fault: the sheet keeps the ticks over a load.
KeptTicks == picked
\* setSelected after a load; LeadsScreen keeps them.
TicksAfterLoad == IF desk = "sheet" THEN {} ELSE picked

\* The error of another load stays in front of the rows.
ShowRows(i) ==
    /\ lists[i].step = "read"
    /\ page' = [pool |-> lists[i].pool, view |-> IF page.view = "error" THEN "error" ELSE "table"]
    /\ picked' = TicksAfterLoad
    /\ lists' = [lists EXCEPT ![i] = NoList]
    /\ UNCHANGED <<desk, unsold, dialog, fetches, assigning, late>>

RowsFail(i) ==
    /\ lists[i] # NoList
    /\ page' = [page EXCEPT !.view = "error"]
    /\ lists' = [lists EXCEPT ![i] = NoList]
    /\ UNCHANGED <<desk, unsold, picked, dialog, fetches, assigning, late>>

\* A match, a run of the dialog, another operator.
LeaveThePool(x) ==
    /\ unsold' = unsold \ {x}
    /\ UNCHANGED <<desk, page, lists, picked, dialog, fetches, assigning, late>>

\* matchPool and redistributeOne end with a load, whatever is open by then.
RematchDone ==
    /\ Load
    /\ UNCHANGED <<desk, unsold, picked, dialog, fetches, assigning, late>>
-----------------------------------------------------------------------------
(* The operator on the page. *)

\* Another filter, or the Refresh button of the sheet.
Refresh ==
    /\ ~dialog.open /\ Load
    /\ UNCHANGED <<desk, unsold, picked, dialog, fetches, assigning, late>>

\* S: the unsold leads in view, or one of them.
TickRows(S, checked) ==
    /\ ~dialog.open /\ page.view = "table" /\ S # {}
    /\ picked' = IF checked THEN picked \cup S ELSE picked \ S
    /\ UNCHANGED <<desk, unsold, page, lists, dialog, fetches, assigning, late>>

ClearTicks ==
    /\ ~dialog.open /\ picked # {} /\ picked' = {}
    /\ UNCHANGED <<desk, unsold, page, lists, dialog, fetches, assigning, late>>
-----------------------------------------------------------------------------
(* The dialog. *)

\* Fault: the orders of the last opening stay.
OpenedAgain(S) == [dialog EXCEPT !.open = TRUE, !.leads = S]
\* The effect of opening clears the dialog, unless its leads have no one type.
Opened(S) == IF OneType(S)
             THEN [open |-> TRUE, leads |-> S, offered |-> "none", order |-> "none"]
             ELSE [dialog EXCEPT !.open = TRUE, !.leads = S]

FetchOrders(S) ==
    \E i \in Fetches, t \in TypesOf(S) :
        /\ fetches[i] = NoFetch
        /\ fetches' = [j \in Fetches |->
              IF j = i THEN [type |-> t, old |-> FALSE]
              ELSE IF fetches[j] = NoFetch THEN NoFetch ELSE [fetches[j] EXCEPT !.old = TRUE]]

Open(S) ==
    /\ ~dialog.open
    /\ dialog' = Opened(S)
    /\ IF OneType(S) THEN FetchOrders(S) /\ late' = FALSE ELSE UNCHANGED <<fetches, late>>
    /\ UNCHANGED <<desk, unsold, page, lists, picked, assigning>>

\* The bar above the table, with S the ticked leads in view: the sheet takes
\* them whatever their state is, even while it loads; LeadsScreen those unsold.
OpenPicked(S) ==
    /\ picked # {}
    /\ desk = "browser" => S # {} /\ S \subseteq page.pool
    /\ Open(S)

OpenRow(x) == page.view = "table" /\ x \in page.pool /\ Open({x})

\* The open orders of the lead type the call was made for.
ShowOrders(i) ==
    /\ fetches[i] # NoFetch
    /\ dialog' = [dialog EXCEPT !.offered = fetches[i].type]
    /\ late' = (late \/ fetches[i].old)
    /\ fetches' = [fetches EXCEPT ![i] = NoFetch]
    /\ UNCHANGED <<desk, unsold, page, lists, picked, assigning>>

OrdersFail(i) ==
    /\ fetches[i] # NoFetch
    /\ fetches' = [fetches EXCEPT ![i] = NoFetch]
    /\ UNCHANGED <<desk, unsold, page, lists, picked, dialog, assigning, late>>

Mixed == dialog.leads # {} /\ ~OneType(dialog.leads)

PickOrder ==
    /\ dialog.open /\ ~Mixed /\ dialog.offered # "none"
    /\ dialog' = [dialog EXCEPT !.order = dialog.offered]
    /\ UNCHANGED <<desk, unsold, page, lists, picked, fetches, assigning, late>>

Assign ==
    /\ dialog.open /\ ~assigning /\ ~Mixed
    /\ dialog.order # "none" /\ dialog.leads # {}
    /\ assigning' = TRUE
    /\ UNCHANGED <<desk, unsold, page, lists, picked, dialog, fetches, late>>

Shut == [dialog EXCEPT !.open = FALSE, !.leads = {}]

Close ==
    /\ dialog.open /\ dialog' = Shut
    /\ UNCHANGED <<desk, unsold, page, lists, picked, fetches, assigning, late>>

\* The end of assign, and onDone.
EndAssign ==
    /\ assigning /\ assigning' = FALSE
    /\ dialog' = Shut /\ picked' = {}
    /\ Load
    /\ UNCHANGED <<desk, unsold, fetches, late>>
-----------------------------------------------------------------------------
DeskClosed ==
    /\ desk \in {"sheet", "browser"}
    /\ unsold = DeskLeads
    /\ page = [pool |-> {}, view |-> "loading"]
    /\ picked = {}
    /\ dialog = [open |-> FALSE, leads |-> {}, offered |-> "none", order |-> "none"]
    /\ fetches = [i \in Fetches |-> NoFetch]
    /\ assigning = FALSE /\ late = FALSE

\* The screen loads when it is opened.
DeskInit ==
    /\ DeskClosed
    /\ \E first \in Lists : lists = [i \in Lists |-> IF i = first THEN Sent ELSE NoList]

Browse ==
    \/ Refresh \/ RematchDone \/ ClearTicks
    \/ \E S \in SUBSET page.pool, checked \in BOOLEAN : TickRows(S, checked)
    \/ \E S \in SUBSET picked : OpenPicked(S)
    \/ \E x \in DeskLeads : OpenRow(x)
RunDialog == PickOrder \/ Assign \/ EndAssign \/ Close

DeskNext ==
    \/ Browse \/ RunDialog
    \/ \E i \in Lists : ReadRows(i) \/ ShowRows(i) \/ RowsFail(i)
    \/ \E i \in Fetches : ShowOrders(i) \/ OrdersFail(i)
    \/ \E x \in DeskLeads : LeaveThePool(x)

DeskSpec == DeskInit /\ [][DeskNext]_deskVars
-----------------------------------------------------------------------------
\* Every variable keeps the type its comment gives it.
DeskTypes ==
    /\ desk \in {"sheet", "browser"}
    /\ unsold \subseteq DeskLeads
    /\ page \in Page
    /\ lists \in [Lists -> List \cup {NoList}]
    /\ picked \subseteq DeskLeads
    /\ dialog \in Dialog
    /\ fetches \in [Fetches -> Fetch \cup {NoFetch}]
    /\ assigning \in BOOLEAN /\ late \in BOOLEAN

\* Whenever the dialog is opened, the rows the screen holds show all its leads
\* as unsold, whichever answer the rows came with and whatever was ticked
\* before: the sheet unticks on every load, LeadsScreen filters what is ticked.
OnlyUnsoldLeadsAreOffered ==
    [][(dialog'.open /\ ~dialog.open) =>
          dialog'.leads \subseteq page.pool]_deskVars

\* The dialog never offers or keeps an order of another lead type than its
\* leads have, unless orders fetched for an earlier opening came in late.
OffersFitTheLeads ==
    (dialog.open /\ OneType(dialog.leads) /\ ~late) =>
        {dialog.offered, dialog.order} \subseteq TypesOf(dialog.leads) \cup {"none"}
=============================================================================
