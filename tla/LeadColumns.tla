----------------------------- MODULE LeadColumns -----------------------------
(***************************************************************************)
(* The columns of the leads sheets, a list for each lead type:             *)
(* LeadTypeColumnsService (apps/api/src/leads) and LeadColumnEditorScreen, *)
(* which loads the list of the tab it is on and patches its copy with what *)
(* each call returns.                                                      *)
(*                                                                         *)
(* A job is a call of the service, a load of the screen included; its      *)
(* steps are the statements, and a transaction is one step except for the  *)
(* locks that the first phase of reorder takes.  A step may fail: the      *)
(* checks of unique keys within an UPDATE depend on the physical order of  *)
(* the rows.  An editor is one mount of the screen.                        *)
(*                                                                         *)
(* A row is created once.  Labels, masks, visibility and the row that is   *)
(* shown as busy are left out: a save or a toggle matters for the row its  *)
(* answer brings to the screen.                                            *)
(***************************************************************************)
EXTENDS Naturals, FiniteSets

CONSTANTS
    Columns,       \* rows of lead_type_columns
    Tabs,          \* lead types
    FirstTab,      \* the lead type the screen opens with
    TypeOf,        \* lead_type of a column
    KeyOf,         \* field_key of a column
    FirstColumns,  \* positions of the columns the migration inserts
    Editors,       \* open LeadColumnEditorScreens
    Jobs,          \* bound: calls under way at once
    MaxCalls       \* bound: calls in all, loads included

ASSUME ColumnsAssumption ==
    /\ IsFiniteSet(Columns) /\ FirstTab \in Tabs /\ MaxCalls \in Nat
    /\ TypeOf \in [Columns -> Tabs] /\ DOMAIN KeyOf = Columns
    /\ FirstColumns \in [Columns -> Nat]
    /\ \A x, y \in Columns :
          /\ FirstColumns[x] = FirstColumns[y] /\ FirstColumns[x] # 0
          /\ TypeOf[x] = TypeOf[y]
          => x = y

VARIABLES
    position,      \* lead_type_columns.position, 0 where there is no row
    dropped,       \* columns that were removed
    tab,           \* leadType: the tab each screen is on
    view,          \* what it shows below the tabs
    columnDialog,  \* the column that its edit or delete dialog is about
    screen,        \* columns: the entries of its array
    job,           \* the calls under way
    fresh,         \* history: calls that listed the columns since the last write
    doubt,         \* history: own removals since the last full list, 2 if others changed it
    calls          \* counts towards MaxCalls

columnsVars == <<position, dropped, tab, view, columnDialog, screen, job, fresh, doubt, calls>>
rowVars == <<position, dropped>>
shownVars == <<tab, view, columnDialog, screen>>
-----------------------------------------------------------------------------
NoJob == [op |-> "none"]
NoColumn == "none"
Nowhere == [x \in Columns |-> 0]
FieldKeys == {KeyOf[x] : x \in Columns}
NoOrder == [f \in FieldKeys |-> {}]

Positions == [Columns -> Nat]
Entry == [col : Columns, at : Nat, index : Nat]
Job == [op : {"create", "remove", "update", "reorder", "load"}, who : Editors, type : Tabs,
        step : {"read", "write", "shift", "commit", "list", "answer"},
        col : Columns \cup {NoColumn}, at : Nat, order : [FieldKeys -> SUBSET Nat],
        moved : SUBSET Columns, rows : Positions]

Present(rows) == {x \in Columns : rows[x] # 0}
OfType(t) == {x \in Present(position) : TypeOf[x] = t}
Highest(S) == CHOOSE n \in S : \A m \in S : m <= n

\* Fault: the key (lead_type, position) is missing.
NotDistinct(rows) == TRUE
\* The key (lead_type, position).
Distinct(rows) ==
    \A x, y \in Present(rows) : TypeOf[x] = TypeOf[y] /\ rows[x] = rows[y] => x = y

Shown(e) == {r.col : r \in screen[e]}

\* The stable sort by position.
ShownBefore(r, s) == r.at < s.at \/ (r.at = s.at /\ r.index < s.index)
Rank(e, r) == Cardinality({s \in screen[e] : ShownBefore(s, r)}) + 1
IsFirst(e, r) == \A s \in screen[e] : s.col = r.col => Rank(e, r) <= Rank(e, s)

JobsOf(e) == {k \in Jobs : job[k] # NoJob /\ job[k].who = e}
At(k, op, step) == job[k] # NoJob /\ job[k].op = op /\ job[k].step = step
GoTo(k, step) == job' = [job EXCEPT ![k].step = step]

\* Rows that the transaction of another job keeps locked.
Locked(k) == UNION {job[i].moved : i \in {i \in Jobs \ {k} : job[i] # NoJob}}
-----------------------------------------------------------------------------
(* The screen sends a call. *)

Start(k, e, op, x, order) ==
    /\ job[k] = NoJob
    /\ calls < MaxCalls /\ calls' = calls + 1
    /\ job' = [job EXCEPT ![k] =
                  [op |-> op, who |-> e, type |-> tab'[e],
                   step |-> IF op = "load" THEN "list" ELSE "read", col |-> x, at |-> 0,
                   order |-> order, moved |-> {}, rows |-> Nowhere]]
    /\ doubt' = IF op # "load" /\ JobsOf(e) = {} THEN doubt ELSE [doubt EXCEPT ![e] = 2]
    /\ columnDialog' = [columnDialog EXCEPT ![e] = NoColumn]
    /\ UNCHANGED <<rowVars, screen, fresh>>

\* load: on the mount, and when a tab is chosen, whatever is under way.
StartLoad(k, e, t) ==
    /\ tab' = [tab EXCEPT ![e] = t]
    /\ view' = [view EXCEPT ![e] = "loading"]
    /\ Start(k, e, "load", NoColumn, NoOrder)

OpenEditor(k, e) == view[e] = "closed" /\ StartLoad(k, e, FirstTab)

ChooseTab(k, e, t) ==
    /\ view[e] # "closed" /\ columnDialog[e] = NoColumn
    /\ t # tab[e]
    /\ StartLoad(k, e, t)

\* The buttons of the rows; a dialog covers them, and the tabs.
RowsAreThere(e) == view[e] = "table" /\ columnDialog[e] = NoColumn

OpenColumnDialog(e, x) ==
    /\ RowsAreThere(e) /\ x \in Shown(e)
    /\ columnDialog' = [columnDialog EXCEPT ![e] = x]
    /\ UNCHANGED <<rowVars, tab, view, screen, job, fresh, doubt, calls>>

\* A call may be sent from a dialog when its column is not on the screen any
\* more; the dialog can be closed before the answer is there.
CloseColumnDialog(e) ==
    /\ columnDialog[e] # NoColumn
    /\ columnDialog' = [columnDialog EXCEPT ![e] = NoColumn]
    /\ UNCHANGED <<rowVars, tab, view, screen, job, fresh, doubt, calls>>

SendCall(k, e, op, x, order) == UNCHANGED <<tab, view>> /\ Start(k, e, op, x, order)

StartCreate(k, e, x) ==
    /\ view[e] # "closed" /\ columnDialog[e] = NoColumn
    /\ position[x] = 0 /\ x \notin dropped /\ TypeOf[x] = tab[e]
    /\ SendCall(k, e, "create", x, NoOrder)

StartRemove(k, e, x) == columnDialog[e] = x /\ SendCall(k, e, "remove", x, NoOrder)

StartUpdate(k, e, x) ==
    /\ columnDialog[e] = x \/ (RowsAreThere(e) /\ x \in Shown(e))
    /\ SendCall(k, e, "update", x, NoOrder)

\* move: the entries n and n + 1 change places; the row that is moved is looked
\* up by its column.  The order gives each key the places it is listed at.
Swapped(i, n) == CASE i = n -> n + 1 [] i = n + 1 -> n [] OTHER -> i

StartMove(k, e, n) ==
    /\ RowsAreThere(e)
    /\ n < Cardinality(screen[e])
    /\ \E r \in screen[e] : Rank(e, r) \in {n, n + 1} /\ IsFirst(e, r)
    /\ SendCall(k, e, "reorder", NoColumn,
            [f \in FieldKeys |->
                {Swapped(Rank(e, r), n) : r \in {s \in screen[e] : KeyOf[s.col] = f}}])
-----------------------------------------------------------------------------
(* The service. *)

End(k) == job' = [job EXCEPT ![k] = NoJob]

\* What the others show, or have read, is not what is stored any more.
Disturb(e, own) ==
    /\ doubt' = [f \in Editors |-> IF f = e THEN own ELSE 2]
    /\ fresh' = {}

\* create: the position after the last one.
ReadLast(k) ==
    /\ At(k, "create", "read")
    /\ job' = [job EXCEPT ![k].step = "write",
                          ![k].at = Highest({0} \cup {position[x] : x \in OfType(job[k].type)}) + 1]
    /\ UNCHANGED <<rowVars, shownVars, fresh, doubt, calls>>

InsertColumn(k) ==
    LET j == job[k] IN
    /\ At(k, "create", "write")
    /\ position[j.col] = 0
    /\ \A y \in OfType(j.type) : position[y] # j.at /\ KeyOf[y] # KeyOf[j.col]
    /\ position' = [position EXCEPT ![j.col] = j.at]
    /\ GoTo(k, "answer")
    /\ Disturb(j.who, doubt[j.who])
    /\ UNCHANGED <<dropped, shownVars, calls>>

\* remove: the row, and its position, before the transaction.
ReadRow(k) ==
    /\ At(k, "remove", "read")
    /\ position[job[k].col] # 0
    /\ job' = [job EXCEPT ![k].step = "write", ![k].at = position[job[k].col]]
    /\ UNCHANGED <<rowVars, shownVars, fresh, doubt, calls>>

Renumbered(rows, x, at) ==
    [y \in Columns |-> CASE y = x -> 0
                         [] y # x /\ TypeOf[y] = TypeOf[x] /\ rows[y] > at -> rows[y] - 1
                         [] OTHER -> rows[y]]

RemoveColumn(k) ==
    LET j == job[k] IN
    /\ At(k, "remove", "write")
    /\ position[j.col] # 0
    /\ j.col \notin Locked(k)
    /\ \A x \in Locked(k) : TypeOf[x] = TypeOf[j.col] => position[x] <= j.at
    /\ position' = Renumbered(position, j.col, j.at)
    /\ Distinct(position')
    /\ dropped' = dropped \cup {j.col}
    /\ GoTo(k, "answer")
    /\ Disturb(j.who, IF doubt[j.who] = 0 THEN 1 ELSE 2)
    /\ UNCHANGED <<shownVars, calls>>

\* update leaves the position alone and returns the row.
UpdateColumn(k) ==
    LET j == job[k] IN
    /\ At(k, "update", "read")
    /\ position[j.col] # 0 /\ j.col \notin Locked(k)
    /\ job' = [job EXCEPT ![k].step = "answer", ![k].at = position[j.col]]
    /\ UNCHANGED <<rowVars, shownVars, fresh, doubt, calls>>

\* reorder: as many keys as there are columns, each of a column of the type.
Places(order) == UNION {order[f] : f \in FieldKeys}
Names(order, S) == \A f \in FieldKeys : order[f] # {} => \E x \in S : KeyOf[x] = f

ReadKeys(k) ==
    LET j == job[k] IN
    /\ At(k, "reorder", "read")
    /\ Cardinality(Places(j.order)) = Cardinality(OfType(j.type))
    /\ Names(j.order, OfType(j.type))
    /\ GoTo(k, "shift")
    /\ UNCHANGED <<rowVars, shownVars, fresh, doubt, calls>>

\* Phase 1 locks the rows there are by now; nobody sees that it moves them.
Shift(k) ==
    LET rows == OfType(job[k].type) IN
    /\ At(k, "reorder", "shift")
    /\ rows \cap Locked(k) = {}
    /\ job' = [job EXCEPT ![k].step = "commit", ![k].moved = rows]
    /\ UNCHANGED <<rowVars, shownVars, fresh, doubt, calls>>

\* Phase 2 gives a column the last place it is listed at; one that phase 1 has
\* moved and the list does not name stays 10000 further down.
Reordered(rows, j) ==
    [x \in Columns |-> IF x \notin j.moved THEN rows[x]
                       ELSE IF j.order[KeyOf[x]] # {} THEN Highest(j.order[KeyOf[x]])
                       ELSE rows[x] + 10000]

CommitOrder(k) ==
    LET j == job[k] IN
    /\ At(k, "reorder", "commit")
    /\ Names(j.order, j.moved)
    /\ \A x \in OfType(j.type) \ j.moved : position[x] \notin Places(j.order)
    /\ position' = Reordered(position, j)
    /\ Distinct(position')
    /\ job' = [job EXCEPT ![k].step = "list", ![k].moved = {}, ![k].order = NoOrder]
    /\ Disturb(j.who, 2)
    /\ UNCHANGED <<dropped, shownVars, calls>>

RowsOf(t) == [x \in Columns |-> IF TypeOf[x] = t THEN position[x] ELSE 0]

\* listAll: what a load, and a reorder at its end, return.
ListAll(k) ==
    /\ At(k, "reorder", "list") \/ At(k, "load", "list")
    /\ job' = [job EXCEPT ![k].step = "answer", ![k].rows = RowsOf(job[k].type)]
    /\ fresh' = fresh \cup {k}
    /\ UNCHANGED <<rowVars, shownVars, doubt, calls>>

\* A check refuses the call, a statement fails, or the answer is lost.
FailJob(k) ==
    LET j == job[k] IN
    /\ job[k] # NoJob
    /\ End(k)
    /\ fresh' = fresh \ {k}
    /\ doubt' = IF j.step \in {"list", "answer"} THEN [doubt EXCEPT ![j.who] = 2] ELSE doubt
    /\ view' = IF j.op = "load" THEN [view EXCEPT ![j.who] = "error"] ELSE view
    /\ UNCHANGED <<rowVars, tab, columnDialog, screen, calls>>
-----------------------------------------------------------------------------
(* The screen gets an answer. *)

FullList(rows) == {[col |-> x, at |-> rows[x], index |-> rows[x]] : x \in Present(rows)}
NextIndex(e) == Highest({0} \cup {r.index : r \in screen[e]}) + 1

\* Fault: a new column goes to the front of the array.
PatchedInFront(e, j) ==
    CASE j.op = "create" -> {[r EXCEPT !.index = @ + 1] : r \in screen[e]}
                            \cup {[col |-> j.col, at |-> j.at, index |-> 1]}
      [] j.op = "remove" -> {r \in screen[e] : r.col # j.col}
      [] j.op = "update" -> {IF r.col = j.col THEN [r EXCEPT !.at = j.at] ELSE r : r \in screen[e]}
      [] j.op \in {"reorder", "load"} -> FullList(j.rows)
\* handleSave, handleDelete, toggleVisible, move and load.
Patched(e, j) ==
    CASE j.op = "create" -> screen[e] \cup {[col |-> j.col, at |-> j.at, index |-> NextIndex(e)]}
      [] j.op = "remove" -> {r \in screen[e] : r.col # j.col}
      [] j.op = "update" -> {IF r.col = j.col THEN [r EXCEPT !.at = j.at] ELSE r : r \in screen[e]}
      [] j.op \in {"reorder", "load"} -> FullList(j.rows)

\* The answer is taken for the list on the screen, whatever tab it is on by now.
AnswerEditor(k) ==
    LET j == job[k]
        e == j.who
    IN
    /\ job[k] # NoJob /\ j.step = "answer"
    /\ screen' = [screen EXCEPT ![e] = Patched(e, j)]
    /\ view' = IF j.op = "load" /\ view[e] = "loading" THEN [view EXCEPT ![e] = "table"] ELSE view
    /\ End(k)
    /\ fresh' = fresh \ {k}
    /\ doubt' = IF j.op \notin {"reorder", "load"} THEN doubt
                ELSE [doubt EXCEPT ![e] =
                        IF k \in fresh /\ JobsOf(e) = {k} /\ j.type = tab[e] THEN 0 ELSE 2]
    /\ UNCHANGED <<rowVars, tab, columnDialog, calls>>
-----------------------------------------------------------------------------
ColumnsInit ==
    /\ position = FirstColumns
    /\ dropped = {}
    /\ tab = [e \in Editors |-> FirstTab]
    /\ view = [e \in Editors |-> "closed"]
    /\ columnDialog = [e \in Editors |-> NoColumn]
    /\ screen = [e \in Editors |-> {}]
    /\ job = [k \in Jobs |-> NoJob]
    /\ fresh = {}
    /\ doubt = [e \in Editors |-> 2]
    /\ calls = 0

Edit(k, e) ==
    \/ OpenEditor(k, e)
    \/ \E t \in Tabs : ChooseTab(k, e, t)
    \/ \E x \in Columns : StartCreate(k, e, x) \/ StartRemove(k, e, x) \/ StartUpdate(k, e, x)
    \/ \E n \in 1 .. Cardinality(screen[e]) : StartMove(k, e, n)

Work(k) ==
    \/ ReadLast(k) \/ InsertColumn(k) \/ ReadRow(k) \/ RemoveColumn(k) \/ UpdateColumn(k)
    \/ ReadKeys(k) \/ Shift(k) \/ CommitOrder(k) \/ ListAll(k) \/ FailJob(k) \/ AnswerEditor(k)

ColumnsNext ==
    \/ \E e \in Editors : CloseColumnDialog(e) \/ \E x \in Columns : OpenColumnDialog(e, x)
    \/ \E e \in Editors, k \in Jobs : Edit(k, e)
    \/ \E k \in Jobs : Work(k)

ColumnsSpec == ColumnsInit /\ [][ColumnsNext]_columnsVars
-----------------------------------------------------------------------------
\* Every variable keeps the type its comment gives it.
ColumnsTypes ==
    /\ position \in Positions
    /\ dropped \subseteq Columns
    /\ tab \in [Editors -> Tabs]
    /\ view \in [Editors -> {"closed", "loading", "table", "error"}]
    /\ columnDialog \in [Editors -> Columns \cup {NoColumn}]
    /\ screen \in [Editors -> SUBSET Entry]
    /\ job \in [Jobs -> Job \cup {NoJob}]
    /\ fresh \subseteq Jobs
    /\ doubt \in [Editors -> 0 .. 2]
    /\ calls \in Nat

\* Whatever calls overlap, creating and removing columns never change the order
\* of the others of their type: only a reorder does, although remove renumbers
\* from a position it read before its transaction.
OrderIsStable ==
    [][(position' # position /\ ~ \E k \in Jobs : At(k, "reorder", "commit") /\ job'[k] # job[k])
          => \A x, y \in Columns :
                (/\ TypeOf[x] = TypeOf[y]
                 /\ position[x] # 0 /\ position'[x] # 0
                 /\ position[x] < position[y] /\ position'[y] # 0)
                    => position'[x] < position'[y]]_columnsVars

\* An editor whose calls are all answered shows the columns of its tab, each
\* once and in the order they are stored in, if nobody has overtaken it and it
\* removed at most one column since its last full list, though the positions it
\* keeps are not renumbered by its removals.  The list is taken from the last
\* answer to arrive, so a load that a choice of tab, or another call, has
\* overlapped settles the screen only when it is the tab's and the last.
ShownOrderIsStored ==
    \A e \in Editors : (doubt[e] < 2 /\ JobsOf(e) = {}) =>
        /\ Shown(e) = OfType(tab[e])
        /\ \A r, s \in screen[e] : ShownBefore(r, s) <=> position[r.col] < position[s.col]
=============================================================================
