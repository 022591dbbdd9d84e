------------------------------ MODULE PriceGrid ------------------------------
(***************************************************************************)
(* The price list: PricingScreen shows it as a grid that super admins edit *)
(* and send back whole, and PricingService.replace reads what is stored,   *)
(* writes the new list and records both in the audit trail, in three       *)
(* statements (apps/api/src/pricing).                                      *)
(*                                                                         *)
(* The grid is loaded once and never again, the button waits for a save    *)
(* but the cells do not, and a price that was never set is shown, and sent *)
(* back, as 0.  The audit trail keeps its last entry only.                 *)
(***************************************************************************)
EXTENDS Naturals

CONSTANTS
    Cells,    \* lead types and delivery modes
    Amounts,  \* prices
    Grids,    \* open PricingScreens
    Saves,    \* bound: saves in all
    MaxEdits, \* bound: prices entered in all
    Unset,    \* no price
    FirstPrices  \* the lists that may be stored at first

VARIABLES
    price,     \* the setting lead_prices
    grid,      \* prices of a screen
    saving,    \* the save a screen waits for
    save,      \* PUT pricing/leads
    entry,     \* the last audit entry of the price list
    due,       \* history: what was last entered for a cell, and stored
    lost,      \* history: cells that a grid loaded earlier has set back
    tangled,   \* history: the list stored is not the one last recorded
    edits      \* counts towards MaxEdits

priceVars == <<price, grid, saving, save, entry, due, lost, tangled, edits>>
-----------------------------------------------------------------------------
PriceList == [Cells -> Amounts \cup {Unset}]
FullPrices == [Cells -> Amounts]

\* fresh: cells whose stored price has not changed since the list was read.
\* entered, retyped: cells edited since they were loaded or saved, and since the last save began.
Grid == [step : {"read", "shown"}, cells : FullPrices,
         fresh : SUBSET Cells, entered : SUBSET Cells, retyped : SUBSET Cells]
NotOpen == [step |-> "closed"]

\* alone: no other save was served at the same time.
Save == [step : {"sent", "read", "written"}, list : FullPrices, before : PriceList,
         fresh : SUBSET Cells, entered : SUBSET Cells, alone : BOOLEAN]
NoSave == [step |-> "none"]
Over == {[step |-> "done"], [step |-> "failed"]}
Idle == "idle"

ASSUME PriceAssumption ==
    /\ MaxEdits \in Nat /\ 0 \in Amounts /\ Unset \notin Amounts /\ Idle \notin Saves
    /\ FirstPrices \subseteq PriceList

OnTheWay == {k \in Saves : save[k].step \in {"sent", "read", "written"}}
Served == {k \in Saves : save[k].step \in {"read", "written"}}
OnShow(g) == grid[g].step = "shown"

\* A price that is not set is 0 on the grid.
ShownPrice(amount) == IF amount = Unset THEN 0 ELSE amount
-----------------------------------------------------------------------------
(* PricingScreen. *)

\* The effect of a new screen: the list is read ...
LoadPrices(g) ==
    /\ grid[g] = NotOpen
    /\ grid' = [grid EXCEPT ![g] = [step |-> "read", cells |-> [c \in Cells |-> ShownPrice(price[c])],
                                    fresh |-> Cells, entered |-> {}, retyped |-> {}]]
    /\ UNCHANGED <<price, saving, save, entry, due, lost, tangled, edits>>

\* ... and shown when the answer is there.
ShowPrices(g) ==
    /\ grid[g].step = "read"
    /\ grid' = [grid EXCEPT ![g].step = "shown"]
    /\ UNCHANGED <<price, saving, save, entry, due, lost, tangled, edits>>

\* The load fails, or the screen is left, whatever it waits for.
LeavePrices(g) ==
    /\ grid[g] # NotOpen
    /\ grid' = [grid EXCEPT ![g] = NotOpen]
    /\ saving' = [saving EXCEPT ![g] = Idle]
    /\ UNCHANGED <<price, save, entry, due, lost, tangled, edits>>

SetPrice(g, c, amount) ==
    /\ OnShow(g)
    /\ grid' = [grid EXCEPT ![g].cells[c] = amount,
                            ![g].entered = @ \cup {c}, ![g].retyped = @ \cup {c}]
    /\ edits < MaxEdits /\ edits' = edits + 1
    /\ UNCHANGED <<price, saving, save, entry, due, lost, tangled>>

\* onSubmit.
SubmitPrices(g, k) ==
    /\ OnShow(g) /\ saving[g] = Idle /\ save[k] = NoSave
    /\ save' = [save EXCEPT ![k] = [step |-> "sent", list |-> grid[g].cells, before |-> price,
                                    fresh |-> grid[g].fresh, entered |-> grid[g].entered,
                                    alone |-> FALSE]]
    /\ saving' = [saving EXCEPT ![g] = k]
    /\ grid' = [grid EXCEPT ![g].retyped = {}]
    /\ UNCHANGED <<price, entry, due, lost, tangled, edits>>

\* The answer of the save; what was typed meanwhile is not saved.
PricesSaved(g) ==
    /\ saving[g] # Idle /\ save[saving[g]].step = "done"
    /\ saving' = [saving EXCEPT ![g] = Idle]
    /\ grid' = [grid EXCEPT ![g].entered = grid[g].retyped]
    /\ UNCHANGED <<price, save, entry, due, lost, tangled, edits>>

\* The answer is an error or is lost, whatever became of the save.
SaveUnanswered(g) ==
    /\ saving[g] # Idle
    /\ saving' = [saving EXCEPT ![g] = Idle]
    /\ UNCHANGED <<price, grid, save, entry, due, lost, tangled, edits>>
-----------------------------------------------------------------------------
(* PricingService.replace. *)

ReadPrevious(k) ==
    /\ save[k].step = "sent"
    /\ save' = [j \in Saves |->
          IF j = k THEN [save[k] EXCEPT !.step = "read", !.before = price, !.alone = (Served = {})]
          ELSE IF j \in Served THEN [save[j] EXCEPT !.alone = FALSE] ELSE save[j]]
    /\ tangled' = (tangled \/ Served # {})
    /\ UNCHANGED <<price, grid, saving, entry, due, lost, edits>>

\* Fault: a price of zero is taken for a price that is missing.
Truthy(k) == [c \in Cells |-> IF save[k].list[c] = 0 THEN price[c] ELSE save[k].list[c]]
\* The whole list is replaced.
Replaced(k) == save[k].list

Changed(k) == {c \in Cells : Replaced(k)[c] # price[c]}

\* upsert.  The screen that sent the list shows what is stored now.
WritePrices(k) ==
    /\ save[k].step = "read"
    /\ price' = Replaced(k)
    /\ save' = [j \in Saves |->
          IF j = k THEN [save[k] EXCEPT !.step = "written"]
          ELSE IF j \in OnTheWay THEN [save[j] EXCEPT !.fresh = @ \ Changed(k)] ELSE save[j]]
    /\ grid' = [g \in Grids |->
          IF grid[g] = NotOpen THEN NotOpen
          ELSE [grid[g] EXCEPT !.fresh = IF saving[g] = k THEN Cells ELSE @ \ Changed(k)]]
    /\ due' = [c \in Cells |-> IF c \in save[k].entered THEN save[k].list[c] ELSE due[c]]
    /\ lost' = (lost \cup (Changed(k) \ save[k].fresh)) \ save[k].entered
    /\ UNCHANGED <<saving, entry, tangled, edits>>

\* Fault: the list that is stored by now is recorded as the earlier one.
ReadAgain(k) == [before |-> price, after |-> save[k].list]
\* audit.record.
Recorded(k) == [before |-> save[k].before, after |-> save[k].list]

RecordChange(k) ==
    /\ save[k].step = "written"
    /\ entry' = Recorded(k)
    /\ tangled' = (tangled /\ ~save[k].alone)
    /\ save' = [save EXCEPT ![k] = [step |-> "done"]]
    /\ UNCHANGED <<price, grid, saving, due, lost, edits>>

\* A failed record breaks nothing: the save goes on.
RecordFails(k) ==
    /\ save[k].step = "written"
    /\ tangled' = TRUE
    /\ save' = [save EXCEPT ![k] = [step |-> "done"]]
    /\ UNCHANGED <<price, grid, saving, entry, due, lost, edits>>

\* The request is refused, the list cannot be read or written, or the API dies.
SaveDies(k) ==
    /\ k \in OnTheWay
    /\ tangled' = (tangled \/ save[k].step = "written")
    /\ save' = [save EXCEPT ![k] = [step |-> "failed"]]
    /\ UNCHANGED <<price, grid, saving, entry, due, lost, edits>>
-----------------------------------------------------------------------------
PriceInit ==
    /\ price \in FirstPrices
    /\ grid = [g \in Grids |-> NotOpen]
    /\ saving = [g \in Grids |-> Idle]
    /\ save = [k \in Saves |-> NoSave]
    /\ entry = [before |-> price, after |-> price]
    /\ due = price /\ lost = {} /\ tangled = FALSE /\ edits = 0

EditGrid(g) ==
    \/ LoadPrices(g) \/ ShowPrices(g) \/ LeavePrices(g) \/ PricesSaved(g) \/ SaveUnanswered(g)
    \/ \E c \in Cells, amount \in Amounts : SetPrice(g, c, amount)
    \/ \E k \in Saves : SubmitPrices(g, k)

Replace(k) ==
    ReadPrevious(k) \/ WritePrices(k) \/ RecordChange(k) \/ RecordFails(k) \/ SaveDies(k)

PriceNext == (\E g \in Grids : EditGrid(g)) \/ (\E k \in Saves : Replace(k))

PriceSpec == PriceInit /\ [][PriceNext]_priceVars
-----------------------------------------------------------------------------
\* Every variable keeps the type its comment gives it.
PriceTypes ==
    /\ price \in PriceList /\ due \in PriceList
    /\ grid \in [Grids -> Grid \cup {NotOpen}]
    /\ saving \in [Grids -> Saves \cup {Idle}]
    /\ save \in [Saves -> Save \cup Over \cup {NoSave}]
    /\ entry \in [before : PriceList, after : PriceList]
    /\ lost \subseteq Cells /\ tangled \in BOOLEAN /\ edits \in Nat

\* A price that somebody entered and saved stays until somebody enters another
\* one, or sends a grid that was loaded before the price was stored: saving
\* never touches a cell that was neither edited nor out of date, but for a
\* price that was never set, which becomes 0.
PricesAreKept ==
    \A c \in Cells \ lost :
        price[c] = due[c] \/ (due[c] = Unset /\ price[c] = 0)

\* A list that the audit trail gives as the earlier one is the later one of the
\* entry before, unless two saves were served at once or an entry was lost.
PriceTrailIsAChain ==
    [][entry' # entry /\ ~tangled => entry'.before = entry.after]_priceVars
=============================================================================
