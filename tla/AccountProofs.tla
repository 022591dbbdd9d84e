----------------------------- MODULE AccountProofs -----------------------------
(***************************************************************************)
(* Proofs about the price list, the profile form and the passwords of the  *)
(* portal's accounts.                                                      *)
(***************************************************************************)
EXTENDS PriceGrid, ProfileForm, Credentials, TLAPS
-----------------------------------------------------------------------------
(* The price list. *)

\* Cells that nobody edited and nothing overtook are shown as they are stored;
\* once a save is written that holds of the cells it sent, too.
GridFits(g) ==
    grid[g] # NotOpen =>
        /\ grid[g].retyped \subseteq grid[g].entered
        /\ \A c \in grid[g].fresh \ grid[g].entered : grid[g].cells[c] = ShownPrice(price[c])

\* The save a screen waits for holds what the screen shows, but for later edits.
SavingFits(g) ==
    saving[g] # Idle =>
        /\ grid[g] # NotOpen /\ save[saving[g]] # NoSave
        /\ save[saving[g]].step \in {"sent", "read"} =>
              \A c \in Cells \ grid[g].retyped : grid[g].cells[c] = save[saving[g]].list[c]
        /\ save[saving[g]].step \in {"written", "done"} =>
              \A c \in grid[g].fresh \ grid[g].retyped : grid[g].cells[c] = ShownPrice(price[c])

\* So it is with the list of a save that is not written yet.
SaveFits(k) ==
    save[k].step \in {"sent", "read"} =>
        \A c \in save[k].fresh \ save[k].entered : save[k].list[c] = ShownPrice(price[c])

PriceInv ==
    /\ PriceTypes /\ PricesAreKept
    /\ \A g \in Grids : GridFits(g) /\ SavingFits(g)
    /\ \A k \in Saves : SaveFits(k)

\* A save that is served alone is the only one served, and no list but its own
\* was stored since it has read the list before; while the trail is whole, that
\* is the list of the last entry.
TrailFits(k) ==
    k \in Served =>
        /\ save[k].alone =>
              /\ Served = {k}
              /\ price = IF save[k].step = "read" THEN save[k].before ELSE save[k].list
        /\ ~tangled => save[k].alone /\ save[k].before = entry.after

PriceTrailInv ==
    /\ PriceTypes
    /\ \A k \in Saves : TrailFits(k)
    /\ (~tangled /\ Served = {}) => price = entry.after

\* The fields of an open grid and of a save on its way.
LEMMA GridFields ==
    ASSUME PriceTypes, NEW g \in Grids, grid[g] # NotOpen
    PROVE  /\ grid[g] \in Grid /\ grid[g].cells \in FullPrices /\ grid[g].fresh \subseteq Cells
           /\ grid[g].entered \subseteq Cells /\ grid[g].retyped \subseteq Cells
BY DEF PriceTypes, Grid

LEMMA SaveFields ==
    ASSUME PriceTypes, NEW k \in Saves, save[k].step \in {"sent", "read", "written"}
    PROVE  /\ save[k] \in Save /\ save[k].list \in FullPrices /\ save[k].before \in PriceList
           /\ save[k].fresh \subseteq Cells /\ save[k].entered \subseteq Cells /\ save[k].alone \in BOOLEAN
BY DEF PriceTypes, Save, Over, NoSave

LEMMA ShownPriceIsAmount ==
    ASSUME NEW amount \in Amounts \cup {Unset}
    PROVE  ShownPrice(amount) \in Amounts /\ (amount \in Amounts => ShownPrice(amount) = amount)
BY PriceAssumption DEF ShownPrice

\* The type invariant of PriceGrid.
LEMMA PricesStayTyped ==
    ASSUME PriceTypes, [PriceNext]_priceVars
    PROVE  PriceTypes'
<1> USE DEF PriceTypes
<1>1. ASSUME NEW g \in Grids, EditGrid(g)
      PROVE  PriceTypes'
  <2>1. CASE LoadPrices(g)
    <3>1. [c \in Cells |-> ShownPrice(price[c])] \in FullPrices
      BY ShownPriceIsAmount DEF PriceList, FullPrices
    <3>2. [step |-> "read", cells |-> [c \in Cells |-> ShownPrice(price[c])],
           fresh |-> Cells, entered |-> {}, retyped |-> {}] \in Grid
      BY <3>1 DEF Grid
    <3> QED BY <2>1, <3>2 DEF LoadPrices
  <2>2. CASE ShowPrices(g)
    <3>1. grid[g] \in Grid
      BY <2>2 DEF ShowPrices, NotOpen
    <3>2. [grid[g] EXCEPT !.step = "shown"] \in Grid
      BY <3>1 DEF Grid
    <3> QED BY <2>2, <3>2 DEF ShowPrices
  <2>3. CASE LeavePrices(g)
    BY <2>3 DEF LeavePrices
  <2>4. CASE PricesSaved(g) \/ SaveUnanswered(g)
    <3>1. CASE PricesSaved(g)
      <4>1. CASE grid[g] = NotOpen
        BY <3>1, <4>1 DEF PricesSaved, NotOpen
      <4>2. CASE grid[g] # NotOpen
        <5>1. [grid[g] EXCEPT !.entered = grid[g].retyped] \in Grid
          BY <4>2, GridFields DEF Grid
        <5> QED BY <3>1, <5>1 DEF PricesSaved
      <4> QED BY <4>1, <4>2
    <3>2. CASE SaveUnanswered(g)
      BY <3>2 DEF SaveUnanswered
    <3> QED BY <2>4, <3>1, <3>2
  <2>5. ASSUME NEW c \in Cells, NEW amount \in Amounts, SetPrice(g, c, amount)
        PROVE  PriceTypes'
    <3>1. grid[g] # NotOpen
      BY <2>5 DEF SetPrice, OnShow, NotOpen
    <3>2. /\ [grid[g].cells EXCEPT ![c] = amount] \in FullPrices
          /\ grid[g].entered \cup {c} \subseteq Cells /\ grid[g].retyped \cup {c} \subseteq Cells
      BY <3>1, GridFields DEF FullPrices
    <3>3. [grid[g] EXCEPT !.cells[c] = amount, !.entered = @ \cup {c}, !.retyped = @ \cup {c}] \in Grid
      BY <3>1, <3>2, GridFields DEF Grid
    <3>4. grid' = [grid EXCEPT ![g] = [grid[g] EXCEPT !.cells[c] = amount,
                                        !.entered = @ \cup {c}, !.retyped = @ \cup {c}]]
      BY <2>5 DEF SetPrice
    <3>5. grid' \in [Grids -> Grid \cup {NotOpen}] /\ edits' \in Nat
      BY <2>5, <3>3, <3>4 DEF SetPrice
    <3> QED BY <2>5, <3>5 DEF SetPrice
  <2>6. ASSUME NEW k \in Saves, SubmitPrices(g, k)
        PROVE  PriceTypes'
    <3>1. grid[g] # NotOpen
      BY <2>6 DEF SubmitPrices, OnShow, NotOpen
    <3>2. [step |-> "sent", list |-> grid[g].cells, before |-> price, fresh |-> grid[g].fresh,
           entered |-> grid[g].entered, alone |-> FALSE] \in Save
      BY <3>1, GridFields DEF Save
    <3>3. [grid[g] EXCEPT !.retyped = {}] \in Grid
      BY <3>1, GridFields DEF Grid
    <3> QED BY <2>6, <3>2, <3>3 DEF SubmitPrices
  <2> QED BY <1>1, <2>1, <2>2, <2>3, <2>4, <2>5, <2>6 DEF EditGrid
<1>2. ASSUME NEW k \in Saves, Replace(k)
      PROVE  PriceTypes'
  <2>1. CASE ReadPrevious(k)
    <3>1. save[k] \in Save
      BY <2>1, SaveFields DEF ReadPrevious
    <3>2. [save[k] EXCEPT !.step = "read", !.before = price, !.alone = (Served = {})] \in Save
      BY <3>1 DEF Save
    <3>3. ASSUME NEW j \in Served
          PROVE  [save[j] EXCEPT !.alone = FALSE] \in Save
      BY <3>3, SaveFields DEF Served, Save
    <3>4. save' \in [Saves -> Save \cup Over \cup {NoSave}]
      BY <2>1, <3>2, <3>3 DEF ReadPrevious
    <3> QED BY <2>1, <3>4 DEF ReadPrevious
  <2>2. CASE WritePrices(k)
    <3>1. save[k] \in Save /\ save[k].list \in FullPrices /\ save[k].entered \subseteq Cells
      BY <2>2, SaveFields DEF WritePrices
    <3>2. [save[k] EXCEPT !.step = "written"] \in Save
      BY <3>1 DEF Save
    <3>3. ASSUME NEW j \in OnTheWay
          PROVE  [save[j] EXCEPT !.fresh = @ \ Changed(k)] \in Save
      BY <3>3, SaveFields DEF OnTheWay, Save
    <3>4. save' \in [Saves -> Save \cup Over \cup {NoSave}]
      BY <2>2, <3>2, <3>3 DEF WritePrices
    <3>5. ASSUME NEW g \in Grids, grid[g] # NotOpen, NEW cells \in SUBSET Cells
          PROVE  [grid[g] EXCEPT !.fresh = cells] \in Grid
      BY <3>5, GridFields DEF Grid
    <3>6. grid' \in [Grids -> Grid \cup {NotOpen}]
      <4>1. ASSUME NEW g \in Grids, grid[g] # NotOpen
            PROVE  [grid[g] EXCEPT !.fresh = IF saving[g] = k THEN Cells ELSE @ \ Changed(k)] \in Grid
        <5>1. (IF saving[g] = k THEN Cells ELSE grid[g].fresh \ Changed(k)) \in SUBSET Cells
          BY <4>1, GridFields
        <5> QED BY <3>5, <4>1, <5>1
      <4> QED BY <2>2, <4>1 DEF WritePrices
    <3>7. price' \in PriceList /\ due' \in PriceList
      BY <2>2, <3>1 DEF WritePrices, Replaced, PriceList, FullPrices
    <3>8. lost' \subseteq Cells
      BY <2>2 DEF WritePrices, Changed
    <3> QED BY <2>2, <3>4, <3>6, <3>7, <3>8 DEF WritePrices
  <2>3. CASE RecordChange(k)
    <3>1. save[k].list \in PriceList /\ save[k].before \in PriceList /\ save[k].alone \in BOOLEAN
      BY <2>3, SaveFields DEF RecordChange, PriceList, FullPrices
    <3> QED BY <2>3, <3>1 DEF RecordChange, Recorded, Over
  <2>4. CASE RecordFails(k)
    BY <2>4 DEF RecordFails, Over
  <2>5. CASE SaveDies(k)
    BY <2>5 DEF SaveDies, Over
  <2> QED BY <1>2, <2>1, <2>2, <2>3, <2>4, <2>5 DEF Replace
<1>3. CASE UNCHANGED priceVars
  BY <1>3 DEF priceVars
<1> QED BY <1>1, <1>2, <1>3 DEF PriceNext

\* What the screens do keeps the prices, and what is known of them.
LEMMA PriceScreensKeep ==
    ASSUME PriceInv, PriceTypes', NEW g \in Grids, EditGrid(g)
    PROVE  PriceInv'
<1> USE DEF PriceTypes
<1>0. /\ PriceTypes /\ GridFits(g) /\ SavingFits(g)
      /\ \A h \in Grids : GridFits(h) /\ SavingFits(h)
      /\ \A k \in Saves : SaveFits(k)
  BY DEF PriceInv
<1>1. /\ UNCHANGED <<price, due, lost>>
      /\ \A h \in Grids \ {g} : grid'[h] = grid[h] /\ saving'[h] = saving[h]
  BY <1>0 DEF EditGrid, LoadPrices, ShowPrices, LeavePrices, PricesSaved, SaveUnanswered,
      SetPrice, SubmitPrices
<1>2. ASSUME NEW k \in Saves, save'[k] = save[k]
      PROVE  SaveFits(k)'
  BY <1>0, <1>1, <1>2 DEF SaveFits
<1>3. ASSUME NEW h \in Grids \ {g}
      PROVE  GridFits(h)'
  BY <1>0, <1>1, <1>3 DEF GridFits
<1>4. ASSUME NEW h \in Grids \ {g}, UNCHANGED save
      PROVE  SavingFits(h)'
  BY <1>0, <1>1, <1>4 DEF SavingFits
<1>5. PricesAreKept'
  BY <1>1 DEF PriceInv, PricesAreKept
<1>6. CASE UNCHANGED save /\ GridFits(g)' /\ SavingFits(g)'
  <2>1. \A k \in Saves : SaveFits(k)'
    BY <1>2, <1>6
  <2>2. \A h \in Grids : GridFits(h)' /\ SavingFits(h)'
    BY <1>3, <1>4, <1>6
  <2> QED BY <1>5, <2>1, <2>2 DEF PriceInv
<1>7. CASE LoadPrices(g)
  <2>1. /\ grid'[g].cells = [c \in Cells |-> ShownPrice(price[c])] /\ grid'[g].fresh = Cells
        /\ grid'[g].entered = {} /\ grid'[g].retyped = {}
        /\ UNCHANGED <<saving, save>>
    BY <1>0, <1>7 DEF LoadPrices
  <2>2. GridFits(g)'
    BY <1>1, <2>1 DEF GridFits
  <2>3. SavingFits(g)'
    BY <1>0, <1>7, <2>1 DEF SavingFits, LoadPrices
  <2> QED BY <1>6, <2>1, <2>2, <2>3
<1>8. CASE ShowPrices(g)
  <2>1. grid[g] \in Grid /\ grid'[g] = [grid[g] EXCEPT !.step = "shown"] /\ UNCHANGED <<saving, save>>
    BY <1>0, <1>8 DEF ShowPrices, NotOpen
  <2>2. /\ grid'[g].cells = grid[g].cells /\ grid'[g].fresh = grid[g].fresh
        /\ grid'[g].entered = grid[g].entered /\ grid'[g].retyped = grid[g].retyped
        /\ grid[g] # NotOpen /\ grid'[g] # NotOpen
    BY <2>1 DEF Grid, NotOpen
  <2>3. GridFits(g)' /\ SavingFits(g)'
    BY <1>0, <1>1, <2>1, <2>2 DEF GridFits, SavingFits
  <2> QED BY <1>6, <2>1, <2>3
<1>9. CASE LeavePrices(g)
  BY <1>0, <1>6, <1>9 DEF LeavePrices, GridFits, SavingFits
<1>10. CASE PricesSaved(g)
  <2>1. grid[g] \in Grid /\ saving[g] \in Saves /\ save[saving[g]].step = "done"
    BY <1>0, <1>10 DEF PricesSaved, SavingFits
  <2>2. /\ grid'[g].cells = grid[g].cells /\ grid'[g].fresh = grid[g].fresh
        /\ grid'[g].entered = grid[g].retyped /\ grid'[g].retyped = grid[g].retyped
        /\ saving'[g] = Idle /\ UNCHANGED save
    BY <1>0, <1>10, <2>1 DEF PricesSaved, Grid
  <2>3. \A c \in grid[g].fresh \ grid[g].retyped : grid[g].cells[c] = ShownPrice(price[c])
    BY <1>0, <2>1, PriceAssumption DEF SavingFits
  <2>4. GridFits(g)' /\ SavingFits(g)'
    BY <1>1, <2>2, <2>3 DEF GridFits, SavingFits
  <2> QED BY <1>6, <2>2, <2>4
<1>11. CASE SaveUnanswered(g)
  <2>1. UNCHANGED <<grid, save>> /\ saving'[g] = Idle
    BY <1>0, <1>11 DEF SaveUnanswered
  <2>2. GridFits(g)' /\ SavingFits(g)'
    BY <1>0, <1>1, <2>1 DEF GridFits, SavingFits
  <2> QED BY <1>6, <2>1, <2>2
<1>12. ASSUME NEW c \in Cells, NEW amount \in Amounts, SetPrice(g, c, amount)
       PROVE  PriceInv'
  <2>1. grid[g] \in Grid /\ UNCHANGED <<saving, save>>
    BY <1>0, <1>12 DEF SetPrice, OnShow, NotOpen
  <2>2. /\ grid'[g].cells = [grid[g].cells EXCEPT ![c] = amount] /\ grid'[g].fresh = grid[g].fresh
        /\ grid'[g].entered = grid[g].entered \cup {c} /\ grid'[g].retyped = grid[g].retyped \cup {c}
        /\ grid[g] # NotOpen /\ grid'[g] # NotOpen /\ grid[g].cells \in FullPrices
    <3>1. grid'[g] = [grid[g] EXCEPT !.cells[c] = amount,
                                     !.entered = @ \cup {c}, !.retyped = @ \cup {c}]
      BY <1>0, <1>12 DEF SetPrice
    <3>2. grid[g] # NotOpen
      BY <1>12 DEF SetPrice, OnShow, NotOpen
    <3> QED BY <2>1, <3>1, <3>2 DEF Grid, NotOpen
  <2>3. \A d \in Cells \ {c} : grid'[g].cells[d] = grid[g].cells[d]
    BY <2>2 DEF FullPrices
  <2>4. GridFits(g)'
    BY <1>0, <1>1, <2>1, <2>2, <2>3 DEF GridFits, Grid
  <2>5. SavingFits(g)'
    BY <1>0, <1>1, <2>1, <2>2, <2>3 DEF SavingFits, Grid
  <2> QED BY <1>6, <2>1, <2>4, <2>5
<1>13. ASSUME NEW k \in Saves, SubmitPrices(g, k)
       PROVE  PriceInv'
  <2>1. grid[g] \in Grid /\ grid[g] # NotOpen
    BY <1>0, <1>13 DEF SubmitPrices, OnShow, NotOpen
  <2>2. /\ grid'[g].cells = grid[g].cells /\ grid'[g].fresh = grid[g].fresh
        /\ grid'[g].entered = grid[g].entered /\ grid'[g].retyped = {}
        /\ grid'[g] # NotOpen /\ saving'[g] = k
    <3>1. grid'[g] = [grid[g] EXCEPT !.retyped = {}] /\ saving'[g] = k
      BY <1>0, <1>13 DEF SubmitPrices
    <3> QED BY <2>1, <3>1 DEF Grid, NotOpen
  <2>3. /\ save'[k].step = "sent" /\ save'[k].list = grid[g].cells /\ save'[k].fresh = grid[g].fresh
        /\ save'[k].entered = grid[g].entered
        /\ save[k] = NoSave /\ save'[k] # NoSave
        /\ \A j \in Saves \ {k} : save'[j] = save[j]
    BY <1>0, <1>13 DEF SubmitPrices, NoSave
  <2>4. SaveFits(k)'
    BY <1>0, <1>1, <2>1, <2>3 DEF SaveFits, GridFits
  <2>5. \A j \in Saves : SaveFits(j)'
    BY <1>2, <2>3, <2>4
  <2>6. GridFits(g)' /\ SavingFits(g)'
    BY <1>0, <1>1, <2>1, <2>2, <2>3 DEF GridFits, SavingFits
  <2>7. ASSUME NEW h \in Grids \ {g}
        PROVE  SavingFits(h)'
    <3>1. saving[h] # k
      BY <1>0, <2>3, PriceAssumption DEF SavingFits
    <3>2. saving[h] # Idle => save'[saving[h]] = save[saving[h]]
      BY <1>0, <2>3, <3>1
    <3> QED BY <1>0, <1>1, <2>7, <3>2 DEF SavingFits
  <2>8. \A h \in Grids : GridFits(h)' /\ SavingFits(h)'
    BY <1>3, <2>6, <2>7
  <2> QED BY <1>5, <2>5, <2>8 DEF PriceInv
<1> QED
  BY <1>7, <1>8, <1>9, <1>10, <1>11, <1>12, <1>13 DEF EditGrid

\* What a save leaves of a cell that its own screen did not edit.
LEMMA StoringKeepsCells ==
    ASSUME PriceInv, NEW k \in Saves, WritePrices(k)
    PROVE  PricesAreKept'
<1>1. /\ PriceTypes /\ PricesAreKept /\ SaveFits(k) /\ save[k].step = "read"
      /\ price' = save[k].list /\ price \in PriceList /\ due \in PriceList
      /\ due' = [c \in Cells |-> IF c \in save[k].entered THEN save[k].list[c] ELSE due[c]]
      /\ lost' = (lost \cup (Changed(k) \ save[k].fresh)) \ save[k].entered
      /\ save[k].list \in FullPrices
  BY SaveFields DEF PriceInv, WritePrices, Replaced, PriceTypes
<1>2. ASSUME NEW c \in Cells \ lost'
      PROVE  price'[c] = due'[c] \/ (due'[c] = Unset /\ price'[c] = 0)
  <2>1. CASE c \in save[k].entered
    BY <1>1, <2>1
  <2>2. CASE c \notin save[k].entered
    <3>1. c \notin lost /\ (c \notin Changed(k) \/ c \in save[k].fresh) /\ due'[c] = due[c]
      BY <1>1, <1>2, <2>2
    <3>2. price[c] = due[c] \/ (due[c] = Unset /\ price[c] = 0)
      BY <1>1, <3>1 DEF PricesAreKept
    <3>3. CASE c \notin Changed(k)
      BY <1>1, <3>1, <3>2, <3>3 DEF Changed, Replaced
    <3>4. CASE c \in save[k].fresh
      <4>1. price'[c] = ShownPrice(price[c])
        BY <1>1, <2>2, <3>4 DEF SaveFits
      <4> QED BY <3>1, <3>2, <4>1, PriceAssumption DEF ShownPrice
    <3> QED BY <3>1, <3>3, <3>4
  <2> QED BY <2>1, <2>2
<1> QED BY <1>2 DEF PricesAreKept

LEMMA StoringKeepsGrids ==
    ASSUME PriceInv, PriceTypes', NEW k \in Saves, WritePrices(k), NEW g \in Grids
    PROVE  GridFits(g)' /\ SavingFits(g)'
<1>1. /\ PriceTypes /\ GridFits(g) /\ SavingFits(g) /\ save[k].step = "read"
      /\ price' = save[k].list /\ save[k] \in Save /\ save[k].list \in FullPrices
      /\ saving' = saving
  BY SaveFields DEF PriceInv, WritePrices, Replaced
<1>2. /\ save'[k] = [save[k] EXCEPT !.step = "written"]
      /\ \A j \in Saves \ {k} :
            IF j \in OnTheWay THEN save'[j] = [save[j] EXCEPT !.fresh = @ \ Changed(k)]
                              ELSE save'[j] = save[j]
  BY <1>1 DEF WritePrices, PriceTypes
<1>3. CASE grid[g] = NotOpen
  <2>1. grid'[g] = NotOpen
    BY <1>3 DEF WritePrices
  <2>2. saving[g] = Idle
    BY <1>1, <1>3 DEF SavingFits
  <2> QED BY <1>1, <2>1, <2>2 DEF GridFits, SavingFits
<1>4. CASE grid[g] # NotOpen
  <2>1. grid[g] \in Grid
    BY <1>1, <1>4, GridFields
  <2>2. /\ grid'[g].cells = grid[g].cells /\ grid'[g].entered = grid[g].entered
        /\ grid'[g].retyped = grid[g].retyped
        /\ grid'[g].fresh = IF saving[g] = k THEN Cells ELSE grid[g].fresh \ Changed(k)
        /\ grid'[g] # NotOpen /\ grid[g].fresh \subseteq Cells
    <3>1. grid'[g] = [grid[g] EXCEPT !.fresh = IF saving[g] = k THEN Cells ELSE @ \ Changed(k)]
      BY <1>4 DEF WritePrices
    <3> QED BY <2>1, <3>1 DEF Grid, NotOpen
  <2>3. CASE saving[g] = k
    <3>1. \A c \in Cells \ grid[g].retyped : grid[g].cells[c] = save[k].list[c]
      BY <1>1, <2>3, PriceAssumption DEF SavingFits
    <3>2. \A c \in Cells : ShownPrice(price'[c]) = save[k].list[c]
      BY <1>1, ShownPriceIsAmount DEF FullPrices
    <3>3. \A c \in Cells \ grid[g].retyped : grid'[g].cells[c] = ShownPrice(price'[c])
      BY <2>2, <3>1, <3>2
    <3>4. save'[k].step = "written" /\ save'[k] # NoSave
      BY <1>1, <1>2 DEF Save, NoSave
    <3>5. GridFits(g)'
      BY <1>1, <1>4, <2>2, <2>3, <3>3 DEF GridFits
    <3>6. SavingFits(g)'
      BY <1>1, <2>2, <2>3, <3>3, <3>4 DEF SavingFits
    <3> QED BY <3>5, <3>6
  <2>4. CASE saving[g] # k
    <3>1. \A c \in grid'[g].fresh : c \in grid[g].fresh /\ price'[c] = price[c]
      BY <1>1, <2>2, <2>4 DEF Changed, Replaced
    <3>2. GridFits(g)'
      BY <1>1, <1>4, <2>2, <3>1 DEF GridFits
    <3>3. ASSUME saving[g] # Idle
          PROVE  /\ save'[saving[g]] # NoSave
                 /\ save'[saving[g]].step = save[saving[g]].step
                 /\ save[saving[g]].step \in {"sent", "read"} => save'[saving[g]].list = save[saving[g]].list
      <4>1. saving[g] \in Saves \ {k} /\ save[saving[g]] # NoSave
        BY <1>1, <2>4, <3>3 DEF PriceTypes, SavingFits
      <4>2. CASE saving[g] \in OnTheWay
        <5>1. save[saving[g]] \in Save
          BY <1>1, <4>2, SaveFields DEF OnTheWay
        <5> QED BY <1>2, <4>1, <4>2, <5>1 DEF Save, NoSave
      <4>3. CASE saving[g] \notin OnTheWay
        BY <1>2, <4>1, <4>3
      <4> QED BY <4>2, <4>3
    <3>4. SavingFits(g)'
      BY <1>1, <1>4, <2>2, <3>1, <3>3 DEF SavingFits
    <3> QED BY <3>2, <3>4
  <2> QED BY <2>3, <2>4
<1> QED BY <1>3, <1>4

\* What the API does keeps the prices, and what is known of them.
LEMMA PriceServiceKeeps ==
    ASSUME PriceInv, PriceTypes', NEW k \in Saves, Replace(k)
    PROVE  PriceInv'
<1>0. /\ PriceTypes /\ PricesAreKept
      /\ \A g \in Grids : GridFits(g) /\ SavingFits(g)
      /\ \A j \in Saves : SaveFits(j)
  BY DEF PriceInv
<1>1. CASE WritePrices(k)
  <2>1. ASSUME NEW j \in Saves
        PROVE  SaveFits(j)'
    <3>1. CASE j = k
      <4>1. save'[k].step = "written"
        BY <1>0, <1>1, SaveFields DEF WritePrices, PriceTypes, Save
      <4> QED BY <3>1, <4>1 DEF SaveFits
    <3>2. CASE j # k /\ j \in OnTheWay
      <4>1. save[j] \in Save /\ save'[j] = [save[j] EXCEPT !.fresh = @ \ Changed(k)]
        BY <1>0, <1>1, <3>2, SaveFields DEF WritePrices, OnTheWay
      <4>2. /\ save'[j].step = save[j].step /\ save'[j].list = save[j].list
            /\ save'[j].entered = save[j].entered /\ save'[j].fresh = save[j].fresh \ Changed(k)
        BY <4>1 DEF Save
      <4>3. \A c \in save'[j].fresh : price'[c] = price[c]
        BY <1>0, <1>1, <4>1, <4>2 DEF WritePrices, Changed, Save
      <4> QED BY <1>0, <4>2, <4>3 DEF SaveFits
    <3>3. CASE j # k /\ j \notin OnTheWay
      <4>1. save'[j] = save[j]
        BY <1>1, <3>3 DEF WritePrices
      <4> QED BY <3>3, <4>1 DEF SaveFits, OnTheWay
    <3> QED BY <3>1, <3>2, <3>3
  <2> QED BY <1>1, <2>1, StoringKeepsCells, StoringKeepsGrids DEF PriceInv
<1>2. CASE ~WritePrices(k)
  <2>1. /\ UNCHANGED <<price, grid, saving, due, lost>>
        /\ save[k] # NoSave
        /\ save'[k].step \in {"read", "done", "failed"}
        /\ save'[k].step = "done" => save[k].step = "written"
        /\ save'[k].step = "read" =>
              /\ save[k].step = "sent"
              /\ save'[k].list = save[k].list /\ save'[k].fresh = save[k].fresh
              /\ save'[k].entered = save[k].entered
    <3>1. CASE ReadPrevious(k)
      <4>1. save[k] \in Save /\ save[k].step = "sent"
            /\ save'[k] = [save[k] EXCEPT !.step = "read", !.before = price, !.alone = (Served = {})]
        BY <1>0, <3>1, SaveFields DEF ReadPrevious
      <4>2. /\ save'[k].step = "read" /\ save'[k].list = save[k].list
            /\ save'[k].fresh = save[k].fresh /\ save'[k].entered = save[k].entered
            /\ save[k] # NoSave
        BY <4>1 DEF Save, NoSave
      <4>3. UNCHANGED <<price, grid, saving, due, lost>>
        BY <3>1 DEF ReadPrevious
      <4> QED BY <4>1, <4>2, <4>3
    <3>2. CASE RecordChange(k) \/ RecordFails(k)
      BY <1>0, <3>2 DEF RecordChange, RecordFails, NoSave, PriceTypes
    <3>3. CASE SaveDies(k)
      BY <1>0, <3>3 DEF SaveDies, OnTheWay, NoSave, PriceTypes
    <3> QED BY <1>2, <3>1, <3>2, <3>3 DEF Replace
  <2>2. ASSUME NEW j \in Saves \ {k}
        PROVE  /\ save'[j].step = save[j].step /\ (save[j] # NoSave => save'[j] # NoSave)
               /\ save[j].step \in {"sent", "read"} =>
                     /\ save'[j].list = save[j].list /\ save'[j].fresh = save[j].fresh
                     /\ save'[j].entered = save[j].entered
    <3>1. CASE ReadPrevious(k)
      <4>1. CASE j \in Served
        <5>1. save[j] \in Save /\ save'[j] = [save[j] EXCEPT !.alone = FALSE]
          BY <1>0, <3>1, <4>1, SaveFields DEF ReadPrevious, Served
        <5> QED BY <5>1 DEF Save, NoSave
      <4>2. CASE j \notin Served
        BY <3>1, <4>2 DEF ReadPrevious
      <4> QED BY <4>1, <4>2
    <3>2. CASE RecordChange(k) \/ RecordFails(k) \/ SaveDies(k)
      BY <1>0, <3>2 DEF RecordChange, RecordFails, SaveDies, PriceTypes
    <3> QED BY <1>2, <3>1, <3>2 DEF Replace
  <2>3. ASSUME NEW j \in Saves
        PROVE  SaveFits(j)'
    BY <1>0, <2>1, <2>2 DEF SaveFits
  <2>4. ASSUME NEW g \in Grids
        PROVE  GridFits(g)' /\ SavingFits(g)'
    <3>1. GridFits(g)'
      BY <1>0, <2>1 DEF GridFits
    <3>2. CASE saving[g] = Idle
      BY <2>1, <3>1, <3>2 DEF SavingFits
    <3>3. CASE saving[g] = k /\ saving[g] # Idle
      <4>1. save'[k] # NoSave
        BY <2>1 DEF NoSave
      <4>2. UNCHANGED <<price, grid, saving>>
        BY <2>1
      <4> QED BY <1>0, <2>1, <3>1, <3>3, <4>1, <4>2 DEF SavingFits
    <3>4. CASE saving[g] # k /\ saving[g] # Idle
      <4>1. saving[g] \in Saves \ {k}
        BY <1>0, <3>4 DEF PriceTypes
      <4>2. UNCHANGED <<price, grid, saving>>
        BY <2>1
      <4> QED BY <1>0, <2>2, <3>1, <3>4, <4>1, <4>2 DEF SavingFits
    <3> QED BY <3>1, <3>2, <3>3, <3>4
  <2>5. PricesAreKept'
    BY <1>0, <2>1 DEF PricesAreKept
  <2> QED BY <2>3, <2>4, <2>5 DEF PriceInv
<1> QED BY <1>1, <1>2

LEMMA PriceInvHolds == PriceSpec => []PriceInv
<1>1. PriceInit => PriceInv
  <2> SUFFICES ASSUME PriceInit PROVE PriceInv
    OBVIOUS
  <2>1. PriceTypes
    BY PriceAssumption DEF PriceInit, PriceTypes, PriceList
  <2>2. PricesAreKept
    BY DEF PriceInit, PricesAreKept
  <2>3. \A g \in Grids : GridFits(g) /\ SavingFits(g)
    BY DEF PriceInit, GridFits, SavingFits
  <2>4. \A k \in Saves : SaveFits(k)
    BY DEF PriceInit, SaveFits, NoSave
  <2> QED BY <2>1, <2>2, <2>3, <2>4 DEF PriceInv
<1>2. PriceInv /\ [PriceNext]_priceVars => PriceInv'
  <2> SUFFICES ASSUME PriceInv, [PriceNext]_priceVars PROVE PriceInv'
    OBVIOUS
  <2>1. PriceTypes'
    BY PricesStayTyped DEF PriceInv
  <2>2. CASE UNCHANGED priceVars
    <3>1. UNCHANGED <<price, grid, saving, save, due, lost>>
      BY <2>2 DEF priceVars
    <3> QED BY <2>1, <3>1 DEF PriceInv, PricesAreKept, GridFits, SavingFits, SaveFits
  <2> QED BY <2>1, <2>2, PriceScreensKeep, PriceServiceKeeps DEF PriceNext
<1> QED BY <1>1, <1>2, PTL DEF PriceSpec

\* A price that was entered and saved stays until somebody enters another or
\* sends a grid that was loaded before the price was stored, for any number of
\* screens, saves and cells.
THEOREM PricesStayKept == PriceSpec => [](PriceTypes /\ PricesAreKept)
<1>1. PriceInv => PriceTypes /\ PricesAreKept
  BY DEF PriceInv
<1> QED BY <1>1, PriceInvHolds, PTL

\* A step of one save: the others stay served as they were, unless the list
\* before is read, which ends their being alone.
LEMMA ReadingKeepsTrail ==
    ASSUME PriceTrailInv, PriceTypes', NEW k \in Saves, ReadPrevious(k)
    PROVE  PriceTrailInv'
<1>1. /\ PriceTypes /\ save[k] \in Save /\ save[k].step = "sent" /\ k \notin Served
      /\ save'[k] = [save[k] EXCEPT !.step = "read", !.before = price, !.alone = (Served = {})]
      /\ UNCHANGED <<price, entry>> /\ tangled' = (tangled \/ Served # {})
  BY SaveFields DEF PriceTrailInv, ReadPrevious, PriceTypes, Served
<1>2. /\ save'[k].step = "read" /\ save'[k].before = price /\ save'[k].alone = (Served = {})
      /\ k \in Served'
  BY <1>1 DEF Save, Served
<1>3. ASSUME NEW j \in Served
      PROVE  j # k /\ save'[j].step = save[j].step /\ ~save'[j].alone /\ j \in Served'
  <2>1. save[j] \in Save /\ save'[j] = [save[j] EXCEPT !.alone = FALSE] /\ j \in Saves /\ j # k
    BY <1>1, <1>3, SaveFields DEF ReadPrevious, Served
  <2>2. save'[j].step = save[j].step /\ ~save'[j].alone
    BY <2>1 DEF Save
  <2> QED BY <1>3, <2>1, <2>2 DEF Served
<1>4. Served' = Served \cup {k}
  <2>1. \A j \in Saves \ (Served \cup {k}) : save'[j] = save[j]
    BY DEF ReadPrevious
  <2> QED BY <1>2, <1>3, <2>1 DEF Served
<1>5. ASSUME NEW j \in Saves
      PROVE  TrailFits(j)'
  <2>1. CASE j = k
    <3>1. ~tangled' => Served = {} /\ ~tangled
      BY <1>1
    <3>2. (~tangled /\ Served = {}) => price = entry.after
      BY DEF PriceTrailInv
    <3> QED BY <1>1, <1>2, <1>4, <2>1, <3>1, <3>2 DEF TrailFits
  <2>2. CASE j \in Served
    BY <1>1, <1>3, <2>2 DEF TrailFits
  <2>3. CASE j \notin Served \cup {k}
    BY <1>4, <2>3 DEF TrailFits
  <2> QED BY <2>1, <2>2, <2>3
<1> QED BY <1>2, <1>5 DEF PriceTrailInv

LEMMA WritingKeepsTrail ==
    ASSUME PriceTrailInv, PriceTypes', NEW k \in Saves, WritePrices(k)
    PROVE  PriceTrailInv'
<1>1. /\ PriceTypes /\ save[k] \in Save /\ save[k].step = "read" /\ k \in Served
      /\ save'[k] = [save[k] EXCEPT !.step = "written"]
      /\ price' = save[k].list /\ UNCHANGED <<entry, tangled>>
  BY SaveFields DEF PriceTrailInv, WritePrices, PriceTypes, Served, Replaced
<1>2. /\ save'[k].step = "written" /\ save'[k].list = save[k].list
      /\ save'[k].before = save[k].before /\ save'[k].alone = save[k].alone
  BY <1>1 DEF Save
<1>3. ASSUME NEW j \in Saves \ {k}
      PROVE  /\ save'[j].step = save[j].step
             /\ j \in Served => save'[j].alone = save[j].alone /\ save'[j].before = save[j].before
  <2>1. CASE j \in OnTheWay
    <3>1. save[j] \in Save /\ save'[j] = [save[j] EXCEPT !.fresh = @ \ Changed(k)]
      BY <1>1, <2>1, SaveFields DEF WritePrices, OnTheWay
    <3> QED BY <3>1 DEF Save
  <2>2. CASE j \notin OnTheWay
    BY <2>2 DEF WritePrices
  <2> QED BY <2>1, <2>2
<1>4. Served' = Served
  BY <1>1, <1>2, <1>3 DEF Served
<1>5. ASSUME NEW j \in Saves
      PROVE  TrailFits(j)'
  <2>0. TrailFits(j) /\ TrailFits(k)
    BY DEF PriceTrailInv
  <2>1. CASE j = k
    BY <1>1, <1>2, <1>4, <2>0, <2>1 DEF TrailFits
  <2>2. CASE j # k
    BY <1>1, <1>3, <1>4, <2>0, <2>2 DEF TrailFits
  <2> QED BY <2>1, <2>2
<1> QED BY <1>1, <1>4, <1>5 DEF PriceTrailInv

LEMMA EndingKeepsTrail ==
    ASSUME PriceTrailInv, PriceTypes', NEW k \in Saves, RecordChange(k) \/ RecordFails(k) \/ SaveDies(k)
    PROVE  PriceTrailInv'
<1>1. /\ PriceTypes /\ save'[k].step \in {"done", "failed"} /\ price' = price
      /\ \A j \in Saves \ {k} : save'[j] = save[j]
  BY DEF PriceTrailInv, PriceTypes, RecordChange, RecordFails, SaveDies
<1>2. Served' = Served \ {k}
  BY <1>1 DEF Served
<1>3. ~tangled' =>
        /\ entry' = (IF RecordChange(k) THEN Recorded(k) ELSE entry)
        /\ RecordChange(k) => Served' = {} /\ price = save[k].list
        /\ ~RecordChange(k) => ~tangled /\ save[k].step # "written"
  <2>1. CASE RecordChange(k)
    <3>1. /\ k \in Served /\ save[k].step = "written" /\ tangled' = (tangled /\ ~save[k].alone)
          /\ entry' = Recorded(k)
      BY <2>1 DEF RecordChange, Served
    <3>2. ~tangled' => save[k].alone
      BY <3>1 DEF PriceTrailInv, TrailFits
    <3> QED BY <1>2, <2>1, <3>1, <3>2 DEF PriceTrailInv, TrailFits
  <2>2. CASE ~RecordChange(k)
    BY <2>2 DEF RecordFails, SaveDies
  <2> QED BY <2>1, <2>2
<1>4. ASSUME NEW j \in Saves
      PROVE  TrailFits(j)'
  <2>1. CASE j \in Served'
    <3>1. j # k /\ j \in Served /\ save'[j] = save[j]
      BY <1>1, <1>2, <2>1
    <3>2. CASE ~tangled'
      <4>1. ~RecordChange(k) /\ ~tangled /\ entry' = entry
        BY <1>3, <2>1, <3>2
      <4>2. TrailFits(j)
        BY DEF PriceTrailInv
      <4> QED BY <1>1, <1>2, <3>1, <4>1, <4>2 DEF TrailFits
    <3>3. CASE tangled'
      <4>1. TrailFits(j)
        BY DEF PriceTrailInv
      <4> QED BY <1>1, <1>2, <2>1, <3>1, <3>3, <4>1 DEF TrailFits
    <3> QED BY <3>2, <3>3
  <2>2. CASE j \notin Served'
    BY <2>2 DEF TrailFits
  <2> QED BY <2>1, <2>2
<1>5. (~tangled' /\ Served' = {}) => price' = entry'.after
  <2> SUFFICES ASSUME ~tangled', Served' = {} PROVE price' = entry'.after
    OBVIOUS
  <2>1. CASE RecordChange(k)
    BY <1>1, <1>3, <2>1 DEF Recorded
  <2>2. CASE ~RecordChange(k)
    <3>1. ~tangled /\ entry' = entry /\ save[k].step # "written" /\ k \in OnTheWay
      BY <1>3, <2>2 DEF RecordFails, SaveDies
    <3>2. CASE k \in Served
      <4>1. TrailFits(k) /\ save[k].step = "read"
        BY <3>1, <3>2 DEF PriceTrailInv, Served
      <4>2. price = save[k].before /\ save[k].before = entry.after
        BY <3>1, <3>2, <4>1 DEF TrailFits
      <4> QED BY <1>1, <3>1, <4>2
    <3>3. CASE k \notin Served
      BY <1>1, <1>2, <3>1, <3>3 DEF PriceTrailInv
    <3> QED BY <3>2, <3>3
  <2> QED BY <2>1, <2>2
<1> QED BY <1>4, <1>5 DEF PriceTrailInv

LEMMA PriceTrailInvHolds == PriceSpec => []PriceTrailInv
<1>1. PriceInit => PriceTrailInv
  <2> SUFFICES ASSUME PriceInit PROVE PriceTrailInv
    OBVIOUS
  <2>1. PriceTypes
    BY PriceAssumption DEF PriceInit, PriceTypes, PriceList
  <2>2. Served = {} /\ price = entry.after
    BY DEF PriceInit, Served, NoSave
  <2> QED BY <2>1, <2>2 DEF PriceTrailInv, TrailFits
<1>2. PriceTrailInv /\ [PriceNext]_priceVars => PriceTrailInv'
  <2> SUFFICES ASSUME PriceTrailInv, [PriceNext]_priceVars PROVE PriceTrailInv'
    OBVIOUS
  <2>1. PriceTypes'
    BY PricesStayTyped DEF PriceTrailInv
  <2>2. CASE UNCHANGED <<price, save, entry, tangled>>
    BY <2>1, <2>2 DEF PriceTrailInv, TrailFits, Served
  <2>3. ASSUME NEW g \in Grids, EditGrid(g)
        PROVE  PriceTrailInv'
    <3>1. ASSUME NEW k \in Saves, SubmitPrices(g, k)
          PROVE  PriceTrailInv'
      <4>1. /\ UNCHANGED <<price, entry, tangled>> /\ save'[k].step = "sent" /\ save[k] = NoSave
            /\ \A j \in Saves \ {k} : save'[j] = save[j]
        BY <3>1 DEF SubmitPrices, PriceTrailInv, PriceTypes
      <4>2. Served' = Served /\ k \notin Served
        BY <4>1 DEF Served, NoSave
      <4> QED BY <2>1, <4>1, <4>2 DEF PriceTrailInv, TrailFits
    <3>2. CASE \A k \in Saves : ~SubmitPrices(g, k)
      <4>1. UNCHANGED <<price, save, entry, tangled>>
        BY <2>3, <3>2 DEF EditGrid, LoadPrices, ShowPrices, LeavePrices, PricesSaved,
            SaveUnanswered, SetPrice
      <4> QED BY <2>2, <4>1
    <3> QED BY <3>1, <3>2
  <2>4. ASSUME NEW k \in Saves, Replace(k)
        PROVE  PriceTrailInv'
    BY <2>1, <2>4, ReadingKeepsTrail, WritingKeepsTrail, EndingKeepsTrail DEF Replace
  <2>5. CASE UNCHANGED priceVars
    BY <2>2, <2>5 DEF priceVars
  <2> QED BY <2>3, <2>4, <2>5 DEF PriceNext
<1> QED BY <1>1, <1>2, PTL DEF PriceSpec

\* Every entry of the audit trail starts from the list the entry before ended
\* with, unless saves were served at once or an entry was lost, for any number
\* of screens and saves.
THEOREM PriceTrailHolds == PriceSpec => PriceTrailIsAChain
<1>1. PriceTrailInv /\ [PriceNext]_priceVars
        => [entry' # entry /\ ~tangled => entry'.before = entry.after]_priceVars
  <2> SUFFICES ASSUME PriceTrailInv, PriceNext, entry' # entry, ~tangled
               PROVE  entry'.before = entry.after
    OBVIOUS
  <2>1. PICK k \in Saves : RecordChange(k)
    BY DEF PriceNext, EditGrid, LoadPrices, ShowPrices, LeavePrices, PricesSaved, SaveUnanswered,
        SetPrice, SubmitPrices, Replace, ReadPrevious, WritePrices, RecordFails, SaveDies
  <2>2. TrailFits(k) /\ k \in Served /\ entry' = Recorded(k)
    BY <2>1 DEF PriceTrailInv, RecordChange, Served
  <2> QED BY <2>2 DEF TrailFits, Recorded
<1> QED BY <1>1, PriceTrailInvHolds, PTL DEF PriceSpec, PriceTrailIsAChain
-----------------------------------------------------------------------------
(* The profile form. *)

\* The profile on its way to the screen, and the form, hold what is stored.
LoadsMatch ==
    /\ opening # Absent => ~HasForm /\ \A f \in FormFields \ elsewhere : opening[f] = personal[f]
    /\ reload # Absent =>
          /\ submitted # Absent /\ profileSave[submitted] = ProfileSaveOver
          /\ \A f \in FormFields \ elsewhere : reload[f] = personal[f]

\* The save the screen waits for holds the texts of the form, but for later
\* ones; once it is written, they are stored where it had a text.
SubmittedFits ==
    /\ typing \subseteq unsaved
    /\ submitted # Absent =>
          /\ HasForm
          /\ profileSave[submitted] # NoProfileSave
          /\ Live(submitted) =>
                \A f \in FormFields \ typing : inputs[f] = profileSave[submitted].body[f]
          /\ profileSave[submitted].step = "written" =>
                \A f \in FormFields \ (typing \cup elsewhere) :
                    profileSave[submitted].body[f] # Blank => inputs[f] = personal[f]

ProfileInv == ProfileTypes /\ FormShowsWhatIsStored /\ LoadsMatch /\ SubmittedFits

LEMMA ProfileSaveFields ==
    ASSUME ProfileTypes, NEW k \in ProfileSaves, profileSave[k].step \in {"sent", "admitted", "written"}
    PROVE  profileSave[k] \in ProfileSave /\ profileSave[k].body \in Profile
BY DEF ProfileTypes, ProfileSave, NoProfileSave, ProfileSaveOver

\* Absent is neither a form nor a call.
LEMMA AbsentIsNone == Absent \notin Profile /\ Absent \notin ProfileSaves
BY ProfileAssumption

\* The type invariant of ProfileForm.
LEMMA ProfileStaysTyped ==
    ASSUME ProfileTypes, [ProfileNext]_profileVars
    PROVE  ProfileTypes'
<1> USE DEF ProfileTypes
<1>1. CASE ProfilePage
  <2>1. CASE OpenProfile \/ ShowForm \/ LeaveProfile
    BY <2>1 DEF OpenProfile, ShowForm, LeaveProfile
  <2>2. CASE PatchAnswered
    <3>1. profileSave' \in [ProfileSaves -> ProfileSave \cup {NoProfileSave, ProfileSaveOver}]
      BY <2>2 DEF PatchAnswered
    <3>2. unsaved' \subseteq Fields
      BY <2>2 DEF PatchAnswered
    <3> QED BY <2>2, <3>1, <3>2 DEF PatchAnswered
  <2>3. CASE ShowSaved
    <3>1. inputs' \in Profile
      BY <2>3 DEF ShowSaved, Refilled, Profile
    <3> QED BY <2>3, <3>1 DEF ShowSaved
  <2>4. CASE SaveFails
    BY <2>4 DEF SaveFails
  <2>5. ASSUME NEW f \in Fields, NEW text \in Texts, Type(f, text)
        PROVE  ProfileTypes'
    <3>1. inputs \in Profile
      BY <2>5 DEF Type, HasForm
    <3>2. inputs' \in Profile /\ strokes' \in Nat
      BY <2>5, <3>1, ProfileAssumption DEF Type, Act, Profile
    <3> QED BY <2>5, <3>2 DEF Type
  <2>6. ASSUME NEW k \in ProfileSaves, SubmitProfile(k)
        PROVE  ProfileTypes'
    <3>1. [step |-> "sent", body |-> inputs] \in ProfileSave
      BY <2>6 DEF SubmitProfile, HasForm, ProfileSave
    <3> QED BY <2>6, <3>1 DEF SubmitProfile
  <2> QED BY <1>1, <2>1, <2>2, <2>3, <2>4, <2>5, <2>6 DEF ProfilePage
<1>2. CASE Elsewhere
  <2>1. CASE SetActive
    BY <2>1, ProfileAssumption DEF SetActive, Act
  <2>2. ASSUME NEW f \in Fields, NEW text \in Texts, WriteElsewhere(f, text)
        PROVE  ProfileTypes'
    <3>1. personal' \in Profile /\ strokes' \in Nat
      BY <2>2, ProfileAssumption DEF WriteElsewhere, Act, Profile
    <3> QED BY <2>2, <3>1 DEF WriteElsewhere
  <2> QED BY <1>2, <2>1, <2>2 DEF Elsewhere
<1>3. ASSUME NEW k \in ProfileSaves, ProfileService(k)
      PROVE  ProfileTypes'
  <2>1. CASE AdmitPatch(k)
    <3>1. [profileSave[k] EXCEPT !.step = "admitted"] \in ProfileSave
      BY <2>1, ProfileSaveFields DEF AdmitPatch, ProfileSave
    <3> QED BY <2>1, <3>1 DEF AdmitPatch
  <2>2. CASE UpdateProfile(k)
    <3>1. profileSave[k] \in ProfileSave /\ profileSave[k].body \in Profile
      BY <2>2, ProfileSaveFields DEF UpdateProfile
    <3>2. [profileSave[k] EXCEPT !.step = "written"] \in ProfileSave
      BY <3>1 DEF ProfileSave
    <3>3. personal' \in Profile
      BY <2>2, <3>1 DEF UpdateProfile, Profile
    <3>4. elsewhere' \subseteq Fields
      BY <2>2 DEF UpdateProfile, Pruned, FormFields, Fields
    <3> QED BY <2>2, <3>2, <3>3, <3>4 DEF UpdateProfile
  <2>3. CASE PatchDies(k)
    BY <2>3 DEF PatchDies
  <2> QED BY <1>3, <2>1, <2>2, <2>3 DEF ProfileService
<1>4. CASE UNCHANGED profileVars
  BY <1>4 DEF profileVars
<1> QED BY <1>1, <1>2, <1>3, <1>4 DEF ProfileNext

\* What the screen does keeps the form true.
LEMMA ProfilePageKeeps ==
    ASSUME ProfileInv, ProfileTypes', ProfilePage
    PROVE  ProfileInv'
<1> USE DEF HasForm
<1>0. ProfileTypes /\ FormShowsWhatIsStored /\ LoadsMatch /\ SubmittedFits
  BY DEF ProfileInv
<1>1. FormFields' = FormFields /\ FormFields \subseteq Fields /\ UNCHANGED <<who, personal>>
  BY DEF ProfilePage, OpenProfile, ShowForm, LeaveProfile, PatchAnswered, ShowSaved, SaveFails, Type,
      SubmitProfile, FormFields, Fields
<1>2. CASE OpenProfile
  BY <1>0, <1>1, <1>2 DEF OpenProfile, ProfileInv, FormShowsWhatIsStored, LoadsMatch, SubmittedFits
<1>3. CASE ShowForm
  <2>1. submitted = Absent /\ reload = Absent
    BY <1>0, <1>3 DEF ShowForm, LoadsMatch, SubmittedFits
  <2> QED BY <1>0, <1>1, <1>3, <2>1
      DEF ShowForm, ProfileInv, FormShowsWhatIsStored, LoadsMatch, SubmittedFits
<1>4. CASE LeaveProfile
  BY <1>4 DEF LeaveProfile, ProfileInv, FormShowsWhatIsStored, LoadsMatch, SubmittedFits
<1>5. CASE PatchAnswered
  <2>1. /\ submitted \in ProfileSaves /\ profileSave[submitted].step = "written"
        /\ profileSave'[submitted] = ProfileSaveOver /\ reload' = personal
        /\ unsaved' = typing \cup (unsaved \cap Blanks(submitted))
        /\ opening = Absent /\ inputs # Absent /\ typing \subseteq unsaved
        /\ UNCHANGED <<who, personal, opening, inputs, submitted, typing, elsewhere>>
    BY <1>0, <1>5 DEF PatchAnswered, LoadsMatch, SubmittedFits, ProfileTypes
  <2>2. LoadsMatch'
    <3>1. opening' = Absent /\ submitted' = submitted /\ submitted # Absent
      BY <2>1, AbsentIsNone
    <3>2. \A f \in FormFields : reload'[f] = personal'[f]
      BY <2>1
    <3> QED BY <1>1, <2>1, <3>1, <3>2 DEF LoadsMatch
  <2>3. SubmittedFits'
    BY <1>0, <1>1, <2>1 DEF SubmittedFits, Live, ProfileSaveOver, NoProfileSave
  <2>4. FormShowsWhatIsStored'
    <3>1. ASSUME NEW f \in FormFields \ (unsaved' \cup elsewhere)
          PROVE  inputs[f] = personal[f]
      <4>1. CASE f \notin unsaved
        BY <1>0, <2>1, <3>1, <4>1 DEF FormShowsWhatIsStored
      <4>2. CASE f \in unsaved
        <5>1. f \notin typing /\ profileSave[submitted].body[f] # Blank
          BY <2>1, <3>1, <4>2 DEF Blanks
        <5>2. f \in FormFields \ (typing \cup elsewhere)
          BY <3>1, <5>1
        <5>3. submitted # Absent
          BY <2>1, AbsentIsNone
        <5> QED BY <1>0, <2>1, <5>1, <5>2, <5>3 DEF SubmittedFits
      <4> QED BY <4>1, <4>2
    <3> QED BY <1>1, <2>1, <3>1 DEF FormShowsWhatIsStored
  <2> QED BY <2>2, <2>3, <2>4 DEF ProfileInv
<1>6. CASE ShowSaved
  <2>1. /\ submitted \in ProfileSaves /\ inputs # Absent /\ opening = Absent
        /\ \A f \in FormFields \ elsewhere : reload[f] = personal[f]
        /\ inputs' \in Refilled(reload) /\ submitted' = Absent /\ reload' = Absent
        /\ typing \subseteq unsaved
        /\ UNCHANGED <<who, personal, opening, unsaved, typing, elsewhere>>
    BY <1>0, <1>6 DEF ShowSaved, LoadsMatch, SubmittedFits, ProfileTypes
  <2>2. \A f \in FormFields : inputs'[f] = inputs[f] \/ inputs'[f] = reload[f]
    BY <1>1, <2>1 DEF Refilled
  <2>3. inputs' # Absent
    <3>1. inputs' \in Profile
      BY <2>1 DEF Refilled, Profile
    <3> QED BY <3>1, AbsentIsNone
  <2> QED BY <1>0, <1>1, <2>1, <2>2, <2>3
      DEF ProfileInv, FormShowsWhatIsStored, LoadsMatch, SubmittedFits
<1>7. CASE SaveFails
  BY <1>0, <1>1, <1>7 DEF SaveFails, ProfileInv, FormShowsWhatIsStored, LoadsMatch, SubmittedFits
<1>8. ASSUME NEW f \in Fields, NEW text \in Texts, Type(f, text)
      PROVE  ProfileInv'
  <2>1. /\ inputs \in Profile /\ inputs' = [inputs EXCEPT ![f] = text] /\ inputs' # Absent
        /\ unsaved' = unsaved \cup {f} /\ typing' = typing \cup {f}
        /\ UNCHANGED <<who, personal, opening, submitted, reload, profileSave, elsewhere>>
    <3>1. inputs \in Profile /\ inputs' = [inputs EXCEPT ![f] = text]
      BY <1>0, <1>8 DEF Type, ProfileTypes
    <3>2. inputs' \in Profile
      BY <3>1 DEF Profile
    <3> QED BY <1>8, <3>1, <3>2, AbsentIsNone DEF Type
  <2>2. \A h \in Fields \ {f} : inputs'[h] = inputs[h]
    BY <2>1 DEF Profile
  <2>3. FormShowsWhatIsStored'
    <3>1. ASSUME NEW h \in FormFields \ (unsaved' \cup elsewhere)
          PROVE  inputs'[h] = personal[h]
      <4>1. h \in Fields \ {f} /\ h \in FormFields \ (unsaved \cup elsewhere)
        BY <1>1, <2>1, <3>1
      <4>2. inputs[h] = personal[h]
        BY <1>0, <1>8, <4>1 DEF FormShowsWhatIsStored, Type
      <4> QED BY <2>2, <4>1, <4>2
    <3> QED BY <1>1, <2>1, <3>1 DEF FormShowsWhatIsStored
  <2>4. LoadsMatch'
    BY <1>0, <1>1, <2>1, AbsentIsNone DEF LoadsMatch
  <2>5. SubmittedFits'
    BY <1>0, <1>1, <2>1, <2>2 DEF SubmittedFits, Live
  <2> QED BY <2>3, <2>4, <2>5 DEF ProfileInv
<1>9. ASSUME NEW k \in ProfileSaves, SubmitProfile(k)
      PROVE  ProfileInv'
  <2>1. /\ inputs # Absent /\ submitted = Absent /\ submitted' = k /\ typing' = {}
        /\ profileSave'[k].step = "sent" /\ profileSave'[k].body = inputs
        /\ profileSave'[k] # NoProfileSave /\ profileSave[k] = NoProfileSave
        /\ reload = Absent
        /\ UNCHANGED <<who, personal, opening, inputs, reload, unsaved, elsewhere>>
    BY <1>0, <1>9 DEF SubmitProfile, NoProfileSave, LoadsMatch, ProfileTypes
  <2>2. FormShowsWhatIsStored' /\ LoadsMatch'
    BY <1>0, <1>1, <2>1 DEF FormShowsWhatIsStored, LoadsMatch
  <2>3. SubmittedFits'
    BY <1>0, <1>1, <2>1 DEF SubmittedFits
  <2> QED BY <2>2, <2>3 DEF ProfileInv
<1> QED BY <1>2, <1>3, <1>4, <1>5, <1>6, <1>7, <1>8, <1>9 DEF ProfilePage

\* A call that is written stores the texts it holds, and nothing else.
LEMMA UpdateKeepsProfile ==
    ASSUME ProfileInv, ProfileTypes', NEW k \in ProfileSaves, UpdateProfile(k)
    PROVE  ProfileInv'
<1> USE DEF HasForm
<1>1. /\ ProfileTypes /\ FormShowsWhatIsStored /\ LoadsMatch /\ SubmittedFits
      /\ profileSave[k] \in ProfileSave /\ profileSave[k].step = "admitted"
      /\ profileSave'[k] = [profileSave[k] EXCEPT !.step = "written"]
      /\ \A j \in ProfileSaves \ {k} : profileSave'[j] = profileSave[j]
      /\ personal' = [f \in Fields |-> IF f \in Pruned(k) THEN profileSave[k].body[f] ELSE personal[f]]
      /\ elsewhere' = IF submitted = k THEN elsewhere \ Pruned(k) ELSE elsewhere \cup Pruned(k)
      /\ FormFields' = FormFields /\ FormFields \subseteq Fields
      /\ UNCHANGED <<opening, inputs, submitted, reload, unsaved, typing>>
  BY ProfileSaveFields DEF ProfileInv, UpdateProfile, ProfileTypes, FormFields, Fields
<1>2. profileSave'[k].step = "written" /\ profileSave'[k].body = profileSave[k].body
      /\ profileSave'[k] # NoProfileSave /\ profileSave[k] # ProfileSaveOver
  BY <1>1 DEF ProfileSave, NoProfileSave, ProfileSaveOver
<1>3. CASE submitted = k
  <2>1. /\ inputs # Absent /\ opening = Absent /\ reload = Absent /\ typing \subseteq unsaved
        /\ \A f \in FormFields \ typing : inputs[f] = profileSave[k].body[f]
    BY <1>1, <1>2, <1>3, AbsentIsNone DEF LoadsMatch, SubmittedFits, Live
  <2>2. \A f \in FormFields \ typing : f \in Pruned(k) => inputs[f] = personal'[f]
    BY <1>1, <2>1
  <2>3. \A f \in FormFields \ Pruned(k) : personal'[f] = personal[f]
    BY <1>1
  <2>4. FormShowsWhatIsStored'
    BY <1>1, <1>3, <2>1, <2>2, <2>3 DEF FormShowsWhatIsStored
  <2>5. LoadsMatch'
    BY <1>1, <2>1 DEF LoadsMatch
  <2>6. SubmittedFits'
    BY <1>1, <1>2, <1>3, <2>1, <2>2 DEF SubmittedFits, Live, Pruned
  <2> QED BY <2>4, <2>5, <2>6 DEF ProfileInv
<1>4. CASE submitted # k
  <2>1. \A f \in FormFields \ elsewhere' : f \notin elsewhere /\ personal'[f] = personal[f]
    BY <1>1, <1>4
  <2>2. FormShowsWhatIsStored'
    BY <1>1, <2>1 DEF FormShowsWhatIsStored
  <2>3. submitted # Absent => profileSave'[submitted] = profileSave[submitted]
    BY <1>1, <1>4 DEF ProfileTypes
  <2>4. LoadsMatch'
    BY <1>1, <2>1, <2>3 DEF LoadsMatch
  <2>5. SubmittedFits'
    BY <1>1, <2>1, <2>3 DEF SubmittedFits, Live
  <2> QED BY <2>2, <2>4, <2>5 DEF ProfileInv
<1> QED BY <1>3, <1>4

\* What the API and other people do keeps the form true.
LEMMA ProfileOthersKeep ==
    ASSUME ProfileInv, ProfileTypes', Elsewhere \/ \E k \in ProfileSaves : AdmitPatch(k) \/ PatchDies(k)
    PROVE  ProfileInv'
<1> USE DEF HasForm
<1>0. ProfileTypes /\ FormShowsWhatIsStored /\ LoadsMatch /\ SubmittedFits
  BY DEF ProfileInv
<1>1. ASSUME NEW f \in Fields, NEW text \in Texts, WriteElsewhere(f, text)
      PROVE  ProfileInv'
  <2>1. /\ \A h \in FormFields \ elsewhere' : h \notin elsewhere /\ personal'[h] = personal[h]
        /\ FormFields' = FormFields
        /\ UNCHANGED <<opening, inputs, submitted, reload, profileSave, unsaved, typing>>
    BY <1>0, <1>1 DEF WriteElsewhere, FormFields, Fields, ProfileTypes, Profile
  <2>2. FormShowsWhatIsStored' /\ LoadsMatch'
    BY <1>0, <2>1 DEF FormShowsWhatIsStored, LoadsMatch
  <2>3. SubmittedFits'
    BY <1>0, <2>1 DEF SubmittedFits, Live
  <2> QED BY <2>2, <2>3 DEF ProfileInv
<1>2. CASE SetActive
  <2>1. /\ FormFields' = FormFields
        /\ UNCHANGED <<personal, opening, inputs, submitted, reload, profileSave, unsaved, typing, elsewhere>>
    BY <1>2 DEF SetActive, FormFields
  <2> QED BY <1>0, <2>1 DEF ProfileInv, FormShowsWhatIsStored, LoadsMatch, SubmittedFits, Live
<1>3. ASSUME NEW k \in ProfileSaves, AdmitPatch(k) \/ PatchDies(k)
      PROVE  ProfileInv'
  <2>1. /\ FormFields' = FormFields
        /\ Live(k) /\ profileSave[k] \in ProfileSave
        /\ \A j \in ProfileSaves \ {k} : profileSave'[j] = profileSave[j]
        /\ UNCHANGED <<personal, opening, inputs, submitted, reload, unsaved, typing, elsewhere>>
    BY <1>0, <1>3, ProfileSaveFields DEF AdmitPatch, PatchDies, FormFields, Live, ProfileTypes
  <2>2. /\ profileSave'[k] # NoProfileSave /\ profileSave[k] # ProfileSaveOver
        /\ profileSave'[k].step # "written"
        /\ profileSave'[k].step = "admitted" => profileSave'[k].body = profileSave[k].body
        /\ profileSave'[k].step \in {"admitted", "over"}
    <3>1. CASE AdmitPatch(k)
      <4>1. profileSave'[k] = [profileSave[k] EXCEPT !.step = "admitted"]
        BY <1>0, <3>1 DEF AdmitPatch, ProfileTypes
      <4> QED BY <2>1, <4>1 DEF ProfileSave, NoProfileSave, ProfileSaveOver
    <3>2. CASE PatchDies(k)
      <4>1. profileSave'[k] = ProfileSaveOver
        BY <1>0, <3>2 DEF PatchDies, ProfileTypes
      <4> QED BY <2>1, <4>1 DEF ProfileSave, NoProfileSave, ProfileSaveOver
    <3> QED BY <1>3, <3>1, <3>2
  <2>3. FormShowsWhatIsStored'
    BY <1>0, <2>1 DEF FormShowsWhatIsStored
  <2>4. LoadsMatch'
    BY <1>0, <2>1, <2>2 DEF LoadsMatch, ProfileTypes
  <2>5. SubmittedFits'
    BY <1>0, <2>1, <2>2 DEF SubmittedFits, Live, ProfileTypes
  <2> QED BY <2>3, <2>4, <2>5 DEF ProfileInv
<1> QED BY <1>1, <1>2, <1>3 DEF Elsewhere

LEMMA ProfileInvHolds == ProfileSpec => []ProfileInv
<1>1. ProfileInit => ProfileInv
  <2> SUFFICES ASSUME ProfileInit PROVE ProfileInv
    OBVIOUS
  <2>1. ProfileTypes
    BY DEF ProfileInit, ProfileTypes, Profile
  <2>2. FormShowsWhatIsStored /\ LoadsMatch /\ SubmittedFits
    BY DEF ProfileInit, FormShowsWhatIsStored, LoadsMatch, SubmittedFits, HasForm
  <2> QED BY <2>1, <2>2 DEF ProfileInv
<1>2. ProfileInv /\ [ProfileNext]_profileVars => ProfileInv'
  <2> SUFFICES ASSUME ProfileInv, [ProfileNext]_profileVars PROVE ProfileInv'
    OBVIOUS
  <2>1. ProfileTypes'
    BY ProfileStaysTyped DEF ProfileInv
  <2>2. CASE UNCHANGED profileVars
    BY <2>1, <2>2 DEF profileVars, ProfileInv, FormShowsWhatIsStored, LoadsMatch, SubmittedFits,
        HasForm, Live, FormFields
  <2> QED BY <2>1, <2>2, ProfilePageKeeps, UpdateKeepsProfile, ProfileOthersKeep
      DEF ProfileNext, ProfileService
<1> QED BY <1>1, <1>2, PTL DEF ProfileSpec

\* The profile form shows what is stored, but for edits that are not saved,
\* blanks and the writes of others, for any fields, texts and number of saves.
THEOREM ProfileFormIsTrue == ProfileSpec => [](ProfileTypes /\ FormShowsWhatIsStored)
<1>1. ProfileInv => ProfileTypes /\ FormShowsWhatIsStored
  BY DEF ProfileInv
<1> QED BY <1>1, ProfileInvHolds, PTL
-----------------------------------------------------------------------------
(* Passwords. *)

\* A call that has succeeded, and that no other has overtaken, has set the
\* password of its account, or found it there.
AnswerFits(k) ==
    LET j == attempt[k] IN
    (j # NoAttempt /\ j.step = "done" /\ j.ok /\ j.latest /\ j.of \in Tables) =>
        AccountExists(j.of) /\ password[j.of] = j.new

\* A sign-up is for one of the tables, whatever becomes of the rows there.
SignUpHasTable(k) ==
    (attempt[k] # NoAttempt /\ attempt[k].form = "signup") => attempt[k].of \in Tables

CredentialInv ==
    /\ CredentialTypes /\ KnownPasswordIsKept
    /\ \A k \in Attempts : AnswerFits(k) /\ SignUpHasTable(k)

\* The fields of a call, and of what becomes of it.
LEMMA AttemptFields ==
    ASSUME CredentialTypes, NEW k \in Attempts, attempt[k] # NoAttempt
    PROVE  /\ attempt[k] \in Attempt
           /\ attempt[k].form \in {"signup", "login", "change"} /\ attempt[k].of \in Tables \cup {"none"}
           /\ attempt[k].step \in {"sent", "admitted", "checked", "done"}
           /\ attempt[k].old \in Passwords /\ attempt[k].new \in Passwords
           /\ attempt[k].ok \in BOOLEAN /\ attempt[k].awaited \in BOOLEAN /\ attempt[k].latest \in BOOLEAN
BY DEF CredentialTypes, Attempt

LEMMA AttemptIsNoNoAttempt == NoAttempt \notin Attempt
BY DEF NoAttempt, Attempt

LEMMA NoneIsNoTable == "none" \notin Tables
BY DEF Tables

LEMMA EndedFields ==
    ASSUME CredentialTypes, NEW k \in Attempts, attempt[k] # NoAttempt,
           NEW t \in Tables \cup {"none"}, NEW ok \in BOOLEAN, NEW latest \in BOOLEAN
    PROVE  /\ Ended(k, t, ok, latest) \in Attempt \cup {NoAttempt}
           /\ ~attempt[k].awaited => Ended(k, t, ok, latest) = NoAttempt
           /\ attempt[k].awaited =>
                 /\ Ended(k, t, ok, latest) # NoAttempt
                 /\ Ended(k, t, ok, latest).step = "done" /\ Ended(k, t, ok, latest).awaited
                 /\ Ended(k, t, ok, latest).of = t
                 /\ Ended(k, t, ok, latest).ok <=> ok
                 /\ Ended(k, t, ok, latest).new = attempt[k].new
                 /\ Ended(k, t, ok, latest).form = attempt[k].form
<1>1. CASE attempt[k].awaited
  <2>1. Ended(k, t, ok, latest) =
            [attempt[k] EXCEPT !.step = "done", !.of = t, !.ok = ok, !.latest = latest]
    BY <1>1 DEF Ended
  <2>2. attempt[k] \in Attempt
    BY AttemptFields
  <2>3. Ended(k, t, ok, latest) \in Attempt
    BY <2>1, <2>2 DEF Attempt
  <2>4. Ended(k, t, ok, latest) # NoAttempt
    BY <2>3, AttemptIsNoNoAttempt
  <2>5. Ended(k, t, ok, latest).ok <=> ok
    BY <2>1, <2>2 DEF Attempt
  <2> QED BY <1>1, <2>1, <2>2, <2>3, <2>4, <2>5 DEF Attempt
<1>2. CASE ~attempt[k].awaited
  BY <1>2 DEF Ended
<1> QED BY <1>1, <1>2

\* A call that ends is forgotten, or is still about its table and its password.
LEMMA EndedIsForgotten ==
    ASSUME CredentialTypes, NEW k \in Attempts, attempt[k] # NoAttempt,
           NEW t \in Tables \cup {"none"}, NEW ok \in BOOLEAN, NEW latest \in BOOLEAN
    PROVE  \/ Ended(k, t, ok, latest) = NoAttempt
           \/ /\ Ended(k, t, ok, latest).ok => ok
              /\ Ended(k, t, ok, latest).of = t
              /\ Ended(k, t, ok, latest).new = attempt[k].new
              /\ Ended(k, t, ok, latest).form = attempt[k].form
<1>1. CASE attempt[k].awaited
  BY <1>1, EndedFields
<1>2. CASE ~attempt[k].awaited
  BY <1>2, EndedFields
<1> QED BY <1>1, <1>2

\* A password of the table is set: no call of it is the latest any more, and
\* nothing else of the calls changes.
LEMMA SupersededFields ==
    ASSUME CredentialTypes, NEW t, NEW i \in Attempts
    PROVE  /\ Superseded(t)[i] \in Attempt \cup {NoAttempt}
           /\ (Superseded(t)[i] = NoAttempt) <=> (attempt[i] = NoAttempt)
           /\ (attempt[i] # NoAttempt /\ attempt[i].of = t) =>
                 ~Superseded(t)[i].latest /\ Superseded(t)[i].of = t
           /\ (attempt[i] = NoAttempt \/ attempt[i].of # t) => Superseded(t)[i] = attempt[i]
           /\ attempt[i] # NoAttempt => Superseded(t)[i].form = attempt[i].form
<1>1. CASE attempt[i] = NoAttempt \/ attempt[i].of # t
  <2>1. Superseded(t)[i] = attempt[i] /\ attempt[i] \in Attempt \cup {NoAttempt}
    BY <1>1 DEF Superseded, CredentialTypes
  <2> QED BY <1>1, <2>1
<1>2. CASE attempt[i] # NoAttempt /\ attempt[i].of = t
  <2>1. Superseded(t)[i] = [attempt[i] EXCEPT !.latest = FALSE] /\ attempt[i] \in Attempt
    BY <1>2, AttemptFields DEF Superseded
  <2>2. Superseded(t)[i] \in Attempt
    BY <2>1 DEF Attempt
  <2>3. Superseded(t)[i] # NoAttempt
    BY <2>2, AttemptIsNoNoAttempt
  <2> QED BY <1>2, <2>1, <2>2, <2>3 DEF Attempt
<1> QED BY <1>1, <1>2

LEMMA SetByEffect ==
    ASSUME CredentialTypes, NEW k \in Attempts, attempt[k] # NoAttempt, attempt[k].of \in Tables,
           SetBy(k)
    PROVE  /\ attempt' \in [Attempts -> Attempt \cup {NoAttempt}]
           /\ attempt'[k] = Ended(k, attempt[k].of, TRUE, TRUE)
           /\ password' = [password EXCEPT ![attempt[k].of] = attempt[k].new]
           /\ certain' = [certain EXCEPT ![attempt[k].of] = @ /\ attempt[k].awaited]
           /\ UNCHANGED <<cookie, told, tries>>
           /\ \A i \in Attempts \ {k} : attempt'[i] = Superseded(attempt[k].of)[i]
<1> DEFINE t == attempt[k].of
<1>1. attempt' = [Superseded(t) EXCEPT ![k] = Ended(k, t, TRUE, TRUE)]
  BY DEF SetBy
<1>2. Superseded(t) \in [Attempts -> Attempt \cup {NoAttempt}]
  <2>1. \A i \in Attempts : Superseded(t)[i] \in Attempt \cup {NoAttempt}
    BY SupersededFields
  <2> QED BY <2>1 DEF Superseded
<1>3. Ended(k, t, TRUE, TRUE) \in Attempt \cup {NoAttempt}
  BY EndedFields
<1> HIDE DEF t
<1>4. /\ attempt' \in [Attempts -> Attempt \cup {NoAttempt}]
      /\ attempt'[k] = Ended(k, t, TRUE, TRUE)
      /\ \A i \in Attempts \ {k} : attempt'[i] = Superseded(t)[i]
  BY <1>1, <1>2, <1>3
<1> QED BY <1>4 DEF SetBy, NewSecret, t

\* What becomes of the calls when an account is removed.
LEMMA RemovalEffect ==
    ASSUME CredentialTypes, NEW t \in Tables, RemoveAccount(t), NEW i \in Attempts
    PROVE  /\ attempt'[i] \in Attempt \cup {NoAttempt}
           /\ (attempt'[i] = NoAttempt) <=> (attempt[i] = NoAttempt)
           /\ (attempt[i] = NoAttempt \/ attempt[i].of # t) => attempt'[i] = attempt[i]
           /\ (attempt[i] # NoAttempt /\ attempt[i].of = t) => ~attempt'[i].latest \/ attempt'[i].of = "none"
           /\ (attempt[i] # NoAttempt /\ attempt'[i].form = "signup") =>
                 attempt[i].form = "signup" /\ attempt'[i].of = attempt[i].of
<1>1. CASE attempt[i] # NoAttempt /\ attempt[i].of = t /\ attempt[i].form # "signup"
  <2>1. attempt'[i] = [attempt[i] EXCEPT !.of = "none"] /\ attempt[i] \in Attempt
    BY <1>1, AttemptFields DEF RemoveAccount
  <2>2. attempt'[i] \in Attempt
    BY <2>1 DEF Attempt
  <2>3. attempt'[i] # NoAttempt
    BY <2>2, AttemptIsNoNoAttempt
  <2> QED BY <1>1, <2>1, <2>2, <2>3 DEF Attempt
<1>2. CASE ~(attempt[i] # NoAttempt /\ attempt[i].of = t /\ attempt[i].form # "signup")
  <2>1. attempt'[i] = Superseded(t)[i]
    BY <1>2 DEF RemoveAccount
  <2> QED BY <1>2, <2>1, SupersededFields
<1> QED BY <1>1, <1>2

\* The type invariant of Credentials.
LEMMA CredentialsStayTyped ==
    ASSUME CredentialTypes, [CredentialNext]_credentialVars
    PROVE  CredentialTypes'
<1> USE DEF CredentialTypes
<1>1. ASSUME NEW k \in Attempts, NEW form \in {"signup", "login", "change"},
             NEW t \in Tables \cup {"none"}, NEW old \in Passwords, NEW new \in Passwords,
             Submit(k, form, t, old, new)
      PROVE  CredentialTypes'
  <2>1. [form |-> form, of |-> t, step |-> "sent", old |-> old, new |-> new,
         ok |-> FALSE, awaited |-> TRUE, latest |-> FALSE] \in Attempt
    BY DEF Attempt
  <2>2. tries' \in Nat
    BY <1>1, CredentialAssumption DEF Submit, Try
  <2> QED BY <1>1, <2>1, <2>2 DEF Submit
<1>2. ASSUME NEW k \in Attempts, UseForm(k)
      PROVE  CredentialTypes'
  <2>1. CASE AnswerForm(k)
    <3>1. /\ attempt[k].new \in Passwords /\ attempt[k].latest \in BOOLEAN
          /\ attempt[k].of \in Tables \cup {"none"}
      BY <2>1, AttemptFields DEF AnswerForm
    <3>2. told' \in [Tables -> Passwords \cup {NoPassword}] /\ certain' \in [Tables -> BOOLEAN]
      BY <2>1, <3>1 DEF AnswerForm
    <3>3. cookie' \in Tables \cup {"none"}
      BY <2>1, <3>1 DEF AnswerForm
    <3>4. attempt' \in [Attempts -> Attempt \cup {NoAttempt}] /\ UNCHANGED <<account, password, tries>>
      BY <2>1 DEF AnswerForm
    <3> QED BY <3>2, <3>3, <3>4
  <2>2. CASE LoseAnswer(k)
    <3>1. [attempt[k] EXCEPT !.awaited = FALSE] \in Attempt
      BY <2>2, AttemptFields DEF LoseAnswer, Attempt
    <3>2. attempt' \in [Attempts -> Attempt \cup {NoAttempt}]
      BY <2>2, <3>1 DEF LoseAnswer
    <3>3. certain' \in [Tables -> BOOLEAN]
      BY <2>2 DEF LoseAnswer
    <3> QED BY <2>2, <3>2, <3>3 DEF LoseAnswer
  <2>3. CASE \E secret \in Passwords : SignIn(k, secret) \/ \E t \in Tables : SignUp(k, t, secret)
    BY <1>1, <2>3 DEF SignIn, SignUp
  <2>4. CASE \E old, new \in Passwords : ChangePassword(k, old, new)
    BY <1>1, <2>4 DEF ChangePassword
  <2> QED BY <1>2, <2>1, <2>2, <2>3, <2>4 DEF UseForm
<1>3. ASSUME NEW k \in Attempts, Auth(k)
      PROVE  CredentialTypes'
  <2>1. attempt[k] # NoAttempt
    BY <1>3 DEF Auth, Refuse, CheckClash, CreateAccount, LookInUsers, LookInClients, AdmitChange,
        VerifyCurrent, WriteSecret, AtStep
  <2>2. ASSUME NEW step \in {"admitted", "checked"}, GoOn(k, step)
        PROVE  CredentialTypes'
    <3>1. [attempt[k] EXCEPT !.step = step] \in Attempt
      BY <2>1, AttemptFields DEF Attempt
    <3> QED BY <2>2, <3>1 DEF GoOn
  <2>3. ASSUME NEW t \in Tables, Compare(k, t)
        PROVE  CredentialTypes'
    <3>1. Verified(t, attempt[k].new) \in BOOLEAN
      BY DEF Verified
    <3> QED BY <2>1, <2>3, <3>1, EndedFields DEF Compare
  <2>4. CASE Refuse(k)
    <3>1. attempt[k].of \in Tables \cup {"none"}
      BY <2>1, AttemptFields
    <3> QED BY <2>1, <2>4, <3>1, EndedFields DEF Refuse
  <2>5. CASE CreateAccount(k) \/ WriteSecret(k)
    <3>1. SetBy(k)
      BY <2>5 DEF CreateAccount, WriteSecret
    <3>2. CASE attempt[k].of \in Tables
      <4>1. /\ attempt' \in [Attempts -> Attempt \cup {NoAttempt}]
            /\ password' = [password EXCEPT ![attempt[k].of] = attempt[k].new]
            /\ certain' = [certain EXCEPT ![attempt[k].of] = @ /\ attempt[k].awaited]
            /\ UNCHANGED <<cookie, told, tries>>
        BY <2>1, <3>1, <3>2, SetByEffect
      <4>2. attempt[k].new \in Passwords /\ attempt[k].awaited \in BOOLEAN
        BY <2>1, AttemptFields
      <4>3. account' \in [Tables -> AccountStates]
        BY <2>5 DEF CreateAccount, WriteSecret, AccountStates
      <4>4. password' \in [Tables -> Passwords \cup {NoPassword}]
        BY <4>1, <4>2
      <4>5. certain' \in [Tables -> BOOLEAN]
        <5>1. (certain[attempt[k].of] /\ attempt[k].awaited) \in BOOLEAN
          BY <3>2, <4>2
        <5> QED BY <4>1, <4>2, <3>2
      <4> QED BY <4>1, <4>3, <4>4, <4>5
    <3>3. CASE attempt[k].of \notin Tables
      <4>1. /\ attempt' = [Superseded(attempt[k].of) EXCEPT ![k] = Ended(k, attempt[k].of, TRUE, TRUE)]
            /\ password' = password /\ certain' = certain /\ UNCHANGED <<cookie, told, tries>>
        BY <3>1, <3>3 DEF SetBy
      <4>2. attempt[k].of \in Tables \cup {"none"}
        BY <2>1, AttemptFields
      <4>3. Ended(k, attempt[k].of, TRUE, TRUE) \in Attempt \cup {NoAttempt}
        BY <2>1, <4>2, EndedFields
      <4>4. Superseded(attempt[k].of) \in [Attempts -> Attempt \cup {NoAttempt}]
        <5>1. \A i \in Attempts : Superseded(attempt[k].of)[i] \in Attempt \cup {NoAttempt}
          BY SupersededFields
        <5> QED BY <5>1 DEF Superseded
      <4>5. account' \in [Tables -> AccountStates]
        BY <2>5 DEF CreateAccount, WriteSecret, AccountStates
      <4> QED BY <4>1, <4>3, <4>4, <4>5
    <3> QED BY <3>2, <3>3
  <2>6. CASE CheckClash(k) \/ AdmitChange(k) \/ VerifyCurrent(k)
    BY <2>2, <2>6 DEF CheckClash, AdmitChange, VerifyCurrent
  <2>7. CASE LookInUsers(k) \/ LookInClients(k)
    <3>1. Compare(k, "USER") \/ Compare(k, "CLIENT") \/ GoOn(k, "checked")
      BY <2>7 DEF LookInUsers, LookInClients
    <3> QED BY <2>2, <2>3, <3>1 DEF Tables
  <2> QED BY <1>3, <2>4, <2>5, <2>6, <2>7 DEF Auth
<1>4. ASSUME NEW t \in Tables, Administer(t)
      PROVE  CredentialTypes'
  <2>1. CASE SetAccount(t)
    <3>1. account' \in [Tables -> AccountStates]
      BY <2>1 DEF SetAccount, AccountStates
    <3> QED BY <2>1, <3>1, CredentialAssumption DEF SetAccount, Try
  <2>2. CASE RemoveAccount(t)
    <3>1. attempt' \in [Attempts -> Attempt \cup {NoAttempt}]
      <4>1. \A i \in Attempts : attempt'[i] \in Attempt \cup {NoAttempt}
        BY <2>2, RemovalEffect
      <4> QED BY <2>2, <4>1 DEF RemoveAccount
    <3>2. /\ account' \in [Tables -> AccountStates] /\ password' \in [Tables -> Passwords \cup {NoPassword}]
          /\ certain' \in [Tables -> BOOLEAN] /\ cookie' \in Tables \cup {"none"} /\ UNCHANGED told
      BY <2>2 DEF RemoveAccount, AccountStates
    <3>3. tries' \in Nat
      BY <2>2, CredentialAssumption DEF RemoveAccount, Try
    <3> QED BY <3>1, <3>2, <3>3
  <2>3. ASSUME NEW new \in Passwords, SetByOthers(t, new)
        PROVE  CredentialTypes'
    <3>1. attempt' \in [Attempts -> Attempt \cup {NoAttempt}]
      <4>1. \A i \in Attempts : Superseded(t)[i] \in Attempt \cup {NoAttempt}
        BY SupersededFields
      <4> QED BY <2>3, <4>1 DEF SetByOthers, Superseded
    <3>2. /\ account' \in [Tables -> AccountStates] /\ password' \in [Tables -> Passwords \cup {NoPassword}]
          /\ certain' \in [Tables -> BOOLEAN] /\ UNCHANGED <<cookie, told>>
      BY <2>3 DEF SetByOthers, AccountStates
    <3>3. tries' \in Nat
      BY <2>3, CredentialAssumption DEF SetByOthers, Try
    <3> QED BY <3>1, <3>2, <3>3
  <2> QED BY <1>4, <2>1, <2>2, <2>3 DEF Administer
<1>5. CASE SignOut \/ UNCHANGED credentialVars
  BY <1>5 DEF SignOut, credentialVars
<1> QED BY <1>2, <1>3, <1>4, <1>5 DEF CredentialNext

\* News stays on the way while its call is left alone.
LEMMA NewsStays ==
    ASSUME NEW t \in Tables, NEW k \in Attempts,
           \A i \in Attempts \ {k} : attempt'[i] = attempt[i],
           (attempt[k] # NoAttempt /\ attempt[k].awaited /\ attempt[k].ok /\ attempt[k].step = "done"
               /\ attempt[k].form # "login" /\ attempt[k].of = t) => attempt'[k] = attempt[k]
    PROVE  NewsOnTheWay(t) => NewsOnTheWay(t)'
BY DEF NewsOnTheWay

\* What is known of a table stays true while nothing of its row changes and no
\* news of it comes in.
LEMMA KnownStays ==
    ASSUME KnownPasswordIsKept, NEW t \in Tables,
           account'[t] = account[t], password'[t] = password[t], told'[t] = told[t],
           certain'[t] => certain[t],
           certain'[t] /\ NewsOnTheWay(t) => NewsOnTheWay(t)'
    PROVE  Known(t)' => AccountExists(t)' /\ password'[t] = told'[t]
BY DEF KnownPasswordIsKept, Known, AccountExists

\* A password that a call sets is news, or nobody waits for it.
LEMMA SettingKeepsNews ==
    ASSUME CredentialInv, CredentialTypes', NEW k \in Attempts, attempt[k] # NoAttempt,
           NEW u \in Tables, attempt[k].of = u, SetBy(k), attempt[k].form \in {"signup", "change"},
           account'[u] # "none", \A t \in Tables \ {u} : account'[t] = account[t]
    PROVE  CredentialInv'
<1>1. /\ CredentialTypes /\ KnownPasswordIsKept
      /\ \A i \in Attempts : AnswerFits(i) /\ SignUpHasTable(i)
  BY DEF CredentialInv
<1>2. /\ attempt'[k] = Ended(k, u, TRUE, TRUE)
      /\ password' = [password EXCEPT ![u] = attempt[k].new]
      /\ certain' = [certain EXCEPT ![u] = @ /\ attempt[k].awaited]
      /\ told' = told
      /\ \A i \in Attempts \ {k} : attempt'[i] = Superseded(u)[i]
  BY <1>1, SetByEffect
<1>3. /\ Ended(k, u, TRUE, TRUE) \in Attempt \cup {NoAttempt}
      /\ ~attempt[k].awaited => Ended(k, u, TRUE, TRUE) = NoAttempt
      /\ attempt[k].awaited =>
            /\ Ended(k, u, TRUE, TRUE) # NoAttempt
            /\ Ended(k, u, TRUE, TRUE).step = "done" /\ Ended(k, u, TRUE, TRUE).awaited
            /\ Ended(k, u, TRUE, TRUE).of = u /\ Ended(k, u, TRUE, TRUE).ok
            /\ Ended(k, u, TRUE, TRUE).new = attempt[k].new
            /\ Ended(k, u, TRUE, TRUE).form = attempt[k].form
  <2>1. CredentialTypes /\ u \in Tables \cup {"none"} /\ TRUE \in BOOLEAN
    BY <1>1
  <2> QED BY <2>1, EndedFields
<1>4. /\ password'[u] = attempt[k].new /\ (certain'[u] => attempt[k].awaited)
      /\ \A t \in Tables \ {u} : password'[t] = password[t] /\ certain'[t] = certain[t]
  BY <1>1, <1>2 DEF CredentialTypes
<1>5. ASSUME NEW i \in Attempts \ {k}
      PROVE  /\ (attempt'[i] = NoAttempt) <=> (attempt[i] = NoAttempt)
             /\ (attempt[i] # NoAttempt /\ attempt[i].of = u) => ~attempt'[i].latest /\ attempt'[i].of = u
             /\ (attempt[i] = NoAttempt \/ attempt[i].of # u) => attempt'[i] = attempt[i]
             /\ attempt[i] # NoAttempt => attempt'[i].form = attempt[i].form
  BY <1>1, <1>2, SupersededFields
<1>6. AccountExists(u)'
  BY DEF AccountExists
<1>7. ASSUME NEW i \in Attempts
      PROVE  AnswerFits(i)' /\ SignUpHasTable(i)'
  <2>1. CASE i = k
    <3>1. \/ attempt'[k] = NoAttempt
          \/ attempt'[k].of = u /\ attempt'[k].new = attempt[k].new
      BY <1>2, <1>3
    <3>2. AnswerFits(k)'
      BY <1>4, <1>6, <3>1 DEF AnswerFits, AccountExists
    <3>3. SignUpHasTable(k)'
      BY <3>1 DEF SignUpHasTable
    <3> QED BY <2>1, <3>2, <3>3
  <2>2. CASE i # k
    <3>1. CASE attempt[i] # NoAttempt /\ attempt[i].of = u
      BY <1>1, <1>5, <1>6, <2>2, <3>1 DEF AnswerFits, SignUpHasTable
    <3>2. CASE attempt[i] = NoAttempt \/ attempt[i].of # u
      <4>1. attempt'[i] = attempt[i] /\ AnswerFits(i) /\ SignUpHasTable(i)
        BY <1>1, <1>5, <2>2, <3>2
      <4> QED BY <1>4, <1>6, <3>2, <4>1 DEF AnswerFits, SignUpHasTable, AccountExists
    <3> QED BY <3>1, <3>2
  <2> QED BY <2>1, <2>2
<1>8. ASSUME NEW t \in Tables, Known(t)'
      PROVE  AccountExists(t)' /\ password'[t] = told'[t]
  <2>1. CASE t = u
    <3>1. attempt[k].awaited
      BY <1>4, <1>8, <2>1 DEF Known
    <3>2. NewsOnTheWay(t)'
      BY <1>2, <1>3, <2>1, <3>1 DEF NewsOnTheWay
    <3> QED BY <1>8, <2>1, <3>2 DEF Known
  <2>2. CASE t # u
    <3>1. NewsOnTheWay(t) => NewsOnTheWay(t)'
      <4>1. SUFFICES ASSUME NEW i \in Attempts, attempt[i] # NoAttempt, attempt[i].of = t,
                            attempt[i].awaited, attempt[i].ok, attempt[i].step = "done",
                            attempt[i].form # "login"
                     PROVE  NewsOnTheWay(t)'
        BY DEF NewsOnTheWay
      <4>2. i # k
        BY <2>2, <4>1
      <4>3. attempt'[i] = attempt[i]
        BY <1>5, <2>2, <4>1, <4>2
      <4> QED BY <4>1, <4>3 DEF NewsOnTheWay
    <3>2. /\ account'[t] = account[t] /\ password'[t] = password[t] /\ told'[t] = told[t]
          /\ certain'[t] = certain[t]
      BY <1>2, <1>4, <2>2
    <3> QED BY <1>1, <1>8, <3>1, <3>2, KnownStays
  <2> QED BY <2>1, <2>2
<1>9. KnownPasswordIsKept'
  BY <1>8 DEF KnownPasswordIsKept
<1> QED BY <1>7, <1>9 DEF CredentialInv

\* What the forms do keeps what is known.
LEMMA FormsKeepCredentials ==
    ASSUME CredentialInv, CredentialTypes', NEW k \in Attempts, UseForm(k)
    PROVE  CredentialInv'
<1>0. /\ CredentialTypes /\ KnownPasswordIsKept
      /\ \A i \in Attempts : AnswerFits(i) /\ SignUpHasTable(i)
  BY DEF CredentialInv
<1>1. ASSUME NEW form \in {"signup", "login", "change"}, NEW t \in Tables \cup {"none"},
             NEW old \in Passwords, NEW new \in Passwords,
             Submit(k, form, t, old, new), form = "signup" => t \in Tables
      PROVE  CredentialInv'
  <2>1. /\ attempt[k] = NoAttempt /\ attempt'[k].step = "sent"
        /\ attempt'[k].form = form /\ attempt'[k].of = t
        /\ \A i \in Attempts \ {k} : attempt'[i] = attempt[i]
        /\ UNCHANGED <<account, password, told, certain>>
    BY <1>0, <1>1 DEF Submit, CredentialTypes
  <2>2. \A i \in Attempts : AnswerFits(i)' /\ SignUpHasTable(i)'
    BY <1>0, <1>1, <2>1 DEF AnswerFits, SignUpHasTable, AccountExists
  <2>3. \A s \in Tables : NewsOnTheWay(s) => NewsOnTheWay(s)'
    BY <2>1, NewsStays
  <2>4. KnownPasswordIsKept'
    BY <1>0, <2>1, <2>3, KnownStays DEF KnownPasswordIsKept
  <2> QED BY <2>2, <2>4 DEF CredentialInv
<1>2. CASE AnswerForm(k)
  <2>1. /\ attempt[k] # NoAttempt /\ attempt[k].step = "done" /\ attempt'[k] = NoAttempt
        /\ \A i \in Attempts \ {k} : attempt'[i] = attempt[i]
        /\ UNCHANGED <<account, password>>
    BY <1>0, <1>2 DEF AnswerForm, CredentialTypes
  <2>2. \A i \in Attempts : AnswerFits(i)' /\ SignUpHasTable(i)'
    BY <1>0, <2>1 DEF AnswerFits, SignUpHasTable, AccountExists
  <2>3. ASSUME NEW t \in Tables, Known(t)'
        PROVE  AccountExists(t)' /\ password'[t] = told'[t]
    <3>1. CASE attempt[k].ok /\ attempt[k].of = t
      <4>1. told'[t] = attempt[k].new /\ certain'[t] = attempt[k].latest
        BY <1>2, <3>1 DEF AnswerForm
      <4>2. attempt[k].latest
        BY <2>3, <4>1 DEF Known
      <4>3. AccountExists(t) /\ password[t] = told'[t]
        BY <1>0, <2>1, <3>1, <4>1, <4>2 DEF AnswerFits
      <4> QED BY <2>1, <4>3 DEF AccountExists
    <3>2. CASE ~(attempt[k].ok /\ attempt[k].of = t)
      <4>1. told'[t] = told[t] /\ certain'[t] = certain[t]
        BY <1>2, <3>2 DEF AnswerForm
      <4>2. NewsOnTheWay(t) => NewsOnTheWay(t)'
        BY <2>1, <3>2, NewsStays
      <4> QED BY <1>0, <2>1, <2>3, <4>1, <4>2, KnownStays
    <3> QED BY <3>1, <3>2
  <2> QED BY <2>2, <2>3 DEF CredentialInv, KnownPasswordIsKept
<1>3. CASE LoseAnswer(k)
  <2>1. /\ attempt[k] # NoAttempt /\ attempt[k] \in Attempt
        /\ attempt'[k] = IF attempt[k].step = "done" THEN NoAttempt ELSE [attempt[k] EXCEPT !.awaited = FALSE]
        /\ \A i \in Attempts \ {k} : attempt'[i] = attempt[i]
        /\ \A t \in Tables : certain'[t] = (certain[t] /\ (attempt[k].of = t => attempt[k].form = "login"))
        /\ UNCHANGED <<account, password, told>>
    BY <1>0, <1>3, AttemptFields DEF LoseAnswer, CredentialTypes
  <2>2. \/ attempt'[k] = NoAttempt
        \/ /\ attempt[k].step # "done" /\ attempt'[k].step = attempt[k].step
           /\ attempt'[k].form = attempt[k].form /\ attempt'[k].of = attempt[k].of
    BY <2>1 DEF Attempt
  <2>3. \A i \in Attempts : AnswerFits(i)' /\ SignUpHasTable(i)'
    <3> SUFFICES ASSUME NEW i \in Attempts PROVE AnswerFits(i)' /\ SignUpHasTable(i)'
      OBVIOUS
    <3>1. AnswerFits(i)'
      <4>1. CASE i = k
        BY <2>2, <4>1 DEF AnswerFits, Attempt
      <4>2. CASE i # k
        BY <1>0, <2>1, <4>2 DEF AnswerFits, AccountExists
      <4> QED BY <4>1, <4>2
    <3>2. SignUpHasTable(i)'
      BY <1>0, <2>1, <2>2 DEF SignUpHasTable
    <3> QED BY <3>1, <3>2
  <2>4. ASSUME NEW t \in Tables, Known(t)'
        PROVE  AccountExists(t)' /\ password'[t] = told'[t]
    <3>1. certain'[t]
      BY <2>4 DEF Known
    <3>2. certain[t] /\ (attempt[k].of = t => attempt[k].form = "login")
      BY <2>1, <3>1
    <3>3. NewsOnTheWay(t) => NewsOnTheWay(t)'
      BY <2>1, <3>2, NewsStays
    <3> QED BY <1>0, <2>1, <2>4, <3>2, <3>3, KnownStays
  <2> QED BY <2>3, <2>4 DEF CredentialInv, KnownPasswordIsKept
<1>4. CASE \E secret \in Passwords : SignIn(k, secret) \/ \E t \in Tables : SignUp(k, t, secret)
  BY <1>1, <1>4 DEF SignIn, SignUp
<1>5. CASE \E old, new \in Passwords : ChangePassword(k, old, new)
  <2>1. cookie \in Tables \cup {"none"}
    BY <1>0 DEF CredentialTypes
  <2> QED BY <1>1, <1>5, <2>1 DEF ChangePassword
<1> QED BY <1>2, <1>3, <1>4, <1>5 DEF UseForm

\* What AuthService does keeps what is known.
LEMMA AuthKeepsCredentials ==
    ASSUME CredentialInv, CredentialTypes', NEW k \in Attempts, Auth(k)
    PROVE  CredentialInv'
<1>0. /\ CredentialTypes /\ KnownPasswordIsKept
      /\ \A i \in Attempts : AnswerFits(i) /\ SignUpHasTable(i)
  BY DEF CredentialInv
\* A call that goes on, or that ends with no more than the truth, changes nothing.
<1>1. ASSUME attempt[k] # NoAttempt, attempt[k].step # "done", AnswerFits(k)', SignUpHasTable(k)',
             \A i \in Attempts \ {k} : attempt'[i] = attempt[i],
             UNCHANGED <<account, password, told, certain>>
      PROVE  CredentialInv'
  <2>1. \A i \in Attempts : AnswerFits(i)' /\ SignUpHasTable(i)'
    BY <1>0, <1>1 DEF AnswerFits, SignUpHasTable, AccountExists
  <2>2. \A t \in Tables : NewsOnTheWay(t) => NewsOnTheWay(t)'
    BY <1>1, NewsStays
  <2>3. KnownPasswordIsKept'
    BY <1>0, <1>1, <2>2, KnownStays DEF KnownPasswordIsKept
  <2> QED BY <2>1, <2>3 DEF CredentialInv
<1>2. CASE CreateAccount(k)
  <2>1. /\ attempt[k] # NoAttempt /\ attempt[k].form = "signup" /\ SetBy(k)
        /\ account' = [account EXCEPT ![attempt[k].of] = "PENDING"]
    BY <1>2 DEF CreateAccount, AtStep
  <2>2. attempt[k].of \in Tables
    BY <1>0, <2>1 DEF SignUpHasTable
  <2>3. account'[attempt[k].of] = "PENDING" /\ \A t \in Tables \ {attempt[k].of} : account'[t] = account[t]
    BY <1>0, <2>1, <2>2 DEF CredentialTypes
  <2> QED BY <2>1, <2>2, <2>3, SettingKeepsNews
<1>3. CASE WriteSecret(k)
  <2>1. /\ attempt[k] # NoAttempt /\ attempt[k].form = "change" /\ SetBy(k) /\ UNCHANGED account
        /\ AccountExists(attempt[k].of)
    BY <1>3 DEF WriteSecret, AtStep
  <2>2. attempt[k].of \in Tables /\ account'[attempt[k].of] # "none"
    BY <2>1 DEF AccountExists
  <2> QED BY <2>1, <2>2, SettingKeepsNews
<1>4. ASSUME NEW step \in {"admitted", "checked"}, attempt[k] # NoAttempt, attempt[k].step # "done",
             GoOn(k, step)
      PROVE  CredentialInv'
  <2>1. /\ attempt[k] \in Attempt /\ attempt'[k] = [attempt[k] EXCEPT !.step = step]
        /\ \A i \in Attempts \ {k} : attempt'[i] = attempt[i]
        /\ UNCHANGED <<account, password, told, certain>>
    BY <1>0, <1>4, AttemptFields DEF GoOn, CredentialTypes
  <2>2. /\ attempt'[k].step # "done" /\ attempt'[k].form = attempt[k].form
        /\ attempt'[k].of = attempt[k].of
    BY <2>1 DEF Attempt
  <2>3. AnswerFits(k)'
    BY <2>2 DEF AnswerFits
  <2>4. SignUpHasTable(k)'
    BY <1>0, <1>4, <2>2 DEF SignUpHasTable
  <2> QED BY <1>1, <1>4, <2>1, <2>3, <2>4
<1>5. CASE Refuse(k)
  <2>1. /\ attempt[k] # NoAttempt /\ attempt[k].step # "done"
        /\ attempt'[k] = Ended(k, attempt[k].of, FALSE, FALSE)
        /\ \A i \in Attempts \ {k} : attempt'[i] = attempt[i]
        /\ UNCHANGED <<account, password, told, certain>>
    BY <1>0, <1>5 DEF Refuse, CredentialTypes
  <2>2. attempt[k].of \in Tables \cup {"none"}
    BY <1>0, <2>1, AttemptFields
  <2>3. \/ attempt'[k] = NoAttempt
        \/ ~attempt'[k].ok /\ attempt'[k].form = attempt[k].form /\ attempt'[k].of = attempt[k].of
    <3> DEFINE end == Ended(k, attempt[k].of, FALSE, FALSE)
    <3>1. \/ end = NoAttempt
          \/ /\ end.ok => FALSE
             /\ end.of = attempt[k].of /\ end.new = attempt[k].new /\ end.form = attempt[k].form
      BY <1>0, <2>1, <2>2, EndedIsForgotten, Zenon
    <3>2. attempt'[k] = end
      BY <2>1
    <3> HIDE DEF end
    <3> QED BY <3>1, <3>2
  <2>4. AnswerFits(k)' /\ SignUpHasTable(k)'
    BY <1>0, <2>1, <2>3 DEF AnswerFits, SignUpHasTable
  <2> QED BY <1>1, <2>1, <2>4
<1>6. ASSUME NEW t \in Tables, attempt[k] # NoAttempt, attempt[k].step # "done",
             attempt[k].form = "login", Compare(k, t)
      PROVE  CredentialInv'
  <2>1. Verified(t, attempt[k].new) \in BOOLEAN
    BY DEF Verified
  <2>2. /\ attempt'[k] = Ended(k, t, Verified(t, attempt[k].new), TRUE)
        /\ \A i \in Attempts \ {k} : attempt'[i] = attempt[i]
        /\ UNCHANGED <<account, password, told, certain>>
    BY <1>0, <1>6 DEF Compare, CredentialTypes
  <2>3. \/ attempt'[k] = NoAttempt
        \/ /\ attempt'[k].ok => Verified(t, attempt[k].new)
           /\ attempt'[k].of = t /\ attempt'[k].new = attempt[k].new /\ attempt'[k].form = "login"
    <3> DEFINE right == Verified(t, attempt[k].new)
               yes == TRUE
               end == Ended(k, t, right, yes)
    <3>1. right \in BOOLEAN /\ t \in Tables \cup {"none"} /\ yes \in BOOLEAN
      BY <2>1
    <3>2. attempt'[k] = end
      BY <2>2
    <3>3. right => Verified(t, attempt[k].new)
      OBVIOUS
    <3> HIDE DEF right, yes
    <3>4. \/ end = NoAttempt
          \/ /\ end.ok => right
             /\ end.of = t /\ end.new = attempt[k].new /\ end.form = attempt[k].form
      <4>1. CredentialTypes /\ attempt[k] # NoAttempt
        BY <1>0, <1>6
      <4> QED BY <3>1, <4>1, EndedIsForgotten
    <3> HIDE DEF end
    <3> QED BY <1>6, <3>2, <3>3, <3>4
  <2>4. AnswerFits(k)'
    BY <2>2, <2>3 DEF AnswerFits, Verified, AccountExists
  <2>5. SignUpHasTable(k)'
    BY <2>3 DEF SignUpHasTable
  <2> QED BY <1>1, <1>6, <2>2, <2>4, <2>5
<1>7. CASE CheckClash(k) \/ AdmitChange(k) \/ VerifyCurrent(k)
  BY <1>4, <1>7 DEF CheckClash, AdmitChange, VerifyCurrent, AtStep
<1>8. CASE LookInUsers(k) \/ LookInClients(k)
  <2>1. /\ attempt[k] # NoAttempt /\ attempt[k].step # "done" /\ attempt[k].form = "login"
        /\ Compare(k, "USER") \/ Compare(k, "CLIENT") \/ GoOn(k, "checked")
    BY <1>8 DEF LookInUsers, LookInClients, AtStep
  <2> QED BY <1>4, <1>6, <2>1 DEF Tables
<1> QED BY <1>2, <1>3, <1>5, <1>7, <1>8 DEF Auth

\* What administrators do keeps what is known.
LEMMA AdministratorsKeepCredentials ==
    ASSUME CredentialInv, CredentialTypes', NEW u \in Tables, Administer(u)
    PROVE  CredentialInv'
<1>0. /\ CredentialTypes /\ KnownPasswordIsKept
      /\ \A i \in Attempts : AnswerFits(i) /\ SignUpHasTable(i)
  BY DEF CredentialInv
<1>1. CASE SetAccount(u)
  <2>1. /\ \A t \in Tables : AccountExists(t) => AccountExists(t)'
        /\ UNCHANGED <<password, attempt, told, certain>>
    <3>1. PICK state \in {"ACTIVE", "OFF"} : account' = [account EXCEPT ![u] = state]
      BY <1>1 DEF SetAccount
    <3> QED BY <1>0, <1>1, <3>1 DEF SetAccount, AccountExists, CredentialTypes
  <2>2. \A i \in Attempts : AnswerFits(i)' /\ SignUpHasTable(i)'
    <3> SUFFICES ASSUME NEW i \in Attempts PROVE AnswerFits(i)' /\ SignUpHasTable(i)'
      OBVIOUS
    <3>1. AnswerFits(i) /\ SignUpHasTable(i) /\ attempt'[i] = attempt[i]
      BY <1>0, <2>1
    <3>2. attempt[i].of \in Tables /\ AccountExists(attempt[i].of) => AccountExists(attempt[i].of)'
      BY <2>1 DEF AccountExists
    <3> QED BY <2>1, <3>1, <3>2 DEF AnswerFits, SignUpHasTable, AccountExists
  <2>3. \A t \in Tables : NewsOnTheWay(t) => NewsOnTheWay(t)'
    BY <2>1 DEF NewsOnTheWay
  <2> QED BY <1>0, <2>1, <2>2, <2>3 DEF CredentialInv, KnownPasswordIsKept, Known
<1>2. ASSUME \A i \in Attempts :
                 /\ (attempt'[i] = NoAttempt) <=> (attempt[i] = NoAttempt)
                 /\ (attempt[i] = NoAttempt \/ attempt[i].of # u) => attempt'[i] = attempt[i]
                 /\ (attempt[i] # NoAttempt /\ attempt[i].of = u) =>
                       ~attempt'[i].latest \/ attempt'[i].of = "none"
                 /\ SignUpHasTable(i)',
             \A t \in Tables \ {u} :
                 account'[t] = account[t] /\ password'[t] = password[t] /\ certain'[t] = certain[t],
             ~certain'[u], told' = told
      PROVE  CredentialInv'
  <2>1. ASSUME NEW i \in Attempts
        PROVE  AnswerFits(i)'
    <3>1. CASE attempt[i] # NoAttempt /\ attempt[i].of = u
      BY <1>2, <3>1, NoneIsNoTable DEF AnswerFits
    <3>2. CASE attempt[i] = NoAttempt \/ attempt[i].of # u
      <4>1. attempt'[i] = attempt[i] /\ AnswerFits(i)
        BY <1>0, <1>2, <3>2
      <4> QED BY <1>2, <3>2, <4>1 DEF AnswerFits, AccountExists
    <3> QED BY <3>1, <3>2
  <2>2. ASSUME NEW t \in Tables, Known(t)'
        PROVE  AccountExists(t)' /\ password'[t] = told'[t]
    <3>1. t # u
      BY <1>2, <2>2 DEF Known
    <3>2. NewsOnTheWay(t) => NewsOnTheWay(t)'
      BY <1>2, <3>1 DEF NewsOnTheWay
    <3> QED BY <1>0, <1>2, <2>2, <3>1, <3>2, KnownStays
  <2> QED BY <1>2, <2>1, <2>2 DEF CredentialInv, KnownPasswordIsKept
<1>3. CASE RemoveAccount(u)
  <2>1. ASSUME NEW i \in Attempts
        PROVE  SignUpHasTable(i)'
    BY <1>0, <1>3, RemovalEffect DEF SignUpHasTable
  <2>2. /\ ~certain'[u] /\ told' = told
        /\ \A t \in Tables \ {u} :
              account'[t] = account[t] /\ password'[t] = password[t] /\ certain'[t] = certain[t]
    BY <1>0, <1>3 DEF RemoveAccount, CredentialTypes
  <2> QED BY <1>0, <1>2, <1>3, <2>1, <2>2, RemovalEffect
<1>4. ASSUME NEW new \in Passwords, SetByOthers(u, new)
      PROVE  CredentialInv'
  <2>1. \A i \in Attempts : attempt'[i] = Superseded(u)[i]
    BY <1>4 DEF SetByOthers
  <2>2. ASSUME NEW i \in Attempts
        PROVE  /\ (attempt'[i] = NoAttempt) <=> (attempt[i] = NoAttempt)
               /\ (attempt[i] = NoAttempt \/ attempt[i].of # u) => attempt'[i] = attempt[i]
               /\ (attempt[i] # NoAttempt /\ attempt[i].of = u) => ~attempt'[i].latest
               /\ SignUpHasTable(i)'
    BY <1>0, <2>1, SupersededFields DEF SignUpHasTable
  <2>3. /\ ~certain'[u] /\ told' = told
        /\ \A t \in Tables \ {u} :
              account'[t] = account[t] /\ password'[t] = password[t] /\ certain'[t] = certain[t]
    BY <1>0, <1>4 DEF SetByOthers, CredentialTypes
  <2> QED BY <1>2, <2>2, <2>3
<1> QED BY <1>1, <1>3, <1>4 DEF Administer

LEMMA CredentialInvHolds == CredentialSpec => []CredentialInv
<1>1. CredentialInit => CredentialInv
  <2> SUFFICES ASSUME CredentialInit PROVE CredentialInv
    OBVIOUS
  <2>1. CredentialTypes
    BY DEF CredentialInit, CredentialTypes, AccountStates
  <2> QED BY <2>1 DEF CredentialInit, CredentialInv, KnownPasswordIsKept, Known, AnswerFits,
      SignUpHasTable
<1>2. CredentialInv /\ [CredentialNext]_credentialVars => CredentialInv'
  <2> SUFFICES ASSUME CredentialInv, [CredentialNext]_credentialVars PROVE CredentialInv'
    OBVIOUS
  <2>1. CredentialTypes'
    BY CredentialsStayTyped DEF CredentialInv
  <2>2. CASE SignOut \/ UNCHANGED credentialVars
    <3>1. UNCHANGED <<account, password, attempt, told, certain>>
      BY <2>2 DEF SignOut, credentialVars
    <3>2. \A k \in Attempts : AnswerFits(k)' /\ SignUpHasTable(k)'
      BY <3>1 DEF CredentialInv, AnswerFits, SignUpHasTable, AccountExists
    <3>3. KnownPasswordIsKept'
      BY <3>1 DEF CredentialInv, KnownPasswordIsKept, Known, NewsOnTheWay, AccountExists
    <3> QED BY <2>1, <3>2, <3>3 DEF CredentialInv
  <2> QED BY <2>1, <2>2, FormsKeepCredentials, AuthKeepsCredentials, AdministratorsKeepCredentials
      DEF CredentialNext
<1> QED BY <1>1, <1>2, PTL DEF CredentialSpec

\* The password of an account that somebody was last told to be valid is the
\* one it has, unless somebody else or a call without an answer set another
\* since, for any number of overlapping calls and passwords, and whatever is
\* done to the account of the same address in the other table.
THEOREM KnownPasswordsAreKept == CredentialSpec => [](CredentialTypes /\ KnownPasswordIsKept)
<1>1. CredentialInv => CredentialTypes /\ KnownPasswordIsKept
  BY DEF CredentialInv
<1> QED BY <1>1, CredentialInvHolds, PTL
=============================================================================
