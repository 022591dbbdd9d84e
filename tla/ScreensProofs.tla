----------------------------- MODULE ScreensProofs -----------------------------
(***************************************************************************)
(* Proofs about the screens of the portal: the lead sheet with its cells   *)
(* and the dialog that assigns leads, bulk imports, drawers, the list      *)
(* screens and the screens on which orders are decided.                    *)
(***************************************************************************)
EXTENDS AssignDesk, SheetCells, EntityList, PageDrawer, OrderDesk, BulkImport, TLAPS
-----------------------------------------------------------------------------
(* The cells of the lead sheet. *)

\* Whoever has the latest follow-up of a row has the one that is stored.
CarriersFit(x) ==
    /\ "screen" \in latest[x] => payload[x] = stored[x]
    /\ "load" \in latest[x] => sheetLoad.step = "read" /\ sheetLoad.rows[x] = stored[x]
    /\ \A k \in Patches : k \in latest[x] =>
          patches[k].step = "written" /\ patches[k].row = x /\ patches[k].to = stored[x]

SheetInv == SheetTypes /\ \A x \in SheetRows : CarriersFit(x)

\* The type invariant of SheetCells.
LEMMA SheetStaysTyped ==
    ASSUME SheetTypes, [SheetNext]_sheetVars
    PROVE  SheetTypes'
<1> USE DEF SheetTypes
<1>1. ASSUME NEW S \in SUBSET Carriers, NEW c
      PROVE  Handed(S, c) \in SUBSET Carriers
  BY DEF Handed, Carriers
<1>2. CASE SheetPage
  <2>1. CASE LoadSheet
    <3>1. [step |-> "sent", rows |-> NotLoaded] \in SheetLoad
      BY DEF SheetLoad
    <3> QED BY <2>1, <3>1 DEF LoadSheet
  <2>2. CASE ReadSheet
    <3>1. sheetLoad \in SheetLoad
      BY <2>2 DEF ReadSheet, NoSheetLoad, SheetError
    <3>2. [sheetLoad EXCEPT !.step = "read", !.rows = stored] \in SheetLoad
      BY <3>1 DEF SheetLoad
    <3> QED BY <2>2, <3>2 DEF ReadSheet, Carriers
  <2>3. CASE ShowSheet
    <3>1. sheetLoad \in SheetLoad
      BY <2>3 DEF ShowSheet, NoSheetLoad, SheetError
    <3>2. latest' \in [SheetRows -> SUBSET Carriers]
      BY <1>1, <2>3 DEF ShowSheet
    <3> QED BY <2>3, <3>1, <3>2 DEF ShowSheet, SheetLoad
  <2>4. CASE SheetFails
    BY <2>4 DEF SheetFails
  <2> QED BY <1>2, <2>1, <2>2, <2>3, <2>4 DEF SheetPage
<1>3. CASE RevealDialog
  BY <1>3 DEF RevealDialog, CloseReveal, AskReveal, AnswerReveal, RevealFails, OpenReveal, Reveal,
      NoReveal, Revealed
<1>4. ASSUME NEW k \in Patches, SetFollowup(k)
      PROVE  SheetTypes'
  <2>1. ASSUME NEW x \in SheetRows, NEW to \in FollowUps, ChangeFollowup(k, x, to)
        PROVE  SheetTypes'
    <3>1. [row |-> x, to |-> to, step |-> "sent"] \in Patch
      BY DEF Patch
    <3> QED BY <2>1, <3>1 DEF ChangeFollowup
  <2>2. CASE UpdateFollowup(k)
    <3>1. patches[k] \in Patch
      BY <2>2 DEF UpdateFollowup, NoPatch
    <3>2. [patches[k] EXCEPT !.step = "written"] \in Patch /\ patches[k].to \in FollowUps
      BY <3>1 DEF Patch
    <3>3. stored' \in FollowUpRows
      BY <2>2, <3>2 DEF UpdateFollowup, FollowUpRows
    <3>4. patches' \in [Patches -> Patch \cup {NoPatch}]
      BY <2>2, <3>2 DEF UpdateFollowup
    <3>5. latest' \in [SheetRows -> SUBSET Carriers]
      BY <2>2 DEF UpdateFollowup, Carriers
    <3> QED BY <2>2, <3>3, <3>4, <3>5 DEF UpdateFollowup
  <2>3. CASE FollowupSet(k)
    <3>1. patches[k] \in Patch
      BY <2>3 DEF FollowupSet, NoPatch
    <3>2. payload' \in FollowUpRows \cup {NotLoaded}
      <4>1. CASE payload = NotLoaded
        BY <2>3, <4>1 DEF FollowupSet
      <4>2. CASE payload # NotLoaded
        <5>1. payload \in FollowUpRows /\ patches[k].to \in FollowUps
          BY <3>1, <4>2 DEF Patch
        <5> QED BY <2>3, <4>2, <5>1 DEF FollowupSet, FollowUpRows
      <4> QED BY <4>1, <4>2
    <3>3. latest' \in [SheetRows -> SUBSET Carriers]
      BY <1>1, <2>3 DEF FollowupSet
    <3> QED BY <2>3, <3>2, <3>3 DEF FollowupSet
  <2>4. CASE FollowupFails(k)
    BY <2>4 DEF FollowupFails, AfterError
  <2> QED BY <1>4, <2>1, <2>2, <2>3, <2>4 DEF SetFollowup
<1>5. ASSUME NEW x \in SheetRows, NEW to \in FollowUps, OtherPage(x, to)
      PROVE  SheetTypes'
  <2>1. stored' \in FollowUpRows
    BY <1>5 DEF OtherPage, FollowUpRows
  <2> QED BY <1>5, <2>1 DEF OtherPage
<1>6. CASE UNCHANGED sheetVars
  BY <1>6 DEF sheetVars
<1> QED BY <1>2, <1>3, <1>4, <1>5, <1>6 DEF SheetNext

\* A write, and what becomes of those who had the follow-up before it.
LEMMA FollowupsKeepCarriers ==
    ASSUME SheetInv, NEW k \in Patches, SetFollowup(k), NEW y \in SheetRows
    PROVE  CarriersFit(y)'
<1> USE DEF SheetTypes
<1>1. SheetTypes /\ CarriersFit(y) /\ k # "screen" /\ k # "load"
  BY SheetAssumption DEF SheetInv
<1>2. ASSUME NEW x \in SheetRows, NEW to \in FollowUps, ChangeFollowup(k, x, to)
      PROVE  CarriersFit(y)'
  <2>1. k \notin latest[y]
    BY <1>1, <1>2 DEF ChangeFollowup, CarriersFit, NoPatch
  <2>2. \A j \in Patches \ {k} : patches'[j] = patches[j]
    BY <1>1, <1>2 DEF ChangeFollowup
  <2> QED BY <1>1, <1>2, <2>1, <2>2 DEF ChangeFollowup, CarriersFit
<1>3. CASE UpdateFollowup(k)
  <2>1. patches[k] \in Patch /\ patches[k].row \in SheetRows
    BY <1>1, <1>3 DEF UpdateFollowup, NoPatch, Patch
  <2>2. patches'[k] = [patches[k] EXCEPT !.step = "written"] /\ \A j \in Patches \ {k} : patches'[j] = patches[j]
    BY <1>1, <1>3 DEF UpdateFollowup
  <2>3. patches'[k].step = "written" /\ patches'[k].row = patches[k].row /\ patches'[k].to = patches[k].to
    BY <2>1, <2>2 DEF Patch
  <2>4. CASE y = patches[k].row
    <3>1. latest'[y] = {k} /\ stored'[y] = patches[k].to
      BY <1>1, <1>3, <2>4 DEF UpdateFollowup, FollowUpRows
    <3> QED BY <1>1, <2>3, <2>4, <3>1 DEF CarriersFit
  <2>5. CASE y # patches[k].row
    <3>1. latest'[y] = latest[y] /\ stored'[y] = stored[y] /\ k \notin latest[y]
      BY <1>1, <1>3, <2>5 DEF UpdateFollowup, FollowUpRows, CarriersFit
    <3> QED BY <1>1, <1>3, <2>2, <3>1 DEF UpdateFollowup, CarriersFit
  <2> QED BY <2>4, <2>5
<1>4. CASE FollowupSet(k)
  <2>1. \A j \in Patches \ {k} : patches'[j] = patches[j]
    BY <1>1, <1>4 DEF FollowupSet
  <2>2. stored' = stored /\ sheetLoad' = sheetLoad
    BY <1>4 DEF FollowupSet
  <2>3. CASE payload # NotLoaded /\ LeadOf[y] = LeadOf[patches[k].row]
    <3>1. payload'[y] = patches[k].to /\ latest'[y] = Handed(latest[y], k)
      BY <1>4, <2>3 DEF FollowupSet
    <3>2. k \in latest[y] => patches[k].to = stored[y]
      BY <1>1 DEF CarriersFit
    <3>3. k \notin latest'[y] /\ \A c : c \in latest'[y] /\ c # "screen" => c \in latest[y]
      BY <1>1, <3>1 DEF Handed
    <3>4. "screen" \in latest'[y] => k \in latest[y]
      BY <3>1 DEF Handed
    <3> QED BY <1>1, <2>1, <2>2, <3>1, <3>2, <3>3, <3>4, SheetAssumption DEF CarriersFit
  <2>4. CASE payload # NotLoaded /\ LeadOf[y] # LeadOf[patches[k].row]
    <3>1. payload'[y] = payload[y] /\ latest'[y] = latest[y]
      BY <1>4, <2>4 DEF FollowupSet
    <3>2. k \notin latest[y]
      BY <1>1, <2>4 DEF CarriersFit
    <3> QED BY <1>1, <2>1, <2>2, <3>1, <3>2 DEF CarriersFit
  <2>5. CASE payload = NotLoaded
    <3>1. payload' = payload /\ latest'[y] = latest[y] \ {k}
      BY <1>4, <2>5 DEF FollowupSet
    <3> QED BY <1>1, <2>1, <2>2, <3>1 DEF CarriersFit
  <2> QED BY <2>3, <2>4, <2>5
<1>5. CASE FollowupFails(k)
  <2>1. /\ \A j \in Patches \ {k} : patches'[j] = patches[j]
        /\ latest'[y] = latest[y] \ {k}
        /\ stored' = stored /\ sheetLoad' = sheetLoad /\ payload' = payload
    BY <1>1, <1>5 DEF FollowupFails, AfterError
  <2> QED BY <1>1, <2>1 DEF CarriersFit
<1> QED BY <1>2, <1>3, <1>4, <1>5 DEF SetFollowup

LEMMA LoadsKeepCarriers ==
    ASSUME SheetInv, SheetPage, NEW y \in SheetRows
    PROVE  CarriersFit(y)'
<1> USE DEF SheetTypes
<1>1. SheetTypes /\ CarriersFit(y) /\ "load" \notin Patches
  BY SheetAssumption DEF SheetInv
<1>2. stored' = stored /\ patches' = patches
  BY DEF SheetPage, LoadSheet, ReadSheet, ShowSheet, SheetFails
<1>3. CASE LoadSheet
  <2>1. "load" \notin latest[y]
    BY <1>1, <1>3 DEF LoadSheet, SheetIsLoading, CarriersFit
  <2> QED BY <1>1, <1>2, <1>3, <2>1 DEF LoadSheet, CarriersFit
<1>4. CASE ReadSheet
  <2>1. sheetLoad \in SheetLoad
    BY <1>1, <1>4 DEF ReadSheet, NoSheetLoad, SheetError
  <2>2. sheetLoad'.step = "read" /\ sheetLoad'.rows = stored
    BY <1>4, <2>1 DEF ReadSheet, SheetLoad
  <2>3. latest'[y] = latest[y] \cup {"load"} /\ payload' = payload
    BY <1>4 DEF ReadSheet
  <2> QED BY <1>1, <1>2, <2>2, <2>3 DEF CarriersFit
<1>5. CASE ShowSheet
  <2>1. payload' = sheetLoad.rows /\ latest'[y] = Handed(latest[y], "load")
    BY <1>5 DEF ShowSheet
  <2>2. "load" \in latest[y] => sheetLoad.rows[y] = stored[y]
    BY <1>1 DEF CarriersFit
  <2>3. "load" \notin latest'[y] /\ \A c : c \in latest'[y] /\ c # "screen" => c \in latest[y]
    BY <2>1 DEF Handed
  <2>4. "screen" \in latest'[y] => "load" \in latest[y]
    BY <2>1 DEF Handed
  <2> QED BY <1>1, <1>2, <2>1, <2>2, <2>3, <2>4, SheetAssumption DEF CarriersFit
<1>6. CASE SheetFails
  BY <1>1, <1>2, <1>6 DEF SheetFails, CarriersFit
<1> QED BY <1>3, <1>4, <1>5, <1>6 DEF SheetPage

LEMMA SheetInvHolds == SheetSpec => []SheetInv
<1>1. SheetInit => SheetInv
  <2> SUFFICES ASSUME SheetInit
               PROVE  SheetInv
    OBVIOUS
  <2>1. SheetTypes
    BY SheetAssumption DEF SheetInit, SheetTypes, FollowUpRows, Reveal, NoReveal
  <2> QED BY <2>1 DEF SheetInit, SheetInv, CarriersFit
<1>2. SheetInv /\ [SheetNext]_sheetVars => SheetInv'
  <2> SUFFICES ASSUME SheetInv, [SheetNext]_sheetVars
               PROVE  SheetInv'
    OBVIOUS
  <2>1. SheetTypes /\ SheetTypes'
    BY SheetStaysTyped DEF SheetInv
  <2>2. SUFFICES ASSUME NEW y \in SheetRows
                 PROVE  CarriersFit(y)'
    BY <2>1 DEF SheetInv
  <2>3. CASE SheetPage
    BY <2>3, LoadsKeepCarriers
  <2>4. ASSUME NEW k \in Patches, SetFollowup(k)
        PROVE  CarriersFit(y)'
    BY <2>4, FollowupsKeepCarriers
  <2>5. CASE RevealDialog \/ UNCHANGED sheetVars
    <3>1. UNCHANGED <<stored, payload, sheetLoad, patches, latest>>
      BY <2>5 DEF RevealDialog, CloseReveal, AskReveal, AnswerReveal, RevealFails, OpenReveal, sheetVars
    <3> QED BY <3>1 DEF SheetInv, CarriersFit
  <2>6. ASSUME NEW x \in SheetRows, NEW to \in FollowUps, OtherPage(x, to)
        PROVE  CarriersFit(y)'
    <3>1. IF y = x THEN latest'[y] = {} ELSE latest'[y] = latest[y] /\ stored'[y] = stored[y]
      BY <2>1, <2>6 DEF OtherPage, SheetTypes, FollowUpRows
    <3> QED BY <2>6, <3>1 DEF OtherPage, SheetInv, CarriersFit
  <2> QED BY <2>3, <2>4, <2>5, <2>6 DEF SheetNext
<1> QED BY <1>1, <1>2, PTL DEF SheetSpec

\* A row of the lead sheet shows the follow-up of its assignment if the last
\* answer to reach it brought the last write, for any number of assignments,
\* leads, statuses and calls that overlap (handleFollowupChange, updateFollowup).
THEOREM SheetShowsFollowups == SheetSpec => [](SheetTypes /\ FollowupShownIsStored)
<1>1. SheetInv => SheetTypes /\ FollowupShownIsStored
  BY DEF SheetInv, CarriersFit, FollowupShownIsStored
<1> QED BY <1>1, SheetInvHolds, PTL
-----------------------------------------------------------------------------
(* The dialog that assigns leads. *)

\* The type invariant of AssignDesk.
LEMMA DeskStaysTyped ==
    ASSUME DeskTypes, [DeskNext]_deskVars
    PROVE  DeskTypes'
<1>0. /\ desk \in {"sheet", "browser"} /\ unsold \subseteq DeskLeads /\ page \in Page
      /\ lists \in [Lists -> List \cup {NoList}] /\ picked \subseteq DeskLeads /\ dialog \in Dialog
      /\ fetches \in [Fetches -> Fetch \cup {NoFetch}] /\ assigning \in BOOLEAN /\ late \in BOOLEAN
  BY DEF DeskTypes
<1>1. page.pool \subseteq DeskLeads /\ page.view \in {"loading", "table", "error"}
  BY <1>0 DEF Page
<1>2. ASSUME Load
      PROVE  lists' \in [Lists -> List \cup {NoList}] /\ page' \in Page
  <2>1. Sent \in List
    BY DEF Sent, List
  <2> QED BY <1>0, <1>1, <1>2, <2>1 DEF Load, Page
<1>3. CASE Browse
  <2>1. CASE Refresh \/ RematchDone
    BY <1>0, <1>2, <2>1 DEF Refresh, RematchDone, DeskTypes
  <2>2. CASE ClearTicks
    BY <1>0, <2>2 DEF ClearTicks, DeskTypes
  <2>3. ASSUME NEW S \in SUBSET page.pool, NEW checked \in BOOLEAN, TickRows(S, checked)
        PROVE  DeskTypes'
    BY <1>0, <1>1, <2>3 DEF TickRows, DeskTypes
  <2>4. ASSUME NEW S \in SUBSET DeskLeads, Open(S)
        PROVE  DeskTypes'
    <3>1. dialog' \in Dialog
      BY <1>0, <2>4 DEF Open, Opened, Dialog
    <3>2. fetches' \in [Fetches -> Fetch \cup {NoFetch}] /\ late' \in BOOLEAN
      <4>1. CASE OneType(S)
        <5>1. PICK i \in Fetches, t \in TypesOf(S) :
                 fetches' = [j \in Fetches |->
                    IF j = i THEN [type |-> t, old |-> FALSE]
                    ELSE IF fetches[j] = NoFetch THEN NoFetch ELSE [fetches[j] EXCEPT !.old = TRUE]]
          BY <2>4, <4>1 DEF Open, FetchOrders
        <5>2. [type |-> t, old |-> FALSE] \in Fetch
          BY DEF Fetch, TypesOf, LeadTypes
        <5>3. \A j \in Fetches : fetches[j] # NoFetch => [fetches[j] EXCEPT !.old = TRUE] \in Fetch
          BY <1>0 DEF Fetch
        <5> QED BY <2>4, <4>1, <5>1, <5>2, <5>3 DEF Open
      <4>2. CASE ~OneType(S)
        BY <1>0, <2>4, <4>2 DEF Open
      <4> QED BY <4>1, <4>2
    <3> QED BY <1>0, <2>4, <3>1, <3>2 DEF Open, DeskTypes
  <2>5. ASSUME NEW S \in SUBSET picked, OpenPicked(S)
        PROVE  DeskTypes'
    BY <1>0, <2>4, <2>5 DEF OpenPicked
  <2>6. ASSUME NEW x \in DeskLeads, OpenRow(x)
        PROVE  DeskTypes'
    BY <2>4, <2>6 DEF OpenRow
  <2> QED BY <1>3, <2>1, <2>2, <2>3, <2>5, <2>6 DEF Browse
<1>4. CASE RunDialog
  <2>1. CASE PickOrder
    BY <1>0, <2>1 DEF PickOrder, DeskTypes, Dialog
  <2>2. CASE Assign
    BY <1>0, <2>2 DEF Assign, DeskTypes
  <2>3. Shut \in Dialog
    BY <1>0 DEF Shut, Dialog
  <2>4. CASE EndAssign
    BY <1>0, <1>2, <2>3, <2>4 DEF EndAssign, DeskTypes
  <2>5. CASE Close
    BY <1>0, <2>3, <2>5 DEF Close, DeskTypes
  <2> QED BY <1>4, <2>1, <2>2, <2>4, <2>5 DEF RunDialog
<1>5. ASSUME NEW i \in Lists, ReadRows(i) \/ ShowRows(i) \/ RowsFail(i)
      PROVE  DeskTypes'
  <2>1. CASE ReadRows(i)
    <3>1. PICK types \in Filters : lists' = [lists EXCEPT ![i] =
              [step |-> "read", pool |-> {x \in unsold : DeskType[x] \in types}]]
      BY <2>1 DEF ReadRows
    <3>2. [step |-> "read", pool |-> {x \in unsold : DeskType[x] \in types}] \in List
      BY <1>0 DEF List
    <3> QED BY <1>0, <2>1, <3>1, <3>2 DEF ReadRows, DeskTypes
  <2>2. CASE ShowRows(i)
    <3>1. lists[i] \in List
      BY <1>0, <2>2 DEF ShowRows, NoList
    <3>2. page' \in Page
      BY <1>1, <2>2, <3>1 DEF ShowRows, Page, List
    <3> QED BY <1>0, <2>2, <3>2 DEF ShowRows, TicksAfterLoad, DeskTypes
  <2>3. CASE RowsFail(i)
    BY <1>0, <2>3 DEF RowsFail, DeskTypes, Page
  <2> QED BY <1>5, <2>1, <2>2, <2>3
<1>6. ASSUME NEW i \in Fetches, ShowOrders(i) \/ OrdersFail(i)
      PROVE  DeskTypes'
  <2>1. fetches[i] \in Fetch
    BY <1>0, <1>6 DEF ShowOrders, OrdersFail
  <2>2. fetches[i].type \in LeadTypes /\ fetches[i].old \in BOOLEAN
    BY <2>1 DEF Fetch
  <2> QED BY <1>0, <1>6, <2>2 DEF ShowOrders, OrdersFail, DeskTypes, Dialog
<1>7. ASSUME NEW x \in DeskLeads, LeaveThePool(x)
      PROVE  DeskTypes'
  BY <1>0, <1>7 DEF LeaveThePool, DeskTypes
<1>8. CASE UNCHANGED deskVars
  BY <1>0, <1>8 DEF deskVars, DeskTypes
<1> QED BY <1>3, <1>4, <1>5, <1>6, <1>7, <1>8 DEF DeskNext

\* The ticks of the sheet are on rows that it holds.
TicksAreHeld == desk = "sheet" => picked \subseteq page.pool

\* The dialog, and the calls that were made for it, are about its lead type.
Offering(d, calls, isLate) ==
    (d.open /\ OneType(d.leads)) =>
        /\ \A i \in Fetches : (calls[i] # NoFetch /\ ~calls[i].old) => calls[i].type \in TypesOf(d.leads)
        /\ ~isLate => {d.offered, d.order} \subseteq TypesOf(d.leads) \cup {"none"}

DeskInv == DeskTypes /\ TicksAreHeld /\ Offering(dialog, fetches, late)

LEMMA TicksStayHeld ==
    ASSUME DeskTypes, TicksAreHeld, [DeskNext]_deskVars
    PROVE  TicksAreHeld'
<1> USE DEF TicksAreHeld
<1>1. ASSUME Load, desk' = desk, picked' \subseteq picked
      PROVE  TicksAreHeld'
  <2>1. desk = "sheet" => page'.pool = page.pool
    BY <1>1 DEF Load
  <2> QED BY <1>1, <2>1
<1>2. CASE Browse
  <2>1. CASE Refresh \/ RematchDone
    BY <1>1, <2>1 DEF Refresh, RematchDone
  <2>2. CASE ~(Refresh \/ RematchDone)
    BY <1>2, <2>2 DEF Browse, ClearTicks, TickRows, OpenPicked, OpenRow, Open
  <2> QED BY <2>1, <2>2
<1>3. CASE RunDialog
  <2>1. CASE EndAssign
    BY <1>1, <2>1 DEF EndAssign
  <2>2. CASE PickOrder \/ Assign \/ Close
    BY <2>2 DEF PickOrder, Assign, Close
  <2> QED BY <1>3, <2>1, <2>2 DEF RunDialog
<1>4. ASSUME NEW i \in Lists, ReadRows(i) \/ ShowRows(i) \/ RowsFail(i)
      PROVE  TicksAreHeld'
  <2>1. CASE RowsFail(i)
    <3>1. page'.pool = page.pool
      BY <2>1 DEF RowsFail, DeskTypes, Page
    <3> QED BY <2>1, <3>1 DEF RowsFail
  <2>2. CASE ReadRows(i) \/ ShowRows(i)
    BY <2>2 DEF ReadRows, ShowRows, TicksAfterLoad
  <2> QED BY <1>4, <2>1, <2>2
<1>5. CASE \/ \E i \in Fetches : ShowOrders(i) \/ OrdersFail(i)
           \/ \E x \in DeskLeads : LeaveThePool(x)
           \/ UNCHANGED deskVars
  BY <1>5 DEF ShowOrders, OrdersFail, LeaveThePool, deskVars
<1> QED BY <1>2, <1>3, <1>4, <1>5 DEF DeskNext

LEMMA OfferingHolds ==
    ASSUME DeskTypes, Offering(dialog, fetches, late), [DeskNext]_deskVars
    PROVE  Offering(dialog', fetches', late')
<1>0. dialog \in Dialog /\ fetches \in [Fetches -> Fetch \cup {NoFetch}] /\ late \in BOOLEAN
  BY DEF DeskTypes
<1>1. ASSUME UNCHANGED <<dialog, fetches, late>>
      PROVE  Offering(dialog', fetches', late')
  BY <1>1
<1>2. ASSUME dialog' = Shut
      PROVE  Offering(dialog', fetches', late')
  BY <1>0, <1>2 DEF Shut, Offering, Dialog
<1>3. ASSUME NEW S, Open(S)
      PROVE  Offering(dialog', fetches', late')
  <2>1. CASE OneType(S)
    <3>1. dialog' = [open |-> TRUE, leads |-> S, offered |-> "none", order |-> "none"]
      BY <1>3, <2>1 DEF Open, Opened
    <3>2. PICK i \in Fetches, t \in TypesOf(S) :
             fetches' = [j \in Fetches |->
                IF j = i THEN [type |-> t, old |-> FALSE]
                ELSE IF fetches[j] = NoFetch THEN NoFetch ELSE [fetches[j] EXCEPT !.old = TRUE]]
      BY <1>3, <2>1 DEF Open, FetchOrders
    <3>3. ASSUME NEW j \in Fetches, fetches'[j] # NoFetch, ~fetches'[j].old
          PROVE  fetches'[j].type \in TypesOf(S)
      <4>1. CASE j = i
        BY <3>2, <4>1
      <4>2. CASE j # i
        <5>1. fetches[j] \in Fetch /\ fetches'[j] = [fetches[j] EXCEPT !.old = TRUE]
          BY <1>0, <3>2, <3>3, <4>2
        <5>2. fetches'[j].old
          BY <5>1 DEF Fetch
        <5> QED BY <3>3, <5>2
      <4> QED BY <4>1, <4>2
    <3> QED BY <3>1, <3>3 DEF Offering
  <2>2. CASE ~OneType(S)
    <3>1. dialog' = [dialog EXCEPT !.open = TRUE, !.leads = S]
      BY <1>3, <2>2 DEF Open, Opened
    <3>2. dialog'.leads = S
      BY <1>0, <3>1 DEF Dialog
    <3> QED BY <2>2, <3>2 DEF Offering
  <2> QED BY <2>1, <2>2
<1>4. CASE Browse
  <2>1. CASE Refresh \/ RematchDone \/ ClearTicks
    BY <1>1, <2>1 DEF Refresh, RematchDone, ClearTicks
  <2>2. ASSUME NEW S \in SUBSET page.pool, NEW checked \in BOOLEAN, TickRows(S, checked)
        PROVE  Offering(dialog', fetches', late')
    BY <1>1, <2>2 DEF TickRows
  <2>3. CASE (\E S \in SUBSET picked : OpenPicked(S)) \/ \E x \in DeskLeads : OpenRow(x)
    BY <1>3, <2>3 DEF OpenPicked, OpenRow
  <2> QED BY <1>4, <2>1, <2>2, <2>3 DEF Browse
<1>5. CASE RunDialog
  <2>1. CASE PickOrder
    <3>1. dialog' = [dialog EXCEPT !.order = dialog.offered] /\ UNCHANGED <<fetches, late>>
      BY <2>1 DEF PickOrder
    <3>2. /\ dialog'.open = dialog.open /\ dialog'.leads = dialog.leads
          /\ dialog'.offered = dialog.offered /\ dialog'.order = dialog.offered
      BY <1>0, <3>1 DEF Dialog
    <3> QED BY <3>1, <3>2 DEF Offering
  <2>2. CASE EndAssign \/ Close
    BY <1>2, <2>2 DEF EndAssign, Close
  <2>3. CASE Assign
    BY <1>1, <2>3 DEF Assign
  <2> QED BY <1>5, <2>1, <2>2, <2>3 DEF RunDialog
<1>6. ASSUME NEW i \in Fetches, ShowOrders(i)
      PROVE  Offering(dialog', fetches', late')
  <2>1. PICK f \in Fetch : f = fetches[i] /\ f # NoFetch
    BY <1>0, <1>6 DEF ShowOrders
  <2>2. dialog' = [dialog EXCEPT !.offered = f.type] /\ late' = (late \/ f.old)
        /\ fetches' = [fetches EXCEPT ![i] = NoFetch]
    BY <1>6, <2>1 DEF ShowOrders
  <2>3. /\ dialog'.open = dialog.open /\ dialog'.leads = dialog.leads
        /\ dialog'.offered = f.type /\ dialog'.order = dialog.order
    BY <1>0, <2>2 DEF Dialog
  <2>4. \A j \in Fetches : fetches'[j] = NoFetch \/ fetches'[j] = fetches[j]
    BY <1>0, <2>2
  <2> QED BY <2>1, <2>2, <2>3, <2>4 DEF Offering
<1>7. ASSUME NEW i \in Fetches, OrdersFail(i)
      PROVE  Offering(dialog', fetches', late')
  <2>1. \A j \in Fetches : fetches'[j] = NoFetch \/ fetches'[j] = fetches[j]
    BY <1>0, <1>7 DEF OrdersFail
  <2> QED BY <1>7, <2>1 DEF OrdersFail, Offering
<1>8. CASE \/ \E i \in Lists : ReadRows(i) \/ ShowRows(i) \/ RowsFail(i)
           \/ \E x \in DeskLeads : LeaveThePool(x)
           \/ UNCHANGED deskVars
  BY <1>1, <1>8 DEF ReadRows, ShowRows, RowsFail, LeaveThePool, deskVars
<1> QED BY <1>4, <1>5, <1>6, <1>7, <1>8 DEF DeskNext

LEMMA DeskInvHolds == DeskSpec => []DeskInv
<1>1. DeskInit => DeskInv
  <2> SUFFICES ASSUME DeskInit
               PROVE  DeskInv
    OBVIOUS
  <2>1. lists \in [Lists -> List \cup {NoList}]
    <3>1. Sent \in List
      BY DEF Sent, List
    <3> QED BY <3>1 DEF DeskInit
  <2> QED BY <2>1 DEF DeskInit, DeskClosed, DeskInv, DeskTypes, TicksAreHeld, Offering, Page, Dialog
<1>2. DeskInv /\ [DeskNext]_deskVars => DeskInv'
  BY DeskStaysTyped, TicksStayHeld, OfferingHolds DEF DeskInv
<1> QED BY <1>1, <1>2, PTL DEF DeskSpec

\* AssignLeadDialog offers and keeps only orders of the lead type of its leads,
\* for any number of leads, lead types and answers under way (its two effects).
THEOREM OffersAreForTheLeads == DeskSpec => [](DeskTypes /\ OffersFitTheLeads)
<1>1. DeskInv => DeskTypes /\ OffersFitTheLeads
  BY DEF DeskInv, Offering, OffersFitTheLeads
<1> QED BY <1>1, DeskInvHolds, PTL

\* Both lead screens open the dialog for leads that their rows show as unsold,
\* with any number of loads of the rows under way at once.
THEOREM UnsoldLeadsAreOffered == DeskSpec => OnlyUnsoldLeadsAreOffered
<1> DEFINE Offers == (dialog'.open /\ ~dialog.open) => dialog'.leads \subseteq page.pool
<1>1. ASSUME DeskInv, [DeskNext]_deskVars
      PROVE  [Offers]_deskVars
  <2> SUFFICES ASSUME DeskNext, dialog'.open, ~dialog.open
               PROVE  dialog'.leads \subseteq page.pool
    BY <1>1
  <2>0. dialog \in Dialog /\ desk \in {"sheet", "browser"} /\ TicksAreHeld
    BY <1>1 DEF DeskInv, DeskTypes
  <2>1. ASSUME NEW S, Open(S)
        PROVE  dialog'.leads = S
    BY <2>0, <2>1 DEF Open, Opened, Dialog
  <2>2. ASSUME NEW S \in SUBSET picked, OpenPicked(S)
        PROVE  dialog'.leads \subseteq page.pool
    BY <2>0, <2>1, <2>2 DEF OpenPicked, TicksAreHeld
  <2>3. ASSUME NEW x \in DeskLeads, OpenRow(x)
        PROVE  dialog'.leads \subseteq page.pool
    BY <2>1, <2>3 DEF OpenRow
  <2>4. ASSUME dialog'.open = dialog.open
        PROVE  FALSE
    BY <2>4
  <2>5. ASSUME NEW S \in SUBSET page.pool, NEW checked \in BOOLEAN, TickRows(S, checked)
        PROVE  FALSE
    BY <2>4, <2>5 DEF TickRows
  <2>6. CASE RunDialog
    <3>1. dialog'.open = dialog.open \/ ~dialog'.open
      BY <2>0, <2>6 DEF RunDialog, PickOrder, Assign, EndAssign, Close, Shut, Dialog
    <3> QED BY <2>4, <3>1
  <2>7. ASSUME NEW i \in Fetches, ShowOrders(i)
        PROVE  FALSE
    <3>1. dialog'.open = dialog.open
      BY <2>0, <2>7 DEF ShowOrders, Dialog
    <3> QED BY <2>4, <3>1
  <2> QED BY <2>2, <2>3, <2>4, <2>5, <2>6, <2>7 DEF DeskNext, Browse, Refresh, RematchDone, ClearTicks,
                ReadRows, ShowRows, RowsFail, OrdersFail, LeaveThePool
<1>2. OnlyUnsoldLeadsAreOffered <=> [][Offers]_deskVars
  BY DEF OnlyUnsoldLeadsAreOffered
<1> QED BY <1>1, <1>2, DeskInvHolds, PTL DEF DeskSpec
-----------------------------------------------------------------------------
(* Bulk imports. *)

\* A count that stops at its bound.
LEMMA CountIsBounded ==
    ASSUME NEW n \in Nat, NEW x \in 0..n, NEW y, y = x \/ (x < n /\ y = x + 1)
    PROVE  y \in 0..n
OBVIOUS

\* A row of p that will become a live lead unless a check to come rejects it.
Waits(r, p) ==
    /\ r # NoImport /\ RowsLeft(r) /\ Person(r) = p
    /\ r.step = "suppression" \/ (r.step = "insert" /\ r.verdict = "VALID")

PersonFits(p) ==
    /\ p \notin twice =>
          live[p] <= 1 /\ ((\E k \in Imports : Waits(import[k], p)) => live[p] = 0)
    /\ optedOut[p] \subseteq {live[p]}
    /\ optedOut[p] # {} =>
          IsSuppressed(p) /\ \A k \in Imports : Waits(import[k], p) => import[k].step = "suppression"

Counted(r) == r.created <= r.made /\ r.made <= r.created + r.failed

ImportFits(r) ==
    r # NoImport =>
        /\ r.at \in 1 .. Len(r.file) + 1
        /\ r.created + r.rejected + r.failed = r.at - 1 /\ Counted(r)

ImportInv ==
    /\ ImportTypes
    /\ \A p \in People : PersonFits(p)
    /\ \A k \in Imports : ImportFits(import[k])
    /\ summary # NoSummary =>
          summary.created + summary.rejected + summary.failed = summary.total /\ Counted(summary)

\* The fields of an upload.
LEMMA ImportFields ==
    ASSUME NEW r \in Import \cup {NoImport}, r # NoImport
    PROVE  /\ r \in Import /\ r.file \in Files /\ Len(r.file) \in Nat /\ r.at \in Nat
           /\ r.made \in Nat /\ r.created \in Nat /\ r.rejected \in Nat /\ r.failed \in Nat
           /\ r.step \in {"dedup", "suppression", "insert"} /\ r.verdict \in {"VALID", "REJECTED"}
           /\ (ImportFits(r) /\ RowsLeft(r)) => Person(r) \in People
<1>1. r \in Import
  OBVIOUS
<1>2. /\ r.file \in Files /\ r.at \in Nat
      /\ r.made \in Nat /\ r.created \in Nat /\ r.rejected \in Nat /\ r.failed \in Nat
      /\ r.step \in {"dedup", "suppression", "insert"} /\ r.verdict \in {"VALID", "REJECTED"}
  BY <1>1 DEF Import
<1>3. r.file \in Seq(People)
  BY <1>2, ImportAssumption
<1> QED BY <1>1, <1>2, <1>3 DEF ImportFits, RowsLeft, Person

\* The sum of two counts.
LEMMA SumIsNatural == \A x, y \in Nat : x + y \in Nat
OBVIOUS

\* The next row of an upload.
LEMMA NextRowFields ==
    ASSUME NEW r \in Import, ImportFits(r), RowsLeft(r), NEW m \in Nat,
           NEW c \in Nat, NEW d \in Nat, NEW b \in Nat,
           c + d + b = 1, c <= m, m <= c + b
    PROVE  LET n == NextRow(r, m, c, d, b) IN
           /\ n \in Import /\ n # NoImport /\ n.step = "dedup" /\ ImportFits(n)
<1> DEFINE n == NextRow(r, m, c, d, b)
<1>1. /\ r.made \in Nat /\ r.created \in Nat /\ r.rejected \in Nat /\ r.failed \in Nat
      /\ r.at \in Nat /\ Len(r.file) \in Nat /\ r # NoImport
  <2>1. r # NoImport
    BY DEF NoImport, Import
  <2> QED BY <2>1, ImportFields
<1>2. n \in Import
  <2>1. /\ r.at + 1 \in Nat /\ r.made + m \in Nat /\ r.created + c \in Nat
        /\ r.rejected + d \in Nat /\ r.failed + b \in Nat
    BY <1>1, SumIsNatural
  <2> QED BY <2>1 DEF NextRow, Import
<1>3. /\ n.step = "dedup" /\ n.file = r.file /\ n.at = r.at + 1 /\ n.made = r.made + m
      /\ n.created = r.created + c /\ n.rejected = r.rejected + d
      /\ n.failed = r.failed + b
  BY DEF NextRow, Import
<1>4. n # NoImport
  BY <1>3 DEF NoImport
<1> HIDE DEF n
<1>5. ImportFits(n)
  <2>1. /\ r.at <= Len(r.file) /\ r.at \in 1 .. Len(r.file) + 1
        /\ r.created + r.rejected + r.failed = r.at - 1
        /\ r.created <= r.made /\ r.made <= r.created + r.failed
    BY <1>1 DEF ImportFits, RowsLeft, Counted
  <2>2. n.at \in 1 .. Len(n.file) + 1
    <3>1. r.at + 1 \in 1 .. Len(r.file) + 1
      BY <1>1, <2>1
    <3> QED BY <1>3, <3>1
  <2>3. n.created + n.rejected + n.failed = n.at - 1
    <3>1. PICK x \in Nat, y \in Nat, z \in Nat, at \in Nat :
             x = r.created /\ y = r.rejected /\ z = r.failed /\ at = r.at
      BY <1>1
    <3>2. x + y + z = at - 1
      BY <2>1, <3>1
    <3>3. (x + c) + (y + d) + (z + b) = (at + 1) - 1
      BY <3>2
    <3> QED BY <1>3, <3>1, <3>3
  <2>4. n.created <= n.made /\ n.made <= n.created + n.failed
    <3>1. PICK x \in Nat, z \in Nat, s \in Nat :
             x = r.created /\ z = r.failed /\ s = r.made
      BY <1>1
    <3>2. x <= s /\ s <= x + z
      BY <2>1, <3>1
    <3>3. x + c <= s + m
      BY <3>2
    <3>4. s + m <= (x + c) + (z + b)
      BY <3>2
    <3> QED BY <1>3, <3>1, <3>3, <3>4
  <2> QED BY <2>2, <2>3, <2>4 DEF ImportFits, Counted
<1> QED BY <1>2, <1>3, <1>4, <1>5 DEF n

\* What the properties see of the uploads after a step of one of them.
OneImport(k, r) ==
    /\ import' = [import EXCEPT ![k] = r]
    /\ r \in Import \cup {NoImport} /\ ImportFits(r)
    /\ \A p \in People : Waits(r, p) =>
          \/ Waits(import[k], p) /\ (r.step = "insert" => import[k].step = "insert")
          \/ r.step = "suppression" /\ live[p] = 0
          \/ Waits(import[k], p) /\ ~IsSuppressed(p)

LEMMA OneImportKeeps ==
    ASSUME ImportInv, NEW k \in Imports, NEW r, OneImport(k, r),
           UNCHANGED <<live, suppressed, twice, optedOut>>
    PROVE  /\ import' \in [Imports -> Import \cup {NoImport}]
           /\ \A p \in People : PersonFits(p)'
           /\ \A j \in Imports : ImportFits(import'[j])
<1>0. import \in [Imports -> Import \cup {NoImport}] /\ \A p \in People : live[p] \in Nat
  BY DEF ImportInv, ImportTypes
<1>1. import'[k] = r /\ \A j \in Imports : j # k => import'[j] = import[j]
  BY <1>0 DEF OneImport
<1>2. ASSUME NEW p \in People
      PROVE  PersonFits(p)'
  <2>0. PersonFits(p)
    BY DEF ImportInv
  <2>1. IsSuppressed(p)' <=> IsSuppressed(p)
    BY DEF IsSuppressed
  <2>2. ASSUME NEW j \in Imports, Waits(import'[j], p)
        PROVE  /\ Waits(import[j], p) \/ live[p] = 0
               /\ optedOut[p] # {} => import'[j].step = "suppression"
    <3>1. CASE j = k
      <4>1. r.step = "suppression" \/ r.step = "insert"
        BY <1>1, <2>2, <3>1 DEF Waits
      <4> QED BY <1>1, <2>0, <2>2, <3>1, <4>1 DEF OneImport, PersonFits
    <3>2. CASE j # k
      BY <1>1, <2>0, <2>2, <3>2 DEF PersonFits
    <3> QED BY <3>1, <3>2
  <2>3. (\E j \in Imports : Waits(import'[j], p)) => (\E j \in Imports : Waits(import[j], p)) \/ live[p] = 0
    BY <2>2
  <2> QED BY <2>0, <2>1, <2>2, <2>3 DEF PersonFits
<1>3. \A j \in Imports : ImportFits(import'[j])
  BY <1>1 DEF OneImport, ImportInv
<1> QED BY <1>0, <1>2, <1>3 DEF OneImport
\* One more live lead of p, seen by nobody who still makes one of p.
LEMMA MakeLiveKeeps ==
    ASSUME ImportInv, NEW p \in People, NEW by \in SUBSET Imports, MakeLive(p, by),
           UNCHANGED <<suppressed, optedOut>>, optedOut[p] = {},
           (p \notin twice /\ PastDedup(p) \subseteq by) => live[p] = 0,
           \A j \in Imports \ by : import'[j] = import[j],
           \A j \in by, q \in People : ~Waits(import'[j], q)
    PROVE  /\ live' \in [People -> Nat] /\ twice' \subseteq People
           /\ \A q \in People : PersonFits(q)'
<1>0. live \in [People -> Nat] /\ twice \subseteq People
  BY DEF ImportInv, ImportTypes
<1>1. /\ live'[p] = live[p] + 1 /\ \A q \in People : q # p => live'[q] = live[q]
      /\ live' \in [People -> Nat]
      /\ twice' = IF PastDedup(p) \subseteq by THEN twice ELSE twice \cup {p}
  BY <1>0 DEF MakeLive
<1>2. ASSUME NEW q \in People
      PROVE  PersonFits(q)'
  <2>0. PersonFits(q)
    BY DEF ImportInv
  <2>1. IsSuppressed(q)' <=> IsSuppressed(q)
    BY DEF IsSuppressed
  <2>2. \A j \in Imports : Waits(import'[j], q) => import'[j] = import[j] /\ j \notin by
    OBVIOUS
  <2>3. CASE q # p
    <3>1. (\E j \in Imports : Waits(import'[j], q)) => \E j \in Imports : Waits(import[j], q)
      BY <2>2
    <3>2. live'[q] = live[q] /\ (q \notin twice' => q \notin twice)
      BY <1>1, <2>3
    <3> QED BY <2>0, <2>1, <2>2, <3>1, <3>2 DEF PersonFits
  <2>4. CASE q = p
    <3>1. \A j \in Imports : Waits(import[j], p) => j \in PastDedup(p)
      BY DEF Waits, PastDedup, Inserting, AtRow
    <3>2. p \notin twice' => live'[p] = 1 /\ \A j \in Imports : ~Waits(import'[j], p)
      BY <1>1, <2>2, <2>4, <3>1
    <3> QED BY <2>4, <3>2 DEF PersonFits
  <2> QED BY <2>3, <2>4
<1> QED BY <1>0, <1>1, <1>2

\* What a row of a file can come to: created, created and not counted, rejected, failed.
LEMMA RowOutcomes ==
    ASSUME NEW r \in Import, ImportFits(r), RowsLeft(r)
    PROVE  \A n \in {NextRow(r, 1, 1, 0, 0), NextRow(r, 1, 0, 0, 1),
                      NextRow(r, 0, 0, 1, 0), NextRow(r, 0, 0, 0, 1)} :
              n \in Import /\ n # NoImport /\ n.step = "dedup" /\ ImportFits(n)
<1>1. /\ NextRow(r, 1, 1, 0, 0) \in Import /\ NextRow(r, 1, 1, 0, 0) # NoImport
      /\ NextRow(r, 1, 1, 0, 0).step = "dedup" /\ ImportFits(NextRow(r, 1, 1, 0, 0))
  <2>1. PICK m \in Nat, c \in Nat, d \in Nat, b \in Nat : m = 1 /\ c = 1 /\ d = 0 /\ b = 0
    OBVIOUS
  <2>2. c + d + b = 1 /\ c <= m /\ m <= c + b
    BY <2>1
  <2>3. /\ NextRow(r, m, c, d, b) \in Import /\ NextRow(r, m, c, d, b) # NoImport
        /\ NextRow(r, m, c, d, b).step = "dedup" /\ ImportFits(NextRow(r, m, c, d, b))
    BY <2>2, NextRowFields
  <2> QED BY <2>1, <2>3
<1>2. /\ NextRow(r, 1, 0, 0, 1) \in Import /\ NextRow(r, 1, 0, 0, 1) # NoImport
      /\ NextRow(r, 1, 0, 0, 1).step = "dedup" /\ ImportFits(NextRow(r, 1, 0, 0, 1))
  <2>1. PICK m \in Nat, c \in Nat, d \in Nat, b \in Nat : m = 1 /\ c = 0 /\ d = 0 /\ b = 1
    OBVIOUS
  <2>2. c + d + b = 1 /\ c <= m /\ m <= c + b
    BY <2>1
  <2>3. /\ NextRow(r, m, c, d, b) \in Import /\ NextRow(r, m, c, d, b) # NoImport
        /\ NextRow(r, m, c, d, b).step = "dedup" /\ ImportFits(NextRow(r, m, c, d, b))
    BY <2>2, NextRowFields
  <2> QED BY <2>1, <2>3
<1>3. /\ NextRow(r, 0, 0, 1, 0) \in Import /\ NextRow(r, 0, 0, 1, 0) # NoImport
      /\ NextRow(r, 0, 0, 1, 0).step = "dedup" /\ ImportFits(NextRow(r, 0, 0, 1, 0))
  <2>1. PICK m \in Nat, c \in Nat, d \in Nat, b \in Nat : m = 0 /\ c = 0 /\ d = 1 /\ b = 0
    OBVIOUS
  <2>2. c + d + b = 1 /\ c <= m /\ m <= c + b
    BY <2>1
  <2>3. /\ NextRow(r, m, c, d, b) \in Import /\ NextRow(r, m, c, d, b) # NoImport
        /\ NextRow(r, m, c, d, b).step = "dedup" /\ ImportFits(NextRow(r, m, c, d, b))
    BY <2>2, NextRowFields
  <2> QED BY <2>1, <2>3
<1>4. /\ NextRow(r, 0, 0, 0, 1) \in Import /\ NextRow(r, 0, 0, 0, 1) # NoImport
      /\ NextRow(r, 0, 0, 0, 1).step = "dedup" /\ ImportFits(NextRow(r, 0, 0, 0, 1))
  <2>1. PICK m \in Nat, c \in Nat, d \in Nat, b \in Nat : m = 0 /\ c = 0 /\ d = 0 /\ b = 1
    OBVIOUS
  <2>2. c + d + b = 1 /\ c <= m /\ m <= c + b
    BY <2>1
  <2>3. /\ NextRow(r, m, c, d, b) \in Import /\ NextRow(r, m, c, d, b) # NoImport
        /\ NextRow(r, m, c, d, b).step = "dedup" /\ ImportFits(NextRow(r, m, c, d, b))
    BY <2>2, NextRowFields
  <2> QED BY <2>1, <2>3
<1> QED BY <1>1, <1>2, <1>3, <1>4

LEMMA PersistKeeps ==
    ASSUME ImportInv, NEW k \in Imports, Persist(k)
    PROVE  ImportInv'
<1>0. /\ ImportTypes /\ (\A p \in People : PersonFits(p)) /\ (\A j \in Imports : ImportFits(import[j]))
      /\ import \in [Imports -> Import \cup {NoImport}]
  BY DEF ImportInv, ImportTypes
<1>1. PICK r \in Import : /\ r = import[k] /\ r # NoImport /\ r.step = "insert" /\ RowsLeft(r)
                          /\ ImportFits(r)
  BY <1>0, ImportFields DEF Persist, AtRow
<1>2. PICK p \in People : p = Person(r)
  BY <1>1, ImportFields
<1>u. UNCHANGED <<suppressed, dialogOpen, uploading, summary, optedOut, uploads>>
  BY DEF Persist
<1>3. ASSUME NEW n \in Import, import' = [import EXCEPT ![k] = n], n.step = "dedup", n # NoImport,
             ImportFits(n), UNCHANGED <<live, twice>>
      PROVE  ImportInv'
  <2>1. OneImport(k, n)
    BY <1>3 DEF OneImport, Waits
  <2> QED BY <1>0, <1>3, <1>u, <2>1, OneImportKeeps DEF ImportInv, ImportTypes
<1>4. ASSUME NEW n \in Import, import' = [import EXCEPT ![k] = n], n.step = "dedup", n # NoImport,
             ImportFits(n), r.verdict = "VALID", MakeLive(p, {k})
      PROVE  ImportInv'
  <2>1. import'[k] = n /\ (\A j \in Imports : j # k => import'[j] = import[j])
        /\ import' \in [Imports -> Import \cup {NoImport}]
    BY <1>0, <1>4
  <2>2. Waits(r, p)
    BY <1>1, <1>2, <1>4 DEF Waits
  <2>3. optedOut[p] = {} /\ (p \notin twice => live[p] = 0)
    <3>1. PersonFits(p)
      BY <1>0
    <3> QED BY <1>1, <2>2, <3>1 DEF PersonFits
  <2>4. \A q \in People : ~Waits(import'[k], q)
    BY <1>4, <2>1 DEF Waits
  <2>5. \A q \in People : PersonFits(q)'
    <3>1. {k} \in SUBSET Imports
      OBVIOUS
    <3> QED BY <1>4, <1>u, <2>1, <2>3, <2>4, <3>1, MakeLiveKeeps
  <2>6. live' \in [People -> Nat] /\ twice' \subseteq People
    BY <1>0, <1>4 DEF MakeLive, ImportTypes
  <2> QED BY <1>0, <1>4, <1>u, <2>1, <2>5, <2>6 DEF ImportInv, ImportTypes
<1>5. CASE r.verdict = "VALID"
  <2>1. \/ MakeLive(p, {k}) /\ import' = [import EXCEPT ![k] = NextRow(r, 1, 1, 0, 0)]
        \/ MakeLive(p, {k}) /\ import' = [import EXCEPT ![k] = NextRow(r, 1, 0, 0, 1)]
        \/ import' = [import EXCEPT ![k] = NextRow(r, 0, 0, 0, 1)] /\ UNCHANGED <<live, twice>>
    BY <1>1, <1>2, <1>5 DEF Persist
  <2>2. /\ NextRow(r, 1, 1, 0, 0) \in Import /\ NextRow(r, 1, 1, 0, 0) # NoImport
        /\ NextRow(r, 1, 1, 0, 0).step = "dedup" /\ ImportFits(NextRow(r, 1, 1, 0, 0))
    BY <1>1, RowOutcomes
  <2>3. /\ NextRow(r, 1, 0, 0, 1) \in Import /\ NextRow(r, 1, 0, 0, 1) # NoImport
        /\ NextRow(r, 1, 0, 0, 1).step = "dedup" /\ ImportFits(NextRow(r, 1, 0, 0, 1))
    BY <1>1, RowOutcomes
  <2>4. /\ NextRow(r, 0, 0, 0, 1) \in Import /\ NextRow(r, 0, 0, 0, 1) # NoImport
        /\ NextRow(r, 0, 0, 0, 1).step = "dedup" /\ ImportFits(NextRow(r, 0, 0, 0, 1))
    BY <1>1, RowOutcomes
  <2> QED BY <1>3, <1>4, <1>5, <2>1, <2>2, <2>3, <2>4
<1>6. CASE r.verdict # "VALID"
  <2>1. /\ UNCHANGED <<live, twice>>
        /\ \/ import' = [import EXCEPT ![k] = NextRow(r, 0, 0, 1, 0)]
           \/ import' = [import EXCEPT ![k] = NextRow(r, 0, 0, 0, 1)]
    BY <1>1, <1>2, <1>6 DEF Persist
  <2>2. /\ NextRow(r, 0, 0, 1, 0) \in Import /\ NextRow(r, 0, 0, 1, 0) # NoImport
        /\ NextRow(r, 0, 0, 1, 0).step = "dedup" /\ ImportFits(NextRow(r, 0, 0, 1, 0))
    BY <1>1, RowOutcomes
  <2>3. /\ NextRow(r, 0, 0, 0, 1) \in Import /\ NextRow(r, 0, 0, 0, 1) # NoImport
        /\ NextRow(r, 0, 0, 0, 1).step = "dedup" /\ ImportFits(NextRow(r, 0, 0, 0, 1))
    BY <1>1, RowOutcomes
  <2> QED BY <1>3, <2>1, <2>2, <2>3
<1> QED BY <1>5, <1>6

LEMMA EvaluateKeeps ==
    ASSUME ImportInv, NEW k \in Imports, Dedup(k) \/ CheckSuppression(k)
    PROVE  ImportInv'
<1>0. ImportTypes /\ (\A j \in Imports : ImportFits(import[j])) /\ import \in [Imports -> Import \cup {NoImport}]
  BY DEF ImportInv, ImportTypes
<1>u. UNCHANGED <<live, suppressed, dialogOpen, uploading, summary, twice, optedOut, uploads>>
  BY DEF Dedup, CheckSuppression, Evaluate
<1>1. PICK r \in Import : r = import[k] /\ r # NoImport /\ RowsLeft(r) /\ ImportFits(r)
  BY <1>0, ImportFields DEF Dedup, CheckSuppression, Evaluate, AtRow
<1>2. PICK p \in People : p = Person(r)
  BY <1>1, ImportFields
<1>p. live[p] \in Nat
  BY <1>0 DEF ImportTypes
<1>3. ASSUME NEW step \in {"suppression", "insert"}, NEW verdict \in {"VALID", "REJECTED"},
             import' = [import EXCEPT ![k].step = step, ![k].verdict = verdict],
             \/ step = "suppression" /\ live[p] = 0
             \/ step = "insert" /\ verdict = "REJECTED"
             \/ step = "insert" /\ r.step = "suppression" /\ ~IsSuppressed(p)
      PROVE  ImportInv'
  <2>1. PICK n \in Import : n = [r EXCEPT !.step = step, !.verdict = verdict]
    BY DEF Import
  <2>2. /\ n.step = step /\ n.verdict = verdict /\ n.file = r.file /\ n.at = r.at
        /\ n.made = r.made /\ n.created = r.created /\ n.rejected = r.rejected /\ n.failed = r.failed
    BY <2>1 DEF Import
  <2>3. ImportFits(n) /\ \A q \in People : Waits(n, q) => q = p
    BY <1>1, <1>2, <2>2 DEF ImportFits, Counted, Waits, Person
  <2>4. r.step = "suppression" => Waits(r, p)
    BY <1>1, <1>2 DEF Waits
  <2>5. import' = [import EXCEPT ![k] = n]
    BY <1>0, <1>1, <1>3, <2>1
  <2>6. OneImport(k, n)
    <3>1. ASSUME NEW q \in People, Waits(n, q)
          PROVE  \/ Waits(r, q) /\ (n.step = "insert" => r.step = "insert")
                 \/ n.step = "suppression" /\ live[q] = 0
                 \/ Waits(r, q) /\ ~IsSuppressed(q)
      BY <1>3, <2>2, <2>3, <2>4, <3>1 DEF Waits
    <3> QED BY <1>1, <2>3, <2>5, <3>1 DEF OneImport
  <2> QED BY <1>0, <1>u, <2>6, OneImportKeeps DEF ImportInv, ImportTypes
<1>4. CASE Dedup(k)
  <2>1. import' = [import EXCEPT ![k].step = IF IsDuplicate(p) THEN "insert" ELSE "suppression",
                                 ![k].verdict = IF IsDuplicate(p) THEN "REJECTED" ELSE "VALID"]
    BY <1>1, <1>2, <1>4 DEF Dedup, Evaluate
  <2>2. ~IsDuplicate(p) => live[p] = 0
    BY <1>p DEF IsDuplicate
  <2> QED BY <1>3, <2>1, <2>2
<1>5. CASE CheckSuppression(k)
  <2>1. r.step = "suppression" /\
        import' = [import EXCEPT ![k].step = "insert",
                                 ![k].verdict = IF IsSuppressed(p) THEN "REJECTED" ELSE "VALID"]
    BY <1>1, <1>2, <1>5 DEF CheckSuppression, Evaluate, AtRow
  <2> QED BY <1>3, <2>1
<1> QED BY <1>4, <1>5
LEMMA DialogKeepsImport ==
    ASSUME ImportInv, NEW k \in Imports,
           \/ \E f \in Files : Upload(k, f)
           \/ ImportAnswered(k) \/ AnswerLost(k)
    PROVE  ImportInv'
<1>0. ImportTypes /\ (\A j \in Imports : ImportFits(import[j])) /\ import \in [Imports -> Import \cup {NoImport}]
  BY DEF ImportInv, ImportTypes
<1>1. UNCHANGED <<live, suppressed, dialogOpen, twice, optedOut>>
  BY DEF Upload, ImportAnswered, AnswerLost
<1>2. uploads' \in 0..MaxUploads /\ uploading' \in BOOLEAN
  <2>1. uploads' = uploads \/ (uploads < MaxUploads /\ uploads' = uploads + 1)
    BY DEF Upload, ImportAnswered, AnswerLost
  <2>2. uploads' \in 0..MaxUploads
    BY <1>0, <2>1, ImportAssumption, CountIsBounded DEF ImportTypes
  <2>3. uploading' \in BOOLEAN
    BY <1>0 DEF Upload, ImportAnswered, AnswerLost, ImportTypes
  <2> QED BY <2>2, <2>3
<1>3. ASSUME NEW f \in Files, Upload(k, f)
      PROVE  ImportInv'
  <2>1. PICK n : n = [file |-> f, at |-> 1, step |-> "dedup", verdict |-> "VALID", made |-> 0, created |-> 0,
                      rejected |-> 0, failed |-> 0, asked |-> TRUE]
    OBVIOUS
  <2>2. n \in Import /\ n.step = "dedup"
    BY <2>1 DEF Import
  <2>3. f \in Seq(People) /\ Len(f) \in Nat
    BY ImportAssumption
  <2>4. ImportFits(n)
    BY <2>1, <2>3 DEF ImportFits, Counted
  <2>5. OneImport(k, n)
    BY <1>3, <2>1, <2>2, <2>4 DEF OneImport, Upload, Waits
  <2>6. summary' = NoSummary
    BY <1>3 DEF Upload
  <2> QED BY <1>0, <1>1, <1>2, <2>5, <2>6, OneImportKeeps DEF ImportInv, ImportTypes
<1>4. CASE ImportAnswered(k)
  <2>1. PICK r \in Import : r = import[k] /\ r # NoImport /\ ~RowsLeft(r) /\ ImportFits(r)
    BY <1>0, <1>4 DEF ImportAnswered
  <2>2. OneImport(k, NoImport)
    BY <1>4 DEF ImportAnswered, OneImport, ImportFits, Waits
  <2>3. CASE r.asked
    <3>1. PICK s : s = [total |-> Len(r.file), created |-> r.created, rejected |-> r.rejected,
                        failed |-> r.failed, made |-> r.made]
      OBVIOUS
    <3>2. r.at = Len(r.file) + 1 /\ r.at - 1 = Len(r.file)
      <4>1. r.at \in Nat /\ Len(r.file) \in Nat
        BY <2>1, ImportFields
      <4>2. ~(r.at <= Len(r.file)) /\ r.at \in 1 .. Len(r.file) + 1
        BY <2>1 DEF ImportFits, RowsLeft
      <4> QED BY <4>1, <4>2
    <3>3. s \in Summary
      BY <2>1, <3>1, ImportFields DEF Summary
    <3>4. s.created + s.rejected + s.failed = s.total /\ Counted(s)
      BY <2>1, <3>1, <3>2 DEF ImportFits, Counted
    <3>5. summary' = s
      BY <1>4, <2>1, <2>3, <3>1 DEF ImportAnswered
    <3> QED BY <1>0, <1>1, <1>2, <2>2, <3>3, <3>4, <3>5, OneImportKeeps DEF ImportInv, ImportTypes
  <2>4. CASE ~r.asked
    <3>1. summary' = summary
      BY <1>4, <2>1, <2>4 DEF ImportAnswered
    <3> QED BY <1>0, <1>1, <1>2, <2>2, <3>1, OneImportKeeps DEF ImportInv, ImportTypes
  <2> QED BY <2>3, <2>4
<1>5. CASE AnswerLost(k)
  <2>0. UNCHANGED summary
    BY <1>5 DEF AnswerLost
  <2>1. PICK r \in Import : r = import[k] /\ r # NoImport /\ ImportFits(r)
    BY <1>0, <1>5 DEF AnswerLost
  <2>2. PICK n \in Import : n = [r EXCEPT !.asked = FALSE]
    BY DEF Import
  <2>3. /\ n.step = r.step /\ n.verdict = r.verdict /\ n.file = r.file /\ n.at = r.at
        /\ n.made = r.made /\ n.created = r.created /\ n.rejected = r.rejected /\ n.failed = r.failed
    BY <2>2 DEF Import
  <2>4. ImportFits(n) /\ \A q \in People : Waits(n, q) => Waits(r, q)
    BY <2>1, <2>3 DEF ImportFits, Counted, Waits, RowsLeft, Person
  <2>5. \/ import' = [import EXCEPT ![k] = n]
        \/ import' = [import EXCEPT ![k] = NoImport]
    BY <1>0, <1>5, <2>1, <2>2 DEF AnswerLost
  <2>6. OneImport(k, n) \/ OneImport(k, NoImport)
    BY <2>1, <2>3, <2>4, <2>5 DEF OneImport, ImportFits, Waits
  <2> QED BY <1>0, <1>1, <1>2, <2>0, <2>6, OneImportKeeps DEF ImportInv, ImportTypes
<1> QED BY <1>3, <1>4, <1>5

LEMMA OthersKeepImport ==
    ASSUME ImportInv, NEW p \in People,
           OtherLead(p) \/ \E form \in Forms : Suppress(p, form) \/ RemoveEntry(p, form)
    PROVE  ImportInv'
<1>0. /\ ImportTypes /\ (\A j \in Imports : ImportFits(import[j])) /\ (\A q \in People : PersonFits(q))
      /\ optedOut \in [People -> SUBSET Nat] /\ live \in [People -> Nat]
      /\ suppressed \subseteq People \X Forms
  BY DEF ImportInv, ImportTypes
<1>1. UNCHANGED <<import, dialogOpen, uploading, summary>>
  BY DEF OtherLead, Suppress, RemoveEntry
<1>2. uploads' \in 0..MaxUploads
  <2>1. uploads' = uploads \/ (uploads < MaxUploads /\ uploads' = uploads + 1)
    BY DEF OtherLead, Suppress, RemoveEntry
  <2> QED BY <1>0, <2>1, ImportAssumption, CountIsBounded DEF ImportTypes
<1>3. CASE OtherLead(p)
  <2>1. /\ live[p] = 0 /\ ~IsSuppressed(p) /\ MakeLive(p, {}) /\ UNCHANGED <<suppressed, optedOut>>
    BY <1>0, <1>3 DEF OtherLead, IsDuplicate
  <2>2. optedOut[p] = {}
    BY <1>0, <2>1 DEF PersonFits
  <2>3. /\ live' \in [People -> Nat] /\ twice' \subseteq People
        /\ \A q \in People : PersonFits(q)'
    <3>1. PICK by \in SUBSET Imports : by = {}
      OBVIOUS
    <3> QED BY <1>1, <2>1, <2>2, <3>1, MakeLiveKeeps
  <2> QED BY <1>0, <1>1, <1>2, <2>1, <2>3 DEF ImportInv, ImportTypes
<1>4. ASSUME UNCHANGED <<live, twice>>, suppressed' \subseteq People \X Forms,
             optedOut' \in [People -> SUBSET Nat],
             \A q \in People \ {p} :
                optedOut'[q] = optedOut[q] /\ (IsSuppressed(q) => IsSuppressed(q)'),
             optedOut'[p] \subseteq {live[p]},
             optedOut'[p] # {} =>
                IsSuppressed(p)' /\ \A k \in Imports : Waits(import[k], p) => import[k].step = "suppression"
      PROVE  ImportInv'
  <2>1. \A q \in People : PersonFits(q)'
    BY <1>0, <1>1, <1>4 DEF PersonFits
  <2> QED BY <1>0, <1>1, <1>2, <1>4, <2>1 DEF ImportInv, ImportTypes
<1>5. ASSUME NEW form \in Forms, Suppress(p, form)
      PROVE  ImportInv'
  <2>1. /\ suppressed' = suppressed \cup {<<p, form>>} /\ UNCHANGED <<live, twice>>
        /\ optedOut' = IF form \in Matched /\ optedOut[p] = {} /\ Inserting(p) = {}
                       THEN [optedOut EXCEPT ![p] = {live[p]}] ELSE optedOut
    BY <1>5 DEF Suppress
  <2>2. \A q \in People : IsSuppressed(q) => IsSuppressed(q)'
    BY <2>1 DEF IsSuppressed
  <2>3. \A k \in Imports : (Inserting(p) = {} /\ Waits(import[k], p)) => import[k].step = "suppression"
    BY DEF Waits, Inserting, AtRow
  <2>4. form \in Matched => IsSuppressed(p)'
    BY <2>1 DEF IsSuppressed
  <2>5. live[p] \in Nat
    BY <1>0
  <2>6. /\ optedOut' \in [People -> SUBSET Nat]
        /\ \A q \in People \ {p} : optedOut'[q] = optedOut[q]
        /\ \/ optedOut'[p] = optedOut[p]
           \/ form \in Matched /\ Inserting(p) = {} /\ optedOut'[p] = {live[p]}
    BY <1>0, <2>1, <2>5
  <2>7. suppressed' \subseteq People \X Forms
    BY <1>0, <2>1
  <2>8. PersonFits(p)
    BY <1>0
  <2> QED BY <1>4, <2>1, <2>2, <2>3, <2>4, <2>6, <2>7, <2>8 DEF PersonFits
<1>6. ASSUME NEW form \in Forms, RemoveEntry(p, form)
      PROVE  ImportInv'
  <2>1. /\ suppressed' = suppressed \ {<<p, form>>} /\ UNCHANGED <<live, twice>>
        /\ optedOut' = IF \E f \in Matched : <<p, f>> \in suppressed' THEN optedOut
                       ELSE [optedOut EXCEPT ![p] = {}]
    BY <1>6 DEF RemoveEntry
  <2>2. \A q \in People \ {p} : IsSuppressed(q) => IsSuppressed(q)'
    BY <2>1 DEF IsSuppressed
  <2>3. /\ optedOut' \in [People -> SUBSET Nat]
        /\ \A q \in People \ {p} : optedOut'[q] = optedOut[q]
        /\ \/ optedOut'[p] = {}
           \/ optedOut'[p] = optedOut[p] /\ IsSuppressed(p)'
    BY <1>0, <2>1 DEF IsSuppressed
  <2>4. PersonFits(p) /\ suppressed' \subseteq People \X Forms
    BY <1>0, <2>1
  <2> QED BY <1>4, <2>1, <2>2, <2>3, <2>4 DEF PersonFits
<1> QED BY <1>3, <1>5, <1>6

LEMMA ImportInvHolds == ImportSpec => []ImportInv
<1>1. ImportInit => ImportInv
  <2> SUFFICES ASSUME ImportInit
               PROVE  ImportInv
    OBVIOUS
  <2>1. ImportTypes
    <3>1. uploads \in 0..MaxUploads
      BY ImportAssumption DEF ImportInit
    <3> QED BY <3>1 DEF ImportInit, ImportTypes
  <2> QED BY <2>1 DEF ImportInit, ImportInv, PersonFits, ImportFits, Waits
<1>2. ImportInv /\ [ImportNext]_importVars => ImportInv'
  <2> SUFFICES ASSUME ImportInv, [ImportNext]_importVars
               PROVE  ImportInv'
    OBVIOUS
  <2>1. ASSUME UNCHANGED <<live, suppressed, import, twice, optedOut, uploads>>,
               dialogOpen' \in BOOLEAN, uploading' \in BOOLEAN, summary' \in {summary, NoSummary}
        PROVE  ImportInv'
    BY <2>1 DEF ImportInv, ImportTypes, PersonFits, IsSuppressed
  <2>2. CASE OpenImport \/ CloseImport \/ UNCHANGED importVars
    BY <2>1, <2>2 DEF OpenImport, CloseImport, importVars, ImportInv, ImportTypes
  <2>3. ASSUME NEW k \in Imports, IngestBulk(k)
        PROVE  ImportInv'
    BY <2>3, EvaluateKeeps, PersistKeeps DEF IngestBulk
  <2>4. ASSUME NEW k \in Imports, ImportAnswered(k) \/ AnswerLost(k) \/ \E f \in Files : Upload(k, f)
        PROVE  ImportInv'
    BY <2>4, DialogKeepsImport
  <2>5. ASSUME NEW p \in People,
               OtherLead(p) \/ \E form \in Forms : Suppress(p, form) \/ RemoveEntry(p, form)
        PROVE  ImportInv'
    BY <2>5, OthersKeepImport
  <2> QED BY <2>2, <2>3, <2>4, <2>5 DEF ImportNext
<1> QED BY <1>1, <1>2, PTL DEF ImportSpec

\* Importing a file again makes no second live lead of a person, and each
\* summary counts what its upload did, for any files and any number of uploads
\* and leads of the webhook that overlap (ingestBulk, BulkImportDialog).
THEOREM FilesCanBeImportedAgain == ImportSpec => [](ImportTypes /\ ImportsCanBeRepeated)
<1>1. ImportInv => ImportTypes /\ ImportsCanBeRepeated
  BY DEF ImportInv, PersonFits, ImportsCanBeRepeated, Counted
<1> QED BY <1>1, ImportInvHolds, PTL

\* The suppression list keeps its promise to any number of persons, whatever is
\* imported or captured meanwhile (isSuppressed).
THEOREM SuppressionIsHonoured == ImportSpec => []OptOutsAreHonoured
<1>1. ImportInv => OptOutsAreHonoured
  BY DEF ImportInv, PersonFits, OptOutsAreHonoured
<1> QED BY <1>1, ImportInvHolds, PTL
-----------------------------------------------------------------------------
(* Drawers. *)

\* The fields of the calls beside a drawer.
LEMMA PageLoadFields ==
    ASSUME NEW l \in PageLoad \cup {NoPageLoad}
    PROVE  /\ l # NoPageLoad => /\ l \in PageLoad /\ l.step \in {"sent", "read"} /\ l.rows \in Secrets
                                /\ l.missed \subseteq Pages /\ l.alone \in BOOLEAN
           /\ l = NoPageLoad => l.step = "none"
BY DEF PageLoad, NoPageLoad

LEMMA RotationFields ==
    ASSUME NEW r \in Rotation, MaxTurns \in Nat
    PROVE  /\ r # NoRotation /\ r.page \in Pages /\ r.step \in {"sent", "written"}
           /\ r.turn \in 0..MaxTurns /\ r.old \in BOOLEAN
BY DrawerAssumption DEF Rotation, NoRotation

\* What a load is after changes that it does not show.
LEMMA MissedLoad ==
    ASSUME NEW l \in PageLoad \cup {NoPageLoad}, NEW p \in Pages,
           NEW m, m = IF l.step = "read" THEN [l EXCEPT !.missed = @ \cup {p}] ELSE l
    PROVE  /\ m \in PageLoad \cup {NoPageLoad} /\ (m = NoPageLoad <=> l = NoPageLoad)
           /\ l # NoPageLoad => m.step = l.step /\ m.rows = l.rows /\ m.alone = l.alone
           /\ l # NoPageLoad => (l.step = "read" => m.missed = l.missed \cup {p})
<1>1. CASE l = NoPageLoad
  BY <1>1, PageLoadFields
<1>2. CASE l # NoPageLoad
  <2>1. l \in PageLoad
    BY <1>2
  <2>2. CASE l.step = "read"
    <3>1. m = [l EXCEPT !.missed = @ \cup {p}]
      BY <2>2
    <3>2. m \in PageLoad /\ m.step = l.step /\ m.rows = l.rows /\ m.alone = l.alone
          /\ m.missed = l.missed \cup {p}
      BY <2>1, <3>1 DEF PageLoad
    <3>3. m # NoPageLoad
      BY <2>2, <3>2 DEF NoPageLoad
    <3> QED BY <1>2, <3>2, <3>3
  <2>3. CASE l.step # "read"
    BY <1>2, <2>3
  <2> QED BY <2>2, <2>3
<1> QED BY <1>1, <1>2

\* The type invariant of PageDrawer.
LEMMA DrawerStaysTyped ==
    ASSUME DrawerTypes, [DrawerNext]_drawerVars
    PROVE  DrawerTypes'
<1> USE DEF DrawerTypes
<1>0. /\ reloads \in [Reloads -> PageLoad \cup {NoPageLoad}]
      /\ detail \in [Details -> Detail \cup {NoDetail}]
      /\ MaxTurns \in Nat
  BY DrawerAssumption
<1>1. ASSUME NEW k \in Reloads, LoadPages(k)
      PROVE  /\ reloads' \in [Reloads -> PageLoad \cup {NoPageLoad}]
             /\ loadsCrossed' \in BOOLEAN /\ listLoading' \in BOOLEAN /\ listFailed' \in BOOLEAN
  <2>1. (\A j \in Reloads : reloads[j] = NoPageLoad) \in BOOLEAN
    OBVIOUS
  <2>2. [step |-> "sent", rows |-> listed, missed |-> {},
         alone |-> \A j \in Reloads : reloads[j] = NoPageLoad] \in PageLoad
    BY <2>1 DEF PageLoad
  <2>3. \A j \in Reloads : reloads[j] # NoPageLoad => [reloads[j] EXCEPT !.alone = FALSE] \in PageLoad
    BY <1>0 DEF PageLoad
  <2>4. reloads' \in [Reloads -> PageLoad \cup {NoPageLoad}]
    BY <1>1, <2>2, <2>3 DEF LoadPages
  <2> QED BY <1>1, <2>4 DEF LoadPages
<1>2. ASSUME NEW p \in Pages, Unseen(p)
      PROVE  /\ reloads' \in [Reloads -> PageLoad \cup {NoPageLoad}]
             /\ others' \subseteq Pages /\ outdatedRow' \in BOOLEAN
  <2>1. \A k \in Reloads :
           (IF reloads[k].step = "read" THEN [reloads[k] EXCEPT !.missed = @ \cup {p}] ELSE reloads[k])
              \in PageLoad \cup {NoPageLoad}
    BY <1>0, MissedLoad
  <2> QED BY <1>2, <2>1 DEF Unseen
<1>3. ASSUME NEW k \in Reloads, ListOfPages(k)
      PROVE  DrawerTypes'
  <2>1. CASE Refetch(k)
    BY <1>1, <2>1 DEF Refetch, storeVars
  <2>2. CASE ReadPages(k)
    <3>1. reloads[k] \in PageLoad
      BY <1>0, <2>2 DEF ReadPages, NoPageLoad
    <3>2. [reloads[k] EXCEPT !.step = "read", !.rows = intakeSecret] \in PageLoad
      BY <3>1 DEF PageLoad
    <3>3. reloads' \in [Reloads -> PageLoad \cup {NoPageLoad}]
      BY <1>0, <2>2, <3>2 DEF ReadPages
    <3> QED BY <2>2, <3>3 DEF ReadPages, storeVars
  <2>3. CASE ShowPages(k)
    <3>1. reloads[k] \in PageLoad
      BY <1>0, <2>3 DEF ShowPages, NoPageLoad
    <3>2. reloads[k].rows \in Secrets /\ reloads[k].missed \subseteq Pages
      BY <3>1 DEF PageLoad
    <3> QED BY <2>3, <3>2 DEF ShowPages
  <2>4. CASE PagesFail(k)
    BY <2>4 DEF PagesFail, storeVars
  <2>5. CASE Rotated(k)
    <3>1. rotating \in Rotation
      BY <2>5 DEF Rotated
    <3>2. [page |-> rotating.page, turn |-> rotating.turn] \in Secret /\ rotating.old \in BOOLEAN
      BY <1>0, <3>1, RotationFields DEF Secret
    <3> QED BY <1>1, <2>5, <3>2 DEF Rotated, storeVars
  <2> QED BY <1>3, <2>1, <2>2, <2>3, <2>4, <2>5 DEF ListOfPages
<1>4. ASSUME NEW i \in Details, Look(i)
      PROVE  DrawerTypes'
  <2>0. \A p \in Pages : [page |-> p, old |-> FALSE] \in Detail
    BY DEF Detail
  <2>1. ASSUME NEW p \in Pages, AskDetail(i, p)
        PROVE  record' \in Pages \cup {"none"} /\ error' \in BOOLEAN
               /\ detail' \in [Details -> Detail \cup {NoDetail}]
    <3>1. MadeStale(detail) \in [Details -> Detail \cup {NoDetail}]
      <4>1. \A j \in Details : detail[j] # NoDetail => [detail[j] EXCEPT !.old = TRUE] \in Detail
        BY <1>0 DEF Detail
      <4> QED BY <4>1 DEF MadeStale
    <3> QED BY <2>0, <2>1, <3>1 DEF AskDetail
  <2>2. RotationMadeStale \in Rotation \cup {NoRotation}
    BY DEF RotationMadeStale, Rotation
  <2>3. ASSUME NEW p \in Pages, OpenPageDrawer(i, p)
        PROVE  DrawerTypes'
    <3>1. [page |-> p, turn |-> listed[p]] \in Secret
      BY DEF Secret, Secrets
    <3> QED BY <2>1, <2>2, <2>3, <3>1 DEF OpenPageDrawer, ForgetsRotated, storeVars, listVars
  <2>4. ASSUME NEW p \in Pages, OpenLeadDrawer(i, p)
        PROVE  DrawerTypes'
    <3>1. [page |-> p, turn |-> 0] \in Secret
      BY <1>0 DEF Secret
    <3> QED BY <2>1, <2>4, <3>1 DEF OpenLeadDrawer, storeVars, listVars
  <2>5. CASE RefreshMetrics(i)
    <3>1. drawer.page \in Pages
      BY <2>5 DEF RefreshMetrics, IsOpen, Secret
    <3> QED BY <2>0, <2>5, <3>1 DEF RefreshMetrics, storeVars, listVars
  <2>6. CASE ShowDetail(i)
    <3>1. detail[i].page \in Pages /\ detail[i].old \in BOOLEAN
      BY <2>6 DEF ShowDetail, Detail
    <3> QED BY <2>6, <3>1 DEF ShowDetail, storeVars, listVars
  <2>7. CASE DetailFails(i)
    BY <2>7 DEF DetailFails, storeVars, listVars
  <2> QED BY <1>4, <2>3, <2>4, <2>5, <2>6, <2>7 DEF Look
<1>5. CASE CloseDrawer
  BY <1>5 DEF CloseDrawer, storeVars, listVars
<1>6. CASE Rotate
  <2>1. drawer.page \in Pages
    BY <1>6 DEF Rotate, IsOpen, Secret
  <2>2. [page |-> drawer.page, step |-> "sent", turn |-> 0, old |-> FALSE] \in Rotation
    BY <1>0, <2>1 DEF Rotation
  <2> QED BY <1>6, <2>2 DEF Rotate, storeVars, listVars
<1>7. CASE RotateSecret
  <2>1. turns' \in 0..MaxTurns
    BY <1>0, <1>7, CountIsBounded DEF RotateSecret
  <2>2. rotating \in Rotation
    BY <1>7 DEF RotateSecret
  <2>3. [rotating EXCEPT !.step = "written", !.turn = turns'] \in Rotation
    BY <2>1, <2>2 DEF Rotation
  <2>4. intakeSecret' \in Secrets
    BY <1>7, <2>1 DEF RotateSecret, Secrets
  <2> QED BY <1>7, <2>1, <2>3, <2>4 DEF RotateSecret, listVars
<1>8. CASE RotateFails
  <2>1. rotating.page \in Pages
    BY <1>0, <1>8, RotationFields DEF RotateFails
  <2>2. /\ reloads' \in [Reloads -> PageLoad \cup {NoPageLoad}]
        /\ others' \subseteq Pages /\ outdatedRow' \in BOOLEAN
    BY <1>2, <1>8, <2>1 DEF RotateFails
  <2> QED BY <1>8, <2>2 DEF RotateFails
<1>9. ASSUME NEW p \in Pages, OtherRotates(p)
      PROVE  DrawerTypes'
  <2>1. turns' \in 0..MaxTurns
    BY <1>0, <1>9, CountIsBounded DEF OtherRotates
  <2>2. intakeSecret' \in Secrets
    BY <1>9, <2>1 DEF OtherRotates, Secrets
  <2>3. /\ reloads' \in [Reloads -> PageLoad \cup {NoPageLoad}]
        /\ others' \subseteq Pages /\ outdatedRow' \in BOOLEAN
    BY <1>2, <1>9 DEF OtherRotates
  <2> QED BY <1>9, <2>1, <2>2, <2>3 DEF OtherRotates
<1>10. CASE UNCHANGED drawerVars
  BY <1>10 DEF drawerVars
<1> QED BY <1>3, <1>4, <1>5, <1>6, <1>7, <1>8, <1>9, <1>10 DEF DrawerNext
\* The answer that a secret was rotated is on its way.
Written(p) == rotating # NoRotation /\ rotating.step = "written" /\ rotating.page = p

\* A load that was alone has the secrets that are stored, and so has the list
\* after it, but for those others changed and the one whose answer is to come.
LoadFitsList(k) ==
    reloads[k] # NoPageLoad =>
        /\ reloads[k].alone =>
              listLoading /\ \A j \in Reloads : reloads[j] # NoPageLoad => j = k
        /\ ~loadsCrossed => reloads[k].alone
        /\ (reloads[k].alone /\ reloads[k].step = "read") =>
              \A p \in Pages \ reloads[k].missed : ~Written(p) => reloads[k].rows[p] = intakeSecret[p]

ListFits ==
    (~loadsCrossed /\ TableThere) =>
        \A p \in Pages \ others : ~Written(p) => listed[p] = intakeSecret[p]

ListInv == ListFits /\ \A k \in Reloads : LoadFitsList(k)

LEMMA LoadPagesKeepsList ==
    ASSUME DrawerTypes, ListInv, NEW k \in Reloads, LoadPages(k)
    PROVE  ListInv'
<1>0. reloads \in [Reloads -> PageLoad \cup {NoPageLoad}] /\ loadsCrossed \in BOOLEAN
  BY DEF DrawerTypes
<1>1. /\ reloads[k] = NoPageLoad /\ listLoading' = TRUE
      /\ loadsCrossed' = (loadsCrossed \/ \E j \in Reloads : reloads[j] # NoPageLoad)
      /\ \A i \in Reloads : i # k =>
            reloads'[i] = IF reloads[i] = NoPageLoad THEN NoPageLoad ELSE [reloads[i] EXCEPT !.alone = FALSE]
  BY DEF LoadPages
<1>2. PICK a \in BOOLEAN : a <=> \A j \in Reloads : reloads[j] = NoPageLoad
  OBVIOUS
<1>3. reloads'[k] = [step |-> "sent", rows |-> listed, missed |-> {}, alone |-> a]
  BY <1>2 DEF LoadPages
<1>4. reloads'[k].step = "sent" /\ reloads'[k].alone = a
  BY <1>3
<1>5. \A i \in Reloads : i # k =>
         /\ reloads[i] = NoPageLoad => reloads'[i] = NoPageLoad
         /\ reloads[i] # NoPageLoad => ~reloads'[i].alone
  BY <1>0, <1>1 DEF PageLoad
<1>6. ASSUME NEW i \in Reloads
      PROVE  LoadFitsList(i)'
  <2>1. CASE i = k
    BY <1>1, <1>2, <1>4, <1>5, <2>1 DEF LoadFitsList
  <2>2. CASE i # k
    BY <1>1, <1>5, <2>2 DEF LoadFitsList
  <2> QED BY <2>1, <2>2
<1> QED BY <1>1, <1>6 DEF ListInv, ListFits, TableThere

LEMMA ListStaysFit ==
    ASSUME DrawerTypes, ListInv, [DrawerNext]_drawerVars
    PROVE  ListInv'
<1>0. /\ reloads \in [Reloads -> PageLoad \cup {NoPageLoad}] /\ loadsCrossed \in BOOLEAN
      /\ rotating \in Rotation \cup {NoRotation} /\ MaxTurns \in Nat
      /\ intakeSecret \in Secrets
  BY DrawerAssumption DEF DrawerTypes
<1>1. ASSUME UNCHANGED <<reloads, listed, listLoading, listFailed, loadsCrossed, others, intakeSecret>>,
             \A p \in Pages : Written(p)' <=> Written(p)
      PROVE  ListInv'
  BY <1>1 DEF ListInv, ListFits, LoadFitsList, TableThere
<1>2. ASSUME NEW k \in Reloads, ListOfPages(k)
      PROVE  ListInv'
  <2>1. CASE Refetch(k) \/ Rotated(k)
    BY <2>1, LoadPagesKeepsList DEF Refetch, Rotated
  <2>2. CASE ReadPages(k)
    <3>1. PICK l \in PageLoad : l = reloads[k] /\ l # NoPageLoad
      BY <1>0, <2>2 DEF ReadPages, NoPageLoad
    <3>2. PICK m \in PageLoad : m = [l EXCEPT !.step = "read", !.rows = intakeSecret]
      BY <1>0 DEF PageLoad
    <3>3. m.alone = l.alone /\ m.rows = intakeSecret /\ m # NoPageLoad
      BY <3>2 DEF PageLoad, NoPageLoad
    <3>4. /\ reloads'[k] = m /\ \A j \in Reloads : j # k => reloads'[j] = reloads[j]
          /\ UNCHANGED <<listed, listLoading, listFailed, loadsCrossed, others, intakeSecret, rotating>>
      BY <1>0, <2>2, <3>1, <3>2 DEF ReadPages, storeVars
    <3>5. \A p \in Pages : Written(p)' <=> Written(p)
      BY <3>4 DEF Written
    <3>6. ASSUME NEW i \in Reloads
          PROVE  LoadFitsList(i)'
      <4>0. LoadFitsList(i) /\ \A j \in Reloads : reloads'[j] # NoPageLoad => reloads[j] # NoPageLoad
        BY <3>1, <3>4 DEF ListInv
      <4>1. CASE i = k
        BY <3>1, <3>3, <3>4, <4>0, <4>1 DEF LoadFitsList
      <4>2. CASE i # k
        BY <3>4, <3>5, <4>0, <4>2 DEF LoadFitsList
      <4> QED BY <4>1, <4>2
    <3> QED BY <3>4, <3>5, <3>6 DEF ListInv, ListFits, TableThere
  <2>3. CASE ShowPages(k)
    <3>1. PICK l \in PageLoad : l = reloads[k] /\ l # NoPageLoad /\ l.step = "read" /\ l.alone \in BOOLEAN
      BY <1>0, <2>3, PageLoadFields DEF ShowPages, NoPageLoad
    <3>2. /\ listed' = l.rows /\ others' = l.missed /\ loadsCrossed' = (loadsCrossed /\ ~l.alone)
          /\ reloads'[k] = NoPageLoad /\ \A j \in Reloads : j # k => reloads'[j] = reloads[j]
          /\ listLoading' = FALSE /\ UNCHANGED <<intakeSecret, rotating>>
      BY <1>0, <2>3, <3>1 DEF ShowPages
    <3>3. \A p \in Pages : Written(p)' <=> Written(p)
      BY <3>2 DEF Written
    <3>4. LoadFitsList(k)
      BY DEF ListInv
    <3>5. ListFits'
      BY <3>1, <3>2, <3>3, <3>4 DEF ListFits, LoadFitsList
    <3>6. ASSUME NEW i \in Reloads, reloads'[i] # NoPageLoad
          PROVE  LoadFitsList(i)'
      <4>1. i # k /\ reloads'[i] = reloads[i] /\ LoadFitsList(i)
        BY <3>2, <3>6 DEF ListInv
      <4>2. ~l.alone /\ ~reloads[i].alone /\ loadsCrossed
        BY <1>0, <3>1, <3>4, <3>6, <4>1 DEF LoadFitsList
      <4> QED BY <3>2, <4>1, <4>2 DEF LoadFitsList
    <3> QED BY <3>5, <3>6 DEF ListInv, LoadFitsList
  <2>4. CASE PagesFail(k)
    <3>1. /\ reloads[k] # NoPageLoad /\ listFailed' = TRUE
          /\ reloads'[k] = NoPageLoad /\ \A j \in Reloads : j # k => reloads'[j] = reloads[j]
          /\ UNCHANGED <<loadsCrossed, intakeSecret, rotating>>
      BY <1>0, <2>4 DEF PagesFail, storeVars
    <3>2. \A p \in Pages : Written(p)' <=> Written(p)
      BY <3>1 DEF Written
    <3>3. ASSUME NEW i \in Reloads, reloads'[i] # NoPageLoad
          PROVE  LoadFitsList(i)'
      <4>1. i # k /\ reloads'[i] = reloads[i] /\ LoadFitsList(i)
        BY <3>1, <3>3 DEF ListInv
      <4>2. ~reloads[i].alone /\ loadsCrossed
        BY <1>0, <3>1, <3>3, <4>1 DEF LoadFitsList
      <4> QED BY <3>1, <4>1, <4>2 DEF LoadFitsList
    <3> QED BY <3>1, <3>3 DEF ListInv, LoadFitsList, ListFits, TableThere
  <2> QED BY <1>2, <2>1, <2>2, <2>3, <2>4 DEF ListOfPages
<1>3. ASSUME NEW i \in Details, Look(i)
      PROVE  ListInv'
  <2>1. UNCHANGED <<reloads, listed, listLoading, listFailed, loadsCrossed, others, intakeSecret>>
    BY <1>3 DEF Look, OpenPageDrawer, OpenLeadDrawer, RefreshMetrics, ShowDetail, DetailFails, storeVars, listVars
  <2>2. rotating' = rotating \/ rotating' = RotationMadeStale
    BY <1>3 DEF Look, OpenPageDrawer, OpenLeadDrawer, RefreshMetrics, ShowDetail, DetailFails
  <2>3. ASSUME NEW p \in Pages
        PROVE  Written(p)' <=> Written(p)
    <3>1. CASE rotating = NoRotation
      BY <2>2, <3>1 DEF RotationMadeStale, Written
    <3>2. CASE rotating # NoRotation
      <4>1. PICK r \in Rotation : r = [rotating EXCEPT !.old = TRUE]
        BY <1>0, <3>2 DEF Rotation
      <4>2. r.step = rotating.step /\ r.page = rotating.page /\ r # NoRotation
        BY <1>0, <3>2, <4>1, RotationFields DEF Rotation
      <4> QED BY <2>2, <3>2, <4>1, <4>2 DEF RotationMadeStale, Written
    <3> QED BY <3>1, <3>2
  <2> QED BY <1>1, <2>1, <2>3
<1>4. CASE CloseDrawer \/ UNCHANGED drawerVars
  BY <1>1, <1>4 DEF CloseDrawer, drawerVars, Written, storeVars, listVars
<1>5. CASE Rotate
  <2>1. /\ rotating = NoRotation
        /\ rotating' = [page |-> drawer.page, step |-> "sent", turn |-> 0, old |-> FALSE]
        /\ UNCHANGED <<reloads, listed, listLoading, listFailed, loadsCrossed, others, intakeSecret>>
    BY <1>5 DEF Rotate, storeVars, listVars
  <2>2. rotating'.step = "sent"
    BY <2>1
  <2> QED BY <1>1, <2>1, <2>2 DEF Written
<1>6. CASE RotateSecret
  <2>1. PICK r \in Rotation : r = rotating /\ r # NoRotation /\ r.step = "sent" /\ r.page \in Pages
    BY <1>0, <1>6, RotationFields DEF RotateSecret
  <2>2. /\ intakeSecret' = [intakeSecret EXCEPT ![r.page] = turns']
        /\ rotating' = [r EXCEPT !.step = "written", !.turn = turns']
        /\ UNCHANGED <<reloads, listed, listLoading, listFailed, loadsCrossed, others>>
    BY <1>6, <2>1 DEF RotateSecret, listVars
  <2>3. rotating'.step = "written" /\ rotating'.page = r.page /\ rotating' # NoRotation
    BY <2>2 DEF Rotation, NoRotation
  <2>4. \A p \in Pages : ~Written(p) /\ (Written(p)' <=> p = r.page)
    BY <2>1, <2>3 DEF Written
  <2>5. \A p \in Pages : p # r.page => intakeSecret'[p] = intakeSecret[p]
    BY <1>0, <2>2 DEF Secrets
  <2> QED BY <2>2, <2>4, <2>5 DEF ListInv, ListFits, LoadFitsList, TableThere
<1>7. ASSUME NEW p \in Pages, Unseen(p), UNCHANGED <<listed, listLoading, listFailed, loadsCrossed>>,
             \A q \in Pages \ {p} : intakeSecret'[q] = intakeSecret[q] /\ (Written(q) => Written(q)')
      PROVE  ListInv'
  <2>1. ListFits'
    BY <1>7 DEF Unseen, ListInv, ListFits, TableThere
  <2>2. ASSUME NEW k \in Reloads
        PROVE  /\ reloads'[k] = NoPageLoad <=> reloads[k] = NoPageLoad
               /\ reloads[k] # NoPageLoad =>
                     /\ reloads'[k].step = reloads[k].step
                     /\ reloads'[k].rows = reloads[k].rows /\ reloads'[k].alone = reloads[k].alone
                     /\ reloads[k].step = "read" => reloads'[k].missed = reloads[k].missed \cup {p}
    <3>1. reloads'[k] = IF reloads[k].step = "read" THEN [reloads[k] EXCEPT !.missed = @ \cup {p}] ELSE reloads[k]
      BY <1>7 DEF Unseen
    <3> QED BY <1>0, <3>1, MissedLoad
  <2>3. ASSUME NEW k \in Reloads
        PROVE  LoadFitsList(k)'
    <3>1. LoadFitsList(k)
      BY DEF ListInv
    <3> QED BY <1>7, <2>2, <3>1 DEF LoadFitsList
  <2> QED BY <2>1, <2>3 DEF ListInv
<1>8. CASE RotateFails
  <2>1. PICK r \in Rotation : r = rotating /\ r # NoRotation /\ r.page \in Pages
    BY <1>0, <1>8, RotationFields DEF RotateFails
  <2>2. rotating' = NoRotation /\ UNCHANGED <<intakeSecret, listed, listLoading, listFailed, loadsCrossed>>
    BY <1>8 DEF RotateFails
  <2>3. CASE r.step = "written"
    <3>1. Unseen(r.page) /\ \A q \in Pages \ {r.page} : ~Written(q)
      BY <1>8, <2>1, <2>3 DEF RotateFails, Written
    <3> QED BY <1>7, <2>1, <2>2, <3>1
  <2>4. CASE r.step # "written"
    <3>1. UNCHANGED <<others, reloads>> /\ \A q \in Pages : ~Written(q) /\ ~Written(q)'
      BY <1>8, <2>1, <2>2, <2>4 DEF RotateFails, Written
    <3> QED BY <1>1, <2>2, <3>1
  <2> QED BY <2>3, <2>4
<1>9. ASSUME NEW p \in Pages, OtherRotates(p)
      PROVE  ListInv'
  <2>1. /\ Unseen(p) /\ UNCHANGED <<listed, listLoading, listFailed, loadsCrossed, rotating>>
        /\ \A q \in Pages \ {p} : intakeSecret'[q] = intakeSecret[q]
    BY <1>0, <1>9 DEF OtherRotates, Secrets
  <2>2. \A q \in Pages : Written(q)' <=> Written(q)
    BY <2>1 DEF Written
  <2> QED BY <1>7, <2>1, <2>2
<1> QED BY <1>2, <1>3, <1>4, <1>5, <1>6, <1>8, <1>9 DEF DrawerNext
\* The calls that were made since the drawer was opened are about its page.
DetailsFit ==
    IsOpen => \A i \in Details : (detail[i] # NoDetail /\ ~detail[i].old) => detail[i].page = drawer.page

RotationFits ==
    (IsOpen /\ beside = "pages" /\ rotating # NoRotation /\ ~rotating.old) =>
        /\ rotating.page = drawer.page
        /\ (rotating.step = "written" /\ ~outdatedRow) => rotating.turn = intakeSecret[drawer.page]

RecordFits == (IsOpen /\ ~stray) => record \in {"none", drawer.page}

SecretFits ==
    (IsOpen /\ ~stray /\ beside = "pages") =>
        /\ CurrentSecret.page = drawer.page
        /\ (~outdatedRow /\ ~Written(drawer.page)) => CurrentSecret.turn = intakeSecret[drawer.page]

DrawerInv == DrawerTypes /\ ListInv /\ DetailsFit /\ RecordFits /\ RotationFits /\ SecretFits

\* The record that a drawer shows.
LEMMA RecordStaysFit ==
    ASSUME DrawerTypes, DetailsFit, RecordFits, [DrawerNext]_drawerVars
    PROVE  DetailsFit' /\ RecordFits'
<1>0. detail \in [Details -> Detail \cup {NoDetail}] /\ MaxTurns \in Nat
      /\ drawer \in Secret \cup {Closed} /\ stray \in BOOLEAN
  BY DrawerAssumption DEF DrawerTypes
<1>1. ASSUME UNCHANGED <<detail, drawer, record>>, stray => stray'
      PROVE  DetailsFit' /\ RecordFits'
  BY <1>1 DEF DetailsFit, RecordFits, IsOpen
<1>2. ASSUME NEW k \in Reloads, ListOfPages(k)
      PROVE  DetailsFit' /\ RecordFits'
  BY <1>1, <1>2 DEF ListOfPages, Refetch, ReadPages, ShowPages, PagesFail, Rotated
<1>3. CASE Rotate \/ RotateSecret \/ RotateFails \/ (\E p \in Pages : OtherRotates(p)) \/ UNCHANGED drawerVars
  BY <1>1, <1>3 DEF Rotate, RotateSecret, RotateFails, OtherRotates, drawerVars
<1>4. CASE CloseDrawer
  BY <1>4 DEF CloseDrawer, DetailsFit, RecordFits, IsOpen
<1>5. ASSUME NEW i \in Details, Look(i)
      PROVE  DetailsFit' /\ RecordFits'
  <2>1. ASSUME NEW p \in Pages, AskDetail(i, p), drawer'.page = p
        PROVE  DetailsFit' /\ RecordFits'
    <3>1. detail' = [MadeStale(detail) EXCEPT ![i] = [page |-> p, old |-> FALSE]] /\ record' = "none"
      BY <2>1 DEF AskDetail
    <3>2. ASSUME NEW j \in Details, detail'[j] # NoDetail, ~detail'[j].old
          PROVE  detail'[j].page = p
      <4>1. CASE j = i
        <5>1. detail'[i] = [page |-> p, old |-> FALSE]
          BY <3>1 DEF MadeStale
        <5> QED BY <4>1, <5>1
      <4>2. CASE j # i
        <5>1. detail'[j] = MadeStale(detail)[j]
          BY <3>1, <4>2 DEF MadeStale
        <5>2. detail[j] # NoDetail
          BY <3>2, <5>1 DEF MadeStale
        <5>3. detail[j] \in Detail /\ detail'[j] = [detail[j] EXCEPT !.old = TRUE]
          BY <1>0, <5>1, <5>2 DEF MadeStale
        <5>4. detail'[j].old
          BY <5>3 DEF Detail
        <5> QED BY <3>2, <5>4
      <4> QED BY <4>1, <4>2
    <3> QED BY <2>1, <3>1, <3>2 DEF DetailsFit, RecordFits
  <2>2. ASSUME NEW p \in Pages, OpenPageDrawer(i, p) \/ OpenLeadDrawer(i, p)
        PROVE  DetailsFit' /\ RecordFits'
    <3>1. AskDetail(i, p) /\ drawer'.page = p
      BY <2>2 DEF OpenPageDrawer, OpenLeadDrawer
    <3> QED BY <2>1, <3>1
  <2>3. CASE RefreshMetrics(i)
    <3>1. /\ record' = "none" /\ detail' = [detail EXCEPT ![i] = [page |-> drawer.page, old |-> FALSE]]
          /\ UNCHANGED <<drawer, stray>>
      BY <2>3 DEF RefreshMetrics
    <3>2. detail'[i] = [page |-> drawer.page, old |-> FALSE]
          /\ \A j \in Details : j # i => detail'[j] = detail[j]
      BY <1>0, <3>1
    <3>3. detail'[i].page = drawer.page
      BY <3>2
    <3>4. DetailsFit'
      BY <3>1, <3>2, <3>3 DEF DetailsFit, IsOpen
    <3> QED BY <3>1, <3>4 DEF RecordFits
  <2>4. CASE ShowDetail(i)
    <3>1. PICK d \in Detail : d = detail[i] /\ d # NoDetail /\ d.old \in BOOLEAN
      BY <1>0, <2>4 DEF ShowDetail, Detail
    <3>2. /\ record' = d.page /\ stray' = (stray \/ d.old) /\ UNCHANGED drawer
          /\ \A j \in Details : detail'[j] = NoDetail \/ detail'[j] = detail[j]
      BY <1>0, <2>4, <3>1 DEF ShowDetail
    <3> QED BY <3>1, <3>2 DEF DetailsFit, RecordFits, IsOpen
  <2>5. CASE DetailFails(i)
    <3>1. /\ UNCHANGED <<record, stray, drawer>>
          /\ \A j \in Details : detail'[j] = NoDetail \/ detail'[j] = detail[j]
      BY <1>0, <2>5 DEF DetailFails
    <3> QED BY <3>1 DEF DetailsFit, RecordFits, IsOpen
  <2> QED BY <1>5, <2>2, <2>3, <2>4, <2>5 DEF Look
<1> QED BY <1>2, <1>3, <1>4, <1>5 DEF DrawerNext

\* The secret that a drawer shows.
LEMMA SecretStaysFit ==
    ASSUME DrawerTypes, ListInv, RotationFits, SecretFits, [DrawerNext]_drawerVars
    PROVE  RotationFits' /\ SecretFits'
<1>0. /\ rotating \in Rotation \cup {NoRotation} /\ MaxTurns \in Nat
      /\ drawer \in Secret \cup {Closed} /\ rotated \in Secret \cup {NoSecret}
      /\ stray \in BOOLEAN /\ outdatedRow \in BOOLEAN /\ intakeSecret \in Secrets
  BY DrawerAssumption DEF DrawerTypes
<1>s. \A s \in Secret : s.page \in Pages /\ s # NoSecret
  <2>1. ASSUME NEW s \in Secret
        PROVE  s.page \in Pages /\ s # NoSecret
    <3>1. s.page \in Pages
      BY DEF Secret
    <3>2. NoSecret.page = "none"
      BY DEF NoSecret
    <3> QED BY <3>1, <3>2, DrawerAssumption
  <2> QED BY <2>1
<1>o. IsOpen => drawer \in Secret /\ drawer.page \in Pages
  BY <1>0, <1>s DEF IsOpen
<1>1. ASSUME UNCHANGED <<beside, intakeSecret, drawer, rotated, rotating, outdatedRow, stray>>
      PROVE  RotationFits' /\ SecretFits'
  BY <1>1 DEF RotationFits, SecretFits, CurrentSecret, IsOpen, Written
<1>2. ASSUME NEW k \in Reloads, ListOfPages(k)
      PROVE  RotationFits' /\ SecretFits'
  <2>1. CASE Refetch(k) \/ ReadPages(k) \/ ShowPages(k) \/ PagesFail(k)
    BY <1>1, <2>1 DEF Refetch, ReadPages, ShowPages, PagesFail, storeVars
  <2>2. CASE Rotated(k)
    <3>1. PICK r \in Rotation : r = rotating /\ r # NoRotation /\ r.step = "written"
      BY <1>0, <2>2 DEF Rotated
    <3>2. r.page \in Pages /\ r.turn \in 0..MaxTurns /\ r.old \in BOOLEAN
      BY <1>0, RotationFields
    <3>3. /\ rotated' = [page |-> r.page, turn |-> r.turn] /\ stray' = (stray \/ r.old)
          /\ rotating' = NoRotation
          /\ UNCHANGED <<beside, intakeSecret, drawer, outdatedRow>>
      BY <2>2, <3>1 DEF Rotated, storeVars
    <3>4. rotated' \in Secret /\ rotated'.page = r.page /\ rotated'.turn = r.turn
      BY <3>2, <3>3 DEF Secret
    <3>5. CurrentSecret' = rotated'
      BY <1>s, <3>4 DEF CurrentSecret, NoSecret
    <3> QED BY <3>1, <3>2, <3>3, <3>4, <3>5 DEF RotationFits, SecretFits, IsOpen
  <2> QED BY <1>2, <2>1, <2>2 DEF ListOfPages
<1>3. ASSUME NEW i \in Details, Look(i)
      PROVE  RotationFits' /\ SecretFits'
  <2>1. ASSUME NEW p \in Pages, OpenPageDrawer(i, p)
        PROVE  RotationFits' /\ SecretFits'
    <3>1. /\ drawer' = [page |-> p, turn |-> listed[p]] /\ rotated' = NoSecret
          /\ rotating' = RotationMadeStale
          /\ outdatedRow' = (loadsCrossed \/ p \in others) /\ TableThere
          /\ UNCHANGED <<beside, intakeSecret, listed>>
      BY <2>1 DEF OpenPageDrawer, ForgetsRotated, storeVars, listVars
    <3>2. drawer'.page = p /\ drawer'.turn = listed[p]
      BY <3>1
    <3>3. CurrentSecret' = drawer'
      BY <3>1 DEF CurrentSecret
    <3>4. /\ rotating = NoRotation => rotating' = NoRotation
          /\ rotating # NoRotation =>
                /\ rotating' # NoRotation /\ rotating'.old
                /\ rotating'.step = rotating.step /\ rotating'.page = rotating.page
      <4>1. ASSUME rotating # NoRotation
            PROVE  /\ rotating' # NoRotation /\ rotating'.old
                   /\ rotating'.step = rotating.step /\ rotating'.page = rotating.page
        <5>1. PICK r \in Rotation : r = [rotating EXCEPT !.old = TRUE]
          BY <1>0, <4>1 DEF Rotation
        <5>2. r.step = rotating.step /\ r.page = rotating.page /\ r.old /\ r # NoRotation
          BY <1>0, <4>1, <5>1, RotationFields DEF Rotation
        <5> QED BY <3>1, <4>1, <5>1, <5>2 DEF RotationMadeStale
      <4>2. rotating = NoRotation => rotating' = NoRotation
        BY <3>1 DEF RotationMadeStale
      <4> QED BY <4>1, <4>2
    <3>5. RotationFits'
      BY <3>4 DEF RotationFits
    <3>6. Written(p)' <=> Written(p)
      BY <3>4 DEF Written
    <3>7. ASSUME ~outdatedRow', ~Written(p)
          PROVE  listed[p] = intakeSecret[p]
      <4>1. ~loadsCrossed /\ p \notin others
        BY <3>1, <3>7
      <4> QED BY <3>1, <3>7, <4>1 DEF ListInv, ListFits
    <3>8. SecretFits'
      <4> SUFFICES ASSUME ~outdatedRow', ~Written(drawer.page)'
                   PROVE  drawer'.turn = intakeSecret'[drawer'.page]
        BY <3>3 DEF SecretFits
      <4>1. ~Written(p)'
        BY <3>2 DEF Written
      <4> QED BY <3>1, <3>2, <3>6, <3>7, <4>1
    <3> QED BY <3>5, <3>8
  <2>2. ASSUME NEW p \in Pages, OpenLeadDrawer(i, p)
        PROVE  RotationFits' /\ SecretFits'
    BY <2>2 DEF OpenLeadDrawer, RotationFits, SecretFits
  <2>3. CASE RefreshMetrics(i) \/ DetailFails(i)
    BY <1>1, <2>3 DEF RefreshMetrics, DetailFails, storeVars
  <2>4. CASE ShowDetail(i)
    <3>1. UNCHANGED <<beside, intakeSecret, drawer, rotated, rotating, outdatedRow>> /\ (stray => stray')
      BY <2>4 DEF ShowDetail, storeVars
    <3> QED BY <3>1 DEF RotationFits, SecretFits, CurrentSecret, IsOpen, Written
  <2> QED BY <1>3, <2>1, <2>2, <2>3, <2>4 DEF Look
<1>4. CASE CloseDrawer
  BY <1>4 DEF CloseDrawer, RotationFits, SecretFits, IsOpen
<1>5. CASE Rotate
  <2>1. /\ rotating = NoRotation
        /\ rotating' = [page |-> drawer.page, step |-> "sent", turn |-> 0, old |-> FALSE]
        /\ UNCHANGED <<beside, intakeSecret, drawer, rotated, outdatedRow, stray>>
    BY <1>5 DEF Rotate, storeVars
  <2>2. rotating'.step = "sent" /\ rotating'.page = drawer.page
    BY <2>1
  <2> QED BY <2>1, <2>2 DEF RotationFits, SecretFits, CurrentSecret, IsOpen, Written
<1>6. CASE RotateSecret
  <2>1. PICK r \in Rotation : r = rotating /\ r # NoRotation /\ r.step = "sent" /\ r.page \in Pages
    BY <1>0, <1>6, RotationFields DEF RotateSecret
  <2>2. /\ intakeSecret' = [intakeSecret EXCEPT ![r.page] = turns']
        /\ rotating' = [r EXCEPT !.step = "written", !.turn = turns']
        /\ UNCHANGED <<beside, drawer, rotated, outdatedRow, stray>>
    BY <1>6, <2>1 DEF RotateSecret
  <2>3. /\ rotating'.step = "written" /\ rotating'.page = r.page /\ rotating'.old = r.old
        /\ rotating'.turn = turns' /\ rotating' # NoRotation
    BY <2>2 DEF Rotation, NoRotation
  <2>4. \A p \in Pages : intakeSecret'[p] = IF p = r.page THEN turns' ELSE intakeSecret[p]
    BY <1>0, <2>2 DEF Secrets
  <2>5. RotationFits'
    BY <1>o, <2>1, <2>2, <2>3, <2>4 DEF RotationFits, IsOpen
  <2>6. ~Written(drawer.page)' => drawer.page # r.page /\ ~Written(drawer.page)
    BY <2>1, <2>2, <2>3 DEF Written
  <2>7. SecretFits'
    BY <1>o, <2>2, <2>4, <2>6 DEF SecretFits, CurrentSecret, IsOpen
  <2> QED BY <2>5, <2>7
<1>7. CASE RotateFails
  <2>1. PICK r \in Rotation : r = rotating /\ r # NoRotation
    BY <1>0, <1>7 DEF RotateFails
  <2>2. /\ rotating' = NoRotation /\ UNCHANGED <<beside, intakeSecret, drawer, rotated, stray>>
        /\ IF r.step = "written" THEN outdatedRow' = (outdatedRow \/ drawer.page = r.page)
           ELSE outdatedRow' = outdatedRow
    BY <1>7, <2>1 DEF RotateFails, Unseen
  <2>3. ~outdatedRow' => ~outdatedRow /\ ~Written(drawer.page)
    BY <1>0, <2>1, <2>2 DEF Written
  <2> QED BY <2>2, <2>3 DEF RotationFits, SecretFits, CurrentSecret, IsOpen
<1>8. ASSUME NEW p \in Pages, OtherRotates(p)
      PROVE  RotationFits' /\ SecretFits'
  <2>1. /\ UNCHANGED <<beside, drawer, rotated, rotating, stray>>
        /\ outdatedRow' = (outdatedRow \/ drawer.page = p)
        /\ \A q \in Pages : q # p => intakeSecret'[q] = intakeSecret[q]
    BY <1>0, <1>8 DEF OtherRotates, Unseen, Secrets
  <2>2. Written(drawer.page)' <=> Written(drawer.page)
    BY <2>1 DEF Written
  <2> QED BY <1>o, <2>1, <2>2 DEF RotationFits, SecretFits, CurrentSecret, IsOpen
<1>9. CASE UNCHANGED drawerVars
  BY <1>1, <1>9 DEF drawerVars
<1> QED BY <1>2, <1>3, <1>4, <1>5, <1>6, <1>7, <1>8, <1>9 DEF DrawerNext

LEMMA DrawerInvHolds == DrawerSpec => []DrawerInv
<1>1. DrawerInit => DrawerInv
  <2> SUFFICES ASSUME DrawerInit
               PROVE  DrawerInv
    OBVIOUS
  <2>1. intakeSecret \in Secrets /\ turns \in 0..MaxTurns
    BY DrawerAssumption DEF DrawerInit, Secrets
  <2>2. DrawerTypes
    BY <2>1 DEF DrawerInit, DrawerTypes
  <2> QED BY <2>2 DEF DrawerInit, DrawerInv, ListInv, ListFits, LoadFitsList, DetailsFit, RecordFits,
                      RotationFits, SecretFits, IsOpen
<1>2. DrawerInv /\ [DrawerNext]_drawerVars => DrawerInv'
  BY DrawerStaysTyped, ListStaysFit, RecordStaysFit, SecretStaysFit DEF DrawerInv
<1> QED BY <1>1, <1>2, PTL DEF DrawerSpec

\* An open drawer shows its own page, lead and secret, for any number of pages,
\* rotations and calls that overlap (the effects of LandingPageDetailSheet and
\* LeadDetailSheet, rotateSecret).
THEOREM DrawerShowsItsPage == DrawerSpec => [](DrawerTypes /\ DrawerFitsThePage)
<1>1. DrawerInv => DrawerTypes /\ DrawerFitsThePage
  BY DEF DrawerInv, RecordFits, SecretFits, DrawerFitsThePage, Outdated, Written
<1> QED BY <1>1, DrawerInvHolds, PTL
-----------------------------------------------------------------------------
(* The screens on which orders are decided. *)

\* The fields of the calls and of the dialogs of the screen.
LEMMA ActionFields ==
    ASSUME NEW r \in Action \cup {NoAction}, r # NoAction
    PROVE  /\ r \in Action /\ r.order \in DeskOrders
           /\ r.op \in Prompts \cup {"upload", "accept", "approve", "place"}
           /\ r.via \in {"row", "dialog", "form"} /\ r.step \in {"sent", "served", "load", "read"}
           /\ r.mine \in BOOLEAN /\ r.seen \in Table /\ r.alone \in BOOLEAN
BY DEF Action

LEMMA ModalFields ==
    ASSUME NEW w \in Modal \cup {NoModal}, w # NoModal
    PROVE  /\ w \in Modal /\ w.order \in DeskOrders /\ w.asks \in Prompts \cup Dialogs
           /\ w.busy \in BOOLEAN /\ w.shaky \in BOOLEAN /\ w.writes \in Nat
BY DEF Modal

Calls == [Actions -> Action \cup {NoAction}]

LEMMA NoActionIsNone ==
    \A r \in Action : r # NoAction
<1> SUFFICES ASSUME NEW r \in Action, r = NoAction
             PROVE  FALSE
  OBVIOUS
<1>1. r.op \in Prompts \cup {"upload", "accept", "approve", "place"}
  BY DEF Action
<1>2. r.op = "none"
  BY DEF NoAction
<1> QED BY <1>1, <1>2 DEF Prompts

LEMMA NoModalIsNone ==
    \A w \in Modal : w # NoModal
<1> SUFFICES ASSUME NEW w \in Modal, w = NoModal
             PROVE  FALSE
  OBVIOUS
<1>1. w.asks \in Prompts \cup Dialogs
  BY DEF Modal
<1>2. w.asks = "none"
  BY DEF NoModal
<1> QED BY <1>1, <1>2 DEF Prompts, Dialogs

\* A prompt or a dialog that asks something is open.
LEMMA AskingIsOpen ==
    ASSUME OrderDeskTypes, modal.asks \in Prompts \cup Dialogs
    PROVE  modal # NoModal
BY DEF NoModal, Prompts, Dialogs

\* What Send does to the calls.
LEMMA SendEffect ==
    ASSUME OrderDeskTypes, NEW k \in Actions, NEW o \in DeskOrders,
           NEW op \in Prompts \cup {"upload", "accept", "approve", "place"},
           NEW via \in {"row", "dialog", "form"}, Send(k, o, op, via)
    PROVE  /\ action' \in Calls /\ actions' \in 0..MaxActions
           /\ action[k] = NoAction /\ action'[k] # NoAction
           /\ action'[k].order = o /\ action'[k].via = via /\ action'[k].step = "sent"
           /\ action'[k].mine
           /\ \A j \in Actions \ {k} : action'[j] = action[j]
<1>1. PICK r \in Action : r = [order |-> o, op |-> op, via |-> via, step |-> "sent",
                                 mine |-> TRUE, seen |-> rows, alone |-> TRUE]
  BY DEF OrderDeskTypes, Action
<1>2. action' = [action EXCEPT ![k] = r] /\ action[k] = NoAction
  BY <1>1 DEF Send
<1>3. r.order = o /\ r.via = via /\ r.step = "sent" /\ r.mine /\ r # NoAction
  BY <1>1, NoActionIsNone
<1>4. actions' \in 0..MaxActions
  BY OrderDeskAssumption DEF Send, OrderDeskTypes
<1> QED BY <1>2, <1>3, <1>4 DEF OrderDeskTypes, Calls

\* Closing a dialog takes away nothing but the mark that a call is its own.
LEMMA OrphansEffect ==
    ASSUME NEW calls \in Calls
    PROVE  /\ Orphaned(calls) \in Calls
           /\ \A j \in Actions :
                 /\ Orphaned(calls)[j] = NoAction <=> calls[j] = NoAction
                 /\ calls[j] # NoAction =>
                       /\ ~Orphaned(calls)[j].mine
                       /\ Orphaned(calls)[j].order = calls[j].order
                       /\ Orphaned(calls)[j].via = calls[j].via
                       /\ Orphaned(calls)[j].step = calls[j].step
                       /\ Orphaned(calls)[j].seen = calls[j].seen
                       /\ Orphaned(calls)[j].alone = calls[j].alone
<1>1. ASSUME NEW j \in Actions
      PROVE  /\ Orphaned(calls)[j] \in Action \cup {NoAction}
             /\ Orphaned(calls)[j] = NoAction <=> calls[j] = NoAction
             /\ calls[j] # NoAction =>
                   /\ ~Orphaned(calls)[j].mine
                   /\ Orphaned(calls)[j].order = calls[j].order
                   /\ Orphaned(calls)[j].via = calls[j].via
                   /\ Orphaned(calls)[j].step = calls[j].step
                   /\ Orphaned(calls)[j].seen = calls[j].seen
                   /\ Orphaned(calls)[j].alone = calls[j].alone
  <2>1. CASE calls[j] = NoAction
    BY <2>1 DEF Orphaned
  <2>2. CASE calls[j] # NoAction
    <3>1. PICK r \in Action : r = calls[j]
      BY <2>2 DEF Calls
    <3>2. PICK q \in Action : q = [r EXCEPT !.mine = FALSE]
      BY DEF Action
    <3>3. Orphaned(calls)[j] = q
      BY <2>2, <3>1, <3>2 DEF Orphaned
    <3>4. /\ q.order = r.order /\ q.via = r.via /\ q.step = r.step
          /\ q.seen = r.seen /\ q.alone = r.alone /\ ~q.mine
      BY <3>2 DEF Action
    <3> QED BY <2>2, <3>1, <3>3, <3>4, NoActionIsNone
  <2> QED BY <2>1, <2>2
<1>2. Orphaned(calls) = [j \in Actions |-> Orphaned(calls)[j]]
  BY DEF Orphaned
<1> QED BY <1>1, <1>2 DEF Calls
\* A call whose step alone changes.
LEMMA StepEffect ==
    ASSUME OrderDeskTypes, NEW k \in Actions, action[k] # NoAction,
           NEW step \in {"sent", "served", "load", "read"}, NEW seen \in Table,
           action' = [action EXCEPT ![k].step = step, ![k].seen = seen]
    PROVE  /\ action' \in Calls /\ action'[k] # NoAction
           /\ action'[k].order = action[k].order /\ action'[k].via = action[k].via
           /\ action'[k].mine = action[k].mine /\ action'[k].alone = action[k].alone
           /\ action'[k].step = step /\ action'[k].seen = seen
           /\ \A j \in Actions \ {k} : action'[j] = action[j]
<1>1. PICK r \in Action : r = action[k]
  BY DEF OrderDeskTypes
<1>2. PICK q \in Action : q = [r EXCEPT !.step = step, !.seen = seen]
  BY DEF Action
<1>3. action' = [action EXCEPT ![k] = q]
  BY <1>1, <1>2 DEF OrderDeskTypes
<1>4. /\ q.order = r.order /\ q.via = r.via /\ q.mine = r.mine /\ q.alone = r.alone
      /\ q.step = step /\ q.seen = seen
  BY <1>2 DEF Action
<1> QED BY <1>1, <1>3, <1>4, NoActionIsNone DEF OrderDeskTypes, Calls

LEMMA ServedEffect ==
    ASSUME OrderDeskTypes, NEW k \in Actions, ServeAction(k)
    PROVE  /\ action' \in Calls /\ action'[k] # NoAction
           /\ action'[k].order = action[k].order /\ action'[k].via = action[k].via
           /\ action'[k].mine = action[k].mine /\ action[k].step = "sent" /\ action[k] # NoAction
           /\ action'[k].step = "served"
           /\ \A j \in Actions \ {k} : action'[j] = action[j]
<1>1. PICK r \in Action : r = action[k] /\ r # NoAction /\ r.step = "sent" /\ r.seen \in Table
  BY ActionFields DEF OrderDeskTypes, ServeAction
<1>2. PICK q \in Action : q = [r EXCEPT !.step = "served"]
  BY DEF Action
<1>3. action' = [action EXCEPT ![k] = q]
  BY <1>1, <1>2 DEF OrderDeskTypes, ServeAction
<1>4. q.order = r.order /\ q.via = r.via /\ q.mine = r.mine /\ q.step = "served"
  BY <1>2 DEF Action
<1> QED BY <1>1, <1>3, <1>4, NoActionIsNone DEF OrderDeskTypes, Calls

\* An answered call loads; the loads that are under way are no longer alone, and
\* the call of a dialog closes the dialogs of the others.
LEMMA AnswerEffect ==
    ASSUME OrderDeskTypes, NEW k \in Actions, AnswerAction(k)
    PROVE  /\ action' \in Calls /\ action[k] # NoAction /\ action[k].step = "served"
           /\ \A j \in Actions :
                 /\ action'[j] = NoAction <=> action[j] = NoAction
                 /\ action[j] # NoAction =>
                       /\ action'[j].order = action[j].order
                       /\ action'[j].via = action[j].via
                       /\ j # k => action'[j].step = action[j].step
                       /\ action'[j].mine => action[j].mine
                       /\ (action[k].via = "dialog" /\ j \notin Loading) => ~action'[j].mine
                       /\ (action[k].via # "dialog" /\ j \notin Loading /\ j # k) => action'[j].mine = action[j].mine
                       /\ j \in Loading => ~action'[j].alone
           /\ action'[k].step = "load"
           /\ action'[k].alone <=> Loading = {}
<1>1. PICK r \in Action : r = action[k] /\ r # NoAction /\ r.step = "served"
  BY DEF OrderDeskTypes, AnswerAction
<1>2. PICK calls \in Calls : calls = IF r.via = "dialog" THEN Orphaned(action) ELSE action
  BY OrphansEffect DEF OrderDeskTypes, Calls
<1>3. \A j \in Actions :
         /\ calls[j] = NoAction <=> action[j] = NoAction
         /\ action[j] # NoAction =>
               /\ calls[j].order = action[j].order /\ calls[j].via = action[j].via
               /\ calls[j].step = action[j].step
               /\ r.via = "dialog" => ~calls[j].mine
               /\ r.via # "dialog" => calls[j].mine = action[j].mine
  BY <1>2, OrphansEffect DEF OrderDeskTypes, Calls
<1>4. Reloading(k) = [calls EXCEPT ![k].step = "load", ![k].alone = (Loading = {})]
  BY <1>1, <1>2 DEF Reloading
<1>5. PICK c \in Action : c = calls[k]
  BY <1>1, <1>3 DEF Calls
<1>0. PICK free \in BOOLEAN : free = (Loading = {})
  OBVIOUS
<1>6. PICK q \in Action : q = [c EXCEPT !.step = "load", !.alone = free]
  BY DEF Action
<1>7. Reloading(k) = [calls EXCEPT ![k] = q]
  BY <1>0, <1>4, <1>5, <1>6 DEF Calls
<1>8. /\ q.order = c.order /\ q.via = c.via /\ q.mine = c.mine /\ q.step = "load"
      /\ q.alone <=> Loading = {}
  BY <1>0, <1>6 DEF Action
<1>9. k \notin Loading
  BY <1>1 DEF Loading
<1>10. action' = [i \in Actions |->
          IF i \in Loading THEN [action[i] EXCEPT !.alone = FALSE] ELSE Reloading(k)[i]]
  BY DEF AnswerAction, LoadsAgain
<1>11. action'[k] = q
  BY <1>7, <1>9, <1>10 DEF Calls
<1>12. \A j \in Actions \ {k} : j \notin Loading => action'[j] = calls[j]
  BY <1>7, <1>10 DEF Calls
<1>13. ASSUME NEW j \in Loading
       PROVE  /\ action'[j] \in Action
              /\ action'[j].order = action[j].order /\ action'[j].via = action[j].via
              /\ action'[j].step = action[j].step /\ action'[j].mine = action[j].mine
              /\ ~action'[j].alone /\ action[j] # NoAction
  <2>1. PICK a \in Action : a = action[j] /\ a # NoAction
    BY DEF Loading, OrderDeskTypes
  <2>2. PICK b \in Action : b = [a EXCEPT !.alone = FALSE]
    BY DEF Action
  <2>3. action'[j] = b
    BY <1>10, <2>1, <2>2 DEF Loading
  <2>4. b.order = a.order /\ b.via = a.via /\ b.step = a.step /\ b.mine = a.mine /\ ~b.alone
    BY <2>2 DEF Action
  <2> QED BY <2>1, <2>3, <2>4
<1>14. ASSUME NEW j \in Actions
       PROVE  action'[j] \in Action \cup {NoAction}
  BY <1>11, <1>12, <1>13 DEF Calls
<1>15. action' \in Calls
  BY <1>10, <1>14 DEF Calls
<1>16. ASSUME NEW j \in Actions
       PROVE  /\ action'[j] = NoAction <=> action[j] = NoAction
              /\ action[j] # NoAction =>
                    /\ action'[j].order = action[j].order
                    /\ action'[j].via = action[j].via
                    /\ j # k => action'[j].step = action[j].step
                    /\ action'[j].mine => action[j].mine
                    /\ (r.via = "dialog" /\ j \notin Loading) => ~action'[j].mine
                    /\ (r.via # "dialog" /\ j \notin Loading /\ j # k) => action'[j].mine = action[j].mine
                    /\ j \in Loading => ~action'[j].alone
  <2>1. CASE j = k
    BY <1>1, <1>3, <1>5, <1>8, <1>9, <1>11, <2>1, NoActionIsNone
  <2>2. CASE j \in Loading
    BY <1>9, <1>13, <2>2, NoActionIsNone
  <2>3. CASE j # k /\ j \notin Loading
    BY <1>3, <1>12, <2>3
  <2> QED BY <2>1, <2>2, <2>3
<1> QED BY <1>1, <1>8, <1>11, <1>15, <1>16

\* What a call leaves when it ends.
LEMMA EndEffect ==
    ASSUME OrderDeskTypes, NEW k \in Actions, action[k] # NoAction, EndAction(k)
    PROVE  /\ action' \in Calls /\ action'[k] = NoAction
           /\ \A j \in Actions \ {k} : action'[j] = action[j]
           /\ busyId' = (IF action[k].via = "row" THEN "none" ELSE busyId)
           /\ busyId' \in DeskOrders \cup {"none"} /\ loose' \subseteq DeskOrders
           /\ \A p \in loose : p = action[k].order \/ p \in loose'
           /\ \A j \in Actions \ {k} :
                 (action[j] # NoAction /\ action[j].order = action[k].order /\ action[k].order \in loose)
                    => action[k].order \in loose'
           /\ \A j \in Actions \ {k} :
                 (action[k].via = "row" /\ action[j] # NoAction /\ action[j].via = "row"
                     /\ action[j].order # action[k].order) => action[j].order \in loose'
<1>1. PICK r \in Action : r = action[k] /\ r.order \in DeskOrders
  BY ActionFields DEF OrderDeskTypes
<1>2. /\ action' = [action EXCEPT ![k] = NoAction]
      /\ busyId' = IF r.via = "row" THEN "none" ELSE busyId
  BY <1>1 DEF EndAction
<1>3. PICK freed \in SUBSET DeskOrders :
         /\ freed = {p \in DeskOrders \ {r.order} : \E i \in InFlight(p) : action[i].via = "row"}
         /\ loose' = (IF r.via = "row" THEN loose \cup freed ELSE loose)
                        \ (IF InFlight(r.order) = {k} THEN {r.order} ELSE {})
  BY <1>1 DEF EndAction
<1>4. \A j \in Actions \ {k} : (action[j] # NoAction /\ action[j].order = r.order) => InFlight(r.order) # {k}
  BY DEF InFlight
<1>5. \A j \in Actions : (action[j] # NoAction /\ action[j].via = "row" /\ action[j].order # r.order)
          => action[j].order \in freed
  <2> SUFFICES ASSUME NEW j \in Actions, action[j] # NoAction, action[j].via = "row",
                      action[j].order # r.order
               PROVE  action[j].order \in freed
    OBVIOUS
  <2>1. action[j].order \in DeskOrders
    BY ActionFields DEF OrderDeskTypes
  <2>2. j \in InFlight(action[j].order)
    BY DEF InFlight
  <2> QED BY <1>3, <2>1, <2>2
<1>6. action' \in Calls /\ action'[k] = NoAction /\ \A j \in Actions \ {k} : action'[j] = action[j]
  BY <1>2 DEF OrderDeskTypes, Calls
<1>7. loose' \subseteq DeskOrders
  BY <1>3 DEF OrderDeskTypes
<1> QED BY <1>1, <1>2, <1>3, <1>4, <1>5, <1>6, <1>7 DEF OrderDeskTypes
LEMMA OrderDeskStaysTyped ==
    ASSUME OrderDeskTypes, [OrderDeskNext]_orderDeskVars
    PROVE  OrderDeskTypes'
<1>0. OrderDeskTypes
  OBVIOUS
<1>1. ASSUME NEW k \in Actions, NEW o \in DeskOrders, Place(k, o) \/ Approve(k, o)
      PROVE  OrderDeskTypes'
  <2>1. CASE Place(k, o)
    BY <1>0, <2>1, SendEffect DEF Place, OrderDeskTypes, Calls
  <2>2. CASE Approve(k, o)
    <3>1. Send(k, o, "approve", "row")
      BY <2>2 DEF Approve
    <3>2. action' \in Calls /\ actions' \in 0..MaxActions
      BY <1>0, <3>1, SendEffect
    <3>3. busyId' \in DeskOrders \cup {"none"} /\ loose' \subseteq DeskOrders
      BY <1>0, <2>2 DEF Approve, TakeBusy, OrderDeskTypes
    <3> QED BY <1>0, <2>2, <3>2, <3>3 DEF Approve, OrderDeskTypes, Calls
  <2> QED BY <1>1, <2>1, <2>2
<1>2. ASSUME NEW k \in Actions, SubmitPrompt(k)
      PROVE  OrderDeskTypes'
  <2>1. modal # NoModal /\ modal.order \in DeskOrders
    BY <1>0, <1>2, AskingIsOpen, ModalFields DEF SubmitPrompt, OrderDeskTypes
  <2>2. action' \in Calls /\ actions' \in 0..MaxActions
    BY <1>0, <1>2, <2>1, SendEffect DEF SubmitPrompt
  <2>3. busyId' \in DeskOrders \cup {"none"} /\ loose' \subseteq DeskOrders
    BY <1>0, <1>2, <2>1 DEF SubmitPrompt, TakeBusy, OrderDeskTypes
  <2> QED BY <1>0, <1>2, <2>2, <2>3 DEF SubmitPrompt, OrderDeskTypes, Calls
<1>3. ASSUME NEW k \in Actions, SubmitDialog(k)
      PROVE  OrderDeskTypes'
  <2>1. PICK w \in Modal : w = modal /\ w.order \in DeskOrders
    BY <1>0, <1>3, AskingIsOpen, ModalFields DEF SubmitDialog, OrderDeskTypes
  <2>2. PICK op \in DialogOps : Send(k, w.order, op, "dialog")
    BY <1>3, <2>1 DEF SubmitDialog
  <2>3. op \in Prompts \cup {"upload", "accept", "approve", "place"}
    BY <2>2 DEF DialogOps, Prompts
  <2>4. action' \in Calls /\ actions' \in 0..MaxActions
    BY <1>0, <2>1, <2>2, <2>3, SendEffect
  <2>5. modal' \in Modal
    BY <1>3, <2>1 DEF SubmitDialog, Modal
  <2> QED BY <1>0, <1>3, <2>4, <2>5 DEF SubmitDialog, OrderDeskTypes, Calls
<1>4. ASSUME NEW k \in Actions, ServeAction(k)
      PROVE  OrderDeskTypes'
  <2>1. PICK o \in DeskOrders : o = action[k].order
    BY <1>0, <1>4, ActionFields DEF ServeAction, OrderDeskTypes
  <2>2. Becomes(action[k].op) \in OrderStatuses
    BY DEF Becomes, OrderStatuses, OpenStatuses
  <2>3. status' \in [DeskOrders -> OrderStatuses] /\ writes' \in [DeskOrders -> Nat]
    BY <1>0, <1>4, <2>1, <2>2 DEF ServeAction, OrderDeskTypes
  <2>4. action' \in Calls
    BY <1>0, <1>4, ServedEffect
  <2> QED BY <1>0, <1>4, <2>3, <2>4 DEF ServeAction, OrderDeskTypes, Calls
<1>5. ASSUME NEW k \in Actions, AnswerAction(k)
      PROVE  OrderDeskTypes'
  <2>1. PICK o \in DeskOrders : o = action[k].order
    BY <1>0, <1>5, ActionFields DEF AnswerAction, OrderDeskTypes
  <2>2. known' \in [DeskOrders -> Nat]
    BY <1>0, <1>5, <2>1 DEF AnswerAction, OrderDeskTypes
  <2>3. modal' \in Modal \cup {NoModal} /\ loose' \subseteq DeskOrders
    <3>1. CASE action[k].via = "dialog" /\ modal.asks \in Dialogs
      <4>1. modal.order \in DeskOrders
        BY <1>0, <3>1, AskingIsOpen, ModalFields DEF OrderDeskTypes
      <4> QED BY <1>0, <1>5, <3>1, <4>1 DEF AnswerAction, CloseDialog, OrderDeskTypes
    <3>2. CASE ~(action[k].via = "dialog" /\ modal.asks \in Dialogs)
      BY <1>0, <1>5, <3>2 DEF AnswerAction, CloseDialog, OrderDeskTypes
    <3> QED BY <3>1, <3>2
  <2>4. action' \in Calls
    BY <1>0, <1>5, AnswerEffect
  <2>5. overlapped' \in BOOLEAN /\ tableLoading' \in BOOLEAN /\ tableFailed' \in BOOLEAN
    BY <1>0, <1>5 DEF AnswerAction, LoadsAgain, OrderDeskTypes
  <2> QED BY <1>0, <1>5, <2>2, <2>3, <2>4, <2>5 DEF AnswerAction, OrderDeskTypes, Calls
<1>6. ASSUME NEW k \in Actions, ActionFails(k)
      PROVE  OrderDeskTypes'
  <2>1. action[k] # NoAction /\ EndAction(k)
    BY <1>6 DEF ActionFails
  <2>2. action' \in Calls /\ busyId' \in DeskOrders \cup {"none"} /\ loose' \subseteq DeskOrders
    BY <1>0, <2>1, EndEffect
  <2>3. modal' \in Modal \cup {NoModal}
    <3>1. CASE modal = NoModal
      <4>1. [modal EXCEPT !.busy = FALSE] = NoModal
        BY <3>1 DEF NoModal
      <4> QED BY <1>6, <3>1, <4>1 DEF ActionFails
    <3>2. CASE modal # NoModal
      <4>1. [modal EXCEPT !.busy = FALSE] \in Modal
        BY <1>0, <3>2 DEF OrderDeskTypes, Modal
      <4> QED BY <1>0, <1>6, <4>1 DEF ActionFails, OrderDeskTypes
    <3> QED BY <3>1, <3>2
  <2> QED BY <1>0, <1>6, <2>2, <2>3 DEF ActionFails, OrderDeskTypes, Calls
<1>7. ASSUME NEW k \in Actions, ListOrders(k)
      PROVE  OrderDeskTypes'
  <2>1. PICK seen \in Table : seen = [o \in DeskOrders |-> [status |-> status[o], writes |-> writes[o]]]
    BY <1>0 DEF OrderDeskTypes, Table, Row
  <2>2. action' = [action EXCEPT ![k].step = "read", ![k].seen = seen] /\ action[k] # NoAction
    BY <1>7, <2>1 DEF ListOrders
  <2>3. action' \in Calls
    BY <1>0, <2>2, StepEffect
  <2> QED BY <1>0, <1>7, <2>3 DEF ListOrders, OrderDeskTypes, Calls
<1>8. ASSUME NEW k \in Actions, ShowOrderRows(k) \/ OrderRowsFail(k)
      PROVE  OrderDeskTypes'
  <2>1. action[k] # NoAction /\ EndAction(k)
    BY <1>8 DEF ShowOrderRows, OrderRowsFail, Loading
  <2>2. action' \in Calls /\ busyId' \in DeskOrders \cup {"none"} /\ loose' \subseteq DeskOrders
    BY <1>0, <2>1, EndEffect
  <2>3. action[k].seen \in Table /\ action[k].alone \in BOOLEAN
    BY <1>0, <2>1, ActionFields DEF OrderDeskTypes
  <2> QED BY <1>0, <1>8, <2>2, <2>3 DEF ShowOrderRows, OrderRowsFail, OrderDeskTypes, Calls
<1>9. ASSUME NEW o \in DeskOrders, OtherMoves(o)
      PROVE  OrderDeskTypes'
  <2>1. \A op \in {"upload", "accept", "reject", "cancel", "deny"} : Becomes(op) \in OrderStatuses
    BY DEF Becomes, OrderStatuses, OpenStatuses
  <2>2. status' \in [DeskOrders -> OrderStatuses]
    BY <1>0, <1>9, <2>1 DEF OtherMoves, OrderDeskTypes
  <2>3. actions' \in 0..MaxActions
    BY <1>0, <1>9, OrderDeskAssumption DEF OtherMoves, OrderDeskTypes
  <2> QED BY <1>0, <1>9, <2>2, <2>3 DEF OtherMoves, OrderDeskTypes
<1>10. ASSUME NEW o \in DeskOrders, NEW asks \in Prompts \cup Dialogs, OpenModal(o, asks)
       PROVE  OrderDeskTypes'
  <2>1. rows[o].writes \in Nat
    BY <1>0 DEF OrderDeskTypes, Table, Row
  <2>2. PICK shaky \in BOOLEAN : shaky = (overlapped \/ o \in loose)
    OBVIOUS
  <2>3. modal' = [order |-> o, asks |-> asks, proof |-> "loading", busy |-> FALSE,
                  writes |-> rows[o].writes, shaky |-> shaky]
    BY <1>10, <2>2 DEF OpenModal
  <2>4. modal' \in Modal
    BY <2>1, <2>3 DEF Modal
  <2> QED BY <1>0, <1>10, <2>4 DEF OpenModal, OrderDeskTypes
<1>11. ASSUME NEW proof \in {"there", "failed"}, ProofLoaded(proof)
       PROVE  OrderDeskTypes'
  <2>1. modal # NoModal
    BY <1>0, <1>11, AskingIsOpen DEF ProofLoaded, Dialogs
  <2>2. modal' \in Modal
    BY <1>0, <1>11, <2>1 DEF ProofLoaded, Modal, OrderDeskTypes
  <2> QED BY <1>0, <1>11, <2>2 DEF ProofLoaded, OrderDeskTypes
<1>12. CASE CloseModal
  <2>1. modal.order \in DeskOrders
    BY <1>0, <1>12, ModalFields DEF CloseModal, OrderDeskTypes
  <2>2. action' \in Calls
    BY <1>0, <1>12, OrphansEffect DEF CloseModal, OrderDeskTypes, Calls
  <2> QED BY <1>0, <1>12, <2>1, <2>2 DEF CloseModal, OrderDeskTypes, Calls
<1>13. CASE UNCHANGED orderDeskVars
  BY <1>0, <1>13 DEF orderDeskVars, OrderDeskTypes
<1> QED BY <1>1, <1>2, <1>3, <1>4, <1>5, <1>6, <1>7, <1>8, <1>9, <1>10, <1>11, <1>12, <1>13
        DEF OrderDeskNext, DecideOrder, Settle
OnItsWay(k) == action[k] # NoAction /\ action[k].step \in {"sent", "served"}
FromRow(k) == action[k] # NoAction /\ action[k].via = "row"
OfTheDialog(k) == OnItsWay(k) /\ action[k].via = "dialog" /\ action[k].mine

\* A call that a row sent has the busy mark, or its order is known to have lost
\* it; a call that a dialog sent disables the dialog, until that is closed.
MarkFits(k) ==
    action[k] # NoAction =>
        /\ FromRow(k) =>
              /\ action[k].order \in loose \/ busyId = action[k].order
              /\ \A j \in Actions \ {k} : (FromRow(j) /\ action[j].order = action[k].order)
                                              => action[k].order \in loose
        /\ (OnItsWay(k) /\ action[k].via = "dialog") =>
              IF action[k].mine
              THEN modal # NoModal /\ modal.asks \in Dialogs /\ modal.order = action[k].order /\ modal.busy
              ELSE action[k].order \in loose
        /\ action[k].via = "form" => role = "CLIENT"

MarksFit ==
    /\ \A k \in Actions : MarkFits(k)
    /\ \A j, k \in Actions : (OfTheDialog(j) /\ OfTheDialog(k)) => j = k

\* Nothing but the dialog's own call is under way for the order of a dialog or prompt.
ModalFits ==
    modal # NoModal =>
        /\ role # "CLIENT"
        /\ \A k \in Actions : (FromRow(k) /\ action[k].order = modal.order) => modal.order \in loose
        /\ ~modal.shaky =>
              /\ modal.writes >= known[modal.order]
              /\ \A k \in Actions : (OnItsWay(k) /\ action[k].order = modal.order) => OfTheDialog(k)

\* A load that nothing crossed shows what is known by now.
LoadingFits(k) ==
    /\ action[k].alone => tableLoading /\ \A j \in Loading : j = k
    /\ ~overlapped => action[k].alone
    /\ (action[k].alone /\ action[k].step = "read")
          => \A o \in DeskOrders : action[k].seen[o].writes >= known[o]

TableFits ==
    /\ \A k \in Loading : LoadingFits(k)
    /\ \A o \in DeskOrders : known[o] <= writes[o]
    /\ (TableUp /\ ~overlapped) => \A o \in DeskOrders : rows[o].writes >= known[o]

OrderDeskInv == OrderDeskTypes /\ MarksFit /\ ModalFits /\ TableFits

\* A call is sent while no other call of a dialog is under way for it.
LEMMA MarksWhenSent ==
    ASSUME OrderDeskInv, NEW k \in Actions, DecideOrder(k)
    PROVE  MarksFit' /\ ModalFits'
<1>0. OrderDeskTypes /\ MarksFit /\ ModalFits
  BY DEF OrderDeskInv
<1>1. ASSUME NEW o \in DeskOrders, Place(k, o)
      PROVE  MarksFit' /\ ModalFits'
  <2>1. /\ role = "CLIENT" /\ Send(k, o, "place", "form")
        /\ UNCHANGED <<role, busyId, modal, known, loose>>
    BY <1>1 DEF Place
  <2>2. /\ action'[k] # NoAction /\ action'[k].via = "form"
        /\ \A j \in Actions \ {k} : action'[j] = action[j]
    BY <1>0, <2>1, SendEffect
  <2>3. modal = NoModal
    BY <1>0, <2>1 DEF ModalFits
  <2>4. ASSUME NEW j \in Actions
        PROVE  MarkFits(j)'
    BY <1>0, <2>1, <2>2, <2>4 DEF MarksFit, MarkFits, FromRow, OnItsWay
  <2>5. \A i, j \in Actions : (OfTheDialog(i) /\ OfTheDialog(j))' => i = j
    BY <1>0, <2>2 DEF MarksFit, OfTheDialog, OnItsWay
  <2> QED BY <2>1, <2>3, <2>4, <2>5 DEF MarksFit, ModalFits
<1>2. ASSUME NEW o \in DeskOrders, NEW op \in Prompts \cup {"approve"},
             Send(k, o, op, "row"), TakeBusy(o), modal' = NoModal, UNCHANGED <<role, known>>,
             \A j \in Actions : (FromRow(j) /\ action[j].order = o) => o \in loose,
             \A j \in Actions : ~OfTheDialog(j)
      PROVE  MarksFit' /\ ModalFits'
  <2>1. /\ action'[k] # NoAction /\ action'[k].via = "row" /\ action'[k].order = o /\ action[k] = NoAction
        /\ \A j \in Actions \ {k} : action'[j] = action[j]
    BY <1>0, <1>2, SendEffect
  <2>2. /\ busyId' = o /\ loose \subseteq loose'
        /\ \A p \in DeskOrders : (busyId = p /\ p # o) => p \in loose'
    BY <1>2 DEF TakeBusy
  <2>3. ASSUME NEW j \in Actions \ {k}
        PROVE  MarkFits(j)'
    <3>1. action'[j] = action[j] /\ (FromRow(j)' <=> FromRow(j)) /\ (OnItsWay(j)' <=> OnItsWay(j))
      BY <2>1 DEF FromRow, OnItsWay
    <3>2. action[j] # NoAction => action[j].order \in DeskOrders
      BY <1>0, ActionFields DEF OrderDeskTypes
    <3>3. FromRow(j) => action[j].order \in loose' \/ busyId' = action[j].order
      BY <1>0, <2>2, <3>2 DEF MarksFit, MarkFits, FromRow
    <3>4. ASSUME NEW i \in Actions \ {j}, FromRow(i)', action'[i].order = action'[j].order, FromRow(j)
          PROVE  action[j].order \in loose'
      <4>1. CASE i = k
        BY <1>2, <2>1, <2>2, <3>1, <3>4, <4>1
      <4>2. CASE i # k
        BY <1>0, <2>1, <2>2, <3>1, <3>4, <4>2 DEF MarksFit, MarkFits, FromRow
      <4> QED BY <4>1, <4>2
    <3>5. (OnItsWay(j) /\ action[j].via = "dialog") => ~action[j].mine /\ action[j].order \in loose'
      BY <1>0, <1>2, <2>2 DEF MarksFit, MarkFits, OfTheDialog, OnItsWay
    <3>6. (action[j] # NoAction /\ action[j].via = "form") => role = "CLIENT"
      BY <1>0 DEF MarksFit, MarkFits
    <3> QED BY <1>2, <3>1, <3>3, <3>4, <3>5, <3>6 DEF MarkFits
  <2>4. MarkFits(k)'
    BY <1>2, <2>1, <2>2 DEF MarkFits, FromRow, OnItsWay
  <2>5. \A j \in Actions : ~OfTheDialog(j)'
    <3> SUFFICES ASSUME NEW j \in Actions
                 PROVE  ~OfTheDialog(j)'
      OBVIOUS
    <3>1. CASE j = k
      BY <2>1, <3>1 DEF OfTheDialog
    <3>2. CASE j # k
      BY <1>2, <2>1, <3>2 DEF OfTheDialog, OnItsWay
    <3> QED BY <3>1, <3>2
  <2> QED BY <1>2, <2>3, <2>4, <2>5 DEF MarksFit, ModalFits
<1>3. ASSUME NEW o \in DeskOrders, Approve(k, o)
      PROVE  MarksFit' /\ ModalFits'
  <2>1. modal = NoModal /\ busyId # o
    BY <1>3 DEF Approve, Clickable
  <2>2. \A j \in Actions : (FromRow(j) /\ action[j].order = o) => o \in loose
    BY <1>0, <2>1 DEF MarksFit, MarkFits, FromRow
  <2>3. \A j \in Actions : ~OfTheDialog(j)
    BY <1>0, <2>1 DEF MarksFit, MarkFits, OfTheDialog, OnItsWay
  <2>4. Send(k, o, "approve", "row") /\ TakeBusy(o) /\ modal' = NoModal /\ UNCHANGED <<role, known>>
    BY <1>3, <2>1 DEF Approve
  <2> QED BY <1>2, <2>2, <2>3, <2>4
<1>4. CASE SubmitPrompt(k)
  <2>1. modal # NoModal /\ modal.order \in DeskOrders /\ modal.asks \in Prompts
    BY <1>0, <1>4, AskingIsOpen, ModalFields DEF SubmitPrompt, OrderDeskTypes
  <2>2. \A j \in Actions : (FromRow(j) /\ action[j].order = modal.order) => modal.order \in loose
    BY <1>0, <2>1 DEF ModalFits
  <2>3. modal.asks \notin Dialogs
    BY <2>1 DEF Prompts, Dialogs
  <2>4. \A j \in Actions : ~OfTheDialog(j)
    BY <1>0, <2>3 DEF MarksFit, MarkFits, OfTheDialog, OnItsWay
  <2>5. PICK o \in DeskOrders, op \in Prompts : o = modal.order /\ op = modal.asks
    BY <2>1
  <2>6. Send(k, o, op, "row") /\ TakeBusy(o) /\ modal' = NoModal /\ UNCHANGED <<role, known>>
    BY <1>4, <2>5 DEF SubmitPrompt
  <2>7. \A j \in Actions : (FromRow(j) /\ action[j].order = o) => o \in loose
    BY <2>2, <2>5
  <2> QED BY <1>2, <2>4, <2>6, <2>7
<1>5. CASE SubmitDialog(k)
  <2>1. PICK w \in Modal : w = modal /\ w # NoModal /\ w.order \in DeskOrders /\ w.asks \in Dialogs /\ ~w.busy
    BY <1>0, <1>5, AskingIsOpen, ModalFields DEF SubmitDialog, OrderDeskTypes
  <2>2. PICK op \in DialogOps : Send(k, w.order, op, "dialog")
    BY <1>5, <2>1 DEF SubmitDialog
  <2>3. op \in Prompts \cup {"upload", "accept", "approve", "place"}
    BY <2>2 DEF DialogOps, Prompts
  <2>4. /\ action'[k] # NoAction /\ action'[k].via = "dialog" /\ action'[k].order = w.order /\ action'[k].mine
        /\ action'[k].step = "sent"
        /\ \A j \in Actions \ {k} : action'[j] = action[j]
    BY <1>0, <2>1, <2>2, <2>3, SendEffect
  <2>5. PICK v \in Modal : v = [w EXCEPT !.busy = TRUE]
    BY DEF Modal
  <2>6. v.order = w.order /\ v.asks = w.asks /\ v.busy /\ v.shaky = w.shaky /\ v.writes = w.writes /\ v # NoModal
    BY <2>5, NoModalIsNone DEF Modal
  <2>7. modal' = v /\ UNCHANGED <<role, busyId, known, loose>>
    BY <1>5, <2>1, <2>5 DEF SubmitDialog
  <2>8. \A j \in Actions : ~OfTheDialog(j)
    BY <1>0, <2>1 DEF MarksFit, MarkFits, OfTheDialog, OnItsWay
  <2>9. ASSUME NEW j \in Actions
        PROVE  MarkFits(j)'
    <3>1. CASE j = k
      BY <2>1, <2>4, <2>6, <2>7, <3>1 DEF MarkFits, FromRow, OnItsWay
    <3>2. CASE j # k
      BY <1>0, <2>4, <2>7, <2>8, <3>2 DEF MarksFit, MarkFits, FromRow, OnItsWay, OfTheDialog
    <3> QED BY <3>1, <3>2
  <2>10. \A i, j \in Actions : (OfTheDialog(i) /\ OfTheDialog(j))' => i = j
    BY <2>4, <2>8 DEF OfTheDialog, OnItsWay
  <2>11. ModalFits'
    <3>1. /\ role # "CLIENT"
          /\ \A j \in Actions : (FromRow(j) /\ action[j].order = w.order) => w.order \in loose
          /\ ~w.shaky =>
                /\ w.writes >= known[w.order]
                /\ \A j \in Actions : (OnItsWay(j) /\ action[j].order = w.order) => OfTheDialog(j)
      BY <1>0, <2>1 DEF ModalFits
    <3>2. \A j \in Actions : (FromRow(j)' /\ action'[j].order = w.order) => w.order \in loose'
      BY <2>4, <2>7, <3>1 DEF FromRow
    <3>3. ~w.shaky => \A j \in Actions : (OnItsWay(j)' /\ action'[j].order = w.order) => OfTheDialog(j)'
      BY <2>4, <3>1 DEF OnItsWay, OfTheDialog
    <3> QED BY <2>6, <2>7, <3>1, <3>2, <3>3 DEF ModalFits
  <2> QED BY <2>9, <2>10, <2>11 DEF MarksFit
<1> QED BY <1>1, <1>3, <1>4, <1>5 DEF DecideOrder
LEMMA MarksWhenEnded ==
    ASSUME OrderDeskTypes, MarksFit, ModalFits, NEW k \in Actions, action[k] # NoAction, EndAction(k),
           UNCHANGED <<role, known>>,
           modal' = modal \/ (OfTheDialog(k) /\ modal' = [modal EXCEPT !.busy = FALSE])
    PROVE  MarksFit' /\ ModalFits'
<1>0. OrderDeskTypes /\ MarksFit /\ ModalFits
  OBVIOUS
<1>1. /\ action'[k] = NoAction
      /\ \A j \in Actions \ {k} : action'[j] = action[j]
      /\ busyId' = (IF action[k].via = "row" THEN "none" ELSE busyId)
      /\ \A p \in loose : p = action[k].order \/ p \in loose'
      /\ \A j \in Actions \ {k} :
            (action[j] # NoAction /\ action[j].order = action[k].order /\ action[k].order \in loose)
               => action[k].order \in loose'
      /\ \A j \in Actions \ {k} :
            (action[k].via = "row" /\ action[j] # NoAction /\ action[j].via = "row"
                /\ action[j].order # action[k].order) => action[j].order \in loose'
  BY <1>0, EndEffect
<1>2. \A j \in Actions \ {k} : (action[j] # NoAction /\ action[j].order \in loose) => action[j].order \in loose'
  BY <1>1
<1>3. \A j \in Actions : (FromRow(j)' => FromRow(j) /\ j # k) /\ (OnItsWay(j)' => OnItsWay(j) /\ j # k)
                              /\ (OfTheDialog(j)' => OfTheDialog(j) /\ j # k)
  BY <1>1 DEF FromRow, OnItsWay, OfTheDialog
<1>4. \A j \in Actions : OfTheDialog(j)' => modal' = modal
  BY <1>0, <1>3 DEF MarksFit
<1>5. ASSUME NEW j \in Actions \ {k}, action[j] # NoAction
      PROVE  MarkFits(j)'
  <2>1. action'[j] = action[j]
    BY <1>1
  <2>2. ASSUME FromRow(j)
        PROVE  action[j].order \in loose' \/ busyId' = action[j].order
    <3>1. CASE action[j].order \in loose
      BY <1>2, <1>5, <3>1
    <3>2. CASE action[j].order \notin loose /\ action[k].via = "row"
      <4>1. action[k].order # action[j].order
        BY <1>0, <1>5, <2>2, <3>2 DEF MarksFit, MarkFits, FromRow
      <4> QED BY <1>1, <1>5, <2>2, <3>2, <4>1 DEF FromRow
    <3>3. CASE action[j].order \notin loose /\ action[k].via # "row"
      BY <1>0, <1>1, <2>2, <3>3 DEF MarksFit, MarkFits, FromRow
    <3> QED BY <3>1, <3>2, <3>3
  <2>3. ASSUME FromRow(j), NEW i \in Actions \ {j}, FromRow(i)', action'[i].order = action[j].order
        PROVE  action[j].order \in loose'
    <3>1. i # k /\ FromRow(i) /\ action[i].order = action[j].order
      BY <1>1, <1>3, <2>3
    <3>2. action[j].order \in loose
      BY <1>0, <2>3, <3>1 DEF MarksFit, MarkFits, FromRow
    <3> QED BY <1>2, <1>5, <3>2
  <2>4. ASSUME OnItsWay(j), action[j].via = "dialog"
        PROVE  IF action[j].mine
               THEN modal' # NoModal /\ modal'.asks \in Dialogs /\ modal'.order = action[j].order /\ modal'.busy
               ELSE action[j].order \in loose'
    <3>1. CASE action[j].mine
      <4>1. modal' = modal
        BY <1>4, <2>1, <2>4, <3>1 DEF OfTheDialog, OnItsWay
      <4> QED BY <1>0, <2>4, <3>1, <4>1 DEF MarksFit, MarkFits, OnItsWay
    <3>2. CASE ~action[j].mine
      BY <1>0, <1>2, <1>5, <2>4, <3>2 DEF MarksFit, MarkFits, OnItsWay
    <3> QED BY <3>1, <3>2
  <2>5. action[j].via = "form" => role = "CLIENT"
    BY <1>0, <1>5 DEF MarksFit, MarkFits
  <2> QED BY <1>0, <1>3, <2>1, <2>2, <2>3, <2>4, <2>5 DEF MarkFits, FromRow, OnItsWay
<1>6. MarksFit'
  BY <1>0, <1>1, <1>3, <1>5 DEF MarksFit, MarkFits
<1>7. ModalFits'
  <2> SUFFICES ASSUME modal' # NoModal
               PROVE  ModalFits'
    BY DEF ModalFits
  <2>1. /\ modal # NoModal /\ modal'.order = modal.order /\ modal'.shaky = modal.shaky
        /\ modal'.writes = modal.writes
    <3>1. CASE modal' = modal
      BY <3>1
    <3>2. CASE OfTheDialog(k) /\ modal' = [modal EXCEPT !.busy = FALSE]
      <4>1. modal # NoModal
        BY <1>0, <3>2 DEF MarksFit, MarkFits, OfTheDialog, OnItsWay
      <4> QED BY <1>0, <3>2, <4>1 DEF OrderDeskTypes, Modal
    <3> QED BY <3>1, <3>2
  <2>2. ASSUME NEW j \in Actions, FromRow(j)', action'[j].order = modal.order
        PROVE  modal.order \in loose'
    <3>1. FromRow(j) /\ j # k /\ action[j].order = modal.order /\ action[j] # NoAction
      BY <1>1, <1>3, <2>2 DEF FromRow
    <3>2. modal.order \in loose
      BY <1>0, <2>1, <3>1 DEF ModalFits
    <3> QED BY <1>2, <3>1, <3>2
  <2>3. ASSUME ~modal.shaky, NEW j \in Actions, OnItsWay(j)', action'[j].order = modal.order
        PROVE  OfTheDialog(j)'
    <3>1. OnItsWay(j) /\ j # k /\ action'[j] = action[j]
      BY <1>1, <1>3, <2>3
    <3>2. OfTheDialog(j)
      BY <1>0, <2>1, <2>3, <3>1 DEF ModalFits
    <3> QED BY <2>3, <3>1, <3>2 DEF OfTheDialog
  <2> QED BY <1>0, <2>1, <2>2, <2>3 DEF ModalFits
<1> QED BY <1>6, <1>7

LEMMA MarksWhenSettled ==
    ASSUME OrderDeskInv, NEW k \in Actions, Settle(k)
    PROVE  MarksFit' /\ ModalFits'
<1>0. OrderDeskTypes /\ MarksFit /\ ModalFits /\ TableFits
  BY DEF OrderDeskInv
<1>1. CASE ServeAction(k) \/ ListOrders(k)
  <2>1. /\ UNCHANGED <<role, busyId, modal, known, loose>>
        /\ \A j \in Actions \ {k} : action'[j] = action[j]
        /\ action[k] # NoAction /\ action'[k] # NoAction /\ action'[k].order = action[k].order
        /\ action'[k].via = action[k].via /\ action'[k].mine = action[k].mine
        /\ OnItsWay(k)' => OnItsWay(k)
    <3>1. CASE ServeAction(k)
      BY <1>0, <3>1, ServedEffect DEF ServeAction, OnItsWay
    <3>2. CASE ListOrders(k)
      <4>1. PICK seen \in Table : seen = [o \in DeskOrders |-> [status |-> status[o], writes |-> writes[o]]]
        BY <1>0 DEF OrderDeskTypes, Table, Row
      <4>2. action' = [action EXCEPT ![k].step = "read", ![k].seen = seen] /\ action[k] # NoAction
        BY <3>2, <4>1 DEF ListOrders
      <4> QED BY <1>0, <3>2, <4>2, StepEffect DEF ListOrders, OnItsWay
    <3> QED BY <1>1, <3>1, <3>2
  <2>2. \A j \in Actions :
           /\ FromRow(j)' <=> FromRow(j)
           /\ OnItsWay(j)' => OnItsWay(j)
           /\ OfTheDialog(j)' => OfTheDialog(j)
           /\ (OnItsWay(j)' /\ OfTheDialog(j)) => OfTheDialog(j)'
           /\ action'[j] = NoAction <=> action[j] = NoAction
           /\ action[j] # NoAction =>
                 action'[j].order = action[j].order /\ action'[j].via = action[j].via
                 /\ action'[j].mine = action[j].mine
    <3> SUFFICES ASSUME NEW j \in Actions
                 PROVE  /\ FromRow(j)' <=> FromRow(j)
                        /\ OnItsWay(j)' => OnItsWay(j)
                        /\ OfTheDialog(j)' => OfTheDialog(j)
                        /\ (OnItsWay(j)' /\ OfTheDialog(j)) => OfTheDialog(j)'
                        /\ action'[j] = NoAction <=> action[j] = NoAction
                        /\ action[j] # NoAction =>
                              action'[j].order = action[j].order /\ action'[j].via = action[j].via
                              /\ action'[j].mine = action[j].mine
      OBVIOUS
    <3>1. CASE j = k
      BY <2>1, <3>1 DEF FromRow, OnItsWay, OfTheDialog
    <3>2. CASE j # k
      BY <2>1, <3>2 DEF FromRow, OnItsWay, OfTheDialog
    <3> QED BY <3>1, <3>2
  <2>3. ASSUME NEW j \in Actions
        PROVE  MarkFits(j)'
    BY <1>0, <2>1, <2>2 DEF MarksFit, MarkFits, FromRow
  <2>4. MarksFit'
    BY <1>0, <2>2, <2>3 DEF MarksFit
  <2>5. ModalFits'
    BY <1>0, <2>1, <2>2 DEF ModalFits, FromRow, OnItsWay
  <2> QED BY <2>4, <2>5
<1>2. CASE ShowOrderRows(k) \/ OrderRowsFail(k)
  <2>1. action[k] # NoAction /\ EndAction(k) /\ modal' = modal /\ UNCHANGED <<role, known>>
    BY <1>2 DEF ShowOrderRows, OrderRowsFail, Loading
  <2> QED BY <1>0, <2>1, MarksWhenEnded
<1>3. CASE ActionFails(k)
  <2>1. action[k] # NoAction /\ EndAction(k) /\ UNCHANGED <<role, known>>
        /\ (modal' = modal \/ (OfTheDialog(k) /\ modal' = [modal EXCEPT !.busy = FALSE]))
    BY <1>3 DEF ActionFails, OfTheDialog, OnItsWay
  <2> QED BY <1>0, <2>1, MarksWhenEnded
<1>4. CASE AnswerAction(k)
  <2>1. /\ action[k] # NoAction /\ action[k].step = "served" /\ action'[k].step = "load"
        /\ \A j \in Actions :
              /\ action'[j] = NoAction <=> action[j] = NoAction
              /\ action[j] # NoAction =>
                    /\ action'[j].order = action[j].order
                    /\ action'[j].via = action[j].via
                    /\ j # k => action'[j].step = action[j].step
                    /\ action'[j].mine => action[j].mine
                    /\ (action[k].via = "dialog" /\ j \notin Loading) => ~action'[j].mine
                    /\ (action[k].via # "dialog" /\ j \notin Loading /\ j # k) => action'[j].mine = action[j].mine
    BY <1>0, <1>4, AnswerEffect
  <2>2. OnItsWay(k)
    BY <2>1 DEF OnItsWay
  <2>3. \A j \in Actions :
           /\ FromRow(j)' <=> FromRow(j)
           /\ OnItsWay(j)' => OnItsWay(j) /\ j # k /\ j \notin Loading /\ action[j] # NoAction
           /\ OfTheDialog(j)' => OfTheDialog(j) /\ j # k /\ action[k].via # "dialog"
    <3> SUFFICES ASSUME NEW j \in Actions
                 PROVE  /\ FromRow(j)' <=> FromRow(j)
                        /\ OnItsWay(j)' => OnItsWay(j) /\ j # k /\ j \notin Loading /\ action[j] # NoAction
                        /\ OfTheDialog(j)' => OfTheDialog(j) /\ j # k /\ action[k].via # "dialog"
      OBVIOUS
    <3>1. FromRow(j)' <=> FromRow(j)
      BY <2>1 DEF FromRow
    <3>2. OnItsWay(j)' => OnItsWay(j) /\ j # k /\ j \notin Loading /\ action[j] # NoAction
      BY <2>1 DEF OnItsWay, Loading
    <3> QED BY <2>1, <3>1, <3>2 DEF OfTheDialog
  <2>4. /\ UNCHANGED <<role, busyId>>
        /\ \A o \in DeskOrders : o # action[k].order => known'[o] = known[o]
        /\ CloseDialog(k)
    BY <1>0, <1>4 DEF AnswerAction, OrderDeskTypes
  <2>5. loose \subseteq loose' /\ (modal' = modal \/ modal' = NoModal)
    BY <2>4 DEF CloseDialog
  <2>6. ASSUME action[k].via = "dialog", NEW j \in Actions, OnItsWay(j)', action[j].via = "dialog"
        PROVE  action[j].order \in loose'
    <3>1. OnItsWay(j) /\ j # k /\ action[j] # NoAction
      BY <2>3, <2>6
    <3>2. CASE ~action[j].mine
      BY <1>0, <2>5, <2>6, <3>1, <3>2 DEF MarksFit, MarkFits
    <3>3. CASE action[j].mine
      <4>1. modal.asks \in Dialogs /\ modal.order = action[j].order /\ modal.busy
        BY <1>0, <2>6, <3>1, <3>3 DEF MarksFit, MarkFits
      <4>2. ~action[k].mine
        BY <1>0, <2>2, <2>6, <3>1, <3>3 DEF MarksFit, OfTheDialog
      <4> QED BY <2>4, <2>6, <4>1, <4>2 DEF CloseDialog
    <3> QED BY <3>2, <3>3
  <2>7. action[k].via # "dialog" => modal' = modal /\ loose' = loose
    BY <2>4 DEF CloseDialog
  <2>8. ASSUME NEW j \in Actions, action[j] # NoAction
        PROVE  MarkFits(j)'
    <3>1. action'[j].order = action[j].order /\ action'[j].via = action[j].via
      BY <2>1, <2>8
    <3>2. FromRow(j)' =>
              /\ action[j].order \in loose' \/ busyId' = action[j].order
              /\ \A i \in Actions \ {j} : (FromRow(i)' /\ action'[i].order = action[j].order)
                                              => action[j].order \in loose'
      BY <1>0, <2>1, <2>3, <2>4, <2>5, <2>8 DEF MarksFit, MarkFits, FromRow
    <3>3. ASSUME OnItsWay(j)', action[j].via = "dialog"
          PROVE  IF action'[j].mine
                 THEN modal' # NoModal /\ modal'.asks \in Dialogs /\ modal'.order = action[j].order /\ modal'.busy
                 ELSE action[j].order \in loose'
      <4>1. CASE action[k].via = "dialog"
        BY <2>1, <2>3, <2>6, <2>8, <3>3, <4>1
      <4>2. CASE action[k].via # "dialog"
        BY <1>0, <2>1, <2>3, <2>7, <2>8, <3>3, <4>2 DEF MarksFit, MarkFits
      <4> QED BY <4>1, <4>2
    <3>4. action[j].via = "form" => role = "CLIENT"
      BY <1>0, <2>8 DEF MarksFit, MarkFits
    <3> QED BY <2>4, <3>1, <3>2, <3>3, <3>4 DEF MarkFits
  <2>9. MarksFit'
    BY <1>0, <2>1, <2>3, <2>8 DEF MarksFit, MarkFits
  <2>10. ModalFits'
    <3> SUFFICES ASSUME modal' # NoModal
                 PROVE  ModalFits'
      BY DEF ModalFits
    <3>1. modal' = modal /\ modal # NoModal
      BY <2>5
    <3>2. /\ role # "CLIENT"
          /\ \A j \in Actions : (FromRow(j)' /\ action'[j].order = modal.order) => modal.order \in loose'
      BY <1>0, <2>1, <2>3, <2>5, <3>1 DEF ModalFits, FromRow
    <3>3. ASSUME ~modal.shaky
          PROVE  /\ modal.writes >= known'[modal.order]
                 /\ \A j \in Actions : (OnItsWay(j)' /\ action'[j].order = modal.order) => OfTheDialog(j)'
      <4>1. \A j \in Actions : (OnItsWay(j) /\ action[j].order = modal.order) => OfTheDialog(j)
        BY <1>0, <3>1, <3>3 DEF ModalFits
      <4>2. ~(action[k].via = "dialog" /\ modal.asks \in Dialogs)
        BY <2>4, <3>1 DEF CloseDialog
      <4>3. action[k].order # modal.order
        BY <1>0, <2>2, <4>1, <4>2 DEF MarksFit, MarkFits, OfTheDialog, OnItsWay
      <4>4. modal.order \in DeskOrders
        BY <1>0, <3>1, ModalFields DEF OrderDeskTypes
      <4>5. modal.writes >= known'[modal.order]
        BY <1>0, <2>4, <3>1, <3>3, <4>3, <4>4 DEF ModalFits
      <4>6. ASSUME NEW j \in Actions, OnItsWay(j)', action'[j].order = modal.order
            PROVE  OfTheDialog(j)'
        <5>1. OnItsWay(j) /\ j # k /\ j \notin Loading /\ action[j].order = modal.order
          BY <2>1, <2>3, <4>6
        <5>2. OfTheDialog(j)
          BY <4>1, <5>1
        <5>3. action[k].via # "dialog"
          BY <1>0, <4>2, <5>2 DEF MarksFit, MarkFits, OfTheDialog, OnItsWay
        <5> QED BY <2>1, <4>6, <5>1, <5>2, <5>3 DEF OfTheDialog, OnItsWay
      <4> QED BY <4>5, <4>6
    <3> QED BY <2>4, <3>1, <3>2, <3>3 DEF ModalFits
  <2> QED BY <2>9, <2>10
<1> QED BY <1>1, <1>2, <1>3, <1>4 DEF Settle
\* The dialogs and prompts are opened, filled and closed.
LEMMA MarksWhenAsked ==
    ASSUME OrderDeskInv,
           \/ CloseModal
           \/ \E proof \in {"there", "failed"} : ProofLoaded(proof)
           \/ \E o \in DeskOrders :
                 OtherMoves(o) \/ \E asks \in Prompts \cup Dialogs : OpenModal(o, asks)
           \/ UNCHANGED orderDeskVars
    PROVE  MarksFit' /\ ModalFits'
<1>0. OrderDeskTypes /\ MarksFit /\ ModalFits /\ TableFits
  BY DEF OrderDeskInv
<1>1. CASE CloseModal
  <2>1. /\ modal # NoModal /\ modal' = NoModal /\ UNCHANGED <<role, busyId>>
        /\ loose' = IF modal.busy THEN loose \cup {modal.order} ELSE loose
    BY <1>1 DEF CloseModal
  <2>2. \A j \in Actions :
           /\ action'[j] = NoAction <=> action[j] = NoAction
           /\ action[j] # NoAction =>
                 /\ ~action'[j].mine
                 /\ action'[j].order = action[j].order
                 /\ action'[j].via = action[j].via
                 /\ action'[j].step = action[j].step
    BY <1>0, <1>1, OrphansEffect DEF CloseModal, OrderDeskTypes, Calls
  <2>3. \A j \in Actions : (FromRow(j)' <=> FromRow(j)) /\ (OnItsWay(j)' <=> OnItsWay(j)) /\ ~OfTheDialog(j)'
    BY <2>2 DEF FromRow, OnItsWay, OfTheDialog
  <2>4. loose \subseteq loose'
    BY <2>1
  <2>5. ASSUME NEW j \in Actions
        PROVE  MarkFits(j)'
    <3>1. (OnItsWay(j) /\ action[j].via = "dialog") => action[j].order \in loose'
      BY <1>0, <2>1 DEF MarksFit, MarkFits, OnItsWay
    <3> QED BY <1>0, <2>1, <2>2, <2>3, <2>4, <3>1 DEF MarksFit, MarkFits
  <2> QED BY <2>1, <2>3, <2>5 DEF MarksFit, ModalFits
<1>2. ASSUME NEW proof \in {"there", "failed"}, ProofLoaded(proof)
      PROVE  MarksFit' /\ ModalFits'
  <2>1. modal # NoModal
    BY <1>0, <1>2, AskingIsOpen DEF ProofLoaded, Dialogs
  <2>2. PICK w \in Modal : w = modal
    BY <1>0, <2>1 DEF OrderDeskTypes
  <2>3. PICK v \in Modal : v = [w EXCEPT !.proof = proof]
    BY DEF Modal
  <2>4. /\ v.order = w.order /\ v.asks = w.asks /\ v.busy = w.busy /\ v.shaky = w.shaky
        /\ v.writes = w.writes /\ v # NoModal
    BY <2>3, NoModalIsNone DEF Modal
  <2>5. modal' = v /\ UNCHANGED <<role, busyId, action, known, loose>>
    BY <1>2, <2>2, <2>3 DEF ProofLoaded
  <2> QED BY <1>0, <2>1, <2>2, <2>4, <2>5 DEF MarksFit, MarkFits, ModalFits, FromRow, OnItsWay, OfTheDialog
<1>3. ASSUME NEW o \in DeskOrders, OtherMoves(o)
      PROVE  MarksFit' /\ ModalFits'
  BY <1>0, <1>3 DEF OtherMoves, MarksFit, MarkFits, ModalFits, FromRow, OnItsWay, OfTheDialog
<1>4. ASSUME NEW o \in DeskOrders, NEW asks \in Prompts \cup Dialogs, OpenModal(o, asks)
      PROVE  MarksFit' /\ ModalFits'
  <2>1. /\ TableUp /\ modal = NoModal /\ busyId # o /\ asks \in Buttons(rows[o].status)
        /\ UNCHANGED <<role, busyId, action, known, loose>>
    BY <1>4 DEF OpenModal, Clickable
  <2>2. PICK shaky \in BOOLEAN : shaky = (overlapped \/ o \in loose)
    OBVIOUS
  <2>3. modal' = [order |-> o, asks |-> asks, proof |-> "loading", busy |-> FALSE,
                  writes |-> rows[o].writes, shaky |-> shaky]
    BY <1>4, <2>2 DEF OpenModal
  <2>4. modal'.order = o /\ modal'.shaky = shaky /\ modal'.writes = rows[o].writes
    BY <2>3
  <2>5. role # "CLIENT"
    BY <2>1 DEF Buttons
  <2>6. \A j \in Actions : (FromRow(j) /\ action[j].order = o) => o \in loose
    BY <1>0, <2>1 DEF MarksFit, MarkFits, FromRow
  <2>7. \A j \in Actions : ~OfTheDialog(j)
    BY <1>0, <2>1 DEF MarksFit, MarkFits, OfTheDialog, OnItsWay
  <2>8. ASSUME ~shaky
        PROVE  /\ rows[o].writes >= known[o]
               /\ \A j \in Actions : ~(OnItsWay(j) /\ action[j].order = o)
    <3>1. rows[o].writes >= known[o]
      BY <1>0, <2>1, <2>2, <2>8 DEF TableFits
    <3>2. ASSUME NEW j \in Actions, OnItsWay(j), action[j].order = o
          PROVE  FALSE
      <4>1. action[j] # NoAction /\ action[j].via \in {"row", "dialog", "form"}
        BY <1>0, <3>2, ActionFields DEF OnItsWay, OrderDeskTypes
      <4>2. action[j].via # "row"
        BY <2>2, <2>6, <2>8, <3>2, <4>1 DEF FromRow
      <4>3. action[j].via # "form"
        BY <1>0, <2>5, <4>1 DEF MarksFit, MarkFits
      <4>4. action[j].via = "dialog" /\ ~action[j].mine
        BY <2>7, <3>2, <4>1, <4>2, <4>3 DEF OfTheDialog
      <4> QED BY <1>0, <2>2, <2>8, <3>2, <4>1, <4>4 DEF MarksFit, MarkFits
    <3> QED BY <3>1, <3>2
  <2>9. ASSUME NEW j \in Actions
        PROVE  MarkFits(j)'
    BY <1>0, <2>1, <2>7 DEF MarksFit, MarkFits, FromRow, OnItsWay, OfTheDialog
  <2>10. MarksFit'
    BY <1>0, <2>1, <2>9 DEF MarksFit, OfTheDialog, OnItsWay
  <2>11. ModalFits'
    <3>1. \A j \in Actions : (FromRow(j)' /\ action'[j].order = modal'.order) => modal'.order \in loose'
      BY <2>1, <2>4, <2>6 DEF FromRow
    <3>2. ~modal'.shaky =>
             /\ modal'.writes >= known'[modal'.order]
             /\ \A j \in Actions : (OnItsWay(j)' /\ action'[j].order = modal'.order) => OfTheDialog(j)'
      BY <2>1, <2>4, <2>8 DEF OnItsWay
    <3> QED BY <2>1, <2>5, <3>1, <3>2 DEF ModalFits
  <2> QED BY <2>10, <2>11
<1>5. CASE UNCHANGED orderDeskVars
  BY <1>0, <1>5 DEF orderDeskVars, MarksFit, MarkFits, ModalFits, FromRow, OnItsWay, OfTheDialog
<1> QED BY <1>1, <1>2, <1>3, <1>4, <1>5

\* The rows that are loaded.
LEMMA LoadsKept ==
    ASSUME OrderDeskTypes, TableFits, UNCHANGED <<rows, tableLoading, tableFailed, known, overlapped>>,
           \A j \in Actions : j \in Loading' <=> j \in Loading,
           \A j \in Loading : action'[j].alone = action[j].alone /\ action'[j].step = action[j].step
                                 /\ action'[j].seen = action[j].seen,
           \A o \in DeskOrders : known[o] <= writes'[o]
    PROVE  TableFits'
<1>1. \A j \in Loading : j \in Actions
  BY DEF Loading
<1>2. \A j \in Loading' : j \in Actions
  BY DEF Loading
<1>3. ASSUME NEW j \in Loading'
      PROVE  LoadingFits(j)'
  <2>1. j \in Loading /\ LoadingFits(j)
    BY <1>2, <1>3 DEF TableFits
  <2> QED BY <1>1, <1>2, <2>1 DEF LoadingFits
<1> QED BY <1>3 DEF TableFits, TableUp

LEMMA TableWhenSettled ==
    ASSUME OrderDeskInv, NEW k \in Actions, Settle(k)
    PROVE  TableFits'
<1>0. OrderDeskTypes /\ MarksFit /\ ModalFits /\ TableFits
  BY DEF OrderDeskInv
<1>1. CASE ServeAction(k)
  <2>1. \A j \in Actions : j \in Loading' <=> j \in Loading
    BY <1>0, <1>1, ServedEffect DEF Loading
  <2>2. \A j \in Loading : action'[j] = action[j]
    BY <1>0, <1>1, ServedEffect DEF Loading
  <2>3. PICK o \in DeskOrders : o = action[k].order
    BY <1>0, <1>1, ActionFields DEF ServeAction, OrderDeskTypes
  <2>4. \A p \in DeskOrders : writes'[p] = (IF p = o THEN writes[p] + 1 ELSE writes[p])
    BY <1>0, <1>1, <2>3 DEF ServeAction, OrderDeskTypes
  <2>5. \A p \in DeskOrders : writes[p] \in Nat /\ known[p] \in Nat /\ known[p] <= writes[p]
    BY <1>0 DEF OrderDeskTypes, TableFits
  <2>6. \A p \in DeskOrders : known[p] <= writes'[p]
    BY <2>4, <2>5
  <2> QED BY <1>0, <1>1, <2>1, <2>2, <2>6, LoadsKept DEF ServeAction
<1>2. CASE AnswerAction(k)
  <2>1. /\ action[k] # NoAction /\ action[k].step = "served"
        /\ \A j \in Actions :
              /\ action'[j] = NoAction <=> action[j] = NoAction
              /\ action[j] # NoAction =>
                    /\ j # k => action'[j].step = action[j].step
                    /\ j \in Loading => ~action'[j].alone
        /\ action'[k].step = "load"
        /\ action'[k].alone <=> Loading = {}
    BY <1>0, <1>2, AnswerEffect
  <2>2. /\ tableLoading' = TRUE /\ overlapped' = (overlapped \/ Loading # {})
        /\ writes' = writes /\ known' = [known EXCEPT ![action[k].order] = writes[action[k].order]]
    BY <1>2 DEF AnswerAction, LoadsAgain
  <2>3. k \notin Loading
    BY <2>1 DEF Loading
  <2>4. \A j \in Loading' : j = k \/ (j \in Loading /\ j \in Actions /\ action[j] # NoAction)
    BY <2>1 DEF Loading
  <2>5. \A o \in DeskOrders : known'[o] <= writes'[o]
    BY <1>0, <2>2 DEF TableFits, OrderDeskTypes
  <2>6. ASSUME NEW j \in Loading'
        PROVE  LoadingFits(j)'
    <3>1. CASE j = k
      <4>1. Loading = {} => \A i \in Loading' : i = k
        BY <2>4
      <4> QED BY <2>1, <2>2, <3>1, <4>1 DEF LoadingFits
    <3>2. CASE j # k
      <4>1. j \in Loading /\ ~action'[j].alone
        BY <2>1, <2>4, <2>6, <3>2
      <4> QED BY <2>2, <4>1 DEF LoadingFits
    <3> QED BY <3>1, <3>2
  <2> QED BY <2>2, <2>5, <2>6 DEF TableFits, TableUp
<1>3. CASE ListOrders(k)
  <2>1. PICK seen \in Table : seen = [o \in DeskOrders |-> [status |-> status[o], writes |-> writes[o]]]
    BY <1>0 DEF OrderDeskTypes, Table, Row
  <2>2. action' = [action EXCEPT ![k].step = "read", ![k].seen = seen] /\ action[k] # NoAction
        /\ action[k].step = "load"
    BY <1>3, <2>1 DEF ListOrders
  <2>3. /\ action'[k] # NoAction /\ action'[k].alone = action[k].alone
        /\ action'[k].step = "read" /\ action'[k].seen = seen
        /\ \A j \in Actions \ {k} : action'[j] = action[j]
    BY <1>0, <2>2, StepEffect
  <2>4. \A j \in Actions : j \in Loading' <=> j \in Loading
    BY <2>2, <2>3 DEF Loading
  <2>5. \A o \in DeskOrders : seen[o].writes >= known[o]
    BY <1>0, <2>1 DEF TableFits, OrderDeskTypes
  <2>6. UNCHANGED <<writes, rows, tableLoading, tableFailed, known, overlapped>>
    BY <1>3 DEF ListOrders
  <2>7. \A j \in Loading : j \in Actions
    BY DEF Loading
  <2>8. \A j \in Loading' : j \in Actions
    BY DEF Loading
  <2>9. ASSUME NEW j \in Loading'
        PROVE  LoadingFits(j)'
    <3>1. j \in Loading /\ LoadingFits(j) /\ j \in Actions
      BY <1>0, <2>4, <2>8, <2>9 DEF TableFits
    <3>2. CASE j = k
      BY <2>3, <2>4, <2>5, <2>6, <2>7, <2>8, <3>1, <3>2 DEF LoadingFits
    <3>3. CASE j # k
      BY <2>3, <2>4, <2>6, <2>7, <2>8, <3>1, <3>3 DEF LoadingFits
    <3> QED BY <3>2, <3>3
  <2> QED BY <1>0, <2>6, <2>9 DEF TableFits, TableUp
<1>4. CASE ShowOrderRows(k) \/ OrderRowsFail(k)
  <2>1. action[k] # NoAction /\ EndAction(k) /\ k \in Loading /\ UNCHANGED <<writes, known>> /\ tableLoading' = FALSE
    BY <1>4 DEF ShowOrderRows, OrderRowsFail, Loading
  <2>2. action'[k] = NoAction /\ \A j \in Actions \ {k} : action'[j] = action[j]
    BY <1>0, <2>1, EndEffect
  <2>3. \A j \in Loading' : j \in Loading /\ j # k /\ action'[j] = action[j]
    BY <2>2 DEF Loading
  <2>4. overlapped' => overlapped
    BY <1>4 DEF ShowOrderRows, OrderRowsFail
  <2>5. ASSUME NEW j \in Loading'
        PROVE  ~action[j].alone /\ overlapped'
    <3>1. ~action[j].alone
      BY <1>0, <2>1, <2>3, <2>5 DEF TableFits, LoadingFits
    <3>2. ~action[k].alone
      BY <1>0, <2>1, <2>3, <2>5 DEF TableFits, LoadingFits
    <3>3. overlapped
      BY <1>0, <2>1, <3>2 DEF TableFits, LoadingFits
    <3> QED BY <1>4, <3>1, <3>2, <3>3 DEF ShowOrderRows, OrderRowsFail
  <2>6. \A j \in Loading' : LoadingFits(j)'
    BY <2>3, <2>5 DEF LoadingFits
  <2>7. (TableUp /\ ~overlapped)' => \A o \in DeskOrders : rows'[o].writes >= known[o]
    <3>1. CASE OrderRowsFail(k)
      BY <3>1 DEF OrderRowsFail, TableUp
    <3>2. CASE ShowOrderRows(k)
      <4>1. ~overlapped' => action[k].alone
        BY <1>0, <2>1, <3>2 DEF ShowOrderRows, TableFits, LoadingFits
      <4>2. action[k].alone => \A o \in DeskOrders : action[k].seen[o].writes >= known[o]
        BY <1>0, <2>1, <3>2 DEF ShowOrderRows, TableFits, LoadingFits
      <4> QED BY <3>2, <4>1, <4>2 DEF ShowOrderRows
    <3> QED BY <1>4, <3>1, <3>2
  <2> QED BY <1>0, <2>1, <2>6, <2>7 DEF TableFits
<1>5. CASE ActionFails(k)
  <2>1. action[k] # NoAction /\ EndAction(k) /\ k \notin Loading
    BY <1>5 DEF ActionFails, Loading
  <2>2. action'[k] = NoAction /\ \A j \in Actions \ {k} : action'[j] = action[j]
    BY <1>0, <2>1, EndEffect
  <2>3. \A j \in Actions : j \in Loading' <=> j \in Loading
    BY <2>1, <2>2 DEF Loading
  <2>4. \A j \in Loading : action'[j] = action[j]
    BY <2>1, <2>2 DEF Loading
  <2>5. \A o \in DeskOrders : known[o] <= writes'[o]
    BY <1>0, <1>5 DEF ActionFails, TableFits
  <2> QED BY <1>0, <1>5, <2>3, <2>4, <2>5, LoadsKept DEF ActionFails
<1> QED BY <1>1, <1>2, <1>3, <1>4, <1>5 DEF Settle

LEMMA TableOtherwise ==
    ASSUME OrderDeskInv, [OrderDeskNext]_orderDeskVars, \A k \in Actions : ~Settle(k)
    PROVE  TableFits'
<1>0. OrderDeskTypes /\ TableFits
  BY DEF OrderDeskInv
<1>1. \A o \in DeskOrders : known[o] <= writes[o]
  BY <1>0 DEF TableFits
<1>2. ASSUME NEW k \in Actions, DecideOrder(k)
      PROVE  TableFits'
  <2>1. UNCHANGED <<writes, rows, tableLoading, tableFailed, known, overlapped>>
    BY <1>2 DEF DecideOrder, Place, Approve, SubmitPrompt, SubmitDialog
  <2>2. PICK o \in DeskOrders, op \in Prompts \cup {"upload", "accept", "approve", "place"},
              via \in {"row", "dialog", "form"} : Send(k, o, op, via)
    <3>1. ASSUME modal.asks \in Prompts \cup Dialogs
          PROVE  modal.order \in DeskOrders
      BY <1>0, <3>1, AskingIsOpen, ModalFields DEF OrderDeskTypes
    <3>2. DialogOps \subseteq Prompts \cup {"upload", "accept", "approve", "place"}
      BY DEF DialogOps, Prompts
    <3>3. CASE SubmitPrompt(k)
      <4>1. modal.asks \in Prompts /\ Send(k, modal.order, modal.asks, "row")
        BY <3>3 DEF SubmitPrompt
      <4>2. PICK o \in DeskOrders, op \in Prompts : o = modal.order /\ op = modal.asks
        BY <3>1, <4>1
      <4>3. Send(k, o, op, "row")
        BY <4>1, <4>2
      <4> QED BY <4>3
    <3>4. CASE SubmitDialog(k)
      <4>1. modal.asks \in Dialogs /\ \E op \in DialogOps : Send(k, modal.order, op, "dialog")
        BY <3>4 DEF SubmitDialog
      <4> QED BY <3>1, <3>2, <4>1
    <3> QED BY <1>2, <3>3, <3>4 DEF DecideOrder, Place, Approve
  <2>3. /\ action[k] = NoAction /\ action'[k].step = "sent"
        /\ \A j \in Actions \ {k} : action'[j] = action[j]
    BY <1>0, <2>2, SendEffect
  <2>4. \A j \in Actions : j \in Loading' <=> j \in Loading
    BY <2>3 DEF Loading
  <2>5. \A j \in Loading : action'[j] = action[j]
    BY <2>3 DEF Loading
  <2> QED BY <1>0, <1>1, <2>1, <2>4, <2>5, LoadsKept
<1>3. ASSUME UNCHANGED <<writes, rows, tableLoading, tableFailed, known, overlapped, action>>
      PROVE  TableFits'
  BY <1>0, <1>1, <1>3, LoadsKept DEF Loading
<1>4. CASE CloseModal
  <2>1. UNCHANGED <<writes, rows, tableLoading, tableFailed, known, overlapped>>
    BY <1>4 DEF CloseModal
  <2>2. \A j \in Actions :
           /\ action'[j] = NoAction <=> action[j] = NoAction
           /\ action[j] # NoAction =>
                 /\ action'[j].step = action[j].step
                 /\ action'[j].seen = action[j].seen
                 /\ action'[j].alone = action[j].alone
    BY <1>0, <1>4, OrphansEffect DEF CloseModal, OrderDeskTypes, Calls
  <2>3. \A j \in Actions : j \in Loading' <=> j \in Loading
    BY <2>2 DEF Loading
  <2>4. \A j \in Loading : j \in Actions /\ action[j] # NoAction
    BY DEF Loading
  <2> QED BY <1>0, <1>1, <2>1, <2>2, <2>3, <2>4, LoadsKept
<1>5. ASSUME NEW proof \in {"there", "failed"}, ProofLoaded(proof)
      PROVE  TableFits'
  BY <1>3, <1>5 DEF ProofLoaded
<1>6. ASSUME NEW o \in DeskOrders, OtherMoves(o)
      PROVE  TableFits'
  BY <1>3, <1>6 DEF OtherMoves
<1>7. ASSUME NEW o \in DeskOrders, NEW asks \in Prompts \cup Dialogs, OpenModal(o, asks)
      PROVE  TableFits'
  BY <1>3, <1>7 DEF OpenModal
<1>8. CASE UNCHANGED orderDeskVars
  BY <1>3, <1>8 DEF orderDeskVars
<1> QED BY <1>2, <1>4, <1>5, <1>6, <1>7, <1>8 DEF OrderDeskNext

LEMMA OrderDeskInvHolds == OrderDeskSpec => []OrderDeskInv
<1>1. OrderDeskInit => OrderDeskInv
  <2> SUFFICES ASSUME OrderDeskInit
               PROVE  OrderDeskInv
    OBVIOUS
  <2>1. OrderDeskTypes
    <3>1. status \in [DeskOrders -> OrderStatuses]
      BY DEF OrderDeskInit, OrderStatuses, OpenStatuses
    <3>2. rows \in Table
      BY <3>1 DEF OrderDeskInit, Table, Row
    <3>3. writes \in [DeskOrders -> Nat] /\ known \in [DeskOrders -> Nat]
      BY DEF OrderDeskInit
    <3>4. action \in [Actions -> Action \cup {NoAction}]
      BY DEF OrderDeskInit
    <3>5. actions \in 0..MaxActions
      BY OrderDeskAssumption DEF OrderDeskInit
    <3>6. role \in Roles /\ modal \in Modal \cup {NoModal} /\ busyId \in DeskOrders \cup {"none"}
          /\ loose \subseteq DeskOrders
          /\ tableLoading \in BOOLEAN /\ tableFailed \in BOOLEAN /\ overlapped \in BOOLEAN
      BY DEF OrderDeskInit
    <3> QED BY <3>1, <3>2, <3>3, <3>4, <3>5, <3>6 DEF OrderDeskTypes
  <2>2. \A k \in Actions : action[k] = NoAction
    BY DEF OrderDeskInit
  <2>3. MarksFit /\ ModalFits
    BY <2>2 DEF OrderDeskInit, MarksFit, MarkFits, ModalFits, OfTheDialog, OnItsWay
  <2>4. Loading = {}
    BY <2>2 DEF Loading
  <2>5. TableFits
    BY <2>4 DEF OrderDeskInit, TableFits
  <2> QED BY <2>1, <2>3, <2>5 DEF OrderDeskInv
<1>2. OrderDeskInv /\ [OrderDeskNext]_orderDeskVars => OrderDeskInv'
  <2> SUFFICES ASSUME OrderDeskInv, [OrderDeskNext]_orderDeskVars
               PROVE  OrderDeskInv'
    OBVIOUS
  <2>1. OrderDeskTypes'
    BY OrderDeskStaysTyped DEF OrderDeskInv
  <2>2. MarksFit' /\ ModalFits'
    BY MarksWhenSent, MarksWhenSettled, MarksWhenAsked DEF OrderDeskNext
  <2>3. TableFits'
    BY TableWhenSettled, TableOtherwise
  <2> QED BY <2>1, <2>2, <2>3 DEF OrderDeskInv
<1> QED BY <1>1, <1>2, PTL DEF OrderDeskSpec

\* No dialog, prompt or button invites to decide what the operator has decided,
\* for any number of orders and of calls that overlap (runAction, onDone and
\* reload of OrdersScreen and ReplacementsScreen).
THEOREM OrdersAreDecidedOnce == OrderDeskSpec => [](OrderDeskTypes /\ NothingIsDecidedTwice)
<1>1. OrderDeskInv => OrderDeskTypes /\ NothingIsDecidedTwice
  BY DEF OrderDeskInv, ModalFits, TableFits, NothingIsDecidedTwice
<1> QED BY <1>1, OrderDeskInvHolds, PTL
-----------------------------------------------------------------------------
(* The list screens. *)

EntityRuns == [Runs -> Run \cup {NoRun}]

\* The fields of a run.
LEMMA RunFields ==
    ASSUME NEW r \in Run \cup {NoRun}, r # NoRun
    PROVE  /\ r \in Run /\ r.op \in {"mount", "create", "edit", "status", "delete", "decide"}
           /\ r.to \in EntityStatus \cup {"none"} /\ r.ids \subseteq Entities /\ r.left \subseteq Entities
           /\ r.step \in {"calls", "write", "load", "read", "stray"}
           /\ r.seen \in EntityTable /\ r.clean \in BOOLEAN
BY DEF Run

LEMMA NoRunIsNone ==
    \A r \in Run : r # NoRun
<1> SUFFICES ASSUME NEW r \in Run, r = NoRun
             PROVE  FALSE
  OBVIOUS
<1>1. r.op \in {"mount", "create", "edit", "status", "delete", "decide"}
  BY DEF Run
<1>2. r.op = "none"
  BY DEF NoRun
<1> QED BY <1>1, <1>2

\* A step leaves a run as it is, but for calls that are answered and loads that
\* miss a change.
RunKept(j) ==
    /\ run'[j] = NoRun <=> run[j] = NoRun
    /\ run[j] # NoRun =>
          /\ run'[j].op = run[j].op /\ run'[j].to = run[j].to /\ run'[j].ids = run[j].ids /\ run'[j].step = run[j].step
          /\ run'[j].seen = run[j].seen /\ run'[j].left \subseteq run[j].left
          /\ run'[j].clean => run[j].clean

\* What Overtaken does to runs.
LEMMA OvertakenEffect ==
    ASSUME NEW runs \in EntityRuns
    PROVE  /\ Overtaken(runs) \in EntityRuns
           /\ \A j \in Runs :
                 /\ Overtaken(runs)[j] = NoRun <=> runs[j] = NoRun
                 /\ runs[j] # NoRun =>
                       /\ Overtaken(runs)[j].op = runs[j].op /\ Overtaken(runs)[j].to = runs[j].to /\ Overtaken(runs)[j].ids = runs[j].ids
                       /\ Overtaken(runs)[j].step = runs[j].step /\ Overtaken(runs)[j].seen = runs[j].seen
                       /\ Overtaken(runs)[j].left = runs[j].left
                       /\ Overtaken(runs)[j].clean => runs[j].clean
                       /\ runs[j].step = "read" => ~Overtaken(runs)[j].clean
<1>1. ASSUME NEW j \in Runs
      PROVE  /\ Overtaken(runs)[j] \in Run \cup {NoRun}
             /\ Overtaken(runs)[j] = NoRun <=> runs[j] = NoRun
             /\ runs[j] # NoRun =>
                   /\ Overtaken(runs)[j].op = runs[j].op /\ Overtaken(runs)[j].to = runs[j].to /\ Overtaken(runs)[j].ids = runs[j].ids
                   /\ Overtaken(runs)[j].step = runs[j].step /\ Overtaken(runs)[j].seen = runs[j].seen
                   /\ Overtaken(runs)[j].left = runs[j].left
                   /\ Overtaken(runs)[j].clean => runs[j].clean
                   /\ runs[j].step = "read" => ~Overtaken(runs)[j].clean
  <2>1. CASE runs[j] # NoRun /\ runs[j].step = "read"
    <3>1. PICK r \in Run : r = runs[j]
      BY <2>1 DEF EntityRuns
    <3>2. PICK q \in Run : q = [r EXCEPT !.clean = FALSE]
      BY DEF Run
    <3>3. Overtaken(runs)[j] = q
      BY <2>1, <3>1, <3>2 DEF Overtaken
    <3>4. /\ q.op = r.op /\ q.to = r.to /\ q.ids = r.ids /\ q.step = r.step /\ q.seen = r.seen /\ q.left = r.left
          /\ ~q.clean
      BY <3>2 DEF Run
    <3> QED BY <2>1, <3>1, <3>3, <3>4, NoRunIsNone
  <2>2. CASE ~(runs[j] # NoRun /\ runs[j].step = "read")
    BY <2>2 DEF Overtaken, EntityRuns
  <2> QED BY <2>1, <2>2
<1>2. Overtaken(runs) = [j \in Runs |-> Overtaken(runs)[j]]
  BY DEF Overtaken
<1> QED BY <1>1, <1>2 DEF EntityRuns

LEMMA BeginEffect ==
    ASSUME EntityTypes, NEW k \in Runs, NEW ids \in SUBSET Entities,
           NEW op \in {"mount", "create", "edit", "status", "delete", "decide"},
           NEW to \in EntityStatus \cup {"none"}, Begin(k, op, ids, to)
    PROVE  /\ run' \in EntityRuns /\ run[k] = NoRun /\ run'[k] # NoRun
           /\ run'[k].op = op /\ run'[k].to = to /\ run'[k].ids = ids /\ run'[k].left = ids /\ run'[k].step = "calls"
           /\ run'[k].seen = NoTable
           /\ \A j \in Runs \ {k} : run'[j] = run[j]
           /\ pending' \in BOOLEAN /\ acts' \in Nat
           /\ UNCHANGED <<kind, entity, data, loading, failed, requests, selected, crossed, behind>>
<1>1. NoTable \in EntityTable
  BY DEF NoTable, EntityTable
<1>2. PICK r \in Run : r = [op |-> op, to |-> to, ids |-> ids, left |-> ids, step |-> "calls",
                             seen |-> NoTable, clean |-> TRUE]
  BY <1>1 DEF Run
<1>3. run' = [run EXCEPT ![k] = r] /\ run[k] = NoRun
  BY <1>2 DEF Begin
<1>4. r.op = op /\ r.to = to /\ r.ids = ids /\ r.left = ids /\ r.step = "calls" /\ r.seen = NoTable /\ r # NoRun
  BY <1>2, NoRunIsNone
<1>5. pending' \in BOOLEAN /\ acts' \in Nat
        /\ UNCHANGED <<kind, entity, data, loading, failed, requests, selected, crossed, behind>>
  BY EntityAssumption DEF Begin, EntityTypes
<1> QED BY <1>3, <1>4, <1>5 DEF EntityTypes, EntityRuns

\* An answer of a run that goes on calling, and the steps of approve and reject.
LEMMA CallsEffect ==
    ASSUME EntityTypes, NEW k \in Runs,
           \/ \E x \in Entities : ServeCall(k, x) \/ RefuseDelete(k, x)
           \/ CheckDecision(k) \/ WriteDecision(k)
    PROVE  /\ run' \in EntityRuns /\ run[k] # NoRun /\ run'[k] # NoRun
           /\ run'[k].op = run[k].op /\ run'[k].to = run[k].to /\ run'[k].ids = run[k].ids
           /\ run'[k].left \subseteq run[k].left
           /\ run'[k].step = "write" => run[k].op = "decide"
           /\ run[k].step \in {"calls", "write"} /\ run'[k].step \in {"calls", "write"}
           /\ run'[k].seen = run[k].seen
           /\ \A j \in Runs \ {k} : run'[j] = run[j]
<1>1. PICK r \in Run : r = run[k] /\ r.left \subseteq Entities /\ r.seen \in EntityTable
                          /\ r.step \in {"calls", "write"} /\ run[k] # NoRun
  BY RunFields DEF EntityTypes, ServeCall, RefuseDelete, CheckDecision, WriteDecision, InStep
<1>2. PICK q \in Run : /\ run' = [run EXCEPT ![k] = q]
                       /\ q.op = r.op /\ q.to = r.to /\ q.ids = r.ids /\ q.left \subseteq r.left /\ q.seen = r.seen
                       /\ q.step \in {"calls", "write"}
                       /\ q.step = "write" => q.op = "decide"
  <2>1. ASSUME NEW x \in Entities, ServeCall(k, x) \/ RefuseDelete(k, x)
        PROVE  \E q \in Run : /\ run' = [run EXCEPT ![k] = q]
                              /\ q.op = r.op /\ q.to = r.to /\ q.ids = r.ids /\ q.left \subseteq r.left /\ q.seen = r.seen
                              /\ q.step \in {"calls", "write"}
                              /\ q.step = "write" => q.op = "decide"
    <3>1. PICK left \in SUBSET r.left : left = r.left \ {x}
      OBVIOUS
    <3>2. PICK q \in Run : q = [r EXCEPT !.left = left]
      BY <1>1 DEF Run
    <3>3. Answered(run[k], x) = q
      BY <1>1, <3>1, <3>2 DEF Answered, Run
    <3>4. run' = [run EXCEPT ![k] = q]
      BY <2>1, <3>3 DEF ServeCall, RefuseDelete
    <3>5. q.op = r.op /\ q.to = r.to /\ q.ids = r.ids /\ q.left \subseteq r.left /\ q.seen = r.seen /\ q.step = r.step
      BY <3>2 DEF Run
    <3>6. r.step = "calls"
      BY <1>1, <2>1 DEF ServeCall, RefuseDelete, InStep
    <3> QED BY <3>4, <3>5, <3>6
  <2>2. ASSUME CheckDecision(k)
        PROVE  \E q \in Run : /\ run' = [run EXCEPT ![k] = q]
                              /\ q.op = r.op /\ q.to = r.to /\ q.ids = r.ids /\ q.left \subseteq r.left /\ q.seen = r.seen
                              /\ q.step \in {"calls", "write"}
                              /\ q.step = "write" => q.op = "decide"
    <3>1. PICK q \in Run : q = [r EXCEPT !.step = "write"]
      BY DEF Run
    <3>2. run' = [run EXCEPT ![k] = q]
      BY <1>1, <2>2, <3>1 DEF CheckDecision, EntityTypes
    <3>3. q.op = r.op /\ q.to = r.to /\ q.ids = r.ids /\ q.left = r.left /\ q.seen = r.seen /\ q.step = "write"
      BY <3>1 DEF Run
    <3>4. r.op = "decide"
      BY <1>1, <2>2 DEF CheckDecision
    <3> QED BY <3>2, <3>3, <3>4
  <2>3. ASSUME WriteDecision(k)
        PROVE  \E q \in Run : /\ run' = [run EXCEPT ![k] = q]
                              /\ q.op = r.op /\ q.to = r.to /\ q.ids = r.ids /\ q.left \subseteq r.left /\ q.seen = r.seen
                              /\ q.step \in {"calls", "write"}
                              /\ q.step = "write" => q.op = "decide"
    <3>1. PICK q \in Run : q = [r EXCEPT !.step = "calls", !.left = {}]
      BY DEF Run
    <3>2. run' = [run EXCEPT ![k] = q]
      BY <1>1, <2>3, <3>1 DEF WriteDecision, EntityTypes
    <3>3. q.op = r.op /\ q.to = r.to /\ q.ids = r.ids /\ q.left = {} /\ q.seen = r.seen /\ q.step = "calls"
      BY <3>1 DEF Run
    <3> QED BY <3>2, <3>3
  <2> QED BY <2>1, <2>2, <2>3
<1> QED BY <1>1, <1>2, NoRunIsNone DEF EntityTypes, EntityRuns
\* A run that ends with a failed call, or goes on astray.
LEMMA AstrayEffect ==
    ASSUME EntityTypes, NEW k \in Runs, NEW x \in Entities, ServeStray(k, x) \/ Abandon(k, x)
    PROVE  /\ run' \in EntityRuns /\ run[k] # NoRun /\ run[k].step \in {"calls", "write", "stray"}
           /\ run'[k] # NoRun =>
                 /\ run'[k].op = run[k].op /\ run'[k].ids = run[k].ids /\ run'[k].left \subseteq run[k].left
                 /\ run'[k].step = "stray" /\ run'[k].seen = run[k].seen
           /\ \A j \in Runs \ {k} :
                 RunKept(j) /\ (InStep(j, "read") => ~run'[j].clean)
<1>1. PICK r \in Run : r = run[k] /\ r.step \in {"calls", "write", "stray"} /\ run[k] # NoRun
  BY RunFields DEF EntityTypes, ServeStray, Abandon, InStep
<1>2. PICK left \in SUBSET r.left : left = r.left \ {x}
  OBVIOUS
<1>3. PICK q \in Run : /\ q.op = r.op /\ q.ids = r.ids /\ q.left \subseteq r.left /\ q.step = "stray" /\ q.seen = r.seen
                       /\ \/ run' = Overtaken([run EXCEPT ![k] = NoRun])
                          \/ run' = Overtaken([run EXCEPT ![k] = q])
  <2>1. CASE ServeStray(k, x)
    <3>1. r.step = "stray"
      BY <1>1, <2>1 DEF ServeStray, InStep
    <3>2. PICK q \in Run : q = [r EXCEPT !.left = left]
      BY <1>1, <1>2, RunFields DEF Run
    <3>3. Answered(run[k], x) = q
      BY <1>1, <1>2, <3>2 DEF Answered, Run
    <3>4. q.op = r.op /\ q.ids = r.ids /\ q.left \subseteq r.left /\ q.step = "stray" /\ q.seen = r.seen
      BY <3>1, <3>2 DEF Run
    <3>5. run' = Overtaken([run EXCEPT ![k] = IF run[k].left = {x} THEN NoRun ELSE q])
      BY <2>1, <3>3 DEF ServeStray
    <3> QED BY <3>4, <3>5
  <2>2. CASE Abandon(k, x)
    <3>1. PICK q \in Run : q = [r EXCEPT !.left = left, !.step = "stray"]
      BY <1>1, <1>2, RunFields DEF Run
    <3>2. [Answered(run[k], x) EXCEPT !.step = "stray"] = q
      BY <1>1, <1>2, <3>1 DEF Answered, Run
    <3>3. q.op = r.op /\ q.ids = r.ids /\ q.left \subseteq r.left /\ q.step = "stray" /\ q.seen = r.seen
      BY <3>1 DEF Run
    <3>4. run' = Overtaken([run EXCEPT ![k] = IF run[k].left \ {x} = {} THEN NoRun ELSE q])
      BY <2>2, <3>2 DEF Abandon
    <3> QED BY <3>3, <3>4
  <2> QED BY <2>1, <2>2
<1>4. run \in EntityRuns
  BY DEF EntityTypes, EntityRuns
<1>5. PICK runs \in EntityRuns :
         /\ runs = [run EXCEPT ![k] = NoRun] \/ runs = [run EXCEPT ![k] = q]
         /\ run' = Overtaken(runs)
  BY <1>3, <1>4 DEF EntityRuns
<1>6. runs[k] # NoRun => runs[k] = q
  BY <1>5 DEF EntityTypes
<1>7. \A j \in Runs \ {k} : runs[j] = run[j]
  BY <1>5 DEF EntityTypes
<1>8. ASSUME NEW j \in Runs \ {k}
      PROVE  RunKept(j) /\ (InStep(j, "read") => ~run'[j].clean)
  BY <1>5, <1>7, OvertakenEffect DEF RunKept, InStep
<1>9. run'[k] # NoRun =>
         /\ run'[k].op = run[k].op /\ run'[k].ids = run[k].ids /\ run'[k].left \subseteq run[k].left
         /\ run'[k].step = "stray" /\ run'[k].seen = run[k].seen
  BY <1>1, <1>3, <1>5, <1>6, OvertakenEffect
<1> QED BY <1>1, <1>5, <1>8, <1>9, OvertakenEffect

\* A run that loads; the loads under way are no longer clean.
LEMMA LoadEffect ==
    ASSUME EntityTypes, NEW k \in Runs, LoadEntities(k)
    PROVE  /\ run' \in EntityRuns /\ run[k] # NoRun /\ run[k].step = "calls" /\ run'[k] # NoRun
           /\ run'[k].op = run[k].op /\ run'[k].to = run[k].to /\ run'[k].ids = run[k].ids
           /\ run'[k].left = {} /\ run'[k].step = "load"
           /\ run'[k].seen = run[k].seen
           /\ run'[k].clean <=> Loads = {}
           /\ \A j \in Runs \ {k} : RunKept(j) /\ (j \in Loads => ~run'[j].clean)
<1>1. PICK r \in Run : r = run[k] /\ r.step = "calls" /\ run[k] # NoRun /\ r.left = {}
  <2>1. run[k] # NoRun /\ run[k].step = "calls" /\ run[k].left = {}
    BY DEF LoadEntities, InStep
  <2> QED BY <2>1 DEF EntityTypes
<1>2. PICK free \in BOOLEAN : free = (Loads = {})
  OBVIOUS
<1>3. PICK q \in Run : q = [r EXCEPT !.step = "load", !.clean = free]
  BY DEF Run
<1>4. /\ q.op = r.op /\ q.to = r.to /\ q.ids = r.ids /\ q.left = r.left /\ q.step = "load"
      /\ q.seen = r.seen /\ q.clean = free
  BY <1>3 DEF Run
<1>5. run' = [i \in Runs |->
          IF i = k THEN q ELSE IF i \in Loads THEN [run[i] EXCEPT !.clean = FALSE] ELSE run[i]]
  <2>1. run' = [i \in Runs |->
          IF i = k THEN [run[k] EXCEPT !.step = "load", !.clean = (Loads = {})]
          ELSE IF i \in Loads THEN [run[i] EXCEPT !.clean = FALSE] ELSE run[i]]
    BY DEF LoadEntities
  <2> QED BY <1>1, <1>2, <1>3, <2>1
<1>6. run'[k] = q
  BY <1>5
<1>7. ASSUME NEW j \in Runs \ {k}
      PROVE  run'[j] \in Run \cup {NoRun} /\ RunKept(j) /\ (j \in Loads => ~run'[j].clean)
  <2>1. CASE j \in Loads
    <3>1. PICK a \in Run : a = run[j]
      BY <2>1 DEF EntityTypes, Loads, InStep
    <3>2. PICK b \in Run : b = [a EXCEPT !.clean = FALSE]
      BY DEF Run
    <3>3. run'[j] = b
      BY <1>5, <2>1, <3>1, <3>2
    <3>4. /\ b.op = a.op /\ b.to = a.to /\ b.ids = a.ids /\ b.step = a.step /\ b.seen = a.seen /\ b.left = a.left
          /\ ~b.clean
      BY <3>2 DEF Run
    <3> QED BY <3>1, <3>3, <3>4, NoRunIsNone DEF RunKept
  <2>2. CASE j \notin Loads
    BY <1>5, <2>2 DEF EntityTypes, RunKept
  <2> QED BY <2>1, <2>2
<1>8. run' \in EntityRuns
  <2>1. \A j \in Runs : run'[j] \in Run \cup {NoRun}
    BY <1>6, <1>7
  <2> QED BY <1>5, <2>1 DEF EntityRuns
<1>9. run'[k].clean <=> Loads = {}
  BY <1>2, <1>4, <1>6
<1> QED BY <1>1, <1>4, <1>6, <1>7, <1>8, <1>9, NoRunIsNone

LEMMA ListEffect ==
    ASSUME EntityTypes, NEW k \in Runs, ListEntities(k)
    PROVE  /\ run' \in EntityRuns /\ run[k] # NoRun /\ run[k].step = "load" /\ run'[k] # NoRun
           /\ run'[k].op = run[k].op /\ run'[k].to = run[k].to /\ run'[k].ids = run[k].ids
           /\ run'[k].left = run[k].left /\ run'[k].step = "read"
           /\ run'[k].seen = entity /\ run'[k].clean = run[k].clean
           /\ \A j \in Runs \ {k} : run'[j] = run[j]
<1>1. PICK r \in Run : r = run[k] /\ r.step = "load" /\ run[k] # NoRun
  BY DEF EntityTypes, ListEntities, InStep
<1>2. PICK q \in Run : q = [r EXCEPT !.step = "read", !.seen = entity]
  BY DEF Run, EntityTypes
<1>3. run' = [run EXCEPT ![k] = q]
  BY <1>1, <1>2 DEF ListEntities, EntityTypes
<1>4. /\ q.op = r.op /\ q.to = r.to /\ q.ids = r.ids /\ q.left = r.left /\ q.step = "read" /\ q.seen = entity /\ q.clean = r.clean
  BY <1>2 DEF Run
<1> QED BY <1>1, <1>3, <1>4, NoRunIsNone DEF EntityTypes, EntityRuns

LEMMA EndRunEffect ==
    ASSUME EntityTypes, NEW k \in Runs, ShowEntities(k) \/ ListFails(k)
    PROVE  /\ run' \in EntityRuns /\ k \in Loads /\ run'[k] = NoRun
           /\ \A j \in Runs \ {k} : run'[j] = run[j]
           /\ loading' = FALSE /\ selected' \subseteq selected /\ requests' \subseteq Entities
           /\ pending' \in BOOLEAN /\ UNCHANGED <<kind, entity, acts>>
<1>1. EndRun(k) /\ k \in Loads
  BY DEF ShowEntities, ListFails, Loads
<1>2. AllPending \subseteq Entities
  BY DEF AllPending
<1> QED BY <1>1, <1>2 DEF EndRun, EntityTypes, EntityRuns

\* The only call of approve or reject ends its run.
LEMMA AbandonEnds ==
    ASSUME EntityTypes, NEW k \in Runs, NEW x \in Entities, Abandon(k, x), run[k].left \ {x} = {}
    PROVE  run'[k] = NoRun
<1>1. PICK runs \in EntityRuns : runs = [run EXCEPT ![k] = NoRun]
  BY DEF EntityTypes, EntityRuns
<1>2. run' = Overtaken(runs) /\ runs[k] = NoRun
  BY <1>1 DEF Abandon, EntityTypes
<1> QED BY <1>2, OvertakenEffect

\* What the operator does begins a run.
LEMMA OperateBegins ==
    ASSUME EntityTypes, NEW k \in Runs, Operate(k)
    PROVE  \E ids \in SUBSET Entities, op \in {"create", "edit", "status", "delete", "decide"},
              to \in EntityStatus \cup {"none"} :
              Begin(k, op, ids, to) /\ (op = "decide" => to # "none" /\ \A x, y \in ids : x = y)
<1>1. BulkIds \subseteq Entities
  BY DEF BulkIds, EntityTypes
<1>2. CASE Bulk(k)
  BY <1>1, <1>2 DEF Bulk, EntityStatus
<1>3. ASSUME NEW x \in Entities,
             Create(k, x) \/ EditEntity(k, x) \/ RowStatus(k, x) \/ RowDelete(k, x) \/ Decision(k, x)
      PROVE  \E ids \in SUBSET Entities, op \in {"create", "edit", "status", "delete", "decide"},
                to \in EntityStatus \cup {"none"} :
                Begin(k, op, ids, to) /\ (op = "decide" => to # "none" /\ \A y, z \in ids : y = z)
  BY <1>3 DEF Create, EditEntity, RowStatus, RowDelete, Decision, EntityStatus
<1> QED BY <1>2, <1>3 DEF Operate

LEMMA EntityStaysTyped ==
    ASSUME EntityTypes, [EntityNext]_entityVars
    PROVE  EntityTypes'
<1>0. EntityTypes
  OBVIOUS
<1>1. ASSUME NEW S \in SUBSET Entities, TickEntities(S)
      PROVE  EntityTypes'
  BY <1>0, <1>1 DEF TickEntities, EntityTypes
<1>2. ASSUME NEW k \in Runs, NEW ids \in SUBSET Entities,
             NEW op \in {"mount", "create", "edit", "status", "delete", "decide"},
             NEW to \in EntityStatus \cup {"none"}, Begin(k, op, ids, to)
      PROVE  EntityTypes'
  BY <1>0, <1>2, BeginEffect DEF EntityTypes, EntityRuns
<1>3. ASSUME NEW k \in Runs, Operate(k)
      PROVE  EntityTypes'
  <2>1. PICK ids \in SUBSET Entities, op \in {"create", "edit", "status", "delete", "decide"},
              to \in EntityStatus \cup {"none"} : Begin(k, op, ids, to)
    BY <1>0, <1>3, OperateBegins
  <2> QED BY <1>2, <2>1
<1>4. ASSUME NEW k \in Runs, NEW x \in Entities, ServeCall(k, x) \/ RefuseDelete(k, x) \/ ServeStray(k, x)
      PROVE  entity' \in EntityTable
  <2>1. run[k] # NoRun
    BY <1>4 DEF ServeCall, RefuseDelete, ServeStray, InStep
  <2>2. run[k].to \in EntityStatus \cup {"none"}
    BY <1>0, <2>1, RunFields DEF EntityTypes
  <2>3. AfterCall(run[k], x) \in EntityTable
    BY <1>0, <2>2 DEF AfterCall, EntityTypes, EntityTable
  <2> QED BY <1>0, <1>4, <2>3 DEF ServeCall, RefuseDelete, ServeStray, EntityTypes
<1>5. ASSUME NEW k \in Runs, NEW x \in Entities, ServeCall(k, x) \/ RefuseDelete(k, x)
      PROVE  EntityTypes'
  <2>1. run' \in EntityRuns
    BY <1>0, <1>5, CallsEffect
  <2>2. entity' \in EntityTable
    BY <1>4, <1>5
  <2> QED BY <1>0, <1>5, <2>1, <2>2 DEF ServeCall, RefuseDelete, EntityTypes, EntityRuns
<1>6. ASSUME NEW k \in Runs, CheckDecision(k) \/ WriteDecision(k)
      PROVE  EntityTypes'
  <2>1. run' \in EntityRuns
    BY <1>0, <1>6, CallsEffect
  <2>2. run[k].to \in EntityStatus \cup {"none"}
    BY <1>0, <1>6, RunFields DEF EntityTypes, CheckDecision, WriteDecision, InStep
  <2>3. entity' \in EntityTable
    BY <1>0, <1>6, <2>2 DEF CheckDecision, WriteDecision, EntityTypes, EntityTable
  <2> QED BY <1>0, <1>6, <2>1, <2>3 DEF CheckDecision, WriteDecision, EntityTypes, EntityRuns
<1>7. ASSUME NEW k \in Runs, NEW x \in Entities, ServeStray(k, x) \/ Abandon(k, x)
      PROVE  EntityTypes'
  <2>1. run' \in EntityRuns /\ run[k] # NoRun
    BY <1>0, <1>7, AstrayEffect
  <2>2. run[k].ids \subseteq Entities
    BY <1>0, <2>1, RunFields DEF EntityTypes
  <2>3. entity' \in EntityTable
    BY <1>0, <1>4, <1>7 DEF Abandon, EntityTypes
  <2> QED BY <1>0, <1>7, <2>1, <2>2, <2>3 DEF ServeStray, Abandon, EntityTypes, EntityRuns
<1>8. ASSUME NEW k \in Runs, LoadEntities(k)
      PROVE  EntityTypes'
  <2>1. run' \in EntityRuns
    BY <1>0, <1>8, LoadEffect
  <2>2. AllPending \subseteq Entities
    BY DEF AllPending
  <2>3. requests' \subseteq Entities
    BY <1>0, <1>8, <2>2 DEF LoadEntities, EntityTypes
  <2>4. /\ crossed' = (crossed \/ Loads # {})
        /\ loading' = TRUE /\ failed' = FALSE
        /\ pending' = (pending /\ run[k].op # "delete")
        /\ UNCHANGED <<kind, entity, data, selected, behind, acts>>
    BY <1>8 DEF LoadEntities
  <2> QED BY <1>0, <2>1, <2>3, <2>4 DEF EntityTypes, EntityRuns
<1>9. ASSUME NEW k \in Runs, ListEntities(k)
      PROVE  EntityTypes'
  BY <1>0, <1>9, ListEffect DEF ListEntities, EntityTypes, EntityRuns
<1>10. ASSUME NEW k \in Runs, ShowEntities(k) \/ ListFails(k)
       PROVE  EntityTypes'
  <2>1. /\ run' \in EntityRuns /\ k \in Loads
        /\ loading' = FALSE /\ selected' \subseteq selected /\ requests' \subseteq Entities
        /\ pending' \in BOOLEAN /\ UNCHANGED <<kind, entity, acts>>
    BY <1>0, <1>10, EndRunEffect
  <2>2. run[k].seen \in EntityTable /\ run[k].clean \in BOOLEAN
    BY <1>0, <2>1, RunFields DEF EntityTypes, Loads, InStep
  <2>3. data' \in EntityTable /\ failed' \in BOOLEAN /\ crossed' \in BOOLEAN /\ behind' \subseteq Entities
    BY <1>0, <1>10, <2>2 DEF ShowEntities, ListFails, DataAfterLoad, DataAfterError, EntityTypes
  <2> QED BY <1>0, <2>1, <2>3 DEF EntityTypes, EntityRuns
<1>11. ASSUME NEW x \in Entities, OtherWrite(x)
       PROVE  EntityTypes'
  <2>1. run' \in EntityRuns
    BY <1>0, <1>11, OvertakenEffect DEF OtherWrite, EntityTypes, EntityRuns
  <2>2. entity' \in EntityTable
    BY <1>0, <1>11 DEF OtherWrite, EntityTypes, EntityTable, EntityStatus
  <2> QED BY <1>0, <1>11, <2>1, <2>2, EntityAssumption DEF OtherWrite, EntityTypes, EntityRuns
<1>12. CASE UNCHANGED entityVars
  BY <1>0, <1>12 DEF entityVars, EntityTypes
<1> QED BY <1>1, <1>2, <1>3, <1>5, <1>6, <1>7, <1>8, <1>9, <1>10, <1>11, <1>12 DEF EntityNext, Answer
\* Whether a table shows a row as it is stored.
MatchesStored(x, table) == IF Exists(x) THEN table[x] = entity[x] ELSE table[x] \notin EntityStatus

\* A run that will load later may still change a row.
Changing(x) == \E k \in Runs : (InStep(k, "calls") \/ InStep(k, "write")) /\ x \in run[k].ids

\* The mount calls nothing, and approve and reject call once.
RunFits(k) ==
    run[k] # NoRun =>
        /\ run[k].left \subseteq run[k].ids
        /\ run[k].op = "mount" => run[k].ids = {}
        /\ run[k].op = "decide" =>
              run[k].step # "stray" /\ run[k].to # "none" /\ \A x, y \in run[k].ids : x = y
        /\ run[k].step = "write" => run[k].op = "decide"

\* A clean load is alone, and so is any load while none has overlapped.
LoadsApart ==
    /\ \A k \in Loads : run[k].clean => loading /\ \A j \in Loads : j = k
    /\ ~crossed => \A k \in Loads : loading /\ \A j \in Loads : j = k

ReadFits(k) ==
    InStep(k, "read") =>
        \A x \in Entities : (run[k].clean \/ (~crossed /\ x \notin behind))
                                => Changing(x) \/ MatchesStored(x, run[k].seen)

ShownFits ==
    (TableShown /\ ~crossed) => \A x \in Entities \ behind : Changing(x) \/ MatchesStored(x, data)

\* What is ticked or shown exists or has existed, and the next load shows it if it exists.
TickFits(x) ==
    /\ entity[x] = "none" =>
          /\ x \notin selected \cup OnScreen
          /\ \A k \in Runs : run[k] # NoRun => run[k].seen[x] \notin EntityStatus
    /\ (x \in selected \cup OnScreen /\ Exists(x)) =>
          \A k \in Runs : (InStep(k, "read") /\ (~crossed \/ run[k].clean)) => run[k].seen[x] \in EntityStatus

EntityInv ==
    /\ EntityTypes /\ LoadsApart /\ ShownFits /\ HiddenTicksAreGone
    /\ \A k \in Runs : RunFits(k) /\ ReadFits(k)
    /\ \A x \in Entities : TickFits(x)

LEMMA RunsStayFit ==
    ASSUME EntityInv, [EntityNext]_entityVars
    PROVE  \A k \in Runs : RunFits(k)'
<1>0. EntityTypes /\ \A k \in Runs : RunFits(k)
  BY DEF EntityInv
<1>1. ASSUME NEW i \in Runs, \A j \in Runs \ {i} : RunKept(j) \/ run'[j] = run[j], RunFits(i)'
      PROVE  \A k \in Runs : RunFits(k)'
  <2> SUFFICES ASSUME NEW j \in Runs \ {i}
               PROVE  RunFits(j)'
    BY <1>1
  <2> QED BY <1>0, <1>1 DEF RunFits, RunKept
<1>2. ASSUME NEW i \in Runs, Operate(i)
      PROVE  \A k \in Runs : RunFits(k)'
  <2>1. PICK ids \in SUBSET Entities, op \in {"create", "edit", "status", "delete", "decide"},
              to \in EntityStatus \cup {"none"} :
           Begin(i, op, ids, to) /\ (op = "decide" => to # "none" /\ \A x, y \in ids : x = y)
    BY <1>0, <1>2, OperateBegins
  <2>o. op \in {"mount", "create", "edit", "status", "delete", "decide"} /\ op # "mount"
    OBVIOUS
  <2>2. /\ run'[i].op = op /\ run'[i].to = to /\ run'[i].ids = ids /\ run'[i].left = ids /\ run'[i].step = "calls"
        /\ \A j \in Runs \ {i} : run'[j] = run[j]
    BY <1>0, <2>o, <2>1, BeginEffect
  <2>3. RunFits(i)'
    BY <2>o, <2>1, <2>2 DEF RunFits
  <2> QED BY <1>1, <2>2, <2>3
<1>3. ASSUME NEW i \in Runs,
             \/ \E x \in Entities : ServeCall(i, x) \/ RefuseDelete(i, x)
             \/ CheckDecision(i) \/ WriteDecision(i)
      PROVE  \A k \in Runs : RunFits(k)'
  <2>1. /\ run[i] # NoRun /\ run'[i].op = run[i].op /\ run'[i].to = run[i].to /\ run'[i].ids = run[i].ids
        /\ run'[i].left \subseteq run[i].left /\ run'[i].step \in {"calls", "write"}
        /\ run'[i].step = "write" => run[i].op = "decide"
        /\ \A j \in Runs \ {i} : run'[j] = run[j]
    BY <1>0, <1>3, CallsEffect
  <2>2. RunFits(i)'
    BY <1>0, <2>1 DEF RunFits
  <2> QED BY <1>1, <2>1, <2>2
<1>4. ASSUME NEW i \in Runs, NEW x \in Entities, ServeStray(i, x) \/ Abandon(i, x)
      PROVE  \A k \in Runs : RunFits(k)'
  <2>1. /\ run[i] # NoRun
        /\ run'[i] # NoRun =>
              /\ run'[i].op = run[i].op /\ run'[i].ids = run[i].ids /\ run'[i].left \subseteq run[i].left
              /\ run'[i].step = "stray"
        /\ \A j \in Runs \ {i} : RunKept(j)
    BY <1>0, <1>4, AstrayEffect
  <2>2. run[i].op = "decide" => run'[i] = NoRun
    <3>1. CASE ServeStray(i, x)
      BY <1>0, <2>1, <3>1 DEF ServeStray, InStep, RunFits
    <3>2. CASE Abandon(i, x) /\ run[i].op = "decide"
      <4>1. run[i].left \ {x} = {}
        BY <1>0, <2>1, <3>2 DEF Abandon, RunFits
      <4> QED BY <1>0, <3>2, <4>1, AbandonEnds
    <3> QED BY <1>4, <3>1, <3>2
  <2>3. RunFits(i)'
    BY <1>0, <2>1, <2>2 DEF RunFits
  <2> QED BY <1>1, <2>1, <2>3
<1>5. ASSUME NEW i \in Runs, LoadEntities(i)
      PROVE  \A k \in Runs : RunFits(k)'
  <2>1. /\ run[i] # NoRun /\ run'[i].op = run[i].op /\ run'[i].to = run[i].to
        /\ run'[i].ids = run[i].ids /\ run'[i].left = {}
        /\ run'[i].step = "load"
        /\ \A j \in Runs \ {i} : RunKept(j)
    BY <1>0, <1>5, LoadEffect
  <2>2. RunFits(i)'
    BY <1>0, <2>1 DEF RunFits
  <2> QED BY <1>1, <2>1, <2>2
<1>6. ASSUME NEW i \in Runs, ListEntities(i)
      PROVE  \A k \in Runs : RunFits(k)'
  <2>1. /\ run[i] # NoRun /\ run'[i].op = run[i].op /\ run'[i].to = run[i].to /\ run'[i].ids = run[i].ids
        /\ run'[i].left = run[i].left /\ run'[i].step = "read"
        /\ \A j \in Runs \ {i} : run'[j] = run[j]
    BY <1>0, <1>6, ListEffect
  <2>2. RunFits(i)'
    BY <1>0, <2>1 DEF RunFits
  <2> QED BY <1>1, <2>1, <2>2
<1>7. ASSUME NEW i \in Runs, ShowEntities(i) \/ ListFails(i)
      PROVE  \A k \in Runs : RunFits(k)'
  <2>1. run'[i] = NoRun /\ \A j \in Runs \ {i} : run'[j] = run[j]
    BY <1>0, <1>7, EndRunEffect
  <2> QED BY <1>1, <2>1 DEF RunFits
<1>8. ASSUME NEW x \in Entities, OtherWrite(x)
      PROVE  \A k \in Runs : RunFits(k)'
  <2>1. run \in EntityRuns /\ run' = Overtaken(run)
    BY <1>0, <1>8 DEF OtherWrite, EntityTypes, EntityRuns
  <2> QED BY <1>0, <2>1, OvertakenEffect DEF RunFits
<1>9. ASSUME UNCHANGED run
      PROVE  \A k \in Runs : RunFits(k)'
  BY <1>0, <1>9 DEF RunFits
<1>10. ASSUME NEW S \in SUBSET Entities, TickEntities(S)
       PROVE  \A k \in Runs : RunFits(k)'
  BY <1>9, <1>10 DEF TickEntities
<1>11. CASE UNCHANGED entityVars
  BY <1>9, <1>11 DEF entityVars
<1> QED BY <1>2, <1>3, <1>4, <1>5, <1>6, <1>7, <1>8, <1>10, <1>11 DEF EntityNext, Answer

\* A row that is gone stays gone, and one that exists keeps existing or is gone.
LEMMA RowsComeOnce ==
    ASSUME EntityInv, [EntityNext]_entityVars
    PROVE  \A x \in Entities :
              /\ entity'[x] = "none" => entity[x] = "none"
              /\ entity'[x] \in EntityStatus => Exists(x) \/ entity[x] = "none"
<1>0. EntityTypes /\ (\A k \in Runs : RunFits(k)) /\ "none" \notin EntityStatus /\ "gone" \notin EntityStatus
  BY DEF EntityInv, EntityStatus
<1>1. ASSUME UNCHANGED entity
      PROVE  \A x \in Entities :
                /\ entity'[x] = "none" => entity[x] = "none"
                /\ entity'[x] \in EntityStatus => Exists(x) \/ entity[x] = "none"
  BY <1>1 DEF Exists
<1>2. ASSUME NEW k \in Runs, NEW z \in Entities, run[k] # NoRun, z \in run[k].left,
             run[k].op # "decide", AcceptsCall(run[k].op, z), entity' = AfterCall(run[k], z)
      PROVE  \A x \in Entities :
                /\ entity'[x] = "none" => entity[x] = "none"
                /\ entity'[x] \in EntityStatus => Exists(x) \/ entity[x] = "none"
  <2>1. run[k].op \in {"create", "edit", "status", "delete"}
    BY <1>0, <1>2, RunFields DEF RunFits, EntityTypes
  <2>2. Exists(z) \/ entity[z] = "none"
    BY <1>2, <2>1 DEF AcceptsCall
  <2>3. run[k].to \in EntityStatus \cup {"none"}
    BY <1>0, <1>2, RunFields DEF EntityTypes
  <2> QED BY <1>0, <1>2, <2>2, <2>3 DEF AfterCall, EntityTypes, EntityTable, Exists
<1>3. ASSUME NEW k \in Runs, NEW z \in Entities, ServeCall(k, z) \/ ServeStray(k, z)
      PROVE  \A x \in Entities :
                /\ entity'[x] = "none" => entity[x] = "none"
                /\ entity'[x] \in EntityStatus => Exists(x) \/ entity[x] = "none"
  <2>1. CASE ServeCall(k, z)
    BY <1>2, <1>3, <2>1 DEF ServeCall, InStep
  <2>2. CASE ServeStray(k, z)
    <3>1. run[k] # NoRun /\ z \in run[k].left /\ run[k].op # "decide"
      BY <1>0, <2>2 DEF ServeStray, InStep, RunFits
    <3> QED BY <1>1, <1>2, <2>2, <3>1 DEF ServeStray
  <2> QED BY <1>3, <2>1, <2>2
<1>4. ASSUME NEW k \in Runs, WriteDecision(k)
      PROVE  \A x \in Entities :
                /\ entity'[x] = "none" => entity[x] = "none"
                /\ entity'[x] \in EntityStatus => Exists(x) \/ entity[x] = "none"
  <2>1. /\ run[k] # NoRun /\ run[k].step = "write"
        /\ \A x \in run[k].left : Exists(x)
        /\ entity' = [x \in Entities |-> IF x \in run[k].left THEN run[k].to ELSE entity[x]]
    BY <1>4 DEF WriteDecision, InStep
  <2>2. run[k].to # "none"
    BY <1>0, <2>1 DEF RunFits
  <2> QED BY <1>0, <2>1, <2>2 DEF Exists
<1>5. ASSUME NEW z \in Entities, OtherWrite(z)
      PROVE  \A x \in Entities :
                /\ entity'[x] = "none" => entity[x] = "none"
                /\ entity'[x] \in EntityStatus => Exists(x) \/ entity[x] = "none"
  BY <1>0, <1>5 DEF OtherWrite, EntityTypes, EntityTable, Exists, EntityStatus
<1>6. CASE UNCHANGED entityVars
  BY <1>1, <1>6 DEF entityVars
<1>7. ASSUME NEW S \in SUBSET Entities, TickEntities(S)
      PROVE  UNCHANGED entity
  BY <1>7 DEF TickEntities
<1>8. ASSUME NEW k \in Runs, Operate(k)
      PROVE  UNCHANGED entity
  <2>1. PICK ids \in SUBSET Entities, op \in {"create", "edit", "status", "delete", "decide"},
              to \in EntityStatus \cup {"none"} : Begin(k, op, ids, to)
    BY <1>0, <1>8, OperateBegins
  <2> QED BY <2>1 DEF Begin
<1>9. ASSUME NEW k \in Runs, CheckDecision(k) \/ LoadEntities(k) \/ ListEntities(k) \/ ShowEntities(k) \/ ListFails(k)
      PROVE  UNCHANGED entity
  BY <1>9 DEF CheckDecision, LoadEntities, ListEntities, ShowEntities, ListFails, EndRun
<1>10. ASSUME NEW k \in Runs, NEW z \in Entities, RefuseDelete(k, z) \/ Abandon(k, z)
       PROVE  UNCHANGED entity
  BY <1>10 DEF RefuseDelete, Abandon
<1> QED BY <1>1, <1>3, <1>4, <1>5, <1>6, <1>7, <1>8, <1>9, <1>10 DEF EntityNext, Answer
\* A step that leaves the screen and the ticks alone, and the loads but for their
\* cleanliness.
Untouched ==
    /\ UNCHANGED <<data, loading, failed, selected>>
    /\ crossed => crossed'
    /\ \A j \in Runs :
          /\ j \in Loads' => j \in Loads
          /\ InStep(j, "read")' =>
                /\ InStep(j, "read") /\ run'[j].seen = run[j].seen
                /\ run'[j].clean => run[j].clean
          /\ j \in Loads' => (run'[j].clean => run[j].clean)
          /\ run'[j] # NoRun => (run[j] # NoRun /\ run'[j].seen = run[j].seen) \/ run'[j].seen = NoTable

\* Rows that change are about to be loaded, or marked; and then no load is clean.
Marked ==
    /\ behind \subseteq behind'
    /\ \A x \in Entities :
          \/ x \in behind' /\ \A j \in Runs : InStep(j, "read")' => ~run'[j].clean
          \/ (Changing(x) => Changing(x)') /\ (entity'[x] = entity[x] \/ Changing(x)')

LEMMA UntouchedFits ==
    ASSUME EntityInv, [EntityNext]_entityVars, Untouched, Marked
    PROVE  /\ LoadsApart' /\ ShownFits' /\ HiddenTicksAreGone'
           /\ \A k \in Runs : ReadFits(k)'
           /\ \A x \in Entities : TickFits(x)'
<1>0. /\ EntityTypes /\ LoadsApart /\ ShownFits /\ HiddenTicksAreGone
      /\ (\A k \in Runs : ReadFits(k)) /\ \A x \in Entities : TickFits(x)
  BY DEF EntityInv
<1>1. UNCHANGED <<data, loading, failed, selected>> /\ (crossed => crossed') /\ OnScreen' = OnScreen
  BY DEF Untouched, OnScreen
<1>2. \A j \in Loads' : j \in Runs
  BY DEF Loads
<1>3. LoadsApart'
  <2>1. \A j \in Loads' : j \in Loads /\ (run'[j].clean => run[j].clean)
    BY <1>2 DEF Untouched
  <2> QED BY <1>0, <1>1, <2>1 DEF LoadsApart
<1>4. ASSUME NEW x \in Entities, NEW table, Changing(x) \/ MatchesStored(x, table),
             (Changing(x) => Changing(x)') /\ (entity'[x] = entity[x] \/ Changing(x)')
      PROVE  Changing(x)' \/ (IF Exists(x)' THEN table[x] = entity'[x] ELSE table[x] \notin EntityStatus)
  BY <1>4 DEF MatchesStored, Exists
<1>5. ShownFits'
  <2> SUFFICES ASSUME TableShown', ~crossed', NEW x \in Entities \ behind'
               PROVE  Changing(x)' \/ MatchesStored(x, data)'
    BY DEF ShownFits
  <2>1. Changing(x) \/ MatchesStored(x, data)
    BY <1>0, <1>1 DEF ShownFits, TableShown, Marked
  <2>2. (Changing(x) => Changing(x)') /\ (entity'[x] = entity[x] \/ Changing(x)')
    BY DEF Marked
  <2> QED BY <1>1, <1>4, <2>1, <2>2 DEF MatchesStored
<1>6. ASSUME NEW k \in Runs
      PROVE  ReadFits(k)'
  <2> SUFFICES ASSUME InStep(k, "read")', NEW x \in Entities,
                      run'[k].clean \/ (~crossed' /\ x \notin behind')
               PROVE  Changing(x)' \/ MatchesStored(x, run[k].seen)'
    BY DEF ReadFits
  <2>1. InStep(k, "read") /\ run'[k].seen = run[k].seen /\ (run'[k].clean => run[k].clean)
    BY DEF Untouched
  <2>2. (Changing(x) => Changing(x)') /\ (entity'[x] = entity[x] \/ Changing(x)')
    BY DEF Marked
  <2>3. Changing(x) \/ MatchesStored(x, run[k].seen)
    BY <1>0, <1>1, <2>1 DEF ReadFits, Marked
  <2>4. PICK table : table = run[k].seen
    OBVIOUS
  <2> QED BY <1>4, <2>1, <2>2, <2>3, <2>4 DEF MatchesStored
<1>7. \A x \in Entities :
         /\ entity'[x] = "none" => entity[x] = "none"
         /\ Exists(x)' => Exists(x) \/ entity[x] = "none"
  BY RowsComeOnce DEF Exists
<1>8. ASSUME NEW x \in Entities
      PROVE  TickFits(x)'
  <2>1. ASSUME entity'[x] = "none"
        PROVE  /\ x \notin selected' \cup OnScreen'
               /\ \A k \in Runs : run'[k] # NoRun => run'[k].seen[x] \notin EntityStatus
    <3>1. entity[x] = "none" /\ TickFits(x)
      BY <1>0, <1>7, <2>1
    <3>2. x \notin selected \cup OnScreen
      BY <3>1 DEF TickFits
    <3>3. ASSUME NEW k \in Runs, run'[k] # NoRun
          PROVE  run'[k].seen[x] \notin EntityStatus
      <4>1. CASE run'[k].seen = NoTable
        BY <4>1 DEF NoTable, EntityStatus
      <4>2. CASE run[k] # NoRun /\ run'[k].seen = run[k].seen
        BY <3>1, <4>2 DEF TickFits
      <4> QED BY <3>3, <4>1, <4>2 DEF Untouched
    <3> QED BY <1>1, <3>2, <3>3
  <2>2. ASSUME x \in selected' \cup OnScreen', Exists(x)', NEW k \in Runs, InStep(k, "read")',
               ~crossed' \/ run'[k].clean
        PROVE  run'[k].seen[x] \in EntityStatus
    <3>1. x \in selected \cup OnScreen /\ TickFits(x)
      BY <1>0, <1>1, <2>2
    <3>2. Exists(x)
      BY <1>7, <2>2, <3>1 DEF TickFits
    <3>3. InStep(k, "read") /\ run'[k].seen = run[k].seen /\ (run'[k].clean => run[k].clean)
      BY <2>2 DEF Untouched
    <3> QED BY <1>1, <2>2, <3>1, <3>2, <3>3 DEF TickFits
  <2> QED BY <2>1, <2>2 DEF TickFits
<1>9. HiddenTicksAreGone'
  <2> SUFFICES ASSUME ~crossed', NEW x \in selected' \ OnScreen'
               PROVE  ~Exists(x)'
    BY DEF HiddenTicksAreGone
  <2>1. ~crossed /\ x \in selected \ OnScreen /\ x \in Entities
    BY <1>0, <1>1 DEF EntityTypes
  <2>2. ~Exists(x) /\ entity[x] # "none"
    BY <1>0, <2>1 DEF HiddenTicksAreGone, TickFits
  <2> QED BY <1>7, <2>1, <2>2
<1> QED BY <1>3, <1>5, <1>6, <1>8, <1>9

LEMMA OperateEffect ==
    ASSUME EntityTypes, NEW k \in Runs, Operate(k)
    PROVE  /\ run[k] = NoRun /\ run'[k] # NoRun /\ run'[k].step = "calls" /\ run'[k].seen = NoTable
           /\ \A j \in Runs \ {k} : run'[j] = run[j]
           /\ UNCHANGED <<entity, data, loading, failed, selected, crossed, behind>>
<1>1. PICK ids \in SUBSET Entities, op \in {"create", "edit", "status", "delete", "decide"},
            to \in EntityStatus \cup {"none"} : Begin(k, op, ids, to)
  BY OperateBegins
<1>2. PICK r \in Run : r = [op |-> op, to |-> to, ids |-> ids, left |-> ids, step |-> "calls",
                             seen |-> NoTable, clean |-> TRUE]
  BY DEF Run, NoTable, EntityTable
<1>3. run' = [run EXCEPT ![k] = r] /\ run[k] = NoRun
  BY <1>1, <1>2 DEF Begin
<1>4. r.step = "calls" /\ r.seen = NoTable /\ r # NoRun
  BY <1>2, NoRunIsNone
<1>5. UNCHANGED <<entity, data, loading, failed, selected, crossed, behind>>
  BY <1>1 DEF Begin
<1> QED BY <1>3, <1>4, <1>5 DEF EntityTypes

LEMMA QuietStepsFit ==
    ASSUME EntityInv, [EntityNext]_entityVars,
           \/ \E k \in Runs :
                 \/ Operate(k) \/ CheckDecision(k) \/ WriteDecision(k)
                 \/ \E x \in Entities :
                       ServeCall(k, x) \/ RefuseDelete(k, x) \/ ServeStray(k, x) \/ Abandon(k, x)
           \/ \E x \in Entities : OtherWrite(x)
           \/ UNCHANGED entityVars
    PROVE  Untouched /\ Marked
<1>0. EntityTypes /\ \A k \in Runs : RunFits(k)
  BY DEF EntityInv
<1>1. ASSUME NEW k \in Runs, Operate(k)
      PROVE  Untouched /\ Marked
  <2>1. /\ run[k] = NoRun /\ run'[k] # NoRun /\ run'[k].step = "calls" /\ run'[k].seen = NoTable
        /\ \A j \in Runs \ {k} : run'[j] = run[j]
        /\ UNCHANGED <<entity, data, loading, failed, selected, crossed, behind>>
    BY <1>0, <1>1, OperateEffect
  <2>2. Untouched
    BY <2>1 DEF Untouched, Loads, InStep
  <2>3. ASSUME NEW x \in Entities, Changing(x)
        PROVE  Changing(x)'
    BY <2>1, <2>3 DEF Changing, InStep
  <2> QED BY <2>1, <2>2, <2>3 DEF Marked
<1>2. ASSUME NEW k \in Runs,
             \/ \E x \in Entities : ServeCall(k, x) \/ RefuseDelete(k, x)
             \/ CheckDecision(k) \/ WriteDecision(k)
      PROVE  Untouched /\ Marked
  <2>1. /\ run[k] # NoRun /\ run'[k] # NoRun
        /\ run'[k].ids = run[k].ids
        /\ run[k].step \in {"calls", "write"} /\ run'[k].step \in {"calls", "write"}
        /\ run'[k].seen = run[k].seen
        /\ \A j \in Runs \ {k} : run'[j] = run[j]
    BY <1>0, <1>2, CallsEffect
  <2>2. UNCHANGED <<data, loading, failed, selected, crossed, behind>>
    BY <1>2 DEF ServeCall, RefuseDelete, CheckDecision, WriteDecision
  <2>3. Untouched
    BY <2>1, <2>2 DEF Untouched, Loads, InStep
  <2>4. ASSUME NEW x \in Entities
        PROVE  /\ Changing(x) => Changing(x)'
               /\ x \in run[k].ids => Changing(x)'
    BY <2>1 DEF Changing, InStep
  <2>5. run[k].left \subseteq run[k].ids
    BY <1>0, <2>1 DEF RunFits
  <2>6. ASSUME NEW x \in Entities, x \notin run[k].left
        PROVE  entity'[x] = entity[x]
    <3>1. ASSUME NEW z \in Entities, ServeCall(k, z)
          PROVE  entity'[x] = entity[x]
      <4>1. entity' = AfterCall(run[k], z) /\ x # z
        BY <2>6, <3>1 DEF ServeCall
      <4> QED BY <1>0, <4>1 DEF AfterCall, EntityTypes, EntityTable
    <3>2. ASSUME NEW z \in Entities, RefuseDelete(k, z)
          PROVE  entity'[x] = entity[x]
      BY <3>2 DEF RefuseDelete
    <3>3. CASE CheckDecision(k)
      BY <3>3 DEF CheckDecision
    <3>4. CASE WriteDecision(k)
      <4>1. entity' = [y \in Entities |-> IF y \in run[k].left THEN run[k].to ELSE entity[y]]
        BY <3>4 DEF WriteDecision
      <4> QED BY <2>6, <4>1
    <3> QED BY <1>2, <3>1, <3>2, <3>3, <3>4
  <2> QED BY <2>2, <2>3, <2>4, <2>5, <2>6 DEF Marked
<1>3. ASSUME NEW k \in Runs, NEW z \in Entities, ServeStray(k, z) \/ Abandon(k, z)
      PROVE  Untouched /\ Marked
  <2>1. /\ run[k] # NoRun /\ run[k].step \in {"calls", "write", "stray"}
        /\ run'[k] # NoRun => run'[k].step = "stray" /\ run'[k].seen = run[k].seen
        /\ \A j \in Runs \ {k} : RunKept(j) /\ (InStep(j, "read") => ~run'[j].clean)
    BY <1>0, <1>3, AstrayEffect
  <2>2. UNCHANGED <<data, loading, failed, selected, crossed>> /\ behind \subseteq behind'
    BY <1>3 DEF ServeStray, Abandon
  <2>3. Untouched
    BY <2>1, <2>2 DEF Untouched, Loads, InStep, RunKept
  <2>4. \A j \in Runs : InStep(j, "read")' => ~run'[j].clean
    BY <2>1 DEF InStep, RunKept
  <2>5. ASSUME NEW x \in Entities \ behind'
        PROVE  (Changing(x) => Changing(x)') /\ entity'[x] = entity[x]
    <3>1. CASE ServeStray(k, z)
      <4>1. x # z /\ run[k].step = "stray"
        BY <2>5, <3>1 DEF ServeStray, InStep
      <4>2. entity'[x] = entity[x]
        BY <1>0, <3>1, <4>1 DEF ServeStray, AfterCall, EntityTypes, EntityTable
      <4>3. Changing(x) => Changing(x)'
        BY <2>1, <4>1 DEF Changing, InStep, RunKept
      <4> QED BY <4>2, <4>3
    <3>2. CASE Abandon(k, z)
      <4>1. x \notin run[k].ids /\ entity' = entity
        BY <2>5, <3>2 DEF Abandon
      <4>2. Changing(x) => Changing(x)'
        BY <2>1, <4>1 DEF Changing, InStep, RunKept
      <4> QED BY <4>1, <4>2
    <3> QED BY <1>3, <3>1, <3>2
  <2> QED BY <2>2, <2>3, <2>4, <2>5 DEF Marked
<1>4. ASSUME NEW z \in Entities, OtherWrite(z)
      PROVE  Untouched /\ Marked
  <2>1. run \in EntityRuns /\ run' = Overtaken(run)
    BY <1>0, <1>4 DEF OtherWrite, EntityTypes, EntityRuns
  <2>2. \A j \in Runs : RunKept(j) /\ (InStep(j, "read") => ~run'[j].clean)
    BY <2>1, OvertakenEffect DEF RunKept, InStep
  <2>3. UNCHANGED <<data, loading, failed, selected, crossed>> /\ behind' = behind \cup {z}
    BY <1>4 DEF OtherWrite
  <2>4. Untouched
    BY <2>2, <2>3 DEF Untouched, Loads, InStep, RunKept
  <2>5. \A j \in Runs : InStep(j, "read")' => ~run'[j].clean
    BY <2>2 DEF InStep, RunKept
  <2>6. ASSUME NEW x \in Entities \ behind'
        PROVE  (Changing(x) => Changing(x)') /\ entity'[x] = entity[x]
    <3>1. x # z
      BY <2>3, <2>6
    <3>2. entity'[x] = entity[x]
      BY <1>0, <1>4, <3>1 DEF OtherWrite, EntityTypes, EntityTable
    <3>3. Changing(x) => Changing(x)'
      BY <2>2 DEF Changing, InStep, RunKept
    <3> QED BY <3>2, <3>3
  <2> QED BY <2>3, <2>4, <2>5, <2>6 DEF Marked
<1>5. CASE UNCHANGED entityVars
  <2>1. UNCHANGED <<data, loading, failed, selected, crossed, behind, run, entity>>
    BY <1>5 DEF entityVars
  <2>2. Untouched
    BY <2>1 DEF Untouched, Loads, InStep
  <2>3. Marked
    BY <2>1 DEF Marked, Changing, InStep
  <2> QED BY <2>2, <2>3
<1> QED BY <1>1, <1>2, <1>3, <1>4, <1>5

\* The steps of a load.
LEMMA LoadStepsFit ==
    ASSUME EntityInv, NEW k \in Runs, LoadEntities(k) \/ ListEntities(k) \/ ShowEntities(k) \/ ListFails(k)
    PROVE  /\ LoadsApart' /\ ShownFits' /\ HiddenTicksAreGone'
           /\ \A j \in Runs : ReadFits(j)'
           /\ \A x \in Entities : TickFits(x)'
<1>0. /\ EntityTypes /\ LoadsApart /\ ShownFits /\ HiddenTicksAreGone
      /\ (\A j \in Runs : ReadFits(j)) /\ \A x \in Entities : TickFits(x)
  BY DEF EntityInv
<1>i. \A j \in Loads : j \in Runs
  BY DEF Loads
<1>1. CASE LoadEntities(k)
  <2>1. /\ run[k] # NoRun /\ run[k].step = "calls" /\ run'[k] # NoRun
        /\ run'[k].step = "load" /\ run'[k].seen = run[k].seen
        /\ run'[k].clean <=> Loads = {}
        /\ \A j \in Runs \ {k} : RunKept(j) /\ (j \in Loads => ~run'[j].clean)
    BY <1>0, <1>1, LoadEffect
  <2>2. /\ UNCHANGED <<entity, data, selected, behind>>
        /\ crossed' = (crossed \/ Loads # {}) /\ loading' = TRUE /\ failed' = FALSE
    BY <1>1 DEF LoadEntities
  <2>3. \A j \in Runs : j \in Loads' <=> j = k \/ j \in Loads
    BY <2>1 DEF Loads, InStep, RunKept
  <2>4. \A j \in Loads' : j \in Runs
    BY DEF Loads
  <2>5. LoadsApart'
    <3>1. \A j \in Loads' : run'[j].clean => j = k /\ Loads = {}
      BY <2>1, <2>3, <2>4
    <3>2. Loads = {} => \A i, j \in Loads' : i = j
      BY <2>3, <2>4
    <3> QED BY <2>2, <3>1, <3>2 DEF LoadsApart
  <2>6. \A j \in Runs : InStep(j, "read")' => j \in Loads /\ ~run'[j].clean /\ crossed'
    <3> SUFFICES ASSUME NEW j \in Runs, InStep(j, "read")'
                 PROVE  j \in Loads /\ ~run'[j].clean /\ crossed'
      OBVIOUS
    <3>1. j # k /\ j \in Loads
      BY <2>1 DEF InStep, RunKept, Loads
    <3> QED BY <2>1, <2>2, <3>1
  <2>7. OnScreen' = OnScreen
    BY <2>2 DEF OnScreen
  <2>8. ASSUME NEW x \in Entities
        PROVE  TickFits(x)'
    <3>1. \A j \in Runs : run'[j] # NoRun => run[j] # NoRun /\ run'[j].seen = run[j].seen
      BY <2>1 DEF RunKept
    <3>2. entity'[x] = "none" =>
             /\ x \notin selected' \cup OnScreen'
             /\ \A j \in Runs : run'[j] # NoRun => run'[j].seen[x] \notin EntityStatus
      BY <1>0, <2>2, <2>7, <3>1 DEF TickFits
    <3> QED BY <2>6, <3>2 DEF TickFits
  <2>9. HiddenTicksAreGone'
    BY <1>0, <2>2, <2>7 DEF HiddenTicksAreGone, Exists
  <2> QED BY <2>2, <2>5, <2>6, <2>8, <2>9 DEF ShownFits, ReadFits, TableShown
<1>2. CASE ListEntities(k)
  <2>1. /\ run[k] # NoRun /\ run[k].step = "load" /\ run'[k] # NoRun
        /\ run'[k].ids = run[k].ids /\ run'[k].step = "read"
        /\ run'[k].seen = entity /\ run'[k].clean = run[k].clean
        /\ \A j \in Runs \ {k} : run'[j] = run[j]
    BY <1>0, <1>2, ListEffect
  <2>2. UNCHANGED <<entity, data, loading, failed, selected, crossed, behind>>
    BY <1>2 DEF ListEntities
  <2>3. \A j \in Runs : (j \in Loads' <=> j \in Loads) /\ (j # k => (InStep(j, "read")' <=> InStep(j, "read")))
    BY <2>1 DEF Loads, InStep
  <2>4. \A j \in Loads' : j \in Runs
    BY DEF Loads
  <2>5. LoadsApart'
    <3>1. \A j \in Loads' : j \in Loads /\ run'[j].clean = run[j].clean
      BY <2>1, <2>3, <2>4
    <3> QED BY <1>0, <2>2, <3>1 DEF LoadsApart
  <2>6. \A x \in Entities : (Changing(x)' <=> Changing(x)) /\ (Exists(x)' <=> Exists(x))
    BY <2>1, <2>2 DEF Changing, InStep, Exists
  <2>7. ASSUME NEW j \in Runs
        PROVE  ReadFits(j)'
    <3>1. CASE j = k
      <4>1. \A x \in Entities : MatchesStored(x, entity)
        BY DEF MatchesStored, Exists
      <4> QED BY <2>1, <2>2, <2>6, <3>1, <4>1 DEF ReadFits, MatchesStored
    <3>2. CASE j # k
      <4>1. run'[j] = run[j] /\ (InStep(j, "read")' <=> InStep(j, "read"))
        BY <2>1, <2>3, <3>2
      <4> QED BY <1>0, <2>2, <2>6, <4>1 DEF ReadFits, MatchesStored
    <3> QED BY <3>1, <3>2
  <2>8. ShownFits'
    BY <1>0, <2>2, <2>6 DEF ShownFits, TableShown, MatchesStored
  <2>9. OnScreen' = OnScreen
    BY <2>2 DEF OnScreen
  <2>10. HiddenTicksAreGone'
    BY <1>0, <2>2, <2>9 DEF HiddenTicksAreGone, Exists
  <2>11. ASSUME NEW x \in Entities
         PROVE  TickFits(x)'
    <3>1. "none" \notin EntityStatus
      BY DEF EntityStatus
    <3>2. entity[x] = "none" =>
             /\ x \notin selected \cup OnScreen
             /\ \A j \in Runs : run'[j] # NoRun => run'[j].seen[x] \notin EntityStatus
      BY <1>0, <2>1, <3>1 DEF TickFits
    <3>3. (x \in selected \cup OnScreen /\ Exists(x)) =>
             \A j \in Runs : (InStep(j, "read")' /\ (~crossed \/ run'[j].clean)) => run'[j].seen[x] \in EntityStatus
      <4> SUFFICES ASSUME x \in selected \cup OnScreen, Exists(x), NEW j \in Runs, InStep(j, "read")',
                          ~crossed \/ run'[j].clean
                   PROVE  run'[j].seen[x] \in EntityStatus
        OBVIOUS
      <4>1. CASE j = k
        BY <2>1, <4>1 DEF Exists
      <4>2. CASE j # k
        BY <1>0, <2>1, <2>3, <4>2 DEF TickFits
      <4> QED BY <4>1, <4>2
    <3> QED BY <2>2, <2>6, <2>9, <3>2, <3>3 DEF TickFits
  <2> QED BY <2>5, <2>7, <2>8, <2>10, <2>11
<1>3. CASE ShowEntities(k) \/ ListFails(k)
  <2>1. /\ k \in Loads /\ run'[k] = NoRun
        /\ \A j \in Runs \ {k} : run'[j] = run[j]
        /\ loading' = FALSE /\ selected' \subseteq selected /\ UNCHANGED entity
    BY <1>0, <1>3, EndRunEffect
  <2>2. \A j \in Runs : (j \in Loads' <=> j \in Loads /\ j # k) /\ (InStep(j, "read")' <=> InStep(j, "read") /\ j # k)
    BY <2>1 DEF Loads, InStep
  <2>3. \A j \in Loads' : j \in Runs
    BY DEF Loads
  <2>4. \A x \in Entities : (Changing(x)' <=> Changing(x)) /\ (Exists(x)' <=> Exists(x))
    <3> SUFFICES ASSUME NEW x \in Entities
                 PROVE  (Changing(x)' <=> Changing(x)) /\ (Exists(x)' <=> Exists(x))
      OBVIOUS
    <3>1. ~(InStep(k, "calls") \/ InStep(k, "write"))
      BY <2>1 DEF Loads, InStep
    <3> QED BY <2>1, <3>1 DEF Changing, InStep, Exists
  <2>5. \/ crossed' = crossed /\ behind' = behind
        \/ ShowEntities(k) /\ run[k].clean /\ crossed' = FALSE /\ behind' = {}
    <3>1. CASE ListFails(k)
      BY <3>1 DEF ListFails
    <3>2. CASE ShowEntities(k) /\ run[k].clean
      BY <3>2 DEF ShowEntities
    <3>3. CASE ShowEntities(k) /\ ~run[k].clean
      BY <1>0, <3>3 DEF ShowEntities, EntityTypes
    <3> QED BY <1>3, <3>1, <3>2, <3>3
  <2>6. \A j \in Loads' : crossed' /\ ~run[j].clean /\ ~run[k].clean /\ crossed' = crossed /\ behind' = behind
    <3> SUFFICES ASSUME NEW j \in Loads'
                 PROVE  crossed' /\ ~run[j].clean /\ ~run[k].clean /\ crossed' = crossed /\ behind' = behind
      OBVIOUS
    <3>1. j \in Loads /\ j # k
      BY <2>2, <2>3
    <3>2. crossed /\ ~run[j].clean /\ ~run[k].clean
      BY <1>0, <2>1, <3>1 DEF LoadsApart
    <3> QED BY <2>5, <3>2 DEF EntityTypes
  <2>7. LoadsApart'
    <3>1. \A j \in Loads' : crossed' /\ ~run'[j].clean
      BY <2>1, <2>2, <2>3, <2>6
    <3> QED BY <3>1 DEF LoadsApart
  <2>8. \A j \in Runs : InStep(j, "read")' => crossed' /\ ~run'[j].clean
    <3> SUFFICES ASSUME NEW j \in Runs, InStep(j, "read")'
                 PROVE  crossed' /\ ~run'[j].clean
      OBVIOUS
    <3>1. j \in Loads' /\ j # k
      BY <2>2 DEF Loads
    <3> QED BY <2>1, <2>6, <3>1
  <2>9. \A j \in Runs : ReadFits(j)'
    BY <2>8 DEF ReadFits
  <2>10. CASE ListFails(k)
    <3>1. failed' = TRUE /\ data' = data /\ UNCHANGED <<crossed, behind>>
      BY <2>10 DEF ListFails, DataAfterError
    <3>2. OnScreen' = OnScreen
      BY <3>1 DEF OnScreen
    <3>3. ASSUME NEW x \in Entities
          PROVE  TickFits(x)'
      <4>1. entity[x] = "none" =>
               /\ x \notin selected' \cup OnScreen'
               /\ \A j \in Runs : run'[j] # NoRun => run'[j].seen[x] \notin EntityStatus
        BY <1>0, <2>1, <3>2 DEF TickFits
      <4> QED BY <2>1, <2>8, <4>1 DEF TickFits
    <3>4. HiddenTicksAreGone'
      <4> SUFFICES ASSUME ~crossed', NEW x \in selected' \ OnScreen'
                   PROVE  ~Exists(x)'
        BY DEF HiddenTicksAreGone
      <4>1. x \in selected \ OnScreen /\ ~crossed
        BY <2>1, <3>1, <3>2
      <4> QED BY <1>0, <2>1, <4>1 DEF HiddenTicksAreGone, Exists
    <3> QED BY <2>7, <2>9, <3>1, <3>3, <3>4 DEF ShownFits, TableShown
  <2>11. CASE ShowEntities(k)
    <3>1. /\ data' = run[k].seen /\ InStep(k, "read")
          /\ behind' = IF run[k].clean THEN {} ELSE behind
          /\ crossed' = (crossed /\ ~run[k].clean)
      BY <2>11 DEF ShowEntities, DataAfterLoad
    <3>2. ShownFits'
      <4> SUFFICES ASSUME ~crossed', NEW x \in Entities \ behind'
                   PROVE  Changing(x)' \/ MatchesStored(x, data)'
        BY DEF ShownFits
      <4>1. run[k].clean \/ (~crossed /\ x \notin behind)
        BY <3>1
      <4>2. Changing(x) \/ MatchesStored(x, run[k].seen)
        BY <1>0, <3>1, <4>1 DEF ReadFits
      <4> QED BY <2>1, <2>4, <3>1, <4>2 DEF MatchesStored
    <3>3. OnScreen' = {x \in Entities : run[k].seen[x] \in EntityStatus}
      BY <3>1 DEF OnScreen
    <3>4. run[k] # NoRun
      BY <3>1 DEF InStep
    <3>5. ASSUME NEW x \in Entities
          PROVE  TickFits(x)'
      <4>1. entity[x] = "none" =>
               /\ x \notin selected' \cup OnScreen'
               /\ \A j \in Runs : run'[j] # NoRun => run'[j].seen[x] \notin EntityStatus
        BY <1>0, <2>1, <3>3, <3>4 DEF TickFits
      <4> QED BY <2>1, <2>8, <4>1 DEF TickFits
    <3>6. HiddenTicksAreGone'
      <4> SUFFICES ASSUME ~crossed', NEW x \in selected' \ OnScreen', Exists(x)'
                   PROVE  FALSE
        BY DEF HiddenTicksAreGone
      <4>1. x \in selected /\ Exists(x) /\ x \in Entities
        BY <1>0, <2>1 DEF EntityTypes, Exists
      <4>2. ~crossed \/ run[k].clean
        BY <3>1
      <4>3. run[k].seen[x] \in EntityStatus
        BY <1>0, <3>1, <4>1, <4>2 DEF TickFits
      <4> QED BY <3>3, <4>1, <4>3
    <3> QED BY <2>7, <2>9, <3>2, <3>5, <3>6
  <2> QED BY <1>3, <2>10, <2>11
<1> QED BY <1>1, <1>2, <1>3
LEMMA EntityInvHolds == EntitySpec => []EntityInv
<1>1. EntityInit => EntityInv
  <2> SUFFICES ASSUME EntityInit
               PROVE  EntityInv
    OBVIOUS
  <2>1. NoTable \in EntityTable
    BY DEF NoTable, EntityTable
  <2>2. PICK k \in Runs, r \in Run :
           /\ r = [op |-> "mount", to |-> "none", ids |-> {}, left |-> {}, step |-> "load",
                   seen |-> NoTable, clean |-> TRUE]
           /\ run = [i \in Runs |-> IF i = k THEN r ELSE NoRun]
    BY <2>1 DEF EntityInit, Run
  <2>3. /\ r.op = "mount" /\ r.to = "none" /\ r.ids = {} /\ r.left = {} /\ r.step = "load"
        /\ r.seen = NoTable /\ r.clean
    BY <2>2
  <2>4. ListClosed
    BY DEF EntityInit
  <2>5. EntityTypes
    <3>1. entity \in EntityTable
      BY <2>4 DEF ListClosed, EntityTable, EntityStatus
    <3>2. run \in [Runs -> Run \cup {NoRun}]
      BY <2>2
    <3> QED BY <2>1, <2>4, <3>1, <3>2 DEF ListClosed, EntityTypes
  <2>6. Loads = {k}
    BY <2>2, <2>3, NoRunIsNone DEF Loads, InStep
  <2>7. LoadsApart
    BY <2>2, <2>3, <2>4, <2>6 DEF LoadsApart, ListClosed
  <2>8. OnScreen = {} /\ \A x \in Entities : NoTable[x] \notin EntityStatus
    BY <2>4 DEF ListClosed, OnScreen, NoTable, EntityStatus
  <2>9. \A j \in Runs : run[j] # NoRun => run[j] = r
    BY <2>2
  <2>10. \A j \in Runs : RunFits(j) /\ ReadFits(j)
    BY <2>3, <2>9 DEF RunFits, ReadFits, InStep
  <2>11. \A x \in Entities : TickFits(x)
    BY <2>3, <2>4, <2>8, <2>9 DEF TickFits, ListClosed
  <2>12. ShownFits /\ HiddenTicksAreGone
    BY <2>4 DEF ShownFits, TableShown, HiddenTicksAreGone, ListClosed
  <2> QED BY <2>5, <2>7, <2>10, <2>11, <2>12 DEF EntityInv
<1>2. EntityInv /\ [EntityNext]_entityVars => EntityInv'
  <2> SUFFICES ASSUME EntityInv, [EntityNext]_entityVars
               PROVE  EntityInv'
    OBVIOUS
  <2>1. EntityTypes' /\ \A k \in Runs : RunFits(k)'
    BY EntityStaysTyped, RunsStayFit DEF EntityInv
  <2>2. ASSUME NEW S \in SUBSET Entities, TickEntities(S)
        PROVE  /\ LoadsApart' /\ ShownFits' /\ HiddenTicksAreGone'
               /\ \A k \in Runs : ReadFits(k)'
               /\ \A x \in Entities : TickFits(x)'
    <3>0. /\ EntityTypes /\ LoadsApart /\ ShownFits /\ HiddenTicksAreGone
          /\ (\A k \in Runs : ReadFits(k)) /\ \A x \in Entities : TickFits(x)
      BY DEF EntityInv
    <3>1. /\ UNCHANGED <<kind, entity, data, loading, failed, run, crossed, behind>>
          /\ selected' \subseteq selected \cup OnScreen
      BY <2>2 DEF TickEntities
    <3>2. /\ OnScreen' = OnScreen /\ Loads' = Loads
          /\ \A x \in Entities : (Changing(x)' <=> Changing(x)) /\ (Exists(x)' <=> Exists(x))
          /\ \A j \in Runs : InStep(j, "read")' <=> InStep(j, "read")
      BY <3>1 DEF OnScreen, Loads, InStep, Changing, Exists
    <3>3. LoadsApart'
      BY <3>0, <3>1, <3>2 DEF LoadsApart
    <3>4. ShownFits' /\ \A k \in Runs : ReadFits(k)'
      BY <3>0, <3>1, <3>2 DEF ShownFits, ReadFits, TableShown, MatchesStored
    <3>5. \A x \in Entities : TickFits(x)'
      BY <3>0, <3>1, <3>2 DEF TickFits
    <3>6. HiddenTicksAreGone'
      BY <3>0, <3>1, <3>2 DEF HiddenTicksAreGone, EntityTypes, Exists
    <3> QED BY <3>3, <3>4, <3>5, <3>6
  <2>3. ASSUME NEW k \in Runs, LoadEntities(k) \/ ListEntities(k) \/ ShowEntities(k) \/ ListFails(k)
        PROVE  /\ LoadsApart' /\ ShownFits' /\ HiddenTicksAreGone'
               /\ \A j \in Runs : ReadFits(j)'
               /\ \A x \in Entities : TickFits(x)'
    BY <2>3, LoadStepsFit
  <2>4. CASE \/ \E k \in Runs :
                   \/ Operate(k) \/ CheckDecision(k) \/ WriteDecision(k)
                   \/ \E x \in Entities :
                         ServeCall(k, x) \/ RefuseDelete(k, x) \/ ServeStray(k, x) \/ Abandon(k, x)
             \/ \E x \in Entities : OtherWrite(x)
             \/ UNCHANGED entityVars
    <3>1. Untouched /\ Marked
      BY <2>4, QuietStepsFit
    <3>2. /\ LoadsApart' /\ ShownFits' /\ HiddenTicksAreGone'
          /\ \A k \in Runs : ReadFits(k)'
          /\ \A x \in Entities : TickFits(x)'
      BY <3>1, UntouchedFits
    <3> QED BY <2>1, <3>2 DEF EntityInv
  <2> QED BY <2>1, <2>2, <2>3, <2>4 DEF EntityNext, Answer, EntityInv
<1> QED BY <1>1, <1>2, PTL DEF EntitySpec

\* A list screen shows what is stored once its runs have ended, for any number of
\* rows and of runs that overlap (reload of useResource, setStatus and deleteIds).
THEOREM ListsShowWhatIsStored == EntitySpec => [](EntityTypes /\ ShownRowsAreStored)
<1>1. EntityInv => EntityTypes /\ ShownRowsAreStored
  <2> SUFFICES ASSUME EntityInv, TableShown, ~crossed, \A k \in Runs : run[k] = NoRun,
                      NEW x \in Entities \ behind
               PROVE  IF Exists(x) THEN data[x] = entity[x] ELSE x \notin OnScreen
    BY DEF EntityInv, ShownRowsAreStored
  <2>1. ~Changing(x)
    BY DEF Changing, InStep
  <2>2. MatchesStored(x, data)
    BY <2>1 DEF EntityInv, ShownFits
  <2> QED BY <2>2 DEF MatchesStored, OnScreen
<1> QED BY <1>1, EntityInvHolds, PTL

\* A bulk action reaches no row that the operator cannot see, for any number of
\* rows and of runs that overlap (selectedRows of the four list screens).
THEOREM BulkActionsReachShownRows == EntitySpec => []HiddenTicksAreGone
<1>1. EntityInv => HiddenTicksAreGone
  BY DEF EntityInv
<1> QED BY <1>1, EntityInvHolds, PTL
=============================================================================
