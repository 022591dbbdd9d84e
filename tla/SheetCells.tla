----------------------------- MODULE SheetCells -----------------------------
(***************************************************************************)
(* The cells of the leads sheet that do something: a client sets the       *)
(* follow-up of a row (LeadsSheetScreen, LeadSheetService.updateFollowup), *)
(* and whoever may reveal a sensitive cell sees its plain text in a dialog *)
(* (revealCells).  The handlers keep what they captured when they were     *)
(* called; meanwhile the sheet is loaded again or the dialog is closed and *)
(* opened for another cell: its answer brings back the dialog of the call, *)
(* a failure closes the one there is.                                      *)
(*                                                                         *)
(* A row of a client's sheet is an assignment.  A shared lead may be       *)
(* assigned to two orders of one client, and then it has two rows.         *)
(*                                                                         *)
(* A row has one sensitive cell, whose plain text is named like the row.   *)
(* Notes, audit records, masks and the layout of cells are left out.       *)
(***************************************************************************)
CONSTANTS
    SheetRows,  \* the assignments of the client
    SheetLeads, \* the leads they are of
    LeadOf,     \* lead_id of an assignment
    FollowUps,  \* follow-up statuses
    NotCalled,  \* followup_status of a new assignment
    Patches     \* bound: calls of followup under way at once

ASSUME SheetAssumption ==
    /\ NotCalled \in FollowUps /\ LeadOf \in [SheetRows -> SheetLeads]
    /\ {"screen", "load"} \cap Patches = {}

VARIABLES
    stored,     \* lead_assignments.followup_status
    payload,    \* the follow-ups on the sheet, "none" before the first load
    sheetLoad,  \* the call of leads/sheet
    patches,    \* the calls of followup
    reveal,     \* the reveal dialog: its cell and the plain text it shows
    revealing,  \* the call of reveal: the cell it captured
    latest      \* history: who has the follow-up that a row has now: screen, load, calls

sheetVars == <<stored, payload, sheetLoad, patches, reveal, revealing, latest>>
-----------------------------------------------------------------------------
FollowUpRows == [SheetRows -> FollowUps]
NotLoaded == [x \in SheetRows |-> "none"]

SheetLoad == [step : {"sent", "read"}, rows : FollowUpRows \cup {NotLoaded}]
NoSheetLoad == [step |-> "none"]
SheetError == [step |-> "failed"]

Patch == [row : SheetRows, to : FollowUps, step : {"sent", "written"}]
NoPatch == [step |-> "none"]

Reveal == [row : SheetRows \cup {"none"}, plain : SheetRows \cup {"none"}]
NoReveal == [row |-> "none", plain |-> "none"]

Carriers == {"screen", "load"} \cup Patches

TableVisible == sheetLoad = NoSheetLoad /\ payload # NotLoaded
SheetIsLoading == sheetLoad.step \in {"sent", "read"}

\* Somebody hands what he has to the screen and is done.
Handed(carriers, c) ==
    (carriers \ {c, "screen"}) \cup (IF c \in carriers THEN {"screen"} ELSE {})
-----------------------------------------------------------------------------
(* The rows.  Refresh is disabled while a load is under way. *)

LoadSheet ==
    /\ ~SheetIsLoading
    /\ sheetLoad' = [step |-> "sent", rows |-> NotLoaded]
    /\ UNCHANGED <<stored, payload, patches, reveal, revealing, latest>>

ReadSheet ==
    /\ sheetLoad.step = "sent"
    /\ sheetLoad' = [sheetLoad EXCEPT !.step = "read", !.rows = stored]
    /\ latest' = [x \in SheetRows |-> latest[x] \cup {"load"}]
    /\ UNCHANGED <<stored, payload, patches, reveal, revealing>>

ShowSheet ==
    /\ sheetLoad.step = "read"
    /\ payload' = sheetLoad.rows
    /\ sheetLoad' = NoSheetLoad
    /\ latest' = [x \in SheetRows |-> Handed(latest[x], "load")]
    /\ UNCHANGED <<stored, patches, reveal, revealing>>

SheetFails ==
    /\ SheetIsLoading /\ sheetLoad' = SheetError
    /\ latest' = [x \in SheetRows |-> latest[x] \ {"load"}]
    /\ UNCHANGED <<stored, payload, patches, reveal, revealing>>
-----------------------------------------------------------------------------
(* Follow-up: handleFollowupChange and updateFollowup. *)

ChangeFollowup(k, x, to) ==
    /\ TableVisible /\ reveal = NoReveal /\ patches[k] = NoPatch
    /\ patches' = [patches EXCEPT ![k] = [row |-> x, to |-> to, step |-> "sent"]]
    /\ UNCHANGED <<stored, payload, sheetLoad, reveal, revealing, latest>>

\* The service updates the assignment.
UpdateFollowup(k) ==
    /\ patches[k].step = "sent"
    /\ stored' = [stored EXCEPT ![patches[k].row] = patches[k].to]
    /\ patches' = [patches EXCEPT ![k].step = "written"]
    /\ latest' = [latest EXCEPT ![patches[k].row] = {k}]
    /\ UNCHANGED <<payload, sheetLoad, reveal, revealing>>

\* The answer patches, in the payload of now, every row of the lead.
FollowupSet(k) ==
    LET j == patches[k]
        rows == {x \in SheetRows : LeadOf[x] = LeadOf[j.row]}
    IN
    /\ j.step = "written"
    /\ payload' = IF payload = NotLoaded THEN payload
                  ELSE [x \in SheetRows |-> IF x \in rows THEN j.to ELSE payload[x]]
    /\ patches' = [patches EXCEPT ![k] = NoPatch]
    /\ latest' = IF payload = NotLoaded THEN [x \in SheetRows |-> latest[x] \ {k}]
                 ELSE [x \in SheetRows |-> IF x \in rows THEN Handed(latest[x], k) ELSE latest[x]]
    /\ UNCHANGED <<stored, sheetLoad, reveal, revealing>>

\* Fault: the row shows the new status although the call failed.
PatchedAnyway(k) == [payload EXCEPT ![patches[k].row] = patches[k].to]
\* The catch of handleFollowupChange leaves the sheet as it is.
AfterError(k) == payload

\* The call is refused, or fails after the write, or its answer is lost.
FollowupFails(k) ==
    /\ patches[k] # NoPatch
    /\ payload' = AfterError(k)
    /\ patches' = [patches EXCEPT ![k] = NoPatch]
    /\ latest' = [x \in SheetRows |-> latest[x] \ {k}]
    /\ UNCHANGED <<stored, sheetLoad, reveal, revealing>>

\* Another page of the client.
OtherPage(x, to) ==
    /\ stored' = [stored EXCEPT ![x] = to]
    /\ latest' = [latest EXCEPT ![x] = {}]
    /\ UNCHANGED <<payload, sheetLoad, patches, reveal, revealing>>
-----------------------------------------------------------------------------
(* Reveal: handleReveal and revealCells. *)

OpenReveal(x) ==
    /\ TableVisible /\ reveal = NoReveal
    /\ reveal' = [row |-> x, plain |-> "none"]
    /\ UNCHANGED <<stored, payload, sheetLoad, patches, revealing, latest>>

CloseReveal ==
    /\ reveal # NoReveal /\ reveal' = NoReveal
    /\ UNCHANGED <<stored, payload, sheetLoad, patches, revealing, latest>>

AskReveal ==
    /\ reveal # NoReveal /\ reveal.plain = "none" /\ revealing = "none"
    /\ revealing' = reveal.row
    /\ UNCHANGED <<stored, payload, sheetLoad, patches, reveal, latest>>

\* The dialog of the call comes back, with its plain text.
Revealed(x) == [row |-> x, plain |-> x]

AnswerReveal ==
    /\ revealing # "none"
    /\ reveal' = Revealed(revealing)
    /\ revealing' = "none"
    /\ UNCHANGED <<stored, payload, sheetLoad, patches, latest>>

\* A failed call closes whatever dialog there is.
RevealFails ==
    /\ revealing # "none" /\ revealing' = "none"
    /\ reveal' = NoReveal
    /\ UNCHANGED <<stored, payload, sheetLoad, patches, latest>>
-----------------------------------------------------------------------------
SheetInit ==
    /\ stored = [x \in SheetRows |-> NotCalled]
    /\ payload = NotLoaded
    /\ sheetLoad = NoSheetLoad
    /\ patches = [k \in Patches |-> NoPatch]
    /\ reveal = NoReveal /\ revealing = "none"
    /\ latest = [x \in SheetRows |-> {}]

SheetPage == LoadSheet \/ ReadSheet \/ ShowSheet \/ SheetFails
RevealDialog == CloseReveal \/ AskReveal \/ AnswerReveal \/ RevealFails \/ \E x \in SheetRows : OpenReveal(x)
SetFollowup(k) ==
    \/ UpdateFollowup(k) \/ FollowupSet(k) \/ FollowupFails(k)
    \/ \E x \in SheetRows, to \in FollowUps : ChangeFollowup(k, x, to)

SheetNext ==
    \/ SheetPage \/ RevealDialog
    \/ \E k \in Patches : SetFollowup(k)
    \/ \E x \in SheetRows, to \in FollowUps : OtherPage(x, to)

SheetSpec == SheetInit /\ [][SheetNext]_sheetVars
-----------------------------------------------------------------------------
\* Every variable keeps the type its comment gives it.
SheetTypes ==
    /\ stored \in FollowUpRows
    /\ payload \in FollowUpRows \cup {NotLoaded}
    /\ sheetLoad \in SheetLoad \cup {NoSheetLoad, SheetError}
    /\ patches \in [Patches -> Patch \cup {NoPatch}]
    /\ reveal \in Reveal
    /\ revealing \in SheetRows \cup {"none"}
    /\ latest \in [SheetRows -> SUBSET Carriers]

\* Whatever calls and loads overlap, and whoever else writes, a row shows the
\* follow-up of its assignment if the last answer that has reached it brought
\* what was written last.  An answer reaches the other row of its lead too.
FollowupShownIsStored ==
    \A x \in SheetRows : "screen" \in latest[x] => payload[x] = stored[x]
=============================================================================
