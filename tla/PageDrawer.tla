------------------------------ MODULE PageDrawer ------------------------------
(***************************************************************************)
(* The drawers that open beside a list: LandingPageDetailSheet (metrics of *)
(* a landing page and its intake secret, which it can rotate) and          *)
(* LeadDetailSheet (the record of a lead).  A drawer keeps the row it was  *)
(* opened with; its calls are not cancelled when it is closed or opened    *)
(* for another row, and whatever is open then shows their answers.         *)
(*                                                                         *)
(* A secret is the number of times it was rotated.  The dialog that        *)
(* confirms a rotation is part of Rotate, what is counted is left out.     *)
(***************************************************************************)
EXTENDS Naturals

CONSTANTS
    Pages,     \* landing pages, or leads
    MaxTurns,  \* bound: rotations of all pages
    Reloads,   \* bound: loads of the list under way at once
    Details    \* bound: calls of a drawer under way at once

ASSUME DrawerAssumption == MaxTurns \in Nat /\ "none" \notin Pages

VARIABLES
    beside,        \* "pages" or "leads": the list with its drawer
    intakeSecret,  \* landing_pages.intake_secret
    turns,         \* rotations so far
    listed,        \* the secrets in the rows of the list
    listLoading,   \* useResource: a skeleton is shown
    listFailed,    \* useResource: an error is shown
    reloads,       \* useResource: the loads under way
    drawer,        \* the page that is open, with the secret of its row
    record,        \* the page whose metrics, or the lead whose record, is shown
    error,         \* the drawer shows an error
    rotated,       \* the fresh secret that is shown
    detail,        \* the calls for metrics or a record
    rotating,      \* the call that rotates
    others,        \* history: secrets that the operator cannot know of
    loadsCrossed,  \* history: two loads of the list overlapped
    stray,         \* history: the drawer shows the answer for an earlier opening
    outdatedRow    \* history: the drawer was opened on an outdated row

drawerVars == <<beside, intakeSecret, turns, listed, listLoading, listFailed, reloads, drawer,
                record, error, rotated, detail, rotating, others, loadsCrossed, stray, outdatedRow>>
listVars == <<listed, listLoading, listFailed, reloads, loadsCrossed>>
storeVars == <<intakeSecret, turns, others>>
-----------------------------------------------------------------------------
Secret == [page : Pages, turn : 0..MaxTurns]
NoSecret == [page |-> "none", turn |-> 0]
Closed == NoSecret
Secrets == [Pages -> 0..MaxTurns]

\* missed: pages that others changed since the load read them.
\* alone: no other load was under way since.
PageLoad == [step : {"sent", "read"}, rows : Secrets, missed : SUBSET Pages, alone : BOOLEAN]
NoPageLoad == [step |-> "none"]

\* old: the drawer was closed or opened since.
Detail == [page : Pages, old : BOOLEAN]
NoDetail == [page |-> "none"]
Rotation == [page : Pages, step : {"sent", "written"}, turn : 0..MaxTurns, old : BOOLEAN]
NoRotation == [page |-> "none"]

IsOpen == drawer # Closed
TableThere == ~listLoading /\ ~listFailed

\* What a change that the operator does not see leaves behind.
Unseen(p) ==
    /\ others' = others \cup {p}
    /\ reloads' = [k \in Reloads |->
          IF reloads[k].step = "read" THEN [reloads[k] EXCEPT !.missed = @ \cup {p}] ELSE reloads[k]]
    /\ outdatedRow' = (outdatedRow \/ drawer.page = p)
-----------------------------------------------------------------------------
(* The list: useResource. *)

LoadPages(k) ==
    /\ reloads[k] = NoPageLoad
    /\ reloads' = [i \in Reloads |->
          IF i = k THEN [step |-> "sent", rows |-> listed, missed |-> {},
                         alone |-> \A j \in Reloads : reloads[j] = NoPageLoad]
          ELSE IF reloads[i] = NoPageLoad THEN NoPageLoad ELSE [reloads[i] EXCEPT !.alone = FALSE]]
    /\ loadsCrossed' = (loadsCrossed \/ \E j \in Reloads : reloads[j] # NoPageLoad)
    /\ listLoading' = TRUE /\ listFailed' = FALSE

\* A page was created, edited or deleted (module EntityList).
Refetch(k) ==
    /\ ~IsOpen /\ LoadPages(k)
    /\ UNCHANGED <<beside, storeVars, listed, drawer, record, error, rotated, detail, rotating, stray, outdatedRow>>

ReadPages(k) ==
    /\ reloads[k].step = "sent"
    /\ reloads' = [reloads EXCEPT ![k].step = "read", ![k].rows = intakeSecret]
    /\ UNCHANGED <<beside, storeVars, listed, listLoading, listFailed, drawer, record, error, rotated,
                   detail, rotating, loadsCrossed, stray, outdatedRow>>

ShowPages(k) ==
    /\ reloads[k].step = "read"
    /\ listed' = reloads[k].rows
    /\ listLoading' = FALSE
    /\ others' = reloads[k].missed
    /\ loadsCrossed' = (loadsCrossed /\ ~reloads[k].alone)
    /\ reloads' = [reloads EXCEPT ![k] = NoPageLoad]
    /\ UNCHANGED <<beside, intakeSecret, turns, listFailed, drawer, record, error, rotated, detail,
                   rotating, stray, outdatedRow>>

PagesFail(k) ==
    /\ reloads[k] # NoPageLoad
    /\ listFailed' = TRUE /\ listLoading' = FALSE
    /\ reloads' = [reloads EXCEPT ![k] = NoPageLoad]
    /\ UNCHANGED <<beside, storeVars, listed, drawer, record, error, rotated, detail, rotating, loadsCrossed,
                   stray, outdatedRow>>
-----------------------------------------------------------------------------
(* The drawer. *)

MadeStale(d) == [i \in Details |-> IF d[i] = NoDetail THEN NoDetail ELSE [d[i] EXCEPT !.old = TRUE]]
RotationMadeStale == IF rotating = NoRotation THEN NoRotation ELSE [rotating EXCEPT !.old = TRUE]

\* Fault: the effect leaves a secret there is.
KeepsRotated == rotated' = rotated
\* The effect that runs when a page is opened.
ForgetsRotated == rotated' = NoSecret

\* reload of the drawer.
AskDetail(i, p) ==
    /\ record' = "none" /\ error' = FALSE
    /\ detail' = [MadeStale(detail) EXCEPT ![i] = [page |-> p, old |-> FALSE]]

OpenPageDrawer(i, p) ==
    /\ beside = "pages" /\ ~IsOpen /\ TableThere /\ detail[i] = NoDetail
    /\ drawer' = [page |-> p, turn |-> listed[p]]
    /\ ForgetsRotated /\ AskDetail(i, p)
    /\ rotating' = RotationMadeStale
    /\ stray' = FALSE /\ outdatedRow' = (loadsCrossed \/ p \in others)
    /\ UNCHANGED <<beside, storeVars, listVars>>

\* The effect of LeadDetailSheet.
OpenLeadDrawer(i, p) ==
    /\ beside = "leads" /\ ~IsOpen /\ TableThere /\ detail[i] = NoDetail
    /\ drawer' = [page |-> p, turn |-> 0]
    /\ AskDetail(i, p)
    /\ stray' = FALSE
    /\ UNCHANGED <<beside, storeVars, listVars, rotated, rotating, outdatedRow>>

CloseDrawer ==
    /\ IsOpen /\ drawer' = Closed
    /\ UNCHANGED <<beside, storeVars, listVars, record, error, rotated, detail, rotating, stray, outdatedRow>>

\* Refresh metrics, which is not there beside an error.
RefreshMetrics(i) ==
    /\ beside = "pages" /\ IsOpen /\ ~error /\ detail[i] = NoDetail
    /\ record' = "none" /\ error' = FALSE
    /\ detail' = [detail EXCEPT ![i] = [page |-> drawer.page, old |-> FALSE]]
    /\ UNCHANGED <<beside, storeVars, listVars, drawer, rotated, rotating, stray, outdatedRow>>

ShowDetail(i) ==
    /\ detail[i] # NoDetail
    /\ record' = detail[i].page
    /\ stray' = (stray \/ detail[i].old)
    /\ detail' = [detail EXCEPT ![i] = NoDetail]
    /\ UNCHANGED <<beside, storeVars, listVars, drawer, error, rotated, rotating, outdatedRow>>

DetailFails(i) ==
    /\ detail[i] # NoDetail
    /\ error' = TRUE
    /\ detail' = [detail EXCEPT ![i] = NoDetail]
    /\ UNCHANGED <<beside, storeVars, listVars, drawer, record, rotated, rotating, stray, outdatedRow>>
-----------------------------------------------------------------------------
(* The secret. *)

\* The button of the dialog waits for the call that is under way.
Rotate ==
    /\ beside = "pages" /\ IsOpen /\ ~error /\ rotating = NoRotation
    /\ rotating' = [page |-> drawer.page, step |-> "sent", turn |-> 0, old |-> FALSE]
    /\ UNCHANGED <<beside, storeVars, listVars, drawer, record, error, rotated, detail, stray, outdatedRow>>

\* rotateSecret of the service.
RotateSecret ==
    /\ rotating # NoRotation /\ rotating.step = "sent" /\ turns < MaxTurns
    /\ turns' = turns + 1
    /\ intakeSecret' = [intakeSecret EXCEPT ![rotating.page] = turns']
    /\ rotating' = [rotating EXCEPT !.step = "written", !.turn = turns']
    /\ UNCHANGED <<beside, listVars, drawer, record, error, rotated, detail, others, stray, outdatedRow>>

\* The answer: the drawer shows the secret and the list is loaded again.
Rotated(k) ==
    /\ rotating # NoRotation /\ rotating.step = "written"
    /\ rotated' = [page |-> rotating.page, turn |-> rotating.turn]
    /\ stray' = (stray \/ rotating.old)
    /\ rotating' = NoRotation
    /\ LoadPages(k)
    /\ UNCHANGED <<beside, storeVars, listed, drawer, record, error, detail, outdatedRow>>

\* Refused, or the answer is lost.
RotateFails ==
    /\ rotating # NoRotation
    /\ IF rotating.step = "written" THEN Unseen(rotating.page) ELSE UNCHANGED <<others, reloads, outdatedRow>>
    /\ rotating' = NoRotation
    /\ UNCHANGED <<beside, intakeSecret, turns, listed, listLoading, listFailed, loadsCrossed, drawer, record,
                   error, rotated, detail, stray>>

OtherRotates(p) ==
    /\ beside = "pages" /\ turns < MaxTurns
    /\ turns' = turns + 1
    /\ intakeSecret' = [intakeSecret EXCEPT ![p] = turns']
    /\ Unseen(p)
    /\ UNCHANGED <<beside, listed, listLoading, listFailed, loadsCrossed, drawer, record, error, rotated,
                   detail, rotating, stray>>
-----------------------------------------------------------------------------
DrawerInit ==
    /\ beside \in {"pages", "leads"}
    /\ intakeSecret = [p \in Pages |-> 0] /\ turns = 0
    /\ listed = intakeSecret /\ listLoading = FALSE /\ listFailed = FALSE
    /\ reloads = [k \in Reloads |-> NoPageLoad]
    /\ drawer = Closed /\ record = "none" /\ error = FALSE /\ rotated = NoSecret
    /\ detail = [i \in Details |-> NoDetail] /\ rotating = NoRotation
    /\ others = {} /\ loadsCrossed = FALSE /\ stray = FALSE /\ outdatedRow = FALSE

ListOfPages(k) == Refetch(k) \/ ReadPages(k) \/ ShowPages(k) \/ PagesFail(k) \/ Rotated(k)

Look(i) ==
    \/ \E p \in Pages : OpenPageDrawer(i, p) \/ OpenLeadDrawer(i, p)
    \/ RefreshMetrics(i) \/ ShowDetail(i) \/ DetailFails(i)

DrawerNext ==
    \/ \E k \in Reloads : ListOfPages(k)
    \/ \E i \in Details : Look(i)
    \/ CloseDrawer \/ Rotate \/ RotateSecret \/ RotateFails
    \/ \E p \in Pages : OtherRotates(p)

DrawerSpec == DrawerInit /\ [][DrawerNext]_drawerVars
-----------------------------------------------------------------------------
\* Every variable keeps the type its comment gives it.
DrawerTypes ==
    /\ beside \in {"pages", "leads"}
    /\ intakeSecret \in Secrets /\ listed \in Secrets /\ turns \in 0..MaxTurns
    /\ listLoading \in BOOLEAN /\ listFailed \in BOOLEAN /\ error \in BOOLEAN
    /\ loadsCrossed \in BOOLEAN /\ stray \in BOOLEAN /\ outdatedRow \in BOOLEAN
    /\ reloads \in [Reloads -> PageLoad \cup {NoPageLoad}]
    /\ drawer \in Secret \cup {Closed} /\ rotated \in Secret \cup {NoSecret}
    /\ record \in Pages \cup {"none"} /\ others \subseteq Pages
    /\ detail \in [Details -> Detail \cup {NoDetail}]
    /\ rotating \in Rotation \cup {NoRotation}

\* currentSecret.
CurrentSecret == IF rotated # NoSecret THEN rotated ELSE drawer
Outdated == outdatedRow \/ (rotating # NoRotation /\ rotating.page = drawer.page /\ rotating.step = "written")

\* An open drawer shows the metrics of its own page and the secret that is
\* stored for it, also after the secret was rotated and the drawer closed and
\* opened again.  This is not so after the answer of a call made before it was
\* opened, for a secret that somebody else rotated (or whose answer was lost)
\* since the list was loaded, nor when two loads of the list overlapped.
DrawerFitsThePage ==
    (IsOpen /\ ~stray) =>
        /\ record \in {"none", drawer.page}
        /\ beside = "pages" =>
              /\ CurrentSecret.page = drawer.page
              /\ ~Outdated => CurrentSecret.turn = intakeSecret[drawer.page]
=============================================================================
