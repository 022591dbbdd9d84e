------------------------------- MODULE MCPortal -------------------------------
(***************************************************************************)
(* Parts of the office that share no state with each other: a behaviour    *)
(* runs one part and leaves the others alone.                              *)
(***************************************************************************)
EXTENDS Samples, LeadColumns, Controls, LiveFeed, AssignDesk, SheetCells, EntityList,
        AuditTrail, PageDrawer, OrderDesk, BulkImport, PriceGrid, ProfileForm, Credentials, TLC

VARIABLE part  \* the part that runs

portalVars == <<part, samplesVars, columnsVars, controlsVars, feedVars, deskVars, sheetVars, entityVars,
                auditVars, drawerVars, orderDeskVars, importVars, priceVars, profileVars, credentialVars>>
-----------------------------------------------------------------------------
MCSampleType == [x \in SampleRequests \cup PoolLeads |-> "T"]
MCQuantity == [r \in SampleRequests |-> 1]
\* Two lead types: three columns of the first, of which the third is new, and
\* one of the second, whose key a column of the first has too.
MCTypeOf == [x \in Columns |-> IF x = "cd" THEN "B" ELSE "A"]
MCKeyOf == [x \in Columns |-> IF x = "cd" THEN "ca" ELSE x]
MCFirstColumns == [x \in Columns |-> CASE x \in {"ca", "cd"} -> 1 [] x = "cb" -> 2 [] x = "cc" -> 0]
\* A lead that is assigned to two orders of the client.
MCLeadOf == [x \in SheetRows |-> "l"]
MCChanges == {[paused |-> "on", hold |-> "undefined"], [paused |-> "undefined", hold |-> "on"],
              [paused |-> "off", hold |-> "off"]}
MCDeskType == [x \in DeskLeads |-> IF x = "a" THEN "T" ELSE "U"]
MCMatching == [f \in AuditFilters |-> IF f = "all" THEN Entries ELSE Entries \ {2}]
MCFiles == {<<"p", "p">>}
MCFirstPrices == {[c \in Cells |-> IF c = "a" THEN Unset ELSE 1]}

\* The calls of each part have the same two names, and so have most rows.
Symmetry == {p @@ q : p \in Permutations(Toggles), q \in Permutations(Entities)}
-----------------------------------------------------------------------------
Parts == {"samples", "columns", "controls", "feed", "desk", "sheet", "entities",
          "audit", "drawer", "orders", "import", "prices", "profile", "credentials"}

\* A part that does not run has one initial state, with no call under way.
PortalInit ==
    /\ part \in Parts
    /\ SamplesInit /\ ColumnsInit /\ ControlsInit /\ FeedInit /\ SheetInit
    /\ DrawerInit /\ OrderDeskInit /\ ImportInit
    /\ PriceInit /\ ProfileInit /\ CredentialInit
    /\ IF part = "desk" THEN DeskInit
       ELSE DeskClosed /\ desk = "sheet" /\ lists = [i \in Lists |-> NoList]
    /\ IF part = "entities" THEN EntityInit
       ELSE /\ ListClosed /\ run = [k \in Runs |-> NoRun]
            /\ kind = "users" /\ \A x \in Entities : entity[x] = "none"
    /\ IF part = "audit" THEN AuditInit ELSE AuditClosed /\ query = [k \in Queries |-> NoQuery]
    /\ part # "drawer" => beside = "pages"
    /\ part # "orders" => role = "CLIENT" /\ \A o \in DeskOrders : status[o] = "none"
    /\ part # "profile" => who = "USER" /\ \A f \in Fields : personal[f] = Blank

Apart(name, vars) == IF part = name THEN TRUE ELSE UNCHANGED vars

PortalNext ==
    /\ UNCHANGED part
    /\ Apart("samples", samplesVars) /\ Apart("columns", columnsVars)
    /\ Apart("controls", controlsVars) /\ Apart("feed", feedVars) /\ Apart("desk", deskVars)
    /\ Apart("sheet", sheetVars) /\ Apart("entities", entityVars)
    /\ Apart("audit", auditVars) /\ Apart("drawer", drawerVars)
    /\ Apart("orders", orderDeskVars) /\ Apart("import", importVars)
    /\ Apart("prices", priceVars) /\ Apart("profile", profileVars)
    /\ Apart("credentials", credentialVars)
    /\ \/ part = "samples" /\ SamplesNext
       \/ part = "columns" /\ ColumnsNext
       \/ part = "controls" /\ ControlsNext
       \/ part = "feed" /\ FeedNext
       \/ part = "desk" /\ DeskNext
       \/ part = "sheet" /\ SheetNext
       \/ part = "entities" /\ EntityNext
       \/ part = "audit" /\ AuditNext
       \/ part = "drawer" /\ DrawerNext
       \/ part = "orders" /\ OrderDeskNext
       \/ part = "import" /\ ImportNext
       \/ part = "prices" /\ PriceNext
       \/ part = "profile" /\ ProfileNext
       \/ part = "credentials" /\ CredentialNext

PortalSpec == PortalInit /\ [][PortalNext]_portalVars
=============================================================================
