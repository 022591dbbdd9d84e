----------------------------- MODULE OfficeProofs -----------------------------
(***************************************************************************)
(* Proofs about the parts beside the lead pipeline whose state is kept by  *)
(* the portal: the controls of distribution, the live feed, samples, lead  *)
(* columns and the audit log.                                              *)
(***************************************************************************)
EXTENDS Controls, LiveFeed, Samples, LeadColumns, AuditTrail, FiniteSetTheorems, TLAPS
-----------------------------------------------------------------------------
(* Controls. *)

\* A call has read what is wanted, but for the types that were written since.
CopyIsGood(c) ==
    toggling[c] # NotToggling =>
        \A x \in Controls, y \in ControlTypes \ (raced \cup toggling[c].late) :
            y \in toggling[c].row[x] <=> y \in wanted[x]

ControlsInv == ControlsTypes /\ TogglesAreKept /\ \A c \in Toggles : CopyIsGood(c)

\* A toggle of one lead type changes no other, and sets its own as asked.
LEMMA ToggleIsWanted ==
    ASSUME NEW types, NEW wants, NEW type, NEW change \in {"on", "off", "undefined"},
           NEW y, y \in types <=> y \in wants
    PROVE  y \in Switched(types, type, change) <=> y \in Wanted(wants, type, change)
BY DEF Switched, Wanted

\* The type invariant of Controls.
LEMMA ControlsStayTyped ==
    ASSUME ControlsTypes, [ControlsNext]_controlsVars
    PROVE  ControlsTypes'
<1> USE ControlsAssumption DEF ControlsTypes, Settings
<1>1. ASSUME NEW c \in Toggles, NEW type \in ControlTypes, NEW change \in Changes, ReadControls(c, type, change)
      PROVE  ControlsTypes'
  <2>1. [type |-> type, change |-> change, row |-> setting, late |-> {}] \in Toggling
    BY DEF Toggling
  <2> QED BY <1>1, <2>1 DEF ReadControls
<1>2. ASSUME NEW c \in Toggles, WriteControls(c)
      PROVE  ControlsTypes'
  <2>1. toggling[c] \in Toggling
    BY <1>2 DEF WriteControls
  <2>2. setting' \in Settings
    <3>1. ASSUME NEW x \in Controls
          PROVE  Switched(toggling[c].row[x], toggling[c].type, toggling[c].change[x]) \subseteq ControlTypes
      <4>1. /\ toggling[c].change[x] \in {"on", "off", "undefined"}
            /\ toggling[c].type \in ControlTypes /\ toggling[c].row[x] \subseteq ControlTypes
        BY <2>1 DEF Toggling, Change
      <4> QED BY <4>1 DEF Switched
    <3> QED BY <3>1, <1>2 DEF WriteControls, AfterToggle
  <2>3. wanted' \in Settings
    <3>1. \A x \in Controls : Wanted(wanted[x], toggling[c].type, toggling[c].change[x]) \subseteq ControlTypes
      BY <2>1 DEF Wanted, Toggling
    <3> QED BY <3>1, <1>2 DEF WriteControls
  <2>4. toggling' \in [Toggles -> Toggling \cup {NotToggling}]
    <3>1. ASSUME NEW d \in Toggles, toggling[d] # NotToggling
          PROVE  [toggling[d] EXCEPT !.late = @ \cup {toggling[c].type} \cup toggling[c].late] \in Toggling
      <4>1. toggling[d] \in Toggling
        BY <3>1
      <4> QED BY <2>1, <4>1 DEF Toggling
    <3> QED BY <3>1, <1>2 DEF WriteControls
  <2>5. raced' \subseteq ControlTypes
    BY <1>2, <2>1 DEF WriteControls, Toggling
  <2> QED BY <2>2, <2>3, <2>4, <2>5
<1>3. ASSUME NEW c \in Toggles, FailToggle(c)
      PROVE  ControlsTypes'
  BY <1>3 DEF FailToggle
<1>4. CASE UNCHANGED controlsVars
  BY <1>4 DEF controlsVars
<1> QED BY <1>1, <1>2, <1>3, <1>4 DEF ControlsNext, Toggle

LEMMA ControlsInvHolds == ControlsSpec => []ControlsInv
<1> USE ControlsAssumption
<1>1. ControlsInit => ControlsInv
  BY DEF ControlsInit, ControlsInv, ControlsTypes, Settings, TogglesAreKept, CopyIsGood
<1>2. ControlsInv /\ [ControlsNext]_controlsVars => ControlsInv'
  <2> SUFFICES ASSUME ControlsInv, [ControlsNext]_controlsVars
               PROVE  TogglesAreKept' /\ \A c \in Toggles : CopyIsGood(c)'
    BY ControlsStayTyped DEF ControlsInv
  <2> USE DEF ControlsInv, ControlsTypes, TogglesAreKept, CopyIsGood
  <2>1. ASSUME NEW c \in Toggles, NEW type \in ControlTypes, NEW change \in Changes, ReadControls(c, type, change)
        PROVE  TogglesAreKept' /\ \A d \in Toggles : CopyIsGood(d)'
    BY <2>1 DEF ReadControls
  <2>2. ASSUME NEW c \in Toggles, WriteControls(c)
        PROVE  TogglesAreKept' /\ \A d \in Toggles : CopyIsGood(d)'
    <3>0. toggling[c] \in Toggling
      BY <2>2 DEF WriteControls
    <3>1. \A x \in Controls : toggling[c].change[x] \in {"on", "off", "undefined"}
      BY <3>0 DEF Toggling, Change
    <3>2. ASSUME NEW x \in Controls, NEW y \in ControlTypes \ raced'
          PROVE  y \in setting'[x] <=> y \in wanted'[x]
      <4>1. y \in toggling[c].row[x] <=> y \in wanted[x]
        BY <2>2, <3>2 DEF WriteControls
      <4>2. y \in Switched(toggling[c].row[x], toggling[c].type, toggling[c].change[x])
              <=> y \in Wanted(wanted[x], toggling[c].type, toggling[c].change[x])
        <5>1. toggling[c].change[x] \in {"on", "off", "undefined"}
          BY <3>1, <3>2
        <5> HIDE DEF ControlsInv, ControlsTypes, TogglesAreKept, CopyIsGood
        <5> QED BY <5>1, <4>1, ToggleIsWanted
      <4> QED BY <2>2, <3>2, <4>2 DEF WriteControls, AfterToggle
    <3>3. ASSUME NEW d \in Toggles, toggling'[d] # NotToggling,
                 NEW x \in Controls, NEW y \in ControlTypes \ (raced' \cup toggling'[d].late)
          PROVE  y \in toggling'[d].row[x] <=> y \in wanted'[x]
      <4>1. d # c /\ toggling[d] \in Toggling /\ toggling[d] # NotToggling
        BY <2>2, <3>3 DEF WriteControls
      <4>2. toggling'[d] = [toggling[d] EXCEPT !.late = @ \cup {toggling[c].type} \cup toggling[c].late]
        BY <2>2, <4>1 DEF WriteControls
      <4>3. toggling'[d].row = toggling[d].row
            /\ toggling'[d].late = toggling[d].late \cup {toggling[c].type} \cup toggling[c].late
        BY <4>1, <4>2 DEF Toggling
      <4>4. y \in toggling[d].row[x] <=> y \in wanted[x]
        BY <2>2, <3>3, <4>1, <4>3 DEF WriteControls
      <4>5. y # toggling[c].type
        BY <3>3, <4>3
      <4>6. y \in wanted'[x] <=> y \in wanted[x]
        BY <2>2, <3>3, <4>5 DEF WriteControls, Wanted
      <4> QED BY <4>3, <4>4, <4>6
    <3> QED BY <3>2, <3>3
  <2>3. ASSUME NEW c \in Toggles, FailToggle(c)
        PROVE  TogglesAreKept' /\ \A d \in Toggles : CopyIsGood(d)'
    BY <2>3 DEF FailToggle
  <2>4. CASE UNCHANGED controlsVars
    BY <2>4 DEF controlsVars
  <2> QED BY <2>1, <2>2, <2>3, <2>4 DEF ControlsNext, Toggle
<1> QED BY <1>1, <1>2, PTL DEF ControlsSpec

\* setLeadType loses no toggle of another lead type, for any number of types,
\* controls and calls, but for those of calls that overlapped.
THEOREM TogglesSurviveOverlap == ControlsSpec => [](ControlsTypes /\ TogglesAreKept)
BY ControlsInvHolds, PTL DEF ControlsInv
-----------------------------------------------------------------------------
(* The live feed. *)

\* What is on the way to the page, or shown on it, was delivered.
DeliveredOnly ==
    /\ \A x \in unpushed \cup wire : delivery[x] = "DELIVERED"
    /\ \A x \in Sales : feed[x] = "DELIVERED" => delivery[x] = "DELIVERED"

\* A list that was read with the socket in the room, and the pushes since,
\* have every delivered lead.
ListIsGood(i) ==
    mine[i].step = "read" =>
        /\ \A x \in Sales : mine[i].rows[x] = "DELIVERED" => delivery[x] = "DELIVERED"
        /\ mine[i].live => joined
        /\ mine[i].live => \A x \in Sales : delivery[x] = "DELIVERED" =>
               mine[i].rows[x] # "none" \/ feed[x] # "none" \/ x \in unpushed \/ x \in wire

FeedInv ==
    /\ FeedTypes /\ DeliveredOnly /\ NothingMissedWhileLive
    /\ caughtUp => joined
    /\ \A i \in Mounts : ListIsGood(i)

\* Where a call of the screen stands.
LEMMA MineStep ==
    ASSUME FeedTypes, NEW i \in Mounts
    PROVE  /\ mine[i].step \in {"sent", "read"} => mine[i] \in Mine
           /\ mine[i] \in Mine => mine[i].rows \in Statuses /\ mine[i].live \in BOOLEAN
           /\ mine[i] # NotMounted => mine[i] \in Mine
           /\ NotMounted.step = "none"
BY DEF FeedTypes, Mine, NotMounted

LEMMA FeedStaysTyped ==
    ASSUME FeedTypes, [FeedNext]_feedVars
    PROVE  FeedTypes'
<1> USE DEF FeedTypes, Statuses
<1>1. ASSUME NEW x \in Sales, Engine(x)
      PROVE  FeedTypes'
  BY <1>1 DEF Engine, Sell, Book, Push, Receive, Received
<1>2. ASSUME Socket
      PROVE  FeedTypes'
  <2>1. Left \in [Mounts -> Mine \cup {NotMounted}]
    <3>1. ASSUME NEW i \in Mounts, mine[i].step = "read"
          PROVE  [mine[i] EXCEPT !.live = FALSE] \in Mine
      BY <3>1, MineStep DEF Mine
    <3> QED BY <3>1 DEF Left
  <2> QED BY <1>2, <2>1 DEF Socket, HandleConnection, Disconnect, ApiDies, OpenPage, NoRows
<1>3. ASSUME NEW i \in Mounts, Screen(i)
      PROVE  FeedTypes'
  <2>1. CASE Mount(i)
    <3>1. [step |-> "sent", rows |-> NoRows, live |-> FALSE] \in Mine
      BY DEF Mine, NoRows
    <3> QED BY <2>1, <3>1 DEF Mount
  <2>2. CASE ListForClient(i)
    <3>1. [step |-> "read", rows |-> delivery, live |-> joined] \in Mine
      BY DEF Mine
    <3> QED BY <2>2, <3>1 DEF ListForClient
  <2>3. CASE SeedLiveLeads(i)
    <3>1. mine[i].rows \in Statuses /\ mine[i].live \in BOOLEAN
      BY <2>3, MineStep DEF SeedLiveLeads
    <3>2. Seeded(feed, mine[i].rows) \in Statuses
      BY <3>1 DEF Seeded
    <3> QED BY <2>3, <3>1, <3>2 DEF SeedLiveLeads
  <2>4. CASE LoadFails(i)
    BY <2>4 DEF LoadFails
  <2> QED BY <1>3, <2>1, <2>2, <2>3, <2>4 DEF Screen
<1>4. CASE UNCHANGED feedVars
  BY <1>4 DEF feedVars
<1> QED BY <1>1, <1>2, <1>3, <1>4 DEF FeedNext

\* The parts of FeedInv that are about data.
FeedFacts ==
    /\ DeliveredOnly /\ NothingMissedWhileLive /\ (caughtUp => joined)
    /\ \A i \in Mounts : ListIsGood(i)

LEMMA EngineKeepsFeed ==
    ASSUME FeedInv, NEW x \in Sales, Engine(x)
    PROVE  FeedFacts'
<1> USE DEF FeedInv, FeedTypes, FeedFacts, Statuses
<1>1. mine' = mine /\ caughtUp' = caughtUp /\ joined' = joined
  BY DEF Engine, Sell, Book, Push, Receive
<1>2. DeliveredOnly' /\ NothingMissedWhileLive'
  <2> USE DEF DeliveredOnly, NothingMissedWhileLive
  <2>1. CASE Sell(x) BY <2>1 DEF Sell
  <2>2. CASE Book(x) BY <2>2 DEF Book
  <2>3. CASE Push(x) BY <2>3 DEF Push
  <2>4. CASE Receive(x) BY <2>4 DEF Receive, Received
  <2> QED BY <2>1, <2>2, <2>3, <2>4 DEF Engine
<1>3. ASSUME NEW i \in Mounts
      PROVE  ListIsGood(i)'
  <2> USE DEF ListIsGood, DeliveredOnly
  <2>0. mine'[i] = mine[i] /\ (mine[i].step = "read" => mine[i].live \in BOOLEAN)
    BY <1>1, MineStep
  <2>1. CASE Sell(x) BY <1>1, <2>0, <2>1 DEF Sell
  <2>2. CASE Book(x) BY <1>1, <2>0, <2>2 DEF Book
  <2>3. CASE Push(x) BY <1>1, <2>0, <2>3 DEF Push
  <2>4. CASE Receive(x) BY <1>1, <2>0, <2>4 DEF Receive, Received
  <2> QED BY <2>1, <2>2, <2>3, <2>4 DEF Engine
<1> QED BY <1>1, <1>2, <1>3

LEMMA SocketKeepsFeed ==
    ASSUME FeedInv, Socket
    PROVE  FeedFacts'
<1> USE DEF FeedInv, FeedFacts
<1>1. CASE HandleConnection
  BY <1>1 DEF HandleConnection, DeliveredOnly, NothingMissedWhileLive, ListIsGood
<1>2. CASE Disconnect \/ ApiDies \/ OpenPage
  <2>1. ASSUME NEW i \in Mounts, mine'[i].step = "read"
        PROVE  /\ mine[i].step = "read" /\ mine'[i].rows = mine[i].rows
               /\ mine'[i].live = FALSE
    BY <1>2, <2>1, MineStep DEF Disconnect, ApiDies, OpenPage, Left, Mine, FeedTypes
  <2>2. delivery' = delivery /\ caughtUp' = FALSE
    BY <1>2 DEF Disconnect, ApiDies, OpenPage
  <2>3. \A i \in Mounts : ListIsGood(i)'
    BY <2>1, <2>2 DEF ListIsGood
  <2>4. DeliveredOnly'
    BY <1>2 DEF Disconnect, ApiDies, OpenPage, DeliveredOnly, NoRows
  <2> QED BY <2>2, <2>3, <2>4 DEF NothingMissedWhileLive
<1> QED BY <1>1, <1>2 DEF Socket

LEMMA ScreenKeepsFeed ==
    ASSUME FeedInv, NEW i \in Mounts, Screen(i)
    PROVE  FeedFacts'
<1> USE DEF FeedInv, FeedTypes, FeedFacts, Statuses
<1>0. delivery' = delivery /\ unpushed' = unpushed /\ wire' = wire /\ joined' = joined
  BY DEF Screen, Mount, ListForClient, SeedLiveLeads, LoadFails
<1>1. CASE Mount(i) \/ LoadFails(i)
  <2>1. \A j \in Mounts : mine'[j].step = "read" => mine'[j] = mine[j]
    BY <1>1 DEF Mount, LoadFails, NotMounted
  <2>2. feed' = feed /\ caughtUp' = caughtUp
    BY <1>1 DEF Mount, LoadFails
  <2> QED BY <1>0, <2>1, <2>2 DEF DeliveredOnly, NothingMissedWhileLive, ListIsGood
<1>2. CASE ListForClient(i)
  <2>1. \A j \in Mounts : j # i => mine'[j] = mine[j]
    BY <1>2 DEF ListForClient
  <2>2. mine'[i] = [step |-> "read", rows |-> delivery, live |-> joined]
    BY <1>2 DEF ListForClient
  <2>3. feed' = feed /\ caughtUp' = caughtUp
    BY <1>2 DEF ListForClient
  <2>4. ListIsGood(i)'
    BY <1>0, <2>2, <2>3 DEF ListIsGood
  <2>5. \A j \in Mounts : j # i => ListIsGood(j)'
    BY <1>0, <2>1, <2>3 DEF ListIsGood
  <2> QED BY <1>0, <2>3, <2>4, <2>5 DEF DeliveredOnly, NothingMissedWhileLive
<1>3. CASE SeedLiveLeads(i)
  <2>0. mine[i].step = "read" /\ mine[i].rows \in Statuses /\ mine[i].live \in BOOLEAN
    BY <1>3, MineStep DEF SeedLiveLeads
  <2>1. \A x \in Sales : feed'[x] = IF feed[x] = "none" THEN mine[i].rows[x] ELSE feed[x]
    BY <1>3 DEF SeedLiveLeads, Seeded
  <2>2. \A j \in Mounts : mine'[j].step = "read" => mine'[j] = mine[j]
    BY <1>3 DEF SeedLiveLeads, NotMounted
  <2>3. DeliveredOnly'
    BY <1>0, <2>0, <2>1 DEF DeliveredOnly, ListIsGood
  <2>4. NothingMissedWhileLive' /\ (caughtUp => joined)'
    <3>1. caughtUp' <=> caughtUp \/ mine[i].live
      BY <1>3 DEF SeedLiveLeads
    <3>2. ListIsGood(i)
      OBVIOUS
    <3> QED BY <1>0, <2>0, <2>1, <3>1, <3>2 DEF NothingMissedWhileLive, ListIsGood
  <2>5. \A j \in Mounts : ListIsGood(j)'
    BY <1>0, <2>1, <2>2 DEF ListIsGood
  <2> QED BY <2>3, <2>4, <2>5
<1> QED BY <1>1, <1>2, <1>3 DEF Screen

LEMMA FeedInvHolds == FeedSpec => []FeedInv
<1>1. FeedInit => FeedInv
  <2> SUFFICES ASSUME FeedInit
               PROVE  FeedInv
    OBVIOUS
  <2>1. FeedTypes
    BY DEF FeedInit, FeedTypes, NoRows, Statuses
  <2>2. DeliveredOnly /\ NothingMissedWhileLive /\ ~caughtUp
    BY DEF FeedInit, DeliveredOnly, NothingMissedWhileLive, NoRows
  <2>3. \A i \in Mounts : mine[i].step = "none"
    BY DEF FeedInit, NotMounted
  <2> QED BY <2>1, <2>2, <2>3 DEF FeedInv, ListIsGood
<1>2. FeedInv /\ [FeedNext]_feedVars => FeedInv'
  <2> SUFFICES ASSUME FeedInv, [FeedNext]_feedVars
               PROVE  FeedFacts'
    BY FeedStaysTyped DEF FeedInv, FeedFacts
  <2>1. CASE UNCHANGED feedVars
    BY <2>1 DEF feedVars, FeedInv, FeedFacts, DeliveredOnly, NothingMissedWhileLive, ListIsGood
  <2> QED BY <2>1, EngineKeepsFeed, SocketKeepsFeed, ScreenKeepsFeed DEF FeedNext
<1> QED BY <1>1, <1>2, PTL DEF FeedSpec

\* No delivered lead is missing from a feed that was caught up, for any number
\* of sales and lists: NotificationsProvider loses none while its socket stays.
THEOREM FeedMissesNothing == FeedSpec => [](FeedTypes /\ NothingMissedWhileLive)
BY FeedInvHolds, PTL DEF FeedInv

\* No list, however old, and no push turns a delivered lead of the feed back,
\* nor makes one delivered that is not.
THEOREM FeedNeverTurnsBack == FeedSpec => ConfirmedStaysConfirmed
<1>1. ASSUME FeedInv, FeedInv', [FeedNext]_feedVars
      PROVE  [\A x \in Sales :
                 /\ feed'[x] = "DELIVERED" => delivery'[x] = "DELIVERED"
                 /\ feed[x] = "DELIVERED" => feed'[x] \in {"DELIVERED", "none"}
                 /\ (feed[x] # "none" /\ feed'[x] = "none") => feed' = NoRows]_feedVars
  <2> SUFFICES ASSUME NEW x \in Sales, FeedNext
               PROVE  /\ feed'[x] = "DELIVERED" => delivery'[x] = "DELIVERED"
                      /\ feed[x] = "DELIVERED" => feed'[x] \in {"DELIVERED", "none"}
                      /\ (feed[x] # "none" /\ feed'[x] = "none") => feed' = NoRows
    BY <1>1
  <2>1. feed'[x] = "DELIVERED" => delivery'[x] = "DELIVERED"
    BY <1>1 DEF FeedInv, DeliveredOnly
  <2>2. feed'[x] = feed[x] \/ feed[x] = "none" \/ feed' = NoRows
    <3> USE <1>1 DEF FeedInv, FeedTypes, Statuses
    <3>1. ASSUME NEW y \in Sales, Engine(y)
          PROVE  feed'[x] = feed[x] \/ feed[x] = "none"
      BY <3>1 DEF Engine, Sell, Book, Push, Receive, Received
    <3>2. CASE Socket
      BY <3>2 DEF Socket, HandleConnection, Disconnect, ApiDies, OpenPage
    <3>3. ASSUME NEW i \in Mounts, Screen(i)
          PROVE  feed'[x] = feed[x] \/ feed[x] = "none"
      BY <3>3 DEF Screen, Mount, ListForClient, SeedLiveLeads, Seeded, LoadFails
    <3> QED BY <3>1, <3>2, <3>3 DEF FeedNext
  <2> QED BY <2>1, <2>2 DEF NoRows
<1> QED BY <1>1, FeedInvHolds, PTL DEF FeedSpec, ConfirmedStaysConfirmed
-----------------------------------------------------------------------------
(* Samples. *)

\* A call asks for leads if and only if it assigns, and for as many as it may.
AsksWithinQuantity(op, r, leads) ==
    IF op = "assign" THEN leads # {} /\ Cardinality(leads) <= Quantity[r] ELSE leads = {}

CallIsGood(u) ==
    Busy(u) =>
        LET c == staffCall[u] IN
        /\ AsksWithinQuantity(c.op, c.request, c.leads)
        /\ pool \subseteq c.seen
        /\ c.step = "write" => c.leads \subseteq c.seen

\* The only call for an undisturbed request finds it undecided.
UndisturbedCall(u) ==
    (Busy(u) /\ staffCall[u].request \in undisturbed) =>
        LET r == staffCall[u].request IN
        /\ requestStatus[r] \in {"PENDING", "FORWARDED"}
        /\ Delivered(r) = {}
        /\ \A v \in Staff : (Busy(v) /\ staffCall[v].request = r) => v = u

SamplesFacts ==
    /\ UndisturbedRequestsAreServedOnce
    /\ \A u \in Staff : CallIsGood(u) /\ UndisturbedCall(u)

SamplesInv == SamplesTypes /\ SamplesFacts

\* What a session can decide.
LEMMA DecideIsCall ==
    ASSUME SamplesTypes, NEW u \in Staff, Decide(u)
    PROVE  \E r \in SampleRequests, op \in {"forward", "reject", "assign"}, leads \in SUBSET PoolLeads :
              /\ Call(u, r, op, leads)
              /\ AsksWithinQuantity(op, r, leads)
              /\ shownRequests[u][r] \in {"PENDING", "FORWARDED"}
<1>1. PICK r \in SampleRequests : CallForward(u, r) \/ CallReject(u, r) \/ CallAssign(u, r)
  BY DEF Decide
<1>2. CASE CallForward(u, r)
  BY <1>2 DEF CallForward, AgentOffers, AsksWithinQuantity
<1>3. CASE CallReject(u, r)
  BY <1>3 DEF CallReject, AgentOffers, AdminOffers, AsksWithinQuantity
<1>4. CASE CallAssign(u, r)
  <2>1. PICK leads \in Selections(u, r) : Call(u, r, "assign", leads)
    BY <1>4 DEF CallAssign
  <2>2. leads \in SUBSET PoolLeads /\ AsksWithinQuantity("assign", r, leads)
    BY <2>1 DEF Selections, AsksWithinQuantity, SamplesTypes
  <2> QED BY <1>4, <2>1, <2>2 DEF CallAssign, AdminOffers
<1> QED BY <1>1, <1>2, <1>3, <1>4

LEMMA SamplesStayTyped ==
    ASSUME SamplesTypes, [SamplesNext]_samplesVars
    PROVE  SamplesTypes'
<1> USE DEF SamplesTypes, StatusRows
<1>0. \A u \in Staff : Busy(u) => staffCall[u] \in StaffCall
  BY DEF Busy
<1>1. ASSUME NEW r \in SampleRequests, CreateRequest(r)
      PROVE  SamplesTypes'
  BY <1>1 DEF CreateRequest, RequestStatuses
<1>2. ASSUME NEW u \in Staff, Reload(u)
      PROVE  SamplesTypes'
  BY <1>2 DEF Reload, ReloadRequests, ReloadPool
<1>3. ASSUME NEW u \in Staff, Decide(u)
      PROVE  SamplesTypes'
  <2>1. PICK r \in SampleRequests, op \in {"forward", "reject", "assign"}, leads \in SUBSET PoolLeads :
             Call(u, r, op, leads)
    BY <1>3, DecideIsCall
  <2>2. [op |-> op, step |-> "status", request |-> r, leads |-> leads, seen |-> pool] \in StaffCall
    BY DEF StaffCall
  <2> QED BY <2>1, <2>2 DEF Call
<1>4. ASSUME NEW u \in Staff, Serve(u)
      PROVE  SamplesTypes'
  <2>0. staffCall[u] \in StaffCall
    BY <1>0, <1>4 DEF Serve, CheckRequest, CheckPool, WriteRequest, FailCall
  <2>1. \A step \in {"status", "pool", "write"} : [staffCall[u] EXCEPT !.step = step] \in StaffCall
    BY <2>0 DEF StaffCall
  <2>2. CASE CheckRequest(u) \/ CheckPool(u) \/ FailCall(u)
    BY <2>1, <2>2 DEF CheckRequest, CheckPool, FailCall, GoOnWith, EndCall
  <2>3. CASE WriteRequest(u)
    <3>1. staffCall[u].op \in {"forward", "reject", "assign"} /\ staffCall[u].request \in SampleRequests
          /\ staffCall[u].leads \subseteq PoolLeads
      BY <2>0 DEF StaffCall
    <3>2. requestStatus' \in StatusRows
      BY <2>3, <3>1 DEF WriteRequest, RequestStatuses
    <3>3. deliveries' \subseteq SampleRequests \X PoolLeads
      BY <2>3, <3>1 DEF WriteRequest
    <3> QED BY <2>3, <3>2, <3>3 DEF WriteRequest, EndCall
  <2> QED BY <1>4, <2>2, <2>3 DEF Serve
<1>5. ASSUME NEW x \in PoolLeads, AddToPool(x)
      PROVE  SamplesTypes'
  <2>1. ASSUME NEW u \in Staff, Busy(u)
        PROVE  [staffCall[u] EXCEPT !.seen = @ \cup {x}] \in StaffCall
    BY <1>0, <2>1 DEF StaffCall
  <2> QED BY <1>5, <2>1 DEF AddToPool
<1>6. ASSUME NEW x \in PoolLeads, RemoveFromPool(x)
      PROVE  SamplesTypes'
  BY <1>6 DEF RemoveFromPool
<1>7. CASE UNCHANGED samplesVars
  BY <1>7 DEF samplesVars
<1> QED BY <1>1, <1>2, <1>3, <1>4, <1>5, <1>6, <1>7 DEF SamplesNext

\* A step that leaves the calls, but for those that end or go on, and the rows.
LEMMA QuietSamplesStep ==
    ASSUME SamplesInv, undisturbed' = undisturbed, deliveries' = deliveries,
           \A r \in undisturbed : requestStatus'[r] = requestStatus[r]
               \/ (requestStatus[r] = "none" /\ requestStatus'[r] = "PENDING"),
           \A u \in Staff : Busy(u)' =>
               /\ Busy(u)
               /\ staffCall'[u].op = staffCall[u].op /\ staffCall'[u].request = staffCall[u].request
               /\ staffCall'[u].leads = staffCall[u].leads
               /\ pool' \subseteq staffCall'[u].seen
               /\ staffCall'[u].step = "write" => staffCall[u].leads \subseteq staffCall'[u].seen
    PROVE  SamplesFacts'
<1> USE DEF SamplesInv, SamplesFacts
<1>1. \A r \in SampleRequests : Delivered(r)' = Delivered(r)
  BY DEF Delivered
<1>2. UndisturbedRequestsAreServedOnce'
  BY <1>1 DEF UndisturbedRequestsAreServedOnce, SamplesTypes
<1>3. ASSUME NEW u \in Staff
      PROVE  CallIsGood(u)'
  BY DEF CallIsGood
<1>4. ASSUME NEW u \in Staff
      PROVE  UndisturbedCall(u)'
  <2>1. Busy(u)' => staffCall[u].request \in SampleRequests
    BY DEF Busy, SamplesTypes, StaffCall
  <2> QED BY <1>1, <2>1 DEF UndisturbedCall
<1> QED BY <1>2, <1>3, <1>4

LEMMA DecideKeepsSamples ==
    ASSUME SamplesInv, NEW u \in Staff, Decide(u)
    PROVE  SamplesFacts'
<1> USE DEF SamplesInv, SamplesFacts, SamplesTypes
<1>1. PICK r \in SampleRequests, op \in {"forward", "reject", "assign"}, leads \in SUBSET PoolLeads :
           /\ Call(u, r, op, leads)
           /\ AsksWithinQuantity(op, r, leads)
           /\ shownRequests[u][r] \in {"PENDING", "FORWARDED"}
  BY DecideIsCall
<1>2. /\ staffCall'[u] = [op |-> op, step |-> "status", request |-> r, leads |-> leads, seen |-> pool]
      /\ \A v \in Staff : v # u => staffCall'[v] = staffCall[v]
      /\ requestStatus' = requestStatus /\ pool' = pool /\ deliveries' = deliveries
      /\ ~Busy(u) /\ undisturbed' \subseteq undisturbed
  BY <1>1 DEF Call
<1>3. \A s \in SampleRequests : Delivered(s)' = Delivered(s)
  BY <1>2 DEF Delivered
<1>4. \A v \in Staff : v # u => (Busy(v)' <=> Busy(v))
  BY <1>2 DEF Busy
<1>5. UndisturbedRequestsAreServedOnce'
  BY <1>2, <1>3 DEF UndisturbedRequestsAreServedOnce
<1>6. \A v \in Staff : CallIsGood(v)'
  BY <1>1, <1>2, <1>4 DEF CallIsGood
<1>7. r \in undisturbed' =>
        /\ requestStatus[r] \in {"PENDING", "FORWARDED"} /\ Delivered(r) = {}
        /\ \A v \in Staff : ~(Busy(v) /\ staffCall[v].request = r)
  <2>1. r \in undisturbed' => /\ shownRequests[u][r] = requestStatus[r]
                              /\ \A v \in Staff : ~(Busy(v) /\ staffCall[v].request = r)
    BY <1>1 DEF Call
  <2> QED BY <1>1, <1>2, <2>1 DEF UndisturbedRequestsAreServedOnce
<1>8. UndisturbedCall(u)'
  BY <1>2, <1>3, <1>4, <1>7 DEF UndisturbedCall
<1>9. ASSUME NEW v \in Staff, v # u, Busy(v)', staffCall'[v].request \in undisturbed'
      PROVE  UndisturbedCall(v)'
  <2>1. staffCall[v].request \in SampleRequests /\ staffCall[v].request # r
    BY <1>2, <1>4, <1>7, <1>9 DEF Busy, StaffCall
  <2> QED BY <1>2, <1>3, <1>4, <1>9, <2>1 DEF UndisturbedCall
<1> QED BY <1>5, <1>6, <1>8, <1>9 DEF UndisturbedCall

LEMMA WriteKeepsSamples ==
    ASSUME SamplesInv, NEW u \in Staff, WriteRequest(u)
    PROVE  SamplesFacts'
<1> USE DEF SamplesInv, SamplesFacts, SamplesTypes
<1>0. PICK r \in SampleRequests, op \in {"forward", "reject", "assign"}, leads \in SUBSET PoolLeads :
           /\ r = staffCall[u].request /\ op = staffCall[u].op /\ leads = staffCall[u].leads
           /\ Busy(u)
  BY DEF WriteRequest, Busy, StaffCall
<1>1. /\ requestStatus' = [requestStatus EXCEPT ![r] =
            CASE op = "forward" -> "FORWARDED" [] op = "reject" -> "REJECTED" [] op = "assign" -> "ASSIGNED"]
      /\ deliveries' = deliveries \cup {<<r, x>> : x \in leads}
  BY <1>0 DEF WriteRequest
<1>2. /\ ~Busy(u)' /\ \A v \in Staff : v # u => staffCall'[v] = staffCall[v] /\ (Busy(v)' <=> Busy(v))
      /\ pool' = pool /\ undisturbed' = undisturbed
  BY DEF WriteRequest, EndCall, Busy
<1>3. \A s \in SampleRequests : s # r => Delivered(s)' = Delivered(s) /\ requestStatus'[s] = requestStatus[s]
  BY <1>1 DEF Delivered
<1>4. Delivered(r)' = Delivered(r) \cup leads
  BY <1>1 DEF Delivered
<1>5. op = "assign" <=> requestStatus'[r] = "ASSIGNED"
  BY <1>1 DEF StatusRows
<1>6. AsksWithinQuantity(op, r, leads)
  BY <1>0 DEF CallIsGood
<1>7. UndisturbedRequestsAreServedOnce'
  <2>1. ASSUME r \in undisturbed
        PROVE  /\ Cardinality(Delivered(r)') <= Quantity[r]
               /\ Delivered(r)' # {} <=> requestStatus'[r] = "ASSIGNED"
    <3>1. Delivered(r)' = leads
      BY <1>0, <1>4, <2>1 DEF UndisturbedCall
    <3>2. Cardinality(leads) <= Quantity[r] /\ (leads # {} <=> op = "assign")
      <4>1. CASE op = "assign"
        BY <1>6, <4>1 DEF AsksWithinQuantity
      <4>2. CASE op # "assign"
        <5>1. leads = {} /\ Cardinality(leads) = 0
          BY <1>6, <4>2, FS_EmptySet DEF AsksWithinQuantity
        <5> QED BY <4>2, <5>1, SamplesAssumption
      <4> QED BY <4>1, <4>2
    <3> QED BY <1>5, <3>1, <3>2
  <2>2. ASSUME NEW s \in undisturbed, s # r
        PROVE  /\ Cardinality(Delivered(s)') <= Quantity[s]
               /\ Delivered(s)' # {} <=> requestStatus'[s] = "ASSIGNED"
    BY <1>3, <2>2 DEF UndisturbedRequestsAreServedOnce
  <2> QED BY <1>2, <2>1, <2>2 DEF UndisturbedRequestsAreServedOnce
<1>8. \A v \in Staff : CallIsGood(v)'
  BY <1>2 DEF CallIsGood
<1>9. ASSUME NEW v \in Staff, Busy(v)', staffCall'[v].request \in undisturbed'
      PROVE  UndisturbedCall(v)'
  <2>1. v # u /\ Busy(v) /\ staffCall'[v] = staffCall[v]
    BY <1>2, <1>9
  <2>2. staffCall[v].request \in SampleRequests /\ staffCall[v].request # r
    BY <1>0, <1>2, <1>9, <2>1 DEF Busy, StaffCall, UndisturbedCall
  <2>3. \A w \in Staff : Busy(w)' => Busy(w) /\ staffCall'[w] = staffCall[w]
    BY <1>2
  <2>4. PICK s \in SampleRequests : s = staffCall[v].request
    BY <2>2
  <2>5. /\ s \in undisturbed /\ s # r
        /\ requestStatus'[s] = requestStatus[s] /\ Delivered(s)' = Delivered(s)
    BY <1>2, <1>3, <1>9, <2>1, <2>2, <2>4
  <2>6. /\ requestStatus[s] \in {"PENDING", "FORWARDED"} /\ Delivered(s) = {}
        /\ \A w \in Staff : (Busy(w) /\ staffCall[w].request = s) => w = v
    BY <2>1, <2>4, <2>5 DEF UndisturbedCall
  <2>7. \A w \in Staff : (Busy(w)' /\ staffCall'[w].request = s) => w = v
    BY <2>3, <2>6
  <2> QED BY <2>1, <2>4, <2>5, <2>6, <2>7 DEF UndisturbedCall
<1> QED BY <1>7, <1>8, <1>9 DEF UndisturbedCall

LEMMA SamplesInvHolds == SamplesSpec => []SamplesInv
<1>1. SamplesInit => SamplesInv
  <2> SUFFICES ASSUME SamplesInit
               PROVE  SamplesInv
    OBVIOUS
  <2>1. SamplesTypes
    BY DEF SamplesInit, SamplesTypes, StatusRows
  <2>2. \A r \in SampleRequests : Delivered(r) = {} /\ Cardinality(Delivered(r)) = 0
    BY FS_EmptySet DEF SamplesInit, Delivered
  <2>3. UndisturbedRequestsAreServedOnce
    BY <2>2, SamplesAssumption DEF SamplesInit, UndisturbedRequestsAreServedOnce
  <2> QED BY <2>1, <2>3 DEF SamplesInit, SamplesInv, SamplesFacts, CallIsGood, UndisturbedCall, Busy
<1>2. SamplesInv /\ [SamplesNext]_samplesVars => SamplesInv'
  <2> SUFFICES ASSUME SamplesInv, [SamplesNext]_samplesVars
               PROVE  SamplesFacts'
    BY SamplesStayTyped DEF SamplesInv
  <2> USE DEF SamplesInv, SamplesTypes
  <2>0. \A u \in Staff : Busy(u) => CallIsGood(u) /\ staffCall[u] \in StaffCall
    BY DEF SamplesFacts, Busy
  <2>1. ASSUME NEW r \in SampleRequests, CreateRequest(r)
        PROVE  SamplesFacts'
    <3>1. \A s \in undisturbed : requestStatus'[s] = requestStatus[s]
              \/ (requestStatus[s] = "none" /\ requestStatus'[s] = "PENDING")
      BY <2>1 DEF CreateRequest, StatusRows
    <3>2. staffCall' = staffCall /\ pool' = pool /\ undisturbed' = undisturbed /\ deliveries' = deliveries
      BY <2>1 DEF CreateRequest
    <3> QED BY <2>0, <3>1, <3>2, QuietSamplesStep DEF CallIsGood, Busy
  <2>2. ASSUME NEW u \in Staff, Reload(u)
        PROVE  SamplesFacts'
    <3>1. UNCHANGED <<requestStatus, staffCall, pool, undisturbed, deliveries>>
      BY <2>2 DEF Reload, ReloadRequests, ReloadPool
    <3> QED BY <2>0, <3>1, QuietSamplesStep DEF CallIsGood, Busy
  <2>3. ASSUME NEW u \in Staff, CheckRequest(u) \/ CheckPool(u) \/ FailCall(u)
        PROVE  SamplesFacts'
    <3>1. UNCHANGED <<requestStatus, pool, undisturbed, deliveries>>
      BY <2>3 DEF CheckRequest, CheckPool, FailCall
    <3>2. \A v \in Staff : v # u => staffCall'[v] = staffCall[v]
      BY <2>3 DEF CheckRequest, CheckPool, FailCall, GoOnWith, EndCall
    <3>3. Busy(u)' =>
            /\ Busy(u)
            /\ staffCall'[u].op = staffCall[u].op /\ staffCall'[u].request = staffCall[u].request
            /\ staffCall'[u].leads = staffCall[u].leads /\ staffCall'[u].seen = staffCall[u].seen
            /\ staffCall'[u].step = "write" => staffCall[u].leads = {} \/ staffCall[u].leads \subseteq pool
      <4>1. Busy(u) /\ staffCall[u] \in StaffCall /\ CallIsGood(u)
        BY <2>0, <2>3 DEF CheckRequest, CheckPool, FailCall
      <4>2. CASE CheckRequest(u)
        BY <4>1, <4>2 DEF CheckRequest, GoOnWith, EndCall, Busy, StaffCall, CallIsGood, AsksWithinQuantity
      <4>3. CASE CheckPool(u)
        BY <4>1, <4>3 DEF CheckPool, InPool, GoOnWith, EndCall, Busy, StaffCall
      <4>4. CASE FailCall(u)
        BY <4>4 DEF FailCall, EndCall, Busy
      <4> QED BY <2>3, <4>2, <4>3, <4>4
    <3>4. ASSUME NEW v \in Staff, Busy(v)'
          PROVE  /\ Busy(v)
                 /\ staffCall'[v].op = staffCall[v].op /\ staffCall'[v].request = staffCall[v].request
                 /\ staffCall'[v].leads = staffCall[v].leads
                 /\ pool' \subseteq staffCall'[v].seen
                 /\ staffCall'[v].step = "write" => staffCall[v].leads \subseteq staffCall'[v].seen
      <4>1. CASE v = u
        BY <2>0, <3>1, <3>3, <3>4, <4>1 DEF CallIsGood
      <4>2. CASE v # u
        BY <2>0, <3>1, <3>2, <3>4, <4>2 DEF CallIsGood, Busy
      <4> QED BY <4>1, <4>2
    <3> QED BY <3>1, <3>4, QuietSamplesStep
  <2>4. ASSUME NEW x \in PoolLeads, AddToPool(x)
        PROVE  SamplesFacts'
    <3>1. UNCHANGED <<requestStatus, undisturbed, deliveries>> /\ pool' = pool \cup {x}
      BY <2>4 DEF AddToPool
    <3>2. ASSUME NEW v \in Staff, Busy(v)'
          PROVE  /\ Busy(v)
                 /\ staffCall'[v].op = staffCall[v].op /\ staffCall'[v].request = staffCall[v].request
                 /\ staffCall'[v].leads = staffCall[v].leads
                 /\ pool' \subseteq staffCall'[v].seen
                 /\ staffCall'[v].step = "write" => staffCall[v].leads \subseteq staffCall'[v].seen
      <4>1. Busy(v) /\ staffCall'[v] = [staffCall[v] EXCEPT !.seen = @ \cup {x}]
        BY <2>4, <3>2 DEF AddToPool, Busy
      <4>2. staffCall[v] \in StaffCall /\ CallIsGood(v)
        BY <2>0, <4>1
      <4> QED BY <3>1, <4>1, <4>2 DEF StaffCall, CallIsGood
    <3> QED BY <3>1, <3>2, QuietSamplesStep
  <2>5. ASSUME NEW x \in PoolLeads, RemoveFromPool(x)
        PROVE  SamplesFacts'
    <3>1. UNCHANGED <<requestStatus, staffCall, undisturbed, deliveries>> /\ pool' \subseteq pool
      BY <2>5 DEF RemoveFromPool
    <3> QED BY <2>0, <3>1, QuietSamplesStep DEF CallIsGood, Busy
  <2>6. CASE UNCHANGED samplesVars
    <3>1. UNCHANGED <<requestStatus, staffCall, pool, undisturbed, deliveries>>
      BY <2>6 DEF samplesVars
    <3> QED BY <2>0, <3>1, QuietSamplesStep DEF CallIsGood, Busy
  <2> QED BY <2>1, <2>2, <2>3, <2>4, <2>5, <2>6, DecideKeepsSamples, WriteKeepsSamples
          DEF SamplesNext, Serve
<1> QED BY <1>1, <1>2, PTL DEF SamplesSpec

\* A sample request that no two decisions met at is served once and within its
\* quantity, for any number of sessions, requests and leads: the service lets an
\* assigned request be assigned again, and the screens do not ask for it.
THEOREM SamplesServedOnce == SamplesSpec => [](SamplesTypes /\ UndisturbedRequestsAreServedOnce)
BY SamplesInvHolds, PTL DEF SamplesInv, SamplesFacts

\* assignLeads delivers no lead that was out of the sample pool all along.
THEOREM SamplesComeFromThePool == SamplesSpec => RemovedLeadsAreNotSampled
<1>1. ASSUME SamplesInv, [SamplesNext]_samplesVars
      PROVE  [\A r \in SampleRequests, x \in PoolLeads :
                 <<r, x>> \in deliveries' \ deliveries =>
                     \E u \in Staff : Busy(u) /\ x \in staffCall[u].seen]_samplesVars
  <2> SUFFICES ASSUME SamplesNext, NEW r \in SampleRequests, NEW x \in PoolLeads,
                      <<r, x>> \in deliveries' \ deliveries
               PROVE  \E u \in Staff : Busy(u) /\ x \in staffCall[u].seen
    BY <1>1
  <2>1. \A u \in Staff : Decide(u) => deliveries' = deliveries
    BY <1>1, DecideIsCall DEF SamplesInv, Call
  <2>2. PICK u \in Staff : WriteRequest(u)
    BY <2>1 DEF SamplesNext, CreateRequest, Reload, ReloadRequests, ReloadPool, Serve,
                CheckRequest, CheckPool, FailCall, AddToPool, RemoveFromPool
  <2>3. Busy(u) /\ staffCall[u].step = "write" /\ x \in staffCall[u].leads
    BY <2>2 DEF WriteRequest
  <2> QED BY <1>1, <2>3 DEF SamplesInv, SamplesFacts, CallIsGood
<1> QED BY <1>1, SamplesInvHolds, PTL DEF SamplesSpec, RemovedLeadsAreNotSampled
-----------------------------------------------------------------------------
(* Lead columns. *)

\* Among the members of a finite set one has the highest value.
LEMMA SomeRowIsHighest ==
    ASSUME NEW C, IsFiniteSet(C), NEW rows \in [C -> Int], NEW S \in SUBSET C, S # {}
    PROVE  \E x \in S : \A y \in S : rows[y] <= rows[x]
<1> DEFINE Top(U) == \E x \in U : \A y \in U : rows[y] <= rows[x]
           Bad == {U \in SUBSET C : U # {} /\ ~Top(U)}
<1>1. IsWellFoundedOn(StrictSubsetOrdering(C), SUBSET C)
  BY FS_StrictSubsetOrderingWellFounded, FS_FiniteSubsetsOfFinite
<1>2. SUFFICES ASSUME Bad # {}
               PROVE  FALSE
  OBVIOUS
<1>3. PICK U \in Bad : \A V \in Bad : ~(<<V, U>> \in StrictSubsetOrdering(C))
  <2>1. Bad \subseteq SUBSET C
    OBVIOUS
  <2> HIDE DEF Bad
  <2> QED BY <1>1, <1>2, <2>1, WFMin
<1>4. PICK x \in U : TRUE
  OBVIOUS
<1>5. U \ {x} \notin Bad
  BY <1>3, <1>4 DEF StrictSubsetOrdering
<1>6. ASSUME U \ {x} = {}
      PROVE  FALSE
  <2>1. \A y \in U : y = x
    BY <1>6
  <2>2. rows[x] <= rows[x]
    BY <1>4
  <2> QED BY <1>4, <2>1, <2>2
<1>7. ASSUME Top(U \ {x})
      PROVE  FALSE
  <2>1. PICK y \in U \ {x} : \A z \in U \ {x} : rows[z] <= rows[y]
    BY <1>7
  <2>2. \A z \in U : rows[z] \in Int
    OBVIOUS
  <2>3. CASE rows[x] <= rows[y]
    BY <2>1, <2>3
  <2>4. CASE ~(rows[x] <= rows[y])
    BY <1>4, <2>1, <2>2, <2>4
  <2> QED BY <2>3, <2>4
<1> QED BY <1>5, <1>6, <1>7

LEMMA HighestIsMax ==
    ASSUME NEW S \in SUBSET Nat, IsFiniteSet(S), S # {}
    PROVE  Highest(S) \in S /\ \A m \in S : m <= Highest(S)
<1> DEFINE same == [n \in S |-> n]
<1>1. same \in [S -> Int]
  OBVIOUS
<1>2. \E n \in S : \A m \in S : same[m] <= same[n]
  BY <1>1, SomeRowIsHighest
<1>3. \E n \in S : \A m \in S : m <= n
  BY <1>2
<1> QED BY <1>3 DEF Highest

\* The image of a finite set is finite.
LEMMA ImageIsFinite ==
    ASSUME NEW S, IsFiniteSet(S), NEW T, NEW f \in [S -> T], \A y \in T : \E x \in S : f[x] = y
    PROVE  IsFiniteSet(T)
<1>1. f \in Surjection(S, T)
  BY DEF Surjection
<1> QED BY <1>1, FS_Surjection

\* The fields of a call that is under way go with its operation.
JobIsGood(k) ==
    job[k] # NoJob =>
        /\ job[k].op \in {"create", "remove", "update"} => job[k].col \in Columns
        /\ job[k].op = "create" => TypeOf[job[k].col] = job[k].type
        /\ \A f \in FieldKeys : IsFiniteSet(job[k].order[f])

ColumnsShape ==
    /\ ColumnsTypes
    /\ \A e \in Editors : IsFiniteSet(screen[e])
    /\ \A k \in Jobs : JobIsGood(k)

LEMMA JobFields ==
    ASSUME ColumnsTypes, NEW k \in Jobs, job[k] # NoJob
    PROVE  /\ job[k] \in Job
           /\ job[k].who \in Editors /\ job[k].type \in Tabs
           /\ job[k].col \in Columns \cup {NoColumn} /\ job[k].at \in Nat
           /\ job[k].order \in [FieldKeys -> SUBSET Nat]
           /\ job[k].moved \subseteq Columns /\ job[k].rows \in Positions
           /\ job[k].op \in {"create", "remove", "update", "reorder", "load"}
           /\ job[k].step \in {"read", "write", "shift", "commit", "list", "answer"}
BY DEF ColumnsTypes, Job

\* The indices on a screen are below the next one.
LEMMA NextIndexIsNext ==
    ASSUME ColumnsShape, NEW e \in Editors
    PROVE  NextIndex(e) \in Nat /\ \A r \in screen[e] : r.index < NextIndex(e)
<1> DEFINE f == [r \in screen[e] |-> r.index]
           I == {r.index : r \in screen[e]}
           S == {0} \cup I
<1>1. screen[e] \subseteq Entry /\ IsFiniteSet(screen[e])
  BY DEF ColumnsShape, ColumnsTypes
<1>2. \A r \in screen[e] : r.index \in Nat
  BY <1>1 DEF Entry
<1>3. f \in [screen[e] -> I] /\ \A i \in I : \E r \in screen[e] : f[r] = i
  OBVIOUS
<1>4. I \subseteq Nat
  BY <1>2
<1>5. IsFiniteSet(I)
  <2> HIDE DEF f, I
  <2> QED BY <1>1, <1>3, ImageIsFinite
<1>6. IsFiniteSet(S)
  <2> HIDE DEF I
  <2>1. S = I \cup {0}
    OBVIOUS
  <2> QED BY <1>5, <2>1, FS_AddElement
<1>7. S \subseteq Nat /\ 0 \in S
  BY <1>4
<1>8. Highest(S) \in Nat /\ \A m \in S : m <= Highest(S)
  BY <1>6, <1>7, HighestIsMax
<1>9. NextIndex(e) = Highest(S) + 1
  BY DEF NextIndex
<1> HIDE DEF S
<1>10. \A r \in screen[e] : r.index \in S
  BY DEF S
<1> QED BY <1>2, <1>8, <1>9, <1>10

LEMMA PatchedIsTyped ==
    ASSUME ColumnsShape, NEW k \in Jobs, job[k] # NoJob
    PROVE  /\ Patched(job[k].who, job[k]) \subseteq Entry
           /\ IsFiniteSet(Patched(job[k].who, job[k]))
<1>1. ColumnsTypes /\ JobIsGood(k)
  BY DEF ColumnsShape
<1>2. PICK e \in Editors : e = job[k].who
  BY <1>1, JobFields
<1>3. screen[e] \subseteq Entry /\ IsFiniteSet(screen[e])
  BY <1>2 DEF ColumnsShape, ColumnsTypes
<1>4. PICK n \in Nat : n = job[k].at
  BY <1>1, JobFields
<1>5. CASE job[k].op = "create"
  <2>1. PICK x \in Columns : x = job[k].col
    BY <1>1, <1>5 DEF JobIsGood
  <2>2. Patched(e, job[k]) = screen[e] \cup {[col |-> x, at |-> n, index |-> NextIndex(e)]}
    BY <1>4, <1>5, <2>1 DEF Patched
  <2>3. [col |-> x, at |-> n, index |-> NextIndex(e)] \in Entry
    BY NextIndexIsNext DEF Entry
  <2>4. IsFiniteSet(screen[e] \cup {[col |-> x, at |-> n, index |-> NextIndex(e)]})
    BY <1>3, FS_AddElement
  <2> QED BY <1>2, <1>3, <2>2, <2>3, <2>4
<1>6. CASE job[k].op = "remove"
  <2>1. Patched(e, job[k]) = {r \in screen[e] : r.col # job[k].col}
    BY <1>6 DEF Patched
  <2> QED BY <1>2, <1>3, <2>1, FS_Subset
<1>7. CASE job[k].op = "update"
  <2> DEFINE f == [r \in screen[e] |-> IF r.col = job[k].col THEN [r EXCEPT !.at = n] ELSE r]
         P == {IF r.col = job[k].col THEN [r EXCEPT !.at = n] ELSE r : r \in screen[e]}
  <2>1. Patched(e, job[k]) = P
    BY <1>4, <1>7 DEF Patched
  <2>2. P \subseteq Entry
    BY <1>3 DEF Entry
  <2>3. f \in [screen[e] -> P] /\ \A s \in P : \E r \in screen[e] : f[r] = s
    OBVIOUS
  <2>4. IsFiniteSet(P)
    <3> HIDE DEF f, P
    <3> QED BY <1>3, <2>3, ImageIsFinite
  <2> QED BY <1>2, <2>1, <2>2, <2>4
<1>8. CASE job[k].op \in {"reorder", "load"}
  <2>1. PICK rows \in Positions : rows = job[k].rows
    BY <1>1, JobFields
  <2> DEFINE f == [x \in Present(rows) |-> [col |-> x, at |-> rows[x], index |-> rows[x]]]
  <2>2. Patched(e, job[k]) = FullList(rows)
    BY <1>8, <2>1 DEF Patched
  <2>3. FullList(rows) \subseteq Entry
    BY DEF FullList, Present, Entry, Positions
  <2>4. IsFiniteSet(Present(rows))
    BY ColumnsAssumption, FS_Subset DEF Present
  <2>5. f \in [Present(rows) -> FullList(rows)] /\ \A r \in FullList(rows) : \E x \in Present(rows) : f[x] = r
    BY DEF FullList
  <2>6. IsFiniteSet(FullList(rows))
    <3> HIDE DEF f
    <3> QED BY <2>4, <2>5, ImageIsFinite
  <2> QED BY <1>2, <2>2, <2>3, <2>6
<1> QED BY <1>1, <1>5, <1>6, <1>7, <1>8, JobFields

\* The order that a move sends names finitely many places.
LEMMA MoveIsTyped ==
    ASSUME ColumnsShape, NEW e \in Editors, NEW n \in Nat, NEW f \in FieldKeys
    PROVE  LET places == {Swapped(Rank(e, r), n) : r \in {s \in screen[e] : KeyOf[s.col] = f}}
           IN  places \subseteq Nat /\ IsFiniteSet(places)
<1> DEFINE S == {s \in screen[e] : KeyOf[s.col] = f}
           g == [r \in S |-> Swapped(Rank(e, r), n)]
           P == {Swapped(Rank(e, r), n) : r \in S}
<1>1. IsFiniteSet(screen[e])
  BY DEF ColumnsShape
<1>2. \A r \in screen[e] : Rank(e, r) \in Nat
  <2> TAKE r \in screen[e]
  <2>1. IsFiniteSet({s \in screen[e] : ShownBefore(s, r)})
    BY <1>1, FS_Subset
  <2> QED BY <2>1, FS_CardinalityType DEF Rank
<1>3. P \subseteq Nat
  <2>1. \A i \in Nat : Swapped(i, n) \in Nat
    BY DEF Swapped
  <2> QED BY <1>2, <2>1
<1>4. IsFiniteSet(S)
  BY <1>1, FS_Subset
<1>5. g \in [S -> P] /\ \A i \in P : \E r \in S : g[r] = i
  OBVIOUS
<1>6. IsFiniteSet(P)
  <2> HIDE DEF g, P, S
  <2> QED BY <1>4, <1>5, ImageIsFinite
<1> QED BY <1>3, <1>6

\* What an editor sends.
LEMMA EditStarts ==
    ASSUME ColumnsShape, NEW k \in Jobs, NEW e \in Editors, Edit(k, e)
    PROVE  \E op \in {"create", "remove", "update", "reorder", "load"},
              x \in Columns \cup {NoColumn}, order \in [FieldKeys -> SUBSET Nat], t \in Tabs :
              /\ op \in {"create", "remove", "update"} => x \in Columns
              /\ op = "create" => TypeOf[x] = t
              /\ \A f \in FieldKeys : IsFiniteSet(order[f])
              /\ tab' = [tab EXCEPT ![e] = t]
              /\ op # "load" => t = tab[e]
              /\ view' \in [Editors -> {"closed", "loading", "table", "error"}]
              /\ Start(k, e, op, x, order)
<1>1. /\ ColumnsTypes
      /\ tab[e] \in Tabs /\ tab = [tab EXCEPT ![e] = tab[e]]
      /\ view \in [Editors -> {"closed", "loading", "table", "error"}]
  BY DEF ColumnsShape, ColumnsTypes
<1>2. NoOrder \in [FieldKeys -> SUBSET Nat] /\ \A f \in FieldKeys : IsFiniteSet(NoOrder[f])
  BY FS_EmptySet DEF NoOrder
<1>3. ASSUME NEW t \in Tabs, StartLoad(k, e, t)
      PROVE  /\ Start(k, e, "load", NoColumn, NoOrder) /\ tab' = [tab EXCEPT ![e] = t]
             /\ view' \in [Editors -> {"closed", "loading", "table", "error"}]
  BY <1>1, <1>3 DEF StartLoad
<1>4. CASE OpenEditor(k, e) \/ \E t \in Tabs : ChooseTab(k, e, t)
  <2>1. PICK t \in Tabs : StartLoad(k, e, t)
    BY <1>4, ColumnsAssumption DEF OpenEditor, ChooseTab
  <2>2. "load" \notin {"create", "remove", "update"} /\ "load" # "create"
    OBVIOUS
  <2> QED BY <1>2, <1>3, <2>1, <2>2
<1>5. ASSUME NEW x \in Columns, StartCreate(k, e, x) \/ StartRemove(k, e, x) \/ StartUpdate(k, e, x)
      PROVE  /\ tab' = tab /\ view' = view
             /\ \E op \in {"create", "remove", "update"} :
                   Start(k, e, op, x, NoOrder) /\ (op = "create" => TypeOf[x] = tab[e])
  BY <1>5 DEF StartCreate, StartRemove, StartUpdate, SendCall
<1>6. CASE \E x \in Columns : StartCreate(k, e, x) \/ StartRemove(k, e, x) \/ StartUpdate(k, e, x)
  BY <1>1, <1>2, <1>5, <1>6
<1>7. ASSUME NEW n \in 1 .. Cardinality(screen[e]), StartMove(k, e, n)
      PROVE  /\ tab' = tab /\ view' = view
             /\ \E order \in [FieldKeys -> SUBSET Nat] :
                   Start(k, e, "reorder", NoColumn, order) /\ \A f \in FieldKeys : IsFiniteSet(order[f])
  <2> DEFINE order == [f \in FieldKeys |->
                 {Swapped(Rank(e, r), n) : r \in {s \in screen[e] : KeyOf[s.col] = f}}]
  <2>1. n \in Nat
    OBVIOUS
  <2>2. order \in [FieldKeys -> SUBSET Nat] /\ \A f \in FieldKeys : IsFiniteSet(order[f])
    BY <2>1, MoveIsTyped
  <2>3. Start(k, e, "reorder", NoColumn, order) /\ tab' = tab /\ view' = view
    BY <1>7 DEF StartMove, SendCall
  <2> HIDE DEF order
  <2> QED BY <2>2, <2>3
<1>8. CASE \E n \in 1 .. Cardinality(screen[e]) : StartMove(k, e, n)
  <2>1. "reorder" \notin {"create", "remove", "update"} /\ "reorder" # "create" /\ "reorder" # "load"
    OBVIOUS
  <2> QED BY <1>1, <1>7, <1>8, <2>1
<1> QED BY <1>4, <1>6, <1>8 DEF Edit

\* create takes a position after those of its type.
LEMMA LastIsHighest ==
    ASSUME ColumnsTypes, NEW t
    PROVE  LET n == Highest({0} \cup {position[x] : x \in OfType(t)}) + 1
           IN  n \in Nat /\ n # 0 /\ \A x \in OfType(t) : position[x] < n
<1> DEFINE I == {position[x] : x \in OfType(t)}
           f == [x \in OfType(t) |-> position[x]]
<1>1. I \subseteq Nat /\ IsFiniteSet(OfType(t))
  BY ColumnsAssumption, FS_Subset DEF OfType, Present, Positions, ColumnsTypes
<1>2. f \in [OfType(t) -> I] /\ \A i \in I : \E x \in OfType(t) : f[x] = i
  OBVIOUS
<1>3. IsFiniteSet(I)
  <2> HIDE DEF f, I
  <2> QED BY <1>1, <1>2, ImageIsFinite
<1>4. IsFiniteSet({0} \cup I) /\ {0} \cup I \subseteq Nat /\ 0 \in {0} \cup I
  <2> HIDE DEF I
  <2>1. {0} \cup I = I \cup {0}
    OBVIOUS
  <2> QED BY <1>1, <1>3, <2>1, FS_AddElement
<1>5. Highest({0} \cup I) \in Nat /\ \A i \in {0} \cup I : i <= Highest({0} \cup I)
  <2> HIDE DEF I
  <2> QED BY <1>4, HighestIsMax
<1>6. \A x \in OfType(t) : position[x] \in I
  OBVIOUS
<1> HIDE DEF I
<1>7. \A x \in OfType(t) : position[x] <= Highest({0} \cup I) /\ position[x] \in Nat
  BY <1>1, <1>5, <1>6
<1> QED BY <1>5, <1>7 DEF I

LEMMA ColumnsStayShaped ==
    ASSUME ColumnsShape, [ColumnsNext]_columnsVars
    PROVE  ColumnsShape'
<1> USE DEF ColumnsTypes
<1>1. ColumnsTypes /\ \A k \in Jobs : JobIsGood(k)
  BY DEF ColumnsShape
<1>2. \A k \in Jobs, step \in {"read", "write", "shift", "commit", "list", "answer"}, n \in Nat :
        job[k] # NoJob => /\ [job[k] EXCEPT !.step = step] \in Job
                          /\ [job[k] EXCEPT !.step = step, !.at = n] \in Job
  <2>1. ASSUME NEW j \in Job, NEW n \in Nat,
               NEW step \in {"read", "write", "shift", "commit", "list", "answer"}
        PROVE  [j EXCEPT !.step = step] \in Job /\ [j EXCEPT !.step = step, !.at = n] \in Job
    BY DEF Job
  <2> QED BY <1>1, <2>1, JobFields
\* A call that keeps its operation, type, column and order stays good.
<1>3. ASSUME NEW k \in Jobs, job'[k] # NoJob,
             job[k] # NoJob, job'[k].op = job[k].op, job'[k].col = job[k].col, job'[k].type = job[k].type,
             job'[k].order = job[k].order \/ job'[k].order = NoOrder
      PROVE  JobIsGood(k)'
  BY <1>1, <1>3, FS_EmptySet DEF JobIsGood, NoOrder
<1>4. ASSUME NEW k \in Jobs, \A i \in Jobs \ {k} : job'[i] = job[i], JobIsGood(k)'
      PROVE  \A i \in Jobs : JobIsGood(i)'
  BY <1>1, <1>4 DEF JobIsGood
<1>5. ASSUME NEW e \in Editors, CloseColumnDialog(e) \/ \E x \in Columns : OpenColumnDialog(e, x)
      PROVE  ColumnsShape'
  <2>1. columnDialog' \in [Editors -> Columns \cup {NoColumn}]
    BY <1>1, <1>5 DEF CloseColumnDialog, OpenColumnDialog
  <2>2. UNCHANGED <<position, dropped, tab, view, screen, job, fresh, doubt, calls>>
    BY <1>5 DEF CloseColumnDialog, OpenColumnDialog, rowVars
  <2> QED BY <2>1, <2>2 DEF ColumnsShape, JobIsGood
<1>6. ASSUME NEW k \in Jobs, NEW e \in Editors, Edit(k, e)
      PROVE  ColumnsShape'
  <2>1. PICK op \in {"create", "remove", "update", "reorder", "load"},
             x \in Columns \cup {NoColumn}, order \in [FieldKeys -> SUBSET Nat], t \in Tabs :
             /\ op \in {"create", "remove", "update"} => x \in Columns
             /\ op = "create" => TypeOf[x] = t
             /\ \A f \in FieldKeys : IsFiniteSet(order[f])
             /\ tab' = [tab EXCEPT ![e] = t]
             /\ view' \in [Editors -> {"closed", "loading", "table", "error"}]
             /\ Start(k, e, op, x, order)
    BY <1>6, EditStarts
  <2> DEFINE j == [op |-> op, who |-> e, type |-> t, step |-> IF op = "load" THEN "list" ELSE "read",
                   col |-> x, at |-> 0, order |-> order, moved |-> {}, rows |-> Nowhere]
  <2>2. j \in Job
    BY DEF Job, Nowhere, Positions
  <2>3. tab' \in [Editors -> Tabs] /\ tab'[e] = t
    BY <1>1, <2>1
  <2>4. job' = [job EXCEPT ![k] = j]
    BY <2>1, <2>3 DEF Start
  <2>5. job' \in [Jobs -> Job \cup {NoJob}] /\ job'[k] = j /\ \A i \in Jobs \ {k} : job'[i] = job[i]
    BY <1>1, <2>2, <2>4
  <2>6. JobIsGood(k)'
    BY <2>1, <2>5 DEF JobIsGood
  <2>7. doubt' = doubt \/ doubt' = [doubt EXCEPT ![e] = 2]
    BY <2>1 DEF Start
  <2>8. doubt' \in [Editors -> 0 .. 2]
    BY <1>1, <2>7
  <2>9. columnDialog' \in [Editors -> Columns \cup {NoColumn}] /\ calls' \in Nat
        /\ UNCHANGED <<position, dropped, screen, fresh>>
    BY <1>1, <2>1 DEF Start, rowVars
  <2> HIDE DEF j
  <2>10. \A i \in Jobs : JobIsGood(i)'
    BY <1>4, <2>5, <2>6
  <2>11. \A f \in Editors : IsFiniteSet(screen'[f])
    BY <2>9 DEF ColumnsShape
  <2> QED BY <1>1, <2>1, <2>3, <2>5, <2>8, <2>9, <2>10, <2>11 DEF ColumnsShape
\* The steps of the service keep the screens, the dialogs and the tabs.
<1>7. ASSUME NEW k \in Jobs, UNCHANGED <<shownVars, calls>>, job[k] # NoJob,
             position' \in Positions, dropped' \subseteq Columns, fresh' \subseteq Jobs,
             doubt' \in [Editors -> 0 .. 2],
             NEW j \in Job, job' = [job EXCEPT ![k] = j],
             j.op = job[k].op, j.col = job[k].col, j.type = job[k].type,
             j.order = job[k].order \/ j.order = NoOrder
      PROVE  ColumnsShape'
  <2>1. job' \in [Jobs -> Job \cup {NoJob}] /\ job'[k] = j /\ \A i \in Jobs \ {k} : job'[i] = job[i]
    BY <1>1, <1>7
  <2>2. job'[k] # NoJob
    BY <2>1 DEF Job, NoJob
  <2>3. JobIsGood(k)'
    BY <1>7, <1>3, <2>1, <2>2
  <2>4. \A i \in Jobs : JobIsGood(i)'
    BY <1>4, <2>1, <2>3
  <2>5. UNCHANGED <<tab, view, columnDialog, screen, calls>>
    BY <1>7 DEF shownVars
  <2> QED BY <1>1, <1>7, <2>1, <2>4, <2>5 DEF ColumnsShape
<1>8. ASSUME NEW k \in Jobs, ReadLast(k) \/ ReadRow(k) \/ UpdateColumn(k)
      PROVE  ColumnsShape'
  <2>1. job[k] # NoJob /\ job[k] \in Job
    BY <1>1, <1>8, JobFields DEF ReadLast, ReadRow, UpdateColumn, At
  <2>2. ASSUME NEW step \in {"write", "answer"}, NEW n \in Nat, UNCHANGED <<rowVars, shownVars, fresh, doubt, calls>>,
               job' = [job EXCEPT ![k].step = step, ![k].at = n]
        PROVE  ColumnsShape'
    <3> DEFINE j == [job[k] EXCEPT !.step = step, !.at = n]
    <3>1. j \in Job /\ job' = [job EXCEPT ![k] = j]
      BY <1>2, <2>1, <2>2
    <3>2. j.op = job[k].op /\ j.col = job[k].col /\ j.type = job[k].type /\ j.order = job[k].order
      BY <2>1 DEF Job
    <3>3. UNCHANGED <<position, dropped, fresh, doubt, shownVars, calls>>
      BY <2>2 DEF rowVars
    <3> HIDE DEF j
    <3> QED BY <1>1, <1>7, <2>1, <3>1, <3>2, <3>3
  <2>3. CASE ReadLast(k)
    BY <1>1, <2>2, <2>3, LastIsHighest DEF ReadLast
  <2>4. CASE ReadRow(k) \/ UpdateColumn(k)
    <3>1. job[k].col \in Columns
      BY <1>1, <2>1, <2>4 DEF JobIsGood, ReadRow, UpdateColumn, At
    <3>2. position[job[k].col] \in Nat
      BY <1>1, <3>1 DEF Positions
    <3> QED BY <2>2, <2>4, <3>2 DEF ReadRow, UpdateColumn
  <2> QED BY <1>8, <2>3, <2>4
<1>9. ASSUME NEW k \in Jobs, InsertColumn(k) \/ RemoveColumn(k) \/ ReadKeys(k)
      PROVE  ColumnsShape'
  <2>1. job[k] # NoJob /\ job[k] \in Job /\ job[k].who \in Editors /\ job[k].at \in Nat
    BY <1>1, <1>9, JobFields DEF InsertColumn, RemoveColumn, ReadKeys, At
  <2>2. ReadKeys(k) \/ job[k].col \in Columns
    BY <1>1, <1>9, <2>1 DEF JobIsGood, InsertColumn, RemoveColumn, At
  <2>3. PICK step \in {"answer", "shift"} : job' = [job EXCEPT ![k].step = step]
    BY <1>9 DEF InsertColumn, RemoveColumn, ReadKeys, GoTo
  <2> DEFINE j == [job[k] EXCEPT !.step = step]
  <2>4. j \in Job /\ job' = [job EXCEPT ![k] = j]
    BY <1>2, <2>1, <2>3
  <2>5. j.op = job[k].op /\ j.col = job[k].col /\ j.type = job[k].type /\ j.order = job[k].order
    BY <2>1 DEF Job
  <2> HIDE DEF j
  <2>6. CASE InsertColumn(k)
    <3>1. position' \in Positions
      BY <1>1, <2>1, <2>2, <2>6 DEF InsertColumn, ReadKeys, At, Positions
    <3>2. doubt' \in [Editors -> 0 .. 2] /\ fresh' \subseteq Jobs
      BY <1>1, <2>1, <2>6 DEF InsertColumn, Disturb
    <3>3. UNCHANGED <<dropped, shownVars, calls>>
      BY <2>6 DEF InsertColumn
    <3> QED BY <1>1, <1>7, <2>1, <2>4, <2>5, <3>1, <3>2, <3>3
  <2>7. CASE RemoveColumn(k)
    <3>1. \A x \in Columns : position[x] \in Nat
      BY <1>1 DEF Positions
    <3>2. position' \in Positions
      BY <2>1, <2>7, <3>1 DEF RemoveColumn, Renumbered, Positions
    <3>3. doubt' \in [Editors -> 0 .. 2] /\ fresh' \subseteq Jobs
      BY <1>1, <2>1, <2>7 DEF RemoveColumn, Disturb
    <3>4. dropped' \subseteq Columns /\ UNCHANGED <<shownVars, calls>>
      BY <1>1, <2>1, <2>7 DEF RemoveColumn, JobIsGood, At
    <3> QED BY <1>7, <2>1, <2>4, <2>5, <3>2, <3>3, <3>4
  <2>8. CASE ReadKeys(k)
    <3>1. UNCHANGED <<position, dropped, fresh, doubt, shownVars, calls>>
      BY <2>8 DEF ReadKeys, rowVars
    <3> QED BY <1>1, <1>7, <2>1, <2>4, <2>5, <3>1
  <2> QED BY <1>9, <2>6, <2>7, <2>8
<1>10. ASSUME NEW k \in Jobs, Shift(k) \/ ListAll(k)
      PROVE  ColumnsShape'
  <2>1. job[k] # NoJob /\ job[k] \in Job
    BY <1>1, <1>10, JobFields DEF Shift, ListAll, At
  <2>2. PICK j \in Job : /\ job' = [job EXCEPT ![k] = j]
                         /\ j.op = job[k].op /\ j.col = job[k].col
                         /\ j.type = job[k].type /\ j.order = job[k].order
    <3>1. CASE Shift(k)
      <4> DEFINE j == [job[k] EXCEPT !.step = "commit", !.moved = OfType(job[k].type)]
      <4>1. j \in Job /\ j.op = job[k].op /\ j.col = job[k].col /\ j.type = job[k].type /\ j.order = job[k].order
        BY <2>1 DEF Job, OfType, Present
      <4>2. job' = [job EXCEPT ![k] = j]
        BY <3>1 DEF Shift
      <4> HIDE DEF j
      <4> QED BY <4>1, <4>2
    <3>2. CASE ListAll(k)
      <4> DEFINE j == [job[k] EXCEPT !.step = "answer", !.rows = RowsOf(job[k].type)]
      <4>1. RowsOf(job[k].type) \in Positions
        BY <1>1 DEF RowsOf, Positions
      <4>2. j \in Job /\ j.op = job[k].op /\ j.col = job[k].col /\ j.type = job[k].type /\ j.order = job[k].order
        BY <2>1, <4>1 DEF Job
      <4>3. job' = [job EXCEPT ![k] = j]
        BY <3>2 DEF ListAll
      <4> HIDE DEF j
      <4> QED BY <4>2, <4>3
    <3> QED BY <1>10, <3>1, <3>2
  <2>3. UNCHANGED <<position, dropped, doubt, shownVars, calls>> /\ fresh' \subseteq Jobs
    BY <1>1, <1>10 DEF Shift, ListAll, rowVars
  <2> QED BY <1>1, <1>7, <2>1, <2>2, <2>3
<1>11. ASSUME NEW k \in Jobs, CommitOrder(k)
      PROVE  ColumnsShape'
  <2>1. job[k] # NoJob /\ job[k] \in Job
    BY <1>1, <1>11, JobFields DEF CommitOrder, At
  <2> DEFINE j == [job[k] EXCEPT !.step = "list", !.moved = {}, !.order = NoOrder]
  <2>2. j \in Job /\ j.op = job[k].op /\ j.col = job[k].col /\ j.type = job[k].type /\ j.order = NoOrder
    BY <2>1 DEF Job, NoOrder
  <2>3. job' = [job EXCEPT ![k] = j]
    BY <1>11 DEF CommitOrder
  <2>4. \A x \in Columns : Reordered(position, job[k])[x] \in Nat
    <3> TAKE x \in Columns
    <3>1. KeyOf[x] \in FieldKeys /\ position[x] \in Nat
      BY <1>1 DEF FieldKeys, Positions
    <3>2. job[k].order[KeyOf[x]] \subseteq Nat /\ IsFiniteSet(job[k].order[KeyOf[x]])
      BY <1>1, <2>1, <3>1, JobFields DEF JobIsGood
    <3>3. job[k].order[KeyOf[x]] # {} => Highest(job[k].order[KeyOf[x]]) \in Nat
      BY <3>2, HighestIsMax
    <3> QED BY <3>1, <3>3 DEF Reordered
  <2>5. position' \in Positions
    BY <1>11, <2>4 DEF CommitOrder, Reordered, Positions
  <2>6. doubt' \in [Editors -> 0 .. 2] /\ fresh' \subseteq Jobs /\ UNCHANGED <<dropped, shownVars, calls>>
    BY <1>1, <1>11 DEF CommitOrder, Disturb
  <2> HIDE DEF j
  <2> QED BY <1>1, <1>7, <2>1, <2>2, <2>3, <2>5, <2>6
<1>12. ASSUME NEW k \in Jobs, FailJob(k) \/ AnswerEditor(k)
      PROVE  ColumnsShape'
  <2>1. job[k] # NoJob
    BY <1>12 DEF FailJob, AnswerEditor
  <2>2. job' = [job EXCEPT ![k] = NoJob] /\ fresh' = fresh \ {k}
        /\ UNCHANGED <<position, dropped, tab, columnDialog, calls>>
    BY <1>12 DEF FailJob, AnswerEditor, End, rowVars
  <2>3. job'[k] = NoJob /\ job' \in [Jobs -> Job \cup {NoJob}] /\ \A i \in Jobs \ {k} : job'[i] = job[i]
    BY <1>1, <2>2
  <2>4. \A i \in Jobs : JobIsGood(i)'
    BY <1>4, <2>3 DEF JobIsGood
  <2>5. PICK v \in {"table", "error"} : view' = view \/ view' = [view EXCEPT ![job[k].who] = v]
    BY <1>12 DEF FailJob, AnswerEditor
  <2>6. PICK n \in {0, 2} : doubt' = doubt \/ doubt' = [doubt EXCEPT ![job[k].who] = n]
    BY <1>12 DEF FailJob, AnswerEditor
  <2>7. view' \in [Editors -> {"closed", "loading", "table", "error"}] /\ doubt' \in [Editors -> 0 .. 2]
    BY <1>1, <2>5, <2>6
  <2>8. screen' = screen \/ screen' = [screen EXCEPT ![job[k].who] = Patched(job[k].who, job[k])]
    BY <1>12 DEF FailJob, AnswerEditor
  <2>9. screen' \in [Editors -> SUBSET Entry] /\ \A e \in Editors : IsFiniteSet(screen'[e])
    BY <1>1, <2>1, <2>8, PatchedIsTyped DEF ColumnsShape
  <2> QED BY <1>1, <2>2, <2>3, <2>4, <2>7, <2>9 DEF ColumnsShape
<1>13. CASE UNCHANGED columnsVars
  BY <1>13 DEF columnsVars, ColumnsShape, JobIsGood
<1> QED BY <1>5, <1>6, <1>8, <1>9, <1>10, <1>11, <1>12, <1>13 DEF ColumnsNext, Work

\* A step of a job leaves the other jobs alone.
LEMMA OtherJobsStay ==
    ASSUME ColumnsTypes, NEW k \in Jobs, Work(k)
    PROVE  /\ job[k] # NoJob /\ tab' = tab
           /\ \A i \in Jobs \ {k} : job'[i] = job[i]
           /\ job'[k] # NoJob => /\ job'[k].who = job[k].who /\ job'[k].type = job[k].type
                                 /\ job'[k].op = job[k].op /\ job'[k].col = job[k].col
<1>1. job[k] # NoJob /\ job[k] \in Job
  BY JobFields DEF Work, ReadLast, InsertColumn, ReadRow, RemoveColumn, UpdateColumn, ReadKeys,
                   Shift, CommitOrder, ListAll, FailJob, AnswerEditor, At
<1>2. tab' = tab
  BY DEF Work, ReadLast, InsertColumn, ReadRow, RemoveColumn, UpdateColumn, ReadKeys,
         Shift, CommitOrder, ListAll, FailJob, AnswerEditor, shownVars
<1> QED
  BY <1>1, <1>2 DEF ColumnsTypes, Work, ReadLast, InsertColumn, ReadRow, RemoveColumn, UpdateColumn,
       ReadKeys, Shift, CommitOrder, ListAll, FailJob, AnswerEditor, GoTo, End, Job

\* The columns of the tab are on the screen once, with places and indices that
\* go with what is stored.
Fits(e) ==
    LET T == OfType(tab[e]) IN
    /\ \A r, s \in screen[e] : r.col = s.col => r = s
    /\ \A r \in screen[e] : r.col \in T =>
          position[r.col] <= r.at /\ r.at <= position[r.col] + doubt[e]
    /\ \A r, s \in screen[e] :
          r.col \in T /\ s.col \in T /\ position[r.col] < position[s.col] => r.index < s.index

Settled(e) == Fits(e) /\ Shown(e) = OfType(tab[e])

\* The column that a call has created or removed is the only one to differ.
CreatedLast(e, k) ==
    LET x == job[k].col
        T == OfType(tab[e])
    IN
    /\ Fits(e) /\ x \in T /\ position[x] = job[k].at
    /\ Shown(e) = T \ {x}
    /\ \A y \in T : y # x => position[y] < position[x]

RemovedOnly(e, k) ==
    LET x == job[k].col
        T == OfType(tab[e])
    IN
    /\ Fits(e) /\ position[x] = 0 /\ doubt[e] = 1
    /\ T \subseteq Shown(e) /\ Shown(e) \subseteq T \cup {x}

Unsettling(k) == At(k, "create", "answer") \/ At(k, "remove", "answer")

\* What the call of a screen that nobody has overtaken brings to it.
JobFits(e, k) ==
    /\ job[k].op # "load" /\ job[k].type = tab[e]
    /\ ~At(k, "reorder", "list") /\ ~At(k, "reorder", "answer")
    /\ At(k, "create", "answer") => CreatedLast(e, k)
    /\ At(k, "remove", "answer") => RemovedOnly(e, k)
    /\ ~Unsettling(k) => Settled(e)
    /\ At(k, "create", "write") => /\ job[k].at # 0
                                 /\ \A y \in OfType(tab[e]) : position[y] < job[k].at
    /\ At(k, "remove", "write") => job[k].at = position[job[k].col] /\ position[job[k].col] # 0
    /\ At(k, "update", "answer") => job[k].at = position[job[k].col]

ScreenFits(e) ==
    doubt[e] < 2 =>
        /\ \A i, k \in JobsOf(e) : i = k
        /\ JobsOf(e) = {} => Settled(e)
        /\ \A k \in JobsOf(e) : JobFits(e, k)

\* A list that no write has overtaken is the list there is.
ListIsFresh(k) == k \in fresh => job[k] # NoJob /\ job[k].rows = RowsOf(job[k].type)

ColumnsInv ==
    /\ ColumnsShape /\ Distinct(position)
    /\ \A k \in Jobs : ListIsFresh(k)
    /\ \A e \in Editors : ScreenFits(e)

\* The step of a call that is not of screen e, and one that is.
OfAnother(k, e) ==
    /\ \A i \in Jobs \ {k} : job'[i] = job[i]
    /\ job[k] # NoJob => job[k].who # e
    /\ job'[k] # NoJob => job'[k].who # e
    /\ screen'[e] = screen[e] /\ tab'[e] = tab[e]
    /\ doubt'[e] = 2 \/ (doubt'[e] = doubt[e] /\ position' = position)

OfItsOwn(k, e) ==
    /\ \A i \in Jobs \ {k} : job'[i] = job[i]
    /\ JobsOf(e) = {k} /\ (job'[k] # NoJob => job'[k].who = e)
    /\ IF job'[k] # NoJob THEN JobFits(e, k)' ELSE Settled(e)'

\* A screen that nothing happens to keeps what it has.
LEMMA SameScreen ==
    ASSUME NEW e, position' = position, screen'[e] = screen[e], tab'[e] = tab[e], doubt'[e] = doubt[e]
    PROVE  /\ Fits(e)' <=> Fits(e)
           /\ Settled(e)' <=> Settled(e)
           /\ OfType(tab[e])' = OfType(tab[e])
           /\ Shown(e)' = Shown(e)
<1>1. OfType(tab[e])' = OfType(tab[e])
  BY DEF OfType, Present
<1>2. Shown(e)' = Shown(e)
  BY DEF Shown
<1>3. Fits(e)' <=> Fits(e)
  BY <1>1 DEF Fits
<1> QED BY <1>1, <1>2, <1>3 DEF Settled

LEMMA SameJobFits ==
    ASSUME NEW e, NEW k \in Jobs, position' = position, screen'[e] = screen[e], tab'[e] = tab[e],
           doubt'[e] = doubt[e], job'[k] = job[k], JobFits(e, k)
    PROVE  JobFits(e, k)'
<1>1. CreatedLast(e, k)' <=> CreatedLast(e, k)
  BY SameScreen DEF CreatedLast
<1>2. RemovedOnly(e, k)' <=> RemovedOnly(e, k)
  BY SameScreen DEF RemovedOnly
<1>3. \A op, step : At(k, op, step)' <=> At(k, op, step)
  BY DEF At
<1> QED BY <1>1, <1>2, <1>3, SameScreen DEF JobFits, Unsettling

\* A screen whose calls stay as they are keeps what it has, or is in doubt.
LEMMA OthersKeep ==
    ASSUME ColumnsInv, NEW k \in Jobs, NEW e \in Editors, OfAnother(k, e)
    PROVE  ScreenFits(e)'
<1> USE DEF OfAnother
<1>1. CASE doubt'[e] = 2
  BY <1>1 DEF ScreenFits
<1>2. CASE doubt'[e] = doubt[e] /\ position' = position
  <2>1. JobsOf(e)' = JobsOf(e)
    BY DEF JobsOf
  <2>2. \A i \in JobsOf(e) : i \in Jobs /\ job'[i] = job[i]
    BY DEF JobsOf
  <2>3. \A i \in JobsOf(e) : JobFits(e, i) => JobFits(e, i)'
    BY <1>2, <2>2, SameJobFits
  <2>4. Settled(e)' <=> Settled(e)
    BY <1>2, SameScreen
  <2> QED BY <1>2, <2>1, <2>3, <2>4 DEF ScreenFits, ColumnsInv
<1> QED BY <1>1, <1>2

\* The only call of a screen that nobody has overtaken.
LEMMA OwnJob ==
    ASSUME ColumnsInv, NEW k \in Jobs, job[k] # NoJob, doubt[job[k].who] < 2
    PROVE  JobFits(job[k].who, k) /\ JobsOf(job[k].who) = {k}
<1>1. job[k].who \in Editors
  BY JobFields DEF ColumnsInv, ColumnsShape
<1> QED BY <1>1 DEF ColumnsInv, ScreenFits, JobsOf

LEMMA OwnKeep ==
    ASSUME NEW k \in Jobs, NEW e \in Editors, OfItsOwn(k, e)
    PROVE  ScreenFits(e)'
<1> USE DEF OfItsOwn
<1>1. JobsOf(e)' \subseteq {k} /\ (JobsOf(e)' = {} => job'[k] = NoJob)
  BY DEF JobsOf
<1>2. k \in JobsOf(e)' => job'[k] # NoJob
  BY DEF JobsOf
<1> QED BY <1>1, <1>2 DEF ScreenFits

\* A step that touches no row and no screen: it reads, or fails.
LEMMA ReadingKeepsScreens ==
    ASSUME ColumnsInv, NEW k \in Jobs,
           \/ ReadLast(k) \/ ReadRow(k) \/ UpdateColumn(k) \/ ReadKeys(k) \/ Shift(k) \/ ListAll(k)
           \/ FailJob(k),
           NEW e \in Editors
    PROVE  ScreenFits(e)'
<1>1. ColumnsTypes /\ JobIsGood(k)
  BY DEF ColumnsInv, ColumnsShape
<1>2. /\ Work(k) /\ position' = position /\ screen' = screen
      /\ doubt' = doubt \/ doubt' = [doubt EXCEPT ![job[k].who] = 2]
  BY DEF Work, ReadLast, ReadRow, UpdateColumn, ReadKeys, Shift, ListAll, FailJob, rowVars, shownVars
<1>3. /\ job[k] # NoJob /\ tab' = tab
      /\ \A i \in Jobs \ {k} : job'[i] = job[i]
      /\ job'[k] # NoJob => job'[k].who = job[k].who
  BY <1>1, <1>2, OtherJobsStay
<1>4. CASE job[k].who # e
  <2>1. doubt'[e] = doubt[e] /\ screen'[e] = screen[e]
    BY <1>1, <1>2, <1>4 DEF ColumnsTypes
  <2>2. OfAnother(k, e)
    BY <1>2, <1>3, <1>4, <2>1 DEF OfAnother
  <2> QED BY <2>2, OthersKeep
<1>5. CASE job[k].who = e /\ doubt'[e] < 2
  <2>1. doubt' = doubt
    BY <1>1, <1>2, <1>5 DEF ColumnsTypes
  <2>2. JobFits(e, k) /\ JobsOf(e) = {k}
    BY <1>3, <1>5, <2>1, OwnJob
  <2>3. (Settled(e)' <=> Settled(e)) /\ OfType(tab[e])' = OfType(tab[e])
    BY <1>2, <1>3, <2>1, SameScreen
  <2>4. job[k] \in Job
    BY <1>1, <1>3, JobFields
  <2>5. OfItsOwn(k, e)
    <3>1. CASE ReadLast(k)
      <4>1. PICK n \in Nat : /\ job' = [job EXCEPT ![k].step = "write", ![k].at = n]
                             /\ n # 0 /\ \A y \in OfType(job[k].type) : position[y] < n
        BY <1>1, <3>1, LastIsHighest DEF ReadLast
      <4>2. job[k].op = "create" /\ job[k].step = "read"
        BY <3>1 DEF ReadLast, At
      <4>3. job'[k] = [job[k] EXCEPT !.step = "write", !.at = n]
        BY <1>1, <4>1 DEF ColumnsTypes
      <4>4. job'[k].op = "create" /\ job'[k].step = "write" /\ job'[k].at = n /\ job'[k].type = job[k].type
        BY <2>4, <4>2, <4>3 DEF Job
      <4>5. job'[k] # NoJob
        BY <4>4 DEF NoJob
      <4>6. \A y \in OfType(tab[e]) : position[y] < n
        BY <2>2, <4>1 DEF JobFits
      <4>7. Settled(e)
        BY <2>2, <4>2 DEF JobFits, Unsettling, At
      <4>8. JobFits(e, k)'
        BY <1>2, <1>3, <2>2, <2>3, <4>1, <4>6, <4>7, <4>4 DEF JobFits, At, Unsettling
      <4> QED BY <1>3, <1>5, <2>2, <4>8, <4>5 DEF OfItsOwn
    <3>2. CASE ReadRow(k)
      BY <1>1, <1>2, <1>3, <1>5, <2>2, <2>3, <2>4, <3>2
         DEF ReadRow, OfItsOwn, JobFits, At, Unsettling, Job, NoJob, ColumnsTypes
    <3>3. CASE UpdateColumn(k)
      BY <1>1, <1>2, <1>3, <1>5, <2>2, <2>3, <2>4, <3>3
         DEF UpdateColumn, OfItsOwn, JobFits, At, Unsettling, Job, NoJob, ColumnsTypes
    <3>4. CASE ReadKeys(k)
      BY <1>1, <1>2, <1>3, <1>5, <2>2, <2>3, <2>4, <3>4
         DEF ReadKeys, GoTo, OfItsOwn, JobFits, At, Unsettling, Job, NoJob, ColumnsTypes
    <3>5. CASE Shift(k)
      BY <1>1, <1>2, <1>3, <1>5, <2>2, <2>3, <2>4, <3>5
         DEF Shift, OfItsOwn, JobFits, At, Unsettling, Job, NoJob, ColumnsTypes
    <3>6. CASE ListAll(k)
      BY <2>2, <3>6 DEF ListAll, JobFits, At
    <3>7. CASE FailJob(k)
      <4>1. job[k].step \notin {"list", "answer"}
        BY <1>1, <1>5, <2>1, <3>7 DEF FailJob, ColumnsTypes
      <4>2. Settled(e)
        BY <2>2, <4>1 DEF JobFits, Unsettling, At
      <4>3. job'[k] = NoJob
        BY <1>1, <3>7 DEF FailJob, End, ColumnsTypes
      <4> QED BY <1>3, <2>2, <2>3, <4>2, <4>3 DEF OfItsOwn
    <3> QED BY <3>1, <3>2, <3>3, <3>4, <3>5, <3>6, <3>7
  <2> QED BY <2>5, OwnKeep
<1> QED BY <1>4, <1>5 DEF ScreenFits

\* A write overtakes the lists that were read; reading one does not.
LEMMA ListsStayFresh ==
    ASSUME ColumnsInv, [ColumnsNext]_columnsVars
    PROVE  \A k \in Jobs : ListIsFresh(k)'
<1>1. ColumnsTypes /\ \A k \in Jobs : ListIsFresh(k)
  BY DEF ColumnsInv, ColumnsShape
<1>2. ASSUME NEW k \in Jobs, position' = position, \A i \in Jobs \ {k} : job'[i] = job[i],
             fresh' \subseteq fresh, k \notin fresh'
      PROVE  \A i \in Jobs : ListIsFresh(i)'
  BY <1>1, <1>2 DEF ListIsFresh, RowsOf
<1>3. ASSUME NEW k \in Jobs, NEW e \in Editors, Edit(k, e)
      PROVE  \A i \in Jobs : ListIsFresh(i)'
  <2>1. PICK op, x, order : Start(k, e, op, x, order)
    BY <1>3, EditStarts DEF ColumnsInv
  <2>2. position' = position /\ fresh' = fresh /\ job[k] = NoJob
    BY <2>1 DEF Start, rowVars
  <2>3. \A i \in Jobs \ {k} : job'[i] = job[i]
    BY <1>1, <2>1 DEF Start, ColumnsTypes
  <2> QED BY <1>1, <1>2, <2>2, <2>3 DEF ListIsFresh
<1>4. ASSUME NEW k \in Jobs, Work(k)
      PROVE  \A i \in Jobs : ListIsFresh(i)'
  <2>1. job[k] # NoJob /\ job[k] \in Job /\ \A i \in Jobs \ {k} : job'[i] = job[i]
    BY <1>1, <1>4, OtherJobsStay, JobFields
  <2>2. CASE InsertColumn(k) \/ RemoveColumn(k) \/ CommitOrder(k)
    BY <2>2 DEF InsertColumn, RemoveColumn, CommitOrder, Disturb, ListIsFresh
  <2>3. CASE ListAll(k)
    <3>1. job' = [job EXCEPT ![k].step = "answer", ![k].rows = RowsOf(job[k].type)]
          /\ position' = position /\ fresh' = fresh \cup {k}
      BY <2>3 DEF ListAll, rowVars
    <3>2. job'[k].rows = RowsOf(job[k].type) /\ job'[k].type = job[k].type /\ job'[k] # NoJob
      BY <1>1, <2>1, <3>1 DEF Job, NoJob, ColumnsTypes
    <3>3. \A t : RowsOf(t)' = RowsOf(t)
      BY <3>1 DEF RowsOf
    <3> QED BY <1>1, <2>1, <3>1, <3>2, <3>3 DEF ListIsFresh
  <2>4. CASE FailJob(k) \/ AnswerEditor(k)
    BY <1>2, <2>1, <2>4 DEF FailJob, AnswerEditor, rowVars
  <2>5. CASE ReadLast(k) \/ ReadRow(k) \/ UpdateColumn(k) \/ ReadKeys(k) \/ Shift(k)
    <3>1. position' = position /\ fresh' = fresh
      BY <2>5 DEF ReadLast, ReadRow, UpdateColumn, ReadKeys, Shift, rowVars
    <3>2. job'[k].rows = job[k].rows /\ job'[k].type = job[k].type /\ job'[k] # NoJob
      BY <1>1, <2>1, <2>5 DEF ReadLast, ReadRow, UpdateColumn, ReadKeys, Shift, GoTo, Job, NoJob, ColumnsTypes
    <3> QED BY <1>1, <2>1, <3>1, <3>2 DEF ListIsFresh, RowsOf
  <2> QED BY <1>4, <2>2, <2>3, <2>4, <2>5 DEF Work
<1>5. CASE UNCHANGED <<position, job, fresh>>
  BY <1>1, <1>5 DEF ListIsFresh, RowsOf
<1>6. ASSUME NEW e \in Editors, CloseColumnDialog(e) \/ \E x \in Columns : OpenColumnDialog(e, x)
      PROVE  UNCHANGED <<position, job, fresh>>
  BY <1>6 DEF CloseColumnDialog, OpenColumnDialog, rowVars
<1> QED BY <1>3, <1>4, <1>5, <1>6 DEF ColumnsNext, columnsVars

LEMMA InsertKeepsScreens ==
    ASSUME ColumnsInv, NEW k \in Jobs, InsertColumn(k), NEW e \in Editors
    PROVE  ScreenFits(e)' /\ Distinct(position)'
<1>1. ColumnsTypes /\ JobIsGood(k)
  BY DEF ColumnsInv, ColumnsShape
<1>2. PICK x \in Columns, n \in Nat : x = job[k].col /\ n = job[k].at
  BY <1>1, JobFields DEF InsertColumn, At, JobIsGood
<1>3. /\ Work(k) /\ At(k, "create", "write") /\ At(k, "create", "answer")'
      /\ job'[k].col = x /\ job'[k].at = n /\ TypeOf[x] = job[k].type
      /\ position[x] = 0 /\ (\A y \in OfType(job[k].type) : position[y] # n)
      /\ position' = [position EXCEPT ![x] = n]
      /\ screen' = screen
      /\ doubt' = [f \in Editors |-> IF f = job[k].who THEN doubt[f] ELSE 2]
  <2>1. job[k] # NoJob /\ job[k] \in Job /\ job'[k] = [job[k] EXCEPT !.step = "answer"]
    BY <1>1, JobFields DEF InsertColumn, GoTo, At, ColumnsTypes
  <2>2. At(k, "create", "write") /\ At(k, "create", "answer")' /\ job'[k].col = x /\ job'[k].at = n
    BY <1>2, <2>1 DEF InsertColumn, At, Job, NoJob
  <2>3. TypeOf[x] = job[k].type /\ screen' = screen
    BY <1>1, <1>2, <2>2 DEF InsertColumn, JobIsGood, At, shownVars
  <2> QED BY <1>2, <2>1, <2>2, <2>3 DEF Work, InsertColumn, Disturb
<1>4. /\ job[k] # NoJob /\ tab' = tab
      /\ \A i \in Jobs \ {k} : job'[i] = job[i]
      /\ job'[k] # NoJob => job'[k].who = job[k].who /\ job'[k].type = job[k].type
  BY <1>1, <1>3, OtherJobsStay
<1>5. position \in Positions /\ position' \in Positions
  BY <1>1, <1>3 DEF Positions, ColumnsTypes
<1>6. Distinct(position)'
  BY <1>3, <1>5 DEF Distinct, Present, OfType, Positions, ColumnsInv
<1>7. CASE job[k].who # e
  <2>1. doubt'[e] = 2 /\ screen'[e] = screen[e]
    BY <1>3, <1>7
  <2>2. OfAnother(k, e)
    BY <1>4, <1>7, <2>1 DEF OfAnother
  <2> QED BY <1>6, <2>2, OthersKeep
<1>8. CASE job[k].who = e /\ doubt'[e] < 2
  <2>1. doubt'[e] = doubt[e]
    BY <1>3, <1>8
  <2>2. doubt'[e] = doubt[e] /\ JobFits(e, k) /\ JobsOf(e) = {k}
    BY <1>4, <1>8, <2>1, OwnJob
  <2>3. Settled(e) /\ job[k].type = tab[e] /\ n # 0 /\ \A y \in OfType(tab[e]) : position[y] < n
    BY <1>2, <1>3, <2>2 DEF JobFits, Unsettling, At
  <2> DEFINE T == OfType(tab[e])
             U == OfType(tab[e])'
  <2>4. /\ T = {y \in Columns : position[y] # 0 /\ TypeOf[y] = tab[e]}
        /\ U = {y \in Columns : position'[y] # 0 /\ TypeOf[y] = tab[e]}
    BY <1>4 DEF OfType, Present
  <2> HIDE DEF T, U
  <2>5. x \notin T /\ \A y \in T : position'[y] = position[y]
    BY <1>3, <1>5, <2>4 DEF Positions
  <2>6. U = T \cup {x} /\ Shown(e)' = Shown(e)
    BY <1>3, <1>4, <1>5, <2>3, <2>3, <2>4 DEF Shown, Positions
  <2>7. Shown(e) = T
    BY <2>3 DEF Settled, T
  <2>8. \A r \in screen[e] : r.col \in T
    BY <2>7 DEF Shown
  <2>9. Fits(e)'
    BY <1>3, <1>4, <2>2, <2>3, <2>5, <2>8 DEF Fits, Settled, T, U
  <2>10. position'[x] = n /\ \A y \in U : y # x => position'[y] < position'[x]
    BY <1>3, <1>5, <2>3, <2>5, <2>6 DEF T, Positions
  <2>11. CreatedLast(e, k)'
    BY <1>3, <2>5, <2>6, <2>7, <2>9, <2>10 DEF CreatedLast, U
  <2>12. JobFits(e, k)' /\ job'[k] # NoJob
    BY <1>3, <1>4, <2>3, <2>11 DEF JobFits, At, Unsettling
  <2>13. OfItsOwn(k, e)
    BY <1>4, <1>8, <2>2, <2>12 DEF OfItsOwn
  <2> QED BY <1>6, <2>13, OwnKeep
<1> QED BY <1>6, <1>7, <1>8 DEF ScreenFits

LEMMA RemoveKeepsScreens ==
    ASSUME ColumnsInv, NEW k \in Jobs, RemoveColumn(k), NEW e \in Editors
    PROVE  ScreenFits(e)' /\ Distinct(position)'
<1>1. ColumnsTypes /\ JobIsGood(k)
  BY DEF ColumnsInv, ColumnsShape
<1>2. PICK x \in Columns, n \in Nat : x = job[k].col /\ n = job[k].at
  BY <1>1, JobFields DEF RemoveColumn, At, JobIsGood
<1>3. /\ Work(k) /\ At(k, "remove", "write") /\ At(k, "remove", "answer")'
      /\ job'[k].col = x
      /\ position[x] # 0 /\ position' = Renumbered(position, x, n) /\ Distinct(position)'
      /\ screen' = screen
      /\ doubt' = [f \in Editors |-> IF f # job[k].who THEN 2 ELSE IF doubt[f] = 0 THEN 1 ELSE 2]
  <2>1. job[k] # NoJob /\ job[k] \in Job /\ job'[k] = [job[k] EXCEPT !.step = "answer"]
    BY <1>1, JobFields DEF RemoveColumn, GoTo, At, ColumnsTypes
  <2>2. At(k, "remove", "write") /\ At(k, "remove", "answer")' /\ job'[k].col = x
    BY <1>2, <2>1 DEF RemoveColumn, At, Job, NoJob
  <2>3. doubt' = [f \in Editors |-> IF f # job[k].who THEN 2 ELSE IF doubt[f] = 0 THEN 1 ELSE 2]
    BY <1>1 DEF RemoveColumn, Disturb, ColumnsTypes
  <2> QED BY <1>2, <2>1, <2>2, <2>3 DEF Work, RemoveColumn, shownVars
<1>4. /\ job[k] # NoJob /\ tab' = tab
      /\ \A i \in Jobs \ {k} : job'[i] = job[i]
      /\ job'[k] # NoJob => job'[k].who = job[k].who /\ job'[k].type = job[k].type
  BY <1>1, <1>3, OtherJobsStay
<1>5. CASE job[k].who # e
  <2>1. doubt'[e] = 2 /\ screen'[e] = screen[e]
    BY <1>3, <1>5
  <2>2. OfAnother(k, e)
    BY <1>4, <1>5, <2>1 DEF OfAnother
  <2> QED BY <1>3, <2>2, OthersKeep
<1>6. CASE job[k].who = e /\ doubt'[e] < 2
  <2>1. doubt'[e] = 1 /\ doubt[e] = 0
    BY <1>3, <1>6
  <2>2. JobFits(e, k) /\ JobsOf(e) = {k}
    BY <1>4, <1>6, <2>1, OwnJob
  <2>3. Settled(e) /\ n = position[x] /\ job[k].type = tab[e]
    BY <1>2, <1>3, <2>2 DEF JobFits, Unsettling, At
  <2> DEFINE T == OfType(tab[e])
             U == OfType(tab[e])'
  <2>4. /\ T = {y \in Columns : position[y] # 0 /\ TypeOf[y] = tab[e]}
        /\ U = {y \in Columns : position'[y] # 0 /\ TypeOf[y] = tab[e]}
    BY <1>4 DEF OfType, Present
  <2> HIDE DEF T, U
  <2>5. \A y \in Columns :
          /\ position[y] \in Nat
          /\ position'[y] = IF y = x THEN 0
                            ELSE IF TypeOf[y] = TypeOf[x] /\ position[y] > n THEN position[y] - 1
                            ELSE position[y]
    BY <1>1, <1>3 DEF Renumbered, Positions, ColumnsTypes
  <2>6. n \in Nat /\ n # 0
    BY <1>3, <2>3
  <2>7. /\ U \subseteq T /\ T \subseteq U \cup {x} /\ x \notin U
        /\ position'[x] = 0 /\ Shown(e)' = Shown(e)
    BY <1>3, <2>5, <2>6, <2>4 DEF Shown
  <2>8. \A y \in U : position'[y] <= position[y] /\ position[y] <= position'[y] + 1
    BY <2>5, <2>6, <2>4
  <2>9. \A y, z \in U : position'[y] < position'[z] => position[y] < position[z]
    BY <2>5, <2>6, <2>4
  <2>10. Shown(e) = T
    BY <2>3 DEF Settled, T
  <2>11. Fits(e)'
    <3>1. \A r \in screen[e] : r.col \in T => r.at = position[r.col]
      <4> TAKE r \in screen[e]
      <4>1. r.at \in Nat
        BY <1>1 DEF ColumnsTypes, Entry
      <4>2. r.col \in T => /\ r.col \in Columns /\ position[r.col] <= r.at
                           /\ r.at <= position[r.col] + 0
        BY <2>1, <2>3, <2>4 DEF Settled, Fits, T
      <4> QED BY <2>5, <4>1, <4>2
    <3>2. \A r, s \in screen[e] : r.col = s.col => r = s
      BY <2>3 DEF Settled, Fits
    <3>3. \A r, s \in screen[e] :
             r.col \in T /\ s.col \in T /\ position[r.col] < position[s.col] => r.index < s.index
      BY <2>3 DEF Settled, Fits, T
    <3>4. \A r \in screen[e] : r.col \in U =>
             position'[r.col] <= r.at /\ r.at <= position'[r.col] + 1
      BY <2>7, <2>8, <3>1
    <3>5. \A r, s \in screen[e] :
             r.col \in U /\ s.col \in U /\ position'[r.col] < position'[s.col] => r.index < s.index
      BY <2>7, <2>9, <3>3
    <3> QED BY <1>3, <2>1, <3>2, <3>4, <3>5 DEF Fits, U
  <2>12. RemovedOnly(e, k)'
    BY <1>3, <2>1, <2>7, <2>10, <2>11 DEF RemovedOnly, U
  <2>13. JobFits(e, k)' /\ job'[k] # NoJob
    BY <1>3, <1>4, <2>3, <2>12 DEF JobFits, At, Unsettling
  <2>14. OfItsOwn(k, e)
    BY <1>4, <1>6, <2>2, <2>13 DEF OfItsOwn
  <2> QED BY <1>3, <2>14, OwnKeep
<1> QED BY <1>3, <1>5, <1>6 DEF ScreenFits

LEMMA OrderKeepsScreens ==
    ASSUME ColumnsInv, NEW k \in Jobs, CommitOrder(k), NEW e \in Editors
    PROVE  ScreenFits(e)' /\ Distinct(position)'
<1>1. job[k].who \in Editors
  BY JobFields DEF CommitOrder, At, ColumnsInv, ColumnsShape
<1>2. doubt'[e] = 2
  BY <1>1 DEF CommitOrder, Disturb
<1> QED BY <1>2 DEF CommitOrder, ScreenFits

\* A screen that has the list of its tab is settled.
LEMMA FullListSettles ==
    ASSUME ColumnsTypes, Distinct(position), NEW e \in Editors, position' = position, tab' = tab,
           screen'[e] = FullList(RowsOf(tab[e])), doubt'[e] = 0
    PROVE  Settled(e)'
<1> DEFINE T == OfType(tab[e])
<1>1. T = {x \in Columns : position[x] # 0 /\ TypeOf[x] = tab[e]} /\ OfType(tab[e])' = T
  BY DEF OfType, Present
<1>2. Present(RowsOf(tab[e])) = T /\ \A x \in T : RowsOf(tab[e])[x] = position[x]
  BY <1>1 DEF Present, RowsOf
<1>3. screen'[e] = {[col |-> x, at |-> position[x], index |-> position[x]] : x \in T}
  BY <1>2 DEF FullList
<1>4. \A x \in T : position[x] \in Nat
  BY <1>1 DEF ColumnsTypes, Positions
<1>5. Shown(e)' = T
  <2>1. Shown(e)' = {r.col : r \in screen'[e]}
    BY DEF Shown
  <2>2. \A x \in T : [col |-> x, at |-> position[x], index |-> position[x]] \in screen'[e]
    BY <1>3
  <2>3. \A r \in screen'[e] : r.col \in T
    BY <1>3
  <2>4. \A x \in T : x \in {r.col : r \in screen'[e]}
    <3>1. \A x \in T : \E r \in screen'[e] : x = r.col
      BY <2>2
    <3> HIDE DEF T
    <3> QED BY <3>1
  <2>5. \A x \in {r.col : r \in screen'[e]} : x \in T
    BY <2>3
  <2> HIDE DEF T
  <2>6. {r.col : r \in screen'[e]} = T
    BY <2>4, <2>5
  <2> QED BY <2>1, <2>6
<1>6. \A r \in screen'[e] : r.col \in T /\ r = [col |-> r.col, at |-> position[r.col], index |-> position[r.col]]
  BY <1>3
<1> HIDE DEF T
<1>7. \A r \in screen'[e] : r.col \in T /\ r.at = position[r.col] /\ r.index = position[r.col]
  BY <1>6
<1>8. \A r, s \in screen'[e] : r.col = s.col => r = s
  BY <1>6
<1>9. Fits(e)'
  BY <1>1, <1>4, <1>7, <1>8 DEF Fits
<1> QED BY <1>1, <1>5, <1>9 DEF Settled

LEMMA AnswerKeepsScreens ==
    ASSUME ColumnsInv, NEW k \in Jobs, AnswerEditor(k), NEW e \in Editors
    PROVE  ScreenFits(e)'
<1>1. ColumnsTypes /\ ColumnsShape /\ Distinct(position) /\ JobIsGood(k) /\ ListIsFresh(k)
  BY DEF ColumnsInv, ColumnsShape
<1>2. /\ Work(k) /\ position' = position /\ job'[k] = NoJob
      /\ job[k].step = "answer"
      /\ screen' = [screen EXCEPT ![job[k].who] = Patched(job[k].who, job[k])]
  BY <1>1 DEF Work, AnswerEditor, End, ColumnsTypes, rowVars
<1>3. /\ job[k] # NoJob /\ tab' = tab
      /\ \A i \in Jobs \ {k} : job'[i] = job[i]
  BY <1>1, <1>2, OtherJobsStay
<1>4. CASE job[k].who # e
  <2>1. PICK n : doubt' = doubt \/ doubt' = [doubt EXCEPT ![job[k].who] = n]
    BY DEF AnswerEditor
  <2>2. screen'[e] = screen[e] /\ doubt'[e] = doubt[e]
    BY <1>1, <1>2, <1>4, <2>1 DEF ColumnsTypes
  <2>3. OfAnother(k, e)
    BY <1>2, <1>3, <1>4, <2>2 DEF OfAnother
  <2> QED BY <2>3, OthersKeep
<1>5. CASE job[k].who = e /\ job[k].op \in {"reorder", "load"} /\ doubt'[e] < 2
  <2>1. doubt' = [doubt EXCEPT ![e] = IF k \in fresh /\ JobsOf(e) = {k} /\ job[k].type = tab[e] THEN 0 ELSE 2]
    BY <1>5 DEF AnswerEditor
  <2>2. doubt'[e] = 0 /\ k \in fresh /\ JobsOf(e) = {k} /\ job[k].type = tab[e]
    BY <1>1, <1>5, <2>1 DEF ColumnsTypes
  <2>3. screen'[e] = FullList(RowsOf(tab[e]))
    BY <1>1, <1>2, <1>5, <2>2 DEF ColumnsTypes, Patched, ListIsFresh
  <2>4. Settled(e)'
    BY <1>1, <1>2, <1>3, <2>2, <2>3, FullListSettles
  <2>5. OfItsOwn(k, e)
    BY <1>2, <1>3, <2>2, <2>4 DEF OfItsOwn
  <2> QED BY <2>5, OwnKeep
<1>6. CASE job[k].who = e /\ job[k].op \in {"create", "remove", "update"} /\ doubt'[e] < 2
  <2>1. doubt' = doubt
    BY <1>6 DEF AnswerEditor
  <2>2. JobFits(e, k) /\ JobsOf(e) = {k}
    BY <1>3, <1>6, <2>1, OwnJob
  <2>3. PICK x \in Columns, n \in Nat : x = job[k].col /\ n = job[k].at
    BY <1>1, <1>3, <1>6, JobFields DEF JobIsGood
  <2>4. /\ screen'[e] = Patched(e, job[k])
        /\ screen[e] \subseteq Entry /\ doubt'[e] = doubt[e]
    BY <1>1, <1>2, <1>6, <2>1 DEF ColumnsTypes
  <2> DEFINE T == OfType(tab[e])
  <2>5. OfType(tab[e])' = T /\ T = {y \in Columns : position[y] # 0 /\ TypeOf[y] = tab[e]}
    BY <1>2, <1>3 DEF OfType, Present
  <2>6. \A y \in T : position[y] \in Nat
    BY <1>1, <2>5 DEF ColumnsTypes, Positions
  <2>7. \A r \in screen[e] : r.at \in Nat /\ r.index \in Nat
    BY <2>4 DEF Entry
  <2>8. doubt[e] \in 0 .. 2
    BY <1>1 DEF ColumnsTypes
  <2> HIDE DEF T
  <2>9. Settled(e)'
    <3>1. CASE job[k].op = "create"
      <4>1. CreatedLast(e, k)
        BY <1>2, <1>3, <2>2, <3>1 DEF JobFits, At
      <4>2. /\ x \in T /\ position[x] = n /\ Shown(e) = T \ {x} /\ Fits(e)
            /\ \A y \in T : y # x => position[y] < position[x]
        BY <2>3, <4>1 DEF CreatedLast, T
      <4> DEFINE new == [col |-> x, at |-> n, index |-> NextIndex(e)]
      <4>3. screen'[e] = screen[e] \cup {new}
        BY <2>3, <2>4, <3>1 DEF Patched
      <4>4. new.col = x /\ new.at = n /\ new.index = NextIndex(e)
        OBVIOUS
      <4>5. NextIndex(e) \in Nat /\ \A r \in screen[e] : r.index < NextIndex(e)
        BY <1>1, NextIndexIsNext
      <4>6. \A r \in screen[e] : r.col \in T /\ r.col # x
        BY <4>2 DEF Shown
      <4> HIDE DEF new
      <4>7. Shown(e)' = T
        <5>1. Shown(e)' = {r.col : r \in screen'[e]} /\ Shown(e) = {r.col : r \in screen[e]}
          BY DEF Shown
        <5>2. Shown(e)' = Shown(e) \cup {x}
          BY <4>3, <4>4, <5>1
        <5> QED BY <4>2, <5>2
      <4>8. \A r, s \in screen'[e] : r.col = s.col => r = s
        <5>1. \A r, s \in screen[e] : r.col = s.col => r = s
          BY <4>2 DEF Fits
        <5> QED BY <4>3, <4>4, <4>6, <5>1
      <4>9. \A r \in screen'[e] : position[r.col] <= r.at /\ r.at <= position[r.col] + doubt[e]
        <5>1. \A r \in screen[e] : position[r.col] <= r.at /\ r.at <= position[r.col] + doubt[e]
          BY <4>2, <4>6 DEF Fits, T
        <5>2. position[new.col] <= new.at /\ new.at <= position[new.col] + doubt[e]
          BY <2>8, <4>2, <4>4
        <5> QED BY <4>3, <5>1, <5>2
      <4>10. \A r, s \in screen'[e] : position[r.col] < position[s.col] => r.index < s.index
        <5>1. \A r, s \in screen[e] : position[r.col] < position[s.col] => r.index < s.index
          BY <4>2, <4>6 DEF Fits, T
        <5>2. \A s \in screen[e] : ~(position[new.col] < position[s.col])
          BY <2>6, <4>2, <4>4, <4>6
        <5>3. \A r \in screen[e] : r.index < new.index
          BY <4>4, <4>5
        <5>4. ~(position[new.col] < position[new.col])
          BY <2>6, <4>2, <4>4
        <5> QED BY <4>3, <5>1, <5>2, <5>3, <5>4
      <4>11. Fits(e)'
        BY <1>2, <2>4, <2>5, <4>8, <4>9, <4>10 DEF Fits
      <4> QED BY <2>5, <4>7, <4>11 DEF Settled
    <3>2. CASE job[k].op = "remove"
      <4>1. RemovedOnly(e, k)
        BY <1>2, <1>3, <2>2, <3>2 DEF JobFits, At
      <4>2. Fits(e) /\ position[x] = 0 /\ T \subseteq Shown(e) /\ Shown(e) \subseteq T \cup {x}
        BY <2>3, <4>1 DEF RemovedOnly, T
      <4>3. screen'[e] = {r \in screen[e] : r.col # x}
        BY <2>3, <2>4, <3>2 DEF Patched
      <4>4. x \notin T
        BY <2>5, <4>2
      <4>5. Shown(e)' = T
        <5>1. Shown(e)' = {r.col : r \in screen'[e]} /\ Shown(e) = {r.col : r \in screen[e]}
          BY DEF Shown
        <5>2. Shown(e)' = Shown(e) \ {x}
          BY <4>3, <5>1
        <5> QED BY <4>2, <4>4, <5>2
      <4>6. Fits(e)'
        BY <1>2, <2>4, <2>5, <4>2, <4>3 DEF Fits, T
      <4> QED BY <2>5, <4>5, <4>6 DEF Settled
    <3>3. CASE job[k].op = "update"
      <4>1. Settled(e) /\ n = position[x]
        BY <1>2, <1>3, <2>2, <2>3, <3>3 DEF JobFits, At, Unsettling
      <4> DEFINE New(r) == IF r.col = x THEN [r EXCEPT !.at = n] ELSE r
      <4>2. screen'[e] = {New(r) : r \in screen[e]}
        BY <2>3, <2>4, <3>3 DEF Patched
      <4>3. \A r \in screen[e] : /\ New(r).col = r.col /\ New(r).index = r.index
                                 /\ New(r).at = IF r.col = x THEN n ELSE r.at
        BY <2>4 DEF Entry
      <4> HIDE DEF New
      <4>4. Shown(e)' = T
        <5>1. Shown(e)' = {r.col : r \in screen'[e]} /\ Shown(e) = {r.col : r \in screen[e]}
          BY DEF Shown
        <5>2. Shown(e)' = Shown(e)
          BY <4>2, <4>3, <5>1
        <5> QED BY <4>1, <5>2 DEF Settled, T
      <4>5. Fits(e)
        BY <4>1 DEF Settled
      <4>6. \A r, s \in screen'[e] : r.col = s.col => r = s
        BY <4>2, <4>3, <4>5 DEF Fits
      <4>7. \A r \in screen'[e] : r.col \in T =>
               position[r.col] <= r.at /\ r.at <= position[r.col] + doubt[e]
        <5>1. \A r \in screen[e] : r.col \in T =>
                 position[r.col] <= New(r).at /\ New(r).at <= position[r.col] + doubt[e]
          BY <2>6, <2>8, <4>1, <4>3, <4>5 DEF Fits, T
        <5> QED BY <4>2, <4>3, <5>1
      <4>8. \A r, s \in screen'[e] :
               r.col \in T /\ s.col \in T /\ position[r.col] < position[s.col] => r.index < s.index
        BY <4>2, <4>3, <4>5 DEF Fits, T
      <4>9. Fits(e)'
        BY <1>2, <2>4, <2>5, <4>6, <4>7, <4>8 DEF Fits
      <4> QED BY <2>5, <4>4, <4>9 DEF Settled
    <3> QED BY <1>6, <3>1, <3>2, <3>3
  <2>10. OfItsOwn(k, e)
    BY <1>2, <1>3, <2>2, <2>9 DEF OfItsOwn
  <2> QED BY <2>10, OwnKeep
<1>7. ~(doubt'[e] < 2) => ScreenFits(e)'
  BY DEF ScreenFits
<1> QED BY <1>1, <1>3, <1>4, <1>5, <1>6, <1>7, JobFields

LEMMA EditKeepsScreens ==
    ASSUME ColumnsInv, NEW k \in Jobs, NEW f \in Editors, Edit(k, f), NEW e \in Editors
    PROVE  ScreenFits(e)' /\ position' = position
<1>1. ColumnsTypes /\ ColumnsShape
  BY DEF ColumnsInv, ColumnsShape
<1>2. PICK op, x, order, t : t \in Tabs
           /\ tab' = [tab EXCEPT ![f] = t] /\ (op # "load" => t = tab[f])
           /\ Start(k, f, op, x, order)
  BY <1>1, EditStarts
<1>3. /\ job[k] = NoJob /\ position' = position /\ screen' = screen
      /\ \A i \in Jobs \ {k} : job'[i] = job[i]
      /\ job'[k].who = f /\ job'[k].op = op /\ job'[k].type = t
      /\ job'[k].step = IF op = "load" THEN "list" ELSE "read"
      /\ doubt' = IF op # "load" /\ JobsOf(f) = {} THEN doubt ELSE [doubt EXCEPT ![f] = 2]
  BY <1>1, <1>2 DEF Start, ColumnsTypes, rowVars
<1>4. CASE e # f
  <2>1. OfAnother(k, e)
    BY <1>1, <1>2, <1>3, <1>4 DEF OfAnother, ColumnsTypes
  <2> QED BY <1>3, <2>1, OthersKeep
<1>5. CASE e = f /\ doubt'[e] < 2
  <2>1. JobsOf(e) = {} /\ doubt' = doubt /\ op # "load"
    BY <1>1, <1>3, <1>5 DEF ColumnsTypes
  <2>2. Settled(e)
    BY <1>5, <2>1 DEF ColumnsInv, ScreenFits
  <2>3. tab'[e] = tab[e] /\ t = tab[e]
    BY <1>1, <1>2, <1>5, <2>1 DEF ColumnsTypes
  <2>4. Settled(e)'
    BY <1>3, <2>1, <2>2, <2>3, SameScreen
  <2>5. JobFits(e, k)'
    BY <1>3, <2>1, <2>3, <2>4 DEF JobFits, At, Unsettling
  <2>6. JobsOf(e)' \subseteq {k}
    BY <1>3, <2>1 DEF JobsOf
  <2>7. k \in JobsOf(e)'
    BY <1>1, <1>2, <1>3, <1>5 DEF Start, ColumnsTypes, NoJob, JobsOf
  <2> QED BY <1>3, <2>5, <2>6, <2>7 DEF ScreenFits
<1>6. ~(doubt'[e] < 2) => ScreenFits(e)'
  BY DEF ScreenFits
<1> QED BY <1>3, <1>4, <1>5, <1>6

LEMMA ColumnsInvHolds == ColumnsSpec => []ColumnsInv
<1>1. ColumnsInit => ColumnsInv
  <2> SUFFICES ASSUME ColumnsInit
               PROVE  ColumnsInv
    OBVIOUS
  <2>1. ColumnsTypes
    BY ColumnsAssumption DEF ColumnsInit, ColumnsTypes, Positions
  <2>2. ColumnsShape
    BY <2>1, FS_EmptySet DEF ColumnsInit, ColumnsShape, JobIsGood
  <2>3. Distinct(position)
    BY ColumnsAssumption DEF ColumnsInit, Distinct, Present
  <2>4. (\A e \in Editors : ScreenFits(e)) /\ \A k \in Jobs : ListIsFresh(k)
    BY DEF ColumnsInit, ScreenFits, ListIsFresh
  <2> QED BY <2>2, <2>3, <2>4 DEF ColumnsInv
<1>2. ColumnsInv /\ [ColumnsNext]_columnsVars => ColumnsInv'
  <2> SUFFICES ASSUME ColumnsInv, [ColumnsNext]_columnsVars
               PROVE  Distinct(position)' /\ \A e \in Editors : ScreenFits(e)'
    BY ColumnsStayShaped, ListsStayFresh DEF ColumnsInv
  <2>1. Distinct(position) /\ ColumnsTypes
    BY DEF ColumnsInv, ColumnsShape
  <2>2. position' = position => Distinct(position)'
    BY <2>1 DEF Distinct, Present
  <2>3. ASSUME NEW k \in Jobs, NEW f \in Editors, Edit(k, f)
        PROVE  Distinct(position)' /\ \A e \in Editors : ScreenFits(e)'
    BY <2>2, <2>3, EditKeepsScreens
  <2>4. ASSUME NEW k \in Jobs, Work(k), NEW e \in Editors
        PROVE  Distinct(position)' /\ ScreenFits(e)'
    <3>1. CASE \/ ReadLast(k) \/ ReadRow(k) \/ UpdateColumn(k) \/ ReadKeys(k) \/ Shift(k) \/ ListAll(k)
               \/ FailJob(k)
      <4>1. position' = position
        BY <3>1 DEF ReadLast, ReadRow, UpdateColumn, ReadKeys, Shift, ListAll, FailJob, rowVars
      <4> QED BY <2>2, <3>1, <4>1, ReadingKeepsScreens
    <3>2. CASE AnswerEditor(k)
      <4>1. position' = position
        BY <3>2 DEF AnswerEditor, rowVars
      <4> QED BY <2>2, <3>2, <4>1, AnswerKeepsScreens
    <3> QED BY <2>4, <3>1, <3>2, InsertKeepsScreens, RemoveKeepsScreens, OrderKeepsScreens DEF Work
  <2>5. ASSUME NEW k \in Jobs, Work(k)
        PROVE  Distinct(position)' /\ \A e \in Editors : ScreenFits(e)'
    <3>1. job[k].who \in Editors
      BY <2>1, <2>5, OtherJobsStay, JobFields
    <3> QED BY <2>4, <2>5, <3>1
  <2>6. ASSUME UNCHANGED <<position, tab, screen, doubt, job>>
        PROVE  Distinct(position)' /\ \A e \in Editors : ScreenFits(e)'
    <3>1. ASSUME NEW e \in Editors
          PROVE  ScreenFits(e)'
      <4>1. JobsOf(e)' = JobsOf(e) /\ JobsOf(e) \subseteq Jobs
        BY <2>6 DEF JobsOf
      <4>2. \A k \in Jobs : JobFits(e, k) => JobFits(e, k)'
        BY <2>6, SameJobFits
      <4>3. Settled(e)' <=> Settled(e)
        BY <2>6, SameScreen
      <4> QED BY <2>6, <4>1, <4>2, <4>3 DEF ScreenFits, ColumnsInv
    <3> QED BY <2>2, <2>6, <3>1
  <2>7. ASSUME NEW e \in Editors, CloseColumnDialog(e) \/ \E x \in Columns : OpenColumnDialog(e, x)
        PROVE  UNCHANGED <<position, tab, screen, doubt, job>>
    BY <2>7 DEF CloseColumnDialog, OpenColumnDialog, rowVars
  <2> QED BY <2>3, <2>5, <2>6, <2>7 DEF ColumnsNext, columnsVars
<1> QED BY <1>1, <1>2, PTL DEF ColumnsSpec

\* The column editor shows the columns of its tab in the stored order, for any
\* number of columns, lead types, screens, loads and calls, whatever the order
\* their answers come in, as long as nobody has overtaken its last full list and
\* it removed one column at most since.
THEOREM EditorShowsTheOrder == ColumnsSpec => [](ColumnsTypes /\ ShownOrderIsStored)
<1>1. ColumnsInv => ColumnsTypes /\ ShownOrderIsStored
  <2> SUFFICES ASSUME ColumnsInv, NEW e \in Editors, doubt[e] < 2, JobsOf(e) = {}
               PROVE  /\ Shown(e) = OfType(tab[e])
                      /\ \A r, s \in screen[e] : ShownBefore(r, s) <=> position[r.col] < position[s.col]
    BY DEF ColumnsInv, ColumnsShape, ShownOrderIsStored
  <2>1. Settled(e) /\ ColumnsTypes
    BY DEF ColumnsInv, ColumnsShape, ScreenFits
  <2>2. ASSUME NEW r \in screen[e], NEW s \in screen[e]
        PROVE  ShownBefore(r, s) <=> position[r.col] < position[s.col]
    <3>1. \A q \in {r, s} : /\ q.col \in Columns /\ q.at \in Nat /\ q.index \in Nat
                            /\ q.col \in OfType(tab[e])
      BY <2>1 DEF ColumnsTypes, Entry, Settled, Shown
    <3>2. \A q \in {r, s} : /\ position[q.col] \in Nat
                            /\ position[q.col] <= q.at /\ q.at <= position[q.col] + 1
      <4>1. doubt[e] \in 0 .. 2
        BY <2>1 DEF ColumnsTypes
      <4>2. \A q \in {r, s} : position[q.col] <= q.at /\ q.at <= position[q.col] + doubt[e]
        BY <2>1, <3>1 DEF Settled, Fits
      <4>3. \A q \in {r, s} : position[q.col] \in Nat
        BY <2>1, <3>1 DEF ColumnsTypes, Positions
      <4> QED BY <3>1, <4>1, <4>2, <4>3
    <3>3. /\ position[r.col] < position[s.col] => r.index < s.index
          /\ position[s.col] < position[r.col] => s.index < r.index
      BY <2>1, <3>1 DEF Settled, Fits
    <3>4. position[r.col] = position[s.col] => r = s
      <4>1. position[r.col] = position[s.col] => r.col = s.col
        BY <3>1 DEF ColumnsInv, Distinct, OfType
      <4> QED BY <2>1, <4>1 DEF Settled, Fits
    <3> QED BY <3>1, <3>2, <3>3, <3>4 DEF ShownBefore
  <2> QED BY <2>1, <2>2 DEF Settled
<1> QED BY <1>1, ColumnsInvHolds, PTL

\* Creating and removing columns never reorders the others of their type.
THEOREM ColumnsKeepTheirOrder == ColumnsSpec => OrderIsStable
<1> DEFINE Stable ==
        (position' # position /\ ~ \E k \in Jobs : At(k, "reorder", "commit") /\ job'[k] # job[k])
          => \A x, y \in Columns :
                (/\ TypeOf[x] = TypeOf[y]
                 /\ position[x] # 0 /\ position'[x] # 0
                 /\ position[x] < position[y] /\ position'[y] # 0)
                    => position'[x] < position'[y]
<1>1. ASSUME ColumnsInv, ColumnsInv', [ColumnsNext]_columnsVars
      PROVE  [Stable]_columnsVars
  <2>1. ColumnsTypes /\ Distinct(position) /\ Distinct(position)' /\ \A k \in Jobs : JobIsGood(k)
    BY <1>1 DEF ColumnsInv, ColumnsShape
  <2> SUFFICES ASSUME ColumnsNext,
                      NEW x \in Columns, NEW y \in Columns, TypeOf[x] = TypeOf[y],
                      position[x] # 0, position'[x] # 0, position[x] < position[y], position'[y] # 0,
                      ~ \E k \in Jobs : At(k, "reorder", "commit") /\ job'[k] # job[k]
               PROVE  position'[x] < position'[y]
    BY <1>1
  <2>2. position[x] \in Nat /\ position[y] \in Nat
    BY <2>1 DEF ColumnsTypes, Positions
  <2>3. ASSUME NEW k \in Jobs, NEW f \in Editors, Edit(k, f)
        PROVE  position' = position
    BY <1>1, <2>3, EditKeepsScreens
  <2>4. ASSUME NEW k \in Jobs, InsertColumn(k)
        PROVE  position'[x] < position'[y]
    <3>1. job[k].col \in Columns /\ position[job[k].col] = 0
      BY <2>1, <2>4 DEF InsertColumn, At, JobIsGood
    <3>2. position'[x] = position[x] /\ position'[y] = position[y]
      BY <2>1, <2>2, <2>4, <3>1 DEF InsertColumn, ColumnsTypes, Positions
    <3> QED BY <3>2
  <2>5. ASSUME NEW k \in Jobs, RemoveColumn(k)
        PROVE  position'[x] < position'[y]
    <3>1. job[k].at \in Nat
      BY <2>1, <2>5, JobFields DEF RemoveColumn, At
    <3>2. \A z \in {x, y} : position'[z] =
             IF TypeOf[z] = TypeOf[job[k].col] /\ position[z] > job[k].at THEN position[z] - 1 ELSE position[z]
      BY <2>5 DEF RemoveColumn, Renumbered
    <3>3. position'[x] # position'[y]
      BY <2>1, <2>2 DEF Distinct, Present
    <3> QED BY <2>2, <3>1, <3>2, <3>3
  <2>6. ASSUME NEW k \in Jobs, CommitOrder(k)
        PROVE  FALSE
    <3>1. At(k, "reorder", "commit") /\ job'[k].step = "list"
      BY <2>1, <2>6 DEF CommitOrder, ColumnsTypes, At, Job
    <3> QED BY <3>1 DEF At
  <2>7. ASSUME NEW k \in Jobs, \/ ReadLast(k) \/ ReadRow(k) \/ UpdateColumn(k) \/ ReadKeys(k)
                               \/ Shift(k) \/ ListAll(k) \/ FailJob(k) \/ AnswerEditor(k)
        PROVE  position' = position
    BY <2>7 DEF ReadLast, ReadRow, UpdateColumn, ReadKeys, Shift, ListAll, FailJob, AnswerEditor, rowVars
  <2>8. ASSUME NEW e \in Editors, CloseColumnDialog(e) \/ \E z \in Columns : OpenColumnDialog(e, z)
        PROVE  position' = position
    BY <2>8 DEF CloseColumnDialog, OpenColumnDialog, rowVars
  <2> QED BY <2>3, <2>4, <2>5, <2>6, <2>7, <2>8 DEF ColumnsNext, Work
<1>2. OrderIsStable <=> [][Stable]_columnsVars
  BY DEF OrderIsStable
<1> QED BY <1>1, <1>2, ColumnsInvHolds, PTL DEF ColumnsSpec
-----------------------------------------------------------------------------
(* The audit log. *)

\* A page has the newest entries, and its cursor is the oldest of them.
LEMMA PageAndCursor ==
    ASSUME NEW S \in SUBSET Entries, IsFiniteSet(S), NEW P, P = Newest(S), NEW n, n = CursorOf(S, P)
    PROVE  /\ P \subseteq S /\ n \in Entries \cup {0}
           /\ n # 0 => n \in P /\ \A x \in P : n <= x
           /\ \A e \in S : n <= e => e \in P
<1>0. S \in SUBSET Nat /\ PageSize \in Nat \ {0} /\ 0 \notin S
  BY AuditAssumption
<1>1. P \subseteq S
  BY DEF Newest
<1>2. CASE S = P
  BY <1>2 DEF CursorOf
<1>3. CASE S # P
  <2>1. S # {}
    BY <1>1, <1>3
  <2>2. P # {}
    <3>1. [x \in S |-> x] \in [S -> Int]
      BY <1>0
    <3>2. PICK e \in S : \A x \in S : [y \in S |-> y][x] <= [y \in S |-> y][e]
      <4> HIDE <1>3
      <4> QED BY <2>1, <3>1, SomeRowIsHighest
    <3>3. \A x \in S : ~(x > e)
      BY <1>0, <3>2
    <3>4. Cardinality({x \in S : x > e}) = 0
      <4>1. {x \in S : x > e} = {}
        BY <3>3
      <4> QED BY <4>1, FS_EmptySet
    <3> QED BY <1>0, <3>4 DEF Newest
  <2>3. \E e \in P : \A x \in P : e <= x
    <3>1. PICK age \in [S -> Int] : \A x \in S : age[x] = -x
      <4>1. [x \in S |-> -x] \in [S -> Int]
        BY <1>0
      <4> QED BY <4>1
    <3>2. P \in SUBSET S
      BY <1>1
    <3>3. PICK e \in P : \A x \in P : age[x] <= age[e]
      BY <2>2, <3>2, SomeRowIsHighest
    <3> QED BY <1>0, <1>1, <3>1, <3>3
  <2>4. n \in P /\ \A x \in P : n <= x
    BY <1>3, <2>3 DEF CursorOf
  <2>5. ASSUME NEW e \in S, n <= e
        PROVE  e \in P
    <3> DEFINE A == {x \in S : x > e}
               B == {x \in S : x > n}
    <3>0. Cardinality(B) < PageSize
      <4>1. n \in {y \in S : Cardinality({x \in S : x > y}) < PageSize}
        BY <2>4 DEF Newest
      <4> QED BY <4>1
    <3>1. A \in SUBSET S /\ B \in SUBSET S
      OBVIOUS
    <3>2. A \in SUBSET B
      <4>1. n \in Nat /\ e \in Nat /\ \A x \in S : x \in Nat
        BY <1>0, <1>1, <2>4
      <4>2. \A x \in S : x > e => x > n
        BY <2>5, <4>1
      <4> QED BY <4>2
    <3> HIDE DEF A, B
    <3>3. IsFiniteSet(A) /\ IsFiniteSet(B)
      BY <3>1, FS_Subset
    <3>4. Cardinality(A) <= Cardinality(B)
      BY <3>2, <3>3, FS_Subset
    <3>5. Cardinality(A) \in Nat /\ Cardinality(B) \in Nat
      BY <3>3, FS_CardinalityType
    <3>6. Cardinality(A) < PageSize
      BY <1>0, <3>0, <3>4, <3>5
    <3> USE DEF A
    <3> QED BY <3>6 DEF Newest
  <2> QED BY <1>1, <2>4, <2>5
<1> QED BY <1>1, <1>2, <1>3

\* An answer leaves out no entry between its rows, nor after the cursor it was
\* asked with, but for those that were recorded too late.
Sound(q, entries, late) ==
    /\ q.after # 0 => q.after \in entries
    /\ q.step = "read" =>
          /\ q.page \subseteq entries \cap Matching[q.filters]
          /\ q.next # 0 => q.next \in q.page /\ \A x \in q.page : q.next <= x
          /\ q.after # 0 => \A x \in q.page : x < q.after
          /\ \A e \in (entries \cap Matching[q.filters]) \ late :
                (q.next <= e /\ (q.after # 0 => e < q.after)
                 /\ (q.after = 0 => \E x \in q.page : e < x)) => e \in q.page

\* The screen shows the answer for its filters.
Good == ~trailLoading /\ ~trailFailed /\ ~astray

PagesFit ==
    /\ Rows \subseteq log \cap Matching[filters]
    /\ \A i, j \in DOMAIN pages : i < j => \A x \in pages[i], y \in pages[j] : x > y
    /\ nextCursor # 0 => nextCursor \in Rows /\ \A x \in Rows : nextCursor <= x
    /\ \A x \in Rows, e \in (log \cap Matching[filters]) \ tooLate :
          (e < x /\ nextCursor <= e) => e \in Rows

QueryFits(k) ==
    query[k] # NoQuery =>
        /\ Sound(query[k], log, tooLate) /\ query[k].after = 0
        /\ ~query[k].old => query[k].filters = filters

MoreFits ==
    more # NoQuery =>
        /\ Sound(more, log, tooLate) /\ more.after # 0
        /\ (Good /\ ~more.old) => more.filters = filters /\ more.after = nextCursor

TrailFacts ==
    /\ IsFiniteSet(log) /\ nextCursor \in log \cup {0}
    /\ \A k \in Queries : QueryFits(k)
    /\ MoreFits /\ (Good => PagesFit)

TrailInv == AuditTypes /\ TrailFacts

\* The fields of a call of the audit screen.
LEMMA QueryFields ==
    ASSUME NEW q \in Query \cup {NoQuery}, q # NoQuery
    PROVE  /\ q \in Query /\ q.filters \in AuditFilters /\ q.after \in Entries \cup {0}
           /\ q.page \subseteq Entries /\ q.next \in Entries \cup {0} /\ q.old \in BOOLEAN
           /\ q.step \in {"sent", "read"}
BY DEF Query

LEMMA QuerySteps ==
    NoQuery.step = "none"
BY DEF NoQuery

LEMMA MadeOldIsTyped ==
    ASSUME NEW q \in Query \cup {NoQuery}
    PROVE  /\ MadeOld(q) \in Query \cup {NoQuery}
           /\ q = NoQuery => MadeOld(q) = NoQuery
           /\ q # NoQuery =>
                /\ MadeOld(q) # NoQuery /\ MadeOld(q).old
                /\ MadeOld(q).filters = q.filters /\ MadeOld(q).after = q.after
                /\ MadeOld(q).page = q.page /\ MadeOld(q).next = q.next /\ MadeOld(q).step = q.step
<1>1. CASE q = NoQuery
  BY <1>1 DEF MadeOld
<1>2. CASE q # NoQuery
  <2>1. q \in Query /\ MadeOld(q) = [q EXCEPT !.old = TRUE]
    BY <1>2 DEF MadeOld
  <2>2. MadeOld(q) \in Query /\ MadeOld(q).old
        /\ MadeOld(q).filters = q.filters /\ MadeOld(q).after = q.after
        /\ MadeOld(q).page = q.page /\ MadeOld(q).next = q.next /\ MadeOld(q).step = q.step
    BY <2>1 DEF Query
  <2>3. MadeOld(q) # NoQuery
    BY <2>2, QueryFields, QuerySteps DEF Query
  <2> QED BY <1>2, <2>2, <2>3
<1> QED BY <1>1, <1>2

\* The answer of the list endpoint is sound.
LEMMA ListedIsSound ==
    ASSUME AuditTypes, IsFiniteSet(log), NEW q \in Query, Sound(q, log, tooLate)
    PROVE  /\ Listed(q) \in Query /\ Sound(Listed(q), log, tooLate) /\ Listed(q) # NoQuery
           /\ Listed(q).old = q.old /\ Listed(q).filters = q.filters /\ Listed(q).after = q.after
<1> DEFINE S == After(log \cap Matching[q.filters], q.after)
           P == Newest(S)
           n == CursorOf(S, P)
<1>1. /\ S \in SUBSET Entries /\ S \subseteq log \cap Matching[q.filters] /\ IsFiniteSet(S)
      /\ \A e \in log \cap Matching[q.filters] : e \in S <=> (q.after = 0 \/ e < q.after)
  <2>1. S \subseteq log
    BY DEF After
  <2> QED BY <2>1, FS_Subset DEF After, AuditTypes
<1>2. /\ P \subseteq S /\ n \in Entries \cup {0}
      /\ n # 0 => n \in P /\ \A x \in P : n <= x
      /\ \A e \in S : n <= e => e \in P
  <2> HIDE DEF S
  <2> QED BY <1>1, PageAndCursor
<1> HIDE DEF S, P, n
<1>3. Listed(q) = [q EXCEPT !.step = "read", !.page = P, !.next = n]
  BY DEF Listed, S, P, n
<1>4. /\ Listed(q) \in Query /\ Listed(q).page = P /\ Listed(q).next = n /\ Listed(q).step = "read"
      /\ Listed(q).old = q.old /\ Listed(q).filters = q.filters /\ Listed(q).after = q.after
  BY <1>1, <1>2, <1>3 DEF Query
<1>5. Listed(q) # NoQuery
  BY <1>4, QuerySteps
<1>6. q.after # 0 => \A x \in P : x < q.after
  BY <1>1, <1>2
<1> QED BY <1>1, <1>2, <1>4, <1>5, <1>6 DEF Sound

\* Only an entry that is recorded after a newer one can be missing.
LEMMA SoundWhileRecorded ==
    ASSUME AuditTypes, NEW e \in Entries, NEW late,
           late = IF \E x \in log : x > e THEN tooLate \cup {e} ELSE tooLate,
           NEW q \in Query, Sound(q, log, tooLate)
    PROVE  Sound(q, log \cup {e}, late)
<1>0. \A x \in Entries : x \in Nat
  BY AuditAssumption
<1>1. tooLate \subseteq late
  OBVIOUS
<1>2. q.after # 0 => q.after \in log
  BY DEF Sound
<1>3. ASSUME q.step = "read"
      PROVE  \A d \in ((log \cup {e}) \cap Matching[q.filters]) \ late :
                (q.next <= d /\ (q.after # 0 => d < q.after)
                 /\ (q.after = 0 => \E x \in q.page : d < x)) => d \in q.page
  <2> SUFFICES ASSUME NEW d \in ((log \cup {e}) \cap Matching[q.filters]) \ late,
                      q.next <= d, q.after # 0 => d < q.after,
                      q.after = 0 => \E x \in q.page : d < x
               PROVE  d \in q.page
    OBVIOUS
  <2>1. ASSUME d \notin log
        PROVE  FALSE
    <3>1. d = e
      BY <2>1
    <3>2. PICK x \in log : d < x
      BY <1>2, <1>3 DEF Sound
    <3>3. x > e
      BY <1>0, <3>1, <3>2 DEF AuditTypes
    <3> QED BY <3>1, <3>2, <3>3
  <2> QED BY <1>1, <1>3, <2>1 DEF Sound
<1> QED BY <1>2, <1>3 DEF Sound

LEMMA RecordKeepsTrail ==
    ASSUME TrailInv, NEW e \in Entries, Record(e)
    PROVE  AuditTypes' /\ TrailFacts'
<1>0. AuditTypes /\ TrailFacts
  BY DEF TrailInv
<1>1. /\ log' = log \cup {e}
      /\ tooLate' = IF \E x \in log : x > e THEN tooLate \cup {e} ELSE tooLate
      /\ UNCHANGED <<filters, pages, nextCursor, trailLoading, trailFailed, query, more, astray>>
  BY DEF Record
<1>2. AuditTypes'
  <2>1. tooLate' \subseteq Entries
    BY <1>0, <1>1 DEF AuditTypes
  <2> QED BY <1>0, <1>1, <2>1 DEF AuditTypes
<1>3. IsFiniteSet(log)' /\ (nextCursor \in log \cup {0})'
  BY <1>0, <1>1, FS_AddElement DEF TrailFacts
<1>4. ASSUME NEW k \in Queries
      PROVE  QueryFits(k)'
  <2>1. query[k] # NoQuery => query[k] \in Query
    BY <1>0 DEF AuditTypes
  <2>2. query[k] # NoQuery => Sound(query[k], log', tooLate')
    BY <1>0, <1>1, <2>1, SoundWhileRecorded DEF TrailFacts, QueryFits
  <2> QED BY <1>0, <1>1, <2>2 DEF TrailFacts, QueryFits
<1>5. MoreFits'
  <2>1. more # NoQuery => more \in Query
    BY <1>0 DEF AuditTypes
  <2>2. more # NoQuery => Sound(more, log', tooLate')
    BY <1>0, <1>1, <2>1, SoundWhileRecorded DEF TrailFacts, MoreFits
  <2> QED BY <1>0, <1>1, <2>2 DEF TrailFacts, MoreFits, Good
<1>6. Good' => PagesFit'
  <2> SUFFICES ASSUME Good
               PROVE  PagesFit'
    BY <1>1 DEF Good
  <2>1. PagesFit /\ Rows' = Rows
    BY <1>0, <1>1 DEF TrailFacts, Rows
  <2>2. ASSUME NEW x \in Rows, NEW d \in (log' \cap Matching[filters]) \ tooLate', d < x, nextCursor <= d
        PROVE  d \in Rows
    <3>1. x \in log /\ \A y \in log \cup {e} : y \in Nat
      BY <1>0, <2>1, AuditAssumption DEF PagesFit, AuditTypes
    <3>2. d \in log
      BY <1>1, <2>2, <3>1
    <3>3. d \in (log \cap Matching[filters]) \ tooLate
      BY <1>1, <2>2, <3>2
    <3> QED BY <2>1, <2>2, <3>3 DEF PagesFit
  <2> QED BY <1>1, <2>1, <2>2 DEF PagesFit
<1> QED BY <1>2, <1>3, <1>4, <1>5, <1>6 DEF TrailFacts

\* A new call, and what making the others old leaves of them.
LEMMA NewQueryFits ==
    ASSUME AuditTypes, NEW f \in AuditFilters, NEW cursor \in Entries \cup {0},
           cursor # 0 => cursor \in log
    PROVE  LET q == SentQuery(f, cursor) IN
           /\ q \in Query /\ q # NoQuery /\ Sound(q, log, tooLate)
           /\ q.after = cursor /\ q.filters = f /\ q.old = FALSE
<1>1. SentQuery(f, cursor) \in Query
  BY DEF SentQuery, Query
<1>2. SentQuery(f, cursor).step = "sent"
  BY DEF SentQuery
<1>3. SentQuery(f, cursor) # NoQuery
  BY <1>2, QuerySteps
<1> QED BY <1>1, <1>2, <1>3 DEF SentQuery, Sound

LEMMA OldIsSound ==
    ASSUME NEW q \in Query \cup {NoQuery}, q # NoQuery, Sound(q, log, tooLate)
    PROVE  Sound(MadeOld(q), log, tooLate)
BY MadeOldIsTyped DEF Sound

LEMMA LoadingKeepsTrail ==
    ASSUME TrailInv, NEW k \in Queries, View(k)
    PROVE  AuditTypes' /\ TrailFacts'
<1>0. AuditTypes /\ TrailFacts
  BY DEF TrailInv
<1>q. \A i \in Queries : query[i] # NoQuery => query[i] \in Query /\ QueryFits(i)
  BY <1>0 DEF AuditTypes, TrailFacts
<1>1. ASSUME NEW f \in AuditFilters, ChangeFilters(k, f)
      PROVE  AuditTypes' /\ TrailFacts'
  <2>1. /\ SentQuery(f, 0) \in Query /\ SentQuery(f, 0) # NoQuery /\ Sound(SentQuery(f, 0), log, tooLate)
        /\ SentQuery(f, 0).after = 0 /\ SentQuery(f, 0).filters = f /\ SentQuery(f, 0).old = FALSE
    BY <1>0, NewQueryFits
  <2>2. /\ query' = [i \in Queries |-> IF i = k THEN SentQuery(f, 0) ELSE MadeOld(query[i])]
        /\ more' = MadeOld(more) /\ filters' = f /\ trailLoading' = TRUE /\ trailFailed' = FALSE
        /\ UNCHANGED <<log, pages, nextCursor, tooLate, astray>>
    BY <1>1 DEF ChangeFilters
  <2>3. AuditTypes'
    BY <1>0, <2>1, <2>2, MadeOldIsTyped DEF AuditTypes
  <2>4. ~Good'
    BY <2>2 DEF Good
  <2>5. ASSUME NEW i \in Queries
        PROVE  QueryFits(i)'
    <3>1. CASE i = k
      BY <2>1, <2>2, <3>1 DEF QueryFits
    <3>2. CASE i # k
      <4>1. query'[i] = MadeOld(query[i]) /\ query[i] \in Query \cup {NoQuery}
        BY <1>0, <2>2, <3>2 DEF AuditTypes
      <4>2. CASE query[i] = NoQuery
        BY <4>1, <4>2, MadeOldIsTyped DEF QueryFits
      <4>3. CASE query[i] # NoQuery
        <5>1. Sound(query[i], log, tooLate) /\ query[i].after = 0
          BY <1>q, <4>3 DEF QueryFits
        <5>2. Sound(MadeOld(query[i]), log, tooLate) /\ MadeOld(query[i]).after = 0 /\ MadeOld(query[i]).old
          BY <4>1, <4>3, <5>1, OldIsSound, MadeOldIsTyped
        <5> QED BY <2>2, <4>1, <5>2 DEF QueryFits
      <4> QED BY <4>2, <4>3
    <3> QED BY <3>1, <3>2
  <2>6. MoreFits'
    <3>1. more \in Query \cup {NoQuery}
      BY <1>0 DEF AuditTypes
    <3>2. CASE more = NoQuery
      BY <2>2, <3>1, <3>2, MadeOldIsTyped DEF MoreFits
    <3>3. CASE more # NoQuery
      <4>1. Sound(MadeOld(more), log, tooLate) /\ MadeOld(more).after # 0
        BY <1>0, <3>1, <3>3, OldIsSound, MadeOldIsTyped DEF TrailFacts, MoreFits
      <4> QED BY <2>2, <2>4, <4>1 DEF MoreFits
    <3> QED BY <3>2, <3>3
  <2> QED BY <1>0, <2>2, <2>3, <2>4, <2>5, <2>6 DEF TrailFacts
<1>2. CASE ListAudit(k)
  <2>1. query[k] \in Query /\ query[k] # NoQuery
    BY <1>0, <1>2, QuerySteps DEF ListAudit, AuditTypes
  <2>2. /\ Listed(query[k]) \in Query /\ Sound(Listed(query[k]), log, tooLate) /\ Listed(query[k]) # NoQuery
        /\ Listed(query[k]).old = query[k].old /\ Listed(query[k]).filters = query[k].filters
        /\ Listed(query[k]).after = query[k].after
    BY <1>0, <1>q, <2>1, ListedIsSound DEF QueryFits, TrailFacts
  <2>3. /\ query' = [query EXCEPT ![k] = Listed(query[k])]
        /\ UNCHANGED <<log, filters, pages, nextCursor, trailLoading, trailFailed, more, tooLate, astray>>
    BY <1>2 DEF ListAudit
  <2>4. AuditTypes'
    BY <1>0, <2>2, <2>3 DEF AuditTypes
  <2>5. ASSUME NEW i \in Queries
        PROVE  QueryFits(i)'
    <3>1. CASE i = k
      <4>1. query'[i] = Listed(query[k])
        BY <1>0, <2>3, <3>1 DEF AuditTypes
      <4> QED BY <1>q, <2>1, <2>2, <2>3, <4>1 DEF QueryFits
    <3>2. CASE i # k
      <4>1. query'[i] = query[i]
        BY <1>0, <2>3, <3>2 DEF AuditTypes
      <4> QED BY <1>q, <2>3, <4>1 DEF QueryFits
    <3> QED BY <3>1, <3>2
  <2> QED BY <1>0, <2>3, <2>4, <2>5 DEF TrailFacts, MoreFits, Good, PagesFit, Rows
<1>3. CASE ShowAudit(k)
  <2>1. query[k] \in Query /\ query[k] # NoQuery /\ QueryFits(k) /\ query[k].step = "read"
    BY <1>0, <1>3, <1>q, QuerySteps DEF ShowAudit, AuditTypes
  <2>2. PICK q \in Query : q = query[k]
    BY <2>1
  <2>3. /\ pages' = <<q.page>> /\ nextCursor' = q.next /\ trailLoading' = FALSE
        /\ query' = [query EXCEPT ![k] = NoQuery] /\ more' = MadeOld(more) /\ astray' = q.old
        /\ UNCHANGED <<log, filters, trailFailed, tooLate>>
    BY <1>3, <2>2 DEF ShowAudit
  <2>4. q.page \subseteq Entries /\ q.next \in Entries \cup {0} /\ q.old \in BOOLEAN
    BY DEF Query
  <2>5. AuditTypes'
    <3>1. query' \in [Queries -> Query \cup {NoQuery}]
      BY <1>0, <2>3 DEF AuditTypes
    <3>2. more' \in Query \cup {NoQuery}
      BY <1>0, <2>3, MadeOldIsTyped DEF AuditTypes
    <3>3. pages' \in Seq(SUBSET Entries)
      <4>1. q.page \in SUBSET Entries
        BY <2>4
      <4> QED BY <2>3, <4>1
    <3>4. /\ log' \subseteq Entries /\ tooLate' \subseteq Entries
          /\ filters' \in AuditFilters /\ nextCursor' \in Entries \cup {0}
          /\ trailLoading' \in BOOLEAN /\ trailFailed' \in BOOLEAN /\ astray' \in BOOLEAN
      BY <1>0, <2>3, <2>4 DEF AuditTypes
    <3> QED BY <3>1, <3>2, <3>3, <3>4 DEF AuditTypes
  <2>6. /\ Sound(q, log, tooLate) /\ q.after = 0 /\ q.step = "read" /\ (~q.old => q.filters = filters)
    BY <2>1, <2>2 DEF QueryFits
  <2>7. (nextCursor \in log \cup {0})'
    BY <2>3, <2>6 DEF Sound
  <2>8. ASSUME NEW i \in Queries
        PROVE  QueryFits(i)'
    <3>1. query'[i] = NoQuery \/ query'[i] = query[i]
      BY <1>0, <2>3 DEF AuditTypes
    <3> QED BY <1>q, <2>3, <3>1 DEF QueryFits
  <2>9. MoreFits'
    <3>1. more \in Query \cup {NoQuery}
      BY <1>0 DEF AuditTypes
    <3>2. CASE more = NoQuery
      BY <2>3, <3>1, <3>2, MadeOldIsTyped DEF MoreFits
    <3>3. CASE more # NoQuery
      <4>1. Sound(MadeOld(more), log, tooLate) /\ MadeOld(more).after # 0 /\ MadeOld(more).old
        BY <1>0, <3>1, <3>3, OldIsSound, MadeOldIsTyped DEF TrailFacts, MoreFits
      <4> QED BY <2>3, <4>1 DEF MoreFits
    <3> QED BY <3>2, <3>3
  <2>10. Good' => PagesFit'
    <3> SUFFICES ASSUME ~q.old
                 PROVE  PagesFit'
      BY <2>3 DEF Good
    <3>1. Rows' = q.page
      <4>1. DOMAIN pages' = {1} /\ pages'[1] = q.page
        BY <2>3
      <4> QED BY <4>1 DEF Rows
    <3>2. q.filters = filters
      BY <2>6
    <3>3. \A i, j \in DOMAIN pages' : ~(i < j)
      BY <2>3
    <3> QED BY <2>3, <2>6, <3>1, <3>2, <3>3 DEF PagesFit, Sound
  <2> QED BY <1>0, <2>3, <2>5, <2>7, <2>8, <2>9, <2>10 DEF TrailFacts
<1>4. CASE LoadAuditFails(k)
  <2>1. /\ trailFailed' = TRUE /\ trailLoading' = FALSE /\ query' = [query EXCEPT ![k] = NoQuery]
        /\ UNCHANGED <<log, filters, pages, nextCursor, more, tooLate, astray>>
    BY <1>4 DEF LoadAuditFails
  <2>2. AuditTypes' /\ ~Good'
    BY <1>0, <2>1 DEF AuditTypes, Good
  <2>3. ASSUME NEW i \in Queries
        PROVE  QueryFits(i)'
    <3>1. query'[i] = NoQuery \/ query'[i] = query[i]
      BY <1>0, <2>1 DEF AuditTypes
    <3> QED BY <1>q, <2>1, <3>1 DEF QueryFits
  <2> QED BY <1>0, <2>1, <2>2, <2>3 DEF TrailFacts, MoreFits
<1> QED BY <1>1, <1>2, <1>3, <1>4 DEF View

LEMMA MoreKeepsTrail ==
    ASSUME TrailInv, AskMore \/ ListMore \/ LoadMore \/ MoreFails
    PROVE  AuditTypes' /\ TrailFacts'
<1>0. AuditTypes /\ TrailFacts /\ MoreFits
  BY DEF TrailInv, TrailFacts
<1>1. UNCHANGED <<log, filters, trailLoading, trailFailed, query, tooLate>>
  BY DEF AskMore, ListMore, LoadMore, MoreFails
<1>2. \A k \in Queries : QueryFits(k)'
  BY <1>0, <1>1 DEF TrailFacts, QueryFits
<1>3. CASE AskMore
  <2>1. /\ more' = SentQuery(filters, nextCursor) /\ nextCursor # 0
        /\ UNCHANGED <<pages, nextCursor, astray>>
    BY <1>3 DEF AskMore
  <2>2. /\ more' \in Query /\ Sound(more', log, tooLate)
        /\ more'.after = nextCursor /\ more'.filters = filters
    BY <1>0, <2>1, NewQueryFits DEF TrailFacts, AuditTypes
  <2> QED BY <1>0, <1>1, <1>2, <2>1, <2>2 DEF AuditTypes, TrailFacts, MoreFits, Good, PagesFit, Rows
<1>4. CASE ListMore
  <2>1. more \in Query /\ more # NoQuery /\ more' = Listed(more) /\ UNCHANGED <<pages, nextCursor, astray>>
    BY <1>0, <1>4, QuerySteps DEF ListMore, AuditTypes
  <2>2. /\ more' \in Query /\ Sound(more', log, tooLate)
        /\ more'.old = more.old /\ more'.filters = more.filters /\ more'.after = more.after
    BY <1>0, <2>1, ListedIsSound DEF TrailFacts, MoreFits
  <2> QED BY <1>0, <1>1, <1>2, <2>1, <2>2 DEF AuditTypes, TrailFacts, MoreFits, Good, PagesFit, Rows
<1>5. CASE MoreFails
  <2>1. more' = NoQuery /\ UNCHANGED <<pages, nextCursor, astray>>
    BY <1>5 DEF MoreFails
  <2> QED BY <1>0, <1>1, <1>2, <2>1 DEF AuditTypes, TrailFacts, MoreFits, Good, PagesFit, Rows
<1>6. CASE LoadMore
  <2>1. PICK q \in Query : q = more /\ q.step = "read" /\ more # NoQuery
    BY <1>0, <1>6, QuerySteps DEF LoadMore, AuditTypes
  <2>2. /\ pages' = Append(pages, q.page) /\ nextCursor' = q.next
        /\ astray' = (astray \/ q.old) /\ more' = NoQuery
    BY <1>6, <2>1 DEF LoadMore
  <2>3. q.page \in SUBSET Entries /\ q.next \in Entries \cup {0} /\ q.old \in BOOLEAN
    BY DEF Query
  <2>4. AuditTypes'
    BY <1>0, <1>1, <2>2, <2>3 DEF AuditTypes
  <2>5. Sound(q, log, tooLate) /\ q.after # 0
    BY <1>0, <2>1 DEF MoreFits
  <2>6. (nextCursor \in log \cup {0})' /\ MoreFits'
    <3>1. q.next # 0 => q.next \in log
      BY <2>1, <2>5 DEF Sound
    <3>2. nextCursor' = q.next /\ log' = log
      BY <1>1, <2>2
    <3>3. MoreFits'
      BY <2>2 DEF MoreFits
    <3> QED BY <3>1, <3>2, <3>3
  <2>7. Good' => PagesFit'
    <3> SUFFICES ASSUME Good, ~q.old
                 PROVE  PagesFit'
      BY <1>1, <2>2 DEF Good
    <3>1. PagesFit /\ q.filters = filters /\ q.after = nextCursor
      BY <1>0, <2>1 DEF TrailFacts, MoreFits
    <3>2. /\ DOMAIN pages = 1 .. Len(pages) /\ Len(pages) \in Nat
          /\ DOMAIN pages' = 1 .. Len(pages) + 1
          /\ \A i \in 1 .. Len(pages) : pages'[i] = pages[i]
          /\ pages'[Len(pages) + 1] = q.page
      BY <1>0, <2>2, <2>3 DEF AuditTypes
    <3>3. Rows' = Rows \cup q.page
      <4>1. \A x : x \in Rows' <=> \E i \in DOMAIN pages' : x \in pages'[i]
        BY DEF Rows
      <4>2. \A x : x \in Rows <=> \E i \in DOMAIN pages : x \in pages[i]
        BY DEF Rows
      <4>3. ASSUME NEW x
            PROVE  x \in Rows' <=> x \in Rows \/ x \in q.page
        <5>1. ASSUME x \in Rows'
              PROVE  x \in Rows \/ x \in q.page
          <6>1. PICK i \in 1 .. Len(pages) + 1 : x \in pages'[i]
            BY <3>2, <4>1, <5>1
          <6>2. CASE i = Len(pages) + 1
            BY <3>2, <6>1, <6>2
          <6>3. CASE i \in 1 .. Len(pages)
            BY <3>2, <4>2, <6>1, <6>3
          <6> QED BY <3>2, <6>2, <6>3
        <5>2. ASSUME x \in Rows
              PROVE  x \in Rows'
          <6>1. PICK i \in 1 .. Len(pages) : x \in pages[i]
            BY <3>2, <4>2, <5>2
          <6>2. i \in 1 .. Len(pages) + 1
            BY <3>2
          <6> QED BY <3>2, <4>1, <6>1, <6>2
        <5>3. ASSUME x \in q.page
              PROVE  x \in Rows'
          <6>1. Len(pages) + 1 \in 1 .. Len(pages) + 1
            BY <3>2
          <6> QED BY <3>2, <4>1, <5>3, <6>1
        <5> QED BY <5>1, <5>2, <5>3
      <4> QED BY <4>3
    <3>4. /\ q.page \subseteq log \cap Matching[filters]
          /\ q.next # 0 => q.next \in q.page /\ \A x \in q.page : q.next <= x
          /\ \A x \in q.page : x < nextCursor
          /\ \A e \in (log \cap Matching[filters]) \ tooLate :
                (q.next <= e /\ e < nextCursor) => e \in q.page
      BY <2>1, <2>5, <3>1 DEF Sound
    <3>5. nextCursor \in Rows /\ (\A x \in Rows : nextCursor <= x) /\ nextCursor # 0
      BY <2>5, <3>1 DEF PagesFit
    <3>6. (\A x \in log : x \in Nat) /\ Rows \subseteq log
      BY <1>0, <3>1, AuditAssumption DEF AuditTypes, PagesFit
    <3>7. \A x \in Rows, y \in q.page : x > y
      BY <3>4, <3>5, <3>6
    <3>8. \A i, j \in DOMAIN pages' : i < j => \A x \in pages'[i], y \in pages'[j] : x > y
      <4> SUFFICES ASSUME NEW i \in DOMAIN pages', NEW j \in DOMAIN pages', i < j,
                          NEW x \in pages'[i], NEW y \in pages'[j]
                   PROVE  x > y
        OBVIOUS
      <4>1. i \in 1 .. Len(pages) /\ x \in pages[i] /\ x \in Rows
        BY <3>2 DEF Rows
      <4>2. CASE j = Len(pages) + 1
        BY <3>2, <3>7, <4>1, <4>2
      <4>3. CASE j # Len(pages) + 1
        <5>1. j \in 1 .. Len(pages) /\ y \in pages[j]
          BY <3>2, <4>3
        <5> QED BY <3>1, <3>2, <4>1, <5>1 DEF PagesFit
      <4> QED BY <4>2, <4>3
    <3>9. q.next # 0 => q.next \in Rows' /\ \A x \in Rows' : q.next <= x
      <4> SUFFICES ASSUME q.next # 0
                   PROVE  q.next \in Rows' /\ \A x \in Rows' : q.next <= x
        OBVIOUS
      <4>1. q.next \in q.page /\ q.next \in Nat
        BY <3>4, <3>6
      <4>2. \A x \in Rows : q.next <= x
        BY <3>6, <3>7, <4>1
      <4> QED BY <3>3, <3>4, <4>1, <4>2
    <3>10. ASSUME NEW x \in Rows', NEW e \in (log \cap Matching[filters]) \ tooLate, e < x, q.next <= e
           PROVE  e \in Rows'
      <4>1. CASE e < nextCursor
        BY <3>3, <3>4, <3>10, <4>1
      <4>2. CASE e = nextCursor
        BY <3>3, <3>5, <4>2
      <4>3. CASE nextCursor < e
        <5>1. x \in Nat /\ e \in Nat /\ nextCursor \in Nat
          BY <3>3, <3>4, <3>5, <3>6
        <5>2. x \in Rows
          BY <3>3, <3>4, <3>10, <4>3, <5>1
        <5> QED BY <3>1, <3>3, <3>10, <4>3, <5>1, <5>2 DEF PagesFit
      <4>4. e \in Nat /\ nextCursor \in Nat
        BY <3>5, <3>6
      <4> QED BY <4>1, <4>2, <4>3, <4>4
    <3>11. Rows' \subseteq log \cap Matching[filters]
      BY <3>1, <3>3, <3>4 DEF PagesFit
    <3> QED BY <1>1, <2>2, <3>8, <3>9, <3>10, <3>11 DEF PagesFit
  <2> QED BY <1>0, <1>1, <1>2, <2>4, <2>6, <2>7 DEF TrailFacts
<1> QED BY <1>3, <1>4, <1>5, <1>6

\* The cursor of the screen and the answers under way stay sound.
LEMMA TrailInvHolds == AuditSpec => []TrailInv
<1>1. AuditInit => TrailInv
  <2> SUFFICES ASSUME AuditInit
               PROVE  TrailInv
    OBVIOUS
  <2>1. PICK k \in Queries :
           query = [i \in Queries |-> IF i = k THEN SentQuery(EmptyFilters, 0) ELSE NoQuery]
    BY DEF AuditInit
  <2>2. /\ log = {} /\ tooLate = {} /\ filters = EmptyFilters /\ pages = <<>> /\ nextCursor = 0
        /\ trailLoading = TRUE /\ trailFailed = FALSE /\ astray = FALSE /\ more = NoQuery
    BY DEF AuditInit, AuditClosed
  <2> DEFINE q == SentQuery(EmptyFilters, 0)
  <2>3. /\ q \in Query /\ q.after = 0 /\ q.step = "sent" /\ q.filters = EmptyFilters
    BY AuditAssumption DEF SentQuery, Query
  <2>4. \A i \in Queries : query[i] = q \/ query[i] = NoQuery
    BY <2>1
  <2>5. query \in [Queries -> Query \cup {NoQuery}]
    BY <2>1, <2>3
  <2> HIDE DEF q
  <2>6. AuditTypes
    <3>1. pages \in Seq(SUBSET Entries)
      BY <2>2
    <3> QED BY <2>2, <2>5, <3>1, AuditAssumption DEF AuditTypes
  <2>7. \A i \in Queries : QueryFits(i)
    BY <2>2, <2>3, <2>4 DEF QueryFits, Sound
  <2>8. IsFiniteSet(log)
    BY <2>2, FS_EmptySet
  <2> QED BY <2>2, <2>6, <2>7, <2>8 DEF TrailInv, TrailFacts, MoreFits, Good
<1>2. TrailInv /\ [AuditNext]_auditVars => TrailInv'
  <2> SUFFICES ASSUME TrailInv, [AuditNext]_auditVars
               PROVE  AuditTypes' /\ TrailFacts'
    BY DEF TrailInv
  <2>1. ASSUME NEW e \in Entries, Record(e)
        PROVE  AuditTypes' /\ TrailFacts'
    BY <2>1, RecordKeepsTrail
  <2>2. ASSUME NEW k \in Queries, View(k)
        PROVE  AuditTypes' /\ TrailFacts'
    BY <2>2, LoadingKeepsTrail
  <2>3. CASE AskMore \/ ListMore \/ LoadMore \/ MoreFails
    BY <2>3, MoreKeepsTrail
  <2>4. CASE UNCHANGED auditVars
    BY <2>4 DEF auditVars, TrailInv, AuditTypes, TrailFacts, QueryFits, MoreFits, Good, PagesFit, Rows
  <2> QED BY <2>1, <2>2, <2>3, <2>4 DEF AuditNext
<1> QED BY <1>1, <1>2, PTL DEF AuditSpec

\* The screen of the audit log misses no entry between the rows it shows and
\* shows none twice, for any page size, any filters and any number of loads
\* that overlap (audit.service list, AuditScreen load and loadMore).
THEOREM TrailLosesNothing == AuditSpec => [](AuditTypes /\ TrailIsComplete)
<1>1. TrailInv => AuditTypes /\ TrailIsComplete
  BY DEF TrailInv, TrailFacts, Good, PagesFit, TrailIsComplete
<1> QED BY <1>1, TrailInvHolds, PTL
=============================================================================
