------------------------------ MODULE LiveFeed ------------------------------
(***************************************************************************)
(* The live feed of one client: DeliveryService books an assignment and    *)
(* pushes it once to the sockets in the room of the client                 *)
(* (apps/api/src/realtime); NotificationsProvider keeps what it receives,  *)
(* and LiveLeadsScreen merges in the list of leads/mine when it is opened. *)
(*                                                                         *)
(* A push is not repeated, and a socket that comes back does not fetch the *)
(* list again.  Assignments come from the engine (module Distribution).    *)
(*                                                                         *)
(* An entry that was PENDING when the list was read stays PENDING on the   *)
(* screen: neither the push nor a later list changes it.                   *)
(***************************************************************************)
EXTENDS FiniteSets

CONSTANTS
    Sales,   \* lead_assignments of the client
    Mounts   \* bound: calls of leads/mine under way at once

VARIABLES
    delivery,   \* lead_assignments.delivery_status, "none" before the sale
    unpushed,   \* booked, and the push comes next
    joined,     \* whether the socket of the page is in the room
    wire,       \* pushes on the way to the page
    mine,       \* calls of leads/mine
    feed,       \* liveLeads: the status of each entry
    caughtUp    \* history: the list was read since the socket joined

feedVars == <<delivery, unpushed, joined, wire, mine, feed, caughtUp>>
-----------------------------------------------------------------------------
Statuses == [Sales -> {"none", "PENDING", "DELIVERED"}]
NoRows == [x \in Sales |-> "none"]

\* live: the socket was in the room when the list was read, and ever since.
Mine == [step : {"sent", "read"}, rows : Statuses, live : BOOLEAN]
NotMounted == [step |-> "none"]

\* assignOne of the engine.
Sell(x) ==
    /\ delivery[x] = "none"
    /\ delivery' = [delivery EXCEPT ![x] = "PENDING"]
    /\ UNCHANGED <<unpushed, joined, wire, mine, feed, caughtUp>>

\* markDelivered.
Book(x) ==
    /\ delivery[x] = "PENDING"
    /\ delivery' = [delivery EXCEPT ![x] = "DELIVERED"]
    /\ unpushed' = unpushed \cup {x}
    /\ UNCHANGED <<joined, wire, mine, feed, caughtUp>>

\* emitToPrincipal: whoever is in the room gets it.
Push(x) ==
    /\ x \in unpushed
    /\ unpushed' = unpushed \ {x}
    /\ wire' = IF joined THEN wire \cup {x} ELSE wire
    /\ UNCHANGED <<delivery, joined, mine, feed, caughtUp>>

\* handleConnection.
HandleConnection ==
    /\ ~joined
    /\ joined' = TRUE
    /\ UNCHANGED <<delivery, unpushed, wire, mine, feed, caughtUp>>

Left == [i \in Mounts |-> IF mine[i].step = "read" THEN [mine[i] EXCEPT !.live = FALSE] ELSE mine[i]]

\* The connection is lost with what is on the way; Socket.IO connects again.
Disconnect ==
    /\ joined
    /\ joined' = FALSE /\ wire' = {} /\ caughtUp' = FALSE
    /\ mine' = Left
    /\ UNCHANGED <<delivery, unpushed, feed>>

\* The API dies with its sockets and the pushes it was to send.
ApiDies ==
    /\ joined' = FALSE /\ wire' = {} /\ unpushed' = {} /\ caughtUp' = FALSE
    /\ mine' = [i \in Mounts |-> IF mine[i].step = "sent" THEN NotMounted ELSE Left[i]]
    /\ UNCHANGED <<delivery, feed>>

\* Fault: a push only refreshes what the list has brought.
ReceivedKnown(rows, x) == IF rows[x] = "none" THEN rows ELSE [rows EXCEPT ![x] = "DELIVERED"]
\* The handler of lead.delivered: a known entry stays as it is.
Received(rows, x) == IF rows[x] = "none" THEN [rows EXCEPT ![x] = "DELIVERED"] ELSE rows

Receive(x) ==
    /\ x \in wire
    /\ wire' = wire \ {x}
    /\ feed' = Received(feed, x)
    /\ UNCHANGED <<delivery, unpushed, joined, mine, caughtUp>>

\* LiveLeadsScreen is opened.
Mount(i) ==
    /\ mine[i] = NotMounted
    /\ mine' = [mine EXCEPT ![i] = [step |-> "sent", rows |-> NoRows, live |-> FALSE]]
    /\ UNCHANGED <<delivery, unpushed, joined, wire, feed, caughtUp>>

\* listForClient.
ListForClient(i) ==
    /\ mine[i].step = "sent"
    /\ mine' = [mine EXCEPT ![i] = [step |-> "read", rows |-> delivery, live |-> joined]]
    /\ UNCHANGED <<delivery, unpushed, joined, wire, feed, caughtUp>>

\* seedLiveLeads: entries that are there are kept.
Seeded(old, rows) == [x \in Sales |-> IF old[x] = "none" THEN rows[x] ELSE old[x]]

SeedLiveLeads(i) ==
    /\ mine[i].step = "read"
    /\ feed' = Seeded(feed, mine[i].rows)
    /\ caughtUp' = (caughtUp \/ mine[i].live)
    /\ mine' = [mine EXCEPT ![i] = NotMounted]
    /\ UNCHANGED <<delivery, unpushed, joined, wire>>

LoadFails(i) ==
    /\ mine[i] # NotMounted
    /\ mine' = [mine EXCEPT ![i] = NotMounted]
    /\ UNCHANGED <<delivery, unpushed, joined, wire, feed, caughtUp>>

\* The page is loaded again.
OpenPage ==
    /\ joined' = FALSE /\ wire' = {} /\ caughtUp' = FALSE
    /\ mine' = [i \in Mounts |-> NotMounted]
    /\ feed' = NoRows
    /\ UNCHANGED <<delivery, unpushed>>
-----------------------------------------------------------------------------
FeedInit ==
    /\ delivery = NoRows /\ feed = NoRows
    /\ unpushed = {} /\ wire = {}
    /\ joined = FALSE /\ caughtUp = FALSE
    /\ mine = [i \in Mounts |-> NotMounted]

Engine(x) == Sell(x) \/ Book(x) \/ Push(x) \/ Receive(x)
Socket == HandleConnection \/ Disconnect \/ ApiDies \/ OpenPage
Screen(i) == Mount(i) \/ ListForClient(i) \/ SeedLiveLeads(i) \/ LoadFails(i)

FeedNext == Socket \/ (\E x \in Sales : Engine(x)) \/ (\E i \in Mounts : Screen(i))

FeedSpec == FeedInit /\ [][FeedNext]_feedVars
-----------------------------------------------------------------------------
\* Every variable keeps the type its comment gives it.
FeedTypes ==
    /\ delivery \in Statuses /\ feed \in Statuses
    /\ unpushed \subseteq Sales /\ wire \subseteq Sales
    /\ joined \in BOOLEAN /\ caughtUp \in BOOLEAN
    /\ mine \in [Mounts -> Mine \cup {NotMounted}]

\* Once the list was read with the socket in the room, and for as long as the
\* socket stays there, no delivered lead is missing from the feed except while
\* its push is on the way, whichever of push and list arrives first.
NothingMissedWhileLive ==
    caughtUp => \A x \in Sales :
        delivery[x] = "DELIVERED" => feed[x] # "none" \/ x \in unpushed \/ x \in wire

\* A feed tells no lead to be delivered that is not, and a lead it showed as
\* delivered does not become pending again when an older list arrives late.
ConfirmedStaysConfirmed ==
    [][\A x \in Sales :
          /\ feed'[x] = "DELIVERED" => delivery'[x] = "DELIVERED"
          /\ feed[x] = "DELIVERED" => feed'[x] \in {"DELIVERED", "none"}
          /\ (feed[x] # "none" /\ feed'[x] = "none") => feed' = NoRows]_feedVars
=============================================================================
