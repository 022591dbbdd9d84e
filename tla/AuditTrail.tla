------------------------------ MODULE AuditTrail ------------------------------
(***************************************************************************)
(* The audit viewer: AuditService records entries and pages through them   *)
(* with a cursor, newest first; AuditScreen loads the first page for each  *)
(* filter and appends a page for each click on "Load more".                *)
(*                                                                         *)
(* Nothing cancels the load of an earlier filter.  The summary (chips and  *)
(* counters) and the expanded rows are left out.                           *)
(***************************************************************************)
EXTENDS Naturals, Sequences, FiniteSets

CONSTANTS
    Entries,       \* audit_logs, numbered in the order of (created_at, id)
    AuditFilters,  \* what the operator can filter by
    EmptyFilters,  \* the filters at the start
    Matching,      \* buildWhere: the entries that a filter is for
    PageSize,      \* take
    Queries        \* bound: loads under way at once

ASSUME AuditAssumption ==
    /\ Entries \in SUBSET (Nat \ {0}) /\ PageSize \in Nat \ {0}
    /\ EmptyFilters \in AuditFilters /\ Matching \in [AuditFilters -> SUBSET Entries]

VARIABLES
    log,           \* the entries that are recorded
    filters,       \* what the operator filters by
    pages,         \* the rows on the screen, page by page
    nextCursor,    \* the entry that "Load more" goes on after, 0 for null
    trailLoading,  \* a skeleton is shown
    trailFailed,   \* an error is shown
    query,         \* calls of load
    more,          \* the call of loadMore
    tooLate,       \* history: recorded after a newer entry
    astray         \* history: the screen shows an answer that came too late

auditVars == <<log, filters, pages, nextCursor, trailLoading, trailFailed, query, more, tooLate, astray>>
-----------------------------------------------------------------------------
\* old: another load was started (for a load) or shown (for loadMore) since.
Query == [step : {"sent", "read"}, filters : AuditFilters, after : Entries \cup {0},
          page : SUBSET Entries, next : Entries \cup {0}, old : BOOLEAN]
NoQuery == [step |-> "none"]

SentQuery(f, cursor) == [step |-> "sent", filters |-> f, after |-> cursor,
                         page |-> {}, next |-> 0, old |-> FALSE]

MadeOld(q) == IF q = NoQuery THEN q ELSE [q EXCEPT !.old = TRUE]

\* Timestamps are taken before the commit, and ids decide within a millisecond.
Record(e) ==
    /\ e \notin log
    /\ log' = log \cup {e}
    /\ tooLate' = IF \E x \in log : x > e THEN tooLate \cup {e} ELSE tooLate
    /\ UNCHANGED <<filters, pages, nextCursor, trailLoading, trailFailed, query, more, astray>>

\* Fault: the row of the cursor is not skipped.
AfterAgain(S, cursor) == {e \in S : cursor = 0 \/ e <= cursor}
\* cursor and skip.
After(S, cursor) == {e \in S : cursor = 0 \/ e < cursor}

\* orderBy and take.
Newest(S) == {e \in S : Cardinality({x \in S : x > e}) < PageSize}

\* hasMore.
CursorOf(S, page) ==
    IF S = page THEN 0 ELSE CHOOSE e \in page : \A x \in page : e <= x

\* The answer of list.
Listed(q) ==
    LET S == After(log \cap Matching[q.filters], q.after) IN
    [q EXCEPT !.step = "read", !.page = Newest(S), !.next = CursorOf(S, Newest(S))]

ListAudit(k) ==
    /\ query[k].step = "sent"
    /\ query' = [query EXCEPT ![k] = Listed(@)]
    /\ UNCHANGED <<log, filters, pages, nextCursor, trailLoading, trailFailed, more, tooLate, astray>>

ListMore ==
    /\ more.step = "sent"
    /\ more' = Listed(more)
    /\ UNCHANGED <<log, filters, pages, nextCursor, trailLoading, trailFailed, query, tooLate, astray>>
-----------------------------------------------------------------------------
\* The chips, the inputs and reset; the effect loads.
ChangeFilters(k, f) ==
    /\ query[k] = NoQuery /\ f # filters
    /\ filters' = f
    /\ trailLoading' = TRUE /\ trailFailed' = FALSE
    /\ query' = [i \in Queries |-> IF i = k THEN SentQuery(f, 0) ELSE MadeOld(query[i])]
    /\ more' = MadeOld(more)
    /\ UNCHANGED <<log, pages, nextCursor, tooLate, astray>>

ShowAudit(k) ==
    /\ query[k].step = "read"
    /\ pages' = <<query[k].page>> /\ nextCursor' = query[k].next
    /\ trailLoading' = FALSE
    /\ query' = [query EXCEPT ![k] = NoQuery]
    /\ more' = MadeOld(more)
    /\ astray' = query[k].old
    /\ UNCHANGED <<log, filters, trailFailed, tooLate>>

LoadAuditFails(k) ==
    /\ query[k] # NoQuery
    /\ trailFailed' = TRUE /\ trailLoading' = FALSE
    /\ query' = [query EXCEPT ![k] = NoQuery]
    /\ UNCHANGED <<log, filters, pages, nextCursor, more, tooLate, astray>>

\* The button stays while a load is under way.
AskMore ==
    /\ more = NoQuery /\ nextCursor # 0
    /\ more' = SentQuery(filters, nextCursor)
    /\ UNCHANGED <<log, filters, pages, nextCursor, trailLoading, trailFailed, query, tooLate, astray>>

LoadMore ==
    /\ more.step = "read"
    /\ pages' = Append(pages, more.page) /\ nextCursor' = more.next
    /\ astray' = (astray \/ more.old)
    /\ more' = NoQuery
    /\ UNCHANGED <<log, filters, trailLoading, trailFailed, query, tooLate>>

MoreFails ==
    /\ more # NoQuery
    /\ more' = NoQuery
    /\ UNCHANGED <<log, filters, pages, nextCursor, trailLoading, trailFailed, query, tooLate, astray>>
-----------------------------------------------------------------------------
AuditClosed ==
    /\ log = {} /\ tooLate = {} /\ filters = EmptyFilters
    /\ pages = <<>> /\ nextCursor = 0
    /\ trailLoading = TRUE /\ trailFailed = FALSE /\ astray = FALSE
    /\ more = NoQuery

\* The screen loads when it is opened.
AuditInit ==
    /\ AuditClosed
    /\ \E k \in Queries :
          query = [i \in Queries |-> IF i = k THEN SentQuery(EmptyFilters, 0) ELSE NoQuery]

View(k) ==
    \/ \E f \in AuditFilters : ChangeFilters(k, f)
    \/ ListAudit(k) \/ ShowAudit(k) \/ LoadAuditFails(k)

AuditNext ==
    \/ \E e \in Entries : Record(e)
    \/ \E k \in Queries : View(k)
    \/ AskMore \/ ListMore \/ LoadMore \/ MoreFails

AuditSpec == AuditInit /\ [][AuditNext]_auditVars
-----------------------------------------------------------------------------
\* Every variable keeps the type its comment gives it.
AuditTypes ==
    /\ log \subseteq Entries /\ tooLate \subseteq Entries
    /\ filters \in AuditFilters /\ nextCursor \in Entries \cup {0}
    /\ pages \in Seq(SUBSET Entries)
    /\ trailLoading \in BOOLEAN /\ trailFailed \in BOOLEAN /\ astray \in BOOLEAN
    /\ query \in [Queries -> Query \cup {NoQuery}]
    /\ more \in Query \cup {NoQuery}

Rows == UNION {pages[i] : i \in DOMAIN pages}

\* The rows run from newer to older with none repeated and none that the filter
\* is not for, and no entry between them is missing, however many entries are
\* recorded between the pages.  This is not so for an entry recorded after a
\* newer one, nor once the answer for an earlier filter came last.
TrailIsComplete ==
    (~trailLoading /\ ~trailFailed /\ ~astray) =>
        /\ Rows \subseteq Matching[filters]
        /\ \A i, j \in DOMAIN pages : i < j =>
              \A x \in pages[i], y \in pages[j] : x > y
        /\ \A x \in Rows, e \in (log \cap Matching[filters]) \ tooLate :
              (e < x /\ nextCursor <= e) => e \in Rows
=============================================================================
