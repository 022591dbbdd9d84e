------------------------------- MODULE Bridge -------------------------------
(***************************************************************************)
(* How a form that a visitor submits on a WordPress site becomes a lead:   *)
(* the plugin (wordpress/leads-portal-bridge), its retry queue and cron,   *)
(* the signed request, and the intake service (apps/api/src/intake) with   *)
(* the suppression list.                                                   *)
(*                                                                         *)
(* A sender is the PHP process that serves a form, named by the            *)
(* submission, or a run of the retry cron.  It sends one request at a time *)
(* and waits for the answer; when it stops waiting the portal works on.    *)
(* The steps of a request, and of a sender, are its database statements.   *)
(* WP-Cron does not keep two drains apart: it takes a lock for a minute,   *)
(* and a late run is followed by the next at once.                         *)
(*                                                                         *)
(* There is one landing page and one endpoint for it.  Backoff is a row    *)
(* that is not due and becomes due some time later; at most 25 rows are    *)
(* waiting, so that a drain reads them all; all leads are within the       *)
(* deduplication window; a person gives the same phone and email each      *)
(* time, in a valid format.  The stub of the deliverability check accepts  *)
(* everything.                                                             *)
(***************************************************************************)
EXTENDS Naturals, FiniteSets

CONSTANTS
    Submissions,  \* entries of the form
    PersonOf,     \* the phone and email of an entry
    Drains,       \* runs of the retry cron that may overlap
    Requests,     \* bound: requests the API serves at once
    MaxRetries,   \* option lpb_max_retries
    MaxTroubles,  \* bound: crashes and changes by administrators; sends fail without bound
    Nobody        \* no caller

ASSUME BridgeAssumption ==
    /\ IsFiniteSet(Submissions) /\ IsFiniteSet(Drains)
    /\ Submissions \cap Drains = {}
    /\ Nobody \notin Submissions \cup Drains
    /\ DOMAIN PersonOf = Submissions
    /\ MaxRetries \in Nat /\ MaxTroubles \in Nat

Senders == Submissions \cup Drains
People == {PersonOf[s] : s \in Submissions}

VARIABLES
    endpoint,    \* wp_lpb_endpoints: "active", "paused" or "deleted"
    siteSecret,  \* its intake_secret
    queue,       \* wp_lpb_queue rows, one per submission at most
    sender,      \* what each sender does
    batch,       \* the rows a drain has read and not sent yet
    pageSecret,  \* landing_pages.intake_secret
    mapped,      \* whether landing_pages.field_map finds the required fields
    suppressed,  \* people on the suppression list
    request,     \* requests the API is serving
    lead,        \* leads rows: the verdict of each submission
    fails,       \* history: failed sends the plugin has logged, as far as they matter
    fate,        \* history: how the life of a submission in the plugin ended
    told,        \* history: submissions the API answered for with 2xx
    announced,   \* history: leads LEAD_VALID was emitted for
    knew,        \* history: what was stored when the request that stored a lead began
    troubles     \* counts towards MaxTroubles

site == <<endpoint, siteSecret, queue, sender, batch>>
portal == <<pageSecret, mapped, suppressed, request, lead>>
pluginHistory == <<fails, fate>>
portalHistory == <<told, announced, knew>>
vars == <<site, portal, pluginHistory, portalHistory, troubles>>
-----------------------------------------------------------------------------
NotStored == "NOT_STORED"
Verdicts == {"VALID", "INVALID_FORMAT", "DUPLICATE", "SUPPRESSED"}

Row == [attempts : Nat, due : BOOLEAN]
NoRow == [attempts |-> 0, due |-> FALSE]

\* A row as a drain has read it; alive while the row with its id exists.
Snapshot == [sub : Submissions \cup {Nobody}, attempts : Nat, alive : BOOLEAN]
NoSnapshot == [sub |-> Nobody, attempts |-> 0, alive |-> FALSE]

\* The answers after which the plugin never sends a submission again, and the
\* network errors and transient errors after which it does.
Final == {"success", "deduped", "client_error"}
Answers == Final \cup {"none", "failure"}

Sender == [step : {"idle", "waiting", "answered", "retrying", "done"},
           row : Snapshot, answer : Answers]
Idle == [step |-> "idle", row |-> NoSnapshot, answer |-> "none"]

Request == [step : {"none", "ingest", "lookup", "duplicate", "suppressed", "persist", "answer"},
            sub : Submissions \cup {Nobody}, caller : Senders \cup {Nobody}, secret : Nat,
            verdict : Verdicts, before : SUBSET Submissions]
NoRequest == [step |-> "none", sub |-> Nobody, caller |-> Nobody, secret |-> 0,
              verdict |-> "VALID", before |-> {}]

Stored == {s \in Submissions : lead[s] # NotStored}
-----------------------------------------------------------------------------
(* The plugin. *)

\* send: the row of sender p goes out, signed with the secret of the endpoint.
Send(p, row) ==
    /\ sender' = [sender EXCEPT ![p] = [step |-> "waiting", row |-> row, answer |-> "none"]]
    /\ \E r \in Requests : request[r] = NoRequest
    /\ request' = [request EXCEPT ![CHOOSE r \in Requests : request[r] = NoRequest] =
          [NoRequest EXCEPT !.step = "ingest", !.sub = row.sub, !.caller = p,
                            !.secret = siteSecret]]

\* A visitor submits the form and the adapter dispatches it, unless the
\* endpoint of the form is not active.
Dispatch(s) ==
    /\ sender[s] = Idle
    /\ endpoint = "active"
    /\ Send(s, [NoSnapshot EXCEPT !.sub = s])
    /\ UNCHANGED <<endpoint, siteSecret, queue, batch, pageSecret, mapped, suppressed, lead,
                   pluginHistory, portalHistory, troubles>>

DispatchIgnored(s) ==
    /\ sender[s] = Idle
    /\ endpoint # "active"
    /\ sender' = [sender EXCEPT ![s].step = "done"]
    /\ fate' = [fate EXCEPT ![s] = "ignored"]
    /\ UNCHANGED <<endpoint, siteSecret, queue, batch, portal, fails, portalHistory, troubles>>

\* INSERT ... ON DUPLICATE KEY UPDATE attempts = attempts + 1.
Enqueued(row) == [attempts |-> row.attempts + 1, due |-> FALSE]

\* More failures than MaxRetries are as good as one more.
Logged(n) == IF n > MaxRetries THEN n ELSE n + 1

\* A failed send is logged and puts the submission into the queue.
Enqueue(p) ==
    LET s == sender[p].row.sub IN
    /\ sender[p].step = "answered" /\ sender[p].answer = "failure"
    /\ queue' = [queue EXCEPT ![s] = Enqueued(@)]
    /\ fails' = [fails EXCEPT ![s] = Logged(@)]
    /\ sender' = [sender EXCEPT ![p].step = IF p \in Drains THEN "retrying" ELSE "done"]
    /\ UNCHANGED <<endpoint, siteSecret, batch, portal, fate, portalHistory, troubles>>

\* The form process has its answer.
Finish(s) ==
    /\ s \in Submissions
    /\ sender[s].step = "answered" /\ sender[s].answer \in Final
    /\ sender' = [sender EXCEPT ![s].step = "done"]
    /\ fate' = [fate EXCEPT ![s] = "answered"]
    /\ UNCHANGED <<endpoint, siteSecret, queue, batch, portal, fails, portalHistory, troubles>>

BecomeDue(s) ==
    /\ queue[s] # NoRow /\ ~queue[s].due
    /\ queue' = [queue EXCEPT ![s].due = TRUE]
    /\ UNCHANGED <<endpoint, siteSecret, sender, batch, portal, pluginHistory, portalHistory,
                   troubles>>

\* drain_queue starts with due_queue_rows.
DrainQueue(d) ==
    LET due == {s \in Submissions : queue[s].due} IN
    /\ sender[d] = Idle /\ batch[d] = {}
    /\ due # {}
    /\ batch' = [batch EXCEPT ![d] =
          {[sub |-> s, attempts |-> queue[s].attempts, alive |-> TRUE] : s \in due}]
    /\ UNCHANGED <<endpoint, siteSecret, queue, sender, portal, pluginHistory, portalHistory,
                   troubles>>

\* The next row of drain d is sent, with the endpoint as it is now.
SendNext(d) ==
    /\ sender[d] = Idle
    /\ endpoint # "deleted"
    /\ \E row \in batch[d] :
          /\ Send(d, row)
          /\ batch' = [batch EXCEPT ![d] = @ \ {row}]
    /\ UNCHANGED <<endpoint, siteSecret, queue, pageSecret, mapped, suppressed, lead,
                   pluginHistory, portalHistory, troubles>>

\* What a drain has read once the row of submission s is deleted.
Forget(row, s) == IF row.sub = s THEN [row EXCEPT !.alive = FALSE] ELSE row

\* Fault: the row stays in the table.
DequeueNothing(d, row) ==
    /\ sender' = [sender EXCEPT ![d] = Idle]
    /\ batch' = [batch EXCEPT ![d] = @ \ {row}]
    /\ UNCHANGED queue
\* Drain d deletes its row by id and goes on; another may have done so before.
Dequeue(d, row) ==
    LET s == row.sub IN
    IF row.alive
    THEN /\ queue' = [queue EXCEPT ![s] = NoRow]
         /\ sender' = [p \in Senders |->
               IF p = d THEN Idle ELSE [sender[p] EXCEPT !.row = Forget(@, s)]]
         /\ batch' = [e \in Drains |->
               {Forget(w, s) : w \in IF e = d THEN batch[e] \ {row} ELSE batch[e]}]
    ELSE /\ sender' = [sender EXCEPT ![d] = Idle]
         /\ batch' = [batch EXCEPT ![d] = @ \ {row}]
         /\ UNCHANGED queue

\* The endpoint of the row is gone.
DropNext(d) ==
    /\ sender[d] = Idle
    /\ endpoint = "deleted"
    /\ \E row \in batch[d] : Dequeue(d, row)
    /\ UNCHANGED <<endpoint, siteSecret, portal, pluginHistory, portalHistory, troubles>>

\* Drain d has a final answer for its row.
Conclude(d) ==
    /\ sender[d].step = "answered" /\ sender[d].answer \in Final
    /\ Dequeue(d, sender[d].row)
    /\ fate' = [fate EXCEPT ![sender[d].row.sub] = "answered"]
    /\ UNCHANGED <<endpoint, siteSecret, portal, fails, portalHistory, troubles>>

\* Fault: the first retry after the last one counted gives up.
IsLastEarly(attempts) == attempts + 1 >= MaxRetries
IsLast(attempts) == attempts >= MaxRetries

\* After a failed send a drain deletes the row or sets when it is due again,
\* from the attempts it read at its start.
GiveUp(d) ==
    /\ sender[d].step = "retrying"
    /\ IsLast(sender[d].row.attempts + 1)
    /\ Dequeue(d, sender[d].row)
    /\ UNCHANGED <<endpoint, siteSecret, portal, pluginHistory, portalHistory, troubles>>

Reschedule(d) ==
    LET row == sender[d].row IN
    /\ sender[d].step = "retrying"
    /\ ~IsLast(row.attempts + 1)
    /\ queue' = IF row.alive
                THEN [queue EXCEPT ![row.sub] = [attempts |-> row.attempts + 1, due |-> FALSE]]
                ELSE queue
    /\ sender' = [sender EXCEPT ![d] = Idle]
    /\ UNCHANGED <<endpoint, siteSecret, batch, portal, pluginHistory, portalHistory, troubles>>
-----------------------------------------------------------------------------
(* The intake service. *)

\* Request r ends, and its caller gets the answer if it still waits for it.
Reply(r, answer) ==
    /\ request' = [request EXCEPT ![r] = NoRequest]
    /\ sender' = [p \in Senders |->
          IF p = request[r].caller
          THEN [sender[p] EXCEPT !.step = "answered", !.answer = answer]
          ELSE sender[p]]

GoOn(r, step) == request' = [request EXCEPT ![r].step = step]
Decide(r, verdict) == request' = [request EXCEPT ![r].step = "persist", ![r].verdict = verdict]

\* The rest of a site while the portal works.
siteRest == <<endpoint, siteSecret, queue, batch>>

\* ingest: the signature is checked with the secret of the page.  The fields are
\* normalised later with the field_map read here.
Ingest(r) ==
    /\ request[r].step = "ingest"
    /\ request[r].secret = pageSecret
    /\ request' = [request EXCEPT ![r].step = "lookup", ![r].before = Stored,
                    ![r].verdict = IF mapped THEN "VALID" ELSE "INVALID_FORMAT"]
    /\ UNCHANGED <<site, pageSecret, mapped, suppressed, lead, pluginHistory, portalHistory, troubles>>

RefuseSignature(r) ==
    /\ request[r].step = "ingest"
    /\ request[r].secret # pageSecret
    /\ Reply(r, "client_error")
    /\ UNCHANGED <<siteRest, pageSecret, mapped, suppressed, lead, pluginHistory, portalHistory, troubles>>

\* processOne: a submission that is stored is answered as it is.
AnswerAgain(r) ==
    /\ request[r].step = "lookup"
    /\ request[r].sub \in Stored
    /\ Reply(r, "deduped")
    /\ told' = told \cup {request[r].sub}
    /\ UNCHANGED <<siteRest, pageSecret, mapped, suppressed, lead, pluginHistory, announced, knew, troubles>>

\* evaluate: required fields and formats, then duplicates, then suppression.
Normalise(r) ==
    /\ request[r].step = "lookup"
    /\ request[r].sub \notin Stored
    /\ GoOn(r, IF request[r].verdict = "INVALID_FORMAT" THEN "persist" ELSE "duplicate")
    /\ UNCHANGED <<site, pageSecret, mapped, suppressed, lead, pluginHistory, portalHistory, troubles>>

\* Fault: only leads the engine was told of count.
IsDuplicateOfAnnounced(s) == \E t \in announced : PersonOf[t] = PersonOf[s]
\* A lead that was not rejected has the phone or email of the submission.
IsDuplicate(s) == \E t \in Submissions : PersonOf[t] = PersonOf[s] /\ lead[t] = "VALID"

CheckDuplicate(r) ==
    /\ request[r].step = "duplicate"
    /\ IF IsDuplicate(request[r].sub) THEN Decide(r, "DUPLICATE") ELSE GoOn(r, "suppressed")
    /\ UNCHANGED <<site, pageSecret, mapped, suppressed, lead, pluginHistory, portalHistory, troubles>>

CheckSuppressed(r) ==
    /\ request[r].step = "suppressed"
    /\ Decide(r, IF PersonOf[request[r].sub] \in suppressed THEN "SUPPRESSED" ELSE "VALID")
    /\ UNCHANGED <<site, pageSecret, mapped, suppressed, lead, pluginHistory, portalHistory, troubles>>

\* Fault: a conflict on submission_id updates the row.
PersistedUpsert(s, verdict) == verdict
\* create, or what is stored when submission_id is taken.
Persisted(s, verdict) == IF s \in Stored THEN lead[s] ELSE verdict

Persist(r) ==
    LET s == request[r].sub IN
    /\ request[r].step = "persist"
    /\ lead' = [lead EXCEPT ![s] = Persisted(s, request[r].verdict)]
    /\ knew' = IF s \in Stored THEN knew ELSE [knew EXCEPT ![s] = request[r].before]
    /\ GoOn(r, "answer")
    /\ UNCHANGED <<site, pageSecret, mapped, suppressed, pluginHistory, told, announced, troubles>>

\* A VALID lead is announced and the site gets its answer.
Answer(r) ==
    LET s == request[r].sub IN
    /\ request[r].step = "answer"
    /\ Reply(r, "success")
    /\ told' = told \cup {s}
    /\ announced' = IF lead[s] = "VALID" THEN announced \cup {s} ELSE announced
    /\ UNCHANGED <<siteRest, pageSecret, mapped, suppressed, lead, pluginHistory, knew, troubles>>
-----------------------------------------------------------------------------
(* What goes wrong. *)

Trouble == troubles < MaxTroubles /\ troubles' = troubles + 1

\* Nobody waits for the requests of sender p any more.
Abandon(p) ==
    request' = [r \in Requests |->
        IF request[r].caller = p THEN [request[r] EXCEPT !.caller = Nobody] ELSE request[r]]

\* The plugin stops waiting: timeout, or a connection that is lost.
GiveUpWaiting(p) ==
    /\ sender[p].step = "waiting"
    /\ sender' = [sender EXCEPT ![p].step = "answered", ![p].answer = "failure"]
    /\ Abandon(p)
    /\ UNCHANGED <<siteRest, pageSecret, mapped, suppressed, lead, pluginHistory, portalHistory,
                   troubles>>

\* The API answers 5xx, 408 or 429: the throttle, or a statement that failed.
FailRequest(r) ==
    /\ request[r].step # "none"
    /\ Reply(r, "failure")
    /\ UNCHANGED <<siteRest, pageSecret, mapped, suppressed, lead, pluginHistory, portalHistory,
                   troubles>>

CrashApi ==
    /\ Trouble
    /\ request' = [r \in Requests |-> NoRequest]
    /\ UNCHANGED <<site, pageSecret, mapped, suppressed, lead, pluginHistory, portalHistory>>

\* PHP ends the process of a form before it has queued or finished.
KillForm(s) ==
    /\ Trouble
    /\ s \in Submissions
    /\ sender[s].step \in {"waiting", "answered"}
    /\ sender' = [sender EXCEPT ![s].step = "done"]
    /\ fate' = [fate EXCEPT ![s] = "killed"]
    /\ Abandon(s)
    /\ UNCHANGED <<siteRest, pageSecret, mapped, suppressed, lead, fails, portalHistory>>

KillDrain(d) ==
    /\ Trouble
    /\ sender[d] # Idle \/ batch[d] # {}
    /\ sender' = [sender EXCEPT ![d] = Idle]
    /\ batch' = [batch EXCEPT ![d] = {}]
    /\ Abandon(d)
    /\ UNCHANGED <<endpoint, siteSecret, queue, pageSecret, mapped, suppressed, lead, pluginHistory,
                   portalHistory>>
-----------------------------------------------------------------------------
(* What administrators change. *)

SetEndpoint(status) ==
    /\ Trouble
    /\ endpoint # "deleted"
    /\ endpoint' = status
    /\ UNCHANGED <<siteSecret, queue, sender, batch, portal, pluginHistory, portalHistory>>

RotateSecret ==
    /\ Trouble
    /\ pageSecret' = pageSecret + 1
    /\ UNCHANGED <<site, mapped, suppressed, request, lead, pluginHistory, portalHistory>>

\* The new secret is copied into the endpoint.
UpdateSecret ==
    /\ Trouble
    /\ endpoint # "deleted"
    /\ siteSecret' = pageSecret
    /\ UNCHANGED <<endpoint, queue, sender, batch, portal, pluginHistory, portalHistory>>

Suppress(person) ==
    /\ Trouble
    /\ suppressed' \in {suppressed \cup {person}, suppressed \ {person}}
    /\ UNCHANGED <<site, pageSecret, mapped, request, lead, pluginHistory, portalHistory>>

\* The field_map of the page is edited.
Remap ==
    /\ Trouble
    /\ mapped' = ~mapped
    /\ UNCHANGED <<site, pageSecret, suppressed, request, lead, pluginHistory, portalHistory>>
-----------------------------------------------------------------------------
Init ==
    /\ endpoint = "active" /\ siteSecret = 1 /\ pageSecret = 1
    /\ queue = [s \in Submissions |-> NoRow]
    /\ sender = [p \in Senders |-> Idle]
    /\ batch = [d \in Drains |-> {}]
    /\ suppressed = {} /\ mapped = TRUE
    /\ request = [r \in Requests |-> NoRequest]
    /\ lead = [s \in Submissions |-> NotStored]
    /\ fails = [s \in Submissions |-> 0]
    /\ fate = [s \in Submissions |-> "open"]
    /\ told = {} /\ announced = {}
    /\ knew = [s \in Submissions |-> {}]
    /\ troubles = 0

FormStep(s) == Dispatch(s) \/ DispatchIgnored(s) \/ Finish(s)

DrainStep(d) ==
    \/ DrainQueue(d) \/ SendNext(d) \/ DropNext(d)
    \/ Conclude(d) \/ GiveUp(d) \/ Reschedule(d)

RequestStep(r) ==
    \/ Ingest(r) \/ RefuseSignature(r) \/ AnswerAgain(r) \/ Normalise(r)
    \/ CheckDuplicate(r) \/ CheckSuppressed(r) \/ Persist(r) \/ Answer(r)

Failure ==
    \/ \E r \in Requests : FailRequest(r)
    \/ CrashApi
    \/ \E s \in Submissions : KillForm(s)
    \/ \E d \in Drains : KillDrain(d)

Administration ==
    \/ \E status \in {"active", "paused", "deleted"} : SetEndpoint(status)
    \/ RotateSecret
    \/ UpdateSecret
    \/ Remap
    \/ \E person \in People : Suppress(person)

Next ==
    \/ \E s \in Submissions : FormStep(s) \/ BecomeDue(s)
    \/ \E p \in Senders : Enqueue(p) \/ GiveUpWaiting(p)
    \/ \E d \in Drains : DrainStep(d)
    \/ \E r \in Requests : RequestStep(r)
    \/ Failure
    \/ Administration

Spec == Init /\ [][Next]_vars

\* A process that runs goes on, and a wait ends.  Time passes, and visits to
\* the site keep WP-Cron going.  Nobody has to submit a form.
Fairness ==
    /\ \A s \in Submissions : WF_vars(Finish(s)) /\ WF_vars(BecomeDue(s))
    /\ \A p \in Senders : WF_vars(Enqueue(p)) /\ WF_vars(GiveUpWaiting(p))
    /\ \A d \in Drains : WF_vars(DrainStep(d))
    /\ \A r \in Requests : WF_vars(RequestStep(r))

FairSpec == Spec /\ Fairness
-----------------------------------------------------------------------------
\* Every variable keeps the type its comment gives it.
TypeOK ==
    /\ endpoint \in {"active", "paused", "deleted"}
    /\ siteSecret \in Nat /\ pageSecret \in Nat
    /\ queue \in [Submissions -> Row]
    /\ sender \in [Senders -> Sender]
    /\ batch \in [Drains -> SUBSET Snapshot]
    /\ suppressed \subseteq People /\ mapped \in BOOLEAN
    /\ request \in [Requests -> Request]
    /\ lead \in [Submissions -> Verdicts \cup {NotStored}]
    /\ fails \in [Submissions -> Nat]
    /\ fate \in [Submissions -> {"open", "answered", "ignored", "killed"}]
    /\ told \subseteq Submissions /\ announced \subseteq Submissions
    /\ knew \in [Submissions -> SUBSET Submissions]
    /\ troubles \in Nat

\* A form that is sent again, by any number of drains, through lost answers,
\* crashes and conflicts on submission_id, is stored once with the verdict it
\* got first, confirmed only when it is stored, and called a duplicate only
\* when another lead of the person is there (idempotency of processOne and
\* persist).
Capture == INSTANCE LeadCapture
ImplementsCapture == Capture!CaptureSpec

\* A submission whose request reached the portal after another lead of the
\* same person was stored as VALID never becomes a second VALID lead; two of
\* them are possible only when their requests overlap (isDuplicate and create
\* are apart).
SequentialSubmissionsDeduplicated ==
    \A s, t \in Submissions :
        (s # t /\ PersonOf[s] = PersonOf[t] /\ lead[s] = "VALID" /\ lead[t] = "VALID")
            => t \notin knew[s]

AtWork(s) == \E p \in Senders : sender[p].row.sub = s /\ sender[p].step \notin {"idle", "done"}

\* A submission the plugin took up is sent until it has a final answer or has
\* failed lpb_max_retries times, whatever drains overlap or die; only a form
\* process that dies, or a deleted endpoint, loses it.
NothingIsForgotten ==
    \A s \in Submissions :
        (sender[s] # Idle /\ fate[s] = "open" /\ endpoint # "deleted")
            => queue[s] # NoRow \/ AtWork(s) \/ fails[s] >= MaxRetries

Closed(s) == sender[s].step = "done" /\ queue[s] = NoRow /\ ~AtWork(s)

\* No two drains run at the same time.
DrainsInTurn ==
    \A d, e \in Drains : (sender[d] # Idle \/ batch[d] # {}) /\ (sender[e] # Idle \/ batch[e] # {}) => d = e

\* Every form that is submitted leaves the plugin in the end, however many sends
\* fail: it is answered, given up after lpb_max_retries failures or dropped, and
\* no row stays in the queue for ever, unless drains overlap time and again.
\* Then the count of its attempts may start anew each time: a drain whose send
\* fails after another has given the row up puts it back with one attempt.
EverySubmissionSettles ==
    <>[]DrainsInTurn => \A s \in Submissions : (sender[s] # Idle) ~> Closed(s)
=============================================================================
