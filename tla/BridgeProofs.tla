---------------------------- MODULE BridgeProofs ----------------------------
(***************************************************************************)
(* Proofs about the capture of leads, for any number of submissions,       *)
(* overlapping drains and requests, and without the bound on troubles.     *)
(***************************************************************************)
EXTENDS Bridge, TLAPS

\* A sender works on one submission, and what it has read of the row counts
\* no more failures than the plugin has logged.
FormIsSound(s) ==
    /\ sender[s].step \in {"idle", "waiting", "answered", "done"}
    /\ sender[s].step = "idle" => sender[s] = Idle
    /\ sender[s].step \in {"waiting", "answered"} => sender[s].row.sub = s
    /\ (sender[s].step = "done" /\ fate[s] = "open") => fails[s] > 0

\* n failures of s are logged, or there are as many as matter.
AtMost(n, s) == n <= fails[s] \/ fails[s] >= MaxRetries

Counted(row) == row.sub \in Submissions /\ AtMost(row.attempts, row.sub)

DrainIsSound(d) ==
    /\ sender[d].step # "done"
    /\ sender[d].step = "idle" => sender[d] = Idle
    /\ sender[d].step # "idle" => Counted(sender[d].row)
    /\ sender[d].step = "retrying" => AtMost(sender[d].row.attempts + 1, sender[d].row.sub)
    /\ \A row \in batch[d] : Counted(row)

\* What keeps a submission that failed from being forgotten.
Safe(s) ==
    queue[s] # NoRow \/ fails[s] >= MaxRetries \/ fate[s] # "open" \/ endpoint = "deleted"

PluginInv ==
    /\ \A s \in Submissions : FormIsSound(s)
    /\ \A d \in Drains : DrainIsSound(d)
    /\ \A s \in Submissions : AtMost(queue[s].attempts, s)
    /\ \A s \in Submissions : fails[s] > 0 => Safe(s)

\* A request waits for nobody else than the sender that waits for it.
CallersWait ==
    \A r \in Requests : request[r].caller # Nobody =>
        /\ sender[request[r].caller].step = "waiting"
        /\ \A q \in Requests \ {r} : request[q].caller # request[r].caller

\* What a request has found out of the leads so far.
RequestIsSound(q) ==
    /\ q.step = "none" => q.caller = Nobody
    /\ q.step # "none" => q.sub \in Submissions
    /\ q.before \subseteq Stored
    /\ q.step \in {"ingest", "lookup", "duplicate", "suppressed"} => q.verdict # "DUPLICATE"
    /\ q.verdict = "DUPLICATE" => \E t \in Submissions : PersonOf[t] = PersonOf[q.sub] /\ lead[t] = "VALID"
    /\ q.step = "answer" => q.sub \in Stored
    /\ (q.step = "suppressed" \/ (q.step = "persist" /\ q.verdict = "VALID"))
          => \A t \in q.before : PersonOf[t] = PersonOf[q.sub] => lead[t] # "VALID"

PortalInv ==
    /\ \A r \in Requests : RequestIsSound(request[r])
    /\ \A s \in Submissions : knew[s] \subseteq Stored
    /\ SequentialSubmissionsDeduplicated

BridgeInv == TypeOK /\ PluginInv /\ CallersWait /\ PortalInv

USE BridgeAssumption DEF BridgeAssumption

\* A send takes a free slot of the API.
LEMMA SendTakesSlot ==
    ASSUME NEW p, NEW row, Send(p, row)
    PROVE  \E r \in Requests :
              /\ request[r] = NoRequest
              /\ request' = [request EXCEPT ![r] =
                    [NoRequest EXCEPT !.step = "ingest", !.sub = row.sub, !.caller = p,
                                      !.secret = siteSecret]]
<1> DEFINE slot == CHOOSE r \in Requests : request[r] = NoRequest
<1>1. slot \in Requests /\ request[slot] = NoRequest
  BY DEF Send
<1> QED
  BY <1>1 DEF Send

LEMMA TypesOfSend ==
    ASSUME TypeOK, NEW p \in Senders, NEW row \in Snapshot, Send(p, row)
    PROVE  sender' \in [Senders -> Sender] /\ request' \in [Requests -> Request]
<1>1. sender' \in [Senders -> Sender]
  BY DEF TypeOK, Send, Sender, Answers
<1>2. PICK r \in Requests :
         request' = [request EXCEPT ![r] =
            [NoRequest EXCEPT !.step = "ingest", !.sub = row.sub, !.caller = p,
                              !.secret = siteSecret]]
  BY SendTakesSlot
<1>3. [NoRequest EXCEPT !.step = "ingest", !.sub = row.sub, !.caller = p, !.secret = siteSecret]
         \in Request
  BY DEF TypeOK, Request, NoRequest, Verdicts, Snapshot
<1> QED
  BY <1>1, <1>2, <1>3 DEF TypeOK

LEMMA TypesOfForget ==
    ASSUME NEW row \in Snapshot, NEW s
    PROVE  Forget(row, s) \in Snapshot
BY DEF Forget, Snapshot

LEMMA TypesOfDequeue ==
    ASSUME TypeOK, NEW d \in Drains, NEW row \in Snapshot, Dequeue(d, row)
    PROVE  /\ queue' \in [Submissions -> Row]
           /\ sender' \in [Senders -> Sender]
           /\ batch' \in [Drains -> SUBSET Snapshot]
<1>1. Idle \in Sender /\ NoRow \in Row
  BY DEF Idle, Sender, NoSnapshot, Snapshot, Answers, NoRow, Row
<1>2. CASE row.alive
  <2>1. queue' \in [Submissions -> Row]
    BY <1>1, <1>2 DEF Dequeue, TypeOK
  <2>2. ASSUME NEW p \in Senders
        PROVE  [sender[p] EXCEPT !.row = Forget(@, row.sub)] \in Sender
    <3>1. sender[p] \in Sender /\ sender[p].row \in Snapshot
      BY DEF TypeOK, Sender
    <3> QED
      BY <3>1, TypesOfForget DEF Sender
  <2>3. sender' \in [Senders -> Sender]
    BY <1>1, <1>2, <2>2 DEF Dequeue
  <2>4. ASSUME NEW e \in Drains, NEW w \in batch[e]
        PROVE  Forget(w, row.sub) \in Snapshot
    <3>1. w \in Snapshot
      BY DEF TypeOK
    <3> QED
      BY <3>1, TypesOfForget
  <2>5. batch' \in [Drains -> SUBSET Snapshot]
    BY <1>2, <2>4 DEF Dequeue
  <2> QED
    BY <2>1, <2>3, <2>5
<1>3. CASE ~row.alive
  <2>1. queue' \in [Submissions -> Row] /\ sender' \in [Senders -> Sender]
    BY <1>1, <1>3 DEF Dequeue, TypeOK
  <2>2. batch' \in [Drains -> SUBSET Snapshot]
    BY <1>3 DEF Dequeue, TypeOK
  <2> QED
    BY <2>1, <2>2
<1> QED
  BY <1>2, <1>3

LEMMA TypesOfAnswer ==
    ASSUME NEW x \in Sender, NEW answer \in Final \cup {"failure"}
    PROVE  [x EXCEPT !.step = "answered", !.answer = answer] \in Sender
BY DEF Sender, Answers

LEMMA TypesOfReply ==
    ASSUME TypeOK, NEW r \in Requests, NEW answer \in Final \cup {"failure"}, Reply(r, answer)
    PROVE  sender' \in [Senders -> Sender] /\ request' \in [Requests -> Request]
<1>1. NoRequest \in Request
  BY DEF NoRequest, Request, Verdicts
<1>2. ASSUME NEW p \in Senders
      PROVE  [sender[p] EXCEPT !.step = "answered", !.answer = answer] \in Sender
  BY TypesOfAnswer DEF TypeOK
<1>3. sender \in [Senders -> Sender]
  BY DEF TypeOK
<1>4. sender' \in [Senders -> Sender]
  BY <1>2, <1>3 DEF Reply
<1> QED
  BY <1>1, <1>4 DEF Reply, TypeOK

LEMMA TypesOfAbandon ==
    ASSUME TypeOK, NEW p, Abandon(p)
    PROVE  request' \in [Requests -> Request]
<1>1. ASSUME NEW r \in Requests PROVE [request[r] EXCEPT !.caller = Nobody] \in Request
  BY DEF TypeOK, Request
<1> QED
  BY <1>1 DEF Abandon, TypeOK
-----------------------------------------------------------------------------
(* Types. *)

\* No step of a form, of the clock or of an administrator breaks a type.
LEMMA FormTypes ==
    ASSUME TypeOK, NEW s \in Submissions,
           FormStep(s) \/ BecomeDue(s) \/ KillForm(s)
    PROVE  TypeOK'
<1>1. CASE Dispatch(s)
  <2>1. [NoSnapshot EXCEPT !.sub = s] \in Snapshot /\ s \in Senders
    BY DEF NoSnapshot, Snapshot, Senders
  <2>2. sender' \in [Senders -> Sender] /\ request' \in [Requests -> Request]
    BY <1>1, <2>1, TypesOfSend DEF Dispatch
  <2> QED
    BY <1>1, <2>2 DEF Dispatch, TypeOK, pluginHistory, portalHistory
<1>2. CASE DispatchIgnored(s) \/ Finish(s)
  <2>1. sender' = [sender EXCEPT ![s].step = "done"]
    BY <1>2 DEF DispatchIgnored, Finish
  <2>2. sender' \in [Senders -> Sender]
    <3>1. sender \in [Senders -> Sender] /\ [sender[s] EXCEPT !.step = "done"] \in Sender
      BY DEF TypeOK, Sender, Senders
    <3>2. sender' = [sender EXCEPT ![s] = [sender[s] EXCEPT !.step = "done"]]
      BY <2>1, <3>1
    <3> QED
      BY <3>1, <3>2
  <2>3. fate' \in [Submissions -> {"open", "answered", "ignored", "killed"}]
    BY <1>2 DEF DispatchIgnored, Finish, TypeOK
  <2> QED
    BY <1>2, <2>2, <2>3 DEF DispatchIgnored, Finish, TypeOK, portal, portalHistory
<1>3. CASE BecomeDue(s)
  <2>1. queue' \in [Submissions -> Row]
    <3>0. queue \in [Submissions -> Row]
      BY DEF TypeOK
    <3>1. [queue[s] EXCEPT !.due = TRUE] \in Row
      BY <3>0 DEF Row
    <3>2. queue' = [queue EXCEPT ![s] = [queue[s] EXCEPT !.due = TRUE]]
      BY <1>3, Zenon DEF BecomeDue
    <3> QED
      BY <3>0, <3>1, <3>2
  <2> QED
    BY <1>3, <2>1 DEF BecomeDue, TypeOK, portal, pluginHistory, portalHistory
<1>4. CASE KillForm(s)
  <2>1. request' \in [Requests -> Request]
    BY <1>4, TypesOfAbandon DEF KillForm
  <2>2. sender' \in [Senders -> Sender]
    BY <1>4 DEF KillForm, TypeOK, Sender, Senders
  <2> QED
    BY <1>4, <2>1, <2>2 DEF KillForm, Trouble, TypeOK, siteRest, portalHistory
<1> QED
  BY <1>1, <1>2, <1>3, <1>4 DEF FormStep

LEMMA SenderTypes ==
    ASSUME TypeOK, NEW p \in Senders, Enqueue(p) \/ GiveUpWaiting(p)
    PROVE  TypeOK'
<1>1. CASE Enqueue(p)
  <2>0. \A s \in Submissions : Enqueued(queue[s]) \in Row
    BY DEF Enqueued, TypeOK, Row
  <2>1. queue' \in [Submissions -> Row] /\ fails' \in [Submissions -> Nat]
    <3>1. queue \in [Submissions -> Row] /\ fails \in [Submissions -> Nat]
      BY DEF TypeOK
    <3> DEFINE s == sender[p].row.sub
    <3>2. /\ queue' = [queue EXCEPT ![s] = Enqueued(queue[s])]
          /\ fails' = [fails EXCEPT ![s] = Logged(fails[s])]
      BY <1>1 DEF Enqueue
    <3> HIDE DEF s
    <3>3. CASE s \in Submissions
      <4>1. Logged(fails[s]) \in Nat
        BY <3>1, <3>3 DEF Logged
      <4> QED
        BY <2>0, <3>1, <3>2, <3>3, <4>1
    <3>4. CASE s \notin Submissions
      BY <3>1, <3>2, <3>4
    <3> QED
      BY <3>3, <3>4
  <2>2. sender' \in [Senders -> Sender]
    BY <1>1 DEF Enqueue, TypeOK, Sender
  <2> QED
    BY <1>1, <2>1, <2>2 DEF Enqueue, TypeOK, portal, portalHistory
<1>2. CASE GiveUpWaiting(p)
  <2>1. request' \in [Requests -> Request]
    BY <1>2, TypesOfAbandon DEF GiveUpWaiting
  <2>2. sender' \in [Senders -> Sender]
    <3>1. sender' = [sender EXCEPT ![p] = [sender[p] EXCEPT !.step = "answered", !.answer = "failure"]]
      BY <1>2 DEF GiveUpWaiting, TypeOK
    <3> QED
      BY <3>1, TypesOfAnswer DEF TypeOK
  <2>3. troubles' \in Nat
    BY <1>2 DEF GiveUpWaiting, TypeOK
  <2> QED
    BY <1>2, <2>1, <2>2, <2>3 DEF GiveUpWaiting, TypeOK, siteRest, pluginHistory, portalHistory
<1> QED
  BY <1>1, <1>2

LEMMA DrainTypes ==
    ASSUME TypeOK, NEW d \in Drains, DrainStep(d) \/ KillDrain(d)
    PROVE  TypeOK'
<1>0. d \in Senders /\ sender[d] \in Sender /\ sender[d].row \in Snapshot /\ Idle \in Sender
  BY DEF TypeOK, Sender, Senders, Idle, NoSnapshot, Snapshot, Answers
<1>1. CASE DrainQueue(d)
  <2>1. ASSUME NEW s \in Submissions
        PROVE  [sub |-> s, attempts |-> queue[s].attempts, alive |-> TRUE] \in Snapshot
    BY DEF Snapshot, TypeOK, Row
  <2>2. batch' \in [Drains -> SUBSET Snapshot]
    BY <1>1, <2>1 DEF DrainQueue, TypeOK
  <2> QED
    BY <1>1, <2>2 DEF DrainQueue, TypeOK, portal, pluginHistory, portalHistory
<1>2. CASE SendNext(d)
  <2>1. PICK row \in batch[d] : Send(d, row) /\ batch' = [batch EXCEPT ![d] = @ \ {row}]
    BY <1>2 DEF SendNext
  <2>2. row \in Snapshot
    BY <2>1 DEF TypeOK
  <2>3. sender' \in [Senders -> Sender] /\ request' \in [Requests -> Request]
    BY <1>0, <2>1, <2>2, TypesOfSend
  <2>4. batch' \in [Drains -> SUBSET Snapshot]
    BY <2>1 DEF TypeOK
  <2> QED
    BY <1>2, <2>3, <2>4 DEF SendNext, TypeOK, pluginHistory, portalHistory
<1>3. CASE DropNext(d)
  <2>1. PICK row \in batch[d] : Dequeue(d, row)
    BY <1>3 DEF DropNext
  <2>2. row \in Snapshot
    BY <2>1 DEF TypeOK
  <2>3. /\ queue' \in [Submissions -> Row]
        /\ sender' \in [Senders -> Sender]
        /\ batch' \in [Drains -> SUBSET Snapshot]
    BY <2>1, <2>2, TypesOfDequeue
  <2> QED
    BY <1>3, <2>3 DEF DropNext, TypeOK, portal, pluginHistory, portalHistory
<1>4. CASE Conclude(d) \/ GiveUp(d)
  <2>1. /\ queue' \in [Submissions -> Row]
        /\ sender' \in [Senders -> Sender]
        /\ batch' \in [Drains -> SUBSET Snapshot]
    BY <1>0, <1>4, TypesOfDequeue DEF Conclude, GiveUp
  <2> QED
    BY <1>4, <2>1 DEF Conclude, GiveUp, TypeOK, portal, pluginHistory, portalHistory
<1>5. CASE Reschedule(d)
  <2>1. sender' \in [Senders -> Sender]
    BY <1>0, <1>5 DEF Reschedule, TypeOK
  <2>2. [attempts |-> sender[d].row.attempts + 1, due |-> FALSE] \in Row
    BY <1>0 DEF Snapshot, Row
  <2>3. queue' \in [Submissions -> Row]
    BY <1>5, <2>2 DEF Reschedule, TypeOK
  <2> QED
    BY <1>5, <2>1, <2>3 DEF Reschedule, TypeOK, portal, pluginHistory, portalHistory
<1>6. CASE KillDrain(d)
  <2>1. request' \in [Requests -> Request]
    BY <1>6, TypesOfAbandon DEF KillDrain
  <2>2. sender' \in [Senders -> Sender] /\ batch' \in [Drains -> SUBSET Snapshot]
    BY <1>0, <1>6 DEF KillDrain, TypeOK
  <2> QED
    BY <1>6, <2>1, <2>2 DEF KillDrain, Trouble, TypeOK, pluginHistory, portalHistory
<1> QED
  BY <1>1, <1>2, <1>3, <1>4, <1>5, <1>6 DEF DrainStep

LEMMA RequestTypes ==
    ASSUME TypeOK, NEW r \in Requests, RequestStep(r) \/ FailRequest(r),
           request[r].step # "none" => request[r].sub \in Submissions
    PROVE  TypeOK'
<1>0. request[r] \in Request
  BY DEF TypeOK
<1>1. ASSUME NEW step \in {"duplicate", "suppressed", "persist", "answer"}, GoOn(r, step)
      PROVE  request' \in [Requests -> Request]
  BY <1>1 DEF GoOn, TypeOK, Request
<1>2. ASSUME NEW verdict \in Verdicts, Decide(r, verdict)
      PROVE  request' \in [Requests -> Request]
  <2>1. [request[r] EXCEPT !.step = "persist", !.verdict = verdict] \in Request
    BY <1>0 DEF Request
  <2>2. request' = [request EXCEPT ![r] = [request[r] EXCEPT !.step = "persist", !.verdict = verdict]]
    BY <1>2 DEF Decide, TypeOK
  <2> QED
    BY <2>1, <2>2 DEF TypeOK
<1>3. CASE Ingest(r)
  <2> DEFINE verdict == IF mapped THEN "VALID" ELSE "INVALID_FORMAT"
  <2>1. verdict \in Verdicts /\ Stored \subseteq Submissions
    BY DEF Verdicts, Stored
  <2>2. [request[r] EXCEPT !.step = "lookup", !.before = Stored, !.verdict = verdict] \in Request
    BY <1>0, <2>1 DEF Request
  <2>3. request' = [request EXCEPT ![r] =
           [request[r] EXCEPT !.step = "lookup", !.before = Stored, !.verdict = verdict]]
    BY <1>3 DEF Ingest, TypeOK
  <2>4. request' \in [Requests -> Request]
    BY <2>2, <2>3 DEF TypeOK
  <2> QED
    BY <1>3, <2>4 DEF Ingest, TypeOK, site, pluginHistory, portalHistory
<1>4. CASE Normalise(r) \/ CheckDuplicate(r) \/ CheckSuppressed(r)
  <2>1. request' \in [Requests -> Request]
    BY <1>1, <1>2, <1>4 DEF Normalise, CheckDuplicate, CheckSuppressed, Verdicts
  <2> QED
    BY <1>4, <2>1 DEF Normalise, CheckDuplicate, CheckSuppressed, TypeOK, site, pluginHistory,
                      portalHistory
<1>5. CASE RefuseSignature(r) \/ AnswerAgain(r) \/ Answer(r) \/ FailRequest(r)
  <2>1. \E answer \in Final \cup {"failure"} : Reply(r, answer)
    BY <1>5 DEF RefuseSignature, AnswerAgain, Answer, FailRequest, Final
  <2>2. sender' \in [Senders -> Sender] /\ request' \in [Requests -> Request]
    BY <2>1, TypesOfReply
  <2>4. told' \subseteq Submissions /\ announced' \subseteq Submissions
    BY <1>5 DEF RefuseSignature, AnswerAgain, Answer, FailRequest, TypeOK, Stored,
                 portalHistory
  <2>5. troubles' \in Nat
    BY <1>5 DEF RefuseSignature, AnswerAgain, Answer, FailRequest, TypeOK
  <2> QED
    BY <1>5, <2>2, <2>4, <2>5 DEF RefuseSignature, AnswerAgain, Answer, FailRequest, TypeOK, siteRest,
                 pluginHistory, portalHistory
<1>6. CASE Persist(r)
  <2>1. request' \in [Requests -> Request]
    BY <1>1, <1>6 DEF Persist
  <2>2. lead' \in [Submissions -> Verdicts \cup {NotStored}]
    BY <1>0, <1>6 DEF Persist, Persisted, Stored, TypeOK, Request
  <2>3. knew' \in [Submissions -> SUBSET Submissions]
    BY <1>0, <1>6 DEF Persist, TypeOK, Request
  <2> QED
    BY <1>6, <2>1, <2>2, <2>3 DEF Persist, TypeOK, site, pluginHistory
<1> QED
  BY <1>3, <1>4, <1>5, <1>6 DEF RequestStep
-----------------------------------------------------------------------------
(* The queue. *)

LEMMA OtherRow ==
    ASSUME NEW x \in Sender, NEW y
    PROVE  [x EXCEPT !.row = y].step = x.step /\ [x EXCEPT !.row = y].row = y
BY DEF Sender

LEMMA DequeueEffect ==
    ASSUME TypeOK, NEW d \in Drains, NEW row \in Snapshot, row.sub \in Submissions, Dequeue(d, row)
    PROVE  /\ sender'[d] = Idle
           /\ \A p \in Senders \ {d} :
                 /\ sender'[p].step = sender[p].step
                 /\ sender'[p].row.sub = sender[p].row.sub
                 /\ sender'[p].row.attempts = sender[p].row.attempts
                 /\ sender[p] = Idle => sender'[p] = Idle
           /\ \A e \in Drains : \A w \in batch'[e] :
                 \E v \in batch[e] : w.sub = v.sub /\ w.attempts = v.attempts
           /\ \A s \in Submissions \ {row.sub} : queue'[s] = queue[s]
           /\ \A s \in Submissions : queue'[s] = queue[s] \/ queue'[s] = NoRow
<1>0. /\ sender \in [Senders -> Sender] /\ batch \in [Drains -> SUBSET Snapshot] /\ d \in Senders
      /\ queue \in [Submissions -> Row]
  BY DEF TypeOK, Senders
<1>1. ASSUME NEW w \in Snapshot, NEW s
      PROVE  Forget(w, s).sub = w.sub /\ Forget(w, s).attempts = w.attempts
  BY DEF Forget, Snapshot
<1>2. CASE row.alive
  <2>1. /\ queue' = [queue EXCEPT ![row.sub] = NoRow]
        /\ sender' = [p \in Senders |->
              IF p = d THEN Idle ELSE [sender[p] EXCEPT !.row = Forget(@, row.sub)]]
        /\ batch' = [e \in Drains |->
              {Forget(w, row.sub) : w \in IF e = d THEN batch[e] \ {row} ELSE batch[e]}]
    BY <1>2 DEF Dequeue
  <2>2. ASSUME NEW p \in Senders \ {d}
        PROVE  /\ sender'[p].step = sender[p].step
               /\ sender'[p].row.sub = sender[p].row.sub
               /\ sender'[p].row.attempts = sender[p].row.attempts
               /\ sender[p] = Idle => sender'[p] = Idle
    <3>1. sender[p] \in Sender /\ sender[p].row \in Snapshot
      BY <1>0 DEF Sender
    <3>2. sender'[p] = [sender[p] EXCEPT !.row = Forget(sender[p].row, row.sub)]
      BY <2>1, <2>2
    <3>3. /\ sender'[p].step = sender[p].step
          /\ sender'[p].row = Forget(sender[p].row, row.sub)
      BY <3>1, <3>2, OtherRow
    <3>4. sender[p] = Idle => Forget(sender[p].row, row.sub) = sender[p].row
      BY DEF Forget, Idle, NoSnapshot
    <3>5. sender[p] = Idle => sender'[p] = Idle
      BY <3>2, <3>4 DEF Idle
    <3> QED
      BY <1>1, <3>1, <3>3, <3>5
  <2>3. ASSUME NEW e \in Drains, NEW w \in batch'[e]
        PROVE  \E v \in batch[e] : w.sub = v.sub /\ w.attempts = v.attempts
    <3>1. PICK v \in batch[e] : w = Forget(v, row.sub)
      BY <2>1
    <3>2. v \in Snapshot
      BY <1>0
    <3> QED
      BY <1>1, <3>1, <3>2
  <2>4. sender'[d] = Idle
    BY <1>0, <2>1
  <2>5. /\ \A s \in Submissions \ {row.sub} : queue'[s] = queue[s]
        /\ \A s \in Submissions : queue'[s] = queue[s] \/ queue'[s] = NoRow
    BY <1>0, <2>1
  <2> QED
    BY <2>2, <2>3, <2>4, <2>5
<1>3. CASE ~row.alive
  <2>1. /\ sender' = [sender EXCEPT ![d] = Idle]
        /\ batch' = [batch EXCEPT ![d] = @ \ {row}]
        /\ queue' = queue
    BY <1>3 DEF Dequeue
  <2> QED
    BY <1>0, <2>1
<1> QED
  BY <1>2, <1>3

\* Steps that give a waiting sender its answer, or change nothing of the plugin.
LEMMA AnswersKeepPlugin ==
    ASSUME TypeOK, PluginInv, UNCHANGED <<queue, batch, fails, fate, endpoint>>,
           \A p \in Senders :
              \/ sender'[p] = sender[p]
              \/ /\ sender[p].step = "waiting"
                 /\ sender'[p].step = "answered" /\ sender'[p].row = sender[p].row
    PROVE  PluginInv'
<1>1. ASSUME NEW s \in Submissions PROVE FormIsSound(s)'
  <2>1. FormIsSound(s) /\ s \in Senders
    BY DEF PluginInv, Senders
  <2> QED
    BY <2>1 DEF FormIsSound
<1>2. ASSUME NEW d \in Drains PROVE DrainIsSound(d)'
  <2>1. DrainIsSound(d) /\ d \in Senders
    BY DEF PluginInv, Senders
  <2> QED
    BY <2>1 DEF DrainIsSound, Counted, AtMost
<1> QED
  BY <1>1, <1>2 DEF PluginInv, Safe, AtMost

LEMMA FormsKeepPlugin ==
    ASSUME TypeOK, PluginInv, NEW s \in Submissions,
           FormStep(s) \/ BecomeDue(s) \/ KillForm(s)
    PROVE  PluginInv'
<1>0. /\ s \in Senders /\ s \notin Drains /\ sender \in [Senders -> Sender]
      /\ fate \in [Submissions -> {"open", "answered", "ignored", "killed"}]
      /\ fails \in [Submissions -> Nat] /\ queue \in [Submissions -> Row]
  BY DEF TypeOK, Senders
<1>1. CASE Dispatch(s) \/ DispatchIgnored(s) \/ Finish(s) \/ KillForm(s)
  <2>1. UNCHANGED <<queue, batch, fails, endpoint>>
    BY <1>1 DEF Dispatch, DispatchIgnored, Finish, KillForm, siteRest, pluginHistory
  <2>2. /\ \A p \in Senders \ {s} : sender'[p] = sender[p]
        /\ \A u \in Submissions \ {s} : fate'[u] = fate[u]
        /\ fate'[s] = fate[s] \/ fate'[s] # "open"
    BY <1>0, <1>1 DEF Dispatch, DispatchIgnored, Finish, KillForm, Send, pluginHistory
  <2>3. FormIsSound(s)'
    <3>1. CASE Dispatch(s)
      <4>1. sender'[s] = [step |-> "waiting", row |-> [NoSnapshot EXCEPT !.sub = s], answer |-> "none"]
        BY <1>0, <3>1 DEF Dispatch, Send
      <4> QED
        BY <4>1 DEF FormIsSound, NoSnapshot
    <3>2. CASE DispatchIgnored(s) \/ Finish(s) \/ KillForm(s)
      <4>1. fate'[s] # "open"
        BY <1>0, <3>2 DEF DispatchIgnored, Finish, KillForm
      <4>2. sender'[s] = [sender[s] EXCEPT !.step = "done"]
        BY <1>0, <3>2 DEF DispatchIgnored, Finish, KillForm
      <4>3. sender'[s].step = "done"
        BY <1>0, <4>2 DEF Sender
      <4> QED
        BY <4>1, <4>3 DEF FormIsSound
    <3> QED
      BY <1>1, <3>1, <3>2
  <2>4. ASSUME NEW u \in Submissions PROVE FormIsSound(u)'
    <3>1. u \in Senders /\ FormIsSound(u)
      BY DEF Senders, PluginInv
    <3> QED
      BY <2>1, <2>2, <2>3, <3>1 DEF FormIsSound
  <2>5. ASSUME NEW d \in Drains PROVE DrainIsSound(d)'
    <3>1. d \in Senders \ {s} /\ DrainIsSound(d)
      BY <1>0 DEF Senders, PluginInv
    <3> QED
      BY <2>1, <2>2, <3>1 DEF DrainIsSound, Counted, AtMost
  <2> QED
    BY <2>1, <2>2, <2>4, <2>5 DEF PluginInv, Safe, AtMost
<1>2. CASE BecomeDue(s)
  <2>1. UNCHANGED <<sender, batch, fails, fate, endpoint>>
    BY <1>2 DEF BecomeDue, pluginHistory
  <2>2. \A u \in Submissions : queue'[u].attempts = queue[u].attempts /\ (queue[u] # NoRow => queue'[u] # NoRow)
    <3>1. queue' = [queue EXCEPT ![s] = [queue[s] EXCEPT !.due = TRUE]]
      BY <1>2, Zenon DEF BecomeDue
    <3>2. \A u \in Submissions \ {s} : queue'[u] = queue[u]
      BY <1>0, <3>1
    <3>3. queue'[s] = [queue[s] EXCEPT !.due = TRUE]
      BY <1>0, <3>1
    <3>4. queue'[s].attempts = queue[s].attempts /\ queue'[s].due
      BY <1>0, <3>3 DEF Row
    <3> QED
      BY <3>2, <3>4 DEF NoRow
  <2>3. \A u \in Submissions : FormIsSound(u)'
    BY <2>1 DEF PluginInv, FormIsSound
  <2>4. \A d \in Drains : DrainIsSound(d)'
    BY <2>1 DEF PluginInv, DrainIsSound, Counted, AtMost
  <2> QED
    BY <2>1, <2>2, <2>3, <2>4 DEF PluginInv, Safe, AtMost
<1> QED
  BY <1>1, <1>2 DEF FormStep

LEMMA EnqueueKeepsPlugin ==
    ASSUME TypeOK, PluginInv, NEW p \in Senders, Enqueue(p)
    PROVE  PluginInv'
<1> DEFINE s == sender[p].row.sub
<1>0. /\ sender \in [Senders -> Sender] /\ Submissions \subseteq Senders /\ Drains \subseteq Senders
      /\ fails \in [Submissions -> Nat] /\ queue \in [Submissions -> Row]
  BY DEF TypeOK, Senders
<1>1. s \in Submissions /\ (p \in Submissions => s = p)
  <2>1. CASE p \in Submissions
    BY <2>1 DEF Enqueue, PluginInv, FormIsSound
  <2>2. CASE p \in Drains
    BY <2>2 DEF Enqueue, PluginInv, DrainIsSound, Counted
  <2> QED
    BY <2>1, <2>2 DEF Senders
<1>2. /\ UNCHANGED <<batch, fate, endpoint>>
      /\ queue' = [queue EXCEPT ![s] = Enqueued(queue[s])]
      /\ fails' = [fails EXCEPT ![s] = Logged(fails[s])]
      /\ sender' = [sender EXCEPT ![p].step = IF p \in Drains THEN "retrying" ELSE "done"]
  BY DEF Enqueue
<1> HIDE DEF s
<1>3. /\ fails'[s] = Logged(fails[s]) /\ fails[s] \in Nat
      /\ fails'[s] = fails[s] + 1 \/ (fails'[s] = fails[s] /\ fails[s] > MaxRetries)
      /\ \A u \in Submissions \ {s} : fails'[u] = fails[u] /\ queue'[u] = queue[u]
      /\ \A u \in Submissions : fails'[u] >= fails[u]
      /\ queue'[s] = Enqueued(queue[s])
  BY <1>0, <1>1, <1>2 DEF Logged
<1>4. \A u \in Submissions, n \in Nat : AtMost(n, u) => AtMost(n, u)'
  BY <1>0, <1>1, <1>3 DEF AtMost
<1>5. \A n \in Nat : AtMost(n, s) => (n + 1 <= fails'[s] \/ fails'[s] >= MaxRetries)
  BY <1>1, <1>3 DEF AtMost
<1>6. queue'[s].attempts = queue[s].attempts + 1 /\ queue'[s] # NoRow /\ queue[s].attempts \in Nat
  BY <1>0, <1>1, <1>3 DEF Enqueued, NoRow, Row
<1>7. /\ \A o \in Senders \ {p} : sender'[o] = sender[o]
      /\ sender'[p].row = sender[p].row
      /\ sender'[p].step = IF p \in Drains THEN "retrying" ELSE "done"
  BY <1>0, <1>2 DEF Sender
<1>8. ASSUME NEW u \in Submissions PROVE FormIsSound(u)'
  <2>1. FormIsSound(u) /\ u \in Senders /\ fails[u] \in Nat /\ fails'[u] \in Nat
    BY <1>0, <1>1, <1>3 DEF PluginInv
  <2>2. CASE u = p
    <3>1. fails'[u] > 0 /\ p \notin Drains
      BY <1>1, <1>3, <2>2
    <3> QED
      BY <1>7, <2>2, <3>1 DEF FormIsSound
  <2>3. CASE u # p
    BY <1>2, <1>3, <1>7, <2>1, <2>3 DEF FormIsSound
  <2> QED
    BY <2>2, <2>3
<1>9. ASSUME NEW row, row.attempts \in Nat, Counted(row) PROVE Counted(row)'
  BY <1>4, <1>9 DEF Counted
<1>10. ASSUME NEW d \in Drains PROVE DrainIsSound(d)'
  <2>1. DrainIsSound(d) /\ d \in Senders /\ sender[d] \in Sender /\ sender[d].row.attempts \in Nat
    BY <1>0 DEF PluginInv, Sender, Snapshot
  <2>2. ASSUME NEW row \in batch[d] PROVE Counted(row)'
    <3>1. Counted(row) /\ row.attempts \in Nat
      BY <2>1 DEF DrainIsSound, TypeOK, Snapshot
    <3> QED
      BY <1>9, <3>1
  <2>3. ASSUME NEW row, row = sender[d].row, sender[d].step # "idle" PROVE Counted(row)'
    BY <1>9, <2>1, <2>3 DEF DrainIsSound
  <2>4. CASE d = p
    <3>1. sender[d].step = "answered"
      BY <2>4 DEF Enqueue
    <3>2. AtMost(sender[d].row.attempts, s)
      BY <2>1, <2>4, <3>1 DEF DrainIsSound, Counted, s
    <3>3. sender'[d].row = sender[d].row
      BY <1>7, <2>4
    <3>4. AtMost(sender[d].row.attempts + 1, sender[d].row.sub)'
      <4>1. PICK n \in Nat : n = sender[d].row.attempts
        BY <2>1
      <4>2. n + 1 <= fails'[s] \/ fails'[s] >= MaxRetries
        BY <1>5, <3>2, <4>1
      <4> QED
        BY <2>4, <3>3, <4>1, <4>2 DEF AtMost, s
    <3> QED
      BY <1>2, <1>7, <2>2, <2>3, <2>4, <3>1, <3>3, <3>4 DEF DrainIsSound, Counted, AtMost
  <2>5. CASE d # p
    <3>1. sender'[d] = sender[d]
      BY <1>7, <2>1, <2>5
    <3>2. sender'[d].step = "retrying" => AtMost(sender[d].row.attempts + 1, sender[d].row.sub)'
      BY <1>0, <1>3, <2>1, <3>1 DEF DrainIsSound, Counted, AtMost
    <3> QED
      BY <1>2, <2>1, <2>2, <2>3, <3>1, <3>2 DEF DrainIsSound, Counted, AtMost
  <2> QED
    BY <2>4, <2>5
<1>11. ASSUME NEW u \in Submissions PROVE AtMost(queue[u].attempts, u)'
  <2>1. AtMost(queue[u].attempts, u) /\ queue[u].attempts \in Nat
    BY <1>0 DEF PluginInv, Row
  <2> QED
    BY <1>0, <1>1, <1>3, <1>6, <2>1 DEF AtMost
<1>12. ASSUME NEW u \in Submissions, fails'[u] > 0 PROVE Safe(u)'
  BY <1>1, <1>2, <1>3, <1>6, <1>12 DEF PluginInv, Safe, AtMost
<1> QED
  BY <1>8, <1>10, <1>11, <1>12 DEF PluginInv

\* A drain has dealt with the row it had read of a submission.
LEMMA RowKeepsPlugin ==
    ASSUME TypeOK, PluginInv, NEW d \in Drains, NEW row \in Snapshot, Counted(row), Dequeue(d, row),
           UNCHANGED <<endpoint, fails>>,
           \/ endpoint = "deleted" /\ UNCHANGED fate
           \/ fate' = [fate EXCEPT ![row.sub] = "answered"]
           \/ fails[row.sub] >= MaxRetries /\ UNCHANGED fate
    PROVE  PluginInv'
<1>0. /\ fate \in [Submissions -> {"open", "answered", "ignored", "killed"}]
      /\ Submissions \subseteq Senders \ {d} /\ Drains \subseteq Senders /\ row.sub \in Submissions
      /\ fails \in [Submissions -> Nat]
  BY DEF TypeOK, Senders, Counted
<1>1. ASSUME NEW u \in Submissions PROVE FormIsSound(u)'
  <2>1. FormIsSound(u) /\ u \in Senders \ {d}
    BY <1>0 DEF PluginInv
  <2>2. fate'[u] = fate[u] \/ fate'[u] = "answered"
    BY <1>0
  <2> QED
    BY <1>0, <2>1, <2>2, DequeueEffect DEF FormIsSound
<1>2. ASSUME NEW e \in Drains PROVE DrainIsSound(e)'
  <2>1. DrainIsSound(e) /\ e \in Senders
    BY <1>0 DEF PluginInv
  <2>2. ASSUME NEW w \in batch'[e] PROVE Counted(w)'
    BY <1>0, <2>1, DequeueEffect DEF DrainIsSound, Counted, AtMost
  <2>3. CASE e = d
    <3>1. sender'[e] = Idle
      BY <1>0, <2>3, DequeueEffect
    <3> QED
      BY <2>2, <3>1 DEF DrainIsSound, Idle
  <2>4. CASE e # d
    <3>1. /\ sender'[e].step = sender[e].step
          /\ sender'[e].row.sub = sender[e].row.sub
          /\ sender'[e].row.attempts = sender[e].row.attempts
          /\ sender[e] = Idle => sender'[e] = Idle
      BY <1>0, <2>1, <2>4, DequeueEffect
    <3> QED
      BY <2>1, <2>2, <3>1 DEF DrainIsSound, Counted, AtMost
  <2> QED
    BY <2>3, <2>4
<1>3. ASSUME NEW u \in Submissions PROVE AtMost(queue[u].attempts, u)'
  <2>1. AtMost(NoRow.attempts, u) /\ AtMost(queue[u].attempts, u)
    BY <1>0 DEF NoRow, PluginInv, AtMost
  <2> QED
    BY <1>0, <2>1, DequeueEffect DEF AtMost
<1>4. ASSUME NEW u \in Submissions, fails'[u] > 0 PROVE Safe(u)'
  <2>1. Safe(u)
    BY <1>4 DEF PluginInv
  <2>2. CASE u # row.sub
    <3>1. queue'[u] = queue[u] /\ fate'[u] = fate[u]
      BY <1>0, <2>2, DequeueEffect
    <3> QED
      BY <2>1, <3>1 DEF Safe
  <2>3. CASE u = row.sub
    BY <1>0, <2>3 DEF Safe
  <2> QED
    BY <2>2, <2>3
<1> QED
  BY <1>1, <1>2, <1>3, <1>4 DEF PluginInv

LEMMA DrainsKeepPlugin ==
    ASSUME TypeOK, PluginInv, NEW d \in Drains, DrainStep(d) \/ KillDrain(d)
    PROVE  PluginInv'
<1>0. /\ sender \in [Senders -> Sender] /\ Submissions \subseteq Senders \ {d} /\ Drains \subseteq Senders
      /\ sender[d].row \in Snapshot /\ DrainIsSound(d) /\ batch \in [Drains -> SUBSET Snapshot]
      /\ fails \in [Submissions -> Nat] /\ queue \in [Submissions -> Row]
  BY DEF TypeOK, Sender, Senders, PluginInv
<1>1. CASE DropNext(d)
  <2>1. PICK row \in batch[d] : Dequeue(d, row)
    BY <1>1 DEF DropNext
  <2>2. row \in Snapshot /\ Counted(row)
    BY <1>0, <2>1 DEF DrainIsSound
  <2> QED
    BY <1>1, <2>1, <2>2, RowKeepsPlugin DEF DropNext, pluginHistory
<1>2. CASE Conclude(d)
  <2>1. Counted(sender[d].row) /\ Dequeue(d, sender[d].row)
    BY <1>0, <1>2 DEF Conclude, DrainIsSound
  <2> QED
    BY <1>0, <1>2, <2>1, RowKeepsPlugin DEF Conclude
<1>3. CASE GiveUp(d)
  <2>1. Counted(sender[d].row) /\ Dequeue(d, sender[d].row)
    BY <1>0, <1>3 DEF GiveUp, DrainIsSound
  <2>2. fails[sender[d].row.sub] >= MaxRetries
    <3>1. sender[d].row.attempts \in Nat /\ AtMost(sender[d].row.attempts + 1, sender[d].row.sub)
      BY <1>0, <1>3 DEF GiveUp, DrainIsSound, Snapshot
    <3>2. sender[d].row.attempts + 1 >= MaxRetries /\ fails[sender[d].row.sub] \in Nat
      BY <1>0, <1>3, <2>1 DEF GiveUp, IsLast, Counted
    <3> QED
      BY <3>1, <3>2 DEF AtMost
  <2> QED
    BY <1>0, <1>3, <2>1, <2>2, RowKeepsPlugin DEF GiveUp, pluginHistory
<1>4. CASE Reschedule(d)
  <2> DEFINE row == sender[d].row
             s == row.sub
  <2>1. /\ UNCHANGED <<batch, fails, fate, endpoint>>
        /\ sender' = [sender EXCEPT ![d] = Idle]
        /\ \/ queue' = queue
           \/ queue' = [queue EXCEPT ![s] = [attempts |-> row.attempts + 1, due |-> FALSE]]
    BY <1>4 DEF Reschedule, pluginHistory
  <2>2. s \in Submissions /\ row.attempts \in Nat /\ AtMost(row.attempts + 1, s)
    BY <1>0, <1>4 DEF Reschedule, DrainIsSound, Counted, Snapshot
  <2> HIDE DEF s, row
  <2>3. \A u \in Submissions : FormIsSound(u)'
    BY <1>0, <2>1 DEF PluginInv, FormIsSound
  <2>4. ASSUME NEW e \in Drains PROVE DrainIsSound(e)'
    <3>1. DrainIsSound(e) /\ e \in Senders
      BY <1>0 DEF PluginInv
    <3>2. sender'[e] = IF e = d THEN Idle ELSE sender[e]
      BY <1>0, <2>1, <3>1
    <3> QED
      BY <2>1, <3>1, <3>2 DEF DrainIsSound, Counted, AtMost, Idle
  <2>5. ASSUME NEW u \in Submissions
        PROVE  AtMost(queue[u].attempts, u)' /\ (queue'[u] = queue[u] \/ queue'[u] # NoRow)
    <3>1. AtMost(queue[u].attempts, u)
      BY DEF PluginInv
    <3>2. CASE queue'[u] = queue[u]
      BY <2>1, <3>1, <3>2 DEF AtMost
    <3>3. CASE u = s /\ queue'[u] = [attempts |-> row.attempts + 1, due |-> FALSE]
      BY <2>1, <2>2, <3>3 DEF NoRow, AtMost
    <3> QED
      BY <1>0, <2>1, <3>2, <3>3
  <2>6. ASSUME NEW u \in Submissions, fails'[u] > 0 PROVE Safe(u)'
    BY <2>1, <2>5, <2>6 DEF PluginInv, Safe, AtMost
  <2> QED
    BY <2>3, <2>4, <2>5, <2>6 DEF PluginInv
<1>5. CASE DrainQueue(d)
  <2>1. UNCHANGED <<queue, sender, fails, fate, endpoint>>
    BY <1>5 DEF DrainQueue, pluginHistory
  <2>2. ASSUME NEW e \in Drains, NEW w \in batch'[e] PROVE Counted(w)'
    <3>1. CASE e = d
      <4>1. PICK s \in Submissions : w = [sub |-> s, attempts |-> queue[s].attempts, alive |-> TRUE]
        BY <1>0, <1>5, <2>2, <3>1 DEF DrainQueue
      <4> QED
        BY <2>1, <4>1 DEF Counted, PluginInv, AtMost
    <3>2. CASE e # d
      BY <1>0, <1>5, <2>1, <2>2, <3>2 DEF DrainQueue, PluginInv, DrainIsSound, Counted, AtMost
    <3> QED
      BY <3>1, <3>2
  <2>3. \A e \in Drains : DrainIsSound(e)'
    BY <2>1, <2>2 DEF PluginInv, DrainIsSound, Counted, AtMost
  <2>4. \A u \in Submissions : FormIsSound(u)'
    BY <2>1 DEF PluginInv, FormIsSound
  <2> QED
    BY <2>1, <2>3, <2>4 DEF PluginInv, Safe, AtMost
<1>6. CASE SendNext(d) \/ KillDrain(d)
  <2>1. UNCHANGED <<queue, fails, fate, endpoint>>
    BY <1>6 DEF SendNext, KillDrain, pluginHistory
  <2>2. /\ \A p \in Senders \ {d} : sender'[p] = sender[p]
        /\ \A e \in Drains : batch'[e] \subseteq batch[e]
        /\ \/ sender'[d] = Idle
           \/ \E row \in batch[d] : sender'[d] = [step |-> "waiting", row |-> row, answer |-> "none"]
    <3>1. CASE SendNext(d)
      <4>1. PICK row \in batch[d] : Send(d, row) /\ batch' = [batch EXCEPT ![d] = @ \ {row}]
        BY <3>1 DEF SendNext
      <4>2. sender' = [sender EXCEPT ![d] = [step |-> "waiting", row |-> row, answer |-> "none"]]
        BY <4>1 DEF Send
      <4> QED
        BY <1>0, <4>1, <4>2
    <3>2. CASE KillDrain(d)
      BY <1>0, <3>2 DEF KillDrain
    <3> QED
      BY <1>6, <3>1, <3>2
  <2>3. \A u \in Submissions : FormIsSound(u)'
    BY <1>0, <2>1, <2>2 DEF PluginInv, FormIsSound
  <2>4. ASSUME NEW e \in Drains PROVE DrainIsSound(e)'
    <3>1. DrainIsSound(e) /\ e \in Senders
      BY <1>0 DEF PluginInv
    <3>2. \A w \in batch'[e] : Counted(w)'
      BY <2>1, <2>2, <3>1 DEF DrainIsSound, Counted, AtMost
    <3>3. CASE e # d
      BY <2>1, <2>2, <3>1, <3>2, <3>3 DEF DrainIsSound, Counted, AtMost
    <3>4. CASE e = d /\ sender'[d] = Idle
      BY <3>2, <3>4 DEF DrainIsSound, Idle
    <3>5. CASE e = d /\ sender'[d] # Idle
      <4>1. PICK row \in batch[d] : sender'[d] = [step |-> "waiting", row |-> row, answer |-> "none"]
        BY <2>2, <3>5
      <4> QED
        BY <2>1, <3>1, <3>2, <3>5, <4>1 DEF DrainIsSound, Counted, AtMost
    <3> QED
      BY <3>3, <3>4, <3>5
  <2> QED
    BY <2>1, <2>3, <2>4 DEF PluginInv, Safe, AtMost
<1> QED
  BY <1>1, <1>2, <1>3, <1>4, <1>5, <1>6 DEF DrainStep

LEMMA OthersKeepPlugin ==
    ASSUME TypeOK, PluginInv, CallersWait,
           \/ \E p \in Senders : GiveUpWaiting(p)
           \/ \E r \in Requests : RequestStep(r) \/ FailRequest(r)
           \/ CrashApi
           \/ Administration
    PROVE  PluginInv'
<1>0. sender \in [Senders -> Sender]
  BY DEF TypeOK
<1>1. CASE \E p \in Senders : GiveUpWaiting(p)
  <2>1. PICK p \in Senders : GiveUpWaiting(p)
    BY <1>1
  <2>2. sender' = [sender EXCEPT ![p].step = "answered", ![p].answer = "failure"]
    BY <2>1 DEF GiveUpWaiting
  <2>3. /\ \A o \in Senders \ {p} : sender'[o] = sender[o]
        /\ sender'[p].step = "answered" /\ sender'[p].row = sender[p].row
    BY <1>0, <2>2 DEF Sender
  <2> QED
    BY <2>1, <2>3, AnswersKeepPlugin DEF GiveUpWaiting, siteRest, pluginHistory
<1>2. ASSUME NEW r \in Requests, RequestStep(r) \/ FailRequest(r) PROVE PluginInv'
  <2>1. UNCHANGED <<queue, batch, fails, fate, endpoint>>
    BY <1>2 DEF RequestStep, FailRequest, Ingest, RefuseSignature, AnswerAgain, Normalise,
                CheckDuplicate, CheckSuppressed, Persist, Answer, site, siteRest, pluginHistory
  <2>2. CASE UNCHANGED sender
    BY <2>1, <2>2, AnswersKeepPlugin
  <2>3. CASE \E answer \in Answers : Reply(r, answer)
    <3>1. PICK answer \in Answers : Reply(r, answer)
      BY <2>3
    <3>2. ASSUME NEW p \in Senders
          PROVE  \/ sender'[p] = sender[p]
                 \/ /\ sender[p].step = "waiting"
                    /\ sender'[p].step = "answered" /\ sender'[p].row = sender[p].row
      <4>1. CASE p # request[r].caller
        BY <3>1, <4>1 DEF Reply
      <4>2. CASE p = request[r].caller
        <5>1. sender[p].step = "waiting"
          BY <4>2 DEF CallersWait, Senders
        <5>2. sender'[p] = [sender[p] EXCEPT !.step = "answered", !.answer = answer]
          BY <3>1, <4>2 DEF Reply
        <5>3. sender'[p].step = "answered" /\ sender'[p].row = sender[p].row
          BY <1>0, <5>2 DEF Sender
        <5> QED
          BY <5>1, <5>3
      <4> QED
        BY <4>1, <4>2
    <3> QED
      BY <2>1, <3>2, AnswersKeepPlugin
  <2> QED
    BY <1>2, <2>2, <2>3 DEF RequestStep, FailRequest, Ingest, RefuseSignature, AnswerAgain,
          Normalise, CheckDuplicate, CheckSuppressed, Persist, Answer, site, Answers, Final
<1>3. CASE CrashApi
  BY <1>3, AnswersKeepPlugin DEF CrashApi, site, pluginHistory
<1>4. CASE Administration
  <2>1. UNCHANGED <<queue, sender, batch, fails, fate>> /\ (endpoint' = endpoint \/ endpoint # "deleted")
    BY <1>4 DEF Administration, SetEndpoint, RotateSecret, UpdateSecret, Remap, Suppress, site,
                pluginHistory
  <2>2. \A u \in Submissions : FormIsSound(u)'
    BY <2>1 DEF PluginInv, FormIsSound
  <2>3. \A e \in Drains : DrainIsSound(e)'
    BY <2>1 DEF PluginInv, DrainIsSound, Counted, AtMost
  <2> QED
    BY <2>1, <2>2, <2>3 DEF PluginInv, Safe, AtMost
<1> QED
  BY <1>1, <1>2, <1>3, <1>4
-----------------------------------------------------------------------------
(* Requests. *)

\* A step after which every sender somebody answers still waits.
LEMMA CallersFrame ==
    ASSUME CallersWait,
           \A r \in Requests : request'[r].caller \in {request[r].caller, Nobody},
           \A r \in Requests : request'[r].caller # Nobody =>
               sender'[request[r].caller].step = sender[request[r].caller].step
    PROVE  CallersWait'
BY DEF CallersWait

\* A new request of a sender that was idle.
LEMMA SendKeepsCallers ==
    ASSUME TypeOK, CallersWait, NEW p \in Senders, NEW row, sender[p] = Idle, Send(p, row)
    PROVE  CallersWait'
<1>0. sender \in [Senders -> Sender] /\ request \in [Requests -> Request]
  BY DEF TypeOK
<1>1. PICK r \in Requests :
         request' = [request EXCEPT ![r] =
            [NoRequest EXCEPT !.step = "ingest", !.sub = row.sub, !.caller = p,
                              !.secret = siteSecret]]
  BY SendTakesSlot
<1>2. request'[r].caller = p /\ \A q \in Requests \ {r} : request'[q] = request[q]
  BY <1>0, <1>1 DEF NoRequest
<1>3. sender'[p].step = "waiting" /\ \A o \in Senders \ {p} : sender'[o] = sender[o]
  BY <1>0 DEF Send
<1>4. \A q \in Requests : request[q].caller # p /\ request[q].caller \in Senders \cup {Nobody}
  <2>1. sender[p].step = "idle" /\ p # Nobody
    BY DEF Idle, Senders
  <2> QED
    BY <1>0, <2>1 DEF CallersWait, Request
<1> QED
  BY <1>2, <1>3, <1>4 DEF CallersWait

\* A sender that nobody answers any more may do what it likes.
LEMMA AbandonKeepsCallers ==
    ASSUME TypeOK, CallersWait, NEW p \in Senders, Abandon(p), \A o \in Senders \ {p} : sender'[o] = sender[o]
    PROVE  CallersWait'
<1>1. ASSUME NEW r \in Requests
      PROVE  /\ request'[r].caller \in {request[r].caller, Nobody} \ {p}
             /\ request[r].caller \in Senders \cup {Nobody}
  <2>1. request[r] \in Request /\ p # Nobody
    BY DEF TypeOK, Senders
  <2>2. request'[r] = IF request[r].caller = p THEN [request[r] EXCEPT !.caller = Nobody] ELSE request[r]
    BY DEF Abandon
  <2> QED
    BY <2>1, <2>2 DEF Request
<1>2. ASSUME NEW r \in Requests, request'[r].caller # Nobody
      PROVE  sender'[request[r].caller].step = sender[request[r].caller].step
  BY <1>1, <1>2
<1> QED
  BY <1>1, <1>2, CallersFrame

LEMMA CallersKeptWaiting ==
    ASSUME TypeOK, PluginInv, CallersWait, [Next]_vars
    PROVE  CallersWait'
<1>0. /\ sender \in [Senders -> Sender] /\ request \in [Requests -> Request]
      /\ Submissions \subseteq Senders /\ Drains \subseteq Senders
      /\ \A r \in Requests : request[r].caller # Nobody =>
            request[r].caller \in Senders /\ sender[request[r].caller].step = "waiting"
  BY DEF TypeOK, Senders, Request, CallersWait
<1>1. ASSUME NEW p \in Senders, sender[p].step # "waiting", request' = request,
             \A o \in Senders \ {p} : sender'[o].step = sender[o].step
      PROVE  CallersWait'
  BY <1>0, <1>1, CallersFrame
<1>2. ASSUME NEW s \in Submissions, FormStep(s) PROVE CallersWait'
  <2>1. CASE Dispatch(s)
    BY <1>0, <2>1, SendKeepsCallers DEF Dispatch
  <2>2. CASE DispatchIgnored(s) \/ Finish(s)
    <3>1. sender[s].step # "waiting" /\ request' = request /\ \A o \in Senders \ {s} : sender'[o] = sender[o]
      BY <1>0, <2>2 DEF DispatchIgnored, Finish, Idle, portal
    <3> QED
      BY <1>0, <1>1, <3>1
  <2> QED
    BY <1>2, <2>1, <2>2 DEF FormStep
<1>3. ASSUME NEW s \in Submissions, KillForm(s) PROVE CallersWait'
  BY <1>0, <1>3, AbandonKeepsCallers DEF KillForm
<1>4. ASSUME NEW p \in Senders, Enqueue(p) PROVE CallersWait'
  BY <1>0, <1>1, <1>4 DEF Enqueue, portal
<1>5. ASSUME NEW p \in Senders, GiveUpWaiting(p) PROVE CallersWait'
  <2>1. Abandon(p) /\ \A o \in Senders \ {p} : sender'[o] = sender[o]
    BY <1>0, <1>5 DEF GiveUpWaiting
  <2> QED
    BY <2>1, AbandonKeepsCallers
<1>6. ASSUME NEW d \in Drains, DrainStep(d) PROVE CallersWait'
  <2>1. CASE SendNext(d)
    BY <1>0, <2>1, SendKeepsCallers DEF SendNext
  <2>2. CASE DropNext(d) \/ Conclude(d) \/ GiveUp(d)
    <3>1. PICK row \in Snapshot : row.sub \in Submissions /\ Dequeue(d, row)
      <4>1. DrainIsSound(d) /\ sender[d].row \in Snapshot /\ batch[d] \subseteq Snapshot
        BY <1>0 DEF PluginInv, Sender, TypeOK
      <4> QED
        BY <2>2, <4>1 DEF DropNext, Conclude, GiveUp, DrainIsSound, Counted
    <3>2. sender[d].step # "waiting" /\ request' = request
      BY <2>2 DEF DropNext, Conclude, GiveUp, Idle, portal
    <3>3. \A o \in Senders \ {d} : sender'[o].step = sender[o].step
      BY <3>1, DequeueEffect
    <3> QED
      BY <1>0, <1>1, <3>2, <3>3
  <2>3. CASE DrainQueue(d) \/ Reschedule(d)
    <3>1. sender[d].step # "waiting" /\ request' = request /\ \A o \in Senders \ {d} : sender'[o] = sender[o]
      BY <1>0, <2>3 DEF DrainQueue, Reschedule, Idle, portal
    <3> QED
      BY <1>0, <1>1, <3>1
  <2> QED
    BY <1>6, <2>1, <2>2, <2>3 DEF DrainStep
<1>7. ASSUME NEW d \in Drains, KillDrain(d) PROVE CallersWait'
  BY <1>0, <1>7, AbandonKeepsCallers DEF KillDrain
<1>8. ASSUME NEW r \in Requests, RequestStep(r) \/ FailRequest(r) PROVE CallersWait'
  <2>1. CASE \E answer \in Answers : Reply(r, answer)
    <3>1. PICK answer \in Answers : Reply(r, answer)
      BY <2>1
    <3>2. request'[r] = NoRequest /\ \A q \in Requests \ {r} : request'[q] = request[q]
      BY <1>0, <3>1 DEF Reply
    <3>3. \A p \in Senders : p # request[r].caller => sender'[p] = sender[p]
      BY <3>1 DEF Reply
    <3> QED
      BY <1>0, <3>2, <3>3, CallersFrame DEF CallersWait, NoRequest
  <2>2. CASE UNCHANGED sender /\ \A q \in Requests : request'[q].caller = request[q].caller
    BY <2>2, CallersFrame
  <2>3. ASSUME NEW step, GoOn(r, step) PROVE \A q \in Requests : request'[q].caller = request[q].caller
    BY <1>0, <2>3 DEF GoOn, Request
  <2>4. ASSUME NEW verdict, Decide(r, verdict) PROVE \A q \in Requests : request'[q].caller = request[q].caller
    BY <1>0, <2>4 DEF Decide, Request
  <2>5. ASSUME Ingest(r) PROVE \A q \in Requests : request'[q].caller = request[q].caller
    BY <1>0, <2>5 DEF Ingest, Request
  <2>6. CASE Ingest(r) \/ Normalise(r) \/ CheckDuplicate(r) \/ CheckSuppressed(r) \/ Persist(r)
    <3>1. UNCHANGED sender
      BY <2>6 DEF Ingest, Normalise, CheckDuplicate, CheckSuppressed, Persist, site
    <3>2. \A q \in Requests : request'[q].caller = request[q].caller
      BY <2>3, <2>4, <2>5, <2>6 DEF Normalise, CheckDuplicate, CheckSuppressed, Persist
    <3> QED
      BY <2>2, <3>1, <3>2
  <2>7. CASE RefuseSignature(r) \/ AnswerAgain(r) \/ Answer(r) \/ FailRequest(r)
    BY <2>1, <2>7 DEF RefuseSignature, AnswerAgain, Answer, FailRequest, Answers, Final
  <2> QED
    BY <1>8, <2>6, <2>7 DEF RequestStep
<1>9. CASE CrashApi
  BY <1>9, CallersFrame DEF CrashApi, NoRequest, site
<1>10. CASE UNCHANGED <<sender, request>>
  BY <1>10, CallersFrame
<1>11. ASSUME Administration \/ UNCHANGED vars \/ \E s \in Submissions : BecomeDue(s)
       PROVE  UNCHANGED <<sender, request>>
  BY <1>11 DEF Administration, SetEndpoint, RotateSecret, UpdateSecret, Remap, Suppress, BecomeDue,
               site, portal, vars
<1> QED
  BY <1>2, <1>3, <1>4, <1>5, <1>6, <1>7, <1>8, <1>9, <1>10, <1>11 DEF Next, Failure
-----------------------------------------------------------------------------
(* What requests have found out. *)

\* One request goes on, or none does.
LEMMA OneRequestGoesOn ==
    ASSUME TypeOK, PortalInv, UNCHANGED <<lead, knew>>, NEW r, NEW x, RequestIsSound(x),
           request' = [request EXCEPT ![r] = x]
    PROVE  PortalInv'
<1>1. ASSUME NEW q \in Requests PROVE request'[q] \in {request[q], x}
  BY DEF TypeOK
<1>2. \A y : RequestIsSound(y) => RequestIsSound(y)'
  BY DEF RequestIsSound, Stored
<1> QED
  BY <1>1, <1>2 DEF PortalInv, SequentialSubmissionsDeduplicated, Stored, RequestIsSound

\* Requests end or lose their callers.
LEMMA RequestsEnd ==
    ASSUME TypeOK, PortalInv, UNCHANGED <<lead, knew>>,
           \A q \in Requests : request'[q] \in {request[q], [request[q] EXCEPT !.caller = Nobody], NoRequest}
    PROVE  PortalInv'
<1>1. RequestIsSound(NoRequest)'
  BY DEF RequestIsSound, NoRequest
<1>2. ASSUME NEW q \in Requests PROVE RequestIsSound(request[q])'
  <2>1. request[q] \in Request /\ RequestIsSound(request[q])
    BY DEF TypeOK, PortalInv
  <2>2. RequestIsSound(request[q]) /\ RequestIsSound([request[q] EXCEPT !.caller = Nobody])
    BY <2>1 DEF RequestIsSound, Request
  <2>3. CASE request'[q] = request[q]
    BY <2>2, <2>3 DEF RequestIsSound, Stored
  <2>4. CASE request'[q] = [request[q] EXCEPT !.caller = Nobody]
    BY <2>2, <2>4 DEF RequestIsSound, Stored
  <2> QED
    BY <1>1, <2>3, <2>4
<1> QED
  BY <1>2 DEF PortalInv, SequentialSubmissionsDeduplicated, Stored

LEMMA RepliesKeepPortal ==
    ASSUME TypeOK, PortalInv, UNCHANGED <<lead, knew>>, NEW r \in Requests, NEW answer, Reply(r, answer)
    PROVE  PortalInv'
<1>1. ASSUME NEW q \in Requests PROVE request'[q] \in {request[q], NoRequest}
  BY DEF Reply, TypeOK
<1> QED
  BY <1>1, RequestsEnd

LEMMA AbandonKeepsPortal ==
    ASSUME TypeOK, PortalInv, UNCHANGED <<lead, knew>>, NEW p, Abandon(p)
    PROVE  PortalInv'
BY RequestsEnd DEF Abandon

LEMMA SendKeepsPortal ==
    ASSUME TypeOK, PortalInv, UNCHANGED <<lead, knew>>, NEW p \in Senders, NEW row,
           row.sub \in Submissions, Send(p, row)
    PROVE  PortalInv'
<1>1. PICK r \in Requests :
         request' = [request EXCEPT ![r] =
            [NoRequest EXCEPT !.step = "ingest", !.sub = row.sub, !.caller = p,
                              !.secret = siteSecret]]
  BY SendTakesSlot
<1>2. RequestIsSound([NoRequest EXCEPT !.step = "ingest", !.sub = row.sub, !.caller = p,
                                       !.secret = siteSecret])
  BY DEF RequestIsSound, NoRequest
<1> QED
  BY <1>1, <1>2, OneRequestGoesOn

LEMMA PersistKeepsPortal ==
    ASSUME TypeOK, PortalInv, NEW r \in Requests, Persist(r)
    PROVE  PortalInv'
<1> DEFINE s == request[r].sub
<1>0. /\ lead \in [Submissions -> Verdicts \cup {NotStored}] /\ request \in [Requests -> Request]
      /\ knew \in [Submissions -> SUBSET Submissions] /\ RequestIsSound(request[r])
      /\ request[r] \in Request
  BY DEF TypeOK, PortalInv
<1>1. s \in Submissions /\ request[r].step = "persist" /\ request[r].verdict \in Verdicts
  BY <1>0 DEF Persist, RequestIsSound, Request
<1>2. /\ lead' = [lead EXCEPT ![s] = Persisted(s, request[r].verdict)]
      /\ request' = [request EXCEPT ![r] = [request[r] EXCEPT !.step = "answer"]]
      /\ s \in Stored => lead' = lead /\ knew' = knew
      /\ s \notin Stored => /\ lead' = [lead EXCEPT ![s] = request[r].verdict]
                            /\ knew' = [knew EXCEPT ![s] = request[r].before]
  BY <1>0, <1>1 DEF Persist, GoOn, Persisted
<1> HIDE DEF s
<1>3. \A t \in Stored : lead'[t] = lead[t] /\ t \in Stored' /\ knew'[t] = knew[t]
  BY <1>0, <1>1, <1>2 DEF Stored
<1>4. s \in Stored'
  BY <1>0, <1>1, <1>2 DEF Stored, Verdicts, NotStored
<1>5. ASSUME NEW t \in Submissions, lead'[t] = "VALID", t \notin Stored
      PROVE  t = s /\ request[r].verdict = "VALID" /\ s \notin Stored
  BY <1>0, <1>1, <1>2, <1>5 DEF Stored, NotStored
<1>6. ASSUME NEW q \in Requests PROVE RequestIsSound(request[q])'
  <2>1. RequestIsSound(request[q]) /\ request[q] \in Request
    BY <1>0 DEF PortalInv
  <2>2. CASE q = r
    <3>1. /\ request'[q].step = "answer" /\ request'[q].sub = s
          /\ request'[q].before = request[q].before /\ request'[q].verdict = request[q].verdict
      BY <1>0, <1>2, <2>2 DEF Request, s
    <3>2. request[q].before \subseteq Stored'
      BY <1>3, <2>1 DEF RequestIsSound
    <3>3. request[q].verdict = "DUPLICATE" =>
             \E t \in Submissions : PersonOf[t] = PersonOf[s] /\ lead'[t] = "VALID"
      <4>1. \A t \in Submissions : lead[t] = "VALID" => t \in Stored
        BY DEF Stored, NotStored
      <4> QED
        BY <1>3, <2>1, <2>2, <4>1 DEF RequestIsSound, s
    <3> QED
      BY <1>1, <1>4, <3>1, <3>2, <3>3 DEF RequestIsSound
  <2>3. CASE q # r
    <3>1. request'[q] = request[q]
      BY <1>0, <1>2, <2>3
    <3>2. request[q].before \subseteq Stored' /\ \A t \in request[q].before : lead'[t] = lead[t]
      BY <1>3, <2>1 DEF RequestIsSound
    <3>3. request[q].verdict = "DUPLICATE" =>
             \E t \in Submissions : PersonOf[t] = PersonOf[request[q].sub] /\ lead'[t] = "VALID"
      <4>1. \A t \in Submissions : lead[t] = "VALID" => t \in Stored
        BY DEF Stored, NotStored
      <4> QED
        BY <1>3, <2>1, <4>1 DEF RequestIsSound
    <3>4. request[q].step = "answer" => request[q].sub \in Stored'
      BY <1>3, <2>1 DEF RequestIsSound
    <3> QED
      BY <2>1, <3>1, <3>2, <3>3, <3>4 DEF RequestIsSound
  <2> QED
    BY <2>2, <2>3
<1>7. ASSUME NEW t \in Submissions PROVE knew'[t] \subseteq Stored'
  <2>1. knew[t] \subseteq Stored'
    BY <1>3 DEF PortalInv
  <2>2. request[r].before \subseteq Stored'
    BY <1>0, <1>3 DEF RequestIsSound
  <2> QED
    BY <1>0, <1>1, <1>2, <2>1, <2>2
<1>8. ASSUME NEW a \in Submissions, NEW b \in Submissions, a # b, PersonOf[a] = PersonOf[b],
             lead'[a] = "VALID", lead'[b] = "VALID"
      PROVE  b \notin knew'[a]
  <2>1. CASE a \in Stored /\ b \in Stored
    BY <1>3, <1>8, <2>1 DEF PortalInv, SequentialSubmissionsDeduplicated
  <2>2. CASE a \in Stored /\ b \notin Stored
    BY <1>3, <2>2 DEF PortalInv
  <2>3. CASE a \notin Stored
    <3>1. a = s /\ request[r].verdict = "VALID" /\ knew'[a] = request[r].before
      BY <1>0, <1>1, <1>2, <1>5, <1>8, <2>3
    <3>2. \A t \in request[r].before : PersonOf[t] = PersonOf[a] => lead'[t] # "VALID"
      BY <1>0, <1>1, <1>3, <3>1 DEF RequestIsSound, s
    <3> QED
      BY <1>8, <3>1, <3>2
  <2> QED
    BY <2>1, <2>2, <2>3
<1> QED
  BY <1>6, <1>7, <1>8 DEF PortalInv, SequentialSubmissionsDeduplicated

LEMMA RequestsKeepPortal ==
    ASSUME TypeOK, PortalInv, NEW r \in Requests, RequestStep(r) \/ FailRequest(r)
    PROVE  PortalInv'
<1>0. /\ request[r] \in Request /\ RequestIsSound(request[r])
      /\ lead \in [Submissions -> Verdicts \cup {NotStored}]
  BY DEF TypeOK, PortalInv
<1>1. ASSUME NEW step, GoOn(r, step) PROVE request' = [request EXCEPT ![r] = [request[r] EXCEPT !.step = step]]
  BY <1>1 DEF GoOn, TypeOK
<1>2. ASSUME NEW verdict, Decide(r, verdict)
      PROVE  request' = [request EXCEPT ![r] = [request[r] EXCEPT !.step = "persist", !.verdict = verdict]]
  BY <1>2 DEF Decide, TypeOK
<1>3. CASE Ingest(r)
  <2> DEFINE x == [request[r] EXCEPT !.step = "lookup", !.before = Stored,
                                     !.verdict = IF mapped THEN "VALID" ELSE "INVALID_FORMAT"]
  <2>1. request' = [request EXCEPT ![r] = x] /\ UNCHANGED <<lead, knew>>
    BY <1>3 DEF Ingest, TypeOK, portalHistory
  <2>2. RequestIsSound(x)
    BY <1>0, <1>3 DEF Ingest, RequestIsSound, Request
  <2> QED
    BY <2>1, <2>2, OneRequestGoesOn
<1>4. CASE Normalise(r)
  <2>1. PICK step \in {"persist", "duplicate"} :
           /\ GoOn(r, step)
           /\ request[r].verdict = "INVALID_FORMAT" <=> step = "persist"
    BY <1>4 DEF Normalise
  <2>2. RequestIsSound([request[r] EXCEPT !.step = step])
    BY <1>0, <1>4, <2>1 DEF Normalise, RequestIsSound, Request
  <2> QED
    BY <1>1, <1>4, <2>1, <2>2, OneRequestGoesOn DEF Normalise, portalHistory
<1>5. CASE CheckDuplicate(r)
  <2>1. CASE IsDuplicate(request[r].sub)
    <3>1. RequestIsSound([request[r] EXCEPT !.step = "persist", !.verdict = "DUPLICATE"])
      BY <1>0, <1>5, <2>1 DEF CheckDuplicate, IsDuplicate, RequestIsSound, Request
    <3>2. Decide(r, "DUPLICATE") /\ UNCHANGED <<lead, knew>>
      BY <1>5, <2>1 DEF CheckDuplicate, portalHistory
    <3> QED
      BY <1>2, <3>1, <3>2, OneRequestGoesOn
  <2>2. CASE ~IsDuplicate(request[r].sub)
    <3>1. RequestIsSound([request[r] EXCEPT !.step = "suppressed"])
      BY <1>0, <1>5, <2>2 DEF CheckDuplicate, IsDuplicate, RequestIsSound, Request, Stored
    <3>2. GoOn(r, "suppressed") /\ UNCHANGED <<lead, knew>>
      BY <1>5, <2>2 DEF CheckDuplicate, portalHistory
    <3> QED
      BY <1>1, <3>1, <3>2, OneRequestGoesOn
  <2> QED
    BY <2>1, <2>2
<1>6. CASE CheckSuppressed(r)
  <2>1. PICK verdict \in {"SUPPRESSED", "VALID"} : Decide(r, verdict)
    BY <1>6 DEF CheckSuppressed
  <2>2. RequestIsSound([request[r] EXCEPT !.step = "persist", !.verdict = verdict])
    BY <1>0, <1>6, <2>1 DEF CheckSuppressed, RequestIsSound, Request
  <2>3. UNCHANGED <<lead, knew>>
    BY <1>6 DEF CheckSuppressed, portalHistory
  <2> QED
    BY <1>2, <2>1, <2>2, <2>3, OneRequestGoesOn
<1>7. CASE RefuseSignature(r) \/ AnswerAgain(r) \/ Answer(r) \/ FailRequest(r)
  <2>1. UNCHANGED <<lead, knew>> /\ \E answer \in Answers : Reply(r, answer)
    BY <1>7 DEF RefuseSignature, AnswerAgain, Answer, FailRequest, portalHistory, Answers, Final
  <2> QED
    BY <2>1, RepliesKeepPortal
<1> QED
  BY <1>3, <1>4, <1>5, <1>6, <1>7, PersistKeepsPortal DEF RequestStep

LEMMA PortalKept ==
    ASSUME TypeOK, PluginInv, PortalInv, [Next]_vars
    PROVE  PortalInv'
<1>1. ASSUME NEW s \in Submissions, FormStep(s) PROVE PortalInv'
  <2>1. CASE Dispatch(s)
    <3>1. s \in Senders /\ [NoSnapshot EXCEPT !.sub = s].sub = s
      BY DEF Senders, NoSnapshot
    <3> QED
      BY <2>1, <3>1, SendKeepsPortal DEF Dispatch, portalHistory
  <2>2. CASE DispatchIgnored(s) \/ Finish(s)
    BY <2>2, RequestsEnd DEF DispatchIgnored, Finish, portal, portalHistory
  <2> QED
    BY <1>1, <2>1, <2>2 DEF FormStep
<1>2. ASSUME NEW d \in Drains, DrainStep(d) PROVE PortalInv'
  <2>1. CASE SendNext(d)
    <3>1. PICK row \in batch[d] : Send(d, row)
      BY <2>1 DEF SendNext
    <3>2. row.sub \in Submissions /\ d \in Senders
      BY <3>1 DEF PluginInv, DrainIsSound, Counted, Senders
    <3> QED
      BY <2>1, <3>1, <3>2, SendKeepsPortal DEF SendNext, portalHistory
  <2>2. CASE DrainQueue(d) \/ DropNext(d) \/ Conclude(d) \/ GiveUp(d) \/ Reschedule(d)
    BY <2>2, RequestsEnd DEF DrainQueue, DropNext, Conclude, GiveUp, Reschedule, portal, portalHistory
  <2> QED
    BY <1>2, <2>1, <2>2 DEF DrainStep
<1>3. ASSUME NEW p \in Senders, GiveUpWaiting(p) PROVE PortalInv'
  BY <1>3, AbandonKeepsPortal DEF GiveUpWaiting, portalHistory
<1>4. CASE Failure
  <2>1. ASSUME NEW s \in Submissions, KillForm(s) PROVE PortalInv'
    BY <2>1, AbandonKeepsPortal DEF KillForm, portalHistory
  <2>2. ASSUME NEW d \in Drains, KillDrain(d) PROVE PortalInv'
    BY <2>2, AbandonKeepsPortal DEF KillDrain, portalHistory
  <2>3. CASE CrashApi
    BY <2>3, RequestsEnd DEF CrashApi, portalHistory
  <2> QED
    BY <1>4, <2>1, <2>2, <2>3, RequestsKeepPortal DEF Failure
<1>5. CASE \/ Administration \/ UNCHANGED vars
           \/ \E s \in Submissions : BecomeDue(s)
           \/ \E p \in Senders : Enqueue(p)
  <2>1. UNCHANGED <<request, lead, knew>>
    BY <1>5 DEF Administration, SetEndpoint, RotateSecret, UpdateSecret, Remap, Suppress, BecomeDue,
                Enqueue, portal, portalHistory, vars
  <2> QED
    BY <2>1, RequestsEnd
<1> QED
  BY <1>1, <1>2, <1>3, <1>4, <1>5, RequestsKeepPortal DEF Next
-----------------------------------------------------------------------------
(* The invariant. *)

\* No step breaks a type.
LEMMA TypesKept ==
    ASSUME TypeOK, PortalInv, [Next]_vars
    PROVE  TypeOK'
<1>1. CASE CrashApi
  <2>1. NoRequest \in Request
    BY DEF NoRequest, Request, Verdicts
  <2> QED
    BY <1>1, <2>1 DEF CrashApi, Trouble, TypeOK, site, pluginHistory, portalHistory
<1>2. CASE Administration
  <2>1. /\ endpoint' \in {"active", "paused", "deleted"} /\ siteSecret' \in Nat /\ pageSecret' \in Nat
        /\ suppressed' \subseteq People /\ mapped' \in BOOLEAN /\ troubles' \in Nat
    <3>1. CASE \E status \in {"active", "paused", "deleted"} : SetEndpoint(status)
      BY <3>1 DEF SetEndpoint, Trouble, TypeOK, portal
    <3>2. CASE RotateSecret \/ UpdateSecret
      BY <3>2 DEF RotateSecret, UpdateSecret, Trouble, TypeOK, site, portal
    <3>3. CASE Remap
      BY <3>3 DEF Remap, Trouble, TypeOK, site
    <3>4. ASSUME NEW person \in People, Suppress(person)
          PROVE  /\ suppressed' \subseteq People
                 /\ UNCHANGED <<endpoint, siteSecret, pageSecret, mapped>> /\ troubles' \in Nat
      BY <3>4 DEF Suppress, Trouble, TypeOK, site
    <3> QED
      BY <1>2, <3>1, <3>2, <3>3, <3>4 DEF Administration, TypeOK
  <2>2. UNCHANGED <<queue, sender, batch, request, lead, fails, fate, told, announced, knew>>
    BY <1>2 DEF Administration, SetEndpoint, RotateSecret, UpdateSecret, Remap, Suppress,
                site, portal, pluginHistory, portalHistory
  <2> QED
    BY <2>1, <2>2 DEF TypeOK
<1>3. CASE UNCHANGED vars
  BY <1>3 DEF TypeOK, vars, site, portal, pluginHistory, portalHistory
<1>4. ASSUME NEW r \in Requests, RequestStep(r) \/ FailRequest(r) PROVE TypeOK'
  BY <1>4, RequestTypes DEF PortalInv, RequestIsSound
<1> QED
  BY <1>1, <1>2, <1>3, <1>4, FormTypes, SenderTypes, DrainTypes DEF Next, Failure

LEMMA PluginKept ==
    ASSUME TypeOK, PluginInv, CallersWait, [Next]_vars
    PROVE  PluginInv'
<1>1. CASE UNCHANGED vars
  BY <1>1, AnswersKeepPlugin DEF vars, site, pluginHistory
<1> QED
  BY <1>1, FormsKeepPlugin, EnqueueKeepsPlugin, DrainsKeepPlugin, OthersKeepPlugin DEF Next, Failure

LEMMA BridgeStarts == Init => BridgeInv
<1> SUFFICES ASSUME Init PROVE BridgeInv
  OBVIOUS
<1>1. TypeOK
  BY DEF Init, TypeOK, Row, NoRow, Sender, Idle, NoSnapshot, Snapshot, Answers, Request, NoRequest,
         Verdicts
<1>2. PluginInv
  BY DEF Init, PluginInv, FormIsSound, DrainIsSound, Idle, NoRow, Senders, AtMost
<1>3. CallersWait
  BY DEF Init, CallersWait, NoRequest
<1>4. PortalInv
  <2>1. \A s \in Submissions : lead[s] # "VALID"
    BY DEF Init, NotStored
  <2> QED
    BY <2>1 DEF Init, PortalInv, RequestIsSound, NoRequest, SequentialSubmissionsDeduplicated
<1> QED
  BY <1>1, <1>2, <1>3, <1>4 DEF BridgeInv

\* The invariant of the capture: it holds at first and every step keeps it.
THEOREM BridgeIsSound == Spec => []BridgeInv
<1>1. BridgeInv /\ [Next]_vars => BridgeInv'
  BY TypesKept, PluginKept, CallersKeptWaiting, PortalKept DEF BridgeInv
<1> QED
  BY BridgeStarts, <1>1, PTL DEF Spec

\* Every variable of the plugin and of the intake keeps its type.
THEOREM BridgeTypesHold == Spec => []TypeOK
<1>1. BridgeInv => TypeOK
  BY DEF BridgeInv
<1> QED
  BY <1>1, BridgeIsSound, PTL

\* A submission the plugin took up is in the queue, in the hands of a process,
\* answered, or has failed lpb_max_retries times (send, enqueue_retry and
\* drain_queue), for any number of drains that overlap.
THEOREM NoSubmissionIsForgotten == Spec => []NothingIsForgotten
<1>1. BridgeInv => NothingIsForgotten
  <2> SUFFICES ASSUME BridgeInv, NEW s \in Submissions,
                      sender[s] # Idle, fate[s] = "open", endpoint # "deleted"
               PROVE  queue[s] # NoRow \/ AtWork(s) \/ fails[s] >= MaxRetries
    BY DEF NothingIsForgotten
  <2>1. FormIsSound(s) /\ s \in Senders /\ (fails[s] > 0 => Safe(s))
    BY DEF BridgeInv, PluginInv, Senders
  <2>2. CASE sender[s].step = "done"
    BY <2>1, <2>2 DEF FormIsSound, Safe
  <2>3. CASE sender[s].step \in {"waiting", "answered"}
    BY <2>1, <2>3 DEF FormIsSound, AtWork
  <2> QED
    BY <2>1, <2>2, <2>3 DEF FormIsSound
<1> QED
  BY <1>1, BridgeIsSound, PTL

\* Submissions of one person that do not overlap in the API become one VALID
\* lead (evaluate, isDuplicate and persist of the intake service).
THEOREM SubmissionsAreDeduplicated == Spec => []SequentialSubmissionsDeduplicated
<1>1. BridgeInv => SequentialSubmissionsDeduplicated
  BY DEF BridgeInv, PortalInv
<1> QED
  BY <1>1, BridgeIsSound, PTL
-----------------------------------------------------------------------------
(* Refinement. *)

LEMMA CaptureStarts == Init => Capture!CaptureInit
BY DEF Init, Capture!CaptureInit

LEMMA RequestsImplementCapture ==
    ASSUME BridgeInv, NEW r \in Requests, RequestStep(r)
    PROVE  [Capture!CaptureNext]_(Capture!captureVars)
<1> DEFINE s == request[r].sub
<1>0. /\ request[r] \in Request /\ RequestIsSound(request[r])
      /\ lead \in [Submissions -> Verdicts \cup {NotStored}]
  BY DEF BridgeInv, TypeOK, PortalInv
<1>1. CASE Ingest(r) \/ RefuseSignature(r) \/ Normalise(r) \/ CheckDuplicate(r) \/ CheckSuppressed(r)
  BY <1>1 DEF Ingest, RefuseSignature, Normalise, CheckDuplicate, CheckSuppressed, portalHistory,
              Capture!captureVars
<1>2. CASE AnswerAgain(r)
  <2>1. s \in Submissions /\ lead[s] # NotStored
    BY <1>2 DEF AnswerAgain, Stored
  <2>2. Capture!Confirm(s)
    BY <1>2, <2>1 DEF AnswerAgain, Capture!Confirm
  <2> QED
    BY <2>1, <2>2 DEF Capture!CaptureNext
<1>3. CASE Answer(r)
  <2>1. s \in Submissions /\ lead[s] # NotStored
    BY <1>0, <1>3 DEF Answer, RequestIsSound, Stored
  <2>2. Capture!Confirm(s)
    BY <1>3, <2>1 DEF Answer, Capture!Confirm
  <2> QED
    BY <2>1, <2>2 DEF Capture!CaptureNext
<1>4. CASE Persist(r)
  <2> DEFINE v == request[r].verdict
  <2>1. s \in Submissions /\ v \in Verdicts /\ UNCHANGED <<told, announced>>
    BY <1>0, <1>4 DEF Persist, RequestIsSound, Request
  <2>2. CASE s \in Stored
    <3>1. lead' = lead
      BY <1>0, <1>4, <2>1, <2>2 DEF Persist, Persisted
    <3> QED
      BY <2>1, <3>1 DEF Capture!captureVars
  <2>3. CASE s \notin Stored
    <3>1. lead[s] = NotStored /\ lead' = [lead EXCEPT ![s] = v]
      BY <1>4, <2>1, <2>3 DEF Persist, Persisted, Stored
    <3>2. v = "DUPLICATE" => Capture!HasOriginal(s)
      BY <1>0, <3>1 DEF RequestIsSound, Capture!HasOriginal, NotStored
    <3>3. Capture!Store(s, v)
      BY <2>1, <3>1, <3>2 DEF Capture!Store
    <3> QED
      BY <2>1, <3>3 DEF Capture!CaptureNext
  <2> QED
    BY <2>2, <2>3
<1> QED
  BY <1>1, <1>2, <1>3, <1>4 DEF RequestStep

LEMMA OthersLeaveCapture ==
    ASSUME BridgeInv, [Next]_vars, \A r \in Requests : ~RequestStep(r)
    PROVE  UNCHANGED Capture!captureVars
<1>1. ASSUME NEW s \in Submissions, FormStep(s) \/ BecomeDue(s) PROVE UNCHANGED Capture!captureVars
  BY <1>1 DEF FormStep, Dispatch, DispatchIgnored, Finish, BecomeDue, portal, portalHistory,
              Capture!captureVars
<1>2. ASSUME NEW p \in Senders, Enqueue(p) \/ GiveUpWaiting(p) PROVE UNCHANGED Capture!captureVars
  BY <1>2 DEF Enqueue, GiveUpWaiting, portal, portalHistory, Capture!captureVars
<1>3. ASSUME NEW d \in Drains, DrainStep(d) PROVE UNCHANGED Capture!captureVars
  BY <1>3 DEF DrainStep, DrainQueue, SendNext, DropNext, Conclude, GiveUp, Reschedule, portal,
              portalHistory, Capture!captureVars
<1>4. CASE Failure
  BY <1>4 DEF Failure, FailRequest, CrashApi, KillForm, KillDrain, portalHistory, Capture!captureVars
<1>5. CASE Administration
  BY <1>5 DEF Administration, SetEndpoint, RotateSecret, UpdateSecret, Remap, Suppress, portal,
              portalHistory, Capture!captureVars
<1>6. CASE UNCHANGED vars
  BY <1>6 DEF vars, portal, portalHistory, Capture!captureVars
<1> QED
  BY <1>1, <1>2, <1>3, <1>4, <1>5, <1>6 DEF Next

\* The plugin with its queue and the intake implement the capture of leads:
\* each submission is stored once, keeps its verdict, and is confirmed only
\* when it is stored.
THEOREM BridgeImplementsCapture == Spec => ImplementsCapture
<1>1. BridgeInv /\ [Next]_vars => [Capture!CaptureNext]_(Capture!captureVars)
  BY RequestsImplementCapture, OthersLeaveCapture
<1> QED
  BY <1>1, CaptureStarts, BridgeIsSound, PTL DEF Spec, ImplementsCapture, Capture!CaptureSpec
=============================================================================
