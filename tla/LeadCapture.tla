----------------------------- MODULE LeadCapture -----------------------------
(***************************************************************************)
(* What the capture of leads promises, with no network, queue, retry or    *)
(* crash in sight: a submission is stored at most once, with a verdict     *)
(* that never changes; a site is told that the portal has a submission     *)
(* only when it has; only VALID leads are offered to the distribution      *)
(* engine; and a submission is turned away as a duplicate only when        *)
(* another submission of the same person is there as a VALID lead.         *)
(*                                                                         *)
(* The WordPress plugin and the intake service (module Bridge) implement   *)
(* it.  That the lead of a person is VALID at most once is not promised:   *)
(* see SequentialSubmissionsDeduplicated there.                            *)
(***************************************************************************)
CONSTANTS Submissions, \* the forms that visitors submit
          PersonOf,    \* who submitted them
          Verdicts,    \* what the intake decides of a submission
          NotStored    \* no verdict

VARIABLES lead,      \* the verdict a submission was stored with
          told,      \* the submissions a site was told of
          announced  \* the leads offered to the distribution engine

captureVars == <<lead, told, announced>>
-----------------------------------------------------------------------------
HasOriginal(s) ==
    \E t \in Submissions \ {s} : PersonOf[t] = PersonOf[s] /\ lead[t] = "VALID"

CaptureInit ==
    /\ lead = [s \in Submissions |-> NotStored]
    /\ told = {}
    /\ announced = {}

Store(s, v) ==
    /\ lead[s] = NotStored
    /\ v = "DUPLICATE" => HasOriginal(s)
    /\ lead' = [lead EXCEPT ![s] = v]
    /\ UNCHANGED <<told, announced>>

\* The portal may offer a lead to the engine as it confirms it.
Confirm(s) ==
    /\ lead[s] # NotStored
    /\ told' = told \cup {s}
    /\ announced' \in {announced, announced \cup {s}}
    /\ announced' # announced => lead[s] = "VALID"
    /\ UNCHANGED lead

CaptureNext == \E s \in Submissions : Confirm(s) \/ \E v \in Verdicts : Store(s, v)

CaptureSpec == CaptureInit /\ [][CaptureNext]_captureVars
=============================================================================
