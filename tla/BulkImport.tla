------------------------------ MODULE BulkImport ------------------------------
(***************************************************************************)
(* The bulk import of a landing page: BulkImportDialog sends the rows of a *)
(* file, IntakeService.ingestBulk takes them one by one through the checks *)
(* of the webhook, and staff keep the suppression list that one of these   *)
(* checks reads (SuppressionScreen).                                       *)
(*                                                                         *)
(* The rows of each upload get submission ids of their own, so an upload   *)
(* that is repeated is not recognised by its ids.  The portal works on     *)
(* when the dialog is closed or the answer is lost.                        *)
(*                                                                         *)
(* All rows are well formed; leads are captured within the window of the   *)
(* duplicate check and are not rejected later on.                          *)
(***************************************************************************)
EXTENDS Naturals, Sequences

CONSTANTS
    People,     \* the persons that leads are about: an email and a phone each
    Files,      \* what is uploaded: sequences of persons
    Imports,    \* bound: uploads under way at once
    MaxUploads  \* bound: uploads, leads of the webhook and changes of the list in all

ASSUME ImportAssumption == Files \subseteq Seq(People) /\ MaxUploads \in Nat

VARIABLES
    live,        \* how many leads of a person are not rejected
    suppressed,  \* suppression_list: a person's email or phone
    import,      \* the uploads under way
    dialogOpen,  \* BulkImportDialog
    uploading,   \* busy: the button is disabled
    summary,     \* what the dialog shows
    twice,       \* history: persons with two checks for duplicates at a time
    optedOut,    \* history: the number of live leads a suppressed person had, as a set
    uploads      \* counts towards MaxUploads

importVars == <<live, suppressed, import, dialogOpen, uploading, summary, twice, optedOut, uploads>>
-----------------------------------------------------------------------------
\* An address is compared in lower case, a phone number as it was typed.
Forms == {"email", "E.164", "national"}
Matched == {"email", "E.164"}

\* made: the live leads of this import, also those whose row failed.
\* asked: the portal has still an answer to give.
Import == [file : Files, at : Nat, step : {"dedup", "suppression", "insert"},
           verdict : {"VALID", "REJECTED"}, made : Nat, created : Nat, rejected : Nat, failed : Nat,
           asked : BOOLEAN]
NoImport == [step |-> "none"]
Summary == [total : Nat, created : Nat, rejected : Nat, failed : Nat, made : Nat]
NoSummary == [total |-> 0]

Person(r) == r.file[r.at]
RowsLeft(r) == r.at <= Len(r.file)
AtRow(k, step) == import[k] # NoImport /\ import[k].step = step /\ RowsLeft(import[k])

\* Imports that are at a row of a person and may make a live lead of it: all
\* checks passed, or the one for duplicates.
Inserting(p) == {k \in Imports : AtRow(k, "insert") /\ import[k].verdict = "VALID" /\ Person(import[k]) = p}
PastDedup(p) == Inserting(p) \cup {k \in Imports : AtRow(k, "suppression") /\ Person(import[k]) = p}
-----------------------------------------------------------------------------
(* The dialog. *)

OpenImport ==
    /\ ~dialogOpen /\ dialogOpen' = TRUE
    /\ UNCHANGED <<live, suppressed, import, uploading, summary, twice, optedOut, uploads>>

\* reset, with an upload under way or not.
CloseImport ==
    /\ dialogOpen /\ dialogOpen' = FALSE
    /\ uploading' = FALSE /\ summary' = NoSummary
    /\ UNCHANGED <<live, suppressed, import, twice, optedOut, uploads>>

\* onUpload.
Upload(k, f) ==
    /\ dialogOpen /\ ~uploading /\ import[k] = NoImport
    /\ uploading' = TRUE /\ summary' = NoSummary
    /\ import' = [import EXCEPT ![k] =
          [file |-> f, at |-> 1, step |-> "dedup", verdict |-> "VALID", made |-> 0, created |-> 0,
           rejected |-> 0, failed |-> 0, asked |-> TRUE]]
    /\ uploads < MaxUploads /\ uploads' = uploads + 1
    /\ UNCHANGED <<live, suppressed, dialogOpen, twice, optedOut>>

\* The answer: whatever dialog is open shows it, and its button is enabled.
ImportAnswered(k) ==
    LET r == import[k] IN
    /\ r # NoImport /\ ~RowsLeft(r)
    /\ IF r.asked
       THEN /\ uploading' = FALSE
            /\ summary' = [total |-> Len(r.file), created |-> r.created, rejected |-> r.rejected,
                           failed |-> r.failed, made |-> r.made]
       ELSE UNCHANGED <<uploading, summary>>
    /\ import' = [import EXCEPT ![k] = NoImport]
    /\ UNCHANGED <<live, suppressed, dialogOpen, twice, optedOut, uploads>>

\* The dialog tells of an error while the portal works on, unless it stops.
AnswerLost(k) ==
    /\ import[k] # NoImport /\ import[k].asked
    /\ uploading' = FALSE
    /\ import' \in {[import EXCEPT ![k].asked = FALSE], [import EXCEPT ![k] = NoImport]}
    /\ UNCHANGED <<live, suppressed, dialogOpen, summary, twice, optedOut, uploads>>
-----------------------------------------------------------------------------
(* ingestBulk: evaluate and persist for each row. *)

\* Fault: a row is recognised by its submission id alone.
DuplicateById(p) == FALSE
\* isDuplicate.
IsDuplicate(p) == live[p] > 0

\* Fault: phone numbers are not looked up.
SuppressedEmail(p) == <<p, "email">> \in suppressed
\* isSuppressed, which compares with the number in E.164.
IsSuppressed(p) == \E form \in Matched : <<p, form>> \in suppressed

Evaluate(k, now, next, rejects) ==
    /\ AtRow(k, now)
    /\ import' = [import EXCEPT ![k].step = IF rejects THEN "insert" ELSE next,
                                ![k].verdict = IF rejects THEN "REJECTED" ELSE "VALID"]
    /\ UNCHANGED <<live, suppressed, dialogOpen, uploading, summary, twice, optedOut, uploads>>

Dedup(k) == Evaluate(k, "dedup", "suppression", IsDuplicate(Person(import[k])))
CheckSuppression(k) == Evaluate(k, "suppression", "insert", IsSuppressed(Person(import[k])))

\* The next row, after one more in the count of field f.
NextRow(r, made, created, rejected, broken) ==
    [r EXCEPT !.at = @ + 1, !.step = "dedup", !.made = @ + made, !.created = @ + created,
              !.rejected = @ + rejected, !.failed = @ + broken]

\* Other imports that look past the new lead will make one more.
MakeLive(p, by) ==
    /\ live' = [live EXCEPT ![p] = @ + 1]
    /\ twice' = IF PastDedup(p) \subseteq by THEN twice ELSE twice \cup {p}

\* A row may fail before and, when the connection is lost, after it is stored.
Persist(k) ==
    LET r == import[k]
        valid == r.verdict = "VALID"
    IN
    /\ AtRow(k, "insert")
    /\ \/ /\ IF valid THEN MakeLive(Person(r), {k}) ELSE UNCHANGED <<live, twice>>
          /\ \/ import' = [import EXCEPT ![k] = IF valid THEN NextRow(r, 1, 1, 0, 0) ELSE NextRow(r, 0, 0, 1, 0)]
             \/ import' = [import EXCEPT ![k] = NextRow(r, IF valid THEN 1 ELSE 0, 0, 0, 1)]
       \/ /\ import' = [import EXCEPT ![k] = NextRow(r, 0, 0, 0, 1)]
          /\ UNCHANGED <<live, twice>>
    /\ UNCHANGED <<suppressed, dialogOpen, uploading, summary, optedOut, uploads>>

\* The webhook (module Bridge).
OtherLead(p) ==
    /\ ~IsDuplicate(p) /\ ~IsSuppressed(p)
    /\ MakeLive(p, {})
    /\ uploads < MaxUploads /\ uploads' = uploads + 1
    /\ UNCHANGED <<suppressed, import, dialogOpen, uploading, summary, optedOut>>
-----------------------------------------------------------------------------
(* The suppression list. *)

Suppress(p, form) ==
    /\ suppressed' = suppressed \cup {<<p, form>>}
    /\ optedOut' = IF form \in Matched /\ optedOut[p] = {} /\ Inserting(p) = {}
                   THEN [optedOut EXCEPT ![p] = {live[p]}] ELSE optedOut
    /\ uploads < MaxUploads /\ uploads' = uploads + 1
    /\ UNCHANGED <<live, import, dialogOpen, uploading, summary, twice>>

RemoveEntry(p, form) ==
    /\ <<p, form>> \in suppressed
    /\ suppressed' = suppressed \ {<<p, form>>}
    /\ optedOut' = IF \E f \in Matched : <<p, f>> \in suppressed' THEN optedOut
                   ELSE [optedOut EXCEPT ![p] = {}]
    /\ UNCHANGED <<live, import, dialogOpen, uploading, summary, twice, uploads>>
-----------------------------------------------------------------------------
ImportInit ==
    /\ live = [p \in People |-> 0] /\ suppressed = {}
    /\ import = [k \in Imports |-> NoImport]
    /\ dialogOpen = FALSE /\ uploading = FALSE /\ summary = NoSummary
    /\ twice = {} /\ optedOut = [p \in People |-> {}] /\ uploads = 0

IngestBulk(k) == Dedup(k) \/ CheckSuppression(k) \/ Persist(k)

ImportNext ==
    \/ OpenImport \/ CloseImport
    \/ \E k \in Imports :
          IngestBulk(k) \/ ImportAnswered(k) \/ AnswerLost(k) \/ \E f \in Files : Upload(k, f)
    \/ \E p \in People :
          OtherLead(p) \/ \E form \in Forms : Suppress(p, form) \/ RemoveEntry(p, form)

ImportSpec == ImportInit /\ [][ImportNext]_importVars
-----------------------------------------------------------------------------
\* Every variable keeps the type its comment gives it.
ImportTypes ==
    /\ live \in [People -> Nat] /\ suppressed \subseteq People \X Forms
    /\ import \in [Imports -> Import \cup {NoImport}]
    /\ dialogOpen \in BOOLEAN /\ uploading \in BOOLEAN
    /\ summary \in Summary \cup {NoSummary}
    /\ twice \subseteq People /\ optedOut \in [People -> SUBSET Nat]
    /\ uploads \in 0..MaxUploads

\* A file may be imported again after a lost answer: a person has one live lead
\* however often and from however many files he is imported, unless two checks
\* for duplicates of him ran at a time; and a summary, be it of an upload made
\* before the dialog was closed, counts all rows and every live lead made.
ImportsCanBeRepeated ==
    /\ \A p \in People \ twice : live[p] <= 1
    /\ summary # NoSummary =>
          /\ summary.created + summary.rejected + summary.failed = summary.total
          /\ summary.created <= summary.made /\ summary.made <= summary.created + summary.failed

\* Nobody whose email, or phone number in E.164, is on the suppression list gets
\* another live lead, except from a row that had passed the check by then.
OptOutsAreHonoured ==
    \A p \in People : optedOut[p] \subseteq {live[p]}
=============================================================================
