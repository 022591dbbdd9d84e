----------------------------- MODULE ProfileForm -----------------------------
(***************************************************************************)
(* The profile form of ProfileScreen, for one signed-in staff user or      *)
(* client, and AuthService behind it (apps/api/src/auth).  Administrators  *)
(* and other devices write the same row.                                   *)
(*                                                                         *)
(* The inputs keep their own text: the profile that is loaded after a save *)
(* reaches an input at most if nobody typed in it.  A field that was       *)
(* emptied is left out of the call and keeps what is stored.  A text is    *)
(* its trimmed form; checks of a text are the refusal of a call.           *)
(***************************************************************************)
EXTENDS Naturals

CONSTANTS
    Common, StaffOnly, BuyerOnly,  \* fields of a profile
    Texts, Blank,                  \* what a field holds
    Absent,                        \* no form, no call
    ProfileSaves,                  \* bound: calls of PATCH auth/me in all
    MaxStrokes                     \* bound: texts typed and strokes of others in all

Fields == Common \cup StaffOnly \cup BuyerOnly

Profile == [Fields -> Texts]

ASSUME ProfileAssumption ==
    Blank \in Texts /\ MaxStrokes \in Nat /\ Absent \notin Profile \cup ProfileSaves

VARIABLES
    who,        \* whose profile: a user or a client
    personal,   \* the row of the account
    active,     \* the status of the account is ACTIVE
    opening,    \* the load of a screen that opens
    inputs,     \* the texts of the form
    touched,    \* the inputs somebody typed in since the form is there
    submitted,  \* the save the screen waits for
    reload,     \* the load that follows a save
    profileSave, \* PATCH auth/me
    unsaved,    \* history: inputs typed in since, or blank in, the last save
    typing,     \* history: inputs typed in since the save began
    elsewhere,  \* history: fields written by others, or by a save left behind
    strokes     \* counts towards MaxStrokes

profileVars == <<who, personal, active, opening, inputs, touched, submitted, reload, profileSave,
                 unsaved, typing, elsewhere, strokes>>
-----------------------------------------------------------------------------
\* The form has the fields of the account.
FormFields == Common \cup (IF who = "USER" THEN StaffOnly ELSE BuyerOnly)

\* admitted: the token was checked against the row of the account.
ProfileSave == [step : {"sent", "admitted", "written"}, body : Profile]
NoProfileSave == [step |-> "none"]
ProfileSaveOver == [step |-> "over"]

HasForm == inputs # Absent
Live(k) == profileSave[k].step \in {"sent", "admitted"}

Act == strokes < MaxStrokes /\ strokes' = strokes + 1
-----------------------------------------------------------------------------
(* ProfileScreen. *)

\* The effect of a new screen: fullProfile answers an account that is active ...
OpenProfile ==
    /\ ~HasForm /\ opening = Absent /\ active
    /\ opening' = personal
    /\ elsewhere' = {}
    /\ UNCHANGED <<who, personal, active, inputs, touched, submitted, reload, profileSave, unsaved, typing, strokes>>

\* ... and the form is there.
ShowForm ==
    /\ opening # Absent
    /\ inputs' = opening /\ opening' = Absent
    /\ touched' = {} /\ unsaved' = {} /\ typing' = {}
    /\ UNCHANGED <<who, personal, active, submitted, reload, profileSave, elsewhere, strokes>>

\* The screen is left, or its load fails; calls under way go on.
LeaveProfile ==
    /\ HasForm \/ opening # Absent
    /\ inputs' = Absent /\ opening' = Absent
    /\ submitted' = Absent /\ reload' = Absent
    /\ touched' = {} /\ unsaved' = {} /\ typing' = {}
    /\ UNCHANGED <<who, personal, active, profileSave, elsewhere, strokes>>

Type(f, text) ==
    /\ HasForm /\ f \in FormFields
    /\ inputs' = [inputs EXCEPT ![f] = text]
    /\ touched' = touched \cup {f} /\ unsaved' = unsaved \cup {f} /\ typing' = typing \cup {f}
    /\ Act
    /\ UNCHANGED <<who, personal, active, opening, submitted, reload, profileSave, elsewhere>>

\* onProfileSubmit: the button waits for a save and its load.
SubmitProfile(k) ==
    /\ HasForm /\ submitted = Absent /\ profileSave[k] = NoProfileSave
    /\ profileSave' = [profileSave EXCEPT ![k] = [step |-> "sent", body |-> inputs]]
    /\ submitted' = k /\ typing' = {}
    /\ UNCHANGED <<who, personal, active, opening, inputs, touched, reload, unsaved, elsewhere, strokes>>

Blanks(k) == {f \in FormFields : profileSave[k].body[f] = Blank}

\* The call is answered; the profile is loaded again, if the account is active still.
PatchAnswered ==
    /\ submitted # Absent /\ profileSave[submitted].step = "written"
    /\ active /\ reload' = personal
    /\ unsaved' = typing \cup (unsaved \cap Blanks(submitted))
    /\ profileSave' = [profileSave EXCEPT ![submitted] = ProfileSaveOver]
    /\ UNCHANGED <<who, personal, active, opening, inputs, touched, submitted, typing, elsewhere, strokes>>

\* setProfile changes the default of an input: what was typed stays, and so may the rest.
Refilled(loaded) ==
    {after \in [Fields -> Texts] : \A f \in Fields :
        after[f] = inputs[f] \/ (f \notin touched /\ after[f] = loaded[f])}

ShowSaved ==
    /\ reload # Absent
    /\ inputs' \in Refilled(reload)
    /\ submitted' = Absent /\ reload' = Absent
    /\ UNCHANGED <<who, personal, active, opening, touched, profileSave, unsaved, typing, elsewhere, strokes>>

\* The call or the load is refused or lost, whatever became of the call.
SaveFails ==
    /\ submitted # Absent
    /\ submitted' = Absent /\ reload' = Absent
    /\ UNCHANGED <<who, personal, active, opening, inputs, touched, profileSave, unsaved, typing, elsewhere, strokes>>
-----------------------------------------------------------------------------
(* The API. *)

\* JwtStrategy.validate.
AdmitPatch(k) ==
    /\ profileSave[k].step = "sent" /\ active
    /\ profileSave' = [profileSave EXCEPT ![k].step = "admitted"]
    /\ UNCHANGED <<who, personal, active, opening, inputs, touched, submitted, reload, unsaved, typing,
                   elsewhere, strokes>>

\* Fault: the fields of staff are left out.
CommonOnly(k) == {f \in Common : profileSave[k].body[f] # Blank}
\* updateProfile and prune: the fields of the kind of the account that are there.
Pruned(k) == {f \in FormFields : profileSave[k].body[f] # Blank}

UpdateProfile(k) ==
    /\ profileSave[k].step = "admitted"
    /\ personal' = [f \in Fields |-> IF f \in Pruned(k) THEN profileSave[k].body[f] ELSE personal[f]]
    /\ elsewhere' = IF submitted = k THEN elsewhere \ Pruned(k) ELSE elsewhere \cup Pruned(k)
    /\ profileSave' = [profileSave EXCEPT ![k].step = "written"]
    /\ UNCHANGED <<who, active, opening, inputs, touched, submitted, reload, unsaved, typing, strokes>>

\* The call is refused, fails in the API or is never served.
PatchDies(k) ==
    /\ Live(k)
    /\ profileSave' = [profileSave EXCEPT ![k] = ProfileSaveOver]
    /\ UNCHANGED <<who, personal, active, opening, inputs, touched, submitted, reload, unsaved, typing,
                   elsewhere, strokes>>

\* update of UsersService or ClientsService, or the form on another device.
WriteElsewhere(f, text) ==
    /\ f \in FormFields
    /\ personal' = [personal EXCEPT ![f] = text]
    /\ elsewhere' = elsewhere \cup {f}
    /\ Act
    /\ UNCHANGED <<who, active, opening, inputs, touched, submitted, reload, profileSave, unsaved, typing>>

SetActive ==
    /\ active' = ~active
    /\ Act
    /\ UNCHANGED <<who, personal, opening, inputs, touched, submitted, reload, profileSave, unsaved, typing, elsewhere>>
-----------------------------------------------------------------------------
ProfileInit ==
    /\ who \in {"USER", "CLIENT"}
    /\ personal \in [Fields -> Texts]
    /\ active = TRUE
    /\ opening = Absent /\ inputs = Absent /\ submitted = Absent /\ reload = Absent
    /\ profileSave = [k \in ProfileSaves |-> NoProfileSave]
    /\ touched = {} /\ unsaved = {} /\ typing = {} /\ elsewhere = {} /\ strokes = 0

ProfilePage ==
    \/ OpenProfile \/ ShowForm \/ LeaveProfile \/ PatchAnswered \/ ShowSaved \/ SaveFails
    \/ \E f \in Fields, text \in Texts : Type(f, text)
    \/ \E k \in ProfileSaves : SubmitProfile(k)

ProfileService(k) == AdmitPatch(k) \/ UpdateProfile(k) \/ PatchDies(k)

Elsewhere == SetActive \/ \E f \in Fields, text \in Texts : WriteElsewhere(f, text)

ProfileNext == ProfilePage \/ Elsewhere \/ \E k \in ProfileSaves : ProfileService(k)

ProfileSpec == ProfileInit /\ [][ProfileNext]_profileVars
-----------------------------------------------------------------------------
\* Every variable keeps the type its comment gives it.
ProfileTypes ==
    /\ who \in {"USER", "CLIENT"} /\ personal \in Profile /\ active \in BOOLEAN
    /\ {opening, reload, inputs} \subseteq Profile \cup {Absent}
    /\ submitted \in ProfileSaves \cup {Absent}
    /\ profileSave \in [ProfileSaves -> ProfileSave \cup {NoProfileSave, ProfileSaveOver}]
    /\ touched \subseteq Fields /\ unsaved \subseteq Fields /\ typing \subseteq Fields
    /\ elsewhere \subseteq Fields /\ strokes \in Nat

\* The form shows what is stored, but for the inputs that were edited and not
\* saved, those that a save found empty, and the fields that somebody else, or
\* a save whose answer was lost, has written: no answer, load or suspension
\* in between makes the form tell a saved text that is not stored.
FormShowsWhatIsStored ==
    HasForm => \A f \in FormFields \ (unsaved \cup elsewhere) : inputs[f] = personal[f]
=============================================================================
