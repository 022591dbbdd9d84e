------------------------------ MODULE Controls ------------------------------
(***************************************************************************)
(* The controls of the distribution engine: DistributionControlsService    *)
(* (apps/api/src/distribution) keeps the paused and the held lead types of *)
(* all lead types in one settings row, which a toggle reads, changes and   *)
(* writes back with nothing in between.  Distribution has only the set of  *)
(* blocked types that the row stands for (isBlocked).                      *)
(***************************************************************************)
CONSTANTS
    ControlTypes,  \* lead types
    Changes,       \* bound: what a call may ask for
    Toggles        \* bound: setLeadType calls under way at once

Controls == {"paused", "hold"}
Change == {"on", "off", "undefined"}

ASSUME ControlsAssumption == Changes \subseteq [Controls -> Change]

VARIABLES
    setting,   \* the settings row: for each control the lead types it is on for
    toggling,  \* the calls under way
    wanted,    \* history: for each control the types it was last switched on for, unless raced
    raced      \* history: types that a call with an older copy of the row wrote over

controlsVars == <<setting, toggling, wanted, raced>>
-----------------------------------------------------------------------------
Settings == [Controls -> SUBSET ControlTypes]

\* late: the types that were written since the call read the row.
Toggling == [type : ControlTypes, change : Changes,
             row : Settings, late : SUBSET ControlTypes]
NotToggling == [type |-> "none"]

\* Fault: a type is appended and never filtered out.
SwitchedOn(types, type, change) == IF change = "on" THEN types \cup {type} ELSE types
\* toggle: a control that is not in the request keeps its value.
Switched(types, type, change) ==
    CASE change = "undefined" -> types
      [] change = "off" -> types \ {type}
      [] change = "on" -> types \cup {type}

\* What the administrators want, in one step.
Wanted(types, type, change) ==
    {y \in types \cup {type} : IF y = type /\ change # "undefined"
                              THEN change = "on" ELSE y \in types}

AfterToggle(row, c) == [x \in Controls |-> Switched(row[x], c.type, c.change[x])]

\* setLeadType reads the row; there is none before the first call (get).
ReadControls(c, type, change) ==
    /\ toggling[c] = NotToggling
    /\ toggling' = [toggling EXCEPT ![c] =
          [type |-> type, change |-> change, row |-> setting, late |-> {}]]
    /\ UNCHANGED <<setting, wanted, raced>>

\* The upsert writes what the call has read, with its change.
WriteControls(c) ==
    LET t == toggling[c] IN
    /\ t # NotToggling
    /\ setting' = AfterToggle(t.row, t)
    /\ raced' = raced \cup t.late
    /\ wanted' = [x \in Controls |-> Wanted(wanted[x], t.type, t.change[x]) \ raced']
    /\ toggling' = [d \in Toggles |->
          IF d = c \/ toggling[d] = NotToggling THEN NotToggling
          ELSE [toggling[d] EXCEPT !.late = @ \cup {t.type} \cup t.late]]

FailToggle(c) ==
    /\ toggling[c] # NotToggling
    /\ toggling' = [toggling EXCEPT ![c] = NotToggling]
    /\ UNCHANGED <<setting, wanted, raced>>
-----------------------------------------------------------------------------
ControlsInit ==
    /\ setting = [x \in Controls |-> {}]
    /\ wanted = [x \in Controls |-> {}]
    /\ toggling = [c \in Toggles |-> NotToggling]
    /\ raced = {}

Toggle(c) ==
    \/ \E type \in ControlTypes, change \in Changes : ReadControls(c, type, change)
    \/ WriteControls(c) \/ FailToggle(c)

ControlsNext == \E c \in Toggles : Toggle(c)

ControlsSpec == ControlsInit /\ [][ControlsNext]_controlsVars
-----------------------------------------------------------------------------
\* Every variable keeps the type its comment gives it.
ControlsTypes ==
    /\ setting \in Settings
    /\ toggling \in [Toggles -> Toggling \cup {NotToggling}]
    /\ wanted \in Settings
    /\ raced \subseteq ControlTypes

\* The control of a lead type is what it was last set to, whatever calls for
\* other types come and go, unless a call was written that had read the row
\* before that: only such a call takes a toggle back.
TogglesAreKept ==
    \A x \in Controls, type \in ControlTypes \ raced :
        type \in setting[x] <=> type \in wanted[x]
=============================================================================
