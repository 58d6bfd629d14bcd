----------------------------- MODULE PlayDevice -----------------------------
(***************************************************************************)
(* The devices the process poses as in the Play store (PlayDevice): each   *)
(* constructor makes up what its state file lacks, writes the file, checks *)
(* in, writes the file, goes through the terms of service, and writes it   *)
(* once more.  A write truncates the file first.                           *)
(*                                                                         *)
(* Of a state file only three items are kept here: the generated fields,   *)
(* the check-in (android_id # 0) and the api data that set_api_data puts   *)
(* there after the terms were accepted.  Whether the store wants the terms *)
(* accepted is its own business.  The devices are constructed one by one;  *)
(* their order, the same at every start, is abstracted.                    *)
(***************************************************************************)
EXTENDS Naturals

CONSTANTS
    Devices,
    NoDevice        \* no constructor runs

Items == {"fields", "checkin", "terms"}

VARIABLES
    stateFile,      \* the items in the state file of each device
    left,           \* devices that are not constructed yet
    device,         \* the device whose constructor runs
    step,           \* how far it is
    devState,       \* the items in its deviceConfig
    made,           \* history: how often each item was made, or asked of Google
    lost            \* history: how often a torn write or !cleargplay lost it

deviceVars == <<stateFile, left, device, step, devState, made, lost>>

Saves == {"save fields", "save checkin", "save terms"}
Steps == {"load", "login", "terms"} \cup Saves

DeviceTypeOK ==
    /\ stateFile \in [Devices -> SUBSET Items]
    /\ left \subseteq Devices
    /\ device \in Devices \cup {NoDevice}
    /\ step \in Steps
    /\ devState \in SUBSET Items
    /\ made \in [Devices -> [Items -> Nat]]
    /\ lost \in [Devices -> [Items -> Nat]]

InitDevices ==
    /\ stateFile = [d \in Devices |-> {}]
    /\ left = {} /\ device = NoDevice /\ step = "load" /\ devState = {}
    /\ made = [d \in Devices |-> [i \in Items |-> 0]]
    /\ lost = [d \in Devices |-> [i \in Items |-> 0]]

Make(items) ==
    /\ devState' = devState \cup items
    /\ made' = [made EXCEPT ![device] =
                    [i \in Items |-> IF i \in items THEN @[i] + 1 ELSE @[i]]]

-----------------------------------------------------------------------------
\* loadDeviceStateInfo reads the file ...
LoadState(d) ==
    /\ device = NoDevice /\ d \in left
    /\ device' = d /\ step' = "load"
    /\ devState' = stateFile[d]
    /\ UNCHANGED <<stateFile, left, made, lost>>

\* ... and generate_fields makes up what is missing.
GenerateFields ==
    /\ device # NoDevice /\ step = "load"
    /\ Make({"fields"} \ devState)
    /\ step' = "save fields"
    /\ UNCHANGED <<stateFile, left, device, lost>>

\* Mutant: only checkTos saves what the check-in returned.
CheckInUnsaved ==
    /\ device # NoDevice /\ step = "login"
    /\ Make({"checkin"} \ devState)
    /\ step' = "terms"
    /\ UNCHANGED <<stateFile, left, device, lost>>

\* loadLoginInfo: only a device without an android_id checks in.
CheckIn ==
    /\ device # NoDevice /\ step = "login"
    /\ Make({"checkin"} \ devState)
    /\ step' = IF "checkin" \in devState THEN "terms" ELSE "save checkin"
    /\ UNCHANGED <<stateFile, left, device, lost>>

\* checkTos: what it fetched is kept only if there were terms to accept.
CheckTos ==
    /\ device # NoDevice /\ step = "terms"
    /\ \E accepted \in SUBSET ({"terms"} \ devState) : Make(accepted)
    /\ step' = "save terms"
    /\ UNCHANGED <<stateFile, left, device, lost>>

\* The constructor goes on, or the next one begins.
Save ==
    /\ device # NoDevice /\ step \in Saves
    /\ stateFile' = [stateFile EXCEPT ![device] = devState]
    /\ \/ step = "save fields" /\ step' = "login" /\ UNCHANGED <<left, device, devState>>
       \/ step = "save checkin" /\ step' = "terms" /\ UNCHANGED <<left, device, devState>>
       \/ /\ step = "save terms"
          /\ left' = left \ {device}
          /\ device' = NoDevice /\ step' = "load" /\ devState' = {}
    /\ UNCHANGED <<made, lost>>

Construct == (\E d \in Devices : LoadState(d)) \/ GenerateFields \/ CheckIn \/ CheckTos \/ Save

Constructed == left = {} /\ device = NoDevice

-----------------------------------------------------------------------------
\* deleteStateData.
Unlink(d) ==
    /\ stateFile' = [stateFile EXCEPT ![d] = {}]
    /\ lost' = [lost EXCEPT ![d] =
                    [i \in Items |-> IF i \in stateFile[d] THEN @[i] + 1 ELSE @[i]]]

\* The process ends.  During a write the file holds the old contents, or any
\* part of the new.
Tear ==
    /\ IF device # NoDevice /\ step \in Saves
       THEN \E rest \in SUBSET devState :
              /\ stateFile' = [stateFile EXCEPT ![device] = rest]
              /\ lost' = [lost EXCEPT ![device] =
                            [i \in Items |-> IF i \in devState \ rest THEN @[i] + 1 ELSE @[i]]]
       ELSE UNCHANGED <<stateFile, lost>>
    /\ left' = {} /\ device' = NoDevice /\ step' = "load" /\ devState' = {}
    /\ UNCHANGED made

-----------------------------------------------------------------------------
\* A device checks in once, accepts the terms once and keeps its generated
\* fields, over all starts of the process: what an exception, an assertion or
\* a crash of a later constructor interrupts is not done again, unless a write
\* was torn or !cleargplay deleted the file.
MadeOnce == \A d \in Devices : \A i \in Items : made[d][i] <= 1 + lost[d][i]

\* Why: what a device has is in its file, except while it is being saved.
Has(d) == IF device = d THEN devState ELSE stateFile[d]

DeviceInv ==
    /\ device # NoDevice =>
            IF step \in Saves THEN stateFile[device] \subseteq devState
                             ELSE stateFile[device] = devState
    /\ \A d \in Devices : \A i \in Items :
            made[d][i] <= lost[d][i] + (IF i \in Has(d) THEN 1 ELSE 0)
=============================================================================
