---------------------------- MODULE ServerProofs ----------------------------
(***************************************************************************)
(* Proofs about Server, for any number of devices, variants, channels and  *)
(* ends of the process: a device checks in once, a message that fails      *)
(* takes with it the rest of its own callback only, and no order of the    *)
(* threads' steps makes them wait for each other without a signal.         *)
(*                                                                         *)
(* ServerInv is inductive.  Each mutex is held in the states the code      *)
(* holds it in and in no other (LocksInv); what a device has made up or    *)
(* fetched is in its state file, unless the file is being written or lost  *)
(* it (DeviceInv); a callback that was called has told its targets, or is  *)
(* the one that runs and has the rest of them to tell (CallsInv).          *)
(***************************************************************************)
EXTENDS Server, TLAPS, SequenceTheorems

(***************************************************************************)
(* The devices.                                                            *)
(***************************************************************************)

\* What the constructor of a device makes is counted for that device.
LEMMA MakeEffect ==
    ASSUME DeviceTypeOK, device \in Devices, NEW items \in SUBSET Items, Make(items)
    PROVE  /\ devState' = devState \cup items
           /\ made' \in [Devices -> [Items -> Nat]]
           /\ \A d \in Devices : d # device => made'[d] = made[d]
           /\ \A i \in Items : made'[device][i] = IF i \in items THEN made[device][i] + 1
                                                  ELSE made[device][i]
<1> DEFINE row == [i \in Items |-> IF i \in items THEN made[device][i] + 1 ELSE made[device][i]]
<1>1. made' = [made EXCEPT ![device] = row] /\ devState' = devState \cup items
  BY DEF Make
<1>2. row \in [Items -> Nat] /\ made \in [Devices -> [Items -> Nat]]
  BY DEF DeviceTypeOK
<1>3. \A i \in Items : row[i] = IF i \in items THEN made[device][i] + 1 ELSE made[device][i]
  OBVIOUS
<1> HIDE DEF row
<1>4. /\ made'[device] = row /\ \A d \in Devices : d # device => made'[d] = made[d]
      /\ made' \in [Devices -> [Items -> Nat]]
  BY <1>1, <1>2
<1> QED
  BY <1>1, <1>3, <1>4

\* What a device loses is counted for that device.
LEMMA LoseEffect ==
    ASSUME DeviceTypeOK, NEW d \in Devices, NEW items,
           lost' = [lost EXCEPT ![d] = [i \in Items |-> IF i \in items THEN lost[d][i] + 1
                                                        ELSE lost[d][i]]]
    PROVE  /\ lost' \in [Devices -> [Items -> Nat]]
           /\ \A e \in Devices : e # d => lost'[e] = lost[e]
           /\ \A i \in Items : lost'[d][i] = IF i \in items THEN lost[d][i] + 1 ELSE lost[d][i]
<1> DEFINE row == [i \in Items |-> IF i \in items THEN lost[d][i] + 1 ELSE lost[d][i]]
<1>1. lost' = [lost EXCEPT ![d] = row]
  OBVIOUS
<1>2. row \in [Items -> Nat] /\ lost \in [Devices -> [Items -> Nat]]
  BY DEF DeviceTypeOK
<1>3. \A i \in Items : row[i] = IF i \in items THEN lost[d][i] + 1 ELSE lost[d][i]
  OBVIOUS
<1> HIDE DEF row
<1>4. /\ lost'[d] = row /\ \A e \in Devices : e # d => lost'[e] = lost[e]
      /\ lost' \in [Devices -> [Items -> Nat]]
  BY <1>1, <1>2
<1> QED
  BY <1>3, <1>4

\* Making up fields, checking in and accepting the terms make only what the
\* device lacks, which the next write brings into the file.
LEMMA MakeStep ==
    ASSUME DeviceTypeOK, DeviceInv, GenerateFields \/ CheckIn \/ CheckTos
    PROVE  DeviceTypeOK' /\ DeviceInv'
<1>1. PICK items \in SUBSET Items :
        /\ Make(items) /\ items \cap devState = {}
        /\ items # {} => step' \in Saves
        /\ step \in {"load", "login", "terms"}
        /\ step' \in Saves \cup {"terms"}
        /\ device # NoDevice /\ UNCHANGED <<stateFile, left, device, lost>>
  <2>1. CASE GenerateFields
    BY <2>1 DEF GenerateFields, Saves, Items
  <2>2. CASE CheckIn
    BY <2>2 DEF CheckIn, Saves, Items
  <2>3. CASE CheckTos
    <3>1. PICK accepted \in SUBSET ({"terms"} \ devState) : Make(accepted)
      BY <2>3 DEF CheckTos
    <3> QED
      BY <2>3, <3>1 DEF CheckTos, Saves, Items
  <2> QED
    BY <2>1, <2>2, <2>3
<1>2. device \in Devices
  BY <1>1 DEF DeviceTypeOK
<1>3. /\ devState' = devState \cup items
      /\ made' \in [Devices -> [Items -> Nat]]
      /\ \A d \in Devices : d # device => made'[d] = made[d]
      /\ \A i \in Items : made'[device][i] = IF i \in items THEN made[device][i] + 1
                                             ELSE made[device][i]
  BY <1>1, <1>2, MakeEffect
<1>4. DeviceTypeOK'
  BY <1>1, <1>3 DEF DeviceTypeOK, Steps
<1>5. stateFile[device] = devState
  BY <1>1 DEF DeviceInv, Saves
<1>6. IF step' \in Saves THEN stateFile'[device'] \subseteq devState'
                         ELSE stateFile'[device'] = devState'
  BY <1>1, <1>3, <1>5
<1>7. ASSUME NEW i \in Items
      PROVE  made'[device][i] <= lost[device][i] + (IF i \in devState' THEN 1 ELSE 0)
  <2>1. made[device][i] <= lost[device][i] + (IF i \in devState THEN 1 ELSE 0)
    BY <1>2 DEF DeviceInv, Has
  <2>2. made[device][i] \in Nat /\ lost[device][i] \in Nat
    BY <1>2 DEF DeviceTypeOK
  <2> QED
    BY <1>1, <1>3, <2>1, <2>2
<1>8. ASSUME NEW d \in Devices, NEW i \in Items
      PROVE  made'[d][i] <= lost[d][i] + (IF i \in Has(d)' THEN 1 ELSE 0)
  BY <1>1, <1>2, <1>3, <1>7 DEF DeviceInv, Has
<1> QED
  BY <1>1, <1>4, <1>6, <1>8 DEF DeviceInv

\* An end of the process loses no more than it counts.
LEMMA LoseStep ==
    ASSUME DeviceTypeOK, DeviceInv, Tear
    PROVE  DeviceTypeOK' /\ DeviceInv' /\ device' = NoDevice
<1>1. /\ left' = {} /\ device' = NoDevice /\ step' = "load" /\ devState' = {} /\ made' = made
  BY DEF Tear
<1>2. CASE ~(device # NoDevice /\ step \in Saves)
  <2>1. UNCHANGED <<stateFile, lost>>
    BY <1>2 DEF Tear
  <2>2. DeviceTypeOK'
    BY <1>1, <2>1 DEF DeviceTypeOK, Steps
  <2>3. \A d \in Devices : Has(d)' = stateFile[d] /\ Has(d) = stateFile[d]
    BY <1>1, <1>2, <2>1, ServerAssumption DEF Has, DeviceInv
  <2> QED
    BY <1>1, <2>1, <2>2, <2>3 DEF DeviceInv
<1>3. CASE device # NoDevice /\ step \in Saves
  <2>1. PICK rest \in SUBSET devState :
            /\ stateFile' = [stateFile EXCEPT ![device] = rest]
            /\ lost' = [lost EXCEPT ![device] = [i \in Items |->
                            IF i \in devState \ rest THEN lost[device][i] + 1 ELSE lost[device][i]]]
    BY <1>3 DEF Tear
  <2>2. device \in Devices /\ rest \subseteq Items
    BY <1>3 DEF DeviceTypeOK
  <2>3. /\ lost' \in [Devices -> [Items -> Nat]]
        /\ \A e \in Devices : e # device => lost'[e] = lost[e]
        /\ \A i \in Items : lost'[device][i] = IF i \in devState \ rest THEN lost[device][i] + 1
                                               ELSE lost[device][i]
    BY <2>1, <2>2, LoseEffect
  <2>4. /\ stateFile' \in [Devices -> SUBSET Items] /\ stateFile'[device] = rest
        /\ \A e \in Devices : e # device => stateFile'[e] = stateFile[e]
    BY <2>1, <2>2 DEF DeviceTypeOK
  <2>5. DeviceTypeOK'
    BY <1>1, <2>3, <2>4 DEF DeviceTypeOK, Steps
  <2>6. ASSUME NEW i \in Items
        PROVE  made[device][i] <= lost'[device][i] + (IF i \in rest THEN 1 ELSE 0)
    <3>1. made[device][i] <= lost[device][i] + (IF i \in devState THEN 1 ELSE 0)
      BY <2>2 DEF DeviceInv, Has
    <3>2. made[device][i] \in Nat /\ lost[device][i] \in Nat
      BY <2>2 DEF DeviceTypeOK
    <3> QED
      BY <2>3, <3>1, <3>2
  <2>7. \A d \in Devices : Has(d)' = stateFile'[d]
    BY <1>1, ServerAssumption DEF Has
  <2>8. ASSUME NEW d \in Devices, NEW i \in Items
        PROVE  made[d][i] <= lost'[d][i] + (IF i \in stateFile'[d] THEN 1 ELSE 0)
    BY <2>2, <2>3, <2>4, <2>6 DEF DeviceInv, Has
  <2> QED
    BY <1>1, <2>5, <2>7, <2>8 DEF DeviceInv
<1> QED
  BY <1>2, <1>3

\* Nor does !cleargplay, which runs with no constructor.
LEMMA UnlinkStep ==
    ASSUME DeviceTypeOK, DeviceInv, device = NoDevice, NEW d \in Devices, Unlink(d),
           UNCHANGED <<device, step, devState, made>>, left' \subseteq left
    PROVE  DeviceTypeOK' /\ DeviceInv'
<1>1. /\ stateFile' = [stateFile EXCEPT ![d] = {}]
      /\ lost' = [lost EXCEPT ![d] = [i \in Items |->
                        IF i \in stateFile[d] THEN lost[d][i] + 1 ELSE lost[d][i]]]
  BY DEF Unlink
<1>2. /\ lost' \in [Devices -> [Items -> Nat]]
      /\ \A e \in Devices : e # d => lost'[e] = lost[e]
      /\ \A i \in Items : lost'[d][i] = IF i \in stateFile[d] THEN lost[d][i] + 1 ELSE lost[d][i]
  BY <1>1, LoseEffect
<1>3. /\ stateFile' \in [Devices -> SUBSET Items] /\ stateFile'[d] = {}
      /\ \A e \in Devices : e # d => stateFile'[e] = stateFile[e]
  BY <1>1 DEF DeviceTypeOK
<1>4. DeviceTypeOK'
  BY <1>2, <1>3 DEF DeviceTypeOK
<1>5. ASSUME NEW i \in Items PROVE made[d][i] <= lost'[d][i]
  <2>1. made[d][i] <= lost[d][i] + (IF i \in stateFile[d] THEN 1 ELSE 0)
    BY ServerAssumption DEF DeviceInv, Has
  <2>2. made[d][i] \in Nat /\ lost[d][i] \in Nat
    BY DEF DeviceTypeOK
  <2> QED
    BY <1>2, <2>1, <2>2
<1>6. ASSUME NEW e \in Devices, NEW i \in Items
      PROVE  made[e][i] <= lost'[e][i] + (IF i \in stateFile'[e] THEN 1 ELSE 0)
  <2>1. CASE e = d
    <3>1. made[d][i] \in Nat /\ lost'[d][i] \in Nat
      BY <1>2 DEF DeviceTypeOK
    <3> QED
      BY <1>3, <1>5, <2>1, <3>1
  <2>2. CASE e # d
    BY <1>2, <1>3, <2>2, ServerAssumption DEF DeviceInv, Has
  <2> QED
    BY <2>1, <2>2
<1>7. \A e \in Devices : Has(e)' = stateFile'[e]
  BY ServerAssumption DEF Has
<1> QED
  BY <1>4, <1>6, <1>7 DEF DeviceInv

\* Every step of a constructor keeps DeviceInv.
LEMMA ConstructStep ==
    ASSUME DeviceTypeOK, DeviceInv, Construct
    PROVE  DeviceTypeOK' /\ DeviceInv'
<1>1. ASSUME NEW d \in Devices, LoadState(d) PROVE DeviceTypeOK' /\ DeviceInv'
  <2>1. /\ device = NoDevice /\ device' = d /\ step' = "load" /\ devState' = stateFile[d]
        /\ UNCHANGED <<stateFile, left, made, lost>>
    BY <1>1 DEF LoadState
  <2>2. DeviceTypeOK'
    BY <2>1 DEF DeviceTypeOK, Steps
  <2>3. \A e \in Devices : Has(e)' = Has(e)
    BY <2>1, ServerAssumption DEF Has
  <2> QED
    BY <2>1, <2>2, <2>3 DEF DeviceInv, Saves
<1>2. CASE Save
  <2>1. /\ device # NoDevice /\ step \in Saves
        /\ stateFile' = [stateFile EXCEPT ![device] = devState]
        /\ UNCHANGED <<made, lost>>
        /\ \/ step' \in {"login", "terms"} /\ UNCHANGED <<left, device, devState>>
           \/ left' = left \ {device} /\ device' = NoDevice /\ step' = "load" /\ devState' = {}
    BY <1>2 DEF Save
  <2>2. device \in Devices
    BY <2>1 DEF DeviceTypeOK
  <2>3. /\ stateFile' \in [Devices -> SUBSET Items] /\ stateFile'[device] = devState
        /\ \A e \in Devices : e # device => stateFile'[e] = stateFile[e]
    BY <2>1, <2>2 DEF DeviceTypeOK
  <2>4. DeviceTypeOK'
    BY <2>1, <2>3 DEF DeviceTypeOK, Steps
  <2>5. \A e \in Devices : Has(e)' = Has(e)
    BY <2>1, <2>3, ServerAssumption DEF Has
  <2> QED
    BY <2>1, <2>2, <2>3, <2>4, <2>5 DEF DeviceInv, Saves
<1> QED
  BY <1>1, <1>2, MakeStep DEF Construct

(***************************************************************************)
(* The threads and their mutexes.                                          *)
(***************************************************************************)

\* The steps, one by one.
LEMMA ServerSteps ==
    ASSUME [Next]_vars
    PROVE  \/ Start \/ BuildDevices \/ StartThreads \/ Get \/ LinkLocks \/ LinkEnds \/ EndDownload
           \/ Answer \/ Restart \/ BeginReading \/ BeginLink \/ ForceCheck \/ BeginDownload
           \/ BeginClear \/ PlayLocks \/ Checked \/ Callbacks \/ CallbacksDone \/ Download
           \/ Record \/ PlayWakes \/ WinLocks \/ WinChecked \/ WinUrl \/ WinSaves \/ WinWakes
           \/ Crash \/ StoreSession \/ UNCHANGED vars
           \/ \E d \in Devices : Clear(d)
           \/ \E t \in Threads : Signal(t)
  BY DEF Next, MainStep, Command, PlayStep, WinStep

\* Every step keeps DeviceInv, and the devices are constructed by main().
LEMMA DevicesStep ==
    ASSUME TypeOK, DeviceInv, device # NoDevice => main = "devices", [Next]_vars
    PROVE  DeviceTypeOK' /\ DeviceInv' /\ (device' # NoDevice => main' = "devices")
<1> USE DEF threadVars
<1>a. DeviceTypeOK
  BY DEF TypeOK
<1>1. ASSUME UNCHANGED <<stateFile, device, step, devState, made, lost>>, left' \subseteq Devices
      PROVE  DeviceTypeOK' /\ DeviceInv'
  BY <1>a, <1>1 DEF DeviceTypeOK, DeviceInv, Has
<1>2. ASSUME UNCHANGED deviceVars PROVE DeviceTypeOK' /\ DeviceInv'
  BY <1>a, <1>1, <1>2 DEF deviceVars, DeviceTypeOK
<1>3. CASE Start \/ BeginClear
  <2>1. UNCHANGED <<stateFile, device, step, devState, made, lost>> /\ left' \subseteq Devices
    BY <1>3 DEF Start, BeginClear
  <2>2. device = NoDevice
    BY <1>3 DEF Start, BeginClear
  <2> QED
    BY <1>1, <2>1, <2>2
<1>4. CASE BuildDevices
  BY <1>a, <1>4, ConstructStep DEF BuildDevices
<1>5. CASE StartThreads
  BY <1>2, <1>5 DEF StartThreads, Constructed, deviceVars
<1>6. CASE Crash \/ StoreSession
  <2>1. Tear
    BY <1>6 DEF Crash, StoreSession
  <2> QED
    BY <1>a, <2>1, LoseStep
<1>7. ASSUME NEW d \in Devices, Clear(d)
      PROVE  DeviceTypeOK' /\ DeviceInv' /\ (device' # NoDevice => main' = "devices")
  <2>1. /\ device = NoDevice /\ Unlink(d) /\ left' \subseteq left
        /\ UNCHANGED <<device, step, devState, made>>
    BY <1>7 DEF Clear
  <2> QED
    BY <1>a, <2>1, UnlinkStep
<1>8. CASE Restart
  BY <1>2, <1>8 DEF Restart, deviceVars
<1>9. CASE \/ Get \/ LinkLocks \/ LinkEnds \/ EndDownload \/ Answer \/ BeginReading \/ BeginLink
           \/ ForceCheck \/ BeginDownload
  <2>1. UNCHANGED deviceVars /\ main # "devices"
    BY <1>9 DEF Get, LinkLocks, LinkEnds, EndDownload, Answer, BeginReading, BeginLink,
       ForceCheck, BeginDownload
  <2> QED
    BY <1>2, <2>1 DEF deviceVars
<1>10. CASE \/ PlayLocks \/ Checked \/ Callbacks \/ CallbacksDone \/ Download \/ Record
            \/ PlayWakes \/ WinLocks \/ WinChecked \/ WinUrl \/ WinSaves \/ WinWakes
            \/ UNCHANGED vars \/ \E t \in Threads : Signal(t)
  <2>1. UNCHANGED deviceVars /\ main' = main
    BY <1>10 DEF PlayLocks, Checked, Callbacks, CallbacksDone, Download, Record, PlayWakes,
       WinLocks, WinChecked, WinUrl, WinSaves, WinWakes, vars, Signal
  <2> QED
    BY <1>2, <2>1 DEF deviceVars
<1> QED
  BY ServerSteps, <1>3, <1>4, <1>5, <1>6, <1>7, <1>8, <1>9, <1>10

\* Every step keeps the types of the threads.
LEMMA ThreadTypes ==
    ASSUME TypeOK, [Next]_vars
    PROVE  /\ main' \in MainPC /\ play' \in PlayPC /\ win' \in WinPC
           /\ reads' \in Seq({"data", "w10"})
           /\ handler' \in Threads \cup {"none"}
           /\ ends' \in 0 .. MaxEnds
<1> USE DEF TypeOK, threadVars, MainPC, PlayPC, WinPC
<1>1. CASE Start \/ BuildDevices \/ StartThreads \/ LinkLocks \/ LinkEnds \/ EndDownload \/ Answer
  BY <1>1 DEF Start, BuildDevices, StartThreads, LinkLocks, LinkEnds, EndDownload, Answer
<1>2. CASE BeginReading \/ BeginLink \/ ForceCheck \/ BeginDownload \/ BeginClear
  <2>a. <<"data", "data">> \in Seq({"data", "w10"}) /\ <<"data", "w10">> \in Seq({"data", "w10"})
    OBVIOUS
  <2>b. reads' = reads \/ reads' \in {<<"data", "data">>, <<"data", "w10">>}
    BY <1>2 DEF BeginReading, BeginLink, ForceCheck, BeginDownload, BeginClear
  <2>1. reads' \in Seq({"data", "w10"})
    BY <2>a, <2>b
  <2> QED
    BY <1>2, <2>1 DEF BeginReading, BeginLink, ForceCheck, BeginDownload, BeginClear
<1>3. CASE Get
  BY <1>3 DEF Get
<1>4. CASE Restart \/ Crash \/ StoreSession
  <2>1. EndProcess
    BY <1>4 DEF Restart, Crash, StoreSession
  <2>2. ends \in 0 .. MaxEnds /\ ends < MaxEnds /\ ends' = ends + 1
    BY <2>1 DEF EndProcess
  <2>3. ends' \in 0 .. MaxEnds
    BY ONLY <2>2, ServerAssumption
  <2> QED
    BY <2>1, <2>3 DEF EndProcess
<1>5. CASE PlayLocks \/ Checked \/ Callbacks \/ CallbacksDone \/ Download \/ Record \/ PlayWakes
  BY <1>5 DEF PlayLocks, Checked, Callbacks, CallbacksDone, Download, Record, PlayWakes
<1>6. CASE WinLocks \/ WinChecked \/ WinUrl \/ WinSaves \/ WinWakes \/ UNCHANGED vars
  BY <1>6 DEF WinLocks, WinChecked, WinUrl, WinSaves, WinWakes, vars
<1>7. ASSUME NEW t \in Threads, Signal(t)
      PROVE  /\ UNCHANGED <<main, play, win, reads, ends>> /\ handler' \in Threads
  BY <1>7 DEF Signal
<1>8. ASSUME NEW d \in Devices, Clear(d) PROVE UNCHANGED <<threadVars, ends>>
  BY <1>8 DEF Clear
<1> QED
  BY ServerSteps, <1>1, <1>2, <1>3, <1>4, <1>5, <1>6, <1>7, <1>8

\* Taking or releasing a mutex leaves the other ones alone.
LEMMA OwnerChanges ==
    ASSUME TypeOK, NEW m \in Mutexes, NEW t \in Threads \cup {"free"},
           owner' = [owner EXCEPT ![m] = t]
    PROVE  /\ owner'[m] = t /\ \A k \in Mutexes : k # m => owner'[k] = owner[k]
           /\ owner' \in [Mutexes -> Threads \cup {"free"}]
  BY DEF TypeOK

\* Every step keeps LocksInv.
LEMMA LocksStep ==
    ASSUME TypeOK, LocksInv, [Next]_vars
    PROVE  LocksInv' /\ owner' \in [Mutexes -> Threads \cup {"free"}]
<1> USE DEF threadVars, LocksInv, Busy, Take, Release, Holding
<1>a. owner \in [Mutexes -> Threads \cup {"free"}]
  BY DEF TypeOK
<1>b. "conn" \in Mutexes /\ "data" \in Mutexes /\ "w10" \in Mutexes
  BY DEF Mutexes
<1>c. "main" \in Threads /\ "play" \in Threads /\ "win" \in Threads
  BY DEF Threads
<1>1a. CASE Start \/ StartThreads
  <2>1. /\ main \in {"off", "devices"} /\ main' \in {"devices", "idle"} /\ owner' = owner
        /\ \/ main' = "devices" /\ play' = play /\ win' = win
           \/ main' = "idle" /\ play' = "lock" /\ win' = "lock"
    BY <1>1a DEF Start, StartThreads
  <2>2. play = "none" /\ win = "none"
    BY <2>1
  <2> QED
    BY <1>a, <2>1, <2>2
<1>1b. CASE BuildDevices \/ Get \/ EndDownload
  <2>1. /\ main' = main \/ (main = "download" /\ main' = "reading")
        /\ owner' = owner /\ play' = play /\ win' = win
    BY <1>1b DEF BuildDevices, Get, EndDownload
  <2> QED
    BY <1>a, <2>1
<1>1c. CASE \/ Callbacks \/ CallbacksDone \/ Download \/ Record \/ PlayWakes
            \/ WinUrl \/ WinSaves \/ WinWakes
  <2>1. /\ owner' = owner /\ main' = main
        /\ play' = play \/ play \in PlayPC \ {"none", "check"}
        /\ play' = play \/ play' # "check"
        /\ win' = win \/ win \in WinPC \ {"none", "check"}
        /\ win' = win \/ win' # "check"
    BY <1>1c DEF Callbacks, CallbacksDone, Download, Record, PlayWakes, WinUrl, WinSaves, WinWakes,
       PlayPC, WinPC
  <2> QED
    BY <1>a, <2>1 DEF PlayPC, WinPC
<1>2. CASE UNCHANGED vars
  BY <1>a, <1>2 DEF vars
<1>3. CASE BeginReading \/ BeginLink \/ ForceCheck \/ BeginDownload \/ BeginClear
  <2>1. owner' = [owner EXCEPT !["conn"] = "main"]
    BY <1>3 DEF BeginReading, BeginLink, ForceCheck, BeginDownload, BeginClear
  <2>2. owner'["conn"] = "main" /\ owner'["data"] = owner["data"] /\ owner'["w10"] = owner["w10"]
        /\ owner' \in [Mutexes -> Threads \cup {"free"}]
    BY <1>b, <1>c, <2>1, OwnerChanges
  <2>3. /\ main = "idle" /\ main' \in {"reading", "link", "download", "clear"}
        /\ play' = play \/ (play = "wait" /\ play' = "lock")
        /\ win' = win
    BY <1>3 DEF BeginReading, BeginLink, ForceCheck, BeginDownload, BeginClear
  <2> QED
    BY <2>2, <2>3
<1>4. CASE LinkLocks
  <2>1. owner["w10"] = "free" /\ owner' = [owner EXCEPT !["w10"] = "main"]
    BY <1>4 DEF LinkLocks
  <2>2. owner'["conn"] = owner["conn"] /\ owner'["data"] = owner["data"] /\ owner'["w10"] = "main"
        /\ owner' \in [Mutexes -> Threads \cup {"free"}]
    BY <1>b, <1>c, <2>1, OwnerChanges
  <2>3. main = "link" /\ main' = "fetch" /\ UNCHANGED <<play, win>>
    BY <1>4 DEF LinkLocks
  <2> QED
    BY <2>1, <2>2, <2>3
<1>5. CASE LinkEnds
  <2>1. owner' = [owner EXCEPT !["w10"] = "free"]
    BY <1>5 DEF LinkEnds
  <2>2. owner'["conn"] = owner["conn"] /\ owner'["data"] = owner["data"] /\ owner'["w10"] = "free"
        /\ owner' \in [Mutexes -> Threads \cup {"free"}]
    BY <1>b, <2>1, OwnerChanges
  <2>3. main = "fetch" /\ main' = "reading" /\ UNCHANGED <<play, win>>
    BY <1>5 DEF LinkEnds
  <2> QED
    BY <2>2, <2>3
<1>6. CASE Answer
  <2>1. owner' = [owner EXCEPT !["conn"] = "free"]
    BY <1>6 DEF Answer
  <2>2. owner'["conn"] = "free" /\ owner'["data"] = owner["data"] /\ owner'["w10"] = owner["w10"]
        /\ owner' \in [Mutexes -> Threads \cup {"free"}]
    BY <1>b, <2>1, OwnerChanges
  <2>3. main = "reading" /\ main' = "idle" /\ UNCHANGED <<play, win>>
    BY <1>6 DEF Answer
  <2> QED
    BY <2>2, <2>3
<1>7. CASE Restart \/ Crash \/ StoreSession
  <2>1. main' = "off" /\ play' = "none" /\ win' = "none" /\ owner' = Free
    BY <1>7 DEF Restart, Crash, StoreSession, EndProcess
  <2>2. /\ owner' \in [Mutexes -> Threads \cup {"free"}]
        /\ owner'["conn"] = "free" /\ owner'["data"] = "free" /\ owner'["w10"] = "free"
    BY <1>b, <2>1 DEF Free
  <2> QED
    BY <2>1, <2>2
<1>8. CASE PlayLocks
  <2>1. owner' = [owner EXCEPT !["data"] = "play"]
    BY <1>8 DEF PlayLocks
  <2>2. owner'["conn"] = owner["conn"] /\ owner'["data"] = "play" /\ owner'["w10"] = owner["w10"]
        /\ owner' \in [Mutexes -> Threads \cup {"free"}]
    BY <1>b, <1>c, <2>1, OwnerChanges
  <2>3. play = "lock" /\ play' = "check" /\ UNCHANGED <<main, win>>
    BY <1>8 DEF PlayLocks
  <2> QED
    BY <2>2, <2>3
<1>9. CASE Checked
  <2>1. owner' = [owner EXCEPT !["data"] = "free"]
    BY <1>9 DEF Checked
  <2>2. owner'["conn"] = owner["conn"] /\ owner'["data"] = "free" /\ owner'["w10"] = owner["w10"]
        /\ owner' \in [Mutexes -> Threads \cup {"free"}]
    BY <1>b, <2>1, OwnerChanges
  <2>3. play = "check" /\ play' = "calls" /\ UNCHANGED <<main, win>>
    BY <1>9 DEF Checked
  <2> QED
    BY <2>2, <2>3
<1>10. CASE WinLocks
  <2>1. owner["w10"] = "free" /\ owner' = [owner EXCEPT !["w10"] = "win"]
    BY <1>10 DEF WinLocks
  <2>2. owner'["conn"] = owner["conn"] /\ owner'["data"] = owner["data"] /\ owner'["w10"] = "win"
        /\ owner' \in [Mutexes -> Threads \cup {"free"}]
    BY <1>b, <1>c, <2>1, OwnerChanges
  <2>3. win = "lock" /\ win' = "check" /\ UNCHANGED <<main, play>>
    BY <1>10 DEF WinLocks
  <2> QED
    BY <2>1, <2>2, <2>3
<1>11. CASE WinChecked
  <2>1. owner' = [owner EXCEPT !["w10"] = "free"]
    BY <1>11 DEF WinChecked
  <2>2. owner'["conn"] = owner["conn"] /\ owner'["data"] = owner["data"] /\ owner'["w10"] = "free"
        /\ owner' \in [Mutexes -> Threads \cup {"free"}]
    BY <1>b, <2>1, OwnerChanges
  <2>3. win = "check" /\ win' # "check" /\ UNCHANGED <<main, play>>
    BY <1>11 DEF WinChecked
  <2> QED
    BY <2>2, <2>3
<1>12. ASSUME NEW t \in Threads, Signal(t) PROVE UNCHANGED <<main, play, win, owner>>
  BY <1>12 DEF Signal
<1>13. ASSUME NEW d \in Devices, Clear(d) PROVE UNCHANGED <<main, play, win, owner>>
  BY <1>13 DEF Clear
<1> QED
  BY ServerSteps, <1>a, <1>1a, <1>1b, <1>1c, <1>2, <1>3, <1>4, <1>5, <1>6, <1>7, <1>8, <1>9,
     <1>10, <1>11, <1>12, <1>13

(***************************************************************************)
(* The callbacks of a check.                                               *)
(***************************************************************************)

\* What a callback announces to is a sequence.
LEMMA TargetsType ==
    ASSUME NEW v, NEW cb
    PROVE  Targets(v, cb) \in Seq(ToSet(DiscordChannels) \cup ToSet(TelegramTargets))
<1> DEFINE D == ToSet(DiscordChannels)  T == ToSet(TelegramTargets)
<1>1. DiscordChannels \in Seq(D) /\ TelegramTargets \in Seq(T)
  BY AnnouncementsAssumption
<1> HIDE DEF D, T
<1>2. DiscordChannels \in Seq(D \cup T) /\ TelegramTargets \in Seq(D \cup T)
  BY <1>1
<1>3. Targets(v, cb) \in Seq(D \cup T)
  BY <1>2 DEF Targets
<1> QED
  BY <1>3 DEF D, T

\* A sequence of which nothing is left was told to its end.
LEMMA NothingLeft ==
    ASSUME NEW S, NEW all \in Seq(S), NEW n \in 0 .. Len(all), SubSeq(all, n + 1, Len(all)) = <<>>
    PROVE  n = Len(all)
<1>1. Len(all) \in Nat /\ n \in Nat /\ n <= Len(all)
  OBVIOUS
<1>2. CASE n < Len(all)
  <2>1. Len(SubSeq(all, n + 1, Len(all))) = Len(all) - n
    BY <1>1, <1>2
  <2>2. Len(SubSeq(all, n + 1, Len(all))) = 0
    BY Zenon, EmptySeq
  <2> QED
    BY <1>1, <1>2, <2>1, <2>2
<1> QED
  BY <1>1, <1>2

\* Messages that were told or that failed stay so during a round.
LEMMA ToldGrows ==
    ASSUME NEW v, NEW cb, NEW n, ToldUpTo(v, cb, n), told \subseteq told', failed \subseteq failed'
    PROVE  ToldUpTo(v, cb, n)'
  BY DEF ToldUpTo, Targets

\* A callback begins with all of its targets.
LEMMA CallStep ==
    ASSUME CallsInv, Call PROVE CallsInv'
<1>1. /\ UNCHANGED <<round, told, failed>> /\ targets = <<>>
      /\ call' \in calls /\ calls' = calls \ {call'} /\ targets' = Targets(call'[1], call'[2])
  BY DEF Call
<1> SUFFICES ASSUME NEW v \in round', NEW cb \in ToSet(newVersionCallback), <<v, cb>> \notin calls'
             PROVE  \/ ToldUpTo(v, cb, Len(Targets(v, cb)))'
                    \/ /\ call' = <<v, cb>>
                       /\ \E n \in 0 .. Len(Targets(v, cb)) :
                            /\ ToldUpTo(v, cb, n)'
                            /\ targets' = SubSeq(Targets(v, cb), n + 1, Len(Targets(v, cb)))
  BY DEF CallsInv, Targets
<1> DEFINE all == Targets(v, cb)
<1>2. PICK S : all \in Seq(S)
  BY TargetsType
<1>3. Len(all) \in Nat
  BY <1>2
<1>4. CASE <<v, cb>> = call'
  <2>1. targets' = all
    BY <1>1, <1>4
  <2>2. ToldUpTo(v, cb, 0)'
    BY DEF ToldUpTo
  <2>3. all = SubSeq(all, 0 + 1, Len(all))
    BY <1>2
  <2>4. 0 \in 0 .. Len(all)
    BY <1>3
  <2> QED
    BY <1>4, <2>1, <2>2, <2>3, <2>4
<1>5. CASE <<v, cb>> # call'
  <2>1. v \in round /\ <<v, cb>> \notin calls
    BY <1>1, <1>5
  <2>2. ToldUpTo(v, cb, Len(all))
    <3>1. CASE ToldUpTo(v, cb, Len(all))
      BY <3>1
    <3>2. CASE \E n \in 0 .. Len(all) :
                    ToldUpTo(v, cb, n) /\ targets = SubSeq(all, n + 1, Len(all))
      <4>1. PICK n \in 0 .. Len(all) : ToldUpTo(v, cb, n) /\ <<>> = SubSeq(all, n + 1, Len(all))
        BY <1>1, <3>2
      <4>2. n = Len(all)
        BY <1>2, <1>3, <4>1, NothingLeft
      <4> QED
        BY <4>1, <4>2
    <3> QED
      BY <2>1, <3>1, <3>2 DEF CallsInv
  <2>3. told \subseteq told' /\ failed \subseteq failed'
    BY <1>1
  <2> QED
    BY <2>2, <2>3, ToldGrows DEF Targets
<1> QED
  BY <1>4, <1>5

\* A message told moves the callback that runs to its next target.
LEMMA TellStep ==
    ASSUME CallsInv, Tell PROVE CallsInv'
<1>1. /\ UNCHANGED <<round, calls, call, failed>> /\ targets # <<>>
      /\ told' = told \cup {<<call[1], call[2], Head(targets)>>} /\ targets' = Tail(targets)
  BY DEF Tell
<1> SUFFICES ASSUME NEW v \in round, NEW cb \in ToSet(newVersionCallback),
                    <<v, cb>> \notin calls, ~ToldUpTo(v, cb, Len(Targets(v, cb)))'
             PROVE  /\ call' = <<v, cb>>
                    /\ \E n \in 0 .. Len(Targets(v, cb)) :
                            /\ ToldUpTo(v, cb, n)'
                            /\ targets' = SubSeq(Targets(v, cb), n + 1, Len(Targets(v, cb)))
  BY <1>1 DEF CallsInv, Targets
<1> DEFINE all == Targets(v, cb)
<1>2. PICK S : all \in Seq(S)
  BY TargetsType
<1>3. Len(all) \in Nat
  BY <1>2
<1>4. told \subseteq told' /\ failed \subseteq failed'
  BY <1>1
<1>5. ~ToldUpTo(v, cb, Len(all))
  BY <1>4, ToldGrows DEF Targets
<1>6. /\ call = <<v, cb>>
      /\ \E n \in 0 .. Len(all) : ToldUpTo(v, cb, n) /\ targets = SubSeq(all, n + 1, Len(all))
  BY <1>5 DEF CallsInv
<1>7. PICK n \in 0 .. Len(all) : ToldUpTo(v, cb, n) /\ targets = SubSeq(all, n + 1, Len(all))
  BY <1>6
<1>8. n # Len(all)
  BY <1>5, <1>7
<1>9. n + 1 \in 1 .. Len(all) /\ n \in Nat
  BY <1>3, <1>8
<1>10. Head(targets) = all[n + 1] /\ Tail(targets) = SubSeq(all, n + 2, Len(all))
  BY <1>2, <1>3, <1>7, <1>9
<1>11. <<v, cb, all[n + 1]>> \in told'
  BY <1>1, <1>6, <1>10
<1>12. ToldUpTo(v, cb, n + 1)'
  <2> SUFFICES ASSUME NEW i \in 1 .. n + 1
               PROVE  \/ <<v, cb, all[i]>> \in told'
                      \/ \E k \in 1 .. i : <<v, cb, all[k]>> \in failed'
    BY DEF ToldUpTo, Targets
  <2>1. CASE i = n + 1
    BY <1>11, <2>1
  <2>2. CASE i \in 1 .. n
    BY <1>4, <1>7, <2>2 DEF ToldUpTo
  <2>3. i = n + 1 \/ i \in 1 .. n
    BY <1>9
  <2> QED
    BY <2>1, <2>2, <2>3
<1>13. n + 1 \in 0 .. Len(all) /\ (n + 1) + 1 = n + 2
  BY <1>3, <1>9
<1>14. targets' = SubSeq(all, (n + 1) + 1, Len(all))
  BY <1>1, <1>10, <1>13
<1> QED
  BY <1>1, <1>6, <1>12, <1>13, <1>14

\* A message that fails ends the callback that runs, and no other.
LEMMA TellFailsStep ==
    ASSUME CallsInv, TellFails PROVE CallsInv'
<1>1. /\ UNCHANGED <<round, calls, call, told>> /\ targets # <<>>
      /\ failed' = failed \cup {<<call[1], call[2], Head(targets)>>}
  BY DEF TellFails
<1> SUFFICES ASSUME NEW v \in round, NEW cb \in ToSet(newVersionCallback), <<v, cb>> \notin calls
             PROVE  ToldUpTo(v, cb, Len(Targets(v, cb)))'
  BY <1>1 DEF CallsInv, Targets
<1> DEFINE all == Targets(v, cb)
<1>2. PICK S : all \in Seq(S)
  BY TargetsType
<1>3. Len(all) \in Nat
  BY <1>2
<1>4. told \subseteq told' /\ failed \subseteq failed'
  BY <1>1
<1>5. CASE ToldUpTo(v, cb, Len(all))
  BY <1>4, <1>5, ToldGrows DEF Targets
<1>6. CASE ~ToldUpTo(v, cb, Len(all))
  <2>1. call = <<v, cb>>
    BY <1>6 DEF CallsInv
  <2>2. PICK n \in 0 .. Len(all) : ToldUpTo(v, cb, n) /\ targets = SubSeq(all, n + 1, Len(all))
    BY <1>6 DEF CallsInv
  <2>3. n # Len(all)
    BY <1>6, <2>2
  <2>4. n + 1 \in 1 .. Len(all) /\ n \in Nat
    BY <1>3, <2>3
  <2>5. Head(targets) = all[n + 1]
    BY <1>2, <1>3, <2>2, <2>4
  <2>6. <<v, cb, all[n + 1]>> \in failed'
    BY <1>1, <2>1, <2>5
  <2>7. ASSUME NEW i \in 1 .. Len(all)
        PROVE  \/ <<v, cb, all[i]>> \in told'
               \/ \E k \in 1 .. i : <<v, cb, all[k]>> \in failed'
    <3>1. CASE i \in 1 .. n
      BY <1>4, <2>2, <3>1 DEF ToldUpTo
    <3>2. CASE n + 1 \in 1 .. i
      BY <2>6, <3>2
    <3>3. i \in 1 .. n \/ n + 1 \in 1 .. i
      BY <1>3, <2>4
    <3> QED
      BY <3>1, <3>2, <3>3
  <2> QED
    BY <2>7 DEF ToldUpTo, Targets
<1> QED
  BY <1>5, <1>6

\* Every step keeps CallsInv.
LEMMA CallbacksStep ==
    ASSUME CallsInv, [Next]_vars PROVE CallsInv'
<1> USE DEF threadVars
<1>1. ASSUME UNCHANGED callVars PROVE CallsInv'
  <2>1. UNCHANGED <<round, calls, call, targets, told, failed>>
    BY <1>1 DEF callVars
  <2>2. \A v, cb : Targets(v, cb)' = Targets(v, cb)
    BY DEF Targets
  <2>3. \A v, cb, n : ToldUpTo(v, cb, n)' = ToldUpTo(v, cb, n)
    BY <2>1 DEF ToldUpTo, Targets
  <2> QED
    BY <2>1, <2>2, <2>3 DEF CallsInv
<1>2. ASSUME ForgetCalls PROVE CallsInv'
  BY <1>2 DEF ForgetCalls, CallsInv
<1>3. CASE \/ Start \/ BuildDevices \/ StartThreads \/ Get \/ LinkLocks \/ LinkEnds \/ EndDownload
           \/ Answer \/ BeginReading \/ BeginLink \/ ForceCheck \/ BeginDownload \/ BeginClear
  BY <1>1, <1>3 DEF Start, BuildDevices, StartThreads, Get, LinkLocks, LinkEnds, EndDownload,
     Answer, BeginReading, BeginLink, ForceCheck, BeginDownload, BeginClear
<1>4. CASE \/ PlayLocks \/ Download \/ Record \/ PlayWakes \/ WinLocks \/ WinChecked \/ WinUrl
           \/ WinSaves \/ WinWakes \/ UNCHANGED vars
  BY <1>1, <1>4 DEF PlayLocks, Download, Record, PlayWakes, WinLocks, WinChecked, WinUrl, WinSaves,
     WinWakes, vars
<1>5. ASSUME NEW t \in Threads, Signal(t) PROVE CallsInv'
  BY <1>1, <1>5 DEF Signal
<1>6. ASSUME NEW d \in Devices, Clear(d) PROVE CallsInv'
  BY <1>1, <1>6 DEF Clear
<1>7. CASE Restart \/ Crash \/ StoreSession \/ CallbacksDone
  BY <1>2, <1>7 DEF Restart, Crash, StoreSession, EndProcess, CallbacksDone
<1>8. CASE Checked
  <2>1. PICK new : BeginCalls(new)
    BY <1>8 DEF Checked
  <2>2. calls' = round' \X ToSet(newVersionCallback)
    BY <2>1 DEF BeginCalls
  <2> QED
    BY <2>2 DEF CallsInv
<1>9. CASE Callbacks
  BY <1>9, CallStep, TellStep, TellFailsStep DEF Callbacks
<1> QED
  BY ServerSteps, <1>3, <1>4, <1>5, <1>6, <1>7, <1>8, <1>9

(***************************************************************************)
(* The invariant, and what follows.                                        *)
(***************************************************************************)

\* The invariant holds at the start.
LEMMA InitInv == Init => ServerInv
<1> SUFFICES ASSUME Init PROVE ServerInv
  OBVIOUS
<1> USE ServerAssumption DEF Init
<1>1. DeviceTypeOK
  BY DEF InitDevices, DeviceTypeOK, Steps
<1>2. TypeOK
  <2>1. main \in MainPC /\ play \in PlayPC /\ win \in WinPC /\ handler \in Threads \cup {"none"}
    BY DEF MainPC, PlayPC, WinPC
  <2>2. reads \in Seq({"data", "w10"}) /\ owner \in [Mutexes -> Threads \cup {"free"}]
    BY DEF Free
  <2> QED
    BY <1>1, <2>1, <2>2 DEF TypeOK
<1>3. LocksInv
  BY DEF LocksInv, Free, Mutexes, Busy
<1>4. DeviceInv /\ device = NoDevice
  BY DEF InitDevices, DeviceInv, Has
<1>5. CallsInv
  BY DEF InitCalls, CallsInv
<1> QED
  BY <1>2, <1>3, <1>4, <1>5 DEF ServerInv

\* Every step keeps the invariant.
LEMMA ServerStep == ServerInv /\ [Next]_vars => ServerInv'
<1> SUFFICES ASSUME ServerInv, [Next]_vars PROVE ServerInv'
  OBVIOUS
<1>1. TypeOK /\ LocksInv /\ DeviceInv /\ CallsInv /\ (device # NoDevice => main = "devices")
  BY DEF ServerInv
<1>2. DeviceTypeOK' /\ DeviceInv' /\ (device' # NoDevice => main' = "devices")
  BY <1>1, DevicesStep
<1>3. LocksInv' /\ owner' \in [Mutexes -> Threads \cup {"free"}]
  BY <1>1, LocksStep
<1>4. TypeOK'
  BY <1>1, <1>2, <1>3, ThreadTypes DEF TypeOK
<1>5. CallsInv'
  BY <1>1, CallbacksStep
<1> QED
  BY <1>2, <1>3, <1>4, <1>5 DEF ServerInv

\* The mutexes and the state files are as the code's scopes and saves say in
\* every behaviour.
THEOREM Invariant == Spec => []ServerInv
  BY InitInv, ServerStep, PTL DEF Spec

\* PlayDevice: fields, check-in and terms of a device are made once, however
\* often the process ends between the saves of its constructor.
THEOREM OnlyOnce == Spec => []MadeOnce
<1>1. ServerInv => MadeOnce
  <2> SUFFICES ASSUME ServerInv, NEW d \in Devices, NEW i \in Items
               PROVE  made[d][i] <= 1 + lost[d][i]
    BY DEF MadeOnce
  <2>1. made[d][i] <= lost[d][i] + (IF i \in Has(d) THEN 1 ELSE 0)
    BY DEF ServerInv, DeviceInv
  <2>2. made[d][i] \in Nat /\ lost[d][i] \in Nat
    BY DEF ServerInv, TypeOK, DeviceTypeOK
  <2> QED
    BY <2>1, <2>2
<1> QED
  BY <1>1, Invariant, PTL

\* ApkManager::updateLatestVersions: a request that fails takes with it the
\* remaining targets of its callback about that variant, and nothing else.
THEOREM FailuresContained == Spec => []FailureIsContained
<1>1. CallsInv => FailureIsContained
  <2> SUFFICES ASSUME CallsInv, CallsDone, NEW v \in round, NEW cb \in ToSet(newVersionCallback)
               PROVE  ToldUpTo(v, cb, Len(Targets(v, cb)))
    BY DEF FailureIsContained
  <2> DEFINE all == Targets(v, cb)
  <2>1. PICK S : all \in Seq(S)
    BY TargetsType
  <2>2. Len(all) \in Nat
    BY <2>1
  <2>3. ASSUME NEW n \in 0 .. Len(all), targets = SubSeq(all, n + 1, Len(all))
        PROVE  n = Len(all)
    BY <2>1, <2>2, <2>3, NothingLeft DEF CallsDone
  <2> QED
    BY <2>3 DEF CallsInv, CallsDone
<1> QED
  BY <1>1, Invariant, PTL DEF ServerInv

\* The locks of ApkManager, Win10StoreManager and Connection are taken in an
\* order that cannot deadlock: only the signal handler's lock can.
THEOREM NoDeadlock == Spec => []StuckHasACause
<1>1. ServerInv => StuckHasACause
  <2> SUFFICES ASSUME ServerInv, NEW S \in SUBSET Threads, Stuck(S)
               PROVE  S = {"main", handler} /\ handler \in {"play", "win"}
    BY DEF StuckHasACause, SignalBit
  <2>1. TypeOK /\ LocksInv
    BY DEF ServerInv
  <2>2. ASSUME NEW t \in S, handler # t
        PROVE  t = "main" /\ handler \in S /\ handler \in {"play", "win"}
    <3>1. PICK m \in Wants(t) : owner[m] \in S
      BY DEF Stuck
    <3>2. m \in Mutexes /\ owner[m] # "free"
      BY <2>2, <3>1 DEF Wants, Threads
    <3>3. t \in Threads /\ t # "timeout"
      BY <2>2, <3>1 DEF Wants
    <3>4. t # "play"
      BY <2>1, <2>2, <3>1, <3>2 DEF Wants, LocksInv
    <3>5. ASSUME NEW u \in S, u # handler, \/ u = "main" /\ main = "fetch"
                                           \/ u = "play" /\ play = "check"
                                           \/ u = "win" /\ win = "check"
          PROVE  FALSE
      <4>1. Wants(u) = {}
        BY <3>5 DEF Wants
      <4> QED
        BY <4>1 DEF Stuck
    <3>6. t # "win"
      <4> SUFFICES ASSUME t = "win" PROVE FALSE
        OBVIOUS
      <4>1. m = "w10" /\ win # "check"
        BY <2>2, <3>1 DEF Wants
      <4>2. owner[m] = "main" /\ main = "fetch" /\ "main" \in S
        BY <2>1, <3>1, <3>2, <4>1 DEF LocksInv
      <4>3. handler = "main"
        BY <3>5, <4>2
      <4>4. owner["conn"] = "main"
        BY <2>1, <4>2 DEF LocksInv, Busy
      <4>5. Wants("main") = {}
        BY <4>3, <4>4 DEF Wants, Mutexes
      <4> QED
        BY <4>2, <4>5 DEF Stuck
    <3>7. t = "main"
      BY <3>3, <3>4, <3>6 DEF Threads
    <3>8. main \in {"reading", "link"} /\ m \in {"data", "w10"}
      <4>1. main \in {"reading", "link"}
        BY <2>2, <3>1, <3>7 DEF Wants
      <4>2. reads # <<>> => Head(reads) \in {"data", "w10"}
        BY <2>1 DEF TypeOK
      <4> QED
        BY <2>2, <3>1, <3>7, <4>1, <4>2 DEF Wants
    <3>9. (owner[m] = "play" /\ play = "check") \/ (owner[m] = "win" /\ win = "check")
      BY <2>1, <3>2, <3>8 DEF LocksInv
    <3>10. handler = owner[m]
      BY <3>1, <3>5, <3>9
    <3> QED
      BY <3>1, <3>7, <3>8, <3>9, <3>10
  <2>3. \E t \in S : handler # t
    <3> SUFFICES ASSUME \A t \in S : handler = t PROVE FALSE
      OBVIOUS
    <3>1. PICK t \in S : handler = t
      BY DEF Stuck
    <3>2. PICK m \in Wants(t) : owner[m] \in S
      BY DEF Stuck
    <3>3. m = "conn" /\ owner[m] # t
      BY <3>1, <3>2 DEF Wants, Mutexes
    <3> QED
      BY <3>1, <3>2, <3>3
  <2> QED
    BY <2>2, <2>3
<1> QED
  BY <1>1, Invariant, PTL
=============================================================================
