--------------------------- MODULE DualHostsProofs ---------------------------
(* Theorems about DualHosts, for any hosts, names, keys, options and bounds. *)
EXTENDS DualHosts, TLAPS

USE DEF fields, zabbix, reading, merge, spent, KeepRecord, KeepRun, Goto
-----------------------------------------------------------------------------
(* Types.                                                                   *)

LEMMA MergedIsEntries ==
  ASSUME NEW e \in [Keys -> Owners]
  PROVE  Merged(e) \in [Keys -> Owners]
  BY DEF Merged, Owners

LEMMA NothingIsEntries == Nothing \in [Keys -> Owners]
  BY DEF Nothing, Owners

LEMMA TypeInit == Init => TypeOK
<1> SUFFICES ASSUME Init PROVE TypeOK
  OBVIOUS
<1>1. zbx \in [Hosts -> {"unused", "live", "gone"}] /\ disc \in [Hosts -> BOOLEAN]
  BY DEF Init
<1>2. name \in [Hosts -> Names]
  BY NamesAssumption DEF Init
<1>3. entries \in [Hosts -> [Keys -> Owners]]
  BY DEF Init, Owners
<1>4. edits \in 0..MaxEdits /\ faults \in 0..MaxFaults
  BY BoundAssumption DEF Init
<1> QED
  BY <1>1, <1>2, <1>3, <1>4, NothingIsEntries DEF Init, TypeOK, Duals, PCs

\* However the handling of the source ends.
LEMMA EndKeepsTypes ==
  ASSUME TypeOK, NEW how \in {"synced", "skipped", "failed", "removed"}, End(how)
  PROVE  /\ pc' \in PCs /\ outcome' \in {"none", "synced", "skipped", "failed", "removed"}
         /\ myMode' \in {"sync", "retire"} /\ myDual' \in Duals /\ adopted' \in BOOLEAN
         /\ {myLink', myLld', target'} \subseteq Hosts \cup {NoHost}
         /\ seen' \in [Keys -> Owners]
  BY NothingIsEntries DEF End, PCs, Duals

LEMMA EndStepKeepsTypes ==
  ASSUME TypeOK,
         \/ RepairImpossible \/ SkipRetired \/ Unlink \/ StaleFails \/ RenameRefused
         \/ CreateRefused
         \/ NoDual \/ FieldMissing \/ NoLld \/ LldUnusable \/ MergeRefused \/ RunFails
  PROVE  TypeOK'
<1>1. PICK how \in {"synced", "skipped", "failed", "removed"} : End(how)
  BY DEF RepairImpossible, SkipRetired, Unlink, StaleFails, RenameRefused, CreateRefused, NoDual,
         FieldMissing, NoLld, LldUnusable, MergeRefused, RunFails
<1>2. UNCHANGED <<kind, mode, dual, clearStale, handLld, zabbix, edits>>
  BY DEF RepairImpossible, SkipRetired, Unlink, StaleFails, RenameRefused, CreateRefused, NoDual,
         FieldMissing, NoLld, LldUnusable, MergeRefused, RunFails
<1>3. {link', lld'} \subseteq Hosts \cup {NoHost}
  <2>1. UNCHANGED fields \/ (link' = NoHost /\ lld' = myLld)
    BY DEF RepairImpossible, SkipRetired, Unlink, StaleFails, RenameRefused, CreateRefused, NoDual,
           FieldMissing, NoLld, LldUnusable, MergeRefused, RunFails
  <2> QED  BY <2>1 DEF TypeOK
<1>4. faults' \in 0..MaxFaults
  <2>1. faults' = faults \/ (faults < MaxFaults /\ faults' = faults + 1)
    BY DEF RepairImpossible, SkipRetired, Unlink, StaleFails, RenameRefused, CreateRefused, NoDual,
           FieldMissing, NoLld, LldUnusable, MergeRefused, RunFails
  <2> QED  BY <2>1, BoundAssumption DEF TypeOK
<1> QED  BY <1>1, <1>2, <1>3, <1>4, EndKeepsTypes DEF TypeOK

\* Decisions that only say what comes next, and saves of the two fields.
LEMMA TurnKeepsTypes ==
  ASSUME TypeOK,
         \/ NothingToRepair \/ FindMisplaced \/ Turn \/ CheckDedicated \/ FindStale
         \/ FindNone \/ KnownLld
  PROVE  TypeOK'
<1>1. pc' \in PCs
  BY DEF NothingToRepair, FindMisplaced, Turn, CheckDedicated, FindStale, FindNone,
         KnownLld, PCs
<1>2. UNCHANGED <<kind, mode, dual, clearStale, fields, zabbix, reading, merge, outcome, spent>>
  BY DEF NothingToRepair, FindMisplaced, Turn, CheckDedicated, FindStale, FindNone,
         KnownLld
<1> QED  BY <1>1, <1>2 DEF TypeOK

LEMMA SaveKeepsTypes ==
  ASSUME TypeOK, MoveLink \/ ClearStaleLink \/ AdoptMain \/ SaveMain \/ SaveLld
  PROVE  TypeOK'
<1>1. PICK l \in Hosts \cup {NoHost}, m \in Hosts \cup {NoHost} : Save(l, m)
  BY DEF MoveLink, ClearStaleLink, AdoptMain, SaveMain, SaveLld, TypeOK
<1>2. pc' \in PCs /\ adopted' \in BOOLEAN
  BY DEF MoveLink, ClearStaleLink, AdoptMain, SaveMain, SaveLld, PCs, TypeOK
<1>3. UNCHANGED <<kind, mode, dual, clearStale, handLld, zabbix, myMode, myDual, merge, outcome, spent>>
  BY DEF MoveLink, ClearStaleLink, AdoptMain, SaveMain, SaveLld, Save
<1> QED  BY <1>1, <1>2, <1>3 DEF TypeOK, Save

LEMMA HostStepKeepsTypes ==
  ASSUME TypeOK, StartRun \/ RemoveHost \/ RenameMain \/ FindMain \/ CreateMain \/ FindLld
  PROVE  TypeOK'
<1>1. CASE StartRun
  BY <1>1 DEF StartRun, TypeOK, PCs
<1>2. CASE RemoveHost
  BY <1>2 DEF RemoveHost, TypeOK, PCs
<1>3. CASE FindMain
  BY <1>3 DEF FindMain, Adoptables, Dedicated, Namesakes, TypeOK, PCs
<1>4. CASE CreateMain
  BY <1>4, NamesAssumption DEF CreateMain, TypeOK, PCs
<1>5. CASE FindLld
  BY <1>5 DEF FindLld, TypeOK, PCs
<1>6. CASE RenameMain
  BY <1>6, NamesAssumption DEF RenameMain, TypeOK, PCs
<1> QED  BY <1>1, <1>2, <1>3, <1>4, <1>5, <1>6

LEMMA MergeKeepsTypes ==
  ASSUME TypeOK, CheckDiscovered \/ ReadLld \/ MergeMain \/ Enrich
  PROVE  TypeOK'
<1>1. CASE CheckDiscovered
  BY <1>1 DEF CheckDiscovered, Live, TypeOK, PCs
<1>2. CASE ReadLld
  BY <1>2 DEF ReadLld, Live, TypeOK, PCs
<1>3. WriteMerge => entries' \in [Hosts -> [Keys -> Owners]] /\ UNCHANGED <<zbx, name, disc>>
  BY MergedIsEntries DEF WriteMerge, TypeOK
<1>4. CASE MergeMain
  BY <1>3, <1>4, NothingIsEntries DEF MergeMain, TypeOK, PCs
<1>5. CASE Enrich
  <2>1. WriteMerge /\ End("synced") /\ UNCHANGED <<kind, mode, dual, clearStale, fields, spent>>
    BY <1>5 DEF Enrich
  <2> QED  BY <1>3, <2>1, EndKeepsTypes DEF TypeOK
<1> QED  BY <1>1, <1>2, <1>4, <1>5

LEMMA WorldKeepsTypes ==
  ASSUME TypeOK, WorldStep
  PROVE  TypeOK'
<1>1. /\ edits' \in 0..MaxEdits
      /\ UNCHANGED <<kind, pc, reading, merge, outcome, faults>>
  <2>1. Edit
    BY DEF WorldStep, Discover, Rediscover, LoseHost, HandCreate, HandEntry, Configure,
           SwitchClearing, ChangeStatus, Migrate, SetLld
  <2> QED  BY <2>1, BoundAssumption DEF Edit, TypeOK
<1>2. CASE Discover
  BY <1>1, <1>2 DEF Discover, TypeOK, Owners
<1>3. CASE Rediscover \/ HandEntry
  <2>1. PICK h \in Hosts, k \in Keys, o \in Owners : entries' = [entries EXCEPT ![h][k] = o]
    BY <1>3 DEF Rediscover, HandEntry, Owners
  <2>2. UNCHANGED <<mode, dual, clearStale, fields, zbx, name, disc>>
    BY <1>3 DEF Rediscover, HandEntry
  <2>3. entries' \in [Hosts -> [Keys -> Owners]]
    BY <2>1 DEF TypeOK
  <2> QED  BY <1>1, <2>2, <2>3 DEF TypeOK
<1>4. CASE LoseHost
  BY <1>1, <1>4 DEF LoseHost, TypeOK
<1>5. CASE HandCreate
  BY <1>1, <1>5 DEF HandCreate, TypeOK
<1>6. CASE Configure \/ SwitchClearing \/ ChangeStatus
  BY <1>1, <1>6 DEF Configure, SwitchClearing, ChangeStatus, TypeOK
<1>7. CASE Migrate \/ SetLld
  BY <1>1, <1>7 DEF Migrate, SetLld, TypeOK
<1> QED  BY <1>2, <1>3, <1>4, <1>5, <1>6, <1>7 DEF WorldStep

LEMMA TypeStep == TypeOK /\ [Next]_vars => TypeOK'
<1> SUFFICES ASSUME TypeOK, [Next]_vars PROVE TypeOK'
  OBVIOUS
<1>1. CASE UNCHANGED vars
  BY <1>1 DEF vars, TypeOK
<1>2. CASE Next
  BY <1>2, EndStepKeepsTypes, TurnKeepsTypes, SaveKeepsTypes, HostStepKeepsTypes,
     MergeKeepsTypes, WorldKeepsTypes
  DEF Next, RunStep
<1> QED  BY <1>1, <1>2

\* Every variable keeps its type, whatever run, discovery and people do.
THEOREM TypeCorrect == Spec => []TypeOK
  BY TypeInit, TypeStep, PTL DEF Spec
-----------------------------------------------------------------------------
(* What the two fields may name.  A host id is never used again: a host that  *)
(* is gone stays away, and one that discovery did not make never becomes its.  *)

Used(h) == h \in Hosts => zbx[h] # "unused"
Aged    == \A h \in Hosts : /\ Used(h) => zbx'[h] # "unused" /\ disc'[h] = disc[h]
                            /\ zbx[h] = "gone" => zbx'[h] = "gone"

LEMMA HostsAge ==
  ASSUME TypeOK, [Next]_vars
  PROVE  Aged /\ (disc' = disc \/ Discover)
<1> USE DEF Aged, Used, TypeOK
<1>1. CASE zbx' = zbx /\ disc' = disc
  BY <1>1
<1>2. CASE RemoveHost
  BY <1>2 DEF RemoveHost
<1>3. CASE CreateMain
  BY <1>3 DEF CreateMain
<1>4. CASE Discover
  BY <1>4 DEF Discover
<1>5. CASE LoseHost
  BY <1>5 DEF LoseHost, Live
<1>6. CASE HandCreate
  BY <1>6 DEF HandCreate
<1>7. CASE \/ StartRun \/ NothingToRepair \/ FindMisplaced \/ RepairImpossible \/ MoveLink
           \/ SkipRetired \/ Turn \/ Unlink
           \/ CheckDedicated \/ CheckDiscovered \/ FindStale \/ StaleFails \/ ClearStaleLink
           \/ RenameMain \/ RenameRefused
  BY <1>1, <1>7
  DEF StartRun, NothingToRepair, FindMisplaced, RepairImpossible, MoveLink, SkipRetired,
      Turn, Unlink, CheckDedicated, CheckDiscovered, FindStale, StaleFails, ClearStaleLink,
      RenameMain, RenameRefused
<1>8. CASE \/ FindMain \/ FindNone \/ AdoptMain \/ CreateRefused \/ SaveMain
           \/ NoDual \/ FieldMissing \/ KnownLld \/ FindLld \/ NoLld \/ SaveLld
  BY <1>1, <1>8
  DEF FindMain, FindNone, AdoptMain, CreateRefused, SaveMain, NoDual, FieldMissing,
      KnownLld, FindLld, NoLld, SaveLld
<1>9. CASE ReadLld \/ LldUnusable \/ MergeRefused \/ RunFails \/ MergeMain \/ Enrich
  BY <1>1, <1>9
  DEF ReadLld, LldUnusable, MergeRefused, RunFails, MergeMain, Enrich, WriteMerge
<1>10. CASE \/ Rediscover \/ HandEntry \/ Configure \/ SwitchClearing \/ ChangeStatus
            \/ Migrate \/ SetLld
  BY <1>1, <1>10
  DEF Rediscover, HandEntry, Configure, SwitchClearing, ChangeStatus, Migrate, SetLld
<1>11. CASE UNCHANGED vars
  BY <1>1, <1>11 DEF vars
<1> QED
  BY <1>2, <1>3, <1>4, <1>5, <1>6, <1>7, <1>8, <1>9, <1>10, <1>11
  DEF Next, RunStep, WorldStep

\* The primary field names a host there is or was, the second field one that
\* discovery made or an id that people put there, and repair moves none but a
\* discovered host.
FieldsInv ==
    /\ \A h \in Hosts : disc[h] => Used(h)
    /\ Used(link) /\ Used(myLink)
    /\ \A h \in {lld, myLld} : h \in Hosts => disc[h] \/ h \in handLld
    /\ pc = "repairSave" => myLink \in Hosts /\ disc[myLink]

LEMMA FieldsInit == Init => FieldsInv
  BY ZenonT(60), HostsAssumption DEF Init, FieldsInv, Used

\* Most steps keep the fields, empty them or copy one reading to another.
OldNames == /\ {link', myLink'} \subseteq {link, myLink, NoHost}
            /\ {lld', myLld'} \subseteq {lld, myLld, NoHost}
NewName  == MoveLink \/ FindMain \/ CreateMain \/ FindLld \/ Migrate \/ SetLld

LEMMA FieldsKeepNames ==
  ASSUME [Next]_vars, ~NewName
  PROVE  /\ OldNames /\ handLld' = handLld
         /\ pc' = "repairSave" => FindMisplaced \/ (pc' = pc /\ myLink' = myLink)
<1> USE DEF OldNames
<1>1. CASE \/ RepairImpossible \/ SkipRetired \/ Unlink \/ StaleFails \/ CreateRefused
           \/ NoDual \/ FieldMissing \/ NoLld \/ LldUnusable \/ MergeRefused \/ RunFails
           \/ Enrich \/ RenameRefused
  BY <1>1
  DEF RepairImpossible, SkipRetired, Unlink, StaleFails, CreateRefused, NoDual,
      FieldMissing, NoLld, LldUnusable, MergeRefused, RunFails, Enrich,
      RenameRefused, End
<1>2. CASE \/ NothingToRepair \/ FindMisplaced \/ Turn \/ CheckDedicated \/ FindStale
           \/ FindNone \/ KnownLld \/ StartRun \/ RemoveHost \/ RenameMain
  BY <1>2
  DEF NothingToRepair, FindMisplaced, Turn, CheckDedicated, FindStale, FindNone,
      KnownLld, StartRun, RemoveHost, RenameMain
<1>3. CASE \/ ClearStaleLink \/ AdoptMain \/ SaveMain \/ SaveLld
           \/ CheckDiscovered \/ ReadLld \/ MergeMain
  BY <1>3
  DEF ClearStaleLink, AdoptMain, SaveMain, SaveLld, Save, CheckDiscovered, ReadLld,
      MergeMain
<1>4. CASE \/ Discover \/ Rediscover \/ LoseHost \/ HandCreate \/ HandEntry
           \/ Configure \/ SwitchClearing \/ ChangeStatus
  BY <1>4
  DEF Discover, Rediscover, LoseHost, HandCreate, HandEntry, Configure, SwitchClearing,
      ChangeStatus, Edit
<1>5. CASE UNCHANGED vars
  BY <1>5 DEF vars
<1> QED
  BY <1>1, <1>2, <1>3, <1>4, <1>5 DEF NewName, Next, RunStep, WorldStep

LEMMA FieldsStep == TypeOK /\ FieldsInv /\ [Next]_vars => FieldsInv'
<1> SUFFICES ASSUME TypeOK, FieldsInv, [Next]_vars PROVE FieldsInv'
  OBVIOUS
<1>1. /\ \A h : Used(h) => Used(h)'
      /\ \A h \in Hosts : disc[h] => disc'[h]
  BY HostsAge DEF Aged, Used, FieldsInv
<1>2. \A h \in Hosts : disc'[h] => Used(h)'
  <2>1. CASE Discover
    BY <1>1, <2>1 DEF Discover, FieldsInv, Used, TypeOK
  <2>2. CASE disc' = disc
    BY <1>1, <2>2 DEF FieldsInv
  <2> QED  BY <2>1, <2>2, HostsAge
<1>3. CASE ~NewName
  <2>1. /\ OldNames
        /\ pc' = "repairSave" => FindMisplaced \/ (pc' = pc /\ myLink' = myLink)
        /\ handLld' = handLld
    BY <1>3, FieldsKeepNames
  <2>2. Used(link)' /\ Used(myLink)'
    BY <1>1, <2>1, HostsAssumption DEF OldNames, FieldsInv, Used
  <2>3. \A h \in {lld', myLld'} : h \in Hosts => disc'[h] \/ h \in handLld'
    BY <1>1, <2>1, HostsAssumption DEF OldNames, FieldsInv
  <2>4. pc' = "repairSave" => myLink' \in Hosts /\ disc'[myLink']
    <3>1. FindMisplaced => myLink' = myLink /\ myLink \in Hosts /\ disc[myLink]
      BY DEF FindMisplaced, LinkIsDiscovered, Live
    <3> QED  BY <1>1, <2>1, <3>1 DEF FieldsInv
  <2> QED  BY <1>2, <2>2, <2>3, <2>4 DEF FieldsInv
<1>4. CASE MoveLink
  BY <1>1, <1>2, <1>4, HostsAssumption DEF MoveLink, Save, FieldsInv, Used
<1>5. CASE FindMain \/ CreateMain
  <2>1. Used(myLink)'
    BY <1>5 DEF FindMain, CreateMain, Adoptables, Dedicated, Namesakes, Alike, Live, Used,
       TypeOK
  <2>2. pc' # "repairSave" /\ UNCHANGED <<fields, myLld>>
    BY <1>5 DEF FindMain, CreateMain
  <2> QED  BY <1>1, <1>2, <2>1, <2>2 DEF FieldsInv, Used
<1>6. CASE FindLld
  BY <1>1, <1>2, <1>6 DEF FindLld, FieldsInv, Used
<1>7. CASE Migrate \/ SetLld
  BY <1>1, <1>2, <1>7, HostsAssumption DEF Migrate, SetLld, Edit, FieldsInv, Used
<1> QED  BY <1>3, <1>4, <1>5, <1>6, <1>7 DEF NewName
-----------------------------------------------------------------------------
(* The primary host.  None that discovery made is to be renamed.  For a VMware  *)
(* VM, once repair is behind the run, it does not have a discovered host for   *)
(* its primary one, and from the moment it has adopted, created or checked a   *)
(* primary host that one is not of discovery.                                 *)

BeforeTurn == {"idle", "repair", "repairSave"}
InPlace    == {"adoptSave", "createSave", "rename", "lld", "lldSave", "lldRead", "enrich"}
MainInv ==
    /\ pc # "idle" => outcome = "none"
    /\ pc = "rename" => myLink \in Hosts /\ ~disc[myLink]
    /\ kind = "vm" =>
           /\ pc \notin BeforeTurn => ~LinkIsDiscovered
           /\ pc \in InPlace => myLink \in Hosts /\ ~disc[myLink]
           /\ pc # "mergeMain"

LEMMA MainInit == Init => MainInv
  BY DEF Init, MainInv, BeforeTurn, InPlace

\* What was so of the primary host stays so while hosts come and go.
LEMMA MainAges ==
  ASSUME TypeOK, FieldsInv, [Next]_vars, myLink' = myLink
  PROVE  /\ ~LinkIsDiscovered => ~LinkIsDiscovered'
         /\ myLink \in Hosts /\ ~disc[myLink] => myLink' \in Hosts /\ ~disc'[myLink']
<1>1. Aged /\ Used(myLink)
  BY HostsAge DEF FieldsInv
<1>2. myLink \in Hosts => /\ disc'[myLink] = disc[myLink]
                          /\ Live(myLink)' => Live(myLink)
  BY <1>1 DEF Aged, Used, Live, TypeOK
<1> QED  BY <1>2 DEF LinkIsDiscovered, Live

\* Steps that leave the primary host as it is, at a point that asks no more of it.
LEMMA MainGoesOn ==
  ASSUME TypeOK, FieldsInv, MainInv, [Next]_vars,
         UNCHANGED <<kind, myLink, outcome>>, pc # "idle", pc' # "mergeMain",
         pc \in BeforeTurn => pc' \in BeforeTurn \/ ~LinkIsDiscovered,
         pc' \in InPlace => pc \in InPlace, pc' # "rename"
  PROVE  MainInv'
  BY MainAges DEF MainInv, BeforeTurn, InPlace

LEMMA MainStep == TypeOK /\ FieldsInv /\ MainInv /\ [Next]_vars => MainInv'
<1> SUFFICES ASSUME TypeOK, FieldsInv, MainInv, [Next]_vars PROVE MainInv'
  OBVIOUS
<1> USE DEF BeforeTurn, InPlace
<1>1. CASE \/ RepairImpossible \/ SkipRetired \/ Unlink \/ StaleFails \/ CreateRefused
           \/ NoDual \/ FieldMissing \/ NoLld \/ LldUnusable \/ MergeRefused \/ RunFails
           \/ Enrich \/ RenameRefused
  <2>1. pc' = "idle"
    BY <1>1
    DEF RepairImpossible, SkipRetired, Unlink, StaleFails, CreateRefused, NoDual,
        FieldMissing, NoLld, LldUnusable, MergeRefused, RunFails, Enrich,
        RenameRefused, End
  <2> QED  BY <2>1 DEF MainInv
<1>2. CASE StartRun
  BY <1>2, HostsAssumption DEF StartRun, MainInv, LinkIsDiscovered, Live
<1>3. CASE FindMisplaced \/ NothingToRepair
  <2>1. /\ UNCHANGED <<kind, myLink, outcome>> /\ pc = "repair"
        /\ pc' = "repairSave" \/ (pc' = "next" /\ ~LinkIsDiscovered)
    BY <1>3 DEF FindMisplaced, NothingToRepair
  <2> QED  BY <2>1, MainGoesOn
<1>4. CASE MoveLink \/ ClearStaleLink
  <2>1. /\ myLink' = NoHost /\ pc' \in {"next", "create", "adopt"}
        /\ kind' = kind /\ pc # "idle" /\ outcome' = outcome
    BY <1>4 DEF MoveLink, ClearStaleLink, Save
  <2> QED  BY <2>1, HostsAssumption DEF MainInv, LinkIsDiscovered, Live
<1>5. CASE Turn \/ RemoveHost \/ FindStale \/ FindNone
  <2>1. /\ UNCHANGED <<kind, myLink, outcome>> /\ pc \in {"next", "remove", "check", "adopt"}
        /\ pc' \in {"remove", "check", "adopt", "removeSave", "staleSave", "create"}
    BY <1>5 DEF Turn, RemoveHost, FindStale, FindNone
  <2> QED  BY <2>1, MainGoesOn
<1>6. CASE CheckDedicated
  <2>1. UNCHANGED <<kind, myLink, outcome, disc, zbx>> /\ pc = "check" /\ pc' \in {"lld", "rename"}
        /\ myLink \in Hosts /\ ~disc[myLink]
    BY <1>6 DEF CheckDedicated, Live
  <2> QED  BY <2>1 DEF MainInv, LinkIsDiscovered
<1>7. CASE CheckDiscovered
  <2>1. pc = "check" /\ LinkIsDiscovered /\ kind' = kind /\ outcome' = outcome
        /\ pc' = "mergeMain"
    BY <1>7 DEF CheckDiscovered, LinkIsDiscovered
  <2> QED  BY <2>1 DEF MainInv
<1>8. CASE FindMain
  <2> PICK h \in Adoptables : myLink' = h
    BY <1>8 DEF FindMain
  <2>1. h \in Hosts /\ (kind = "vm" => ~disc[h])
    BY <1>8 DEF FindMain, MayAdopt, Adoptables, Dedicated, Namesakes
  <2>2. UNCHANGED <<kind, outcome, disc, zbx>> /\ pc = "adopt" /\ pc' = "adoptSave"
    BY <1>8 DEF FindMain
  <2> QED  BY <2>1, <2>2 DEF MainInv, LinkIsDiscovered
<1>9. CASE RenameMain \/ AdoptMain \/ SaveMain \/ KnownLld \/ SaveLld \/ ReadLld
  <2>1. /\ UNCHANGED <<kind, myLink, outcome>>
        /\ pc \in InPlace /\ pc' \in (InPlace \cup {"check"}) \ {"rename"}
    BY <1>9 DEF RenameMain, AdoptMain, SaveMain, KnownLld, SaveLld, Save, ReadLld
  <2> QED  BY <2>1, MainGoesOn
<1>10. CASE FindLld
  BY <1>10, MainGoesOn DEF FindLld
<1>11. CASE CreateMain
  <2> PICK h \in Hosts : zbx[h] = "unused" /\ myLink' = h
    BY <1>11 DEF CreateMain
  <2>1. ~disc[h]
    BY DEF FieldsInv, Used
  <2>2. UNCHANGED <<kind, outcome, disc>> /\ pc = "create" /\ pc' = "createSave"
    BY <1>11 DEF CreateMain
  <2> QED  BY <2>1, <2>2 DEF MainInv, LinkIsDiscovered
<1>12. CASE MergeMain
  BY <1>12 DEF MergeMain, MainInv
<1>13. CASE WorldStep
  <2>1. UNCHANGED <<kind, pc, myLink, outcome>>
    BY <1>13 DEF WorldStep, Discover, Rediscover, LoseHost, HandCreate, HandEntry, Configure,
       SwitchClearing, ChangeStatus, Migrate, SetLld, Edit
  <2> QED  BY <2>1, MainAges DEF MainInv
<1>14. CASE UNCHANGED vars
  BY <1>14 DEF vars, MainInv, LinkIsDiscovered, Live
<1> QED
  BY <1>1, <1>2, <1>3, <1>4, <1>5, <1>6, <1>7, <1>8, <1>9, <1>10, <1>11, <1>12, <1>13, <1>14
  DEF Next, RunStep
-----------------------------------------------------------------------------
\* A run over a VMware VM that ends as synced has a dedicated primary host, and
\* another one in the second field unless people put an id there that was of no
\* discovered host, whatever else people and discovery did while it ran.
THEOREM HostsKeptApart == Spec => HostsAreKeptApart
<1>1. ASSUME TypeOK, FieldsInv, MainInv, [Next]_vars
      PROVE  [pc # "idle" /\ outcome' = "synced" /\ kind = "vm" /\ myDual = "on"
                 => ~disc[myLink] /\ (myLink = myLld => myLld \in handLld)]_vars
  <2> SUFFICES ASSUME pc # "idle", outcome' = "synced", kind = "vm", myDual = "on", Next
               PROVE  ~disc[myLink] /\ (myLink = myLld => myLld \in handLld)
    BY <1>1 DEF vars
  <2>1. outcome' # outcome
    BY <1>1 DEF MainInv
  <2>2. pc \in InPlace
    <3>1. CASE NoDual \/ NoLld \/ LldUnusable \/ Enrich
      BY <3>1 DEF NoDual, NoLld, LldUnusable, Enrich, InPlace
    <3>2. CASE \/ RepairImpossible \/ SkipRetired \/ Unlink \/ StaleFails \/ CreateRefused
               \/ RenameRefused \/ FieldMissing \/ MergeRefused \/ RunFails
      BY <3>2
      DEF RepairImpossible, SkipRetired, Unlink, StaleFails, CreateRefused, RenameRefused,
          FieldMissing, MergeRefused, RunFails, End
    <3>3. CASE \/ StartRun \/ NothingToRepair \/ FindMisplaced \/ MoveLink \/ Turn \/ RemoveHost
               \/ CheckDedicated \/ CheckDiscovered \/ MergeMain \/ FindStale \/ ClearStaleLink
      BY <2>1, <3>3
      DEF StartRun, NothingToRepair, FindMisplaced, MoveLink, Turn, RemoveHost,
          CheckDedicated, CheckDiscovered, MergeMain, FindStale, ClearStaleLink
    <3>4. CASE \/ FindMain \/ FindNone \/ AdoptMain \/ CreateMain \/ SaveMain
               \/ KnownLld \/ FindLld \/ SaveLld \/ ReadLld \/ RenameMain
      BY <2>1, <3>4
      DEF FindMain, FindNone, AdoptMain, CreateMain, SaveMain, KnownLld, FindLld, SaveLld,
          ReadLld, RenameMain
    <3>5. CASE WorldStep
      BY <2>1, <3>5 DEF WorldStep, Discover, Rediscover, LoseHost, HandCreate, HandEntry,
         Configure, SwitchClearing, ChangeStatus, Migrate, SetLld, Edit
    <3> QED  BY <3>1, <3>2, <3>3, <3>4, <3>5 DEF Next, RunStep
  <2>3. myLink \in Hosts /\ ~disc[myLink]
    BY <1>1, <2>2 DEF MainInv
  <2> QED  BY <1>1, <2>3 DEF FieldsInv
<1> QED
  BY <1>1, TypeInit, TypeStep, FieldsInit, FieldsStep, MainInit, MainStep, PTL
  DEF Spec, HostsAreKeptApart

\* No step of a run renames a host that discovery made or drops an entry of
\* discovery that its merge had read, and none over a VMware VM deletes such a
\* host, not even when the VM is retired while its field still names it.
THEOREM DiscoveredHostsKept == Spec => DiscoveredHostsAreKept
<1> DEFINE Stays(h) ==
        /\ name'[h] = name[h]
        /\ kind = "vm" => zbx'[h] = "live"
        /\ \A k \in Keys : entries[h][k] = "auto" /\ (h = target => seen[k] = "auto")
              => entries'[h][k] = "auto"
<1>1. ASSUME TypeOK, FieldsInv, MainInv, [Next]_vars
      PROVE  [\A h \in Hosts : Live(h) /\ disc[h] /\ edits' = edits => Stays(h)]_vars
  <2> SUFFICES ASSUME NEW h \in Hosts, Live(h), disc[h], edits' = edits
               PROVE  Stays(h)
    OBVIOUS
  <2> USE DEF Live, TypeOK
  <2>1. CASE UNCHANGED zabbix
    BY <2>1
  <2>2. CASE RemoveHost
    <3>1. kind = "vm" => myLink # h
      BY <1>1, <2>2 DEF RemoveHost, MainInv, LinkIsDiscovered, BeforeTurn
    <3> QED  BY <1>1, <2>2, <3>1 DEF RemoveHost
  <2>3. CASE CreateMain
    BY <1>1, <2>3 DEF CreateMain
  <2>4. CASE RenameMain
    <3>1. myLink # h
      BY <1>1, <2>4 DEF RenameMain, MainInv
    <3> QED  BY <1>1, <2>4, <3>1 DEF RenameMain
  <2>5. CASE MergeMain \/ Enrich
    <3>1. CASE UNCHANGED zabbix
      BY <2>1, <3>1
    <3>2. CASE entries' = [entries EXCEPT ![target] = Merged(seen)] /\ UNCHANGED <<zbx, name, disc>>
      BY <1>1, <3>2 DEF Merged
    <3> QED  BY <2>5, <3>1, <3>2 DEF MergeMain, Enrich, WriteMerge
  <2>6. CASE WorldStep
    <3>1. edits' = edits + 1
      BY <2>6 DEF WorldStep, Discover, Rediscover, LoseHost, HandCreate, HandEntry,
         Configure, SwitchClearing, ChangeStatus, Migrate, SetLld, Edit
    <3> QED  BY <1>1, <3>1, BoundAssumption
  <2>7. CASE \/ StartRun \/ NothingToRepair \/ FindMisplaced \/ RepairImpossible \/ MoveLink
             \/ SkipRetired \/ Turn \/ Unlink \/ CheckDedicated \/ RenameRefused
             \/ CheckDiscovered \/ FindStale \/ StaleFails \/ ClearStaleLink
    BY <2>1, <2>7
    DEF StartRun, NothingToRepair, FindMisplaced, RepairImpossible, MoveLink, SkipRetired,
        Turn, Unlink, CheckDedicated, RenameRefused, CheckDiscovered, FindStale, StaleFails,
        ClearStaleLink
  <2>8. CASE \/ FindMain \/ FindNone \/ AdoptMain \/ CreateRefused \/ SaveMain
             \/ NoDual \/ FieldMissing \/ KnownLld \/ FindLld \/ NoLld \/ SaveLld
             \/ ReadLld \/ LldUnusable \/ MergeRefused \/ RunFails
    BY <2>1, <2>8
    DEF FindMain, FindNone, AdoptMain, CreateRefused, SaveMain, NoDual, FieldMissing,
        KnownLld, FindLld, NoLld, SaveLld, ReadLld, LldUnusable, MergeRefused, RunFails
  <2>9. CASE UNCHANGED vars
    BY <2>1, <2>9 DEF vars
  <2> QED
    BY <1>1, <2>2, <2>3, <2>4, <2>5, <2>6, <2>7, <2>8, <2>9 DEF Next, RunStep
<1> QED
  BY <1>1, TypeInit, TypeStep, FieldsInit, FieldsStep, MainInit, MainStep, PTL
  DEF Spec, DiscoveredHostsAreKept
=============================================================================
