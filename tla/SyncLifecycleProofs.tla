------------------------ MODULE SyncLifecycleProofs ------------------------
(* Theorems about SyncLifecycle, for any deployments, records and bounds:   *)
(* its types, why a marked host is the host its source links to, what the   *)
(* cleanup may delete, and when a source reported as synced has its host.   *)
EXTENDS SyncLifecycle, TLAPS

USE DEF netbox, zabbix, target, lookup, plan, sweep, past, spent,
        Missing, Inventory, OwnedBy, FirstCall, Condemned
-----------------------------------------------------------------------------
(* Types.  A run writes cur and hid into links and tags, so the types hold   *)
(* only together with the fact that both are set where they are used.       *)

\* The calls made with a zabbix_id.
HostPCs == {"remove", "unlink", "check", "rename", "mark",
            "adoptSave", "createSave", "clear"}

AtHand == \A d \in Deployments :
    /\ pc[d] \in TargetPCs \cup {"clear"} => cur[d] \in Mine(d)
    /\ pc[d] \in HostPCs => hid[d] \in Hosts
    /\ todo[d] \subseteq Mine(d)
    /\ doomed[d] \subseteq Hosts \X Mine(d)

LEMMA AnyNameIsName == AnyName \in Names
  BY NamesAssumption DEF AnyName

LEMMA TypeInit == Init => TypeOK /\ AtHand
  BY SMTT(30), AnyNameIsName, MappingAssumption, BoundAssumption
  DEF Init, TypeOK, NetBoxTypeOK, ZabbixTypeOK, RunTypeOK, TargetTypeOK, SweepTypeOK,
      PastTypeOK, AtHand, HostPCs, TargetPCs, CleanupPCs, PCs, Lives, Modes, Imports, Tasks

\* Every step of a run keeps the types.
LEMMA RunKeepsTypes ==
  ASSUME TypeOK, AtHand, NEW d \in Deployments, RunStep(d) \/ FailStep(d)
  PROVE  TypeOK'
<1> USE AnyNameIsName, MappingAssumption, BoundAssumption
<1> USE DEF TypeOK, NetBoxTypeOK, ZabbixTypeOK, RunTypeOK, TargetTypeOK, SweepTypeOK,
            PastTypeOK, PCs, TargetPCs, CleanupPCs, HostPCs, Goto
<1>1. CASE StartRun(d)
  BY <1>1 DEF StartRun, Mine, TaskOf, Tasks
<1>2. CASE SkipRetired(d)
  BY <1>2 DEF SkipRetired
<1>3. CASE Take(d)
  BY <1>3 DEF Take
<1>4. CASE RemoveHost(d)
  BY <1>4 DEF RemoveHost
<1>5. CASE Unlink(d)
  BY <1>5 DEF Unlink, Settle
<1>6. CASE CheckHost(d)
  BY <1>6 DEF CheckHost, AtHand, Live
<1>7. CASE ClearStaleLink(d)
  BY <1>7 DEF ClearStaleLink
<1>8. CASE StaleLinkFails(d)
  BY <1>8 DEF StaleLinkFails, Settle
<1>9. CASE RenameHost(d)
  <2>1. NetBoxTypeOK' /\ SweepTypeOK' /\ PastTypeOK'
    BY <1>9 DEF RenameHost, AtHand, Mine
  <2>2. ZabbixTypeOK'
    <3>1. wanted[cur[d]] \in Names
      BY <1>9 DEF RenameHost, AtHand, Mine
    <3> QED
      BY <1>9, <3>1 DEF RenameHost
  <2>3. RunTypeOK'
    BY <1>9 DEF RenameHost, AtHand, Mine
  <2>4. TargetTypeOK'
    BY <1>9 DEF RenameHost, AtHand, Mine
  <2> QED
    BY <2>1, <2>2, <2>3, <2>4
<1>10. CASE RenameRefused(d)
  BY <1>10 DEF RenameRefused, Settle
<1>11. CASE MarkHost(d)
  <2>1. NetBoxTypeOK' /\ SweepTypeOK' /\ PastTypeOK'
    BY <1>11 DEF MarkHost, Settle, ReportSynced, DesiredMarks, AtHand, Mine
  <2>2. DesiredMarks(d) \subseteq Sources
    BY <1>11 DEF MarkHost, DesiredMarks, AtHand, Mine
  <2>3. ZabbixTypeOK'
    <3>1. marks' = marks \/ marks' = [marks EXCEPT ![hid[d]] = DesiredMarks(d)]
      BY <1>11 DEF MarkHost
    <3>2. marks' \in [Hosts -> SUBSET Sources]
      BY <3>1, <2>2
    <3> QED
      BY <1>11, <3>2 DEF MarkHost
  <2>4. RunTypeOK' /\ TargetTypeOK'
    BY <1>11 DEF MarkHost, Settle, ReportSynced, AtHand, Mine
  <2> QED
    BY <2>1, <2>3, <2>4
<1>12. CASE MarkRefused(d)
  BY <1>12 DEF MarkRefused, Settle
<1>13. CASE AdoptMatch(d)
  BY <1>13 DEF AdoptMatch
<1>14. CASE AdoptNone(d)
  BY <1>14 DEF AdoptNone
<1>15. CASE SaveAdoption(d)
  BY <1>15 DEF SaveAdoption
<1>16. CASE AdoptionRefused(d)
  BY <1>16 DEF AdoptionRefused, Settle
<1>17. CASE CreateHost(d)
  BY <1>17 DEF CreateHost, AtHand, Mine
<1>18. CASE CreateRefused(d)
  BY <1>18 DEF CreateRefused, Settle
<1>19. CASE SaveCreation(d)
  BY <1>19 DEF SaveCreation, Settle, ReportSynced, AtHand, Mine
<1>20. CASE AbortRun(d)
  BY <1>20 DEF AbortRun, Leave, Unsaved, AtHand, Mine, Tasks
<1>21. CASE FinishWithoutCleanup(d)
  BY <1>21 DEF FinishWithoutCleanup, Leave, Tasks
<1>22. CASE BeginCleanup(d)
  BY <1>22 DEF BeginCleanup
<1>23. CASE FetchIds(d)
  BY <1>23 DEF FetchIds, Mine
<1>24. CASE FetchHosts(d)
  BY <1>24 DEF FetchHosts, Mine
<1>25. CASE FetchClusters(d)
  BY <1>25 DEF FetchClusters, Mine
<1>26. CASE ReapHost(d)
  <2>1. NetBoxTypeOK' /\ SweepTypeOK' /\ PastTypeOK'
    BY <1>26 DEF ReapHost, Mine
  <2>2. ZabbixTypeOK'
    BY <1>26 DEF ReapHost
  <2>3. PICK p \in doomed[d] : ReapHost(d)!(p)
    BY <1>26 DEF ReapHost
  <2>4. p[1] \in Hosts /\ p[2] \in Sources
    BY <2>3
  <2>5. RunTypeOK' /\ TargetTypeOK'
    BY ZenonT(60), <2>3, <2>4
  <2> QED
    BY <2>1, <2>2, <2>5
<1>27. CASE ReapRefused(d)
  BY <1>27 DEF ReapRefused
<1>28. CASE ClearLink(d)
  BY <1>28 DEF ClearLink, BackToSweep
<1>29. CASE ClearFails(d)
  BY <1>29 DEF ClearFails, BackToSweep
<1>30. CASE FinishRun(d)
  BY <1>30 DEF FinishRun, Leave, Tasks
<1>31. CASE TargetFails(d)
  BY <1>31 DEF TargetFails, Settle
<1>32. CASE RunDies(d)
  BY <1>32 DEF RunDies, Leave, Unsaved, AtHand, Mine, Tasks
<1>33. CASE CleanupSkipped(d)
  BY <1>33 DEF CleanupSkipped, Leave, Tasks
<1>34. CASE ReapFails(d)
  BY <1>34 DEF ReapFails
<1> QED
  BY <1>1, <1>2, <1>3, <1>4, <1>5, <1>6, <1>7, <1>8, <1>9, <1>10, <1>11, <1>12, <1>13,
      <1>14, <1>15, <1>16, <1>17, <1>18, <1>19, <1>20, <1>21, <1>22, <1>23, <1>24, <1>25,
      <1>26, <1>27, <1>28, <1>29, <1>30, <1>31, <1>32, <1>33, <1>34
  DEF RunStep, FailStep

\* Every step of a run keeps its source its own and its host id set.
LEMMA RunKeepsAtHand ==
  ASSUME TypeOK, AtHand, NEW d \in Deployments, RunStep(d) \/ FailStep(d)
  PROVE  AtHand'
<1> USE NoneAssumption
<1> USE DEF TypeOK, NetBoxTypeOK, RunTypeOK, TargetTypeOK, SweepTypeOK, AtHand, HostPCs,
            TargetPCs, CleanupPCs, PCs, Mine, Goto
<1>1. CASE StartRun(d)
  BY <1>1 DEF StartRun
<1>2. CASE SkipRetired(d)
  BY <1>2 DEF SkipRetired
<1>3. CASE Take(d)
  BY <1>3 DEF Take
<1>4. CASE RemoveHost(d)
  BY <1>4 DEF RemoveHost
<1>5. CASE Unlink(d)
  BY <1>5 DEF Unlink, Settle
<1>6. CASE CheckHost(d)
  BY <1>6 DEF CheckHost
<1>7. CASE ClearStaleLink(d)
  BY <1>7 DEF ClearStaleLink
<1>8. CASE StaleLinkFails(d)
  BY <1>8 DEF StaleLinkFails, Settle
<1>9. CASE RenameHost(d)
  BY <1>9 DEF RenameHost
<1>10. CASE RenameRefused(d)
  BY <1>10 DEF RenameRefused, Settle
<1>11. CASE MarkHost(d)
  BY <1>11 DEF MarkHost, Settle, ReportSynced
<1>12. CASE MarkRefused(d)
  BY <1>12 DEF MarkRefused, Settle
<1>13. CASE AdoptMatch(d)
  BY <1>13 DEF AdoptMatch
<1>14. CASE AdoptNone(d)
  BY <1>14 DEF AdoptNone
<1>15. CASE SaveAdoption(d)
  BY <1>15 DEF SaveAdoption
<1>16. CASE AdoptionRefused(d)
  BY <1>16 DEF AdoptionRefused, Settle
<1>17. CASE CreateHost(d)
  BY <1>17 DEF CreateHost
<1>18. CASE CreateRefused(d)
  BY <1>18 DEF CreateRefused, Settle
<1>19. CASE SaveCreation(d)
  BY <1>19 DEF SaveCreation, Settle, ReportSynced
<1>20. CASE AbortRun(d)
  BY <1>20 DEF AbortRun, Leave
<1>21. CASE FinishWithoutCleanup(d)
  BY <1>21 DEF FinishWithoutCleanup, Leave
<1>22. CASE BeginCleanup(d)
  BY <1>22 DEF BeginCleanup
<1>23. CASE FetchIds(d)
  BY <1>23 DEF FetchIds
<1>24. CASE FetchHosts(d)
  BY <1>24 DEF FetchHosts
<1>25. CASE FetchClusters(d)
  BY <1>25 DEF FetchClusters
<1>26. CASE ReapHost(d)
  BY <1>26 DEF ReapHost
<1>27. CASE ReapRefused(d)
  BY <1>27 DEF ReapRefused
<1>28. CASE ClearLink(d)
  BY <1>28 DEF ClearLink, BackToSweep
<1>29. CASE ClearFails(d)
  BY <1>29 DEF ClearFails, BackToSweep
<1>30. CASE FinishRun(d)
  BY <1>30 DEF FinishRun, Leave
<1>31. CASE TargetFails(d)
  BY <1>31 DEF TargetFails, Settle
<1>32. CASE RunDies(d)
  BY <1>32 DEF RunDies, Leave
<1>33. CASE CleanupSkipped(d)
  BY <1>33 DEF CleanupSkipped, Leave
<1>34. CASE ReapFails(d)
  BY <1>34 DEF ReapFails
<1> QED
  BY <1>1, <1>2, <1>3, <1>4, <1>5, <1>6, <1>7, <1>8, <1>9, <1>10, <1>11, <1>12, <1>13,
      <1>14, <1>15, <1>16, <1>17, <1>18, <1>19, <1>20, <1>21, <1>22, <1>23, <1>24, <1>25,
      <1>26, <1>27, <1>28, <1>29, <1>30, <1>31, <1>32, <1>33, <1>34
  DEF RunStep, FailStep

\* People change records and hosts within their types, and no run.
LEMMA EditKeepsTypes ==
  ASSUME TypeOK, AtHand, NetBoxEdit \/ ZabbixEdit
  PROVE  TypeOK' /\ AtHand'
<1> USE BoundAssumption
<1> USE DEF TypeOK, NetBoxTypeOK, ZabbixTypeOK, RunTypeOK, TargetTypeOK, SweepTypeOK,
            PastTypeOK, Edit, KeepTheRest, AtHand, Mine
<1>1. ASSUME NEW r \in Records, AddRecord(r) PROVE TypeOK' /\ AtHand'
  BY <1>1 DEF AddRecord, Lives
<1>2. ASSUME NEW r \in Records, DeleteRecord(r) PROVE TypeOK' /\ AtHand'
  BY <1>2 DEF DeleteRecord, Lives
<1>3. ASSUME NEW r \in Records, ChangeMode(r) PROVE TypeOK' /\ AtHand'
  BY <1>3 DEF ChangeMode, Lives
<1>4. ASSUME NEW s \in Sources, ChangeImport(s) PROVE TypeOK' /\ AtHand'
  BY <1>4 DEF ChangeImport, Lives
<1>5. ASSUME NEW s \in Sources, Rename(s) PROVE TypeOK' /\ AtHand'
  BY <1>5 DEF Rename, Lives
<1>6. ASSUME NEW h \in Hosts, HandDelete(h) PROVE TypeOK' /\ AtHand'
  BY <1>6 DEF HandDelete, Lives
<1>7. ASSUME NEW h \in Hosts, HandCreate(h) PROVE TypeOK' /\ AtHand'
  BY <1>7 DEF HandCreate, Lives
<1> QED
  BY <1>1, <1>2, <1>3, <1>4, <1>5, <1>6, <1>7 DEF NetBoxEdit, ZabbixEdit

LEMMA TypeStep == TypeOK /\ AtHand /\ [Next]_vars => TypeOK' /\ AtHand'
<1>1. CASE UNCHANGED vars
  BY <1>1 DEF vars, TypeOK, NetBoxTypeOK, ZabbixTypeOK, RunTypeOK, TargetTypeOK,
              SweepTypeOK, PastTypeOK, AtHand
<1> QED
  BY <1>1, RunKeepsTypes, RunKeepsAtHand, EditKeepsTypes DEF Next

\* Every variable keeps its type: links and tags name real hosts and sources,
\* and a run that makes a call for a source holds a source of its deployment.
THEOREM TypeCorrect == Spec => [](TypeOK /\ AtHand)
  BY TypeInit, TypeStep, PTL DEF Spec
-----------------------------------------------------------------------------
(* A marked host is the host its source links to: the argument behind        *)
(* OwnedHostIsLinked, for any deployments sharing the Zabbix server.         *)

\* What the link of the source at hand is at each call: the zabbix_id the run
\* works with, or nothing; it is emptied only once the host is gone.
LinkAtHand == \A d \in Deployments :
    /\ pc[d] \in {"remove", "unlink", "check", "rename", "mark"} => link[cur[d]] = hid[d]
    /\ pc[d] \in {"adopt", "adoptSave", "create", "createSave"} => link[cur[d]] = NoHost
    /\ pc[d] \in {"unlink", "clear"} => zbx[hid[d]] = "gone"

\* Tags that a run has read and not written back yet are still accounted for.
SeenIsHeld == \A d \in Deployments :
    pc[d] \in {"rename", "mark"} =>
        /\ zbx[hid[d]] # "unused"
        /\ Live(hid[d]) => \A s \in seenMarks[d] : Held(s, hid[d])

\* Ids that Zabbix has not handed out yet carry no tags.
UnusedUnmarked == \A h \in Hosts : zbx[h] = "unused" => marks[h] = {}

LinkInv == /\ TypeOK /\ AtHand /\ LinkAtHand /\ SeenIsHeld /\ UnusedUnmarked
           /\ OwnedHostIsLinked

LEMMA LinkInit == Init => LinkInv
<1> SUFFICES ASSUME Init PROVE LinkInv
  OBVIOUS
<1>1. TypeOK /\ AtHand
  BY TypeInit
<1>2. LinkAtHand /\ SeenIsHeld /\ UnusedUnmarked /\ OwnedHostIsLinked
  BY DEF Init, LinkAtHand, SeenIsHeld, UnusedUnmarked, OwnedHostIsLinked
<1> QED
  BY <1>1, <1>2 DEF LinkInv

\* A host never comes back, nor is its id handed out again.
LEMMA HostsOnlyAge ==
  ASSUME TypeOK, AtHand, [Next]_vars, NEW h \in Hosts
  PROVE  /\ zbx[h] = "gone" => zbx'[h] = "gone"
         /\ zbx[h] # "unused" => zbx'[h] # "unused"
<1> DEFINE Ages == /\ zbx[h] = "gone" => zbx'[h] = "gone"
                   /\ zbx[h] # "unused" => zbx'[h] # "unused"
<1> USE DEF TypeOK, ZabbixTypeOK
<1>1. ASSUME NEW d \in Deployments, RunStep(d) \/ FailStep(d) PROVE Ages
  <2>1. CASE RemoveHost(d)
    BY <2>1 DEF RemoveHost
  <2>2. CASE CreateHost(d)
    BY <2>2 DEF CreateHost
  <2>3. CASE ReapHost(d)
    BY <2>3 DEF ReapHost
  <2> QED
    BY <1>1, <2>1, <2>2, <2>3
    DEF RunStep, FailStep, StartRun, SkipRetired, Take, Unlink, CheckHost,
        ClearStaleLink, StaleLinkFails, RenameHost, RenameRefused, MarkHost, MarkRefused,
        AdoptMatch, AdoptNone, SaveAdoption, AdoptionRefused, CreateRefused,
        SaveCreation, AbortRun, FinishWithoutCleanup, BeginCleanup, FetchIds, FetchHosts,
        FetchClusters, ReapRefused, ClearLink, ClearFails, FinishRun, TargetFails,
        RunDies, CleanupSkipped, ReapFails
<1>2. ASSUME NetBoxEdit \/ ZabbixEdit PROVE Ages
  BY <1>2 DEF NetBoxEdit, ZabbixEdit, AddRecord, DeleteRecord, ChangeMode, ChangeImport,
              Rename, HandDelete, HandCreate, Live
<1>3. ASSUME UNCHANGED vars PROVE Ages
  BY <1>3 DEF vars
<1> QED
  BY <1>1, <1>2, <1>3 DEF Next

\* The heart of the matter: a link is only ever emptied or redirected when the
\* host it names is gone.
LEMMA LinkStep ==
  ASSUME LinkInv, [Next]_vars, NEW s \in Sources, link[s] # NoHost, zbx'[link[s]] = "live"
  PROVE  link'[s] = link[s]
<1> USE DEF LinkInv, TypeOK, NetBoxTypeOK
<1>1. ASSUME NEW d \in Deployments, RunStep(d) \/ FailStep(d) PROVE link'[s] = link[s]
  <2> USE DEF LinkAtHand, AtHand, HostPCs, TargetPCs, Mine
  <2>1. CASE Unlink(d)
    BY <2>1 DEF Unlink
  <2>2. CASE ClearStaleLink(d)
    BY <2>2 DEF ClearStaleLink, Live
  <2>3. CASE SaveAdoption(d)
    BY <2>3 DEF SaveAdoption
  <2>4. CASE SaveCreation(d)
    BY <2>4 DEF SaveCreation
  <2>5. CASE ClearLink(d)
    BY <2>5 DEF ClearLink
  <2> QED
    BY <1>1, <2>1, <2>2, <2>3, <2>4, <2>5
    DEF RunStep, FailStep, StartRun, SkipRetired, Take, RemoveHost, CheckHost,
        StaleLinkFails, RenameHost, RenameRefused, MarkHost, MarkRefused, AdoptMatch,
        AdoptNone, AdoptionRefused, CreateHost, CreateRefused, AbortRun,
        FinishWithoutCleanup, BeginCleanup, FetchIds, FetchHosts, FetchClusters,
        ReapHost, ReapRefused, ClearFails, FinishRun, TargetFails, RunDies,
        CleanupSkipped, ReapFails
<1>2. CASE NetBoxEdit \/ ZabbixEdit
  BY <1>2 DEF NetBoxEdit, ZabbixEdit, AddRecord, DeleteRecord, ChangeMode, ChangeImport,
              Rename, HandDelete, HandCreate
<1>3. CASE UNCHANGED vars
  BY <1>3 DEF vars
<1> QED
  BY <1>1, <1>2, <1>3 DEF Next

\* A deployment's step leaves the run of every other deployment as it is.
LEMMA OwnRunOnly ==
  ASSUME TypeOK, NEW d \in Deployments, RunStep(d) \/ FailStep(d),
         NEW e \in Deployments \ {d}
  PROVE  /\ pc'[e] = pc[e] /\ cur'[e] = cur[e] /\ hid'[e] = hid[e]
         /\ seenMarks'[e] = seenMarks[e] /\ ids'[e] = ids[e] /\ doomed'[e] = doomed[e]
         /\ todo'[e] = todo[e] /\ synced'[e] = synced[e]
<1> USE DEF TypeOK, RunTypeOK, TargetTypeOK, SweepTypeOK, Goto, ReportSynced
<1>1. CASE \/ StartRun(d) \/ SkipRetired(d) \/ Take(d) \/ RemoveHost(d) \/ Unlink(d)
           \/ CheckHost(d) \/ ClearStaleLink(d) \/ StaleLinkFails(d) \/ RenameHost(d)
           \/ RenameRefused(d)
  BY <1>1 DEF StartRun, SkipRetired, Take, RemoveHost, Unlink, CheckHost, ClearStaleLink,
      StaleLinkFails, RenameHost, RenameRefused, Settle
<1>2. CASE \/ MarkHost(d) \/ MarkRefused(d) \/ AdoptMatch(d) \/ AdoptNone(d)
           \/ SaveAdoption(d) \/ AdoptionRefused(d) \/ CreateHost(d) \/ CreateRefused(d)
           \/ SaveCreation(d) \/ AbortRun(d)
  BY <1>2 DEF MarkHost, MarkRefused, AdoptMatch, AdoptNone, SaveAdoption,
      AdoptionRefused, CreateHost, CreateRefused, SaveCreation, AbortRun, Leave, Settle
<1>3. CASE \/ FinishWithoutCleanup(d) \/ BeginCleanup(d) \/ FetchIds(d) \/ FetchHosts(d)
           \/ FetchClusters(d) \/ ReapHost(d) \/ ReapRefused(d) \/ ClearLink(d)
           \/ ClearFails(d) \/ FinishRun(d)
  BY <1>3 DEF FinishWithoutCleanup, BeginCleanup, FetchIds, FetchHosts, FetchClusters,
      ReapHost, ReapRefused, ClearLink, ClearFails, FinishRun, BackToSweep, Leave
<1>4. CASE TargetFails(d) \/ RunDies(d) \/ CleanupSkipped(d) \/ ReapFails(d)
  BY <1>4 DEF TargetFails, RunDies, CleanupSkipped, ReapFails, Leave, Settle
<1> QED
  BY <1>1, <1>2, <1>3, <1>4 DEF RunStep, FailStep

\* A host that is accounted for stays so for as long as it exists.
LEMMA HeldIsStable ==
  ASSUME LinkInv, [Next]_vars, NEW s \in Sources, NEW h \in Hosts,
         Held(s, h), zbx'[h] = "live"
  PROVE  Held(s, h)'
<1> USE NoneAssumption
<1>1. CASE link[s] = h
  BY <1>1, LinkStep DEF Held
<1>2. CASE h \in orphans
  <2>1. orphans \subseteq orphans'
    BY DEF Next, vars, NetBoxEdit, ZabbixEdit, AddRecord, DeleteRecord, ChangeMode,
           ChangeImport, Rename, HandDelete, HandCreate, RunStep, FailStep,
           StartRun, SkipRetired, Take, RemoveHost, Unlink, CheckHost, ClearStaleLink,
           StaleLinkFails, RenameHost, RenameRefused, MarkHost, MarkRefused, AdoptMatch,
           AdoptNone, SaveAdoption, AdoptionRefused, CreateHost, CreateRefused,
           SaveCreation, AbortRun, FinishWithoutCleanup, BeginCleanup, FetchIds,
           FetchHosts, FetchClusters, ReapHost, ReapRefused, ClearLink, ClearFails,
           FinishRun, TargetFails, RunDies, CleanupSkipped, ReapFails
  <2> QED
    BY SMTT(30), <1>2, <2>1 DEF Held
<1>3. CASE InFlight(s, h)
  <2>1. PICK e \in Deployments : pc[e] = "createSave" /\ cur[e] = s /\ hid[e] = h
    BY <1>3 DEF InFlight
  <2>2. CASE SaveCreation(e)
    BY <2>1, <2>2 DEF SaveCreation, Held, LinkInv, TypeOK, NetBoxTypeOK
  <2>3. CASE AbortRun(e) \/ RunDies(e)
    BY <2>1, <2>3 DEF AbortRun, RunDies, Unsaved, Held
  <2>4. CASE ~SaveCreation(e) /\ ~AbortRun(e) /\ ~RunDies(e) /\ (RunStep(e) \/ FailStep(e))
    BY <2>1, <2>4
    DEF RunStep, FailStep, TargetPCs, StartRun, SkipRetired, Take, RemoveHost, Unlink,
        CheckHost, ClearStaleLink, StaleLinkFails, RenameHost, RenameRefused, MarkHost,
        MarkRefused, AdoptMatch, AdoptNone, SaveAdoption, AdoptionRefused, CreateHost,
        CreateRefused, FinishWithoutCleanup, BeginCleanup, FetchIds, FetchHosts,
        FetchClusters, ReapHost, ReapRefused, ClearLink, ClearFails, FinishRun,
        TargetFails, CleanupSkipped, ReapFails
  <2>5. ASSUME NEW d \in Deployments \ {e}, RunStep(d) \/ FailStep(d)
        PROVE  pc'[e] = pc[e] /\ cur'[e] = cur[e] /\ hid'[e] = hid[e]
    BY <2>5, OwnRunOnly DEF LinkInv
  <2>6. CASE NetBoxEdit \/ ZabbixEdit
    BY <2>1, <2>6 DEF NetBoxEdit, ZabbixEdit, AddRecord, DeleteRecord, ChangeMode,
        ChangeImport,
              Rename, HandDelete, HandCreate, KeepTheRest, Held, InFlight
  <2>7. CASE UNCHANGED vars
    BY <2>1, <2>7 DEF vars, Held, InFlight
  <2> QED
    BY <2>1, <2>2, <2>3, <2>4, <2>5, <2>6, <2>7 DEF Next, Held, InFlight
<1> QED
  BY <1>1, <1>2, <1>3 DEF Held

\* A run writes the links of its own sources only.
LEMMA OwnLinksOnly ==
  ASSUME LinkInv, NEW d \in Deployments, RunStep(d) \/ FailStep(d),
         NEW s \in Sources, s \notin Mine(d)
  PROVE  link'[s] = link[s]
<1> USE DEF LinkInv, TypeOK, NetBoxTypeOK, AtHand, TargetPCs
<1>1. CASE Unlink(d) \/ ClearStaleLink(d) \/ SaveAdoption(d) \/ SaveCreation(d) \/ ClearLink(d)
  BY <1>1 DEF Unlink, ClearStaleLink, SaveAdoption, SaveCreation, ClearLink
<1> QED
  BY <1>1 DEF RunStep, FailStep, StartRun, SkipRetired, Take, RemoveHost, CheckHost,
      StaleLinkFails, RenameHost, RenameRefused, MarkHost, MarkRefused, AdoptMatch,
      AdoptNone, AdoptionRefused, CreateHost, CreateRefused, AbortRun,
      FinishWithoutCleanup, BeginCleanup, FetchIds, FetchHosts, FetchClusters, ReapHost,
      ReapRefused, ClearFails, FinishRun, TargetFails, RunDies, CleanupSkipped, ReapFails

\* The part of LinkAtHand that speaks of one deployment.
LinkAtHandOf(d) ==
    /\ pc[d] \in {"remove", "unlink", "check", "rename", "mark"} => link[cur[d]] = hid[d]
    /\ pc[d] \in {"adopt", "adoptSave", "create", "createSave"} => link[cur[d]] = NoHost
    /\ pc[d] \in {"unlink", "clear"} => zbx[hid[d]] = "gone"

\* Each call of a run leaves the link as the next call expects it.
LEMMA RunKeepsLinkAtHand ==
  ASSUME LinkInv, NEW d \in Deployments, RunStep(d) \/ FailStep(d)
  PROVE  LinkAtHandOf(d)'
<1> USE NoneAssumption
<1> USE DEF LinkInv, LinkAtHand, LinkAtHandOf, TypeOK, NetBoxTypeOK, ZabbixTypeOK,
            RunTypeOK, TargetTypeOK, SweepTypeOK, AtHand, HostPCs, TargetPCs, Mine, Goto
<1>1. CASE StartRun(d)
  BY <1>1 DEF StartRun
<1>2. CASE SkipRetired(d)
  BY <1>2 DEF SkipRetired
<1>3. CASE Take(d)
  BY <1>3 DEF Take
<1>4. CASE RemoveHost(d)
  BY <1>4 DEF RemoveHost
<1>5. CASE Unlink(d)
  BY <1>5 DEF Unlink, Settle
<1>6. CASE CheckHost(d)
  BY <1>6 DEF CheckHost, Live
<1>7. CASE ClearStaleLink(d)
  BY <1>7 DEF ClearStaleLink, Live
<1>8. CASE StaleLinkFails(d)
  BY <1>8 DEF StaleLinkFails, Settle
<1>9. CASE RenameHost(d)
  BY <1>9 DEF RenameHost
<1>10. CASE RenameRefused(d)
  BY <1>10 DEF RenameRefused, Settle
<1>11. CASE MarkHost(d)
  BY <1>11 DEF MarkHost, Settle, ReportSynced
<1>12. CASE MarkRefused(d)
  BY <1>12 DEF MarkRefused, Settle
<1>13. CASE AdoptMatch(d)
  BY <1>13 DEF AdoptMatch
<1>14. CASE AdoptNone(d)
  BY <1>14 DEF AdoptNone
<1>15. CASE SaveAdoption(d)
  BY <1>15 DEF SaveAdoption
<1>16. CASE AdoptionRefused(d)
  BY <1>16 DEF AdoptionRefused, Settle
<1>17. CASE CreateHost(d)
  BY <1>17 DEF CreateHost
<1>18. CASE CreateRefused(d)
  BY <1>18 DEF CreateRefused, Settle
<1>19. CASE SaveCreation(d)
  BY <1>19 DEF SaveCreation, Settle, ReportSynced
<1>20. CASE AbortRun(d)
  BY <1>20 DEF AbortRun, Leave
<1>21. CASE FinishWithoutCleanup(d)
  BY <1>21 DEF FinishWithoutCleanup, Leave
<1>22. CASE BeginCleanup(d)
  BY <1>22 DEF BeginCleanup
<1>23. CASE FetchIds(d)
  BY <1>23 DEF FetchIds
<1>24. CASE FetchHosts(d)
  BY <1>24 DEF FetchHosts
<1>25. CASE FetchClusters(d)
  BY <1>25 DEF FetchClusters
<1>26. CASE ReapHost(d)
  BY <1>26 DEF ReapHost
<1>27. CASE ReapRefused(d)
  BY <1>27 DEF ReapRefused
<1>28. CASE ClearLink(d)
  BY <1>28 DEF ClearLink, BackToSweep
<1>29. CASE ClearFails(d)
  BY <1>29 DEF ClearFails, BackToSweep
<1>30. CASE FinishRun(d)
  BY <1>30 DEF FinishRun, Leave
<1>31. CASE TargetFails(d)
  BY <1>31 DEF TargetFails, Settle
<1>32. CASE RunDies(d)
  BY <1>32 DEF RunDies, Leave
<1>33. CASE CleanupSkipped(d)
  BY <1>33 DEF CleanupSkipped, Leave
<1>34. CASE ReapFails(d)
  BY <1>34 DEF ReapFails
<1> QED
  BY <1>1, <1>2, <1>3, <1>4, <1>5, <1>6, <1>7, <1>8, <1>9, <1>10, <1>11, <1>12, <1>13,
      <1>14, <1>15, <1>16, <1>17, <1>18, <1>19, <1>20, <1>21, <1>22, <1>23, <1>24, <1>25,
      <1>26, <1>27, <1>28, <1>29, <1>30, <1>31, <1>32, <1>33, <1>34
  DEF RunStep, FailStep

LEMMA LinkAtHandStep ==
  ASSUME LinkInv, [Next]_vars
  PROVE  LinkAtHand'
<1>1. ASSUME NEW d \in Deployments, RunStep(d) \/ FailStep(d),
             NEW e \in Deployments \ {d}
      PROVE  LinkAtHandOf(e)'
  <2>1. pc'[e] = pc[e] /\ cur'[e] = cur[e] /\ hid'[e] = hid[e]
    BY <1>1, OwnRunOnly DEF LinkInv
  <2>2. pc[e] \in TargetPCs => link'[cur[e]] = link[cur[e]]
    BY <1>1, OwnLinksOnly DEF LinkInv, AtHand, Mine
  <2>3. pc[e] \in {"unlink", "clear"} => zbx'[hid[e]] = "gone"
    <3>1. [Next]_vars
      BY <1>1 DEF Next
    <3> QED
      BY <3>1, HostsOnlyAge DEF LinkInv, LinkAtHand, AtHand, HostPCs
  <2> QED
    BY <2>1, <2>2, <2>3 DEF LinkInv, LinkAtHand, LinkAtHandOf, TargetPCs
<1>2. ASSUME NetBoxEdit \/ ZabbixEdit, NEW e \in Deployments
      PROVE  LinkAtHandOf(e)'
  <2>1. pc' = pc /\ cur' = cur /\ hid' = hid /\ link' = link
    BY <1>2 DEF NetBoxEdit, ZabbixEdit, AddRecord, DeleteRecord, ChangeMode, ChangeImport,
                Rename, HandDelete, HandCreate, KeepTheRest
  <2>2. pc[e] \in {"unlink", "clear"} => zbx'[hid[e]] = "gone"
    <3>1. [Next]_vars
      BY <1>2 DEF Next
    <3> QED
      BY <3>1, HostsOnlyAge DEF LinkInv, LinkAtHand, AtHand, HostPCs
  <2> QED
    BY <2>1, <2>2 DEF LinkInv, LinkAtHand, LinkAtHandOf
<1>3. CASE UNCHANGED vars
  BY <1>3 DEF vars, LinkInv, LinkAtHand
<1> QED
  BY <1>1, <1>2, <1>3, RunKeepsLinkAtHand DEF Next, LinkAtHand, LinkAtHandOf

\* Tags come from a tag update or with a new host.
LEMMA MarksStep ==
  ASSUME LinkInv, [Next]_vars, NEW h \in Hosts, NEW s \in marks'[h],
         zbx'[h] = "live"
  PROVE  Held(s, h)'
<1>1. s \in Sources
  BY TypeStep DEF LinkInv, TypeOK, ZabbixTypeOK
<1>2. CASE marks'[h] = marks[h] /\ zbx[h] = "live"
  BY <1>1, <1>2, HeldIsStable DEF LinkInv, OwnedHostIsLinked, Live
<1>3. ASSUME NEW d \in Deployments, MarkHost(d), h = hid[d], Live(h),
             marks'[h] = DesiredMarks(d)
      PROVE  Held(s, h)'
  <2>1. CASE s \in seenMarks[d]
    BY <1>1, <1>3, <2>1, HeldIsStable DEF LinkInv, SeenIsHeld, MarkHost, Live
  <2>2. CASE s = cur[d]
    <3>1. link[s] = h
      BY <1>3, <2>2 DEF LinkInv, LinkAtHand, MarkHost
    <3> QED
      BY <1>1, <3>1, HeldIsStable DEF Held
  <2> QED
    BY <1>3, <2>1, <2>2 DEF DesiredMarks
<1>4. ASSUME NEW d \in Deployments, CreateHost(d) PROVE Held(s, h)'
  <2>1. CASE hid'[d] = h
    BY <1>4, <2>1 DEF CreateHost, Goto, Held, InFlight, LinkInv, TypeOK, RunTypeOK,
                      TargetTypeOK, ZabbixTypeOK
  <2>2. CASE hid'[d] # h
    BY <1>4, <2>2, <1>2 DEF CreateHost, LinkInv, TypeOK, ZabbixTypeOK, TargetTypeOK
  <2> QED
    BY <2>1, <2>2
<1>5. CASE UNCHANGED vars
  BY <1>5, <1>2 DEF vars
<1>6. CASE NetBoxEdit \/ ZabbixEdit
  <2>1. marks' = marks /\ (zbx[h] = "live" \/ zbx[h] = "unused")
    BY <1>6 DEF NetBoxEdit, ZabbixEdit, AddRecord, DeleteRecord, ChangeMode, ChangeImport,
                Rename, HandDelete, HandCreate, LinkInv, TypeOK, ZabbixTypeOK
  <2> QED
    BY <1>2, <2>1 DEF LinkInv, UnusedUnmarked
<1>7. ASSUME NEW d \in Deployments, MarkHost(d), ~Live(h) \/ h # hid[d] \/ UNCHANGED marks
      PROVE  Held(s, h)'
  BY <1>7, <1>2 DEF MarkHost, Live, LinkInv, TypeOK, ZabbixTypeOK
<1>8. ASSUME NEW d \in Deployments, RunStep(d) \/ FailStep(d),
             ~MarkHost(d), ~CreateHost(d)
      PROVE  Held(s, h)'
  <2>1. marks' = marks
    BY <1>8 DEF RunStep, FailStep, StartRun, SkipRetired, Take, RemoveHost, Unlink,
        CheckHost, ClearStaleLink, StaleLinkFails, RenameHost, RenameRefused,
        MarkRefused, AdoptMatch, AdoptNone, SaveAdoption, AdoptionRefused, CreateRefused,
        SaveCreation, AbortRun, FinishWithoutCleanup, BeginCleanup, FetchIds, FetchHosts,
        FetchClusters, ReapHost, ReapRefused, ClearLink, ClearFails, FinishRun,
        TargetFails, RunDies, CleanupSkipped, ReapFails
  <2>2. zbx[h] = "live"
    BY <1>8 DEF RunStep, FailStep, LinkInv, TypeOK, ZabbixTypeOK,
       StartRun, SkipRetired, Take, RemoveHost, Unlink, CheckHost, ClearStaleLink,
       StaleLinkFails, RenameHost, RenameRefused, MarkRefused, AdoptMatch, AdoptNone,
       SaveAdoption, AdoptionRefused, CreateRefused, SaveCreation, AbortRun,
       FinishWithoutCleanup, BeginCleanup, FetchIds, FetchHosts, FetchClusters, ReapHost,
       ReapRefused, ClearLink, ClearFails, FinishRun, TargetFails, RunDies,
       CleanupSkipped, ReapFails
  <2> QED
    BY <2>1, <2>2, <1>2
<1>9. ASSUME NEW d \in Deployments, MarkHost(d) PROVE Held(s, h)'
  <2>1. CASE marks' = [marks EXCEPT ![hid[d]] = DesiredMarks(d)] /\ h = hid[d] /\ Live(h)
    BY <1>3, <1>9, <2>1 DEF LinkInv, TypeOK, ZabbixTypeOK
  <2> QED
    BY <1>7, <1>9, <2>1 DEF MarkHost, LinkInv, TypeOK, ZabbixTypeOK
<1> QED
  BY <1>4, <1>5, <1>6, <1>8, <1>9 DEF Next

\* Ids are handed out with the tags they then carry.
LEMMA UnusedUnmarkedStep ==
  ASSUME LinkInv, [Next]_vars
  PROVE  UnusedUnmarked'
<1> USE DEF LinkInv, TypeOK, ZabbixTypeOK, UnusedUnmarked
<1>1. ASSUME NEW d \in Deployments, RunStep(d) \/ FailStep(d) PROVE UnusedUnmarked'
  <2>1. CASE MarkHost(d)
    BY <2>1 DEF MarkHost, Live
  <2>2. CASE CreateHost(d)
    BY <2>2 DEF CreateHost
  <2>3. CASE RemoveHost(d) \/ ReapHost(d)
    BY <2>3 DEF RemoveHost, ReapHost
  <2>4. CASE ~MarkHost(d) /\ ~CreateHost(d) /\ ~RemoveHost(d) /\ ~ReapHost(d)
    <3>1. UNCHANGED <<zbx, marks>>
      BY <1>1, <2>4 DEF RunStep, FailStep, StartRun, SkipRetired, Take, Unlink,
          CheckHost, ClearStaleLink, StaleLinkFails, RenameHost, RenameRefused,
          MarkRefused, AdoptMatch, AdoptNone, SaveAdoption, AdoptionRefused,
          CreateRefused, SaveCreation, AbortRun, FinishWithoutCleanup, BeginCleanup,
          FetchIds, FetchHosts, FetchClusters, ReapRefused, ClearLink, ClearFails,
          FinishRun, TargetFails, RunDies, CleanupSkipped, ReapFails
    <3> QED
      BY <3>1
  <2> QED
    BY <2>1, <2>2, <2>3, <2>4
<1>2. CASE NetBoxEdit \/ ZabbixEdit
  BY <1>2 DEF NetBoxEdit, ZabbixEdit, AddRecord, DeleteRecord, ChangeMode, ChangeImport,
              Rename, HandDelete, HandCreate
<1>3. CASE UNCHANGED vars
  BY <1>3 DEF vars
<1> QED
  BY <1>1, <1>2, <1>3 DEF Next

\* What a run has read stays accounted for until it writes it back.
LEMMA SeenIsHeldStep ==
  ASSUME LinkInv, [Next]_vars
  PROVE  SeenIsHeld'
<1>1. ASSUME NEW e \in Deployments, pc[e] \in {"rename", "mark"}, UNCHANGED <<hid[e],
seenMarks[e]>>
      PROVE  /\ zbx'[hid[e]] # "unused"
             /\ Live(hid[e])' => \A s \in seenMarks'[e] : Held(s, hid[e])'
  <2>1. hid[e] \in Hosts /\ zbx[hid[e]] # "unused"
    BY <1>1 DEF LinkInv, SeenIsHeld, AtHand, HostPCs
  <2>2. zbx[hid[e]] = "gone" => zbx'[hid[e]] = "gone"
    BY <2>1, HostsOnlyAge DEF LinkInv
  <2>3. ASSUME Live(hid[e])
        PROVE  /\ zbx'[hid[e]] # "unused"
               /\ Live(hid[e])' => \A s \in seenMarks'[e] : Held(s, hid[e])'
    <3>1. zbx'[hid[e]] # "unused"
      BY <2>1, HostsOnlyAge DEF LinkInv
    <3>2. ASSUME Live(hid[e])', NEW s \in seenMarks'[e] PROVE Held(s, hid[e])'
      <4>1. s \in Sources /\ Held(s, hid[e])
        BY <1>1, <2>3, <3>2 DEF LinkInv, SeenIsHeld, TypeOK, TargetTypeOK
      <4> QED
        BY <1>1, <2>1, <3>2, <4>1, HeldIsStable DEF Live
    <3> QED
      BY <3>1, <3>2
  <2> QED
    BY <1>1, <2>1, <2>2, <2>3 DEF Live, LinkInv, TypeOK, ZabbixTypeOK
<1>2. ASSUME NEW e \in Deployments, CheckHost(e)
      PROVE  /\ zbx'[hid'[e]] # "unused"
             /\ Live(hid[e])' => \A s \in seenMarks'[e] : Held(s, hid[e])'
  <2>1. hid' = hid /\ zbx' = zbx /\ Live(hid[e]) /\ seenMarks'[e] = marks[hid[e]]
    BY <1>2 DEF CheckHost, LinkInv, TypeOK, TargetTypeOK
  <2>2. ASSUME NEW s \in marks[hid[e]] PROVE Held(s, hid[e])'
    <3>1. s \in Sources /\ Held(s, hid[e])
      BY SMTT(30), <2>1, <2>2 DEF LinkInv, OwnedHostIsLinked, TypeOK, ZabbixTypeOK, Live
    <3> QED
      BY <2>1, <3>1, HeldIsStable DEF Live
  <2> QED
    BY <2>1, <2>2 DEF Live
<1>3. ASSUME NEW e \in Deployments, RunStep(e) \/ FailStep(e), ~CheckHost(e),
             pc'[e] \in {"rename", "mark"}
      PROVE  pc[e] \in {"rename", "mark"} /\ UNCHANGED <<hid[e], seenMarks[e]>>
  BY <1>3 DEF RunStep, FailStep, Settle, Leave, BackToSweep, Goto, LinkInv, TypeOK,
      RunTypeOK,
     StartRun, SkipRetired, Take, RemoveHost, Unlink, ClearStaleLink, StaleLinkFails,
     RenameHost, RenameRefused, MarkHost, MarkRefused, AdoptMatch, AdoptNone,
     SaveAdoption, AdoptionRefused, CreateHost, CreateRefused, SaveCreation, AbortRun,
     FinishWithoutCleanup, BeginCleanup, FetchIds, FetchHosts, FetchClusters, ReapHost,
     ReapRefused, ClearLink, ClearFails, FinishRun, TargetFails, RunDies, CleanupSkipped,
     ReapFails
<1>4. ASSUME NEW d \in Deployments, RunStep(d) \/ FailStep(d) PROVE SeenIsHeld'
  <2> SUFFICES ASSUME NEW e \in Deployments, pc'[e] \in {"rename", "mark"}
               PROVE  /\ zbx'[hid'[e]] # "unused"
                      /\ Live(hid[e])' => \A s \in seenMarks'[e] : Held(s, hid[e])'
    BY DEF SeenIsHeld
  <2>1. CASE e = d
    BY <1>1, <1>2, <1>3, <1>4, <2>1
  <2>2. CASE e # d
    BY <1>1, <1>4, <2>2, OwnRunOnly DEF LinkInv
  <2> QED
    BY <2>1, <2>2
<1>5. CASE NetBoxEdit \/ ZabbixEdit
  <2>1. pc' = pc /\ hid' = hid /\ seenMarks' = seenMarks
    BY <1>5 DEF NetBoxEdit, ZabbixEdit, AddRecord, DeleteRecord, ChangeMode, ChangeImport,
                Rename, HandDelete, HandCreate, KeepTheRest
  <2> QED
    BY <1>1, <2>1 DEF SeenIsHeld
<1>6. CASE UNCHANGED vars
  BY <1>1, <1>6 DEF vars, SeenIsHeld
<1> QED
  BY <1>4, <1>5, <1>6 DEF Next

LEMMA LinkInvStep == LinkInv /\ [Next]_vars => LinkInv'
<1> SUFFICES ASSUME LinkInv, [Next]_vars PROVE LinkInv'
  OBVIOUS
<1>1. OwnedHostIsLinked'
  BY MarksStep DEF OwnedHostIsLinked, Live
<1> QED
  BY <1>1, TypeStep, LinkAtHandStep, SeenIsHeldStep, UnusedUnmarkedStep DEF LinkInv

\* A live host with the tags of a source is the host the source links to, is
\* about to be, or was left behind by a run that never saved the link:
\* create_in_zabbix, consistency_check and every unlinking path together.
THEOREM MarkedHostsAreLinked == Spec => []OwnedHostIsLinked
<1>1. LinkInv => OwnedHostIsLinked
  BY DEF LinkInv
<1> QED
  BY <1>1, LinkInit, LinkInvStep, PTL DEF Spec

\* A link to a host that exists is never emptied or redirected, by no run,
\* failure or edit of the model.
THEOREM LinksToLiveHostsAreKept == Spec => LinkToLiveHostIsKept
<1>1. LinkInv /\ [Next]_vars
      => [\A s \in Sources :
            link[s] # NoHost /\ zbx'[link[s]] = "live" => link'[s] = link[s]]_vars
  BY LinkStep
<1> QED
  BY <1>1, LinkInit, LinkInvStep, PTL DEF Spec, LinkToLiveHostIsKept
-----------------------------------------------------------------------------
(* What the cleanup pass may delete: the argument behind ReapedSourceIsGone. *)

Unmarked(s) == /\ \A h \in Hosts : s \notin marks[h]
               /\ \A e \in Deployments : s \notin seenMarks[e]

\* No run has anything to do with a record before NetBox has it.
NewIsUntouched == \A s \in Sources : life[RecordOf[s]] = "new" =>
    /\ Unmarked(s)
    /\ \A e \in Deployments : s \notin todo[e] /\ (pc[e] \in TargetPCs => cur[e] # s)

\* Devices and VMs missing from the ids just fetched are gone, or were added
\* since and carry no tag: this run is past its sources, so nobody marks them.
MissingIsUnmarked == \A d \in Deployments : pc[d] = "hosts" =>
    \A s \in Mine(d) \ ClusterSources :
        s \notin ids[d] => life[RecordOf[s]] = "gone" \/ Unmarked(s)

\* The hosts fetched belong to sources that exist or existed.
FoundIsKnown == \A d \in Deployments : pc[d] = "clusters" =>
    \A p \in doomed[d] : /\ life[RecordOf[p[2]]] # "new"
                         /\ \/ p[2] \in ClusterSources \cup ids[d]
                            \/ life[RecordOf[p[2]]] = "gone"

\* What is left of the hosts to delete, also while a link is being cleared.
DoomedIsGone == \A d \in Deployments : pc[d] \in {"sweep", "clear"} =>
    \A p \in doomed[d] : life[RecordOf[p[2]]] = "gone" \/ task[p[2]] = "exclude"

SweepInv == /\ TypeOK /\ AtHand /\ NewIsUntouched /\ MissingIsUnmarked
            /\ FoundIsKnown /\ DoomedIsGone

LEMMA SweepInit == Init => SweepInv
<1> SUFFICES ASSUME Init PROVE SweepInv
  OBVIOUS
<1>1. TypeOK /\ AtHand
  BY TypeInit
<1>2. NewIsUntouched /\ MissingIsUnmarked /\ FoundIsKnown /\ DoomedIsGone
  BY DEF Init, NewIsUntouched, Unmarked, MissingIsUnmarked, FoundIsKnown, DoomedIsGone,
         TargetPCs
<1> QED
  BY <1>1, <1>2 DEF SweepInv

\* Only people add and delete records, and an id does not come back.
LEMMA RecordsOnlyAge ==
  ASSUME TypeOK, [Next]_vars, NEW s \in Sources
  PROVE  /\ life[RecordOf[s]] = "gone" => life'[RecordOf[s]] = "gone"
         /\ life[RecordOf[s]] # "new" => life'[RecordOf[s]] # "new"
<1> USE MappingAssumption DEF TypeOK, NetBoxTypeOK
<1>1. ASSUME NEW d \in Deployments, RunStep(d) \/ FailStep(d) PROVE life' = life
  BY <1>1 DEF RunStep, FailStep, StartRun, SkipRetired, Take, RemoveHost, Unlink,
      CheckHost, ClearStaleLink, StaleLinkFails, RenameHost, RenameRefused, MarkHost,
      MarkRefused, AdoptMatch, AdoptNone, SaveAdoption, AdoptionRefused, CreateHost,
      CreateRefused, SaveCreation, AbortRun, FinishWithoutCleanup, BeginCleanup,
      FetchIds, FetchHosts, FetchClusters, ReapHost, ReapRefused, ClearLink, ClearFails,
      FinishRun, TargetFails, RunDies, CleanupSkipped, ReapFails
<1>2. ASSUME NetBoxEdit \/ ZabbixEdit
      PROVE  /\ life[RecordOf[s]] = "gone" => life'[RecordOf[s]] = "gone"
             /\ life[RecordOf[s]] # "new" => life'[RecordOf[s]] # "new"
  BY <1>2 DEF NetBoxEdit, ZabbixEdit, AddRecord, DeleteRecord, ChangeMode, ChangeImport,
      Rename, HandDelete, HandCreate
<1> QED
  BY SMTT(30), <1>1, <1>2 DEF Next, vars

\* A source gains tags only from the run that has it at hand.
LEMMA OnlyItsRunMarks ==
  ASSUME TypeOK, AtHand, NEW d \in Deployments, RunStep(d) \/ FailStep(d),
         NEW s \in Sources, Unmarked(s), pc[d] \in TargetPCs => cur[d] # s
  PROVE  Unmarked(s)'
<1> USE DEF TypeOK, ZabbixTypeOK, TargetTypeOK, RunTypeOK, Unmarked, AtHand, HostPCs,
TargetPCs
<1>1. CASE MarkHost(d)
  BY <1>1 DEF MarkHost, DesiredMarks, Settle
<1>2. CASE CreateHost(d)
  BY <1>2 DEF CreateHost
<1>3. CASE CheckHost(d)
  BY <1>3 DEF CheckHost
<1>4. CASE ~MarkHost(d) /\ ~CreateHost(d) /\ ~CheckHost(d)
  <2>1. marks' = marks
    BY SMTT(30), <1>4 DEF RunStep, FailStep, StartRun, SkipRetired, Take, RemoveHost, Unlink,
        ClearStaleLink, StaleLinkFails, RenameHost, RenameRefused, MarkRefused,
        AdoptMatch, AdoptNone, SaveAdoption, AdoptionRefused, CreateRefused,
        SaveCreation, AbortRun, FinishWithoutCleanup, BeginCleanup, FetchIds, FetchHosts,
        FetchClusters, ReapHost, ReapRefused, ClearLink, ClearFails, FinishRun,
        TargetFails, RunDies, CleanupSkipped, ReapFails
  <2>2. seenMarks' = seenMarks \/ seenMarks' = [seenMarks EXCEPT ![d] = {}]
    BY <1>4 DEF RunStep, FailStep, Settle, Leave, StartRun, SkipRetired, Take,
        RemoveHost, Unlink, ClearStaleLink, StaleLinkFails, RenameHost, RenameRefused,
        MarkRefused, AdoptMatch, AdoptNone, SaveAdoption, AdoptionRefused, CreateRefused,
        SaveCreation, AbortRun, FinishWithoutCleanup, BeginCleanup, FetchIds, FetchHosts,
        FetchClusters, ReapHost, ReapRefused, ClearLink, ClearFails, FinishRun,
        TargetFails, RunDies, CleanupSkipped, ReapFails
  <2> QED
    BY <2>1, <2>2
<1> QED
  BY <1>1, <1>2, <1>3, <1>4

LEMMA NewIsUntouchedStep ==
  ASSUME SweepInv, [Next]_vars
  PROVE  NewIsUntouched'
<1> SUFFICES ASSUME NEW s \in Sources, life'[RecordOf[s]] = "new"
             PROVE  /\ Unmarked(s)'
                    /\ \A e \in Deployments :
                           s \notin todo'[e] /\ (pc'[e] \in TargetPCs => cur'[e] # s)
  BY DEF NewIsUntouched
<1>1. life[RecordOf[s]] = "new"
  BY RecordsOnlyAge DEF SweepInv
<1>2. /\ Unmarked(s)
      /\ \A e \in Deployments : s \notin todo[e] /\ (pc[e] \in TargetPCs => cur[e] # s)
  BY <1>1 DEF SweepInv, NewIsUntouched
<1>3. ASSUME NEW d \in Deployments, RunStep(d) \/ FailStep(d)
      PROVE  /\ Unmarked(s)'
             /\ \A e \in Deployments :
                    s \notin todo'[e] /\ (pc'[e] \in TargetPCs => cur'[e] # s)
  <2> USE DEF SweepInv, TypeOK, RunTypeOK, TargetTypeOK
  <2>1. Unmarked(s)'
    BY <1>2, <1>3, OnlyItsRunMarks
  <2>2. CASE StartRun(d)
    BY <1>1, <1>2, <2>1, <2>2 DEF StartRun, TaskOf, Excluded, Importable, Exists, Goto,
       TargetPCs
  <2>3. CASE Take(d)
    BY <1>2, <2>1, <2>3 DEF Take, Goto
  <2>4. CASE ~StartRun(d) /\ ~Take(d)
    <3>1. \A e \in Deployments : todo'[e] \subseteq todo[e]
      BY SMTT(30), <1>3, <2>4 DEF RunStep, FailStep, Leave, SkipRetired, RemoveHost, Unlink,
          CheckHost, ClearStaleLink, StaleLinkFails, RenameHost, RenameRefused, MarkHost,
          MarkRefused, AdoptMatch, AdoptNone, SaveAdoption, AdoptionRefused, CreateHost,
          CreateRefused, SaveCreation, AbortRun, FinishWithoutCleanup, BeginCleanup,
          FetchIds, FetchHosts, FetchClusters, ReapHost, ReapRefused, ClearLink,
          ClearFails, FinishRun, TargetFails, RunDies, CleanupSkipped, ReapFails
    <3>2. \A e \in Deployments :
              pc'[e] \in TargetPCs => pc[e] \in TargetPCs /\ cur'[e] = cur[e]
      BY <1>3, <2>4 DEF RunStep, FailStep, Leave, Settle, BackToSweep, Goto, TargetPCs,
          SkipRetired, RemoveHost, Unlink, CheckHost, ClearStaleLink, StaleLinkFails,
          RenameHost, RenameRefused, MarkHost, MarkRefused, AdoptMatch, AdoptNone,
          SaveAdoption, AdoptionRefused, CreateHost, CreateRefused, SaveCreation,
          AbortRun, FinishWithoutCleanup, BeginCleanup, FetchIds, FetchHosts,
          FetchClusters, ReapHost, ReapRefused, ClearLink, ClearFails, FinishRun,
          TargetFails, RunDies, CleanupSkipped, ReapFails
    <3> QED
      BY <1>2, <2>1, <3>1, <3>2
  <2> QED
    BY <2>2, <2>3, <2>4
<1>4. CASE NetBoxEdit \/ ZabbixEdit
  BY <1>2, <1>4 DEF Unmarked, KeepTheRest, NetBoxEdit, ZabbixEdit, AddRecord,
      DeleteRecord, ChangeMode, ChangeImport, Rename, HandDelete, HandCreate
<1>5. CASE UNCHANGED vars
  BY <1>2, <1>5 DEF vars, Unmarked
<1> QED
  BY <1>3, <1>4, <1>5 DEF Next

\* What a deployment's run works with between two of its own steps.
LEMMA TasksAreItsOwn ==
  ASSUME TypeOK, NEW d \in Deployments, RunStep(d) \/ FailStep(d),
         NEW s \in Sources, s \notin Mine(d)
  PROVE  task'[s] = task[s]
<1> USE DEF TypeOK, RunTypeOK
<1>1. CASE StartRun(d)
  BY SMTT(30), <1>1 DEF StartRun
<1>2. CASE ~StartRun(d)
  BY <1>2 DEF RunStep, FailStep, Leave, SkipRetired, Take, RemoveHost, Unlink, CheckHost,
      ClearStaleLink, StaleLinkFails, RenameHost, RenameRefused, MarkHost, MarkRefused,
      AdoptMatch, AdoptNone, SaveAdoption, AdoptionRefused, CreateHost, CreateRefused,
      SaveCreation, AbortRun, FinishWithoutCleanup, BeginCleanup, FetchIds, FetchHosts,
      FetchClusters, ReapHost, ReapRefused, ClearLink, ClearFails, FinishRun,
      TargetFails, RunDies, CleanupSkipped, ReapFails
<1> QED
  BY <1>1, <1>2

LEMMA MissingIsUnmarkedStep ==
  ASSUME SweepInv, [Next]_vars
  PROVE  MissingIsUnmarked'
<1> SUFFICES ASSUME NEW e \in Deployments, pc'[e] = "hosts",
                    NEW s \in Mine(e) \ ClusterSources, s \notin ids'[e]
             PROVE  life'[RecordOf[s]] = "gone" \/ Unmarked(s)'
  BY DEF MissingIsUnmarked, Mine
<1> USE DEF SweepInv, Mine
<1>1. CASE pc[e] = "hosts" /\ ids'[e] = ids[e]
  <2>1. life[RecordOf[s]] = "gone" \/ Unmarked(s)
    BY <1>1 DEF MissingIsUnmarked
  <2>2. CASE life[RecordOf[s]] = "gone"
    BY <2>2, RecordsOnlyAge
  <2>3. ASSUME Unmarked(s), NEW d \in Deployments, RunStep(d) \/ FailStep(d)
        PROVE  Unmarked(s)'
    BY <1>1, <2>3, OnlyItsRunMarks DEF AtHand, TargetPCs
  <2>4. ASSUME Unmarked(s), NetBoxEdit \/ ZabbixEdit PROVE Unmarked(s)'
    BY <2>4 DEF Unmarked, KeepTheRest, NetBoxEdit, ZabbixEdit, AddRecord, DeleteRecord,
        ChangeMode, ChangeImport, Rename, HandDelete, HandCreate
  <2> QED
    BY <2>1, <2>2, <2>3, <2>4 DEF Next, vars, Unmarked
<1>2. CASE FetchIds(e)
  <2>1. ~Exists(s) /\ life' = life /\ marks' = marks /\ seenMarks' = seenMarks
    BY SMTT(30), <1>2 DEF FetchIds, TypeOK, SweepTypeOK
  <2> QED
    BY <2>1, MappingAssumption DEF NewIsUntouched, Unmarked, Exists, TypeOK,
        NetBoxTypeOK, Lives
<1>3. ASSUME RunStep(e) \/ FailStep(e), ~FetchIds(e)
      PROVE  FALSE
  BY <1>3 DEF RunStep, FailStep, Leave, Settle, BackToSweep, Goto, TypeOK, RunTypeOK,
      StartRun, SkipRetired, Take, RemoveHost, Unlink, CheckHost, ClearStaleLink,
      StaleLinkFails, RenameHost, RenameRefused, MarkHost, MarkRefused, AdoptMatch,
      AdoptNone, SaveAdoption, AdoptionRefused, CreateHost, CreateRefused, SaveCreation,
      AbortRun, FinishWithoutCleanup, BeginCleanup, FetchHosts, FetchClusters, ReapHost,
      ReapRefused, ClearLink, ClearFails, FinishRun, TargetFails, RunDies,
      CleanupSkipped, ReapFails
<1>4. ASSUME NEW d \in Deployments \ {e}, RunStep(d) \/ FailStep(d)
      PROVE  pc[e] = "hosts" /\ ids'[e] = ids[e]
  BY <1>4, OwnRunOnly
<1>5. ASSUME (NetBoxEdit \/ ZabbixEdit) \/ UNCHANGED vars
      PROVE  pc[e] = "hosts" /\ ids'[e] = ids[e]
  BY <1>5 DEF vars, KeepTheRest, NetBoxEdit, ZabbixEdit, AddRecord, DeleteRecord,
      ChangeMode, ChangeImport, Rename, HandDelete, HandCreate
<1> QED
  BY <1>1, <1>2, <1>3, <1>4, <1>5 DEF Next

LEMMA FoundIsKnownStep ==
  ASSUME SweepInv, [Next]_vars
  PROVE  FoundIsKnown'
<1> SUFFICES ASSUME NEW e \in Deployments, pc'[e] = "clusters", NEW p \in doomed'[e]
             PROVE  /\ life'[RecordOf[p[2]]] # "new"
                    /\ \/ p[2] \in ClusterSources \cup ids'[e]
                       \/ life'[RecordOf[p[2]]] = "gone"
  BY DEF FoundIsKnown
<1>0. p[1] \in Hosts /\ p[2] \in Mine(e) /\ p[2] \in Sources
  BY TypeStep DEF SweepInv, AtHand, Mine
<1> USE DEF SweepInv
<1>1. CASE pc[e] = "clusters" /\ ids'[e] = ids[e] /\ doomed'[e] = doomed[e]
  BY <1>0, <1>1, RecordsOnlyAge DEF FoundIsKnown
<1>2. CASE FetchHosts(e)
  <2>1. p[2] \in marks[p[1]] /\ life' = life /\ ids' = ids /\ pc[e] = "hosts"
    BY <1>2 DEF FetchHosts, TypeOK, SweepTypeOK
  <2>2. life[RecordOf[p[2]]] # "new"
    BY <1>0, <2>1 DEF NewIsUntouched, Unmarked
  <2>3. p[2] \in ClusterSources \cup ids[e] \/ life[RecordOf[p[2]]] = "gone"
    BY SMTT(30), <1>0, <2>1 DEF MissingIsUnmarked, Unmarked
  <2> QED
    BY <2>1, <2>2, <2>3
<1>3. ASSUME RunStep(e) \/ FailStep(e), ~FetchHosts(e)
      PROVE  FALSE
  BY <1>3 DEF RunStep, FailStep, Leave, Settle, BackToSweep, Goto, TypeOK, RunTypeOK,
      StartRun, SkipRetired, Take, RemoveHost, Unlink, CheckHost, ClearStaleLink,
      StaleLinkFails, RenameHost, RenameRefused, MarkHost, MarkRefused, AdoptMatch,
      AdoptNone, SaveAdoption, AdoptionRefused, CreateHost, CreateRefused, SaveCreation,
      AbortRun, FinishWithoutCleanup, BeginCleanup, FetchIds, FetchClusters, ReapHost,
      ReapRefused, ClearLink, ClearFails, FinishRun, TargetFails, RunDies,
      CleanupSkipped, ReapFails
<1>4. ASSUME NEW d \in Deployments \ {e}, RunStep(d) \/ FailStep(d)
      PROVE  pc[e] = "clusters" /\ ids'[e] = ids[e] /\ doomed'[e] = doomed[e]
  BY <1>4, OwnRunOnly
<1>5. ASSUME (NetBoxEdit \/ ZabbixEdit) \/ UNCHANGED vars
      PROVE  pc[e] = "clusters" /\ ids'[e] = ids[e] /\ doomed'[e] = doomed[e]
  BY <1>5 DEF vars, KeepTheRest, NetBoxEdit, ZabbixEdit, AddRecord, DeleteRecord,
      ChangeMode, ChangeImport, Rename, HandDelete, HandCreate
<1> QED
  BY <1>1, <1>2, <1>3, <1>4, <1>5 DEF Next

LEMMA DoomedIsGoneStep ==
  ASSUME SweepInv, [Next]_vars
  PROVE  DoomedIsGone'
<1> SUFFICES ASSUME NEW e \in Deployments, pc'[e] \in {"sweep", "clear"},
NEW p \in doomed'[e]
             PROVE  life'[RecordOf[p[2]]] = "gone" \/ task'[p[2]] = "exclude"
  BY DEF DoomedIsGone
<1>0. p[2] \in Mine(e) /\ p[2] \in Sources
  BY TypeStep DEF SweepInv, AtHand, Mine
<1> USE DEF SweepInv
<1>1. CASE pc[e] \in {"sweep", "clear"} /\ p \in doomed[e] /\ task'[p[2]] = task[p[2]]
  BY <1>0, <1>1, RecordsOnlyAge DEF DoomedIsGone
<1>2. CASE FetchClusters(e)
  <2>1. /\ p \in doomed[e] /\ life' = life /\ task' = task /\ pc[e] = "clusters"
        /\ \/ task[p[2]] = "exclude"
           \/ p[2] \notin ids[e] /\ (p[2] \in ClusterSources => ~Exists(p[2]))
    BY SMTT(30), <1>0, <1>2 DEF FetchClusters, TypeOK, SweepTypeOK
  <2> QED
    BY <1>0, <2>1, MappingAssumption DEF FoundIsKnown, Exists, TypeOK, NetBoxTypeOK, Lives
<1>3. ASSUME RunStep(e) \/ FailStep(e), ~FetchClusters(e)
      PROVE  pc[e] \in {"sweep", "clear"} /\ p \in doomed[e] /\ task'[p[2]] = task[p[2]]
  BY <1>3 DEF RunStep, FailStep, Leave, Settle, BackToSweep, Goto, TypeOK, RunTypeOK,
     SweepTypeOK, StartRun, SkipRetired, Take, RemoveHost, Unlink, CheckHost,
     ClearStaleLink, StaleLinkFails, RenameHost, RenameRefused, MarkHost, MarkRefused,
     AdoptMatch, AdoptNone, SaveAdoption, AdoptionRefused, CreateHost, CreateRefused,
     SaveCreation, AbortRun, FinishWithoutCleanup, BeginCleanup, FetchIds, FetchHosts,
     ReapHost, ReapRefused, ClearLink, ClearFails, FinishRun, TargetFails, RunDies,
     CleanupSkipped, ReapFails
<1>4. ASSUME NEW d \in Deployments \ {e}, RunStep(d) \/ FailStep(d)
      PROVE  pc[e] \in {"sweep", "clear"} /\ p \in doomed[e] /\ task'[p[2]] = task[p[2]]
  BY <1>0, <1>4, OwnRunOnly, TasksAreItsOwn DEF Mine
<1>5. ASSUME (NetBoxEdit \/ ZabbixEdit) \/ UNCHANGED vars
      PROVE  pc[e] \in {"sweep", "clear"} /\ p \in doomed[e] /\ task'[p[2]] = task[p[2]]
  BY <1>5 DEF vars, KeepTheRest, NetBoxEdit, ZabbixEdit, AddRecord, DeleteRecord,
      ChangeMode, ChangeImport, Rename, HandDelete, HandCreate
<1> QED
  BY <1>1, <1>2, <1>3, <1>4, <1>5 DEF Next

LEMMA SweepInvStep == SweepInv /\ [Next]_vars => SweepInv'
  BY TypeStep, NewIsUntouchedStep, MissingIsUnmarkedStep, FoundIsKnownStep, DoomedIsGoneStep
  DEF SweepInv

\* The cleanup of _cleanup_deleted_hosts only ever has hosts to delete whose
\* NetBox source is gone for good or failed a custom-field filter, whatever
\* people and other deployments do between its three queries and afterwards.
THEOREM CleanupTargetsAreGone == Spec => []ReapedSourceIsGone
<1>1. SweepInv => ReapedSourceIsGone
  BY DEF SweepInv, DoomedIsGone, ReapedSourceIsGone
<1> QED
  BY <1>1, SweepInit, SweepInvStep, PTL DEF Spec
-----------------------------------------------------------------------------
(* A source reported as synced has its host: the argument behind            *)
(* SyncedSourceHasHost when no deployment adopts hosts it did not create.   *)

\* What the run of d has at hand that makes h the host of s: the host it just
\* created, a pair its cleanup goes through, or tags it has read.
Claims(d, s, h) ==
    \/ pc[d] = "createSave" /\ cur[d] = s /\ hid[d] = h
    \/ <<h, s>> \in doomed[d]
    \/ pc[d] \in {"rename", "mark"} /\ hid[d] = h /\ s \in seenMarks[d]

Belongs(s, h) == \/ link[s] = h \/ s \in marks[h]
                 \/ \E d \in Deployments : Claims(d, s, h)

\* Links, tags and all that runs remember of them name one source per host.
OneOwner == \A h \in Hosts, s \in Sources : Belongs(s, h) =>
                /\ zbx[h] # "unused"
                /\ \A t \in Sources : Belongs(t, h) => t = s

\* The books a run keeps: a source is to be handled, at hand or synced, never
\* two of these, and the cleanup takes none of them for an excluded one.
BooksOf(d) ==
    /\ pc[d] # "adoptSave"
    /\ synced[d] \subseteq Mine(d) \ todo[d]
    /\ pc[d] \in TargetPCs =>
           cur[d] \notin synced[d] \cup todo[d] /\ task[cur[d]] # "exclude"
    /\ pc[d] = "clear" => task[cur[d]] = "exclude"
    /\ \A s \in todo[d] \cup synced[d] : task[s] # "exclude"
    /\ \A s \in synced[d] : life[RecordOf[s]] # "new"
Books == \A d \in Deployments : BooksOf(d)

\* The host is there, or it was a person who deleted it.
Kept(h) == Live(h) \/ h \in handDeleted

WorkIsKept == \A d \in Deployments :
    pc[d] \in {"createSave", "rename", "mark"} => Kept(hid[d])

SyncedInv == LinkInv /\ SweepInv /\ OneOwner /\ Books /\ WorkIsKept /\ SyncedSourceHasHost

LEMMA SyncedInit == Init => SyncedInv
<1> SUFFICES ASSUME Init PROVE SyncedInv
  OBVIOUS
<1>1. OneOwner
  BY NoneAssumption DEF Init, OneOwner, Belongs, Claims
<1>2. Books /\ WorkIsKept /\ SyncedSourceHasHost
  BY DEF Init, Books, BooksOf, TargetPCs, WorkIsKept, SyncedSourceHasHost
<1> QED
  BY <1>1, <1>2, LinkInit, SweepInit DEF SyncedInv

\* A run lays claim to a host on the strength of a tag or a claim it has.
LEMMA ClaimsGrow ==
  ASSUME LinkInv, NEW d \in Deployments, RunStep(d) \/ FailStep(d), ~CreateHost(d),
         NEW h \in Hosts, NEW s \in Sources, Claims(d, s, h)'
  PROVE  Belongs(s, h)
<1> USE DEF LinkInv, TypeOK, RunTypeOK, TargetTypeOK, SweepTypeOK, Claims, Belongs
<1>1. CASE pc'[d] = "createSave" /\ cur'[d] = s /\ hid'[d] = h
  <2>1. pc[d] = "createSave" /\ cur[d] = s /\ hid[d] = h
    BY <1>1 DEF RunStep, FailStep, Settle, Leave, BackToSweep, Goto, FirstCall,
        StartRun, SkipRetired, Take, RemoveHost, Unlink, CheckHost, ClearStaleLink,
        StaleLinkFails, RenameHost, RenameRefused, MarkHost, MarkRefused, AdoptMatch,
        AdoptNone, SaveAdoption, AdoptionRefused, CreateRefused, SaveCreation, AbortRun,
        FinishWithoutCleanup, BeginCleanup, FetchIds, FetchHosts, FetchClusters,
        ReapHost, ReapRefused, ClearLink, ClearFails, FinishRun, TargetFails, RunDies,
        CleanupSkipped, ReapFails
  <2> QED
    BY <2>1
<1>2. CASE <<h, s>> \in doomed'[d]
  <2>1. CASE FetchHosts(d)
    BY <1>2, <2>1 DEF FetchHosts
  <2>2. CASE ~FetchHosts(d)
    <3>1. doomed'[d] \subseteq doomed[d]
      BY <2>2 DEF RunStep, FailStep, Leave, StartRun, SkipRetired, Take, RemoveHost,
          Unlink, CheckHost, ClearStaleLink, StaleLinkFails, RenameHost, RenameRefused,
          MarkHost, MarkRefused, AdoptMatch, AdoptNone, SaveAdoption, AdoptionRefused,
          CreateRefused, SaveCreation, AbortRun, FinishWithoutCleanup, BeginCleanup,
          FetchIds, FetchClusters, ReapHost, ReapRefused, ClearLink, ClearFails,
          FinishRun, TargetFails, RunDies, CleanupSkipped, ReapFails
    <3> QED
      BY <1>2, <3>1
  <2> QED
    BY SMTT(30), <2>1, <2>2
<1>3. CASE pc'[d] \in {"rename", "mark"} /\ hid'[d] = h /\ s \in seenMarks'[d]
  <2>1. CASE CheckHost(d)
    BY <1>3, <2>1 DEF CheckHost
  <2>2. CASE ~CheckHost(d)
    <3>1. pc[d] \in {"rename", "mark"} /\ hid[d] = h /\ s \in seenMarks[d]
      BY <1>3, <2>2 DEF RunStep, FailStep, Settle, Leave, BackToSweep, Goto, FirstCall,
          StartRun, SkipRetired, Take, RemoveHost, Unlink, ClearStaleLink,
          StaleLinkFails, RenameHost, RenameRefused, MarkHost, MarkRefused, AdoptMatch,
          AdoptNone, SaveAdoption, AdoptionRefused, CreateRefused, SaveCreation,
          AbortRun, FinishWithoutCleanup, BeginCleanup, FetchIds, FetchHosts,
          FetchClusters, ReapHost, ReapRefused, ClearLink, ClearFails, FinishRun,
          TargetFails, RunDies, CleanupSkipped, ReapFails
    <3> QED
      BY <3>1
  <2> QED
    BY SMTT(30), <2>1, <2>2
<1> QED
  BY SMTT(30), <1>1, <1>2, <1>3
\* Outside host.create, a host becomes a source's only if it was already.
LEMMA BelongsGrows ==
  ASSUME LinkInv, Books, [Next]_vars, ~\E d \in Deployments : CreateHost(d),
         NEW h \in Hosts, NEW s \in Sources, Belongs(s, h)'
  PROVE  Belongs(s, h)
<1> USE NoneAssumption
<1>1. ASSUME NEW d \in Deployments, RunStep(d) \/ FailStep(d) PROVE Belongs(s, h)
  <2> USE DEF LinkInv, TypeOK
  <2>1. ~CreateHost(d)
    OBVIOUS
  <2>2. CASE link'[s] = h
    <3> USE DEF NetBoxTypeOK, AtHand, TargetPCs, Mine
    <3>1. CASE SaveCreation(d)
      BY <2>2, <3>1 DEF SaveCreation, Belongs, Claims
    <3>2. CASE Unlink(d) \/ ClearStaleLink(d) \/ ClearLink(d)
      BY <2>2, <3>2 DEF Unlink, ClearStaleLink, ClearLink, Belongs
    <3>3. CASE SaveAdoption(d)
      BY <3>3 DEF SaveAdoption, Books, BooksOf
    <3>4. CASE ~(SaveCreation(d) \/ Unlink(d) \/ ClearStaleLink(d) \/ ClearLink(d)
                   \/ SaveAdoption(d))
      <4>1. link' = link
        BY <1>1, <3>4 DEF RunStep, FailStep, StartRun, SkipRetired, Take, RemoveHost,
            CheckHost, StaleLinkFails, RenameHost, RenameRefused, MarkHost, MarkRefused,
            AdoptMatch, AdoptNone, AdoptionRefused, CreateHost, CreateRefused, AbortRun,
            FinishWithoutCleanup, BeginCleanup, FetchIds, FetchHosts, FetchClusters,
            ReapHost, ReapRefused, ClearFails, FinishRun, TargetFails, RunDies,
            CleanupSkipped, ReapFails
      <4> QED
        BY SMTT(30), <2>2, <4>1 DEF Belongs
    <3> QED
      BY <3>1, <3>2, <3>3, <3>4
  <2>3. CASE s \in marks'[h]
    <3> USE DEF ZabbixTypeOK, TargetTypeOK
    <3>1. CASE MarkHost(d)
      <4>1. CASE s \in marks[h]
        BY <4>1 DEF Belongs
      <4>2. CASE s \notin marks[h]
        <5>1. h = hid[d] /\ s \in DesiredMarks(d) /\ pc[d] = "mark"
          BY <2>3, <3>1, <4>2 DEF MarkHost
        <5>2. s \in seenMarks[d] \/ link[s] = h
          BY <5>1 DEF DesiredMarks, LinkAtHand
        <5> QED
          BY <5>1, <5>2 DEF Belongs, Claims
      <4> QED
        BY <4>1, <4>2
    <3>2. CASE ~MarkHost(d)
      <4>1. marks' = marks
        BY <1>1, <2>1, <3>2 DEF RunStep, FailStep, StartRun, SkipRetired, Take,
            RemoveHost, Unlink, CheckHost, ClearStaleLink, StaleLinkFails, RenameHost,
            RenameRefused, MarkRefused, AdoptMatch, AdoptNone, SaveAdoption,
            AdoptionRefused, CreateRefused, SaveCreation, AbortRun,
            FinishWithoutCleanup, BeginCleanup, FetchIds, FetchHosts, FetchClusters,
            ReapHost, ReapRefused, ClearLink, ClearFails, FinishRun, TargetFails,
            RunDies, CleanupSkipped, ReapFails
      <4> QED
        BY <2>3, <4>1 DEF Belongs
    <3> QED
      BY <3>1, <3>2
  <2>4. ASSUME NEW e \in Deployments, Claims(e, s, h)' PROVE Belongs(s, h)
    <3>1. CASE e = d
      BY <1>1, <2>1, <2>4, <3>1, ClaimsGrow
    <3>2. CASE e # d
      <4>1. Claims(e, s, h)
        BY <1>1, <2>4, <3>2, OwnRunOnly DEF Claims
      <4> QED
        BY <4>1 DEF Belongs
    <3> QED
      BY <3>1, <3>2
  <2> QED
    BY <2>2, <2>3, <2>4 DEF Belongs
<1>2. ASSUME (NetBoxEdit \/ ZabbixEdit) \/ UNCHANGED vars PROVE Belongs(s, h)
  <2>1. UNCHANGED <<link, marks, pc, cur, hid, seenMarks, doomed>>
    BY <1>2 DEF vars, KeepTheRest, NetBoxEdit, ZabbixEdit, AddRecord, DeleteRecord,
        ChangeMode, ChangeImport, Rename, HandDelete, HandCreate
  <2> QED
    BY <2>1 DEF Belongs, Claims
<1> QED
  BY <1>1, <1>2 DEF Next

\* A created host is the created source's, and nothing else changes hands.
LEMMA CreatedBelongs ==
  ASSUME LinkInv, NEW d \in Deployments, CreateHost(d),
         NEW h \in Hosts, NEW s \in Sources, Belongs(s, h)', ~Belongs(s, h)
  PROVE  s = cur[d] /\ h = hid'[d] /\ zbx[h] = "unused" /\ zbx'[h] = "live"
<1> USE DEF LinkInv, TypeOK, RunTypeOK, TargetTypeOK, ZabbixTypeOK
<1>1. zbx[hid'[d]] = "unused" /\ zbx'[hid'[d]] = "live"
  BY DEF CreateHost
<1>2. CASE link'[s] = h
  BY <1>2 DEF CreateHost, Belongs
<1>3. CASE s \in marks'[h]
  BY <1>1, <1>3 DEF CreateHost, Belongs
<1>4. ASSUME NEW e \in Deployments, Claims(e, s, h)', ~(s = cur[d] /\ h = hid'[d])
      PROVE  Claims(e, s, h)
  BY <1>4 DEF CreateHost, Claims, Goto
<1> QED
  BY <1>1, <1>2, <1>3, <1>4 DEF Belongs

LEMMA OneOwnerStep ==
  ASSUME LinkInv, Books, OneOwner, [Next]_vars
  PROVE  OneOwner'
<1> SUFFICES ASSUME NEW h \in Hosts, NEW s \in Sources, Belongs(s, h)'
             PROVE  /\ zbx'[h] # "unused"
                    /\ \A t \in Sources : Belongs(t, h)' => t = s
  BY DEF OneOwner
<1>1. zbx[h] # "unused" => zbx'[h] # "unused"
  BY HostsOnlyAge DEF LinkInv
<1>2. CASE ~\E d \in Deployments : CreateHost(d)
  BY <1>1, <1>2, BelongsGrows DEF OneOwner
<1>3. ASSUME NEW d \in Deployments, CreateHost(d)
      PROVE  /\ zbx'[h] # "unused"
             /\ \A t \in Sources : Belongs(t, h)' => t = s
  BY <1>1, <1>3, CreatedBelongs DEF OneOwner
<1> QED
  BY <1>2, <1>3
\* Every step of a run keeps its own books.
LEMMA RunKeepsBooks ==
  ASSUME AdoptExisting = {}, SweepInv, Books, NEW d \in Deployments,
         RunStep(d) \/ FailStep(d)
  PROVE  BooksOf(d)'
<1> USE NoneAssumption, MappingAssumption
<1> USE DEF SweepInv, TypeOK, RunTypeOK, TargetTypeOK, AtHand, Books, BooksOf,
            TargetPCs, Mine, Goto
<1>1. life' = life
  BY DEF RunStep, FailStep, StartRun, SkipRetired, Take, RemoveHost, Unlink, CheckHost,
      ClearStaleLink, StaleLinkFails, RenameHost, RenameRefused, MarkHost, MarkRefused,
      AdoptMatch, AdoptNone, SaveAdoption, AdoptionRefused, CreateHost, CreateRefused,
      SaveCreation, AbortRun, FinishWithoutCleanup, BeginCleanup, FetchIds, FetchHosts,
      FetchClusters, ReapHost, ReapRefused, ClearLink, ClearFails, FinishRun,
      TargetFails, RunDies, CleanupSkipped, ReapFails
<1>2. CASE StartRun(d)
  BY <1>1, <1>2 DEF StartRun, TaskOf
<1>3. CASE SkipRetired(d)
  BY <1>1, <1>3 DEF SkipRetired
<1>4. CASE Take(d)
  BY <1>1, <1>4 DEF Take
<1>5. CASE MarkHost(d)
  BY <1>1, <1>5 DEF MarkHost, Settle, ReportSynced, NewIsUntouched
<1>6. CASE SaveCreation(d)
  BY <1>1, <1>6 DEF SaveCreation, Settle, ReportSynced, NewIsUntouched
<1>7. CASE \/ RemoveHost(d) \/ CheckHost(d) \/ ClearStaleLink(d) \/ RenameHost(d)
           \/ AdoptMatch(d) \/ AdoptNone(d) \/ SaveAdoption(d) \/ CreateHost(d)
  BY <1>1, <1>7 DEF RemoveHost, CheckHost, ClearStaleLink, RenameHost, AdoptMatch,
     AdoptNone, SaveAdoption, CreateHost
<1>8. CASE \/ Unlink(d) \/ StaleLinkFails(d) \/ RenameRefused(d) \/ MarkRefused(d)
           \/ AdoptionRefused(d) \/ CreateRefused(d) \/ TargetFails(d)
  BY <1>1, <1>8 DEF Unlink, StaleLinkFails, RenameRefused, MarkRefused,
     AdoptionRefused, CreateRefused, TargetFails, Settle
<1>9. CASE \/ AbortRun(d) \/ RunDies(d) \/ FinishWithoutCleanup(d) \/ CleanupSkipped(d)
           \/ FinishRun(d)
  BY <1>1, <1>9 DEF AbortRun, RunDies, FinishWithoutCleanup, CleanupSkipped, FinishRun,
     Leave
<1>10. CASE \/ BeginCleanup(d) \/ FetchIds(d) \/ FetchHosts(d) \/ FetchClusters(d)
            \/ ReapHost(d) \/ ReapRefused(d) \/ ClearLink(d) \/ ClearFails(d)
            \/ ReapFails(d)
  BY <1>1, <1>10 DEF BeginCleanup, FetchIds, FetchHosts, FetchClusters, ReapHost,
     ReapRefused, ClearLink, ClearFails, ReapFails, BackToSweep
<1> QED
  BY SMTT(30), <1>2, <1>3, <1>4, <1>5, <1>6, <1>7, <1>8, <1>9, <1>10 DEF RunStep, FailStep

LEMMA BooksStep ==
  ASSUME AdoptExisting = {}, SweepInv, Books, [Next]_vars
  PROVE  Books'
<1> SUFFICES ASSUME NEW e \in Deployments PROVE BooksOf(e)'
  BY DEF Books
<1> USE DEF SweepInv, AtHand
<1>1. ASSUME NEW d \in Deployments \ {e}, RunStep(d) \/ FailStep(d) PROVE BooksOf(e)'
  <2>1. /\ pc'[e] = pc[e] /\ cur'[e] = cur[e]
        /\ todo'[e] = todo[e] /\ synced'[e] = synced[e]
    BY <1>1, OwnRunOnly
  <2>2. \A s \in Mine(e) : task'[s] = task[s]
    BY <1>1, TasksAreItsOwn DEF Mine
  <2>3. \A s \in Sources : life[RecordOf[s]] # "new" => life'[RecordOf[s]] # "new"
    BY RecordsOnlyAge
  <2> QED
    BY <2>1, <2>2, <2>3 DEF Books, BooksOf, Mine
<1>2. ASSUME (NetBoxEdit \/ ZabbixEdit) \/ UNCHANGED vars PROVE BooksOf(e)'
  <2>1. UNCHANGED <<pc, cur, todo, synced, task>>
    BY <1>2 DEF vars, KeepTheRest, NetBoxEdit, ZabbixEdit, AddRecord, DeleteRecord,
        ChangeMode, ChangeImport, Rename, HandDelete, HandCreate
  <2>2. \A s \in Sources : life[RecordOf[s]] # "new" => life'[RecordOf[s]] # "new"
    BY RecordsOnlyAge
  <2> QED
    BY <2>1, <2>2 DEF Books, BooksOf, Mine
<1> QED
  BY <1>1, <1>2, RunKeepsBooks DEF Next

\* Who can make a host go: a person, the removal of the source linked to it, or
\* a cleanup that has it in its list.
LEMMA HostLoss ==
  ASSUME TypeOK, [Next]_vars, NEW h \in Hosts, Kept(h), ~Kept(h)'
  PROVE  \E e \in Deployments :
             \/ pc[e] = "remove" /\ hid[e] = h
             \/ pc[e] = "sweep" /\ \E p \in doomed[e] : p[1] = h
<1> USE DEF Kept, Live, TypeOK, ZabbixTypeOK
<1>1. ASSUME NEW d \in Deployments, RunStep(d) \/ FailStep(d)
      PROVE  \/ pc[d] = "remove" /\ hid[d] = h
             \/ pc[d] = "sweep" /\ \E p \in doomed[d] : p[1] = h
  <2>1. handDeleted' = handDeleted
    BY <1>1 DEF RunStep, FailStep, StartRun, SkipRetired, Take, RemoveHost, Unlink,
        CheckHost, ClearStaleLink, StaleLinkFails, RenameHost, RenameRefused, MarkHost,
        MarkRefused, AdoptMatch, AdoptNone, SaveAdoption, AdoptionRefused, CreateHost,
        CreateRefused, SaveCreation, AbortRun, FinishWithoutCleanup, BeginCleanup,
        FetchIds, FetchHosts, FetchClusters, ReapHost, ReapRefused, ClearLink,
        ClearFails, FinishRun, TargetFails, RunDies, CleanupSkipped, ReapFails
  <2>2. CASE RemoveHost(d)
    BY <2>1, <2>2 DEF RemoveHost
  <2>3. CASE ReapHost(d)
    BY <2>1, <2>3 DEF ReapHost
  <2>4. CASE CreateHost(d)
    BY <2>1, <2>4 DEF CreateHost
  <2>5. CASE ~RemoveHost(d) /\ ~ReapHost(d) /\ ~CreateHost(d)
    <3>1. zbx' = zbx
      BY <1>1, <2>5 DEF RunStep, FailStep, StartRun, SkipRetired, Take, Unlink,
          CheckHost, ClearStaleLink, StaleLinkFails, RenameHost, RenameRefused, MarkHost,
          MarkRefused, AdoptMatch, AdoptNone, SaveAdoption, AdoptionRefused,
          CreateRefused, SaveCreation, AbortRun, FinishWithoutCleanup, BeginCleanup,
          FetchIds, FetchHosts, FetchClusters, ReapRefused, ClearLink, ClearFails,
          FinishRun, TargetFails, RunDies, CleanupSkipped, ReapFails
    <3> QED
      BY <2>1, <3>1
  <2> QED
    BY SMTT(30), <2>2, <2>3, <2>4, <2>5
<1>2. CASE (NetBoxEdit \/ ZabbixEdit) \/ UNCHANGED vars
  BY <1>2 DEF vars, NetBoxEdit, ZabbixEdit, AddRecord, DeleteRecord, ChangeMode,
     ChangeImport, Rename, HandDelete, HandCreate
<1> QED
  BY <1>1, <1>2 DEF Next
\* ... and it is then the host of that source and of no other.
LEMMA LossIsItsOwn ==
  ASSUME SyncedInv, [Next]_vars, NEW h \in Hosts, Kept(h), ~Kept(h)',
         NEW s \in Sources, Belongs(s, h)
  PROVE  \E e \in Deployments : s \in Mine(e) /\
             \/ pc[e] = "remove" /\ cur[e] = s
             \/ pc[e] = "sweep" /\ (life[RecordOf[s]] = "gone" \/ task[s] = "exclude")
<1> USE DEF SyncedInv
<1>1. PICK e \in Deployments : \/ pc[e] = "remove" /\ hid[e] = h
                               \/ pc[e] = "sweep" /\ \E p \in doomed[e] : p[1] = h
  BY HostLoss DEF LinkInv
<1>2. CASE pc[e] = "remove" /\ hid[e] = h
  <2>1. cur[e] \in Mine(e) /\ cur[e] \in Sources /\ link[cur[e]] = h
    BY <1>2 DEF LinkInv, LinkAtHand, AtHand, TargetPCs, Mine
  <2>2. cur[e] = s
    BY <2>1 DEF OneOwner, Belongs
  <2> QED
    BY <1>2, <2>1, <2>2
<1>3. ASSUME pc[e] = "sweep", NEW p \in doomed[e], p[1] = h
      PROVE  s \in Mine(e) /\ (life[RecordOf[s]] = "gone" \/ task[s] = "exclude")
  <2>1. p[2] \in Mine(e) /\ p[2] \in Sources /\ p = <<h, p[2]>>
    BY <1>3 DEF LinkInv, AtHand, Mine
  <2>2. Belongs(p[2], h)
    BY <2>1 DEF Belongs, Claims
  <2>3. p[2] = s
    BY <2>1, <2>2 DEF OneOwner
  <2> QED
    BY <1>3, <2>1, <2>3 DEF SweepInv, DoomedIsGone
<1> QED
  BY <1>1, <1>2, <1>3

\* A run's host is not deleted under its hands by another run.
LEMMA WorkIsKeptStep ==
  ASSUME SyncedInv, [Next]_vars
  PROVE  WorkIsKept'
<1> SUFFICES ASSUME NEW d \in Deployments, pc'[d] \in {"createSave", "rename", "mark"}
             PROVE  Kept(hid[d])'
  BY DEF WorkIsKept
<1> USE DEF SyncedInv, LinkInv
<1>1. ASSUME pc[d] \in {"createSave", "rename", "mark"}, hid'[d] = hid[d]
      PROVE  Kept(hid[d])'
  <2>1. hid[d] \in Hosts /\ cur[d] \in Mine(d) /\ cur[d] \in Sources
    BY <1>1 DEF AtHand, HostPCs, TargetPCs, Mine
  <2>2. Belongs(cur[d], hid[d])
    BY <1>1, <2>1 DEF Belongs, Claims, LinkAtHand
  <2>3. \A e \in Deployments : cur[d] \in Mine(e) => e = d
    BY <2>1 DEF Mine
  <2>4. Kept(hid[d])
    BY <1>1 DEF WorkIsKept
  <2>5. SUFFICES ASSUME \E h \in Hosts : h = hid[d] /\ ~Kept(h)' PROVE FALSE
    BY <1>1, <2>1 DEF Kept, Live
  <2>6. PICK h \in Hosts : h = hid[d] /\ ~Kept(h)'
    BY <2>5
  <2>7. \E e \in Deployments : cur[d] \in Mine(e) /\ pc[e] \in {"remove", "sweep"}
    BY <2>1, <2>2, <2>4, <2>6, LossIsItsOwn
  <2> QED
    BY <1>1, <2>3, <2>7
<1>2. ASSUME RunStep(d) \/ FailStep(d) PROVE Kept(hid[d])'
  <2> USE DEF TypeOK, RunTypeOK, TargetTypeOK, ZabbixTypeOK
  <2>1. CASE CreateHost(d)
    BY <2>1 DEF CreateHost, Kept, Live
  <2>2. CASE CheckHost(d)
    BY <2>2 DEF CheckHost, Kept, Live
  <2>3. CASE ~CreateHost(d) /\ ~CheckHost(d)
    <3>1. pc[d] \in {"createSave", "rename", "mark"} /\ hid'[d] = hid[d]
      BY <1>2, <2>3 DEF RunStep, FailStep, Settle, Leave, BackToSweep, Goto, FirstCall,
          StartRun, SkipRetired, Take, RemoveHost, Unlink, ClearStaleLink,
          StaleLinkFails, RenameHost, RenameRefused, MarkHost, MarkRefused, AdoptMatch,
          AdoptNone, SaveAdoption, AdoptionRefused, CreateRefused, SaveCreation,
          AbortRun, FinishWithoutCleanup, BeginCleanup, FetchIds, FetchHosts,
          FetchClusters, ReapHost, ReapRefused, ClearLink, ClearFails, FinishRun,
          TargetFails, RunDies, CleanupSkipped, ReapFails
    <3> QED
      BY SMTT(30), <1>1, <3>1
  <2> QED
    BY <2>1, <2>2, <2>3
<1>3. ASSUME NEW e \in Deployments \ {d}, RunStep(e) \/ FailStep(e) PROVE Kept(hid[d])'
  BY <1>1, <1>3, OwnRunOnly
<1>4. ASSUME (NetBoxEdit \/ ZabbixEdit) \/ UNCHANGED vars PROVE Kept(hid[d])'
  <2>1. UNCHANGED <<pc, hid>>
    BY <1>4 DEF vars, KeepTheRest, NetBoxEdit, ZabbixEdit, AddRecord, DeleteRecord,
        ChangeMode, ChangeImport, Rename, HandDelete, HandCreate
  <2> QED
    BY <1>1, <2>1
<1> QED
  BY <1>2, <1>3, <1>4 DEF Next

\* The link of a synced source is left alone until a run has it at hand again.
LEMMA SyncedKeepsLink ==
  ASSUME SyncedInv, [Next]_vars, NEW d \in Deployments, NEW s \in synced[d]
  PROVE  link'[s] = link[s]
<1> USE DEF SyncedInv, LinkInv, TypeOK, NetBoxTypeOK, AtHand, TargetPCs, Mine
<1>1. s \in Sources /\ s \in Mine(d)
  BY DEF Books, BooksOf
<1>2. ASSUME NEW e \in Deployments,
             Unlink(e) \/ ClearStaleLink(e) \/ SaveAdoption(e) \/ SaveCreation(e) \/ ClearLink(e)
      PROVE  link'[s] = link[s]
  <2>1. cur[e] # s
    BY <1>1, <1>2 DEF Unlink, ClearStaleLink, SaveAdoption, SaveCreation, ClearLink,
       Books, BooksOf
  <2>2. \E x : link' = [link EXCEPT ![cur[e]] = x]
    BY SMTT(30), <1>2 DEF Unlink, ClearStaleLink, SaveAdoption, SaveCreation, ClearLink
  <2> QED
    BY <1>1, <2>1, <2>2
<1>3. ASSUME ~\E e \in Deployments : \/ Unlink(e) \/ ClearStaleLink(e) \/ SaveAdoption(e)
                                     \/ SaveCreation(e) \/ ClearLink(e)
      PROVE  link' = link
  BY <1>3 DEF Next, vars, NetBoxEdit, ZabbixEdit, AddRecord, DeleteRecord, ChangeMode,
      ChangeImport, Rename, HandDelete, HandCreate, RunStep, FailStep, StartRun,
      SkipRetired, Take, RemoveHost, CheckHost, StaleLinkFails, RenameHost,
      RenameRefused, MarkHost, MarkRefused, AdoptMatch, AdoptNone, AdoptionRefused,
      CreateHost, CreateRefused, AbortRun, FinishWithoutCleanup, BeginCleanup, FetchIds,
      FetchHosts, FetchClusters, ReapHost, ReapRefused, ClearFails, FinishRun,
      TargetFails, RunDies, CleanupSkipped, ReapFails
<1> QED
  BY <1>2, <1>3
LEMMA SyncedSourceHasHostStep ==
  ASSUME AdoptExisting = {}, SyncedInv, [Next]_vars
  PROVE  SyncedSourceHasHost'
<1> SUFFICES ASSUME NEW d \in Deployments, NEW s \in synced'[d], Exists(s)'
             PROVE  link'[s] # NoHost /\ Kept(link[s])'
  BY DEF SyncedSourceHasHost, Kept
<1> USE DEF SyncedInv
<1>1. CASE s \in synced[d]
  <2>1. s \in Sources /\ s \in Mine(d)
    BY <1>1 DEF Books, BooksOf, Mine
  <2>2. Exists(s)
    <3>1. life[RecordOf[s]] \notin {"new", "gone"}
      BY <1>1, <2>1, RecordsOnlyAge DEF LinkInv, Books, BooksOf, Exists
    <3> QED
      BY <2>1, <3>1, MappingAssumption DEF Exists, LinkInv, TypeOK, NetBoxTypeOK, Lives
  <2>3. link[s] # NoHost /\ Kept(link[s])
    BY <1>1, <2>2 DEF SyncedSourceHasHost, Kept
  <2>4. PICK h \in Hosts : link[s] = h
    BY <2>1, <2>3 DEF LinkInv, TypeOK, NetBoxTypeOK
  <2>5. link'[s] = h
    BY <1>1, <2>4, SyncedKeepsLink
  <2>6. ASSUME ~Kept(h)' PROVE FALSE
    <3>1. PICK e \in Deployments : s \in Mine(e) /\
              \/ pc[e] = "remove" /\ cur[e] = s
              \/ pc[e] = "sweep" /\ (life[RecordOf[s]] = "gone" \/ task[s] = "exclude")
      BY <2>1, <2>3, <2>4, <2>6, LossIsItsOwn DEF Belongs
    <3>2. e = d
      BY <2>1, <3>1 DEF Mine
    <3>3. task[s] # "exclude" /\ (pc[d] \in TargetPCs => cur[d] # s)
      BY <1>1 DEF Books, BooksOf
    <3> QED
      BY <2>2, <3>1, <3>2, <3>3 DEF Exists, TargetPCs
  <2>7. Kept(h)'
    BY <2>6
  <2> QED
    BY <2>4, <2>5, <2>7, NoneAssumption DEF Kept, Live
<1>2. CASE s \notin synced[d]
  <2> USE DEF LinkInv, TypeOK, RunTypeOK, NetBoxTypeOK, AtHand, TargetPCs, HostPCs, Mine
  <2>1. PICK e \in Deployments : RunStep(e) \/ FailStep(e)
    BY <1>2 DEF Next, vars, KeepTheRest, NetBoxEdit, ZabbixEdit, AddRecord, DeleteRecord,
        ChangeMode, ChangeImport, Rename, HandDelete, HandCreate
  <2>2. e = d
    BY <1>2, <2>1, OwnRunOnly
  <2>3. CASE SaveCreation(d)
    <3>1. s = cur[d] /\ link'[s] = hid[d] /\ hid[d] \in Hosts
      BY <1>2, <2>3 DEF SaveCreation, ReportSynced
    <3>2. Kept(hid[d]) /\ zbx' = zbx /\ handDeleted' = handDeleted
      BY <2>3 DEF SaveCreation, WorkIsKept
    <3> QED
      BY <3>1, <3>2, NoneAssumption DEF Kept, Live
  <2>4. CASE MarkHost(d)
    <3>1. s = cur[d] /\ link'[s] = hid[d] /\ hid[d] \in Hosts
      BY <1>2, <2>4 DEF MarkHost, ReportSynced, LinkAtHand
    <3>2. Kept(hid[d]) /\ zbx' = zbx /\ handDeleted' = handDeleted
      BY <2>4 DEF MarkHost, WorkIsKept
    <3> QED
      BY <3>1, <3>2, NoneAssumption DEF Kept, Live
  <2>5. CASE ~SaveCreation(d) /\ ~MarkHost(d)
    <3>1. synced'[d] \subseteq synced[d]
      BY <2>1, <2>2, <2>5 DEF RunStep, FailStep, StartRun, SkipRetired, Take, RemoveHost,
          Unlink, CheckHost, ClearStaleLink, StaleLinkFails, RenameHost, RenameRefused,
          MarkRefused, AdoptMatch, AdoptNone, SaveAdoption, AdoptionRefused, CreateHost,
          CreateRefused, AbortRun, FinishWithoutCleanup, BeginCleanup, FetchIds,
          FetchHosts, FetchClusters, ReapHost, ReapRefused, ClearLink, ClearFails,
          FinishRun, TargetFails, RunDies, CleanupSkipped, ReapFails
    <3> QED
      BY SMTT(30), <1>2, <3>1
  <2> QED
    BY <2>3, <2>4, <2>5
<1> QED
  BY <1>1, <1>2

LEMMA SyncedInvStep ==
  ASSUME AdoptExisting = {}
  PROVE  SyncedInv /\ [Next]_vars => SyncedInv'
<1> SUFFICES ASSUME SyncedInv, [Next]_vars PROVE SyncedInv'
  OBVIOUS
<1>1. LinkInv' /\ SweepInv'
  BY LinkInvStep, SweepInvStep DEF SyncedInv
<1>2. OneOwner' /\ Books'
  BY OneOwnerStep, BooksStep DEF SyncedInv
<1> QED
  BY <1>1, <1>2, WorkIsKeptStep, SyncedSourceHasHostStep DEF SyncedInv

\* Without adoption, a source that a run reported as synced and that NetBox
\* still has is linked to a host, which is there or was deleted by a person:
\* no removal, cleanup pass or stale-id path of any deployment takes it.
THEOREM SyncedSourcesHaveHosts ==
  ASSUME AdoptExisting = {}
  PROVE  Spec => []SyncedSourceHasHost
<1>1. SyncedInv => SyncedSourceHasHost
  BY DEF SyncedInv
<1> QED
  BY <1>1, SyncedInit, SyncedInvStep, PTL DEF Spec

\* Without adoption, no two sources are linked to one existing host, so that
\* removing the one cannot delete the host of the other.
THEOREM HostsHaveOneSource ==
  ASSUME AdoptExisting = {}
  PROVE  Spec => []HostsAreNotShared
<1>1. SyncedInv => HostsAreNotShared
  BY DEF SyncedInv, OneOwner, Belongs, HostsAreNotShared, Live
<1> QED
  BY <1>1, SyncedInit, SyncedInvStep, PTL DEF Spec
=============================================================================
