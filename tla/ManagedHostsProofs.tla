------------------------- MODULE ManagedHostsProofs -------------------------
(* SyncLifecycle implements ManagedHosts, for any deployments, sources,     *)
(* options and bounds.                                                      *)
EXTENDS SyncLifecycleProofs, ManagedHostsRefinement

USE DEF netbox, zabbix, target, lookup, plan, sweep, past, spent,
        Missing, Inventory, OwnedBy, FirstCall, Condemned
-----------------------------------------------------------------------------
\* Whatever a link names, or is about to, is or was a host.
KnownHosts ==
    /\ \A s \in Sources : link[s] \in Hosts => zbx[link[s]] # "unused"
    /\ \A d \in Deployments : pc[d] \in {"adoptSave", "createSave"} => zbx[hid[d]] # "unused"

\* A host that the cleanup goes through is the host its source links to, or a
\* lost one, until it is deleted.
SweptIsHeld == \A d \in Deployments : \A p \in doomed[d] :
    /\ zbx[p[1]] # "unused"
    /\ Live(p[1]) => link[p[2]] = p[1] \/ p[1] \in orphans

ManagedInv == LinkInv /\ KnownHosts /\ SweptIsHeld

LEMMA ManagedInit == Init => ManagedInv
<1> SUFFICES ASSUME Init PROVE ManagedInv
  OBVIOUS
<1>1. KnownHosts /\ SweptIsHeld
  BY SMTT(30), NoneAssumption DEF Init, KnownHosts, SweptIsHeld
<1> QED
  BY <1>1, LinkInit DEF ManagedInv

LEMMA OrphansStay == [Next]_vars => orphans \subseteq orphans'
  BY SMTT(30) DEF Next, vars, NetBoxEdit, ZabbixEdit, AddRecord, DeleteRecord, ChangeMode,
         ChangeImport, Rename, HandDelete, HandCreate, RunStep, FailStep,
         StartRun, SkipRetired, Take, RemoveHost, Unlink, CheckHost, ClearStaleLink,
         StaleLinkFails, RenameHost, RenameRefused, MarkHost, MarkRefused, AdoptMatch,
         AdoptNone, SaveAdoption, AdoptionRefused, CreateHost, CreateRefused,
         SaveCreation, AbortRun, FinishWithoutCleanup, BeginCleanup, FetchIds,
         FetchHosts, FetchClusters, ReapHost, ReapRefused, ClearLink, ClearFails,
         FinishRun, TargetFails, RunDies, CleanupSkipped, ReapFails

\* The calls that save a link.
WritesLink(d) == SaveAdoption(d) \/ SaveCreation(d) \/ Unlink(d) \/ ClearStaleLink(d)
                     \/ ClearLink(d)

LEMMA OtherStepsKeepLinks ==
  ASSUME [Next]_vars, ~\E d \in Deployments : WritesLink(d)
  PROVE  link' = link
  BY DEF WritesLink, Next, vars, NetBoxEdit, ZabbixEdit, AddRecord, DeleteRecord, ChangeMode,
         ChangeImport, Rename, HandDelete, HandCreate, RunStep, FailStep,
         StartRun, SkipRetired, Take, RemoveHost, CheckHost,
         StaleLinkFails, RenameHost, RenameRefused, MarkHost, MarkRefused, AdoptMatch,
         AdoptNone, AdoptionRefused, CreateHost, CreateRefused,
         AbortRun, FinishWithoutCleanup, BeginCleanup, FetchIds,
         FetchHosts, FetchClusters, ReapHost, ReapRefused, ClearFails,
         FinishRun, TargetFails, RunDies, CleanupSkipped, ReapFails

\* How links come to name a host.
LEMMA LinksNameKnownHosts ==
  ASSUME ManagedInv, [Next]_vars, NEW s \in Sources, link'[s] \in Hosts
  PROVE  zbx'[link'[s]] # "unused"
<1> USE NoneAssumption
<1> USE DEF ManagedInv, LinkInv, TypeOK, NetBoxTypeOK, AtHand, HostPCs, TargetPCs, Mine
<1>1. CASE link'[s] = link[s]
  BY <1>1, HostsOnlyAge DEF KnownHosts
<1>2. ASSUME NEW d \in Deployments, SaveAdoption(d) \/ SaveCreation(d), s = cur[d]
      PROVE  zbx'[link'[s]] # "unused"
  BY <1>2 DEF SaveAdoption, SaveCreation, KnownHosts
<1>3. ASSUME NEW d \in Deployments, SaveAdoption(d) \/ SaveCreation(d), s # cur[d]
      PROVE  link'[s] = link[s]
  BY <1>3 DEF SaveAdoption, SaveCreation
<1>4. ASSUME NEW d \in Deployments, Unlink(d) \/ ClearStaleLink(d) \/ ClearLink(d)
      PROVE  link'[s] = link[s]
  BY <1>4 DEF Unlink, ClearStaleLink, ClearLink
<1>5. ASSUME ~\E d \in Deployments : WritesLink(d) PROVE link'[s] = link[s]
  BY <1>5, OtherStepsKeepLinks
<1> QED
  BY <1>1, <1>2, <1>3, <1>4, <1>5 DEF WritesLink

LEMMA KnownHostsStep ==
  ASSUME ManagedInv, [Next]_vars
  PROVE  KnownHosts'
<1> USE DEF ManagedInv, LinkInv
<1>1. ASSUME NEW e \in Deployments, pc'[e] \in {"adoptSave", "createSave"},
             pc[e] = pc'[e], hid[e] = hid'[e]
      PROVE  zbx'[hid'[e]] # "unused"
  BY <1>1, HostsOnlyAge DEF KnownHosts, AtHand, HostPCs
<1>2. ASSUME NEW e \in Deployments, RunStep(e) \/ FailStep(e),
             pc'[e] \in {"adoptSave", "createSave"}
      PROVE  zbx'[hid'[e]] # "unused"
  <2>1. CASE AdoptMatch(e)
    BY <2>1 DEF AdoptMatch, Matches, Live, TypeOK, TargetTypeOK
  <2>2. CASE CreateHost(e)
    BY <2>2 DEF CreateHost, TypeOK, TargetTypeOK, ZabbixTypeOK
  <2>3. CASE ~AdoptMatch(e) /\ ~CreateHost(e)
    <3>1. pc[e] = pc'[e] /\ hid[e] = hid'[e]
      BY <1>2, <2>3 DEF RunStep, FailStep, Settle, Leave, BackToSweep, Goto, TypeOK,
        RunTypeOK, TargetPCs,
        StartRun, SkipRetired, Take, RemoveHost, Unlink, CheckHost, ClearStaleLink,
        StaleLinkFails, RenameHost, RenameRefused, MarkHost, MarkRefused, AdoptNone,
        SaveAdoption, AdoptionRefused, CreateRefused, SaveCreation, AbortRun,
        FinishWithoutCleanup, BeginCleanup, FetchIds, FetchHosts, FetchClusters, ReapHost,
        ReapRefused, ClearLink, ClearFails, FinishRun, TargetFails, RunDies,
        CleanupSkipped, ReapFails
    <3> QED
      BY SMTT(30), <1>1, <1>2, <3>1
  <2> QED
    BY <2>1, <2>2, <2>3
<1>3. ASSUME NEW d \in Deployments, NEW e \in Deployments \ {d}, RunStep(d) \/ FailStep(d)
      PROVE  pc[e] = pc'[e] /\ hid[e] = hid'[e]
  BY <1>3, OwnRunOnly
<1>4. ASSUME (NetBoxEdit \/ ZabbixEdit) \/ UNCHANGED vars
      PROVE  pc' = pc /\ hid' = hid
  BY <1>4 DEF vars, KeepTheRest, NetBoxEdit, ZabbixEdit, AddRecord, DeleteRecord,
      ChangeMode, ChangeImport, Rename, HandDelete, HandCreate
<1>5. ASSUME NEW e \in Deployments, pc'[e] \in {"adoptSave", "createSave"}
      PROVE  zbx'[hid'[e]] # "unused"
  BY <1>1, <1>2, <1>3, <1>4, <1>5 DEF Next
<1> QED
  BY <1>5, LinksNameKnownHosts DEF KnownHosts

LEMMA SweptIsHeldStep ==
  ASSUME ManagedInv, [Next]_vars
  PROVE  SweptIsHeld'
<1> USE NoneAssumption
<1> USE DEF ManagedInv, LinkInv
<1> SUFFICES ASSUME NEW e \in Deployments, NEW p \in doomed'[e]
             PROVE  /\ zbx'[p[1]] # "unused"
                    /\ Live(p[1])' => link'[p[2]] = p[1] \/ p[1] \in orphans'
  BY DEF SweptIsHeld
<1>0. p[1] \in Hosts /\ p[2] \in Mine(e) /\ p[2] \in Sources
  BY TypeStep DEF AtHand, Mine
<1>1. ASSUME zbx[p[1]] # "unused", Live(p[1]) => link[p[2]] = p[1] \/ p[1] \in orphans
      PROVE  /\ zbx'[p[1]] # "unused"
             /\ Live(p[1])' => link'[p[2]] = p[1] \/ p[1] \in orphans'
  <2>1. zbx'[p[1]] # "unused" /\ (zbx'[p[1]] = "live" => zbx[p[1]] = "live")
    BY <1>0, <1>1, HostsOnlyAge DEF TypeOK, ZabbixTypeOK
  <2> QED
    BY <1>0, <1>1, <2>1, LinkStep, OrphansStay DEF Live
<1>2. CASE p \in doomed[e]
  BY <1>1, <1>2 DEF SweptIsHeld
<1>3. CASE FetchHosts(e)
  <2>1. Live(p[1]) /\ marks[p[1]] = {p[2]} /\ pc[e] = "hosts"
    BY <1>3 DEF FetchHosts, TypeOK, SweepTypeOK
  <2>2. Held(p[2], p[1])
    BY <1>0, <2>1 DEF OwnedHostIsLinked
  <2>3. ~InFlight(p[2], p[1])
    BY SMTT(30), <1>0, <2>1 DEF InFlight, AtHand, TargetPCs, Mine
  <2> QED
    BY <1>1, <2>1, <2>2, <2>3 DEF Held, Live
<1>4. ASSUME RunStep(e) \/ FailStep(e), ~FetchHosts(e) PROVE p \in doomed[e]
  BY <1>4 DEF RunStep, FailStep, Leave, Settle, BackToSweep, Goto, TypeOK,
     SweepTypeOK, StartRun, SkipRetired, Take, RemoveHost, Unlink, CheckHost,
     ClearStaleLink, StaleLinkFails, RenameHost, RenameRefused, MarkHost, MarkRefused,
     AdoptMatch, AdoptNone, SaveAdoption, AdoptionRefused, CreateHost, CreateRefused,
     SaveCreation, AbortRun, FinishWithoutCleanup, BeginCleanup, FetchIds, FetchClusters,
     ReapHost, ReapRefused, ClearLink, ClearFails, FinishRun, TargetFails, RunDies,
     CleanupSkipped, ReapFails
<1>5. ASSUME NEW d \in Deployments \ {e}, RunStep(d) \/ FailStep(d) PROVE p \in doomed[e]
  BY <1>5, OwnRunOnly
<1>6. ASSUME (NetBoxEdit \/ ZabbixEdit) \/ UNCHANGED vars PROVE p \in doomed[e]
  BY <1>6 DEF vars, KeepTheRest, NetBoxEdit, ZabbixEdit, AddRecord, DeleteRecord,
      ChangeMode, ChangeImport, Rename, HandDelete, HandCreate
<1> QED
  BY <1>2, <1>3, <1>4, <1>5, <1>6 DEF Next

LEMMA ManagedInvStep == ManagedInv /\ [Next]_vars => ManagedInv'
  BY LinkInvStep, KnownHostsStep, SweptIsHeldStep DEF ManagedInv
-----------------------------------------------------------------------------
(* Every step is one of ManagedHosts, or changes nothing it speaks of.      *)

MadeBy(d) == IF pc[d] = "createSave" THEN {<<cur[d], hid[d]>>} ELSE {}

LEMMA MakingIsPerRun ==
  ASSUME ManagedInv, NEW d \in Deployments, RunStep(d) \/ FailStep(d)
  PROVE  Making' = (Making \ MadeBy(d)) \cup MadeBy(d)'
<1> USE DEF ManagedInv, LinkInv, AtHand, TargetPCs, Mine
<1>1. \A e \in Deployments \ {d} : pc'[e] = pc[e] /\ cur'[e] = cur[e] /\ hid'[e] = hid[e]
  BY OwnRunOnly
<1>2. \A e \in Deployments \ {d} : pc[e] = "createSave" => <<cur[e], hid[e]>> \notin MadeBy(d)
  BY DEF MadeBy
<1> QED
  BY <1>1, <1>2 DEF Making, MadeBy

\* Away from the creation of a host, the hosts being made stay the same.
LEMMA MakingStays ==
  ASSUME ManagedInv, NEW d \in Deployments, RunStep(d) \/ FailStep(d),
         pc[d] # "createSave", pc'[d] # "createSave"
  PROVE  Making' = Making
BY MakingIsPerRun DEF MadeBy

ManagedStep == Managed!Next \/ UNCHANGED Managed!vars

LEMMA CreationImplements ==
  ASSUME ManagedInv, NEW d \in Deployments, CreateHost(d)
  PROVE  ManagedStep
<1> USE DEF ManagedInv, LinkInv
<1>1. PICK h \in Hosts : /\ zbx[h] = "unused" /\ zbx' = [zbx EXCEPT ![h] = "live"]
                         /\ hid' = [hid EXCEPT ![d] = h]
  BY DEF CreateHost
<1>2. pc[d] = "create" /\ link[cur[d]] = NoHost /\ cur[d] \in Sources
  BY DEF CreateHost, LinkAtHand, AtHand, TargetPCs, Mine
<1>3. MadeBy(d) = {} /\ MadeBy(d)' = {<<cur[d], h>>}
  BY <1>1, <1>2 DEF CreateHost, Goto, MadeBy, TypeOK, RunTypeOK, TargetTypeOK
<1>4. Making' = Making \cup {<<cur[d], h>>}
  BY <1>3, MakingIsPerRun DEF RunStep
<1>5. Managed!Create(cur[d], h)
  BY <1>1, <1>2, <1>4 DEF CreateHost, Managed!Create, Managed!Becomes
<1> QED
  BY <1>2, <1>5 DEF ManagedStep, Managed!Next

\* The creating run saves the link, or ends without it.
LEMMA CreationEndsImplement ==
  ASSUME ManagedInv, NEW d \in Deployments, pc[d] = "createSave",
         RunStep(d) \/ FailStep(d)
  PROVE  ManagedStep
<1> USE DEF ManagedInv, LinkInv
<1>1. cur[d] \in Sources /\ hid[d] \in Hosts /\ link[cur[d]] = NoHost
  BY DEF LinkAtHand, AtHand, TargetPCs, HostPCs, Mine
<1>2. <<cur[d], hid[d]>> \in Making
  BY DEF Making
<1>3. SaveCreation(d) \/ AbortRun(d) \/ RunDies(d)
  BY DEF RunStep, FailStep, TargetPCs, StartRun, SkipRetired, Take, RemoveHost, Unlink,
     CheckHost, ClearStaleLink, StaleLinkFails, RenameHost, RenameRefused, MarkHost,
     MarkRefused, AdoptMatch, AdoptNone, SaveAdoption, AdoptionRefused, CreateHost,
     CreateRefused, FinishWithoutCleanup, BeginCleanup, FetchIds, FetchHosts,
     FetchClusters, ReapHost, ReapRefused, ClearLink, ClearFails, FinishRun, TargetFails,
     CleanupSkipped, ReapFails
<1>4. pc'[d] # "createSave"
  BY <1>3 DEF SaveCreation, AbortRun, RunDies, Settle, Leave, Goto, TypeOK, RunTypeOK
<1>5. Making' = Making \ {<<cur[d], hid[d]>>}
  BY <1>4, MakingIsPerRun DEF MadeBy
<1>6. CASE SaveCreation(d)
  <2>1. Managed!Keep(cur[d], hid[d])
    BY <1>1, <1>2, <1>5, <1>6 DEF SaveCreation, Managed!Keep
  <2> QED
    BY <1>1, <2>1 DEF ManagedStep, Managed!Next
<1>7. CASE AbortRun(d) \/ RunDies(d)
  <2>1. Managed!Lose(cur[d], hid[d])
    BY <1>2, <1>5, <1>7 DEF AbortRun, RunDies, Unsaved, Managed!Lose
  <2> QED
    BY <1>1, <2>1 DEF ManagedStep, Managed!Next
<1> QED
  BY <1>3, <1>6, <1>7

LEMMA AdoptionImplements ==
  ASSUME ManagedInv, NEW d \in Deployments, SaveAdoption(d)
  PROVE  ManagedStep
<1> USE DEF ManagedInv, LinkInv
<1>1. pc[d] = "adoptSave" /\ cur[d] \in Sources /\ hid[d] \in Hosts /\ link[cur[d]] = NoHost
  BY DEF SaveAdoption, LinkAtHand, AtHand, TargetPCs, HostPCs, Mine
<1>2. Making' = Making
  BY <1>1, MakingStays DEF SaveAdoption, RunStep, Goto, TypeOK, RunTypeOK
<1>3. Managed!Adopt(cur[d], hid[d])
  BY <1>1, <1>2 DEF SaveAdoption, KnownHosts, Managed!Adopt
<1> QED
  BY <1>1, <1>3 DEF ManagedStep, Managed!Next

\* The tool deletes the host a source links to, or a lost one.
LEMMA DeletionImplements ==
  ASSUME ManagedInv, NEW d \in Deployments, RemoveHost(d) \/ ReapHost(d)
  PROVE  ManagedStep
<1> USE DEF ManagedInv, LinkInv
<1>1. Making' = Making
  BY MakingStays DEF RemoveHost, ReapHost, RunStep, Goto, TypeOK, RunTypeOK
<1>2. ASSUME NEW h \in Hosts, h \in orphans \/ (\E s \in Sources : link[s] = h), Live(h),
             zbx' = [zbx EXCEPT ![h] = "gone"], UNCHANGED <<link, orphans, handDeleted>>
      PROVE  ManagedStep
  <2>1. Managed!Delete(h)
    BY <1>1, <1>2 DEF Live, Managed!Delete, Managed!Becomes
  <2> QED
    BY <2>1 DEF ManagedStep, Managed!Next
<1>3. CASE RemoveHost(d)
  <2>1. cur[d] \in Sources /\ hid[d] \in Hosts /\ link[cur[d]] = hid[d]
    BY <1>3 DEF RemoveHost, LinkAtHand, AtHand, TargetPCs, HostPCs, Mine
  <2>2. CASE Live(hid[d])
    BY <1>2, <1>3, <2>1, <2>2 DEF RemoveHost
  <2>3. CASE ~Live(hid[d])
    <3>1. zbx[hid[d]] = "gone"
      BY <2>1, <2>3 DEF KnownHosts, Live, TypeOK, ZabbixTypeOK
    <3>2. zbx' = zbx
      BY <1>3, <3>1 DEF RemoveHost, TypeOK, ZabbixTypeOK
    <3> QED
      BY <1>1, <1>3, <3>2 DEF RemoveHost, ManagedStep, Managed!vars
  <2> QED
    BY <2>2, <2>3
<1>4. CASE ReapHost(d)
  <2>1. PICK p \in doomed[d] : Live(p[1]) /\ zbx' = [zbx EXCEPT ![p[1]] = "gone"]
    BY <1>4 DEF ReapHost
  <2>2. p[1] \in Hosts /\ p[2] \in Sources
    BY DEF AtHand, Mine
  <2> QED
    BY <1>2, <1>4, <2>1, <2>2 DEF ReapHost, SweptIsHeld
<1> QED
  BY <1>3, <1>4

\* A link is emptied only after its host is gone.
LEMMA UnlinkingImplements ==
  ASSUME ManagedInv, NEW d \in Deployments,
         Unlink(d) \/ ClearStaleLink(d) \/ ClearLink(d)
  PROVE  ManagedStep
<1> USE NoneAssumption
<1> USE DEF ManagedInv, LinkInv
<1>1. cur[d] \in Sources /\ hid[d] \in Hosts
  BY DEF Unlink, ClearStaleLink, ClearLink, AtHand, TargetPCs, HostPCs, Mine
<1>2. zbx[link[cur[d]]] = "gone" \/ (ClearLink(d) /\ link[cur[d]] # hid[d])
  BY <1>1 DEF Unlink, ClearStaleLink, ClearLink, LinkAtHand, KnownHosts, Live, TypeOK,
     ZabbixTypeOK, NetBoxTypeOK
<1>3. link[cur[d]] \in Hosts \/ (ClearLink(d) /\ link[cur[d]] # hid[d])
  BY <1>1 DEF Unlink, ClearStaleLink, ClearLink, LinkAtHand
<1>4. Making' = Making
  BY MakingStays DEF Unlink, ClearStaleLink, ClearLink, Settle, BackToSweep, RunStep, Goto,
     TypeOK, RunTypeOK
<1>5. UNCHANGED <<zbx, orphans, handDeleted>>
  BY DEF Unlink, ClearStaleLink, ClearLink
<1>6. CASE ClearLink(d) /\ link[cur[d]] # hid[d]
  <2>1. link' = link
    BY <1>1, <1>6 DEF ClearLink, TypeOK, NetBoxTypeOK
  <2> QED
    BY <1>4, <1>5, <2>1 DEF ManagedStep, Managed!vars
<1>7. CASE ~(ClearLink(d) /\ link[cur[d]] # hid[d])
  <2>1. link' = [link EXCEPT ![cur[d]] = NoHost]
    BY <1>1, <1>7 DEF Unlink, ClearStaleLink, ClearLink, TypeOK, NetBoxTypeOK
  <2>2. Managed!Unlink(cur[d])
    BY <1>1, <1>2, <1>3, <1>4, <1>5, <1>7, <2>1 DEF Managed!Unlink
  <2> QED
    BY <1>1, <2>2 DEF ManagedStep, Managed!Next
<1> QED
  BY <1>6, <1>7

LEMMA OtherStepsStutter ==
  ASSUME ManagedInv, NEW d \in Deployments, RunStep(d) \/ FailStep(d),
         pc[d] # "createSave", ~CreateHost(d), ~SaveAdoption(d), ~RemoveHost(d),
         ~ReapHost(d), ~Unlink(d), ~ClearStaleLink(d), ~ClearLink(d)
  PROVE  UNCHANGED Managed!vars
<1>1. UNCHANGED <<link, zbx, handDeleted>> /\ orphans' = orphans
  BY DEF RunStep, FailStep, StartRun, SkipRetired, Take,
     CheckHost, StaleLinkFails, RenameHost, RenameRefused, MarkHost, Unsaved,
     MarkRefused, AdoptMatch, AdoptNone, AdoptionRefused, AbortRun,
     CreateRefused, SaveCreation, FinishWithoutCleanup, BeginCleanup, FetchIds, FetchHosts,
     FetchClusters, ReapRefused, ClearFails, FinishRun, TargetFails,
     RunDies, CleanupSkipped, ReapFails
<1>2. pc'[d] # "createSave"
  BY DEF RunStep, FailStep, Settle, Leave, BackToSweep, Goto, ManagedInv, LinkInv, TypeOK,
     RunTypeOK, StartRun, SkipRetired, Take, FirstCall,
     CheckHost, StaleLinkFails, RenameHost, RenameRefused, MarkHost, AbortRun,
     MarkRefused, AdoptMatch, AdoptNone, AdoptionRefused, RunDies, SaveCreation,
     CreateRefused, FinishWithoutCleanup, BeginCleanup, FetchIds, FetchHosts,
     FetchClusters, ReapRefused, ClearFails, FinishRun, TargetFails,
     CleanupSkipped, ReapFails
<1> QED
  BY <1>1, <1>2, MakingStays DEF Managed!vars

LEMMA PeopleImplement ==
  ASSUME ManagedInv, NetBoxEdit \/ ZabbixEdit
  PROVE  ManagedStep
<1>1. pc' = pc /\ cur' = cur /\ hid' = hid /\ link' = link /\ orphans' = orphans
  BY DEF NetBoxEdit, ZabbixEdit, AddRecord, DeleteRecord, ChangeMode, ChangeImport,
         Rename, HandDelete, HandCreate, KeepTheRest
<1>2. Making' = Making
  BY <1>1 DEF Making
<1>3. CASE NetBoxEdit
  BY <1>1, <1>2, <1>3 DEF NetBoxEdit, AddRecord, DeleteRecord, ChangeMode, ChangeImport,
     Rename, ManagedStep, Managed!vars
<1>4. ASSUME NEW h \in Hosts, HandDelete(h) \/ HandCreate(h) PROVE ManagedStep
  <2>1. Managed!HandDelete(h) \/ Managed!HandCreate(h)
    BY <1>1, <1>2, <1>4 DEF HandDelete, HandCreate, Live, Managed!HandDelete,
       Managed!HandCreate, Managed!Becomes
  <2> QED
    BY <2>1 DEF ManagedStep, Managed!Next
<1> QED
  BY <1>3, <1>4 DEF ZabbixEdit

LEMMA StepsImplement == ManagedInv /\ [Next]_vars => [Managed!Next]_(Managed!vars)
<1> SUFFICES ASSUME ManagedInv, [Next]_vars PROVE ManagedStep
  BY DEF ManagedStep
<1>1. ASSUME NEW d \in Deployments, RunStep(d) \/ FailStep(d) PROVE ManagedStep
  BY <1>1, CreationImplements, CreationEndsImplement, AdoptionImplements,
     DeletionImplements, UnlinkingImplements, OtherStepsStutter DEF ManagedStep
<1>2. CASE UNCHANGED vars
  BY <1>2 DEF vars, Making, ManagedStep, Managed!vars
<1> QED
  BY <1>1, <1>2, PeopleImplement DEF Next

\* The runs of any number of deployments, with people, crashes and refused calls
\* in between, only ever do to hosts and links what ManagedHosts allows: a host
\* created is linked or known lost, a link stays with its host, and what the
\* tool deletes was linked or lost (create_in_zabbix, consistency_check,
\* adopt_existing_zabbix_host, cleanup, _cleanup_deleted_hosts).
THEOREM LifecycleImplementsManagedHosts == Spec => ImplementsManagedHosts
<1>1. Init => Managed!Init
  BY DEF Init, Making, Managed!Init
<1> QED
  BY <1>1, ManagedInit, ManagedInvStep, StepsImplement, PTL
  DEF Spec, Managed!Spec, ImplementsManagedHosts
-----------------------------------------------------------------------------
(* Runs leave the hosts of others alone.                                    *)

Known(h) == h \in orphans \/ \E s \in Sources : link[s] = h
Touched(h) == <<zbx[h], hostName[h], marks[h]>> # <<zbx'[h], hostName'[h], marks'[h]>>

LEMMA TouchedIsKnown ==
  ASSUME ManagedInv, NEW d \in Deployments, RunStep(d) \/ FailStep(d),
         NEW h \in Hosts, Live(h), Touched(h)
  PROVE  Known(h)
<1> USE DEF ManagedInv, LinkInv, TypeOK, ZabbixTypeOK, Touched
<1>1. CASE RemoveHost(d) \/ RenameHost(d) \/ MarkHost(d)
  <2>1. cur[d] \in Sources /\ hid[d] \in Hosts /\ link[cur[d]] = hid[d]
    BY <1>1 DEF RemoveHost, RenameHost, MarkHost, LinkAtHand, AtHand, TargetPCs, HostPCs,
       Mine
  <2>2. h = hid[d]
    BY <1>1 DEF RemoveHost, RenameHost, MarkHost
  <2> QED
    BY <2>1, <2>2 DEF Known
<1>2. CASE CreateHost(d)
  BY <1>2 DEF CreateHost, Live
<1>3. CASE ReapHost(d)
  <2>1. PICK p \in doomed[d] : Live(p[1]) /\ zbx' = [zbx EXCEPT ![p[1]] = "gone"]
    BY <1>3 DEF ReapHost
  <2>2. p[1] = h /\ p[2] \in Sources
    BY <1>3, <2>1 DEF ReapHost, AtHand, Mine
  <2> QED
    BY <2>1, <2>2 DEF Known, SweptIsHeld
<1>4. CASE ~(RemoveHost(d) \/ RenameHost(d) \/ MarkHost(d) \/ CreateHost(d) \/ ReapHost(d))
  BY <1>4 DEF RunStep, FailStep, StartRun, SkipRetired, Take, Unlink, CheckHost,
     ClearStaleLink, StaleLinkFails, RenameRefused, MarkRefused, AdoptMatch,
     AdoptNone, SaveAdoption, AdoptionRefused, CreateRefused, SaveCreation, AbortRun,
     FinishWithoutCleanup, BeginCleanup, FetchIds, FetchHosts, FetchClusters, ReapRefused,
     ClearLink, ClearFails, FinishRun, TargetFails, RunDies, CleanupSkipped, ReapFails
<1> QED
  BY <1>1, <1>2, <1>3, <1>4

\* What people add to Zabbix is neither renamed, tagged nor deleted by any run of
\* any deployment until a source adopts it (consistency_check, cleanup,
\* _cleanup_deleted_hosts).
THEOREM RunsKeepToTheirHosts == Spec => RunsTouchOnlyTheirHosts
<1>1. ASSUME ManagedInv, [Next]_vars,
             NEW h \in Hosts, Live(h), edits' = edits, Touched(h)
      PROVE  Known(h)
  <2>1. ~(NetBoxEdit \/ ZabbixEdit)
    BY <1>1, BoundAssumption DEF ManagedInv, LinkInv, TypeOK, PastTypeOK, NetBoxEdit,
       ZabbixEdit, AddRecord, DeleteRecord, ChangeMode, ChangeImport, Rename, HandDelete,
       HandCreate, Edit
  <2>2. ~UNCHANGED vars
    BY <1>1 DEF vars, Touched
  <2> QED
    BY <1>1, <2>1, <2>2, TouchedIsKnown DEF Next
<1>2. ManagedInv /\ [Next]_vars
      => [\A h \in Hosts :
            Live(h) /\ edits' = edits
              /\ <<zbx[h], hostName[h], marks[h]>> # <<zbx'[h], hostName'[h], marks'[h]>>
            => h \in orphans \/ \E s \in Sources : link[s] = h]_vars
  BY <1>1 DEF Touched, Known
<1> QED
  BY <1>2, ManagedInit, ManagedInvStep, PTL DEF Spec, RunsTouchOnlyTheirHosts
=============================================================================
