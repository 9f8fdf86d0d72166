---------------------- MODULE AzureSubscriptionsProofs ----------------------
(* Theorems about AzureSubscriptions, for any tenants, names and bounds.     *)
EXTENDS AzureSubscriptions, TLAPS

USE DEF tenants, input, zabbix, target, past, spent
-----------------------------------------------------------------------------
(* Types.  They hold together with what each call has at hand.              *)

AtHand ==
    /\ pc \in Calls \cup {"save", "link"} => cur \in Subs
    /\ pc \in {"save", "link", "tech", "visible", "conf", "marks"} => zid \in Ids
    /\ pc \in {"tech", "visible", "conf", "marks"} => view \in Host

LEMMA TypeInit == Init => TypeOK /\ AtHand
<1> SUFFICES ASSUME Init PROVE TypeOK /\ AtHand
  OBVIOUS
<1>1. {MaxId, MaxEdits, MaxFaults, MaxCrashes} \subseteq Nat
  BY AzureAssumption
<1>2. TypeOK
  <2>1. /\ lastId \in 0..MaxId
        /\ edits \in 0..MaxEdits /\ faults \in 0..MaxFaults /\ crashes \in 0..MaxCrashes
    BY <1>1 DEF Init
  <2>2. had \in BOOLEAN /\ again \in BOOLEAN /\ valid \in [Subs -> BOOLEAN]
    BY Zenon DEF Init
  <2>3. host \in [Ids -> Host \cup {Gone}] /\ link \in [Subs -> Ids \cup {NoHost}]
    BY DEF Init
  <2> QED  BY <2>1, <2>2, <2>3 DEF Init, TypeOK
<1>3. AtHand
  BY DEF Init, AtHand, Calls
<1> QED  BY <1>2, <1>3

LEMMA TechIsTechnical ==
  ASSUME TypeOK, NEW s \in Subs PROVE Tech(s) \in (Names \ Unsupported) \cup Subs
  BY DEF TypeOK, Tech, UsesVisible

\* An update leaves a host a host.
LEMMA ChangeKeepsHosts ==
  ASSUME TypeOK, AtHand, pc \in {"tech", "visible", "conf", "marks"},
         NEW field, NEW value, Change(field, value),
         \/ field = "tech" /\ value \in (Names \ Unsupported) \cup Subs
         \/ field = "visible" /\ value \in Names
         \/ field = "conf" /\ value \in Subs
         \/ field = "marks" /\ value \in SUBSET Subs
  PROVE  host' \in [Ids -> Host \cup {Gone}] /\ \A h \in Live : host'[h] \in Host
<1> USE DEF TypeOK, Live
<1>1. CASE ~Differs(field, value)
  BY <1>1 DEF Change
<1>2. CASE Differs(field, value)
  <2>1. zid \in Ids /\ host[zid] \in Host
    BY <1>2 DEF Change
  <2>2. [host[zid] EXCEPT ![field] = value] \in Host
    <3>1. CASE field = "tech"
      BY <2>1, <3>1 DEF Host
    <3>2. CASE field = "visible"
      BY <2>1, <3>2 DEF Host
    <3>3. CASE field = "conf"
      BY <2>1, <3>3 DEF Host
    <3>4. CASE field = "marks"
      BY <2>1, <3>4 DEF Host
    <3> QED  BY <3>1, <3>2, <3>3, <3>4
  <2>3. host' = [host EXCEPT ![zid] = [host[zid] EXCEPT ![field] = value]]
    BY <1>2 DEF Change
  <2> QED  BY <2>1, <2>2, <2>3
<1> QED  BY <1>1, <1>2

LEMMA UpdatesKeepHosts ==
  ASSUME TypeOK, AtHand, RenameHost \/ SetVisible \/ Configure \/ MarkHost
  PROVE  host' \in [Ids -> Host \cup {Gone}] /\ \A h \in Live : host'[h] \in Host
<1> USE DEF AtHand, Calls
<1>1. CASE RenameHost
  BY <1>1, TechIsTechnical, ChangeKeepsHosts DEF RenameHost, Change
<1>2. CASE SetVisible
  <2>1. name[cur] \in Names /\ view.visible \in Names
    BY <1>2 DEF SetVisible, Change, Host, TypeOK
  <2> QED  BY <1>2, <2>1, ChangeKeepsHosts DEF SetVisible, Change
<1>3. CASE Configure
  BY <1>3, ChangeKeepsHosts DEF Configure, Change
<1>4. CASE MarkHost
  <2>1. DesiredMarks \in SUBSET Subs
    BY <1>4 DEF MarkHost, Change, DesiredMarks, OwnMarks, Host
  <2> QED  BY <1>4, <2>1, ChangeKeepsHosts DEF MarkHost, Change
<1> QED  BY <1>1, <1>2, <1>3, <1>4

LEMMA RunKeepsTypes ==
  ASSUME TypeOK, AtHand, RunStep
  PROVE  TypeOK' /\ AtHand'
<1> USE AzureAssumption DEF TypeOK, AtHand, Calls, KeepTarget
<1>1. CASE StartRun
  BY <1>1 DEF StartRun
<1>2. CASE SkipInvalid
  BY <1>2 DEF SkipInvalid
<1>3. CASE Take
  BY <1>3 DEF Take
<1>4. CASE LookupFinds
  BY <1>4 DEF LookupFinds
<1>5. CASE LookupFails
  BY <1>5 DEF LookupFails
<1>6. CASE SaveAdoption
  BY <1>6 DEF SaveAdoption
<1>7. CASE CheckHost
  BY <1>7 DEF CheckHost, Live
<1>8. CASE ClearLink
  BY <1>8 DEF ClearLink
<1>9. CASE KeepStaleLink
  BY <1>9 DEF KeepStaleLink, Settle
<1>10. CASE RenameHost
  BY <1>10, UpdatesKeepHosts DEF RenameHost, Change, GoOn
<1>11. CASE SetVisible
  BY <1>11, UpdatesKeepHosts DEF SetVisible, Change, GoOn
<1>12. CASE Configure
  BY <1>12, UpdatesKeepHosts DEF Configure, Change, GoOn
<1>13. CASE MarkHost
  BY <1>13, UpdatesKeepHosts DEF MarkHost, Change, Settle
<1>14. CASE UpdateRefused
  BY <1>14 DEF UpdateRefused, Settle
<1>15. CASE CreateHost
  <2>1. [tech |-> Tech(cur), visible |-> name[cur], conf |-> cur, marks |-> OwnMarks(cur)]
          \in Host
    BY <1>15, TechIsTechnical DEF CreateHost, OwnMarks, Host
  <2> QED  BY SMTT(30), <1>15, <2>1 DEF CreateHost, Ids
<1>16. CASE CreateRefused
  BY <1>16 DEF CreateRefused, Settle
<1>17. CASE SaveCreation
  BY <1>17 DEF SaveCreation, Settle
<1>18. CASE FinishTenants
  BY <1>18 DEF FinishTenants, KeepTenants, Doomed, Live
<1>19. CASE ReapHost
  BY <1>19 DEF ReapHost, KeepTenants
<1>20. CASE ReapTooLate
  BY <1>20 DEF ReapTooLate, KeepTenants
<1>21. CASE FinishRun
  BY <1>21 DEF FinishRun, KeepTenants
<1> QED
  BY <1>1, <1>2, <1>3, <1>4, <1>5, <1>6, <1>7, <1>8, <1>9, <1>10, <1>11, <1>12, <1>13,
     <1>14, <1>15, <1>16, <1>17, <1>18, <1>19, <1>20, <1>21 DEF RunStep

LEMMA OthersKeepTypes ==
  ASSUME TypeOK, AtHand,
         \/ FailStep \/ SwitchClearing \/ MakeHost \/ DeleteHost
         \/ \E s \in Subs : Rename(s) \/ Revalidate(s) \/ Refilter(s)
  PROVE  TypeOK' /\ AtHand'
<1> USE AzureAssumption DEF TypeOK, AtHand, Calls, Edit, KeepTheRun
<1>1. CASE TenantFails
  <2>1. faults' \in 0..MaxFaults
    BY <1>1 DEF TenantFails
  <2>2. UNCHANGED <<input, link, zabbix, todo, excluded, doomed, adopted, edits, crashes>>
        /\ pc' = "next" /\ cur' = NoSub /\ zid' = NoHost /\ view' = Gone
        /\ had' = FALSE /\ again' = FALSE /\ synced' = synced
    BY <1>1 DEF TenantFails, Settle
  <2> QED  BY <2>1, <2>2
<1>2. CASE ReapUnsaved
  BY <1>2 DEF ReapUnsaved, KeepTenants
<1>3. CASE ReapRefused
  BY <1>3 DEF ReapRefused, KeepTenants
<1>4. CASE RunDies
  <2>1. crashes' \in 0..MaxCrashes
    BY <1>4 DEF RunDies
  <2>2. UNCHANGED <<input, link, zabbix, past, edits, faults>>
        /\ pc' = "idle" /\ todo' = {} /\ excluded' = {} /\ doomed' = {}
        /\ cur' = NoSub /\ zid' = NoHost /\ view' = Gone /\ had' = FALSE /\ again' = FALSE
    BY <1>4 DEF RunDies
  <2> QED  BY <2>1, <2>2
<1>5. CASE MakeHost
  <2> PICK p \in HandMade :
        /\ lastId < MaxId /\ lastId' = lastId + 1
        /\ host' = [host EXCEPT ![lastId + 1] =
                       [tech |-> p[1], visible |-> p[2], conf |-> NoSub, marks |-> {}]]
    BY <1>5 DEF MakeHost
  <2>1. [tech |-> p[1], visible |-> p[2], conf |-> NoSub, marks |-> {}] \in Host
    BY DEF Host
  <2>2. host' \in [Ids -> Host \cup {Gone}] /\ lastId' \in 0..MaxId
    BY <2>1 DEF Ids
  <2> QED  BY <1>5, <2>2 DEF MakeHost
<1>6. CASE DeleteHost
  <2>1. edits' \in 0..MaxEdits
    BY <1>6 DEF DeleteHost
  <2>2. host' \in [Ids -> Host \cup {Gone}]
    BY <1>6 DEF DeleteHost
  <2> QED  BY <1>6, <2>1, <2>2 DEF DeleteHost
<1>7. CASE \E s \in Subs : Rename(s)
  BY <1>7 DEF Rename
<1>8. CASE \E s \in Subs : Revalidate(s)
  BY <1>8 DEF Revalidate
<1>9. CASE \E s \in Subs : Refilter(s)
  BY <1>9 DEF Refilter
<1>10. CASE SwitchClearing
  BY <1>10 DEF SwitchClearing
<1> QED  BY <1>1, <1>2, <1>3, <1>4, <1>5, <1>6, <1>7, <1>8, <1>9, <1>10 DEF FailStep

LEMMA TypesStay == TypeOK /\ AtHand /\ [Next]_vars => TypeOK' /\ AtHand'
<1> SUFFICES ASSUME TypeOK, AtHand, [Next]_vars PROVE TypeOK' /\ AtHand'
  OBVIOUS
<1>1. CASE RunStep
  BY <1>1, RunKeepsTypes
<1>2. CASE Next /\ ~RunStep
  BY <1>2, OthersKeepTypes DEF Next
<1>3. CASE UNCHANGED vars
  BY <1>3 DEF vars, TypeOK, AtHand
<1> QED  BY <1>1, <1>2, <1>3

\* Every reachable state is of the declared types: what a run works with is
\* set, and a host it writes stays a host.
THEOREM TypeCorrect == Spec => []TypeOK
<1> QED
  BY TypeInit, TypesStay, PTL DEF Spec
-----------------------------------------------------------------------------
(* What the cleanup of a run is about to delete.                            *)

\* Tenants change only between runs, so those a filter excluded when the run
\* began are excluded still.
ExcludedInv == pc # "idle" => \A s \in excluded : mode[s] = "excluded"

\* The hosts to reap were read with their marks, which no step changes while
\* they are reaped: runs of one deployment do not overlap, and the ids of new
\* hosts are above those of all hosts before.
DoomedInv ==
    /\ doomed # {} => pc = "sweep"
    /\ \A p \in doomed : /\ p[1] <= lastId
                         /\ p[2] \in excluded
                         /\ p[1] \in Live => host[p[1]].marks = {p[2]}
    /\ \A h \in Live : h <= lastId

ReapInv == TypeOK /\ AtHand /\ ExcludedInv /\ DoomedInv

LEMMA ExcludedStay == ReapInv /\ [Next]_vars => ExcludedInv'
<1> SUFFICES ASSUME ReapInv, [Next]_vars PROVE ExcludedInv'
  OBVIOUS
<1> USE DEF ReapInv, ExcludedInv
<1>1. CASE StartRun
  BY <1>1 DEF StartRun
<1>2. CASE \E s \in Subs : Rename(s) \/ Revalidate(s) \/ Refilter(s)
  BY <1>2 DEF Rename, Revalidate, Refilter, KeepTheRun
<1>3. CASE UNCHANGED <<excluded, mode>> /\ (pc' = "idle" \/ pc # "idle")
  BY <1>3
<1>4. CASE RunDies
  BY <1>4 DEF RunDies
<1>5. \/ StartRun \/ RunDies
      \/ \E s \in Subs : Rename(s) \/ Revalidate(s) \/ Refilter(s)
      \/ UNCHANGED <<excluded, mode>> /\ (pc' = "idle" \/ pc # "idle")
  <2>1. CASE RunStep /\ ~StartRun
    BY <2>1 DEF RunStep, SkipInvalid, Take, LookupFinds, LookupFails, SaveAdoption, CheckHost,
       ClearLink, KeepStaleLink, RenameHost, SetVisible, Configure, MarkHost, UpdateRefused,
       CreateHost, CreateRefused, SaveCreation, FinishTenants, ReapHost, ReapTooLate,
       FinishRun, Settle, KeepTarget, KeepTenants, Change, GoOn, DoomedInv
  <2>2. CASE TenantFails \/ ReapUnsaved \/ ReapRefused
    BY <2>2 DEF TenantFails, ReapUnsaved, ReapRefused, Settle, KeepTenants, Calls, DoomedInv
  <2>3. CASE SwitchClearing \/ MakeHost \/ DeleteHost
    BY <2>3 DEF SwitchClearing, MakeHost, DeleteHost, KeepTheRun
  <2>4. CASE UNCHANGED vars
    BY <2>4 DEF vars
  <2> QED  BY <2>1, <2>2, <2>3, <2>4 DEF Next, FailStep
<1> QED  BY <1>1, <1>2, <1>3, <1>4, <1>5

LEMMA DoomedStay == ReapInv /\ [Next]_vars => DoomedInv'
<1> SUFFICES ASSUME ReapInv, [Next]_vars PROVE DoomedInv'
  OBVIOUS
<1> USE AzureAssumption DEF ReapInv, DoomedInv
<1>1. CASE FinishTenants
  BY <1>1 DEF FinishTenants, KeepTenants, Doomed, Live
<1>2. CASE \/ ReapHost \/ ReapTooLate \/ FinishRun
           \/ ReapUnsaved \/ ReapRefused \/ DeleteHost
  <2>1. /\ doomed' \subseteq doomed /\ UNCHANGED <<excluded, lastId>>
        /\ pc' = pc \/ doomed' = {}
    BY <1>2 DEF ReapHost, ReapTooLate, FinishRun, ReapUnsaved, ReapRefused, DeleteHost,
       KeepTenants, KeepTheRun
  <2>2. \A h \in Ids : host'[h] # Gone => host'[h] = host[h]
    BY <1>2 DEF ReapHost, ReapTooLate, FinishRun, ReapUnsaved, ReapRefused, DeleteHost,
       TypeOK
  <2> QED  BY <2>1, <2>2 DEF Live
<1>3. CASE CreateHost \/ MakeHost
  <2>0. lastId \in Nat
    BY DEF TypeOK
  <2>1. /\ lastId' = lastId + 1 /\ UNCHANGED <<doomed, excluded>>
        /\ pc' = pc \/ doomed' = {}
    BY <1>3 DEF CreateHost, MakeHost, KeepTarget, KeepTheRun
  <2>2. \A h \in Ids \ {lastId + 1} : host'[h] = host[h]
    BY ZenonT(60), <1>3 DEF CreateHost, MakeHost, TypeOK
  <2>3. \A p \in doomed : p[1] \in Ids /\ p[1] # lastId + 1
    BY <2>0 DEF TypeOK, Ids
  <2> QED  BY <2>0, <2>1, <2>2, <2>3 DEF Live, Ids
<1>4. CASE RenameHost \/ SetVisible \/ Configure \/ MarkHost
  <2>1. doomed = {} /\ doomed' = {} /\ lastId' = lastId
    BY <1>4 DEF RenameHost, SetVisible, Configure, MarkHost, Change, GoOn, KeepTarget, Settle
  <2>2. \A h \in Ids : host'[h] # Gone => host[h] # Gone
    BY ZenonT(60), <1>4 DEF RenameHost, SetVisible, Configure, MarkHost, Change, Live, TypeOK
  <2> QED  BY <2>1, <2>2 DEF Live
<1>5. CASE \/ StartRun \/ SkipInvalid \/ Take \/ LookupFinds \/ LookupFails
           \/ SaveAdoption \/ CheckHost \/ ClearLink \/ KeepStaleLink
           \/ UpdateRefused \/ CreateRefused \/ SaveCreation \/ TenantFails
  <2>1. doomed = {} /\ doomed' = {} /\ UNCHANGED <<host, lastId>>
    BY <1>5 DEF StartRun, SkipInvalid, Take, LookupFinds, LookupFails, SaveAdoption,
       CheckHost, ClearLink, KeepStaleLink, UpdateRefused, CreateRefused, SaveCreation,
       TenantFails, Settle, KeepTarget, Calls
  <2> QED  BY <2>1 DEF Live
<1>6. CASE RunDies
  BY <1>6 DEF RunDies, Live
<1>7. CASE \E s \in Subs : Rename(s) \/ Revalidate(s) \/ Refilter(s)
  BY <1>7 DEF Rename, Revalidate, Refilter, KeepTheRun, Live
<1>8. CASE UNCHANGED vars
  BY <1>8 DEF vars, Live
<1>9. CASE SwitchClearing
  BY <1>9 DEF SwitchClearing, KeepTheRun, Live
<1> QED
  BY <1>1, <1>2, <1>3, <1>4, <1>5, <1>6, <1>7, <1>8, <1>9 DEF Next, RunStep, FailStep

LEMMA InitReaps == Init => ReapInv
<1> SUFFICES ASSUME Init PROVE ReapInv
  OBVIOUS
<1>1. ExcludedInv /\ DoomedInv
  BY DEF Init, ExcludedInv, DoomedInv, Live
<1> QED  BY <1>1, TypeInit DEF ReapInv

\* Only people and the cleanup make a host disappear.
LEMMA OnlyReapsDelete ==
  ASSUME ReapInv, [Next]_vars, edits' = edits, NEW h \in Live, host'[h] = Gone
  PROVE  \E p \in doomed : p[1] = h
<1> USE DEF ReapInv
<1>1. CASE ReapHost \/ ReapUnsaved
  BY <1>1 DEF ReapHost, ReapUnsaved, TypeOK, Live
<1>2. ~(RenameHost \/ SetVisible \/ Configure \/ MarkHost)
  BY UpdatesKeepHosts, GoneAssumption
<1>3. ~CreateHost
  <2> SUFFICES ASSUME CreateHost PROVE FALSE
    OBVIOUS
  <2>1. h # lastId + 1
    BY AzureAssumption DEF DoomedInv, TypeOK, Live
  <2> QED  BY <2>1 DEF CreateHost, TypeOK, Live
<1>4. ~(\/ SwitchClearing \/ MakeHost \/ DeleteHost
         \/ \E s \in Subs : Rename(s) \/ Revalidate(s) \/ Refilter(s))
  <2>1. edits \in Nat
    BY AzureAssumption DEF TypeOK
  <2>2. edits' # edits + 1
    BY <2>1
  <2> QED  BY <2>2 DEF SwitchClearing, MakeHost, DeleteHost, Rename, Revalidate, Refilter, Edit
<1>5. host' # host
  BY DEF Live
<1>6. ReapHost \/ ReapUnsaved
  BY <1>2, <1>3, <1>4, <1>5 DEF vars, Next, RunStep, FailStep, StartRun, SkipInvalid, Take,
     LookupFinds, LookupFails, SaveAdoption, CheckHost, ClearLink, KeepStaleLink,
     UpdateRefused, CreateRefused, SaveCreation, FinishTenants, ReapTooLate, ReapRefused,
     FinishRun, TenantFails, RunDies
<1> QED  BY <1>1, <1>6

\* A run deletes a host only if it bears the marker of one tenant, which a
\* custom-field filter excludes: "Azure source deletion is not checked", and
\* "objects excluded only by NetBox API filters are not deleted"
\* (_cleanup_deleted_hosts).
THEOREM OnlyExcludedAreReaped == Spec => ReapsOnlyExcluded
<1> DEFINE Reaps == edits' = edits => \A h \in Live : host'[h] = Gone =>
                       \E s \in Subs : host[h].marks = {s} /\ mode[s] = "excluded"
<1>1. ReapInv /\ [Next]_vars => Reaps
  <2> SUFFICES ASSUME ReapInv, [Next]_vars, edits' = edits, NEW h \in Live, host'[h] = Gone
               PROVE  \E s \in Subs : host[h].marks = {s} /\ mode[s] = "excluded"
    OBVIOUS
  <2> PICK p \in doomed : p[1] = h
    BY OnlyReapsDelete
  <2> QED  BY DEF ReapInv, TypeOK, ExcludedInv, DoomedInv
<1>2. ReapInv /\ [Next]_vars => ReapInv'
  BY TypesStay, ExcludedStay, DoomedStay DEF ReapInv
<1> QED
  BY <1>1, <1>2, InitReaps, PTL DEF Spec, ReapsOnlyExcluded
-----------------------------------------------------------------------------
(* A synced tenant has a host of its own: the argument behind               *)
(* SyncedTenantHasItsHost when people keep the names of tenants apart.      *)

\* No host people make bears the names of two tenants.
NamesApart == \A p \in HandMade : \A s, t \in Subs :
                  p[1] = name[s] /\ p[2] = name[t] => s = t

NamesDiffer == \A s, t \in Subs : name[s] = name[t] => s = t

\* The host h is, or an adoption could make it, that of s.
Tied(s, h) == \/ link[s] = h
              \/ host[h].tech \in {s, name[s]} \/ host[h].visible = name[s]

OneTenant == \A h \in Live : \A s, t \in Subs : Tied(s, h) /\ Tied(t, h) => s = t

\* Links and the id at hand were handed out before.
KnownIds == /\ \A s \in Subs : link[s] # NoHost => link[s] <= lastId
            /\ zid # NoHost => zid <= lastId
            /\ \A h \in Live : h <= lastId

Steps == {"tech", "visible", "conf", "marks"}

\* What the steps done for the tenant at hand have made of its host.
Work ==
    /\ pc \in Steps \cup {"check"} => link[cur] = zid
    /\ zid \in Live =>
           /\ pc \in {"save", "link"} => Tied(cur, zid)
           /\ pc = "tech" => view.tech = host[zid].tech
           /\ pc \in {"visible", "conf", "marks", "link"} => host[zid].tech = Tech(cur)
           /\ pc \in {"tech", "visible", "conf"} => view.conf = host[zid].conf
           /\ pc \in {"marks", "link"} => host[zid].conf = cur

\* A tenant is to be handled, at hand or synced, and no filter excludes it.
Turn ==
    /\ cur \in Subs <=> pc \in Calls \cup {"save", "link"}
    /\ pc # "idle" =>
           /\ \A s \in synced \cup todo : mode[s] = "selected"
           /\ synced \cap todo = {} /\ cur \notin synced \cup todo
           /\ cur \in Subs => mode[cur] = "selected"

TenantInv == /\ ReapInv /\ NamesApart /\ NamesDiffer /\ OneTenant /\ KnownIds
             /\ Work /\ Turn /\ SyncedTenantHasItsHost

LEMMA TenantInit == NamesApart /\ Init => TenantInv
<1> SUFFICES ASSUME NamesApart, Init PROVE TenantInv
  OBVIOUS
<1>1. NamesDiffer
  BY DEF Init, NamesDiffer
<1>2. OneTenant /\ KnownIds /\ Work
  BY DEF Init, OneTenant, KnownIds, Work, Live, Steps
<1>3. Turn /\ SyncedTenantHasItsHost
  BY AzureAssumption DEF Init, Turn, SyncedTenantHasItsHost, Calls
<1> QED  BY <1>1, <1>2, <1>3, InitReaps DEF TenantInv
LEMMA TechTellsTenants ==
  ASSUME TypeOK, NamesDiffer, NEW s \in Subs, NEW t \in Subs, Tech(s) \in {t, name[t]}
  PROVE  s = t
  BY AzureAssumption DEF TypeOK, NamesDiffer, Tech, UsesVisible

LEMMA FieldsAreApart ==
  ASSUME NEW r \in Host, NEW value
  PROVE  /\ LET q == [r EXCEPT !["tech"] = value]
            IN  q.tech = value /\ q.visible = r.visible /\ q.conf = r.conf
         /\ LET q == [r EXCEPT !["visible"] = value]
            IN  q.tech = r.tech /\ q.visible = value /\ q.conf = r.conf
         /\ LET q == [r EXCEPT !["conf"] = value]
            IN  q.tech = r.tech /\ q.visible = r.visible /\ q.conf = value
         /\ LET q == [r EXCEPT !["marks"] = value]
            IN  q.tech = r.tech /\ q.visible = r.visible /\ q.conf = r.conf
  BY DEF Host

\* What an update makes of the host at hand, and of no other.
LEMMA UpdatesTouchOne ==
  ASSUME TypeOK, AtHand, RenameHost \/ SetVisible \/ Configure \/ MarkHost
  PROVE  /\ UNCHANGED <<name, mode, link, lastId>>
         /\ \A h \in Ids \ {zid} : host'[h] = host[h]
         /\ zid \in Ids
         /\ host'[zid] # host[zid] => zid \in Live
         /\ zid \in Live =>
                /\ host'[zid] # Gone
                /\ \/ host'[zid].tech = host[zid].tech
                   \/ (RenameHost /\ host'[zid].tech = Tech(cur))
                /\ \/ host'[zid].visible = host[zid].visible
                   \/ (SetVisible /\ host'[zid].visible = name[cur])
                /\ \/ host'[zid].conf = host[zid].conf
                   \/ (Configure /\ host'[zid].conf = cur)
<1> DEFINE Touched(field, value) ==
      /\ UNCHANGED <<link, lastId>>
      /\ \A h \in Ids \ {zid} : host'[h] = host[h]
      /\ zid \in Ids
      /\ host'[zid] # host[zid] => zid \in Live
      /\ zid \in Live => host'[zid] \in {host[zid], [host[zid] EXCEPT ![field] = value]}
<1>0. ASSUME NEW field, NEW value, Change(field, value), pc \in Steps
      PROVE  Touched(field, value)
  BY <1>0 DEF Change, TypeOK, AtHand, Steps, Live
<1>1. UNCHANGED <<name, mode>>
  BY DEF RenameHost, SetVisible, Configure, MarkHost, GoOn, KeepTarget
<1>2. zid \in Live => host[zid] \in Host /\ host'[zid] # Gone
  BY UpdatesKeepHosts, GoneAssumption DEF TypeOK, Live
<1>3. CASE RenameHost
  <2>1. Touched("tech", Tech(cur))
    BY <1>0, <1>3 DEF RenameHost, Change, Steps
  <2> QED  BY <1>1, <1>2, <1>3, <2>1, FieldsAreApart
<1>4. CASE SetVisible
  <2>1. /\ UNCHANGED <<link, lastId>> /\ zid \in Ids
        /\ \A h \in Ids \ {zid} : host'[h] = host[h]
        /\ host'[zid] # host[zid] => zid \in Live
        /\ zid \in Live => host'[zid] \in {host[zid], [host[zid] EXCEPT !["visible"] = name[cur]]}
    <3>1. CASE UsesVisible(cur)
      <4>1. Touched("visible", name[cur])
        BY <1>0, <1>4, <3>1 DEF SetVisible, Change, Steps
      <4> QED  BY <4>1
    <3>2. CASE ~UsesVisible(cur)
      BY <1>4, <3>2 DEF SetVisible, Change, Differs, AtHand
    <3> QED  BY <3>1, <3>2
  <2> QED  BY <1>1, <1>2, <1>4, <2>1, FieldsAreApart
<1>5. CASE Configure
  <2>1. Touched("conf", cur)
    BY <1>0, <1>5 DEF Configure, Change, Steps
  <2> QED  BY <1>1, <1>2, <1>5, <2>1, FieldsAreApart
<1>6. CASE MarkHost
  <2>1. Touched("marks", DesiredMarks)
    BY <1>0, <1>6 DEF MarkHost, Change, Steps
  <2> QED  BY <1>1, <1>2, <1>6, <2>1, FieldsAreApart
<1> QED  BY <1>3, <1>4, <1>5, <1>6

\* Nothing but naming or making one ties a host to a tenant it was not tied to,
\* and people give tenants fresh names.
LEMMA TiesStay ==
  ASSUME FreshNames, TenantInv, [Next]_vars,
         NEW h \in Live, host'[h] # Gone, NEW s \in Subs, Tied(s, h)'
  PROVE  Tied(s, h)
<1> USE DEF TenantInv, ReapInv, TypeOK
<1>1. CASE RenameHost \/ SetVisible \/ Configure \/ MarkHost
  <2>1. CASE h # zid
    BY <1>1, <2>1, UpdatesTouchOne DEF Tied, Live
  <2>2. CASE h = zid
    <3>1. cur \in Subs /\ link[cur] = zid
      BY <1>1 DEF Work, Steps, AtHand, Calls, RenameHost, SetVisible, Configure, MarkHost, Change
    <3>2. s # cur => \/ link[s] = h
                     \/ host[h].tech \in {s, name[s]} \/ host[h].visible = name[s]
      BY <1>1, <2>2, <3>1, UpdatesTouchOne, TechTellsTenants DEF Tied, NamesDiffer
    <3> QED  BY <2>2, <3>1, <3>2 DEF Tied
  <2> QED  BY <2>1, <2>2
<1>2. CASE CreateHost \/ MakeHost
  <2>1. h # lastId + 1
    BY AzureAssumption DEF KnownIds, Live
  <2>2. host'[h] = host[h] /\ UNCHANGED <<name, link>>
    BY <1>2, <2>1 DEF CreateHost, MakeHost, KeepTarget, Live
  <2> QED  BY <2>2 DEF Tied
<1>3. CASE SaveAdoption \/ SaveCreation
  <2>1. UNCHANGED <<host, name>> /\ link' = [link EXCEPT ![cur] = zid]
    BY <1>3 DEF SaveAdoption, SaveCreation, KeepTarget
  <2>2. pc \in {"save", "link"}
    BY <1>3 DEF SaveAdoption, SaveCreation
  <2> QED  BY <2>1, <2>2 DEF Work, Tied, AtHand
<1>4. CASE ClearLink \/ ReapHost
  <2>1. host'[h] = host[h] /\ name' = name /\ (link'[s] = link[s] \/ link'[s] = NoHost)
    BY <1>4 DEF ClearLink, ReapHost, KeepTarget, KeepTenants, Live
  <2>2. h # NoHost
    BY AzureAssumption DEF Live, Ids
  <2> QED  BY <2>1, <2>2 DEF Tied
<1>5. CASE \E t \in Subs : Rename(t)
  <2>1. PICK t \in Subs, n \in Names :
          /\ n \notin {host[h].tech, host[h].visible}
          /\ name' = [name EXCEPT ![t] = n] /\ UNCHANGED <<link, host>>
    BY <1>5 DEF Rename
  <2> QED  BY <2>1 DEF Tied
<1>6. CASE ~(\/ RenameHost \/ SetVisible \/ Configure \/ MarkHost \/ CreateHost \/ MakeHost
             \/ SaveAdoption \/ SaveCreation \/ ClearLink \/ ReapHost
             \/ \E t \in Subs : Rename(t))
  <2>1. UNCHANGED <<name, link>> /\ host'[h] = host[h]
    BY <1>6 DEF vars, Next, RunStep, FailStep, StartRun, SkipInvalid, Take, LookupFinds,
       LookupFails, CheckHost, KeepStaleLink, UpdateRefused, CreateRefused, FinishTenants,
       ReapTooLate, ReapUnsaved, ReapRefused, FinishRun, TenantFails, RunDies, KeepTarget,
       KeepTenants, SwitchClearing, DeleteHost, Revalidate, Refilter, Live
  <2> QED  BY <2>1 DEF Tied
<1> QED  BY <1>1, <1>2, <1>3, <1>4, <1>5, <1>6
LEMMA OneTenantStep ==
  ASSUME FreshNames, TenantInv, [Next]_vars
  PROVE  OneTenant'
<1> SUFFICES ASSUME NEW h \in Ids, host'[h] # Gone, NEW s \in Subs, NEW t \in Subs,
                    Tied(s, h)', Tied(t, h)'
             PROVE  s = t
  BY DEF OneTenant, Live
<1> USE DEF TenantInv, ReapInv, TypeOK
<1>1. CASE h \in Live
  BY <1>1, TiesStay DEF OneTenant
<1>2. ASSUME h \notin Live, CreateHost PROVE s = t
  <2>1. h = lastId + 1 /\ h # NoHost /\ UNCHANGED <<name, link>>
    BY <1>2, AzureAssumption DEF CreateHost, KeepTarget, Live, Ids
  <2>2. host'[h] = [tech |-> Tech(cur), visible |-> name[cur], conf |-> cur,
                    marks |-> OwnMarks(cur)]
    BY <1>2, <2>1 DEF CreateHost
  <2>3. link[s] # h /\ link[t] # h
    BY <2>1, AzureAssumption DEF KnownIds
  <2>4. cur \in Subs
    BY <1>2 DEF CreateHost, AtHand, Calls
  <2> QED  BY <2>1, <2>2, <2>3, <2>4, TechTellsTenants DEF Tied, NamesDiffer
<1>3. ASSUME h \notin Live, MakeHost PROVE s = t
  <2>1. h = lastId + 1 /\ h # NoHost /\ UNCHANGED <<name, link>>
    BY <1>3, AzureAssumption DEF MakeHost, Live, Ids
  <2>2. PICK p \in HandMade : host'[h] = [tech |-> p[1], visible |-> p[2], conf |-> NoSub,
                                          marks |-> {}]
    BY <1>3, <2>1 DEF MakeHost
  <2>3. link[s] # h /\ link[t] # h
    BY <2>1, AzureAssumption DEF KnownIds
  <2>4. p[1] \notin Subs
    BY AzureAssumption
  <2>5. /\ name[s] \in {p[1], p[2]} /\ name[t] \in {p[1], p[2]}
    BY <2>1, <2>2, <2>3, <2>4 DEF Tied
  <2> QED  BY <2>5 DEF NamesApart, NamesDiffer
<1>4. CASE h \notin Live /\ ~CreateHost /\ ~MakeHost
  <2>1. ~(RenameHost \/ SetVisible \/ Configure \/ MarkHost)
    BY <1>4, UpdatesTouchOne DEF Live
  <2>2. host'[h] = host[h] \/ host'[h] = Gone
    BY ZenonT(60), <1>4, <2>1 DEF vars, Next, RunStep, FailStep, StartRun, SkipInvalid, Take,
       LookupFinds, LookupFails, SaveAdoption, CheckHost, ClearLink, KeepStaleLink,
       UpdateRefused, CreateRefused, SaveCreation, FinishTenants, ReapHost, ReapTooLate,
       ReapUnsaved, ReapRefused, FinishRun, TenantFails, RunDies, KeepTarget, KeepTenants,
       SwitchClearing, DeleteHost, Rename, Revalidate, Refilter
  <2> QED  BY <1>4, <2>2 DEF Live
<1> QED  BY <1>1, <1>2, <1>3, <1>4

\* Names stay apart: people pick names nobody bears and no host they make bears.
LEMMA NamesStep ==
  ASSUME FreshNames, TenantInv, [Next]_vars
  PROVE  NamesApart' /\ NamesDiffer'
<1> USE DEF TenantInv, ReapInv, TypeOK
<1>1. CASE \E s \in Subs : Rename(s)
  <2> PICK s \in Subs, n \in Names :
        /\ \A t \in Subs : name[t] # n
        /\ \A p \in HandMade : n \notin {p[1], p[2]}
        /\ name' = [name EXCEPT ![s] = n]
    BY <1>1 DEF Rename
  <2> QED  BY DEF NamesApart, NamesDiffer
<1>2. CASE ~\E s \in Subs : Rename(s)
  <2>1. name' = name
    BY <1>2 DEF vars, Next, RunStep, FailStep, StartRun, SkipInvalid, Take, LookupFinds,
       LookupFails, SaveAdoption, CheckHost, ClearLink, KeepStaleLink, RenameHost,
       SetVisible, Configure, MarkHost, UpdateRefused, CreateHost, CreateRefused,
       SaveCreation, FinishTenants, ReapHost, ReapTooLate, ReapUnsaved, ReapRefused,
       FinishRun, TenantFails, RunDies, KeepTarget, KeepTenants, GoOn, SwitchClearing,
       MakeHost, DeleteHost, Revalidate, Refilter
  <2> QED  BY <2>1 DEF NamesApart, NamesDiffer
<1> QED  BY <1>1, <1>2

LEMMA KnownIdsStep ==
  ASSUME TenantInv, [Next]_vars
  PROVE  KnownIds'
<1> USE AzureAssumption DEF TenantInv, ReapInv, TypeOK, KnownIds
<1>0. lastId \in Nat /\ lastId' \in Nat
  BY TypesStay DEF Next, vars
<1>1. CASE RenameHost \/ SetVisible \/ Configure \/ MarkHost
  <2>1. Live' \subseteq Live /\ UNCHANGED <<link, lastId>>
    BY <1>1, UpdatesTouchOne DEF Live
  <2>2. zid' = zid \/ zid' = NoHost
    BY <1>1 DEF RenameHost, SetVisible, Configure, MarkHost, GoOn, Settle
  <2> QED  BY <2>1, <2>2
<1>2. CASE CreateHost \/ MakeHost
  <2>1. /\ link' = link /\ lastId' = lastId + 1 /\ zid' \in {zid, lastId + 1}
        /\ Live' \subseteq Live \cup {lastId + 1}
    BY ZenonT(60), <1>2 DEF CreateHost, MakeHost, KeepTarget, KeepTheRun, Live
  <2>2. \A h \in Ids : h <= lastId => h <= lastId'
    BY <1>0, <2>1 DEF Ids
  <2>3. Live \subseteq Ids
    BY DEF Live
  <2> QED  BY <1>0, <2>1, <2>2, <2>3
<1>3. CASE ~(RenameHost \/ SetVisible \/ Configure \/ MarkHost \/ CreateHost \/ MakeHost)
  <2>1. /\ lastId' = lastId /\ Live' \subseteq Live
        /\ \/ zid' \in {zid, NoHost} \/ LookupFinds \/ Take
    BY <1>3 DEF vars, Next, RunStep, FailStep, StartRun, SkipInvalid, LookupFails,
       SaveAdoption, CheckHost, ClearLink, KeepStaleLink, UpdateRefused, CreateRefused,
       SaveCreation, FinishTenants, ReapHost, ReapTooLate, ReapUnsaved, ReapRefused,
       FinishRun, TenantFails, RunDies, KeepTarget, KeepTenants, SwitchClearing,
       KeepTheRun, DeleteHost, Rename, Revalidate, Refilter, Live, Settle, LookupFinds, Take
  <2>2. \A s \in Subs : link'[s] \in {link[s], zid, NoHost}
    <3>1. CASE SaveAdoption \/ SaveCreation
      BY <3>1 DEF SaveAdoption, SaveCreation
    <3>2. CASE ClearLink \/ ReapHost
      BY <3>2 DEF ClearLink, ReapHost
    <3>3. CASE ~(SaveAdoption \/ SaveCreation \/ ClearLink \/ ReapHost)
      <4>1. link' = link
        BY <1>3, <3>3 DEF vars, Next, RunStep, FailStep, StartRun, SkipInvalid, Take,
           LookupFinds, LookupFails, CheckHost, KeepStaleLink, UpdateRefused,
           CreateRefused, FinishTenants, ReapTooLate, ReapUnsaved, ReapRefused,
           FinishRun, TenantFails, RunDies, KeepTarget, KeepTenants, SwitchClearing,
           DeleteHost, Rename, Revalidate, Refilter
      <4> QED  BY <4>1
    <3> QED  BY <3>1, <3>2, <3>3
  <2>3. LookupFinds => zid' \in Live
    BY DEF LookupFinds, Matches
  <2>4. Take => \E s \in Subs : zid' = link[s]
    BY DEF Take
  <2> QED  BY <2>1, <2>2, <2>3, <2>4
<1> QED  BY <1>1, <1>2, <1>3
LEMMA TurnStep ==
  ASSUME TenantInv, [Next]_vars
  PROVE  Turn'
<1> USE AzureAssumption DEF TenantInv, ReapInv, TypeOK, AtHand, Turn, Calls
<1>1. CASE StartRun
  BY <1>1 DEF StartRun
<1>2. CASE SkipInvalid \/ Take
  BY <1>2 DEF SkipInvalid, Take
<1>3. CASE \/ LookupFinds \/ LookupFails \/ SaveAdoption \/ CheckHost \/ ClearLink
           \/ RenameHost \/ SetVisible \/ Configure \/ CreateHost
  BY <1>3 DEF LookupFinds, LookupFails, SaveAdoption, CheckHost, ClearLink, RenameHost,
     SetVisible, Configure, CreateHost, Change, GoOn, KeepTarget
<1>4. CASE \/ KeepStaleLink \/ MarkHost \/ UpdateRefused \/ CreateRefused \/ SaveCreation
           \/ TenantFails
  BY <1>4 DEF KeepStaleLink, MarkHost, UpdateRefused, CreateRefused, SaveCreation,
     TenantFails, Change, Settle
<1>5. CASE \/ FinishTenants \/ ReapHost \/ ReapTooLate \/ ReapUnsaved \/ ReapRefused
           \/ FinishRun \/ RunDies
  BY <1>5 DEF FinishTenants, ReapHost, ReapTooLate, ReapUnsaved, ReapRefused, FinishRun,
     RunDies, KeepTenants
<1>6. CASE SwitchClearing \/ MakeHost \/ DeleteHost
  BY <1>6 DEF SwitchClearing, MakeHost, DeleteHost, KeepTheRun
<1>7. CASE \E s \in Subs : Rename(s) \/ Revalidate(s) \/ Refilter(s)
  BY <1>7 DEF Rename, Revalidate, Refilter, KeepTheRun
<1>8. CASE UNCHANGED vars
  BY <1>8 DEF vars
<1> QED
  BY <1>1, <1>2, <1>3, <1>4, <1>5, <1>6, <1>7, <1>8 DEF Next, RunStep, FailStep

\* The steps for one tenant build on each other: nobody else writes its host.
LEMMA WorkStep ==
  ASSUME TenantInv, [Next]_vars
  PROVE  Work'
<1> USE AzureAssumption DEF TenantInv, ReapInv, Work, Steps
<1>1. CASE UNCHANGED <<pc, cur, zid, view, link, name>> /\
           \A h \in Ids : host'[h] # Gone => host'[h] = host[h] \/ h # zid
  BY <1>1 DEF Live, Tech, UsesVisible, Tied
<1>2. CASE pc' \notin Steps \cup {"check", "save", "link"}
  BY <1>2
<1>3. CASE Take
  BY <1>3 DEF Take, TypeOK
<1>4. CASE LookupFinds
  BY <1>4 DEF LookupFinds, Matches, KeepTarget, Live, Tied, Tech, UsesVisible
<1>5. CASE SaveAdoption
  BY <1>5 DEF SaveAdoption, KeepTarget, AtHand, TypeOK
<1>6. CASE CheckHost
  BY <1>6 DEF CheckHost, KeepTarget, Live
<1>7. CASE RenameHost \/ SetVisible \/ Configure
  <2>1. /\ UNCHANGED <<cur, zid, view, link, name>> /\ (Live' = Live \/ zid \notin Live')
        /\ \/ RenameHost /\ pc = "tech" /\ pc' = "visible"
           \/ SetVisible /\ pc = "visible" /\ pc' = "conf"
           \/ Configure /\ pc = "conf" /\ pc' = "marks"
    BY <1>7, UpdatesTouchOne DEF RenameHost, SetVisible, Configure, Change, GoOn,
       KeepTarget, Live
  <2>2. zid \in Live' => zid \in Live
    BY <1>7, UpdatesTouchOne DEF Live
  <2>3. Tech(cur)' = Tech(cur)
    BY <2>1 DEF Tech, UsesVisible
  <2>0. /\ RenameHost => pc = "tech"
        /\ SetVisible => pc = "visible"
        /\ Configure => pc = "conf"
    BY DEF RenameHost, SetVisible, Configure, Change
  <2>4. CASE RenameHost
    <3>1. zid \in Live => host'[zid].tech = Tech(cur)
      BY <2>4 DEF RenameHost, Change, Differs, TypeOK, Live, Host, AtHand
    <3> QED  BY <2>0, <2>1, <2>2, <2>3, <2>4, <3>1, UpdatesTouchOne
  <2>5. CASE SetVisible
    BY <2>0, <2>1, <2>2, <2>3, <2>5, UpdatesTouchOne
  <2>6. CASE Configure
    <3>1. zid \in Live => host'[zid].conf = cur
      BY <2>6 DEF Configure, Change, Differs, TypeOK, Live, Host, AtHand
    <3> QED  BY <2>0, <2>1, <2>2, <2>3, <2>6, <3>1, UpdatesTouchOne
  <2> QED  BY <1>7, <2>4, <2>5, <2>6
<1>8. CASE CreateHost
  <2>1. /\ pc' = "link" /\ cur' = cur /\ name' = name
        /\ host'[zid'] = [tech |-> Tech(cur), visible |-> name[cur], conf |-> cur,
                          marks |-> OwnMarks(cur)]
    BY <1>8 DEF CreateHost, KeepTarget, TypeOK, Ids
  <2>2. Tech(cur)' = Tech(cur)
    BY <2>1 DEF Tech, UsesVisible
  <2> QED  BY <2>1, <2>2 DEF Tied
<1>9. CASE MakeHost
  <2>1. UNCHANGED <<pc, cur, zid, view, link, name>>
    BY <1>9 DEF MakeHost, KeepTheRun
  <2>2. \A h \in Ids \ {lastId + 1} : host'[h] = host[h]
    BY <1>9 DEF MakeHost, TypeOK
  <2>3. zid \in Ids => zid # lastId + 1
    BY DEF KnownIds, TypeOK, Ids
  <2> QED  BY <1>1, <2>1, <2>2, <2>3
<1>10. CASE \/ ReapHost \/ ReapTooLate \/ ReapUnsaved \/ ReapRefused \/ FinishRun
            \/ FinishTenants \/ RunDies \/ StartRun \/ LookupFails \/ ClearLink
  BY <1>2, <1>10 DEF ReapHost, ReapTooLate, ReapUnsaved, ReapRefused, FinishRun,
     FinishTenants, RunDies, StartRun, LookupFails, ClearLink, KeepTenants, DoomedInv
<1>11. CASE \/ KeepStaleLink \/ MarkHost \/ UpdateRefused \/ CreateRefused \/ SaveCreation
            \/ TenantFails
  BY <1>2, <1>11 DEF KeepStaleLink, MarkHost, UpdateRefused, CreateRefused, SaveCreation,
     TenantFails, Settle
<1>12. CASE SkipInvalid \/ SwitchClearing \/ DeleteHost
  BY <1>1, <1>12 DEF SkipInvalid, SwitchClearing, DeleteHost, KeepTheRun, TypeOK
<1>13. CASE \E s \in Subs : Rename(s) \/ Revalidate(s) \/ Refilter(s)
  BY <1>2, <1>13 DEF Rename, Revalidate, Refilter, KeepTheRun
<1>14. CASE UNCHANGED vars
  BY <1>1, <1>14 DEF vars
<1> QED
  BY <1>3, <1>4, <1>5, <1>6, <1>7, <1>8, <1>9, <1>10, <1>11, <1>12, <1>13, <1>14
  DEF Next, RunStep, FailStep
\* While a run goes on, nobody touches the link or the host of a tenant that it
\* has reported: the tenant at hand is another, and so is its host.
LEMMA SyncedIsLeftAlone ==
  ASSUME TenantInv, [Next]_vars, pc # "idle", NEW s \in synced
  PROVE  /\ link'[s] = link[s] /\ Tech(s)' = Tech(s)
         /\ link[s] \in Live' => /\ link[s] \in Live
                                 /\ host'[link[s]].conf = host[link[s]].conf
                                 /\ host'[link[s]].tech = host[link[s]].tech
<1> USE AzureAssumption DEF TenantInv, ReapInv, TypeOK
<1>1. s \in Subs /\ s # cur /\ s \notin excluded
  BY DEF Turn, ExcludedInv
<1>2. link'[s] = link[s]
  <2>1. CASE SaveAdoption \/ SaveCreation \/ ClearLink
    BY <1>1, <2>1 DEF SaveAdoption, SaveCreation, ClearLink
  <2>2. CASE ReapHost
    <3>1. PICK p \in doomed :
            link' = [link EXCEPT ![p[2]] = IF @ = p[1] THEN NoHost ELSE @]
      BY <2>2 DEF ReapHost
    <3> QED  BY <1>1, <3>1 DEF DoomedInv
  <2>3. CASE ~(SaveAdoption \/ SaveCreation \/ ClearLink \/ ReapHost)
    <3>1. link' = link
      BY <2>3 DEF vars, Next, RunStep, FailStep, StartRun, SkipInvalid, Take, LookupFinds,
         LookupFails, CheckHost, KeepStaleLink, RenameHost, SetVisible, Configure,
         MarkHost, Change, UpdateRefused, CreateHost, CreateRefused, FinishTenants,
         ReapTooLate, ReapUnsaved, ReapRefused, FinishRun, TenantFails, RunDies,
         KeepTarget, KeepTenants, SwitchClearing, MakeHost, DeleteHost, Rename,
         Revalidate, Refilter
    <3> QED  BY <3>1
  <2> QED  BY <2>1, <2>2, <2>3
<1>3. name' = name
  BY DEF vars, Next, RunStep, FailStep, StartRun, SkipInvalid, Take, LookupFinds,
     LookupFails, SaveAdoption, CheckHost, ClearLink, KeepStaleLink, RenameHost,
     SetVisible, Configure, MarkHost, UpdateRefused, CreateHost, CreateRefused,
     SaveCreation, FinishTenants, ReapHost, ReapTooLate, ReapUnsaved, ReapRefused,
     FinishRun, TenantFails, RunDies, KeepTarget, KeepTenants, GoOn, SwitchClearing,
     MakeHost, DeleteHost, Rename, Revalidate, Refilter
<1>4. ASSUME NEW h \in Ids, link[s] = h, host'[h] # Gone
      PROVE  h \in Live /\ host'[h].conf = host[h].conf /\ host'[h].tech = host[h].tech
  <2>1. h # lastId + 1
    BY <1>1, <1>4 DEF KnownIds, Ids
  <2>2. CASE RenameHost \/ SetVisible \/ Configure \/ MarkHost
    <3>1. cur \in Subs /\ link[cur] = zid
      BY <2>2 DEF Work, Steps, AtHand, Calls, RenameHost, SetVisible, Configure, MarkHost,
         Change
    <3>2. h \in Live
      BY <1>4, <2>2, UpdatesTouchOne DEF Live
    <3>3. h # zid
      BY <1>1, <1>4, <3>1, <3>2 DEF OneTenant, Tied
    <3> QED  BY <2>2, <3>2, <3>3, UpdatesTouchOne
  <2>3. CASE CreateHost \/ MakeHost
    BY <1>4, <2>1, <2>3 DEF CreateHost, MakeHost, Live
  <2>4. CASE ~(RenameHost \/ SetVisible \/ Configure \/ MarkHost \/ CreateHost \/ MakeHost)
    <3>1. host'[h] = host[h] \/ host'[h] = Gone
      BY ZenonT(60), <2>4 DEF vars, Next, RunStep, FailStep, StartRun, SkipInvalid, Take,
         LookupFinds, LookupFails, SaveAdoption, CheckHost, ClearLink, KeepStaleLink, UpdateRefused,
         CreateRefused, SaveCreation, FinishTenants, ReapHost, ReapTooLate, ReapUnsaved,
         ReapRefused, FinishRun, TenantFails, RunDies, KeepTarget, KeepTenants,
         SwitchClearing, DeleteHost, Rename, Revalidate, Refilter
    <3> QED  BY <1>4, <3>1 DEF Live
  <2> QED  BY <2>2, <2>3, <2>4
<1> QED  BY <1>2, <1>3, <1>4 DEF Live, Tech, UsesVisible

LEMMA SyncedStep ==
  ASSUME TenantInv, [Next]_vars
  PROVE  SyncedTenantHasItsHost'
<1> SUFFICES ASSUME pc' # "idle", NEW s \in synced'
             PROVE  /\ link'[s] # NoHost
                    /\ link'[s] \in Live' => /\ host'[link'[s]].conf = s
                                             /\ host'[link'[s]].tech = Tech(s)'
  BY DEF SyncedTenantHasItsHost
<1> USE AzureAssumption DEF TenantInv, ReapInv, TypeOK
<1>1. CASE pc = "idle"
  <2>1. synced' = {} \/ pc' = pc
    BY <1>1 DEF vars, Next, RunStep, FailStep, StartRun, SkipInvalid, Take, LookupFinds,
       LookupFails, SaveAdoption, CheckHost, ClearLink, KeepStaleLink, RenameHost,
       SetVisible, Configure, MarkHost, Change, UpdateRefused, CreateHost, CreateRefused,
       SaveCreation, FinishTenants, ReapHost, ReapTooLate, ReapUnsaved, ReapRefused,
       FinishRun, TenantFails, RunDies, KeepTenants, SwitchClearing, MakeHost, DeleteHost,
       Rename, Revalidate, Refilter, KeepTheRun, DoomedInv, Calls
  <2> QED  BY <1>1, <2>1
<1>2. CASE pc # "idle" /\ s \in synced
  BY <1>2, SyncedIsLeftAlone DEF SyncedTenantHasItsHost
<1>3. CASE pc # "idle" /\ s \notin synced
  <2>1. MarkHost \/ SaveCreation
    BY <1>3 DEF vars, Next, RunStep, FailStep, StartRun, SkipInvalid, Take, LookupFinds,
       LookupFails, SaveAdoption, CheckHost, ClearLink, KeepStaleLink, RenameHost,
       SetVisible, Configure, UpdateRefused, CreateHost, CreateRefused, FinishTenants,
       ReapHost, ReapTooLate, ReapUnsaved, ReapRefused, FinishRun, TenantFails, RunDies,
       KeepTarget, KeepTenants, GoOn, Settle, SwitchClearing, MakeHost, DeleteHost,
       Rename, Revalidate, Refilter, KeepTheRun
  <2>2. s = cur /\ name' = name
    BY <1>3, <2>1 DEF MarkHost, SaveCreation, Settle
  <2>3. Tech(s)' = Tech(s)
    BY <2>2 DEF Tech, UsesVisible
  <2>4. zid \in Ids /\ link'[s] = zid
    BY <2>1, <2>2 DEF MarkHost, SaveCreation, Change, AtHand, Work, Steps, Calls
  <2>5. CASE MarkHost
    <3>1. pc = "marks"
      BY <2>5 DEF MarkHost, Change
    <3>2. zid \in Live' => zid \in Live
      BY <2>5, UpdatesTouchOne DEF Live
    <3>3. zid \in Live => host[zid].conf = cur /\ host[zid].tech = Tech(cur)
      BY <3>1 DEF Work
    <3>4. zid \in Live => host'[zid].conf = host[zid].conf /\ host'[zid].tech = host[zid].tech
      <4>1. ~RenameHost /\ ~Configure
        BY <3>1 DEF RenameHost, Configure, Change
      <4> QED  BY <2>5, <4>1, UpdatesTouchOne
    <3> QED  BY <2>2, <2>3, <2>4, <3>2, <3>3, <3>4, AzureAssumption DEF Ids
  <2>6. CASE SaveCreation
    BY <2>2, <2>3, <2>4, <2>6 DEF SaveCreation, Work, Live, Ids
  <2> QED  BY <2>1, <2>5, <2>6
<1> QED  BY <1>1, <1>2, <1>3

LEMMA TenantStep ==
  ASSUME FreshNames
  PROVE  TenantInv /\ [Next]_vars => TenantInv'
<1> SUFFICES ASSUME TenantInv, [Next]_vars PROVE TenantInv'
  OBVIOUS
<1>1. ReapInv'
  BY TypesStay, ExcludedStay, DoomedStay DEF TenantInv, ReapInv
<1>2. NamesApart' /\ NamesDiffer' /\ OneTenant' /\ KnownIds'
  BY NamesStep, OneTenantStep, KnownIdsStep
<1> QED  BY <1>1, <1>2, WorkStep, TurnStep, SyncedStep DEF TenantInv

\* While people keep the names of tenants apart from those of other hosts, a
\* tenant that the run reported as synced has a host with its technical name and
\* its configuration to the end of the run: no adoption, update or cleanup for
\* another tenant reaches it (adopt_existing_zabbix_host, consistency_check,
\* _process_azure_subscription).
THEOREM SyncedTenantsHaveTheirHosts ==
  ASSUME FreshNames
  PROVE  NamesApart /\ Spec => []SyncedTenantHasItsHost
<1>1. TenantInv => SyncedTenantHasItsHost
  BY DEF TenantInv
<1> QED
  BY <1>1, TenantInit, TenantStep, PTL DEF Spec
=============================================================================
