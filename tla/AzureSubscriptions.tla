------------------------- MODULE AzureSubscriptions -------------------------
(***************************************************************************)
(* Azure subscriptions: NetBox tenants that become Zabbix hosts.            *)
(*                                                                         *)
(* A subscription whose tenant has no host id always adopts the one host    *)
(* that bears its name, and is created when there is none; a linked host is *)
(* brought in line step by step.  A stale link is cleared and the adoption  *)
(* tried once more.  Hosts are marked as owned when they are created, or    *)
(* linked before the run, and reaped only when a custom-field filter        *)
(* excludes the tenant.                                                     *)
(*                                                                         *)
(* Abstractions: one deployment; a run works from the tenants it read at    *)
(* its start, so people edit tenants between runs and hosts at any time;    *)
(* templates, groups, interfaces and macros are one configuration, told    *)
(* apart by the subscription it is for; Zabbix keeps technical and visible  *)
(* names unique, and ids are never used again; the lookups of one method   *)
(* are one step.                                                           *)
(***************************************************************************)
EXTENDS Naturals, FiniteSets

CONSTANTS
    Subs,                  \* the tenants with the Azure tag
    Names,                 \* names of tenants and hosts
    Unsupported,           \* the names that are no technical host names
    HandMade,              \* technical and visible name of the hosts people make
    NoSub, NoHost, Gone,   \* no tenant, no host id, no such host
    CleanupDeleted,        \* cleanup_deleted_hosts
    FreshNames,            \* a tenant is never given a name some host bears or may bear
    MaxId, MaxEdits, MaxFaults, MaxCrashes

ASSUME AzureAssumption ==
    /\ Unsupported \subseteq Names /\ Subs \cap Names = {} /\ NoSub \notin Subs
    /\ HandMade \subseteq (Names \ Unsupported) \X Names
    /\ {CleanupDeleted, FreshNames} \subseteq BOOLEAN
    /\ {MaxId, MaxEdits, MaxFaults, MaxCrashes} \subseteq Nat
    /\ NoHost \notin 1..MaxId

VARIABLES
    name, mode, valid,     \* of a tenant: its name, how filters treat it, is its data complete
    clearStale,            \* clear_stale_zabbix_hostids, which a run finds as it is set
    link,                  \* of a tenant: the host id in its custom field
    host, lastId,          \* the Zabbix hosts, the last id handed out
    pc, todo, excluded,    \* the step of the run, tenants it has left, tenants it may reap
    cur, zid,              \* tenant at hand and its zabbix_id
    had, again,            \* was it linked before the run, has a stale link been cleared
    view,                  \* the host as consistency_check read it
    doomed,                \* the hosts to reap, each with the tenant of its marker
    adopted, synced,       \* history: hosts adopted, tenants synced by the latest run
    edits, faults, crashes \* how much of each bound is spent

tenants == <<name, mode, valid>>
input   == <<tenants, clearStale>>
zabbix  == <<host, lastId>>
target  == <<cur, zid, had, again, view>>
past    == <<adopted, synced>>
spent   == <<edits, faults, crashes>>
vars    == <<input, link, zabbix, pc, todo, excluded, target, doomed, past, spent>>

Ids   == 1..MaxId
Host  == [tech: (Names \ Unsupported) \cup Subs, visible: Names,
          conf: Subs \cup {NoSub}, marks: SUBSET Subs]
ASSUME GoneAssumption == Gone \notin Host

Live  == {h \in Ids : host[h] # Gone}
Calls == {"lookup", "check", "tech", "visible", "conf", "marks", "create"}

TypeOK ==
    /\ name \in [Subs -> Names] /\ valid \in [Subs -> BOOLEAN]
    /\ mode \in [Subs -> {"selected", "excluded", "untagged"}]
    /\ clearStale \in BOOLEAN
    /\ link \in [Subs -> Ids \cup {NoHost}]
    /\ host \in [Ids -> Host \cup {Gone}] /\ lastId \in 0..MaxId
    /\ pc \in {"idle", "next", "save", "link", "sweep"} \cup Calls
    /\ todo \subseteq Subs /\ excluded \subseteq Subs
    /\ cur \in Subs \cup {NoSub} /\ zid \in Ids \cup {NoHost}
    /\ had \in BOOLEAN /\ again \in BOOLEAN
    /\ view \in Host \cup {Gone}
    /\ doomed \subseteq Ids \X Subs
    /\ adopted \subseteq Ids /\ synced \subseteq Subs
    /\ edits \in 0..MaxEdits /\ faults \in 0..MaxFaults /\ crashes \in 0..MaxCrashes
-----------------------------------------------------------------------------
\* _set_basics.  TechAsNamed, and the other operators that stand before one they
\* resemble, are mistakes the properties must notice.
UsesVisible(s) == name[s] \in Unsupported
TechAsNamed(s) == name[s]
Tech(s)        == IF UsesVisible(s) THEN s ELSE name[s]

\* adopt_existing_zabbix_host looks up technical and visible names.
MatchesNever(s) == {}
Matches(s)      == {h \in Live : host[h].tech = Tech(s) \/ host[h].visible = name[s]}

\* _zabbix_hostname_exists, and what Zabbix refuses anyway.
Present(s) == \E h \in Live : IF UsesVisible(s) THEN host[h].visible = name[s]
                                                ELSE host[h].tech = name[s]
Taken(field, value, own) ==
    field \in {"tech", "visible"} /\ \E h \in Live \ {own} : host[h][field] = value

\* _cleanup_ownership_tags, and those _sync_cleanup_ownership adds to the tags
\* that were read.
OwnMarks(s)     == IF CleanupDeleted THEN {s} ELSE {}
DesiredMarks       == IF had THEN view.marks \cup OwnMarks(cur) ELSE view.marks

\* Whose marker is the only one a host bears, and is the tenant excluded.
DoomedUnselected == {p \in Live \X Subs : host[p[1]].marks = {p[2]} /\ mode[p[2]] # "selected"}
DoomedLinked     == {p \in Live \X excluded : host[p[1]].marks = {p[2]} /\ link[p[2]] = p[1]}
Doomed           == {p \in Live \X excluded : host[p[1]].marks = {p[2]}}

Settle(done) ==
    /\ pc' = "next"
    /\ synced' = IF done THEN synced \cup {cur} ELSE synced
    /\ cur' = NoSub /\ zid' = NoHost /\ had' = FALSE /\ again' = FALSE /\ view' = Gone
    /\ UNCHANGED <<todo, excluded, doomed, adopted>>

Init ==
    /\ name \in [Subs -> Names] /\ \A s, t \in Subs : name[s] = name[t] => s = t
    /\ mode = [s \in Subs |-> "selected"]
    /\ valid \in [Subs -> BOOLEAN] /\ clearStale \in BOOLEAN
    /\ link = [s \in Subs |-> NoHost]
    /\ host = [h \in Ids |-> Gone] /\ lastId = 0
    /\ pc = "idle" /\ todo = {} /\ excluded = {}
    /\ cur = NoSub /\ zid = NoHost /\ had = FALSE /\ again = FALSE /\ view = Gone
    /\ doomed = {} /\ adopted = {} /\ synced = {}
    /\ edits = 0 /\ faults = 0 /\ crashes = 0
-----------------------------------------------------------------------------
(* The run.                                                                 *)

KeepTarget == UNCHANGED <<input, todo, excluded, cur, had, doomed, spent>>

StartRun ==
    /\ pc = "idle"
    /\ pc' = "next"
    /\ todo' = {s \in Subs : mode[s] = "selected"}
    /\ excluded' = {s \in Subs : mode[s] = "excluded"}
    /\ adopted' = {} /\ synced' = {}
    /\ UNCHANGED <<input, link, zabbix, target, doomed, spent>>

\* validate() misses data: the tenant is skipped.
SkipInvalid == \E s \in todo :
    /\ pc = "next" /\ ~valid[s]
    /\ todo' = todo \ {s}
    /\ UNCHANGED <<input, link, zabbix, pc, excluded, target, doomed, past, spent>>

Take == \E s \in todo :
    /\ pc = "next" /\ valid[s]
    /\ todo' = todo \ {s}
    /\ cur' = s /\ zid' = link[s] /\ had' = (link[s] # NoHost)
    /\ pc' = IF link[s] = NoHost THEN "lookup" ELSE "check"
    /\ UNCHANGED <<input, link, zabbix, excluded, again, view, doomed, past, spent>>

LookupFinds ==
    /\ pc = "lookup"
    /\ \E h \in Ids :
          /\ Matches(cur) = {h}
          /\ zid' = h
          /\ adopted' = adopted \cup {h}
    /\ pc' = "save"
    /\ KeepTarget /\ UNCHANGED <<link, zabbix, again, view, synced>>

\* No host bears the name, or several do.
LookupFails ==
    /\ pc = "lookup" /\ Cardinality(Matches(cur)) # 1
    /\ pc' = "create"
    /\ KeepTarget /\ UNCHANGED <<link, zabbix, zid, again, view, past>>

SaveAdoptionOnly ==
    /\ pc = "save"
    /\ link' = [link EXCEPT ![cur] = zid]
    /\ Settle(TRUE)
    /\ UNCHANGED <<input, zabbix, spent>>
SaveAdoption ==
    /\ pc = "save"
    /\ link' = [link EXCEPT ![cur] = zid]
    /\ pc' = "check"
    /\ KeepTarget /\ UNCHANGED <<zabbix, zid, again, view, past>>

CheckHost ==
    /\ pc = "check" /\ zid \in Live
    /\ view' = host[zid]
    /\ pc' = "tech"
    /\ KeepTarget /\ UNCHANGED <<link, zabbix, zid, again, past>>

\* The second time around nothing is left but to create a host.
ClearLink ==
    /\ pc = "check" /\ zid \notin Live /\ clearStale
    /\ link' = [link EXCEPT ![cur] = NoHost]
    /\ zid' = NoHost
    /\ again' = TRUE
    /\ pc' = IF again THEN "create" ELSE "lookup"
    /\ KeepTarget /\ UNCHANGED <<zabbix, view, past>>

KeepStaleLink ==
    /\ pc = "check" /\ zid \notin Live /\ ~clearStale
    /\ Settle(FALSE)
    /\ UNCHANGED <<input, link, zabbix, spent>>

\* host.update with one field, if what was read of it differs.
Differs(field, value) == view[field] # value
Change(field, value) ==
    /\ pc = field
    /\ Differs(field, value) => zid \in Live /\ ~Taken(field, value, zid)
    /\ host' = IF Differs(field, value) THEN [host EXCEPT ![zid][field] = value] ELSE host
    /\ UNCHANGED <<link, lastId>>

GoOn(step) == /\ pc' = step
              /\ KeepTarget /\ UNCHANGED <<zid, again, view, past>>

RenameHost  == Change("tech", Tech(cur)) /\ GoOn("visible")
SetVisible  == /\ Change("visible", IF UsesVisible(cur) THEN name[cur] ELSE view.visible)
               /\ GoOn("conf")
Configure   == Change("conf", cur) /\ GoOn("marks")
MarkHost    == /\ Change("marks", DesiredMarks)
               /\ Settle(TRUE) /\ UNCHANGED <<input, spent>>

\* The host is gone, or the name is another's.
UpdateRefused ==
    /\ \/ pc = "tech" /\ Differs("tech", Tech(cur))
          /\ (zid \notin Live \/ Taken("tech", Tech(cur), zid))
       \/ pc = "visible" /\ UsesVisible(cur) /\ Differs("visible", name[cur])
          /\ (zid \notin Live \/ Taken("visible", name[cur], zid))
       \/ pc = "conf" /\ Differs("conf", cur) /\ zid \notin Live
       \/ pc = "marks" /\ Differs("marks", DesiredMarks) /\ zid \notin Live
    /\ Settle(FALSE)
    /\ UNCHANGED <<input, link, zabbix, spent>>

CanCreate(s) == ~Present(s) /\ ~Taken("tech", Tech(s), NoHost)
                            /\ ~Taken("visible", name[s], NoHost)

CreateHost ==
    /\ pc = "create" /\ CanCreate(cur) /\ lastId < MaxId
    /\ lastId' = lastId + 1
    /\ host' = [host EXCEPT ![lastId + 1] =
           [tech |-> Tech(cur), visible |-> name[cur], conf |-> cur, marks |-> OwnMarks(cur)]]
    /\ zid' = lastId + 1
    /\ pc' = "link"
    /\ KeepTarget /\ UNCHANGED <<link, again, view, past>>

CreateRefused ==
    /\ pc = "create" /\ ~CanCreate(cur)
    /\ Settle(FALSE)
    /\ UNCHANGED <<input, link, zabbix, spent>>

SaveCreation ==
    /\ pc = "link"
    /\ link' = [link EXCEPT ![cur] = zid]
    /\ Settle(TRUE)
    /\ UNCHANGED <<input, zabbix, spent>>

KeepTenants == UNCHANGED <<input, excluded, target, past>>

\* The marked hosts are read once all tenants are done.
FinishTenants ==
    /\ pc = "next" /\ todo = {}
    /\ pc' = IF CleanupDeleted THEN "sweep" ELSE "idle"
    /\ doomed' = IF CleanupDeleted THEN Doomed ELSE {}
    /\ KeepTenants /\ UNCHANGED <<link, zabbix, todo, spent>>

\* The host is deleted, and with it the link that names it.
ReapHost == \E p \in doomed :
    /\ p[1] \in Live
    /\ host' = [host EXCEPT ![p[1]] = Gone]
    /\ link' = [link EXCEPT ![p[2]] = IF @ = p[1] THEN NoHost ELSE @]
    /\ doomed' = doomed \ {p}
    /\ KeepTenants /\ UNCHANGED <<lastId, pc, todo, spent>>

ReapUnsaved == \E p \in doomed :
    /\ p[1] \in Live /\ link[p[2]] = p[1]
    /\ faults < MaxFaults
    /\ faults' = faults + 1
    /\ host' = [host EXCEPT ![p[1]] = Gone]
    /\ doomed' = doomed \ {p}
    /\ KeepTenants /\ UNCHANGED <<link, lastId, pc, todo, edits, crashes>>

\* Deleting fails: somebody was faster, or Zabbix refuses.
ReapTooLate == \E p \in doomed :
    /\ p[1] \notin Live
    /\ doomed' = doomed \ {p}
    /\ KeepTenants /\ UNCHANGED <<link, zabbix, pc, todo, spent>>

ReapRefused == \E p \in doomed :
    /\ faults < MaxFaults
    /\ faults' = faults + 1
    /\ doomed' = doomed \ {p}
    /\ KeepTenants /\ UNCHANGED <<link, zabbix, pc, todo, edits, crashes>>

FinishRun ==
    /\ pc = "sweep" /\ doomed = {}
    /\ pc' = "idle"
    /\ KeepTenants /\ UNCHANGED <<link, zabbix, todo, doomed, spent>>

\* An API call fails with a SyncError: start() goes on with the next tenant.
TenantFails ==
    /\ pc \in Calls /\ faults < MaxFaults
    /\ faults' = faults + 1
    /\ Settle(FALSE)
    /\ UNCHANGED <<input, link, zabbix, edits, crashes>>

\* Killed, or nb.save() raised what start() does not catch: no cleanup either.
RunDies ==
    /\ pc # "idle" /\ crashes < MaxCrashes
    /\ crashes' = crashes + 1
    /\ pc' = "idle" /\ todo' = {} /\ excluded' = {} /\ doomed' = {}
    /\ cur' = NoSub /\ zid' = NoHost /\ had' = FALSE /\ again' = FALSE /\ view' = Gone
    /\ UNCHANGED <<input, link, zabbix, past, edits, faults>>
-----------------------------------------------------------------------------
(* People.                                                                  *)

Edit == edits < MaxEdits /\ edits' = edits + 1
KeepTheRun == UNCHANGED <<pc, todo, excluded, target, doomed, past, faults, crashes>>

Rename(s) == \E n \in Names :
    /\ Edit
    /\ pc = "idle"
    /\ \A t \in Subs : name[t] # n
    /\ FreshNames => /\ \A h \in Live : n \notin {host[h].tech, host[h].visible}
                     /\ \A p \in HandMade : n \notin {p[1], p[2]}
    /\ name' = [name EXCEPT ![s] = n]
    /\ KeepTheRun
    /\ UNCHANGED <<mode, valid, clearStale, link, zabbix>>

\* Data is completed, or taken away.
Revalidate(s) ==
    /\ Edit
    /\ pc = "idle"
    /\ valid' = [valid EXCEPT ![s] = ~@]
    /\ KeepTheRun
    /\ UNCHANGED <<name, mode, clearStale, link, zabbix>>

Refilter(s) == \E m \in {"selected", "excluded", "untagged"} \ {mode[s]} :
    /\ Edit
    /\ pc = "idle"
    /\ mode' = [mode EXCEPT ![s] = m]
    /\ KeepTheRun
    /\ UNCHANGED <<name, valid, clearStale, link, zabbix>>

SwitchClearing ==
    /\ Edit
    /\ pc = "idle"
    /\ clearStale' = ~clearStale
    /\ KeepTheRun
    /\ UNCHANGED <<tenants, link, zabbix>>

MakeHost == \E p \in HandMade :
    /\ Edit
    /\ lastId < MaxId
    /\ ~Taken("tech", p[1], NoHost) /\ ~Taken("visible", p[2], NoHost)
    /\ lastId' = lastId + 1
    /\ host' = [host EXCEPT ![lastId + 1] =
                   [tech |-> p[1], visible |-> p[2], conf |-> NoSub, marks |-> {}]]
    /\ KeepTheRun
    /\ UNCHANGED <<input, link>>

DeleteHost == \E h \in Live :
    /\ Edit
    /\ host' = [host EXCEPT ![h] = Gone]
    /\ KeepTheRun
    /\ UNCHANGED <<input, link, lastId>>
-----------------------------------------------------------------------------
RunStep ==
    \/ StartRun \/ SkipInvalid \/ Take
    \/ LookupFinds \/ LookupFails \/ SaveAdoption
    \/ CheckHost \/ ClearLink \/ KeepStaleLink
    \/ RenameHost \/ SetVisible \/ Configure \/ MarkHost \/ UpdateRefused
    \/ CreateHost \/ CreateRefused \/ SaveCreation
    \/ FinishTenants \/ ReapHost \/ ReapTooLate \/ FinishRun

FailStep == TenantFails \/ ReapUnsaved \/ ReapRefused \/ RunDies

Next == \/ RunStep \/ FailStep \/ SwitchClearing \/ MakeHost \/ DeleteHost
        \/ \E s \in Subs : Rename(s) \/ Revalidate(s) \/ Refilter(s)

Spec == Init /\ [][Next]_vars

\* Started again and again; a started run goes on.
FairSpec == Spec /\ WF_vars(RunStep)
-----------------------------------------------------------------------------
\* "Each synced Tenant is created as a Zabbix host named after the Tenant" and
\* given its macros: a tenant a run reports synced has, to the end of that run, a
\* host with its technical name and its configuration, unless people delete it.
SyncedTenantHasItsHost ==
    pc # "idle" => \A s \in synced :
        /\ link[s] # NoHost
        /\ link[s] \in Live => host[link[s]].conf = s /\ host[link[s]].tech = Tech(s)

\* "Objects excluded only by NetBox API filters are not deleted" and "Azure source
\* deletion is not checked": a run deletes a host only if it bears the marker of one
\* tenant, which a custom-field filter excludes.
ReapsOnlyExcluded ==
    [][edits' = edits => \A h \in Live : host'[h] = Gone =>
          \E s \in Subs : host[h].marks = {s} /\ mode[s] = "excluded"]_vars

\* "Hosts adopted during the current run are not marked": the tags of a host only
\* get the marker of a tenant in a run that did not adopt the host.
AdoptedHostIsNotMarked ==
    [][\A h \in Live :
          host'[h] # Gone /\ host'[h].marks # host[h].marks => h \notin adopted]_vars

\* A selected tenant with complete data ends up with a host that is configured for
\* it, whatever host, link or run was lost on the way: a host whose link was not
\* saved is found again by its name.
SelectedGetsHosted ==
    \A s \in Subs : <>[](mode[s] = "selected" /\ valid[s] /\ clearStale =>
        link[s] \in Live /\ host[link[s]].conf = s /\ host[link[s]].tech = Tech(s))

\* A host with the marker of a tenant alone is reaped in the end when a filter
\* excludes the tenant, also if the run that made it died before it saved the id.
ExcludedGetsReaped ==
    \A s \in Subs : <>[](mode[s] = "excluded" => \A h \in Live : host[h].marks # {s})
=============================================================================
