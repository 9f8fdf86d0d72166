# A TLA+ model of netbox-zabbix-sync

netbox-zabbix-sync is a batch program. A scheduler starts it; `Sync.start()`
reads NetBox once, brings one Zabbix host per NetBox object into line, deletes
hosts whose object is gone, writes a report, and ends. It keeps nothing between
runs but what it wrote into the two systems: the host id in a NetBox custom
field, and ownership tags on the Zabbix host. What makes it hard is that those
two writes can never happen together, that people and other deployments change
both systems meanwhile, and that a run may end after any call.

Paths below are relative to `src/netbox_zabbix_sync/modules/`.

## Inventory

| Component | Code | State | Operations | Correct when |
|---|---|---|---|---|
| Sync orchestration | `core.py` `start`, `_process_*`, `_get_device_imports` | the run's reading of NetBox, group/template/proxy lists, unsynced summary | select, process one source after another, clean up, report | one source's `SyncError` does not stop the others; what is reported synced has a host |
| Host lifecycle | `device.py`, `virtual_machine.py` | host id custom field (`device_cf`, `oob_device_cf`), the Zabbix host, its tags | create, adopt, consistency check, rename, remove, clear stale link | a link to a live host is never lost; a marked host is linked; no foreign host is touched |
| Owned-host cleanup | `core.py` `_cleanup_deleted_hosts` | NetBox inventories, marked hosts | fetch, select, delete, clear link | only vanished or filter-excluded sources lose hosts, and they do lose them |
| Azure subscriptions | `azure_subscription.py`, `core.py` `_process_azure_subscription` | tenant custom field, host, `zabbix_groups` | adopt, check, create, mark | as host lifecycle |
| LLD dual hosts | `device.py` 887-1120 | second custom field | repair link, adopt LLD host, sync it | no run brings one host into both fields; a VM's discovered host is never the primary one |
| Discovered hosts | `device.py` 1123-1332 | templates, groups, macros, tags | merge | no entry of discovery that was read is dropped; the host keeps its name |
| Host groups | `hostgroups.py`, `device.py` 556-572, 1991-2027 | run-wide `zabbix_groups` list | generate, look up, create with parents | the host gets every group; parents exist; the list agrees with Zabbix |
| Interfaces | `interface.py`, `device.py` 1362-1721 | host interfaces and items on them | add, move items, replace, reconcile | no item loses its interface |
| Host settings | `tags.py`, `usermacros.py`, `host_description.py`, `tools.py`, parts of `device.py` | lists to send | generate, compare, merge | a second run changes nothing |
| Status report | `status_report.py`, `core.py` 325-524 | targets by key | add, set result, refresh, write | each source once, with its last outcome |
| Status journal | `status_journal.py` | NetBox journal entries | compare, write | one entry per change of state |
| Configuration, CLI, connection | `settings.py`, `cli.py`, `core.py` `connect` | configuration dictionary | load, override, connect | precedence; a failed connection starts nothing |

Components interact through the two servers and through objects a run passes
along: `start` hands the same `zabbix_groups` list to every source, every
source attaches its model to the status report, and the exclusions recorded at
the beginning decide what the cleanup deletes at the end. There are no threads,
callbacks or messages within a run; the concurrency is between runs of several
deployments and people. `PROJECT.json` lists the hazards with their lines.

## Modules and plan

| Module | Models | Checked by | Proofs |
|---|---|---|---|
| `SyncLifecycle` | sources, hosts, links, ownership tags, cleanup | `MCSyncLifecycle`: `Lifecycle`, `TwoDeployments`, `Convergence`, `AdoptedThenReaped` | `SyncLifecycleProofs` |
| `ManagedHosts`, `ManagedHostsRefinement` | what the tool promises about hosts and links; the mapping from `SyncLifecycle` | `Lifecycle` | `ManagedHostsProofs` |
| `HostGroups` | the run-wide group list, creation with parents, assignment | `MCHostGroups`: `Groups` | `HostGroupsProofs` |
| `StatusFeedback` | status report, unsynced summary, journal | `MCStatusFeedback`: `Feedback`, `JournalConverging` | `StatusFeedbackProofs` |
| `AzureSubscriptions` | the lifecycle of tenants, with its own order of calls | `MCAzureSubscriptions`: `Azure` | `AzureSubscriptionsProofs` |
| `InterfaceReconciliation` | interfaces of a host, the items on them, the template | `MCInterfaceReconciliation`: `Interfaces`, `InterfacesConverging` | `InterfaceReconciliationProofs` |
| `DualHosts` | the dedicated and the discovered host of a VM or ESXi device | `MCDualHosts`: `DualHosts` | `DualHostsProofs` |
| `HostSettings` | usermacros, encryption and proxy of a host | `MCHostSettings`: `HostSettings` | `HostSettingsProofs` |

The modules meet in the state they share: `SyncLifecycle` owns links, hosts and
marks; `HostGroups`, `InterfaceReconciliation` and `HostSettings` are what its
consistency check does to the parts of a host, each of which the code reads,
compares and writes independently of the others, so each module takes the life
of the host as given; `DualHosts` is the lifecycle of the sources with two
hosts, and `AzureSubscriptions` that of the one kind of source with other code;
`StatusFeedback` takes from the lifecycle only which outcome a source had.

Still to do, in this order:

1. `HostgroupFormat` and the precedence of settings as operators checked against
   reference definitions.
2. The merges of templates and of groups of a discovered host.

## SyncLifecycle

A *source* is one import: a device, the OOB import of a device, a VM or an
ONTAP cluster; its ownership marker is `type:id`. A *record* is the NetBox
object it belongs to. A *deployment* is one configuration of the tool with a
`cleanup_instance_id` of its own.

State and what it stands for:

- `life`, `mode`, `import`, `name`, `link`: NetBox. `mode` folds API filters
  ("passed"), custom-field filters ("excluded") and the removal statuses
  ("retired"); `import` is whether `_get_device_imports` and the template and
  chassis checks let a source through; `link` is its host-id custom field.
- `zbx`, `hostName`, `marks`: Zabbix. `marks` is the set of sources whose
  ownership tags a host carries; two members are what the cleanup calls
  ambiguous.
- `pc` and what follows it: one run. `task`/`wanted` are what the run read at
  its start, `cur`/`hid`/`linkedBefore`/`adopted` the locals of
  `_process_device`, `seenName`/`seenMarks` the answer of the last `host.get`,
  `ids`/`doomed` the locals of `_cleanup_deleted_hosts`.
- `orphans`, `handDeleted`: history, for the properties only.

A run is cut into actions where another party can intervene, that is between
two calls of an API:

| Action | Code |
|---|---|
| `StartRun`, `Take`, `SkipRetired` | reading NetBox; the start of one source |
| `RemoveHost`, `Unlink` | `PhysicalDevice.cleanup`, `_zeroize_cf` |
| `CheckHost`, `RenameHost`, `MarkHost` | `consistency_check`: read, technical name, tags |
| `ClearStaleLink`, `StaleLinkFails` | `consistency_check` when the host is gone |
| `AdoptMatch`, `AdoptNone`, `SaveAdoption` | `adopt_existing_zabbix_host` |
| `CreateHost`, `CreateRefused`, `SaveCreation` | `create_in_zabbix` |
| `FetchIds`, `FetchHosts`, `FetchClusters` | the inventories of `_cleanup_deleted_hosts`, in its order |
| `ReapHost`, `ClearLink` | deletion and the clearing of an excluded source's link |
| `TargetFails`, `CleanupSkipped`, `ReapFails`, `ClearFails`, `...Refused` | errors the code catches |
| `AbortRun`, `RunDies` | errors it does not catch; a killed process |

`AddRecord`, `DeleteRecord`, `ChangeMode`, `ChangeImport`, `Rename`,
`HandDelete` and `HandCreate` are people.

### The abstract specification

`ManagedHosts` says what all this is for, in terms of links and hosts alone: a
host the tool creates is linked to its source or lost with the run that made
it, a link stays while its host exists, and the tool deletes a host only while
a source links to it or when it is a lost one. `ManagedHostsRefinement` maps
`SyncLifecycle` to it: `host` is `zbx`, `lost` is `orphans`, `byHand` is
`handDeleted`, and `making` the hosts between `host.create` and the save of the
custom field. `ImplementsManagedHosts` is checked in `Lifecycle` and proved.

### Runs

| Run | Question |
|---|---|
| `Lifecycle` | A device, its OOB import and a cluster in one deployment, adoption off: do marks, links, cleanup and reports agree, has each host one source, and do the promises of `ManagedHosts` hold, after any two edits and a crash? |
| `TwoDeployments` | Two runs with options of their own, interleaving over one Zabbix, adopting hosts: does each leave the hosts of people alone? |
| `Convergence` | Do selected sources get hosts, retired ones lose them, and marked hosts of vanished and of excluded sources go, in the end? |

A fourth run shows where the code and what it says part: `AdoptedThenReaped`.  A
new record adopts a host that still carries the tags of a deleted one (a device
was replaced under its old name), is reported as synced, and the cleanup of the
same run deletes the host.

`TwoDeploymentsDeeper` checks the other safety properties on the instance of
`TwoDeployments`: `LinkToLiveHostIsKept`, `AdoptedHostIsNotMarked`,
`OwnedHostIsLinked` and the refinement.

### Bounds

`MaxEdits` limits changes by people, `MaxFaults` refused calls, `MaxCrashes`
runs that end early, `Hosts` how many ids Zabbix hands out. Options are sets of
deployments, so each deployment has its own. Two sources are
enough for every interference the code has (a name taken, a host marked twice,
a host adopted from another source, the order of the inventories); three hosts
allow one created, one lost and one made again. Each source's NetBox and Zabbix
sides can go through two changes by people, in any order and at any
point of a run, and any number of runs follows. When the host ids are used up Zabbix
refuses to create, which is also what a refused call looks like; `Convergence`
has as many hosts as edits, faults and crashes can use up. Host ids are
interchangeable, so the safety runs use symmetry over them; `Convergence`
does not.

### Fairness

`Fairness` is weak fairness of each deployment's run as a whole: a scheduler
starts the program again and again, and a started run goes on, since nothing
in it waits for anything but API answers. Faults, crashes and people are never
forced, and are bounded, so the liveness properties say what happens once they
leave the system alone.

## HostGroups

A group is its name and the id Zabbix gave it; ids are never used again. `gid`
and `lastId` are Zabbix, `want` is what a record gives (the names
`Hostgroup.generate` or the VM fallback produce), `asked` what the run read of
it. `list` is the `zabbix_groups` of a run, read once in `start` and handed to
every source; `queue` and `made` are the loop and the `final_data` of
`create_zbx_hostgroup`, `got` is `group_ids`, `linked` and `seen` what the check
knows of the host.

| Action | Code |
|---|---|
| `StartRun` | the records, then `hostgroup.get`, in `start` |
| `SkipGroupless` | a source without a group name |
| `TakeMatched`, `TakeMissing` | `set_zbx_groupid`, and whether anything is created (`_process_device`, `consistency_check`, `AzureSubscription`) |
| `CreateGroup`, `CreateGroupRefused` | one `hostgroup.create` of `create_zbx_hostgroup` |
| `ExtendList` | `groups.extend(...)` and resolving again |
| `KeepGroups`, `WriteGroups`, `WriteRefused` | `_hostgroups_in_sync`, `host.update` or `host.create` |
| `TargetFails`, `RunDies`, `FinishRun` | the end of a source, or of the run |

`ChangeWant`, `AddGroup`, `DeleteGroup` and `Regroup` are people. A subscription
asks for one group. With `clear_stale_zabbix_hostids` a subscription resolves its
groups after a `host.get` and not before; the list it resolves them against is
the same.

`Groups` has two creating deployments, one of a subscription, which race for
names with a common parent, an edit, and a call that is refused or a run that
dies. `CreatedUnderParents` says that the parents of the groups a host is created
in exist, also after a run that died halfway; `JoinsOnlyAskedGroups` that no list
is ever so stale as to put a host into a group nobody asked for; `GroupsConverge`
that refusals and partial matches cost runs and no more. `GroupsNotCreated` asks
the same where one of the two may not create groups. Three names, two of them
children of the third, are what it takes for creations to meet; `MaxId` is more
than the groups created in any run of the bounds. Fairness is as for
`SyncLifecycle`.

## StatusFeedback

`keyOf`, `targets` and `models` are the report: the target a label (kind and name)
leads to, the target's record, and what its model knows. `failures` and
`intentional` are the unsynced summary, by label; `latest` is the newest journal
entry of a record and `parity` counts entries modulo 2, so that an entry with the
same text is seen too. `outcome` is history: what became of a source.

| Action | Code |
|---|---|
| `StartRun` | `start` registering targets (`_add_status_target` and its callers), exclusions |
| `SyncSource`, `FailSource`, `SkipSource`, `RemoveSource` | one source, its outcome, `_apply_summary_outcome` |
| `FinishSources`, `CleanUp`, `CleanUpRefused`, `NotCleaned`, `FinishCleanup` | the cleanup's results and `refresh_from_models` |
| `CollectStatus`, `CollectInterfaces`, and their failures | `_collect_report_zabbix_status` |
| `JournalKnown`, `JournalAppend`, `JournalFails` | `SyncStatusJournal.write` |
| `WriteFile` | `SyncStatusReport.write`: the new file replaces the old in one step |

`Feedback` follows two devices over any number of runs with a fault, a crash and
an edit: the report gives each source the result it had (`ReportTellsTheTruth`),
data missing from it is explained (`MissingStatusIsExplained`), journal entries
are appended only when they say something new, and what they say is true
(`JournalTellsTheTruth`). Runs keep nothing but the journal and the two systems,
so faults, crashes and edits spread over runs as over one; two reasons are enough
for a failure to change. Devices differ in nothing, and reasons neither, so the
run uses symmetry over both. `JournalConverging` has a device and a subscription,
no symmetry, and weak fairness: an outcome that stays is told in the end.

What no property reads is dropped: failures that the report and the summary only
print, the state of models after their last use, the targets the cleanup adds for
sources that vanished. A failing sync leaves host and link alone, as how a source
is synced belongs to `SyncLifecycle`.

## AzureSubscriptions

A tenant has a name, a filter mode, complete data or not, and a link. Its
technical host name is its name or, when the name has unsupported characters, one
derived from its id; `visible` is the visible name. `conf` stands for templates,
groups, interfaces and macros: the tenant a host is configured for. `zid`, `had`,
`again` and `view` are the `zabbix_id`, the link before the run, the second
adoption round and the host as read.

| Action | Code |
|---|---|
| `SkipInvalid`, `Take` | `validate`, `_process_azure_subscription` |
| `LookupFinds`, `LookupFails`, `SaveAdoption` | `adopt_existing_zabbix_host` |
| `CheckHost`, `ClearLink`, `KeepStaleLink` | `consistency_check` and the stale link |
| `RenameHost`, `SetVisible`, `Configure`, `MarkHost`, `UpdateRefused` | its updates, one call each |
| `CreateHost`, `CreateRefused`, `SaveCreation` | `create_in_zabbix` |
| `FinishTenants`, `ReapHost`, `ReapUnsaved`, `ReapTooLate`, `ReapRefused` | `_cleanup_deleted_hosts` for tenants |
| `TenantFails`, `RunDies` | errors caught per tenant; everything else |

`Azure` has two tenants, one with an unsupported name,
`clear_stale_zabbix_hostids` switched between runs, three edits, a fault and a
crash, under fair runs. `SyncedTenantHasItsHost` says that a tenant reported
synced has a host of its name and configuration, `ReapsOnlyExcluded` that a run
deletes nothing but the marked host of an excluded tenant, `SelectedGetsHosted`
and `ExcludedGetsReaped` that tenants get hosts and lose them, also when a run
died between creating a host and saving its id. `HandMade` lists the hosts
people may make and `FreshNames` keeps people from giving a tenant a name that a
host bears or may bear (without it, see `AzureSharedHost` below). An adopted
host is marked a run later only, and stays if its tenant is excluded before.

## InterfaceReconciliation

One host, its interfaces, the template linked to it and its item, and an item
people add. An address stands for ip, dns and useip together. `config` and
`template` are what NetBox asks for, `wishes` what `build_interfaces` made of it
when the run read it; `seen` is `host["interfaces"]`, which the code reads again
after each call that adds interfaces; `old`, `new` and `moving` are the locals of
`_replace_interface_type` and `_move_items_to_interface`.

| Action | Code |
|---|---|
| `StartRun`, `CheckHost`, `ConfigFails` | the start of `consistency_check`; `InterfaceConfigError` |
| `AddTypes`, `ReadStaged`, `SwapTemplate` | `_add_missing_interface_types`, then the template swap |
| `AddReplacement`, `ReadAdded`, `NoneAdded`, `ResumeMove` | `_replace_interface_type`: add the new type, or find it left by a cut run |
| `ListItems`, `MoveItems` | `item.get`, `item.update` for all items at once |
| `ReplaceInterfaces` | the authoritative `host.update(interfaces=...)` |
| `ZabbixRefuses`, `RunFails` | refusals that follow from Zabbix' rules; any other failure, or the end of the process |

Zabbix' own rules are the guards of these calls, as far as the code relies on
them: an interface in use cannot go, each type has one main interface, and a
template is linked only where an interface suits its items.

`Interfaces` varies addresses, ports, types and numbers of interfaces, with two
edits and a fault. `DoneMeansServed` says that a completed run leaves exactly
what was asked for, whatever an earlier run had left behind, `SameTypeKeepsItsIds`
that ids survive, `SwapFindsItsInterface` that staging has provided the interface
a new template needs, and `MovedItemsAreKept` that items go from an interface that
is to vanish to one that stays. It speaks of runs that nobody disturbs: when people
remove an interface after the run has added the replacement and before it reads the
host again, the interface that was left over serves a wish on the second reading,
and its items are moved off it all the same. `InterfacesConverging` says that the host gets
there in the end, wherever a move was cut, with up to three edits. There people
leave the interfaces themselves to the runs (`WishesSpec`): an interface added by
hand that carries an item is never removed, and makes the code give up the
move, since it recognises one replacement at a time. For the same reason the
run keeps to one address: see `InterruptedMove` below.

## DualHosts

One source, a VMware VM or an ESXi device, with two custom fields: `link` names
the host the tool manages, `lld` the one that discovery created. `myLink` and
`myLld` are the run's copy of the record; every save writes both. A host made by
discovery has `disc`; `entries` says who owns the macro or tag under each key.

| Action | Code |
|---|---|
| `NothingToRepair`, `FindMisplaced`, `RepairImpossible`, `MoveLink` | `repair_vmware_vm_lld_host_link` |
| `Turn`, `SkipRetired`, `RemoveHost`, `Unlink` | which way a source goes; `cleanup` |
| `CheckDedicated`, `RenameMain`, `RenameRefused`, `CheckDiscovered`, `MergeMain` | `consistency_check` of a host that is not, or is, one of discovery; of what a full check updates only the name is followed |
| `FindStale`, `StaleFails`, `ClearStaleLink` | the primary link names no host |
| `FindMain`, `FindNone`, `AdoptMain`, `CreateMain`, `CreateRefused`, `SaveMain` | adoption and creation of the dedicated host |
| `NoDual`, `FieldMissing`, `KnownLld`, `FindLld`, `NoLld`, `SaveLld`, `ReadLld`, `LldUnusable`, `Enrich` | `sync_adopted_lld_host` |
| `MergeRefused`, `RunFails` | failures |

`Discover`, `Rediscover` and `LoseHost` are Zabbix' discovery; the rest are people,
who also set the option, switch `clear_stale_zabbix_hostids` between runs and
migrate the link as the README of the repository tells them to.

People may put any id into the second field, also the dedicated host's own or one
that is not used yet; `handLld` remembers which of those were of no discovered
host. The code (`device.py:1055-1062`) warns of such a host, leaves it, and the run
ends as synced; the repository's README says that "the dedicated host remains
usable".

`DualHosts` starts with or without a discovered host in the primary link.
`HostsAreKeptApart` says that a run over a VM which ends as synced has a dedicated
host in the primary field, and the same host in the second field only if people
put an id there that was of no discovered host: neither repair nor adoption nor
the search for the second host brings one host into both fields.
`DiscoveredHostsAreKept` says what a run leaves to discovery. For every source, no
step renames a discovered host, which only `full_sync = False` after the merge sees
to, and no merge drops an entry of discovery it had read. For a VMware VM, none
deletes such a host either, not even when the VM is retired and its link is still
the old one. This last part is not so of an ESXi device, whose link nothing
repairs: when it is retired, `cleanup` (`device.py:574-599`) deletes whatever host
its primary link names, and the model has it so.

`DedicatedHostIsInPlace` and `LldHostIsEnriched` are liveness: in the end both
hosts are in place and have NetBox's values. The first assumes `WayIsClear`: no
other host has the name, for a host that discovery made under the very name of the
VM stops its creation for good, and the second field is free. The second assumes
that no other host has the name the dedicated host is to bear (`HasDedicated`): a
dedicated host adopted by its short name, beside a discovered one with the full
name, has its renaming refused, so every run fails before it turns to the second
host. `DualHostsDeeper` checks the two safety properties with one more edit and two
keys; with `MetadataOnly = TRUE`, where the run that adopts a host does not rename
it, the run `DualHosts` passes as well.

## HostSettings

`want` is what NetBox gives: usermacros from the field map and from the config
context, an encryption identity, and the three places a proxy can come from. `seen`
is the host as `host.get` showed it, with the values of secrets hidden; `listed`
is `zabbix_proxy_list`, read before any source. `steady` and `wrote` are history:
whether anything changed since a run went well, and whether this one called
Zabbix.

| Action | Code |
|---|---|
| `StartRun`, `TakeHost` | `start`; `host.get` of `consistency_check` |
| `CreateHost`, `CreateRefused` | `create_in_zabbix` |
| `SyncProxy`, `ProxyRefused` | `_set_proxy` and its comparison |
| `SyncTls` | `set_tls` and its comparison |
| `SyncMacros`, `MacrosRefused` | `_macros_in_sync`, `merge_partial`, the update |
| `RunFails` | another refused call, or the end of the process |

`HostSettings` has one configuration for each mode of `usermacro_sync` (off, on,
partial, full), with full proxy synchronization, encryption and the releases of
Zabbix spread over them, two usermacros of two values, two edits and a fault.
`SecondRunIsSilent` says that a run after a completed one calls nothing if
nothing was changed, secrets under `full` excepted; `ForeignMacrosAreKept` that
entries NetBox does not own keep type and value, hidden values too;
`SettingsConverge` that the host gets what NetBox gives. What it excepts are
limits of the code: a usermacro given both by the field map and by the context
(see `MacroTwice`), and the value of a secret, which reaches Zabbix only under
`full` once the host exists. A pre-shared key is not compared at all, so a key
changed under the same identity never arrives; the model has identities alone. A
deleted proxy is not made again under its name.

## Further counterexamples

These configurations belong to no listed run; TLC stops each with the named
property violated, in seconds to a minute (`tlc -config X.cfg MCModule.tla`).

| Configuration | Module | Property | What it shows |
|---|---|---|---|
| `AdoptedAfterStale` | `MCSyncLifecycle` | `AdoptedHostIsNotMarked` | "hosts adopted during the current run are not marked", says the README; a source whose stale link was cleared marks the host it adopts next (`core.py:1199`) |
| `AzureAdoptedAfterStale` | `MCAzureSubscriptions` | `AdoptedHostIsNotMarked` | the same for a tenant (`core.py:1267`) |
| `DroppedOOB` | `MCSyncLifecycle` | `DroppedImportGetsReaped` | cleanup removes hosts "whose original ... OOB import ... no longer exists"; the check looks for the device (`core.py:642`) |
| `SharedByAdoption` | `MCSyncLifecycle` | `HostsAreNotShared` | two sources of one short name adopt one host: retiring the one deletes the host of the other (`device.py:994`) |
| `SharedHostTags` | `MCSyncLifecycle` | `MarksArePreserved` | tags are written from an earlier read; those a second deployment added in between are lost (`device.py:2395`) |
| `ParentMissing` | `MCHostGroups` | `ParentsGetCreated` | a run that dies between a group and its parent leaves a parent no later run creates for a linked host (`device.py:2164`) |
| `SharedParentRefused` | `MCHostGroups` | `CreatesEachGroupOnce` | two missing groups that share a missing parent: it is created twice, and the refusal fails the source (`device.py:2001`) |
| `SharedNames` | `MCStatusFeedback` | `ReportIsFinal` | devices of one name (NetBox keeps names unique within a site and tenant only) share a label: one target stays pending (`core.py:379`) |
| `AzureSharedHost` | `MCAzureSubscriptions` | `SyncedTenantHasItsHost` | a tenant takes another's former name and adopts its host by the visible name, which nothing renamed (`azure_subscription.py:241`) |
| `InterruptedMove` | `MCInterfaceReconciliation` | `InterfacesConverge` | type and address change at once and the run is cut after adding the new interface: the next run does not recognise the transition, so the items keep the old interface in use and every run fails (`device.py:1651`) |
| `LldLinkGoesStale` | `MCDualHosts` | `LldLinkIsCurrent` | discovery deletes its host and makes another: the second field is never looked up again (`device.py:1090`), as the repository's README says: auxiliary fields "are not checked" |
| `MacroTwice` | `MCHostSettings` | `GivenTwiceGetsHosted` | a usermacro given by the field map and by the context is listed twice, and `host.create` refused (`usermacros.py:246`) |

## Proofs

Each theorem holds for any sets of sources, hosts, names and deployments, any
options and any bounds, with only the named `ASSUME`s of the module it is about;
a further hypothesis is written in its statement. The invariants below were
checked by TLC before they were proved.

### Sources and hosts

`SyncLifecycleProofs` and `ManagedHostsProofs`, about `SyncLifecycle`:

- `TypeCorrect`: `TypeOK`, together with `AtHand`: a run at a call has its own
  source at hand, and a host where the call needs one.
- `MarkedHostsAreLinked`: `OwnedHostIsLinked`. It is not inductive: tags are
  written from `seenMarks`, by a run that read the link earlier. The
  strengthening `LinkInv` adds that the source at hand is linked to the host at
  hand while a run works on it (`LinkAtHand`), that marks seen are accounted
  for (`SeenIsHeld`), and that ids not handed out carry no marks.
- `LinksToLiveHostsAreKept`: `LinkToLiveHostIsKept`, from the same invariant: a
  link is emptied only when its host was found or made gone, and ids are not
  reused.
- `CleanupTargetsAreGone`: `ReapedSourceIsGone`, from `SweepInv`: a source that
  is new to NetBox is untouched by any run, so whatever is marked was live
  once, and what is marked yet missing from a later inventory is gone.
- `HostsHaveOneSource`: `HostsAreNotShared`, and `SyncedSourcesHaveHosts`:
  `SyncedSourceHasHost`, both with adoption off. The first is not inductive,
  because a link is only one of the ways a source lays claim to a host.
  `OneOwner` says that all of them agree: its link, its tags on the host, and what
  any run remembers, that is a host just created, tags read, a pair the cleanup
  goes through. For the second, `Books` adds that a run has each source to
  handle, at hand or synced, never two of these, and that no synced source is
  taken by the cleanup for an excluded one. Then every step that makes a host go
  (`HostLoss`) does it to the host of one source, which is retired, gone or
  excluded (`LossIsItsOwn`), so it is not that of another, synced one. With
  adoption on neither holds: `AdoptedThenReaped` and `SharedByAdoption` are
  counterexamples.
- `LifecycleImplementsManagedHosts`: the refinement. `ManagedInv` adds to
  `LinkInv` that whatever a link names is or was a host (`KnownHosts`) and that
  a host the cleanup goes through is linked or lost until it is deleted
  (`SweptIsHeld`): it was read with its marks, and links are never emptied
  before their host is gone. Every action is then a step of `ManagedHosts` or
  changes nothing it speaks of.
- `RunsKeepToTheirHosts`: `RunsTouchOnlyTheirHosts`, from `ManagedInv` too.

### Tenants

`AzureSubscriptionsProofs`, about `AzureSubscriptions`:

- `TypeCorrect`, and `OnlyExcludedAreReaped`: `ReapsOnlyExcluded`. The hosts to
  reap were read with their marks before the first of them is deleted;
  `DoomedInv` says that the marks still hold (no step of the same deployment
  changes marks while it reaps, and new hosts have new ids), `ExcludedInv` that
  the tenants excluded when the run began are excluded still.
- `SyncedTenantsHaveTheirHosts`: `SyncedTenantHasItsHost`. Adoption is part of it
  here, so a host is tied to a tenant not only by the link but also by the names
  it goes by (`Tied`); `OneTenant` says that no host is tied to two, `Work` what
  the calls of a check have made of the host so far, and `Turn` that a tenant is
  to be handled, at hand or synced, and never excluded. Two
  hypotheses are about people: they give a tenant no name another host has
  (`FreshNames`), and no host they may make goes by the names of two of the
  first tenants (`NamesApart`). Both are needed: without the first
  `AzureSharedHost` is a counterexample, and without the second TLC finds a
  host made by hand that one tenant adopts by its technical and another by its
  visible name.

### Report and journal

`StatusFeedbackProofs`, about `StatusFeedback`:

- `TypeCorrect`: with `Registered` (each source has a target once a run has
  begun) and `Due` (only outcomes a journal tells are left for it).
- `MissingStatusAlwaysExplained`: `MissingStatusIsExplained`, from `Explained`,
  which says after each of the two collections what it has made sure of.
- `ReportIsTrue`: `ReportTellsTheTruth` and `ReportIsFinal`, and `JournalIsTrue`:
  `JournalTellsTheTruth`, while labels are unique (`UniqueNames`; `SharedNames`
  is the counterexample otherwise). The summary is a list searched for the first
  entry with a label, so `TruthInv` says that labels lead to their own target
  (`KeysLead`), that the summary mentions no source still to be handled
  (`NothingYet`), and that the target of every other has its outcome (`Told`).
  `FailureIsTheOutcome` is the lemma about the search.

### Two hosts of a source

`DualHostsProofs`, about `DualHosts`:

- `TypeCorrect`.
- `HostsKeptApart`: `HostsAreKeptApart`, and `DiscoveredHostsKept`:
  `DiscoveredHostsAreKept`. Both need what a field may name: `FieldsInv`, a used
  host in the primary and a discovered one, or an id people typed, in the second
  field, in NetBox and in the run's copy; and `MainInv`, that a host to be renamed
  is not of discovery and that past the repair a VM's run does not work on a
  discovered primary host. `Aged` is what people and discovery can do to hosts
  meanwhile: an id never turns from one kind of host into the other.

### Interfaces

`InterfaceReconciliationProofs`, about `InterfaceReconciliation`. What the matching
computes is proved first, for lists of any length, from the least place at which it
could be wrong (`LeastNatural`): each wish, in order, takes what is open to it after
those before it (`MatchFollows`), nothing else does (`MatchIsTheOne`), and so no
interface serves two wishes, one that serves a wish is of its type, and a wish is
unserved only when others took all of its type (`MatchServes`). One interface more, of
a type that was missing, serves the unserved wish and changes no other (`MatchOneMore`).
`DesiredIsRight` says what `build_interfaces` gives when it does not refuse.

- `TypeCorrect`: the readings of a run are sets of interfaces with ids of their own,
  handed out before (`Sound`), and a run past its check has wishes.
- `DoneIsServed`: `DoneMeansServed`. The last call sends one interface for each wish,
  all different (`SentIsRight`); what makes this the host's is that a run which nobody
  disturbs works with what the host has (`SeenIsHost`), and past the swap the template
  is the one asked for (`LinkedAsAsked`).
- `IdsAreKept`: `SameTypeKeepsItsIds`. Until its last call a run only adds
  interfaces, of types the host did not have (`OnlyGrown`); of a type, the last call
  keeps all the ids there were, or only such ids (`IdsOfAType`).
- `SwapIsReady`: `SwapFindsItsInterface`, from `TypesHaveMains` (a type on the host
  has a main interface) and `TypesAdded` (staging has added the types asked for).
- `MovesAreRight`: `MovedItemsAreKept`. The invariants follow the move: between adding
  the replacement and reading it, it is the only thing added (`ReplacementAdded`);
  then the items go from an interface that serves no wish to one that serves one
  (`MoveIsRight`), and those listed are on the old interface or gone
  (`ListedAreOnOld`).

### Groups and settings

`HostGroupsProofs` proves `TypeOK`, `JoinsOnlyAskedGroups` and `CreatedUnderParents`
(`Groups` finite, and ids enough for those Zabbix starts with). For the second, a list
may be outdated at every point, so the invariant cannot say that it agrees with Zabbix;
it says that every id a run knows is no other group's (`Known`): ids are unique
and never used again, so the group a run knows under an id bears it or is gone,
and then Zabbix refuses the write.

For the third, `FlattenKeepsAll` says of sequences of sequences, of any length, that
flattening loses nothing, again from the least place where it could; so what a call
creates leaves out no name that is not listed (`CreationsMissNothing`). A group on a
list or just created exists, or people deleted it (`ListedAreTraced`), and while a run
works on a source without a host, every parent of its groups is such a group or still
ahead in the queue (`ParentsAhead`). A refusal, or a run that dies, drops the queue
before the source has a host; the run that gives it one looks for parents again.

`HostSettingsProofs` proves `TypeOK`, `ForeignMacrosAreKept` and
`SecondRunIsSilent`. The types need `SeenIsThere`: an entry the run saw is still
there, or people deleted it and Zabbix refuses the id. The silence of the second
run needs `QuietInv`: as long as nothing changes, what a run has read is current
(`ReadIsCurrent`), and what it has turned to is as NetBox gives it, as far as
`host.get` shows (`Settled`); a run that finds everything settled finds
everything in sync, but for secrets under `full` (`SettledIsInSync`).

### Only model-checked

- `AdoptedHostIsNotMarked`, which fails with stale links cleared, and otherwise only
  while no overlapping write costs the host a mark its source has (`SharedHostTags`).
- All liveness properties, which are out of the prover's reach.

## Not modelled

Logging, wording, layout of reports, argument parsing, connecting: no state. The
precedence of settings: each source overwrites the one before in one dictionary,
before anything is read or written. The host group format: a pure expansion of
text, whose result `HostGroups` takes as input. Status, inventory, description and
ordinary tags: converted from NetBox and compared and written as wholes, so a
model would repeat the assignment; `SyncLifecycle` only knows that preparing them
may fail. The merges of templates and groups of a discovered host, which keep and
append as the merge of `DualHosts` does. Overlapping runs of one deployment:
nothing in the code guards against them, and the models assume the schedule does.
A record imported by two deployments at once: an assumption excludes it
(`MappingAssumption`).
