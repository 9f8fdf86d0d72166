--------------------------- MODULE StatusFeedback ---------------------------
(***************************************************************************)
(* What a run tells people about its outcome: the status report written to *)
(* sync-status.json and the journal entries on the NetBox records.          *)
(*                                                                         *)
(* A run registers one target per source, files under the label of a       *)
(* source (its kind and name) which target that is, records the outcomes   *)
(* of devices, VMs and clusters by label, and at its end completes the      *)
(* targets with data from Zabbix, appends a journal entry where an outcome *)
(* changed and replaces the file.                                          *)
(*                                                                         *)
(* Abstractions: a host id is the source the host was made for; how a       *)
(* source is synced is SyncLifecycle's, here it only ends in some outcome,  *)
(* and if it fails leaves host and link alone; targets the cleanup adds for *)
(* vanished sources are left out;                                          *)
(* runs of a deployment do not overlap and nobody else writes entries with *)
(* its marker, so looking an entry up and appending one is one step; a run *)
(* works from what it read at its start, so people edit records between    *)
(* runs, and hosts at any time; interfaces are listed or unavailable.       *)
(***************************************************************************)
EXTENDS Naturals, FiniteSets, Sequences

CONSTANTS
    Sources,               \* imports of NetBox records, one target each
    Kind,                  \* device, OOB import, VM, cluster, subscription
    AzureSources,          \* the subscriptions
    Names,                 \* what sources are called
    Reasons,               \* why a sync fails
    NoSource,              \* no host id
    NoState,               \* no model attached, no entry, no answer yet
    UniqueNames,           \* people give no two sources of a kind one name
    CleanupDeleted,        \* cleanup_deleted_hosts
    MaxEdits, MaxFaults, MaxCrashes

ASSUME FeedbackAssumption ==
    /\ AzureSources \subseteq Sources
    /\ \A s \in Sources, t \in AzureSources : Kind[s] = Kind[t] => s \in AzureSources
    /\ NoSource \notin Sources
    /\ NoState \notin {"enabled", "disabled", "listed"}
    /\ {UniqueNames, CleanupDeleted} \subseteq BOOLEAN
    /\ {MaxEdits, MaxFaults, MaxCrashes} \subseteq Nat

VARIABLES
    name, filtered,        \* of a source: its name, and do filters exclude it
    link, host,            \* of a source: has it a host id, and the state of that host
    latest, parity,        \* of a source: its newest journal entry, entries so far mod 2
    pc, todo,              \* what the run does, and the sources it has left for it
    keyOf,                 \* report_keys_by_label: the target a label leads to
    targets, models,       \* the report: a record, and a model, for each target
    failures, intentional, \* the summary: labels with the reasons in order of arrival
    outcome,               \* history: what became of a source in its latest run
    edits, faults, crashes \* how much of each bound is spent

records == <<name, filtered>>
zabbix  == <<link, host>>
journal == <<latest, parity>>
report  == <<keyOf, targets, models>>
summary == <<failures, intentional>>
spent   == <<edits, faults, crashes>>
vars    == <<records, zabbix, journal, pc, todo, report, summary, outcome, spent>>

Label(s)   == <<Kind[s], name[s]>>
Labels     == {Kind[s] : s \in Sources} \X Names
States     == {"enabled", "disabled"}
Failed(r)  == <<"failed", r>>
Synced     == <<"synced", NoState>>
Skipped    == <<"skipped", NoState>>
Removed    == <<"removed", NoState>>
Pending    == <<"pending", NoState>>
Excluded   == <<"excluded_by_filter", NoState>>
Results    == {Synced, Skipped, Removed, Pending, Excluded} \cup {Failed(r) : r \in Reasons}
HostIds    == Sources \cup {NoSource}
Target     == [result: Results, hostid: HostIds, enabled: States \cup {NoState},
               interfaces: {"listed", NoState}, error: BOOLEAN]
Model      == [hostid: HostIds, status: States \cup {NoState}]
Steps      == {"idle", "sync", "cleanup", "status", "interfaces", "journal", "file"}

TypeOK ==
    /\ name \in [Sources -> Names] /\ filtered \in [Sources -> BOOLEAN]
    /\ link \in [Sources -> BOOLEAN] /\ host \in [Sources -> States \cup {"gone"}]
    /\ latest \in [Sources -> {Synced, NoState} \cup {Failed(r) : r \in Reasons}]
    /\ parity \in [Sources -> 0..1]
    /\ pc \in Steps /\ todo \subseteq Sources
    /\ keyOf \in [Labels -> HostIds]
    /\ targets \in [Sources -> Target \cup {NoState}]
    /\ models \in [Sources -> Model \cup {NoState}]
    /\ failures \in Seq(Reasons \X SUBSET Labels)
    /\ intentional \in SUBSET (Labels \X {Skipped, Removed})
    /\ outcome \in [Sources -> Results \cup {NoState}]
    /\ edits \in 0..MaxEdits /\ faults \in 0..MaxFaults /\ crashes \in 0..MaxCrashes
-----------------------------------------------------------------------------
HostIdOf(s) == IF link[s] THEN s ELSE NoSource

\* add_target.
NewTarget(s) == [result |-> IF filtered[s] THEN Excluded ELSE Pending,
                 hostid |-> HostIdOf(s), enabled |-> NoState,
                 interfaces |-> NoState, error |-> FALSE]

\* UnsyncedSummary.record keeps the reasons in the order they first came up.
RecordFailure(l, r) ==
    IF \E i \in DOMAIN failures : failures[i][1] = r
      THEN [i \in DOMAIN failures |->
               IF failures[i][1] = r THEN <<r, failures[i][2] \cup {l}>> ELSE failures[i]]
      ELSE Append(failures, <<r, {l}>>)

\* outcome_for: the first failure if there is one, else what was intended.
\* OutcomeForIntended, and the other operators that stand before one they
\* resemble, are mistakes the properties must notice.
OutcomeForIntended(failed, intended, l) ==
    IF <<l, Removed>> \in intended THEN Removed
    ELSE IF <<l, Skipped>> \in intended THEN Skipped ELSE Synced
OutcomeFor(failed, intended, l) ==
    LET hits == {i \in DOMAIN failed : l \in failed[i][2]} IN
    IF hits # {} THEN Failed(failed[CHOOSE i \in hits : \A j \in hits : i <= j][1])
    ELSE IF <<l, Removed>> \in intended THEN Removed
    ELSE IF <<l, Skipped>> \in intended THEN Skipped
    ELSE Synced

\* set_result and set_zabbix_status.
WithResult(t, r) == [t EXCEPT !.result = r]
WithStatus(t, st) == [t EXCEPT !.enabled = st]

\* refresh_from_models: what the model knows, or the link in the record.
Refreshed(s) ==
    LET t == targets[s] m == models[s] IN
    IF m = NoState THEN [t EXCEPT !.hostid = HostIdOf(s)]
    ELSE [t EXCEPT !.hostid = m.hostid,
                   !.enabled = IF m.status = NoState THEN @ ELSE m.status]

\* targets_missing_status and targets_with_hostid.
Reachable(t)    == t.hostid # NoSource /\ t.result # Removed
LacksStatusSelected(t) ==
    Reachable(t) /\ t.enabled = NoState /\ t.result # Excluded
LacksStatus(t)  == Reachable(t) /\ t.enabled = NoState

\* The host is asked for by the id in the target.
WithAnswer(t) == IF host[t.hostid] = "gone" THEN [t EXCEPT !.error = TRUE]
                 ELSE [t EXCEPT !.enabled = host[t.hostid]]

\* _entry_state of the targets write() looks at: synced or failed ones.
JournaledAll(t) == t.result \notin {Pending, Excluded}
Journaled(t)    == t.result = Synced \/ t.result[1] = "failed"

Init ==
    /\ name \in [Sources -> Names] /\ filtered \in [Sources -> BOOLEAN]
    /\ UniqueNames => \A s, t \in Sources : Label(s) = Label(t) => s = t
    /\ link = [s \in Sources |-> FALSE] /\ host = [s \in Sources |-> "gone"]
    /\ latest = [s \in Sources |-> NoState] /\ parity = [s \in Sources |-> 0]
    /\ pc = "idle" /\ todo = {}
    /\ keyOf = [l \in Labels |-> NoSource]
    /\ targets = [s \in Sources |-> NoState] /\ models = [s \in Sources |-> NoState]
    /\ failures = <<>> /\ intentional = {}
    /\ outcome = [s \in Sources |-> NoState]
    /\ edits = 0 /\ faults = 0 /\ crashes = 0
-----------------------------------------------------------------------------
(* The run: registering the targets, handling the sources.                  *)

\* One target per source; of two sources with one label, the later one NetBox
\* lists takes the label.
StartRun == \E key \in [Labels -> HostIds] :
    /\ pc = "idle"
    /\ \A l \in Labels : LET named == {s \in Sources : Label(s) = l} IN
           IF named = {} THEN key[l] = NoSource ELSE key[l] \in named
    /\ keyOf' = key
    /\ targets' = [s \in Sources |-> NewTarget(s)]
    /\ todo' = {s \in Sources : ~filtered[s]}
    /\ outcome' = [s \in Sources |-> IF filtered[s] THEN Excluded ELSE outcome[s]]
    /\ pc' = "sync"
    /\ UNCHANGED <<records, zabbix, journal, models, summary, spent>>

\* The outcome goes to the target of the label, a model if one was attached too.
Settle(s, o, m) == LET l == Label(s) k == keyOf[Label(s)] IN
    /\ pc = "sync" /\ s \in todo
    /\ todo' = todo \ {s}
    /\ outcome' = [outcome EXCEPT ![s] = o]
    /\ models' = [models EXCEPT ![k] = IF m = NoState THEN @ ELSE m]
    /\ IF s \in AzureSources
         THEN /\ UNCHANGED summary
              /\ targets' = [targets EXCEPT ![k] = WithResult(@, o)]
         ELSE /\ failures' = IF o[1] = "failed" THEN RecordFailure(l, o[2]) ELSE failures
              /\ intentional' = IF o \in {Skipped, Removed}
                                  THEN intentional \cup {<<l, o>>} ELSE intentional
              /\ targets' = [targets EXCEPT ![k] =
                                WithResult(@, OutcomeFor(failures', intentional', l))]
    /\ UNCHANGED <<records, journal, pc, keyOf, spent>>

\* The model of a source whose host was not read.
Unread(s) == [hostid |-> HostIdOf(s), status |-> NoState]

\* zabbix_status is what host.get or host.create said when the source was handled.
SyncSource == \E s \in todo, st \in States :
    /\ Settle(s, Synced, [hostid |-> s, status |-> st])
    /\ link' = [link EXCEPT ![s] = TRUE]
    /\ host' = [host EXCEPT ![s] = st]

\* Before the model is attached, before its host was read, or after.
FailSource == \E s \in todo, r \in Reasons :
    /\ \/ Settle(s, Failed(r), NoState)
       \/ Settle(s, Failed(r), Unread(s))
       \/ /\ link[s] /\ host[s] # "gone"
          /\ Settle(s, Failed(r), [hostid |-> s, status |-> host[s]])
    /\ UNCHANGED zabbix

SkipSource == \E s \in todo :
    /\ Settle(s, Skipped, Unread(s))
    /\ UNCHANGED zabbix

\* The model keeps the id of the host it deleted.
RemoveSource == \E s \in todo \ AzureSources :
    /\ link[s]
    /\ Settle(s, Removed, Unread(s))
    /\ link' = [link EXCEPT ![s] = FALSE]
    /\ host' = [host EXCEPT ![s] = "gone"]

FinishSources ==
    /\ pc = "sync" /\ todo = {}
    /\ pc' = IF CleanupDeleted THEN "cleanup" ELSE "status"
    /\ todo' = IF CleanupDeleted THEN {s \in Sources : filtered[s] /\ link[s]} ELSE {}
    /\ UNCHANGED <<records, zabbix, journal, report, summary, outcome, spent>>
-----------------------------------------------------------------------------
(* The cleanup's results for filter-excluded sources.                       *)

Cleaned(s, o, st) == LET k == keyOf[Label(s)] IN
    /\ pc = "cleanup" /\ s \in todo
    /\ todo' = todo \ {s}
    /\ outcome' = [outcome EXCEPT ![s] = o]
    /\ targets' = [targets EXCEPT ![k] = WithStatus(WithResult(@, o), st)]
    /\ UNCHANGED <<records, journal, pc, keyOf, models, summary, spent>>

CleanUp == \E s \in todo :
    /\ host[s] # "gone"
    /\ host' = [host EXCEPT ![s] = "gone"]
    /\ \/ Cleaned(s, Removed, NoState) /\ link' = [link EXCEPT ![s] = FALSE]
       \/ \E r \in Reasons : Cleaned(s, Failed(r), NoState) /\ UNCHANGED link

CleanUpRefused == \E s \in todo, r \in Reasons :
    /\ host[s] # "gone"
    /\ Cleaned(s, Failed(r), host[s])
    /\ UNCHANGED zabbix

\* The host bears no ownership tags, or it is not there any more.
NotCleaned == \E s \in todo :
    /\ pc = "cleanup"
    /\ todo' = todo \ {s}
    /\ UNCHANGED <<records, zabbix, journal, pc, report, summary, outcome, spent>>

FinishCleanup ==
    /\ pc = "cleanup" /\ todo = {}
    /\ pc' = "status"
    /\ UNCHANGED <<records, zabbix, journal, todo, report, summary, outcome, spent>>
-----------------------------------------------------------------------------
(* _write_status_report: Zabbix data, journal entries, the file.            *)

KeepForReport == UNCHANGED <<records, zabbix, journal, outcome, edits, crashes>>

\* Nothing looks at labels, models and summary after the last refresh.
DropTheRest ==
    /\ keyOf' = [l \in Labels |-> NoSource]
    /\ models' = [s \in Sources |-> NoState]
    /\ failures' = <<>> /\ intentional' = {}

CollectStatus ==
    /\ pc = "status"
    /\ targets' = [s \in Sources |->
           LET t == Refreshed(s) IN IF LacksStatus(t) THEN WithAnswer(t) ELSE t]
    /\ pc' = "interfaces"
    /\ DropTheRest /\ KeepForReport /\ UNCHANGED <<todo, faults>>

CollectStatusFails ==
    /\ pc = "status" /\ faults < MaxFaults
    /\ \E s \in Sources : LacksStatus(Refreshed(s))
    /\ faults' = faults + 1
    /\ targets' = [s \in Sources |->
           LET t == Refreshed(s) IN IF LacksStatus(t) THEN [t EXCEPT !.error = TRUE] ELSE t]
    /\ pc' = "interfaces"
    /\ DropTheRest /\ KeepForReport /\ UNCHANGED todo

CollectInterfaces ==
    /\ pc = "interfaces"
    /\ targets' = [s \in Sources |-> LET t == targets[s] IN
           IF \E u \in Sources : Reachable(targets[u]) /\ targets[u].hostid = t.hostid
             THEN [t EXCEPT !.interfaces = "listed"] ELSE t]
    /\ pc' = "journal"
    /\ todo' = {s \in Sources : Journaled(targets[s])}
    /\ KeepForReport /\ UNCHANGED <<keyOf, models, summary, faults>>

CollectInterfacesFails ==
    /\ pc = "interfaces" /\ faults < MaxFaults
    /\ \E s \in Sources : Reachable(targets[s])
    /\ faults' = faults + 1
    /\ targets' = [s \in Sources |-> LET t == targets[s] IN
           IF Reachable(t) THEN [t EXCEPT !.interfaces = NoState, !.error = TRUE] ELSE t]
    /\ pc' = "journal"
    /\ todo' = {s \in Sources : Journaled(targets[s])}
    /\ KeepForReport /\ UNCHANGED <<keyOf, models, summary>>

JournalKnownResult == \E s \in todo :
    /\ pc = "journal"
    /\ latest[s] # NoState /\ latest[s][1] = targets[s].result[1]
    /\ todo' = todo \ {s}
    /\ UNCHANGED <<records, zabbix, journal, pc, report, summary, outcome, spent>>

\* The newest entry with the marker of the target already says so ...
JournalKnown == \E s \in todo :
    /\ pc = "journal"
    /\ latest[s] = targets[s].result
    /\ todo' = todo \ {s}
    /\ UNCHANGED <<records, zabbix, journal, pc, report, summary, outcome, spent>>

\* ... or there is something new to say.
JournalAppend == \E s \in todo :
    /\ pc = "journal"
    /\ latest[s] # targets[s].result
    /\ latest' = [latest EXCEPT ![s] = targets[s].result]
    /\ parity' = [parity EXCEPT ![s] = 1 - @]
    /\ todo' = todo \ {s}
    /\ UNCHANGED <<records, zabbix, pc, report, summary, outcome, spent>>

\* NetBox cannot be asked, or refuses: left to the next run.
JournalFails == \E s \in todo :
    /\ pc = "journal" /\ faults < MaxFaults
    /\ faults' = faults + 1
    /\ todo' = todo \ {s}
    /\ UNCHANGED <<records, zabbix, journal, pc, report, summary, outcome,
                   edits, crashes>>

FinishJournal ==
    /\ pc = "journal" /\ todo = {}
    /\ pc' = "file"
    /\ UNCHANGED <<records, zabbix, journal, todo, report, summary, outcome, spent>>

LeaveWithSummary ==
    /\ pc' = "idle" /\ todo' = {}
    /\ keyOf' = [l \in Labels |-> NoSource]
    /\ targets' = [s \in Sources |-> NoState] /\ models' = [s \in Sources |-> NoState]
    /\ UNCHANGED summary
Leave ==
    /\ pc' = "idle" /\ todo' = {}
    /\ keyOf' = [l \in Labels |-> NoSource]
    /\ targets' = [s \in Sources |-> NoState] /\ models' = [s \in Sources |-> NoState]
    /\ failures' = <<>> /\ intentional' = {}

\* At "file" the targets are what the document says: a temporary file with all
\* of them replaces the old one, or an error leaves the old one there.
WriteFile ==
    /\ pc = "file"
    /\ Leave
    /\ UNCHANGED <<records, zabbix, journal, outcome, spent>>

\* Killed, or ended by an error start() does not catch: no report at all.
RunDies ==
    /\ pc # "idle" /\ crashes < MaxCrashes
    /\ crashes' = crashes + 1
    /\ Leave
    /\ UNCHANGED <<records, zabbix, journal, outcome, edits, faults>>
-----------------------------------------------------------------------------
(* People.                                                                  *)

Edit == edits < MaxEdits /\ edits' = edits + 1
KeepTheRun == UNCHANGED <<journal, pc, todo, report, summary, outcome, faults, crashes>>

Rename(s) == \E n \in Names \ {name[s]} :
    /\ Edit
    /\ pc = "idle"
    /\ UniqueNames => \A t \in Sources \ {s} : Label(t) # <<Kind[s], n>>
    /\ name' = [name EXCEPT ![s] = n]
    /\ KeepTheRun
    /\ UNCHANGED <<filtered, zabbix>>

Refilter(s) ==
    /\ Edit
    /\ pc = "idle"
    /\ filtered' = [filtered EXCEPT ![s] = ~@]
    /\ KeepTheRun
    /\ UNCHANGED <<name, zabbix>>

\* A host is enabled, disabled or deleted in Zabbix.
ChangeHost(s) == \E st \in (States \cup {"gone"}) \ {host[s]} :
    /\ Edit
    /\ host[s] # "gone"
    /\ host' = [host EXCEPT ![s] = st]
    /\ KeepTheRun
    /\ UNCHANGED <<records, link>>
-----------------------------------------------------------------------------
RunStep ==
    \/ StartRun \/ SyncSource \/ FailSource \/ SkipSource \/ RemoveSource \/ FinishSources
    \/ CleanUp \/ CleanUpRefused \/ NotCleaned \/ FinishCleanup
    \/ CollectStatus \/ CollectInterfaces
    \/ JournalKnown \/ JournalAppend \/ FinishJournal \/ WriteFile

FailStep == \/ CollectStatusFails \/ CollectInterfacesFails
            \/ JournalFails \/ RunDies

Next == \/ RunStep \/ FailStep
        \/ \E s \in Sources : Rename(s) \/ Refilter(s) \/ ChangeHost(s)

Spec == Init /\ [][Next]_vars

\* Started again and again; a started run goes on.
FairSpec == Spec /\ WF_vars(RunStep)
-----------------------------------------------------------------------------
\* An entry is appended to a record only when it says something else than the
\* entry before it, and then it says what became of the record's source in this
\* run: repeated outcomes add nothing, whatever failed in between, and no result
\* of another source gets in (SyncStatusJournal.write).
JournalTellsTheTruth ==
    [][\A s \in Sources : latest'[s] # latest[s] \/ parity'[s] # parity[s]
          => latest'[s] # latest[s] /\ latest'[s] = outcome[s]]_vars

\* The report about to be written gives every source the result it had in this
\* run, through summary, labels and the cleanup's results.
ReportTellsTheTruth ==
    pc = "file" => \A s \in Sources : targets[s].result = outcome[s]

\* In it, a target with a host id but no enabled state, or no interfaces, comes
\* with a status error, unless its host was removed.
MissingStatusIsExplained ==
    pc = "file" => \A s \in Sources : LET t == targets[s] IN
        Reachable(t) /\ (t.enabled = NoState \/ t.interfaces = NoState) => t.error

\* "sync_result is synced, skipped, failed, removed, or excluded_by_filter":
\* no target is written pending.
ReportIsFinal == pc = "file" => \A s \in Sources : targets[s].result # Pending

\* If a source keeps ending the same way, synced or failed, its newest journal
\* entry comes to say so, lost lookups and refused entries notwithstanding.
JournalCatchesUp ==
    \A s \in Sources : \A o \in {Synced} \cup {Failed(r) : r \in Reasons} :
        <>[](outcome[s] = o) => <>[](latest[s] = o)
=============================================================================
