------------------------ MODULE StatusFeedbackProofs ------------------------
(* Theorems about StatusFeedback, for any sources, names, reasons and       *)
(* bounds.                                                                  *)
EXTENDS StatusFeedback, FiniteSetTheorems, WellFoundedInduction,
        SequenceTheorems, TLAPS

USE DEF records, zabbix, journal, report, summary, spent
-----------------------------------------------------------------------------
\* The first of several failures can be told: numbers have a least one.
LEMMA LeastNatural ==
  ASSUME NEW T, T \subseteq Nat, T # {}
  PROVE  \E m \in T : \A n \in T : m <= n
<1> DEFINE Below == {0..n : n \in T}
<1>1. IsWellFoundedOn(StrictSubsetOrdering(Nat), FiniteSubsetsOf(Nat))
  BY FS_StrictSubsetOrderingWellFounded
<1>2. Below \subseteq FiniteSubsetsOf(Nat) /\ Below # {}
  <2>1. ASSUME NEW n \in T PROVE 0..n \in FiniteSubsetsOf(Nat)
    <3>1. IsFiniteSet(0..n)
      BY FS_Interval
    <3>2. 0..n \subseteq Nat
      OBVIOUS
    <3> QED  BY <3>1, <3>2 DEF FiniteSubsetsOf
  <2> QED  BY <2>1
<1>3. PICK B \in Below : \A C \in Below : ~(<<C, B>> \in StrictSubsetOrdering(Nat))
  BY <1>1, <1>2, WFMin
<1>4. PICK m \in T : B = 0..m
  BY <1>3
<1>5. ASSUME NEW n \in T PROVE m <= n
  <2>1. 0..n \in SUBSET Nat /\ 0..m \in SUBSET Nat
    OBVIOUS
  <2>2. ~(0..n \subseteq 0..m /\ 0..n # 0..m)
    <3>1. <<0..n, 0..m>> \notin StrictSubsetOrdering(Nat)
      <4>1. 0..n \in Below
        OBVIOUS
      <4> QED  BY <1>3, <1>4, <4>1, Zenon
    <3> QED  BY <2>1, <3>1 DEF StrictSubsetOrdering
  <2>3. m \in Nat /\ n \in Nat /\ (n < m => m \notin 0..n /\ m \in 0..m /\ 0..n \subseteq 0..m)
    OBVIOUS
  <2> QED  BY <2>2, <2>3
<1> QED  BY <1>5
-----------------------------------------------------------------------------
(* The summary: what it records of one label, and what it says of it.       *)

Reports == Seq(Reasons \X SUBSET Labels)

LEMMA SourceHasLabel == TypeOK => \A s \in Sources : Label(s) \in Labels
  BY DEF TypeOK, Label, Labels

\* A failure recorded under a label is in the list, which stays one.
LEMMA RecordKeepsType ==
  ASSUME failures \in Reports, NEW l \in Labels, NEW r \in Reasons
  PROVE  RecordFailure(l, r) \in Reports
<1>1. CASE \E i \in DOMAIN failures : failures[i][1] = r
  <2> DEFINE new == [i \in DOMAIN failures |->
                  IF failures[i][1] = r THEN <<r, failures[i][2] \cup {l}>> ELSE failures[i]]
  <2>1. new \in [1..Len(failures) -> Reasons \X SUBSET Labels] /\ Len(failures) \in Nat
    BY DEF Reports
  <2>2. new \in Reports
    BY <2>1, SeqDef DEF Reports
  <2> QED  BY <1>1, <2>2 DEF RecordFailure
<1>2. CASE ~\E i \in DOMAIN failures : failures[i][1] = r
  BY <1>2 DEF RecordFailure, Reports
<1> QED  BY <1>1, <1>2

\* The outcome of a label is one the report knows.
LEMMA OutcomeIsResult ==
  ASSUME NEW failed \in Reports, NEW intended, NEW l
  PROVE  OutcomeFor(failed, intended, l) \in Results
<1> DEFINE hits == {i \in DOMAIN failed : l \in failed[i][2]}
<1>1. CASE hits # {}
  <2>1. hits \subseteq Nat
    BY DEF Reports
  <2>2. \E i \in hits : \A j \in hits : i <= j
    BY <1>1, <2>1, LeastNatural
  <2> DEFINE first == CHOOSE i \in hits : \A j \in hits : i <= j
  <2>3. first \in hits
    BY <2>2
  <2>4. failed[first][1] \in Reasons
    BY <2>3 DEF Reports
  <2> QED  BY <1>1, <2>4 DEF OutcomeFor, Results
<1>2. CASE hits = {}
  BY <1>2 DEF OutcomeFor, Results
<1> QED  BY <1>1, <1>2
-----------------------------------------------------------------------------
(* Types.  From StartRun on every target is registered, and only outcomes    *)
(* the journal speaks of are left to write to it.                           *)

Registered == pc # "idle" => targets \in [Sources -> Target]
Due        == pc = "journal" => \A s \in todo : Journaled(targets[s])
TypeInv    == TypeOK /\ Registered /\ Due

LEMMA TypeInit == Init => TypeInv
<1> SUFFICES ASSUME Init PROVE TypeInv
  OBVIOUS
<1>1. failures \in Seq(Reasons \X SUBSET Labels)
  BY DEF Init
<1> QED
  BY <1>1, FeedbackAssumption
  DEF Init, TypeInv, TypeOK, Registered, Due, Steps, HostIds

\* A target keeps being one.
LEMMA TargetEdits ==
  ASSUME NEW t \in Target
  PROVE  /\ \A o \in Results : WithResult(t, o) \in Target
         /\ \A st \in States \cup {NoState} : WithStatus(t, st) \in Target
  BY DEF Target, WithResult, WithStatus

LEMMA SettleKeepsTypes ==
  ASSUME TypeInv, NEW s \in Sources, NEW o \in Results, NEW m \in Model \cup {NoState},
         o[1] = "failed" => o[2] \in Reasons,
         Settle(s, o, m)
  PROVE  /\ todo' \subseteq Sources /\ outcome' \in [Sources -> Results \cup {NoState}]
         /\ models' \in [Sources -> Model \cup {NoState}]
         /\ failures' \in Reports
         /\ intentional' \in SUBSET (Labels \X {Skipped, Removed})
         /\ targets' \in [Sources -> Target]
<1> USE DEF TypeInv, TypeOK, Registered
<1>1. Label(s) \in Labels
  BY SourceHasLabel
<1>2. todo' \subseteq Sources /\ outcome' \in [Sources -> Results \cup {NoState}]
  BY DEF Settle
<1>3. models' \in [Sources -> Model \cup {NoState}]
  BY DEF Settle
<1>4. failures' \in Reports
  BY <1>1, RecordKeepsType DEF Settle, Reports
<1>5. intentional' \in SUBSET (Labels \X {Skipped, Removed})
  BY <1>1 DEF Settle
<1>6. targets' \in [Sources -> Target]
  <2>1. PICK res \in Results : targets' = [targets EXCEPT ![keyOf[Label(s)]] =
                                              WithResult(@, res)]
    BY <1>4, OutcomeIsResult DEF Settle
  <2> QED  BY <2>1, TargetEdits DEF Settle
<1> QED  BY <1>2, <1>3, <1>4, <1>5, <1>6

\* Handling a source, in whichever way it ends.
LEMMA HandlingKeepsTypes ==
  ASSUME TypeInv, SyncSource \/ FailSource \/ SkipSource \/ RemoveSource
  PROVE  TypeInv'
<1> DEFINE Handled == /\ todo' \subseteq Sources
                      /\ outcome' \in [Sources -> Results \cup {NoState}]
                      /\ models' \in [Sources -> Model \cup {NoState}]
                      /\ failures' \in Reports
                      /\ intentional' \in SUBSET (Labels \X {Skipped, Removed})
                      /\ targets' \in [Sources -> Target]
<1>1. \A s \in Sources : Unread(s) \in Model
  BY DEF Unread, HostIdOf, Model, HostIds
<1>2. CASE SyncSource
  <2> PICK s \in todo, st \in States : /\ Settle(s, Synced, [hostid |-> s, status |-> st])
                                       /\ link' = [link EXCEPT ![s] = TRUE]
                                       /\ host' = [host EXCEPT ![s] = st]
    BY <1>2 DEF SyncSource
  <2>1. s \in Sources /\ [hostid |-> s, status |-> st] \in Model /\ Synced \in Results
        /\ Synced[1] # "failed"
    BY DEF TypeInv, TypeOK, Model, HostIds, Results, Synced
  <2>2. Handled
    BY <2>1, SettleKeepsTypes
  <2> QED  BY <2>1, <2>2 DEF TypeInv, TypeOK, Registered, Due, Settle, Reports
<1>3. CASE FailSource
  <2> PICK s \in todo, r \in Reasons :
        /\ \/ Settle(s, Failed(r), NoState)
           \/ Settle(s, Failed(r), Unread(s))
           \/ /\ link[s] /\ host[s] # "gone"
              /\ Settle(s, Failed(r), [hostid |-> s, status |-> host[s]])
        /\ UNCHANGED zabbix
    BY <1>3 DEF FailSource
  <2>1. s \in Sources /\ Failed(r) \in Results /\ Failed(r)[2] = r
        /\ (host[s] # "gone" => [hostid |-> s, status |-> host[s]] \in Model)
    BY DEF TypeInv, TypeOK, Model, HostIds, Results, Failed
  <2>2. PICK m \in Model \cup {NoState} : Settle(s, Failed(r), m)
    BY <1>1, <2>1
  <2>3. Handled
    BY <2>1, <2>2, SettleKeepsTypes
  <2> QED  BY <2>1, <2>2, <2>3 DEF TypeInv, TypeOK, Registered, Due, Settle, Reports
<1>4. CASE SkipSource
  <2> PICK s \in todo : Settle(s, Skipped, Unread(s)) /\ UNCHANGED zabbix
    BY <1>4 DEF SkipSource
  <2>1. s \in Sources /\ Skipped \in Results /\ Skipped[1] # "failed"
    BY DEF TypeInv, TypeOK, Results, Skipped
  <2>2. Handled
    BY <1>1, <2>1, SettleKeepsTypes
  <2> QED  BY <2>1, <2>2 DEF TypeInv, TypeOK, Registered, Due, Settle, Reports
<1>5. CASE RemoveSource
  <2> PICK s \in todo \ AzureSources : /\ Settle(s, Removed, Unread(s))
                                       /\ link' = [link EXCEPT ![s] = FALSE]
                                       /\ host' = [host EXCEPT ![s] = "gone"]
    BY <1>5 DEF RemoveSource
  <2>1. s \in Sources /\ Removed \in Results /\ Removed[1] # "failed"
    BY DEF TypeInv, TypeOK, Results, Removed
  <2>2. Handled
    BY <1>1, <2>1, SettleKeepsTypes
  <2> QED  BY <2>1, <2>2 DEF TypeInv, TypeOK, Registered, Due, Settle, Reports
<1> QED  BY <1>2, <1>3, <1>4, <1>5

\* The cleanup's results for sources excluded by a filter.
LEMMA CleanupKeepsTypes ==
  ASSUME TypeInv, CleanUp \/ CleanUpRefused \/ NotCleaned \/ FinishCleanup
  PROVE  TypeInv'
<1> USE DEF TypeInv, TypeOK, Registered, Due, Steps
<1>1. ASSUME NEW s \in todo, NEW o \in Results, NEW st \in States \cup {NoState},
             Cleaned(s, o, st)
      PROVE  /\ todo' \subseteq Sources /\ outcome' \in [Sources -> Results \cup {NoState}]
             /\ targets' \in [Sources -> Target]
  BY <1>1, TargetEdits DEF Cleaned
<1>2. CASE CleanUp
  <2> PICK s \in todo : /\ host' = [host EXCEPT ![s] = "gone"]
                        /\ link' = [link EXCEPT ![s] = FALSE] \/ UNCHANGED link
                        /\ \E o \in Results : Cleaned(s, o, NoState)
    BY <1>2 DEF CleanUp, Results
  <2> PICK o \in Results : Cleaned(s, o, NoState)
    OBVIOUS
  <2>1. /\ todo' \subseteq Sources /\ outcome' \in [Sources -> Results \cup {NoState}]
        /\ targets' \in [Sources -> Target]
    BY <1>1
  <2>2. /\ host' \in [Sources -> States \cup {"gone"}] /\ link' \in [Sources -> BOOLEAN]
    OBVIOUS
  <2>3. /\ pc' = "cleanup"
        /\ UNCHANGED <<records, journal, keyOf, models, summary, spent>>
    BY DEF Cleaned
  <2> QED  BY <2>1, <2>2, <2>3
<1>3. CASE CleanUpRefused
  <2> PICK s \in todo, r \in Reasons : /\ host[s] # "gone"
                                       /\ Cleaned(s, Failed(r), host[s])
                                       /\ UNCHANGED zabbix
    BY <1>3 DEF CleanUpRefused
  <2>1. Failed(r) \in Results /\ host[s] \in States
    BY DEF Results
  <2> QED  BY <1>1, <2>1 DEF Cleaned
<1>4. CASE NotCleaned
  BY <1>4 DEF NotCleaned
<1>5. CASE FinishCleanup
  BY <1>5 DEF FinishCleanup
<1> QED  BY <1>2, <1>3, <1>4, <1>5

\* What a target becomes when its model, the record and Zabbix complete it.
LEMMA RefreshedIsTarget ==
  ASSUME TypeInv, pc # "idle", NEW s \in Sources
  PROVE  Refreshed(s) \in Target
<1>1. targets[s] \in Target /\ models[s] \in Model \cup {NoState} /\ HostIdOf(s) \in HostIds
  BY DEF TypeInv, TypeOK, Registered, HostIdOf, HostIds
<1>2. CASE models[s] = NoState
  BY <1>1, <1>2 DEF Refreshed, Target
<1>3. CASE models[s] # NoState
  BY <1>1, <1>3 DEF Refreshed, Target, Model
<1> QED  BY <1>2, <1>3

LEMMA AnswerIsTarget ==
  ASSUME TypeInv, NEW t \in Target, LacksStatus(t)
  PROVE  WithAnswer(t) \in Target
  BY DEF TypeInv, TypeOK, LacksStatus, Reachable, WithAnswer, Target, HostIds

LEMMA ReportKeepsTypes ==
  ASSUME TypeInv, \/ CollectStatus \/ CollectStatusFails
                  \/ CollectInterfaces \/ CollectInterfacesFails
  PROVE  TypeInv'
<1>1. failures' \in Seq(Reasons \X SUBSET Labels)
  <2>1. failures' = failures \/ failures' = <<>>
    BY DEF CollectStatus, CollectStatusFails, CollectInterfaces, CollectInterfacesFails,
           DropTheRest
  <2>2. failures \in Seq(Reasons \X SUBSET Labels)
    BY DEF TypeInv, TypeOK
  <2>3. <<>> \in Seq(Reasons \X SUBSET Labels)
    OBVIOUS
  <2> QED  BY <2>1, <2>2, <2>3, Zenon
<1>2. \A s \in Sources : targets[s] \in Target
  BY DEF TypeInv, Registered, CollectStatus, CollectStatusFails, CollectInterfaces,
         CollectInterfacesFails
<1>3. targets' \in [Sources -> Target]
  <2>1. CASE CollectStatus
    BY <2>1, RefreshedIsTarget, AnswerIsTarget DEF CollectStatus
  <2>2. CASE CollectStatusFails
    <3>1. \A t \in Target : [t EXCEPT !.error = TRUE] \in Target
      BY DEF Target
    <3> QED  BY <2>2, <3>1, RefreshedIsTarget DEF CollectStatusFails
  <2>3. CASE CollectInterfaces
    <3>1. \A t \in Target : [t EXCEPT !.interfaces = "listed"] \in Target
      BY DEF Target
    <3> QED  BY <1>2, <2>3, <3>1 DEF CollectInterfaces
  <2>4. CASE CollectInterfacesFails
    <3>1. \A t \in Target : [t EXCEPT !.interfaces = NoState, !.error = TRUE] \in Target
      BY DEF Target
    <3> QED  BY <1>2, <2>4, <3>1 DEF CollectInterfacesFails
  <2> QED  BY <2>1, <2>2, <2>3, <2>4
<1>4. pc' \in {"interfaces", "journal"} /\ todo' \subseteq Sources
  <2>1. todo \subseteq Sources
    BY DEF TypeInv, TypeOK
  <2>2. CASE CollectStatus \/ CollectStatusFails
    <3>1. pc' = "interfaces" /\ todo' = todo
      BY <2>2 DEF CollectStatus, CollectStatusFails
    <3> QED  BY <2>1, <3>1
  <2>3. CASE CollectInterfaces \/ CollectInterfacesFails
    <3>1. pc' = "journal" /\ todo' = {s \in Sources : Journaled(targets[s])}
      BY <2>3 DEF CollectInterfaces, CollectInterfacesFails
    <3> QED  BY <3>1
  <2> QED  BY <2>2, <2>3
<1>5. faults' \in 0..MaxFaults
  <2>1. faults' = faults \/ (faults < MaxFaults /\ faults' = faults + 1)
    BY DEF CollectStatus, CollectStatusFails, CollectInterfaces, CollectInterfacesFails
  <2>2. faults \in 0..MaxFaults /\ MaxFaults \in Nat
    BY FeedbackAssumption DEF TypeInv, TypeOK
  <2> QED  BY <2>1, <2>2
<1>6. /\ keyOf' \in [Labels -> HostIds] /\ models' \in [Sources -> Model \cup {NoState}]
      /\ intentional' \in SUBSET (Labels \X {Skipped, Removed})
  <2>1. \/ UNCHANGED <<keyOf, models, intentional>>
        \/ /\ keyOf' = [l \in Labels |-> NoSource]
           /\ models' = [s \in Sources |-> NoState]
           /\ intentional' = {}
    BY DEF CollectStatus, CollectStatusFails, CollectInterfaces, CollectInterfacesFails,
           DropTheRest
  <2>2. /\ keyOf \in [Labels -> HostIds] /\ models \in [Sources -> Model \cup {NoState}]
        /\ intentional \in SUBSET (Labels \X {Skipped, Removed})
    BY DEF TypeInv, TypeOK
  <2> QED  BY <2>1, <2>2 DEF HostIds
<1>7. Due'
  <2>1. CASE CollectStatus \/ CollectStatusFails
    BY <2>1 DEF CollectStatus, CollectStatusFails, Due
  <2>2. CASE CollectInterfaces \/ CollectInterfacesFails
    <3>1. todo' = {s \in Sources : Journaled(targets[s])}
      BY <2>2 DEF CollectInterfaces, CollectInterfacesFails
    <3>2. \A s \in Sources : targets'[s].result = targets[s].result
      <4>1. \A t \in Target : /\ [t EXCEPT !.interfaces = "listed"].result = t.result
                              /\ [t EXCEPT !.interfaces = NoState, !.error = TRUE].result
                                    = t.result
        BY DEF Target
      <4>2. CASE CollectInterfaces
        BY <1>2, <4>1, <4>2 DEF CollectInterfaces
      <4>3. CASE CollectInterfacesFails
        BY <1>2, <4>1, <4>3 DEF CollectInterfacesFails
      <4> QED  BY <2>2, <4>2, <4>3
    <3> QED  BY <3>1, <3>2 DEF Due, Journaled
  <2> QED  BY <2>1, <2>2
<1>8. UNCHANGED <<records, zabbix, journal, outcome, edits, crashes>>
  BY DEF CollectStatus, CollectStatusFails, CollectInterfaces, CollectInterfacesFails,
         KeepForReport
<1> QED
  BY <1>1, <1>3, <1>4, <1>5, <1>6, <1>7, <1>8 DEF TypeInv, TypeOK, Registered, Steps

LEMMA JournalKeepsTypes ==
  ASSUME TypeInv, JournalKnown \/ JournalAppend \/ JournalFails \/ FinishJournal
  PROVE  TypeInv'
<1> USE DEF TypeInv, TypeOK, Registered, Due, Steps
<1>1. CASE JournalKnown
  <2>1. /\ todo' \subseteq todo
        /\ UNCHANGED <<records, zabbix, journal, pc, report, summary, outcome, spent>>
    BY <1>1 DEF JournalKnown
  <2> QED  BY <2>1
<1>2. CASE JournalAppend
  <2> PICK s \in todo : /\ pc = "journal" /\ todo' = todo \ {s}
                        /\ latest' = [latest EXCEPT ![s] = targets[s].result]
                        /\ parity' = [parity EXCEPT ![s] = 1 - @]
                        /\ UNCHANGED <<records, zabbix, pc, report, summary, outcome, spent>>
    BY <1>2 DEF JournalAppend
  <2>1. targets[s] \in Target /\ Journaled(targets[s])
    BY DEF Target
  <2>2. targets[s].result \in {Synced} \cup {Failed(r) : r \in Reasons}
    BY <2>1 DEF Journaled, Target, Results, Skipped, Removed, Pending, Excluded
  <2>3. latest' \in [Sources -> {Synced, NoState} \cup {Failed(r) : r \in Reasons}]
    BY <2>2
  <2>4. parity' \in [Sources -> 0..1]
    OBVIOUS
  <2> QED  BY <2>3, <2>4
<1>3. CASE JournalFails
  <2>1. /\ todo' \subseteq todo /\ faults < MaxFaults /\ faults' = faults + 1
        /\ UNCHANGED <<records, zabbix, journal, pc, report, summary, outcome, edits, crashes>>
    BY <1>3 DEF JournalFails
  <2>2. faults' \in 0..MaxFaults
    BY <2>1, FeedbackAssumption
  <2> QED  BY <2>1, <2>2
<1>4. CASE FinishJournal
  BY <1>4 DEF FinishJournal
<1> QED  BY <1>1, <1>2, <1>3, <1>4

LEMMA LeavingKeepsTypes ==
  ASSUME TypeInv, WriteFile \/ RunDies
  PROVE  TypeInv'
<1>1. failures' \in Seq(Reasons \X SUBSET Labels)
  <2>1. failures' = <<>>
    BY DEF WriteFile, RunDies, Leave
  <2> QED  BY <2>1
<1>2. crashes' \in 0..MaxCrashes
  BY FeedbackAssumption DEF TypeInv, TypeOK, WriteFile, RunDies
<1>3. /\ pc' = "idle" /\ todo' = {} /\ keyOf' = [l \in Labels |-> NoSource]
      /\ targets' = [s \in Sources |-> NoState] /\ models' = [s \in Sources |-> NoState]
      /\ intentional' = {}
      /\ UNCHANGED <<records, zabbix, journal, outcome, edits, faults>>
  BY DEF WriteFile, RunDies, Leave
<1> QED
  BY <1>1, <1>2, <1>3 DEF TypeInv, TypeOK, Registered, Due, Steps, HostIds

LEMMA PeopleKeepTypes ==
  ASSUME TypeInv, NEW s \in Sources, Rename(s) \/ Refilter(s) \/ ChangeHost(s)
  PROVE  TypeInv'
<1>1. /\ name' \in [Sources -> Names] /\ filtered' \in [Sources -> BOOLEAN]
      /\ host' \in [Sources -> States \cup {"gone"}] /\ link' = link
  <2>1. /\ name \in [Sources -> Names] /\ filtered \in [Sources -> BOOLEAN]
        /\ host \in [Sources -> States \cup {"gone"}]
    BY DEF TypeInv, TypeOK
  <2>2. CASE Rename(s)
    <3>1. PICK n \in Names : name' = [name EXCEPT ![s] = n]
      BY <2>2 DEF Rename
    <3>2. UNCHANGED <<filtered, zabbix>>
      BY <2>2 DEF Rename
    <3> QED  BY <2>1, <3>1, <3>2
  <2>3. CASE Refilter(s)
    BY <2>1, <2>3 DEF Refilter
  <2>4. CASE ChangeHost(s)
    <3>1. PICK st \in States \cup {"gone"} : host' = [host EXCEPT ![s] = st]
      BY <2>4 DEF ChangeHost
    <3>2. UNCHANGED <<records, link>>
      BY <2>4 DEF ChangeHost
    <3> QED  BY <2>1, <3>1, <3>2
  <2> QED  BY <2>2, <2>3, <2>4
<1>2. edits' \in 0..MaxEdits
  BY FeedbackAssumption DEF TypeInv, TypeOK, Rename, Refilter, ChangeHost, Edit
<1>3. UNCHANGED <<journal, pc, todo, report, summary, outcome, faults, crashes>>
  BY DEF Rename, Refilter, ChangeHost, KeepTheRun
<1> QED
  BY <1>1, <1>2, <1>3 DEF TypeInv, TypeOK, Registered, Due

LEMMA BeginningKeepsTypes ==
  ASSUME TypeInv, StartRun \/ FinishSources
  PROVE  TypeInv'
<1> USE DEF TypeInv, TypeOK, Registered, Due, Steps
<1>1. CASE StartRun
  <2> PICK key \in [Labels -> HostIds] : keyOf' = key
    BY <1>1 DEF StartRun
  <2>1. \A s \in Sources : NewTarget(s) \in Target
    BY DEF NewTarget, Target, Results, HostIdOf, HostIds
  <2>2. targets' \in [Sources -> Target] /\ outcome' \in [Sources -> Results \cup {NoState}]
    BY <1>1, <2>1 DEF StartRun, Results
  <2> QED  BY <1>1, <2>2 DEF StartRun
<1>2. CASE FinishSources
  BY <1>2 DEF FinishSources
<1> QED  BY <1>1, <1>2

LEMMA TypeStep == TypeInv /\ [Next]_vars => TypeInv'
<1> SUFFICES ASSUME TypeInv, [Next]_vars PROVE TypeInv'
  OBVIOUS
<1>1. CASE UNCHANGED vars
  BY <1>1 DEF vars, TypeInv, TypeOK, Registered, Due
<1>2. CASE Next
  BY <1>2, BeginningKeepsTypes, HandlingKeepsTypes, CleanupKeepsTypes, ReportKeepsTypes,
     JournalKeepsTypes, LeavingKeepsTypes, PeopleKeepTypes
  DEF Next, RunStep, FailStep
<1> QED  BY <1>1, <1>2

\* Every variable keeps its type: targets are complete records from the moment
\* they are registered, outcomes are of the five kinds the report documents, and
\* the journal only ever says synced or failed.
THEOREM TypeCorrect == Spec => []TypeOK
<1>1. TypeInv => TypeOK
  BY DEF TypeInv
<1> QED  BY <1>1, TypeInit, TypeStep, PTL DEF Spec
-----------------------------------------------------------------------------
(* A status that is missing in the document is explained there.             *)

Explained ==
    /\ pc = "interfaces" =>
           \A s \in Sources : LacksStatus(targets[s]) => targets[s].error
    /\ pc \in {"journal", "file"} =>
           \A s \in Sources : LET t == targets[s] IN
               Reachable(t) /\ (t.enabled = NoState \/ t.interfaces = NoState) => t.error

\* Asking Zabbix for a host either gives its state or marks the target.
LEMMA AnswerExplains ==
  ASSUME TypeInv, NEW t \in Target, LacksStatus(t)
  PROVE  LacksStatus(WithAnswer(t)) => WithAnswer(t).error
<1>1. t.hostid \in Sources
  BY DEF LacksStatus, Reachable, Target, HostIds
<1>2. host[t.hostid] \in States \cup {"gone"}
  BY <1>1 DEF TypeInv, TypeOK
<1>3. CASE host[t.hostid] = "gone"
  BY <1>3 DEF WithAnswer, Target
<1>4. CASE host[t.hostid] # "gone"
  <2>1. WithAnswer(t).enabled = host[t.hostid]
    BY <1>4 DEF WithAnswer, Target
  <2>2. host[t.hostid] # NoState
    BY <1>2, <1>4, FeedbackAssumption DEF States
  <2> QED  BY <2>1, <2>2 DEF LacksStatus
<1> QED  BY <1>3, <1>4

LEMMA StatusExplains ==
  ASSUME TypeInv, CollectStatus \/ CollectStatusFails
  PROVE  Explained'
<1>1. pc' = "interfaces" /\ pc = "status"
  BY DEF CollectStatus, CollectStatusFails
<1>2. ASSUME NEW s \in Sources PROVE LacksStatus(targets'[s]) => targets'[s].error
  <2> DEFINE t == Refreshed(s)
  <2>1. t \in Target
    BY <1>1, RefreshedIsTarget
  <2>2. CASE CollectStatus
    <3>1. targets'[s] = IF LacksStatus(t) THEN WithAnswer(t) ELSE t
      BY <2>2 DEF CollectStatus
    <3> HIDE DEF t
    <3> QED  BY <2>1, <3>1, AnswerExplains
  <2>3. CASE CollectStatusFails
    <3>1. targets'[s] = IF LacksStatus(t) THEN [t EXCEPT !.error = TRUE] ELSE t
      BY <2>3 DEF CollectStatusFails
    <3>2. [t EXCEPT !.error = TRUE].error
      BY <2>1 DEF Target
    <3> HIDE DEF t
    <3> QED  BY <3>1, <3>2
  <2> QED  BY <2>2, <2>3
<1> QED  BY <1>1, <1>2 DEF Explained, LacksStatus, Reachable

LEMMA InterfacesExplain ==
  ASSUME TypeInv, Explained, CollectInterfaces \/ CollectInterfacesFails
  PROVE  Explained'
<1>1. pc = "interfaces" /\ pc' = "journal"
  BY DEF CollectInterfaces, CollectInterfacesFails
<1>2. ASSUME NEW s \in Sources
      PROVE  LET t == targets'[s] IN
             Reachable(t) /\ (t.enabled = NoState \/ t.interfaces = NoState) => t.error
  <2> DEFINE t == targets[s]
  <2>1. t \in Target /\ (LacksStatus(t) => t.error)
    BY <1>1 DEF TypeInv, Registered, Explained
  <2>2. CASE CollectInterfaces
    <3>1. Reachable(t) => targets'[s] = [t EXCEPT !.interfaces = "listed"]
      BY <2>2 DEF CollectInterfaces
    <3>2. targets'[s] = t \/ targets'[s] = [t EXCEPT !.interfaces = "listed"]
      BY <2>2 DEF CollectInterfaces
    <3> HIDE DEF t
    <3> QED  BY <2>1, <3>1, <3>2, FeedbackAssumption DEF Target, Reachable, LacksStatus
  <2>3. CASE CollectInterfacesFails
    <3>1. targets'[s] = IF Reachable(t)
                          THEN [t EXCEPT !.interfaces = NoState, !.error = TRUE] ELSE t
      BY <2>3 DEF CollectInterfacesFails
    <3> HIDE DEF t
    <3> QED  BY <2>1, <3>1 DEF Target, Reachable
  <2> QED  BY <2>2, <2>3
<1> QED  BY <1>1, <1>2 DEF Explained

\* Every other step is before the collecting, after it, or about something else.
LEMMA ExplainedStep == TypeInv /\ Explained /\ [Next]_vars => Explained'
<1> SUFFICES ASSUME TypeInv, Explained, [Next]_vars PROVE Explained'
  OBVIOUS
<1>1. CASE CollectStatus \/ CollectStatusFails
  BY <1>1, StatusExplains
<1>2. CASE CollectInterfaces \/ CollectInterfacesFails
  BY <1>2, InterfacesExplain
<1>3. CASE \/ StartRun \/ SyncSource \/ FailSource \/ SkipSource \/ RemoveSource
           \/ FinishSources \/ CleanUp \/ CleanUpRefused \/ NotCleaned \/ FinishCleanup
  <2>1. CASE SyncSource \/ FailSource \/ SkipSource \/ RemoveSource
    <3>1. \A s, o, m : Settle(s, o, m) => pc' \notin {"interfaces", "journal", "file"}
      BY DEF Settle
    <3> QED
      BY <2>1, <3>1 DEF SyncSource, FailSource, SkipSource, RemoveSource, Explained
  <2>2. CASE CleanUp \/ CleanUpRefused
    <3>1. \A s, o, st : Cleaned(s, o, st) => pc' \notin {"interfaces", "journal", "file"}
      BY DEF Cleaned
    <3> QED  BY <2>2, <3>1 DEF CleanUp, CleanUpRefused, Explained
  <2>3. CASE StartRun \/ FinishSources \/ NotCleaned \/ FinishCleanup
    BY <2>3 DEF StartRun, FinishSources, NotCleaned, FinishCleanup, Explained
  <2> QED  BY <1>3, <2>1, <2>2, <2>3
<1>4. CASE JournalKnown \/ JournalAppend \/ JournalFails \/ FinishJournal
  <2>1. pc = "journal" /\ pc' \in {"journal", "file"} /\ targets' = targets
    BY <1>4 DEF JournalKnown, JournalAppend, JournalFails, FinishJournal
  <2> QED  BY <2>1 DEF Explained
<1>5. CASE WriteFile \/ RunDies
  BY <1>5 DEF WriteFile, RunDies, Leave, Explained
<1>6. CASE UNCHANGED vars \/ \E s \in Sources : Rename(s) \/ Refilter(s) \/ ChangeHost(s)
  <2>1. pc' = pc /\ targets' = targets
    BY <1>6 DEF vars, Rename, Refilter, ChangeHost, KeepTheRun
  <2> QED  BY <2>1 DEF Explained
<1> QED  BY <1>1, <1>2, <1>3, <1>4, <1>5, <1>6 DEF Next, RunStep, FailStep

\* In the report about to be written, a target whose host is there but whose
\* state or interfaces are unknown says that a status is missing (_write_status_report).
THEOREM MissingStatusAlwaysExplained == Spec => []MissingStatusIsExplained
<1>1. Init => Explained
  BY DEF Init, Explained
<1>2. Explained => MissingStatusIsExplained
  BY DEF Explained, MissingStatusIsExplained
<1> QED  BY <1>1, <1>2, TypeInit, TypeStep, ExplainedStep, PTL DEF Spec
-----------------------------------------------------------------------------
(* The report tells the truth as long as no two sources share a label: a      *)
(* label leads to its source, and until the source is handled the summary      *)
(* says nothing of the label.                                                *)

LabelsDiffer == \A s, t \in Sources : Label(s) = Label(t) => s = t
Mentioned(l) == \/ \E i \in DOMAIN failures : l \in failures[i][2]
                \/ \E o \in {Skipped, Removed} : <<l, o>> \in intentional
KeysLead     == pc \in {"sync", "cleanup"} => \A s \in Sources : keyOf[Label(s)] = s
NothingYet   == /\ pc = "sync" => \A s \in todo : ~Mentioned(Label(s))
                /\ pc = "idle" => failures = <<>> /\ intentional = {}
ToBeHandled  == IF pc = "sync" THEN todo ELSE {}
Told         == pc # "idle" => \A s \in Sources \ ToBeHandled :
                                   targets[s].result = outcome[s] /\ outcome[s] # Pending
TruthInv     == LabelsDiffer /\ KeysLead /\ NothingYet /\ Told

\* The first entry of a list of failures that mentions a label gives its reason.
LEMMA FailureIsTheOutcome ==
  ASSUME NEW failed \in Reports, NEW intended, NEW l, NEW r,
         \E i \in DOMAIN failed : l \in failed[i][2],
         \A i \in DOMAIN failed : l \in failed[i][2] => failed[i][1] = r
  PROVE  OutcomeFor(failed, intended, l) = Failed(r)
<1> DEFINE hits == {i \in DOMAIN failed : l \in failed[i][2]}
<1>1. hits # {} /\ hits \subseteq Nat
  BY DEF Reports
<1>2. \E i \in hits : \A j \in hits : i <= j
  BY <1>1, LeastNatural
<1> DEFINE first == CHOOSE i \in hits : \A j \in hits : i <= j
<1>3. first \in hits
  BY <1>2
<1>4. failed[first][1] = r
  BY <1>3
<1> QED  BY <1>1, <1>4 DEF OutcomeFor

\* Recording a failure of one label adds it under its reason, and mentions no
\* other label that was not mentioned before.
LEMMA RecordMentions ==
  ASSUME failures \in Reports, NEW l \in Labels, NEW r \in Reasons,
         ~\E i \in DOMAIN failures : l \in failures[i][2]
  PROVE  LET new == RecordFailure(l, r) IN
         /\ \E i \in DOMAIN new : l \in new[i][2]
         /\ \A i \in DOMAIN new : l \in new[i][2] => new[i][1] = r
         /\ \A i \in DOMAIN new : \A k \in new[i][2] :
                k = l \/ \E j \in DOMAIN failures : k \in failures[j][2]
<1>1. CASE \E i \in DOMAIN failures : failures[i][1] = r
  <2> DEFINE new == [i \in DOMAIN failures |->
                  IF failures[i][1] = r THEN <<r, failures[i][2] \cup {l}>> ELSE failures[i]]
  <2>1. RecordFailure(l, r) = new
    BY <1>1 DEF RecordFailure
  <2>2. DOMAIN new = DOMAIN failures
    OBVIOUS
  <2>3. \A i \in DOMAIN failures :
            \/ failures[i][1] = r /\ new[i][1] = r /\ new[i][2] = failures[i][2] \cup {l}
            \/ failures[i][1] # r /\ new[i] = failures[i]
    OBVIOUS
  <2> HIDE DEF new
  <2> QED  BY <1>1, <2>1, <2>2, <2>3
<1>2. CASE ~\E i \in DOMAIN failures : failures[i][1] = r
  <2> DEFINE new == Append(failures, <<r, {l}>>)
  <2>1. RecordFailure(l, r) = new
    BY <1>2 DEF RecordFailure
  <2>2. Len(failures) \in Nat /\ DOMAIN failures = 1..Len(failures)
    BY DEF Reports
  <2>3. /\ DOMAIN new = 1..Len(failures) + 1
        /\ \A i \in 1..Len(failures) : new[i] = failures[i]
        /\ new[Len(failures) + 1] = <<r, {l}>>
    BY <2>2 DEF Reports
  <2> HIDE DEF new
  <2>4. new[Len(failures) + 1][1] = r /\ new[Len(failures) + 1][2] = {l}
    BY <2>3
  <2>5. \A i \in DOMAIN new : i \in DOMAIN failures \/ i = Len(failures) + 1
    BY <2>2, <2>3
  <2>6. Len(failures) + 1 \in DOMAIN new
    BY <2>2, <2>3
  <2>7. \A i \in DOMAIN failures : new[i] = failures[i]
    BY <2>2, <2>3
  <2> QED  BY <2>1, <2>4, <2>5, <2>6, <2>7
<1> QED  BY <1>1, <1>2

\* What an outcome adds to the summary is the outcome of its label, and mentions
\* no label that is still to come.
LEMMA SummaryTells ==
  ASSUME TypeInv, NEW s \in Sources, NEW m, ~Mentioned(Label(s)),
         NEW o \in {Synced, Skipped, Removed} \cup {Failed(r) : r \in Reasons},
         s \notin AzureSources, Settle(s, o, m)
  PROVE  /\ OutcomeFor(failures', intentional', Label(s)) = o
         /\ \A l \in Labels : Mentioned(l)' => l = Label(s) \/ Mentioned(l)
<1> DEFINE l == Label(s)
<1>1. l \in Labels /\ failures \in Reports
  BY SourceHasLabel DEF TypeInv, TypeOK, Reports
<1>2. CASE \E r \in Reasons : o = Failed(r)
  <2> PICK r \in Reasons : o = Failed(r)
    BY <1>2
  <2>1. failures' = RecordFailure(l, r) /\ intentional' = intentional
    BY DEF Settle, Failed, Skipped, Removed
  <2>2. failures' \in Reports
    BY <1>1, <2>1, RecordKeepsType
  <2>3. ~\E i \in DOMAIN failures : l \in failures[i][2]
    BY DEF Mentioned
  <2>4. /\ \E i \in DOMAIN failures' : l \in failures'[i][2]
        /\ \A i \in DOMAIN failures' : l \in failures'[i][2] => failures'[i][1] = r
        /\ \A i \in DOMAIN failures' : \A k \in failures'[i][2] :
               k = l \/ \E j \in DOMAIN failures : k \in failures[j][2]
    BY <1>1, <2>1, <2>3, RecordMentions
  <2> HIDE DEF l
  <2>5. OutcomeFor(failures', intentional', l) = Failed(r)
    BY <2>2, <2>4, FailureIsTheOutcome
  <2> QED  BY <2>1, <2>4, <2>5 DEF Mentioned, l
<1>3. CASE o \in {Synced, Skipped, Removed}
  <2>1. /\ failures' = failures
        /\ intentional' = IF o \in {Skipped, Removed}
                            THEN intentional \cup {<<l, o>>} ELSE intentional
    BY <1>3 DEF Settle, Synced, Skipped, Removed
  <2>2. {i \in DOMAIN failures : l \in failures[i][2]} = {}
    BY DEF Mentioned
  <2>3. <<l, Skipped>> \notin intentional /\ <<l, Removed>> \notin intentional
    BY DEF Mentioned
  <2>4. Skipped # Removed /\ Synced # Skipped /\ Synced # Removed
    BY DEF Synced, Skipped, Removed
  <2>5. OutcomeFor(failures', intentional', l) = o
    BY <1>3, <2>1, <2>2, <2>3, <2>4 DEF OutcomeFor
  <2> QED  BY <2>1, <2>5 DEF Mentioned
<1> QED  BY <1>2, <1>3

LEMMA SettleTells ==
  ASSUME TypeInv, TruthInv, NEW s \in Sources, NEW m \in Model \cup {NoState},
         NEW o \in {Synced, Skipped, Removed} \cup {Failed(r) : r \in Reasons},
         Settle(s, o, m)
  PROVE  TruthInv'
<1>1. pc = "sync" /\ pc' = "sync" /\ s \in todo /\ todo' = todo \ {s} /\ name' = name
      /\ keyOf' = keyOf /\ outcome' = [outcome EXCEPT ![s] = o]
  BY DEF Settle
<1>2. \A u \in Sources : Label(u)' = Label(u)
  BY <1>1 DEF Label
<1>3. keyOf[Label(s)] = s /\ ~Mentioned(Label(s))
  BY <1>1 DEF TruthInv, KeysLead, NothingYet
<1>4. /\ targets' = [targets EXCEPT ![s] = WithResult(@, o)]
      /\ \A l \in Labels : Mentioned(l)' => l = Label(s) \/ Mentioned(l)
  <2>1. CASE s \in AzureSources
    BY <1>3, <2>1 DEF Settle, Mentioned
  <2>2. CASE s \notin AzureSources
    <3>1. /\ OutcomeFor(failures', intentional', Label(s)) = o
          /\ \A l \in Labels : Mentioned(l)' => l = Label(s) \/ Mentioned(l)
      BY <1>3, <2>2, SummaryTells
    <3>2. targets' = [targets EXCEPT ![s] = WithResult(@,
                          OutcomeFor(failures', intentional', Label(s)))]
      BY <1>3, <2>2 DEF Settle
    <3> QED  BY <3>1, <3>2
  <2> QED  BY <2>1, <2>2
<1>5. LabelsDiffer' /\ KeysLead'
  BY <1>1, <1>2 DEF TruthInv, LabelsDiffer, KeysLead
<1>6. NothingYet'
  <2>1. \A u \in todo \ {s} : u \in Sources /\ Label(u) \in Labels /\ Label(u) # Label(s)
    BY SourceHasLabel DEF TypeInv, TypeOK, TruthInv, LabelsDiffer
  <2>2. \A u \in todo \ {s} : ~(Mentioned(Label(u))')
    <3> TAKE u \in todo \ {s}
    <3>1. Mentioned(Label(u))' => \E l \in {Label(u)} : Mentioned(l)'
      BY <1>2, <2>1 DEF Mentioned
    <3>2. ~Mentioned(Label(u))
      BY <1>1 DEF TruthInv, NothingYet
    <3> QED  BY <1>4, <2>1, <3>1, <3>2
  <2> QED  BY <1>1, <2>2 DEF NothingYet
<1>7. Told'
  <2>1. targets \in [Sources -> Target] /\ outcome \in [Sources -> Results \cup {NoState}]
    BY <1>1 DEF TypeInv, TypeOK, Registered
  <2>2. targets'[s].result = o /\ outcome'[s] = o /\ o # Pending
    BY <1>1, <1>4, <2>1
    DEF WithResult, Target, Synced, Skipped, Removed, Failed, Pending
  <2>3. \A u \in Sources \ {s} : targets'[u] = targets[u] /\ outcome'[u] = outcome[u]
    BY <1>1, <1>4, <2>1
  <2> QED  BY <1>1, <2>2, <2>3 DEF TruthInv, Told, ToBeHandled
<1> QED  BY <1>5, <1>6, <1>7 DEF TruthInv

LEMMA HandlingTells ==
  ASSUME TypeInv, TruthInv, SyncSource \/ FailSource \/ SkipSource \/ RemoveSource
  PROVE  TruthInv'
<1>1. \A s \in Sources : Unread(s) \in Model
  BY DEF Unread, HostIdOf, Model, HostIds
<1>2. todo \subseteq Sources
  BY DEF TypeInv, TypeOK
<1>3. PICK s \in Sources, m \in Model \cup {NoState},
           o \in {Synced, Skipped, Removed} \cup {Failed(r) : r \in Reasons} : Settle(s, o, m)
  <2>1. CASE SyncSource
    <3>1. \A s \in Sources, st \in States : [hostid |-> s, status |-> st] \in Model
      BY DEF Model, HostIds
    <3> QED  BY <1>2, <2>1, <3>1 DEF SyncSource
  <2>2. CASE FailSource
    <3>1. \A s \in Sources : host[s] # "gone" => [hostid |-> s, status |-> host[s]] \in Model
      BY DEF TypeInv, TypeOK, Model, HostIds
    <3> QED  BY <1>1, <1>2, <2>2, <3>1 DEF FailSource
  <2>3. CASE SkipSource \/ RemoveSource
    BY <1>1, <1>2, <2>3 DEF SkipSource, RemoveSource
  <2> QED  BY <2>1, <2>2, <2>3
<1> QED  BY <1>3, SettleTells

\* A run starts with labels that lead to their sources and an empty summary.
LEMMA StartTells ==
  ASSUME TypeInv, TruthInv, StartRun
  PROVE  TruthInv'
<1>1. PICK key \in [Labels -> HostIds] :
        /\ \A l \in Labels : LET named == {s \in Sources : Label(s) = l} IN
               IF named = {} THEN key[l] = NoSource ELSE key[l] \in named
        /\ keyOf' = key
  BY DEF StartRun
<1>2. pc = "idle" /\ pc' = "sync" /\ todo' = {s \in Sources : ~filtered[s]}
      /\ targets' = [s \in Sources |-> NewTarget(s)]
      /\ outcome' = [s \in Sources |-> IF filtered[s] THEN Excluded ELSE outcome[s]]
      /\ UNCHANGED <<name, failures, intentional>>
  BY DEF StartRun
<1>3. LabelsDiffer'
  BY <1>2 DEF TruthInv, LabelsDiffer, Label
<1>4. \A s \in Sources : key[Label(s)] = s
  BY <1>1, SourceHasLabel DEF TypeInv, TruthInv, LabelsDiffer
<1>5. KeysLead'
  BY <1>1, <1>2, <1>4 DEF KeysLead, Label
<1>6. NothingYet'
  BY <1>2 DEF TruthInv, NothingYet, Mentioned
<1>7. Told'
  BY <1>2 DEF TruthInv, Told, ToBeHandled, NewTarget, Excluded, Pending
<1> QED  BY <1>3, <1>5, <1>6, <1>7 DEF TruthInv

LEMMA CleanedTells ==
  ASSUME TypeInv, TruthInv, CleanUp \/ CleanUpRefused
  PROVE  TruthInv'
<1>1. PICK s \in Sources, o \in {Removed} \cup {Failed(r) : r \in Reasons},
           st \in States \cup {NoState} : Cleaned(s, o, st)
  <2>1. todo \subseteq Sources /\ \A s \in Sources : host[s] # "gone" => host[s] \in States
    BY DEF TypeInv, TypeOK
  <2> QED  BY <2>1 DEF CleanUp, CleanUpRefused
<1>2. pc = "cleanup" /\ pc' = "cleanup" /\ keyOf[Label(s)] = s
  BY <1>1 DEF Cleaned, TruthInv, KeysLead
<1>3. /\ targets' = [targets EXCEPT ![s] = WithStatus(WithResult(@, o), st)]
      /\ outcome' = [outcome EXCEPT ![s] = o]
      /\ UNCHANGED <<name, keyOf, failures, intentional>>
  BY <1>1, <1>2 DEF Cleaned
<1>4. targets \in [Sources -> Target] /\ outcome \in [Sources -> Results \cup {NoState}]
  BY <1>2 DEF TypeInv, TypeOK, Registered
<1>5. targets'[s].result = o /\ outcome'[s] = o /\ o # Pending
  BY <1>3, <1>4 DEF WithResult, WithStatus, Target, Removed, Failed, Pending
<1>6. \A u \in Sources \ {s} : targets'[u] = targets[u] /\ outcome'[u] = outcome[u]
  BY <1>3, <1>4
<1>7. Told'
  BY <1>2, <1>5, <1>6 DEF TruthInv, Told, ToBeHandled
<1> QED
  BY <1>2, <1>3, <1>7 DEF TruthInv, LabelsDiffer, KeysLead, NothingYet, Label

\* Completing the targets changes no result.
LEMMA CollectingTells ==
  ASSUME TypeInv, TruthInv, \/ CollectStatus \/ CollectStatusFails
                            \/ CollectInterfaces \/ CollectInterfacesFails
  PROVE  TruthInv'
<1>1. pc \in {"status", "interfaces"} /\ pc' \in {"interfaces", "journal"}
      /\ name' = name /\ outcome' = outcome
  BY DEF CollectStatus, CollectStatusFails, CollectInterfaces, CollectInterfacesFails,
         KeepForReport
<1>2. ASSUME NEW s \in Sources PROVE targets'[s].result = targets[s].result
  <2>1. targets[s] \in Target /\ Refreshed(s) \in Target
    BY <1>1, RefreshedIsTarget DEF TypeInv, Registered
  <2>2. Refreshed(s).result = targets[s].result
    BY <2>1 DEF Refreshed, Target
  <2>3. \A t \in Target : /\ WithAnswer(t).result = t.result
                          /\ [t EXCEPT !.error = TRUE].result = t.result
                          /\ [t EXCEPT !.interfaces = "listed"].result = t.result
                          /\ [t EXCEPT !.interfaces = NoState, !.error = TRUE].result = t.result
    BY DEF Target, WithAnswer
  <2>4. CASE CollectStatus
    BY <2>1, <2>2, <2>3, <2>4 DEF CollectStatus
  <2>5. CASE CollectStatusFails
    BY <2>1, <2>2, <2>3, <2>5 DEF CollectStatusFails
  <2>6. CASE CollectInterfaces
    BY <2>1, <2>3, <2>6 DEF CollectInterfaces
  <2>7. CASE CollectInterfacesFails
    BY <2>1, <2>3, <2>7 DEF CollectInterfacesFails
  <2> QED  BY <2>4, <2>5, <2>6, <2>7
<1> QED
  BY <1>1, <1>2
  DEF TruthInv, LabelsDiffer, KeysLead, NothingYet, Told, ToBeHandled, Label

LEMMA TruthStep ==
  ASSUME UniqueNames
  PROVE  TypeInv /\ TruthInv /\ [Next]_vars => TruthInv'
<1> SUFFICES ASSUME TypeInv, TruthInv, [Next]_vars PROVE TruthInv'
  OBVIOUS
<1> USE DEF TruthInv, LabelsDiffer, KeysLead, NothingYet, Told, ToBeHandled, Mentioned
<1>1. CASE StartRun
  BY <1>1, StartTells
<1>2. CASE SyncSource \/ FailSource \/ SkipSource \/ RemoveSource
  BY <1>2, HandlingTells
<1>3. CASE CleanUp \/ CleanUpRefused
  BY <1>3, CleanedTells
<1>4. CASE CollectStatus \/ CollectStatusFails \/ CollectInterfaces \/ CollectInterfacesFails
  BY <1>4, CollectingTells
<1>5. CASE FinishSources \/ NotCleaned \/ FinishCleanup
  <2>1. /\ pc \in {"sync", "cleanup"} /\ pc' \in {"cleanup", "status"}
        /\ pc = "sync" => todo = {}
        /\ UNCHANGED <<name, keyOf, targets, failures, intentional, outcome>>
    BY <1>5 DEF FinishSources, NotCleaned, FinishCleanup
  <2> QED  BY <2>1 DEF Label
<1>6. CASE JournalKnown \/ JournalAppend \/ JournalFails \/ FinishJournal
  <2>1. /\ pc = "journal" /\ pc' \in {"journal", "file"}
        /\ UNCHANGED <<name, targets, outcome>>
    BY <1>6 DEF JournalKnown, JournalAppend, JournalFails, FinishJournal
  <2> QED  BY <2>1 DEF Label
<1>7. CASE WriteFile \/ RunDies
  <2>1. /\ pc' = "idle" /\ failures' = <<>> /\ intentional' = {}
        /\ UNCHANGED <<name, outcome>>
    BY <1>7 DEF WriteFile, RunDies, Leave
  <2> QED  BY <2>1 DEF Label
<1>8. CASE \E s \in Sources : Rename(s)
  <2> PICK s \in Sources : Rename(s)
    BY <1>8
  <2>1. PICK n \in Names : /\ \A t \in Sources \ {s} : Label(t) # <<Kind[s], n>>
                           /\ name' = [name EXCEPT ![s] = n]
    BY DEF Rename
  <2>2. pc = "idle" /\ pc' = "idle" /\ UNCHANGED <<failures, intentional, outcome>>
    BY DEF Rename, KeepTheRun
  <2>3. Label(s)' = <<Kind[s], n>> /\ \A t \in Sources \ {s} : Label(t)' = Label(t)
    BY <2>1 DEF TypeInv, TypeOK, Label
  <2>4. LabelsDiffer'
    BY <2>1, <2>3
  <2> QED  BY <2>2, <2>4
<1>9. CASE UNCHANGED vars \/ \E s \in Sources : Refilter(s) \/ ChangeHost(s)
  <2>1. UNCHANGED <<name, pc, todo, keyOf, targets, failures, intentional, outcome>>
    BY <1>9 DEF vars, Refilter, ChangeHost, KeepTheRun
  <2> QED  BY <2>1 DEF Label
<1> QED
  BY <1>1, <1>2, <1>3, <1>4, <1>5, <1>6, <1>7, <1>8, <1>9 DEF Next, RunStep, FailStep

LEMMA TruthInit ==
  ASSUME UniqueNames
  PROVE  Init => TruthInv
  BY DEF Init, TruthInv, LabelsDiffer, KeysLead, NothingYet, Told, Mentioned

\* Where names are unique, the document that is about to be written gives every
\* source the result it had in this run, and no source stays pending: through the
\* labels of the summary, its first failure of a label, and the cleanup's results.
THEOREM ReportIsTrue ==
  ASSUME UniqueNames
  PROVE  Spec => [](ReportTellsTheTruth /\ ReportIsFinal)
<1>1. TruthInv => ReportTellsTheTruth /\ ReportIsFinal
  BY DEF TruthInv, Told, ToBeHandled, ReportTellsTheTruth, ReportIsFinal
<1> QED  BY <1>1, TypeInit, TypeStep, TruthInit, TruthStep, PTL DEF Spec

\* Where names are unique, an entry is appended to the journal only when it says
\* something new, and it says what became of the record's source in that run.
THEOREM JournalIsTrue ==
  ASSUME UniqueNames
  PROVE  Spec => JournalTellsTheTruth
<1>1. ASSUME TypeInv, TruthInv, [Next]_vars
      PROVE  [\A s \in Sources : latest'[s] # latest[s] \/ parity'[s] # parity[s]
                 => latest'[s] # latest[s] /\ latest'[s] = outcome[s]]_vars
  <2>1. CASE JournalAppend
    <3> PICK s \in todo : /\ pc = "journal" /\ latest[s] # targets[s].result
                          /\ latest' = [latest EXCEPT ![s] = targets[s].result]
                          /\ parity' = [parity EXCEPT ![s] = 1 - @]
      BY <2>1 DEF JournalAppend
    <3>1. s \in Sources /\ targets[s].result = outcome[s]
      BY <1>1 DEF TypeInv, TypeOK, TruthInv, Told, ToBeHandled
    <3> QED  BY <1>1, <3>1 DEF TypeInv, TypeOK
  <2>2. CASE UNCHANGED vars
    BY <2>2
  <2>3. CASE Next /\ ~JournalAppend
    <3>1. latest' = latest /\ parity' = parity
      <4>1. CASE SyncSource \/ FailSource \/ SkipSource \/ RemoveSource
        BY ZenonT(60), <4>1 DEF SyncSource, FailSource, SkipSource, RemoveSource, Settle
      <4>2. CASE CleanUp \/ CleanUpRefused \/ NotCleaned \/ FinishCleanup
        BY <4>2 DEF CleanUp, CleanUpRefused, Cleaned, NotCleaned, FinishCleanup
      <4>3. CASE \/ CollectStatus \/ CollectStatusFails
                 \/ CollectInterfaces \/ CollectInterfacesFails
        BY <4>3 DEF CollectStatus, CollectStatusFails, CollectInterfaces,
                    CollectInterfacesFails, KeepForReport
      <4>4. CASE \/ StartRun \/ FinishSources \/ JournalKnown \/ JournalFails
                 \/ FinishJournal \/ WriteFile \/ RunDies
        BY <4>4 DEF StartRun, FinishSources, JournalKnown, JournalFails, FinishJournal,
                    WriteFile, RunDies
      <4>5. CASE \E s \in Sources : Rename(s) \/ Refilter(s) \/ ChangeHost(s)
        BY <4>5 DEF Rename, Refilter, ChangeHost, KeepTheRun
      <4> QED  BY <2>3, <4>1, <4>2, <4>3, <4>4, <4>5 DEF Next, RunStep, FailStep
    <3> QED  BY <3>1
  <2> QED  BY <1>1, <2>1, <2>2, <2>3
<1> QED
  BY <1>1, TypeInit, TypeStep, TruthInit, TruthStep, PTL DEF Spec, JournalTellsTheTruth
=============================================================================
