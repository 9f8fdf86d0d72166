----------------------------- MODULE HostGroups -----------------------------
(***************************************************************************)
(* The Zabbix host groups that netbox-zabbix-sync creates and assigns.     *)
(*                                                                         *)
(* A run reads the list of groups once, before its first source, and every *)
(* source resolves its group names against that list.  A missing group is  *)
(* created together with the parents the list lacks, and the list grows by *)
(* what was created, but only if no creation was refused.  Deployments     *)
(* share the server: each has a list of its own, and people delete and     *)
(* create groups meanwhile.                                                 *)
(*                                                                         *)
(* Abstractions: a group is its name and its id, and ids are never used    *)
(* again; the names a source asks for are given (Hostgroup.generate and    *)
(* the VM fallback produce them from the record); a source has a host or   *)
(* it has none, the life of hosts being that of SyncLifecycle; nobody      *)
(* renames a group; hosts of discovery rules are not here.                 *)
(***************************************************************************)
EXTENDS Naturals, FiniteSets, Sequences, SequencesExt

CONSTANTS
    Deployments,         \* configurations of the tool sharing the Zabbix server
    Sources,             \* what they import
    DeploymentOf,        \* the deployment that imports a source
    AzureSources,        \* the sources that are Azure subscriptions
    Groups,              \* host group names
    Names,               \* of a group: its name, then those of its parents, outwards
    NoSource,            \* no source at hand
    CreateHostgroups,    \* the deployments with create_hostgroups on
    MaxId,               \* bound on group ids
    MaxEdits,            \* bound on changes by people in NetBox and Zabbix
    MaxFaults            \* bound on refused API calls and runs that end early

ASSUME GroupMapsAssumption ==
    /\ DeploymentOf \in [Sources -> Deployments]
    /\ AzureSources \subseteq Sources
    /\ NoSource \notin Sources
    /\ Names \in [Groups -> Seq(Groups)]
    /\ \A g \in Groups : Names[g] # <<>> /\ Head(Names[g]) = g
ASSUME GroupBoundsAssumption ==
    /\ CreateHostgroups \subseteq Deployments /\ IsFiniteSet(Groups)
    /\ {MaxId, MaxEdits, MaxFaults} \subseteq Nat /\ Cardinality(Groups) <= MaxId

VARIABLES
    want,                  \* of a source: the groups its record gives now
    gid, lastId,           \* of a group: its id, 0 for none; the last id handed out
    hosted, members,       \* of a source: has it a host, and the ids of the host's groups
    pc,                    \* of a deployment: the call its run makes next
    asked, todo,           \* of a source: what the run read; of a run: what it has left
    cur,                   \* of a run: the source at hand
    list,                  \* of a run: zabbix_groups, as pairs of name and id
    queue, made,           \* of a run: the groups to create, and those created (final_data)
    got,                   \* of a run: group_ids of the source at hand
    linked, seen,          \* of a run: has the source a host, and the groups host.get showed
    handDeleted,           \* history: groups people deleted
    edits, faults          \* how much of each bound is spent

zabbix == <<gid, lastId, hosted, members>>
target == <<cur, queue, made, got, linked, seen>>
spent  == <<edits, faults>>
vars   == <<want, zabbix, pc, asked, todo, list, target, handDeleted, spent>>

Ids   == 1..MaxId
Pairs == Groups \X Ids

TypeOK ==
    /\ want \in [Sources -> SUBSET Groups] /\ asked \in [Sources -> SUBSET Groups]
    /\ gid \in [Groups -> 0..MaxId] /\ lastId \in 0..MaxId
    /\ hosted \in [Sources -> BOOLEAN] /\ members \in [Sources -> SUBSET Ids]
    /\ pc \in [Deployments -> {"idle", "next", "create", "write"}]
    /\ todo \in [Deployments -> SUBSET Sources]
    /\ cur \in [Deployments -> Sources \cup {NoSource}]
    /\ list \in [Deployments -> SUBSET Pairs] /\ made \in [Deployments -> SUBSET Pairs]
    /\ queue \in [Deployments -> Seq(Groups)]
    /\ got \in [Deployments -> SUBSET Ids] /\ seen \in [Deployments -> SUBSET Ids]
    /\ linked \in [Deployments -> BOOLEAN]
    /\ handDeleted \subseteq Groups
    /\ edits \in 0..MaxEdits /\ faults \in 0..MaxFaults
-----------------------------------------------------------------------------
\* A list of formats gives several names or none; azure_hostgroup is one name.
Askable(s) == {gs \in SUBSET Groups : s \in AzureSources => Cardinality(gs) = 1}

Mine(d) == {s \in Sources : DeploymentOf[s] = d}
GroupExists(g) == gid[g] # 0
IdsOf(gs) == {gid[g] : g \in gs} \ {0}

\* The groups there are.  GroupsNowMissing, and the other operators that stand
\* before one they resemble, are mistakes the properties must notice.
GroupsNowMissing == {<<g, gid[g]>> : g \in Groups}
GroupsNow        == {p \in Pairs : gid[p[1]] = p[2]}

\* zbx_hostgroup_lookup, and set_zbx_groupid with what it appends to group_ids.
Listed(known, g)      == \E p \in known : p[1] = g
MatchedIds(known, gs) == {i \in Ids : \E g \in gs : <<g, i>> \in known}
AllMatched(known, gs) == Cardinality(MatchedIds(known, gs)) = Cardinality(gs)

\* The creations one call of create_zbx_hostgroup makes: for every name, in the
\* order list(set(...)) gives, the name and then its parents, less the listed.
UnlistedAll(known, names) == names
Unlisted(known, names) ==
    FlattenSeq([k \in DOMAIN names |-> IF Listed(known, names[k]) THEN <<>> ELSE <<names[k]>>])
Creations(known, gs) ==
    {FlattenSeq(seqs) : seqs \in
        {[k \in DOMAIN order |-> Unlisted(known, Names[order[k]])] : order \in SetToSeqs(gs)}}

\* A device or VM without a host looks for missing parents in any case; one
\* that has a host, and a subscription, only when it lacks a group itself.
LooksForParentsNever(s) == FALSE
LooksForParents(s)      == ~hosted[s] /\ s \notin AzureSources
Creates(d, s) == /\ d \in CreateHostgroups
                 /\ LooksForParents(s) \/ ~AllMatched(list[d], asked[s])

\* group_ids once the groups exist: what a linked device matched before stays
\* all there is, a group created just now is left to the next run.
GotAfterMade(d, known) ==
    IF linked[d] THEN got[d] \cup {p[2] : p \in made[d]} ELSE MatchedIds(known, asked[cur[d]])
GotAfter(d, known) ==
    IF linked[d] /\ cur[d] \notin AzureSources /\ got[d] # {} THEN got[d]
    ELSE MatchedIds(known, asked[cur[d]])

\* Zabbix takes a host's groups if there is one and all of them exist.
Acceptable(is) == is # {} /\ is \subseteq IdsOf(Groups)

Goto(d, l) == pc' = [pc EXCEPT ![d] = l]

Settle(d) ==
    /\ Goto(d, "next")
    /\ cur' = [cur EXCEPT ![d] = NoSource]
    /\ queue' = [queue EXCEPT ![d] = <<>>]
    /\ made' = [made EXCEPT ![d] = {}]
    /\ got' = [got EXCEPT ![d] = {}]
    /\ linked' = [linked EXCEPT ![d] = FALSE]
    /\ seen' = [seen EXCEPT ![d] = {}]

Init ==
    /\ want \in [Sources -> SUBSET Groups] /\ \A s \in Sources : want[s] \in Askable(s)
    /\ asked = [s \in Sources |-> {}]
    /\ gid \in {f \in [Groups -> 0..Cardinality(Groups)] :
                   \A g, h \in Groups : f[g] = f[h] /\ f[g] # 0 => g = h}
    /\ lastId = Cardinality(Groups)
    /\ hosted = [s \in Sources |-> FALSE] /\ members = [s \in Sources |-> {}]
    /\ pc = [d \in Deployments |-> "idle"]
    /\ todo = [d \in Deployments |-> {}]
    /\ cur = [d \in Deployments |-> NoSource]
    /\ list = [d \in Deployments |-> {}] /\ made = [d \in Deployments |-> {}]
    /\ queue = [d \in Deployments |-> <<>>]
    /\ got = [d \in Deployments |-> {}] /\ seen = [d \in Deployments |-> {}]
    /\ linked = [d \in Deployments |-> FALSE]
    /\ handDeleted = {}
    /\ edits = 0 /\ faults = 0
-----------------------------------------------------------------------------
(* One run of a deployment.                                                 *)

\* The records are read, then the groups: one list for all sources of the run.
StartRun(d) ==
    /\ pc[d] = "idle"
    /\ Goto(d, "next")
    /\ todo' = [todo EXCEPT ![d] = Mine(d)]
    /\ asked' = [s \in Sources |-> IF s \in Mine(d) THEN want[s] ELSE asked[s]]
    /\ list' = [list EXCEPT ![d] = GroupsNow]
    /\ UNCHANGED <<want, zabbix, target, handDeleted, spent>>

\* No format gives a name: the source is reported and left as it is.
SkipGroupless(d) == \E s \in todo[d] :
    /\ pc[d] = "next"
    /\ asked[s] = {}
    /\ todo' = [todo EXCEPT ![d] = @ \ {s}]
    /\ UNCHANGED <<want, zabbix, pc, asked, list, target, handDeleted, spent>>

\* set_zbx_groupid against the list; what follows depends on what it matched.
TakeWith(d, s) ==
    /\ pc[d] = "next"
    /\ asked[s] # {}
    /\ todo' = [todo EXCEPT ![d] = @ \ {s}]
    /\ cur' = [cur EXCEPT ![d] = s]
    /\ linked' = [linked EXCEPT ![d] = hosted[s]]
    /\ seen' = [seen EXCEPT ![d] = members[s]]
    /\ got' = [got EXCEPT ![d] = MatchedIds(list[d], asked[s])]
    /\ UNCHANGED <<want, zabbix, asked, list, made, handDeleted, spent>>

TakeMatched(d) == \E s \in todo[d] :
    /\ ~Creates(d, s)
    /\ TakeWith(d, s)
    /\ Goto(d, "write")
    /\ UNCHANGED queue

TakeMissing(d) == \E s \in todo[d] :
    /\ Creates(d, s)
    /\ TakeWith(d, s)
    /\ \E creations \in Creations(list[d], asked[s]) :
          queue' = [queue EXCEPT ![d] = creations]
    /\ Goto(d, "create")

CreateGroup(d) ==
    /\ pc[d] = "create" /\ queue[d] # <<>>
    /\ LET g == Head(queue[d]) IN
          /\ ~GroupExists(g)
          /\ lastId < MaxId
          /\ lastId' = lastId + 1
          /\ gid' = [gid EXCEPT ![g] = lastId + 1]
          /\ made' = [made EXCEPT ![d] = @ \cup {<<g, lastId + 1>>}]
          /\ queue' = [queue EXCEPT ![d] = Tail(@)]
    /\ UNCHANGED <<want, hosted, members, pc, asked, todo, list, cur, got, linked, seen,
                   handDeleted, spent>>

\* Zabbix knows the name already: the source fails, and with final_data the
\* run loses all trace of the groups this call did create.
CreateGroupRefused(d) ==
    /\ pc[d] = "create" /\ queue[d] # <<>>
    /\ GroupExists(Head(queue[d]))
    /\ Settle(d)
    /\ UNCHANGED <<want, zabbix, asked, todo, list, handDeleted, spent>>

\* groups.extend(new_groups), and the groups resolved where none matched before.
ExtendList(d) ==
    /\ pc[d] = "create" /\ queue[d] = <<>>
    /\ LET known == list[d] \cup made[d] IN
          /\ list' = [list EXCEPT ![d] = known]
          /\ got' = [got EXCEPT ![d] = GotAfter(d, known)]
    /\ Goto(d, "write")
    /\ UNCHANGED <<want, zabbix, asked, todo, cur, queue, made, linked, seen,
                   handDeleted, spent>>

\* host.update replaces the groups of a linked host; host.create sets them.
Writable(d) == LET s == cur[d] IN
    /\ Acceptable(got[d])
    /\ hosted[s] = linked[d]
    /\ ~linked[d] /\ s \notin AzureSources => Cardinality(got[d]) = Cardinality(asked[s])

InSync(d) == linked[d] /\ got[d] = seen[d]

KeepGroups(d) ==
    /\ pc[d] = "write" /\ InSync(d)
    /\ Settle(d)
    /\ UNCHANGED <<want, zabbix, asked, todo, list, handDeleted, spent>>

WriteGroups(d) ==
    /\ pc[d] = "write" /\ ~InSync(d) /\ Writable(d)
    /\ hosted' = [hosted EXCEPT ![cur[d]] = TRUE]
    /\ members' = [members EXCEPT ![cur[d]] = got[d]]
    /\ Settle(d)
    /\ UNCHANGED <<want, gid, lastId, asked, todo, list, handDeleted, spent>>

WriteRefused(d) ==
    /\ pc[d] = "write" /\ ~InSync(d) /\ ~Writable(d)
    /\ Settle(d)
    /\ UNCHANGED <<want, zabbix, asked, todo, list, handDeleted, spent>>

Leave(d) ==
    /\ Goto(d, "idle")
    /\ cur' = [cur EXCEPT ![d] = NoSource]
    /\ queue' = [queue EXCEPT ![d] = <<>>]
    /\ made' = [made EXCEPT ![d] = {}]
    /\ got' = [got EXCEPT ![d] = {}]
    /\ linked' = [linked EXCEPT ![d] = FALSE]
    /\ seen' = [seen EXCEPT ![d] = {}]
    /\ todo' = [todo EXCEPT ![d] = {}]
    /\ asked' = [s \in Sources |-> IF s \in Mine(d) THEN {} ELSE asked[s]]
    /\ list' = [list EXCEPT ![d] = {}]

FinishRun(d) ==
    /\ pc[d] = "next" /\ todo[d] = {}
    /\ Leave(d)
    /\ UNCHANGED <<want, zabbix, handDeleted, spent>>
-----------------------------------------------------------------------------
(* Failures and people.                                                     *)

\* An API call is refused for another reason: start() goes on with the next source.
TargetFails(d) ==
    /\ pc[d] \in {"create", "write"}
    /\ faults < MaxFaults
    /\ faults' = faults + 1
    /\ Settle(d)
    /\ UNCHANGED <<want, zabbix, asked, todo, list, handDeleted, edits>>

RunDies(d) ==
    /\ pc[d] # "idle"
    /\ faults < MaxFaults
    /\ faults' = faults + 1
    /\ Leave(d)
    /\ UNCHANGED <<want, zabbix, handDeleted, edits>>

Edit == edits < MaxEdits /\ edits' = edits + 1
KeepTheRuns == UNCHANGED <<pc, asked, todo, list, target, faults>>

\* The record changes: other groups than before.
ChangeWant(s) == \E gs \in Askable(s) \ {want[s]} :
    /\ Edit
    /\ want' = [want EXCEPT ![s] = gs]
    /\ KeepTheRuns
    /\ UNCHANGED <<zabbix, handDeleted>>

AddGroup(g) ==
    /\ Edit
    /\ ~GroupExists(g) /\ lastId < MaxId
    /\ lastId' = lastId + 1
    /\ gid' = [gid EXCEPT ![g] = lastId + 1]
    /\ KeepTheRuns
    /\ UNCHANGED <<want, hosted, members, handDeleted>>

\* Zabbix lets go of a group unless it is the only one of some host.
DeleteGroup(g) ==
    /\ Edit
    /\ GroupExists(g)
    /\ \A s \in Sources : members[s] # {gid[g]}
    /\ gid' = [gid EXCEPT ![g] = 0]
    /\ members' = [s \in Sources |-> members[s] \ {gid[g]}]
    /\ handDeleted' = handDeleted \cup {g}
    /\ KeepTheRuns
    /\ UNCHANGED <<want, lastId, hosted>>

\* People move a host to other groups, or it is gone and so is the link to it.
Regroup(s) == \E is \in SUBSET IdsOf(Groups) \ {members[s]} :
    /\ Edit
    /\ hosted[s]
    /\ hosted' = [hosted EXCEPT ![s] = is # {}]
    /\ members' = [members EXCEPT ![s] = is]
    /\ KeepTheRuns
    /\ UNCHANGED <<want, gid, lastId, handDeleted>>
-----------------------------------------------------------------------------
RunStep(d) ==
    \/ StartRun(d) \/ SkipGroupless(d) \/ TakeMatched(d) \/ TakeMissing(d)
    \/ CreateGroup(d) \/ CreateGroupRefused(d) \/ ExtendList(d)
    \/ KeepGroups(d) \/ WriteGroups(d) \/ WriteRefused(d) \/ FinishRun(d)

Next == \/ \E d \in Deployments : RunStep(d) \/ TargetFails(d) \/ RunDies(d)
        \/ \E s \in Sources : ChangeWant(s) \/ Regroup(s)
        \/ \E g \in Groups : AddGroup(g) \/ DeleteGroup(g)

Spec == Init /\ [][Next]_vars

\* A scheduler starts the tool again and again, and a started run goes on.
FairSpec == Spec /\ \A d \in Deployments : WF_vars(RunStep(d))
-----------------------------------------------------------------------------
\* However stale the list of groups is, a run puts a host only into groups that
\* bear, at that moment, a name its source asked for (set_zbx_groupid,
\* create_zbx_hostgroup, the groups of host.create and host.update).
JoinsOnlyAskedGroups ==
    [][\A s \in Sources : edits' = edits =>
          members'[s] \ members[s] \subseteq IdsOf(asked[s])]_vars

\* With create_hostgroups, when a device's or VM's host is created all parents of
\* its groups exist as well, whichever runs died between creating a group and its
\* parent, unless people deleted a parent.
CreatedUnderParents ==
    [][\A s \in Sources \ AzureSources :
          DeploymentOf[s] \in CreateHostgroups /\ ~hosted[s] /\ hosted'[s] =>
             \A g \in asked[s] : \A k \in DOMAIN Names[g] :
                 GroupExists(Names[g][k]) \/ Names[g][k] \in handDeleted]_vars

\* Once people and failures let it, every host ends up in exactly the groups its
\* record asks for, if its deployment creates groups or all of them are there: a
\* refused creation, a partial match and a stale list cost a run, never all runs.
Attainable(s) == DeploymentOf[s] \in CreateHostgroups \/ \A g \in want[s] : GroupExists(g)
GroupsConverge ==
    \A s \in Sources : <>[](want[s] # {} /\ Attainable(s) =>
        hosted[s] /\ members[s] = IdsOf(want[s]) /\ \A g \in want[s] : GroupExists(g))

\* "Any nested parent hostgroups will also be created automatically": a host in
\* the groups it should be in ends up with all their parents in Zabbix, those
\* people deleted excepted.  Not so if a run dies between a group and its parent.
ParentsGetCreated ==
    \A s \in Sources : <>[](hosted[s] /\ want[s] # {} =>
        \A g \in want[s] : \A k \in DOMAIN Names[g] :
            GroupExists(Names[g][k]) \/ Names[g][k] \in handDeleted)

\* Missing groups, parents included, "will be created automatically": no call
\* asks Zabbix to create a group that this very call has created before.  Two
\* missing groups that share a missing parent break it.
CreatesEachGroupOnce ==
    \A d \in Deployments : queue[d] # <<>> => ~Listed(made[d], Head(queue[d]))
=============================================================================
