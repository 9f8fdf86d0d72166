---------------------- MODULE InterfaceReconciliation ----------------------
(***************************************************************************)
(* The interfaces of one Zabbix host, the items that poll through them and *)
(* the template linked to it, as consistency_check brings them in line     *)
(* with the config context of the NetBox object.                           *)
(*                                                                         *)
(* An interface never changes its type in place: a run adds the new type,  *)
(* then swaps the template or moves the items, and removes the old one     *)
(* last, one API call at a time.  Any call may fail or be the run's last;  *)
(* the next run starts from whatever the host looks like then.             *)
(*                                                                         *)
(* Abstractions: an address stands for ip, dns and useip together; SNMP    *)
(* details only for being valid or not; one template is linked at a time   *)
(* and brings one item; interface ids grow, and their order is the order   *)
(* in which host.get lists them.  A refused call and a killed process are  *)
(* one action, for both end the handling of the host.                      *)
(***************************************************************************)
EXTENDS Naturals, Sequences, SequencesExt

CONSTANTS
    Types, SNMP,           \* interface types; the one that needs details
    DefaultType,           \* 2 (SNMP) for devices, 1 (agent) for VMs
    Addresses, Ports,      \* endpoints but for the type
    PrimaryAddress,        \* of the NetBox object, or NoAddress
    DefaultPort,           \* the port of a type when none is configured
    NoAddress, Unset,      \* an empty address; an option not given
    Configs,               \* config contexts people may write
    Templates,             \* a template is its item too
    ItemTypes,             \* the interface types a template's item can use
    HandItems,             \* items people add to the host; any type serves them
    MaxEdits,              \* bound on changes by people
    MaxFaults              \* bound on refused calls and killed runs

ASSUME InterfaceAssumption ==
    /\ {SNMP, DefaultType} \subseteq Types
    /\ Unset \notin Types \cup Addresses \cup Ports
    /\ NoAddress \notin Addresses /\ PrimaryAddress \in Addresses \cup {NoAddress}
    /\ DefaultPort \in [Types -> Ports]
    /\ ItemTypes \in [Templates -> SUBSET Types]
    /\ Templates \cap HandItems = {}
    /\ MaxEdits \in Nat /\ MaxFaults \in Nat

Items == Templates \cup HandItems
Option == [type: Types \cup {Unset}, addr: Addresses \cup {NoAddress, Unset},
           port: Ports \cup {Unset}, main: BOOLEAN \cup {Unset}, snmp: BOOLEAN]
ASSUME ConfigAssumption ==
    \A c \in Configs : c.primary \in Option /\ c.more \in Seq(Option)
-----------------------------------------------------------------------------
(* ZabbixInterface.build_interfaces: what a config context asks for.        *)

\* A primary interface is asked for by an address, the object's or one given.
HasPrimary(c) == PrimaryAddress # NoAddress \/ c.primary.addr # Unset

Or(option, default) == IF option = Unset THEN default ELSE option

\* Without a type the options count only as far as an address goes: the
\* defaults of SNMP even replace a port that is given.
PrimaryInterface(o) ==
    LET type == Or(o.type, DefaultType)
        deaf == o.type = Unset /\ (o.addr = Unset \/ DefaultType = SNMP)
    IN  [type |-> type, addr |-> Or(o.addr, PrimaryAddress), main |-> TRUE,
         port |-> IF deaf THEN DefaultPort[type] ELSE Or(o.port, DefaultPort[type])]

MoreInterface(o) ==
    [type |-> o.type, addr |-> Or(o.addr, PrimaryAddress), main |-> o.main,
     port |-> Or(o.port, DefaultPort[o.type])]

PrimaryAccepted(o) ==
    /\ Or(o.addr, PrimaryAddress) # NoAddress
    /\ o.type = SNMP => o.snmp
MoreAccepted(o) ==
    /\ o.type # Unset
    /\ Or(o.addr, PrimaryAddress) # NoAddress
    /\ o.type = SNMP => o.snmp

Built(c) ==
    (IF HasPrimary(c) THEN <<PrimaryInterface(c.primary)>> ELSE <<>>)
        \o [k \in DOMAIN c.more |-> MoreInterface(c.more[k])]

\* Unless told otherwise, the first interface of a type is its main one.
WithMain(is) ==
    [k \in DOMAIN is |-> [is[k] EXCEPT !.main =
        Or(@, \A j \in 1..(k - 1) : is[j].type # is[k].type)]]
Desired(c) == WithMain(Built(c))

TypesOf(is) == {i.type : i \in is}

\* InterfaceConfigError otherwise.
Valid(c) ==
    /\ HasPrimary(c) => PrimaryAccepted(c.primary)
    /\ \A k \in DOMAIN c.more : MoreAccepted(c.more[k])
    /\ LET want == Desired(c)
       IN  \A k \in DOMAIN want : Cardinality(
               {j \in DOMAIN want : want[j].type = want[k].type /\ want[j].main}) = 1

Refused  == Unset  \* the list of a config context that build_interfaces refuses
Asked(c) == IF Valid(c) THEN Desired(c) ELSE Refused
-----------------------------------------------------------------------------
(* _reconcile_interfaces: which interface the host has serves which wish.   *)

SameEndpoint(i, w) == i.type = w.type /\ i.addr = w.addr /\ i.port = w.port
SameSettings(i, w) == SameEndpoint(i, w) /\ i.main = w.main

None == 0
Ids(is)   == {i.id : i \in is}
First(is) == Min(Ids(is))

MatchEndpointOnly(is, want) ==
    LET pick[k \in 0..Len(want)] ==
            IF k = 0 THEN <<>>
            ELSE LET prev  == pick[k - 1]
                     exact == {i \in is : /\ SameEndpoint(i, want[k])
                                          /\ i.id \notin Range(prev)}
                 IN  Append(prev, IF exact # {} THEN First(exact) ELSE None)
    IN  pick[Len(want)]

\* One wish after the other takes the first interface of its very endpoint, or
\* else the first of its type, among those no earlier wish took.
Match(is, want) ==
    LET pick[k \in 0..Len(want)] ==
            IF k = 0 THEN <<>>
            ELSE LET prev  == pick[k - 1]
                     same  == {i \in is : i.type = want[k].type /\ i.id \notin Range(prev)}
                     exact == {i \in same : SameEndpoint(i, want[k])}
                 IN  Append(prev, IF exact # {} THEN First(exact)
                                  ELSE IF same # {} THEN First(same) ELSE None)
    IN  pick[Len(want)]

Unmatched(is, want) == {i \in is : i.id \notin Range(Match(is, want))}
Unserved(is, want)  == {k \in DOMAIN want : Match(is, want)[k] = None}

ReplacementsFresh(is, want) ==
    IF Cardinality(Unmatched(is, want)) = 1 /\ Cardinality(Unserved(is, want)) = 1
    THEN {k \in Unserved(is, want) : want[k].type \notin TypesOf(is)} ELSE {}

\* The wishes that may replace the one interface left over: the one unserved
\* wish, of a type the host lacks, or, when a run was interrupted after adding
\* it, the served ones of another type at the same address.
Replacements(is, want) ==
    IF Cardinality(Unmatched(is, want)) # 1 THEN {}
    ELSE LET left == CHOOSE i \in Unmatched(is, want) : TRUE
         IN  CASE Cardinality(Unserved(is, want)) = 1 ->
                      {k \in Unserved(is, want) : want[k].type \notin TypesOf(is)}
               [] Unserved(is, want) = {} ->
                      {k \in DOMAIN want : /\ want[k].type # left.type
                                           /\ want[k].addr = left.addr}
               [] OTHER -> {}

\* Nothing is moved unless there is exactly one of them.
Replaces(is, want) == Cardinality(Replacements(is, want)) = 1
OldOfAny(is, want) == CHOOSE i \in is : TRUE
OldOf(is, want)    == CHOOSE i \in Unmatched(is, want) : TRUE
WishOf(is, want)   == CHOOSE k \in Replacements(is, want) : TRUE

MissingTypes(is, want) == TypesOf(Range(want)) \ TypesOf(is)

\* The interfaces to send: the served wishes with the ids of theirs, and the others.
Interface(w, id) ==
    [id |-> id, type |-> w.type, addr |-> w.addr, port |-> w.port, main |-> w.main]
Retained(is, want) == {Interface(want[k], Match(is, want)[k]) :
                           k \in DOMAIN want \ Unserved(is, want)}
Lacking(is, want)  == Restrict(want, Unserved(is, want))

VARIABLES
    ifaces, nextId,        \* of the host: its interfaces, the id the next one gets
    linked, on,            \* its template; the interface of each item, None if not there
    config, template,      \* what NetBox asks for
    pc,                    \* the call the run makes next
    wishes, askedTmpl,       \* what the run read in NetBox
    seen, transfer,        \* host["interfaces"], and may items still be moved
    old, new, moving,      \* the move under way: from, to, and the items listed
    outcome,               \* how the last run ended
    quiet, before,         \* history: no change by people since the run began; the
                           \* interfaces the host had then
    edits, faults          \* how much of each bound is spent

host   == <<ifaces, nextId, linked, on>>
netbox == <<config, template>>
asking == <<wishes, askedTmpl>>
move   == <<old, new, moving>>
past   == <<quiet, before>>
vars   == <<host, netbox, pc, asking, seen, transfer, move, outcome, past, edits, faults>>

PCs == {"idle", "check", "stage", "stageRead", "swap", "reconcile", "addRead",
        "items", "move"}
Interfaces == [id: Nat, type: Types, addr: Addresses, port: Ports, main: BOOLEAN]

TypeOK ==
    /\ ifaces \subseteq Interfaces /\ seen \subseteq Interfaces
    /\ before \subseteq Interfaces
    /\ nextId \in Nat /\ \A i \in ifaces : i.id \in 1..(nextId - 1)
    /\ \A i, j \in ifaces : i.id = j.id => i = j
    /\ linked \in Templates /\ template \in Templates /\ askedTmpl \in Templates
    /\ on \in [Items -> Ids(ifaces) \cup {None}]
    /\ config \in Configs /\ wishes \in {Asked(c) : c \in Configs}
    /\ pc \in PCs
    /\ transfer \in BOOLEAN /\ quiet \in BOOLEAN
    /\ old \in Nat /\ new \in Nat /\ moving \subseteq Items
    /\ outcome \in {"none", "done", "failed"}
    /\ edits \in 0..MaxEdits /\ faults \in 0..MaxFaults
-----------------------------------------------------------------------------
(* Zabbix.                                                                  *)

\* A list of interfaces is sent as those with an id, a set, and the wishes sent
\* without one by their place in the list of wishes.
MainCount(kept, fresh, t) ==
    Cardinality({i \in kept : i.type = t /\ i.main})
        + Cardinality({k \in DOMAIN fresh : fresh[k].type = t /\ fresh[k].main})
MainsRight(kept, fresh) == \A t \in TypesOf(kept \cup Range(fresh)) :
                               MainCount(kept, fresh, t) = 1

UpdatableAnyhow(kept, fresh) == Ids(kept) \subseteq Ids(ifaces) /\ MainsRight(kept, fresh)

\* host.update(interfaces=...): what is not sent with its id is deleted, which
\* is refused while an item polls through it; every type keeps one main interface.
Updatable(kept, fresh) ==
    /\ Ids(kept) \subseteq Ids(ifaces)
    /\ \A x \in Items : on[x] \in Ids(kept) \cup {None}
    /\ MainsRight(kept, fresh)

\* The new interfaces get the next ids in the order of the list.
NewOnes(fresh) ==
    {Interface(fresh[k], nextId + Cardinality({j \in DOMAIN fresh : j < k})) : k \in DOMAIN fresh}
Replace(kept, fresh) ==
    /\ ifaces' = kept \cup NewOnes(fresh)
    /\ nextId' = nextId + Cardinality(DOMAIN fresh)

\* The interfaces an item can poll through.
Fits(x, i) == x \in Templates => i.type \in ItemTypes[x]
Carriers(t, is) == {i \in is : Fits(t, i) /\ i.main}

\* A template is linked to a host that has an interface for its items.
Linkable(t) == Carriers(t, ifaces) # {}

Movable(xs, id) == \A x \in xs : on[x] # None /\ \E i \in ifaces : i.id = id /\ Fits(x, i)
-----------------------------------------------------------------------------
(* A run over the host.                                                     *)

End(how) ==
    /\ pc' = "idle"
    /\ outcome' = how
    /\ seen' = {} /\ transfer' = FALSE
    /\ old' = None /\ new' = None /\ moving' = {}

\* The NetBox object is read; the handling of the host starts from this reading.
StartRun ==
    /\ pc = "idle"
    /\ wishes' = Asked(config) /\ askedTmpl' = template
    /\ quiet' = TRUE /\ before' = ifaces
    /\ outcome' = "none"
    /\ pc' = "check"
    /\ UNCHANGED <<host, netbox, seen, transfer, move, edits, faults>>

\* consistency_check reads the host.  With the template as asked for, items may
\* be moved; a template to swap needs its interfaces first.
CheckHost ==
    /\ pc = "check"
    /\ linked # askedTmpl => wishes # Refused
    /\ seen' = ifaces
    /\ transfer' = (linked = askedTmpl)
    /\ pc' = IF linked = askedTmpl THEN "reconcile"
             ELSE IF MissingTypes(ifaces, wishes) # {} THEN "stage" ELSE "swap"
    /\ UNCHANGED <<host, netbox, asking, move, outcome, past, edits, faults>>

\* InterfaceConfigError, before the template is swapped or at the very end.
ConfigFails ==
    /\ (pc = "check" /\ linked # askedTmpl) \/ pc = "reconcile"
    /\ wishes = Refused
    /\ End("failed")
    /\ UNCHANGED <<host, netbox, asking, past, edits, faults>>

\* _add_missing_interface_types keeps all the host was seen to have, as it was.
StagedNothing(want) == Restrict(want, {})
Staged(want) ==
    Restrict(want, {k \in DOMAIN want : want[k].type \in MissingTypes(seen, want)})

AddTypes ==
    /\ pc = "stage"
    /\ Updatable(seen, Staged(wishes))
    /\ Replace(seen, Staged(wishes))
    /\ pc' = "stageRead"
    /\ UNCHANGED <<linked, on, netbox, asking, seen, transfer, move, outcome, past,
                   edits, faults>>

ReadStaged ==
    /\ pc = "stageRead"
    /\ seen' = ifaces
    /\ pc' = "swap"
    /\ UNCHANGED <<host, netbox, asking, transfer, move, outcome, past, edits, faults>>

\* templates and templates_clear in one host.update: the items of the template
\* cleared go, those of the new one appear.
SwapTemplate ==
    /\ pc = "swap"
    /\ Linkable(askedTmpl)
    /\ \E i \in Carriers(askedTmpl, ifaces) :
           on' = [x \in Items |-> IF x = askedTmpl THEN i.id
                                  ELSE IF x = linked THEN None ELSE on[x]]
    /\ linked' = askedTmpl
    /\ pc' = "reconcile"
    /\ UNCHANGED <<ifaces, nextId, netbox, asking, seen, transfer, move, outcome, past,
                   edits, faults>>

\* The one wish that may take over the left-over interface is not on the host yet.
WishAlone == Restrict(wishes, {WishOf(seen, wishes)})
AddReplacement ==
    /\ pc = "reconcile" /\ wishes # Refused
    /\ transfer /\ Replaces(seen, wishes)
    /\ Unserved(seen, wishes) # {}
    /\ Updatable(seen, WishAlone)
    /\ Replace(seen, WishAlone)
    /\ old' = OldOf(seen, wishes).id
    /\ pc' = "addRead"
    /\ UNCHANGED <<linked, on, netbox, asking, seen, transfer, new, moving, outcome, past,
                   edits, faults>>

\* The replacement is the one interface of that type whose id was not there.
Added == {i \in ifaces : /\ i.type = wishes[WishOf(seen, wishes)].type
                         /\ i.id \notin Ids(seen)}
ReadAdded ==
    /\ pc = "addRead"
    /\ Cardinality(Added) = 1
    /\ new' = First(Added)
    /\ seen' = ifaces
    /\ pc' = "items"
    /\ UNCHANGED <<host, netbox, asking, transfer, old, moving, outcome, past, edits, faults>>

NoneAdded ==
    /\ pc = "addRead"
    /\ Cardinality(Added) # 1
    /\ End("failed")
    /\ UNCHANGED <<host, netbox, asking, past, edits, faults>>

\* An interrupted transition is taken up: the replacement is there already.
ResumeMove ==
    /\ pc = "reconcile" /\ wishes # Refused
    /\ transfer /\ Replaces(seen, wishes)
    /\ Unserved(seen, wishes) = {}
    /\ old' = OldOf(seen, wishes).id
    /\ new' = Match(seen, wishes)[WishOf(seen, wishes)]
    /\ pc' = "items"
    /\ UNCHANGED <<host, netbox, asking, seen, transfer, moving, outcome, past, edits, faults>>

\* item.get by the old interface; with none the old interface can go.
ListItems ==
    /\ pc = "items"
    /\ moving' = {x \in Items : on[x] = old}
    /\ transfer' = FALSE
    /\ pc' = IF moving' = {} THEN "reconcile" ELSE "move"
    /\ UNCHANGED <<host, netbox, asking, seen, old, new, outcome, past, edits, faults>>

\* item.update for all of them, or for none.
MoveItems ==
    /\ pc = "move"
    /\ Movable(moving, new)
    /\ on' = [x \in Items |-> IF x \in moving THEN new ELSE on[x]]
    /\ pc' = "reconcile"
    /\ UNCHANGED <<ifaces, nextId, linked, netbox, asking, seen, transfer, move, outcome,
                   past, edits, faults>>

\* The list asked for replaces the host's: retained interfaces carry their id.
InSyncWithMore ==
    /\ Unserved(seen, wishes) = {}
    /\ Retained(seen, wishes) \subseteq seen
InSync ==
    /\ Unmatched(seen, wishes) = {} /\ Unserved(seen, wishes) = {}
    /\ Retained(seen, wishes) \subseteq seen
ReplaceInterfaces ==
    /\ pc = "reconcile" /\ wishes # Refused
    /\ ~(transfer /\ Replaces(seen, wishes))
    /\ \/ InSync /\ UNCHANGED <<ifaces, nextId>>
       \/ /\ ~InSync
          /\ Updatable(Retained(seen, wishes), Lacking(seen, wishes))
          /\ Replace(Retained(seen, wishes), Lacking(seen, wishes))
    /\ End("done")
    /\ UNCHANGED <<linked, on, netbox, asking, past, edits, faults>>

\* Zabbix refuses the call: SyncExternalError, the host as it is.
ZabbixRefuses ==
    /\ \/ pc = "stage" /\ ~Updatable(seen, Staged(wishes))
       \/ pc = "swap" /\ ~Linkable(askedTmpl)
       \/ pc = "move" /\ ~Movable(moving, new)
       \/ /\ pc = "reconcile" /\ wishes # Refused /\ transfer
          /\ Replaces(seen, wishes) /\ Unserved(seen, wishes) # {}
          /\ ~Updatable(seen, WishAlone)
       \/ /\ pc = "reconcile" /\ wishes # Refused
          /\ ~(transfer /\ Replaces(seen, wishes))
          /\ ~InSync
          /\ ~Updatable(Retained(seen, wishes), Lacking(seen, wishes))
    /\ End("failed")
    /\ UNCHANGED <<host, netbox, asking, past, edits, faults>>

\* Any call may fail for another reason, and the process may be killed: the
\* run keeps nothing.
RunFails ==
    /\ pc # "idle"
    /\ faults < MaxFaults
    /\ faults' = faults + 1
    /\ End("failed")
    /\ UNCHANGED <<host, netbox, asking, past, edits>>
-----------------------------------------------------------------------------
(* People.                                                                  *)

Edit == /\ edits < MaxEdits /\ edits' = edits + 1
        /\ quiet' = FALSE
        /\ UNCHANGED <<pc, asking, seen, transfer, move, outcome, before, faults>>

\* The config context and the template may be changed together.
ChangeWishes == \E c \in Configs, t \in Templates :
    /\ Edit
    /\ <<c, t>> # <<config, template>>
    /\ config' = c /\ template' = t
    /\ UNCHANGED host

\* An item added is never one of those a run listed before it was removed.
AddItem == \E x \in HandItems \ moving, i \in ifaces :
    /\ Edit
    /\ on[x] = None
    /\ on' = [on EXCEPT ![x] = i.id]
    /\ UNCHANGED <<ifaces, nextId, linked, netbox>>

DropItem == \E x \in HandItems :
    /\ Edit
    /\ on[x] # None
    /\ on' = [on EXCEPT ![x] = None]
    /\ UNCHANGED <<ifaces, nextId, linked, netbox>>

AddInterface == \E t \in Types, a \in Addresses :
    /\ Edit
    /\ ifaces' = ifaces \cup {[id |-> nextId, type |-> t, addr |-> a,
                               port |-> DefaultPort[t], main |-> t \notin TypesOf(ifaces)]}
    /\ nextId' = nextId + 1
    /\ UNCHANGED <<linked, on, netbox>>

DropInterface == \E i \in ifaces :
    /\ Edit
    /\ \A x \in Items : on[x] # i.id
    /\ i.main => \A j \in ifaces \ {i} : j.type # i.type
    /\ ifaces' = ifaces \ {i}
    /\ UNCHANGED <<nextId, linked, on, netbox>>

\* A host created by create_in_zabbix from the first reading of NetBox.
Init ==
    /\ config \in Configs /\ template \in Templates
    /\ Valid(config)
    /\ LET sent == Desired(config)
       IN  /\ ifaces = {Interface(sent[k], k) : k \in DOMAIN sent}
           /\ nextId = Len(sent) + 1
    /\ linked = template
    /\ \E i \in Carriers(template, ifaces) :
           on = [x \in Items |-> IF x = template THEN i.id ELSE None]
    /\ pc = "idle" /\ outcome = "none"
    /\ wishes = Asked(config) /\ askedTmpl = template
    /\ seen = {} /\ transfer = FALSE
    /\ old = None /\ new = None /\ moving = {}
    /\ quiet = FALSE /\ before = {}
    /\ edits = 0 /\ faults = 0

RunStep ==
    \/ StartRun \/ CheckHost \/ ConfigFails \/ AddTypes \/ ReadStaged \/ SwapTemplate
    \/ AddReplacement \/ ReadAdded \/ NoneAdded \/ ResumeMove \/ ListItems \/ MoveItems
    \/ ReplaceInterfaces \/ ZabbixRefuses

PeopleStep == ChangeWishes \/ AddItem \/ DropItem \/ AddInterface \/ DropInterface

Next == RunStep \/ RunFails \/ PeopleStep

Spec == Init /\ [][Next]_vars
\* The schedule starts a run again and again, and a started run goes on.
FairSpec == Spec /\ WF_vars(RunStep)
-----------------------------------------------------------------------------
(* Safety.                                                                  *)

\* The host has the interfaces and the template asked for, and no others.
Served(is, want) ==
    /\ Cardinality(is) = Len(want)
    /\ \E f \in [DOMAIN want -> is] :
           /\ Range(f) = is
           /\ \A k \in DOMAIN want : SameSettings(f[k], want[k])

\* A run that ends well, and during which nobody changed anything, leaves the
\* host with exactly the interfaces and the template it was asked for, whatever
\* state an earlier run had left it in (README.md: the list is authoritative).
DoneMeansServed ==
    outcome = "done" /\ quiet => /\ Served(ifaces, wishes)
                                 /\ linked = askedTmpl

OfType(is, t) == {i \in is : i.type = t}

\* Such a run kept the ids of as many interfaces of a type as the type had and
\* was to have (README.md: interfaces of the same type retain their Zabbix IDs).
SameTypeKeepsItsIds ==
    outcome = "done" /\ quiet => \A t \in Types :
        LET had  == Ids(OfType(before, t))
            has  == Ids(OfType(ifaces, t))
        IN  Cardinality(had \cap has) = Min({Cardinality(had), Cardinality(has)})

\* When the templates are swapped, the interface the new one needs is there, if
\* it is asked for at all, and every item of people is still on its interface.
SwapFindsItsInterface ==
    pc = "swap" /\ quiet /\ Carriers(askedTmpl, Range(wishes)) # {}
        => Linkable(askedTmpl)

\* While nobody changes the host, items are moved off an interface that the run is
\* going to drop, and onto one that it is going to keep (_replace_interface_type).
\* An interface that people remove between the two readings of the host may turn
\* the one that was left over into one that serves a wish.
MovedItemsAreKept ==
    [][pc = "move" /\ quiet /\ edits' = edits =>
          \A x \in Items : on'[x] # on[x] =>
              /\ on[x] \notin Range(Match(seen, wishes))
              /\ on'[x] \in Range(Match(seen, wishes))]_vars

\* Liveness: the host ends up as asked for, if its template can use what is
\* asked for, wherever runs were cut short.
Consistent == Valid(config) /\ Carriers(template, Range(Desired(config))) # {}
InterfacesConverge ==
    <>[](Consistent => Served(ifaces, Desired(config)) /\ linked = template)
=============================================================================
