---------------------------- MODULE HostSettings ----------------------------
(***************************************************************************)
(* The usermacros, the encryption and the proxy of one Zabbix host that    *)
(* netbox-zabbix-sync manages.                                             *)
(*                                                                         *)
(* A run reads what NetBox gives for the host and the list of proxies, then *)
(* the host, and then settles proxy, encryption and usermacros one call    *)
(* after the other, each against what it read.  Zabbix never shows the     *)
(* value of a secret usermacro, so the run compares without it; a list of  *)
(* usermacros is replaced as a whole, so in partial mode the run sends     *)
(* back the entries it does not own.  People change both sides meanwhile.  *)
(*                                                                         *)
(* Abstractions: a usermacro is its name, type and value (vault entries    *)
(* behave as text does, descriptions as values of text do); encryption is  *)
(* "open" or the identity in use (the pre-shared key is never returned and *)
(* never compared); a deleted proxy is not made again under its name; the  *)
(* host is not deleted, not one of a discovery rule and not just adopted   *)
(* (with metadata_only the proxy then waits for the next run); settings    *)
(* compared and written as a whole (status, inventory) are not here.       *)
(***************************************************************************)
EXTENDS Naturals

CONSTANTS
    Macros,              \* usermacro names
    Values,              \* what usermacros hold
    Identities,          \* encryption identities
    ProxyNames,          \* names of proxies and of proxy groups
    None,                \* nothing: no entry, no name, no usable setting
    Hidden,              \* the value of a secret as host.get shows it
    MaxEdits,            \* bound on changes by people in NetBox and Zabbix
    MaxFaults            \* bound on refused API calls and runs that end early

ASSUME NothingAssumption ==
    /\ Hidden \notin Values /\ None # Hidden
    /\ None \notin Values \cup ProxyNames \cup Identities \cup {"open"}
    /\ "open" \notin Identities
ASSUME SettingBoundAssumption == MaxEdits \in Nat /\ MaxFaults \in Nat

VARIABLES
    conf,                \* the configuration of the tool and the release of Zabbix
    want,                \* what NetBox gives now
    hosted,              \* is there a host yet
    macros, tls, proxy,  \* the host's settings in Zabbix
    proxies,             \* of a proxy or group: has it been made, does it exist
    pc,                  \* the call the run makes next
    wish, listed,        \* of the run: what NetBox gave, and zabbix_proxy_list
    seen,                \* of the run: the settings host.get showed
    lost,                \* usermacro entries deleted since the run read them
    steady, wrote,       \* history: no change since a run went well; a call was made
    edits, faults        \* how much of each bound is spent

host == <<hosted, macros, tls, proxy>>
read == <<wish, listed, seen, lost>>
vars == <<conf, want, host, proxies, pc, read, steady, wrote, edits, faults>>

Types   == {"text", "secret"}
Entries == [type : Types, value : Values]
Shown   == [type : {"text"}, value : Values] \cup [type : {"secret"}, value : {Hidden}]
Proxies == {"group", "proxy"} \X ProxyNames
ASSUME EntryAssumption == None \notin Entries \cup Shown

Modes    == {"off", "on", "partial", "full"}
Confs    == [usermacros : Modes, tlsSync : BOOLEAN, fullProxy : BOOLEAN, zabbix7 : BOOLEAN]
Names    == ProxyNames \cup {None}
TlsModes == Identities \cup {"open"}
Wishes   == [field : [Macros -> Values \cup {None}], context : [Macros -> Entries \cup {None}],
             tls : TlsModes \cup {None}, group : Names, proxyField : Names,
             proxyContext : Names]
Settings == [macros : [Macros -> Shown \cup {None}], tls : TlsModes,
             proxy : Proxies \cup {None}]

Nobody  == [k \in Macros |-> None]
NoWish  == [field |-> Nobody, context |-> Nobody, tls |-> None, group |-> None,
            proxyField |-> None, proxyContext |-> None]
Nothing == [macros |-> Nobody, tls |-> "open", proxy |-> None]

TypeOK ==
    /\ conf \in Confs /\ want \in Wishes /\ wish \in Wishes
    /\ hosted \in BOOLEAN
    /\ macros \in [Macros -> Entries \cup {None}]
    /\ tls \in TlsModes /\ proxy \in Proxies \cup {None}
    /\ proxies \in [Proxies -> {"new", "there", "gone"}]
    /\ pc \in {"idle", "take", "create", "proxy", "tls", "macros", "end"}
    /\ listed \subseteq Proxies /\ seen \in Settings /\ lost \subseteq Macros
    /\ steady \in {"no", "once", "yes"} /\ wrote \in BOOLEAN
    /\ edits \in 0..MaxEdits /\ faults \in 0..MaxFaults
-----------------------------------------------------------------------------
(* Usermacros.                                                              *)

\* host.get leaves the value of a secret out.
Show(e) == IF e # None /\ e.type = "secret" THEN [e EXCEPT !.value = Hidden] ELSE e

\* generate() lists the field map, then the config context; where an entry has
\* to be found by its name, the later one counts (merge_partial).
Text(v) == [type |-> "text", value |-> v]
Given(w, k) == IF w.context[k] # None THEN w.context[k]
               ELSE IF w.field[k] # None THEN Text(w.field[k]) ELSE None
Twice(w) == \E k \in Macros : w.field[k] # None /\ w.context[k] # None

\* The entry the run wants there.  The operators that stand before one they
\* resemble are mistakes the properties must notice.
DesiredAlone(k) == Given(wish, k)
Desired(k) == IF Given(wish, k) # None THEN Given(wish, k)
              ELSE IF conf.usermacros = "partial" THEN seen.macros[k] ELSE None

\* How that entry should look to host.get: NetBox's secrets are compared without
\* their value, unless "full" asks for them to be written in every run.
ExpectedAlways(k) == Desired(k)
Expected(k) == IF conf.usermacros = "full" THEN Desired(k) ELSE Show(Desired(k))

\* Zabbix refuses a list that names a macro twice; partial mode merges by name.
Doubled == Twice(wish) /\ conf.usermacros \in {"on", "full"}

MacrosInSyncOwn == \A k \in Macros :
    Given(wish, k) # None => seen.macros[k] = Expected(k)
MacrosInSync == /\ ~Doubled
                /\ \A k \in Macros : seen.macros[k] = Expected(k)

\* Zabbix takes an entry sent back without its value for the one it has under
\* that id, value included, and refuses the id of an entry that is gone.
SentBack(k) == Given(wish, k) = None /\ Desired(k) # None
AppliedAsSent(k) == Desired(k)
Applied(k) == IF SentBack(k) /\ Desired(k).value = Hidden
              THEN [Desired(k) EXCEPT !.value = macros[k].value] ELSE Desired(k)
MacrosTaken == ~Doubled /\ \A k \in lost : ~SentBack(k)
-----------------------------------------------------------------------------
(* Proxy and encryption.                                                    *)

\* _set_proxy: groups come first, and only Zabbix 7 knows them.  A group name
\* that matches no group stands in for the proxy name, unless a custom field
\* gives one; the config context is asked only if there is no name yet.
GroupName(w) == IF conf.zabbix7 THEN w.group ELSE None
ProxyName(w) == IF w.proxyField # None THEN w.proxyField
                ELSE IF GroupName(w) # None THEN GroupName(w) ELSE w.proxyContext
Chosen(w, known) ==
    IF <<"group", GroupName(w)>> \in known THEN <<"group", GroupName(w)>>
    ELSE IF <<"proxy", ProxyName(w)>> \in known THEN <<"proxy", ProxyName(w)>>
    ELSE None

ZbxProxy == Chosen(wish, listed)
ProxyGone == ZbxProxy # None /\ proxies[ZbxProxy] = "gone"

\* The host's proxy is left alone if NetBox gives none, unless full_proxy_sync.
ProxyInSyncLax == ZbxProxy \in {seen.proxy, None}
ProxyInSync == \/ ZbxProxy = seen.proxy
               \/ ZbxProxy = None /\ ~conf.fullProxy

\* set_tls: with an unknown mode, or a key or identity missing, nothing is set.
ManagesTls(w) == conf.tlsSync /\ w.tls # None
TlsInSync == ManagesTls(wish) => seen.tls = wish.tls
-----------------------------------------------------------------------------
Init ==
    /\ conf \in Confs
    /\ want \in Wishes
    /\ hosted \in BOOLEAN
    /\ macros \in [Macros -> Entries \cup {None}]
    /\ proxies \in [Proxies -> {"new", "there"}]
    /\ tls \in TlsModes /\ proxy \in {p \in Proxies : proxies[p] = "there"} \cup {None}
    /\ ~hosted => macros = Nobody /\ tls = "open" /\ proxy = None
    /\ pc = "idle"
    /\ wish = NoWish /\ listed = {} /\ seen = Nothing /\ lost = {}
    /\ steady = "no" /\ wrote = FALSE
    /\ edits = 0 /\ faults = 0

\* start() reads the records, then the proxies, before it turns to any source.
StartRun ==
    /\ pc = "idle"
    /\ pc' = "take"
    /\ wish' = want
    /\ listed' = {p \in Proxies : proxies[p] = "there"}
    /\ steady' = IF steady = "no" THEN "once" ELSE steady
    /\ UNCHANGED <<conf, want, host, proxies, seen, lost, wrote, edits, faults>>

\* host.get of consistency_check; a source without a host gets one.
TakeHost ==
    /\ pc = "take"
    /\ lost' = {}
    /\ IF hosted
         THEN /\ pc' = "proxy"
              /\ seen' = [macros |-> [k \in Macros |-> Show(macros[k])],
                          tls |-> tls, proxy |-> proxy]
         ELSE pc' = "create" /\ UNCHANGED seen
    /\ UNCHANGED <<conf, want, host, proxies, wish, listed, steady, wrote, edits, faults>>

\* The run is done with the host, whichever way; steady becomes st.
Leave(st) ==
    /\ pc' = "idle"
    /\ wish' = NoWish /\ listed' = {} /\ seen' = Nothing /\ lost' = {}
    /\ wrote' = FALSE
    /\ steady' = st

\* host.create carries all of them, the list of usermacros as generated.
CreateRefusable == \/ ProxyGone
                   \/ conf.usermacros # "off" /\ Twice(wish)

CreateHost ==
    /\ pc = "create" /\ ~CreateRefusable
    /\ hosted' = TRUE
    /\ macros' = [k \in Macros |->
                     IF conf.usermacros = "off" THEN None ELSE Given(wish, k)]
    /\ tls' = IF ManagesTls(wish) THEN wish.tls ELSE "open"
    /\ proxy' = ZbxProxy
    /\ pc' = "end" /\ wrote' = TRUE
    /\ UNCHANGED <<conf, want, proxies, read, steady, edits, faults>>

CreateRefused ==
    /\ pc = "create" /\ CreateRefusable
    /\ Leave("no")
    /\ UNCHANGED <<conf, want, host, proxies, edits, faults>>

\* What differs from the host as it was read is written, the rest is left.
SyncProxy ==
    /\ pc = "proxy"
    /\ \/ ProxyInSync /\ UNCHANGED <<proxy, wrote>>
       \/ ~ProxyInSync /\ ~ProxyGone /\ proxy' = ZbxProxy /\ wrote' = TRUE
    /\ pc' = "tls"
    /\ UNCHANGED <<conf, want, hosted, macros, tls, proxies, read, steady, edits, faults>>

\* The proxy was deleted since the list was read: the source fails.
ProxyRefused ==
    /\ pc = "proxy" /\ ~ProxyInSync /\ ProxyGone
    /\ Leave("no")
    /\ UNCHANGED <<conf, want, host, proxies, edits, faults>>

SyncTls ==
    /\ pc = "tls"
    /\ \/ TlsInSync /\ UNCHANGED <<tls, wrote>>
       \/ ~TlsInSync /\ tls' = wish.tls /\ wrote' = TRUE
    /\ pc' = "macros"
    /\ UNCHANGED <<conf, want, hosted, macros, proxy, proxies, read, steady, edits, faults>>

SyncMacros ==
    /\ pc = "macros"
    /\ \/ /\ conf.usermacros = "off" \/ MacrosInSync
          /\ UNCHANGED <<macros, wrote>>
       \/ /\ conf.usermacros # "off" /\ ~MacrosInSync /\ MacrosTaken
          /\ macros' = [k \in Macros |-> Applied(k)]
          /\ wrote' = TRUE
    /\ pc' = "end"
    /\ UNCHANGED <<conf, want, hosted, tls, proxy, proxies, read, steady, edits, faults>>

MacrosRefused ==
    /\ pc = "macros"
    /\ conf.usermacros # "off" /\ ~MacrosInSync /\ ~MacrosTaken
    /\ Leave("no")
    /\ UNCHANGED <<conf, want, host, proxies, edits, faults>>

FinishRun ==
    /\ pc = "end"
    /\ Leave(IF steady = "no" THEN "no" ELSE "yes")
    /\ UNCHANGED <<conf, want, host, proxies, edits, faults>>

\* A call is refused for another reason (the source fails), or the run dies.
RunFails ==
    /\ pc # "idle"
    /\ faults < MaxFaults
    /\ faults' = faults + 1
    /\ Leave("no")
    /\ UNCHANGED <<conf, want, host, proxies, edits>>
-----------------------------------------------------------------------------
(* People.                                                                  *)

Edit == /\ edits < MaxEdits /\ edits' = edits + 1
        /\ steady' = "no"
        /\ UNCHANGED <<conf, pc, wish, listed, seen, wrote, faults>>

GiveField(k) == \E v \in (Values \cup {None}) \ {want.field[k]} :
    /\ Edit
    /\ want' = [want EXCEPT !.field[k] = v]
    /\ UNCHANGED <<host, proxies, lost>>

GiveContext(k) == \E e \in (Entries \cup {None}) \ {want.context[k]} :
    /\ Edit
    /\ want' = [want EXCEPT !.context[k] = e]
    /\ UNCHANGED <<host, proxies, lost>>

GiveTls == \E t \in (TlsModes \cup {None}) \ {want.tls} :
    /\ Edit
    /\ want' = [want EXCEPT !.tls = t]
    /\ UNCHANGED <<host, proxies, lost>>

GiveProxy == \E n \in Names :
    /\ Edit
    /\ want' \in {[want EXCEPT !.group = n], [want EXCEPT !.proxyField = n],
                 [want EXCEPT !.proxyContext = n]} \ {want}
    /\ UNCHANGED <<host, proxies, lost>>

SetMacro(k) == \E e \in (Entries \cup {None}) \ {macros[k]} :
    /\ Edit
    /\ hosted
    /\ macros' = [macros EXCEPT ![k] = e]
    /\ lost' = IF e = None /\ pc # "idle" THEN lost \cup {k} ELSE lost
    /\ UNCHANGED <<want, hosted, tls, proxy, proxies>>

SetTls == \E t \in TlsModes \ {tls} :
    /\ Edit
    /\ hosted
    /\ tls' = t
    /\ UNCHANGED <<want, hosted, macros, proxy, proxies, lost>>

SetProxy == \E p \in ({q \in Proxies : proxies[q] = "there"} \cup {None}) \ {proxy} :
    /\ Edit
    /\ hosted
    /\ proxy' = p
    /\ UNCHANGED <<want, hosted, macros, tls, proxies, lost>>

AddProxy(p) ==
    /\ Edit
    /\ proxies[p] = "new"
    /\ proxies' = [proxies EXCEPT ![p] = "there"]
    /\ UNCHANGED <<want, host, lost>>

\* Zabbix keeps a proxy that monitors a host.
DeleteProxy(p) ==
    /\ Edit
    /\ proxies[p] = "there" /\ proxy # p
    /\ proxies' = [proxies EXCEPT ![p] = "gone"]
    /\ UNCHANGED <<want, host, lost>>
-----------------------------------------------------------------------------
RunStep == \/ StartRun \/ TakeHost \/ CreateHost \/ CreateRefused
           \/ SyncProxy \/ ProxyRefused \/ SyncTls \/ SyncMacros \/ MacrosRefused
           \/ FinishRun

People == \/ \E k \in Macros : GiveField(k) \/ GiveContext(k) \/ SetMacro(k)
          \/ GiveTls \/ GiveProxy \/ SetTls \/ SetProxy
          \/ \E p \in Proxies : AddProxy(p) \/ DeleteProxy(p)

Next == RunStep \/ RunFails \/ People

Spec == Init /\ [][Next]_vars

\* A scheduler starts the tool again and again, and a started run goes on.
FairSpec == Spec /\ WF_vars(RunStep)
-----------------------------------------------------------------------------
\* A run changes only the usermacros that are NetBox's to define: none when the
\* option is off, in partial mode only those NetBox gives, so that the others
\* keep even the value the run cannot read.  Excepted is an entry people changed
\* between the run's reading and its call (merge_partial, consistency_check).
Owned(k) == \/ conf.usermacros \in {"on", "full"}
            \/ conf.usermacros = "partial" /\ Given(wish, k) # None
ForeignMacrosAreKept ==
    [][\A k \in Macros :
          pc = "macros" /\ edits' = edits /\ ~Owned(k) /\ Show(macros[k]) = seen.macros[k]
          => macros'[k] = macros[k]]_vars

\* Once a run has gone well and nobody has changed anything since it began, the
\* next runs call no host.update, whatever hidden or merged values they compare
\* (usermacros, set_tls, _set_proxy in consistency_check).  Only "full" rewrites
\* its secrets for ever.
RewritesSecrets == /\ conf.usermacros = "full"
                   /\ \E k \in Macros : Given(want, k) \in [type : {"secret"}, value : Values]
SecondRunIsSilent == steady = "yes" /\ wrote => RewritesSecrets

\* Once people and failures let it, the host has the settings NetBox gives, the
\* values of secrets only with "full".  A macro that both the field map and the
\* context define stands in the way of a list NetBox owns, and of creation.
MacrosAsGiven == \A k \in Macros : LET e == Given(want, k) IN
    CASE conf.usermacros = "off" -> TRUE
      [] conf.usermacros = "full" -> macros[k] = e
      [] OTHER -> \/ Show(macros[k]) = Show(e)
                  \/ conf.usermacros = "partial" /\ e = None
ProxyAsGiven == LET p == Chosen(want, {q \in Proxies : proxies[q] = "there"}) IN
    \/ proxy = p
    \/ p = None /\ ~conf.fullProxy
TlsAsGiven == ManagesTls(want) => tls = want.tls
SettingsConverge ==
    /\ <>[](~hosted => conf.usermacros # "off" /\ Twice(want))
    /\ <>[](hosted => ProxyAsGiven /\ TlsAsGiven)
    /\ <>[](hosted /\ ~MacrosAsGiven => Twice(want) /\ conf.usermacros \in {"on", "full"})

\* "Usermacros from both config context and field maps" are NetBox's to give: a
\* source gets its host whatever it gives.  A macro given by both breaks it, as
\* host.create takes the list before merge_partial.
GivenTwiceGetsHosted == <>hosted
=============================================================================
