------------------------- MODULE HostSettingsProofs -------------------------
(* Types, the usermacros a run leaves alone and the silence of the second   *)
(* run, for any macros, values, proxies and bounds.                         *)
EXTENDS HostSettings, TLAPS

USE DEF host, read
-----------------------------------------------------------------------------
(* What entries are, and how they look to host.get.                         *)

LEMMA ShownEntry ==
  ASSUME NEW e \in Entries \cup {None}
  PROVE  Show(e) \in Shown \cup {None}
BY DEF Show, Entries, Shown, Types

LEMMA ShowTwice ==
  ASSUME NEW e \in Entries \cup {None}
  PROVE  Show(Show(e)) = Show(e)
BY DEF Show, Entries, Types

LEMMA GivenEntry ==
  ASSUME NEW w \in Wishes, NEW k \in Macros
  PROVE  Given(w, k) \in Entries \cup {None}
BY DEF Given, Text, Wishes, Entries, Types

\* An entry that the run saw is still there, or people deleted it meanwhile.
SeenIsThere == pc \in {"proxy", "tls", "macros"} =>
    \A k \in Macros \ lost : seen.macros[k] # None => macros[k] # None

TypeInv == TypeOK /\ SeenIsThere

LEMMA SentEntry ==
  ASSUME TypeInv, pc = "macros", MacrosTaken, NEW k \in Macros
  PROVE  Applied(k) \in Entries \cup {None}
<1>1. Given(wish, k) \in Entries \cup {None}
  BY GivenEntry DEF TypeInv, TypeOK
<1>2. seen.macros[k] \in Shown \cup {None}
  BY DEF TypeInv, TypeOK, Settings
<1>3. CASE ~SentBack(k)
  BY <1>1, <1>3 DEF Applied, SentBack, Desired
<1>4. CASE SentBack(k)
  <2>1. Desired(k) = seen.macros[k] /\ seen.macros[k] \in Shown
    BY <1>2, <1>4 DEF SentBack, Desired
  <2>2. macros[k] \in Entries
    BY <1>4, <2>1 DEF MacrosTaken, SentBack, Desired, TypeInv, TypeOK, SeenIsThere
  <2> QED
    BY <1>4, <2>1, <2>2, NothingAssumption DEF Applied, Shown, Entries, Types
<1> QED
  BY <1>3, <1>4

LEMMA ChosenProxy ==
  ASSUME NEW w \in Wishes, NEW known \in SUBSET Proxies
  PROVE  Chosen(w, known) \in Proxies \cup {None}
BY DEF Chosen
-----------------------------------------------------------------------------
LEMMA TypeInit == Init => TypeInv
<1> SUFFICES ASSUME Init PROVE TypeInv
  OBVIOUS
<1>1. NoWish \in Wishes
  BY DEF NoWish, Nobody, Wishes, Names
<1>2. Nothing \in Settings
  BY DEF Nothing, Nobody, Settings, TlsModes
<1>3. proxies \in [Proxies -> {"new", "there", "gone"}] /\ proxy \in Proxies \cup {None}
  BY DEF Init
<1>4. edits \in 0..MaxEdits /\ faults \in 0..MaxFaults
  BY SettingBoundAssumption DEF Init
<1>5. TypeOK
  BY <1>1, <1>2, <1>3, <1>4 DEF Init, TypeOK
<1> QED
  BY <1>5 DEF Init, SeenIsThere, TypeInv

LEMMA LeaveType ==
  ASSUME TypeInv, NEW st \in {"no", "once", "yes"}, Leave(st)
  PROVE  /\ pc' = "idle" /\ wish' \in Wishes /\ listed' \subseteq Proxies
         /\ seen' \in Settings /\ lost' \subseteq Macros
         /\ wrote' \in BOOLEAN /\ steady' \in {"no", "once", "yes"}
<1>1. NoWish \in Wishes
  BY DEF NoWish, Nobody, Wishes, Names
<1>2. Nothing \in Settings
  BY DEF Nothing, Nobody, Settings, TlsModes
<1> QED
  BY <1>1, <1>2 DEF Leave

LEMMA EditType ==
  ASSUME TypeInv, Edit
  PROVE  /\ conf' \in Confs /\ pc' = pc /\ wish' \in Wishes /\ listed' \subseteq Proxies
         /\ seen' = seen /\ seen' \in Settings /\ steady' \in {"no", "once", "yes"}
         /\ wrote' \in BOOLEAN /\ edits' \in 0..MaxEdits /\ faults' \in 0..MaxFaults
BY SettingBoundAssumption DEF Edit, TypeInv, TypeOK

LEMMA TypeStep == TypeInv /\ [Next]_vars => TypeInv'
<1> SUFFICES ASSUME TypeInv, [Next]_vars PROVE TypeInv'
  OBVIOUS
<1> USE DEF TypeInv
<1>1. CASE StartRun
  BY <1>1 DEF StartRun, TypeOK, SeenIsThere
<1>2. CASE TakeHost
  <2>1. CASE hosted
    <3>1. seen' \in Settings
      BY <1>2, <2>1, ShownEntry DEF TakeHost, TypeOK, Settings
    <3>2. \A k \in Macros : seen'.macros[k] # None => macros[k] # None
      BY <1>2, <2>1 DEF TakeHost, Show
    <3> QED
      BY <1>2, <2>1, <3>1, <3>2 DEF TakeHost, TypeOK, SeenIsThere
  <2>2. CASE ~hosted
    BY <1>2, <2>2 DEF TakeHost, TypeOK, SeenIsThere
  <2> QED
    BY <2>1, <2>2
<1>3. CASE CreateHost
  <2>1. macros' \in [Macros -> Entries \cup {None}]
    BY <1>3, GivenEntry DEF CreateHost, TypeOK
  <2>2. tls' \in TlsModes
    BY <1>3 DEF CreateHost, TypeOK, TlsModes, Wishes, ManagesTls
  <2>3. proxy' \in Proxies \cup {None}
    BY <1>3, ChosenProxy DEF CreateHost, TypeOK, ZbxProxy
  <2> QED
    BY <1>3, <2>1, <2>2, <2>3 DEF CreateHost, TypeOK, SeenIsThere
<1>4. CASE CreateRefused \/ ProxyRefused \/ MacrosRefused \/ RunFails \/ FinishRun
  <2>1. \E st \in {"no", "once", "yes"} : Leave(st)
    BY <1>4 DEF CreateRefused, ProxyRefused, MacrosRefused, RunFails, FinishRun, TypeOK
  <2>2. UNCHANGED <<conf, want, host, proxies, edits>> /\ faults' \in 0..MaxFaults
    BY <1>4, SettingBoundAssumption
    DEF CreateRefused, ProxyRefused, MacrosRefused, RunFails, FinishRun, TypeOK
  <2> QED
    BY <2>1, <2>2, LeaveType DEF TypeOK, SeenIsThere
<1>5. CASE SyncProxy
  <2>1. proxy' \in Proxies \cup {None}
    BY <1>5, ChosenProxy DEF SyncProxy, TypeOK, ZbxProxy
  <2> QED
    BY <1>5, <2>1 DEF SyncProxy, TypeOK, SeenIsThere
<1>6. CASE SyncTls
  <2>1. tls' \in TlsModes
    BY <1>6 DEF SyncTls, TypeOK, TlsModes, Wishes, TlsInSync, ManagesTls
  <2> QED
    BY <1>6, <2>1 DEF SyncTls, TypeOK, SeenIsThere
<1>7. CASE SyncMacros
  <2>1. macros' \in [Macros -> Entries \cup {None}]
    BY <1>7, SentEntry DEF SyncMacros, TypeOK
  <2> QED
    BY <1>7, <2>1 DEF SyncMacros, TypeOK, SeenIsThere
<1>8. CASE People
  <2>1. ASSUME NEW k \in Macros, GiveField(k) \/ GiveContext(k) PROVE TypeInv'
    <3>1. want' \in Wishes
      BY <2>1 DEF GiveField, GiveContext, TypeOK, Wishes
    <3> QED
      BY <2>1, <3>1, EditType DEF GiveField, GiveContext, TypeOK, SeenIsThere
  <2>2. CASE GiveTls \/ GiveProxy
    <3>1. want' \in Wishes
      BY <2>2 DEF GiveTls, GiveProxy, TypeOK, Wishes
    <3> QED
      BY <2>2, <3>1, EditType DEF GiveTls, GiveProxy, TypeOK, SeenIsThere
  <2>3. ASSUME NEW k \in Macros, SetMacro(k) PROVE TypeInv'
    <3>1. macros' \in [Macros -> Entries \cup {None}] /\ lost' \subseteq Macros
      BY <2>3 DEF SetMacro, TypeOK
    <3>2. SeenIsThere'
      BY <2>3, EditType DEF SetMacro, TypeOK, SeenIsThere
    <3> QED
      BY <2>3, <3>1, <3>2, EditType DEF SetMacro, TypeOK
  <2>4. CASE SetTls \/ SetProxy
    BY <2>4, EditType DEF SetTls, SetProxy, TypeOK, SeenIsThere
  <2>5. ASSUME NEW p \in Proxies, AddProxy(p) \/ DeleteProxy(p) PROVE TypeInv'
    BY <2>5, EditType DEF AddProxy, DeleteProxy, TypeOK, SeenIsThere
  <2> QED
    BY <1>8, <2>1, <2>2, <2>3, <2>4, <2>5 DEF People
<1>9. CASE UNCHANGED vars
  BY <1>9 DEF vars, TypeOK, SeenIsThere
<1> QED
  BY <1>1, <1>2, <1>3, <1>4, <1>5, <1>6, <1>7, <1>8, <1>9 DEF Next, RunStep

\* Every reachable state is of the declared types, for any values, proxies and
\* identities: an entry sent back without its value always has one to keep.
THEOREM TypeCorrect == Spec => []TypeOK
<1>1. TypeInv => TypeOK
  BY DEF TypeInv
<1> QED
  BY <1>1, TypeInit, TypeStep, PTL DEF Spec
-----------------------------------------------------------------------------
(* What a run leaves alone.                                                 *)

LEMMA SentBackAsItIs ==
  ASSUME TypeInv, NEW k \in Macros, conf.usermacros = "partial", Given(wish, k) = None,
         Show(macros[k]) = seen.macros[k]
  PROVE  Applied(k) = macros[k]
<1>1. macros[k] \in Entries \cup {None}
  BY DEF TypeInv, TypeOK
<1>2. Desired(k) = Show(macros[k])
  BY DEF Desired
<1>3. CASE macros[k] = None
  <2>1. Desired(k) = None /\ ~SentBack(k)
    BY <1>2, <1>3 DEF Show, SentBack
  <2> QED
    BY <1>3, <2>1 DEF Applied
<1>4. CASE macros[k] # None /\ macros[k].type # "secret"
  <2>1. Desired(k) = macros[k] /\ Desired(k).value # Hidden
    BY <1>1, <1>2, <1>4, NothingAssumption DEF Show, Entries
  <2> QED
    BY <2>1 DEF Applied
<1>5. CASE macros[k] # None /\ macros[k].type = "secret"
  <2>1. Desired(k) = [macros[k] EXCEPT !.value = Hidden]
    BY <1>2, <1>5 DEF Show
  <2>2. macros[k] \in [type : Types, value : Values]
    BY <1>1, <1>5 DEF Entries
  <2>3. CASE SentBack(k)
    <3>1. Applied(k) = [Desired(k) EXCEPT !.value = macros[k].value]
      BY <2>1, <2>2, <2>3 DEF Applied
    <3> QED
      BY <2>1, <2>2, <3>1
  <2>4. SentBack(k)
    <3>1. Show(macros[k]) \in Shown
      BY <1>1, <1>5, <2>1, <1>2, ShownEntry, EntryAssumption DEF Show, Shown, Entries, Types
    <3> QED
      BY <1>2, <3>1, EntryAssumption DEF SentBack
  <2> QED
    BY <2>3, <2>4
<1> QED
  BY <1>3, <1>4, <1>5

\* A run leaves the usermacros that are not NetBox's to define as they are, the
\* values of secrets it cannot read included (merge_partial, sync_usermacros).
THEOREM ForeignMacrosStay == Spec => ForeignMacrosAreKept
<1>1. ASSUME TypeInv, [Next]_vars, NEW k \in Macros, pc = "macros", edits' = edits,
             ~Owned(k), Show(macros[k]) = seen.macros[k]
      PROVE  macros'[k] = macros[k]
  <2>1. CASE SyncMacros
    <3>1. CASE UNCHANGED macros
      BY <3>1
    <3>2. CASE conf.usermacros # "off" /\ macros' = [j \in Macros |-> Applied(j)]
      <4>1. conf.usermacros = "partial" /\ Given(wish, k) = None
        BY <1>1, <3>2 DEF Owned, TypeInv, TypeOK, Confs, Modes
      <4> QED
        BY <1>1, <3>2, <4>1, SentBackAsItIs
    <3> QED
      BY <2>1, <3>1, <3>2 DEF SyncMacros
  <2>2. CASE MacrosRefused \/ RunFails \/ UNCHANGED vars
    BY <2>2 DEF MacrosRefused, RunFails, vars
  <2>3. ~People
    BY <1>1, SettingBoundAssumption DEF TypeInv, TypeOK, People, Edit, GiveField, GiveContext,
       SetMacro, GiveTls, GiveProxy, SetTls, SetProxy, AddProxy, DeleteProxy
  <2>4. CASE RunStep /\ ~SyncMacros /\ ~MacrosRefused
    BY <1>1, <2>4 DEF RunStep, StartRun, TakeHost, CreateHost, CreateRefused, SyncProxy,
       ProxyRefused, SyncTls, FinishRun
  <2> QED
    BY <1>1, <2>1, <2>2, <2>3, <2>4 DEF Next
<1>2. TypeInv /\ [Next]_vars =>
      [\A k \in Macros :
          pc = "macros" /\ edits' = edits /\ ~Owned(k) /\ Show(macros[k]) = seen.macros[k]
          => macros'[k] = macros[k]]_vars
  BY <1>1
<1> QED
  BY <1>2, TypeInit, TypeStep, PTL DEF Spec, ForeignMacrosAreKept
-----------------------------------------------------------------------------
(* The run after one that went well.                                        *)

There == {p \in Proxies : proxies[p] = "there"}

\* While nothing changes, what the run has read is what there is, for the
\* settings it has not turned to yet.
ReadIsCurrent == steady # "no" =>
    /\ pc # "idle" => wish = want /\ listed = There
    /\ pc = "proxy" => seen.proxy = proxy
    /\ pc \in {"proxy", "tls"} => seen.tls = tls
    /\ pc \in {"proxy", "tls", "macros"} => seen.macros = [k \in Macros |-> Show(macros[k])]

\* The usermacros, as far as host.get shows them, are those NetBox gives.
MacrosSettled == conf.usermacros # "off" =>
    /\ ~(Twice(want) /\ conf.usermacros \in {"on", "full"})
    /\ \A k \in Macros : Given(want, k) # None \/ conf.usermacros # "partial"
                            => Show(macros[k]) = Show(Given(want, k))

\* What the run has turned to, and everything once a run is through, is settled.
Settled == steady # "no" =>
    /\ steady = "once" => pc # "idle"
    /\ steady = "yes" => hosted /\ pc # "create"
    /\ pc \in {"proxy", "tls", "macros", "end"} => hosted
    /\ steady = "yes" \/ pc \in {"tls", "macros", "end"} => ProxyAsGiven
    /\ steady = "yes" \/ pc \in {"macros", "end"} => TlsAsGiven
    /\ steady = "yes" \/ pc = "end" => MacrosSettled

QuietInv == /\ TypeInv /\ ReadIsCurrent /\ Settled
            /\ pc = "idle" => wrote = FALSE
            /\ SecondRunIsSilent

LEMMA QuietInit == Init => QuietInv
  BY TypeInit DEF Init, QuietInv, ReadIsCurrent, Settled, SecondRunIsSilent

\* An unsteady state asks for nothing.
LEMMA UnsteadyIsQuiet ==
  ASSUME TypeInv', steady' = "no", pc' = "idle" => wrote' = FALSE
  PROVE  QuietInv'
BY DEF QuietInv, ReadIsCurrent, Settled, SecondRunIsSilent

\* Settled usermacros are in sync with what is read of them, or there is a secret
\* that usermacro_sync "full" writes in every run.
LEMMA SettledIsInSync ==
  ASSUME QuietInv, steady = "yes", pc = "macros", conf.usermacros # "off"
  PROVE  MacrosInSync \/ RewritesSecrets
<1> USE DEF QuietInv, TypeInv
<1>1. MacrosSettled /\ wish = want
  BY DEF Settled, ReadIsCurrent
<1>2. ~Doubled
  BY <1>1 DEF MacrosSettled, Doubled
<1>3. SUFFICES ASSUME ~RewritesSecrets, NEW k \in Macros PROVE seen.macros[k] = Expected(k)
  BY <1>2 DEF MacrosInSync
<1>4. /\ macros[k] \in Entries \cup {None} /\ seen.macros[k] = Show(macros[k])
      /\ Given(want, k) \in Entries \cup {None}
  BY GivenEntry DEF TypeOK, ReadIsCurrent
<1>5. CASE Given(want, k) = None /\ conf.usermacros = "partial"
  <2>1. Desired(k) = Show(macros[k])
    BY <1>1, <1>4, <1>5 DEF Desired
  <2> QED
    BY <1>4, <1>5, <2>1, ShowTwice DEF Expected
<1>6. CASE Given(want, k) # None \/ conf.usermacros # "partial"
  <2>1. seen.macros[k] = Show(Given(want, k)) /\ Desired(k) = Given(want, k)
    BY <1>1, <1>4, <1>6 DEF MacrosSettled, Desired
  <2>2. CASE conf.usermacros # "full"
    BY <2>1, <2>2 DEF Expected
  <2>3. CASE conf.usermacros = "full"
    <3>1. Given(want, k) \notin [type : {"secret"}, value : Values]
      BY <1>3, <2>3 DEF RewritesSecrets
    <3>2. Show(Given(want, k)) = Given(want, k)
      BY <1>4, <3>1 DEF Show, Entries, Types
    <3> QED
      BY <2>1, <2>3, <3>2 DEF Expected
  <2> QED
    BY <2>2, <2>3
<1> QED
  BY <1>5, <1>6

\* Whether the run finds the usermacros in sync or writes them, they are settled.
LEMMA SyncSettlesMacros ==
  ASSUME QuietInv, steady # "no", SyncMacros
  PROVE  MacrosSettled'
<1> USE DEF QuietInv, TypeInv
<1>1. wish = want /\ pc = "macros" /\ UNCHANGED <<conf, want, wish>>
  BY DEF ReadIsCurrent, SyncMacros
<1>2. SUFFICES ASSUME conf.usermacros # "off" PROVE MacrosSettled'
  BY <1>1 DEF MacrosSettled
<1>3. ~Doubled
  BY <1>2 DEF SyncMacros, MacrosInSync, MacrosTaken
<1>4. SUFFICES ASSUME NEW k \in Macros, Given(want, k) # None \/ conf.usermacros # "partial"
               PROVE  Show(macros'[k]) = Show(Given(want, k))
  BY <1>1, <1>3 DEF MacrosSettled, Doubled, Twice, Given
<1>5. /\ macros[k] \in Entries \cup {None} /\ seen.macros[k] = Show(macros[k])
      /\ Given(want, k) \in Entries \cup {None} /\ Desired(k) = Given(want, k)
  BY <1>1, <1>4, GivenEntry DEF TypeOK, ReadIsCurrent, Desired
<1>6. CASE MacrosInSync /\ UNCHANGED macros
  <2>1. Show(macros[k]) = Given(want, k) \/ Show(macros[k]) = Show(Given(want, k))
    BY <1>5, <1>6 DEF MacrosInSync, Expected
  <2> QED
    BY <1>5, <1>6, <2>1, ShowTwice
<1>7. CASE macros' = [j \in Macros |-> Applied(j)]
  <2>1. ~SentBack(k)
    BY <1>1, <1>5 DEF SentBack
  <2> QED
    BY <1>5, <1>7, <2>1 DEF Applied
<1> QED
  BY <1>2, <1>6, <1>7 DEF SyncMacros

LEMMA QuietStep == QuietInv /\ [Next]_vars => QuietInv'
<1> SUFFICES ASSUME QuietInv, [Next]_vars PROVE QuietInv'
  OBVIOUS
<1>0. TypeInv'
  BY TypeStep DEF QuietInv
<1>1. CASE People
  <2>1. steady' = "no" /\ pc' = pc /\ wrote' = wrote
    BY <1>1 DEF People, Edit, GiveField, GiveContext, SetMacro, GiveTls, GiveProxy,
       SetTls, SetProxy, AddProxy, DeleteProxy
  <2> QED
    BY <1>0, <2>1, UnsteadyIsQuiet DEF QuietInv
<1>2. CASE CreateRefused \/ ProxyRefused \/ MacrosRefused \/ RunFails
  BY <1>0, <1>2, UnsteadyIsQuiet
  DEF CreateRefused, ProxyRefused, MacrosRefused, RunFails, Leave
<1>3. CASE UNCHANGED vars
  BY <1>0, <1>3 DEF vars, QuietInv, ReadIsCurrent, There, Settled, MacrosSettled, Twice,
     Given, ProxyAsGiven, Chosen, GroupName, ProxyName, TlsAsGiven, ManagesTls,
     SecondRunIsSilent, RewritesSecrets
<1>4. CASE RunStep /\ steady = "no" /\ ~StartRun
  <2>1. steady' = "no" /\ (pc' = "idle" => wrote' = FALSE)
    BY <1>4 DEF RunStep, TakeHost, CreateHost, CreateRefused, SyncProxy, ProxyRefused,
       SyncTls, SyncMacros, MacrosRefused, FinishRun, Leave
  <2> QED
    BY <1>0, <2>1, UnsteadyIsQuiet
<1>5. ASSUME UNCHANGED <<conf, want, macros>>, MacrosSettled PROVE MacrosSettled'
  BY <1>5 DEF MacrosSettled, Twice, Given
<1>6. ASSUME UNCHANGED <<conf, want, proxies, proxy>>, ProxyAsGiven PROVE ProxyAsGiven'
  BY <1>6 DEF ProxyAsGiven, Chosen, GroupName, ProxyName
<1>7. ASSUME UNCHANGED <<conf, want, tls>>, TlsAsGiven PROVE TlsAsGiven'
  BY <1>7 DEF TlsAsGiven, ManagesTls
<1>8. ASSUME UNCHANGED <<conf, want>>, RewritesSecrets PROVE RewritesSecrets'
  BY <1>8 DEF RewritesSecrets, Given
<1>9. CASE StartRun
  <2>1. ReadIsCurrent'
    BY <1>9 DEF StartRun, ReadIsCurrent, There
  <2>2. Settled'
    BY <1>5, <1>6, <1>7, <1>9 DEF StartRun, QuietInv, Settled
  <2>3. SecondRunIsSilent'
    BY <1>9 DEF StartRun, QuietInv, SecondRunIsSilent
  <2> QED
    BY <1>0, <1>9, <2>1, <2>2, <2>3 DEF StartRun, QuietInv
<1>10. CASE TakeHost /\ steady # "no"
  <2>1. ReadIsCurrent'
    BY <1>10 DEF TakeHost, QuietInv, ReadIsCurrent, There
  <2>2. Settled'
    BY <1>5, <1>6, <1>7, <1>10 DEF TakeHost, QuietInv, Settled
  <2>3. SecondRunIsSilent'
    BY <1>8, <1>10 DEF TakeHost, QuietInv, SecondRunIsSilent
  <2> QED
    BY <1>0, <1>10, <2>1, <2>2, <2>3 DEF TakeHost, QuietInv
<1>11. CASE CreateHost /\ steady # "no"
  <2>1. steady = "once" /\ wish = want /\ listed = There
    BY <1>11 DEF CreateHost, QuietInv, Settled, ReadIsCurrent, TypeInv, TypeOK
  <2>2. ProxyAsGiven'
    BY <1>11, <2>1 DEF CreateHost, ProxyAsGiven, ZbxProxy, There, Chosen, GroupName,
       ProxyName
  <2>3. TlsAsGiven'
    BY <1>11, <2>1 DEF CreateHost, TlsAsGiven, ManagesTls
  <2>4. MacrosSettled'
    <3>1. conf.usermacros # "off" =>
              ~Twice(want) /\ macros' = [k \in Macros |-> Given(want, k)]
      BY <1>11, <2>1 DEF CreateHost, CreateRefusable
    <3> QED
      BY <1>11, <3>1 DEF CreateHost, MacrosSettled, Twice, Given
  <2>5. ReadIsCurrent'
    BY <1>11, <2>1 DEF CreateHost, ReadIsCurrent, There
  <2>6. Settled'
    BY <1>11, <2>1, <2>2, <2>3, <2>4 DEF CreateHost, Settled
  <2> QED
    BY <1>0, <1>11, <2>1, <2>5, <2>6 DEF CreateHost, QuietInv, SecondRunIsSilent
<1>12. CASE SyncProxy /\ steady # "no"
  <2>1. wish = want /\ listed = There /\ seen.proxy = proxy
    BY <1>12 DEF SyncProxy, QuietInv, ReadIsCurrent
  <2>2. ZbxProxy = Chosen(want, There)
    BY <2>1 DEF ZbxProxy
  <2>3. ProxyAsGiven'
    <3>1. proxy' = Chosen(want, There) \/ (Chosen(want, There) = None /\ ~conf.fullProxy)
      BY <1>12, <2>1, <2>2 DEF SyncProxy, ProxyInSync
    <3> QED
      BY <1>12, <3>1 DEF SyncProxy, ProxyAsGiven, There, Chosen, GroupName, ProxyName
  <2>4. steady = "yes" => ProxyInSync
    BY <2>1, <2>2 DEF QuietInv, Settled, ProxyAsGiven, ProxyInSync, There
  <2>5. ReadIsCurrent'
    BY <1>12 DEF SyncProxy, QuietInv, ReadIsCurrent, There
  <2>6. Settled'
    BY <1>5, <1>7, <1>12, <2>3 DEF SyncProxy, QuietInv, Settled
  <2>7. SecondRunIsSilent'
    BY <1>8, <1>12, <2>4 DEF SyncProxy, QuietInv, SecondRunIsSilent
  <2> QED
    BY <1>0, <1>12, <2>5, <2>6, <2>7 DEF SyncProxy, QuietInv
<1>13. CASE SyncTls /\ steady # "no"
  <2>1. wish = want /\ seen.tls = tls
    BY <1>13 DEF SyncTls, QuietInv, ReadIsCurrent
  <2>2. TlsAsGiven'
    BY <1>13, <2>1 DEF SyncTls, TlsInSync, TlsAsGiven, ManagesTls
  <2>3. steady = "yes" => TlsInSync
    BY <2>1 DEF QuietInv, Settled, TlsAsGiven, TlsInSync
  <2>4. ReadIsCurrent'
    BY <1>13 DEF SyncTls, QuietInv, ReadIsCurrent, There
  <2>5. Settled'
    BY <1>5, <1>6, <1>13, <2>2 DEF SyncTls, QuietInv, Settled
  <2>6. SecondRunIsSilent'
    BY <1>8, <1>13, <2>3 DEF SyncTls, QuietInv, SecondRunIsSilent
  <2> QED
    BY <1>0, <1>13, <2>4, <2>5, <2>6 DEF SyncTls, QuietInv
<1>14. CASE SyncMacros /\ steady # "no"
  <2>1. MacrosSettled'
    BY <1>14, SyncSettlesMacros
  <2>2. ReadIsCurrent'
    BY <1>14 DEF SyncMacros, QuietInv, ReadIsCurrent, There
  <2>3. Settled'
    BY <1>6, <1>7, <1>14, <2>1 DEF SyncMacros, QuietInv, Settled
  <2>4. SecondRunIsSilent'
    BY <1>8, <1>14, SettledIsInSync DEF SyncMacros, QuietInv, SecondRunIsSilent
  <2> QED
    BY <1>0, <1>14, <2>2, <2>3, <2>4 DEF SyncMacros, QuietInv
<1>15. CASE FinishRun /\ steady # "no"
  <2>1. ReadIsCurrent' /\ SecondRunIsSilent'
    BY <1>15 DEF FinishRun, Leave, ReadIsCurrent, SecondRunIsSilent
  <2>2. Settled'
    BY <1>5, <1>6, <1>7, <1>15 DEF FinishRun, Leave, QuietInv, Settled
  <2> QED
    BY <1>0, <1>15, <2>1, <2>2 DEF FinishRun, Leave, QuietInv
<1> QED
  BY <1>1, <1>2, <1>3, <1>4, <1>9, <1>10, <1>11, <1>12, <1>13, <1>14, <1>15
  DEF Next, RunStep

\* A run after one that went well makes no call to Zabbix as long as nobody has
\* changed anything, but for secrets under usermacro_sync "full": hidden values,
\* merged entries and chosen proxies compare as equal (consistency_check).
THEOREM SecondRunWritesNothing == Spec => []SecondRunIsSilent
<1>1. QuietInv => SecondRunIsSilent
  BY DEF QuietInv
<1> QED
  BY <1>1, QuietInit, QuietStep, PTL DEF Spec
=============================================================================
