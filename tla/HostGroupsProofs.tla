-------------------------- MODULE HostGroupsProofs --------------------------
(* Theorems about HostGroups, for any deployments, sources and groups.       *)
EXTENDS HostGroups, FiniteSetTheorems, WellFoundedInduction, TLAPS

USE DEF zabbix, target, spent
-----------------------------------------------------------------------------
(* An id names one group for ever, so what a run knows of an id can only be  *)
(* outdated, never wrong: the group it knows bears the id, or none does.     *)

Known(g, i) == i \in 1..lastId /\ \A h \in Groups : gid[h] = i => h = g

IdInv ==
    /\ lastId \in Nat
    /\ gid \in [Groups -> Nat]
    /\ \A g \in Groups : gid[g] <= lastId
    /\ \A g, h \in Groups : gid[g] = gid[h] /\ gid[g] # 0 => g = h

Shape ==
    /\ want \in [Sources -> SUBSET Groups] /\ asked \in [Sources -> SUBSET Groups]
    /\ members \in [Sources -> SUBSET Nat]
    /\ pc \in [Deployments -> {"idle", "next", "create", "write"}]
    /\ todo \in [Deployments -> SUBSET Sources]
    /\ cur \in [Deployments -> Sources \cup {NoSource}]
    /\ DOMAIN list = Deployments /\ DOMAIN made = Deployments
    /\ DOMAIN got = Deployments
    /\ edits \in Nat

ListInv == \A d \in Deployments : \A g, i :
    <<g, i>> \in list[d] \cup made[d] => Known(g, i)

Busy(d) == pc[d] \in {"create", "write"}

TargetInv == \A d \in Deployments :
    /\ todo[d] \subseteq Mine(d)
    /\ Busy(d) => cur[d] \in Mine(d)
                  /\ \A i \in got[d] : \E g \in asked[cur[d]] : Known(g, i)

IInv == IdInv /\ Shape /\ ListInv /\ TargetInv
-----------------------------------------------------------------------------
(* Ids.                                                                      *)

NewId(g)   == lastId' = lastId + 1 /\ gid' = [gid EXCEPT ![g] = lastId + 1]
NoId(g)    == lastId' = lastId /\ gid' = [gid EXCEPT ![g] = 0]
IdsMove    == \/ UNCHANGED <<gid, lastId>>
              \/ \E g : NewId(g) \/ NoId(g)

\* The three ways in which ids come and go.
LEMMA IdsOnlyMove == [Next]_vars => IdsMove
<1> SUFFICES ASSUME [Next]_vars PROVE IdsMove
  OBVIOUS
<1> USE DEF IdsMove, NewId, NoId
<1>1. CASE \E d \in Deployments : RunStep(d) \/ TargetFails(d) \/ RunDies(d)
  <2> PICK d \in Deployments : RunStep(d) \/ TargetFails(d) \/ RunDies(d)
    BY <1>1
  <2>1. CASE CreateGroup(d)
    BY <2>1 DEF CreateGroup
  <2>2. CASE ~CreateGroup(d)
    BY <2>2 DEF RunStep, StartRun, SkipGroupless, TakeMatched, TakeMissing, TakeWith,
       CreateGroupRefused, ExtendList, KeepGroups, WriteGroups, WriteRefused, FinishRun,
       TargetFails, RunDies
  <2> QED  BY <2>1, <2>2
<1>2. CASE \E s \in Sources : ChangeWant(s) \/ Regroup(s)
  BY <1>2 DEF ChangeWant, Regroup
<1>3. CASE \E g \in Groups : AddGroup(g) \/ DeleteGroup(g)
  BY <1>3 DEF AddGroup, DeleteGroup
<1>4. CASE UNCHANGED vars
  BY <1>4 DEF vars
<1> QED  BY <1>1, <1>2, <1>3, <1>4 DEF Next

LEMMA IdsStayUnique == IdInv /\ IdsMove => IdInv'
  BY DEF IdInv, IdsMove, NewId, NoId

LEMMA KnownStaysKnown ==
  ASSUME IdInv, IdsMove, NEW g, NEW i, Known(g, i)
  PROVE  Known(g, i)'
  BY DEF IdInv, IdsMove, NewId, NoId, Known

\* What a run learns: the groups there are, and the one it creates.
LEMMA GroupsNowAreKnown ==
  ASSUME IdInv, NEW g, NEW i, <<g, i>> \in GroupsNow
  PROVE  Known(g, i)
  BY GroupBoundsAssumption DEF IdInv, GroupsNow, Pairs, Ids, Known

LEMMA NewIsKnown ==
  ASSUME IdInv, NEW g, NEW i, NewId(g), i = lastId + 1
  PROVE  Known(g, i)'
  BY DEF IdInv, NewId, Known
-----------------------------------------------------------------------------
(* What the runs hold.                                                       *)

LEMMA InitHolds == Init => IInv
<1> SUFFICES ASSUME Init PROVE IInv
  OBVIOUS
<1>1. Cardinality(Groups) \in Nat
  BY GroupBoundsAssumption, FS_CardinalityType
<1>2. IdInv
  BY <1>1 DEF Init, IdInv
<1>3. Shape
  BY DEF Init, Shape
<1>4. ListInv /\ TargetInv
  BY DEF Init, ListInv, TargetInv, Busy
<1> QED  BY <1>2, <1>3, <1>4 DEF IInv

LEMMA MatchedIsSubset == ASSUME NEW known, NEW gs PROVE MatchedIds(known, gs) \subseteq Nat
  BY GroupBoundsAssumption DEF MatchedIds, Ids

\* The steps of a run keep the kinds of things.
LEMMA RunKeepsShape ==
  ASSUME Shape, NEW d \in Deployments, RunStep(d) \/ TargetFails(d) \/ RunDies(d),
         WriteGroups(d) => cur[d] \in Sources /\ got[d] \subseteq Nat
  PROVE  Shape'
<1> USE DEF Shape, Goto
<1>1. CASE StartRun(d)
  BY <1>1 DEF StartRun, Mine
<1>2. CASE SkipGroupless(d)
  BY <1>2 DEF SkipGroupless
<1>3. CASE TakeMatched(d) \/ TakeMissing(d)
  BY <1>3 DEF TakeMatched, TakeMissing, TakeWith
<1>4. CASE CreateGroup(d)
  BY <1>4 DEF CreateGroup
<1>5. CASE CreateGroupRefused(d) \/ KeepGroups(d) \/ WriteRefused(d) \/ TargetFails(d)
  BY <1>5 DEF CreateGroupRefused, KeepGroups, WriteRefused, TargetFails, Settle
<1>6. CASE ExtendList(d)
  BY <1>6 DEF ExtendList
<1>7. CASE WriteGroups(d)
  BY <1>7 DEF WriteGroups, Settle
<1>8. CASE FinishRun(d) \/ RunDies(d)
  BY SMTT(30), <1>8 DEF FinishRun, RunDies, Leave
<1> QED  BY <1>1, <1>2, <1>3, <1>4, <1>5, <1>6, <1>7, <1>8 DEF RunStep

\* What people do is no matter of the runs.
LEMMA EditsKeepRuns ==
  ASSUME IInv,
         \/ \E s \in Sources : ChangeWant(s) \/ Regroup(s)
         \/ \E g \in Groups : AddGroup(g) \/ DeleteGroup(g)
  PROVE  Shape' /\ UNCHANGED <<pc, asked, todo, cur, list, made, got>> /\ edits' # edits
<1> USE DEF IInv, Shape, IdInv, Edit, KeepTheRuns
<1>1. CASE \E s \in Sources : ChangeWant(s)
  BY <1>1 DEF ChangeWant, Askable
<1>2. CASE \E s \in Sources : Regroup(s)
  BY <1>2 DEF Regroup, IdsOf
<1>3. CASE \E g \in Groups : AddGroup(g)
  BY <1>3 DEF AddGroup
<1>4. CASE \E g \in Groups : DeleteGroup(g)
  BY <1>4 DEF DeleteGroup
<1> QED  BY <1>1, <1>2, <1>3, <1>4

\* Lists are read from Zabbix and extended by what was created.
LEMMA RunKeepsLists ==
  ASSUME IInv, IdsMove, NEW d \in Deployments, RunStep(d) \/ TargetFails(d) \/ RunDies(d)
  PROVE  ListInv'
<1> SUFFICES ASSUME NEW e \in Deployments, NEW g, NEW i,
                    <<g, i>> \in list'[e] \cup made'[e]
             PROVE  Known(g, i)'
  BY DEF ListInv
<1>1. CASE <<g, i>> \in list[e] \cup made[e]
  BY <1>1, KnownStaysKnown DEF IInv, ListInv
<1>2. CASE <<g, i>> \notin list[e] \cup made[e]
  <2> USE DEF IInv, Shape
  <2>1. CASE StartRun(d)
    <3>1. <<g, i>> \in GroupsNow
      BY <1>2, <2>1 DEF StartRun
    <3> QED  BY <3>1, GroupsNowAreKnown, KnownStaysKnown
  <2>2. CASE CreateGroup(d)
    <3>1. g = Head(queue[d]) /\ i = lastId + 1 /\ NewId(g)
      BY <1>2, <2>2 DEF CreateGroup, NewId
    <3> QED  BY <3>1, NewIsKnown
  <2>3. CASE ~StartRun(d) /\ ~CreateGroup(d)
    BY <1>2, <2>3 DEF RunStep, SkipGroupless, TakeMatched, TakeMissing, TakeWith,
       CreateGroupRefused, ExtendList, KeepGroups, WriteGroups, WriteRefused, FinishRun,
       TargetFails, RunDies, Settle, Leave
  <2> QED  BY <2>1, <2>2, <2>3
<1> QED  BY <1>1, <1>2

\* A source at hand is given ids only of groups it asked for.
LEMMA RunKeepsTargets ==
  ASSUME IInv, IdsMove, NEW d \in Deployments, RunStep(d) \/ TargetFails(d) \/ RunDies(d)
  PROVE  TargetInv'
<1> USE DEF Busy, Mine, Goto
<1> USE GroupMapsAssumption
<1> DEFINE Holds(e) == /\ todo[e] \subseteq Mine(e)
                       /\ Busy(e) => cur[e] \in Mine(e)
                             /\ \A i \in got[e] : \E g \in asked[cur[e]] : Known(g, i)
<1>1. ASSUME NEW e \in Deployments, e # d PROVE Holds(e)'
  <2>1. /\ todo'[e] = todo[e] /\ pc'[e] = pc[e] /\ cur'[e] = cur[e] /\ got'[e] = got[e]
        /\ \A s \in Mine(e) : asked'[s] = asked[s]
    BY <1>1 DEF IInv, Shape, RunStep, StartRun, SkipGroupless, TakeMatched, TakeMissing,
       TakeWith, CreateGroup, CreateGroupRefused, ExtendList, KeepGroups, WriteGroups,
       WriteRefused, FinishRun, TargetFails, RunDies, Settle, Leave
  <2>2. Holds(e)
    BY DEF IInv, TargetInv
  <2> QED  BY <2>1, <2>2, KnownStaysKnown DEF IInv
<1>2. Holds(d)'
  <2>0. Holds(d)
    BY DEF IInv, TargetInv
  <2> USE DEF IInv, Shape
  <2>1. CASE TakeMatched(d) \/ TakeMissing(d)
    <3> PICK s \in todo[d] : TakeWith(d, s)
      BY <2>1 DEF TakeMatched, TakeMissing
    <3>1. /\ todo'[d] \subseteq todo[d] /\ cur'[d] = s /\ asked' = asked
          /\ got'[d] = MatchedIds(list[d], asked[s])
      BY DEF TakeWith
    <3>2. \A i \in got'[d] : \E g \in asked[s] : Known(g, i)
      BY <3>1 DEF MatchedIds, ListInv
    <3> QED  BY <2>0, <3>1, <3>2, KnownStaysKnown
  <2>2. CASE ExtendList(d)
    <3>1. /\ todo' = todo /\ cur' = cur /\ asked' = asked /\ Busy(d)
          /\ \/ got'[d] = got[d]
             \/ got'[d] = MatchedIds(list[d] \cup made[d], asked[cur[d]])
      BY <2>2 DEF ExtendList, GotAfter
    <3>2. \A i \in got'[d] : \E g \in asked[cur[d]] : Known(g, i)
      BY <2>0, <3>1 DEF MatchedIds, ListInv
    <3> QED  BY <2>0, <3>1, <3>2, KnownStaysKnown
  <2>3. CASE CreateGroup(d)
    <3>1. UNCHANGED <<pc, todo, cur, asked, got>>
      BY <2>3 DEF CreateGroup
    <3> QED  BY <2>0, <3>1, KnownStaysKnown
  <2>4. CASE ~(TakeMatched(d) \/ TakeMissing(d) \/ ExtendList(d) \/ CreateGroup(d))
    BY <2>0, <2>4 DEF RunStep, StartRun, SkipGroupless, CreateGroupRefused, KeepGroups,
       WriteGroups, WriteRefused, FinishRun, TargetFails, RunDies, Settle, Leave
  <2> QED  BY <2>1, <2>2, <2>3, <2>4
<1> QED  BY <1>1, <1>2 DEF TargetInv

LEMMA IInvStays == IInv /\ [Next]_vars => IInv'
<1> SUFFICES ASSUME IInv, [Next]_vars PROVE IInv'
  OBVIOUS
<1>1. IdsMove /\ IdInv'
  BY IdsOnlyMove, IdsStayUnique DEF IInv
<1>2. CASE \E d \in Deployments : RunStep(d) \/ TargetFails(d) \/ RunDies(d)
  <2> PICK d \in Deployments : RunStep(d) \/ TargetFails(d) \/ RunDies(d)
    BY <1>2
  <2>1. WriteGroups(d) => cur[d] \in Sources /\ got[d] \subseteq Nat
    BY DEF WriteGroups, Busy, IInv, TargetInv, Mine, Known, IdInv
  <2>2. Shape'
    BY <2>1, RunKeepsShape DEF IInv
  <2> QED  BY <1>1, <2>2, RunKeepsLists, RunKeepsTargets DEF IInv
<1>3. CASE \/ \E s \in Sources : ChangeWant(s) \/ Regroup(s)
           \/ \E g \in Groups : AddGroup(g) \/ DeleteGroup(g)
  <2>1. Shape' /\ UNCHANGED <<pc, asked, todo, cur, list, made, got>>
    BY <1>3, EditsKeepRuns
  <2>2. ListInv' /\ TargetInv'
    BY <1>1, <2>1, KnownStaysKnown DEF IInv, ListInv, TargetInv, Busy, Mine
  <2> QED  BY <1>1, <2>1, <2>2 DEF IInv
<1>4. CASE UNCHANGED vars
  BY <1>4 DEF vars, IInv, IdInv, Shape, ListInv, TargetInv, Busy, Mine, Known
<1> QED  BY <1>2, <1>3, <1>4 DEF Next

\* However stale the list of a run is, a run puts a host only into groups that
\* its source asked for, by the names they bear at that moment
\* (set_zbx_groupid, create_zbx_hostgroup, host.create and host.update).
THEOREM HostsJoinOnlyAskedGroups == Spec => JoinsOnlyAskedGroups
<1> DEFINE Joins == \A s \in Sources : edits' = edits =>
                       members'[s] \ members[s] \subseteq IdsOf(asked[s])
<1>1. IInv /\ [Next]_vars => Joins
  <2> SUFFICES ASSUME IInv, [Next]_vars, edits' = edits, NEW s \in Sources
               PROVE  members'[s] \ members[s] \subseteq IdsOf(asked[s])
    OBVIOUS
  <2>1. CASE \E d \in Deployments : WriteGroups(d)
    <3> PICK d \in Deployments : WriteGroups(d)
      BY <2>1
    <3>1. CASE s = cur[d]
      <4>1. members'[s] = got[d] /\ got[d] \subseteq IdsOf(Groups)
        BY <3>1 DEF WriteGroups, Writable, Acceptable, IInv, Shape
      <4>2. \A i \in got[d] : \E g \in asked[s] : Known(g, i)
        BY <3>1 DEF WriteGroups, Busy, IInv, TargetInv
      <4>3. asked[s] \subseteq Groups
        BY DEF IInv, Shape
      <4> QED  BY <4>1, <4>2, <4>3 DEF IdsOf, Known
    <3>2. CASE s # cur[d]
      BY <3>2 DEF WriteGroups, IInv, Shape
    <3> QED  BY <3>1, <3>2
  <2>2. CASE members' = members
    BY <2>2
  <2>3. \/ \E d \in Deployments : WriteGroups(d)
        \/ members' = members
    <3>1. ~(\/ \E r \in Sources : ChangeWant(r) \/ Regroup(r)
            \/ \E g \in Groups : AddGroup(g) \/ DeleteGroup(g))
      BY EditsKeepRuns
    <3>2. CASE UNCHANGED vars
      BY <3>2 DEF vars
    <3>3. CASE \E d \in Deployments : RunStep(d) \/ TargetFails(d) \/ RunDies(d)
      BY <3>3 DEF RunStep, StartRun, SkipGroupless, TakeMatched, TakeMissing, TakeWith,
         CreateGroup, CreateGroupRefused, ExtendList, KeepGroups, WriteRefused, FinishRun,
         TargetFails, RunDies
    <3> QED  BY <3>1, <3>2, <3>3 DEF Next
  <2> QED  BY <2>1, <2>2, <2>3
<1> QED
  BY <1>1, InitHolds, IInvStays, PTL DEF Spec, JoinsOnlyAskedGroups
-----------------------------------------------------------------------------
(* The creations of a call: a sequence flattened from sequences.             *)

\* Numbers have a least one: an induction goes to the first counterexample.
LEMMA LeastNatural ==
  ASSUME NEW T, T \subseteq Nat, T # {}
  PROVE  \E m \in T : \A n \in T : m <= n
<1> DEFINE Below == {0..n : n \in T}
<1>1. IsWellFoundedOn(StrictSubsetOrdering(Nat), FiniteSubsetsOf(Nat))
  BY FS_StrictSubsetOrderingWellFounded
<1>2. Below \subseteq FiniteSubsetsOf(Nat) /\ Below # {}
  <2>1. ASSUME NEW n \in T PROVE 0..n \in FiniteSubsetsOf(Nat)
    <3>1. IsFiniteSet(0..n) /\ 0..n \subseteq Nat
      BY FS_Interval
    <3> QED  BY <3>1 DEF FiniteSubsetsOf
  <2> QED  BY <2>1
<1>3. PICK B \in Below : \A C \in Below : ~(<<C, B>> \in StrictSubsetOrdering(Nat))
  BY <1>1, <1>2, WFMin
<1>4. PICK m \in T : B = 0..m
  BY <1>3
<1>5. ASSUME NEW n \in T PROVE m <= n
  <2>1. 0..n \in SUBSET Nat /\ 0..m \in SUBSET Nat /\ 0..n \in Below
    OBVIOUS
  <2>2. ~(0..n \subseteq 0..m /\ 0..n # 0..m)
    <3>1. <<0..n, 0..m>> \notin StrictSubsetOrdering(Nat)
      BY <1>3, <1>4, <2>1, Zenon
    <3> QED  BY <2>1, <3>1 DEF StrictSubsetOrdering
  <2>3. m \in Nat /\ n \in Nat /\ (n < m => m \notin 0..n /\ m \in 0..m /\ 0..n \subseteq 0..m)
    OBVIOUS
  <2> QED  BY <2>2, <2>3
<1> QED  BY <1>4, <1>5

\* One step of the recursion of FlattenSeq, which has a solution.
Flatten(seqs, f, i) == IF i = 1 THEN seqs[i] ELSE f[i - 1] \o seqs[i]

LEMMA FlattenDefined ==
  ASSUME NEW seqs, Len(seqs) \in Nat \ {0}
  PROVE  \E f : /\ f = [i \in 1..Len(seqs) |-> Flatten(seqs, f, i)]
                /\ FlattenSeq(seqs) = f[Len(seqs)]
<1> DEFINE Solves(f, n) == f = [i \in 1..n |-> Flatten(seqs, f, i)]
           Bad == {n \in 1..Len(seqs) : ~ \E f : Solves(f, n)}
<1>1. Bad = {}
  <2> SUFFICES ASSUME Bad # {} PROVE FALSE
    OBVIOUS
  <2>1. PICK m \in Bad : \A n \in Bad : m <= n
    <3>1. Bad \subseteq Nat
      OBVIOUS
    <3> HIDE DEF Bad
    <3> QED  BY <3>1, LeastNatural
  <2>2. CASE m = 1
    <3>1. Solves([i \in 1..1 |-> seqs[i]], 1)
      BY DEF Flatten
    <3> QED  BY <2>1, <2>2, <3>1
  <2>3. CASE m # 1
    <3>1. m - 1 \in 1..Len(seqs) /\ m - 1 \notin Bad /\ m \in Nat
      BY <2>1, <2>3
    <3>2. PICK p : Solves(p, m - 1)
      BY <3>1
    <3> DEFINE f == [i \in 1..m |-> IF i = m THEN Flatten(seqs, p, m) ELSE p[i]]
    <3>3. ASSUME NEW i \in 1..m PROVE f[i] = Flatten(seqs, f, i)
      <4>1. i # 1 => i - 1 \in 1..(m - 1) /\ f[i - 1] = p[i - 1]
        BY <3>1
      <4>2. Flatten(seqs, f, i) = Flatten(seqs, p, i)
        BY <4>1 DEF Flatten
      <4>3. i # m => p[i] = Flatten(seqs, p, i)
        <5>1. i # m => i \in 1..(m - 1)
          BY <3>1
        <5> QED  BY <3>2, <5>1
      <4> QED  BY <4>2, <4>3
    <3>4. Solves(f, m)
      BY <3>3
    <3> QED  BY <2>1, <3>4
  <2> QED  BY <2>2, <2>3
<1>2. Len(seqs) \in 1..Len(seqs)
  OBVIOUS
<1>3. \E f : Solves(f, Len(seqs))
  BY <1>1, <1>2
<1> DEFINE f == CHOOSE f : Solves(f, Len(seqs))
<1>4. Solves(f, Len(seqs))
  BY <1>3
<1>5. FlattenSeq(seqs) = f[Len(seqs)]
  BY DEF FlattenSeq, Flatten
<1> QED  BY <1>4, <1>5

LEMMA ConcatKeepsAll ==
  ASSUME NEW S, NEW s \in Seq(S), NEW e \in Seq(S)
  PROVE  /\ s \o e \in Seq(S)
         /\ Range(s) \subseteq Range(s \o e) /\ Range(e) \subseteq Range(s \o e)
<1>1. /\ s \o e \in Seq(S) /\ Len(s) \in Nat /\ Len(e) \in Nat
      /\ DOMAIN s = 1..Len(s) /\ DOMAIN e = 1..Len(e)
      /\ DOMAIN (s \o e) = 1..(Len(s) + Len(e))
  OBVIOUS
<1>2. ASSUME NEW i \in 1..Len(s) PROVE i \in DOMAIN (s \o e) /\ (s \o e)[i] = s[i]
  BY <1>1
<1>3. ASSUME NEW i \in 1..Len(e)
      PROVE  Len(s) + i \in DOMAIN (s \o e) /\ (s \o e)[Len(s) + i] = e[i]
  BY <1>1
<1> QED  BY <1>1, <1>2, <1>3 DEF Range

\* Flattening sequences gives a sequence in which all their elements are.
LEMMA FlattenKeepsAll ==
  ASSUME NEW S, NEW seqs \in Seq(Seq(S))
  PROVE  /\ FlattenSeq(seqs) \in Seq(S)
         /\ \A k \in 1..Len(seqs) : Range(seqs[k]) \subseteq Range(FlattenSeq(seqs))
<1> DEFINE N == Len(seqs)
<1>1. CASE N = 0
  BY <1>1 DEF FlattenSeq
<1>2. CASE N # 0
  <2>1. N \in Nat \ {0} /\ \A i \in 1..N : seqs[i] \in Seq(S)
    BY <1>2
  <2>2. PICK f : /\ f = [i \in 1..N |-> Flatten(seqs, f, i)]
                 /\ FlattenSeq(seqs) = f[N]
    BY <2>1, FlattenDefined
  <2>3. \A i \in 1..N : f[i] = Flatten(seqs, f, i)
    BY <2>2
  <2> DEFINE Good(i) == f[i] \in Seq(S) /\ \A k \in 1..i : Range(seqs[k]) \subseteq Range(f[i])
             Bad == {i \in 1..N : ~Good(i)}
  <2>4. Bad = {}
    <3> SUFFICES ASSUME Bad # {} PROVE FALSE
      OBVIOUS
    <3>1. PICK m \in Bad : \A n \in Bad : m <= n
      <4>1. Bad \subseteq Nat
        OBVIOUS
      <4> HIDE DEF Bad
      <4> QED  BY <4>1, LeastNatural
    <3>2. m \in 1..N /\ ~Good(m)
      BY <3>1
    <3>3. CASE m = 1
      <4>1. f[1] = seqs[1] /\ 1 \in 1..N
        BY <2>1, <2>3, <3>2, <3>3 DEF Flatten
      <4>2. \A k \in 1..1 : k = 1
        OBVIOUS
      <4> QED  BY <2>1, <3>2, <3>3, <4>1, <4>2
    <3>4. CASE m # 1
      <4> DEFINE s == f[m - 1]
                 e == seqs[m]
      <4>1. m - 1 \in 1..N /\ m \in Nat /\ ~(m <= m - 1)
        BY <2>1, <3>2, <3>4
      <4>2. Good(m - 1)
        <5> HIDE DEF Good
        <5> QED  BY <3>1, <4>1
      <4>3. f[m] = s \o e /\ s \in Seq(S) /\ e \in Seq(S)
        BY <2>1, <2>3, <3>2, <3>4, <4>2 DEF Flatten
      <4> HIDE DEF s, e
      <4>4. f[m] \in Seq(S) /\ Range(s) \subseteq Range(f[m]) /\ Range(e) \subseteq Range(f[m])
        BY <4>3, ConcatKeepsAll
      <4>5. \A k \in 1..m : k # m => k \in 1..(m - 1)
        BY <4>1
      <4>6. Good(m)
        BY <4>2, <4>4, <4>5 DEF s, e
      <4> QED  BY <3>2, <4>6
    <3> QED  BY <3>3, <3>4
  <2>5. Good(N)
    <3>1. N \in 1..N
      BY <2>1
    <3> HIDE DEF Good
    <3> QED  BY <2>4, <3>1
  <2> QED  BY <2>2, <2>5
<1> QED  BY <1>1, <1>2
\* Every name is listed, or it is among the unlisted.
LEMMA UnlistedKeepsAll ==
  ASSUME NEW known, NEW names \in Seq(Groups)
  PROVE  /\ Unlisted(known, names) \in Seq(Groups)
         /\ \A k \in DOMAIN names :
               Listed(known, names[k]) \/ names[k] \in Range(Unlisted(known, names))
<1> DEFINE One(k) == IF Listed(known, names[k]) THEN <<>> ELSE <<names[k]>>
           seqs == [k \in DOMAIN names |-> One(k)]
<1>1. Len(names) \in Nat /\ DOMAIN names = 1..Len(names)
  OBVIOUS
<1>2. ASSUME NEW k \in DOMAIN names PROVE One(k) \in Seq(Groups)
  BY <1>1
<1>3. seqs \in Seq(Seq(Groups)) /\ Len(seqs) = Len(names)
  <2> HIDE DEF One
  <2> QED  BY <1>1, <1>2
<1>4. /\ FlattenSeq(seqs) \in Seq(Groups)
      /\ \A k \in 1..Len(seqs) : Range(seqs[k]) \subseteq Range(FlattenSeq(seqs))
  <2> HIDE DEF seqs
  <2> QED  BY <1>3, FlattenKeepsAll
<1>5. ASSUME NEW k \in DOMAIN names, ~Listed(known, names[k])
      PROVE  names[k] \in Range(seqs[k])
  <2>1. seqs[k] = <<names[k]>>
    BY <1>5
  <2>2. 1 \in DOMAIN <<names[k]>> /\ <<names[k]>>[1] = names[k]
    OBVIOUS
  <2> QED  BY <2>1, <2>2 DEF Range
<1>6. Unlisted(known, names) = FlattenSeq(seqs)
  BY DEF Unlisted
<1> HIDE DEF seqs
<1> QED  BY <1>1, <1>3, <1>4, <1>5, <1>6

\* An order of a set goes through all of it.
LEMMA OrderIsOfAll ==
  ASSUME NEW S, IsFiniteSet(S), NEW order \in SetToSeqs(S)
  PROVE  /\ order \in Seq(S) /\ Len(order) = Cardinality(S)
         /\ \A g \in S : \E k \in 1..Len(order) : order[k] = g
<1> DEFINE n == Cardinality(S)
           image == {order[k] : k \in 1..n}
<1>1. n \in Nat
  BY FS_CardinalityType
<1>2. order \in [1..n -> S] /\ \A i, j \in 1..n : i # j => order[i] # order[j]
  BY DEF SetToSeqs
<1>3. order \in Seq(S) /\ Len(order) = n
  BY <1>1, <1>2
<1>4. image \subseteq S
  BY <1>2
<1>5. IsFiniteSet(image) /\ Cardinality(image) = n
  <2>1. order \in Bijection(1..n, image)
    <3>1. order \in [1..n -> image] /\ \A t \in image : \E k \in 1..n : order[k] = t
      BY <1>2
    <3> HIDE DEF image, n
    <3>2. IsInjective(order)
      BY <1>2 DEF IsInjective
    <3> QED  BY <3>1, <3>2 DEF Bijection, Injection, Surjection
  <2>2. ExistsBijection(1..n, image)
    BY <2>1 DEF ExistsBijection
  <2> QED  BY <1>1, <2>2, FS_CountingElements, FS_NatBijection
<1>6. image = S
  BY <1>4, <1>5, FS_Subset
<1> QED  BY <1>3, <1>6

\* Every name of every group asked for is listed, or it gets created.
LEMMA CreationsMissNothing ==
  ASSUME NEW known, NEW gs \in SUBSET Groups, NEW creations \in Creations(known, gs)
  PROVE  /\ creations \in Seq(Groups)
         /\ \A g \in gs : \A k \in DOMAIN Names[g] :
               Listed(known, Names[g][k]) \/ Names[g][k] \in Range(creations)
<1>1. IsFiniteSet(gs)
  BY GroupBoundsAssumption, FS_Subset
<1>2. PICK order \in SetToSeqs(gs) :
        creations = FlattenSeq([k \in DOMAIN order |-> Unlisted(known, Names[order[k]])])
  BY DEF Creations
<1>3. /\ order \in Seq(gs)
      /\ \A g \in gs : \E k \in 1..Len(order) : order[k] = g
  BY <1>1, OrderIsOfAll
<1> DEFINE seqs == [k \in DOMAIN order |-> Unlisted(known, Names[order[k]])]
<1>4. Len(order) \in Nat /\ DOMAIN order = 1..Len(order) /\ \A k \in 1..Len(order) : order[k] \in gs
  BY <1>3
<1>5. ASSUME NEW g \in gs
      PROVE  /\ Unlisted(known, Names[g]) \in Seq(Groups)
             /\ \A k \in DOMAIN Names[g] :
                   Listed(known, Names[g][k]) \/ Names[g][k] \in Range(Unlisted(known, Names[g]))
  <2>1. Names[g] \in Seq(Groups)
    BY GroupMapsAssumption
  <2> QED  BY <2>1, UnlistedKeepsAll
<1>6. seqs \in Seq(Seq(Groups)) /\ Len(seqs) = Len(order)
  BY <1>4, <1>5
<1>7. /\ FlattenSeq(seqs) \in Seq(Groups)
      /\ \A k \in 1..Len(seqs) : Range(seqs[k]) \subseteq Range(FlattenSeq(seqs))
  <2> HIDE DEF seqs
  <2> QED  BY <1>6, FlattenKeepsAll
<1>8. ASSUME NEW g \in gs, NEW k \in DOMAIN Names[g], ~Listed(known, Names[g][k])
      PROVE  Names[g][k] \in Range(creations)
  <2>1. PICK j \in 1..Len(order) : order[j] = g
    BY <1>3
  <2>2. seqs[j] = Unlisted(known, Names[g])
    BY <1>4, <2>1
  <2>3. Range(seqs[j]) \subseteq Range(creations)
    <3> HIDE DEF seqs
    <3>1. creations = FlattenSeq(seqs)
      BY <1>2 DEF seqs
    <3> QED  BY <1>6, <1>7, <3>1
  <2> QED  BY <1>5, <1>8, <2>2, <2>3
<1>9. creations \in Seq(Groups)
  BY <1>2, <1>7
<1> QED  BY <1>8, <1>9
-----------------------------------------------------------------------------
(* Types.                                                                    *)

TypeInv == TypeOK /\ IInv

LEMMA MatchedAreIds == ASSUME NEW known, NEW gs PROVE MatchedIds(known, gs) \in SUBSET Ids
  BY DEF MatchedIds

LEMMA IdsOfAreIds == TypeOK => IdsOf(Groups) \subseteq Ids
  BY GroupBoundsAssumption DEF TypeOK, IdsOf, Ids

LEMMA InitTypeOK == Init => TypeOK
<1> SUFFICES ASSUME Init PROVE TypeOK
  OBVIOUS
<1>1. Cardinality(Groups) \in 0..MaxId /\ MaxId \in Nat /\ MaxEdits \in Nat /\ MaxFaults \in Nat
  BY GroupBoundsAssumption, FS_CardinalityType
<1>2. gid \in [Groups -> 0..MaxId]
  BY <1>1 DEF Init
<1>3. <<>> \in Seq(Groups)
  OBVIOUS
<1> QED  BY <1>1, <1>2, <1>3 DEF Init, TypeOK

\* The source at hand is done with, or the run is over.
TargetTyped ==
    /\ pc \in [Deployments -> {"idle", "next", "create", "write"}]
    /\ cur \in [Deployments -> Sources \cup {NoSource}]
    /\ queue \in [Deployments -> Seq(Groups)] /\ made \in [Deployments -> SUBSET Pairs]
    /\ got \in [Deployments -> SUBSET Ids] /\ seen \in [Deployments -> SUBSET Ids]
    /\ linked \in [Deployments -> BOOLEAN]

LEMMA EndingsKeepTypes ==
  ASSUME TypeOK, NEW d \in Deployments, Settle(d) \/ Leave(d)
  PROVE  TargetTyped'
<1>1. /\ pc' = [pc EXCEPT ![d] = "next"] \/ pc' = [pc EXCEPT ![d] = "idle"]
      /\ cur' = [cur EXCEPT ![d] = NoSource] /\ queue' = [queue EXCEPT ![d] = <<>>]
      /\ made' = [made EXCEPT ![d] = {}] /\ got' = [got EXCEPT ![d] = {}]
      /\ linked' = [linked EXCEPT ![d] = FALSE] /\ seen' = [seen EXCEPT ![d] = {}]
  BY DEF Settle, Leave, Goto
<1>2. <<>> \in Seq(Groups)
  OBVIOUS
<1> QED  BY <1>1, <1>2 DEF TypeOK, TargetTyped

\* The steps of a run keep the types.
LEMMA RunKeepsTypes ==
  ASSUME TypeInv, NEW d \in Deployments, RunStep(d) \/ TargetFails(d) \/ RunDies(d)
  PROVE  TypeOK'
<1> USE DEF TypeInv, Goto
<1>1. CASE StartRun(d)
  BY <1>1 DEF TypeOK, StartRun, Mine, GroupsNow
<1>2. CASE SkipGroupless(d)
  BY <1>2 DEF TypeOK, SkipGroupless
<1>3. CASE TakeMatched(d)
  <2> PICK s \in todo[d] : TakeWith(d, s)
    BY <1>3 DEF TakeMatched
  <2>1. MatchedIds(list[d], asked[s]) \in SUBSET Ids
    BY MatchedAreIds
  <2> QED  BY <1>3, <2>1 DEF TypeOK, TakeMatched, TakeWith
<1>4. CASE TakeMissing(d)
  <2> PICK s \in todo[d] : \E creations \in Creations(list[d], asked[s]) :
             TakeWith(d, s) /\ queue' = [queue EXCEPT ![d] = creations] /\ Goto(d, "create")
    BY <1>4 DEF TakeMissing
  <2> PICK creations \in Creations(list[d], asked[s]) :
             TakeWith(d, s) /\ queue' = [queue EXCEPT ![d] = creations] /\ Goto(d, "create")
    OBVIOUS
  <2>1. MatchedIds(list[d], asked[s]) \in SUBSET Ids
    BY MatchedAreIds
  <2>2. creations \in Seq(Groups)
    BY CreationsMissNothing DEF TypeOK
  <2> QED  BY <2>1, <2>2 DEF TypeOK, TakeWith
<1>5. CASE CreateGroup(d)
  <2>1. /\ Head(queue[d]) \in Groups /\ Tail(queue[d]) \in Seq(Groups)
        /\ lastId + 1 \in Ids /\ lastId + 1 \in 0..MaxId
    BY <1>5, GroupBoundsAssumption DEF TypeOK, CreateGroup, Ids
  <2>2. <<Head(queue[d]), lastId + 1>> \in Pairs
    BY <2>1 DEF Pairs
  <2> QED  BY <1>5, <2>1, <2>2 DEF TypeOK, CreateGroup
<1>6. CASE CreateGroupRefused(d) \/ KeepGroups(d) \/ WriteRefused(d) \/ TargetFails(d)
  <2>1. TargetTyped'
    BY <1>6, EndingsKeepTypes DEF CreateGroupRefused, KeepGroups, WriteRefused, TargetFails
  <2>2. faults' \in 0..MaxFaults
    BY <1>6, GroupBoundsAssumption
       DEF TypeOK, CreateGroupRefused, KeepGroups, WriteRefused, TargetFails
  <2>3. UNCHANGED <<want, gid, lastId, hosted, members, asked, todo, list, handDeleted, edits>>
    BY <1>6 DEF CreateGroupRefused, KeepGroups, WriteRefused, TargetFails
  <2> QED  BY <2>1, <2>2, <2>3 DEF TypeOK, TargetTyped
<1>7. CASE ExtendList(d)
  <2>1. MatchedIds(list[d] \cup made[d], asked[cur[d]]) \in SUBSET Ids
    BY MatchedAreIds
  <2>2. GotAfter(d, list[d] \cup made[d]) \in SUBSET Ids
    BY <2>1 DEF GotAfter, TypeOK
  <2> QED  BY <1>7, <2>2 DEF TypeOK, ExtendList
<1>8. CASE WriteGroups(d)
  <2>1. TargetTyped'
    BY <1>8, EndingsKeepTypes DEF WriteGroups
  <2>2. cur[d] \in Sources /\ got[d] \in SUBSET Ids
    BY <1>8 DEF WriteGroups, Busy, IInv, TargetInv, Mine, TypeOK
  <2> QED  BY <1>8, <2>1, <2>2 DEF TypeOK, TargetTyped, WriteGroups
<1>9. CASE FinishRun(d) \/ RunDies(d)
  <2>1. TargetTyped'
    BY <1>9, EndingsKeepTypes DEF FinishRun, RunDies
  <2>2. faults' \in 0..MaxFaults
    BY <1>9, GroupBoundsAssumption DEF TypeOK, FinishRun, RunDies
  <2>3. /\ UNCHANGED <<want, gid, lastId, hosted, members, handDeleted, edits>>
        /\ todo' = [todo EXCEPT ![d] = {}] /\ list' = [list EXCEPT ![d] = {}]
        /\ asked' \in [Sources -> SUBSET Groups]
    BY <1>9 DEF FinishRun, RunDies, Leave, TypeOK
  <2> QED  BY <2>1, <2>2, <2>3 DEF TypeOK, TargetTyped
<1> QED  BY <1>1, <1>2, <1>3, <1>4, <1>5, <1>6, <1>7, <1>8, <1>9 DEF RunStep

\* What people do keeps the types.
LEMMA EditsKeepTypes ==
  ASSUME TypeInv,
         \/ \E s \in Sources : ChangeWant(s) \/ Regroup(s)
         \/ \E g \in Groups : AddGroup(g) \/ DeleteGroup(g)
  PROVE  TypeOK'
<1> USE DEF TypeInv, KeepTheRuns
<1>1. Edit => edits' \in 0..MaxEdits
  BY GroupBoundsAssumption DEF TypeOK, Edit
<1>2. CASE \E s \in Sources : ChangeWant(s)
  BY <1>1, <1>2 DEF TypeOK, ChangeWant, Askable
<1>3. CASE \E s \in Sources : Regroup(s)
  BY <1>1, <1>3, IdsOfAreIds DEF TypeOK, Regroup
<1>4. CASE \E g \in Groups : AddGroup(g)
  BY <1>1, <1>4, GroupBoundsAssumption DEF TypeOK, AddGroup
<1>5. CASE \E g \in Groups : DeleteGroup(g)
  <2>1. 0 \in 0..MaxId
    BY GroupBoundsAssumption
  <2> QED  BY <1>1, <1>5, <2>1 DEF TypeOK, DeleteGroup
<1> QED  BY <1>2, <1>3, <1>4, <1>5

LEMMA TypesStay == TypeInv /\ [Next]_vars => TypeInv'
<1>1. CASE UNCHANGED vars
  BY <1>1, IInvStays DEF vars, TypeInv, TypeOK
<1> QED  BY <1>1, IInvStays, RunKeepsTypes, EditsKeepTypes DEF Next, TypeInv

\* Everything the runs read, keep and write of the groups has its type: what is
\* created and put on a list is a group under an id Zabbix handed out, for any
\* deployments, sources and groups (create_zbx_hostgroup, set_zbx_groupid).
THEOREM TypeCorrect == Spec => []TypeOK
<1>1. Init => TypeInv
  BY InitHolds, InitTypeOK DEF TypeInv
<1>2. TypeInv => TypeOK
  BY DEF TypeInv
<1> QED  BY <1>1, <1>2, TypesStay, PTL DEF Spec
-----------------------------------------------------------------------------
(* Parents.  A group that a run has on its list was there, and is there still *)
(* unless people deleted it; the others are ahead in the queue of the call.   *)

Traced(g) == GroupExists(g) \/ g \in handDeleted

ListedAreTraced == \A d \in Deployments : \A p \in list[d] \cup made[d] : Traced(p[1])

ParentsAheadFor(d) ==
    Busy(d) /\ ~linked[d] /\ cur[d] \notin AzureSources =>
        \A g \in asked[cur[d]] : \A k \in DOMAIN Names[g] :
            Traced(Names[g][k]) \/ (pc[d] = "create" /\ Names[g][k] \in Range(queue[d]))

ParentsAhead == \A d \in CreateHostgroups : ParentsAheadFor(d)

ParentsInv == TypeInv /\ ListedAreTraced /\ ParentsAhead

LEMMA TracedStays ==
  ASSUME TypeInv, [Next]_vars, NEW g, Traced(g)
  PROVE  Traced(g)'
<1> USE DEF Traced, GroupExists, TypeInv, TypeOK
<1>1. CASE \E d \in Deployments : RunStep(d) \/ TargetFails(d) \/ RunDies(d)
  <2> PICK d \in Deployments : RunStep(d) \/ TargetFails(d) \/ RunDies(d)
    BY <1>1
  <2>1. CASE CreateGroup(d)
    <3>1. /\ gid' = [gid EXCEPT ![Head(queue[d])] = lastId + 1] /\ lastId \in Nat
          /\ handDeleted' = handDeleted /\ lastId + 1 # 0 /\ gid[Head(queue[d])] = 0
      BY <2>1, GroupBoundsAssumption DEF CreateGroup
    <3> QED  BY <3>1
  <2>2. CASE ~CreateGroup(d)
    <3>1. UNCHANGED <<gid, handDeleted>>
      BY <2>2 DEF RunStep, StartRun, SkipGroupless, TakeMatched, TakeMissing, TakeWith,
         CreateGroupRefused, ExtendList, KeepGroups, WriteGroups, WriteRefused, FinishRun,
         TargetFails, RunDies
    <3> QED  BY <3>1
  <2> QED  BY <2>1, <2>2
<1>2. CASE \E s \in Sources : ChangeWant(s) \/ Regroup(s)
  BY <1>2 DEF ChangeWant, Regroup
<1>3. CASE \E h \in Groups : AddGroup(h)
  <2> PICK h \in Groups : AddGroup(h)
    BY <1>3
  <2>1. /\ gid' = [gid EXCEPT ![h] = lastId + 1] /\ gid[h] = 0
        /\ handDeleted' = handDeleted /\ lastId + 1 # 0
    BY GroupBoundsAssumption DEF AddGroup
  <2> QED  BY <2>1
<1>4. CASE \E h \in Groups : DeleteGroup(h)
  BY <1>4 DEF DeleteGroup
<1>5. CASE UNCHANGED vars
  BY <1>5 DEF vars
<1> QED  BY <1>1, <1>2, <1>3, <1>4, <1>5 DEF Next

\* What is learned of a group is that it exists.
LEMMA ListedStaysTraced == ParentsInv /\ [Next]_vars => ListedAreTraced'
<1> SUFFICES ASSUME ParentsInv, [Next]_vars, NEW d \in Deployments, NEW p \in list'[d] \cup made'[d]
             PROVE  Traced(p[1])'
  BY DEF ListedAreTraced
<1>1. CASE p \in list[d] \cup made[d]
  BY <1>1, TracedStays DEF ParentsInv, ListedAreTraced
<1>2. CASE p \notin list[d] \cup made[d]
  <2> USE DEF ParentsInv, TypeInv
  <2>1. PICK e \in Deployments : RunStep(e) \/ TargetFails(e) \/ RunDies(e)
    BY <1>2, EditsKeepRuns DEF Next, vars
  <2>2. CASE StartRun(e)
    <3>1. p \in GroupsNow
      BY <1>2, <2>2 DEF StartRun, TypeOK
    <3>2. p \in Pairs /\ p[1] \in Groups /\ p[2] \in Ids /\ gid[p[1]] = p[2]
      BY <3>1 DEF GroupsNow, Pairs
    <3>3. p[2] # 0
      BY <3>2, GroupBoundsAssumption DEF Ids
    <3>4. Traced(p[1])
      BY <3>2, <3>3 DEF Traced, GroupExists
    <3> QED  BY <3>4, TracedStays
  <2>3. CASE CreateGroup(e)
    <3> DEFINE g == Head(queue[e])
    <3>1. p = <<g, lastId + 1>> /\ g \in Groups /\ gid' = [gid EXCEPT ![g] = lastId + 1]
      BY <1>2, <2>3 DEF CreateGroup, TypeOK
    <3>2. lastId + 1 # 0
      BY GroupBoundsAssumption DEF TypeOK
    <3>3. gid'[g] # 0 /\ p[1] = g
      BY <3>1, <3>2 DEF TypeOK
    <3> QED  BY <3>3 DEF Traced, GroupExists
  <2>4. CASE ~StartRun(e) /\ ~CreateGroup(e)
    BY <1>2, <2>1, <2>4 DEF RunStep, SkipGroupless, TakeMatched, TakeMissing, TakeWith,
       CreateGroupRefused, ExtendList, KeepGroups, WriteGroups, WriteRefused, FinishRun,
       TargetFails, RunDies, Settle, Leave, TypeOK
  <2> QED  BY <2>2, <2>3, <2>4
<1> QED  BY <1>1, <1>2

\* A name on the queue of a call is created next, or it is on the rest.
LEMMA HeadOrTail ==
  ASSUME NEW S, NEW q \in Seq(S), q # <<>>, NEW x \in Range(q), x # Head(q)
  PROVE  x \in Range(Tail(q))
<1>1. PICK i \in 1..Len(q) : q[i] = x
  BY DEF Range
<1>2. Len(q) \in Nat /\ i # 1 /\ Len(Tail(q)) = Len(q) - 1 /\ DOMAIN Tail(q) = 1..(Len(q) - 1)
  BY <1>1
<1>3. i - 1 \in DOMAIN Tail(q) /\ Tail(q)[i - 1] = q[i]
  BY <1>2
<1> QED  BY <1>1, <1>3 DEF Range

LEMMA EmptyHasNone == Range(<<>>) = {}
  BY DEF Range

\* A run goes on creating until no parent is left, of its own steps.
LEMMA OwnStepKeepsParentsAhead ==
  ASSUME ParentsInv, [Next]_vars, NEW d \in CreateHostgroups,
         RunStep(d) \/ TargetFails(d) \/ RunDies(d)
  PROVE  ParentsAheadFor(d)'
<1> SUFFICES ASSUME Busy(d)', ~linked'[d], cur'[d] \notin AzureSources,
                    NEW g \in asked'[cur'[d]], NEW k \in DOMAIN Names[g]
             PROVE  \/ Traced(Names[g][k])'
                    \/ pc'[d] = "create" /\ Names[g][k] \in Range(queue'[d])
  BY DEF ParentsAheadFor
<1> USE DEF ParentsInv, TypeInv
<1>0. d \in Deployments /\ ParentsAheadFor(d)
  BY GroupBoundsAssumption DEF ParentsAhead
<1>1. CASE TakeMatched(d)
  <2>1. PICK s \in todo[d] : TakeWith(d, s) /\ ~Creates(d, s)
    BY <1>1 DEF TakeMatched
  <2>2. cur'[d] = s /\ linked'[d] = hosted[s]
    BY <1>0, <2>1 DEF TakeWith, TypeOK
  <2> QED  BY <2>1, <2>2 DEF Creates, LooksForParents
<1>2. CASE TakeMissing(d)
  <2>1. PICK s \in todo[d] : \E creations \in Creations(list[d], asked[s]) :
             TakeWith(d, s) /\ queue' = [queue EXCEPT ![d] = creations] /\ Goto(d, "create")
    BY <1>2 DEF TakeMissing
  <2>2. PICK creations \in Creations(list[d], asked[s]) :
             TakeWith(d, s) /\ queue' = [queue EXCEPT ![d] = creations] /\ Goto(d, "create")
    BY <2>1
  <2>3. /\ cur'[d] = s /\ asked' = asked /\ asked[s] \in SUBSET Groups
        /\ pc'[d] = "create" /\ queue'[d] = creations
    BY <1>0, <2>2 DEF TakeWith, Goto, TypeOK
  <2>4. Listed(list[d], Names[g][k]) \/ Names[g][k] \in Range(creations)
    BY <2>3, CreationsMissNothing
  <2>5. CASE Listed(list[d], Names[g][k])
    <3>1. PICK p \in list[d] : p[1] = Names[g][k]
      BY <2>5 DEF Listed
    <3>2. Traced(Names[g][k])
      BY <1>0, <3>1 DEF ListedAreTraced
    <3> QED  BY <3>2, TracedStays
  <2> QED  BY <2>3, <2>4, <2>5
<1>3. CASE CreateGroup(d)
  <2>1. /\ UNCHANGED <<pc, cur, asked, linked>> /\ pc[d] = "create"
        /\ queue[d] \in Seq(Groups) /\ queue[d] # <<>> /\ queue'[d] = Tail(queue[d])
        /\ gid' = [gid EXCEPT ![Head(queue[d])] = lastId + 1] /\ Head(queue[d]) \in Groups
    BY <1>0, <1>3 DEF CreateGroup, TypeOK
  <2>2. Traced(Names[g][k]) \/ Names[g][k] \in Range(queue[d])
    BY <1>0, <2>1 DEF ParentsAheadFor, Busy
  <2>3. CASE Names[g][k] = Head(queue[d])
    <3>1. gid'[Names[g][k]] = lastId + 1 /\ lastId + 1 # 0
      BY <2>1, <2>3, GroupBoundsAssumption DEF TypeOK
    <3> QED  BY <3>1 DEF Traced, GroupExists
  <2>4. CASE Names[g][k] # Head(queue[d])
    BY <2>1, <2>2, <2>4, HeadOrTail, TracedStays
  <2> QED  BY <2>3, <2>4
<1>4. CASE ExtendList(d)
  <2>1. UNCHANGED <<cur, asked, linked>> /\ pc[d] = "create" /\ queue[d] = <<>>
    BY <1>4 DEF ExtendList
  <2>2. Traced(Names[g][k])
    BY <1>0, <2>1, EmptyHasNone DEF ParentsAheadFor, Busy
  <2> QED  BY <2>2, TracedStays
<1>5. CASE ~(TakeMatched(d) \/ TakeMissing(d) \/ CreateGroup(d) \/ ExtendList(d))
  <2>1. ~Busy(d)' \/ UNCHANGED <<pc, cur, asked, linked, queue>>
    BY <1>0, <1>5 DEF RunStep, StartRun, SkipGroupless, CreateGroupRefused, KeepGroups,
       WriteGroups, WriteRefused, FinishRun, TargetFails, RunDies, Settle, Leave, Goto, Busy,
       TypeOK
  <2>2. Busy(d) /\ ~linked[d] /\ cur[d] \notin AzureSources /\ g \in asked[cur[d]]
        /\ UNCHANGED <<pc, queue>>
    BY <2>1 DEF Busy
  <2> QED  BY <1>0, <2>2, TracedStays DEF ParentsAheadFor
<1> QED  BY <1>1, <1>2, <1>3, <1>4, <1>5

\* Nor do others take a name off its queue, or give its source other groups.
LEMMA ParentsStayAhead == ParentsInv /\ [Next]_vars => ParentsAhead'
<1> SUFFICES ASSUME ParentsInv, [Next]_vars, NEW d \in CreateHostgroups
             PROVE  ParentsAheadFor(d)'
  BY DEF ParentsAhead
<1> USE DEF ParentsInv, TypeInv
<1>0. d \in Deployments /\ ParentsAheadFor(d) /\ (Busy(d) => cur[d] \in Mine(d))
  BY GroupBoundsAssumption DEF ParentsAhead, IInv, TargetInv
<1>1. CASE RunStep(d) \/ TargetFails(d) \/ RunDies(d)
  BY <1>1, OwnStepKeepsParentsAhead
<1>2. ASSUME /\ pc'[d] = pc[d] /\ cur'[d] = cur[d] /\ linked'[d] = linked[d]
             /\ queue'[d] = queue[d] /\ \A s \in Mine(d) : asked'[s] = asked[s]
      PROVE  ParentsAheadFor(d)'
  BY <1>0, <1>2, TracedStays DEF ParentsAheadFor, Busy
<1>3. CASE \E e \in Deployments \ {d} : RunStep(e) \/ TargetFails(e) \/ RunDies(e)
  <2> PICK e \in Deployments \ {d} : RunStep(e) \/ TargetFails(e) \/ RunDies(e)
    BY <1>3
  <2>1. /\ pc'[d] = pc[d] /\ cur'[d] = cur[d] /\ linked'[d] = linked[d]
        /\ queue'[d] = queue[d] /\ \A s \in Mine(d) : asked'[s] = asked[s]
    BY <1>0 DEF TypeOK, RunStep, StartRun, SkipGroupless, TakeMatched, TakeMissing, TakeWith,
       CreateGroup, CreateGroupRefused, ExtendList, KeepGroups, WriteGroups, WriteRefused,
       FinishRun, TargetFails, RunDies, Settle, Leave, Goto, Mine
  <2> QED  BY <1>2, <2>1
<1>4. CASE \/ \E s \in Sources : ChangeWant(s) \/ Regroup(s)
           \/ \E g \in Groups : AddGroup(g) \/ DeleteGroup(g)
  <2>1. UNCHANGED <<pc, cur, linked, queue, asked>>
    BY <1>4 DEF ChangeWant, Regroup, AddGroup, DeleteGroup, KeepTheRuns
  <2> QED  BY <1>2, <2>1
<1>5. CASE UNCHANGED vars
  BY <1>2, <1>5 DEF vars
<1> QED  BY <1>1, <1>3, <1>4, <1>5 DEF Next

\* A host gets its first groups when none of their parents is missing.
LEMMA HostingIsUnderParents ==
  ASSUME ParentsInv, [Next]_vars, NEW s \in Sources \ AzureSources,
         DeploymentOf[s] \in CreateHostgroups, ~hosted[s], hosted'[s],
         NEW g \in asked[s], NEW k \in DOMAIN Names[g]
  PROVE  Traced(Names[g][k])
<1> USE DEF ParentsInv, TypeInv
<1>1. PICK d \in Deployments : WriteGroups(d)
  <2>1. ~(\/ \E r \in Sources : ChangeWant(r) \/ Regroup(r)
          \/ \E h \in Groups : AddGroup(h) \/ DeleteGroup(h))
    BY DEF ChangeWant, Regroup, AddGroup, DeleteGroup, TypeOK
  <2>2. ~UNCHANGED vars
    BY DEF vars
  <2>3. PICK d \in Deployments : RunStep(d) \/ TargetFails(d) \/ RunDies(d)
    BY <2>1, <2>2 DEF Next
  <2>4. WriteGroups(d)
    BY <2>3 DEF RunStep, StartRun, SkipGroupless, TakeMatched, TakeMissing, TakeWith,
       CreateGroup, CreateGroupRefused, ExtendList, KeepGroups, WriteRefused, FinishRun,
       TargetFails, RunDies
  <2> QED  BY <2>4
<1>2. s = cur[d] /\ pc[d] = "write" /\ ~linked[d]
  BY <1>1 DEF WriteGroups, Writable, TypeOK
<1>3. DeploymentOf[s] = d
  BY <1>2 DEF IInv, TargetInv, Busy, Mine
<1> QED  BY <1>2, <1>3 DEF ParentsAhead, ParentsAheadFor, Busy

\* With create_hostgroups, a device's or VM's host is created when all parents
\* of its groups exist, whichever runs died between a group and its parent and
\* however often creations were refused, unless people deleted a parent
\* (create_zbx_hostgroup, zabbix_groups).
THEOREM HostsAreCreatedUnderParents == Spec => CreatedUnderParents
<1> DEFINE Under == \A s \in Sources \ AzureSources :
                       DeploymentOf[s] \in CreateHostgroups /\ ~hosted[s] /\ hosted'[s] =>
                          \A g \in asked[s] : \A k \in DOMAIN Names[g] :
                             GroupExists(Names[g][k]) \/ Names[g][k] \in handDeleted
<1>1. Init => ParentsInv
  <2>1. Init => TypeInv
    BY InitHolds, InitTypeOK DEF TypeInv
  <2>2. Init => ListedAreTraced /\ ParentsAhead
    BY GroupBoundsAssumption DEF Init, ListedAreTraced, ParentsAhead, ParentsAheadFor, Busy
  <2> QED  BY <2>1, <2>2 DEF ParentsInv
<1>2. ParentsInv /\ [Next]_vars => ParentsInv'
  BY TypesStay, ListedStaysTraced, ParentsStayAhead DEF ParentsInv
<1>3. ParentsInv /\ [Next]_vars => Under
  BY HostingIsUnderParents DEF Traced
<1> QED  BY <1>1, <1>2, <1>3, PTL DEF Spec, CreatedUnderParents
=============================================================================
