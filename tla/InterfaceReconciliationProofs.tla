-------------------- MODULE InterfaceReconciliationProofs --------------------
(* Theorems about InterfaceReconciliation, for any config contexts, types,   *)
(* templates and bounds: what the matching computes, and what follows.      *)
EXTENDS InterfaceReconciliation, FiniteSetTheorems, WellFoundedInduction, TLAPS

USE DEF host, netbox, asking, move, past, None
-----------------------------------------------------------------------------
(* Numbers and sets of numbers.                                             *)

\* Numbers have a least one: an induction goes to the first counterexample.
LEMMA LeastNatural ==
  ASSUME NEW T, T \subseteq Nat, T # {}
  PROVE  \E m \in T : \A n \in T : m <= n
<1> DEFINE Below == {0..n : n \in T}
<1>1. IsWellFoundedOn(StrictSubsetOrdering(Nat), FiniteSubsetsOf(Nat))
  BY FS_StrictSubsetOrderingWellFounded
<1>2. Below \subseteq FiniteSubsetsOf(Nat) /\ Below # {}
  <2>1. ASSUME NEW n \in T PROVE 0..n \in FiniteSubsetsOf(Nat)
    <3>1. IsFiniteSet(0..n)
      BY FS_Interval
    <3>2. 0..n \subseteq Nat
      OBVIOUS
    <3> QED  BY <3>1, <3>2 DEF FiniteSubsetsOf
  <2> QED  BY <2>1
<1>3. PICK B \in Below : \A C \in Below : ~(<<C, B>> \in StrictSubsetOrdering(Nat))
  BY <1>1, <1>2, WFMin
<1>4. PICK m \in T : B = 0..m
  BY <1>3
<1>5. ASSUME NEW n \in T PROVE m <= n
  <2>1. 0..n \in SUBSET Nat /\ 0..m \in SUBSET Nat
    OBVIOUS
  <2>2. ~(0..n \subseteq 0..m /\ 0..n # 0..m)
    <3>1. <<0..n, 0..m>> \notin StrictSubsetOrdering(Nat)
      <4>1. 0..n \in Below
        OBVIOUS
      <4> QED  BY <1>3, <1>4, <4>1, Zenon
    <3> QED  BY <2>1, <3>1 DEF StrictSubsetOrdering
  <2>3. m \in Nat /\ n \in Nat /\ (n < m => m \notin 0..n /\ m \in 0..m /\ 0..n \subseteq 0..m)
    OBVIOUS
  <2> QED  BY <2>2, <2>3
<1> QED  BY <1>4, <1>5

\* Of some interfaces, the first in the list of the host.
LEMMA FirstIsThere ==
  ASSUME NEW is \in SUBSET Interfaces, is # {}
  PROVE  \E i \in is : First(is) = i.id /\ \A j \in is : First(is) <= j.id
<1>1. Ids(is) \subseteq Nat /\ Ids(is) # {}
  BY DEF Ids, Interfaces
<1>2. PICK m \in Ids(is) : \A n \in Ids(is) : m <= n
  BY <1>1, LeastNatural
<1>3. First(is) \in Ids(is) /\ \A n \in Ids(is) : First(is) <= n
  BY <1>2 DEF First, Min
<1> QED  BY <1>3 DEF Ids
-----------------------------------------------------------------------------
(* The matching: a recursion over the wishes, told by its steps.            *)

Wish == [type: Types, addr: Addresses, port: Ports, main: BOOLEAN]

\* The interface a wish takes when the ids in taken are gone.
Open(is, w, taken)   == {i \in is : i.type = w.type /\ i.id \notin taken}
Choice(is, w, taken) ==
    LET exact == {i \in Open(is, w, taken) : SameEndpoint(i, w)}
    IN  IF exact # {} THEN First(exact)
        ELSE IF Open(is, w, taken) # {} THEN First(Open(is, w, taken)) ELSE None

LEMMA ChoiceIsOpen ==
  ASSUME NEW is \in SUBSET Interfaces, NEW w, NEW taken
  PROVE  /\ Choice(is, w, taken) \in Nat
         /\ \/ \E i \in Open(is, w, taken) : Choice(is, w, taken) = i.id
            \/ Open(is, w, taken) = {} /\ Choice(is, w, taken) = None
<1> DEFINE open == Open(is, w, taken)
           exact == {i \in open : SameEndpoint(i, w)}
<1>1. open \in SUBSET Interfaces /\ exact \in SUBSET Interfaces /\ exact \subseteq open
  BY DEF Open
<1>2. \A i \in Interfaces : i.id \in Nat
  BY DEF Interfaces
<1>3. CASE exact # {}
  BY <1>1, <1>2, <1>3, FirstIsThere DEF Choice
<1>4. CASE exact = {} /\ open # {}
  BY <1>1, <1>2, <1>4, FirstIsThere DEF Choice
<1>5. CASE open = {}
  BY <1>1, <1>5 DEF Choice
<1> QED  BY <1>3, <1>4, <1>5

\* One step of the recursion of Match.
Step(is, want, p, k) ==
    IF k = 0 THEN <<>>
    ELSE Append(p[k - 1], Choice(is, want[k], Range(p[k - 1])))

\* The recursion has a solution.
LEMMA MatchDefined ==
  ASSUME NEW is, NEW want, Len(want) \in Nat
  PROVE  \E q : /\ q = [k \in 0..Len(want) |-> Step(is, want, q, k)]
                /\ Match(is, want) = q[Len(want)]
<1> DEFINE Solves(q, n) == q = [k \in 0..n |-> Step(is, want, q, k)]
           Bad == {n \in 0..Len(want) : ~ \E q : Solves(q, n)}
<1>1. Bad = {}
  <2> SUFFICES ASSUME Bad # {} PROVE FALSE
    OBVIOUS
  <2>1. PICK m \in Bad : \A n \in Bad : m <= n
    <3>1. Bad \subseteq Nat
      OBVIOUS
    <3> HIDE DEF Bad
    <3> QED  BY <3>1, LeastNatural
  <2>2. CASE m = 0
    <3> DEFINE q == [k \in 0..0 |-> <<>>]
    <3>1. Solves(q, 0)
      BY DEF Step
    <3> QED  BY <2>1, <2>2, <3>1
  <2>3. CASE m # 0
    <3>1. m - 1 \in 0..Len(want) /\ m - 1 \notin Bad /\ m \in Nat
      BY <2>1, <2>3
    <3>2. PICK p : Solves(p, m - 1)
      BY <3>1
    <3> DEFINE q == [k \in 0..m |-> IF k = m THEN Step(is, want, p, m) ELSE p[k]]
    <3>3. ASSUME NEW k \in 0..m PROVE q[k] = Step(is, want, q, k)
      <4>1. k # 0 => k - 1 \in 0..(m - 1) /\ q[k - 1] = p[k - 1]
        BY <3>1
      <4>2. Step(is, want, q, k) = Step(is, want, p, k)
        BY <4>1 DEF Step
      <4>3. k # m => p[k] = Step(is, want, p, k)
        <5>1. k # m => k \in 0..(m - 1)
          BY <3>1
        <5> QED  BY <3>2, <5>1
      <4> QED  BY <4>2, <4>3
    <3>4. Solves(q, m)
      BY <3>3
    <3> QED  BY <2>1, <3>4
  <2> QED  BY <2>2, <2>3
<1>2. \E q : Solves(q, Len(want))
  BY <1>1
<1> DEFINE q == CHOOSE q : Solves(q, Len(want))
<1>3. Solves(q, Len(want))
  BY <1>2
<1>4. Match(is, want) = q[Len(want)]
  BY DEF Match, Step, Choice, Open
<1> QED  BY <1>3, <1>4
\* Each wish, in order, takes what is open to it after those before it.
Follows(is, want, m) ==
    /\ m \in [1..Len(want) -> Nat]
    /\ \A k \in 1..Len(want) : m[k] = Choice(is, want[k], {m[j] : j \in 1..(k - 1)})

LEMMA MatchFollows ==
  ASSUME NEW is \in SUBSET Interfaces, NEW want, Len(want) \in Nat
  PROVE  Follows(is, want, Match(is, want))
<1> DEFINE N == Len(want)
<1>1. PICK q : /\ q = [k \in 0..N |-> Step(is, want, q, k)]
               /\ Match(is, want) = q[N]
  BY MatchDefined
<1>2. \A k \in 0..N : q[k] = Step(is, want, q, k)
  BY <1>1
<1> DEFINE Good(k) == /\ q[k] \in [1..k -> Nat] /\ q[k] \in Seq(Nat) /\ Len(q[k]) = k
                      /\ \A j \in 1..k :
                             q[k][j] = Choice(is, want[j], {q[k][i] : i \in 1..(j - 1)})
           Bad == {k \in 0..N : ~Good(k)}
<1>3. Bad = {}
  <2> SUFFICES ASSUME Bad # {} PROVE FALSE
    OBVIOUS
  <2>1. PICK m \in Bad : \A n \in Bad : m <= n
    <3>1. Bad \subseteq Nat
      OBVIOUS
    <3> HIDE DEF Bad
    <3> QED  BY <3>1, LeastNatural
  <2>2. m \in 0..N /\ ~Good(m)
    BY <2>1
  <2>3. CASE m = 0
    <3>1. q[0] = <<>>
      BY <1>2, <2>2, <2>3 DEF Step
    <3> QED  BY <2>2, <2>3, <3>1
  <2>4. CASE m # 0
    <3> DEFINE p == q[m - 1]
               c == Choice(is, want[m], Range(p))
    <3>1. m - 1 \in 0..N /\ m \in Nat /\ ~(m <= m - 1)
      BY <2>2, <2>4
    <3>2. Good(m - 1)
      <4> HIDE DEF Good
      <4> QED  BY <2>1, <3>1
    <3>3. q[m] = Append(p, c)
      BY <1>2, <2>2, <2>4 DEF Step
    <3>4. c \in Nat
      BY ChoiceIsOpen
    <3>5. p \in Seq(Nat) /\ Len(p) = m - 1 /\ p \in [1..(m - 1) -> Nat]
      BY <3>2
    <3> HIDE DEF p, c
    <3>6. /\ q[m] \in Seq(Nat) /\ Len(q[m]) = m /\ q[m] \in [1..m -> Nat]
          /\ q[m][m] = c /\ \A j \in 1..(m - 1) : q[m][j] = p[j]
      <4>1. q[m] \in Seq(Nat) /\ Len(q[m]) = m
        BY <3>1, <3>3, <3>4, <3>5
      <4>2. q[m] \in [1..m -> Nat]
        BY <4>1
      <4>3. \A j \in 1..m : q[m][j] = IF j = m THEN c ELSE p[j]
        BY <3>1, <3>3, <3>4, <3>5
      <4> QED  BY SMTT(30), <3>1, <4>1, <4>2, <4>3
    <3>7. Range(p) = {q[m][i] : i \in 1..(m - 1)}
      BY <3>5, <3>6 DEF Range
    <3>8. ASSUME NEW j \in 1..m
          PROVE  q[m][j] = Choice(is, want[j], {q[m][i] : i \in 1..(j - 1)})
      <4>1. CASE j = m
        BY <4>1, <3>6, <3>7 DEF c
      <4>2. CASE j # m
        <5>1. j \in 1..(m - 1) /\ \A i \in 1..(j - 1) : i \in 1..(m - 1)
          BY <4>2, <3>1
        <5>2. {q[m][i] : i \in 1..(j - 1)} = {p[i] : i \in 1..(j - 1)}
          BY <3>6, <5>1
        <5>3. p[j] = Choice(is, want[j], {p[i] : i \in 1..(j - 1)})
          BY <3>2, <5>1 DEF p
        <5> QED  BY <3>6, <5>1, <5>2, <5>3
      <4> QED  BY <4>1, <4>2
    <3> QED  BY <2>2, <3>6, <3>8
  <2> QED  BY <2>3, <2>4
<1>4. Good(N)
  <2>1. N \in 0..N
    OBVIOUS
  <2> HIDE DEF Good
  <2> QED  BY <1>3, <2>1
<1> QED  BY <1>1, <1>4 DEF Follows

\* Nothing else does.
LEMMA MatchIsTheOne ==
  ASSUME NEW is \in SUBSET Interfaces, NEW want, Len(want) \in Nat,
         NEW m, Follows(is, want, m)
  PROVE  m = Match(is, want)
<1> DEFINE q == Match(is, want)
           Bad == {k \in 1..Len(want) : m[k] # q[k]}
<1>1. Follows(is, want, q)
  BY MatchFollows
<1> HIDE DEF q
<1>2. Bad = {}
  <2> SUFFICES ASSUME Bad # {} PROVE FALSE
    OBVIOUS
  <2>1. PICK k \in Bad : \A n \in Bad : k <= n
    <3>1. Bad \subseteq Nat
      OBVIOUS
    <3> HIDE DEF Bad
    <3> QED  BY <3>1, LeastNatural
  <2>2. k \in 1..Len(want) /\ m[k] # q[k]
    BY <2>1
  <2>3. \A j \in 1..(k - 1) : m[j] = q[j]
    BY <2>1, <2>2
  <2>4. {m[j] : j \in 1..(k - 1)} = {q[j] : j \in 1..(k - 1)}
    BY <2>3
  <2> QED  BY <1>1, <2>2, <2>4 DEF Follows
<1>3. m = q
  BY <1>1, <1>2 DEF Follows
<1> QED  BY <1>3 DEF q
\* What a matching is good for: no interface serves two wishes, one that serves a
\* wish is of its type, and a wish is unserved when others took all of its type.
Serves(is, want, m) ==
    /\ m \in [1..Len(want) -> Nat]
    /\ \A j, k \in 1..Len(want) : m[j] = m[k] /\ m[k] # None => j = k
    /\ \A k \in 1..Len(want) :
           m[k] # None => \E i \in is : i.id = m[k] /\ i.type = want[k].type
    /\ \A k \in 1..Len(want) :
           m[k] = None => \A i \in is : i.type = want[k].type =>
                              \E j \in 1..Len(want) : m[j] = i.id

LEMMA MatchServes ==
  ASSUME NEW is \in SUBSET Interfaces, \A i \in is : i.id # None,
         NEW want, Len(want) \in Nat
  PROVE  Serves(is, want, Match(is, want))
<1> DEFINE m == Match(is, want)
           taken(k) == {m[j] : j \in 1..(k - 1)}
<1>1. Follows(is, want, m)
  BY MatchFollows
<1> HIDE DEF m
<1>2. ASSUME NEW k \in 1..Len(want)
      PROVE  \/ \E i \in is : m[k] = i.id /\ i.type = want[k].type /\ i.id \notin taken(k)
             \/ /\ m[k] = None
                /\ \A i \in is : i.type = want[k].type => i.id \in taken(k)
  <2>1. m[k] = Choice(is, want[k], taken(k))
    BY <1>1 DEF Follows
  <2> HIDE DEF taken
  <2> QED  BY <2>1, ChoiceIsOpen DEF Open
<1>3. m \in [1..Len(want) -> Nat]
  BY <1>1 DEF Follows
<1>4. ASSUME NEW j \in 1..Len(want), NEW k \in 1..Len(want), j < k, m[k] # None
      PROVE  m[j] # m[k]
  <2>1. j \in 1..(k - 1)
    BY <1>4
  <2> QED  BY <1>2, <1>4, <2>1
<1>5. ASSUME NEW j \in 1..Len(want), NEW k \in 1..Len(want), m[j] = m[k], m[k] # None
      PROVE  j = k
  BY <1>4, <1>5
<1>6. ASSUME NEW k \in 1..Len(want), m[k] = None, NEW i \in is, i.type = want[k].type
      PROVE  \E j \in 1..Len(want) : m[j] = i.id
  <2>1. i.id \in taken(k)
    BY <1>2, <1>6
  <2>2. PICK j \in 1..(k - 1) : i.id = m[j]
    BY <2>1
  <2>3. j \in 1..Len(want)
    OBVIOUS
  <2> QED  BY <2>2, <2>3
<1>7. Serves(is, want, m)
  BY <1>2, <1>3, <1>5, <1>6 DEF Serves
<1> QED  BY <1>7 DEF m

\* The interface added for the one unserved wish, of a type that was not there,
\* serves that wish and changes nothing for the others.
LEMMA MatchOneMore ==
  ASSUME NEW is \in SUBSET Interfaces, \A i \in is : i.id # None,
         NEW want \in Seq(Wish), NEW w \in 1..Len(want),
         Unserved(is, want) = {w}, want[w].type \notin TypesOf(is),
         NEW id \in Nat \ {None}, \A i \in is : i.id # id
  PROVE  Match(is \cup {Interface(want[w], id)}, want) = [Match(is, want) EXCEPT ![w] = id]
<1> DEFINE q == Match(is, want)
           m == [q EXCEPT ![w] = id]
           n == Interface(want[w], id)
           more == is \cup {n}
<1>1. Follows(is, want, q)
  BY MatchFollows
<1>2. /\ q \in [1..Len(want) -> Nat]
      /\ \A k \in 1..Len(want) :
             q[k] # None => \E i \in is : i.id = q[k] /\ i.type = want[k].type
  <2>1. Serves(is, want, q)
    BY MatchServes
  <2> QED  BY <2>1 DEF Serves
<1>3. \A k \in 1..Len(want) : q[k] = None <=> k = w
  BY DEF Unserved
<1>4. /\ n \in Interfaces /\ n.id = id /\ n.type = want[w].type
      /\ SameEndpoint(n, want[w])
  <2>1. want[w] \in Wish
    OBVIOUS
  <2> QED  BY <2>1 DEF Interface, Interfaces, Wish, SameEndpoint
<1>5. more \in SUBSET Interfaces
  BY <1>4
<1> HIDE DEF q, n
<1>6. m \in [1..Len(want) -> Nat] /\ m[w] = id
      /\ \A k \in 1..Len(want) : k # w => m[k] = q[k]
  BY <1>2
<1>7. ASSUME NEW k \in 1..Len(want)
      PROVE  m[k] = Choice(more, want[k], {m[j] : j \in 1..(k - 1)})
  <2> DEFINE had == {q[j] : j \in 1..(k - 1)}
             has == {m[j] : j \in 1..(k - 1)}
  <2>1. \A i \in is : i.id \in had <=> i.id \in has
    <3>1. \A j \in 1..(k - 1) : j \in 1..Len(want)
      OBVIOUS
    <3> QED  BY <1>3, <1>6, <3>1
  <2>2. CASE k = w
    <3>1. \A j \in 1..(k - 1) : j \in 1..Len(want) /\ j # w
      BY <2>2
    <3>2. id \notin has
      BY <1>2, <1>3, <1>6, <3>1
    <3>3. Open(more, want[w], has) = {n}
      BY <1>4, <3>2 DEF Open, TypesOf
    <3>4. Choice(more, want[w], has) = First({n})
      <4> HIDE DEF has
      <4> QED  BY <1>4, <3>3 DEF Choice
    <3>5. First({n}) = id
      BY <1>4, <1>5, FirstIsThere
    <3> QED  BY <1>6, <2>2, <3>4, <3>5
  <2>3. CASE k # w
    <3>1. want[k].type # want[w].type
      BY <1>2, <1>3, <2>3 DEF TypesOf
    <3>2. Open(more, want[k], has) = Open(is, want[k], had)
      <4> HIDE DEF had, has
      <4> QED  BY <1>4, <2>1, <3>1 DEF Open
    <3>3. Choice(more, want[k], has) = Choice(is, want[k], had)
      <4> HIDE DEF had, has
      <4> QED  BY <3>2 DEF Choice
    <3>4. q[k] = Choice(is, want[k], had)
      BY <1>1 DEF Follows
    <3> QED  BY <1>6, <2>3, <3>3, <3>4
  <2> QED  BY <2>2, <2>3
<1>8. Follows(more, want, m)
  BY <1>6, <1>7 DEF Follows
<1> HIDE DEF m, more
<1>9. m = Match(more, want)
  BY <1>5, <1>8, MatchIsTheOne
<1> QED  BY <1>9 DEF m, q, more, n
-----------------------------------------------------------------------------
(* What a config context that is not refused asks for.                      *)

\* One wish of each type asked for is to be the main one.
OneMain(want) == \A k \in DOMAIN want :
    Cardinality({j \in DOMAIN want : want[j].type = want[k].type /\ want[j].main}) = 1

LEMMA PrimaryIsWish ==
  ASSUME NEW o \in Option, PrimaryAccepted(o)
  PROVE  PrimaryInterface(o) \in Wish
<1>1. Or(o.type, DefaultType) \in Types
  BY InterfaceAssumption DEF Option, Or
<1>2. Or(o.addr, PrimaryAddress) \in Addresses
  BY InterfaceAssumption DEF Option, Or, PrimaryAccepted
<1>3. \A t \in Types : DefaultPort[t] \in Ports /\ Or(o.port, DefaultPort[t]) \in Ports
  BY InterfaceAssumption DEF Option, Or
<1> QED  BY <1>1, <1>2, <1>3 DEF PrimaryInterface, Wish

\* Before WithMain a wish may leave open whether it is the main one.
Draft == [type: Types, addr: Addresses, port: Ports, main: BOOLEAN \cup {Unset}]

LEMMA MoreIsDraft ==
  ASSUME NEW o \in Option, MoreAccepted(o)
  PROVE  MoreInterface(o) \in Draft
<1>1. o.type \in Types /\ o.main \in BOOLEAN \cup {Unset}
  BY DEF Option, MoreAccepted
<1>2. Or(o.addr, PrimaryAddress) \in Addresses
  BY InterfaceAssumption DEF Option, Or, MoreAccepted
<1>3. Or(o.port, DefaultPort[o.type]) \in Ports
  BY <1>1, InterfaceAssumption DEF Option, Or
<1> QED  BY <1>1, <1>2, <1>3 DEF MoreInterface, Draft

LEMMA DesiredIsRight ==
  ASSUME NEW c \in Configs, Valid(c)
  PROVE  Desired(c) \in Seq(Wish) /\ OneMain(Desired(c))
<1>2. c.primary \in Option /\ c.more \in Seq(Option)
  BY ConfigAssumption
<1>3. Built(c) \in Seq(Draft)
  <2>1. HasPrimary(c) => PrimaryInterface(c.primary) \in Draft
    BY <1>2, PrimaryIsWish DEF Valid, Wish, Draft
  <2>2. (IF HasPrimary(c) THEN <<PrimaryInterface(c.primary)>> ELSE <<>>) \in Seq(Draft)
    BY <2>1
  <2>3. \A k \in DOMAIN c.more : MoreInterface(c.more[k]) \in Draft
    <3>1. \A k \in DOMAIN c.more : c.more[k] \in Option
      BY <1>2
    <3> QED  BY <3>1, MoreIsDraft DEF Valid
  <2>4. [k \in DOMAIN c.more |-> MoreInterface(c.more[k])] \in Seq(Draft)
    <3> QED  BY <1>2, <2>3
  <2> QED  BY <2>2, <2>4 DEF Built
<1>4. ASSUME NEW is \in Seq(Draft) PROVE WithMain(is) \in Seq(Wish)
  <2>1. ASSUME NEW k \in DOMAIN is
        PROVE  [is[k] EXCEPT !.main = Or(@, \A j \in 1..(k - 1) : is[j].type # is[k].type)]
                 \in Wish
    <3>1. is[k] \in Draft
      BY <1>4
    <3>2. Or(is[k].main, \A j \in 1..(k - 1) : is[j].type # is[k].type) \in BOOLEAN
      BY <3>1 DEF Or, Draft
    <3> QED  BY <3>1, <3>2 DEF Wish, Draft
  <2>2. DOMAIN is = 1..Len(is) /\ Len(is) \in Nat
    BY <1>4
  <2>3. WithMain(is) \in [1..Len(is) -> Wish]
    BY <2>1, <2>2, Zenon DEF WithMain
  <2> QED  BY <2>2, <2>3
<1>5. Desired(c) \in Seq(Wish)
  BY <1>3, <1>4 DEF Desired
<1>6. OneMain(Desired(c))
  BY DEF Valid, OneMain
<1> QED  BY <1>5, <1>6
-----------------------------------------------------------------------------
(* host.update: the interfaces that a host has afterwards.                  *)

\* Interfaces with ids of their own, all of them handed out before next.
Sound(is, next) ==
    /\ is \in SUBSET Interfaces /\ IsFiniteSet(is)
    /\ \A i \in is : i.id \in 1..(next - 1)
    /\ \A i, j \in is : i.id = j.id => i = j

\* A later wish of a list gets a later id.
LEMMA RanksDiffer ==
  ASSUME NEW D, D \subseteq Nat, IsFiniteSet(D), NEW j \in D, NEW k \in D, j < k
  PROVE  /\ Cardinality({i \in D : i < j}) \in Nat /\ Cardinality({i \in D : i < k}) \in Nat
         /\ Cardinality({i \in D : i < j}) < Cardinality({i \in D : i < k})
<1> DEFINE A == {i \in D : i < j}
           B == {i \in D : i < k}
<1>1. A \in SUBSET B /\ B \in SUBSET D /\ j \in B /\ j \notin A
  <2>1. j \in Nat /\ k \in Nat /\ \A i \in D : i \in Nat
    OBVIOUS
  <2>2. ~(j < j) /\ \A i \in D : i < j => i < k
    BY <2>1
  <2>3. A \in SUBSET B
    BY <2>2
  <2> QED  BY <2>2, <2>3
<1> HIDE DEF A, B
<1>2. IsFiniteSet(B)
  BY <1>1, FS_Subset
<1>4. IsFiniteSet(A) /\ Cardinality(A) <= Cardinality(B) /\ Cardinality(A) # Cardinality(B)
  BY <1>1, <1>2, FS_Subset
<1>3. Cardinality(A) \in Nat /\ Cardinality(B) \in Nat
  BY <1>2, <1>4, FS_CardinalityType
<1> QED  BY <1>3, <1>4 DEF A, B

LEMMA RankInRange ==
  ASSUME NEW D, D \subseteq Nat, IsFiniteSet(D), NEW k \in D
  PROVE  /\ Cardinality(D) \in Nat
         /\ Cardinality({i \in D : i < k}) \in 0..(Cardinality(D) - 1)
<1> DEFINE A == {i \in D : i < k}
<1>1. IsFiniteSet(A) /\ Cardinality(A) <= Cardinality(D) /\ Cardinality(A) # Cardinality(D)
  BY FS_Subset
<1>2. Cardinality(A) \in Nat /\ Cardinality(D) \in Nat
  BY <1>1, FS_CardinalityType
<1> QED  BY <1>1, <1>2

\* The new interfaces get ids of their own.
LEMMA NewOnesAreNew ==
  ASSUME NEW D, D \subseteq Nat, IsFiniteSet(D), NEW fresh \in [D -> Wish],
         nextId \in Nat \ {0}
  PROVE  /\ Cardinality(D) \in Nat
         /\ Sound(NewOnes(fresh), nextId + Cardinality(D))
         /\ \A i \in NewOnes(fresh) : i.id >= nextId
<1> DEFINE rank(k) == Cardinality({i \in D : i < k})
           new1(k) == Interface(fresh[k], nextId + rank(k))
           f == [k \in D |-> new1(k)]
<1>1. Cardinality(D) \in Nat
  BY FS_CardinalityType
<1>2. DOMAIN fresh = D /\ NewOnes(fresh) = {new1(k) : k \in D}
  BY DEF NewOnes
<1>3. \A k \in D : rank(k) \in 0..(Cardinality(D) - 1)
  BY RankInRange
<1>4. \A j, k \in D : rank(j) = rank(k) => j = k
  <2>1. ASSUME NEW j \in D, NEW k \in D, j < k PROVE rank(j) < rank(k)
    BY <2>1, RanksDiffer
  <2> HIDE DEF rank
  <2>2. \A k \in D : k \in Nat /\ rank(k) \in Nat
    BY <1>1, <1>3
  <2> QED  BY <2>1, <2>2
<1> HIDE DEF rank
<1>5. ASSUME NEW k \in D
      PROVE  /\ new1(k) \in Interfaces /\ new1(k).id = nextId + rank(k)
             /\ new1(k).id \in nextId..(nextId + Cardinality(D) - 1)
  <2>1. fresh[k] \in Wish /\ nextId + rank(k) \in Nat
    BY <1>3
  <2>2. new1(k) \in Interfaces /\ new1(k).id = nextId + rank(k)
    BY <2>1 DEF Interface, Interfaces, Wish
  <2> QED  BY <1>1, <1>3, <2>2
<1>6. \A j, k \in D : new1(j).id = new1(k).id => new1(j) = new1(k)
  BY <1>3, <1>4, <1>5
<1> HIDE DEF new1
<1>7. IsFiniteSet(NewOnes(fresh))
  <2>1. f \in Surjection(D, NewOnes(fresh))
    BY <1>2 DEF Surjection
  <2> QED  BY <2>1, FS_Surjection
<1>8. \A i \in NewOnes(fresh) : i \in Interfaces /\ i.id \in nextId..(nextId + Cardinality(D) - 1)
  BY <1>2, <1>5
<1>9. \A i, j \in NewOnes(fresh) : i.id = j.id => i = j
  BY <1>2, <1>6
<1> QED  BY <1>1, <1>7, <1>8, <1>9 DEF Sound
\* Updating the host leaves it with interfaces of their own ids, old and new.
LEMMA ReplaceIsSound ==
  ASSUME nextId \in Nat \ {0}, NEW kept, Sound(kept, nextId),
         NEW D, D \subseteq Nat, IsFiniteSet(D), NEW fresh \in [D -> Wish],
         Replace(kept, fresh)
  PROVE  /\ nextId' \in Nat /\ nextId' >= nextId
         /\ Sound(ifaces', nextId') /\ kept \subseteq ifaces'
<1> DEFINE ones == NewOnes(fresh)
<1>1. /\ Cardinality(D) \in Nat /\ Sound(ones, nextId + Cardinality(D))
      /\ \A i \in ones : i.id >= nextId
  BY NewOnesAreNew
<1>2. ifaces' = kept \cup ones /\ nextId' = nextId + Cardinality(D)
  BY DEF Replace
<1> HIDE DEF ones
<1>3. IsFiniteSet(ifaces')
  BY <1>1, <1>2, FS_Union DEF Sound
<1>4. nextId' \in Nat /\ nextId' >= nextId
  BY <1>1, <1>2
<1>5. \A i \in ifaces' : i \in Interfaces /\ i.id \in 1..(nextId' - 1)
  <2>1. \A i \in kept : i \in Interfaces /\ i.id \in 1..(nextId - 1)
    BY DEF Sound
  <2>2. \A i \in ones : i \in Interfaces /\ i.id \in 1..(nextId' - 1)
    BY <1>1, <1>2 DEF Sound
  <2> QED  BY <1>2, <1>4, <2>1, <2>2
<1>6. ASSUME NEW i \in ifaces', NEW j \in ifaces', i.id = j.id PROVE i = j
  <2>1. CASE i \in kept /\ j \in kept
    BY <1>6, <2>1 DEF Sound
  <2>2. CASE i \in ones /\ j \in ones
    BY <1>1, <1>6, <2>2 DEF Sound
  <2>3. CASE (i \in ones /\ j \in kept) \/ (i \in kept /\ j \in ones)
    <3>1. \A x \in kept : x.id < nextId
      BY DEF Sound
    <3>2. \A x \in ones : ~(x.id < nextId)
      BY <1>1 DEF Sound
    <3> QED  BY <1>6, <2>3, <3>1, <3>2
  <2> QED  BY <1>2, <2>1, <2>2, <2>3
<1> QED  BY <1>2, <1>3, <1>4, <1>5, <1>6 DEF Sound

LEMMA SoundGrows ==
  ASSUME NEW is, NEW m \in Nat, NEW n \in Nat, m <= n, Sound(is, m)
  PROVE  Sound(is, n)
<1>1. \A i \in is : i.id \in 1..(m - 1)
  BY DEF Sound
<1>2. \A i \in is : i.id \in 1..(n - 1)
  BY <1>1
<1> QED  BY <1>2 DEF Sound

\* The interfaces to retain have the ids of different ones of the host.
LEMMA RetainedIsSound ==
  ASSUME NEW next \in Nat, NEW is, Sound(is, next), NEW want \in Seq(Wish)
  PROVE  /\ Sound(Retained(is, want), next) /\ Ids(Retained(is, want)) \subseteq Ids(is)
         /\ Unserved(is, want) \subseteq 1..Len(want)
         /\ IsFiniteSet(Unserved(is, want)) /\ Unserved(is, want) \subseteq Nat
         /\ Lacking(is, want) \in [Unserved(is, want) -> Wish]
<1> DEFINE m == Match(is, want)
           K == 1..Len(want) \ Unserved(is, want)
           kept(k) == Interface(want[k], m[k])
           f == [k \in K |-> kept(k)]
<1>1. Len(want) \in Nat /\ DOMAIN want = 1..Len(want) /\ \A k \in 1..Len(want) : want[k] \in Wish
  OBVIOUS
<1>2. is \in SUBSET Interfaces /\ \A i \in is : i.id # None
  BY DEF Sound
<1>3. /\ m \in [1..Len(want) -> Nat]
      /\ \A j, k \in 1..Len(want) : m[j] = m[k] /\ m[k] # None => j = k
      /\ \A k \in 1..Len(want) :
             m[k] # None => \E i \in is : i.id = m[k] /\ i.type = want[k].type
  <2>1. Serves(is, want, m)
    BY <1>1, <1>2, MatchServes
  <2> QED  BY <2>1 DEF Serves
<1>4. Unserved(is, want) = {k \in 1..Len(want) : m[k] = None}
  BY <1>1 DEF Unserved
<1>5. Retained(is, want) = {kept(k) : k \in K}
  BY <1>1 DEF Retained
<1> HIDE DEF m
<1>6. IsFiniteSet(1..Len(want))
  BY <1>1, FS_Interval
<1>7. IsFiniteSet(K) /\ IsFiniteSet(Unserved(is, want))
  BY <1>4, <1>6, FS_Subset
<1>8. ASSUME NEW k \in K
      PROVE  kept(k) \in Interfaces /\ kept(k).id = m[k] /\ m[k] \in Ids(is)
  <2>1. want[k] \in Wish /\ m[k] \in Nat /\ m[k] # None
    BY <1>1, <1>3, <1>4
  <2> QED  BY <1>3, <1>4, <2>1 DEF Interface, Interfaces, Wish, Ids
<1>9. \A j, k \in K : kept(j).id = kept(k).id => kept(j) = kept(k)
  BY <1>3, <1>4, <1>8
<1> HIDE DEF kept
<1>10. f \in Surjection(K, Retained(is, want))
  BY <1>5 DEF Surjection
<1>11. IsFiniteSet(Retained(is, want))
  BY <1>7, <1>10, FS_Surjection
<1>12. \A i \in is : i.id \in 1..(next - 1)
  BY DEF Sound
<1>13. \A i \in Retained(is, want) : /\ i \in Interfaces /\ i.id \in Ids(is)
                                     /\ i.id \in 1..(next - 1)
  BY <1>5, <1>8, <1>12 DEF Ids
<1>14. \A i, j \in Retained(is, want) : i.id = j.id => i = j
  BY <1>5, <1>9
<1>15. Lacking(is, want) \in [Unserved(is, want) -> Wish]
  BY <1>1, <1>4 DEF Lacking, Restrict
<1>16. Ids(Retained(is, want)) \subseteq Ids(is)
  BY <1>13 DEF Ids
<1> QED  BY <1>4, <1>7, <1>11, <1>13, <1>14, <1>15, <1>16 DEF Sound
\* Part of the wishes may be sent.
LEMMA PartOfWishes ==
  ASSUME NEW want \in Seq(Wish), NEW D \in SUBSET (1..Len(want))
  PROVE  Restrict(want, D) \in [D -> Wish] /\ D \subseteq Nat /\ IsFiniteSet(D)
<1>1. IsFiniteSet(1..Len(want)) /\ Len(want) \in Nat
  BY FS_Interval
<1>2. IsFiniteSet(D)
  BY <1>1, FS_Subset
<1> QED  BY <1>2 DEF Restrict

\* A move is from the one interface left over to one wish, which is the one
\* unserved wish, of a type that the host lacks, or one of another type.
LEMMA OneReplacement ==
  ASSUME NEW next \in Nat, NEW is, Sound(is, next), NEW want \in Seq(Wish), Replaces(is, want)
  PROVE  /\ OldOf(is, want) \in is /\ Unmatched(is, want) = {OldOf(is, want)}
         /\ WishOf(is, want) \in 1..Len(want)
         /\ Unserved(is, want) # {} => /\ Unserved(is, want) = {WishOf(is, want)}
                                       /\ want[WishOf(is, want)].type \notin TypesOf(is)
<1> DEFINE U == Unmatched(is, want)
           V == Unserved(is, want)
           R == Replacements(is, want)
<1>1. IsFiniteSet(V) /\ V \subseteq 1..Len(want) /\ DOMAIN want = 1..Len(want)
  BY RetainedIsSound
<1>2. IsFiniteSet(U) /\ U \subseteq is
  BY FS_Subset DEF Sound, Unmatched
<1>3. Cardinality(R) = 1 /\ Cardinality({}) = 0
  BY FS_EmptySet DEF Replaces
<1>4. Cardinality(U) = 1
  BY <1>3 DEF Replacements
<1>5. PICK o : U = {o}
  BY <1>2, <1>4, FS_Singleton
<1>6. OldOf(is, want) = o
  BY <1>5 DEF OldOf
<1>7. /\ R \subseteq 1..Len(want)
      /\ V # {} => R \subseteq V /\ Cardinality(V) = 1
                   /\ \A k \in R : want[k].type \notin TypesOf(is)
  <2>1. CASE Cardinality(V) = 1
    BY <1>1, <1>3, <1>4, <2>1 DEF Replacements
  <2>2. CASE Cardinality(V) # 1 /\ V = {}
    <3>1. R \subseteq DOMAIN want
      BY <1>4, <2>2 DEF Replacements
    <3> QED  BY <1>1, <2>2, <3>1
  <2>3. CASE Cardinality(V) # 1 /\ V # {}
    BY <1>3, <1>4, <2>3 DEF Replacements
  <2> QED  BY <2>1, <2>2, <2>3
<1>8. PICK w : R = {w}
  <2>1. IsFiniteSet(R)
    <3>1. IsFiniteSet(1..Len(want))
      BY <1>1, FS_Interval
    <3> QED  BY <1>7, <3>1, FS_Subset
  <2> QED  BY <1>3, <2>1, FS_Singleton
<1>9. WishOf(is, want) = w
  BY <1>8 DEF WishOf
<1>10. V # {} => V = {w}
  BY <1>1, <1>7, <1>8, FS_Singleton
<1> QED  BY <1>2, <1>5, <1>6, <1>7, <1>8, <1>9, <1>10
-----------------------------------------------------------------------------
(* Types.  A run keeps readings of the host, whose ids remain those of the   *)
(* same interfaces, and works with wishes only when it has some.            *)

Working == {"stage", "stageRead", "swap", "addRead", "items", "move"}
HostTyped ==
    /\ nextId \in Nat \ {0} /\ Sound(ifaces, nextId)
    /\ linked \in Templates
    /\ on \in [Items -> Ids(ifaces) \cup {None}]
ReadingsTyped == Sound(seen, nextId) /\ Sound(before, nextId)
RunTyped ==
    /\ template \in Templates /\ askedTmpl \in Templates
    /\ config \in Configs /\ wishes \in {Asked(c) : c \in Configs}
    /\ pc \in PCs /\ (pc \in Working => wishes # Refused)
    /\ transfer \in BOOLEAN /\ quiet \in BOOLEAN
    /\ old \in Nat /\ new \in Nat /\ moving \subseteq Items
    /\ outcome \in {"none", "done", "failed"}
    /\ edits \in 0..MaxEdits /\ faults \in 0..MaxFaults
TypeInv == HostTyped /\ ReadingsTyped /\ RunTyped

LEMMA TypesAreRight == TypeInv => TypeOK
<1> SUFFICES ASSUME TypeInv PROVE TypeOK
  OBVIOUS
<1>1. /\ ifaces \subseteq Interfaces /\ seen \subseteq Interfaces
      /\ before \subseteq Interfaces
      /\ nextId \in Nat /\ \A i \in ifaces : i.id \in 1..(nextId - 1)
      /\ \A i, j \in ifaces : i.id = j.id => i = j
  BY DEF TypeInv, HostTyped, ReadingsTyped, Sound
<1> QED  BY <1>1 DEF TypeInv, HostTyped, RunTyped, TypeOK

LEMMA WishesAreRight ==
  ASSUME TypeInv, wishes # Refused
  PROVE  wishes \in Seq(Wish) /\ OneMain(wishes)
<1>1. PICK c \in Configs : wishes = Asked(c)
  BY DEF TypeInv, RunTyped
<1>2. Valid(c) /\ wishes = Desired(c)
  BY <1>1 DEF Asked
<1> QED  BY <1>2, DesiredIsRight

LEMMA NoneIsSound ==
  ASSUME NEW next \in Nat PROVE Sound({}, next)
  BY FS_EmptySet DEF Sound

LEMMA TypeInit == Init => TypeInv
<1> SUFFICES ASSUME Init PROVE TypeInv
  OBVIOUS
<1> DEFINE want == Desired(config)
           made(k) == Interface(want[k], k)
           f == [k \in 1..Len(want) |-> made(k)]
<1>1. /\ config \in Configs /\ Valid(config)
      /\ ifaces = {made(k) : k \in DOMAIN want} /\ nextId = Len(want) + 1
  BY DEF Init
<1>2. want \in Seq(Wish)
  BY <1>1, DesiredIsRight
<1> HIDE DEF want
<1>3. Len(want) \in Nat /\ DOMAIN want = 1..Len(want) /\ \A k \in 1..Len(want) : want[k] \in Wish
  BY <1>2
<1>4. \A k \in 1..Len(want) : made(k) \in Interfaces /\ made(k).id = k
  BY <1>3 DEF Interface, Interfaces, Wish
<1> HIDE DEF made
<1>5. IsFiniteSet(ifaces)
  <2>1. f \in Surjection(1..Len(want), ifaces)
    BY <1>1, <1>3 DEF Surjection
  <2>2. IsFiniteSet(1..Len(want))
    BY <1>3, FS_Interval
  <2> QED  BY <2>1, <2>2, FS_Surjection
<1>6. nextId \in Nat \ {0} /\ Sound(ifaces, nextId)
  <2>1. \A i \in ifaces : i \in Interfaces /\ i.id \in 1..(nextId - 1)
    BY <1>1, <1>3, <1>4
  <2>2. \A i, j \in ifaces : i.id = j.id => i = j
    BY <1>1, <1>3, <1>4
  <2> QED  BY <1>1, <1>3, <1>5, <2>1, <2>2 DEF Sound
<1>7. Sound({}, nextId)
  BY <1>6, NoneIsSound
<1>8. on \in [Items -> Ids(ifaces) \cup {None}]
  <2>1. PICK i \in Carriers(template, ifaces) :
            on = [x \in Items |-> IF x = template THEN i.id ELSE None]
    BY DEF Init
  <2>2. i \in ifaces
    BY <2>1 DEF Carriers
  <2> QED  BY <2>1, <2>2 DEF Ids
<1>9. HostTyped
  BY <1>6, <1>8 DEF Init, HostTyped
<1>10. ReadingsTyped
  BY <1>7 DEF Init, ReadingsTyped
<1>11. RunTyped
  <2>1. /\ pc \in PCs /\ pc \notin Working /\ transfer \in BOOLEAN /\ quiet \in BOOLEAN
        /\ old \in Nat /\ new \in Nat /\ moving \subseteq Items
        /\ outcome \in {"none", "done", "failed"}
    BY DEF Init, PCs, Working
  <2>2. edits \in 0..MaxEdits /\ faults \in 0..MaxFaults
    BY InterfaceAssumption DEF Init
  <2> QED  BY <2>1, <2>2 DEF Init, RunTyped
<1> QED  BY <1>9, <1>10, <1>11 DEF TypeInv

\* Part of the wishes is sent along with interfaces that the items poll through.
LEMMA UpdateTypes ==
  ASSUME TypeInv, wishes # Refused, NEW kept, Sound(kept, nextId),
         NEW D \in SUBSET (1..Len(wishes)),
         \A x \in Items : on[x] \in Ids(kept) \cup {None},
         Replace(kept, Restrict(wishes, D)), UNCHANGED <<linked, on>>
  PROVE  HostTyped' /\ Sound(seen, nextId') /\ Sound(before, nextId')
<1>1. wishes \in Seq(Wish)
  BY WishesAreRight
<1>2. Restrict(wishes, D) \in [D -> Wish] /\ D \subseteq Nat /\ IsFiniteSet(D)
  BY <1>1, PartOfWishes
<1>3. nextId \in Nat \ {0}
  BY DEF TypeInv, HostTyped
<1>4. /\ nextId' \in Nat /\ nextId' >= nextId
      /\ Sound(ifaces', nextId') /\ kept \subseteq ifaces'
  BY <1>2, <1>3, ReplaceIsSound
<1>5. Sound(seen, nextId') /\ Sound(before, nextId')
  BY <1>3, <1>4, SoundGrows DEF TypeInv, ReadingsTyped
<1>6. on' \in [Items -> Ids(ifaces') \cup {None}]
  <2>1. Ids(kept) \subseteq Ids(ifaces')
    BY <1>4 DEF Ids
  <2>2. on \in [Items -> Ids(ifaces) \cup {None}]
    BY DEF TypeInv, HostTyped
  <2> QED  BY <2>1, <2>2
<1>7. nextId' \in Nat \ {0} /\ linked' \in Templates
  BY <1>3, <1>4 DEF TypeInv, HostTyped
<1> QED  BY <1>4, <1>5, <1>6, <1>7 DEF HostTyped

\* What is added for the types that miss, and the replacement, is part of the wishes.
LEMMA PartsAreParts ==
  ASSUME TypeInv, wishes # Refused
  PROVE  /\ \E D \in SUBSET (1..Len(wishes)) : Staged(wishes) = Restrict(wishes, D)
         /\ Replaces(seen, wishes) => {WishOf(seen, wishes)} \in SUBSET (1..Len(wishes))
<1>1. wishes \in Seq(Wish) /\ DOMAIN wishes = 1..Len(wishes)
  BY WishesAreRight
<1>2. nextId \in Nat /\ Sound(seen, nextId)
  BY DEF TypeInv, HostTyped, ReadingsTyped
<1>3. Replaces(seen, wishes) => WishOf(seen, wishes) \in 1..Len(wishes)
  BY <1>1, <1>2, OneReplacement
<1> QED  BY <1>1, <1>3 DEF Staged
\* The actions that leave the host alone, and do not end a run.
LEMMA TypeReads ==
  TypeInv /\ (StartRun \/ CheckHost \/ ReadStaged \/ ReadAdded \/ ResumeMove \/ ListItems)
      => TypeInv'
<1> SUFFICES ASSUME TypeInv,
                    StartRun \/ CheckHost \/ ReadStaged \/ ReadAdded \/ ResumeMove \/ ListItems
             PROVE  TypeInv'
  OBVIOUS
<1> USE DEF TypeInv
<1>1. UNCHANGED host /\ HostTyped'
  <2>1. UNCHANGED host
    BY DEF StartRun, CheckHost, ReadStaged, ReadAdded, ResumeMove, ListItems
  <2> QED  BY <2>1 DEF HostTyped
<1>2. ReadingsTyped'
  <2>1. seen' \in {seen, ifaces} /\ before' \in {before, ifaces}
    BY DEF StartRun, CheckHost, ReadStaged, ReadAdded, ResumeMove, ListItems
  <2> QED  BY <1>1, <2>1 DEF HostTyped, ReadingsTyped
<1>3. RunTyped'
  <2>1. CASE StartRun
    <3>1. Asked(config) \in {Asked(c) : c \in Configs}
      BY DEF RunTyped
    <3> QED  BY <2>1, <3>1 DEF StartRun, RunTyped, PCs, Working
  <2>2. CASE CheckHost
    <3>1. pc' \in PCs /\ (pc' \in Working => wishes # Refused) /\ transfer' \in BOOLEAN
      BY <2>2 DEF CheckHost, PCs, Working
    <3> QED  BY <2>2, <3>1 DEF CheckHost, RunTyped
  <2>3. CASE ReadStaged
    BY <2>3 DEF ReadStaged, RunTyped, PCs, Working
  <2>4. CASE ReadAdded
    <3>1. Added \in SUBSET Interfaces /\ IsFiniteSet(Added)
      BY FS_Subset DEF Added, HostTyped, Sound
    <3>2. Added # {}
      BY <2>4, FS_EmptySet DEF ReadAdded
    <3>3. First(Added) \in Nat
      BY <3>1, <3>2, FirstIsThere DEF Interfaces
    <3> QED  BY <2>4, <3>3 DEF ReadAdded, RunTyped, PCs, Working
  <2>5. CASE ResumeMove
    <3>1. nextId \in Nat /\ Sound(seen, nextId) /\ wishes \in Seq(Wish)
      BY <2>5, WishesAreRight DEF ResumeMove, HostTyped, ReadingsTyped
    <3>2. OldOf(seen, wishes) \in seen /\ WishOf(seen, wishes) \in 1..Len(wishes)
      BY <2>5, <3>1, OneReplacement DEF ResumeMove
    <3>3. OldOf(seen, wishes).id \in Nat
      BY <3>1, <3>2 DEF Sound, Interfaces
    <3>4. Match(seen, wishes) \in [1..Len(wishes) -> Nat]
      <4>1. Len(wishes) \in Nat /\ seen \in SUBSET Interfaces
        BY <3>1 DEF Sound
      <4>2. \A i \in seen : i.id # None
        BY <3>1 DEF Sound
      <4> QED  BY <4>1, <4>2, MatchServes DEF Serves
    <3>5. Match(seen, wishes)[WishOf(seen, wishes)] \in Nat
      BY <3>2, <3>4
    <3> QED  BY <2>5, <3>3, <3>5 DEF ResumeMove, RunTyped, PCs, Working
  <2>6. CASE ListItems
    BY <2>6 DEF ListItems, RunTyped, PCs, Working
  <2> QED  BY <2>1, <2>2, <2>3, <2>4, <2>5, <2>6
<1> QED  BY <1>1, <1>2, <1>3

\* The calls that change the host, and the ends of runs.
LEMMA TypeCalls ==
  TypeInv /\ (AddTypes \/ AddReplacement \/ SwapTemplate \/ MoveItems) => TypeInv'
<1> SUFFICES ASSUME TypeInv, AddTypes \/ AddReplacement \/ SwapTemplate \/ MoveItems
             PROVE  TypeInv'
  OBVIOUS
<1>1. CASE AddTypes
  <2>1. wishes # Refused /\ Sound(seen, nextId)
    BY <1>1 DEF AddTypes, TypeInv, ReadingsTyped, RunTyped, Working
  <2>2. PICK D \in SUBSET (1..Len(wishes)) : Staged(wishes) = Restrict(wishes, D)
    BY <2>1, PartsAreParts
  <2>3. /\ \A x \in Items : on[x] \in Ids(seen) \cup {None}
        /\ Replace(seen, Restrict(wishes, D)) /\ UNCHANGED <<linked, on>>
    BY <1>1, <2>2 DEF AddTypes, Updatable
  <2>4. HostTyped' /\ Sound(seen, nextId') /\ Sound(before, nextId')
    BY <2>1, <2>3, UpdateTypes
  <2>5. ReadingsTyped' /\ RunTyped'
    BY <1>1, <2>1, <2>4 DEF AddTypes, ReadingsTyped, RunTyped, TypeInv, PCs
  <2> QED  BY <2>4, <2>5 DEF TypeInv
<1>2. CASE AddReplacement
  <2>1. wishes # Refused /\ Sound(seen, nextId) /\ Replaces(seen, wishes)
    BY <1>2 DEF AddReplacement, TypeInv, ReadingsTyped
  <2>2. {WishOf(seen, wishes)} \in SUBSET (1..Len(wishes))
    BY <2>1, PartsAreParts
  <2>3. /\ \A x \in Items : on[x] \in Ids(seen) \cup {None}
        /\ Replace(seen, Restrict(wishes, {WishOf(seen, wishes)})) /\ UNCHANGED <<linked, on>>
    BY <1>2 DEF AddReplacement, Updatable, WishAlone
  <2>4. HostTyped' /\ Sound(seen, nextId') /\ Sound(before, nextId')
    BY <2>1, <2>2, <2>3, UpdateTypes
  <2>5. old' \in Nat
    <3>1. nextId \in Nat /\ wishes \in Seq(Wish)
      BY <2>1, WishesAreRight DEF TypeInv, HostTyped
    <3>2. OldOf(seen, wishes) \in seen
      BY <2>1, <3>1, OneReplacement
    <3> QED  BY <1>2, <2>1, <3>2 DEF AddReplacement, Sound, Interfaces
  <2>6. ReadingsTyped' /\ RunTyped'
    BY <1>2, <2>1, <2>4, <2>5 DEF AddReplacement, ReadingsTyped, RunTyped, TypeInv, PCs
  <2> QED  BY <2>4, <2>6 DEF TypeInv
<1>3. CASE SwapTemplate
  <2>1. \A i \in Carriers(askedTmpl, ifaces) : i.id \in Ids(ifaces)
    BY DEF Carriers, Ids
  <2>2. on' \in [Items -> Ids(ifaces) \cup {None}]
    BY <1>3, <2>1 DEF SwapTemplate, TypeInv, HostTyped
  <2>3. HostTyped'
    BY <1>3, <2>2 DEF SwapTemplate, TypeInv, HostTyped, RunTyped
  <2>4. ReadingsTyped' /\ RunTyped'
    BY <1>3 DEF SwapTemplate, TypeInv, ReadingsTyped, RunTyped, PCs, Working
  <2> QED  BY <2>3, <2>4 DEF TypeInv
<1>4. CASE MoveItems
  <2>1. \A x \in moving : new \in Ids(ifaces)
    BY <1>4 DEF MoveItems, Movable, Ids
  <2>2. on' \in [Items -> Ids(ifaces) \cup {None}]
    BY <1>4, <2>1 DEF MoveItems, TypeInv, HostTyped
  <2>3. HostTyped'
    BY <1>4, <2>2 DEF MoveItems, TypeInv, HostTyped
  <2>4. ReadingsTyped' /\ RunTyped'
    BY <1>4 DEF MoveItems, TypeInv, ReadingsTyped, RunTyped, PCs, Working
  <2> QED  BY <2>3, <2>4 DEF TypeInv
<1> QED  BY <1>1, <1>2, <1>3, <1>4

LEMMA TypeEnds ==
  TypeInv /\ (ConfigFails \/ NoneAdded \/ ReplaceInterfaces \/ ZabbixRefuses \/ RunFails)
      => TypeInv'
<1> SUFFICES ASSUME TypeInv,
                    ConfigFails \/ NoneAdded \/ ReplaceInterfaces \/ ZabbixRefuses \/ RunFails
             PROVE  TypeInv'
  OBVIOUS
<1>1. PICK how \in {"done", "failed"} : End(how)
  BY DEF ConfigFails, NoneAdded, ReplaceInterfaces, ZabbixRefuses, RunFails
<1>2. HostTyped' /\ Sound(before, nextId')
  <2>1. CASE UNCHANGED <<ifaces, nextId>> /\ UNCHANGED <<linked, on>>
    BY <2>1 DEF TypeInv, HostTyped, ReadingsTyped
  <2>2. CASE /\ wishes # Refused /\ UNCHANGED <<linked, on>>
             /\ Updatable(Retained(seen, wishes), Lacking(seen, wishes))
             /\ Replace(Retained(seen, wishes), Lacking(seen, wishes))
    <3>1. nextId \in Nat /\ Sound(seen, nextId) /\ wishes \in Seq(Wish)
      BY <2>2, WishesAreRight DEF TypeInv, HostTyped, ReadingsTyped
    <3>2. Sound(Retained(seen, wishes), nextId) /\ Unserved(seen, wishes) \subseteq 1..Len(wishes)
      BY <3>1, RetainedIsSound
    <3>3. /\ \A x \in Items : on[x] \in Ids(Retained(seen, wishes)) \cup {None}
          /\ Replace(Retained(seen, wishes), Restrict(wishes, Unserved(seen, wishes)))
      BY <2>2 DEF Updatable, Lacking
    <3> QED  BY <2>2, <3>2, <3>3, UpdateTypes
  <2> QED
    BY <2>1, <2>2 DEF ConfigFails, NoneAdded, ReplaceInterfaces, ZabbixRefuses, RunFails
<1>3. Sound(seen', nextId')
  <2>1. seen' = {} /\ nextId' \in Nat
    BY <1>1, <1>2 DEF End, HostTyped
  <2> QED  BY <2>1, NoneIsSound
<1>4. ReadingsTyped'
  <2>1. before' = before
    BY DEF ConfigFails, NoneAdded, ReplaceInterfaces, ZabbixRefuses, RunFails
  <2> QED  BY <1>2, <1>3, <2>1 DEF ReadingsTyped
<1>5. RunTyped'
  <2>1. UNCHANGED <<netbox, asking, quiet, edits>>
    BY DEF ConfigFails, NoneAdded, ReplaceInterfaces, ZabbixRefuses, RunFails
  <2>2. faults' \in 0..MaxFaults
    <3>1. faults \in 0..MaxFaults /\ MaxFaults \in Nat
      BY InterfaceAssumption DEF TypeInv, RunTyped
    <3>2. faults' = faults \/ (faults < MaxFaults /\ faults' = faults + 1)
      BY DEF ConfigFails, NoneAdded, ReplaceInterfaces, ZabbixRefuses, RunFails
    <3> QED  BY <3>1, <3>2
  <2> QED  BY <1>1, <2>1, <2>2 DEF End, TypeInv, RunTyped, PCs, Working
<1> QED  BY <1>2, <1>4, <1>5 DEF TypeInv

LEMMA TypePeople == TypeInv /\ PeopleStep => TypeInv'
<1> SUFFICES ASSUME TypeInv, PeopleStep PROVE TypeInv'
  OBVIOUS
<1>1. /\ Edit /\ config' \in Configs /\ template' \in Templates
  BY DEF PeopleStep, ChangeWishes, AddItem, DropItem, AddInterface, DropInterface, TypeInv,
         RunTyped
<1>2. RunTyped'
  <2>1. edits' \in 0..MaxEdits
    BY <1>1, InterfaceAssumption DEF Edit, TypeInv, RunTyped
  <2> QED  BY <1>1, <2>1 DEF Edit, TypeInv, RunTyped
<1>3. HostTyped' /\ nextId' \in Nat /\ nextId' >= nextId
  <2>0. nextId \in Nat \ {0} /\ nextId >= nextId
    BY DEF TypeInv, HostTyped
  <2>1. CASE ChangeWishes
    BY <2>0, <2>1 DEF ChangeWishes, TypeInv, HostTyped
  <2>2. CASE AddItem
    <3>1. PICK x \in HandItems, i \in ifaces : /\ on' = [on EXCEPT ![x] = i.id]
                                               /\ UNCHANGED <<ifaces, nextId, linked>>
      BY <2>2 DEF AddItem
    <3>2. i.id \in Ids(ifaces)
      BY <3>1 DEF Ids
    <3>3. on' \in [Items -> Ids(ifaces) \cup {None}]
      BY <3>1, <3>2 DEF TypeInv, HostTyped
    <3> QED  BY <2>0, <3>1, <3>3 DEF TypeInv, HostTyped
  <2>3. CASE DropItem
    <3>1. PICK x \in HandItems : /\ on' = [on EXCEPT ![x] = None]
                                 /\ UNCHANGED <<ifaces, nextId, linked>>
      BY <2>3 DEF DropItem
    <3>2. on' \in [Items -> Ids(ifaces) \cup {None}]
      BY <3>1 DEF TypeInv, HostTyped
    <3> QED  BY <2>0, <3>1, <3>2 DEF TypeInv, HostTyped
  <2>4. CASE AddInterface
    <3> DEFINE made(t, a) == [id |-> nextId, type |-> t, addr |-> a, port |-> DefaultPort[t],
                              main |-> t \notin TypesOf(ifaces)]
    <3>1. PICK t \in Types, a \in Addresses :
              /\ ifaces' = ifaces \cup {made(t, a)}
              /\ nextId' = nextId + 1 /\ UNCHANGED <<linked, on>>
      BY <2>4 DEF AddInterface
    <3>2. made(t, a) \in Interfaces /\ made(t, a).id = nextId
      BY <2>0, InterfaceAssumption DEF Interfaces
    <3> HIDE DEF made
    <3>3. Sound(ifaces, nextId)
      BY DEF TypeInv, HostTyped
    <3>4. IsFiniteSet(ifaces')
      BY <3>1, <3>3, FS_AddElement DEF Sound
    <3>5. \A i \in ifaces' : i \in Interfaces /\ i.id \in 1..(nextId' - 1)
      BY <2>0, <3>1, <3>2, <3>3 DEF Sound
    <3>6. \A i, j \in ifaces' : i.id = j.id => i = j
      BY <2>0, <3>1, <3>2, <3>3 DEF Sound
    <3>7. Sound(ifaces', nextId')
      BY <3>4, <3>5, <3>6 DEF Sound
    <3>8. on' \in [Items -> Ids(ifaces') \cup {None}]
      <4>1. Ids(ifaces) \subseteq Ids(ifaces')
        BY <3>1 DEF Ids
      <4>2. on \in [Items -> Ids(ifaces) \cup {None}] /\ on' = on
        BY <3>1 DEF TypeInv, HostTyped
      <4> QED  BY <4>1, <4>2
    <3>9. nextId' \in Nat \ {0} /\ nextId' >= nextId
      BY <2>0, <3>1
    <3>10. linked' \in Templates
      BY <3>1 DEF TypeInv, HostTyped
    <3> QED  BY <3>7, <3>8, <3>9, <3>10 DEF HostTyped
  <2>5. CASE DropInterface
    <3>1. PICK i \in ifaces : /\ \A x \in Items : on[x] # i.id
                              /\ ifaces' = ifaces \ {i}
                              /\ UNCHANGED <<nextId, linked, on>>
      BY <2>5 DEF DropInterface
    <3>2. Sound(ifaces', nextId')
      BY <3>1, FS_Subset DEF Sound, TypeInv, HostTyped
    <3>3. Ids(ifaces) \subseteq Ids(ifaces') \cup {i.id}
      BY <3>1 DEF Ids
    <3>4. on' \in [Items -> Ids(ifaces') \cup {None}]
      <4>1. on \in [Items -> Ids(ifaces) \cup {None}]
        BY DEF TypeInv, HostTyped
      <4> QED  BY <3>1, <3>3, <4>1
    <3> QED  BY <2>0, <3>1, <3>2, <3>4 DEF TypeInv, HostTyped
  <2> QED  BY <2>1, <2>2, <2>3, <2>4, <2>5 DEF PeopleStep
<1>4. ReadingsTyped'
  <2>1. nextId \in Nat /\ Sound(seen, nextId) /\ Sound(before, nextId)
    BY DEF TypeInv, HostTyped, ReadingsTyped
  <2>2. Sound(seen, nextId') /\ Sound(before, nextId')
    BY <1>3, <2>1, SoundGrows
  <2>3. seen' = seen /\ before' = before
    BY <1>1 DEF Edit
  <2> QED  BY <2>2, <2>3 DEF ReadingsTyped
<1> QED  BY <1>2, <1>3, <1>4 DEF TypeInv

LEMMA TypeStep == TypeInv /\ [Next]_vars => TypeInv'
<1> SUFFICES ASSUME TypeInv, [Next]_vars PROVE TypeInv'
  OBVIOUS
<1>1. CASE Next
  BY <1>1, TypeReads, TypeCalls, TypeEnds, TypePeople DEF Next, RunStep
<1>2. CASE UNCHANGED vars
  BY <1>2 DEF vars, TypeInv, HostTyped, ReadingsTyped, RunTyped
<1> QED  BY <1>1, <1>2

\* The model keeps its types, for any config contexts, templates and bounds: every
\* interface of the host has an id of its own, and every item its interface.
THEOREM TypeCorrect == Spec => []TypeOK
<1>1. Spec => []TypeInv
  BY TypeInit, TypeStep, PTL DEF Spec
<1> QED  BY <1>1, TypesAreRight, PTL
-----------------------------------------------------------------------------
(* The template swap finds the interface it needs.                          *)

\* Every type on the host has a main interface.
TypesHaveMains == \A i \in ifaces : \E j \in ifaces : j.type = i.type /\ j.main

LEMMA UpdateKeepsMains ==
  ASSUME NEW kept, NEW fresh, MainsRight(kept, fresh), Replace(kept, fresh)
  PROVE  TypesHaveMains'
<1> DEFINE new1(k) == Interface(fresh[k], nextId + Cardinality({j \in DOMAIN fresh : j < k}))
<1>1. ifaces' = kept \cup {new1(k) : k \in DOMAIN fresh}
  BY DEF Replace, NewOnes
<1>2. \A k \in DOMAIN fresh : new1(k).type = fresh[k].type /\ new1(k).main = fresh[k].main
  BY DEF Interface
<1> HIDE DEF new1
<1>3. ASSUME NEW t \in TypesOf(kept \cup Range(fresh))
      PROVE  \E j \in ifaces' : j.type = t /\ j.main
  <2> DEFINE A == {i \in kept : i.type = t /\ i.main}
             B == {k \in DOMAIN fresh : fresh[k].type = t /\ fresh[k].main}
  <2>1. Cardinality(A) + Cardinality(B) = 1
    BY DEF MainsRight, MainCount
  <2> HIDE DEF A, B
  <2>2. A # {} \/ B # {}
    BY <2>1, FS_EmptySet
  <2>3. CASE A # {}
    BY <1>1, <2>3 DEF A
  <2>4. CASE B # {}
    BY <1>1, <1>2, <2>4 DEF B
  <2> QED  BY <2>2, <2>3, <2>4
<1>4. \A i \in ifaces' : i.type \in TypesOf(kept \cup Range(fresh))
  BY <1>1, <1>2 DEF TypesOf, Range
<1> QED  BY <1>3, <1>4 DEF TypesHaveMains

LEMMA MainsInit == Init => TypesHaveMains
<1> SUFFICES ASSUME Init PROVE TypesHaveMains
  OBVIOUS
<1> DEFINE want == Desired(config)
<1>1. ifaces = {Interface(want[k], k) : k \in DOMAIN want}
  BY DEF Init
<1>2. OneMain(want)
  BY DesiredIsRight DEF Init
<1> HIDE DEF want
<1>3. \A k \in DOMAIN want : \E j \in DOMAIN want : want[j].type = want[k].type /\ want[j].main
  <2>1. ASSUME NEW k \in DOMAIN want
        PROVE  \E j \in DOMAIN want : want[j].type = want[k].type /\ want[j].main
    <3> DEFINE A == {j \in DOMAIN want : want[j].type = want[k].type /\ want[j].main}
    <3>1. Cardinality(A) = 1
      BY <1>2 DEF OneMain
    <3> HIDE DEF A
    <3>2. A # {}
      BY <3>1, FS_EmptySet
    <3> QED  BY <3>2 DEF A
  <2> QED  BY <2>1
<1>4. \A k : /\ Interface(want[k], k).type = want[k].type
             /\ Interface(want[k], k).main = want[k].main
  BY DEF Interface
<1> QED  BY <1>1, <1>3, <1>4 DEF TypesHaveMains

LEMMA MainsStep == TypesHaveMains /\ [Next]_vars => TypesHaveMains'
<1> SUFFICES ASSUME TypesHaveMains, [Next]_vars PROVE TypesHaveMains'
  OBVIOUS
<1>1. CASE ifaces' = ifaces
  BY <1>1 DEF TypesHaveMains
<1>2. CASE AddTypes \/ AddReplacement \/ ReplaceInterfaces
  <2>1. \/ ifaces' = ifaces
        \/ \E kept, fresh : MainsRight(kept, fresh) /\ Replace(kept, fresh)
    BY <1>2 DEF AddTypes, AddReplacement, ReplaceInterfaces, Updatable
  <2> QED  BY <1>1, <2>1, UpdateKeepsMains
<1>3. CASE AddInterface
  <2> DEFINE made(t, a) == [id |-> nextId, type |-> t, addr |-> a, port |-> DefaultPort[t],
                            main |-> t \notin TypesOf(ifaces)]
  <2>1. PICK t \in Types, a \in Addresses : ifaces' = ifaces \cup {made(t, a)}
    BY <1>3 DEF AddInterface
  <2>2. made(t, a).type = t /\ made(t, a).main = (t \notin TypesOf(ifaces))
    OBVIOUS
  <2> HIDE DEF made
  <2>3. \E j \in ifaces' : j.type = t /\ j.main
    <3>1. CASE t \in TypesOf(ifaces)
      BY <2>1, <3>1 DEF TypesOf, TypesHaveMains
    <3>2. CASE t \notin TypesOf(ifaces)
      BY <2>1, <2>2, <3>2
    <3> QED  BY <3>1, <3>2
  <2> QED  BY <2>1, <2>2, <2>3 DEF TypesHaveMains
<1>4. CASE DropInterface
  <2>1. PICK i \in ifaces : /\ i.main => \A j \in ifaces \ {i} : j.type # i.type
                            /\ ifaces' = ifaces \ {i}
    BY <1>4 DEF DropInterface
  <2>2. ASSUME NEW k \in ifaces' PROVE \E j \in ifaces' : j.type = k.type /\ j.main
    <3>1. PICK j \in ifaces : j.type = k.type /\ j.main
      BY <2>1, <2>2 DEF TypesHaveMains
    <3> QED  BY <2>1, <2>2, <3>1
  <2> QED  BY <2>2 DEF TypesHaveMains
<1> QED
  BY <1>1, <1>2, <1>3, <1>4 DEF Next, RunStep, RunFails, PeopleStep, vars, StartRun, CheckHost,
     ConfigFails, ReadStaged, SwapTemplate, ReadAdded, NoneAdded, ResumeMove, ListItems,
     MoveItems, ZabbixRefuses, ChangeWishes, AddItem, DropItem

\* A change by people ends the quiet of a run.
LEMMA PeopleAreHeard == PeopleStep => quiet' = FALSE /\ UNCHANGED <<pc, outcome>>
<1> QED
  BY DEF PeopleStep, ChangeWishes, AddItem, DropItem, AddInterface, DropInterface, Edit

\* Before the templates are swapped, every type asked for is on the host.
TypesAdded == pc \in {"stageRead", "swap"} /\ quiet => MissingTypes(ifaces, wishes) = {}

LEMMA StagedAreThere ==
  ASSUME NEW is, Replace(is, Restrict(wishes, {k \in DOMAIN wishes :
                                                   wishes[k].type \in MissingTypes(is, wishes)}))
  PROVE  MissingTypes(ifaces', wishes) = {}
<1> DEFINE D == {k \in DOMAIN wishes : wishes[k].type \in MissingTypes(is, wishes)}
           fresh == Restrict(wishes, D)
           new1(k) == Interface(fresh[k], nextId + Cardinality({j \in DOMAIN fresh : j < k}))
<1>1. ifaces' = is \cup {new1(k) : k \in D}
  BY DEF Replace, NewOnes, Restrict
<1>2. \A k \in D : new1(k).type = wishes[k].type
  BY DEF Interface, Restrict
<1> HIDE DEF new1, fresh
<1>3. ASSUME NEW k \in DOMAIN wishes PROVE wishes[k].type \in TypesOf(ifaces')
  <2>1. CASE wishes[k].type \in TypesOf(is)
    BY <1>1, <2>1 DEF TypesOf
  <2>2. CASE wishes[k].type \notin TypesOf(is)
    <3>1. k \in D
      BY <2>2 DEF MissingTypes, TypesOf, Range
    <3>2. new1(k) \in ifaces'
      BY <1>1, <3>1
    <3> QED  BY <1>2, <3>1, <3>2 DEF TypesOf
  <2> QED  BY <2>1, <2>2
<1> QED  BY <1>3 DEF MissingTypes, TypesOf, Range

LEMMA TypesAddedStep == TypesAdded /\ [Next]_vars => TypesAdded'
<1> SUFFICES ASSUME TypesAdded, [Next]_vars PROVE TypesAdded'
  OBVIOUS
<1>1. CASE CheckHost
  BY <1>1 DEF CheckHost, TypesAdded
<1>2. CASE AddTypes
  <2>1. MissingTypes(ifaces', wishes) = {} /\ wishes' = wishes
    BY <1>2, StagedAreThere DEF AddTypes, Staged
  <2> QED  BY <2>1 DEF TypesAdded
<1>3. CASE ReadStaged
  BY <1>3 DEF ReadStaged, TypesAdded
<1>4. CASE PeopleStep
  BY <1>4, PeopleAreHeard DEF TypesAdded
<1>5. CASE UNCHANGED vars
  BY <1>5 DEF vars, TypesAdded
<1>6. CASE pc' \notin {"stageRead", "swap"}
  BY <1>6 DEF TypesAdded
<1> QED
  BY <1>1, <1>2, <1>3, <1>4, <1>5, <1>6 DEF Next, RunStep, StartRun, ConfigFails,
     SwapTemplate, AddReplacement, ReadAdded, NoneAdded, ResumeMove, ListItems, MoveItems,
     ReplaceInterfaces, ZabbixRefuses, RunFails, End

\* When a run swaps the templates, the host has an interface for the new one, if one
\* is asked for at all and nobody has changed the host since the run began.
THEOREM SwapIsReady == Spec => []SwapFindsItsInterface
<1>1. Spec => []TypesHaveMains
  BY MainsInit, MainsStep, PTL DEF Spec
<1>2. Init => TypesAdded
  BY DEF Init, TypesAdded
<1>3. Spec => []TypesAdded
  BY <1>2, TypesAddedStep, PTL DEF Spec
<1>4. TypesHaveMains /\ TypesAdded => SwapFindsItsInterface
  <2> SUFFICES ASSUME TypesHaveMains, TypesAdded, pc = "swap", quiet,
                      Carriers(askedTmpl, Range(wishes)) # {}
               PROVE  Linkable(askedTmpl)
    BY DEF SwapFindsItsInterface
  <2>1. PICK w \in Range(wishes) : Fits(askedTmpl, w)
    BY DEF Carriers
  <2>2. w.type \in TypesOf(ifaces)
    BY DEF TypesAdded, MissingTypes, TypesOf
  <2>3. PICK j \in ifaces : j.type = w.type /\ j.main
    BY <2>2 DEF TypesOf, TypesHaveMains
  <2> QED  BY <2>1, <2>3 DEF Carriers, Fits, Linkable
<1> QED  BY <1>1, <1>3, <1>4, PTL
-----------------------------------------------------------------------------
(* What a run that ends well leaves behind.                                 *)

\* The list of interfaces sent, as a function of the wishes.
Sent(is, want) ==
    [k \in 1..Len(want) |->
        Interface(want[k], IF k \in Unserved(is, want)
                           THEN nextId + Cardinality({j \in Unserved(is, want) : j < k})
                           ELSE Match(is, want)[k])]

\* The wishes are sent one by one, each with an id of its own.
LEMMA SentIsRight ==
  ASSUME nextId \in Nat \ {0}, NEW is, Sound(is, nextId), NEW want \in Seq(Wish)
  PROVE  /\ Retained(is, want) \cup NewOnes(Lacking(is, want)) = Range(Sent(is, want))
         /\ \A j, k \in 1..Len(want) : Sent(is, want)[j] = Sent(is, want)[k] => j = k
         /\ \A k \in 1..Len(want) : SameSettings(Sent(is, want)[k], want[k])
<1> DEFINE U == Unserved(is, want)
           m == Match(is, want)
           rank(k) == Cardinality({j \in U : j < k})
           f == Sent(is, want)
<1>1. /\ DOMAIN want = 1..Len(want) /\ U \subseteq 1..Len(want)
      /\ IsFiniteSet(U) /\ U \subseteq Nat
  BY RetainedIsSound
<1>2. /\ m \in [1..Len(want) -> Nat]
      /\ \A j, k \in 1..Len(want) : m[j] = m[k] /\ m[k] # None => j = k
      /\ \A k \in 1..Len(want) : m[k] # None => \E i \in is : i.id = m[k]
  <2>1. Len(want) \in Nat /\ is \in SUBSET Interfaces /\ \A i \in is : i.id # None
    BY DEF Sound
  <2>2. Serves(is, want, m)
    BY <2>1, MatchServes
  <2> QED  BY <2>2 DEF Serves
<1>3. \A k \in 1..Len(want) : k \in U <=> m[k] = None
  BY <1>1 DEF Unserved
<1>4. \A k \in U : rank(k) \in Nat
  BY <1>1, RankInRange
<1>5. \A j, k \in U : rank(j) = rank(k) => j = k
  <2>1. ASSUME NEW j \in U, NEW k \in U, j < k PROVE rank(j) < rank(k)
    BY <1>1, <2>1, RanksDiffer
  <2>2. \A k \in U : k \in Nat
    BY <1>1
  <2> HIDE DEF rank, U
  <2> QED  BY <1>4, <2>1, <2>2
<1>6. \A k \in 1..Len(want) : f[k] = Interface(want[k], IF k \in U THEN nextId + rank(k) ELSE m[k])
  BY DEF Sent
<1>7. DOMAIN f = 1..Len(want)
  BY DEF Sent
<1>8. NewOnes(Lacking(is, want)) = {Interface(want[k], nextId + rank(k)) : k \in U}
  <2>1. DOMAIN Lacking(is, want) = U /\ \A k \in U : Lacking(is, want)[k] = want[k]
    BY DEF Lacking, Restrict
  <2> QED  BY <2>1 DEF NewOnes
<1>9. Retained(is, want) = {Interface(want[k], m[k]) : k \in 1..Len(want) \ U}
  BY <1>1 DEF Retained
<1> HIDE DEF rank, U, m, f
<1>10. Retained(is, want) \cup NewOnes(Lacking(is, want)) = Range(f)
  <2>1. Range(f) = {f[k] : k \in 1..Len(want)}
    BY <1>7 DEF Range
  <2> QED  BY <1>1, <1>6, <1>8, <1>9, <2>1
<1>11. \A k \in 1..Len(want) : f[k].id = IF k \in U THEN nextId + rank(k) ELSE m[k]
  <2>1. \A w, id : Interface(w, id).id = id
    BY DEF Interface
  <2> QED  BY <1>6, <2>1
<1>12. \A k \in 1..Len(want) : k \notin U => m[k] # None /\ m[k] < nextId
  <2>1. \A i \in is : i.id \in 1..(nextId - 1)
    BY DEF Sound
  <2>2. \A i \in is : i.id < nextId
    BY <2>1
  <2> QED  BY <1>2, <1>3, <2>2
<1>13. ASSUME NEW j \in 1..Len(want), NEW k \in 1..Len(want), f[j] = f[k] PROVE j = k
  <2>1. f[j].id = f[k].id
    BY <1>13
  <2>2. CASE j \in U /\ k \in U
    <3>1. rank(j) = rank(k)
      BY <1>4, <1>11, <2>1, <2>2
    <3> QED  BY <1>5, <2>2, <3>1
  <2>3. CASE j \notin U /\ k \notin U
    BY <1>2, <1>11, <1>12, <2>1, <2>3
  <2>4. ASSUME NEW a \in U, NEW b \in 1..Len(want) \ U PROVE f[a].id # f[b].id
    <3>1. a \in 1..Len(want) /\ f[a].id = nextId + rank(a) /\ rank(a) \in Nat
      BY <1>1, <1>4, <1>11
    <3>2. f[b].id < nextId /\ f[b].id \in Nat
      BY <1>2, <1>11, <1>12
    <3> QED  BY <3>1, <3>2
  <2>5. ~(j \in U /\ k \notin U) /\ ~(j \notin U /\ k \in U)
    BY <2>1, <2>4
  <2> QED  BY <2>2, <2>3, <2>5
<1>14. ASSUME NEW k \in 1..Len(want) PROVE SameSettings(f[k], want[k])
  <2>1. \A w, id : SameSettings(Interface(w, id), w)
    BY DEF Interface, SameSettings, SameEndpoint
  <2> QED  BY <1>6, <2>1
<1> QED  BY <1>10, <1>13, <1>14 DEF f

\* An interface for each wish, all different, is the whole of the wishes.
LEMMA OneEachIsServed ==
  ASSUME NEW want \in Seq(Wish), NEW f, DOMAIN f = 1..Len(want),
         \A j, k \in 1..Len(want) : f[j] = f[k] => j = k,
         \A k \in 1..Len(want) : SameSettings(f[k], want[k])
  PROVE  Served(Range(f), want)
<1>1. Len(want) \in Nat /\ DOMAIN want = 1..Len(want)
  OBVIOUS
<1>2. IsFiniteSet(1..Len(want)) /\ Cardinality(1..Len(want)) = Len(want)
  BY <1>1, FS_Interval
<1>3. Cardinality(Range(f)) = Len(want)
  <2> DEFINE g == [k \in 1..Len(want) |-> f[k]]
  <2>1. g \in Bijection(1..Len(want), Range(f))
    BY DEF Bijection, Injection, Surjection, IsInjective, Range
  <2> HIDE DEF g
  <2>2. ExistsBijection(1..Len(want), Range(f))
    BY <2>1 DEF ExistsBijection
  <2> QED  BY <1>2, <2>2, FS_Bijection
<1>4. [k \in DOMAIN want |-> f[k]] \in [DOMAIN want -> Range(f)]
  BY <1>1 DEF Range
<1>5. Range([k \in DOMAIN want |-> f[k]]) = Range(f)
  BY <1>1 DEF Range
<1> QED  BY <1>1, <1>3, <1>4, <1>5 DEF Served
LEMMA InSyncIsAll ==
  ASSUME Sound(seen, nextId), nextId \in Nat \ {0}, wishes \in Seq(Wish), InSync
  PROVE  seen = Retained(seen, wishes) \cup NewOnes(Lacking(seen, wishes))
<1> DEFINE m == Match(seen, wishes)
<1>1. /\ Unmatched(seen, wishes) = {} /\ Unserved(seen, wishes) = {}
      /\ Retained(seen, wishes) \subseteq seen
  BY DEF InSync
<1>2. DOMAIN m = 1..Len(wishes) /\ DOMAIN wishes = 1..Len(wishes)
  <2>1. Len(wishes) \in Nat /\ seen \in SUBSET Interfaces
    BY DEF Sound
  <2>2. Follows(seen, wishes, m)
    BY <2>1, MatchFollows
  <2> QED  BY <2>2 DEF Follows
<1>3. NewOnes(Lacking(seen, wishes)) = {}
  BY <1>1 DEF NewOnes, Lacking, Restrict
<1>4. ASSUME NEW i \in seen PROVE i \in Retained(seen, wishes)
  <2>1. PICK k \in 1..Len(wishes) : i.id = m[k]
    BY <1>1, <1>2 DEF Unmatched, Range
  <2>2. Interface(wishes[k], m[k]) \in Retained(seen, wishes)
    BY <1>1, <1>2 DEF Retained
  <2>3. Interface(wishes[k], m[k]).id = i.id
    BY <2>1 DEF Interface
  <2> QED  BY <1>1, <2>2, <2>3 DEF Sound
<1> QED  BY <1>1, <1>3, <1>4

\* Past the swap, the template is the one asked for; a run that has ended has
\* ended; what the run has read is what the host has.
LinkedAsAsked == pc \in {"reconcile", "addRead", "items", "move"} => linked = askedTmpl
EndsIdle == outcome # "none" => pc = "idle"
SeenIsHost ==
    quiet /\ pc \in {"stage", "swap", "reconcile", "items", "move"} => seen = ifaces

LEMMA LinkedStep == LinkedAsAsked /\ [Next]_vars => LinkedAsAsked'
<1> SUFFICES ASSUME LinkedAsAsked, [Next]_vars PROVE LinkedAsAsked'
  OBVIOUS
<1>1. CASE CheckHost \/ SwapTemplate
  BY <1>1 DEF CheckHost, SwapTemplate, LinkedAsAsked
<1>2. CASE /\ UNCHANGED <<linked, askedTmpl>>
           /\ pc' = pc \/ pc \in {"reconcile", "addRead", "items", "move"}
  BY <1>2 DEF LinkedAsAsked
<1>3. CASE pc' \in {"idle", "check", "stage", "stageRead", "swap"}
  BY <1>3 DEF LinkedAsAsked
<1>4. CASE PeopleStep
  BY <1>2, <1>4 DEF PeopleStep, ChangeWishes, AddItem, DropItem, AddInterface,
     DropInterface, Edit
<1> QED
  BY <1>1, <1>2, <1>3, <1>4 DEF Next, RunStep, StartRun, ConfigFails, AddTypes, ReadStaged,
     AddReplacement, ReadAdded, NoneAdded, ResumeMove, ListItems, MoveItems,
     ReplaceInterfaces, ZabbixRefuses, RunFails, End, vars

LEMMA EndsStep == EndsIdle /\ [Next]_vars => EndsIdle'
<1> SUFFICES ASSUME EndsIdle, [Next]_vars PROVE EndsIdle'
  OBVIOUS
<1>1. CASE PeopleStep
  BY <1>1, PeopleAreHeard DEF EndsIdle
<1> QED
  BY <1>1 DEF Next, RunStep, StartRun, CheckHost, ConfigFails, AddTypes, ReadStaged,
     SwapTemplate, AddReplacement, ReadAdded, NoneAdded, ResumeMove, ListItems, MoveItems,
     ReplaceInterfaces, ZabbixRefuses, RunFails, End, vars, EndsIdle

LEMMA SeenStep == SeenIsHost /\ [Next]_vars => SeenIsHost'
<1> SUFFICES ASSUME SeenIsHost, [Next]_vars PROVE SeenIsHost'
  OBVIOUS
<1>1. CASE PeopleStep
  BY <1>1, PeopleAreHeard DEF SeenIsHost
<1>2. CASE CheckHost \/ ReadStaged \/ ReadAdded
  BY <1>2 DEF CheckHost, ReadStaged, ReadAdded, SeenIsHost
<1>3. CASE pc' \in {"idle", "check", "stageRead", "addRead"}
  BY <1>3 DEF SeenIsHost
<1>4. CASE SwapTemplate \/ ResumeMove \/ ListItems \/ MoveItems \/ UNCHANGED vars
  BY <1>4 DEF SwapTemplate, ResumeMove, ListItems, MoveItems, vars, SeenIsHost
<1> QED
  BY <1>1, <1>2, <1>3, <1>4 DEF Next, RunStep, StartRun, ConfigFails, AddTypes,
     AddReplacement, NoneAdded, ReplaceInterfaces, ZabbixRefuses, RunFails, End

\* The last call of a run leaves the interfaces retained and those added.
LEMMA ReplaceIsSent ==
  ASSUME TypeInv, SeenIsHost, quiet, ReplaceInterfaces
  PROVE  /\ wishes \in Seq(Wish) /\ nextId \in Nat \ {0} /\ Sound(seen, nextId)
         /\ seen = ifaces
         /\ ifaces' = Retained(seen, wishes) \cup NewOnes(Lacking(seen, wishes))
<1>1. wishes \in Seq(Wish) /\ nextId \in Nat \ {0} /\ Sound(seen, nextId) /\ seen = ifaces
  BY WishesAreRight DEF ReplaceInterfaces, TypeInv, HostTyped, ReadingsTyped, SeenIsHost
<1>2. CASE InSync /\ ifaces' = ifaces
  BY <1>1, <1>2, InSyncIsAll
<1>3. CASE Replace(Retained(seen, wishes), Lacking(seen, wishes))
  BY <1>1, <1>3 DEF Replace
<1> QED  BY <1>2, <1>3 DEF ReplaceInterfaces

\* They serve every wish, and nothing else.
LEMMA ReplaceServes ==
  ASSUME TypeInv, SeenIsHost, quiet, ReplaceInterfaces
  PROVE  Served(ifaces', wishes)
<1>1. wishes \in Seq(Wish) /\ nextId \in Nat \ {0} /\ Sound(seen, nextId) /\ seen = ifaces
  BY ReplaceIsSent
<1>2. ifaces' = Retained(seen, wishes) \cup NewOnes(Lacking(seen, wishes))
  BY ReplaceIsSent
<1> DEFINE f == Sent(seen, wishes)
<1>3. DOMAIN f = 1..Len(wishes)
  BY DEF Sent
<1>4. /\ ifaces' = Range(f)
      /\ \A j, k \in 1..Len(wishes) : f[j] = f[k] => j = k
      /\ \A k \in 1..Len(wishes) : SameSettings(f[k], wishes[k])
  BY <1>1, <1>2, SentIsRight
<1> HIDE DEF f
<1> QED  BY <1>1, <1>3, <1>4, OneEachIsServed

LEMMA DoneStep ==
  TypeInv /\ LinkedAsAsked /\ EndsIdle /\ SeenIsHost /\ DoneMeansServed /\ [Next]_vars
      => DoneMeansServed'
<1> SUFFICES ASSUME TypeInv, LinkedAsAsked, EndsIdle, SeenIsHost, DoneMeansServed,
                    [Next]_vars
             PROVE  DoneMeansServed'
  OBVIOUS
<1>1. CASE ReplaceInterfaces
  <2>1. UNCHANGED <<linked, askedTmpl, wishes, quiet>> /\ linked = askedTmpl
    BY <1>1 DEF ReplaceInterfaces, LinkedAsAsked
  <2> QED  BY <1>1, <2>1, ReplaceServes DEF DoneMeansServed
<1>2. CASE PeopleStep
  BY <1>2, PeopleAreHeard DEF DoneMeansServed
<1>3. CASE UNCHANGED vars
  BY <1>3 DEF vars, DoneMeansServed
<1>4. CASE outcome' # "done"
  BY <1>4 DEF DoneMeansServed
<1> QED
  BY <1>1, <1>2, <1>3, <1>4 DEF Next, RunStep, StartRun, CheckHost, ConfigFails, AddTypes,
     ReadStaged, SwapTemplate, AddReplacement, ReadAdded, NoneAdded, ResumeMove, ListItems,
     MoveItems, ZabbixRefuses, RunFails, End, EndsIdle

\* A run that ends well, while nobody changes the host, leaves it with exactly the
\* interfaces and the template asked for, from whatever state it started.
THEOREM DoneIsServed == Spec => []DoneMeansServed
<1>1. Spec => []TypeInv
  BY TypeInit, TypeStep, PTL DEF Spec
<1>2. Init => LinkedAsAsked /\ EndsIdle /\ SeenIsHost /\ DoneMeansServed
  BY DEF Init, LinkedAsAsked, EndsIdle, SeenIsHost, DoneMeansServed
<1>3. Spec => [](LinkedAsAsked /\ EndsIdle /\ SeenIsHost)
  BY <1>2, LinkedStep, EndsStep, SeenStep, PTL DEF Spec
<1> QED  BY <1>1, <1>2, <1>3, DoneStep, PTL DEF Spec
-----------------------------------------------------------------------------
(* The ids that a run keeps.                                                *)

\* Until its last call, a run only adds interfaces, of types the host did not have.
OnlyGrown == quiet /\ pc # "idle" =>
    /\ before \subseteq ifaces
    /\ \A i \in ifaces \ before : i.type \notin TypesOf(before)

LEMMA NewTypesGrow ==
  ASSUME OnlyGrown, quiet, pc # "idle", before' = before,
         NEW N, ifaces' = ifaces \cup N, \A n \in N : n.type \notin TypesOf(ifaces)
  PROVE  OnlyGrown'
<1>1. before \subseteq ifaces /\ \A i \in ifaces \ before : i.type \notin TypesOf(before)
  BY DEF OnlyGrown
<1>2. TypesOf(before) \subseteq TypesOf(ifaces)
  BY <1>1 DEF TypesOf
<1> QED  BY <1>1, <1>2 DEF OnlyGrown

\* The interfaces added have the types of the wishes they are added for.
LEMMA NewOnesTypes ==
  ASSUME NEW fresh PROVE \A n \in NewOnes(fresh) : \E k \in DOMAIN fresh : n.type = fresh[k].type
<1> DEFINE new1(k) == Interface(fresh[k], nextId + Cardinality({j \in DOMAIN fresh : j < k}))
<1>1. \A k \in DOMAIN fresh : new1(k).type = fresh[k].type
  BY DEF Interface
<1>2. NewOnes(fresh) = {new1(k) : k \in DOMAIN fresh}
  BY DEF NewOnes
<1> HIDE DEF new1
<1> QED  BY <1>1, <1>2

LEMMA GrownStep == TypeInv /\ SeenIsHost /\ OnlyGrown /\ [Next]_vars => OnlyGrown'
<1> SUFFICES ASSUME TypeInv, SeenIsHost, OnlyGrown, [Next]_vars PROVE OnlyGrown'
  OBVIOUS
<1>1. CASE StartRun
  BY <1>1 DEF StartRun, host, OnlyGrown
<1>2. CASE AddTypes
  <2> SUFFICES ASSUME quiet PROVE OnlyGrown'
    BY <1>2 DEF AddTypes, OnlyGrown
  <2>1. seen = ifaces /\ before' = before /\ ifaces' = ifaces \cup NewOnes(Staged(wishes))
    BY <1>2 DEF AddTypes, Replace, SeenIsHost
  <2>2. \A n \in NewOnes(Staged(wishes)) : n.type \notin TypesOf(ifaces)
    <3>1. \A k \in DOMAIN Staged(wishes) : Staged(wishes)[k].type \notin TypesOf(ifaces)
      BY <2>1 DEF Staged, Restrict, MissingTypes
    <3> QED  BY <3>1, NewOnesTypes
  <2> QED  BY <1>2, <2>1, <2>2, NewTypesGrow DEF AddTypes
<1>3. CASE AddReplacement
  <2> SUFFICES ASSUME quiet PROVE OnlyGrown'
    BY <1>3 DEF AddReplacement, OnlyGrown
  <2>1. seen = ifaces /\ before' = before /\ ifaces' = ifaces \cup NewOnes(WishAlone)
    BY <1>3 DEF AddReplacement, Replace, SeenIsHost
  <2>2. wishes[WishOf(seen, wishes)].type \notin TypesOf(ifaces)
    <3>1. nextId \in Nat /\ Sound(seen, nextId) /\ wishes \in Seq(Wish)
      BY <1>3, WishesAreRight DEF AddReplacement, TypeInv, HostTyped, ReadingsTyped
    <3> QED  BY <1>3, <2>1, <3>1, OneReplacement DEF AddReplacement
  <2>3. \A n \in NewOnes(WishAlone) : n.type \notin TypesOf(ifaces)
    <3>1. DOMAIN WishAlone = {WishOf(seen, wishes)}
          /\ \A k \in DOMAIN WishAlone : WishAlone[k] = wishes[k]
      BY DEF WishAlone, Restrict
    <3>2. \A k \in DOMAIN WishAlone : WishAlone[k].type \notin TypesOf(ifaces)
      BY <2>2, <3>1
    <3> QED  BY <3>2, NewOnesTypes
  <2> QED  BY <1>3, <2>1, <2>3, NewTypesGrow DEF AddReplacement
<1>4. CASE UNCHANGED <<ifaces, quiet, before>> /\ pc # "idle"
  BY <1>4 DEF OnlyGrown
<1>5. CASE pc' = "idle"
  BY <1>5 DEF OnlyGrown
<1>6. CASE PeopleStep
  BY <1>6, PeopleAreHeard DEF OnlyGrown
<1>7. CASE UNCHANGED vars
  BY <1>7 DEF vars, OnlyGrown
<1> QED
  BY <1>1, <1>2, <1>3, <1>4, <1>5, <1>6, <1>7 DEF Next, RunStep, CheckHost, ConfigFails,
     ReadStaged, SwapTemplate, ReadAdded, NoneAdded, ResumeMove, ListItems, MoveItems,
     ReplaceInterfaces, ZabbixRefuses, RunFails, End

\* Of a type, the update keeps all the ids there were, or keeps only such ids.
LEMMA IdsOfAType ==
  ASSUME nextId \in Nat \ {0}, NEW is, Sound(is, nextId), NEW want \in Seq(Wish), NEW t
  PROVE  LET had == Ids(OfType(is, t))
             has == Ids(OfType(Retained(is, want) \cup NewOnes(Lacking(is, want)), t))
         IN  had \subseteq has \/ has \subseteq had
<1> DEFINE m == Match(is, want)
           U == Unserved(is, want)
           sent == Retained(is, want) \cup NewOnes(Lacking(is, want))
<1>1. /\ DOMAIN want = 1..Len(want) /\ U \subseteq 1..Len(want)
      /\ \A i \in is : i.id # None
      /\ \A i, j \in is : i.id = j.id => i = j
  BY RetainedIsSound DEF Sound
<1>2. /\ \A k \in 1..Len(want) :
             m[k] # None => \E i \in is : i.id = m[k] /\ i.type = want[k].type
      /\ \A k \in 1..Len(want) :
             m[k] = None => \A i \in is : i.type = want[k].type =>
                                \E j \in 1..Len(want) : m[j] = i.id
  <2>1. Len(want) \in Nat /\ is \in SUBSET Interfaces
    BY DEF Sound
  <2>2. Serves(is, want, m)
    BY <1>1, <2>1, MatchServes
  <2> QED  BY <2>2 DEF Serves
<1>3. \A k \in 1..Len(want) : k \in U <=> m[k] = None
  BY <1>1 DEF Unserved
<1>4. \A w, id : Interface(w, id).id = id /\ Interface(w, id).type = w.type
  BY DEF Interface
<1>5. Retained(is, want) = {Interface(want[k], m[k]) : k \in 1..Len(want) \ U}
  BY <1>1 DEF Retained
<1>6. \A n \in NewOnes(Lacking(is, want)) : \E k \in U : n.type = want[k].type
  <2>1. DOMAIN Lacking(is, want) = U /\ \A k \in U : Lacking(is, want)[k] = want[k]
    BY DEF Lacking, Restrict
  <2> QED  BY <2>1, NewOnesTypes
<1> HIDE DEF m, U
<1>7. CASE \E k \in U : want[k].type = t
  <2>1. PICK k \in U : want[k].type = t
    BY <1>7
  <2>2. ASSUME NEW i \in is, i.type = t PROVE i.id \in Ids(OfType(sent, t))
    <3>1. PICK j \in 1..Len(want) : m[j] = i.id
      BY <1>1, <1>2, <1>3, <2>1, <2>2
    <3>2. want[j].type = t /\ j \notin U
      BY <1>1, <1>2, <1>3, <2>2, <3>1
    <3>3. Interface(want[j], m[j]) \in Retained(is, want)
      BY <1>5, <3>2
    <3> QED  BY <1>4, <3>1, <3>2, <3>3 DEF Ids, OfType
  <2> QED  BY <2>2 DEF Ids, OfType
<1>8. CASE \A k \in U : want[k].type # t
  <2>1. ASSUME NEW e \in sent, e.type = t PROVE e.id \in Ids(OfType(is, t))
    <3>1. e \in Retained(is, want)
      BY <1>6, <1>8, <2>1
    <3>2. PICK k \in 1..Len(want) \ U : e = Interface(want[k], m[k])
      BY <1>5, <3>1
    <3>3. PICK i \in is : i.id = m[k] /\ i.type = want[k].type
      BY <1>2, <1>3, <3>2
    <3> QED  BY <1>4, <2>1, <3>2, <3>3 DEF Ids, OfType
  <2> QED  BY <2>1 DEF Ids, OfType
<1> QED  BY <1>7, <1>8

LEMMA CommonIds ==
  ASSUME NEW A, NEW B, IsFiniteSet(A), IsFiniteSet(B), A \subseteq B \/ B \subseteq A
  PROVE  Cardinality(A \cap B) = Min({Cardinality(A), Cardinality(B)})
<1>1. Cardinality(A) \in Nat /\ Cardinality(B) \in Nat
  BY FS_CardinalityType
<1>2. ASSUME NEW a \in Nat, NEW b \in Nat, a <= b PROVE Min({a, b}) = a /\ Min({b, a}) = a
  BY <1>2 DEF Min
<1>3. CASE A \subseteq B
  <2>1. A \cap B = A /\ Cardinality(A) <= Cardinality(B)
    BY <1>3, FS_Subset
  <2> QED  BY <1>1, <1>2, <2>1
<1>4. CASE B \subseteq A
  <2>1. A \cap B = B /\ Cardinality(B) <= Cardinality(A)
    BY <1>4, FS_Subset
  <2> QED  BY <1>1, <1>2, <2>1
<1> QED  BY <1>3, <1>4

LEMMA FewIds ==
  ASSUME NEW is, IsFiniteSet(is), NEW t PROVE IsFiniteSet(Ids(OfType(is, t)))
<1>1. IsFiniteSet(OfType(is, t))
  BY FS_Subset DEF OfType
<1>2. [i \in OfType(is, t) |-> i.id] \in Surjection(OfType(is, t), Ids(OfType(is, t)))
  BY DEF Surjection, Ids
<1> QED  BY <1>1, <1>2, FS_Surjection

LEMMA ReplaceKeepsIds ==
  ASSUME TypeInv, TypeInv', SeenIsHost, OnlyGrown, quiet, ReplaceInterfaces, NEW t
  PROVE  LET had == Ids(OfType(before, t))
             has == Ids(OfType(ifaces', t))
         IN  Cardinality(had \cap has) = Min({Cardinality(had), Cardinality(has)})
<1>1. /\ nextId \in Nat \ {0} /\ Sound(seen, nextId) /\ wishes \in Seq(Wish)
      /\ seen = ifaces
  BY ReplaceIsSent
<1>2. ifaces' = Retained(seen, wishes) \cup NewOnes(Lacking(seen, wishes))
  BY ReplaceIsSent
<1>3. /\ before \subseteq ifaces
      /\ \A i \in ifaces \ before : i.type \notin TypesOf(before)
  BY DEF ReplaceInterfaces, OnlyGrown
<1>4. IsFiniteSet(before) /\ IsFiniteSet(ifaces')
  BY DEF TypeInv, ReadingsTyped, HostTyped, Sound
<1>5. \/ Ids(OfType(before, t)) \subseteq Ids(OfType(ifaces', t))
      \/ Ids(OfType(ifaces', t)) \subseteq Ids(OfType(before, t))
  <2>1. CASE t \in TypesOf(before)
    <3>1. OfType(before, t) = OfType(seen, t)
      BY <1>1, <1>3, <2>1 DEF OfType
    <3> QED  BY <1>1, <1>2, <3>1, IdsOfAType
  <2>2. CASE t \notin TypesOf(before)
    BY <2>2 DEF OfType, Ids, TypesOf
  <2> QED  BY <2>1, <2>2
<1>6. IsFiniteSet(Ids(OfType(before, t))) /\ IsFiniteSet(Ids(OfType(ifaces', t)))
  BY <1>4, FewIds
<1> QED  BY <1>5, <1>6, CommonIds

LEMMA KeepsStep ==
  TypeInv /\ EndsIdle /\ SeenIsHost /\ OnlyGrown /\ SameTypeKeepsItsIds /\ [Next]_vars
      => SameTypeKeepsItsIds'
<1> SUFFICES ASSUME TypeInv, EndsIdle, SeenIsHost, OnlyGrown, SameTypeKeepsItsIds,
                    [Next]_vars
             PROVE  SameTypeKeepsItsIds'
  OBVIOUS
<1>1. CASE ReplaceInterfaces
  <2>1. TypeInv' /\ UNCHANGED <<quiet, before>>
    BY <1>1, TypeStep DEF ReplaceInterfaces
  <2> QED  BY <1>1, <2>1, ReplaceKeepsIds DEF SameTypeKeepsItsIds
<1>2. CASE PeopleStep
  BY <1>2, PeopleAreHeard DEF SameTypeKeepsItsIds
<1>3. CASE UNCHANGED vars
  BY <1>3 DEF vars, SameTypeKeepsItsIds
<1>4. CASE outcome' # "done"
  BY <1>4 DEF SameTypeKeepsItsIds
<1> QED
  BY <1>1, <1>2, <1>3, <1>4 DEF Next, RunStep, StartRun, CheckHost, ConfigFails, AddTypes,
     ReadStaged, SwapTemplate, AddReplacement, ReadAdded, NoneAdded, ResumeMove, ListItems,
     MoveItems, ZabbixRefuses, RunFails, End, EndsIdle

\* Such a run keeps the ids of as many interfaces of a type as the type had before
\* and has after, whether the template was swapped or an interface replaced on the way.
THEOREM IdsAreKept == Spec => []SameTypeKeepsItsIds
<1>1. Spec => []TypeInv
  BY TypeInit, TypeStep, PTL DEF Spec
<1>2. Init => EndsIdle /\ SeenIsHost /\ OnlyGrown /\ SameTypeKeepsItsIds
  BY DEF Init, EndsIdle, SeenIsHost, OnlyGrown, SameTypeKeepsItsIds
<1>3. Spec => [](EndsIdle /\ SeenIsHost)
  BY <1>2, EndsStep, SeenStep, PTL DEF Spec
<1>4. Spec => []OnlyGrown
  BY <1>1, <1>2, <1>3, GrownStep, PTL DEF Spec
<1> QED  BY <1>1, <1>2, <1>3, <1>4, KeepsStep, PTL DEF Spec
-----------------------------------------------------------------------------
(* The move of items from an interface to its replacement.                  *)

\* Between adding the replacement and reading it, it is the only thing added.
ReplacementAdded == pc = "addRead" =>
    /\ Replaces(seen, wishes) /\ Unserved(seen, wishes) # {}
    /\ old = OldOf(seen, wishes).id
    /\ quiet => \E id \in Nat \ (Ids(seen) \cup {None}) :
                    ifaces = seen \cup {Interface(wishes[WishOf(seen, wishes)], id)}

\* The items go from an interface that serves no wish to one that serves one.
MoveIsRight == pc \in {"items", "move"} /\ quiet =>
    /\ old \notin Range(Match(seen, wishes)) /\ new \in Range(Match(seen, wishes))
ListedAreOnOld == pc = "move" => \A x \in moving : on[x] \in {old, None}

LEMMA AddedStep == TypeInv /\ ReplacementAdded /\ [Next]_vars => ReplacementAdded'
<1> SUFFICES ASSUME TypeInv, ReplacementAdded, [Next]_vars PROVE ReplacementAdded'
  OBVIOUS
<1>1. CASE AddReplacement
  <2> DEFINE w == WishOf(seen, wishes)
             id == nextId + Cardinality({j \in {w} : j < w})
  <2>1. /\ nextId \in Nat \ {0} /\ Sound(seen, nextId) /\ wishes \in Seq(Wish)
        /\ Replaces(seen, wishes)
    BY <1>1, WishesAreRight DEF AddReplacement, TypeInv, HostTyped, ReadingsTyped
  <2>2. w \in Nat
    <3>1. w \in 1..Len(wishes)
      BY <2>1, OneReplacement
    <3> QED  BY <3>1
  <2>3. id = nextId
    <3>1. {j \in {w} : j < w} = {}
      BY <2>2
    <3>2. Cardinality({j \in {w} : j < w}) = 0
      BY <3>1, FS_EmptySet
    <3>3. \A c : c = 0 => nextId + c = nextId
      BY <2>1
    <3> QED  BY <3>2, <3>3
  <2>4. NewOnes(WishAlone) = {Interface(wishes[w], id)}
    <3>1. DOMAIN WishAlone = {w} /\ WishAlone[w] = wishes[w]
      BY DEF WishAlone, Restrict
    <3> QED  BY <3>1 DEF NewOnes
  <2>5. nextId \in Nat \ (Ids(seen) \cup {None})
    <3>1. \A i \in seen : i.id \in 1..(nextId - 1)
      BY <2>1 DEF Sound
    <3>2. nextId \notin 1..(nextId - 1)
      BY <2>1
    <3> QED  BY <2>1, <3>1, <3>2 DEF Ids
  <2>6. ifaces' = seen \cup {Interface(wishes[w], nextId)}
    BY <1>1, <2>3, <2>4 DEF AddReplacement, Replace
  <2>7. UNCHANGED <<seen, wishes>> /\ Unserved(seen, wishes) # {}
        /\ old' = OldOf(seen, wishes).id
    BY <1>1 DEF AddReplacement
  <2> HIDE DEF id
  <2> QED  BY <2>1, <2>5, <2>6, <2>7 DEF ReplacementAdded
<1>2. CASE PeopleStep
  <2>1. UNCHANGED <<pc, seen, wishes, old>> /\ quiet' = FALSE
    BY <1>2 DEF PeopleStep, ChangeWishes, AddItem, DropItem, AddInterface, DropInterface, Edit
  <2> QED  BY <2>1 DEF ReplacementAdded
<1>3. CASE UNCHANGED vars
  BY <1>3 DEF vars, ReplacementAdded
<1>4. CASE pc' # "addRead"
  BY <1>4 DEF ReplacementAdded
<1> QED
  BY <1>1, <1>2, <1>3, <1>4 DEF Next, RunStep, StartRun, CheckHost, ConfigFails, AddTypes,
     ReadStaged, SwapTemplate, ReadAdded, NoneAdded, ResumeMove, ListItems, MoveItems,
     ReplaceInterfaces, ZabbixRefuses, RunFails, End

LEMMA ReadAddedIsRight ==
  ASSUME TypeInv, ReplacementAdded, quiet, ReadAdded
  PROVE  /\ old \notin Range(Match(ifaces, wishes))
         /\ new' \in Range(Match(ifaces, wishes))
<1> DEFINE w == WishOf(seen, wishes)
           m == Match(seen, wishes)
<1>1. /\ nextId \in Nat /\ Sound(seen, nextId) /\ wishes \in Seq(Wish)
      /\ Replaces(seen, wishes) /\ Unserved(seen, wishes) # {}
      /\ old = OldOf(seen, wishes).id
  BY WishesAreRight DEF ReadAdded, TypeInv, HostTyped, ReadingsTyped, RunTyped, Working,
     ReplacementAdded
<1>2. PICK id \in Nat \ (Ids(seen) \cup {None}) : ifaces = seen \cup {Interface(wishes[w], id)}
  BY DEF ReadAdded, ReplacementAdded
<1>3. /\ w \in 1..Len(wishes) /\ Unserved(seen, wishes) = {w}
      /\ wishes[w].type \notin TypesOf(seen)
      /\ OldOf(seen, wishes) \in Unmatched(seen, wishes)
  BY <1>1, OneReplacement
<1>4. /\ seen \in SUBSET Interfaces /\ Len(wishes) \in Nat
      /\ \A i \in seen : i.id # None /\ i.id # id
  BY <1>1, <1>2 DEF Sound, Ids
<1> HIDE DEF w
<1>5. Match(ifaces, wishes) = [m EXCEPT ![w] = id]
  BY <1>1, <1>2, <1>3, <1>4, MatchOneMore
<1>6. DOMAIN m = 1..Len(wishes)
  <2>1. Follows(seen, wishes, m)
    BY <1>4, MatchFollows
  <2> QED  BY <2>1 DEF Follows
<1>7. old \in Ids(seen) /\ old \notin Range(m)
  BY <1>1, <1>3 DEF Unmatched, Ids
<1> HIDE DEF m
<1>8. old \notin Range(Match(ifaces, wishes)) /\ id \in Range(Match(ifaces, wishes))
  <2> DEFINE r == Match(ifaces, wishes)
  <2>1. DOMAIN r = DOMAIN m /\ w \in DOMAIN m /\ r[w] = id /\ \A v \in DOMAIN m : v # w => r[v] = m[v]
    BY <1>3, <1>5, <1>6
  <2>2. old # id /\ \A v \in DOMAIN m : m[v] # old
    BY <1>2, <1>7 DEF Range
  <2> HIDE DEF r
  <2>3. old \notin Range(r) /\ id \in Range(r)
    BY <2>1, <2>2, Zenon DEF Range
  <2> QED  BY <2>3 DEF r
<1>9. new' = id
  <2> DEFINE n == Interface(wishes[w], id)
  <2>1. n.id = id /\ n.type = wishes[w].type
    BY DEF Interface
  <2>2. n \in Interfaces
    BY <1>2 DEF TypeInv, HostTyped, Sound
  <2>3. Added = {n}
    <3>1. \A i \in seen : i.id \in Ids(seen)
      BY DEF Ids
    <3> HIDE DEF n
    <3>2. ifaces = seen \cup {n}
      BY <1>2 DEF n
    <3>3. Added = {i \in ifaces : i.type = wishes[w].type /\ i.id \notin Ids(seen)}
      BY DEF Added, w
    <3> QED  BY <1>2, <2>1, <3>1, <3>2, <3>3
  <2> HIDE DEF n
  <2>4. First({n}) = n.id
    BY <2>2, FirstIsThere
  <2> QED  BY <2>1, <2>3, <2>4 DEF ReadAdded
<1> QED  BY <1>8, <1>9

LEMMA MoveStep == TypeInv /\ ReplacementAdded /\ MoveIsRight /\ [Next]_vars => MoveIsRight'
<1> SUFFICES ASSUME TypeInv, ReplacementAdded, MoveIsRight, [Next]_vars PROVE MoveIsRight'
  OBVIOUS
<1>1. CASE ReadAdded
  <2> SUFFICES ASSUME quiet PROVE MoveIsRight'
    BY <1>1 DEF ReadAdded, past, MoveIsRight
  <2>1. seen' = ifaces /\ UNCHANGED <<wishes, old>>
    BY <1>1 DEF ReadAdded
  <2> QED  BY <1>1, <2>1, ReadAddedIsRight DEF MoveIsRight
<1>2. CASE ResumeMove
  <2>1. nextId \in Nat /\ Sound(seen, nextId) /\ wishes \in Seq(Wish)
    BY <1>2, WishesAreRight DEF ResumeMove, TypeInv, HostTyped, ReadingsTyped
  <2>2. /\ OldOf(seen, wishes) \in Unmatched(seen, wishes)
        /\ WishOf(seen, wishes) \in 1..Len(wishes)
    BY <1>2, <2>1, OneReplacement DEF ResumeMove
  <2>3. DOMAIN Match(seen, wishes) = 1..Len(wishes)
    <3>1. Len(wishes) \in Nat /\ seen \in SUBSET Interfaces
      BY <2>1 DEF Sound
    <3>2. Follows(seen, wishes, Match(seen, wishes))
      BY <3>1, MatchFollows
    <3> QED  BY <3>2 DEF Follows
  <2>4. /\ OldOf(seen, wishes).id \notin Range(Match(seen, wishes))
        /\ Match(seen, wishes)[WishOf(seen, wishes)] \in Range(Match(seen, wishes))
    BY <2>2, <2>3 DEF Unmatched, Range
  <2>5. /\ UNCHANGED <<seen, wishes>> /\ old' = OldOf(seen, wishes).id
        /\ new' = Match(seen, wishes)[WishOf(seen, wishes)]
    BY <1>2 DEF ResumeMove
  <2> QED  BY <2>4, <2>5 DEF MoveIsRight
<1>3. CASE ListItems
  BY <1>3 DEF ListItems, MoveIsRight
<1>4. CASE PeopleStep
  BY <1>4, PeopleAreHeard DEF MoveIsRight
<1>5. CASE UNCHANGED vars
  BY <1>5 DEF vars, MoveIsRight
<1>6. CASE pc' \notin {"items", "move"}
  BY <1>6 DEF MoveIsRight
<1> QED
  BY <1>1, <1>2, <1>3, <1>4, <1>5, <1>6 DEF Next, RunStep, StartRun, CheckHost, ConfigFails,
     AddTypes, ReadStaged, SwapTemplate, AddReplacement, NoneAdded, MoveItems,
     ReplaceInterfaces, ZabbixRefuses, RunFails, End

LEMMA ListedStep == TypeInv /\ ListedAreOnOld /\ [Next]_vars => ListedAreOnOld'
<1> SUFFICES ASSUME TypeInv, ListedAreOnOld, [Next]_vars PROVE ListedAreOnOld'
  OBVIOUS
<1>1. CASE ListItems
  BY <1>1 DEF ListItems, ListedAreOnOld
<1>2. CASE PeopleStep
  <2>1. UNCHANGED <<pc, moving, old>> /\ on \in [Items -> Ids(ifaces) \cup {None}]
        /\ moving \subseteq Items
    BY <1>2 DEF PeopleStep, ChangeWishes, AddItem, DropItem, AddInterface, DropInterface,
       Edit, TypeInv, HostTyped, RunTyped
  <2>2. CASE on' = on
    BY <2>1, <2>2 DEF ListedAreOnOld
  <2>3. CASE AddItem
    BY <2>1, <2>3 DEF AddItem, ListedAreOnOld
  <2>4. CASE DropItem
    BY <2>1, <2>4 DEF DropItem, ListedAreOnOld
  <2> QED
    BY <1>2, <2>2, <2>3, <2>4 DEF PeopleStep, ChangeWishes, AddInterface, DropInterface
<1>3. CASE UNCHANGED vars
  BY <1>3 DEF vars, ListedAreOnOld
<1>4. CASE pc' # "move"
  BY <1>4 DEF ListedAreOnOld
<1> QED
  BY <1>1, <1>2, <1>3, <1>4 DEF Next, RunStep, StartRun, CheckHost, ConfigFails, AddTypes,
     ReadStaged, SwapTemplate, AddReplacement, ReadAdded, NoneAdded, ResumeMove, MoveItems,
     ReplaceInterfaces, ZabbixRefuses, RunFails, End

\* While nobody changes the host, the items that a run moves come off an interface
\* that serves no wish and go to one that does.
THEOREM MovesAreRight == Spec => MovedItemsAreKept
<1>1. Spec => []TypeInv
  BY TypeInit, TypeStep, PTL DEF Spec
<1>2. Init => ReplacementAdded /\ MoveIsRight /\ ListedAreOnOld
  BY DEF Init, ReplacementAdded, MoveIsRight, ListedAreOnOld
<1>3. Spec => [](TypeInv /\ ReplacementAdded /\ MoveIsRight /\ ListedAreOnOld)
  BY <1>1, <1>2, AddedStep, MoveStep, ListedStep, PTL DEF Spec
<1> DEFINE Kept == pc = "move" /\ quiet /\ edits' = edits =>
               \A x \in Items : on'[x] # on[x] =>
                   /\ on[x] \notin Range(Match(seen, wishes))
                   /\ on'[x] \in Range(Match(seen, wishes))
<1>4. TypeInv /\ MoveIsRight /\ ListedAreOnOld /\ [Next]_vars => [Kept]_vars
  <2> SUFFICES ASSUME TypeInv, MoveIsRight, ListedAreOnOld, [Next]_vars,
                      pc = "move", quiet, edits' = edits,
                      NEW x \in Items, on'[x] # on[x]
               PROVE  /\ on[x] \notin Range(Match(seen, wishes))
                      /\ on'[x] \in Range(Match(seen, wishes))
    OBVIOUS
  <2>1. MoveItems
    <3>1. ~PeopleStep
      BY InterfaceAssumption DEF PeopleStep, ChangeWishes, AddItem, DropItem, AddInterface,
         DropInterface, Edit, TypeInv, RunTyped
    <3> QED
      BY <3>1 DEF Next, RunStep, StartRun, CheckHost, ConfigFails, AddTypes, ReadStaged,
         SwapTemplate, AddReplacement, ReadAdded, NoneAdded, ResumeMove, ListItems,
         ReplaceInterfaces, ZabbixRefuses, RunFails, vars
  <2>2. x \in moving /\ on[x] # None /\ on'[x] = new
    BY <2>1 DEF MoveItems, Movable
  <2>3. on[x] = old
    BY <2>2 DEF ListedAreOnOld
  <2> QED  BY <2>2, <2>3 DEF MoveIsRight
<1> QED  BY <1>3, <1>4, PTL DEF Spec, MovedItemsAreKept
=============================================================================
