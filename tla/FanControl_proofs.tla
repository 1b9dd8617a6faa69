--------------------------- MODULE FanControl_proofs ---------------------------
(***************************************************************************)
(* Proofs about FanControl, for any board, any number of PWMs and duties   *)
(* and with transactions that have no effect.                              *)
(***************************************************************************)
EXTENDS FanControl, FiniteSetTheorems, SequenceTheorems, WellFoundedInduction, TLAPS

USE PwmAssumption, BoardAssumption, FlagsAssumption

-----------------------------------------------------------------------------
(* The cached speeds                                                       *)

\* A reading that was encoded is obsolete, so that nobody encodes it again.
Cache ==
    /\ obsoleted \in [Fans -> BOOLEAN]
    /\ reading \in [Fans -> {"raw", "encoded"}]
    /\ \A fan \in Fans : reading[fan] = "encoded" => obsoleted[fan]

LEMMA CacheStep == ASSUME Cache, [Next]_vars PROVE Cache'
<1>1. ASSUME NEW fan \in Fans, ReadSpeed(fan) PROVE Cache'
  <2> DEFINE m == IF obsoleted[fan] THEN Updated ELSE Cached
  <2>1. /\ m.obsoleted \in [Fans -> BOOLEAN]
        /\ m.reading \in [Fans -> {"raw", "encoded"}]
        /\ m.reading[fan] = "raw"
        /\ \A g \in Fans : m.reading[g] = "encoded" => m.obsoleted[g]
    BY DEF Cache, Updated, Cached
  <2>2. /\ obsoleted' = [m.obsoleted EXCEPT ![fan] = TRUE]
        /\ reading' = [m.reading EXCEPT ![fan] = "encoded"]
    BY <1>1, <2>1 DEF ReadSpeed
  <2> HIDE DEF m
  <2> QED BY <2>1, <2>2 DEF Cache
<1>2. ASSUME ~\E fan \in Fans : ReadSpeed(fan) PROVE UNCHANGED sensorVars
  <2>1. CASE GetConf
    BY <2>1 DEF GetConf, GetConfReset, GetConfRead, GetConfWrite, GetConfLoad, GetConfStore,
                GetConfKeep
  <2>2. ASSUME NEW v \in SUBSET Bits, SetPwmMode(v) PROVE UNCHANGED sensorVars
    BY <2>2 DEF SetPwmMode
  <2>3. CASE SetPwmModeStep
    BY <2>3 DEF SetPwmModeStep, SkipBit, FindFan, LoadMode, StoreMode, ReadValue, WriteConf,
                SetPwmModeReturn
  <2>4. ASSUME NEW fan \in Fans, NEW d \in Duties, SetMinSpeed(fan, d) PROVE UNCHANGED sensorVars
    BY <2>4 DEF SetMinSpeed
  <2>5. CASE WriteDuty
    BY <2>5 DEF WriteDuty
  <2>6. CASE UNCHANGED vars
    BY <2>6 DEF vars, sensorVars
  <2> QED BY <1>2, <2>1, <2>2, <2>3, <2>4, <2>5, <2>6 DEF Next
<1> QED BY <1>1, <1>2 DEF Cache, sensorVars

(***************************************************************************)
(* readSensor and callPlatformFunction: in whatever order the speeds are   *)
(* read, none is encoded twice.                                            *)
(***************************************************************************)
THEOREM SpeedsEncodedOnce == Spec => []EncodedOnce
<1>1. Init => Cache
  BY DEF Init, Cache
<1>2. Cache /\ [Next]_vars => Cache'
  BY CacheStep
<1>3. Cache => EncodedOnce
  BY DEF Cache, EncodedOnce
<1> QED BY <1>1, <1>2, <1>3, PTL DEF Spec

-----------------------------------------------------------------------------
(* Boards                                                                  *)

\* Every set of numbers has a least one: what the proofs use for induction.
LEMMA Least ==
    ASSUME NEW T, T \subseteq Nat, T # {}
    PROVE  \E n \in T : \A m \in T : n <= m
<1> DEFINE R == OpToRel(<, Nat)
<1>1. IsWellFoundedOn(R, Nat)
  BY NatLessThanWellFounded
<1>2. \A m, n \in Nat : m < n => <<m, n>> \in R
  BY DEF OpToRel
<1> HIDE DEF R
<1>3. PICK n \in T : \A m \in T : ~(<<m, n>> \in R)
  BY <1>1, WFMin
<1>4. ASSUME NEW m \in T PROVE n <= m
  <2>1. m \in Nat /\ n \in Nat
    OBVIOUS
  <2>2. ~(m < n)
    BY <1>2, <1>3, <2>1
  <2> QED BY <2>1, <2>2
<1> QED BY <1>4

\* The sensors with keys before a place.
Before(board, place) == {k \in Keyed(board) : k < place}

LEMMA KeyedFinite ==
    ASSUME NEW board \in Seq(Int)
    PROVE  /\ Keyed(board) \subseteq 0 .. Len(board) - 1 /\ Len(board) \in Nat
           /\ Keyed(board) \subseteq Nat /\ IsFiniteSet(Keyed(board))
<1>1. Keyed(board) \subseteq 0 .. Len(board) - 1 /\ Len(board) \in Nat
  BY DEF Keyed, Places
<1>2. IsFiniteSet(0 .. Len(board) - 1)
  BY <1>1, FS_Interval
<1> QED BY <1>1, <1>2, FS_Subset

LEMMA FanAtBefore ==
    ASSUME NEW board \in Seq(Int), NEW place \in Nat
    PROVE  /\ FanAt(board, place) = Cardinality(Before(board, place))
           /\ IsFiniteSet(Before(board, place)) /\ Before(board, place) \subseteq Nat
           /\ FanAt(board, place) \in 0 .. place
<1>1. Before(board, place) \subseteq Keyed(board) /\ Before(board, place) \subseteq 0 .. place - 1
  BY KeyedFinite DEF Before
<1>2. IsFiniteSet(0 .. place - 1) /\ Cardinality(0 .. place - 1) = place
  BY FS_Interval
<1>3. IsFiniteSet(Before(board, place)) /\ Cardinality(Before(board, place)) <= place
  BY <1>1, <1>2, FS_Subset
<1>4. Cardinality(Before(board, place)) \in Nat
  BY <1>3, FS_CardinalityType
<1> QED BY <1>1, <1>3, <1>4, KeyedFinite DEF FanAt, Before

\* Sensors with keys are numbered in their order.
LEMMA FanAtIncreases ==
    ASSUME NEW board \in Seq(Int), NEW k \in Keyed(board), NEW l \in Nat, k < l
    PROVE  FanAt(board, k) < FanAt(board, l)
<1>1. k \in Nat
  BY KeyedFinite
<1>2. Before(board, k) \subseteq Before(board, l) /\ k \in Before(board, l) \ Before(board, k)
  BY <1>1, KeyedFinite DEF Before
<1>3. Cardinality(Before(board, k)) <= Cardinality(Before(board, l))
      /\ Cardinality(Before(board, k)) # Cardinality(Before(board, l))
  BY <1>2, FanAtBefore, FS_Subset
<1> QED BY <1>1, <1>3, FanAtBefore

LEMMA FanAtInjective ==
    ASSUME NEW board \in Seq(Int), NEW k \in Keyed(board), NEW l \in Keyed(board),
           FanAt(board, k) = FanAt(board, l)
    PROVE  k = l
<1>1. k \in Nat /\ l \in Nat
  BY KeyedFinite
<1>2. FanAt(board, k) \in Nat /\ FanAt(board, l) \in Nat
  BY <1>1, FanAtBefore
<1>3. ~(k < l) /\ ~(l < k)
  BY <1>1, <1>2, FanAtIncreases
<1> QED BY <1>1, <1>3

\* The fans are the numbers from 0 on, as many as there are sensors with keys.
LEMMA FansFromZero ==
    ASSUME NEW board \in Seq(Int)
    PROVE  /\ Cardinality(FansOf(board)) = Cardinality(Keyed(board))
           /\ Cardinality(Keyed(board)) \in Nat
           /\ FansOf(board) = 0 .. Cardinality(Keyed(board)) - 1
<1> DEFINE N == Cardinality(Keyed(board))
           f == [place \in Keyed(board) |-> FanAt(board, place)]
<1>1. IsFiniteSet(Keyed(board)) /\ Keyed(board) \subseteq Nat /\ N \in Nat
  BY KeyedFinite, FS_CardinalityType
<1>2. f \in Surjection(Keyed(board), FansOf(board))
  BY DEF Surjection, FansOf
<1>3. f \in Injection(Keyed(board), FansOf(board))
  BY FanAtInjective DEF Injection, IsInjective, FansOf
<1>4. Cardinality(FansOf(board)) = N /\ IsFiniteSet(FansOf(board))
  <2> HIDE DEF f
  <2> QED BY <1>1, <1>2, <1>3, FS_Surjection
<1>5. ASSUME NEW place \in Keyed(board) PROVE FanAt(board, place) \in 0 .. N - 1
  <2>1. Before(board, place) \subseteq Keyed(board) /\ place \in Keyed(board) \ Before(board, place)
    BY <1>1 DEF Before
  <2>2. Cardinality(Before(board, place)) <= N /\ Cardinality(Before(board, place)) # N
    BY <1>1, <2>1, FS_Subset
  <2> QED BY <1>1, <2>2, FanAtBefore
<1>6. FansOf(board) \subseteq 0 .. N - 1
  BY <1>5 DEF FansOf
<1>7. IsFiniteSet(0 .. N - 1) /\ Cardinality(0 .. N - 1) = N
  <2> HIDE DEF N
  <2> QED BY <1>1, FS_Interval
<1>8. FansOf(board) = 0 .. N - 1
  BY <1>4, <1>6, <1>7, FS_Subset
<1> QED BY <1>1, <1>4, <1>8

\* NextKeyed is the first sensor with a key from a place on.
LEMMA NextKeyedIs ==
    ASSUME NEW board \in Seq(Int), NEW place \in Nat, NEW k \in Keyed(board), k >= place,
           \A l \in Keyed(board) : l >= place => l >= k
    PROVE  NextKeyed(board, place) = k
<1>1. Keyed(board) \subseteq Nat /\ Len(board) \in Nat /\ k < Len(board)
  BY KeyedFinite
<1>2. ASSUME NEW j \in Keyed(board) \cup {Len(board)},
             j >= place /\ \A l \in Keyed(board) : l >= place => l >= j
      PROVE  j = k
  <2>1. k >= j
    BY <1>2
  <2>2. j # Len(board)
    BY <1>1, <2>1
  <2> QED BY <1>1, <1>2, <2>1, <2>2
<1>3. k \in Keyed(board) \cup {Len(board)} /\ k >= place
      /\ \A l \in Keyed(board) : l >= place => l >= k
  OBVIOUS
<1> DEFINE P(j) == j >= place /\ \A l \in Keyed(board) : l >= place => l >= j
<1>4. NextKeyed(board, place) = CHOOSE j \in Keyed(board) \cup {Len(board)} : P(j)
  BY DEF NextKeyed
<1>5. \A j \in Keyed(board) \cup {Len(board)} : P(j) <=> j = k
  BY <1>2, <1>3
<1> HIDE DEF P
<1> QED BY <1>3, <1>4, <1>5

(***************************************************************************)
(* A walk that stops at its own place at every bit before the last two     *)
(* comes to the place of each bit.  It is a recursive function: that there *)
(* is one follows from a function that satisfies the recursion, and that   *)
(* it is this one from the least bit where another would differ.           *)
(***************************************************************************)
LEMMA WalkStops ==
    ASSUME NEW board, NEW last \in Nat, NEW differ \in SUBSET (0 .. last),
           \A bit \in 0 .. last - 2 : Stop(board, bit, bit \in differ) = bit
    PROVE  \A fan \in differ : fan < last =>
              Walk(board, last + 1, differ)[fan] = Stop(board, fan, TRUE)
<1> DEFINE Turn(at, bit) == IF bit = 0 THEN 0 ELSE Stop(board, at[bit - 1], bit - 1 \in differ) + 1
           IsWalk(at) == at = [bit \in 0 .. last |-> Turn(at, bit)]
           at == CHOOSE a : IsWalk(a)
           g == [bit \in 0 .. last |->
                   IF bit = 0 THEN 0 ELSE Stop(board, bit - 1, bit - 1 \in differ) + 1]
<1>1. Walk(board, last + 1, differ) = [bit \in differ |-> Stop(board, at[bit], TRUE)]
  BY DEF Walk
<1>2. IsWalk(g)
  <2>1. ASSUME NEW bit \in 0 .. last PROVE g[bit] = Turn(g, bit)
    <3>1. CASE bit = 0
      BY <3>1
    <3>2. CASE bit # 0
      <4>1. bit - 1 \in 0 .. last - 1
        BY <3>2
      <4>2. g[bit - 1] = bit - 1
        <5>1. CASE bit - 1 = 0
          BY <4>1, <5>1
        <5>2. CASE bit - 1 # 0
          <6>1. bit - 1 - 1 \in 0 .. last - 2
            BY <4>1, <5>2
          <6>2. Stop(board, bit - 1 - 1, bit - 1 - 1 \in differ) = bit - 1 - 1
            BY <6>1
          <6> QED BY <4>1, <5>2, <6>2
        <5> QED BY <5>1, <5>2
      <4> QED BY <3>2, <4>1, <4>2
    <3> QED BY <3>1, <3>2
  <2> QED BY <2>1
<1>3. IsWalk(at)
  <2> HIDE DEF IsWalk
  <2> QED BY <1>2
<1> HIDE DEF at
<1>4. ASSUME NEW bit \in 0 .. last PROVE at[bit] = Turn(at, bit)
  <2> DEFINE rhs == [b \in 0 .. last |-> Turn(at, b)]
  <2>1. rhs[bit] = Turn(at, bit)
    OBVIOUS
  <2>2. at = rhs
    BY <1>3
  <2> HIDE DEF rhs
  <2> QED BY <2>1, <2>2
<1>5. \A bit \in 0 .. last - 1 : at[bit] = bit
  <2> DEFINE Bad == {bit \in 0 .. last - 1 : at[bit] # bit}
  <2>1. ASSUME Bad # {} PROVE FALSE
    <3>0. Bad \subseteq Nat
      OBVIOUS
    <3>1. PICK bit \in Bad : \A b \in Bad : bit <= b
      <4> HIDE DEF Bad
      <4> QED BY <2>1, <3>0, Least
    <3>2. bit \in 0 .. last - 1 /\ at[bit] # bit
      OBVIOUS
    <3>3. bit # 0
      BY <1>4, <3>2
    <3>4. bit - 1 \in 0 .. last - 2 /\ bit - 1 \notin Bad
      BY <3>1, <3>2, <3>3
    <3>5. at[bit - 1] = bit - 1
      BY <3>4
    <3>6. Stop(board, bit - 1, bit - 1 \in differ) = bit - 1
      BY <3>4
    <3>7. at[bit] = Stop(board, at[bit - 1], bit - 1 \in differ) + 1
      BY <1>4, <3>2, <3>3
    <3> QED BY <3>2, <3>5, <3>6, <3>7
  <2> QED BY <2>1
<1>6. ASSUME NEW fan \in differ, fan < last
      PROVE  Walk(board, last + 1, differ)[fan] = Stop(board, fan, TRUE)
  <2>1. fan \in 0 .. last - 1
    BY <1>6
  <2> QED BY <1>1, <1>5, <2>1
<1> QED BY <1>6

\* On a board without gaps all sensors before the last one with a key have keys.
LEMMA NoGapsPrefix ==
    ASSUME NEW board \in Seq(Int), NoGaps(board)
    PROVE  0 .. Cardinality(Keyed(board)) - 2 \subseteq Keyed(board)
<1> DEFINE N == Cardinality(Keyed(board))
<1>1. /\ Keyed(board) \subseteq 0 .. Len(board) - 1 /\ Keyed(board) \subseteq Nat
      /\ Len(board) \in Nat /\ IsFiniteSet(Keyed(board)) /\ N \in Nat
  BY KeyedFinite, FS_CardinalityType
<1>2. ASSUME NEW bit \in 0 .. N - 2, bit \notin Keyed(board) PROVE FALSE
  <2>1. ASSUME NEW k \in Keyed(board), NEW l \in Keyed(board), bit <= k, k < l PROVE FALSE
    <3>1. /\ bit + 1 \in 1 .. Len(board) /\ k + 1 \in 1 .. Len(board) /\ l + 1 \in 1 .. Len(board)
          /\ board[k + 1] # NoKey /\ board[l + 1] # NoKey /\ board[bit + 1] = NoKey
      BY <1>1, <1>2, <2>1 DEF Keyed, Places
    <3>2. bit + 1 < k + 1 /\ k + 1 < l + 1
      BY <1>1, <1>2, <2>1
    <3> QED BY <3>1, <3>2 DEF NoGaps
  <2> DEFINE after == Keyed(board) \ Before(board, bit)
  <2>2. \E x : after \subseteq {x}
    <3>1. ASSUME NEW x \in after, NEW y \in after PROVE x = y
      <4>1. x \in Nat /\ y \in Nat /\ bit <= x /\ bit <= y /\ x \in Keyed(board) /\ y \in Keyed(board)
        BY <1>1 DEF Before
      <4>2. ~(x < y) /\ ~(y < x)
        BY <2>1, <4>1
      <4> QED BY <4>1, <4>2
    <3> QED BY <3>1
  <2>3. PICK x : after \subseteq {x}
    BY <2>2
  <2>4. IsFiniteSet(Before(board, bit)) /\ Cardinality(Before(board, bit)) \in 0 .. bit
    BY FanAtBefore
  <2>5. IsFiniteSet(Before(board, bit) \cup {x}) /\ Cardinality(Before(board, bit) \cup {x}) <= bit + 1
    <3>1. /\ IsFiniteSet(Before(board, bit) \cup {x})
          /\ Cardinality(Before(board, bit) \cup {x}) =
                IF x \in Before(board, bit) THEN Cardinality(Before(board, bit))
                ELSE Cardinality(Before(board, bit)) + 1
      BY <2>4, FS_AddElement
    <3> QED BY <2>4, <3>1
  <2>6. Keyed(board) \subseteq Before(board, bit) \cup {x}
    BY <2>3
  <2>7. N <= bit + 1
    BY <1>1, <2>5, <2>6, FS_Subset, FS_CardinalityType
  <2> QED BY <1>1, <2>7
<1> QED BY <1>2

\* On such a board the next sensor with a key from a fan's number on is the
\* fan's, at the place of that number but for the last fan.
LEMMA NextOfFan ==
    ASSUME NEW board \in Seq(Int), NoGaps(board), NEW fan \in FansOf(board)
    PROVE  /\ NextKeyed(board, fan) \in Keyed(board)
           /\ FanAt(board, NextKeyed(board, fan)) = fan
           /\ fan <= Cardinality(FansOf(board)) - 2 => NextKeyed(board, fan) = fan
<1> DEFINE N == Cardinality(Keyed(board))
<1>1. /\ Cardinality(FansOf(board)) = N /\ N \in Nat /\ FansOf(board) = 0 .. N - 1
      /\ Keyed(board) \subseteq 0 .. Len(board) - 1 /\ Keyed(board) \subseteq Nat
      /\ Len(board) \in Nat
  BY FansFromZero, KeyedFinite
<1>2. 0 .. N - 2 \subseteq Keyed(board)
  BY NoGapsPrefix
<1> HIDE DEF N
<1>3. PICK place \in Keyed(board) : FanAt(board, place) = fan
  BY DEF FansOf
<1>4. fan \in 0 .. N - 1 /\ place \in Nat /\ fan \in 0 .. place
  BY <1>1, <1>3, FanAtBefore
\* Before the fan's place there are the sensors 0 .. fan - 1, and no others.
<1>5. Before(board, place) = 0 .. fan - 1
  <2>1. 0 .. fan - 1 \subseteq Before(board, place)
    BY <1>1, <1>2, <1>4 DEF Before
  <2>2. IsFiniteSet(0 .. fan - 1) /\ Cardinality(0 .. fan - 1) = fan
    BY <1>4, FS_Interval
  <2> QED BY <1>3, <1>4, <2>1, <2>2, FanAtBefore, FS_Subset
<1>6. \A l \in Keyed(board) : l >= fan => l >= place
  <2>1. ASSUME NEW l \in Keyed(board), l >= fan, l < place PROVE FALSE
    <3>1. l \in 0 .. fan - 1
      BY <1>5, <2>1 DEF Before
    <3> QED BY <1>1, <1>4, <2>1, <3>1
  <2> QED BY <1>1, <1>4, <2>1
<1>7. NextKeyed(board, fan) = place
  BY <1>4, <1>6, NextKeyedIs
<1>8. ASSUME fan <= N - 2 PROVE NextKeyed(board, fan) = fan
  <2>1. fan \in Keyed(board)
    BY <1>1, <1>2, <1>4, <1>8
  <2> QED BY <1>1, <1>4, <2>1, NextKeyedIs
<1> QED BY <1>1, <1>3, <1>7, <1>8

(***************************************************************************)
(* SetPwmMode: whichever bits differ, the walk over the sensors finds the  *)
(* fan of each of them on the boards without gaps, and on no others.       *)
(***************************************************************************)
THEOREM WalkFindsFans == \A board \in Seq(Int) : WalkFinds(board) <=> NoGaps(board)
<1> SUFFICES ASSUME NEW board \in Seq(Int) PROVE WalkFinds(board) <=> NoGaps(board)
  OBVIOUS
<1> DEFINE N == Cardinality(Keyed(board))
<1>1. /\ Cardinality(FansOf(board)) = N /\ N \in Nat /\ FansOf(board) = 0 .. N - 1
      /\ Keyed(board) \subseteq 0 .. Len(board) - 1 /\ Keyed(board) \subseteq Nat
      /\ Len(board) \in Nat
  BY FansFromZero, KeyedFinite
<1> HIDE DEF N
\* The walk stops at the first sensor with a key, if it stopped at every bit before.
<1>2. ASSUME NEW differ \in SUBSET FansOf(board), NEW fan \in differ,
             \A bit \in 0 .. N - 2 : Stop(board, bit, bit \in differ) = bit
      PROVE  Walk(board, Cardinality(FansOf(board)) + 1, differ)[fan] = NextKeyed(board, fan)
  <2>1. differ \in SUBSET (0 .. N) /\ fan \in 0 .. N - 1 /\ fan < N
    BY <1>1
  <2>2. Walk(board, N + 1, differ)[fan] = Stop(board, fan, TRUE)
    <3>1. N \in Nat /\ differ \in SUBSET (0 .. N)
      BY <1>1, <2>1
    <3>2. \A f \in differ : f < N => Walk(board, N + 1, differ)[f] = Stop(board, f, TRUE)
      BY <1>2, <3>1, WalkStops, Zenon
    <3> QED BY <2>1, <3>2
  <2> QED BY <1>1, <2>2 DEF Stop
<1>3. ASSUME NoGaps(board) PROVE WalkFinds(board)
  <2> SUFFICES ASSUME NEW differ \in SUBSET FansOf(board), NEW fan \in differ
               PROVE  LET place == Walk(board, Cardinality(FansOf(board)) + 1, differ)[fan]
                      IN  place \in Keyed(board) /\ FanAt(board, place) = fan
    BY DEF WalkFinds
  <2>1. \A bit \in 0 .. N - 2 : Stop(board, bit, bit \in differ) = bit
    <3>1. ASSUME NEW bit \in 0 .. N - 2 PROVE NextKeyed(board, bit) = bit
      BY <1>1, <1>3, <3>1, NextOfFan
    <3> QED BY <3>1 DEF Stop
  <2> QED BY <1>2, <1>3, <2>1, NextOfFan
<1>4. ASSUME WalkFinds(board), ~NoGaps(board) PROVE FALSE
  <2>1. PICK k \in Nat, l \in Keyed(board), m \in Keyed(board) :
            k < l /\ l < m /\ k \notin Keyed(board)
    <3>1. PICK a \in 1 .. Len(board), b \in 1 .. Len(board), c \in 1 .. Len(board) :
              a < b /\ b < c /\ board[b] # NoKey /\ board[c] # NoKey /\ board[a] = NoKey
      BY <1>4 DEF NoGaps
    <3>2. a - 1 \in Nat /\ a - 1 \notin Keyed(board) /\ b - 1 \in Keyed(board) /\ c - 1 \in Keyed(board)
          /\ a - 1 < b - 1 /\ b - 1 < c - 1
      BY <1>1, <3>1 DEF Keyed, Places
    <3> QED BY <3>2
\* The last two fans; the last but one is behind the gap.
  <2>2. /\ FanAt(board, l) \in Nat /\ FanAt(board, m) \in 0 .. N - 1
        /\ FanAt(board, l) < FanAt(board, m)
    BY <1>1, <2>1, FanAtBefore, FanAtIncreases DEF FansOf
  <2>3. N - 1 \in FansOf(board) /\ N - 2 \in FansOf(board) /\ N - 2 \in Nat
    BY <1>1, <2>2
  <2>4. PICK t \in Keyed(board), s \in Keyed(board) :
            FanAt(board, t) = N - 1 /\ FanAt(board, s) = N - 2
    BY <2>3 DEF FansOf
  <2>5. l <= s
    <3>1. ASSUME s < l PROVE FALSE
      <4>1. FanAt(board, s) < FanAt(board, l)
        BY <1>1, <3>1, FanAtIncreases
      <4> QED BY <1>1, <2>2, <2>4, <4>1
    <3> QED BY <1>1, <3>1
  <2>6. s < t
    <3>1. t # s
      BY <1>1, <2>4
    <3>2. ~(t < s)
      BY <1>1, <2>4, FanAtIncreases
    <3> QED BY <1>1, <3>1, <3>2
  <2>7. N - 1 <= s
    <3>1. Before(board, s) \subseteq (0 .. s - 1) \ {k}
      BY <1>1, <2>1 DEF Before
    <3>2. s \in Nat /\ k \in 0 .. s - 1
      BY <1>1, <2>1, <2>5
    <3>3. IsFiniteSet(0 .. s - 1) /\ Cardinality(0 .. s - 1) = s
      BY <3>2, FS_Interval
    <3>4. IsFiniteSet((0 .. s - 1) \ {k}) /\ Cardinality((0 .. s - 1) \ {k}) = s - 1
      <4>1. /\ IsFiniteSet((0 .. s - 1) \ {k})
            /\ Cardinality((0 .. s - 1) \ {k}) =
                  IF k \in 0 .. s - 1 THEN Cardinality(0 .. s - 1) - 1 ELSE Cardinality(0 .. s - 1)
        BY <3>3, FS_RemoveElement
      <4> QED BY <3>2, <3>3, <4>1
    <3>5. Cardinality(Before(board, s)) <= s - 1
      BY <3>1, <3>4, FS_Subset
    <3>6. Cardinality(Before(board, s)) = N - 2
      BY <2>4, <3>2, FanAtBefore
    <3> QED BY <1>1, <3>2, <3>5, <3>6
\* If only the bit of the last fan differs, the walk stops before that fan.
  <2>8. \A bit \in 0 .. N - 2 : Stop(board, bit, bit \in {N - 1}) = bit
    BY <1>1 DEF Stop
  <2> DEFINE place == NextKeyed(board, N - 1)
  <2>9. place \in Keyed(board) /\ FanAt(board, place) = N - 1
    <3>1. Walk(board, Cardinality(FansOf(board)) + 1, {N - 1})[N - 1] = place
      BY <1>2, <2>3, <2>8
    <3> QED BY <1>4, <2>3, <3>1 DEF WalkFinds
  <2>10. place = t
    BY <2>4, <2>9, FanAtInjective
  <2>11. place <= s
    <3> DEFINE P(j) == j >= N - 1 /\ \A i \in Keyed(board) : i >= N - 1 => i >= j
               A == {i \in Keyed(board) : i >= N - 1}
    <3>1. A # {} /\ A \subseteq Nat
      BY <1>1, <2>7
    <3>2. PICK j \in A : \A i \in A : j <= i
      <4> HIDE DEF A
      <4> QED BY <3>1, Least
    <3>3. place = j
      BY <1>1, <2>3, <3>2, NextKeyedIs
    <3> QED BY <2>7, <3>2, <3>3
  <2> QED BY <1>1, <2>6, <2>10, <2>11
<1> QED BY <1>3, <1>4

LEMMA BoardIs == Board \in Seq(Int) /\ Fans \subseteq Int
<1>1. NoKey .. NUM_PWM - 1 \subseteq Int
  BY DEF NoKey
<1>2. Board \in Seq(Int)
  BY <1>1, SeqMonotonic
<1> QED BY <1>2, FansFromZero DEF Fans

\* The PWM of a fan's sensor is the fan's PWM, and there is one or none.
LEMMA SensorPwm ==
    ASSUME NEW place \in Keyed(Board)
    PROVE  PwmOf[FanAt(Board, place)] = Board[place + 1]
<1> DEFINE fan == FanAt(Board, place)
           there == CHOOSE k \in Keyed(Board) : FanAt(Board, k) = fan
<1>1. there \in Keyed(Board) /\ FanAt(Board, there) = fan
  OBVIOUS
<1>2. there = place
  BY <1>1, BoardIs, FanAtInjective
<1>3. fan \in Fans
  BY DEF Fans, FansOf
<1> QED BY <1>2, <1>3 DEF PwmOf, PwmOn

LEMMA PwmOfType == PwmOf \in [Fans -> NoPwm .. NUM_PWM - 1]
<1>1. ASSUME NEW fan \in Fans PROVE PwmOf[fan] \in NoPwm .. NUM_PWM - 1
  <2>1. PICK place \in Keyed(Board) : fan = FanAt(Board, place)
    BY DEF Fans, FansOf
  <2>2. place + 1 \in 1 .. Len(Board) /\ Board[place + 1] # NoKey
    BY DEF Keyed, Places
  <2>3. Board[place + 1] \in NoKey .. NUM_PWM - 1
    <3>1. \A i \in 1 .. Len(Board) : Board[i] \in NoKey .. NUM_PWM - 1
      BY ElementOfSeq
    <3> QED BY <2>2, <3>1
  <2> QED BY <2>1, <2>2, <2>3, SensorPwm DEF NoKey, NoPwm
<1> QED BY <1>1 DEF PwmOf

-----------------------------------------------------------------------------
(* Modes                                                                   *)

\* On a sound board the fans are numbered from 0 on, and each has a PWM to
\* itself or none.
LEMMA FansAre ==
    ASSUME SoundBoard
    PROVE  /\ Bits = Fans /\ Fans = 0 .. Cardinality(Fans) - 1 /\ Cardinality(Fans) \in Nat
           /\ NumFan = Cardinality(Fans) + 1 /\ Len(Board) \in Nat
           /\ Cardinality(Fans) <= Len(Board)
           /\ \A f, g \in Fans : PwmOf[f] = PwmOf[g] /\ PwmOf[f] \in Pwms => f = g
           /\ PwmOf \in [Fans -> NoPwm .. NUM_PWM - 1]
<1>1. /\ Cardinality(Fans) = Cardinality(Keyed(Board)) /\ Cardinality(Fans) \in Nat
      /\ Fans = 0 .. Cardinality(Fans) - 1
  BY BoardIs, FansFromZero DEF Fans
<1>2. /\ Keyed(Board) \subseteq 0 .. Len(Board) - 1 /\ Len(Board) \in Nat
  BY BoardIs, KeyedFinite
<1>3. \A n \in Nat : IsFiniteSet(0 .. n - 1) /\ Cardinality(0 .. n - 1) = n
  BY FS_Interval
<1>4. Cardinality(Keyed(Board)) <= Len(Board)
  <2>1. IsFiniteSet(0 .. Len(Board) - 1) /\ Cardinality(0 .. Len(Board) - 1) = Len(Board)
    BY <1>2, <1>3
  <2> QED BY <1>2, <2>1, FS_Subset
<1>5. \A f, g \in Fans : PwmOf[f] = PwmOf[g] /\ PwmOf[f] \in Pwms => f = g
  BY DEF SoundBoard, Pwms, NoPwm
<1>6. Bits = Fans
  BY DEF SoundBoard, Bits
<1> QED BY <1>1, <1>2, <1>4, <1>5, <1>6, PwmOfType DEF NumFan

\* Whichever bits differ, the walk of SetPwmMode stops at the sensor of the fan.
LEMMA SensorOfFan ==
    ASSUME SoundBoard, NEW fan \in Fans
    PROVE  /\ Sensors[fan] \in 0 .. Len(Board) - 1
           /\ PwmsAt(Sensors[fan]) = {PwmOf[fan]}
           /\ fan <= Cardinality(Fans) - 2 => Sensors[fan] = fan
<1>1. /\ NextKeyed(Board, fan) \in Keyed(Board)
      /\ FanAt(Board, NextKeyed(Board, fan)) = fan
      /\ fan <= Cardinality(Fans) - 2 => NextKeyed(Board, fan) = fan
  BY BoardIs, NextOfFan DEF SoundBoard, Fans
<1>2. fan \in 0 .. Len(Board)
  BY FansAre
<1>3. Sensors[fan] = NextKeyed(Board, fan)
  BY <1>2 DEF Sensors
<1>4. Sensors[fan] \in 0 .. Len(Board) - 1 /\ PwmOf[fan] = Board[Sensors[fan] + 1]
  BY <1>1, <1>3, BoardIs, KeyedFinite, SensorPwm
<1>5. Sensors[fan] # Len(Board)
  BY <1>4, FansAre
<1> QED BY <1>1, <1>3, <1>4, <1>5 DEF PwmsAt

-----------------------------------------------------------------------------
\* What the registers and the driver's copies of them hold: none that the
\* driver keeps is at full speed.
Zones ==
    /\ \A p \in Pwms : value[p].zone \in {0, 1, 4, 7} /\ hwConf[p].zone \in {0, 1, 3, 4, 7}
    /\ conf.zone \in {0, 1, 3, 4, 7} /\ (conf.zone = 3 => cpc = "write")

\* GetConf begins with the first PWM, and a turn is about one there is.
Turns ==
    /\ cpc = "reset" => confNext = 0
    /\ cpc \in {"write", "load", "store", "keep"} => confNext \in Pwms
    /\ cpc = "write" => conf.zone = 3
    /\ cpc \in {"load", "store"} => cFans = FansOn(confNext) /\ cFans # {}

\* The walk of SetPwmMode is at the sensor of the fan of its bit, and has not
\* been at the fan's PWM before.
Handed == spc \in {"load", "store", "value", "write"}
Walks ==
    /\ spc \in {"idle", "duty"} => fanBit = 0 /\ fanPlace = 0 /\ init_pwm = {}
    /\ spc = "duty" => data \in Duties
    /\ spc = "bit" => /\ fanBit < Cardinality(Fans) => fanPlace = fanBit
                      /\ fanBit = Cardinality(Fans) => fanPlace <= Len(Board)
    /\ Handed => /\ fanBit \in Fans /\ fanPlace = Sensors[fanBit]
                 /\ idx = PwmOf[fanBit]
    /\ init_pwm \subseteq {PwmOf[fan] : fan \in Fans \cap (0 .. fanBit - 1)}
    /\ spc = "write" => IF fanBit \in val THEN new.zone = 7 ELSE new.zone \in {0, 1}

\* Whoever has a PWM in hand together with the other is known to.
Overlaps == \A p \in Pwms : InTurn(p) /\ InHand(p) => p \in overlapped

(***************************************************************************)
(* What holds of a fan's bit and register, step by step.                   *)
(***************************************************************************)
\* A bit that is set says manual mode, a clear one does not hide it.
SetIsManual(fan) == ~InHand(PwmOf[fan]) /\ fan \in pwm_mode => hwConf[PwmOf[fan]].zone \in {4, 7}
ClearIsNot(fan) ==
    ~InHand(PwmOf[fan]) /\ PwmOf[fan] < confNext /\ fan \notin pwm_mode =>
        hwConf[PwmOf[fan]].zone # 7
PutBack(fan) ==
    ~InHand(PwmOf[fan]) /\ ~InTurn(PwmOf[fan]) /\ PwmOf[fan] \in commanded /\ fan \notin pwm_mode =>
        hwConf[PwmOf[fan]].zone \notin {4, 7}
\* GetConf has found the fan in manual mode, or has done with its bit.
TakenOver(fan) ==
    /\ cpc \in {"load", "store"} /\ confNext = PwmOf[fan] => hwConf[PwmOf[fan]].zone \in {4, 7}
    /\ cpc = "keep" /\ confNext = PwmOf[fan] /\ fan \notin pwm_mode =>
          /\ hwConf[PwmOf[fan]].zone # 7
          /\ PwmOf[fan] \in commanded => hwConf[PwmOf[fan]].zone \notin {4, 7}
Right(fan) == SetIsManual(fan) /\ ClearIsNot(fan) /\ PutBack(fan) /\ TakenOver(fan)
\* SetPwmMode has set the bit it is about as it was told to.
Told(fan) == spc \in {"value", "write"} /\ fanBit = fan => (fan \in pwm_mode <=> fan \in val)

ModesIInv ==
    /\ TypeOK /\ Zones /\ Turns /\ Walks /\ Overlaps
    /\ \A fan \in Fans : PwmOf[fan] \in Sound => Right(fan)
    /\ spc = "duty" /\ idx \in Sound => hwConf[idx].zone \in {4, 7}
    /\ \A fan \in Fans : PwmOf[fan] \in Pwms \ overlapped => Told(fan)

LEMMA FoundIs == \A c \in Found : c \in Confs /\ c.zone \in {1, 3, 4, 7}
<1>1. {1, 3, 4, 7} \subseteq 0 .. 7
  OBVIOUS
<1>2. \A c \in Found : c \in Confs
  BY <1>1, Zenon DEF Found, Confs
<1> QED BY <1>2 DEF Found

LEMMA ModesInit == Init => ModesIInv
<1> SUFFICES ASSUME Init PROVE ModesIInv
  OBVIOUS
<1>1. Unset \in Confs /\ Unset.zone = 0 /\ Unset.alt = FALSE
  BY DEF Unset, Confs
<1>2. hwConf \in [Pwms -> Confs]
  BY FoundIs DEF Init
<1>3. TypeOK
  <2>1. value \in [Pwms -> Confs] /\ conf \in Confs /\ new \in Confs
    BY <1>1 DEF Init
  <2>2. 0 \in Pwms /\ Cardinality(Fans) \in Nat /\ Len(Board) \in Nat
    BY BoardIs, FansFromZero, KeyedFinite DEF Pwms, Fans
  <2>3. hwDuty \in [Pwms -> Duties] /\ duty \in [Pwms -> Duties \cup {-2}]
    BY DEF Init
  <2>4. /\ confNext \in 0 .. NUM_PWM /\ fanBit \in 0 .. NumFan /\ fanPlace \in 0 .. Len(Board) + 1
        /\ idx \in Pwms /\ data \in Duties \cup {-2}
    BY <2>2 DEF Init, NumFan
  <2>5. obsoleted \in [Fans -> BOOLEAN] /\ reading \in [Fans -> {"raw", "encoded", "garbled"}]
    BY DEF Init
  <2> QED BY <1>2, <2>1, <2>3, <2>4, <2>5 DEF Init, TypeOK
<1>4. Zones
  BY <1>1, FoundIs DEF Init, Zones
<1>5. Turns /\ Walks /\ Overlaps
  BY BoardIs, KeyedFinite DEF Init, Turns, Walks, Handed, Overlaps, InTurn, InHand
<1>6. ASSUME NEW fan \in Fans, PwmOf[fan] \in Pwms PROVE Right(fan) /\ Told(fan)
  BY <1>6 DEF Init, Right, Told, SetIsManual, ClearIsNot, PutBack, TakenOver, Pwms
<1>7. spc = "idle"
  BY DEF Init
<1> QED BY <1>3, <1>4, <1>5, <1>6, <1>7 DEF ModesIInv, Sound

\* What every step below starts from.
LEMMA ModesFacts ==
    ASSUME SoundBoard, ModesIInv
    PROVE  /\ hwConf \in [Pwms -> Confs] /\ value \in [Pwms -> Confs]
           /\ pwm_mode \subseteq Fans /\ val \subseteq Fans /\ cMode \subseteq Fans /\ sMode \subseteq Fans
           /\ cFans \subseteq Fans
           /\ confNext \in 0 .. NUM_PWM /\ conf \in Confs /\ new \in Confs /\ idx \in Pwms
           /\ fanBit \in 0 .. Cardinality(Fans) + 1 /\ fanPlace \in 0 .. Len(Board) + 1
           /\ init_pwm \subseteq Pwms
           /\ commanded \subseteq Pwms /\ spoiled \subseteq Pwms /\ overlapped \subseteq Pwms
BY FansAre DEF ModesIInv, TypeOK

\* A store of a mode that was loaded before writes over the bits that it says.
LEMMA WrittenOverIs ==
    ASSUME NEW loaded, NEW fan \in Fans, PwmOf[fan] \in Pwms, PwmOf[fan] \notin WrittenOver(loaded)
    PROVE  fan \in loaded <=> fan \in pwm_mode
BY DEF WrittenOver

\* What SetPwmMode writes: manual mode, or one that runs by itself.
LEMMA Written ==
    ASSUME NEW c \in Confs, c.zone \in {0, 1, 4, 7}
    PROVE  /\ AutoConf(c) \in Confs /\ AutoConf(c).zone \in {0, 1}
           /\ Manual \in Confs /\ Manual.zone = 7
<1>1. Cruise \in Confs /\ Cruise.zone = 1 /\ Manual \in Confs /\ Manual.zone = 7
  BY DEF Cruise, Manual, Confs
<1> QED BY <1>1 DEF AutoConf

LEMMA ResetStep == ASSUME SoundBoard, ModesIInv, GetConfReset PROVE ModesIInv'
<1>1. /\ pwm_mode' = {} /\ commanded' = {} /\ cpc = "reset" /\ cpc' = "read"
      /\ overlapped' = overlapped \cup {p \in Pwms : InHand(p)}
      /\ UNCHANGED <<hwConf, value, confNext, conf, cFans, cMode, callVars, loopVars, spoiled, dutyVars,
                     sensorVars>>
  BY DEF GetConfReset, callVars
<1>2. TypeOK'
  BY <1>1 DEF ModesIInv, TypeOK, callVars, loopVars, dutyVars, sensorVars
<1>3. Zones' /\ Turns' /\ Walks' /\ Overlaps'
  BY <1>1 DEF ModesIInv, Zones, Turns, Walks, Handed, Overlaps, InTurn, InHand, callVars, loopVars
<1>4. ASSUME NEW fan \in Fans, PwmOf[fan] \in Pwms PROVE Right(fan)'
  <2>1. ~(PwmOf[fan] < confNext')
    BY <1>1, <1>4 DEF ModesIInv, Turns, Pwms
  <2> QED BY <1>1, <2>1 DEF Right, SetIsManual, ClearIsNot, PutBack, TakenOver
<1>5. ASSUME NEW fan \in Fans, PwmOf[fan] \in Pwms \ overlapped' PROVE Told(fan)'
  <2>1. ~InHand(PwmOf[fan])
    BY <1>1, <1>5
  <2> QED BY <1>1, <1>5, <2>1 DEF Told, InHand, ModesIInv, Walks, Handed, callVars, loopVars
<1>6. (spc = "duty" /\ idx \in Sound => hwConf[idx].zone \in {4, 7})'
  BY <1>1 DEF ModesIInv, Sound, callVars
<1>7. Sound' \subseteq Pwms \ overlapped'
  BY DEF Sound
<1> QED BY <1>2, <1>3, <1>4, <1>5, <1>6, <1>7 DEF ModesIInv

LEMMA ReadStep == ASSUME SoundBoard, ModesIInv, GetConfRead PROVE ModesIInv'
<1> DEFINE p == confNext
<1>1. /\ p \in Pwms /\ cpc = "read"
      /\ overlapped' = overlapped \cup {q \in {p} : InHand(q)}
      /\ UNCHANGED <<hwConf, pwm_mode, value, confNext, cMode, callVars, loopVars, commanded, dutyVars,
                     sensorVars>>
  BY DEF GetConfRead, callVars, chipVars
<1>2. PICK c \in Read(p) :
        /\ conf' = c
        /\ IF Modes(c).written THEN cpc' = "write" /\ UNCHANGED cFans
           ELSE SetBits(IF Modes(c).manual THEN FansOn(p) ELSE {})
        /\ spoiled' = IF c # hwConf[p] THEN spoiled \cup {p} ELSE spoiled
  BY DEF GetConfRead
<1>3. c \in Confs /\ c.zone \in {0, 1, 3, 4, 7}
  <2>1. c \in {hwConf[p], conf} \cup Found
    BY <1>2 DEF Read
  <2> QED BY <1>1, <2>1, FoundIs, ModesFacts DEF ModesIInv, Zones
<1>4. /\ c.zone = 3 => cpc' = "write" /\ cFans' = cFans
      /\ c.zone = 7 => /\ cFans' = FansOn(p)
                       /\ cpc' = IF FansOn(p) = {} THEN "keep" ELSE "load"
      /\ c.zone \notin {3, 7} => cFans' = {} /\ cpc' = "keep"
  <2>1. Modes(c).manual = (c.zone \in {3, 7}) /\ Modes(c).written = (c.zone = 3)
    BY DEF Modes
  <2>2. CASE c.zone = 3
    <3>1. cpc' = "write" /\ UNCHANGED cFans
      BY <1>2, <2>1, <2>2
    <3> QED BY <2>2, <3>1
  <2>3. CASE c.zone # 3
    <3>1. SetBits(IF c.zone = 7 THEN FansOn(p) ELSE {})
      BY <1>2, <2>1, <2>3
    <3> QED BY <2>3, <3>1 DEF SetBits
  <2> QED BY <2>2, <2>3
<1>5. cpc' \in {"write", "load", "keep"} /\ cFans' \subseteq Fans
  BY <1>3, <1>4, ModesFacts DEF FansOn
<1>6. p \notin overlapped' => p \notin overlapped /\ ~InHand(p)
  BY <1>1
<1>7. p \notin spoiled' => p \notin spoiled /\ c = hwConf[p]
  BY <1>2
<1>8. overlapped' \subseteq Pwms /\ spoiled' \subseteq Pwms
  BY <1>1, <1>2, ModesFacts
<1>9. TypeOK'
  BY <1>1, <1>2, <1>3, <1>5, <1>8 DEF ModesIInv, TypeOK, callVars, loopVars, dutyVars, sensorVars
<1>10. Zones' /\ Turns'
  BY <1>1, <1>2, <1>3, <1>4, <1>5 DEF ModesIInv, Zones, Turns
<1>11. Walks' /\ Overlaps'
  BY <1>1, <1>5 DEF ModesIInv, Walks, Handed, Overlaps, InTurn, InHand, callVars, loopVars
<1>12. Sound' \subseteq Sound /\ \A q : InHand(q)' <=> InHand(q)
  BY <1>1, <1>2 DEF Sound, InHand, callVars
<1>13. ASSUME NEW fan \in Fans, PwmOf[fan] \in Sound' PROVE Right(fan)'
  <2>0. PwmOf[fan] \in Sound /\ Right(fan) /\ PwmOf[fan] \notin overlapped' /\ PwmOf[fan] \notin spoiled'
    BY <1>12, <1>13 DEF ModesIInv, Sound
  <2>1. SetIsManual(fan)' /\ ClearIsNot(fan)'
    BY <1>1, <1>12, <2>0 DEF Right, SetIsManual, ClearIsNot
  <2>2. PutBack(fan)'
    <3>1. InTurn(PwmOf[fan])' \/ ~InTurn(PwmOf[fan])
      BY <1>1 DEF InTurn
    <3> QED BY <1>1, <1>12, <2>0, <3>1 DEF Right, PutBack
  <2>3. TakenOver(fan)'
    <3>1. CASE PwmOf[fan] # p
      BY <1>1, <3>1 DEF TakenOver
    <3>2. CASE PwmOf[fan] = p
      <4>1. c = hwConf[p] /\ ~InHand(p) /\ ~InTurn(p)
        BY <1>1, <1>6, <1>7, <2>0, <3>2 DEF InTurn
      <4>2. fan \in FansOn(p)
        BY <3>2 DEF FansOn
      <4> QED BY <1>1, <1>3, <1>4, <2>0, <3>2, <4>1, <4>2 DEF TakenOver, Right, PutBack
    <3> QED BY <3>1, <3>2
  <2> QED BY <2>1, <2>2, <2>3 DEF Right
<1>14. (spc = "duty" /\ idx \in Sound => hwConf[idx].zone \in {4, 7})'
  BY <1>1, <1>12 DEF ModesIInv, callVars
<1>15. ASSUME NEW fan \in Fans, PwmOf[fan] \in Pwms \ overlapped' PROVE Told(fan)'
  BY <1>1, <1>15 DEF ModesIInv, Told, callVars, loopVars
<1> QED BY <1>9, <1>10, <1>11, <1>13, <1>14, <1>15 DEF ModesIInv

LEMMA WriteStep == ASSUME SoundBoard, ModesIInv, GetConfWrite PROVE ModesIInv'
<1> DEFINE p == confNext
<1>1. /\ cpc = "write" /\ conf' = [conf EXCEPT !.zone = 4]
      /\ \/ hwConf' = [hwConf EXCEPT ![p] = conf'] /\ spoiled' = spoiled \ {p}
         \/ hwConf' = hwConf /\ spoiled' = spoiled \cup {p}
      /\ cFans' = FansOn(p) /\ cpc' = IF FansOn(p) = {} THEN "keep" ELSE "load"
      /\ UNCHANGED <<pwm_mode, value, confNext, cMode, callVars, loopVars, commanded, overlapped,
                     dutyVars, sensorVars>>
  BY DEF GetConfWrite, SetBits, callVars
<1>2. p \in Pwms /\ conf' \in Confs /\ conf'.zone = 4 /\ cpc' \in {"load", "keep"} /\ cFans' \subseteq Fans
  BY <1>1, ModesFacts DEF ModesIInv, Turns, FansOn, Confs
<1>3. hwConf' \in [Pwms -> Confs] /\ spoiled' \subseteq Pwms
  BY <1>1, <1>2, ModesFacts
<1>4. TypeOK'
  BY <1>1, <1>2, <1>3 DEF ModesIInv, TypeOK, callVars, loopVars, dutyVars, sensorVars
\* The register of this turn holds zone 4 afterwards, or is spoiled.
<1>5. /\ p \in Sound' => hwConf'[p].zone = 4
      /\ \A q \in Pwms \ {p} : hwConf'[q] = hwConf[q] /\ (q \in Sound' => q \in Sound)
      /\ hwConf'[p].zone = 4 \/ hwConf' = hwConf
  BY <1>1, <1>2, ModesFacts DEF Sound
<1>6. Zones' /\ Turns'
  BY <1>1, <1>2, <1>5 DEF ModesIInv, Zones, Turns
<1>7. Walks' /\ Overlaps'
  BY <1>1, <1>2 DEF ModesIInv, Walks, Handed, Overlaps, InTurn, InHand, callVars, loopVars
<1>8. \A q : (InHand(q)' <=> InHand(q)) /\ (InTurn(q)' <=> InTurn(q))
  BY <1>1, <1>2 DEF InHand, InTurn, callVars
<1>9. ASSUME NEW fan \in Fans, PwmOf[fan] \in Sound' PROVE Right(fan)'
  <2>1. CASE PwmOf[fan] # p
    <3>1. Right(fan) /\ hwConf'[PwmOf[fan]] = hwConf[PwmOf[fan]]
      BY <1>5, <1>9, <2>1 DEF ModesIInv, Sound
    <3> QED BY <1>1, <1>8, <2>1, <3>1 DEF Right, SetIsManual, ClearIsNot, PutBack, TakenOver
  <2>2. CASE PwmOf[fan] = p
    <3>1. hwConf'[PwmOf[fan]].zone = 4 /\ InTurn(PwmOf[fan])'
      BY <1>1, <1>5, <1>8, <1>9, <2>2 DEF InTurn
    <3>2. fan \in FansOn(p)
      BY <2>2 DEF FansOn
    <3> QED BY <1>1, <3>1, <3>2 DEF Right, SetIsManual, ClearIsNot, PutBack, TakenOver
  <2> QED BY <2>1, <2>2
<1>10. (spc = "duty" /\ idx \in Sound => hwConf[idx].zone \in {4, 7})'
  BY <1>1, <1>5, ModesFacts DEF ModesIInv, Sound, callVars
<1>11. ASSUME NEW fan \in Fans, PwmOf[fan] \in Pwms \ overlapped' PROVE Told(fan)'
  BY <1>1, <1>11 DEF ModesIInv, Told, callVars, loopVars
<1> QED BY <1>4, <1>6, <1>7, <1>9, <1>10, <1>11 DEF ModesIInv

LEMMA LoadStep == ASSUME SoundBoard, ModesIInv, GetConfLoad PROVE ModesIInv'
<1>1. /\ cpc = "load" /\ cMode' = pwm_mode /\ cpc' = "store"
      /\ UNCHANGED <<chipVars, confNext, conf, cFans, callVars, loopVars, history, dutyVars, sensorVars>>
  BY DEF GetConfLoad, callVars
<1>2. TypeOK' /\ Zones' /\ Turns'
  BY <1>1 DEF ModesIInv, TypeOK, Zones, Turns, chipVars, callVars, loopVars, history, dutyVars,
              sensorVars
<1>3. Walks' /\ Overlaps'
  BY <1>1 DEF ModesIInv, Walks, Handed, Overlaps, InTurn, InHand, callVars, loopVars, history
<1>4. Sound' = Sound /\ \A q : (InHand(q)' <=> InHand(q)) /\ (InTurn(q)' <=> InTurn(q))
  BY <1>1 DEF Sound, InHand, InTurn, callVars, history
<1>5. ASSUME NEW fan \in Fans, PwmOf[fan] \in Sound' PROVE Right(fan)'
  BY <1>1, <1>4, <1>5 DEF ModesIInv, Right, SetIsManual, ClearIsNot, PutBack, TakenOver, chipVars,
                          history
<1>6. (spc = "duty" /\ idx \in Sound => hwConf[idx].zone \in {4, 7})'
  BY <1>1, <1>4 DEF ModesIInv, callVars, chipVars
<1>7. ASSUME NEW fan \in Fans, PwmOf[fan] \in Pwms \ overlapped' PROVE Told(fan)'
  BY <1>1, <1>7 DEF ModesIInv, Told, callVars, loopVars, history, chipVars
<1> QED BY <1>2, <1>3, <1>5, <1>6, <1>7 DEF ModesIInv

LEMMA StoreStep == ASSUME SoundBoard, ModesIInv, GetConfStore PROVE ModesIInv'
<1> DEFINE p == confNext
<1>1. /\ cpc = "store" /\ overlapped' = overlapped \cup WrittenOver(cMode) /\ cMode' = {}
      /\ UNCHANGED <<hwConf, value, confNext, conf, callVars, loopVars, commanded, spoiled, dutyVars,
                     sensorVars>>
  BY DEF GetConfStore, callVars
<1>2. PICK mine \in cFans : pwm_mode' = cMode \cup {mine} /\ SetBits(cFans \ {mine})
  BY DEF GetConfStore
<1>3. cFans = FansOn(p) /\ p \in Pwms
  BY <1>1 DEF ModesIInv, Turns
<1>4. mine \in Fans /\ PwmOf[mine] = p /\ \A fan \in Fans : PwmOf[fan] = p => fan = mine
  BY <1>2, <1>3, FansAre DEF FansOn
<1>5. cFans' = {} /\ cpc' = "keep"
  <2>1. cFans \ {mine} = {}
    BY <1>3, <1>4 DEF FansOn
  <2> QED BY <1>2, <2>1 DEF SetBits
<1>6. TypeOK'
  <2>1. pwm_mode' \subseteq Bits /\ overlapped' \subseteq Pwms
    BY <1>1, <1>2, <1>4, FansAre, ModesFacts DEF WrittenOver
  <2> QED BY <1>1, <1>5, <2>1 DEF ModesIInv, TypeOK, callVars, loopVars, dutyVars, sensorVars
<1>7. Zones' /\ Turns'
  BY <1>1, <1>3, <1>5 DEF ModesIInv, Zones, Turns
<1>8. Walks' /\ Overlaps'
  BY <1>1, <1>5 DEF ModesIInv, Walks, Handed, Overlaps, InTurn, InHand, callVars, loopVars
<1>9. Sound' \subseteq Sound /\ \A q : (InHand(q)' <=> InHand(q)) /\ (InTurn(q)' <=> InTurn(q))
  BY <1>1, <1>5 DEF Sound, InHand, InTurn, callVars
<1>10. ASSUME NEW fan \in Fans, PwmOf[fan] \in Pwms \ overlapped', PwmOf[fan] # p
       PROVE  fan \in pwm_mode' <=> fan \in pwm_mode
  <2>1. fan \in cMode <=> fan \in pwm_mode
    BY <1>1, <1>10, WrittenOverIs
  <2> QED BY <1>2, <1>4, <1>10, <2>1
<1>11. ASSUME NEW fan \in Fans, PwmOf[fan] \in Sound' PROVE Right(fan)'
  <2>0. Right(fan) /\ PwmOf[fan] \in Pwms \ overlapped'
    BY <1>9, <1>11 DEF ModesIInv, Sound
  <2>1. CASE PwmOf[fan] # p
    BY <1>1, <1>5, <1>9, <1>10, <2>0, <2>1 DEF Right, SetIsManual, ClearIsNot, PutBack, TakenOver
  <2>2. CASE PwmOf[fan] = p
    <3>1. fan \in pwm_mode' /\ hwConf[p].zone \in {4, 7}
      BY <1>1, <1>2, <1>4, <2>0, <2>2 DEF Right, TakenOver
    <3> QED BY <1>1, <1>5, <2>2, <3>1 DEF Right, SetIsManual, ClearIsNot, PutBack, TakenOver
  <2> QED BY <2>1, <2>2
<1>12. (spc = "duty" /\ idx \in Sound => hwConf[idx].zone \in {4, 7})'
  BY <1>1, <1>9 DEF ModesIInv, callVars
<1>13. ASSUME NEW fan \in Fans, PwmOf[fan] \in Pwms \ overlapped' PROVE Told(fan)'
  <2>0. Told(fan)
    BY <1>1, <1>13 DEF ModesIInv
  <2>1. CASE PwmOf[fan] # p
    BY <1>1, <1>10, <1>13, <2>0, <2>1 DEF Told, callVars, loopVars
\* The fan of this turn is not in SetPwmMode's hand, or that is known.
  <2>2. CASE PwmOf[fan] = p
    <3>1. InTurn(p) /\ p \notin overlapped
      BY <1>1, <1>13, <2>2 DEF InTurn
    <3>2. ~InHand(p)
      BY <1>3, <3>1 DEF ModesIInv, Overlaps
    <3> QED BY <1>1, <2>2, <3>2 DEF Told, InHand, ModesIInv, Walks, Handed, callVars, loopVars
  <2> QED BY <2>1, <2>2
<1> QED BY <1>6, <1>7, <1>8, <1>11, <1>12, <1>13 DEF ModesIInv

LEMMA KeepStep == ASSUME SoundBoard, ModesIInv, GetConfKeep PROVE ModesIInv'
<1> DEFINE p == confNext
<1>1. /\ cpc = "keep" /\ value' = [value EXCEPT ![p] = conf] /\ confNext' = p + 1 /\ cpc' = "read"
      /\ conf' \in {conf, Unset}
      /\ UNCHANGED <<hwConf, pwm_mode, cFans, cMode, callVars, loopVars, history, dutyVars, sensorVars>>
  BY DEF GetConfKeep, callVars
<1>2. p \in Pwms /\ p \in Nat /\ conf.zone \in {0, 1, 4, 7}
  BY <1>1, ModesFacts DEF ModesIInv, Turns, Zones
<1>3. Unset \in Confs /\ Unset.zone = 0
  BY DEF Unset, Confs
<1>4. value' \in [Pwms -> Confs] /\ confNext' \in 0 .. NUM_PWM /\ conf' \in Confs
  BY <1>1, <1>2, <1>3, ModesFacts DEF Pwms
<1>5. TypeOK'
  BY <1>1, <1>4 DEF ModesIInv, TypeOK, callVars, loopVars, history, dutyVars, sensorVars
<1>6. Zones' /\ Turns'
  BY <1>1, <1>2, <1>3, ModesFacts DEF ModesIInv, Zones, Turns
<1>7. Walks' /\ Overlaps'
  BY <1>1 DEF ModesIInv, Walks, Handed, Overlaps, InTurn, InHand, callVars, loopVars, history
<1>8. Sound' = Sound /\ \A q : InHand(q)' <=> InHand(q)
  BY <1>1 DEF Sound, InHand, callVars, history
<1>9. ASSUME NEW fan \in Fans, PwmOf[fan] \in Sound' PROVE Right(fan)'
  <2>0. Right(fan) /\ PwmOf[fan] \in Pwms
    BY <1>8, <1>9 DEF ModesIInv, Sound
  <2>1. CASE PwmOf[fan] # p
    <3>1. PwmOf[fan] < confNext' => PwmOf[fan] < confNext
      BY <1>1, <1>2, <2>0, <2>1 DEF Pwms
    <3>2. ~InTurn(PwmOf[fan])
      BY <2>1 DEF InTurn
    <3> QED BY <1>1, <1>8, <2>0, <3>1, <3>2
            DEF Right, SetIsManual, ClearIsNot, PutBack, TakenOver, history
  <2>2. CASE PwmOf[fan] = p
    BY <1>1, <1>8, <2>0, <2>2 DEF Right, SetIsManual, ClearIsNot, PutBack, TakenOver, history
  <2> QED BY <2>1, <2>2
<1>10. (spc = "duty" /\ idx \in Sound => hwConf[idx].zone \in {4, 7})'
  BY <1>1, <1>8 DEF ModesIInv, callVars
<1>11. ASSUME NEW fan \in Fans, PwmOf[fan] \in Pwms \ overlapped' PROVE Told(fan)'
  BY <1>1, <1>11 DEF ModesIInv, Told, callVars, loopVars, history
<1> QED BY <1>5, <1>6, <1>7, <1>9, <1>10, <1>11 DEF ModesIInv

\* The invariant does not look at what a step of SetPwmMode leaves alone.
LEMMA CallStep ==
    ASSUME SoundBoard, ModesIInv, NEW v \in SUBSET Bits, SetPwmMode(v)
    PROVE  ModesIInv'
<1>1. /\ spc = "idle" /\ spc' = "bit" /\ val' = v
      /\ UNCHANGED <<chipVars, confVars, loopVars, idx, new, sMode, data, history, dutyVars, sensorVars>>
  BY DEF SetPwmMode
<1>2. TypeOK' /\ Zones' /\ Turns'
  BY <1>1 DEF ModesIInv, TypeOK, Zones, Turns, chipVars, confVars, loopVars, history, dutyVars,
              sensorVars
<1>3. Walks' /\ Overlaps'
  BY <1>1, FansAre DEF ModesIInv, Walks, Handed, Overlaps, InTurn, InHand, confVars, loopVars, history
<1>4. Sound' = Sound /\ \A q : (InHand(q)' <=> InHand(q)) /\ (InTurn(q)' <=> InTurn(q))
  BY <1>1 DEF Sound, InHand, InTurn, confVars, history
<1>5. ASSUME NEW fan \in Fans, PwmOf[fan] \in Sound' PROVE Right(fan)'
  BY <1>1, <1>4, <1>5 DEF ModesIInv, Right, SetIsManual, ClearIsNot, PutBack, TakenOver, chipVars,
                          confVars, history
<1>6. ASSUME NEW fan \in Fans PROVE Told(fan)'
  BY <1>1 DEF Told
<1> QED BY <1>1, <1>2, <1>3, <1>5, <1>6 DEF ModesIInv

\* Where the walk is at a bit: at the sensor of its fan, or behind the last.
LEMMA WalkAt ==
    ASSUME SoundBoard, ModesIInv, AtBit, Differs
    PROVE  /\ fanBit \in Fans /\ PwmsAt(Sensors[fanPlace]) = {PwmOf[fanBit]}
           /\ Sensors[fanPlace] = Sensors[fanBit] /\ Sensors[fanBit] \in 0 .. Len(Board) - 1
           /\ fanBit < Cardinality(Fans) - 1 => Sensors[fanBit] = fanBit
<1>1. fanBit \in Fans
  BY ModesFacts, FansAre DEF Differs
<1>2. fanPlace = fanBit
  BY <1>1, FansAre DEF ModesIInv, Walks, AtBit
<1>3. /\ Sensors[fanBit] \in 0 .. Len(Board) - 1
      /\ PwmsAt(Sensors[fanBit]) = {PwmOf[fanBit]}
      /\ fanBit <= Cardinality(Fans) - 2 => Sensors[fanBit] = fanBit
  BY <1>1, SensorOfFan
<1>4. fanBit < Cardinality(Fans) - 1 => fanBit <= Cardinality(Fans) - 2
  BY <1>1, FansAre
<1> QED BY <1>1, <1>2, <1>3, <1>4

LEMMA SkipStep == ASSUME SoundBoard, ModesIInv, SkipBit PROVE ModesIInv'
<1>1. /\ spc = "bit" /\ fanBit' = fanBit + 1 /\ fanBit < NumFan
      /\ UNCHANGED <<chipVars, confVars, spc, val, init_pwm, idx, new, sMode, data, history, dutyVars,
                     sensorVars>>
  BY DEF SkipBit, AtBit
<1>2. /\ fanBit' < Cardinality(Fans) => fanPlace' = fanBit'
      /\ fanBit' = Cardinality(Fans) => fanPlace' <= Len(Board)
      /\ fanPlace' \in 0 .. Len(Board) + 1
  <2>0. /\ Cardinality(Fans) \in Nat /\ Len(Board) \in Nat /\ Cardinality(Fans) <= Len(Board)
        /\ fanBit \in Nat /\ fanBit <= Cardinality(Fans) /\ fanPlace \in Nat
    BY <1>1, FansAre, ModesFacts
  <2>1. CASE fanPlace' = fanPlace + 1
    <3>1. /\ fanBit < Cardinality(Fans) => fanPlace = fanBit
          /\ fanBit = Cardinality(Fans) => fanPlace <= Len(Board)
      BY <1>1 DEF ModesIInv, Walks
    <3> QED BY <1>1, <2>0, <2>1, <3>1
  <2>2. CASE Differs /\ fanPlace' = Sensors[fanPlace] + 1
    <3>1. /\ fanBit \in Fans /\ Sensors[fanPlace] = Sensors[fanBit]
          /\ Sensors[fanBit] \in 0 .. Len(Board) - 1
          /\ fanBit < Cardinality(Fans) - 1 => Sensors[fanBit] = fanBit
      BY <1>1, <2>2, WalkAt DEF AtBit
    <3>2. fanBit < Cardinality(Fans)
      BY <2>0, <3>1, FansAre
    <3> QED BY <1>1, <2>0, <2>2, <3>1, <3>2
  <2> QED BY <2>1, <2>2 DEF SkipBit
<1>3. TypeOK'
  BY <1>1, <1>2, FansAre, ModesFacts DEF ModesIInv, TypeOK, chipVars, confVars, history, dutyVars,
                                         sensorVars
<1>4. Zones' /\ Turns'
  BY <1>1 DEF ModesIInv, Zones, Turns, chipVars, confVars
<1>5. Walks'
  <2>1. Fans \cap (0 .. fanBit - 1) \subseteq Fans \cap (0 .. fanBit' - 1)
    BY <1>1, ModesFacts
  <2> QED BY <1>1, <1>2, <2>1 DEF ModesIInv, Walks, Handed
<1>6. Sound' = Sound /\ \A q : (InHand(q)' <=> InHand(q)) /\ (InTurn(q)' <=> InTurn(q))
  BY <1>1 DEF Sound, InHand, InTurn, confVars, history
<1>7. Overlaps'
  BY <1>1, <1>6 DEF ModesIInv, Overlaps, history
<1>8. ASSUME NEW fan \in Fans, PwmOf[fan] \in Sound' PROVE Right(fan)'
  BY <1>1, <1>6, <1>8 DEF ModesIInv, Right, SetIsManual, ClearIsNot, PutBack, TakenOver, chipVars,
                          confVars, history
<1>9. ASSUME NEW fan \in Fans PROVE Told(fan)'
  BY <1>1 DEF Told
<1> QED BY <1>1, <1>3, <1>4, <1>5, <1>7, <1>8, <1>9 DEF ModesIInv

LEMMA FindStep == ASSUME SoundBoard, ModesIInv, FindFan PROVE ModesIInv'
<1>1. /\ AtBit /\ Differs /\ spc = "bit" /\ spc' = "load" /\ fanPlace' = Sensors[fanPlace]
      /\ UNCHANGED <<chipVars, confVars, val, fanBit, init_pwm, new, sMode, data, commanded, spoiled,
                     dutyVars, sensorVars>>
  BY DEF FindFan, AtBit
<1>2. /\ fanBit \in Fans /\ PwmsAt(Sensors[fanPlace]) = {PwmOf[fanBit]}
      /\ fanPlace' = Sensors[fanBit] /\ fanPlace' \in 0 .. Len(Board) - 1
  BY <1>1, WalkAt
<1>3. /\ idx' = PwmOf[fanBit] /\ idx' >= 0
      /\ overlapped' = IF InTurn(idx') THEN overlapped \cup {idx'} ELSE overlapped \ {idx'}
  BY <1>2 DEF FindFan
<1>4. idx' \in Pwms
  BY <1>2, <1>3, FansAre DEF Pwms, NoPwm
<1>5. TypeOK'
  <2>1. overlapped' \subseteq Pwms
    BY <1>3, <1>4, ModesFacts
  <2>2. fanPlace' \in 0 .. Len(Board) + 1
    BY <1>2, FansAre
  <2> QED BY <1>1, <1>4, <2>1, <2>2
          DEF ModesIInv, TypeOK, chipVars, confVars, dutyVars, sensorVars
<1>6. Zones' /\ Turns'
  BY <1>1 DEF ModesIInv, Zones, Turns, chipVars, confVars
<1>7. Walks'
  BY <1>1, <1>2, <1>3 DEF ModesIInv, Walks, Handed
<1>8. /\ \A q : ~InHand(q) /\ (InHand(q)' <=> q = idx') /\ (InTurn(q)' <=> InTurn(q))
      /\ \A q \in Pwms \ {idx'} : q \in overlapped' <=> q \in overlapped
      /\ Sound' \ {idx'} \subseteq Sound
  BY <1>1, <1>3 DEF InHand, InTurn, confVars, Sound
<1>9. Overlaps'
  BY <1>3, <1>8 DEF Overlaps
<1>10. ASSUME NEW fan \in Fans, PwmOf[fan] \in Sound' PROVE Right(fan)'
  <2>1. CASE PwmOf[fan] # idx'
    <3>1. Right(fan)
      BY <1>8, <1>10, <2>1 DEF ModesIInv
    <3> QED BY <1>1, <1>8, <2>1, <3>1
            DEF Right, SetIsManual, ClearIsNot, PutBack, TakenOver, chipVars, confVars
  <2>2. CASE PwmOf[fan] = idx'
    <3>1. InHand(PwmOf[fan])' /\ ~InTurn(PwmOf[fan])
      BY <1>3, <1>8, <1>10, <2>2 DEF Sound
    <3> QED BY <1>1, <3>1
            DEF Right, SetIsManual, ClearIsNot, PutBack, TakenOver, InTurn, chipVars, confVars
  <2> QED BY <2>1, <2>2
<1>11. ASSUME NEW fan \in Fans PROVE Told(fan)'
  BY <1>1 DEF Told
<1> QED BY <1>1, <1>5, <1>6, <1>7, <1>9, <1>10, <1>11 DEF ModesIInv

LEMMA LoadModeStep == ASSUME SoundBoard, ModesIInv, LoadMode PROVE ModesIInv'
<1>1. /\ spc = "load" /\ sMode' = pwm_mode /\ spc' = "store"
      /\ UNCHANGED <<chipVars, confVars, val, loopVars, idx, new, data, history, dutyVars, sensorVars>>
  BY DEF LoadMode
<1>2. TypeOK' /\ Zones' /\ Turns'
  BY <1>1 DEF ModesIInv, TypeOK, Zones, Turns, chipVars, confVars, loopVars, history, dutyVars,
              sensorVars
<1>3. Walks'
  BY <1>1 DEF ModesIInv, Walks, Handed, loopVars
<1>4. Sound' = Sound /\ \A q : (InHand(q)' <=> InHand(q)) /\ (InTurn(q)' <=> InTurn(q))
  BY <1>1 DEF Sound, InHand, InTurn, confVars, history
<1>5. Overlaps'
  BY <1>1, <1>4 DEF ModesIInv, Overlaps, history
<1>6. ASSUME NEW fan \in Fans, PwmOf[fan] \in Sound' PROVE Right(fan)'
  BY <1>1, <1>4, <1>6 DEF ModesIInv, Right, SetIsManual, ClearIsNot, PutBack, TakenOver, chipVars,
                          confVars, history
<1>7. ASSUME NEW fan \in Fans PROVE Told(fan)'
  BY <1>1 DEF Told
<1> QED BY <1>1, <1>2, <1>3, <1>5, <1>6, <1>7 DEF ModesIInv

LEMMA StoreModeStep == ASSUME SoundBoard, ModesIInv, StoreMode PROVE ModesIInv'
<1>1. /\ spc = "store" /\ sMode' = {} /\ overlapped' = overlapped \cup WrittenOver(sMode)
      /\ pwm_mode' = IF fanBit \in val THEN sMode \cup {fanBit} ELSE sMode \ {fanBit}
      /\ UNCHANGED <<hwConf, value, confVars, val, init_pwm, idx, new, data, commanded, spoiled,
                     dutyVars, sensorVars>>
  BY DEF StoreMode
<1>2. fanBit \in Fans /\ idx = PwmOf[fanBit] /\ idx \in Pwms /\ fanPlace = Sensors[fanBit]
  BY <1>1, ModesFacts DEF ModesIInv, Walks, Handed
\* No fan before this one is on the same PWM.
<1>3. idx \notin init_pwm
  <2>1. \A fan \in Fans \cap (0 .. fanBit - 1) : PwmOf[fan] # idx
    BY <1>2, FansAre
  <2> QED BY <2>1 DEF ModesIInv, Walks
<1>4. spc' = "value" /\ UNCHANGED <<fanBit, fanPlace>>
  BY <1>3 DEF StoreMode
<1>5. TypeOK'
  <2>1. pwm_mode' \subseteq Bits /\ overlapped' \subseteq Pwms
    BY <1>1, <1>2, FansAre, ModesFacts DEF WrittenOver
  <2> QED BY <1>1, <1>4, <2>1 DEF ModesIInv, TypeOK, confVars, dutyVars, sensorVars
<1>6. Zones' /\ Turns' /\ Walks'
  BY <1>1, <1>4 DEF ModesIInv, Zones, Turns, Walks, Handed, confVars
<1>7. /\ \A q : (InHand(q)' <=> InHand(q)) /\ (InTurn(q)' <=> InTurn(q))
      /\ Sound' \subseteq Sound
  BY <1>1, <1>4 DEF InHand, InTurn, confVars, Sound
<1>8. Overlaps'
  BY <1>1, <1>7 DEF ModesIInv, Overlaps
<1>9. ASSUME NEW fan \in Fans, PwmOf[fan] \in Pwms \ overlapped', fan # fanBit
      PROVE  fan \in pwm_mode' <=> fan \in pwm_mode
  <2>1. fan \in sMode <=> fan \in pwm_mode
    BY <1>1, <1>9, WrittenOverIs
  <2> QED BY <1>1, <1>9, <2>1
<1>10. ASSUME NEW fan \in Fans, PwmOf[fan] \in Sound' PROVE Right(fan)'
  <2>0. Right(fan) /\ PwmOf[fan] \in Pwms \ overlapped'
    BY <1>7, <1>10 DEF ModesIInv, Sound
  <2>1. CASE fan # fanBit
    BY <1>1, <1>7, <1>9, <2>0, <2>1
       DEF Right, SetIsManual, ClearIsNot, PutBack, TakenOver, confVars
\* The fan of this bit is in hand, and not in GetConf's turn.
  <2>2. CASE fan = fanBit
    <3>1. InHand(PwmOf[fan]) /\ ~InTurn(PwmOf[fan])
      BY <1>1, <1>2, <2>0, <2>2 DEF InHand, ModesIInv, Overlaps
    <3> QED BY <1>7, <3>1 DEF Right, SetIsManual, ClearIsNot, PutBack, TakenOver, InTurn
  <2> QED BY <2>1, <2>2
<1>11. ASSUME NEW fan \in Fans, PwmOf[fan] \in Pwms \ overlapped' PROVE Told(fan)'
  BY <1>1, <1>4 DEF Told
<1> QED BY <1>4, <1>5, <1>6, <1>8, <1>10, <1>11 DEF ModesIInv

LEMMA ReadValueStep == ASSUME SoundBoard, ModesIInv, ReadValue PROVE ModesIInv'
<1>1. /\ spc = "value" /\ spc' = "write"
      /\ new' = IF fanBit \in val THEN Manual ELSE AutoConf(value[idx])
      /\ UNCHANGED <<chipVars, confVars, val, loopVars, idx, sMode, data, history, dutyVars, sensorVars>>
  BY DEF ReadValue
<1>2. new' \in Confs /\ IF fanBit \in val THEN new'.zone = 7 ELSE new'.zone \in {0, 1}
  <2>1. value[idx] \in Confs /\ value[idx].zone \in {0, 1, 4, 7}
    BY ModesFacts DEF ModesIInv, Zones
  <2>2. /\ AutoConf(value[idx]) \in Confs /\ AutoConf(value[idx]).zone \in {0, 1}
        /\ Manual \in Confs /\ Manual.zone = 7
    BY <2>1, Written
  <2> QED BY <1>1, <2>2
<1>3. TypeOK' /\ Zones' /\ Turns'
  BY <1>1, <1>2 DEF ModesIInv, TypeOK, Zones, Turns, chipVars, confVars, loopVars, history, dutyVars,
                    sensorVars
<1>4. Walks'
  BY <1>1, <1>2 DEF ModesIInv, Walks, Handed, loopVars
<1>5. Sound' = Sound /\ \A q : (InHand(q)' <=> InHand(q)) /\ (InTurn(q)' <=> InTurn(q))
  BY <1>1 DEF Sound, InHand, InTurn, confVars, history
<1>6. Overlaps'
  BY <1>1, <1>5 DEF ModesIInv, Overlaps, history
<1>7. ASSUME NEW fan \in Fans, PwmOf[fan] \in Sound' PROVE Right(fan)'
  BY <1>1, <1>5, <1>7 DEF ModesIInv, Right, SetIsManual, ClearIsNot, PutBack, TakenOver, chipVars,
                          confVars, history
<1>8. ASSUME NEW fan \in Fans, PwmOf[fan] \in Pwms \ overlapped' PROVE Told(fan)'
  BY <1>1, <1>8 DEF ModesIInv, Told, chipVars, loopVars, history
<1> QED BY <1>1, <1>3, <1>4, <1>6, <1>7, <1>8 DEF ModesIInv

LEMMA WriteConfStep == ASSUME SoundBoard, ModesIInv, WriteConf PROVE ModesIInv'
<1>1. /\ spc = "write" /\ spc' = "bit" /\ fanBit' = fanBit + 1 /\ fanPlace' = fanPlace + 1
      /\ \/ hwConf' = [hwConf EXCEPT ![idx] = new] /\ spoiled' = spoiled \ {idx}
         \/ hwConf' = hwConf /\ spoiled' = spoiled \cup {idx}
      /\ init_pwm' = init_pwm \cup {idx} /\ commanded' = commanded \cup {idx}
      /\ idx' = 0 /\ new' = Unset
      /\ UNCHANGED <<pwm_mode, value, confVars, val, sMode, data, overlapped, dutyVars, sensorVars>>
  BY DEF WriteConf
<1>2. /\ fanBit \in Fans /\ idx = PwmOf[fanBit] /\ idx \in Pwms /\ fanPlace = Sensors[fanBit]
      /\ IF fanBit \in val THEN new.zone = 7 ELSE new.zone \in {0, 1}
  BY <1>1, ModesFacts DEF ModesIInv, Walks, Handed
<1>3. /\ fanBit' < Cardinality(Fans) => fanPlace' = fanBit'
      /\ fanBit' = Cardinality(Fans) => fanPlace' <= Len(Board)
      /\ fanPlace' \in 0 .. Len(Board) + 1 /\ fanBit' \in 0 .. NumFan
  <2>1. /\ Sensors[fanBit] \in 0 .. Len(Board) - 1
        /\ fanBit <= Cardinality(Fans) - 2 => Sensors[fanBit] = fanBit
    BY <1>2, SensorOfFan
  <2>2. /\ Cardinality(Fans) \in Nat /\ Len(Board) \in Nat /\ NumFan = Cardinality(Fans) + 1
        /\ fanBit \in Nat /\ fanBit < Cardinality(Fans)
    BY <1>2, FansAre
  <2>3. fanBit' = fanBit + 1 /\ fanPlace' = Sensors[fanBit] + 1
    BY <1>1, <1>2
  <2>4. fanBit' < Cardinality(Fans) => fanPlace' = fanBit'
    <3>1. ASSUME fanBit' < Cardinality(Fans) PROVE fanBit <= Cardinality(Fans) - 2
      BY <2>2, <2>3, <3>1
    <3> QED BY <2>1, <2>3, <3>1
  <2>5. fanPlace' <= Len(Board) /\ fanPlace' \in 0 .. Len(Board) + 1 /\ fanBit' \in 0 .. NumFan
    BY <2>1, <2>2, <2>3
  <2> QED BY <2>4, <2>5
<1>4. hwConf' \in [Pwms -> Confs] /\ spoiled' \subseteq Pwms /\ commanded' \subseteq Pwms
      /\ init_pwm' \subseteq Pwms
  BY <1>1, <1>2, ModesFacts
<1>5. TypeOK'
  <2>1. 0 \in Pwms /\ Unset \in Confs
    BY DEF Pwms, Unset, Confs
  <2> QED BY <1>1, <1>3, <1>4, <2>1 DEF ModesIInv, TypeOK, confVars, dutyVars, sensorVars
\* The register of this fan's PWM holds what was to be written, or is spoiled.
<1>6. /\ idx \in Sound' => hwConf'[idx] = new
      /\ \A q \in Pwms \ {idx} : hwConf'[q] = hwConf[q] /\ (q \in Sound' => q \in Sound)
      /\ \A q \in Pwms : hwConf'[q] \in {hwConf[q], new}
  BY <1>1, <1>2, ModesFacts DEF Sound
<1>7. Zones' /\ Turns'
  BY <1>1, <1>2, <1>6 DEF ModesIInv, Zones, Turns, confVars
<1>8. Walks'
  <2>1. init_pwm' \subseteq {PwmOf[fan] : fan \in Fans \cap (0 .. fanBit' - 1)}
    <3>1. Fans \cap (0 .. fanBit - 1) \subseteq Fans \cap (0 .. fanBit' - 1)
          /\ fanBit \in Fans \cap (0 .. fanBit' - 1)
      BY <1>1, <1>2, FansAre
    <3> QED BY <1>1, <1>2, <3>1 DEF ModesIInv, Walks
  <2> QED BY <1>1, <1>3, <2>1 DEF Walks, Handed
<1>9. \A q : ~InHand(q)' /\ (InHand(q) <=> q = idx) /\ (InTurn(q)' <=> InTurn(q))
  BY <1>1 DEF InHand, InTurn, confVars
<1>10. Overlaps'
  BY <1>9 DEF Overlaps
<1>11. ASSUME NEW fan \in Fans, PwmOf[fan] \in Sound' PROVE Right(fan)'
  <2>1. CASE PwmOf[fan] # idx
    <3>1. Right(fan) /\ hwConf'[PwmOf[fan]] = hwConf[PwmOf[fan]]
      BY <1>6, <1>11, <2>1 DEF ModesIInv, Sound
    <3> QED BY <1>1, <1>9, <2>1, <3>1
            DEF Right, SetIsManual, ClearIsNot, PutBack, TakenOver, confVars
  <2>2. CASE PwmOf[fan] = idx
    <3>1. fan = fanBit /\ hwConf'[PwmOf[fan]] = new
      BY <1>2, <1>6, <1>11, <2>2, FansAre
    <3>2. PwmOf[fan] \in Pwms \ overlapped
      BY <1>1, <1>11 DEF Sound
    <3>3. fan \in pwm_mode <=> fan \in val
      BY <1>1, <3>1, <3>2 DEF ModesIInv, Told
    <3>4. ~InTurn(PwmOf[fan])
      BY <1>9, <2>2, <3>2 DEF ModesIInv, Overlaps
    <3> QED BY <1>1, <1>2, <3>1, <3>3, <3>4
            DEF Right, SetIsManual, ClearIsNot, PutBack, TakenOver, InTurn, confVars
  <2> QED BY <2>1, <2>2
<1>12. ASSUME NEW fan \in Fans PROVE Told(fan)'
  BY <1>1 DEF Told
<1> QED BY <1>1, <1>5, <1>7, <1>8, <1>10, <1>11, <1>12 DEF ModesIInv

LEMMA ReturnStep == ASSUME SoundBoard, ModesIInv, SetPwmModeReturn PROVE ModesIInv'
<1>1. /\ spc = "bit" /\ spc' = "idle" /\ val' = {} /\ fanBit' = 0 /\ fanPlace' = 0 /\ init_pwm' = {}
      /\ idx' = 0
      /\ UNCHANGED <<chipVars, confVars, new, sMode, data, history, dutyVars, sensorVars>>
  BY DEF SetPwmModeReturn
<1>2. TypeOK'
  <2>1. 0 \in Pwms /\ 0 \in 0 .. NumFan /\ 0 \in 0 .. Len(Board) + 1
    BY FansAre DEF Pwms
  <2> QED BY <1>1, <2>1 DEF ModesIInv, TypeOK, chipVars, confVars, history, dutyVars, sensorVars
<1>3. Zones' /\ Turns' /\ Walks'
  BY <1>1 DEF ModesIInv, Zones, Turns, Walks, Handed, chipVars, confVars
<1>4. Sound' = Sound /\ \A q : (InHand(q)' <=> InHand(q)) /\ (InTurn(q)' <=> InTurn(q))
  BY <1>1 DEF Sound, InHand, InTurn, confVars, history
<1>5. Overlaps'
  BY <1>1, <1>4 DEF ModesIInv, Overlaps, history
<1>6. ASSUME NEW fan \in Fans, PwmOf[fan] \in Sound' PROVE Right(fan)'
  BY <1>1, <1>4, <1>6 DEF ModesIInv, Right, SetIsManual, ClearIsNot, PutBack, TakenOver, chipVars,
                          confVars, history
<1>7. ASSUME NEW fan \in Fans PROVE Told(fan)'
  BY <1>1 DEF Told
<1> QED BY <1>1, <1>2, <1>3, <1>5, <1>6, <1>7 DEF ModesIInv

\* A duty is begun or written, or a speed is read: modes and registers stay.
LEMMA DutyStep ==
    ASSUME SoundBoard, ModesIInv, TypeOK',
           UNCHANGED <<chipVars, confVars, val, loopVars, new, sMode, history>>,
           {spc, spc'} \subseteq {"idle", "duty"} \/ UNCHANGED <<spc, idx>>,
           spc' = "duty" => \/ idx' = idx /\ spc = "duty"
                            \/ \E fan \in pwm_mode : PwmOf[fan] = idx',
           spc' = "duty" => data' \in Duties
    PROVE  ModesIInv'
<1>1. Zones' /\ Turns' /\ Walks'
  BY DEF ModesIInv, Zones, Turns, Walks, Handed, chipVars, confVars, loopVars
<1>2. Sound' = Sound /\ \A q : (InHand(q)' <=> InHand(q)) /\ (InTurn(q)' <=> InTurn(q))
  BY DEF Sound, InHand, InTurn, confVars, history
<1>3. Overlaps'
  BY <1>2 DEF ModesIInv, Overlaps, history
<1>4. ASSUME NEW fan \in Fans, PwmOf[fan] \in Sound' PROVE Right(fan)'
  BY <1>2, <1>4 DEF ModesIInv, Right, SetIsManual, ClearIsNot, PutBack, TakenOver, chipVars,
                    confVars, history
<1>5. ASSUME NEW fan \in Fans, PwmOf[fan] \in Pwms \ overlapped' PROVE Told(fan)'
  BY <1>5 DEF ModesIInv, Told, chipVars, loopVars, history
<1>6. ASSUME spc' = "duty", idx' \in Sound PROVE hwConf[idx'].zone \in {4, 7}
  <2>1. CASE idx' = idx /\ spc = "duty"
    BY <1>6, <2>1 DEF ModesIInv
  <2>2. ASSUME NEW fan \in pwm_mode, PwmOf[fan] = idx', ~(idx' = idx /\ spc = "duty")
        PROVE  hwConf[idx'].zone \in {4, 7}
    <3>1. fan \in Fans /\ ~InHand(idx')
      BY <1>6, ModesFacts DEF InHand
    <3> QED BY <1>6, <2>2, <3>1 DEF ModesIInv, Right, SetIsManual
  <2> QED BY <1>6, <2>1, <2>2
<1> QED BY <1>1, <1>2, <1>3, <1>4, <1>5, <1>6 DEF ModesIInv, chipVars

LEMMA ModesStep == ASSUME SoundBoard, ModesIInv, [Next]_vars PROVE ModesIInv'
<1>1. CASE GetConf
  BY <1>1, ResetStep, ReadStep, WriteStep, LoadStep, StoreStep, KeepStep DEF GetConf
<1>2. ASSUME NEW v \in SUBSET Bits, SetPwmMode(v) PROVE ModesIInv'
  BY <1>2, CallStep
<1>3. CASE SetPwmModeStep
  BY <1>3, SkipStep, FindStep, LoadModeStep, StoreModeStep, ReadValueStep, WriteConfStep, ReturnStep
     DEF SetPwmModeStep
<1>4. ASSUME NEW fan \in Fans, NEW d \in Duties, SetMinSpeed(fan, d) PROVE ModesIInv'
  <2>1. /\ spc = "idle" /\ fan \in pwm_mode /\ PwmOf[fan] >= 0
        /\ UNCHANGED <<spc, idx, data>> \/ (spc' = "duty" /\ idx' = PwmOf[fan] /\ data' = d)
        /\ UNCHANGED <<chipVars, confVars, val, loopVars, new, sMode, history, dutyVars, sensorVars>>
    BY <1>4 DEF SetMinSpeed, SetPwmDuty
  <2>2. PwmOf[fan] \in Pwms
    BY <2>1, FansAre DEF Pwms, NoPwm
  <2>3. TypeOK'
    BY <2>1, <2>2 DEF ModesIInv, TypeOK, chipVars, confVars, loopVars, history, dutyVars, sensorVars
  <2> QED BY <2>1, <2>3, DutyStep
<1>5. CASE WriteDuty
  <2>1. /\ spc = "duty" /\ spc' = "idle" /\ idx' = 0 /\ data' = -2
        /\ hwDuty' = hwDuty \/ hwDuty' = [hwDuty EXCEPT ![idx] = data]
        /\ duty' = [duty EXCEPT ![idx] = data]
        /\ UNCHANGED <<chipVars, confVars, val, loopVars, new, sMode, history, sensorVars>>
    BY <1>5 DEF WriteDuty
  <2>2. TypeOK'
    <3>1. 0 \in Pwms /\ idx \in Pwms /\ data \in Duties
      BY <2>1 DEF Pwms, ModesIInv, TypeOK, Walks
    <3>2. hwDuty' \in [Pwms -> Duties] /\ duty' \in [Pwms -> Duties \cup {-2}]
      BY <2>1, <3>1 DEF ModesIInv, TypeOK
    <3> QED BY <2>1, <3>1, <3>2
            DEF ModesIInv, TypeOK, chipVars, confVars, loopVars, history, sensorVars
  <2> QED BY <2>1, <2>2, DutyStep
<1>6. ASSUME NEW fan \in Fans, ReadSpeed(fan) PROVE ModesIInv'
  <2>1. obsoleted' \in [Fans -> BOOLEAN] /\ reading' \in [Fans -> {"raw", "encoded", "garbled"}]
        /\ UNCHANGED <<chipVars, confVars, callVars, loopVars, history, dutyVars>>
    BY <1>6 DEF ReadSpeed, Updated, Cached, TypeOK, ModesIInv, callVars
  <2>2. TypeOK'
    BY <2>1 DEF ModesIInv, TypeOK, chipVars, confVars, callVars, loopVars, history, dutyVars
  <2>3. UNCHANGED <<spc, val, new, sMode, idx, data>> /\ (spc = "duty" => data \in Duties)
    BY <2>1 DEF callVars, ModesIInv, Walks
  <2> QED BY <2>1, <2>2, <2>3, DutyStep
<1>7. CASE UNCHANGED vars
  <2>1. TypeOK'
    BY <1>7 DEF ModesIInv, TypeOK, vars
  <2>2. UNCHANGED <<chipVars, confVars, val, loopVars, new, sMode, history, spc, idx, data>>
        /\ (spc = "duty" => data \in Duties)
    BY <1>7 DEF vars, chipVars, confVars, loopVars, history, ModesIInv, Walks
  <2> QED BY <2>1, <2>2, DutyStep
<1> QED BY <1>1, <1>2, <1>3, <1>4, <1>5, <1>6, <1>7 DEF Next

(***************************************************************************)
(* GetConf and SetPwmMode, in any order of their steps, transactions       *)
(* without effect and loads and stores of pwm_mode included: where both    *)
(* are, and what the bits, configurations and registers say then.          *)
(***************************************************************************)
THEOREM ModesInductive == SoundBoard => (Spec => []ModesIInv)
<1> SUFFICES ASSUME SoundBoard PROVE Spec => []ModesIInv
  OBVIOUS
<1>1. ModesIInv /\ [Next]_vars => ModesIInv'
  BY ModesStep
<1> QED BY <1>1, ModesInit, PTL DEF Spec

\* Every value stays in its range, on any sound board.
THEOREM FansTyped == SoundBoard => (Spec => []TypeOK)
<1>1. ModesIInv => TypeOK
  BY DEF ModesIInv
<1> QED BY <1>1, ModesInductive, PTL

(***************************************************************************)
(* "Return real states": on any sound board, in whatever order GetConf and *)
(* SetPwmMode take their steps, the bits of FS! say which fans the chip    *)
(* runs in manual mode, of all PWMs the two did not have in hand at once   *)
(* or write the bits over of, and that no transaction left unwritten.      *)
(***************************************************************************)
THEOREM ModesAreReal == SoundBoard => (Spec => []RealStates)
<1>1. ModesIInv => RealStates
  BY DEF ModesIInv, RealStates, Settled, Right, SetIsManual, ClearIsNot
<1> QED BY <1>1, ModesInductive, PTL

(***************************************************************************)
(* "No auto mode info was obtained": on any sound board SetPwmMode leaves  *)
(* no fan it has put back into automatic mode standing or in manual mode,  *)
(* but for those of which it was overlapped by GetConf or a write failed.  *)
(***************************************************************************)
THEOREM NoFanLeftStanding == SoundBoard => (Spec => []AutoIsAuto)
<1>1. ModesIInv => AutoIsAuto
  BY DEF ModesIInv, AutoIsAuto, Settled, Right, PutBack
<1> QED BY <1>1, ModesInductive, PTL

(***************************************************************************)
(* SetPwmDuty: on any sound board a duty goes only to a PWM that the chip  *)
(* runs in manual mode, also when GetConf runs between the look at the     *)
(* mode and the write; but for PWMs overlapped or spoiled, as above.       *)
(***************************************************************************)
THEOREM DutyToManual == SoundBoard => (Spec => DutyOnlyManual)
<1>1. ASSUME ModesIInv, [Next]_vars, NEW p \in Sound, hwDuty'[p] # hwDuty[p]
      PROVE  hwConf[p].zone \in {4, 7}
  <2>1. WriteDuty
    <3>1. ~GetConf
      BY <1>1 DEF GetConf, GetConfReset, GetConfRead, GetConfWrite, GetConfLoad, GetConfStore,
                  GetConfKeep, dutyVars
    <3>2. ~SetPwmModeStep
      BY <1>1 DEF SetPwmModeStep, SkipBit, FindFan, LoadMode, StoreMode, ReadValue, WriteConf,
                  SetPwmModeReturn, dutyVars
    <3>3. \A v, fan, d : ~SetPwmMode(v) /\ ~SetMinSpeed(fan, d) /\ ~ReadSpeed(fan)
      BY <1>1 DEF SetPwmMode, SetMinSpeed, ReadSpeed, dutyVars
    <3> QED BY <1>1, <3>1, <3>2, <3>3 DEF Next, vars
  <2>2. spc = "duty" /\ idx = p
    BY <1>1, <2>1 DEF WriteDuty, ModesIInv, TypeOK, Sound
  <2> QED BY <1>1, <2>2 DEF ModesIInv
<1>2. ModesIInv /\ [Next]_vars =>
        [\A p \in Sound : hwDuty'[p] # hwDuty[p] => hwConf[p].zone \in {4, 7}]_vars
  BY <1>1
<1> QED BY <1>2, ModesInductive, PTL DEF DutyOnlyManual, Spec
=============================================================================
