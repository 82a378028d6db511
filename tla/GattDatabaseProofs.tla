------------------------- MODULE GattDatabaseProofs -------------------------
(***************************************************************************)
(* Proofs about the UUIDs and about the database of GattDatabase.          *)
(*                                                                         *)
(* The loops of the code go through lists of any length: what they take is *)
(* proved by induction over the natural numbers, which the library gives   *)
(* for sets (WFMin), once for the loop that filters a list and once for    *)
(* the loops that join what each object of a list adds.                    *)
(***************************************************************************)
EXTENDS GattDatabase, WellFoundedInduction, SequenceTheorems, FiniteSetTheorems, TLAPS

-----------------------------------------------------------------------------
(* The comparison of UUIDs.                                                 *)

\* Two UUIDs of one type have the same value when they have the same 128 bits:
\* the conversion of gattlib_common.c:164 forgets nothing.
LEMMA ConversionInjective ==
    ASSUME NEW u \in Specified, NEW v \in Specified, u.type = v.type,
           gattlib_uuid_to_uuid128(u) = gattlib_uuid_to_uuid128(v)
    PROVE  u.value = v.value
<1>1. gattlib_uuid_to_uuid128(u).value = gattlib_uuid_to_uuid128(v).value
  OBVIOUS
<1>2. CASE u \in Uuid16
  <2>1. v \in Uuid16
    BY <1>2 DEF Specified, Uuid16, Uuid32, Uuid128
  <2>2. PICK a \in Half, b \in Half : u.value = <<a>> /\ v.value = <<b>>
    BY <1>2, <2>1 DEF Uuid16
  <2>3. /\ gattlib_uuid_to_uuid128(u).value = <<GattlibHigh, a, GattlibBase>>
        /\ gattlib_uuid_to_uuid128(v).value = <<GattlibHigh, b, GattlibBase>>
    BY <1>2, <2>1, <2>2 DEF gattlib_uuid_to_uuid128, Uuid16
  <2> QED
    BY <1>1, <2>2, <2>3
<1>3. CASE u \in Uuid32
  <2>1. v \in Uuid32
    BY <1>3 DEF Specified, Uuid16, Uuid32, Uuid128
  <2>2. PICK a \in Half, b \in Half, c \in Half, d \in Half : u.value = <<a, b>> /\ v.value = <<c, d>>
    BY <1>3, <2>1 DEF Uuid32
  <2>3. /\ gattlib_uuid_to_uuid128(u).value = <<a, b, GattlibBase>>
        /\ gattlib_uuid_to_uuid128(v).value = <<c, d, GattlibBase>>
    BY <1>3, <2>1, <2>2 DEF gattlib_uuid_to_uuid128, Uuid32
  <2> QED
    BY <1>1, <2>2, <2>3
<1>4. CASE u \in Uuid128
  <2>1. v \in Uuid128
    BY <1>4 DEF Specified, Uuid16, Uuid32, Uuid128
  <2> QED
    BY <1>1, <1>4, <2>1 DEF gattlib_uuid_to_uuid128, Uuid128
<1> QED
  BY <1>2, <1>3, <1>4 DEF Specified

\* Two UUIDs are the same exactly when their 128 bits are.
LEMMA CmpIsConversion ==
    ASSUME NEW u \in Specified, NEW v \in Specified
    PROVE  gattlib_uuid_cmp(u, v) = 0 <=> gattlib_uuid_to_uuid128(u) = gattlib_uuid_to_uuid128(v)
<1>1. u.type # "SDP_UUID_UNSPEC"
  BY DEF Specified, Uuid16, Uuid32, Uuid128
<1>2. CASE u.type # v.type
  BY <1>2 DEF gattlib_uuid_cmp
<1>3. CASE u.type = v.type
  <2>1. gattlib_uuid_cmp(u, v) = 0 <=> u.value = v.value
    BY <1>1, <1>3 DEF gattlib_uuid_cmp
  <2>2. u.value = v.value => gattlib_uuid_to_uuid128(u) = gattlib_uuid_to_uuid128(v)
    BY <1>3 DEF gattlib_uuid_to_uuid128
  <2> QED
    BY <1>3, <2>1, <2>2, ConversionInjective
<1> QED
  BY <1>2, <1>3

\* gattlib_uuid_cmp is an equivalence although it compares the UUIDs of one type
\* by their values and those of two types by their 128 bits: a list searched for
\* one form of a UUID is searched for the others.
THEOREM CmpIsEquivalence ==
    /\ \A u \in Specified : gattlib_uuid_cmp(u, u) = 0
    /\ \A u, v \in Specified : gattlib_uuid_cmp(u, v) = 0 => gattlib_uuid_cmp(v, u) = 0
    /\ \A u, v, w \in Specified :
          gattlib_uuid_cmp(u, v) = 0 /\ gattlib_uuid_cmp(v, w) = 0 => gattlib_uuid_cmp(u, w) = 0
  BY CmpIsConversion

\* A UUID that is printed and read again is itself, except for the long form of a
\* short one, which is read as the short one.
THEOREM PrintedIsRead ==
    ASSUME NEW u \in Specified
    PROVE  gattlib_string_to_uuid(gattlib_uuid_to_string(u)) =
               IF u.type = "SDP_UUID128" /\ u.value[1] = 0 /\ u.value[3] = BluetoothBase
               THEN [type |-> "SDP_UUID16", value |-> <<u.value[2]>>] ELSE u
<1>1. CASE u \in Uuid16
  BY <1>1 DEF gattlib_string_to_uuid, gattlib_uuid_to_string, is_base_uuid128, Uuid16
<1>2. CASE u \in Uuid32
  BY <1>2 DEF gattlib_string_to_uuid, gattlib_uuid_to_string, is_base_uuid128, Uuid32
<1>3. CASE u \in Uuid128
  BY <1>3 DEF gattlib_string_to_uuid, gattlib_uuid_to_string, is_base_uuid128, Uuid128
<1> QED
  BY <1>1, <1>2, <1>3 DEF Specified

-----------------------------------------------------------------------------
(* Induction, from the well-foundedness of the natural numbers.             *)

\* A set of natural numbers has a least one: no infinite descent.
LEMMA LeastNatural ==
    ASSUME NEW T \in SUBSET Nat, T # {}
    PROVE  \E n \in T : \A m \in T : n <= m
<1> DEFINE Less == {p \in Nat \X Nat : p[1] < p[2]}
<1>1. IsWellFoundedOn(OpToRel(<, Nat), Nat)
  BY NatLessThanWellFounded, Zenon
<1>2. OpToRel(<, Nat) = Less
  BY Zenon DEF OpToRel
<1>3. IsWellFoundedOn(Less, Nat)
  BY <1>1, <1>2, Zenon
<1>4. PICK n \in T : \A m \in T : <<m, n>> \notin Less
  <2> HIDE DEF Less
  <2> QED BY <1>3, WFMin
<1>5. \A m \in T : <<m, n>> \in Less <=> m < n
  <2> SUFFICES ASSUME NEW m \in T PROVE <<m, n>> \in Less <=> m < n
    OBVIOUS
  <2>1. m \in Nat /\ n \in Nat
    OBVIOUS
  <2> QED BY <2>1
<1>6. \A m \in T : ~(m < n)
  <2> HIDE DEF Less
  <2> QED BY <1>4, <1>5
<1>7. \A m \in T : m \in Nat /\ n \in Nat
  OBVIOUS
<1> QED
  BY <1>6, <1>7

\* A set of natural numbers that has 0 and the successor of its members.
LEMMA NaturalsOneByOne ==
    ASSUME NEW S, 0 \in S, \A n \in Nat : n \in S => n + 1 \in S
    PROVE  Nat \subseteq S
<1> SUFFICES ASSUME Nat \ S # {} PROVE FALSE
  OBVIOUS
<1>1. PICK n \in Nat \ S : \A m \in Nat \ S : n <= m
  BY LeastNatural
<1>2. n # 0 /\ n - 1 \in Nat /\ n - 1 \in S
  BY <1>1
<1>3. n - 1 + 1 \in S
  BY <1>2
<1> QED
  BY <1>1, <1>2, <1>3

\* The largest of natural numbers that have a bound.
LEMMA MaxOfBounded ==
    ASSUME NEW S \in SUBSET Nat, S # {}, NEW b \in Nat, \A x \in S : x <= b
    PROVE  Max(S) \in S /\ \A x \in S : x <= Max(S)
<1> DEFINE Bounds == {n \in Nat : \A x \in S : x <= n}
<1>1. PICK n \in Bounds : \A m \in Bounds : n <= m
  <2>1. b \in Bounds
    OBVIOUS
  <2> QED BY <2>1, LeastNatural
<1>2. n \in S
  <2> SUFFICES ASSUME n \notin S PROVE FALSE
    OBVIOUS
  <2>1. \A x \in S : x < n
    BY <1>1
  <2>2. n \in Nat /\ n - 1 \in Nat
    <3>1. PICK x \in S : x < n
      BY <2>1
    <3> QED BY <3>1
  <2>3. n - 1 \in Bounds
    <3>1. \A x \in S : x <= n - 1
      BY <2>1, <2>2
    <3> QED BY <2>2, <3>1
  <2> QED BY <1>1, <2>2, <2>3
<1>3. \E x \in S : \A y \in S : x >= y
  BY <1>1, <1>2
<1> QED
  BY <1>3 DEF Max

-----------------------------------------------------------------------------
(* The loops over a list.                                                   *)

\* The step of the loop of Filtered, as the equation of its result.
Loops(passed, list, set, n) ==
    passed = [i \in 0..n |->
                IF i = 0 THEN <<>>
                ELSE IF list[i] \in set THEN Append(passed[i - 1], list[i]) ELSE passed[i - 1]]

\* The loop has a result for each number of steps, which is the function that the
\* definition of Filtered chooses.
LEMMA LoopExists ==
    ASSUME NEW list, NEW set, NEW n \in Nat
    PROVE  \E passed : Loops(passed, list, set, n)
<1> DEFINE S == {m \in Nat : \E passed : Loops(passed, list, set, m)}
<1>1. 0 \in S
  <2>1. Loops([i \in 0..0 |-> <<>>], list, set, 0)
    BY DEF Loops
  <2> QED BY <2>1
<1>2. ASSUME NEW m \in Nat, m \in S
      PROVE  m + 1 \in S
  <2>1. PICK f : Loops(f, list, set, m)
    BY <1>2
  <2> DEFINE g == [i \in 0..(m + 1) |->
                     IF i = m + 1 THEN (IF list[i] \in set THEN Append(f[m], list[i]) ELSE f[m]) ELSE f[i]]
  <2>2. \A i \in 0..m : g[i] = f[i]
    OBVIOUS
  <2>3. \A i \in 0..m : f[i] = IF i = 0 THEN <<>>
                               ELSE IF list[i] \in set THEN Append(f[i - 1], list[i]) ELSE f[i - 1]
    BY <2>1 DEF Loops
  <2>4. ASSUME NEW i \in 0..(m + 1)
        PROVE  g[i] = IF i = 0 THEN <<>>
                      ELSE IF list[i] \in set THEN Append(g[i - 1], list[i]) ELSE g[i - 1]
    <3>1. CASE i = m + 1
      <4>1. g[i - 1] = f[m]
        BY <2>2, <3>1
      <4> QED BY <3>1, <4>1
    <3>2. CASE i = 0
      BY <2>2, <2>3, <3>2
    <3>3. CASE i \in 1..m
      <4>1. i - 1 \in 0..m /\ i \in 0..m
        BY <3>3
      <4>2. g[i] = f[i] /\ g[i - 1] = f[i - 1]
        BY <2>2, <4>1
      <4>3. i # 0
        BY <3>3
      <4> HIDE DEF g
      <4> QED BY <2>3, <4>1, <4>2, <4>3
    <3> QED BY <3>1, <3>2, <3>3
  <2>5. Loops(g, list, set, m + 1)
    <3>1. g = [i \in 0..(m + 1) |-> g[i]]
      OBVIOUS
    <3> HIDE DEF g
    <3> QED BY <2>4, <3>1 DEF Loops
  <2> QED BY <2>5
<1>3. Nat \subseteq S
  BY <1>1, <1>2, NaturalsOneByOne
<1> QED BY <1>3

\* Filtered is the result of its loop.
LEMMA FilteredLoops ==
    ASSUME NEW X, NEW list \in Seq(X), NEW set
    PROVE  \E passed : Loops(passed, list, set, Len(list)) /\ Filtered(list, set) = passed[Len(list)]
<1>1. Len(list) \in Nat
  OBVIOUS
<1> DEFINE f == CHOOSE passed : Loops(passed, list, set, Len(list))
<1>2. Loops(f, list, set, Len(list))
  BY <1>1, LoopExists
<1>3. Filtered(list, set) = f[Len(list)]
  BY DEF Filtered, Loops
<1> QED BY <1>2, <1>3

\* The elements of t are those of the first n of a list that are in a set, and g
\* says where each comes from.
TakenFrom(g, t, list, set, n) ==
    /\ g \in [1..Len(t) -> 1..n]
    /\ \A j \in 1..Len(t) : t[j] = list[g[j]] /\ t[j] \in set
    /\ \A j, k \in 1..Len(t) : j < k => g[j] < g[k]
    /\ \A i \in 1..n : list[i] \in set => \E j \in 1..Len(t) : g[j] = i

\* What a loop over a list takes, in the order of the list.
LEMMA FilteredOrder ==
    ASSUME NEW X, NEW list \in Seq(X), NEW set
    PROVE  /\ Filtered(list, set) \in Seq(X)
           /\ \E g : TakenFrom(g, Filtered(list, set), list, set, Len(list))
<1>1. PICK passed : Loops(passed, list, set, Len(list)) /\ Filtered(list, set) = passed[Len(list)]
  BY FilteredLoops
<1>2. /\ passed[0] = <<>>
      /\ \A i \in 1..Len(list) :
            passed[i] = IF list[i] \in set THEN Append(passed[i - 1], list[i]) ELSE passed[i - 1]
  <2>1. Len(list) \in Nat
    OBVIOUS
  <2>2. \A i \in 0..Len(list) :
           passed[i] = IF i = 0 THEN <<>>
                       ELSE IF list[i] \in set THEN Append(passed[i - 1], list[i]) ELSE passed[i - 1]
    BY <1>1 DEF Loops
  <2>3. \A i \in 1..Len(list) : i \in 0..Len(list) /\ i # 0
    BY <2>1
  <2>4. 0 \in 0..Len(list)
    BY <2>1
  <2> QED BY <2>2, <2>3, <2>4
<1> DEFINE Holds(m) == passed[m] \in Seq(X) /\ \E g : TakenFrom(g, passed[m], list, set, m)
           S == {m \in Nat : m <= Len(list) => Holds(m)}
<1>3. 0 \in S
  <2>1. TakenFrom([j \in 1..0 |-> 0], <<>>, list, set, 0)
    BY DEF TakenFrom
  <2>2. Holds(0)
    <3>1. <<>> \in Seq(X)
      OBVIOUS
    <3> QED BY <1>2, <2>1, <3>1
  <2> HIDE DEF Holds
  <2> QED BY <2>2
<1>4. ASSUME NEW m \in Nat, m \in S, m + 1 <= Len(list)
      PROVE  Holds(m + 1)
  <2>1. m + 1 \in 1..Len(list) /\ list[m + 1] \in X /\ m + 1 - 1 = m
    BY <1>4
  <2> DEFINE t == passed[m]
             x == list[m + 1]
  <2>2. t \in Seq(X)
    BY <1>4
  <2>3. PICK g : TakenFrom(g, t, list, set, m)
    BY <1>4
  <2>4. CASE x \notin set
    <3>1. passed[m + 1] = t
      <4>1. passed[m + 1] = IF list[m + 1] \in set THEN Append(passed[m], list[m + 1]) ELSE passed[m]
        <5>1. passed[m + 1] = IF list[m + 1] \in set THEN Append(passed[m + 1 - 1], list[m + 1]) ELSE passed[m + 1 - 1]
          BY <1>2, <2>1
        <5> QED BY <2>1, <5>1
      <4>2. list[m + 1] \notin set
        BY <2>4
      <4> QED BY <2>1, <4>1, <4>2
    <3>2. TakenFrom(g, t, list, set, m + 1)
      <4> HIDE DEF t
      <4>1. g \in [1..Len(t) -> 1..(m + 1)]
        BY <2>3 DEF TakenFrom
      <4>2. \A i \in 1..(m + 1) : list[i] \in set => i \in 1..m
        BY <2>4
      <4> QED BY <2>3, <4>1, <4>2 DEF TakenFrom
    <3> QED BY <2>2, <3>1, <3>2
  <2>5. CASE x \in set
    <3> DEFINE u == Append(t, x)
               h == [j \in 1..(Len(t) + 1) |-> IF j = Len(t) + 1 THEN m + 1 ELSE g[j]]
    <3>1. passed[m + 1] = u
      <4>1. passed[m + 1] = IF list[m + 1] \in set THEN Append(passed[m], list[m + 1]) ELSE passed[m]
        <5>1. passed[m + 1] = IF list[m + 1] \in set THEN Append(passed[m + 1 - 1], list[m + 1]) ELSE passed[m + 1 - 1]
          BY <1>2, <2>1
        <5> QED BY <2>1, <5>1
      <4>2. list[m + 1] \in set
        BY <2>5
      <4> QED BY <2>1, <4>1, <4>2
    <3> HIDE DEF t
    <3>2. /\ u \in Seq(X) /\ Len(u) = Len(t) + 1 /\ u[Len(t) + 1] = x /\ Len(t) \in Nat
          /\ \A j \in 1..Len(t) : u[j] = t[j]
      BY <2>1, <2>2
    <3> HIDE DEF u
    <3>3. /\ h[Len(t) + 1] = m + 1
          /\ \A j \in 1..Len(t) : h[j] = g[j] /\ j \in 1..(Len(t) + 1)
          /\ \A j \in 1..(Len(t) + 1) : j = Len(t) + 1 \/ j \in 1..Len(t)
      BY <3>2
    <3>4. h \in [1..Len(u) -> 1..(m + 1)]
      BY <2>3, <3>2 DEF TakenFrom
    <3> HIDE DEF h
    <3>5. \A j \in 1..Len(u) : u[j] = list[h[j]] /\ u[j] \in set
      BY <2>3, <2>5, <3>2, <3>3 DEF TakenFrom
    <3>6. \A j, k \in 1..Len(u) : j < k => h[j] < h[k]
      <4> SUFFICES ASSUME NEW j \in 1..Len(u), NEW k \in 1..Len(u), j < k PROVE h[j] < h[k]
        OBVIOUS
      <4>1. j \in 1..Len(t) /\ k \in 1..(Len(t) + 1)
        BY <3>2
      <4>2. g[j] \in 1..m
        BY <2>3, <4>1 DEF TakenFrom
      <4>3. CASE k = Len(t) + 1
        BY <3>3, <4>1, <4>2, <4>3
      <4>4. CASE k \in 1..Len(t)
        BY <2>3, <3>3, <4>1, <4>4 DEF TakenFrom
      <4> QED BY <3>3, <4>1, <4>3, <4>4
    <3>7. \A i \in 1..(m + 1) : list[i] \in set => \E j \in 1..Len(u) : h[j] = i
      <4> SUFFICES ASSUME NEW i \in 1..(m + 1), list[i] \in set PROVE \E j \in 1..Len(u) : h[j] = i
        OBVIOUS
      <4>1. CASE i = m + 1
        <5>1. Len(t) + 1 \in 1..Len(u)
          BY <3>2
        <5> QED BY <3>3, <4>1, <5>1
      <4>2. CASE i \in 1..m
        <5>1. PICK j \in 1..Len(t) : g[j] = i
          BY <2>3, <4>2 DEF TakenFrom
        <5> QED BY <3>2, <3>3, <5>1
      <4> QED BY <4>1, <4>2
    <3>8. TakenFrom(h, u, list, set, m + 1)
      BY <3>4, <3>5, <3>6, <3>7 DEF TakenFrom
    <3> QED BY <3>1, <3>2, <3>8
  <2> QED BY <2>4, <2>5
<1>5. Nat \subseteq S
  <2>1. ASSUME NEW m \in Nat, m \in S PROVE m + 1 \in S
    <3> HIDE DEF Holds
    <3> QED BY <1>4, <2>1
  <2> HIDE DEF S
  <2> QED BY <1>3, <2>1, NaturalsOneByOne
<1>6. Len(list) \in Nat
  OBVIOUS
<1>7. Holds(Len(list))
  <2> HIDE DEF Holds
  <2> QED BY <1>5, <1>6
<1> QED BY <1>1, <1>7

\* What a loop over a list takes, whatever their order: the elements of the set,
\* each of them as often as the list has it.
LEMMA FilteredMembers ==
    ASSUME NEW X, NEW list \in Seq(X), NEW set
    PROVE  /\ Filtered(list, set) \in Seq(X)
           /\ ToSet(Filtered(list, set)) = ToSet(list) \cap set
           /\ IsInjective(list) => IsInjective(Filtered(list, set))
           /\ Filtered(list, set) = <<>> <=> ToSet(list) \cap set = {}
<1> DEFINE t == Filtered(list, set)
<1>1. t \in Seq(X) /\ DOMAIN t = 1..Len(t) /\ Len(t) \in Nat /\ DOMAIN list = 1..Len(list) /\ Len(list) \in Nat
  BY FilteredOrder
<1>2. PICK g : TakenFrom(g, t, list, set, Len(list))
  BY FilteredOrder
<1> HIDE DEF t
<1>3. ToSet(t) = ToSet(list) \cap set
  <2>1. ASSUME NEW j \in 1..Len(t) PROVE t[j] \in ToSet(list) \cap set
    BY <1>1, <1>2 DEF TakenFrom, ToSet
  <2>2. ASSUME NEW i \in 1..Len(list), list[i] \in set PROVE list[i] \in ToSet(t)
    <3>1. PICK j \in 1..Len(t) : g[j] = i
      BY <1>2, <2>2 DEF TakenFrom
    <3>2. t[j] = list[i]
      BY <1>2, <3>1 DEF TakenFrom
    <3> QED BY <1>1, <3>2 DEF ToSet
  <2> QED BY <1>1, <2>1, <2>2 DEF ToSet
<1>4. IsInjective(list) => IsInjective(t)
  <2> SUFFICES ASSUME IsInjective(list), NEW j \in 1..Len(t), NEW k \in 1..Len(t), t[j] = t[k]
               PROVE  j = k
    BY <1>1 DEF IsInjective
  <2>1. g[j] \in 1..Len(list) /\ g[k] \in 1..Len(list) /\ list[g[j]] = list[g[k]]
    BY <1>2 DEF TakenFrom
  <2>2. g[j] = g[k]
    BY <1>1, <2>1 DEF IsInjective
  <2>3. ~(j < k) /\ ~(k < j)
    BY <1>2, <2>1, <2>2 DEF TakenFrom
  <2> QED BY <1>1, <2>3
<1>5. t = <<>> <=> ToSet(t) = {}
  <2>1. ASSUME Len(t) # 0 PROVE t[1] \in ToSet(t) /\ t # <<>>
    <3>1. 1 \in DOMAIN t
      BY <1>1, <2>1
    <3>2. t # <<>>
      BY <2>1
    <3> QED BY <3>1, <3>2 DEF ToSet
  <2>2. ASSUME Len(t) = 0 PROVE t = <<>> /\ ToSet(t) = {}
    <3>1. t = <<>>
      BY <1>1, <2>2, EmptySeq
    <3>2. DOMAIN t = {}
      BY <1>1, <2>2
    <3> QED BY <3>1, <3>2 DEF ToSet
  <2> QED BY <2>1, <2>2
<1> QED BY <1>1, <1>3, <1>4, <1>5 DEF t

\* The step of the loop of FlattenSeq, as the equation of its result.
Flattens(flatten, seqs, n) ==
    flatten = [i \in 1..n |-> IF i = 1 THEN seqs[i] ELSE flatten[i - 1] \o seqs[i]]

\* The loop of FlattenSeq has a result for each number of steps.
LEMMA FlattenExists ==
    ASSUME NEW seqs, NEW n \in Nat
    PROVE  \E flatten : Flattens(flatten, seqs, n)
<1> DEFINE S == {m \in Nat : \E flatten : Flattens(flatten, seqs, m)}
<1>1. 0 \in S
  <2>1. Flattens([i \in 1..0 |-> <<>>], seqs, 0)
    BY DEF Flattens
  <2> QED BY <2>1
<1>2. ASSUME NEW m \in Nat, m \in S
      PROVE  m + 1 \in S
  <2>1. PICK f : Flattens(f, seqs, m)
    BY <1>2
  <2> DEFINE g == [i \in 1..(m + 1) |->
                     IF i = m + 1 THEN (IF i = 1 THEN seqs[i] ELSE f[m] \o seqs[i]) ELSE f[i]]
  <2>2. \A i \in 1..m : g[i] = f[i]
    OBVIOUS
  <2>3. \A i \in 1..m : f[i] = IF i = 1 THEN seqs[i] ELSE f[i - 1] \o seqs[i]
    BY <2>1 DEF Flattens
  <2>4. ASSUME NEW i \in 1..(m + 1)
        PROVE  g[i] = IF i = 1 THEN seqs[i] ELSE g[i - 1] \o seqs[i]
    <3>1. CASE i = m + 1 /\ i # 1
      <4>1. i - 1 \in 1..m /\ i - 1 = m
        BY <3>1
      <4>2. g[i - 1] = f[m]
        BY <2>2, <4>1
      <4>3. g[i] = f[m] \o seqs[i]
        BY <3>1
      <4> QED BY <3>1, <4>2, <4>3
    <3>2. CASE i = m + 1 /\ i = 1
      BY <3>2
    <3>3. CASE i \in 1..m /\ i = 1
      BY <2>2, <2>3, <3>3
    <3>4. CASE i \in 1..m /\ i # 1
      <4>1. i - 1 \in 1..m
        BY <3>4
      <4>2. g[i] = f[i] /\ g[i - 1] = f[i - 1]
        BY <2>2, <3>4, <4>1
      <4>3. f[i] = f[i - 1] \o seqs[i]
        BY <2>3, <3>4
      <4> HIDE DEF g
      <4> QED BY <3>4, <4>2, <4>3
    <3> QED BY <3>1, <3>2, <3>3, <3>4
  <2>5. Flattens(g, seqs, m + 1)
    <3>1. g = [i \in 1..(m + 1) |-> g[i]]
      OBVIOUS
    <3> HIDE DEF g
    <3> QED BY <2>4, <3>1 DEF Flattens
  <2> QED BY <2>5
<1>3. Nat \subseteq S
  BY <1>1, <1>2, NaturalsOneByOne
<1> QED BY <1>3

\* The elements of t are those of the first n of some sequences, each once: the
\* one at i comes from the place l[i] of the sequence k[i].
ComesFrom(k, l, t, seqs, n) ==
    /\ k \in [1..Len(t) -> 1..n] /\ l \in [1..Len(t) -> Nat]
    /\ \A i \in 1..Len(t) : l[i] \in 1..Len(seqs[k[i]]) /\ t[i] = seqs[k[i]][l[i]]
    /\ \A i, j \in 1..Len(t) : k[i] = k[j] /\ l[i] = l[j] => i = j
    /\ \A a \in 1..n : \A b \in 1..Len(seqs[a]) : \E i \in 1..Len(t) : k[i] = a /\ l[i] = b

\* One more sequence at the end.
LEMMA ComesFromOneMore ==
    ASSUME NEW X, NEW seqs \in Seq(Seq(X)), NEW m \in Nat, m + 1 \in 1..Len(seqs),
           NEW t \in Seq(X), NEW k, NEW l, ComesFrom(k, l, t, seqs, m)
    PROVE  /\ t \o seqs[m + 1] \in Seq(X)
           /\ \E k2, l2 : ComesFrom(k2, l2, t \o seqs[m + 1], seqs, m + 1)
<1> DEFINE s == seqs[m + 1]
           u == t \o s
           k2 == [i \in 1..Len(u) |-> IF i \in 1..Len(t) THEN k[i] ELSE m + 1]
           l2 == [i \in 1..Len(u) |-> IF i \in 1..Len(t) THEN l[i] ELSE i - Len(t)]
<1>1. s \in Seq(X)
  OBVIOUS
<1>2. /\ u \in Seq(X) /\ Len(u) = Len(t) + Len(s)
      /\ Len(t) \in Nat /\ Len(s) \in Nat /\ Len(u) \in Nat
      /\ \A i \in 1..Len(t) : u[i] = t[i]
      /\ \A i \in (Len(t) + 1)..Len(u) : u[i] = s[i - Len(t)]
  BY <1>1
<1>3. s = seqs[m + 1]
  OBVIOUS
<1> HIDE DEF u, s
<1>4. /\ \A i \in 1..Len(t) : i \in 1..Len(u) /\ k2[i] = k[i] /\ l2[i] = l[i]
      /\ \A i \in (Len(t) + 1)..Len(u) : i \in 1..Len(u) /\ k2[i] = m + 1 /\ l2[i] = i - Len(t)
      /\ \A i \in 1..Len(u) : i \in 1..Len(t) \/ i \in (Len(t) + 1)..Len(u)
  BY <1>2
<1>5. \A i \in 1..Len(t) : k[i] \in 1..m /\ l[i] \in Nat /\ l[i] \in 1..Len(seqs[k[i]]) /\ t[i] = seqs[k[i]][l[i]]
  BY DEF ComesFrom
<1>6. k2 \in [1..Len(u) -> 1..(m + 1)] /\ l2 \in [1..Len(u) -> Nat]
  <2>1. ASSUME NEW i \in 1..Len(u) PROVE k2[i] \in 1..(m + 1) /\ l2[i] \in Nat
    <3>1. CASE i \in 1..Len(t)
      BY <1>4, <1>5, <3>1
    <3>2. CASE i \in (Len(t) + 1)..Len(u)
      BY <1>2, <1>4, <3>2
    <3> QED BY <1>4, <3>1, <3>2
  <2> QED BY <2>1
<1> HIDE DEF k2, l2
<1>7. \A i \in 1..Len(u) : l2[i] \in 1..Len(seqs[k2[i]]) /\ u[i] = seqs[k2[i]][l2[i]]
  <2> SUFFICES ASSUME NEW i \in 1..Len(u)
               PROVE  l2[i] \in 1..Len(seqs[k2[i]]) /\ u[i] = seqs[k2[i]][l2[i]]
    OBVIOUS
  <2>1. CASE i \in 1..Len(t)
    BY <1>2, <1>4, <1>5, <2>1
  <2>2. CASE i \in (Len(t) + 1)..Len(u)
    <3>1. i - Len(t) \in 1..Len(s)
      BY <1>2, <2>2
    <3> QED BY <1>2, <1>3, <1>4, <2>2, <3>1
  <2> QED BY <1>4, <2>1, <2>2
<1>8. \A i, j \in 1..Len(u) : k2[i] = k2[j] /\ l2[i] = l2[j] => i = j
  <2> SUFFICES ASSUME NEW i \in 1..Len(u), NEW j \in 1..Len(u), k2[i] = k2[j], l2[i] = l2[j]
               PROVE  i = j
    OBVIOUS
  <2>1. CASE i \in 1..Len(t) /\ j \in 1..Len(t)
    <3>1. k[i] = k[j] /\ l[i] = l[j]
      BY <1>4, <2>1
    <3> QED BY <2>1, <3>1 DEF ComesFrom
  <2>2. CASE i \in (Len(t) + 1)..Len(u) /\ j \in (Len(t) + 1)..Len(u)
    <3>1. i - Len(t) = j - Len(t)
      BY <1>4, <2>2
    <3> QED BY <1>2, <2>2, <3>1
  <2>3. CASE i \in 1..Len(t) /\ j \in (Len(t) + 1)..Len(u)
    <3>1. k[i] = m + 1 /\ k[i] \in 1..m
      BY <1>4, <1>5, <2>3
    <3> QED BY <3>1
  <2>4. CASE i \in (Len(t) + 1)..Len(u) /\ j \in 1..Len(t)
    <3>1. k[j] = m + 1 /\ k[j] \in 1..m
      BY <1>4, <1>5, <2>4
    <3> QED BY <3>1
  <2> QED BY <1>4, <2>1, <2>2, <2>3, <2>4
<1>9. \A a \in 1..(m + 1) : \A b \in 1..Len(seqs[a]) : \E i \in 1..Len(u) : k2[i] = a /\ l2[i] = b
  <2> SUFFICES ASSUME NEW a \in 1..(m + 1), NEW b \in 1..Len(seqs[a])
               PROVE  \E i \in 1..Len(u) : k2[i] = a /\ l2[i] = b
    OBVIOUS
  <2>1. CASE a \in 1..m
    <3>1. PICK i \in 1..Len(t) : k[i] = a /\ l[i] = b
      BY <2>1 DEF ComesFrom
    <3> QED BY <1>4, <3>1
  <2>2. CASE a = m + 1
    <3>1. b \in 1..Len(s)
      BY <1>3, <2>2
    <3>2. Len(t) + b \in (Len(t) + 1)..Len(u) /\ Len(t) + b - Len(t) = b
      BY <1>2, <3>1
    <3>3. Len(t) + b \in 1..Len(u) /\ k2[Len(t) + b] = m + 1 /\ l2[Len(t) + b] = b
      BY <1>4, <3>2
    <3> QED BY <2>2, <3>3
  <2> QED BY <2>1, <2>2
<1>10. ComesFrom(k2, l2, u, seqs, m + 1)
  BY <1>6, <1>7, <1>8, <1>9 DEF ComesFrom
<1> QED BY <1>2, <1>10 DEF u, s

\* FlattenSeq has the elements of its sequences and no other, each once.
LEMMA FlattenComesFrom ==
    ASSUME NEW X, NEW seqs \in Seq(Seq(X))
    PROVE  /\ FlattenSeq(seqs) \in Seq(X)
           /\ \E k, l : ComesFrom(k, l, FlattenSeq(seqs), seqs, Len(seqs))
<1>1. Len(seqs) \in Nat
  OBVIOUS
<1>2. ComesFrom(<<>>, <<>>, <<>>, seqs, 0) /\ <<>> \in Seq(X)
  BY DEF ComesFrom
<1>3. CASE Len(seqs) = 0
  <2>1. seqs = <<>>
    BY <1>3, EmptySeq
  <2>2. FlattenSeq(seqs) = <<>>
    BY <1>3, <2>1 DEF FlattenSeq
  <2> QED BY <1>2, <1>3, <2>2
<1>4. CASE Len(seqs) # 0
  <2> DEFINE f == CHOOSE flatten : Flattens(flatten, seqs, Len(seqs))
  <2>1. Flattens(f, seqs, Len(seqs))
    BY <1>1, FlattenExists
  <2>2. FlattenSeq(seqs) = f[Len(seqs)]
    BY <1>4 DEF FlattenSeq, Flattens
  <2> HIDE DEF f
  <2>3. \A i \in 1..Len(seqs) : f[i] = IF i = 1 THEN seqs[i] ELSE f[i - 1] \o seqs[i]
    BY <2>1 DEF Flattens
  <2> DEFINE Holds(m) == f[m] \in Seq(X) /\ \E k, l : ComesFrom(k, l, f[m], seqs, m)
             S == {m \in Nat : m \in 1..Len(seqs) => Holds(m)}
  <2>4. 0 \in S
    OBVIOUS
  <2>5. ASSUME NEW m \in Nat, m \in S, m + 1 \in 1..Len(seqs)
        PROVE  Holds(m + 1)
    <3>1. CASE m = 0
      <4>1. f[m + 1] = <<>> \o seqs[m + 1]
        <5>1. f[1] = seqs[1] /\ seqs[1] \in Seq(X)
          BY <1>1, <1>4, <2>3
        <5>2. <<>> \o seqs[1] = seqs[1]
          BY <5>1
        <5> QED BY <3>1, <5>1, <5>2
      <4>2. <<>> \o seqs[m + 1] \in Seq(X) /\ \E k2, l2 : ComesFrom(k2, l2, <<>> \o seqs[m + 1], seqs, m + 1)
        <5>1. ComesFrom(<<>>, <<>>, <<>>, seqs, m)
          BY <1>2, <3>1
        <5> HIDE DEF Holds
        <5> QED BY <1>2, <2>5, <5>1, ComesFromOneMore
      <4> QED BY <4>1, <4>2
    <3>2. CASE m # 0
      <4>1. m \in 1..Len(seqs) /\ m + 1 # 1 /\ m + 1 - 1 = m
        BY <1>1, <2>5, <3>2
      <4>2. f[m + 1] = f[m] \o seqs[m + 1]
        <5>1. f[m + 1] = IF m + 1 = 1 THEN seqs[m + 1] ELSE f[m + 1 - 1] \o seqs[m + 1]
          BY <2>3, <2>5
        <5> QED BY <4>1, <5>1
      <4>3. f[m] \in Seq(X)
        BY <2>5, <4>1
      <4>4. PICK k, l : ComesFrom(k, l, f[m], seqs, m)
        BY <2>5, <4>1
      <4>5. f[m] \o seqs[m + 1] \in Seq(X) /\ \E k2, l2 : ComesFrom(k2, l2, f[m] \o seqs[m + 1], seqs, m + 1)
        <5> HIDE DEF Holds
        <5> QED BY <2>5, <4>3, <4>4, ComesFromOneMore
      <4> QED BY <4>2, <4>5
    <3> QED BY <3>1, <3>2
  <2>6. Nat \subseteq S
    <3>1. ASSUME NEW m \in Nat, m \in S PROVE m + 1 \in S
      <4>1. m + 1 \in Nat /\ (m + 1 \in 1..Len(seqs) => Holds(m + 1))
        <5> HIDE DEF Holds, S
        <5> QED BY <2>5, <3>1
      <4> HIDE DEF Holds
      <4> QED BY <4>1
    <3> HIDE DEF S
    <3> QED BY <2>4, <3>1, NaturalsOneByOne
  <2>7. Holds(Len(seqs))
    <3>1. Len(seqs) \in 1..Len(seqs)
      BY <1>1, <1>4
    <3> HIDE DEF Holds
    <3> QED BY <1>1, <2>6, <3>1
  <2> QED BY <2>2, <2>7
<1> QED BY <1>3, <1>4

-----------------------------------------------------------------------------
(* The objects and the list of a connection.                                *)

\* The list of a connection has every object that is still exported, once.
ListInv ==
    /\ exported \subseteq Objects /\ Exportable(exported)
    /\ dbus_objects.state \in {"NULL", "held", "freed"}
    /\ connected = (dbus_objects.state = "held")
    /\ dbus_objects.objects \in Seq(Objects) /\ IsInjective(dbus_objects.objects)
    /\ connected => exported \subseteq ToSet(dbus_objects.objects)
    /\ ~connected => dbus_objects.objects = <<>>

\* An answer is what one of the calls returns in the present state: nothing
\* changes before the application has used it.
AnswerInv ==
    answer # NoAnswer =>
        \E failed \in Failed :
            \/ answer = PrimaryAnswer(failed)
            \/ \E range \in Ranges : answer = CharRangeAnswer(range[1], range[2], failed)
            \/ \E uuid \in Wanted : answer = ReadAnswer(uuid, failed) \/ answer = WriteAnswer(uuid, failed)
            \/ \E handle \in Handles : answer = WriteHandleAnswer(handle, failed)

DatabaseInv == ListInv /\ AnswerInv

\* What BlueZ exports is a service, a characteristic or a battery.
LEMMA ObjectTypes ==
    ASSUME NEW o \in Objects
    PROVE  /\ IsService(o) \/ IsCharacteristic(o) \/ IsBattery(o)
           /\ ~(IsService(o) /\ IsCharacteristic(o)) /\ ~(IsCharacteristic(o) /\ IsBattery(o))
           /\ ~(IsService(o) /\ IsBattery(o))
           /\ o.service \in Nat /\ o.handle \in Nat /\ o.uuid \in Text
           /\ IsService(o) => o.service = o.handle
  BY DatabaseAssumption DEF IsObject, Interfaces, IsService, IsCharacteristic, IsBattery

\* Two objects of a device have two handles, and a characteristic comes after its
\* service and before the next one.
LEMMA HandlesDiffer ==
    ASSUME NEW o \in Objects, NEW p \in Objects, ~IsBattery(o), ~IsBattery(p), o.device = p.device
    PROVE  /\ o.handle = p.handle => o = p
           /\ IsCharacteristic(o) => o.handle > o.service /\ ~(o.service < p.service /\ p.service <= o.handle)
<1>1. "Battery1" \notin {o.interface, p.interface}
  BY DEF IsBattery
<1> QED BY <1>1, DatabaseAssumption DEF Layout, IsCharacteristic

\* A characteristic has one service.
LEMMA ServiceOfCharacteristic ==
    ASSUME NEW c \in Objects, IsCharacteristic(c)
    PROVE  /\ ServiceOf(c) \in Objects /\ IsService(ServiceOf(c)) /\ BelongsTo(c, ServiceOf(c))
           /\ \A s \in Objects : IsService(s) /\ BelongsTo(c, s) => s = ServiceOf(c)
<1>1. \E s \in Objects : IsService(s) /\ BelongsTo(c, s)
  BY DatabaseAssumption DEF Layout, IsCharacteristic, IsService, BelongsTo
<1>2. ServiceOf(c) \in Objects /\ IsService(ServiceOf(c)) /\ BelongsTo(c, ServiceOf(c))
  BY <1>1 DEF ServiceOf
<1>3. ASSUME NEW s \in Objects, IsService(s), BelongsTo(c, s) PROVE s = ServiceOf(c)
  <2> DEFINE p == ServiceOf(c)
  <2>1. p \in Objects /\ IsService(p) /\ BelongsTo(c, p)
    BY <1>2
  <2> HIDE DEF p
  <2>2. s.handle = p.handle /\ s.device = p.device
    BY <1>3, <2>1, ObjectTypes DEF BelongsTo
  <2>3. ~IsBattery(s) /\ ~IsBattery(p)
    BY <1>3, <2>1, ObjectTypes
  <2>4. s = p
    BY <1>3, <2>1, <2>2, <2>3, HandlesDiffer
  <2> QED BY <2>4 DEF p
<1> QED BY <1>2, <1>3

\* A loop over the list of the connection sees each object that is still exported
\* once, and nothing when there is no connection.
LEMMA ListedMembers ==
    ASSUME ListInv
    PROVE  /\ Listed \in Seq(Objects) /\ IsInjective(Listed)
           /\ ToSet(Listed) = Snapshot
           /\ Snapshot \subseteq exported /\ Snapshot \subseteq Objects
           /\ Snapshot = IF connected THEN exported ELSE {}
<1>1. dbus_objects.objects \in Seq(Objects) /\ IsInjective(dbus_objects.objects) /\ exported \subseteq Objects
  BY DEF ListInv
<1>2. Snapshot = ToSet(dbus_objects.objects) \cap exported
  BY DEF Snapshot, ToSet
<1>3. Listed \in Seq(Objects) /\ IsInjective(Listed) /\ ToSet(Listed) = ToSet(dbus_objects.objects) \cap exported
  BY <1>1, FilteredMembers DEF Listed
<1>4. ~connected => ToSet(dbus_objects.objects) = {}
  <2>1. ~connected => dbus_objects.objects = <<>>
    BY DEF ListInv
  <2> QED BY <2>1 DEF ToSet
<1>5. connected => exported \subseteq ToSet(dbus_objects.objects)
  BY DEF ListInv
<1> QED BY <1>1, <1>2, <1>3, <1>4, <1>5

\* What a loop over the objects of the connection takes.
LEMMA TakenMembers ==
    ASSUME ListInv, NEW set
    PROVE  /\ Filtered(Listed, set) \in Seq(Objects) /\ IsInjective(Filtered(Listed, set))
           /\ ToSet(Filtered(Listed, set)) = Snapshot \cap set
           /\ Filtered(Listed, set) = <<>> <=> Snapshot \cap set = {}
           /\ Filtered(Listed, set) # <<>> =>
                 /\ Head(Filtered(Listed, set)) \in Snapshot \cap set
                 /\ Last(Filtered(Listed, set)) \in Snapshot \cap set
<1> DEFINE t == Filtered(Listed, set)
<1>1. Listed \in Seq(Objects) /\ IsInjective(Listed) /\ ToSet(Listed) = Snapshot
  BY ListedMembers
<1>2. t \in Seq(Objects) /\ IsInjective(t) /\ ToSet(t) = Snapshot \cap set /\ (t = <<>> <=> Snapshot \cap set = {})
  BY <1>1, FilteredMembers
<1> HIDE DEF t
<1>3. ASSUME t # <<>> PROVE Head(t) \in ToSet(t) /\ Last(t) \in ToSet(t)
  <2>1. Len(t) \in Nat /\ Len(t) # 0 /\ DOMAIN t = 1..Len(t)
    BY <1>2, <1>3, EmptySeq
  <2>2. Head(t) = t[1] /\ Last(t) = t[Len(t)]
    BY <1>2, <1>3 DEF Last
  <2>3. 1 \in DOMAIN t /\ Len(t) \in DOMAIN t
    BY <2>1
  <2> QED BY <2>2, <2>3 DEF ToSet
<1> QED BY <1>2, <1>3 DEF t

\* The handles of the objects of a list have a bound.
LEMMA HandlesBounded ==
    ASSUME NEW list \in Seq(Objects)
    PROVE  \E b \in Nat : \A o \in ToSet(list) : o.handle <= b
<1> DEFINE Bounded(m) == \E b \in Nat : \A i \in 1..Len(list) : i <= m => list[i].handle <= b
           S == {m \in Nat : Bounded(m)}
<1>1. 0 \in S
  <2>1. Bounded(0)
    <3>1. \A i \in 1..Len(list) : ~(i <= 0)
      OBVIOUS
    <3> QED BY <3>1
  <2> HIDE DEF Bounded
  <2> QED BY <2>1
<1>2. ASSUME NEW m \in Nat, m \in S PROVE m + 1 \in S
  <2>1. PICK b \in Nat : \A i \in 1..Len(list) : i <= m => list[i].handle <= b
    BY <1>2
  <2>2. \A i \in 1..Len(list) : list[i] \in Objects /\ list[i].handle \in Nat
    BY ObjectTypes
  <2>3. \A i \in 1..Len(list) : i <= m + 1 => i <= m \/ i = m + 1
    OBVIOUS
  <2>4. Bounded(m + 1)
    <3>1. CASE m + 1 \in 1..Len(list)
      <4> DEFINE h == list[m + 1].handle
                 d == IF h <= b THEN b ELSE h
      <4>1. h \in Nat /\ d \in Nat /\ h <= d /\ b <= d
        <5>1. h \in Nat
          BY <2>2, <3>1
        <5> HIDE DEF h
        <5> QED BY <5>1
      <4>2. ASSUME NEW i \in 1..Len(list), i <= m + 1 PROVE list[i].handle <= d
        <5>1. CASE i = m + 1
          BY <4>1, <5>1
        <5>2. CASE i <= m
          <6>1. list[i].handle <= b /\ list[i].handle \in Nat
            BY <2>1, <2>2, <5>2
          <6> HIDE DEF d
          <6> QED BY <4>1, <6>1
        <5> QED BY <2>3, <4>2, <5>1, <5>2
      <4> HIDE DEF d
      <4> QED BY <4>1, <4>2
    <3>2. CASE m + 1 \notin 1..Len(list)
      <4>1. \A i \in 1..Len(list) : i <= m + 1 => i <= m
        BY <2>3, <3>2
      <4> QED BY <2>1, <4>1
    <3> QED BY <3>1, <3>2
  <2> HIDE DEF Bounded
  <2> QED BY <2>4
<1>3. Nat \subseteq S
  <2> HIDE DEF S
  <2> QED BY <1>1, <1>2, NaturalsOneByOne
<1>4. Len(list) \in Nat
  OBVIOUS
<1>5. Bounded(Len(list))
  <2> HIDE DEF Bounded
  <2> QED BY <1>3, <1>4
<1>6. \A i \in 1..Len(list) : i <= Len(list)
  BY <1>4
<1>7. DOMAIN list = 1..Len(list)
  OBVIOUS
<1>8. PICK b \in Nat : \A i \in 1..Len(list) : list[i].handle <= b
  BY <1>5, <1>6
<1> QED BY <1>7, <1>8 DEF ToSet

-----------------------------------------------------------------------------
(* The ranges of the services.                                              *)

\* The end of a service: the last handle of its characteristics, or its own.
LEMMA HandleEndOfService ==
    ASSUME ListInv, NEW s \in Objects, IsService(s)
    PROVE  /\ HandleEnd(s) \in Nat
           /\ \A c \in Snapshot \cap CharacteristicsOf(s) : c.handle <= HandleEnd(s)
           /\ \/ HandleEnd(s) = s.handle
              \/ \E c \in Snapshot \cap CharacteristicsOf(s) : HandleEnd(s) = c.handle
<1> DEFINE T == {s.handle} \cup {c.handle : c \in ToSet(Listed) \cap CharacteristicsOf(s)}
<1>1. Listed \in Seq(Objects) /\ ToSet(Listed) = Snapshot /\ Snapshot \subseteq Objects
  BY ListedMembers
<1>2. s.handle \in Nat /\ \A c \in Snapshot : c.handle \in Nat
  BY <1>1, ObjectTypes
<1>3. PICK b \in Nat : \A c \in Snapshot : c.handle <= b
  BY <1>1, HandlesBounded
<1>4. T \in SUBSET Nat /\ T # {}
  BY <1>1, <1>2
<1>5. b + s.handle \in Nat /\ \A x \in T : x <= b + s.handle
  BY <1>1, <1>2, <1>3
<1>6. Max(T) \in T /\ \A x \in T : x <= Max(T)
  <2> HIDE DEF T
  <2> QED BY <1>4, <1>5, MaxOfBounded
<1>7. HandleEnd(s) = Max(T)
  BY DEF HandleEnd
<1> QED BY <1>1, <1>4, <1>6, <1>7

\* The range of a service ends before the next service of the device.
LEMMA HandleEndBeforeNext ==
    ASSUME ListInv, NEW s \in Objects, NEW p \in Objects, IsService(s), IsService(p),
           s.device = p.device, s.handle < p.handle
    PROVE  HandleEnd(s) < p.handle
<1>1. CASE HandleEnd(s) = s.handle
  BY <1>1
<1>2. ASSUME NEW c \in Snapshot \cap CharacteristicsOf(s), HandleEnd(s) = c.handle
      PROVE  HandleEnd(s) < p.handle
  <2>1. c \in Objects /\ IsCharacteristic(c) /\ BelongsTo(c, s)
    BY DEF CharacteristicsOf
  <2>2. c.service = s.service /\ s.service = s.handle /\ p.service = p.handle /\ c.device = p.device
    BY <2>1, ObjectTypes DEF BelongsTo
  <2>3. ~IsBattery(c) /\ ~IsBattery(p)
    BY <2>1, ObjectTypes
  <2>4. ~(c.service < p.service /\ p.service <= c.handle)
    BY <2>1, <2>2, <2>3, HandlesDiffer
  <2>5. c.handle \in Nat /\ p.handle \in Nat /\ s.handle \in Nat
    BY <2>1, ObjectTypes
  <2> QED BY <1>2, <2>2, <2>4, <2>5
<1> QED BY <1>1, <1>2, HandleEndOfService

\* A text that BlueZ gives has a UUID, which is the same when it is printed and
\* read again.
LEMMA TextIsRead ==
    ASSUME NEW text \in Text
    PROVE  /\ gattlib_string_to_uuid(text) \in Specified
           /\ gattlib_string_to_uuid(gattlib_uuid_to_string(gattlib_string_to_uuid(text)))
                  = gattlib_string_to_uuid(text)
<1> DEFINE u == gattlib_string_to_uuid(text)
<1>1. CASE text \in [form : {"four"}, value : {<<low>> : low \in Half}]
  <2>1. PICK low \in Half : text.value = <<low>> /\ text.form = "four"
    BY <1>1
  <2>2. u = [type |-> "SDP_UUID16", value |-> <<low>>]
    BY <2>1 DEF gattlib_string_to_uuid, is_base_uuid128
  <2> HIDE DEF u
  <2>3. u \in Specified /\ u.type = "SDP_UUID16"
    BY <2>2 DEF Specified, Uuid16
  <2> QED BY <2>3, PrintedIsRead DEF u
<1>2. CASE text \in [form : {"eight"}, value : Half \X Half]
  <2>1. u = [type |-> "SDP_UUID32", value |-> text.value] /\ text.value \in Half \X Half
    BY <1>2 DEF gattlib_string_to_uuid, is_base_uuid128
  <2> HIDE DEF u
  <2>2. u \in Specified /\ u.type = "SDP_UUID32"
    BY <2>1 DEF Specified, Uuid32
  <2> QED BY <2>2, PrintedIsRead DEF u
<1>3. CASE text \in [form : {"long"}, value : Half \X Half \X Bases] /\ is_base_uuid128(text)
  <2>1. u = [type |-> "SDP_UUID16", value |-> <<text.value[2]>>] /\ text.value[2] \in Half
    BY <1>3 DEF gattlib_string_to_uuid, is_base_uuid128
  <2> HIDE DEF u
  <2>2. u \in Specified /\ u.type = "SDP_UUID16"
    BY <2>1 DEF Specified, Uuid16
  <2> QED BY <2>2, PrintedIsRead DEF u
<1>4. CASE text \in [form : {"long"}, value : Half \X Half \X Bases] /\ ~is_base_uuid128(text)
  <2>1. u = [type |-> "SDP_UUID128", value |-> text.value] /\ text.value \in Half \X Half \X Bases
        /\ ~(text.value[1] = 0 /\ text.value[3] = BluetoothBase)
    BY <1>4 DEF gattlib_string_to_uuid, is_base_uuid128
  <2> HIDE DEF u
  <2>2. u \in Specified /\ ~(u.value[1] = 0 /\ u.value[3] = BluetoothBase)
    BY <2>1 DEF Specified, Uuid128
  <2> QED BY <2>2, PrintedIsRead DEF u
<1> QED BY <1>1, <1>2, <1>3, <1>4 DEF Text

\* The two UUIDs that the searches know of.
LEMMA ShortIsSpecified ==
    /\ Short(BatteryLevel) \in Specified /\ Short(ClientConfiguration) \in Specified
    /\ BatteryCharacteristic = [handle |-> 0, uuid |-> Short(BatteryLevel)]
<1>1. BatteryLevel \in Half /\ ClientConfiguration \in Half
  BY DatabaseAssumption
<1>2. \A low \in Half : Short(low) \in Specified
  BY DEF Short, Specified, Uuid16
<1>3. gattlib_string_to_uuid([form |-> "long", value |-> <<0, BatteryLevel, BluetoothBase>>]) = Short(BatteryLevel)
  BY DEF gattlib_string_to_uuid, is_base_uuid128, Short
<1> QED BY <1>1, <1>2, <1>3 DEF BatteryCharacteristic

\* The services that a discovery should return.
PrimaryServices(failed) == {s \in Snapshot : IsService(s) /\ s.device = Device /\ s.primary /\ s \notin failed}

\* What gattlib_discover_primary goes through: each primary service once.
LEMMA DiscoveredServices ==
    ASSUME ListInv, NEW failed
    PROVE  \E of \in Seq(Objects) :
              /\ IsInjective(of) /\ ToSet(of) = PrimaryServices(failed)
              /\ discover_primary(failed) =
                    [i \in DOMAIN of |->
                        [attr_handle_start |-> of[i].handle, attr_handle_end |-> HandleEnd(of[i]),
                         uuid |-> gattlib_string_to_uuid(of[i].uuid)]]
<1> DEFINE set == {s \in Objects : IsService(s) /\ s \notin failed /\ s.device = Device /\ s.primary}
           of == Filtered(Listed, set)
<1>1. of \in Seq(Objects) /\ IsInjective(of) /\ ToSet(of) = Snapshot \cap set
  BY TakenMembers
<1>2. Snapshot \cap set = PrimaryServices(failed)
  BY ListedMembers DEF PrimaryServices
<1>3. discover_primary(failed) =
        [i \in DOMAIN of |->
            [attr_handle_start |-> of[i].handle, attr_handle_end |-> HandleEnd(of[i]),
             uuid |-> gattlib_string_to_uuid(of[i].uuid)]]
  BY DEF discover_primary
<1> QED
  <2> HIDE DEF of, set
  <2> QED BY <1>1, <1>2, <1>3

\* The ranges of the services of a discovery.
LEMMA PrimaryRanges ==
    ASSUME ListInv, NEW failed
    PROVE  LET services == discover_primary(failed)
               expected == PrimaryServices(failed)
           IN  /\ \A i \in DOMAIN services :
                     /\ services[i].attr_handle_start \in Nat /\ services[i].attr_handle_end \in Nat
                     /\ services[i].uuid \in Specified
               /\ {services[i].attr_handle_start : i \in DOMAIN services} = {s.handle : s \in expected}
               /\ \A i, j \in DOMAIN services : i # j =>
                     \/ services[i].attr_handle_end < services[j].attr_handle_start
                     \/ services[j].attr_handle_end < services[i].attr_handle_start
               /\ \A c \in Snapshot : IsCharacteristic(c) /\ ServiceOf(c) \in expected =>
                     \E i \in DOMAIN services : /\ services[i].attr_handle_start = c.service
                                                /\ c.handle <= services[i].attr_handle_end
<1> DEFINE services == discover_primary(failed)
           expected == PrimaryServices(failed)
<1>1. PICK of \in Seq(Objects) :
         /\ IsInjective(of) /\ ToSet(of) = expected
         /\ services = [i \in DOMAIN of |->
                           [attr_handle_start |-> of[i].handle, attr_handle_end |-> HandleEnd(of[i]),
                            uuid |-> gattlib_string_to_uuid(of[i].uuid)]]
  BY DiscoveredServices
<1> HIDE DEF services, expected
<1>2. /\ DOMAIN services = DOMAIN of
      /\ \A i \in DOMAIN of : /\ services[i].attr_handle_start = of[i].handle
                              /\ services[i].attr_handle_end = HandleEnd(of[i])
                              /\ services[i].uuid = gattlib_string_to_uuid(of[i].uuid)
  BY <1>1
<1>3. \A s \in expected : s \in Objects /\ s \in Snapshot /\ IsService(s) /\ s.device = Device
  BY ListedMembers DEF expected, PrimaryServices
<1>4. /\ \A i \in DOMAIN of : of[i] \in expected
      /\ \A s \in expected : \E i \in DOMAIN of : of[i] = s
  BY <1>1 DEF ToSet
<1>5. \A i \in DOMAIN services : /\ services[i].attr_handle_start \in Nat /\ services[i].attr_handle_end \in Nat
                                 /\ services[i].uuid \in Specified
  BY <1>2, <1>3, <1>4, ObjectTypes, HandleEndOfService, TextIsRead
<1>6. {services[i].attr_handle_start : i \in DOMAIN services} = {s.handle : s \in expected}
  <2>1. \A i \in DOMAIN services : services[i].attr_handle_start \in {s.handle : s \in expected}
    BY <1>2, <1>4
  <2>2. \A s \in expected : \E i \in DOMAIN services : services[i].attr_handle_start = s.handle
    BY <1>2, <1>4
  <2> QED BY <2>1, <2>2
<1>7. ASSUME NEW i \in DOMAIN services, NEW j \in DOMAIN services, i # j
      PROVE  \/ services[i].attr_handle_end < services[j].attr_handle_start
             \/ services[j].attr_handle_end < services[i].attr_handle_start
  <2> DEFINE s == of[i]
             p == of[j]
  <2>1. s # p
    BY <1>1, <1>2, <1>7 DEF IsInjective
  <2>2. s \in Objects /\ p \in Objects /\ IsService(s) /\ IsService(p) /\ s.device = p.device
    BY <1>2, <1>3, <1>4
  <2>3. /\ services[i].attr_handle_end = HandleEnd(s) /\ services[j].attr_handle_start = p.handle
        /\ services[j].attr_handle_end = HandleEnd(p) /\ services[i].attr_handle_start = s.handle
    BY <1>2
  <2> HIDE DEF s, p
  <2>4. s.handle # p.handle /\ s.handle \in Nat /\ p.handle \in Nat
    BY <2>1, <2>2, ObjectTypes, HandlesDiffer
  <2>5. s.handle < p.handle \/ p.handle < s.handle
    BY <2>4
  <2> QED BY <2>2, <2>3, <2>5, HandleEndBeforeNext
<1>8. ASSUME NEW c \in Snapshot, IsCharacteristic(c), ServiceOf(c) \in expected
      PROVE  \E i \in DOMAIN services : /\ services[i].attr_handle_start = c.service
                                        /\ c.handle <= services[i].attr_handle_end
  <2> DEFINE s == ServiceOf(c)
  <2>1. PICK i \in DOMAIN of : of[i] = s
    BY <1>4, <1>8
  <2>2. c \in Objects /\ s \in Objects /\ IsService(s) /\ BelongsTo(c, s)
    BY <1>8, ListedMembers, ServiceOfCharacteristic
  <2> HIDE DEF s
  <2>3. c.service = s.handle
    BY <2>2, ObjectTypes DEF BelongsTo
  <2>4. c \in Snapshot \cap CharacteristicsOf(s)
    BY <1>8, <2>2 DEF CharacteristicsOf
  <2>5. c.handle <= HandleEnd(s)
    BY <2>2, <2>4, HandleEndOfService
  <2> QED BY <1>2, <2>1, <2>3, <2>5
<1> QED
  BY <1>5, <1>6, <1>7, <1>8 DEF services, expected

\* The characteristics that a discovery of a range should return.
CharacteristicsIn(start, end, failed) ==
    {c \in Snapshot : /\ IsCharacteristic(c) /\ c.device = Device
                      /\ {c, ServiceOf(c)} \cap failed = {}
                      /\ c.handle \in start .. end}

\* An entry of an answer has a handle and a UUID that was read.
LEMMA EntryIsEntry ==
    /\ BatteryCharacteristic \in Entries
    /\ \A c \in Objects : Entry(c) \in Entries
  BY ShortIsSpecified, ObjectTypes, TextIsRead DEF Entries, Entry

\* Each entry of a list is of an object of its own: a battery, or one of some
\* characteristics, each of which has an entry.
EntriesFrom(from, entries, chars) ==
    /\ from \in [1..Len(entries) -> Snapshot] /\ IsInjective(from)
    /\ \A i \in 1..Len(entries) :
          \/ IsBattery(from[i]) /\ entries[i] = BatteryCharacteristic
          \/ from[i] \in chars /\ entries[i] = Entry(from[i])
    /\ \A c \in chars : \E i \in 1..Len(entries) : from[i] = c

\* The characteristics of one service.
OfService(chars, s) == {c \in chars : ServiceOf(c) = s}

\* What a service adds to the answer: its characteristics in the range.
LEMMA AddedCharacteristics ==
    ASSUME ListInv, NEW s \in Snapshot, IsService(s), s.device = Device, NEW failed, s \notin failed,
           NEW start \in Nat, NEW end \in Nat
    PROVE  /\ add_characteristics_from_service(s, start, end, failed) \in Seq(Entries)
           /\ \E from :
                 /\ EntriesFrom(from, add_characteristics_from_service(s, start, end, failed),
                                OfService(CharacteristicsIn(start, end, failed), s))
                 /\ \A i \in 1..Len(add_characteristics_from_service(s, start, end, failed)) :
                       from[i] \in OfService(CharacteristicsIn(start, end, failed), s)
<1> DEFINE set == {c \in CharacteristicsOf(s) \ failed : start <= c.handle /\ c.handle <= end}
           of == Filtered(Listed, set)
           added == add_characteristics_from_service(s, start, end, failed)
           chars == OfService(CharacteristicsIn(start, end, failed), s)
<1>1. of \in Seq(Objects) /\ IsInjective(of) /\ ToSet(of) = Snapshot \cap set
  BY TakenMembers
<1>2. added = [i \in DOMAIN of |-> Entry(of[i])]
  BY DEF add_characteristics_from_service
<1>3. ASSUME NEW c \in Snapshot PROVE c \in set <=> c \in chars
  <2>1. c \in Objects /\ s \in Objects /\ c.handle \in Nat
    BY ListedMembers, ObjectTypes
  <2>2. IsCharacteristic(c) => (BelongsTo(c, s) <=> ServiceOf(c) = s)
    BY <2>1, ServiceOfCharacteristic
  <2>3. BelongsTo(c, s) => c.device = Device
    BY DEF BelongsTo
  <2>4. c.handle \in start .. end <=> start <= c.handle /\ c.handle <= end
    BY <2>1
  <2> QED BY <2>1, <2>2, <2>3, <2>4 DEF CharacteristicsOf, CharacteristicsIn, OfService
<1>4. chars \subseteq Snapshot
  BY DEF CharacteristicsIn, OfService
<1> HIDE DEF of, set, added, chars
<1>5. DOMAIN of = 1..Len(of) /\ Len(of) \in Nat
  BY <1>1
<1>6. \A i \in 1..Len(of) : of[i] \in Snapshot /\ of[i] \in chars
  BY <1>1, <1>3, <1>5 DEF ToSet
<1>7. \A c \in chars : \E i \in 1..Len(of) : of[i] = c
  BY <1>1, <1>3, <1>4, <1>5 DEF ToSet
<1>8. of \in [1..Len(of) -> Snapshot]
  BY <1>1, <1>5, <1>6
<1>9. added \in Seq(Entries) /\ Len(added) = Len(of) /\ \A i \in 1..Len(of) : added[i] = Entry(of[i])
  <2>1. \A i \in 1..Len(of) : Entry(of[i]) \in Entries
    BY <1>1, EntryIsEntry
  <2>2. added = [i \in 1..Len(of) |-> Entry(of[i])]
    BY <1>2, <1>5
  <2>3. added \in Seq(Entries)
    BY <1>5, <2>1, <2>2, IsASeq
  <2> QED BY <1>5, <2>2, <2>3
<1>10. EntriesFrom(of, added, chars)
  BY <1>1, <1>6, <1>7, <1>8, <1>9 DEF EntriesFrom
<1>11. \A i \in 1..Len(added) : of[i] \in chars
  BY <1>6, <1>9
<1> QED
  BY <1>9, <1>10, <1>11 DEF added, chars

\* The object of the list that has added the entry of x.
AddedBy(x) == IF IsBattery(x) THEN x ELSE ServiceOf(x)

\* What one object of the list adds to the answer.
LEMMA AddedByObject ==
    ASSUME ListInv, NEW o \in Snapshot, NEW failed, NEW start \in Nat, NEW end \in Nat
    PROVE  /\ EntriesOf(o, start, end, failed) \in Seq(Entries)
           /\ \E from :
                 /\ EntriesFrom(from, EntriesOf(o, start, end, failed),
                                OfService(CharacteristicsIn(start, end, failed), o))
                 /\ \A i \in 1..Len(EntriesOf(o, start, end, failed)) : AddedBy(from[i]) = o
<1> DEFINE added == EntriesOf(o, start, end, failed)
           chars == OfService(CharacteristicsIn(start, end, failed), o)
           Good(from) == EntriesFrom(from, added, chars) /\ \A i \in 1..Len(added) : AddedBy(from[i]) = o
<1>1. o \in Objects /\ Snapshot \subseteq Objects
  BY ListedMembers
<1>2. \A c \in chars : /\ c \in Snapshot /\ c \in Objects /\ IsCharacteristic(c) /\ ServiceOf(c) = o
                       /\ o \notin failed /\ IsService(o) /\ o.device = Device
  <2> SUFFICES ASSUME NEW c \in chars
               PROVE  /\ c \in Snapshot /\ c \in Objects /\ IsCharacteristic(c) /\ ServiceOf(c) = o
                      /\ o \notin failed /\ IsService(o) /\ o.device = Device
    OBVIOUS
  <2>1. /\ c \in Snapshot /\ c \in Objects /\ IsCharacteristic(c) /\ ServiceOf(c) = o
        /\ c.device = Device /\ o \notin failed
    BY <1>1 DEF CharacteristicsIn, OfService
  <2> QED BY <2>1, ServiceOfCharacteristic DEF BelongsTo
<1>3. CASE IsBattery(o)
  <2>1. added = <<BatteryCharacteristic>>
    <3>1. ~IsService(o)
      BY <1>1, <1>3, ObjectTypes
    <3> QED BY <1>3, <3>1 DEF EntriesOf
  <2>2. added \in Seq(Entries) /\ Len(added) = 1 /\ added[1] = BatteryCharacteristic
    BY <2>1, EntryIsEntry
  <2>3. chars = {}
    BY <1>1, <1>2, <1>3, ObjectTypes
  <2>4. Good(<<o>>)
    <3>1. IsInjective(<<o>>)
      BY DEF IsInjective
    <3> HIDE DEF added, chars
    <3> QED BY <1>3, <2>2, <2>3, <3>1 DEF EntriesFrom, AddedBy
  <2> HIDE DEF Good
  <2>5. \E from : Good(from)
    BY <2>4
  <2> QED BY <2>2, <2>5 DEF Good
<1>4. CASE IsService(o) /\ o \notin failed /\ o.device = Device
  <2>1. ~IsBattery(o)
    BY <1>1, <1>4, ObjectTypes
  <2>2. added = add_characteristics_from_service(o, start, end, failed)
    BY <1>4, <2>1 DEF EntriesOf
  <2> HIDE DEF added
  <2>3. /\ added \in Seq(Entries)
        /\ \E from : EntriesFrom(from, added, chars) /\ \A i \in 1..Len(added) : from[i] \in chars
    BY <1>4, <2>2, AddedCharacteristics
  <2>4. PICK from : EntriesFrom(from, added, chars) /\ \A i \in 1..Len(added) : from[i] \in chars
    BY <2>3
  <2>5. \A c \in chars : AddedBy(c) = o
    BY <1>2, ObjectTypes DEF AddedBy
  <2> HIDE DEF chars
  <2>6. Good(from)
    BY <2>4, <2>5
  <2> HIDE DEF Good
  <2>7. \E f : Good(f)
    BY <2>6
  <2> QED BY <2>3, <2>7 DEF Good, added, chars
<1>5. CASE ~IsBattery(o) /\ ~(IsService(o) /\ o \notin failed /\ o.device = Device)
  <2>1. added = <<>>
    BY <1>5 DEF EntriesOf
  <2>2. chars = {}
    BY <1>2, <1>5
  <2>3. Good(<<>>)
    <3>1. IsInjective(<<>>)
      BY DEF IsInjective
    <3> HIDE DEF added, chars
    <3> QED BY <2>1, <2>2, <3>1 DEF EntriesFrom
  <2>4. added \in Seq(Entries)
    BY <2>1
  <2> HIDE DEF Good
  <2>5. \E from : Good(from)
    BY <2>3
  <2> QED BY <2>4, <2>5 DEF Good
<1> QED BY <1>3, <1>4, <1>5

\* The answer of a discovery: one entry for each characteristic, although two
\* loops go through the objects of all the devices, and the entries of batteries.
LEMMA EntriesOfRange ==
    ASSUME ListInv, NEW failed, NEW start \in Nat, NEW end \in Nat
    PROVE  /\ discover_char_range(start, end, failed) \in Seq(Entries)
           /\ \E from : EntriesFrom(from, discover_char_range(start, end, failed),
                                    CharacteristicsIn(start, end, failed))
<1> DEFINE n == Len(Listed)
           seqs == [a \in 1..n |-> EntriesOf(Listed[a], start, end, failed)]
           t == discover_char_range(start, end, failed)
           chars == CharacteristicsIn(start, end, failed)
           Good(from, a) == /\ EntriesFrom(from, seqs[a], OfService(chars, Listed[a]))
                            /\ \A b \in 1..Len(seqs[a]) : AddedBy(from[b]) = Listed[a]
           src == [a \in 1..n |-> CHOOSE from : Good(from, a)]
<1>1. Listed \in Seq(Objects) /\ IsInjective(Listed) /\ ToSet(Listed) = Snapshot
  BY ListedMembers
<1>2. /\ DOMAIN Listed = 1..n /\ n \in Nat
      /\ \A a \in 1..n : Listed[a] \in Snapshot
      /\ \A s \in Snapshot : \E a \in 1..n : Listed[a] = s
      /\ \A a, b \in 1..n : Listed[a] = Listed[b] => a = b
  <2>1. DOMAIN Listed = 1..n /\ n \in Nat
    BY <1>1
  <2> HIDE DEF n
  <2> QED BY <1>1, <2>1 DEF ToSet, IsInjective
<1>3. ASSUME NEW a \in 1..n PROVE seqs[a] \in Seq(Entries) /\ \E from : Good(from, a)
  <2>1. seqs[a] = EntriesOf(Listed[a], start, end, failed)
    OBVIOUS
  <2>2. Listed[a] \in Snapshot
    BY <1>2
  <2> DEFINE o == Listed[a]
  <2>3. /\ EntriesOf(o, start, end, failed) \in Seq(Entries)
        /\ \E from :
              /\ EntriesFrom(from, EntriesOf(o, start, end, failed), OfService(chars, o))
              /\ \A i \in 1..Len(EntriesOf(o, start, end, failed)) : AddedBy(from[i]) = o
    BY <2>2, AddedByObject
  <2> HIDE DEF seqs, chars
  <2> QED BY <2>1, <2>3
<1>4. t = FlattenSeq(seqs)
  BY <1>2 DEF discover_char_range
<1>5. seqs \in Seq(Seq(Entries)) /\ Len(seqs) = n
  <2>1. \A a \in 1..n : EntriesOf(Listed[a], start, end, failed) \in Seq(Entries)
    BY <1>3
  <2>2. seqs \in Seq(Seq(Entries))
    BY <1>2, <2>1, IsASeq
  <2> QED BY <1>2, <2>2
<1> HIDE DEF n, seqs, t
<1>6. t \in Seq(Entries) /\ \E k, l : ComesFrom(k, l, t, seqs, n)
  BY <1>4, <1>5, FlattenComesFrom
<1>7. PICK k, l : ComesFrom(k, l, t, seqs, n)
  BY <1>6
<1>8. \A a \in 1..n : Good(src[a], a)
  <2> SUFFICES ASSUME NEW a \in 1..n PROVE Good(src[a], a)
    OBVIOUS
  <2> HIDE DEF Good
  <2>1. \E from : Good(from, a)
    BY <1>3
  <2>2. src[a] = CHOOSE from : Good(from, a)
    OBVIOUS
  <2> HIDE DEF src
  <2> QED BY <2>1, <2>2
<1> HIDE DEF src, chars
<1>9. /\ \A i \in 1..Len(t) : k[i] \in 1..n /\ l[i] \in 1..Len(seqs[k[i]]) /\ t[i] = seqs[k[i]][l[i]]
      /\ \A i, j \in 1..Len(t) : k[i] = k[j] /\ l[i] = l[j] => i = j
      /\ \A a \in 1..n : \A b \in 1..Len(seqs[a]) : \E i \in 1..Len(t) : k[i] = a /\ l[i] = b
  BY <1>7 DEF ComesFrom
<1> DEFINE f == [i \in 1..Len(t) |-> src[k[i]][l[i]]]
<1>10. \A a \in 1..n : \A b \in 1..Len(seqs[a]) :
          /\ src[a][b] \in Snapshot /\ AddedBy(src[a][b]) = Listed[a]
          /\ \/ IsBattery(src[a][b]) /\ seqs[a][b] = BatteryCharacteristic
             \/ src[a][b] \in chars /\ seqs[a][b] = Entry(src[a][b])
  <2> SUFFICES ASSUME NEW a \in 1..n, NEW b \in 1..Len(seqs[a])
               PROVE  /\ src[a][b] \in Snapshot /\ AddedBy(src[a][b]) = Listed[a]
                      /\ \/ IsBattery(src[a][b]) /\ seqs[a][b] = BatteryCharacteristic
                         \/ src[a][b] \in chars /\ seqs[a][b] = Entry(src[a][b])
    OBVIOUS
  <2>1. Good(src[a], a)
    BY <1>8
  <2>2. \A c \in OfService(chars, Listed[a]) : c \in chars
    BY DEF OfService
  <2> QED BY <2>1, <2>2 DEF EntriesFrom
<1>11. \A i \in 1..Len(t) :
          /\ f[i] \in Snapshot /\ AddedBy(f[i]) = Listed[k[i]]
          /\ \/ IsBattery(f[i]) /\ t[i] = BatteryCharacteristic
             \/ f[i] \in chars /\ t[i] = Entry(f[i])
  <2> SUFFICES ASSUME NEW i \in 1..Len(t)
               PROVE  /\ f[i] \in Snapshot /\ AddedBy(f[i]) = Listed[k[i]]
                      /\ \/ IsBattery(f[i]) /\ t[i] = BatteryCharacteristic
                         \/ f[i] \in chars /\ t[i] = Entry(f[i])
    OBVIOUS
  <2>1. f[i] = src[k[i]][l[i]]
    OBVIOUS
  <2> HIDE DEF f
  <2>2. k[i] \in 1..n /\ l[i] \in 1..Len(seqs[k[i]]) /\ t[i] = seqs[k[i]][l[i]]
    BY <1>9
  <2>3. /\ src[k[i]][l[i]] \in Snapshot /\ AddedBy(src[k[i]][l[i]]) = Listed[k[i]]
        /\ \/ IsBattery(src[k[i]][l[i]]) /\ seqs[k[i]][l[i]] = BatteryCharacteristic
           \/ src[k[i]][l[i]] \in chars /\ seqs[k[i]][l[i]] = Entry(src[k[i]][l[i]])
    BY <1>10, <2>2
  <2> QED BY <2>1, <2>2, <2>3
<1>12. f \in [1..Len(t) -> Snapshot]
  <2>1. f = [i \in 1..Len(t) |-> f[i]]
    OBVIOUS
  <2> HIDE DEF f
  <2> QED BY <1>11, <2>1
<1>13. ASSUME NEW i \in 1..Len(t), NEW j \in 1..Len(t), f[i] = f[j] PROVE i = j
  <2>1. Listed[k[i]] = Listed[k[j]]
    <3> HIDE DEF f
    <3> QED BY <1>11, <1>13
  <2>2. k[i] = k[j]
    BY <1>2, <1>9, <2>1
  <2>3. src[k[i]][l[i]] = src[k[i]][l[j]]
    BY <1>13, <2>2
  <2>4. IsInjective(src[k[i]]) /\ DOMAIN src[k[i]] = 1..Len(seqs[k[i]])
    BY <1>8, <1>9 DEF EntriesFrom
  <2>5. l[i] \in 1..Len(seqs[k[i]]) /\ l[j] \in 1..Len(seqs[k[i]])
    BY <1>9, <2>2
  <2>6. l[i] = l[j]
    BY <2>3, <2>4, <2>5 DEF IsInjective
  <2> QED BY <1>9, <2>2, <2>6
<1>14. ASSUME NEW c \in chars PROVE \E i \in 1..Len(t) : f[i] = c
  <2>1. c \in Snapshot /\ IsCharacteristic(c)
    BY DEF chars, CharacteristicsIn
  <2>2. ServiceOf(c) \in Snapshot
    BY <2>1, ListedMembers DEF ListInv, Exportable
  <2>3. PICK a \in 1..n : Listed[a] = ServiceOf(c)
    BY <1>2, <2>2
  <2>4. c \in OfService(chars, Listed[a])
    BY <2>3 DEF OfService
  <2>5. PICK b \in 1..Len(seqs[a]) : src[a][b] = c
    BY <1>8, <2>4 DEF EntriesFrom
  <2>6. PICK i \in 1..Len(t) : k[i] = a /\ l[i] = b
    BY <1>9
  <2> QED BY <2>5, <2>6
<1>15. EntriesFrom(f, t, chars)
  <2>1. IsInjective(f)
    <3>1. DOMAIN f = 1..Len(t)
      OBVIOUS
    <3> HIDE DEF f
    <3> QED BY <1>13, <3>1 DEF IsInjective
  <2> HIDE DEF f
  <2> QED BY <1>11, <1>12, <1>14, <2>1 DEF EntriesFrom
<1> HIDE DEF f
<1>16. \E from : EntriesFrom(from, t, chars)
  BY <1>15
<1> QED BY <1>6, <1>16 DEF t, chars

\* Two characteristics of a device that a discovery returns have two handles, and
\* none has the handle of the entry of a battery.
LEMMA OneEntryPerHandle ==
    ASSUME ListInv, NEW failed, NEW start \in Nat, NEW end \in Nat, NEW entries \in Seq(Entries), NEW from,
           EntriesFrom(from, entries, CharacteristicsIn(start, end, failed)),
           NEW c \in CharacteristicsIn(start, end, failed)
    PROVE  \E i \in 1..Len(entries) :
              from[i] = c /\ \A j \in DOMAIN entries : entries[j].handle = c.handle <=> j = i
<1> DEFINE chars == CharacteristicsIn(start, end, failed)
<1>1. PICK i \in 1..Len(entries) : from[i] = c
  BY DEF EntriesFrom
<1>2. \A d \in chars : d \in Objects /\ IsCharacteristic(d) /\ ~IsBattery(d) /\ d.device = Device
  BY ListedMembers, ObjectTypes DEF CharacteristicsIn
<1>3. c.handle \in Nat /\ c.service \in Nat /\ c.handle > c.service
  BY <1>2, ObjectTypes, HandlesDiffer
<1>4. BatteryCharacteristic.handle = 0 /\ \A d : Entry(d).handle = d.handle
  BY DEF BatteryCharacteristic, Entry
<1>5. entries[i].handle = c.handle
  <2>1. ~IsBattery(c)
    BY <1>2
  <2> QED BY <1>1, <1>4, <2>1 DEF EntriesFrom
<1>6. ASSUME NEW j \in 1..Len(entries), entries[j].handle = c.handle PROVE j = i
  <2>1. from[j] \in chars /\ entries[j] = Entry(from[j])
    <3>1. entries[j] # BatteryCharacteristic
      BY <1>3, <1>4, <1>6
    <3> QED BY <3>1 DEF EntriesFrom
  <2>2. from[j] = c
    BY <1>2, <1>4, <1>6, <2>1, HandlesDiffer
  <2> QED BY <1>1, <2>2 DEF EntriesFrom, IsInjective
<1>7. DOMAIN entries = 1..Len(entries)
  OBVIOUS
<1> QED BY <1>1, <1>5, <1>6, <1>7

\* A call changes nothing that the loops read: the list, the objects, the proxies
\* that may fail,
LEMMA SameListed ==
    ASSUME UNCHANGED <<exported, dbus_objects>>
    PROVE  Listed' = Listed /\ Failed' = Failed /\ Snapshot' = Snapshot
  BY DEF Listed, Failed, Snapshot

\* the services,
LEMMA SamePrimary ==
    ASSUME UNCHANGED <<exported, connected, dbus_objects>>, NEW failed
    PROVE  PrimaryAnswer(failed)' = PrimaryAnswer(failed)
  BY SameListed DEF PrimaryAnswer, discover_primary, HandleEnd

\* the characteristics,
LEMMA SameRange ==
    ASSUME UNCHANGED <<exported, connected, dbus_objects>>, NEW failed, NEW start, NEW end
    PROVE  CharRangeAnswer(start, end, failed)' = CharRangeAnswer(start, end, failed)
  BY SameListed DEF CharRangeAnswer, discover_char_range, EntriesOf, add_characteristics_from_service

\* and what the searches find.
LEMMA SameSearch ==
    ASSUME UNCHANGED <<exported, connected, dbus_objects>>, NEW failed, NEW uuid, NEW handle
    PROVE  /\ get_characteristic_from_uuid(uuid, failed)' = get_characteristic_from_uuid(uuid, failed)
           /\ get_characteristic_from_handle(handle, failed)' = get_characteristic_from_handle(handle, failed)
  BY SameListed DEF get_characteristic_from_uuid, get_characteristic_from_handle

\* What an answer was made of does not change before it is used.
LEMMA SameAnswers ==
    ASSUME UNCHANGED <<exported, connected, dbus_objects>>, NEW failed, NEW start, NEW end, NEW uuid, NEW handle
    PROVE  /\ PrimaryAnswer(failed)' = PrimaryAnswer(failed)
           /\ CharRangeAnswer(start, end, failed)' = CharRangeAnswer(start, end, failed)
           /\ ReadAnswer(uuid, failed)' = ReadAnswer(uuid, failed)
           /\ WriteAnswer(uuid, failed)' = WriteAnswer(uuid, failed)
           /\ WriteHandleAnswer(handle, failed)' = WriteHandleAnswer(handle, failed)
<1>1. ReadAnswer(uuid, failed)' = ReadAnswer(uuid, failed)
  BY SameSearch DEF ReadAnswer
<1>2. WriteAnswer(uuid, failed)' = WriteAnswer(uuid, failed)
  BY SameSearch DEF WriteAnswer
<1>3. WriteHandleAnswer(handle, failed)' = WriteHandleAnswer(handle, failed)
  BY SameSearch DEF WriteHandleAnswer
<1> QED
  BY <1>1, <1>2, <1>3, SamePrimary, SameRange

\* A removed service leaves with its characteristics, and the list keeps the rest.
LEMMA RemovedKeepsList ==
    ASSUME ListInv, NEW o \in Objects, BluezRemoves(o)
    PROVE  ListInv'
<1> DEFINE removed == {o} \cup {c \in exported : IsCharacteristic(c) /\ IsService(o) /\ BelongsTo(c, o)}
<1>1. exported' = exported \ removed /\ UNCHANGED <<connected, dbus_objects>>
  BY DEF BluezRemoves
<1>2. Exportable(exported \ removed)
  <2> SUFFICES ASSUME NEW c \in exported \ removed, IsCharacteristic(c)
               PROVE  ServiceOf(c) \in exported \ removed
    BY DEF Exportable
  <2>1. c \in Objects /\ ServiceOf(c) \in exported
    BY DEF ListInv, Exportable
  <2>2. IsService(ServiceOf(c)) /\ BelongsTo(c, ServiceOf(c)) /\ ServiceOf(c) \in Objects
    BY <2>1, ServiceOfCharacteristic
  <2>3. ~IsCharacteristic(ServiceOf(c))
    BY <2>2, ObjectTypes
  <2>4. ServiceOf(c) # o
    BY <2>2
  <2> QED BY <2>1, <2>3, <2>4
<1> HIDE DEF removed
<1> QED
  BY <1>1, <1>2 DEF ListInv, Exportable

\* The list is made of the objects exported when the services are resolved, in any
\* order.
LEMMA ResolvedMakesList ==
    ASSUME ListInv, Resolve
    PROVE  ListInv'
<1>1. PICK order \in Orders : dbus_objects' = [state |-> "held", objects |-> Filtered(order, exported)]
  BY DEF Resolve
<1>2. order \in Seq(Objects) /\ ToSet(order) = Objects /\ IsInjective(order)
  BY DatabaseAssumption
<1> DEFINE list == Filtered(order, exported)
<1>3. list \in Seq(Objects) /\ ToSet(list) = Objects \cap exported /\ IsInjective(list)
  BY <1>2, FilteredMembers
<1>4. connected' = TRUE /\ exported' = exported /\ dbus_objects'.state = "held" /\ dbus_objects'.objects = list
  BY <1>1 DEF Resolve
<1> HIDE DEF list
<1> QED
  BY <1>3, <1>4 DEF ListInv, Exportable

\* The inductive invariant of the connection and of the answers.
THEOREM DatabaseInvHolds == Spec => []DatabaseInv
<1>1. Init => DatabaseInv
  <2> SUFFICES ASSUME Init PROVE DatabaseInv
    OBVIOUS
  <2>1. IsInjective(<<>>) /\ <<>> \in Seq(Objects)
    BY DEF IsInjective
  <2>2. ListInv
    BY <2>1 DEF Init, ListInv, NoList
  <2>3. AnswerInv
    BY DEF Init, AnswerInv
  <2> QED BY <2>2, <2>3 DEF DatabaseInv
<1>2. DatabaseInv /\ [Next]_vars => DatabaseInv'
  <2> SUFFICES ASSUME DatabaseInv, [Next]_vars PROVE DatabaseInv'
    OBVIOUS
  <2>1. ListInv /\ AnswerInv
    BY DEF DatabaseInv
  <2>2. ASSUME NEW o \in Objects, BluezRemoves(o) PROVE DatabaseInv'
    <3>1. answer' = NoAnswer
      BY <2>2 DEF BluezRemoves
    <3>2. ListInv'
      BY <2>1, <2>2, RemovedKeepsList
    <3> QED BY <3>1, <3>2 DEF DatabaseInv, AnswerInv
  <2>3. CASE Resolve
    <3>1. answer' = NoAnswer
      BY <2>3 DEF Resolve
    <3>2. ListInv'
      BY <2>1, <2>3, ResolvedMakesList
    <3> QED BY <3>1, <3>2 DEF DatabaseInv, AnswerInv
  <2>4. CASE Disconnect
    <3>1. answer' = NoAnswer
      BY <2>4 DEF Disconnect
    <3>2. ListInv'
      <4>1. IsInjective(<<>>) /\ <<>> \in Seq(Objects)
        BY DEF IsInjective
      <4>2. /\ connected' = FALSE /\ exported' = exported
            /\ dbus_objects'.state = "freed" /\ dbus_objects'.objects = <<>>
        BY <2>4 DEF Disconnect
      <4> QED BY <2>1, <4>1, <4>2 DEF ListInv, Exportable
    <3> QED BY <3>1, <3>2 DEF DatabaseInv, AnswerInv
  <2>5. CASE UNCHANGED <<exported, connected, dbus_objects>>
    <3>1. ListInv'
      BY <2>1, <2>5 DEF ListInv, Exportable
    <3>2. ASSUME AnswerInv, answer' = answer PROVE AnswerInv'
      BY <2>5, <3>2, SameAnswers, SameListed DEF AnswerInv
    <3>3. ASSUME answer' = NoAnswer PROVE AnswerInv'
      BY <3>3 DEF AnswerInv
    <3>4. CASE Return
      BY <3>1, <3>3, <3>4 DEF Return, DatabaseInv
    <3>5. CASE DiscoverPrimary
      <4>1. PICK failed \in Failed : answer' = PrimaryAnswer(failed)
        BY <3>5 DEF DiscoverPrimary, Call
      <4>2. failed \in Failed' /\ answer' = PrimaryAnswer(failed)'
        BY <2>5, <4>1, SameAnswers, SameListed
      <4> QED BY <3>1, <4>2 DEF DatabaseInv, AnswerInv
    <3>6. ASSUME NEW range \in Ranges, DiscoverCharRange(range[1], range[2]) PROVE DatabaseInv'
      <4>1. PICK failed \in Failed : answer' = CharRangeAnswer(range[1], range[2], failed)
        BY <3>6 DEF DiscoverCharRange, Call
      <4>2. failed \in Failed' /\ answer' = CharRangeAnswer(range[1], range[2], failed)'
        BY <2>5, <4>1, SameAnswers, SameListed
      <4> QED BY <3>1, <4>2 DEF DatabaseInv, AnswerInv
    <3>7. ASSUME NEW uuid \in Wanted, ReadByUuid(uuid) PROVE DatabaseInv'
      <4>1. PICK failed \in Failed : answer' = ReadAnswer(uuid, failed)
        BY <3>7 DEF ReadByUuid, Call
      <4>2. failed \in Failed' /\ answer' = ReadAnswer(uuid, failed)'
        BY <2>5, <4>1, SameAnswers, SameListed
      <4> QED BY <3>1, <4>2 DEF DatabaseInv, AnswerInv
    <3>8. ASSUME NEW uuid \in Wanted, WriteByUuid(uuid) PROVE DatabaseInv'
      <4>1. PICK failed \in Failed : answer' = WriteAnswer(uuid, failed)
        BY <3>8 DEF WriteByUuid, Call
      <4>2. failed \in Failed' /\ answer' = WriteAnswer(uuid, failed)'
        BY <2>5, <4>1, SameAnswers, SameListed
      <4> QED BY <3>1, <4>2 DEF DatabaseInv, AnswerInv
    <3>9. ASSUME NEW handle \in Handles, WriteByHandle(handle) PROVE DatabaseInv'
      <4>1. PICK failed \in Failed : answer' = WriteHandleAnswer(handle, failed)
        BY <3>9 DEF WriteByHandle, Call
      <4>2. failed \in Failed' /\ answer' = WriteHandleAnswer(handle, failed)'
        BY <2>5, <4>1, SameAnswers, SameListed
      <4> QED BY <3>1, <4>2 DEF DatabaseInv, AnswerInv
    <3>10. CASE UNCHANGED vars
      BY <2>1, <3>1, <3>2, <3>10 DEF vars, DatabaseInv
    <3>11. \/ Return \/ DiscoverPrimary \/ UNCHANGED vars
           \/ \E range \in Ranges : DiscoverCharRange(range[1], range[2])
           \/ \E uuid \in Wanted : ReadByUuid(uuid) \/ WriteByUuid(uuid)
           \/ \E handle \in Handles : WriteByHandle(handle)
           \/ (\E o \in Objects : BluezRemoves(o)) \/ Resolve \/ Disconnect
      BY DEF Next
    <3> QED BY <2>2, <2>3, <2>4, <3>4, <3>5, <3>6, <3>7, <3>8, <3>9, <3>10, <3>11
  <2>6. \/ UNCHANGED <<exported, connected, dbus_objects>>
        \/ (\E o \in Objects : BluezRemoves(o)) \/ Resolve \/ Disconnect
    BY DEF Next, vars, Return, DiscoverPrimary, DiscoverCharRange, ReadByUuid, WriteByUuid, WriteByHandle, Call
  <2> QED BY <2>2, <2>3, <2>4, <2>5, <2>6
<1> QED
  BY <1>1, <1>2, PTL DEF Spec

\* The call that an answer is of.
LEMMA AnswerOfCall ==
    ASSUME AnswerInv
    PROVE  /\ answer.call \in {"none", "primary", "char_range", "read", "write", "write_handle"}
           /\ answer.call = "none" => answer = NoAnswer
           /\ answer.call = "primary" => \E failed \in Failed : answer = PrimaryAnswer(failed)
           /\ answer.call = "char_range" =>
                 \E failed \in Failed : \E range \in Ranges : answer = CharRangeAnswer(range[1], range[2], failed)
           /\ answer.call = "read" => \E failed \in Failed : \E uuid \in Wanted : answer = ReadAnswer(uuid, failed)
           /\ answer.call = "write" => \E failed \in Failed : \E uuid \in Wanted : answer = WriteAnswer(uuid, failed)
           /\ answer.call = "write_handle" =>
                 \E failed \in Failed : \E handle \in Handles : answer = WriteHandleAnswer(handle, failed)
<1>1. NoAnswer.call = "none"
  BY DEF NoAnswer
<1>2. \A failed, start, end, uuid, handle :
         /\ PrimaryAnswer(failed).call = "primary"
         /\ CharRangeAnswer(start, end, failed).call = "char_range"
         /\ ReadAnswer(uuid, failed).call = "read"
         /\ WriteAnswer(uuid, failed).call = "write"
         /\ WriteHandleAnswer(handle, failed).call = "write_handle"
  BY DEF PrimaryAnswer, CharRangeAnswer, ReadAnswer, WriteAnswer, WriteHandleAnswer
<1> QED
  BY <1>1, <1>2 DEF AnswerInv

-----------------------------------------------------------------------------
(* The search of a characteristic.                                          *)

\* The characteristics of this device that a search may use.
UsableCharacteristics(failed) ==
    {c \in Snapshot : IsCharacteristic(c) /\ {c, ServiceOf(c)} \cap failed = {} /\ c.device = Device}

\* The test of handle_dbus_gattcharacteristic_from_path: a characteristic of this
\* device, with its proxies.
LEMMA UsableIsUsable ==
    ASSUME ListInv, NEW c \in Snapshot, IsCharacteristic(c), NEW failed
    PROVE  IsUsable(c, failed) <=> c \in UsableCharacteristics(failed)
<1>1. c \in Objects
  BY ListedMembers
<1>2. ServiceOf(c).device = c.device
  BY <1>1, ServiceOfCharacteristic DEF BelongsTo
<1> QED BY <1>2 DEF IsUsable, UsableCharacteristics

\* What the search of a UUID uses: a characteristic of this device that has the
\* UUID, or the battery of any device.
LEMMA FoundByUuid ==
    ASSUME ListInv, NEW uuid, NEW failed
    PROVE  LET found == get_characteristic_from_uuid(uuid, failed)
               same(c) == gattlib_uuid_cmp(uuid, gattlib_string_to_uuid(c.uuid)) = 0
           IN  /\ \/ found = None
                  \/ /\ connected
                     /\ \E c \in UsableCharacteristics(failed) : same(c) /\ found = Gatt(c)
                  \/ /\ connected /\ gattlib_uuid_cmp(uuid, Short(BatteryLevel)) = 0
                     /\ \E b \in Snapshot : b \notin failed /\ IsBattery(b) /\ found = Battery(b)
               /\ connected /\ gattlib_uuid_cmp(uuid, Short(ClientConfiguration)) # 0 =>
                     /\ (\E c \in UsableCharacteristics(failed) : same(c)) =>
                            \E c \in UsableCharacteristics(failed) : same(c) /\ found = Gatt(c)
                     /\ /\ gattlib_uuid_cmp(uuid, Short(BatteryLevel)) = 0
                        /\ \E b \in Snapshot : b \notin failed /\ IsBattery(b)
                        => found # None
<1> DEFINE found == get_characteristic_from_uuid(uuid, failed)
           same(c) == gattlib_uuid_cmp(uuid, gattlib_string_to_uuid(c.uuid)) = 0
           level == gattlib_uuid_cmp(uuid, Short(BatteryLevel)) = 0
           config == gattlib_uuid_cmp(uuid, Short(ClientConfiguration)) = 0
           set == {c \in Objects : IsCharacteristic(c) /\ same(c) /\ IsUsable(c, failed)}
           bset == {b \in Objects : IsBattery(b) /\ b \notin failed}
           list == Filtered(Listed, set)
           blist == Filtered(Listed, bset)
<1>1. /\ ~connected \/ config => found = None
      /\ connected /\ ~config /\ list # <<>> => found = Gatt(Head(list))
      /\ connected /\ ~config /\ list = <<>> /\ level /\ blist # <<>> => found = Battery(Last(blist))
      /\ connected /\ ~config /\ list = <<>> /\ ~(level /\ blist # <<>>) => found = None
  BY DEF get_characteristic_from_uuid
<1>2. (list = <<>> <=> Snapshot \cap set = {}) /\ (list # <<>> => Head(list) \in Snapshot \cap set)
  <2> HIDE DEF set
  <2> QED BY TakenMembers
<1>3. (blist = <<>> <=> Snapshot \cap bset = {}) /\ (blist # <<>> => Last(blist) \in Snapshot \cap bset)
  <2> HIDE DEF bset
  <2> QED BY TakenMembers
<1> HIDE DEF list, blist, level, config, found
<1>4. \A c \in Snapshot : c \in set <=> c \in UsableCharacteristics(failed) /\ same(c)
  <2> SUFFICES ASSUME NEW c \in Snapshot PROVE c \in set <=> c \in UsableCharacteristics(failed) /\ same(c)
    OBVIOUS
  <2>1. c \in Objects
    BY ListedMembers
  <2> HIDE DEF same
  <2> QED BY <2>1, UsableIsUsable DEF UsableCharacteristics
<1>5. \A c \in UsableCharacteristics(failed) : c \in Snapshot
  BY DEF UsableCharacteristics
<1>6. \A b \in Snapshot : b \in bset <=> b \notin failed /\ IsBattery(b)
  BY ListedMembers
<1> HIDE DEF set, bset, same
<1>7. /\ list # <<>> => Head(list) \in UsableCharacteristics(failed) /\ same(Head(list))
      /\ list = <<>> => \A c \in UsableCharacteristics(failed) : ~same(c)
      /\ blist # <<>> => Last(blist) \in Snapshot /\ Last(blist) \notin failed /\ IsBattery(Last(blist))
      /\ blist = <<>> => ~\E b \in Snapshot : b \notin failed /\ IsBattery(b)
  BY <1>2, <1>3, <1>4, <1>5, <1>6
<1>8. \A o : Gatt(o) # None /\ Battery(o) # None
  BY DEF Gatt, Battery, None
<1>9. CASE ~connected \/ config
  <2>1. found = None
    BY <1>1, <1>9
  <2> QED BY <1>9, <2>1 DEF found, config
<1>10. CASE connected /\ ~config /\ list # <<>>
  <2>1. found = Gatt(Head(list))
    BY <1>1, <1>10
  <2> QED BY <1>7, <1>8, <1>10, <2>1 DEF found, same
<1>11. CASE connected /\ ~config /\ list = <<>> /\ level /\ blist # <<>>
  <2>1. found = Battery(Last(blist))
    BY <1>1, <1>11
  <2> QED BY <1>7, <1>8, <1>11, <2>1 DEF found, same, level
<1>12. CASE connected /\ ~config /\ list = <<>> /\ ~(level /\ blist # <<>>)
  <2>1. found = None
    BY <1>1, <1>12
  <2> QED BY <1>7, <1>12, <2>1 DEF found, same, level
<1> QED BY <1>9, <1>10, <1>11, <1>12

\* What the search of a handle uses.
LEMMA FoundByHandle ==
    ASSUME ListInv, NEW handle, NEW failed
    PROVE  LET found == get_characteristic_from_handle(handle, failed) IN
           /\ \/ found = None
              \/ connected /\ \E c \in UsableCharacteristics(failed) : c.handle = handle /\ found = Gatt(c)
           /\ connected /\ (\E c \in UsableCharacteristics(failed) : c.handle = handle) =>
                 \E c \in UsableCharacteristics(failed) : c.handle = handle /\ found = Gatt(c)
<1> DEFINE found == get_characteristic_from_handle(handle, failed)
           set == {c \in Objects : IsCharacteristic(c) /\ c.handle = handle /\ IsUsable(c, failed)}
           list == Filtered(Listed, set)
<1>1. found = IF connected /\ list # <<>> THEN Gatt(Head(list)) ELSE None
  BY DEF get_characteristic_from_handle
<1>2. (list = <<>> <=> Snapshot \cap set = {}) /\ (list # <<>> => Head(list) \in Snapshot \cap set)
  <2> HIDE DEF set
  <2> QED BY TakenMembers
<1>3. \A c \in Snapshot : c \in set <=> c \in UsableCharacteristics(failed) /\ c.handle = handle
  BY ListedMembers, UsableIsUsable DEF UsableCharacteristics
<1>4. \A c \in UsableCharacteristics(failed) : c \in Snapshot
  BY DEF UsableCharacteristics
<1> HIDE DEF found, set, list
<1> QED BY <1>1, <1>2, <1>3, <1>4 DEF found

-----------------------------------------------------------------------------
(* The properties of the calls.                                             *)

\* The ranges of the services follow from the invariant.
LEMMA ServiceRangesOfInv ==
    ASSUME DatabaseInv PROVE ServiceRanges
<1> SUFFICES ASSUME answer.call = "primary" PROVE ServiceRanges
  BY DEF ServiceRanges
<1>1. ListInv /\ AnswerInv
  BY DEF DatabaseInv
<1>2. PICK failed \in Failed : answer = PrimaryAnswer(failed)
  BY <1>1, AnswerOfCall
<1>3. answer.services = discover_primary(failed) /\ answer.failed = failed
  BY <1>2 DEF PrimaryAnswer
<1> QED
  BY <1>1, <1>3, PrimaryRanges DEF ServiceRanges, PrimaryServices

\* Each characteristic once: the cardinality is that of a singleton.
LEMMA CharacteristicsOnceOfInv ==
    ASSUME DatabaseInv PROVE CharacteristicsOnce
<1> SUFFICES ASSUME answer.call = "char_range" PROVE CharacteristicsOnce
  BY DEF CharacteristicsOnce
<1>1. ListInv /\ AnswerInv
  BY DEF DatabaseInv
<1>2. PICK failed \in Failed, range \in Ranges : answer = CharRangeAnswer(range[1], range[2], failed)
  BY <1>1, AnswerOfCall
<1> DEFINE entries == discover_char_range(range[1], range[2], failed)
           chars == CharacteristicsIn(range[1], range[2], failed)
<1>3. /\ answer.characteristics = entries /\ answer.failed = failed
      /\ answer.start = range[1] /\ answer.end = range[2]
  BY <1>2 DEF CharRangeAnswer
<1>4. range[1] \in Nat /\ range[2] \in Nat
  BY DatabaseAssumption
<1>5. entries \in Seq(Entries) /\ \E from : EntriesFrom(from, entries, chars)
  BY <1>1, <1>4, EntriesOfRange
<1>6. PICK from : EntriesFrom(from, entries, chars)
  BY <1>5
<1>7. ASSUME NEW c \in chars
      PROVE  Cardinality({i \in DOMAIN entries : entries[i].handle = c.handle}) = 1
  <2> DEFINE S == {j \in DOMAIN entries : entries[j].handle = c.handle}
  <2>1. \E i \in 1..Len(entries) : S = {i}
    <3> HIDE DEF entries
    <3>1. PICK i \in 1..Len(entries) :
             from[i] = c /\ \A j \in DOMAIN entries : entries[j].handle = c.handle <=> j = i
      BY <1>1, <1>4, <1>5, <1>6, OneEntryPerHandle
    <3>2. DOMAIN entries = 1..Len(entries)
      BY <1>5
    <3> QED BY <3>1, <3>2
  <2> HIDE DEF S
  <2>2. Cardinality(S) = 1
    BY <2>1, FS_Singleton
  <2> QED BY <2>2 DEF S
<1>8. \A i \in DOMAIN entries : entries[i] = BatteryCharacteristic \/ \E c \in chars : entries[i] = Entry(c)
  <2>1. DOMAIN entries = 1..Len(entries)
    <3> HIDE DEF entries
    <3> QED BY <1>5
  <2> HIDE DEF entries, chars
  <2> QED BY <1>6, <2>1 DEF EntriesFrom
<1>9. chars = {c \in Snapshot : /\ IsCharacteristic(c) /\ c.device = Device
                                /\ {c, ServiceOf(c)} \cap answer.failed = {}
                                /\ c.handle \in answer.start .. answer.end}
  BY <1>3 DEF CharacteristicsIn
<1> HIDE DEF entries, chars
<1> QED
  BY <1>3, <1>7, <1>8, <1>9 DEF CharacteristicsOnce

\* A write that succeeds has found a characteristic, not a battery.
LEMMA WritesToThisDeviceOfInv ==
    ASSUME DatabaseInv PROVE WritesToThisDevice
<1>1. ListInv /\ AnswerInv
  BY DEF DatabaseInv
<1>2. ASSUME NEW failed, NEW c \in UsableCharacteristics(failed)
      PROVE  c \in Objects /\ c.device = Device /\ c \in Snapshot \ failed
  BY <1>1, <1>2, ListedMembers DEF UsableCharacteristics
<1>3. \A o : Gatt(o).type = "TYPE_GATT" /\ Gatt(o).object = {o} /\ Gatt(o) # None /\ Battery(o).type = "TYPE_BATTERY_LEVEL"
  BY DEF Gatt, Battery, None
<1>4. CASE answer.call = "write"
  <2>1. PICK failed \in Failed, uuid \in Wanted : answer = WriteAnswer(uuid, failed)
    BY <1>1, <1>4, AnswerOfCall
  <2> DEFINE found == get_characteristic_from_uuid(uuid, failed)
  <2>2. /\ answer.failed = failed /\ answer.uuid = uuid
        /\ answer.used = IF found.type = "TYPE_GATT" THEN found ELSE None
        /\ answer.ret = CASE found = None -> "NOT_FOUND"
                          [] found.type = "TYPE_BATTERY_LEVEL" -> "NOT_SUPPORTED"
                          [] found.type = "TYPE_GATT" -> "SUCCESS"
    BY <2>1 DEF WriteAnswer
  <2>3. \/ found = None
        \/ \E c \in UsableCharacteristics(failed) :
              gattlib_uuid_cmp(uuid, gattlib_string_to_uuid(c.uuid)) = 0 /\ found = Gatt(c)
        \/ \E b : found = Battery(b)
    BY <1>1, FoundByUuid
  <2> HIDE DEF found
  <2>4. ASSUME answer.ret = "SUCCESS"
        PROVE  \E c \in UsableCharacteristics(failed) :
                  gattlib_uuid_cmp(uuid, gattlib_string_to_uuid(c.uuid)) = 0 /\ found = Gatt(c)
    <3>1. None.type = "TYPE_NONE"
      BY DEF None
    <3>2. found # None
      <4> SUFFICES ASSUME found = None PROVE FALSE
        OBVIOUS
      <4>1. found.type = "TYPE_NONE"
        BY <3>1
      <4> QED BY <2>2, <2>4, <4>1
    <3>3. ~\E b : found = Battery(b)
      <4> SUFFICES ASSUME NEW b, found = Battery(b) PROVE FALSE
        OBVIOUS
      <4>1. found.type = "TYPE_BATTERY_LEVEL"
        BY <1>3
      <4> QED BY <2>2, <2>4, <3>2, <4>1
    <3> QED BY <2>3, <3>2, <3>3
  <2>5. ASSUME answer.ret = "SUCCESS" PROVE WritesToThisDevice
    <3>1. PICK c \in UsableCharacteristics(failed) :
             gattlib_uuid_cmp(uuid, gattlib_string_to_uuid(c.uuid)) = 0 /\ found = Gatt(c)
      BY <2>4, <2>5
    <3>2. answer.used.type = "TYPE_GATT" /\ answer.used.object = {c}
      BY <1>3, <2>2, <3>1
    <3>3. c \in Objects /\ c.device = Device /\ c \in Snapshot \ failed
      BY <1>2
    <3>4. uuid \in Specified /\ gattlib_string_to_uuid(c.uuid) \in Specified
      BY <3>3, DatabaseAssumption, ObjectTypes, TextIsRead
    <3>5. gattlib_uuid_to_uuid128(gattlib_string_to_uuid(c.uuid)) = gattlib_uuid_to_uuid128(uuid)
      BY <3>1, <3>4, CmpIsConversion
    <3> QED BY <1>4, <2>2, <3>2, <3>3, <3>5 DEF WritesToThisDevice
  <2> QED BY <2>5 DEF WritesToThisDevice
<1>5. CASE answer.call = "write_handle"
  <2>1. PICK failed \in Failed, handle \in Handles : answer = WriteHandleAnswer(handle, failed)
    BY <1>1, <1>5, AnswerOfCall
  <2> DEFINE found == get_characteristic_from_handle(handle, failed)
  <2>2. /\ answer.failed = failed /\ answer.handle = handle /\ answer.used = found
        /\ answer.ret = IF found = None THEN "NOT_FOUND" ELSE "SUCCESS"
    BY <2>1 DEF WriteHandleAnswer
  <2>3. found = None \/ \E c \in UsableCharacteristics(failed) : c.handle = handle /\ found = Gatt(c)
    BY <1>1, FoundByHandle
  <2> HIDE DEF found
  <2>4. ASSUME answer.ret = "SUCCESS" PROVE WritesToThisDevice
    <3>1. PICK c \in UsableCharacteristics(failed) : c.handle = handle /\ found = Gatt(c)
      BY <2>2, <2>3, <2>4
    <3>2. answer.used.type = "TYPE_GATT" /\ answer.used.object = {c}
      BY <1>3, <2>2, <3>1
    <3>3. c.device = Device /\ c \in Snapshot \ failed
      BY <1>2
    <3> QED BY <1>5, <2>2, <3>1, <3>2, <3>3 DEF WritesToThisDevice
  <2> QED BY <2>4 DEF WritesToThisDevice
<1> QED BY <1>4, <1>5 DEF WritesToThisDevice

\* No two of the UUIDs that a search compares are the same in 128 bits and differ
\* as they are: none of the characteristics of the device, of the battery level and
\* of the configuration of a client is written in the base of gattlib or in 32 bits
\* so as to be taken for a short one.
NoCollision ==
    LET uuids == {Short(BatteryLevel), Short(ClientConfiguration)}
                 \cup {gattlib_string_to_uuid(c.uuid) : c \in {o \in Objects : IsCharacteristic(o) /\ o.device = Device}}
    IN  \A u, v \in uuids : gattlib_uuid_cmp(u, v) = 0 => u = v

\* The UUID of an entry leads to a characteristic of this device that has it, or to
\* a battery.
LEMMA EntryFoundByUuid ==
    ASSUME ListInv, NoCollision, connected,
           NEW uuid,
           \/ uuid = Short(BatteryLevel) /\ \E b \in Snapshot : IsBattery(b)
           \/ \E c \in UsableCharacteristics({}) : uuid = gattlib_string_to_uuid(c.uuid)
    PROVE  LET by_uuid == get_characteristic_from_uuid(uuid, {}) IN
           \/ uuid = Short(ClientConfiguration)
           \/ by_uuid.type = "TYPE_BATTERY_LEVEL" /\ uuid = Short(BatteryLevel)
           \/ \E o \in by_uuid.object : o.device = Device /\ gattlib_string_to_uuid(o.uuid) = uuid
<1> DEFINE uuids == {Short(BatteryLevel), Short(ClientConfiguration)}
                    \cup {gattlib_string_to_uuid(c.uuid) : c \in {o \in Objects : IsCharacteristic(o) /\ o.device = Device}}
           by_uuid == get_characteristic_from_uuid(uuid, {})
           same(c) == gattlib_uuid_cmp(uuid, gattlib_string_to_uuid(c.uuid)) = 0
<1>1. \A u, v \in uuids : gattlib_uuid_cmp(u, v) = 0 => u = v
  BY DEF NoCollision
<1>2. ASSUME NEW c \in UsableCharacteristics({})
      PROVE  c.device = Device /\ gattlib_string_to_uuid(c.uuid) \in uuids
  <2>1. c \in Objects /\ IsCharacteristic(c) /\ c.device = Device
    BY ListedMembers DEF UsableCharacteristics
  <2> QED BY <2>1
<1>3. Short(BatteryLevel) \in uuids /\ Short(ClientConfiguration) \in uuids
  OBVIOUS
<1> HIDE DEF uuids
<1>4. uuid \in uuids
  BY <1>2, <1>3
<1>5. uuid \in Specified
  <2>1. \A c \in UsableCharacteristics({}) : c \in Objects
    BY ListedMembers DEF UsableCharacteristics
  <2> QED BY <2>1, ShortIsSpecified, ObjectTypes, TextIsRead
<1>6. gattlib_uuid_cmp(uuid, uuid) = 0
  BY <1>5, CmpIsEquivalence
<1>7. CASE gattlib_uuid_cmp(uuid, Short(ClientConfiguration)) = 0
  BY <1>1, <1>3, <1>4, <1>7
<1>8. CASE gattlib_uuid_cmp(uuid, Short(ClientConfiguration)) # 0
  <2>1. /\ \/ by_uuid = None
           \/ \E c \in UsableCharacteristics({}) : same(c) /\ by_uuid = Gatt(c)
           \/ gattlib_uuid_cmp(uuid, Short(BatteryLevel)) = 0 /\ \E b : by_uuid = Battery(b)
        /\ (\E c \in UsableCharacteristics({}) : same(c)) =>
              \E c \in UsableCharacteristics({}) : same(c) /\ by_uuid = Gatt(c)
        /\ gattlib_uuid_cmp(uuid, Short(BatteryLevel)) = 0 /\ (\E b \in Snapshot : IsBattery(b)) => by_uuid # None
    BY <1>8, FoundByUuid
  <2> HIDE DEF by_uuid
  <2>2. \/ \E c \in UsableCharacteristics({}) : same(c) /\ by_uuid = Gatt(c)
        \/ uuid = Short(BatteryLevel) /\ \E b : by_uuid = Battery(b)
    <3>1. CASE \E c \in UsableCharacteristics({}) : uuid = gattlib_string_to_uuid(c.uuid)
      <4>1. \E c \in UsableCharacteristics({}) : same(c)
        BY <1>6, <3>1
      <4> HIDE DEF same
      <4> QED BY <2>1, <4>1
    <3>2. CASE uuid = Short(BatteryLevel) /\ \E b \in Snapshot : IsBattery(b)
      BY <1>6, <2>1, <3>2
    <3> QED BY <3>1, <3>2
  <2>3. CASE \E c \in UsableCharacteristics({}) : same(c) /\ by_uuid = Gatt(c)
    <3>1. PICK c \in UsableCharacteristics({}) : same(c) /\ by_uuid = Gatt(c)
      BY <2>3
    <3>2. c.device = Device /\ gattlib_string_to_uuid(c.uuid) = uuid
      BY <1>1, <1>2, <1>4, <3>1
    <3>3. by_uuid.object = {c}
      BY <3>1 DEF Gatt
    <3> QED BY <3>2, <3>3 DEF by_uuid
  <2>4. CASE uuid = Short(BatteryLevel) /\ \E b : by_uuid = Battery(b)
    BY <2>4 DEF by_uuid, Battery
  <2> QED BY <2>2, <2>3, <2>4
<1> QED BY <1>7, <1>8

\* What a discovery returns is found again by its handle and by its UUID.
LEMMA DiscoveredIsFoundOfInv ==
    ASSUME DatabaseInv, NoCollision PROVE DiscoveredIsFound
<1> SUFFICES ASSUME answer.call = "char_range", connected, NEW i \in DOMAIN answer.characteristics
             PROVE  LET c == answer.characteristics[i]
                        uuid == gattlib_string_to_uuid(gattlib_uuid_to_string(c.uuid))
                        by_handle == get_characteristic_from_handle(c.handle, {})
                        by_uuid == get_characteristic_from_uuid(uuid, {})
                    IN  /\ c = BatteryCharacteristic \/ \E o \in by_handle.object :
                               o.device = Device /\ gattlib_string_to_uuid(o.uuid) = c.uuid
                        /\ \/ uuid = Short(ClientConfiguration)
                           \/ by_uuid.type = "TYPE_BATTERY_LEVEL" /\ uuid = Short(BatteryLevel)
                           \/ \E o \in by_uuid.object : o.device = Device /\ gattlib_string_to_uuid(o.uuid) = c.uuid
  BY DEF DiscoveredIsFound
<1>1. ListInv /\ AnswerInv
  BY DEF DatabaseInv
<1>2. PICK failed \in Failed, range \in Ranges : answer = CharRangeAnswer(range[1], range[2], failed)
  BY <1>1, AnswerOfCall
<1> DEFINE entries == discover_char_range(range[1], range[2], failed)
           chars == CharacteristicsIn(range[1], range[2], failed)
           c == entries[i]
           uuid == gattlib_string_to_uuid(gattlib_uuid_to_string(c.uuid))
           by_handle == get_characteristic_from_handle(c.handle, {})
<1>3. answer.characteristics = entries
  BY <1>2 DEF CharRangeAnswer
<1>4. range[1] \in Nat /\ range[2] \in Nat
  BY DatabaseAssumption
<1>5. entries \in Seq(Entries) /\ \E from : EntriesFrom(from, entries, chars)
  BY <1>1, <1>4, EntriesOfRange
<1>6. PICK from : EntriesFrom(from, entries, chars)
  BY <1>5
<1> HIDE DEF entries
<1>7. i \in 1..Len(entries)
  BY <1>3, <1>5
<1>8. /\ from[i] \in Snapshot
      /\ \/ IsBattery(from[i]) /\ c = BatteryCharacteristic
         \/ from[i] \in chars /\ c = Entry(from[i])
  BY <1>6, <1>7 DEF EntriesFrom
<1> HIDE DEF c
<1>9. CASE IsBattery(from[i]) /\ c = BatteryCharacteristic
  <2>1. c.uuid = Short(BatteryLevel) /\ c.uuid \in Specified /\ c.uuid.type = "SDP_UUID16"
    BY <1>9, ShortIsSpecified DEF Short
  <2>2. uuid = Short(BatteryLevel)
    BY <2>1, PrintedIsRead
  <2>3. c.uuid = uuid
    BY <2>1, <2>2
  <2> HIDE DEF uuid
  <2> QED BY <1>1, <1>3, <1>8, <1>9, <2>2, <2>3, EntryFoundByUuid DEF c, uuid
<1>10. CASE from[i] \in chars /\ c = Entry(from[i])
  <2> DEFINE d == from[i]
  <2>1. d \in UsableCharacteristics({}) /\ d \in Objects /\ IsCharacteristic(d) /\ d.device = Device
    BY <1>1, <1>8, <1>10, ListedMembers DEF CharacteristicsIn, UsableCharacteristics
  <2>2. c.handle = d.handle /\ c.uuid = gattlib_string_to_uuid(d.uuid)
    BY <1>10 DEF Entry
  <2> HIDE DEF d
  <2>3. uuid = c.uuid
    BY <2>1, <2>2, ObjectTypes, TextIsRead
  <2>4. \E o \in by_handle.object : o.device = Device /\ gattlib_string_to_uuid(o.uuid) = c.uuid
    <3>1. PICK e \in UsableCharacteristics({}) : e.handle = c.handle /\ by_handle = Gatt(e)
      BY <1>1, <2>1, <2>2, FoundByHandle
    <3>2. e \in Objects /\ IsCharacteristic(e) /\ e.device = Device
      BY <1>1, ListedMembers DEF UsableCharacteristics
    <3>3. e = d
      BY <2>1, <2>2, <3>1, <3>2, ObjectTypes, HandlesDiffer
    <3>4. by_handle.object = {e}
      BY <3>1 DEF Gatt
    <3> QED BY <2>2, <3>2, <3>3, <3>4
  <2> HIDE DEF uuid, by_handle
  <2> QED BY <1>1, <1>3, <2>1, <2>2, <2>3, <2>4, EntryFoundByUuid DEF c, uuid, by_handle
<1> QED BY <1>8, <1>9, <1>10

\* The array of the answer, allocated for the characteristics and the batteries of
\* all the devices.
count_max == Cardinality({o \in Snapshot : IsCharacteristic(o) \/ IsBattery(o)})

\* Entries of different objects: there are no more than objects counted.
LEMMA EntriesFitOfInv ==
    ASSUME DatabaseInv, answer.call = "char_range" PROVE Len(answer.characteristics) <= count_max
<1>1. ListInv /\ AnswerInv
  BY DEF DatabaseInv
<1>2. PICK failed \in Failed, range \in Ranges : answer = CharRangeAnswer(range[1], range[2], failed)
  BY <1>1, AnswerOfCall
<1> DEFINE entries == discover_char_range(range[1], range[2], failed)
           chars == CharacteristicsIn(range[1], range[2], failed)
           S == {o \in Snapshot : IsCharacteristic(o) \/ IsBattery(o)}
<1>3. answer.characteristics = entries
  BY <1>2 DEF CharRangeAnswer
<1>4. range[1] \in Nat /\ range[2] \in Nat
  BY DatabaseAssumption
<1>5. entries \in Seq(Entries) /\ \E from : EntriesFrom(from, entries, chars)
  BY <1>1, <1>4, EntriesOfRange
<1>6. PICK from : EntriesFrom(from, entries, chars)
  BY <1>5
<1> HIDE DEF entries
<1>7. IsFiniteSet(S)
  <2>1. Listed \in Seq(Objects) /\ ToSet(Listed) = Snapshot
    BY <1>1, ListedMembers
  <2>2. Len(Listed) \in Nat /\ DOMAIN Listed = 1..Len(Listed)
    BY <2>1
  <2>3. IsFiniteSet(1..Len(Listed))
    BY <2>2, FS_Interval
  <2>4. Listed \in Surjection(1..Len(Listed), Snapshot)
    <3>1. Listed = [a \in 1..Len(Listed) |-> Listed[a]]
      BY <2>1, <2>2
    <3>2. \A a \in 1..Len(Listed) : Listed[a] \in Snapshot
      BY <2>1, <2>2 DEF ToSet
    <3>3. Listed \in [1..Len(Listed) -> Snapshot]
      BY <3>1, <3>2
    <3>4. \A o \in Snapshot : \E a \in 1..Len(Listed) : Listed[a] = o
      BY <2>1, <2>2 DEF ToSet
    <3> QED BY <3>3, <3>4 DEF Surjection
  <2>5. IsFiniteSet(Snapshot)
    BY <2>3, <2>4, FS_Surjection
  <2>6. S \in SUBSET Snapshot
    OBVIOUS
  <2> HIDE DEF S
  <2> QED BY <2>5, <2>6, FS_Subset
<1>8. from \in [1..Len(entries) -> S] /\ IsInjective(from)
  <2>1. \A c \in chars : c \in S
    BY DEF CharacteristicsIn
  <2>2. \A i \in 1..Len(entries) : from[i] \in S
    BY <1>6, <2>1 DEF EntriesFrom
  <2> HIDE DEF S, chars
  <2> QED BY <1>6, <2>2 DEF EntriesFrom
<1> HIDE DEF S
<1>9. from \in Injection(1..Len(entries), S)
  BY <1>8 DEF Injection, IsInjective
<1>10. Len(entries) \in Nat
  BY <1>5
<1>11. Cardinality(1..Len(entries)) <= Cardinality(S)
  BY <1>7, <1>9, FS_Injection
<1>12. Cardinality(1..Len(entries)) = Len(entries)
  <2> DEFINE n == Len(entries)
  <2>1. n \in Nat
    BY <1>10
  <2> HIDE DEF n
  <2>2. Cardinality(1..n) = IF 1 > n THEN 0 ELSE n - 1 + 1
    BY <2>1, FS_Interval
  <2>3. Cardinality(1..n) = n
    BY <2>1, <2>2
  <2> QED BY <2>3 DEF n
<1> QED BY <1>3, <1>11, <1>12 DEF count_max, S

\* What a read uses, and that it finds a characteristic that can be used
\* (gattlib_char.c:104): a battery only when no characteristic has the UUID.
ReadsThisDevice ==
    answer.call = "read" =>
        LET same(c) == gattlib_uuid_to_uuid128(gattlib_string_to_uuid(c.uuid)) = gattlib_uuid_to_uuid128(answer.uuid) IN
        /\ answer.ret = "SUCCESS" =>
              \/ \E c \in UsableCharacteristics(answer.failed) : same(c) /\ answer.used = Gatt(c)
              \/ /\ gattlib_uuid_to_uuid128(answer.uuid) = gattlib_uuid_to_uuid128(Short(BatteryLevel))
                 /\ \E b \in Snapshot : IsBattery(b) /\ answer.used = Battery(b)
        /\ /\ connected /\ \E c \in UsableCharacteristics(answer.failed) : same(c)
           /\ gattlib_uuid_cmp(answer.uuid, Short(ClientConfiguration)) # 0
           => answer.ret = "SUCCESS" /\ answer.used.type = "TYPE_GATT"

\* What a read uses follows from what the search finds.
LEMMA ReadsThisDeviceOfInv ==
    ASSUME DatabaseInv PROVE ReadsThisDevice
<1> SUFFICES ASSUME answer.call = "read" PROVE ReadsThisDevice
  BY DEF ReadsThisDevice
<1>1. ListInv /\ AnswerInv
  BY DEF DatabaseInv
<1>2. PICK failed \in Failed, uuid \in Wanted : answer = ReadAnswer(uuid, failed)
  BY <1>1, AnswerOfCall
<1> DEFINE found == get_characteristic_from_uuid(uuid, failed)
           same(c) == gattlib_uuid_to_uuid128(gattlib_string_to_uuid(c.uuid)) = gattlib_uuid_to_uuid128(uuid)
<1>3. /\ answer.failed = failed /\ answer.uuid = uuid /\ answer.used = found
      /\ answer.ret = IF found = None THEN "NOT_FOUND" ELSE "SUCCESS"
  BY <1>2 DEF ReadAnswer
<1>4. \A c \in UsableCharacteristics(failed) :
         gattlib_uuid_cmp(uuid, gattlib_string_to_uuid(c.uuid)) = 0 <=> same(c)
  <2> SUFFICES ASSUME NEW c \in UsableCharacteristics(failed)
               PROVE  gattlib_uuid_cmp(uuid, gattlib_string_to_uuid(c.uuid)) = 0 <=> same(c)
    OBVIOUS
  <2>1. c \in Objects
    BY <1>1, ListedMembers DEF UsableCharacteristics
  <2>2. uuid \in Specified /\ gattlib_string_to_uuid(c.uuid) \in Specified
    BY <2>1, DatabaseAssumption, ObjectTypes, TextIsRead
  <2> QED BY <2>2, CmpIsConversion
<1>5. gattlib_uuid_cmp(uuid, Short(BatteryLevel)) = 0 <=>
         gattlib_uuid_to_uuid128(uuid) = gattlib_uuid_to_uuid128(Short(BatteryLevel))
  BY DatabaseAssumption, ShortIsSpecified, CmpIsConversion
<1>6. /\ \/ found = None
         \/ \E c \in UsableCharacteristics(failed) : same(c) /\ found = Gatt(c)
         \/ /\ gattlib_uuid_cmp(uuid, Short(BatteryLevel)) = 0
            /\ \E b \in Snapshot : IsBattery(b) /\ found = Battery(b)
      /\ connected /\ gattlib_uuid_cmp(uuid, Short(ClientConfiguration)) # 0
            /\ (\E c \in UsableCharacteristics(failed) : same(c)) =>
               \E c \in UsableCharacteristics(failed) : found = Gatt(c)
  <2>1. \A c \in UsableCharacteristics(failed) : TRUE
    OBVIOUS
  <2> HIDE DEF same
  <2> QED BY <1>1, <1>4, FoundByUuid
<1>7. \A c : Gatt(c).type = "TYPE_GATT" /\ Gatt(c) # None
  BY DEF Gatt, None
<1> HIDE DEF found
<1> QED BY <1>3, <1>5, <1>6, <1>7 DEF ReadsThisDevice

\* The types of the answers.
LEMMA TypeOKOfInv ==
    ASSUME DatabaseInv PROVE TypeOK
<1>1. ListInv /\ AnswerInv
  BY DEF DatabaseInv
<1>2. \A i, j \in DOMAIN dbus_objects.objects : dbus_objects.objects[i] = dbus_objects.objects[j] => i = j
  BY <1>1 DEF ListInv, IsInjective
<1>3. CASE answer.call = "none"
  BY <1>1, <1>2, <1>3 DEF TypeOK, ListInv
<1>4. CASE answer.call = "primary"
  <2>1. PICK failed \in Failed : answer = PrimaryAnswer(failed)
    BY <1>1, <1>4, AnswerOfCall
  <2>2. answer.services = discover_primary(failed)
    BY <2>1 DEF PrimaryAnswer
  <2>3. \A s \in ToSet(answer.services) : /\ s.attr_handle_start \in Nat /\ s.attr_handle_end \in Nat
                                          /\ s.uuid \in Specified
    BY <1>1, <2>2, PrimaryRanges DEF ToSet
  <2> QED BY <1>1, <1>2, <1>4, <2>3 DEF TypeOK, ListInv
<1>5. CASE answer.call = "char_range"
  <2>1. PICK failed \in Failed, range \in Ranges : answer = CharRangeAnswer(range[1], range[2], failed)
    BY <1>1, <1>5, AnswerOfCall
  <2>2. answer.characteristics = discover_char_range(range[1], range[2], failed)
    BY <2>1 DEF CharRangeAnswer
  <2>3. answer.characteristics \in Seq(Entries)
    BY <1>1, <2>2, DatabaseAssumption, EntriesOfRange
  <2>4. \A c \in ToSet(answer.characteristics) : c \in Entries
    BY <2>3 DEF ToSet
  <2> QED BY <1>1, <1>2, <1>5, <2>4 DEF TypeOK, ListInv
<1>6. ASSUME answer.call \in {"read", "write", "write_handle"} PROVE TypeOK
  <2>1. ASSUME NEW uuid, NEW failed PROVE get_characteristic_from_uuid(uuid, failed) \in Searched
    BY <1>1, FoundByUuid, ListedMembers DEF Searched, UsableCharacteristics
  <2>2. ASSUME NEW handle, NEW failed PROVE get_characteristic_from_handle(handle, failed) \in Searched
    BY <1>1, FoundByHandle, ListedMembers DEF Searched, UsableCharacteristics
  <2>3. None \in Searched
    BY DEF Searched
  <2>4. answer.used \in Searched
    BY <1>1, <1>6, <2>1, <2>2, <2>3, AnswerOfCall DEF ReadAnswer, WriteAnswer, WriteHandleAnswer
  <2> QED BY <1>1, <1>2, <1>6, <2>4 DEF TypeOK, ListInv
<1> QED BY <1>1, <1>3, <1>4, <1>5, <1>6, AnswerOfCall

\* The types of the database: the list has each object at most once, an answer is
\* made of handles and of UUIDs that gattlib_string_to_uuid gives.
THEOREM TypeCorrect == Spec => []TypeOK
<1>1. DatabaseInv => TypeOK
  BY TypeOKOfInv
<1> QED BY <1>1, DatabaseInvHolds, PTL

\* gattlib_discover_primary returns each primary service of the device once, with
\* ranges that do not overlap and that hold their characteristics, for any objects
\* in any order, removed or not (gattlib.c:566).
THEOREM ServiceRangesHold == Spec => []ServiceRanges
<1>1. DatabaseInv => ServiceRanges
  BY ServiceRangesOfInv
<1> QED BY <1>1, DatabaseInvHolds, PTL

\* gattlib_discover_char_range returns each characteristic of the device that is in
\* the range once, for any objects of any devices (gattlib.c:994).
THEOREM CharacteristicsOnceHolds == Spec => []CharacteristicsOnce
<1>1. DatabaseInv => CharacteristicsOnce
  BY CharacteristicsOnceOfInv
<1> QED BY <1>1, DatabaseInvHolds, PTL

\* A write that succeeds has reached a characteristic of this device that has the
\* UUID or the handle of the call (gattlib_char.c:104, gattlib_char.c:177).
THEOREM WritesToThisDeviceHolds == Spec => []WritesToThisDevice
<1>1. DatabaseInv => WritesToThisDevice
  BY WritesToThisDeviceOfInv
<1> QED BY <1>1, DatabaseInvHolds, PTL

\* What a discovery of a connected device returns is found by its handle and by its
\* UUID, when the conversion to 128 bits confuses none of the UUIDs of the device
\* (gattlib_common.c:164): without that hypothesis it is false.
THEOREM DiscoveredIsFoundHolds ==
    ASSUME NoCollision PROVE Spec => []DiscoveredIsFound
<1>1. DatabaseInv => DiscoveredIsFound
  BY DiscoveredIsFoundOfInv
<1> QED BY <1>1, DatabaseInvHolds, PTL

\* gattlib_discover_char_range never writes past its array and never skips an entry
\* for want of room (gattlib.c:909, gattlib.c:1008), although the loop that counts
\* is not the one that fills: the checks that the model leaves out are never needed.
THEOREM EntriesFit ==
    Spec => [](answer.call = "char_range" /\ answer.defined => Len(answer.characteristics) <= count_max)
<1>1. DatabaseInv => (answer.call = "char_range" /\ answer.defined => Len(answer.characteristics) <= count_max)
  BY EntriesFitOfInv
<1> QED BY <1>1, DatabaseInvHolds, PTL

\* A read that succeeds has used a characteristic of this device that has the UUID,
\* or a battery; and it succeeds when the device has such a characteristic.
THEOREM ReadsThisDeviceHolds == Spec => []ReadsThisDevice
<1>1. DatabaseInv => ReadsThisDevice
  BY ReadsThisDeviceOfInv
<1> QED BY <1>1, DatabaseInvHolds, PTL
=============================================================================
