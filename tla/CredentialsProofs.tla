-------------------------- MODULE CredentialsProofs -------------------------
(***************************************************************************)
(* Proofs about Credentials: what the guard of guesses and the memory of   *)
(* verified passwords promise for any number of stations and any limits,   *)
(* and what sign-ins and imports may do to the accounts.                   *)
(***************************************************************************)
EXTENDS Credentials, FiniteSetTheorems, TLAPS

---------------------------------------------------------------------------
(* OrderedDict.                                                            *)

Items(od) == {od[i] : i \in DOMAIN od}
Distinct(od) == \A i, j \in DOMAIN od : od[i].key = od[j].key => i = j

\* The place of a key is one at which the key is.
LEMMA PlaceIs ==
    ASSUME NEW od, NEW k \in Keys(od)
    PROVE  Place(od, k) \in DOMAIN od /\ od[Place(od, k)].key = k
  BY Zenon DEF Place, Keys

\* The item of a key is the one found at any place of the key.
LEMMA ItemIs ==
    ASSUME NEW od, Distinct(od), NEW i \in DOMAIN od
    PROVE  od[i].key \in Keys(od) /\ Item(od, od[i].key) = od[i]
  <1>1. od[i].key \in Keys(od)
    BY Zenon DEF Keys
  <1>2. Place(od, od[i].key) = i
    BY <1>1, PlaceIs, Zenon DEF Distinct
  <1> QED
    BY <1>1, <1>2, Zenon DEF Item

\* pop() takes away the item of the key and leaves the others in their order.
LEMMA WithoutIs ==
    ASSUME NEW T, NEW od \in Seq(T), Distinct(od), NEW k
    PROVE  /\ Without(od, k) \in Seq(T) /\ Distinct(Without(od, k))
           /\ Items(Without(od, k)) = {x \in Items(od) : x.key # k}
           /\ Len(Without(od, k)) = IF k \in Keys(od) THEN Len(od) - 1 ELSE Len(od)
           /\ \A i, j \in DOMAIN Without(od, k) : i < j =>
                 \E p, q \in DOMAIN od : p < q /\ Without(od, k)[i] = od[p] /\ Without(od, k)[j] = od[q]
  <1>1. CASE k \notin Keys(od)
    <2>1. Without(od, k) = od
      BY <1>1, Zenon DEF Without
    <2>2. \A x \in Items(od) : x.key # k
      BY <1>1, Zenon DEF Items, Keys
    <2> QED
      BY <1>1, <2>1, <2>2, Zenon
  <1>2. CASE k \in Keys(od)
    <2>1. PICK p \in DOMAIN od : p = Place(od, k) /\ od[p].key = k
      BY <1>2, PlaceIs, Zenon
    <2>2. PICK n \in Nat : n = Len(od) /\ DOMAIN od = 1..n
      OBVIOUS
    <2>3. p \in 1..n /\ n - 1 \in Nat /\ \A i \in 1..n : od[i] \in T
      BY <2>1, <2>2
    <2>4. PICK w : w = [j \in 1..(n - 1) |-> IF j < p THEN od[j] ELSE od[j + 1]]
      BY Zenon
    <2>5. Without(od, k) = w
      BY <1>2, <2>1, <2>2, <2>4, Zenon DEF Without
    <2>6. w \in Seq(T) /\ Len(w) = n - 1 /\ DOMAIN w = 1..(n - 1)
      BY <2>3, <2>4
    <2> DEFINE Up(j) == IF j < p THEN j ELSE j + 1
    <2>7. \A j \in 1..(n - 1) : Up(j) \in 1..n /\ Up(j) # p /\ w[j] = od[Up(j)]
      BY <2>3, <2>4
    <2>8. \A i, j \in 1..(n - 1) : (i < j => Up(i) < Up(j)) /\ (Up(i) = Up(j) => i = j)
      BY <2>3
    <2>9. \A i \in 1..n : i # p => \E j \in 1..(n - 1) : Up(j) = i
      <3> SUFFICES ASSUME NEW i \in 1..n, i # p PROVE \E j \in 1..(n - 1) : Up(j) = i
        BY Zenon
      <3>1. CASE i < p
        <4>1. i \in 1..(n - 1) /\ Up(i) = i
          BY <2>3, <3>1
        <4> QED
          BY <4>1, Zenon
      <3>2. CASE ~(i < p)
        <4>1. i - 1 \in 1..(n - 1) /\ Up(i - 1) = i
          BY <2>3, <3>2
        <4> QED
          BY <4>1, Zenon
      <3> QED
        BY <3>1, <3>2, Zenon
    <2> HIDE DEF Up
    <2>10. Distinct(w)
      <3> SUFFICES ASSUME NEW i \in 1..(n - 1), NEW j \in 1..(n - 1), w[i].key = w[j].key PROVE i = j
        BY <2>6, Zenon DEF Distinct
      <3>1. Up(i) \in DOMAIN od /\ Up(j) \in DOMAIN od /\ od[Up(i)].key = od[Up(j)].key
        BY <2>2, <2>7, Zenon
      <3>2. Up(i) = Up(j)
        BY <3>1, Zenon DEF Distinct
      <3> QED
        BY <3>2, <2>8, Zenon
    <2>11. ASSUME NEW x PROVE x \in Items(w) <=> x \in Items(od) /\ x.key # k
      <3>1. ASSUME x \in Items(w) PROVE x \in Items(od) /\ x.key # k
        <4>1. PICK j \in 1..(n - 1) : x = w[j]
          BY <3>1, <2>6, Zenon DEF Items
        <4>2. Up(j) \in DOMAIN od /\ Up(j) # p /\ x = od[Up(j)]
          BY <4>1, <2>2, <2>7, Zenon
        <4> QED
          BY <4>2, <2>1, Zenon DEF Items, Distinct
      <3>2. ASSUME x \in Items(od), x.key # k PROVE x \in Items(w)
        <4>1. PICK i \in 1..n : x = od[i]
          BY <3>2, <2>2, Zenon DEF Items
        <4>2. i # p
          BY <4>1, <3>2, <2>1, Zenon
        <4>3. PICK j \in 1..(n - 1) : Up(j) = i
          BY <4>2, <2>9, Zenon
        <4> QED
          BY <4>1, <4>3, <2>6, <2>7, Zenon DEF Items
      <3> QED
        BY <3>1, <3>2, Zenon
    <2>12. ASSUME NEW i \in DOMAIN w, NEW j \in DOMAIN w, i < j
           PROVE  \E a, b \in DOMAIN od : a < b /\ w[i] = od[a] /\ w[j] = od[b]
      <3>1. Up(i) \in DOMAIN od /\ Up(j) \in DOMAIN od /\ Up(i) < Up(j) /\ w[i] = od[Up(i)] /\ w[j] = od[Up(j)]
        BY <2>2, <2>6, <2>7, <2>8, <2>12, Zenon
      <3> QED
        BY <3>1, Zenon
    <2>13. Items(w) = {x \in Items(od) : x.key # k}
      BY <2>11, Zenon
    <2>14. Len(w) = IF k \in Keys(od) THEN Len(od) - 1 ELSE Len(od)
      BY <1>2, <2>2, <2>6, Zenon
    <2> QED
      BY <2>5, <2>6, <2>10, <2>12, <2>13, <2>14
  <1> QED
    BY <1>1, <1>2, Zenon

\* Setting a key and moving it to the end replaces its item; the others stay in
\* their order, before it.
LEMMA LastIs ==
    ASSUME NEW T, NEW od \in Seq(T), Distinct(od), NEW item \in T
    PROVE  /\ Last(od, item) \in Seq(T) /\ Distinct(Last(od, item))
           /\ Items(Last(od, item)) = {x \in Items(od) : x.key # item.key} \cup {item}
           /\ Len(Last(od, item)) = IF item.key \in Keys(od) THEN Len(od) ELSE Len(od) + 1
           /\ Last(od, item)[Len(Last(od, item))] = item
           /\ \A i, j \in DOMAIN Last(od, item) : i < j =>
                 \/ \E p, q \in DOMAIN od : p < q /\ Last(od, item)[i] = od[p] /\ Last(od, item)[j] = od[q]
                 \/ Last(od, item)[j] = item
  <1>1. PICK w \in Seq(T) :
           /\ w = Without(od, item.key) /\ Distinct(w)
           /\ Items(w) = {x \in Items(od) : x.key # item.key}
           /\ Len(w) = IF item.key \in Keys(od) THEN Len(od) - 1 ELSE Len(od)
           /\ \A i, j \in DOMAIN w : i < j => \E p, q \in DOMAIN od : p < q /\ w[i] = od[p] /\ w[j] = od[q]
    BY WithoutIs
  <1>2. PICK n \in Nat : n = Len(w) /\ DOMAIN w = 1..n /\ \A i \in 1..n : w[i] \in T
    OBVIOUS
  <1>3. PICK l : l = Append(w, item)
    BY Zenon
  <1>4. Last(od, item) = l
    BY <1>1, <1>3, Zenon DEF Last
  <1>5. l \in Seq(T) /\ Len(l) = n + 1 /\ DOMAIN l = 1..(n + 1)
    BY <1>2, <1>3
  <1>6. l[n + 1] = item /\ \A i \in 1..n : l[i] = w[i]
    BY <1>2, <1>3
  <1>7. \A i \in 1..(n + 1) : i \in 1..n \/ i = n + 1
    BY <1>2
  <1>8. \A i \in 1..n : i \in 1..(n + 1) /\ n + 1 \in 1..(n + 1) /\ i < n + 1
    BY <1>2
  <1>9. n + 1 \in 1..(n + 1)
    BY <1>2
  <1>10. \A i \in 1..n : w[i].key # item.key
    BY <1>1, <1>2, Zenon DEF Items
  <1>11. Distinct(l)
    <2> SUFFICES ASSUME NEW i \in 1..(n + 1), NEW j \in 1..(n + 1), l[i].key = l[j].key PROVE i = j
      BY <1>5, Zenon DEF Distinct
    <2>1. CASE i \in 1..n /\ j \in 1..n
      BY <2>1, <1>1, <1>2, <1>6, Zenon DEF Distinct
    <2> QED
      BY <2>1, <1>6, <1>7, <1>10, ZenonT(60)
  <1>12. Items(l) = Items(w) \cup {item}
    <2>1. ASSUME NEW x PROVE x \in Items(l) <=> x \in Items(w) \/ x = item
      BY <1>2, <1>5, <1>6, <1>7, <1>8, <1>9, Zenon DEF Items
    <2> QED
      BY <2>1, Zenon
  <1>13. ASSUME NEW i \in DOMAIN l, NEW j \in DOMAIN l, i < j, l[j] # item
         PROVE  \E p, q \in DOMAIN od : p < q /\ l[i] = od[p] /\ l[j] = od[q]
    <2>1. j \in 1..n
      BY <1>13, <1>5, <1>6, <1>7, Zenon
    <2>2. i \in 1..n
      BY <1>13, <2>1, <1>2, <1>5
    <2>3. i \in DOMAIN w /\ j \in DOMAIN w /\ l[i] = w[i] /\ l[j] = w[j]
      BY <2>1, <2>2, <1>2, <1>6, Zenon
    <2>4. \E p, q \in DOMAIN od : p < q /\ w[i] = od[p] /\ w[j] = od[q]
      BY <2>3, <1>1, <1>13, Zenon
    <2> QED
      BY <2>3, <2>4, Zenon
  <1>14. Len(l) = IF item.key \in Keys(od) THEN Len(od) ELSE Len(od) + 1
    <2>1. Len(od) \in Nat /\ n = IF item.key \in Keys(od) THEN Len(od) - 1 ELSE Len(od)
      BY <1>1, <1>2
    <2> QED
      BY <2>1, <1>5
  <1>15. l[Len(l)] = item
    BY <1>5, <1>6, Zenon
  <1> QED
    BY <1>1, <1>4, <1>5, <1>11, <1>12, <1>13, <1>14, <1>15

\* popitem(last=False) takes the first item away.
LEMMA TailIs ==
    ASSUME NEW T, NEW od \in Seq(T), Distinct(od), Len(od) > 0
    PROVE  /\ Tail(od) \in Seq(T) /\ Distinct(Tail(od))
           /\ Len(Tail(od)) = Len(od) - 1 /\ 1 \in DOMAIN od
           /\ \A i \in DOMAIN Tail(od) : i + 1 \in DOMAIN od /\ Tail(od)[i] = od[i + 1]
           /\ \A x : x \in Items(Tail(od)) <=> x \in Items(od) /\ x # od[1]
  <1>1. PICK n \in Nat : n = Len(od) /\ DOMAIN od = 1..n /\ n > 0
    OBVIOUS
  <1>2. PICK t : t = Tail(od)
    BY Zenon
  <1>3. t \in Seq(T) /\ Len(t) = n - 1 /\ DOMAIN t = 1..(n - 1) /\ \A i \in 1..(n - 1) : t[i] = od[i + 1]
    BY <1>1, <1>2
  <1>4. \A i \in 1..(n - 1) : i + 1 \in 1..n /\ i + 1 # 1
    BY <1>1
  <1>5. \A i, j \in 1..(n - 1) : i + 1 = j + 1 => i = j
    BY <1>1
  <1>6. \A i \in 1..n : i # 1 => i - 1 \in 1..(n - 1) /\ (i - 1) + 1 = i
    BY <1>1
  <1>7. 1 \in 1..n
    BY <1>1
  <1>8. Distinct(t)
    <2> SUFFICES ASSUME NEW i \in 1..(n - 1), NEW j \in 1..(n - 1), t[i].key = t[j].key PROVE i = j
      BY <1>3, Zenon DEF Distinct
    <2>1. i + 1 \in DOMAIN od /\ j + 1 \in DOMAIN od /\ od[i + 1].key = od[j + 1].key
      BY <1>1, <1>3, <1>4, Zenon
    <2> QED
      BY <2>1, <1>5, Zenon DEF Distinct
  <1>9. ASSUME NEW x PROVE x \in Items(t) <=> x \in Items(od) /\ x # od[1]
    <2>1. ASSUME x \in Items(t) PROVE x \in Items(od) /\ x # od[1]
      <3>1. PICK i \in 1..(n - 1) : x = od[i + 1] /\ i + 1 \in 1..n /\ i + 1 # 1
        BY <2>1, <1>3, <1>4, Zenon DEF Items
      <3> QED
        BY <3>1, <1>1, <1>7, Zenon DEF Items, Distinct
    <2>2. ASSUME x \in Items(od), x # od[1] PROVE x \in Items(t)
      <3>1. PICK i \in 1..n : x = od[i] /\ i # 1
        BY <2>2, <1>1, Zenon DEF Items
      <3>2. i - 1 \in DOMAIN t /\ x = t[i - 1]
        BY <3>1, <1>3, <1>6, Zenon
      <3> QED
        BY <3>2, Zenon DEF Items
    <2> QED
      BY <2>1, <2>2, Zenon
  <1> QED
    BY <1>1, <1>2, <1>3, <1>4, <1>7, <1>8, <1>9, Zenon

\* The keys are those of the items.
LEMMA KeysOfItems ==
    ASSUME NEW od
    PROVE  \A k : k \in Keys(od) <=> \E x \in Items(od) : x.key = k
  BY Zenon DEF Keys, Items

\* The item of a key is one of the items, and the only one.
LEMMA ItemOfKey ==
    ASSUME NEW od, Distinct(od), NEW k \in Keys(od)
    PROVE  /\ Item(od, k) \in Items(od) /\ Item(od, k).key = k
           /\ \A x \in Items(od) : x.key = k => x = Item(od, k)
  <1>1. PICK p \in DOMAIN od : p = Place(od, k) /\ od[p].key = k
    BY PlaceIs, Zenon
  <1>2. ASSUME NEW x \in Items(od), x.key = k PROVE x = od[p]
    <2>1. PICK i \in DOMAIN od : x = od[i]
      BY Zenon DEF Items
    <2>2. i = p
      BY <1>1, <1>2, <2>1, Zenon DEF Distinct
    <2> QED
      BY <2>1, <2>2, Zenon
  <1>3. Item(od, k) = od[p] /\ od[p] \in Items(od)
    BY <1>1, Zenon DEF Item, Items
  <1> QED
    BY <1>1, <1>2, <1>3, Zenon

\* Setting a key after room has been made for it: the items are among those there
\* were, but for the one set, and no more than max_keys.
LEMMA LastInRoom ==
    ASSUME NEW T, NEW od \in Seq(T), IsOrderedDict(od, MaxKeys), NEW k, NEW item \in T, item.key = k
    PROVE  /\ Last(Room(od, k), item) \in Seq(T) /\ IsOrderedDict(Last(Room(od, k), item), MaxKeys)
           /\ item \in Items(Last(Room(od, k), item))
           /\ \A x \in Items(Last(Room(od, k), item)) : x = item \/ (x \in Items(od) /\ x.key # k)
  <1>1. Distinct(od) /\ Len(od) \in Nat /\ Len(od) <= MaxKeys /\ MaxKeys \in Nat \ {0}
    BY GuardAssumption DEF IsOrderedDict, Distinct
  <1>2. PICK room : room = Room(od, k)
    BY Zenon
  <1>3. room \in Seq(T) /\ Distinct(room) /\ (\A x \in Items(room) : x \in Items(od))
        /\ Len(room) <= MaxKeys /\ (k \notin Keys(room) => Len(room) < MaxKeys)
    <2>1. CASE k \notin Keys(od) /\ Len(od) >= MaxKeys
      <3>1. room = Tail(od) /\ Len(od) > 0
        BY <1>1, <1>2, <2>1 DEF Room
      <3>2. Len(Tail(od)) = Len(od) - 1 /\ Tail(od) \in Seq(T) /\ Distinct(Tail(od))
        BY <3>1, <1>1, TailIs, Zenon
      <3>3. \A x \in Items(Tail(od)) : x \in Items(od)
        BY <3>1, <1>1, TailIs, Zenon
      <3>4. Len(room) < MaxKeys /\ Len(room) <= MaxKeys
        BY <3>1, <3>2, <1>1
      <3> QED
        BY <3>1, <3>2, <3>3, <3>4, Zenon
    <2>2. CASE ~(k \notin Keys(od) /\ Len(od) >= MaxKeys)
      <3>1. room = od
        BY <1>2, <2>2, Zenon DEF Room
      <3>2. ~(Len(od) >= MaxKeys) => Len(od) < MaxKeys
        BY <1>1
      <3> QED
        BY <3>1, <3>2, <2>2, <1>1, Zenon
    <2> QED
      BY <2>1, <2>2, Zenon
  <1>4. PICK l : l = Last(room, item)
    BY Zenon
  <1>5. l \in Seq(T) /\ Distinct(l) /\ Len(l) = IF k \in Keys(room) THEN Len(room) ELSE Len(room) + 1
    BY <1>3, <1>4, LastIs, Zenon
  <1>6. Items(l) = {x \in Items(room) : x.key # k} \cup {item}
    BY <1>3, <1>4, LastIs
  <1>7. Len(l) <= MaxKeys
    BY <1>1, <1>3, <1>5
  <1>8. IsOrderedDict(l, MaxKeys)
    BY <1>5, <1>7, Zenon DEF IsOrderedDict, Distinct
  <1>9. item \in Items(l) /\ \A x \in Items(l) : x = item \/ (x \in Items(od) /\ x.key # k)
    BY <1>3, <1>6, Zenon
  <1> QED
    BY <1>2, <1>4, <1>5, <1>8, <1>9, Zenon

---------------------------------------------------------------------------
(* ProgressiveDelay.                                                       *)

Times == {c + wait(n, free) : c, n, free \in Nat}
Delayed(K) == [key : K, failures : Nat, next : Times, last : Nat]
DelaysTyped(od, K) == od \in Seq(Delayed(K)) /\ IsOrderedDict(od, MaxKeys)

\* _get() forgets a key whose last failure is older than forget_after, and nothing
\* else.
LEMMA GetIs ==
    ASSUME NEW K, NEW od, DelaysTyped(od, K), clock \in Nat, NEW k
    PROVE  /\ DelaysTyped(get(od, k), K)
           /\ \A x \in Items(get(od, k)) : x \in Items(od)
           /\ k \in Keys(get(od, k)) =>
                 /\ k \in Keys(od) /\ Item(od, k) \in Items(od) /\ Item(od, k).key = k
                 /\ Item(od, k) \in Delayed(K) /\ clock - Item(od, k).last <= Window
  <1>1. od \in Seq(Delayed(K)) /\ Distinct(od) /\ Len(od) \in Nat /\ Len(od) <= MaxKeys /\ MaxKeys \in Nat
    BY GuardAssumption DEF DelaysTyped, IsOrderedDict, Distinct
  <1>2. CASE k \in Keys(od) /\ clock - Item(od, k).last > Window
    <2>1. PICK w : w = Without(od, k)
      BY Zenon
    <2>2. get(od, k) = w
      BY <1>2, <2>1, Zenon DEF get
    <2>3. w \in Seq(Delayed(K)) /\ Distinct(w) /\ Len(w) = IF k \in Keys(od) THEN Len(od) - 1 ELSE Len(od)
      BY <1>1, <2>1, WithoutIs, Zenon
    <2>4. Items(w) = {x \in Items(od) : x.key # k}
      BY <1>1, <2>1, WithoutIs
    <2>5. Len(w) <= MaxKeys
      BY <1>1, <2>3
    <2>6. DelaysTyped(w, K)
      BY <2>3, <2>5, Zenon DEF DelaysTyped, IsOrderedDict, Distinct
    <2>7. k \notin Keys(w) /\ \A x \in Items(w) : x \in Items(od)
      BY <2>4, KeysOfItems, Zenon
    <2> QED
      BY <2>2, <2>6, <2>7, Zenon
  <1>3. CASE ~(k \in Keys(od) /\ clock - Item(od, k).last > Window)
    <2>1. get(od, k) = od
      BY <1>3, Zenon DEF get
    <2>2. ASSUME k \in Keys(od)
          PROVE  /\ Item(od, k) \in Items(od) /\ Item(od, k).key = k
                 /\ Item(od, k) \in Delayed(K) /\ clock - Item(od, k).last <= Window
      <3>1. Item(od, k) \in Items(od) /\ Item(od, k).key = k
        BY <1>1, <2>2, ItemOfKey, Zenon
      <3>2. \A x \in Items(od) : x \in Delayed(K)
        BY <1>1 DEF Items
      <3>3. Item(od, k).last \in Nat
        BY <3>1, <3>2, Zenon DEF Delayed
      <3>4. clock - Item(od, k).last <= Window
        BY <3>3, <1>3, <2>2, GuardAssumption
      <3> QED
        BY <3>1, <3>2, <3>4, Zenon
    <2> QED
      BY <2>1, <2>2, Zenon
  <1> QED
    BY <1>2, <1>3, Zenon

\* failure() leaves the key with a failure now, or in the case of an OverflowError
\* with the last one, and the other items as they were or forgotten.
LEMMA DelayFailureIs ==
    ASSUME NEW K, NEW od, DelaysTyped(od, K), clock \in Nat, NEW k \in K, NEW free \in Nat
    PROVE  /\ DelaysTyped(delay_failure(od, k, free), K)
           /\ k \in Keys(delay_failure(od, k, free))
           /\ \A x \in Items(delay_failure(od, k, free)) : x \in Items(od) \/ (x.key = k /\ x.last = clock)
  <1>1. PICK got : got = get(od, k)
    BY Zenon
  <1>2. /\ DelaysTyped(got, K) /\ \A x \in Items(got) : x \in Items(od)
        /\ k \in Keys(got) => Item(od, k) \in Delayed(K)
    BY <1>1, GetIs, Zenon
  <1>3. PICK n : n = Failures(od, k)
    BY Zenon
  <1>4. n \in Nat /\ (k \notin Keys(got) => n = 1)
    <2>1. CASE k \in Keys(got)
      <3>1. Item(od, k).failures \in Nat
        BY <1>2, <2>1, Zenon DEF Delayed
      <3>2. n = Item(od, k).failures + 1
        BY <1>1, <1>3, <2>1, Zenon DEF Failures
      <3> QED
        BY <2>1, <3>1, <3>2
    <2>2. CASE k \notin Keys(got)
      <3>1. n = 1
        BY <1>1, <1>3, <2>2, Zenon DEF Failures
      <3> QED
        BY <3>1, Zenon
    <2> QED
      BY <2>1, <2>2, Zenon
  <1>5. CASE Overflows(od, k, free)
    <2>1. n > free /\ n - free - 1 >= FloatExponent
      BY <1>3, <1>5, Zenon DEF Overflows
    <2>2. k \in Keys(got)
      BY <2>1, <1>4, GuardAssumption
    <2>3. delay_failure(od, k, free) = got
      BY <1>1, <1>5, Zenon DEF delay_failure
    <2> QED
      BY <2>2, <2>3, <1>2, Zenon
  <1>6. CASE ~Overflows(od, k, free)
    <2>1. PICK item : item = [key |-> k, failures |-> n, next |-> clock + wait(n, free), last |-> clock]
      BY Zenon
    <2>2. clock + wait(n, free) \in Times
      BY <1>4 DEF Times
    <2>3. item \in Delayed(K) /\ item.key = k /\ item.last = clock
      BY <1>4, <2>1, <2>2, Zenon DEF Delayed
    <2>4. delay_failure(od, k, free) = Last(Room(got, k), item)
      BY <1>1, <1>3, <1>6, <2>1, Zenon DEF delay_failure
    <2>5. got \in Seq(Delayed(K)) /\ IsOrderedDict(got, MaxKeys)
      BY <1>2, Zenon DEF DelaysTyped
    <2>6. /\ Last(Room(got, k), item) \in Seq(Delayed(K)) /\ IsOrderedDict(Last(Room(got, k), item), MaxKeys)
          /\ item \in Items(Last(Room(got, k), item))
          /\ \A x \in Items(Last(Room(got, k), item)) : x = item \/ (x \in Items(got) /\ x.key # k)
      BY <2>3, <2>5, LastInRoom, Zenon
    <2>7. DelaysTyped(Last(Room(got, k), item), K) /\ k \in Keys(Last(Room(got, k), item))
      BY <2>3, <2>6, KeysOfItems, Zenon DEF DelaysTyped
    <2> QED
      BY <2>3, <2>4, <2>6, <2>7, <1>2, Zenon
  <1> QED
    BY <1>5, <1>6, Zenon

\* A wait is asked only of a key that failed within forget_after.
LEMMA DelayedKeyFailed ==
    ASSUME NEW K, NEW od, DelaysTyped(od, K), clock \in Nat, NEW k, Delay(od, k) > 0
    PROVE  \E x \in Items(od) : x.key = k /\ clock - x.last <= Window
  <1>1. k \in Keys(get(od, k))
    <2>1. ~(0 > 0)
      OBVIOUS
    <2> QED
      BY <2>1, Zenon DEF Delay
  <1> QED
    BY <1>1, GetIs, Zenon

---------------------------------------------------------------------------
(* The failing sources of the identities.                                  *)

FailingTimes == UNION {[S -> Nat] : S \in SUBSET Sources}
Failing == [key : Names, at : FailingTimes]
SourcesTyped == sources \in Seq(Failing) /\ IsOrderedDict(sources, MaxKeys)

\* at is what _failing_sources() has left of the times before.
Kept(at, before) == \A s \in DOMAIN at : s \in DOMAIN before /\ at[s] = before[s]

\* The times of failures are functions on sets of stations.
LEMMA FailingTimesAre ==
    ASSUME NEW at
    PROVE  at \in FailingTimes <=>
              /\ DOMAIN at \subseteq Sources /\ at = [s \in DOMAIN at |-> at[s]] /\ \A s \in DOMAIN at : at[s] \in Nat
  BY DEF FailingTimes

\* _failing_sources() keeps of what is stored the times within the window.
LEMMA FailingSourcesAre ==
    ASSUME SourcesTyped, clock \in Nat, NEW n
    PROVE  /\ failing_sources(n) \in FailingTimes
           /\ \A s \in DOMAIN failing_sources(n) :
                 \E x \in Items(sources) :
                    /\ x.key = n /\ s \in DOMAIN x.at
                    /\ failing_sources(n)[s] = x.at[s] /\ clock - x.at[s] <= Window
           /\ \A x \in Items(sources) : x.key = n => Kept(failing_sources(n), x.at)
  <1>1. sources \in Seq(Failing) /\ Distinct(sources)
    BY Zenon DEF SourcesTyped, IsOrderedDict, Distinct
  <1>2. \A x \in Items(sources) : x \in Failing
    BY <1>1 DEF Items
  <1>3. PICK at : at = IF n \in Keys(sources) THEN Item(sources, n).at ELSE <<>>
    BY Zenon
  <1>4. PICK f : f = [s \in {s \in DOMAIN at : clock - at[s] <= Window} |-> at[s]]
    BY Zenon
  <1>5. failing_sources(n) = f
    BY <1>3, <1>4, Zenon DEF failing_sources
  <1>6. DOMAIN f = {s \in DOMAIN at : clock - at[s] <= Window} /\ \A s \in DOMAIN f : f[s] = at[s]
    BY <1>4, Zenon
  <1>7. CASE n \in Keys(sources)
    <2>1. PICK x \in Items(sources) : x = Item(sources, n) /\ x.key = n /\ \A y \in Items(sources) : y.key = n => y = x
      BY <1>1, <1>7, ItemOfKey, Zenon
    <2>2. at = x.at /\ at \in FailingTimes
      <3>1. at = x.at
        BY <1>3, <1>7, <2>1, Zenon
      <3>2. x.at \in FailingTimes
        BY <1>2, Zenon DEF Failing
      <3> QED
        BY <3>1, <3>2, Zenon
    <2>3. DOMAIN at \subseteq Sources /\ \A s \in DOMAIN at : at[s] \in Nat
      BY <2>2, FailingTimesAre, Zenon
    <2>4. f \in FailingTimes
      <3>1. DOMAIN f \subseteq Sources /\ \A s \in DOMAIN f : f[s] \in Nat
        BY <1>6, <2>3, Zenon
      <3>2. f = [s \in DOMAIN f |-> f[s]]
        BY <1>4, <1>6, Zenon
      <3> QED
        BY <3>1, <3>2, FailingTimesAre, Zenon
    <2>5. \A s \in DOMAIN f : s \in DOMAIN x.at /\ f[s] = x.at[s] /\ clock - x.at[s] <= Window
      BY <1>6, <2>2, Zenon
    <2> QED
      BY <1>5, <2>1, <2>4, <2>5, Zenon DEF Kept
  <1>8. CASE n \notin Keys(sources)
    <2>1. DOMAIN at = {}
      <3>1. at = <<>>
        BY <1>3, <1>8, Zenon
      <3> QED
        BY <3>1
    <2>2. DOMAIN f = {}
      BY <1>6, <2>1, Zenon
    <2>3. f \in FailingTimes
      <3>1. f = [s \in DOMAIN f |-> f[s]]
        BY <1>4, <1>6, Zenon
      <3> QED
        BY <2>2, <3>1, FailingTimesAre, Zenon
    <2>4. \A x \in Items(sources) : x.key # n
      BY <1>8, KeysOfItems, Zenon
    <2> QED
      BY <1>5, <2>2, <2>3, <2>4, Zenon DEF Kept
  <1> QED
    BY <1>7, <1>8, Zenon

\* Where the dictionary of an identity is pruned, no time is changed or added.
LEMMA PrunedForIs ==
    ASSUME SourcesTyped, clock \in Nat, NEW n
    PROVE  /\ PrunedFor(n) \in Seq(Failing) /\ IsOrderedDict(PrunedFor(n), MaxKeys)
           /\ \A x \in Items(PrunedFor(n)) : \E y \in Items(sources) : x.key = y.key /\ Kept(x.at, y.at)
  <1>1. PICK q : q = PrunedFor(n)
    BY Zenon
  <1>2. PICK m \in Nat : m = Len(sources) /\ DOMAIN sources = 1..m /\ \A i \in 1..m : sources[i] \in Failing
    BY DEF SourcesTyped
  <1>3. DOMAIN q = 1..m
    BY <1>1, <1>2, Zenon DEF PrunedFor
  <1>4. ASSUME NEW i \in 1..m
        PROVE  q[i] \in Failing /\ q[i].key = sources[i].key /\ Kept(q[i].at, sources[i].at)
    <2>1. sources[i] \in Failing /\ sources[i] \in Items(sources)
      BY <1>2, Zenon DEF Items
    <2>2. CASE sources[i].key = n
      <3>1. PICK f : f = failing_sources(sources[i].key)
        BY Zenon
      <3>2. f \in FailingTimes /\ Kept(f, sources[i].at)
        BY <2>1, <3>1, FailingSourcesAre, Zenon
      <3>3. q[i] = [sources[i] EXCEPT !.at = f]
        BY <1>1, <1>2, <2>2, <3>1, Zenon DEF PrunedFor, Pruned
      <3>4. q[i] \in Failing /\ q[i].key = sources[i].key /\ q[i].at = f
        BY <2>1, <3>2, <3>3, Zenon DEF Failing
      <3> QED
        BY <3>2, <3>4, Zenon
    <2>3. CASE sources[i].key # n
      <3>1. q[i] = sources[i]
        BY <1>1, <1>2, <2>3, Zenon DEF PrunedFor
      <3> QED
        BY <2>1, <3>1, Zenon DEF Kept
    <2> QED
      BY <2>2, <2>3, Zenon
  <1>5. q \in Seq(Failing) /\ Len(q) = m
    <2>1. q = [i \in 1..m |-> q[i]]
      BY <1>1, <1>2, Zenon DEF PrunedFor
    <2>2. q \in [1..m -> Failing]
      BY <1>4, <2>1, Zenon
    <2> QED
      BY <1>2, <2>2
  <1>6. IsOrderedDict(q, MaxKeys)
    <2>1. Len(q) <= MaxKeys
      BY <1>2, <1>5, Zenon DEF SourcesTyped, IsOrderedDict
    <2>2. \A i, j \in DOMAIN q : q[i].key = q[j].key => i = j
      BY <1>2, <1>3, <1>4, Zenon DEF SourcesTyped, IsOrderedDict
    <2> QED
      BY <2>1, <2>2, Zenon DEF IsOrderedDict
  <1>7. ASSUME NEW x \in Items(q) PROVE \E y \in Items(sources) : x.key = y.key /\ Kept(x.at, y.at)
    <2>1. PICK i \in 1..m : x = q[i]
      BY <1>3, Zenon DEF Items
    <2>2. sources[i] \in Items(sources)
      BY <1>2, Zenon DEF Items
    <2> QED
      BY <1>4, <2>1, <2>2, Zenon
  <1> QED
    BY <1>1, <1>5, <1>6, <1>7, Zenon

\* failure() of an identity: the times of the sources are those within the window,
\* with that of the source now; the oldest may be dropped.
LEMMA BoundedIs ==
    ASSUME NEW at \in FailingTimes
    PROVE  Bounded(at) \in FailingTimes /\ Kept(Bounded(at), at)
  <1>1. DOMAIN at \subseteq Sources /\ \A s \in DOMAIN at : at[s] \in Nat
    BY FailingTimesAre, Zenon
  <1>2. CASE Cardinality(DOMAIN at) <= Spread * 4
    <2>1. Bounded(at) = at
      BY <1>2, Zenon DEF Bounded
    <2> QED
      BY <2>1, Zenon DEF Kept
  <1>3. CASE ~(Cardinality(DOMAIN at) <= Spread * 4)
    <2>1. PICK o, b : b = [s \in DOMAIN at \ {o} |-> at[s]] /\ Bounded(at) = b
      BY <1>3, Zenon DEF Bounded
    <2>2. DOMAIN b = DOMAIN at \ {o} /\ \A s \in DOMAIN b : b[s] = at[s]
      BY <2>1, Zenon
    <2>3. b = [s \in DOMAIN b |-> b[s]]
      BY <2>1, <2>2, Zenon
    <2>4. DOMAIN b \subseteq Sources /\ \A s \in DOMAIN b : b[s] \in Nat
      BY <1>1, <2>2, Zenon
    <2>5. b \in FailingTimes
      BY <2>3, <2>4, FailingTimesAre, Zenon
    <2> QED
      BY <2>1, <2>2, <2>5, Zenon DEF Kept
  <1> QED
    BY <1>2, <1>3, Zenon

---------------------------------------------------------------------------
(* The guard and the history of failures.                                  *)

\* The history knows of a failure of k at `at`, or of a later one, while it counts.
Noticed(at, k) == at <= clock /\ (clock - at <= Window => failed[k] # None /\ at <= failed[k])

\* The inductive invariant of the guard: whatever it remembers, and may slow
\* anyone down for, is a failure that happened.
GuardInv ==
    /\ clock \in 0..MaxClock
    /\ DelaysTyped(pair, Pairs) /\ DelaysTyped(identity, Names) /\ SourcesTyped
    /\ failed \in [Pairs -> Nat \cup {None}]
    /\ \A x \in Items(pair) : Noticed(x.last, x.key)
    /\ \A x \in Items(sources) : \A s \in DOMAIN x.at : Noticed(x.at[s], <<x.key, s>>)

\* What the guard holds has the types its uses need.
LEMMA GuardTypes ==
    ASSUME GuardInv
    PROVE  /\ clock \in Nat
           /\ \A x \in Items(pair) : x.last \in Nat /\ x.key \in Pairs
           /\ \A x \in Items(sources) : \A s \in DOMAIN x.at : x.at[s] \in Nat /\ <<x.key, s>> \in Pairs
  <1>1. clock \in Nat
    BY GuardAssumption DEF GuardInv
  <1>2. \A x \in Items(pair) : x \in Delayed(Pairs)
    BY DEF GuardInv, DelaysTyped, Items
  <1>3. \A x \in Delayed(Pairs) : x.last \in Nat /\ x.key \in Pairs
    BY Zenon DEF Delayed
  <1>4. \A x \in Items(sources) : x \in Failing
    BY DEF GuardInv, SourcesTyped, Items
  <1>5. \A x \in Failing : x.key \in Names /\ x.at \in FailingTimes
    BY Zenon DEF Failing
  <1>6. \A x \in Items(sources) : \A s \in DOMAIN x.at : x.at[s] \in Nat /\ x.key \in Names /\ s \in Sources
    BY <1>4, <1>5, FailingTimesAre, Zenon
  <1>7. \A n \in Names, s \in Sources : <<n, s>> \in Pairs
    BY Zenon DEF Pairs
  <1> QED
    BY <1>1, <1>2, <1>3, <1>6, <1>7, Zenon

\* A failure that has been noticed stays so when another is recorded, and as time
\* passes.
LEMMA StaysNoticed ==
    ASSUME clock \in Nat, failed \in [Pairs -> Nat \cup {None}], NEW at \in Nat, NEW k \in Pairs, Noticed(at, k),
           \/ clock' = clock /\ failed' = failed
           \/ clock' = clock /\ \E j \in Pairs : failed' = [failed EXCEPT ![j] = clock]
           \/ clock' = clock + 1 /\ failed' = Aged(failed, Window)
    PROVE  Noticed(at, k)'
  <1>1. CASE clock' = clock /\ failed' = failed
    BY <1>1, Zenon DEF Noticed
  <1>2. CASE clock' = clock /\ \E j \in Pairs : failed' = [failed EXCEPT ![j] = clock]
    <2>1. failed'[k] = failed[k] \/ failed'[k] = clock
      BY <1>2, Zenon
    <2>2. clock # None
      BY NoneAssumption, Zenon
    <2> QED
      BY <1>2, <2>1, <2>2, Zenon DEF Noticed
  <1>3. CASE clock' = clock + 1 /\ failed' = Aged(failed, Window)
    <2>1. failed'[k] = IF failed[k] # None /\ clock' - failed[k] <= Window THEN failed[k] ELSE None
      BY <1>3, Zenon DEF Aged
    <2>2. failed[k] # None => failed[k] \in Nat
      BY Zenon
    <2>3. at <= clock'
      BY <1>3 DEF Noticed
    <2>4. ASSUME clock' - at <= Window PROVE clock - at <= Window
      BY <1>3, <2>4, GuardAssumption
    <2>5. ASSUME clock' - at <= Window, failed[k] # None, at <= failed[k] PROVE clock' - failed[k] <= Window
      BY <1>3, <2>2, <2>5, GuardAssumption
    <2> QED
      BY <2>1, <2>3, <2>4, <2>5, Zenon DEF Noticed
  <1> QED
    BY <1>1, <1>2, <1>3, Zenon

\* delay_for() forgets what is too old.
LEMMA CheckInv ==
    ASSUME GuardInv, NEW n \in Names, NEW s \in Sources, guess_check(n, s), UNCHANGED failed
    PROVE  GuardInv'
  <1>1. clock \in Nat
    BY GuardTypes, Zenon
  <1>2. DelaysTyped(pair', Pairs) /\ \A x \in Items(pair') : x \in Items(pair)
    BY <1>1, GetIs, Zenon DEF GuardInv, guess_check
  <1>3. DelaysTyped(identity', Names)
    <2>1. DelaysTyped(get(identity, n), Names)
      BY <1>1, GetIs, Zenon DEF GuardInv
    <2> QED
      BY <2>1, Zenon DEF GuardInv, guess_check
  <1>4. /\ sources' \in Seq(Failing) /\ IsOrderedDict(sources', MaxKeys)
        /\ \A x \in Items(sources') : \E y \in Items(sources) : x.key = y.key /\ Kept(x.at, y.at)
    BY <1>1, PrunedForIs, Zenon DEF GuardInv, guess_check
  <1>5. clock' = clock /\ failed' = failed
    BY Zenon DEF guess_check
  <1>6. \A x \in Items(pair') : Noticed(x.last, x.key)'
    BY <1>2, <1>5, Zenon DEF GuardInv, Noticed
  <1>7. \A x \in Items(sources') : \A t \in DOMAIN x.at : Noticed(x.at[t], <<x.key, t>>)
    BY <1>4, Zenon DEF GuardInv, Kept
  <1>8. \A x \in Items(sources') : \A t \in DOMAIN x.at : Noticed(x.at[t], <<x.key, t>>)'
    BY <1>5, <1>7, Zenon DEF Noticed
  <1> QED
    BY <1>2, <1>3, <1>4, <1>5, <1>6, <1>8, Zenon DEF GuardInv, DelaysTyped, SourcesTyped

\* failure() of the pair adds a failure now to those there were.
LEMMA PairFailureIs ==
    ASSUME GuardInv, NEW k \in Pairs
    PROVE  /\ DelaysTyped(delay_failure(pair, k, Free), Pairs) /\ k \in Keys(delay_failure(pair, k, Free))
           /\ \A x \in Items(delay_failure(pair, k, Free)) : x \in Items(pair) \/ (x.key = k /\ x.last = clock)
  <1>1. DelaysTyped(pair, Pairs) /\ clock \in Nat
    BY GuardTypes, Zenon DEF GuardInv
  <1>2. Free \in Nat
    BY GuardAssumption, Zenon
  <1> QED
    BY <1>1, <1>2, DelayFailureIs

\* The failing sources of an identity have failed.
LEMMA FailingSourcesNoticed ==
    ASSUME GuardInv, NEW n, NEW t \in DOMAIN failing_sources(n)
    PROVE  /\ failing_sources(n)[t] \in Nat /\ <<n, t>> \in Pairs /\ Noticed(failing_sources(n)[t], <<n, t>>)
           /\ clock - failing_sources(n)[t] <= Window
  <1>1. SourcesTyped /\ clock \in Nat
    BY GuardTypes, Zenon DEF GuardInv
  <1>2. PICK x \in Items(sources) :
           /\ x.key = n /\ t \in DOMAIN x.at
           /\ failing_sources(n)[t] = x.at[t] /\ clock - x.at[t] <= Window
    BY <1>1, FailingSourcesAre, Zenon
  <1>3. x.at[t] \in Nat /\ <<x.key, t>> \in Pairs /\ Noticed(x.at[t], <<x.key, t>>)
    BY <1>2, GuardTypes, Zenon DEF GuardInv
  <1> QED
    BY <1>2, <1>3, Zenon

\* failure() records one that happens now.
LEMMA FailureInv ==
    ASSUME GuardInv, NEW n \in Names, NEW s \in Sources, guess_failure(n, s),
           failed' = [failed EXCEPT ![<<n, s>>] = clock]
    PROVE  GuardInv' /\ <<n, s>> \in Keys(pair')
  <1>1. clock \in Nat /\ <<n, s>> \in Pairs /\ Free \in Nat /\ 0 \in Nat /\ failed \in [Pairs -> Nat \cup {None}]
    <2>1. <<n, s>> \in Pairs
      BY Zenon DEF Pairs
    <2> QED
      BY <2>1, GuardTypes, GuardAssumption, Zenon DEF GuardInv
  <1>2. clock' = clock
    BY Zenon DEF guess_failure
  <1>3. ASSUME NEW now, now = clock PROVE Noticed(now, <<n, s>>)'
    <2>1. failed'[<<n, s>>] = now /\ now # None /\ clock' = now
      BY <1>1, <1>2, <1>3, NoneAssumption, Zenon
    <2>2. now <= now
      BY <1>1, <1>3
    <2> QED
      BY <2>1, <2>2, Zenon DEF Noticed
  <1>4. ASSUME NEW at \in Nat, NEW k \in Pairs, Noticed(at, k) PROVE Noticed(at, k)'
    BY <1>1, <1>2, <1>4, StaysNoticed, Zenon
  <1>5. /\ DelaysTyped(pair', Pairs) /\ <<n, s>> \in Keys(pair')
        /\ \A x \in Items(pair') : x \in Items(pair) \/ (x.key = <<n, s>> /\ x.last = clock)
    <2>1. PICK k \in Pairs : k = <<n, s>>
      BY <1>1, Zenon
    <2>2. pair' = delay_failure(pair, k, Free)
      BY <2>1, Zenon DEF guess_failure
    <2> QED
      BY <2>1, <2>2, PairFailureIs, Zenon
  <1>6. \A x \in Items(pair') : Noticed(x.last, x.key)'
    BY <1>3, <1>4, <1>5, GuardTypes, Zenon DEF GuardInv
  <1>7. clock' \in 0..MaxClock /\ failed' \in [Pairs -> Nat \cup {None}]
    BY <1>1, <1>2, Zenon DEF GuardInv
  <1>8. CASE Overflows(pair, <<n, s>>, Free)
    <2>1. identity' = identity /\ sources' = sources
      BY <1>8, Zenon DEF guess_failure
    <2>2. \A x \in Items(sources') : \A t \in DOMAIN x.at : Noticed(x.at[t], <<x.key, t>>)'
      BY <1>4, <2>1, GuardTypes, Zenon DEF GuardInv
    <2> QED
      BY <1>5, <1>6, <1>7, <2>1, <2>2, Zenon DEF GuardInv, DelaysTyped, SourcesTyped
  <1>9. CASE ~Overflows(pair, <<n, s>>, Free)
    <2>1. PICK f : f = failing_sources(n) /\ f \in FailingTimes
      BY <1>1, FailingSourcesAre, Zenon DEF GuardInv
    <2>2. PICK g : g = [t \in DOMAIN f \cup {s} |-> IF t = s THEN clock ELSE f[t]]
      BY Zenon
    <2>3. DOMAIN g = DOMAIN f \cup {s} /\ g[s] = clock /\ \A t \in DOMAIN g : t # s => t \in DOMAIN f /\ g[t] = f[t]
      BY <2>2, Zenon
    <2>4. g \in FailingTimes
      <3>1. DOMAIN f \subseteq Sources /\ \A t \in DOMAIN f : f[t] \in Nat
        BY <2>1, FailingTimesAre, Zenon
      <3>2. DOMAIN g \subseteq Sources
        BY <2>3, <3>1, Zenon
      <3>3. \A t \in DOMAIN g : g[t] \in Nat
        BY <1>1, <2>3, <3>1, Zenon
      <3>4. g = [t \in DOMAIN g |-> g[t]]
        BY <2>2, <2>3, Zenon
      <3> QED
        BY <3>2, <3>3, <3>4, FailingTimesAre, Zenon
    <2>5. PICK b : b = Bounded(g) /\ b \in FailingTimes /\ Kept(b, g)
      BY <2>4, BoundedIs, Zenon
    <2>6. PICK item : item = [key |-> n, at |-> b]
      BY Zenon
    <2>7. item \in Failing /\ item.key = n /\ item.at = b
      BY <2>5, <2>6, Zenon DEF Failing
    <2>8. sources' = Last(Room(PrunedFor(n), n), item)
      BY <1>9, <2>1, <2>2, <2>5, <2>6, Zenon DEF guess_failure
    <2>9. PICK q : /\ q = PrunedFor(n) /\ q \in Seq(Failing) /\ IsOrderedDict(q, MaxKeys)
                   /\ \A x \in Items(q) : \E y \in Items(sources) : x.key = y.key /\ Kept(x.at, y.at)
      BY <1>1, PrunedForIs, Zenon DEF GuardInv
    <2>10. /\ sources' \in Seq(Failing) /\ IsOrderedDict(sources', MaxKeys)
           /\ \A x \in Items(sources') : x = item \/ x \in Items(q)
      BY <2>7, <2>8, <2>9, LastInRoom, Zenon
    <2>11. DelaysTyped(identity', Names)
      <3>1. DelaysTyped(delay_failure(identity, n, 0), Names)
        BY <1>1, DelayFailureIs, Zenon DEF GuardInv
      <3>2. identity' = delay_failure(identity, n, 0) \/ identity' = identity
        BY <1>9, Zenon DEF guess_failure
      <3> QED
        BY <3>1, <3>2, Zenon DEF GuardInv
    <2>12. ASSUME NEW t \in DOMAIN b PROVE Noticed(b[t], <<n, t>>)'
      <3>1. CASE t = s
        <4>1. b[t] = clock
          BY <2>3, <2>5, <3>1, Zenon DEF Kept
        <4> QED
          BY <1>3, <3>1, <4>1, Zenon
      <3>2. CASE t # s
        <4>1. t \in DOMAIN f /\ b[t] = f[t]
          BY <2>3, <2>5, <3>2, Zenon DEF Kept
        <4>2. b[t] \in Nat /\ <<n, t>> \in Pairs /\ Noticed(b[t], <<n, t>>)
          BY <2>1, <4>1, FailingSourcesNoticed, Zenon
        <4> QED
          BY <1>4, <4>2, Zenon
      <3> QED
        BY <3>1, <3>2, Zenon
    <2>13. ASSUME NEW x \in Items(q), NEW t \in DOMAIN x.at PROVE Noticed(x.at[t], <<x.key, t>>)'
      <3>1. PICK y \in Items(sources) : x.key = y.key /\ t \in DOMAIN y.at /\ x.at[t] = y.at[t]
        BY <2>9, Zenon DEF Kept
      <3>2. y.at[t] \in Nat /\ <<y.key, t>> \in Pairs /\ Noticed(y.at[t], <<y.key, t>>)
        BY <3>1, GuardTypes, Zenon DEF GuardInv
      <3> QED
        BY <1>4, <3>1, <3>2, Zenon
    <2>14. \A x \in Items(sources') : \A t \in DOMAIN x.at : Noticed(x.at[t], <<x.key, t>>)'
      BY <2>7, <2>10, <2>12, <2>13, Zenon
    <2> QED
      BY <1>5, <1>6, <1>7, <2>10, <2>11, <2>14, Zenon DEF GuardInv, DelaysTyped, SourcesTyped
  <1> QED
    BY <1>8, <1>9, Zenon

\* success() forgets the failures of the station.
LEMMA SuccessInv ==
    ASSUME GuardInv, NEW n \in Names, NEW s \in Sources, guess_success(n, s), UNCHANGED failed
    PROVE  GuardInv' /\ <<n, s>> \notin Keys(pair')
  <1>1. /\ pair \in Seq(Delayed(Pairs)) /\ Distinct(pair)
        /\ Len(pair) \in Nat /\ Len(pair) <= MaxKeys /\ MaxKeys \in Nat
    BY GuardAssumption DEF GuardInv, DelaysTyped, IsOrderedDict, Distinct
  <1>2. pair' = Without(pair, <<n, s>>) /\ UNCHANGED <<clock, identity, sources, failed>>
    BY Zenon DEF guess_success
  <1>3. /\ pair' \in Seq(Delayed(Pairs)) /\ Distinct(pair')
        /\ Len(pair') = IF <<n, s>> \in Keys(pair) THEN Len(pair) - 1 ELSE Len(pair)
    BY <1>1, <1>2, WithoutIs, Zenon
  <1>4. Items(pair') = {x \in Items(pair) : x.key # <<n, s>>}
    BY <1>1, <1>2, WithoutIs
  <1>5. Len(pair') <= MaxKeys
    BY <1>1, <1>3
  <1>6. DelaysTyped(pair', Pairs)
    BY <1>3, <1>5, Zenon DEF DelaysTyped, IsOrderedDict, Distinct
  <1>7. <<n, s>> \notin Keys(pair') /\ \A x \in Items(pair') : x \in Items(pair)
    BY <1>4, KeysOfItems, Zenon
  <1> QED
    BY <1>2, <1>6, <1>7, Zenon DEF GuardInv, DelaysTyped, SourcesTyped, Noticed

\* Time passes, and the history forgets what is older than the window.
LEMMA TickGuardInv ==
    ASSUME GuardInv, tick, failed' = Aged(failed, Window)
    PROVE  GuardInv'
  <1>1. clock \in Nat /\ failed \in [Pairs -> Nat \cup {None}]
    BY GuardTypes, Zenon DEF GuardInv
  <1>2. clock' = clock + 1 /\ clock < MaxClock /\ UNCHANGED <<pair, identity, sources>>
    BY Zenon DEF tick
  <1>3. ASSUME NEW at \in Nat, NEW k \in Pairs, Noticed(at, k) PROVE Noticed(at, k)'
    BY <1>1, <1>2, <1>3, StaysNoticed, Zenon
  <1>4. clock' \in 0..MaxClock
    BY <1>1, <1>2, GuardAssumption
  <1>5. failed' \in [Pairs -> Nat \cup {None}]
    BY <1>1, Zenon DEF Aged
  <1>6. \A x \in Items(pair) : Noticed(x.last, x.key)'
    BY <1>3, GuardTypes, Zenon DEF GuardInv
  <1>7. \A x \in Items(sources) : \A s \in DOMAIN x.at : Noticed(x.at[s], <<x.key, s>>)'
    BY <1>3, GuardTypes, Zenon DEF GuardInv
  <1> QED
    BY <1>2, <1>4, <1>5, <1>6, <1>7, Zenon DEF GuardInv, DelaysTyped, SourcesTyped

\* No station waits for the failures of others: a wait is asked for failures of the
\* station's own or of as many stations as `spread` says, all within the window.
LEMMA GuardSlowsGuessers == GuardInv => OwnerNotSlowed
  <1> SUFFICES ASSUME GuardInv, NEW n \in Names, NEW s \in Sources, GuessDelay(n, s) > 0, failed[<<n, s>>] = None
               PROVE  Cardinality({t \in Sources : failed[<<n, t>>] # None}) >= Spread
    BY Zenon DEF OwnerNotSlowed
  <1>1. clock \in Nat
    BY GuardTypes, Zenon
  <1>2. ~(Delay(pair, <<n, s>>) > 0)
    <2> SUFFICES ASSUME Delay(pair, <<n, s>>) > 0 PROVE FALSE
      BY Zenon
    <2>1. DelaysTyped(pair, Pairs)
      BY Zenon DEF GuardInv
    <2>2. PICK x \in Items(pair) : x.key = <<n, s>> /\ clock - x.last <= Window
      BY <1>1, <2>1, DelayedKeyFailed, Zenon
    <2> QED
      BY <2>2, Zenon DEF GuardInv, Noticed
  <1>3. Spreads(n)
    <2>1. ~(0 > 0)
      OBVIOUS
    <2> QED
      BY <1>2, <2>1, Zenon DEF GuessDelay
  <1>4. PICK S : S = {t \in Sources : failed[<<n, t>>] # None}
    BY Zenon
  <1>5. DOMAIN failing_sources(n) \in SUBSET S
    <2>1. \A t \in DOMAIN failing_sources(n) : <<n, t>> \in Pairs /\ failed[<<n, t>>] # None
      BY FailingSourcesNoticed, Zenon DEF Noticed
    <2>2. \A t : <<n, t>> \in Pairs => t \in Sources
      BY Zenon DEF Pairs
    <2> QED
      BY <1>4, <2>1, <2>2, Zenon
  <1>6. S \in SUBSET Sources
    BY <1>4, Zenon
  <1>7. IsFiniteSet(S)
    BY <1>6, NamesAreFinite, FS_Subset, Zenon
  <1>8. /\ Cardinality(DOMAIN failing_sources(n)) <= Cardinality(S)
        /\ Cardinality(S) \in Nat /\ Cardinality(DOMAIN failing_sources(n)) \in Nat
    BY <1>5, <1>7, FS_Subset, FS_CardinalityType, Zenon
  <1>9. Cardinality(DOMAIN failing_sources(n)) >= Spread /\ Spread \in Nat
    BY <1>3, GuardAssumption, Zenon DEF Spreads
  <1>10. Cardinality(S) >= Spread
    BY <1>8, <1>9
  <1> QED
    BY <1>4, <1>10, Zenon

---------------------------------------------------------------------------
(* The memory of verified passwords and the history of acceptances.        *)

Remembered == [key : Pairs, at : Nat]

\* An acceptance that counts is remembered, or as many are that are no older.
KnownOrCrowdedOut(k) ==
    accepted[k] # None =>
        /\ accepted[k] <= clock /\ clock - accepted[k] <= VerifiedSeconds
        /\ k \notin Keys(verified) =>
              Len(verified) = MaxVerified /\ \A x \in Items(verified) : accepted[k] <= x.at

\* What is remembered happened, and is the last acceptance of its key.
Happened(x) ==
    /\ x.at <= clock
    /\ accepted[x.key] # None => accepted[x.key] = x.at
    /\ clock - x.at <= VerifiedSeconds => accepted[x.key] # None

InOrder(od) == \A i, j \in DOMAIN od : i < j => od[i].at <= od[j].at

\* The inductive invariant of the memory.
VerifiedInv ==
    /\ verified \in Seq(Remembered) /\ IsOrderedDict(verified, MaxVerified)
    /\ accepted \in [Pairs -> Nat \cup {None}]
    /\ InOrder(verified)
    /\ \A x \in Items(verified) : Happened(x)
    /\ \A k \in Pairs : KnownOrCrowdedOut(k)

\* Types of what is remembered.
LEMMA VerifiedTypes ==
    ASSUME VerifiedInv
    PROVE  /\ Distinct(verified) /\ Len(verified) \in Nat /\ Len(verified) <= MaxVerified
           /\ \A x \in Items(verified) : x.key \in Pairs /\ x.at \in Nat
  <1>1. verified \in Seq(Remembered) /\ IsOrderedDict(verified, MaxVerified)
    BY Zenon DEF VerifiedInv
  <1>2. Distinct(verified) /\ Len(verified) <= MaxVerified
    BY <1>1, Zenon DEF IsOrderedDict, Distinct
  <1>3. Len(verified) \in Nat /\ \A x \in Items(verified) : x \in Remembered
    BY <1>1 DEF Items
  <1>4. \A x \in Remembered : x.key \in Pairs /\ x.at \in Nat
    BY Zenon DEF Remembered
  <1> QED
    BY <1>2, <1>3, <1>4, Zenon

\* recently_verified() is right about every station, or _MAX_VERIFIED others were
\* accepted since.
LEMMA MemoryIsRight == VerifiedInv /\ clock \in Nat => VerifiedRemembered
  <1> SUFFICES ASSUME VerifiedInv, clock \in Nat, NEW k \in Pairs
               PROVE  /\ recently_verified(k) => accepted[k] # None
                      /\ accepted[k] # None /\ ~recently_verified(k) =>
                            Cardinality({j \in Pairs \ {k} : accepted[j] # None /\ accepted[j] >= accepted[k]})
                                >= MaxVerified
    BY Zenon DEF VerifiedRemembered
  <1>1. ASSUME recently_verified(k) PROVE accepted[k] # None
    <2>1. k \in Keys(verified) /\ clock - Item(verified, k).at <= VerifiedSeconds
      BY <1>1, Zenon DEF recently_verified
    <2>2. Item(verified, k) \in Items(verified) /\ Item(verified, k).key = k
      BY <2>1, VerifiedTypes, ItemOfKey, Zenon
    <2> QED
      BY <2>1, <2>2, Zenon DEF VerifiedInv, Happened
  <1>2. ASSUME accepted[k] # None, ~recently_verified(k)
        PROVE  Cardinality({j \in Pairs \ {k} : accepted[j] # None /\ accepted[j] >= accepted[k]}) >= MaxVerified
    <2>1. accepted[k] \in Nat /\ clock - accepted[k] <= VerifiedSeconds
      BY <1>2, Zenon DEF VerifiedInv, KnownOrCrowdedOut
    <2>2. k \notin Keys(verified)
      <3> SUFFICES ASSUME k \in Keys(verified) PROVE FALSE
        BY Zenon
      <3>1. Item(verified, k) \in Items(verified) /\ Item(verified, k).key = k
        BY VerifiedTypes, ItemOfKey, Zenon
      <3>2. Item(verified, k).at = accepted[k]
        BY <1>2, <3>1, Zenon DEF VerifiedInv, Happened
      <3> QED
        BY <1>2, <2>1, <3>2, Zenon DEF recently_verified
    <2>3. Len(verified) = MaxVerified /\ \A x \in Items(verified) : accepted[k] <= x.at
      BY <1>2, <2>2, Zenon DEF VerifiedInv, KnownOrCrowdedOut
    <2>4. PICK S : S = {j \in Pairs \ {k} : accepted[j] # None /\ accepted[j] >= accepted[k]}
      BY Zenon
    <2>5. ASSUME NEW x \in Items(verified) PROVE x.key \in S
      <3>1. x.key \in Pairs /\ x.at \in Nat /\ accepted[k] <= x.at
        BY <2>3, VerifiedTypes, Zenon
      <3>2. clock - x.at <= VerifiedSeconds /\ x.at >= accepted[k]
        BY <2>1, <3>1, RememberedAssumption
      <3>3. accepted[x.key] # None /\ accepted[x.key] = x.at
        BY <3>2, Zenon DEF VerifiedInv, Happened
      <3>4. x.key # k
        BY <2>2, KeysOfItems, Zenon
      <3> QED
        BY <2>4, <3>1, <3>2, <3>3, <3>4, Zenon
    <2>6. PICK m \in Nat : m = Len(verified) /\ DOMAIN verified = 1..m
      BY DEF VerifiedInv
    <2>7. PICK f : f = [i \in 1..m |-> verified[i].key]
      BY Zenon
    <2>8. f \in Injection(1..m, S)
      <3>1. \A i \in 1..m : f[i] \in S /\ f[i] = verified[i].key
        BY <2>5, <2>6, <2>7, Zenon DEF Items
      <3>2. \A i, j \in 1..m : f[i] = f[j] => i = j
        <4> SUFFICES ASSUME NEW i \in 1..m, NEW j \in 1..m, f[i] = f[j] PROVE i = j
          BY Zenon
        <4>1. i \in DOMAIN verified /\ j \in DOMAIN verified /\ verified[i].key = verified[j].key
          BY <3>1, <2>6, Zenon
        <4>2. Distinct(verified)
          BY VerifiedTypes, Zenon
        <4> QED
          BY <4>1, <4>2, Zenon DEF Distinct
      <3>3. f \in [1..m -> S]
        BY <2>7, <3>1, Zenon
      <3> QED
        BY <3>2, <3>3, Zenon DEF Injection, IsInjective
    <2>9. IsFiniteSet(S)
      <3>1. IsFiniteSet(Pairs)
        BY NamesAreFinite, FS_Product, Zenon DEF Pairs
      <3>2. S \in SUBSET Pairs
        BY <2>4, Zenon
      <3> QED
        BY <3>1, <3>2, FS_Subset, Zenon
    <2>10. Cardinality(1..m) <= Cardinality(S)
      BY <2>8, <2>9, FS_Injection, Zenon
    <2>11. Cardinality(1..m) = m
      <3>1. 1 \in Int /\ m \in Int
        OBVIOUS
      <3>2. Cardinality(1..m) = IF 1 > m THEN 0 ELSE m - 1 + 1
        BY <3>1, FS_Interval, Zenon
      <3> QED
        BY <3>2
    <2>12. Cardinality(S) \in Nat
      BY <2>9, FS_CardinalityType, Zenon
    <2>13. Cardinality(S) >= MaxVerified
      BY <2>3, <2>6, <2>10, <2>11, <2>12, Zenon
    <2> QED
      BY <2>4, <2>13, Zenon
  <1> QED
    BY <1>1, <1>2, Zenon

\* _remember_verified() puts the key last, and drops the first item if there is one
\* too many.
LEMMA RememberInv ==
    ASSUME VerifiedInv, clock \in Nat, clock' = clock, NEW k \in Pairs,
           remember_verified(k), accepted' = [accepted EXCEPT ![k] = clock]
    PROVE  VerifiedInv'
  <1>1. /\ verified \in Seq(Remembered) /\ Distinct(verified) /\ Len(verified) \in Nat /\ Len(verified) <= MaxVerified
        /\ MaxVerified \in Nat /\ MaxVerified > 0
    BY VerifiedTypes, RememberedAssumption DEF VerifiedInv
  <1>2. PICK item \in Remembered : item = [key |-> k, at |-> clock] /\ item.key = k /\ item.at = clock
    <2>1. [key |-> k, at |-> clock] \in Remembered
      BY Zenon DEF Remembered
    <2> QED
      BY <2>1, Zenon
  <1>3. PICK l : l = Last(verified, item)
    BY Zenon
  <1>4. /\ l \in Seq(Remembered) /\ Distinct(l) /\ l[Len(l)] = item
        /\ Len(l) = IF k \in Keys(verified) THEN Len(verified) ELSE Len(verified) + 1
    BY <1>1, <1>2, <1>3, LastIs
  <1>5. \A x : x \in Items(l) <=> x = item \/ (x \in Items(verified) /\ x.key # k)
    <2>1. Items(l) = {x \in Items(verified) : x.key # item.key} \cup {item}
      BY <1>1, <1>3, LastIs
    <2> QED
      BY <2>1, <1>2, Zenon
  <1>6. PICK v : v = (IF Len(l) > MaxVerified THEN Tail(l) ELSE l) /\ verified' = v
    BY <1>2, <1>3, Zenon DEF remember_verified
  <1>7. \A x \in Items(l) : x.key \in Pairs /\ x.at \in Nat /\ x.at <= clock
    <2>1. clock <= clock
      OBVIOUS
    <2> QED
      BY <1>2, <1>5, <2>1, VerifiedTypes, Zenon DEF VerifiedInv, Happened
  <1>8. InOrder(l)
    <2> SUFFICES ASSUME NEW i \in DOMAIN l, NEW j \in DOMAIN l, i < j PROVE l[i].at <= l[j].at
      BY Zenon DEF InOrder
    <2>1. (\E p, q \in DOMAIN verified : p < q /\ l[i] = verified[p] /\ l[j] = verified[q]) \/ l[j] = item
      BY <1>1, <1>3, LastIs
    <2>2. CASE \E p, q \in DOMAIN verified : p < q /\ l[i] = verified[p] /\ l[j] = verified[q]
      BY <2>2, Zenon DEF VerifiedInv, InOrder
    <2>3. CASE l[j] = item
      <3>1. l[i] \in Items(l)
        BY Zenon DEF Items
      <3> QED
        BY <1>2, <1>7, <2>3, <3>1, Zenon
    <2> QED
      BY <2>1, <2>2, <2>3, Zenon
  <1>9. Len(l) \in Nat /\ DOMAIN l = 1..Len(l) /\ (Len(l) > MaxVerified => Len(l) = MaxVerified + 1 /\ Len(l) > 0)
    BY <1>1, <1>4
  \* What has become of the sequence.
  <1>10. /\ v \in Seq(Remembered) /\ Distinct(v) /\ InOrder(v) /\ Len(v) <= MaxVerified
         /\ (Len(l) >= MaxVerified => Len(v) = MaxVerified)
         /\ (\A x \in Items(v) : x \in Items(l)) /\ item \in Items(v)
         /\ \A x \in Items(l) : x \notin Items(v) =>
               Len(v) = MaxVerified /\ \A y \in Items(v) : x.at <= y.at
    <2>1. CASE Len(l) > MaxVerified
      <3>1. v = Tail(l) /\ Len(l) > 0 /\ Len(l) = MaxVerified + 1
        BY <1>6, <1>9, <2>1, Zenon
      <3>2. /\ v \in Seq(Remembered) /\ Distinct(v) /\ Len(v) = Len(l) - 1 /\ 1 \in DOMAIN l
            /\ \A i \in DOMAIN v : i + 1 \in DOMAIN l /\ v[i] = l[i + 1]
            /\ \A x : x \in Items(v) <=> x \in Items(l) /\ x # l[1]
        BY <1>4, <3>1, TailIs, ZenonT(60)
      <3>3. Len(v) = MaxVerified /\ Len(v) <= MaxVerified
        BY <3>1, <3>2, <1>1
      <3>4. InOrder(v)
        <4> SUFFICES ASSUME NEW i \in DOMAIN v, NEW j \in DOMAIN v, i < j PROVE v[i].at <= v[j].at
          BY Zenon DEF InOrder
        <4>1. i + 1 < j + 1
          BY <3>2
        <4> QED
          BY <4>1, <3>2, <1>8, Zenon DEF InOrder
      <3>5. item \in Items(v)
        <4>1. Len(l) \in DOMAIN l /\ Len(l) # 1
          BY <1>1, <1>9, <3>1
        <4>2. item # l[1]
          BY <1>4, <3>2, <4>1, Zenon DEF Distinct
        <4> QED
          BY <1>5, <3>2, <4>2, Zenon
      <3>6. ASSUME NEW y \in Items(v) PROVE l[1].at <= y.at
        <4>1. PICK i \in DOMAIN v : y = v[i]
          BY Zenon DEF Items
        <4>2. 1 < i + 1
          <5>1. i \in 1..Len(v) /\ Len(v) \in Nat
            BY <3>2
          <5> QED
            BY <5>1
        <4> QED
          BY <4>1, <4>2, <3>2, <1>8, Zenon DEF InOrder
      <3> QED
        BY <3>2, <3>3, <3>4, <3>5, <3>6, Zenon
    <2>2. CASE ~(Len(l) > MaxVerified)
      <3>1. v = l
        BY <1>6, <2>2, Zenon
      <3>2. Len(l) <= MaxVerified /\ (Len(l) >= MaxVerified => Len(l) = MaxVerified)
        <4>1. PICK a \in Nat : a = Len(l)
          BY <1>9, Zenon
        <4>2. a <= MaxVerified /\ (a >= MaxVerified => a = MaxVerified)
          BY <4>1, <1>1, <2>2
        <4> QED
          BY <4>1, <4>2, Zenon
      <3>3. item \in Items(l)
        BY <1>5, Zenon
      <3> QED
        BY <3>1, <3>2, <3>3, <1>4, <1>8, Zenon
    <2> QED
      BY <2>1, <2>2, Zenon
  <1>11. accepted \in [Pairs -> Nat \cup {None}] /\ clock # None
    BY NoneAssumption, Zenon DEF VerifiedInv
  <1>12. accepted'[k] = clock /\ \A j \in Pairs : j # k => accepted'[j] = accepted[j]
    BY <1>11, Zenon
  <1>13. ASSUME NEW x \in Items(v) PROVE Happened(x)'
    <2>1. CASE x = item
      <3>1. clock <= clock
        OBVIOUS
      <3> QED
        BY <2>1, <3>1, <1>2, <1>11, <1>12, Zenon DEF Happened
    <2>2. CASE x # item
      <3>1. x \in Items(verified) /\ x.key # k /\ x.key \in Pairs
        BY <2>2, <1>5, <1>7, <1>10, Zenon
      <3> QED
        BY <3>1, <1>12, Zenon DEF Happened, VerifiedInv
    <2> QED
      BY <2>1, <2>2, Zenon
  <1>14. ASSUME NEW j \in Pairs PROVE KnownOrCrowdedOut(j)'
    <2> SUFFICES ASSUME accepted'[j] # None
                 PROVE  /\ accepted'[j] <= clock /\ clock - accepted'[j] <= VerifiedSeconds
                        /\ j \notin Keys(v) => Len(v) = MaxVerified /\ \A x \in Items(v) : accepted'[j] <= x.at
      BY <1>6, Zenon DEF KnownOrCrowdedOut
    <2>1. CASE j = k
      <3>1. j \in Keys(v)
        BY <2>1, <1>2, <1>10, KeysOfItems, Zenon
      <3>2. clock <= clock /\ clock - clock <= VerifiedSeconds
        BY RememberedAssumption
      <3> QED
        BY <2>1, <3>1, <3>2, <1>12, Zenon
    <2>2. CASE j # k
      <3>1. /\ accepted'[j] = accepted[j] /\ accepted[j] <= clock /\ clock - accepted[j] <= VerifiedSeconds
            /\ j \notin Keys(verified) =>
                  Len(verified) = MaxVerified /\ \A x \in Items(verified) : accepted[j] <= x.at
        BY <2>2, <1>12, Zenon DEF VerifiedInv, KnownOrCrowdedOut
      <3>2. ASSUME j \notin Keys(v) PROVE Len(v) = MaxVerified /\ \A x \in Items(v) : accepted[j] <= x.at
        <4>1. CASE j \notin Keys(verified)
          <5>1. Len(l) >= MaxVerified
            BY <3>1, <4>1, <1>1, <1>4
          <5> QED
            BY <5>1, <3>1, <4>1, <1>2, <1>5, <1>10, Zenon
        <4>2. CASE j \in Keys(verified)
          <5>1. PICK x \in Items(verified) : x.key = j
            BY <4>2, KeysOfItems, Zenon
          <5>2. x \in Items(l) /\ x \notin Items(v)
            BY <5>1, <2>2, <3>2, <1>5, KeysOfItems, Zenon
          <5>3. accepted[j] = x.at
            BY <5>1, <2>2, <1>12, Zenon DEF VerifiedInv, Happened
          <5> QED
            BY <5>2, <5>3, <1>10, Zenon
        <4> QED
          BY <4>1, <4>2, Zenon
      <3> QED
        BY <3>1, <3>2, Zenon
    <2> QED
      BY <2>1, <2>2, Zenon
  <1>15. accepted' \in [Pairs -> Nat \cup {None}]
    BY <1>11, Zenon
  <1>16. IsOrderedDict(v, MaxVerified)
    BY <1>10, Zenon DEF IsOrderedDict, Distinct
  <1> QED
    BY <1>6, <1>10, <1>13, <1>14, <1>15, <1>16, Zenon DEF VerifiedInv

\* Time passes, and the history forgets what authorize() no longer may use.
LEMMA TickVerifiedInv ==
    ASSUME VerifiedInv, clock \in Nat, tick, accepted' = Aged(accepted, VerifiedSeconds), UNCHANGED verified
    PROVE  VerifiedInv'
  <1>1. clock' = clock + 1 /\ verified' = verified /\ accepted \in [Pairs -> Nat \cup {None}]
    BY Zenon DEF tick, VerifiedInv
  <1>2. \A k \in Pairs :
           accepted'[k] = IF accepted[k] # None /\ clock' - accepted[k] <= VerifiedSeconds THEN accepted[k] ELSE None
    BY Zenon DEF Aged
  <1>3. accepted' \in [Pairs -> Nat \cup {None}]
    BY <1>1, Zenon DEF Aged
  <1>4. ASSUME NEW x \in Items(verified) PROVE Happened(x)'
    <2>1. x.key \in Pairs /\ x.at \in Nat /\ Happened(x)
      BY VerifiedTypes, Zenon DEF VerifiedInv
    <2>2. x.at <= clock'
      BY <1>1, <2>1 DEF Happened
    <2>3. ASSUME clock' - x.at <= VerifiedSeconds PROVE clock - x.at <= VerifiedSeconds
      BY <1>1, <2>1, <2>3, RememberedAssumption
    <2> QED
      BY <1>2, <2>1, <2>2, <2>3, Zenon DEF Happened
  <1>5. ASSUME NEW k \in Pairs PROVE KnownOrCrowdedOut(k)'
    <2> SUFFICES ASSUME accepted'[k] # None
                 PROVE  /\ accepted'[k] <= clock' /\ clock' - accepted'[k] <= VerifiedSeconds
                        /\ k \notin Keys(verified) =>
                              Len(verified) = MaxVerified /\ \A x \in Items(verified) : accepted'[k] <= x.at
      BY <1>1, Zenon DEF KnownOrCrowdedOut
    <2>1. accepted'[k] = accepted[k] /\ accepted[k] # None /\ clock' - accepted[k] <= VerifiedSeconds
      BY <1>2, Zenon
    <2>2. /\ accepted[k] \in Nat /\ accepted[k] <= clock
          /\ k \notin Keys(verified) => Len(verified) = MaxVerified /\ \A x \in Items(verified) : accepted[k] <= x.at
      BY <1>1, <2>1, Zenon DEF VerifiedInv, KnownOrCrowdedOut
    <2>3. accepted[k] <= clock'
      BY <1>1, <2>2
    <2> QED
      BY <2>1, <2>2, <2>3, Zenon
  <1> QED
    BY <1>1, <1>3, <1>4, <1>5, Zenon DEF VerifiedInv, InOrder

---------------------------------------------------------------------------
(* The accounts, the requests and the import.                              *)

\* What the constraints of the tables and the code together say of an account.
RowOk(row, names) == (row.group # None => names[row.group] # None) /\ (row.source = "LDAP" <=> row.pw = None)

TablesInv ==
    /\ users \in [Names -> UserRows \cup {None}]
    /\ groups \in [GroupIds -> GroupNames \cup {None}]
    /\ \A n \in Names : users[n] # None => RowOk(users[n], groups)
    /\ \A g, h \in GroupIds : groups[g] # None /\ groups[g] = groups[h] => g = h

RequestRows ==
    [st : {"idle", "hash", "find", "bind", "provision", "load", "reload"}, name : Names \cup {None},
     source : Sources \cup {None}, pw : Passwords \cup {None}, hash : Passwords \cup {None},
     entry : {{}} \cup {e.groups : e \in Entries}, enabled : BOOLEAN]

RequestsInv ==
    /\ directory \in [Names -> Entries \cup {None}]
    /\ requests \in [Requests -> RequestRows]
    /\ \A r \in Requests : requests[r].st # "idle" => requests[r].name \in Names /\ requests[r].source \in Sources

\* An import holds one local account for each of its names.
UploadInv ==
    /\ upload \in [st : {"idle", "hash"}, rows : SUBSET [name : Names, row : UserRows]]
    /\ \A u, v \in upload.rows : u.name = v.name => u = v
    /\ \A u \in upload.rows : u.row.source = "LOCAL" /\ u.row.pw # None

\* The inductive invariant of the whole.
CredentialsInv == GuardInv /\ VerifiedInv /\ TablesInv /\ RequestsInv /\ UploadInv

\* The process starts with nothing remembered.
LEMMA CredentialsInitInv == CredentialsInit => CredentialsInv
  <1> SUFFICES ASSUME CredentialsInit PROVE CredentialsInv
    BY Zenon
  <1>1. \A T : <<>> \in Seq(T) /\ Len(<<>>) = 0 /\ DOMAIN <<>> = {}
    OBVIOUS
  <1>2. \A m \in Nat : IsOrderedDict(<<>>, m)
    BY <1>1 DEF IsOrderedDict
  <1>3. Items(<<>>) = {} /\ Keys(<<>>) = {} /\ InOrder(<<>>)
    BY <1>1, Zenon DEF Items, Keys, InOrder
  <1>4. MaxKeys \in Nat /\ MaxVerified \in Nat /\ 0 \in 0..MaxClock
    BY GuardAssumption, RememberedAssumption
  <1>5. GuardInv
    BY <1>1, <1>2, <1>3, <1>4, Zenon DEF CredentialsInit, ServiceInit, GuardInit, GuardInv, DelaysTyped, SourcesTyped
  <1>6. VerifiedInv
    BY <1>1, <1>2, <1>3, <1>4, Zenon DEF CredentialsInit, ServiceInit, VerifiedInv, KnownOrCrowdedOut
  <1>7. TablesInv
    BY Zenon DEF CredentialsInit, TablesInv
  <1>8. RequestsInv
    <2>1. Idle \in RequestRows /\ Idle.st = "idle"
      BY Zenon DEF Idle, RequestRows
    <2> QED
      BY <2>1, Zenon DEF CredentialsInit, ServiceInit, RequestsInv
  <1>9. UploadInv
    <2>1. NoUpload \in [st : {"idle", "hash"}, rows : SUBSET [name : Names, row : UserRows]] /\ NoUpload.rows = {}
      BY Zenon DEF NoUpload
    <2> QED
      BY <2>1, Zenon DEF CredentialsInit, ServiceInit, UploadInv
  <1> QED
    BY <1>5, <1>6, <1>7, <1>8, <1>9, Zenon DEF CredentialsInv

\* The guard and the memory do not depend on the rest.
LEMMA SignFrame ==
    ASSUME GuardInv, VerifiedInv, UNCHANGED <<guardVars, verified, historyVars>>
    PROVE  GuardInv' /\ VerifiedInv'
  <1>1. /\ clock' = clock /\ pair' = pair /\ identity' = identity /\ sources' = sources
        /\ verified' = verified /\ failed' = failed /\ accepted' = accepted
    BY Zenon DEF guardVars, historyVars
  <1>2. GuardInv'
    BY <1>1, Zenon DEF GuardInv, DelaysTyped, SourcesTyped, Noticed
  <1>3. VerifiedInv'
    BY <1>1, Zenon DEF VerifiedInv, InOrder, Happened, KnownOrCrowdedOut
  <1> QED
    BY <1>2, <1>3, Zenon

\* A request that is answered with a failure: the failure is recorded.
LEMMA RejectInv ==
    ASSUME GuardInv, VerifiedInv, NEW r, requests[r].name \in Names, requests[r].source \in Sources, Reject(r)
    PROVE  GuardInv' /\ VerifiedInv' /\ PairOf(r) \in Keys(pair')
  <1>1. PICK n \in Names, s \in Sources : n = requests[r].name /\ s = requests[r].source
    BY Zenon
  <1>2. guess_failure(n, s) /\ failed' = [failed EXCEPT ![<<n, s>>] = clock] /\ verified' = verified /\ accepted' = accepted
    BY <1>1, Zenon DEF Reject, PairOf
  <1>3. GuardInv' /\ PairOf(r) \in Keys(pair')
    BY <1>1, <1>2, FailureInv, Zenon DEF PairOf
  <1>4. clock' = clock
    BY <1>2, Zenon DEF guess_failure
  <1>5. VerifiedInv'
    BY <1>2, <1>4, Zenon DEF VerifiedInv, InOrder, Happened, KnownOrCrowdedOut
  <1> QED
    BY <1>3, <1>5, Zenon

\* A request that is answered with a success: the station starts anew.
LEMMA AcceptInv ==
    ASSUME GuardInv, VerifiedInv, NEW r, requests[r].name \in Names, requests[r].source \in Sources, Accept(r)
    PROVE  GuardInv' /\ VerifiedInv' /\ PairOf(r) \notin Keys(pair')
  <1>1. PICK n \in Names, s \in Sources : n = requests[r].name /\ s = requests[r].source
    BY Zenon
  <1>2. PICK k \in Pairs : k = <<n, s>>
    BY Zenon DEF Pairs
  <1>3. /\ guess_success(n, s) /\ failed' = failed
        /\ remember_verified(k) /\ accepted' = [accepted EXCEPT ![k] = clock]
    BY <1>1, <1>2, Zenon DEF Accept, PairOf
  <1>4. GuardInv' /\ PairOf(r) \notin Keys(pair')
    BY <1>1, <1>3, SuccessInv, Zenon DEF PairOf
  <1>5. clock' = clock /\ clock \in Nat
    BY <1>3, GuardTypes, Zenon DEF guess_success
  <1>6. VerifiedInv'
    BY <1>3, <1>5, RememberInv, Zenon
  <1> QED
    BY <1>4, <1>6, Zenon

\* A request that is answered is idle.
LEMMA AnswerInv ==
    ASSUME RequestsInv, NEW r \in Requests, Answer(r), UNCHANGED directory
    PROVE  RequestsInv'
  <1>1. Idle \in RequestRows /\ Idle.st = "idle"
    BY Zenon DEF Idle, RequestRows
  <1>2. \A q \in Requests : requests'[q] = IF q = r THEN Idle ELSE requests[q]
    BY Zenon DEF Answer, RequestsInv
  <1>3. requests' \in [Requests -> RequestRows]
    BY <1>1, Zenon DEF Answer, RequestsInv
  <1> QED
    BY <1>1, <1>2, <1>3, Zenon DEF RequestsInv

\* A request that goes on keeps what identifies it.
LEMMA GoesOnInv ==
    ASSUME RequestsInv, NEW r \in Requests, NEW row \in RequestRows, UNCHANGED directory,
           row.st # "idle" => row.name \in Names /\ row.source \in Sources,
           requests' = [requests EXCEPT ![r] = row]
    PROVE  RequestsInv'
  <1>1. \A q \in Requests : requests'[q] = IF q = r THEN row ELSE requests[q]
    BY Zenon DEF RequestsInv
  <1>2. requests' \in [Requests -> RequestRows]
    BY Zenon DEF RequestsInv
  <1> QED
    BY <1>1, <1>2, Zenon DEF RequestsInv

\* authenticate(): the request begins with a name and a station.
LEMMA ArrivesInv ==
    ASSUME CredentialsInv, Arrives
    PROVE  CredentialsInv'
  <1>1. PICK r \in Requests, n \in Names, s \in Sources, pw \in Passwords \cup {None} : authenticate(r, n, s, pw)
    BY Zenon DEF Arrives
  <1>2. GuardInv /\ VerifiedInv /\ TablesInv /\ RequestsInv /\ UploadInv
    BY Zenon DEF CredentialsInv
  <1>3. /\ guess_check(n, s) /\ users' = users /\ groups' = groups /\ directory' = directory
        /\ verified' = verified /\ upload' = upload /\ failed' = failed /\ accepted' = accepted
    BY <1>1, Zenon DEF authenticate, tableVars, ldapVars, historyVars
  <1>4. GuardInv'
    BY <1>2, <1>3, CheckInv, Zenon
  <1>5. VerifiedInv'
    <2>1. clock' = clock
      BY <1>3, Zenon DEF guess_check
    <2> QED
      BY <1>2, <1>3, <2>1, Zenon DEF VerifiedInv, InOrder, Happened, KnownOrCrowdedOut
  <1>6. TablesInv' /\ UploadInv'
    BY <1>2, <1>3, Zenon DEF TablesInv, UploadInv
  <1>7. RequestsInv'
    <2>1. CASE GuessDelay(n, s) > 0
      <3>1. Answer(r)
        BY <1>1, <2>1, Zenon DEF authenticate
      <3> QED
        BY <3>1, <1>2, <1>3, AnswerInv, Zenon
    <2>2. CASE ~(GuessDelay(n, s) > 0)
      <3>1. PICK refused, local, known :
               /\ known = users[n] /\ refused = (pw = None \/ (known # None /\ ~known.enabled))
               /\ local = (known # None /\ known.source = "LOCAL")
        BY Zenon
      <3>2. PICK st, hash, row :
               /\ st = IF refused \/ local \/ ~LdapEnabled THEN "hash" ELSE "find"
               /\ hash = IF ~refused /\ local THEN known.pw ELSE None
               /\ row = [Idle EXCEPT !.st = st, !.hash = hash, !.name = n, !.source = s, !.pw = pw]
        BY Zenon
      <3>3. requests' = [requests EXCEPT ![r] = row]
        BY <1>1, <2>2, <3>1, <3>2, Zenon DEF authenticate
      <3>4. hash \in Passwords \cup {None}
        <4>1. known # None => known \in UserRows
          BY <1>2, <3>1, Zenon DEF TablesInv
        <4>2. known # None => known.pw \in Passwords \cup {None}
          BY <4>1, Zenon DEF UserRows
        <4>3. local => known # None
          BY <3>1, Zenon
        <4> QED
          BY <3>2, <4>2, <4>3, Zenon
      <3>5. st \in {"hash", "find"}
        BY <3>2, Zenon
      <3>6. row \in RequestRows /\ row.name = n /\ row.source = s
        BY <3>2, <3>4, <3>5, Zenon DEF Idle, RequestRows
      <3> QED
        BY <3>3, <3>6, <1>2, <1>3, GoesOnInv, Zenon
    <2> QED
      BY <2>1, <2>2, Zenon
  <1> QED
    BY <1>4, <1>5, <1>6, <1>7, Zenon DEF CredentialsInv

\* verify_password(), the look-up, the bind and load_user(): an answer, or a step on.
LEMMA ChecksInv ==
    ASSUME CredentialsInv, NEW r \in Requests,
           password_checked(r) \/ ldap_find(r) \/ ldap_bind(r) \/ load_provisioned(r)
    PROVE  CredentialsInv'
  <1>1. GuardInv /\ VerifiedInv /\ TablesInv /\ RequestsInv /\ UploadInv
    BY Zenon DEF CredentialsInv
  <1>2. users' = users /\ groups' = groups /\ directory' = directory /\ upload' = upload /\ requests[r].st # "idle"
    <2>1. "load" # "idle" /\ "reload" # "idle"
      BY Zenon
    <2> QED
      BY <2>1, Zenon DEF password_checked, ldap_find, ldap_bind, load_provisioned, tableVars, ldapVars
  <1>3. TablesInv' /\ UploadInv'
    BY <1>1, <1>2, Zenon DEF TablesInv, UploadInv
  <1>4. requests[r].name \in Names /\ requests[r].source \in Sources /\ requests[r] \in RequestRows
    BY <1>1, <1>2, Zenon DEF RequestsInv
  <1>5. CASE Accept(r)
    BY <1>1, <1>2, <1>3, <1>4, <1>5, AcceptInv, AnswerInv, Zenon DEF CredentialsInv, Accept
  <1>6. CASE Reject(r)
    BY <1>1, <1>2, <1>3, <1>4, <1>6, RejectInv, AnswerInv, Zenon DEF CredentialsInv, Reject
  <1>7. CASE ~Accept(r) /\ ~Reject(r)
    <2>1. PICK st \in {"bind", "provision"}, found \in {{}} \cup {e.groups : e \in Entries} :
             /\ requests' = [requests EXCEPT ![r] = [requests[r] EXCEPT !.st = st, !.entry = found]]
             /\ UNCHANGED <<guardVars, verified, historyVars>>
      <3>1. CASE ldap_find(r)
        <4>1. PICK e : e = directory[requests[r].name]
          BY Zenon
        <4>2. e # None /\ requests' = [requests EXCEPT ![r].st = "bind", ![r].entry = e.groups]
              /\ UNCHANGED <<guardVars, verified, historyVars>>
          BY <1>7, <3>1, <4>1, Zenon DEF ldap_find
        <4>3. e.groups \in {{}} \cup {d.groups : d \in Entries}
          BY <1>1, <1>4, <4>1, <4>2, Zenon DEF RequestsInv
        <4>4. requests' = [requests EXCEPT ![r] = [requests[r] EXCEPT !.st = "bind", !.entry = e.groups]]
          BY <1>1, <4>2, Zenon DEF RequestsInv
        <4> QED
          BY <4>2, <4>3, <4>4, Zenon
      <3>2. CASE ldap_bind(r)
        <4>1. requests' = [requests EXCEPT ![r] = [requests[r] EXCEPT !.st = "provision"]]
              /\ UNCHANGED <<guardVars, verified, historyVars>>
          BY <1>7, <3>2, Zenon DEF ldap_bind
        <4>2. requests[r].entry \in {{}} \cup {e.groups : e \in Entries}
          BY <1>4, Zenon DEF RequestRows
        <4>3. [requests[r] EXCEPT !.st = "provision"]
                 = [requests[r] EXCEPT !.st = "provision", !.entry = requests[r].entry]
          BY <1>4, Zenon DEF RequestRows
        <4> QED
          BY <4>1, <4>2, <4>3, Zenon
      <3>3. ~password_checked(r) /\ ~load_provisioned(r)
        BY <1>7, Zenon DEF password_checked, load_provisioned
      <3> QED
        BY <3>1, <3>2, <3>3, Zenon
    <2>2. PICK row : row = [requests[r] EXCEPT !.st = st, !.entry = found]
      BY Zenon
    <2>3. row \in RequestRows /\ row.name = requests[r].name /\ row.source = requests[r].source
      BY <1>4, <2>1, <2>2, Zenon DEF RequestRows
    <2>4. RequestsInv'
      BY <1>1, <1>2, <1>4, <2>1, <2>2, <2>3, GoesOnInv, Zenon
    <2> QED
      BY <1>1, <1>3, <2>1, <2>4, SignFrame, Zenon DEF CredentialsInv
  <1> QED
    BY <1>5, <1>6, <1>7, Zenon

\* A group that is found by its name exists.
LEMMA GroupIdIs ==
    ASSUME NEW name
    PROVE  GroupId(name) \in GroupIds \cup {None} /\ (GroupId(name) # None => groups[GroupId(name)] # None)
  <1>1. CASE \E g \in GroupIds : groups[g] = name /\ name # None
    <2>1. PICK g \in GroupIds : groups[g] = name /\ GroupId(name) = g /\ name # None
      BY <1>1, Zenon DEF GroupId
    <2> QED
      BY <2>1, Zenon
  <1>2. CASE ~\E g \in GroupIds : groups[g] = name /\ name # None
    <2>1. GroupId(name) = None
      BY <1>2, Zenon DEF GroupId
    <2> QED
      BY <2>1, Zenon
  <1> QED
    BY <1>1, <1>2, Zenon

\* An account is stored or replaced by one that keeps the constraints.
LEMMA StoredInv ==
    ASSUME TablesInv, NEW n \in Names, NEW row \in UserRows, RowOk(row, groups),
           users' = [users EXCEPT ![n] = row], UNCHANGED groups
    PROVE  TablesInv'
  <1>1. users' \in [Names -> UserRows \cup {None}] /\ \A m \in Names : users'[m] = IF m = n THEN row ELSE users[m]
    BY Zenon DEF TablesInv
  <1> QED
    BY <1>1, Zenon DEF TablesInv

\* The account as the directory has it, if it is no local one.
LEMMA ProvisionedRow ==
    ASSUME TablesInv, NEW r, requests[r].name \in Names,
           users[requests[r].name] # None => users[requests[r].name].source = "LDAP"
    PROVE  /\ Provisioned(r) \in UserRows /\ RowOk(Provisioned(r), groups)
           /\ Provisioned(r).source = "LDAP" /\ Provisioned(r).enabled \in BOOLEAN
  <1>1. PICK n \in Names : n = requests[r].name
    BY Zenon
  <1>2. CASE users[n] = None
    <2>1. PICK g : g = Mapped(r, None) /\ g \in GroupIds \cup {None} /\ (g # None => groups[g] # None)
      BY GroupIdIs, Zenon DEF Mapped
    <2>2. PICK row : row = [source |-> "LDAP", enabled |-> TRUE, group |-> g, pw |-> None]
      BY Zenon
    <2>3. row \in UserRows /\ row.group = g /\ row.source = "LDAP" /\ row.pw = None /\ row.enabled \in BOOLEAN
      BY <2>1, <2>2, Zenon DEF UserRows
    <2>4. Provisioned(r) = row
      BY <1>1, <1>2, <2>1, <2>2, Zenon DEF Provisioned
    <2> QED
      BY <2>1, <2>3, <2>4, Zenon DEF RowOk
  <1>3. CASE users[n] # None
    <2>1. PICK old \in UserRows : old = users[n] /\ RowOk(old, groups) /\ old.source = "LDAP"
      BY <1>1, <1>3, Zenon DEF TablesInv
    <2>2. old.group \in GroupIds \cup {None} /\ old.enabled \in BOOLEAN
      BY Zenon DEF UserRows
    <2>3. PICK g : g = Mapped(r, old.group) /\ g \in GroupIds \cup {None} /\ (g # None => groups[g] # None)
      BY <2>1, <2>2, GroupIdIs, Zenon DEF Mapped, RowOk
    <2>4. PICK row : row = [old EXCEPT !.group = g]
      BY Zenon
    <2>5. row \in UserRows /\ row.group = g /\ row.source = old.source /\ row.pw = old.pw /\ row.enabled = old.enabled
      BY <2>3, <2>4, Zenon DEF UserRows
    <2>6. Provisioned(r) = row
      BY <1>1, <1>3, <2>1, <2>3, <2>4, Zenon DEF Provisioned
    <2> QED
      BY <2>1, <2>2, <2>3, <2>5, <2>6, Zenon DEF RowOk
  <1> QED
    BY <1>1, <1>2, <1>3, Zenon

\* _provision(), its first transaction: the directory's account is created or
\* given its group.
LEMMA ProvisionInv ==
    ASSUME CredentialsInv, NEW r \in Requests, provision(r)
    PROVE  CredentialsInv'
  <1>1. GuardInv /\ VerifiedInv /\ TablesInv /\ RequestsInv /\ UploadInv
    BY Zenon DEF CredentialsInv
  <1>2. groups' = groups /\ directory' = directory /\ upload' = upload /\ requests[r].st # "idle"
    BY Zenon DEF provision, ldapVars
  <1>3. PICK n \in Names : n = requests[r].name /\ requests[r].source \in Sources /\ requests[r] \in RequestRows
    BY <1>1, <1>2, Zenon DEF RequestsInv
  <1>4. UploadInv'
    BY <1>1, <1>2, Zenon DEF UploadInv
  <1>5. CASE users[n] # None /\ users[n].source # "LDAP"
    <2>1. Reject(r) /\ users' = users
      BY <1>3, <1>5, Zenon DEF provision
    <2>2. TablesInv'
      BY <1>1, <1>2, <2>1, Zenon DEF TablesInv
    <2>3. GuardInv' /\ VerifiedInv' /\ RequestsInv'
      BY <1>1, <1>2, <1>3, <2>1, RejectInv, AnswerInv, Zenon DEF Reject
    <2> QED
      BY <1>4, <2>2, <2>3, Zenon DEF CredentialsInv
  <1>6. CASE ~(users[n] # None /\ users[n].source # "LDAP")
    <2>1. StoreProvisioned(r)
      BY <1>3, <1>6, Zenon DEF provision
    <2>2. PICK row : row = Provisioned(r) /\ row \in UserRows /\ RowOk(row, groups) /\ row.enabled \in BOOLEAN
      BY <1>1, <1>3, <1>6, ProvisionedRow, Zenon
    <2>3. TablesInv'
      BY <1>1, <1>2, <1>3, <2>1, <2>2, StoredInv, Zenon DEF StoreProvisioned
    <2>4. GuardInv' /\ VerifiedInv'
      BY <1>1, <2>1, SignFrame, Zenon DEF StoreProvisioned
    <2>5. RequestsInv'
      <3>1. PICK new : new = [requests[r] EXCEPT !.st = "load", !.enabled = row.enabled]
        BY Zenon
      <3>2. requests' = [requests EXCEPT ![r] = new]
        <4>1. requests' = [requests EXCEPT ![r].st = "load", ![r].enabled = row.enabled]
          BY <2>1, <2>2, Zenon DEF StoreProvisioned
        <4> QED
          BY <1>1, <3>1, <4>1, Zenon DEF RequestsInv
      <3>3. new \in RequestRows /\ new.name = requests[r].name /\ new.source = requests[r].source
        BY <1>3, <2>2, <3>1, Zenon DEF RequestRows
      <3> QED
        BY <1>1, <1>2, <1>3, <3>2, <3>3, GoesOnInv, Zenon
    <2> QED
      BY <1>4, <2>3, <2>4, <2>5, Zenon DEF CredentialsInv
  <1> QED
    BY <1>5, <1>6, Zenon

\* The API and the import leave the sign-ins alone; only DELETE /users touches a
\* request, one that has stored the account.
LEMMA EditsFrame ==
    ASSUME Edits
    PROVE  UNCHANGED <<guardVars, verified, historyVars>> /\ (requests' = requests \/ \E n \in Names : delete_user(n))
  <1>1. \A n, e, g, pw : create_user(n, e, g, pw) \/ update_user(n, e, g, pw) => UNCHANGED signVars
    BY DEF create_user, update_user
  <1>2. \A g, name : create_group(name) \/ update_group(g, name) \/ delete_group(g) => UNCHANGED signVars
    BY Zenon DEF create_group, update_group, delete_group
  <1>3. \A n, entry : directory_changes(n, entry) \/ directory_fails => UNCHANGED signVars
    BY Zenon DEF directory_changes, directory_fails
  <1>4. \A file, barred : import_begin(file, barred) \/ import_commit => UNCHANGED signVars
    BY Zenon DEF import_begin, import_commit
  <1>5. \A n : delete_user(n) => UNCHANGED <<guardVars, verified, historyVars>>
    BY Zenon DEF delete_user
  <1>6. UNCHANGED signVars \/ \E n \in Names : delete_user(n)
    BY <1>1, <1>2, <1>3, <1>4, Zenon DEF Edits
  <1> QED
    BY <1>5, <1>6, Zenon DEF signVars

\* A request goes on with the name and the station it has.
LEMMA EditsRequests ==
    ASSUME RequestsInv, Edits
    PROVE  /\ requests' \in [Requests -> RequestRows]
           /\ \A r \in Requests : requests'[r].st # "idle" => requests'[r].name \in Names /\ requests'[r].source \in Sources
  <1>1. CASE requests' = requests
    BY <1>1, Zenon DEF RequestsInv
  <1>2. CASE \E n \in Names : delete_user(n)
    <2>1. PICK n \in Names : delete_user(n)
      BY <1>2, Zenon
    <2>2. ASSUME NEW r \in Requests
          PROVE  /\ requests'[r] \in RequestRows
                 /\ requests'[r].st # "idle" => requests'[r].name \in Names /\ requests'[r].source \in Sources
      <3>1. requests[r] \in RequestRows
        BY Zenon DEF RequestsInv
      <3>2. CASE requests[r].st = "load" /\ requests[r].name = n
        <4>1. PICK new : new = [requests[r] EXCEPT !.st = "reload"]
          BY Zenon
        <4>2. requests'[r] = new
          BY <2>1, <3>2, <4>1, Zenon DEF delete_user
        <4>3. new \in RequestRows /\ new.name = requests[r].name /\ new.source = requests[r].source
          BY <3>1, <4>1, Zenon DEF RequestRows
        <4>4. "load" # "idle"
          BY Zenon
        <4> QED
          BY <3>2, <4>2, <4>3, <4>4, Zenon DEF RequestsInv
      <3>3. CASE ~(requests[r].st = "load" /\ requests[r].name = n)
        <4>1. requests'[r] = requests[r]
          BY <2>1, <3>3, Zenon DEF delete_user
        <4> QED
          BY <3>1, <4>1, Zenon DEF RequestsInv
      <3> QED
        BY <3>2, <3>3, Zenon
    <2>3. requests' \in [Requests -> RequestRows]
      BY <2>1, <2>2, Zenon DEF delete_user
    <2> QED
      BY <2>2, <2>3, Zenon
  <1> QED
    BY <1>1, <1>2, EditsFrame, Zenon

\* POST, PATCH and DELETE /users.
LEMMA UserEditsInv ==
    ASSUME TablesInv, NEW n \in Names, NEW e \in BOOLEAN, NEW g \in GroupIds \cup {None},
           NEW pw \in Passwords \cup {None},
           \/ pw # None /\ create_user(n, e, g, pw)
           \/ update_user(n, e, g, pw)
           \/ delete_user(n)
    PROVE  TablesInv'
  <1>1. groups' = groups
    BY Zenon DEF create_user, update_user, delete_user
  <1>2. CASE pw # None /\ create_user(n, e, g, pw)
    <2>1. PICK row : row = Local([enabled |-> e, group |-> g, pw |-> pw])
      BY Zenon
    <2>2. row \in UserRows /\ row.group = g /\ row.source = "LOCAL" /\ row.pw = pw
      BY <2>1, Zenon DEF Local, UserRows
    <2>3. RowOk(row, groups) /\ users' = [users EXCEPT ![n] = row]
      <3>1. "LOCAL" # "LDAP"
        BY Zenon
      <3> QED
        BY <1>2, <2>1, <2>2, <3>1, Zenon DEF RowOk, create_user
    <2> QED
      BY <1>1, <2>2, <2>3, StoredInv, Zenon
  <1>3. CASE update_user(n, e, g, pw)
    <2>1. PICK old : old = users[n] /\ old \in UserRows /\ RowOk(old, groups)
      BY <1>3, Zenon DEF update_user, TablesInv
    <2>2. PICK p : p = IF pw # None THEN pw ELSE old.pw
      BY Zenon
    <2>3. PICK row : row = [old EXCEPT !.enabled = e, !.group = g, !.pw = p]
      BY Zenon
    <2>4. old.pw \in Passwords \cup {None} /\ p \in Passwords \cup {None}
      BY <2>1, <2>2, Zenon DEF UserRows
    <2>5. row \in UserRows /\ row.group = g /\ row.source = old.source /\ row.pw = p
      BY <2>1, <2>3, <2>4, Zenon DEF UserRows
    <2>6. users' = [users EXCEPT ![n] = row]
      <3>1. users' = [users EXCEPT ![n].enabled = e, ![n].group = g, ![n].pw = IF pw # None THEN pw ELSE @]
        BY <1>3, Zenon DEF update_user
      <3>2. users \in [Names -> UserRows \cup {None}]
        BY Zenon DEF TablesInv
      <3> QED
        BY <3>1, <3>2, <2>1, <2>2, <2>3, Zenon
    <2>7. RowOk(row, groups)
      <3>1. (g # None => groups[g] # None) /\ (pw # None => old.source = "LOCAL")
        BY <1>3, <2>1, Zenon DEF update_user
      <3>2. "LOCAL" # "LDAP"
        BY Zenon
      <3> QED
        BY <2>1, <2>2, <2>5, <3>1, <3>2, Zenon DEF RowOk
    <2> QED
      BY <1>1, <2>5, <2>6, <2>7, StoredInv, Zenon
  <1>4. CASE delete_user(n)
    <2>1. users' = [users EXCEPT ![n] = None] /\ users \in [Names -> UserRows \cup {None}]
      BY <1>4, Zenon DEF delete_user, TablesInv
    <2>2. \A m \in Names : users'[m] = IF m = n THEN None ELSE users[m]
      BY <2>1, Zenon
    <2>3. users' \in [Names -> UserRows \cup {None}]
      BY <2>1, Zenon
    <2> QED
      BY <1>1, <2>2, <2>3, Zenon DEF TablesInv
  <1> QED
    BY <1>2, <1>3, <1>4, Zenon

\* A group is given a name no group has.
LEMMA GroupNamedInv ==
    ASSUME TablesInv, NEW id \in GroupIds, NEW name \in GroupNames, \A g \in GroupIds : groups[g] # name,
           groups' = [groups EXCEPT ![id] = name], UNCHANGED users
    PROVE  TablesInv'
  <1>1. name # None
    BY NoneAssumption, Zenon
  <1>2. /\ groups' \in [GroupIds -> GroupNames \cup {None}]
        /\ \A g \in GroupIds : groups'[g] = IF g = id THEN name ELSE groups[g]
    BY Zenon DEF TablesInv
  <1>3. \A g, h \in GroupIds : groups'[g] # None /\ groups'[g] = groups'[h] => g = h
    BY <1>2, Zenon DEF TablesInv
  <1>4. ASSUME NEW n \in Names, users[n] # None PROVE RowOk(users[n], groups')
    <2>1. users[n] \in UserRows /\ RowOk(users[n], groups)
      BY <1>4, Zenon DEF TablesInv
    <2>2. users[n].group \in GroupIds \cup {None}
      BY <2>1, Zenon DEF UserRows
    <2> QED
      BY <1>1, <1>2, <2>1, <2>2, Zenon DEF RowOk
  <1> QED
    BY <1>2, <1>3, <1>4, Zenon DEF TablesInv

\* DELETE /groups: the members lose the group in the same transaction.
LEMMA GroupDeletedInv ==
    ASSUME TablesInv, NEW g \in GroupIds, delete_group(g)
    PROVE  TablesInv'
  <1>1. /\ groups' \in [GroupIds -> GroupNames \cup {None}]
        /\ \A h \in GroupIds : groups'[h] = IF h = g THEN None ELSE groups[h]
    BY Zenon DEF TablesInv, delete_group
  <1>2. \A h, i \in GroupIds : groups'[h] # None /\ groups'[h] = groups'[i] => h = i
    BY <1>1, Zenon DEF TablesInv
  <1>3. ASSUME NEW n \in Names
        PROVE  users'[n] \in UserRows \cup {None} /\ (users'[n] # None => RowOk(users'[n], groups'))
    <2>1. users'[n] = IF users[n] # None /\ users[n].group = g THEN [users[n] EXCEPT !.group = None] ELSE users[n]
      BY Zenon DEF delete_group
    <2>2. CASE users[n] = None
      BY <2>1, <2>2, Zenon
    <2>3. CASE users[n] # None
      <3>1. PICK old \in UserRows : old = users[n] /\ RowOk(old, groups)
        BY <2>3, Zenon DEF TablesInv
      <3>2. CASE old.group = g
        <4>1. PICK row : row = [old EXCEPT !.group = None]
          BY Zenon
        <4>2. row \in UserRows /\ row.group = None /\ row.source = old.source /\ row.pw = old.pw
          BY <3>1, <4>1, Zenon DEF UserRows
        <4> QED
          BY <2>1, <2>3, <3>1, <3>2, <4>1, <4>2, Zenon DEF RowOk
      <3>3. CASE old.group # g
        <4>1. old.group \in GroupIds \cup {None}
          BY <3>1, Zenon DEF UserRows
        <4> QED
          BY <1>1, <2>1, <2>3, <3>1, <3>3, <4>1, Zenon DEF RowOk
      <3> QED
        BY <3>2, <3>3, Zenon
    <2> QED
      BY <2>2, <2>3, Zenon
  <1>4. users' \in [Names -> UserRows \cup {None}]
    <2>1. PICK row : row = [n \in Names |-> users'[n]]
      BY Zenon
    <2>2. users' = row
      BY <2>1, Zenon DEF delete_group
    <2> QED
      BY <1>3, <2>1, <2>2, Zenon
  <1> QED
    BY <1>1, <1>2, <1>3, <1>4, Zenon DEF TablesInv

\* _import(): of each name one row is taken, the first that is valid.
LEMMA ImportedRows ==
    ASSUME NEW file \in Files, NEW barred
    PROVE  /\ Imported(file, barred) \subseteq [name : Names, row : UserRows]
           /\ \A u, v \in Imported(file, barred) : u.name = v.name => u = v
           /\ \A u \in Imported(file, barred) : u.row.source = "LOCAL" /\ u.row.pw # None
  <1>1. file \in Seq(FileRows)
    BY InputsAreWellFormed, Zenon
  <1>2. DOMAIN file \subseteq Nat /\ \A i \in DOMAIN file : i \in 1..Len(file) /\ file[i] \in FileRows
    BY <1>1
  <1>3. PICK first : first = [i \in DOMAIN file |->
            [name |-> file[i].name, row |-> Local([file[i] EXCEPT !.group = GroupId(file[i].group)])]]
    BY Zenon
  <1>4. ASSUME NEW u \in Imported(file, barred)
        PROVE  \E i \in DOMAIN file :
                  /\ u = first[i] /\ Valid(file[i], barred)
                  /\ \A j \in 1..(i - 1) : file[j].name = file[i].name => ~Valid(file[j], barred)
    BY <1>3, Zenon DEF Imported
  <1>5. ASSUME NEW i \in DOMAIN file, Valid(file[i], barred)
        PROVE  /\ first[i].name = file[i].name /\ first[i] \in [name : Names, row : UserRows]
               /\ first[i].row.source = "LOCAL" /\ first[i].row.pw # None
    <2>1. PICK f \in FileRows : f = file[i]
      BY <1>2, Zenon
    <2>2. PICK g \in GroupIds \cup {None} : g = GroupId(f.group)
      BY GroupIdIs, Zenon
    <2>3. PICK row : row = Local([f EXCEPT !.group = g])
      BY Zenon
    <2>4. row \in UserRows /\ row.source = "LOCAL" /\ row.pw = f.pw
      BY <2>1, <2>2, <2>3, Zenon DEF Local, UserRows, FileRows
    <2>5. f.name \in Names
      BY <2>1, Zenon DEF FileRows
    <2>6. first[i] = [name |-> f.name, row |-> row]
      BY <1>3, <2>1, <2>2, <2>3, Zenon
    <2>7. f.pw # None
      BY <1>5, <2>1, Zenon DEF Valid
    <2> QED
      BY <2>1, <2>4, <2>5, <2>6, <2>7
  <1>6. ASSUME NEW u \in Imported(file, barred), NEW v \in Imported(file, barred), u.name = v.name PROVE u = v
    <2>1. PICK i \in DOMAIN file : /\ u = first[i] /\ Valid(file[i], barred)
                                   /\ \A l \in 1..(i - 1) : file[l].name = file[i].name => ~Valid(file[l], barred)
      BY <1>4, Zenon
    <2>2. PICK j \in DOMAIN file : /\ v = first[j] /\ Valid(file[j], barred)
                                   /\ \A l \in 1..(j - 1) : file[l].name = file[j].name => ~Valid(file[l], barred)
      BY <1>4, Zenon
    <2>3. file[i].name = file[j].name
      BY <1>5, <1>6, <2>1, <2>2, Zenon
    <2>4. i \in 1..Len(file) /\ j \in 1..Len(file) /\ Len(file) \in Nat
      BY <1>1, <1>2
    <2>5. i = j \/ i \in 1..(j - 1) \/ j \in 1..(i - 1)
      BY <2>4
    <2> QED
      BY <2>1, <2>2, <2>3, <2>5, Zenon
  <1>7. Imported(file, barred) \subseteq [name : Names, row : UserRows]
    <2>1. PICK T : T = [name : Names, row : UserRows]
      BY Zenon
    <2>2. \A i \in DOMAIN file : Valid(file[i], barred) => first[i] \in T
      BY <1>5, <2>1, Zenon
    <2>3. ASSUME NEW u \in Imported(file, barred) PROVE u \in T
      <3>1. PICK i \in DOMAIN file : u = first[i] /\ Valid(file[i], barred)
        BY <1>4, Zenon
      <3> QED
        BY <2>2, <3>1, Zenon
    <2> QED
      BY <2>1, <2>3, Zenon
  <1>8. ASSUME NEW u \in Imported(file, barred) PROVE u.row.source = "LOCAL" /\ u.row.pw # None
    <2>1. PICK i \in DOMAIN file : u = first[i] /\ Valid(file[i], barred)
      BY <1>4, Zenon
    <2> QED
      BY <1>5, <2>1, Zenon
  <1> QED
    BY <1>6, <1>7, <1>8, Zenon

\* The import begins.
LEMMA ImportBeginInv ==
    ASSUME UploadInv, NEW file \in Files, NEW barred, import_begin(file, barred)
    PROVE  UploadInv'
  <1>1. PICK rows : rows = Imported(file, barred)
    BY Zenon
  <1>2. upload' = [st |-> "hash", rows |-> rows]
    BY <1>1, Zenon DEF import_begin
  <1>3. rows \in SUBSET [name : Names, row : UserRows]
    BY <1>1, ImportedRows, Zenon
  <1>4. upload'.rows = rows /\ upload' \in [st : {"idle", "hash"}, rows : SUBSET [name : Names, row : UserRows]]
    BY <1>2, <1>3, Zenon
  <1>5. /\ \A u, v \in rows : u.name = v.name => u = v
        /\ \A u \in rows : u.row.source = "LOCAL" /\ u.row.pw # None
    BY <1>1, ImportedRows, Zenon
  <1> QED
    BY <1>4, <1>5, Zenon DEF UploadInv

\* What the insertion of the rows leaves under each name.
LEMMA AddedRows ==
    ASSUME UploadInv, NEW n \in Names
    PROVE  /\ \A u \in upload.rows : u.name = n => Added(upload.rows)[n] = u.row
           /\ (~\E u \in upload.rows : u.name = n) => Added(upload.rows)[n] = users[n]
  <1>1. PICK rows : rows = upload.rows
    BY Zenon
  <1>2. Added(rows)[n] = IF \E u \in rows : u.name = n THEN (CHOOSE u \in rows : u.name = n).row ELSE users[n]
    BY Zenon DEF Added
  <1>3. ASSUME NEW u \in rows, u.name = n PROVE Added(rows)[n] = u.row
    <2>1. PICK v \in rows : v = (CHOOSE w \in rows : w.name = n) /\ v.name = n
      BY <1>3, Zenon
    <2>2. v = u
      BY <1>1, <1>3, <2>1, Zenon DEF UploadInv
    <2> QED
      BY <1>2, <1>3, <2>1, <2>2, Zenon
  <1> QED
    BY <1>1, <1>2, <1>3, Zenon

\* The import ends: the rows keep the constraints, or none is inserted.
LEMMA ImportCommitInv ==
    ASSUME TablesInv, UploadInv, import_commit
    PROVE  TablesInv' /\ UploadInv'
  <1>1. UploadInv'
    <2>1. NoUpload \in [st : {"idle", "hash"}, rows : SUBSET [name : Names, row : UserRows]] /\ NoUpload.rows = {}
      BY Zenon DEF NoUpload
    <2> QED
      BY <2>1, Zenon DEF import_commit, UploadInv
  <1>2. groups' = groups
    BY Zenon DEF import_commit
  <1>3. CASE Conflict(upload.rows)
    <2>1. users' = users
      BY <1>3, Zenon DEF import_commit
    <2> QED
      BY <1>1, <1>2, <2>1, Zenon DEF TablesInv
  <1>4. CASE ~Conflict(upload.rows)
    <2>1. users' = Added(upload.rows)
      BY <1>4, Zenon DEF import_commit
    <2>2. ASSUME NEW n \in Names
          PROVE  users'[n] \in UserRows \cup {None} /\ (users'[n] # None => RowOk(users'[n], groups))
      <3>1. CASE \E u \in upload.rows : u.name = n
        <4>1. PICK u \in upload.rows : u.name = n
          BY <3>1, Zenon
        <4>2. users'[n] = u.row
          BY <2>1, <4>1, AddedRows, Zenon
        <4>3. upload.rows \subseteq [name : Names, row : UserRows]
          BY Zenon DEF UploadInv
        <4>4. u.row \in UserRows
          BY <4>1, <4>3, Zenon
        <4>5. u.row.group # None => groups[u.row.group] # None
          BY <1>4, <4>1, Zenon DEF Conflict
        <4>6. u.row.source = "LOCAL" /\ u.row.pw # None /\ "LOCAL" # "LDAP"
          BY <4>1, Zenon DEF UploadInv
        <4> QED
          BY <4>2, <4>4, <4>5, <4>6, Zenon DEF RowOk
      <3>2. CASE ~\E u \in upload.rows : u.name = n
        <4>1. users'[n] = users[n]
          BY <2>1, <3>2, AddedRows, Zenon
        <4> QED
          BY <4>1, Zenon DEF TablesInv
      <3> QED
        BY <3>1, <3>2, Zenon
    <2>3. users' \in [Names -> UserRows \cup {None}]
      <3>1. users' = [n \in Names |-> users'[n]]
        BY <2>1, Zenon DEF Added
      <3> QED
        BY <2>2, <3>1, Zenon
    <2> QED
      BY <1>1, <1>2, <2>2, <2>3, Zenon DEF TablesInv
  <1> QED
    BY <1>3, <1>4, Zenon

\* The accounts, the groups and the directory change, and files are imported.
LEMMA EditsInv ==
    ASSUME CredentialsInv, Edits
    PROVE  CredentialsInv'
  <1>1. GuardInv /\ VerifiedInv /\ TablesInv /\ RequestsInv /\ UploadInv
    BY Zenon DEF CredentialsInv
  <1>2. UNCHANGED <<guardVars, verified, historyVars>>
    BY EditsFrame, Zenon
  <1>3. GuardInv' /\ VerifiedInv'
    BY <1>1, <1>2, SignFrame, Zenon
  <1>4. /\ requests' \in [Requests -> RequestRows]
        /\ \A r \in Requests : requests'[r].st # "idle" => requests'[r].name \in Names /\ requests'[r].source \in Sources
    BY <1>1, EditsRequests, Zenon
  <1>5. directory' = directory => RequestsInv'
    BY <1>1, <1>4, Zenon DEF RequestsInv
  <1>6. upload' = upload => UploadInv'
    BY <1>1, Zenon DEF UploadInv
  <1>7. users' = users /\ groups' = groups => TablesInv'
    BY <1>1, Zenon DEF TablesInv
  <1>8. ASSUME NEW n \in Names, NEW e \in BOOLEAN, NEW g \in GroupIds \cup {None}, NEW pw \in Passwords \cup {None},
               \/ pw # None /\ create_user(n, e, g, pw)
               \/ update_user(n, e, g, pw)
               \/ delete_user(n)
        PROVE  TablesInv' /\ RequestsInv' /\ UploadInv'
    <2>1. directory' = directory /\ upload' = upload
      BY <1>8, Zenon DEF create_user, update_user, delete_user, ldapVars
    <2>2. TablesInv'
      BY <1>1, <1>8, UserEditsInv, Zenon
    <2> QED
      BY <1>5, <1>6, <2>1, <2>2, Zenon
  <1>9. CASE \E n \in Names, e \in BOOLEAN, g \in GroupIds \cup {None}, pw \in Passwords : create_user(n, e, g, pw)
    BY <1>3, <1>8, <1>9, NoneAssumption, Zenon DEF CredentialsInv
  <1>10. CASE \E n \in Names, e \in BOOLEAN, g \in GroupIds \cup {None}, pw \in Passwords \cup {None} : update_user(n, e, g, pw)
    BY <1>3, <1>8, <1>10, Zenon DEF CredentialsInv
  <1>11. CASE \E n \in Names : delete_user(n)
    <2>1. TRUE \in BOOLEAN /\ None \in GroupIds \cup {None} /\ None \in Passwords \cup {None}
      BY Zenon
    <2> QED
      BY <1>3, <1>8, <1>11, <2>1, Zenon DEF CredentialsInv
  <1>12. CASE \E n \in Names, entry \in Entries \cup {None} : directory_changes(n, entry)
    <2>1. PICK n \in Names, entry \in Entries \cup {None} : directory_changes(n, entry)
      BY <1>12, Zenon
    <2>2. directory' \in [Names -> Entries \cup {None}]
      BY <1>1, <2>1, Zenon DEF directory_changes, RequestsInv
    <2>3. users' = users /\ groups' = groups /\ upload' = upload
      BY <2>1, Zenon DEF directory_changes, tableVars
    <2>4. RequestsInv'
      BY <1>1, <1>4, <2>2, Zenon DEF RequestsInv
    <2> QED
      BY <1>3, <1>6, <1>7, <2>3, <2>4, Zenon DEF CredentialsInv
  <1>13. CASE \E name \in GroupNames : create_group(name)
    <2>1. PICK name \in GroupNames : create_group(name)
      BY <1>13, Zenon
    <2>2. PICK id \in GroupIds : groups' = [groups EXCEPT ![id] = name]
      BY <2>1, Zenon DEF create_group
    <2>3. /\ \A g \in GroupIds : groups[g] # name
          /\ users' = users /\ directory' = directory /\ upload' = upload
      BY <2>1, Zenon DEF create_group, ldapVars
    <2>4. TablesInv'
      BY <1>1, <2>2, <2>3, GroupNamedInv, Zenon
    <2> QED
      BY <1>3, <1>5, <1>6, <2>3, <2>4, Zenon DEF CredentialsInv
  <1>14. CASE \E name \in GroupNames, g \in GroupIds : update_group(g, name)
    <2>1. PICK name \in GroupNames, id \in GroupIds : update_group(id, name)
      BY <1>14, Zenon
    <2>2. /\ \A g \in GroupIds : groups[g] # name
          /\ groups' = [groups EXCEPT ![id] = name]
          /\ users' = users /\ directory' = directory /\ upload' = upload
      BY <2>1, Zenon DEF update_group, ldapVars
    <2>3. TablesInv'
      BY <1>1, <2>2, GroupNamedInv, Zenon
    <2> QED
      BY <1>3, <1>5, <1>6, <2>2, <2>3, Zenon DEF CredentialsInv
  <1>15. CASE \E g \in GroupIds : delete_group(g)
    <2>1. PICK g \in GroupIds : delete_group(g)
      BY <1>15, Zenon
    <2>2. TablesInv' /\ directory' = directory /\ upload' = upload
      BY <1>1, <2>1, GroupDeletedInv, Zenon DEF delete_group, ldapVars
    <2> QED
      BY <1>3, <1>5, <1>6, <2>2, Zenon DEF CredentialsInv
  <1>16. CASE directory_fails
    <2>1. users' = users /\ groups' = groups /\ directory' = directory /\ upload' = upload
      BY <1>16, Zenon DEF directory_fails, tableVars
    <2> QED
      BY <1>3, <1>5, <1>6, <1>7, <2>1, Zenon DEF CredentialsInv
  <1>17. CASE \E file \in Files, barred \in SUBSET GroupIds : import_begin(file, barred)
    <2>1. PICK file \in Files, barred \in SUBSET GroupIds : import_begin(file, barred)
      BY <1>17, Zenon
    <2>2. users' = users /\ groups' = groups /\ directory' = directory
      BY <2>1, Zenon DEF import_begin, tableVars, ldapVars
    <2>3. UploadInv'
      BY <1>1, <2>1, ImportBeginInv, Zenon
    <2> QED
      BY <1>3, <1>5, <1>7, <2>2, <2>3, Zenon DEF CredentialsInv
  <1>18. CASE import_commit
    <2>1. TablesInv' /\ UploadInv' /\ directory' = directory
      BY <1>1, <1>18, ImportCommitInv, Zenon DEF import_commit, ldapVars
    <2> QED
      BY <1>3, <1>5, <2>1, Zenon DEF CredentialsInv
  <1> QED
    BY <1>9, <1>10, <1>11, <1>12, <1>13, <1>14, <1>15, <1>16, <1>17, <1>18, Zenon DEF Edits

\* Time passes: what is too old is forgotten by the history as by the code.
LEMMA PassesInv ==
    ASSUME CredentialsInv, Passes
    PROVE  CredentialsInv'
  <1>1. GuardInv /\ VerifiedInv /\ TablesInv /\ RequestsInv /\ UploadInv
    BY Zenon DEF CredentialsInv
  <1>2. /\ tick /\ failed' = Aged(failed, Window) /\ accepted' = Aged(accepted, VerifiedSeconds)
        /\ users' = users /\ groups' = groups /\ directory' = directory
        /\ verified' = verified /\ requests' = requests /\ upload' = upload
    BY Zenon DEF Passes, tableVars, ldapVars
  <1>3. GuardInv'
    BY <1>1, <1>2, TickGuardInv, Zenon
  <1>4. VerifiedInv'
    BY <1>1, <1>2, GuardTypes, TickVerifiedInv, Zenon
  <1>5. TablesInv' /\ RequestsInv' /\ UploadInv'
    BY <1>1, <1>2, Zenon DEF TablesInv, RequestsInv, UploadInv
  <1> QED
    BY <1>3, <1>4, <1>5, Zenon DEF CredentialsInv

\* Every step keeps the invariant.
LEMMA CredentialsNextInv == CredentialsInv /\ [CredentialsNext]_credVars => CredentialsInv'
  <1> SUFFICES ASSUME CredentialsInv, [CredentialsNext]_credVars PROVE CredentialsInv'
    BY Zenon
  <1>1. CASE Arrives
    BY <1>1, ArrivesInv, Zenon
  <1>2. CASE \E r \in Requests : Serve(r)
    BY <1>2, ChecksInv, ProvisionInv, Zenon DEF Serve
  <1>3. CASE Edits
    BY <1>3, EditsInv, Zenon
  <1>4. CASE Passes
    BY <1>4, PassesInv, Zenon
  <1>5. CASE UNCHANGED credVars
    <2>1. GuardInv /\ VerifiedInv /\ TablesInv /\ RequestsInv /\ UploadInv
      BY Zenon DEF CredentialsInv
    <2>2. /\ UNCHANGED <<guardVars, verified, historyVars>>
          /\ users' = users /\ groups' = groups /\ directory' = directory /\ requests' = requests /\ upload' = upload
      BY <1>5, Zenon DEF credVars
    <2>3. GuardInv' /\ VerifiedInv'
      BY <2>1, <2>2, SignFrame, Zenon
    <2>4. TablesInv' /\ RequestsInv' /\ UploadInv'
      BY <2>1, <2>2, Zenon DEF TablesInv, RequestsInv, UploadInv
    <2> QED
      BY <2>3, <2>4, Zenon DEF CredentialsInv
  <1> QED
    BY <1>1, <1>2, <1>3, <1>4, <1>5, Zenon DEF CredentialsNext

\* The keys of the dictionaries are what their items are typed by.
LEMMA GuardKeys ==
    ASSUME GuardInv
    PROVE  Keys(pair) \subseteq Pairs /\ Keys(identity) \subseteq Names /\ Keys(sources) \subseteq Names
  <1>1. ASSUME NEW od, NEW K, od \in Seq(Delayed(K)) PROVE Keys(od) \subseteq K
    <2>1. \A i \in DOMAIN od : od[i] \in Delayed(K)
      BY <1>1
    <2>2. \A x \in Delayed(K) : x.key \in K
      BY Zenon DEF Delayed
    <2> QED
      BY <2>1, <2>2, Zenon DEF Keys
  <1>2. Keys(sources) \subseteq Names
    <2>1. \A i \in DOMAIN sources : sources[i] \in Failing
      BY DEF GuardInv, SourcesTyped
    <2>2. \A x \in Failing : x.key \in Names
      BY Zenon DEF Failing
    <2> QED
      BY <2>1, <2>2, Zenon DEF Keys
  <1> QED
    BY <1>1, <1>2, Zenon DEF GuardInv, DelaysTyped

\* The inductive invariant implies the type invariant.
LEMMA CredentialsTypes == CredentialsInv => CredentialsTypeOK
  <1> SUFFICES ASSUME CredentialsInv PROVE CredentialsTypeOK
    BY Zenon
  <1>1. GuardInv /\ VerifiedInv /\ TablesInv /\ RequestsInv /\ UploadInv
    BY Zenon DEF CredentialsInv
  <1>2. /\ clock \in 0..MaxClock
        /\ IsOrderedDict(pair, MaxKeys) /\ IsOrderedDict(identity, MaxKeys) /\ IsOrderedDict(sources, MaxKeys)
        /\ IsOrderedDict(verified, MaxVerified)
    BY <1>1, Zenon DEF GuardInv, VerifiedInv, DelaysTyped, SourcesTyped
  <1>3. Keys(pair) \subseteq Pairs /\ Keys(identity) \subseteq Names /\ Keys(sources) \subseteq Names
    BY <1>1, GuardKeys, Zenon
  <1>4. /\ \A n \in Names : users[n] # None =>
              /\ users[n].group # None => groups[users[n].group] # None
              /\ users[n].source = "LDAP" <=> users[n].pw = None
        /\ \A g, h \in GroupIds : groups[g] # None /\ groups[g] = groups[h] => g = h
    BY <1>1, Zenon DEF TablesInv, RowOk
  <1>5. \A r \in Requests : requests[r].st \in {"idle", "hash", "find", "bind", "provision", "load", "reload"}
    BY <1>1, Zenon DEF RequestsInv, RequestRows
  <1>6. upload.st \in {"idle", "hash"}
    BY <1>1, Zenon DEF UploadInv
  <1> QED
    BY <1>2, <1>3, <1>4, <1>5, <1>6, Zenon DEF CredentialsTypeOK

\* CredentialsInv holds in every state of the password checks.
THEOREM CredentialsInvariant == CredentialsSpec => []CredentialsInv
  BY CredentialsInitInv, CredentialsNextInv, PTL DEF CredentialsSpec

\* The dictionaries of the guard and of the memory of verified passwords stay
\* within their limits and hold each key once; no account has a group that is
\* gone; exactly the directory's accounts have no password; names are unique.
THEOREM CredentialsTyped == CredentialsSpec => []CredentialsTypeOK
  BY CredentialsInvariant, CredentialsTypes, PTL

\* "One source only slows itself down", for any number of stations, names and
\* kept keys: a station without a failed sign-in within the window waits only if
\* `spread` others had one.
THEOREM OnlyGuessersWait == CredentialsSpec => []OwnerNotSlowed
  <1>1. CredentialsInv => OwnerNotSlowed
    BY GuardSlowsGuessers, Zenon DEF CredentialsInv
  <1> QED
    BY <1>1, CredentialsInvariant, PTL

\* authorize() finds a password verified exactly if it was accepted from that
\* station within _VERIFIED_SECONDS, unless _MAX_VERIFIED others were since.
THEOREM MemoryOfAccepted == CredentialsSpec => []VerifiedRemembered
  <1>1. CredentialsInv => VerifiedRemembered
    BY GuardTypes, MemoryIsRight, Zenon DEF CredentialsInv
  <1> QED
    BY <1>1, CredentialsInvariant, PTL

\* A request that has bound moves on in _provision() only, and nothing else
\* stores its account.
LEMMA RequestMoves ==
    ASSUME CredentialsInv, CredentialsNext, NEW r \in Requests, requests'[r] # requests[r]
    PROVE  provision(r) \/ (requests[r].st # "provision" /\ requests'[r].st # "load")
  <1>1. requests \in [Requests -> RequestRows] /\ requests' # requests /\ Idle.st = "idle"
    BY Zenon DEF CredentialsInv, RequestsInv, Idle
  <1>2. ASSUME NEW q \in Requests, NEW row, requests' = [requests EXCEPT ![q] = row]
        PROVE  q = r /\ requests'[r] = row
    BY <1>1, <1>2, Zenon
  <1>3. ASSUME NEW q \in Requests, Answer(q) PROVE q = r /\ requests'[r].st # "load"
    <2>1. q = r /\ requests'[r] = Idle
      BY <1>2, <1>3, Zenon DEF Answer
    <2> QED
      BY <1>1, <2>1, Zenon
  <1>4. requests[r] \in RequestRows
    BY <1>1, Zenon
  <1>5. CASE Arrives
    <2>1. PICK q \in Requests, n \in Names, s \in Sources, pw \in Passwords \cup {None} : authenticate(q, n, s, pw)
      BY <1>5, Zenon DEF Arrives
    <2>2. requests[q].st = "idle"
      BY <2>1, Zenon DEF authenticate
    <2>3. q = r /\ requests'[r].st # "load"
      <3>1. PICK row : requests' = [requests EXCEPT ![q] = row] /\ row.st \in {"idle", "hash", "find"}
        <4>1. CASE GuessDelay(n, s) > 0
          BY <1>1, <2>1, <4>1, Zenon DEF authenticate, Answer
        <4>2. CASE ~(GuessDelay(n, s) > 0)
          <5>1. PICK refused, local, known :
                   /\ known = users[n] /\ refused = (pw = None \/ (known # None /\ ~known.enabled))
                   /\ local = (known # None /\ known.source = "LOCAL")
            BY Zenon
          <5>2. PICK st, hash, row :
                   /\ st = IF refused \/ local \/ ~LdapEnabled THEN "hash" ELSE "find"
                   /\ hash = IF ~refused /\ local THEN known.pw ELSE None
                   /\ row = [Idle EXCEPT !.st = st, !.hash = hash, !.name = n, !.source = s, !.pw = pw]
            BY Zenon
          <5>3. requests' = [requests EXCEPT ![q] = row]
            BY <2>1, <4>2, <5>1, <5>2, Zenon DEF authenticate
          <5>4. row.st = st
            BY <5>2 DEF Idle
          <5> QED
            BY <5>2, <5>3, <5>4, Zenon
        <4> QED
          BY <4>1, <4>2, Zenon
      <3>2. q = r /\ requests'[r] = row
        BY <1>2, <3>1, Zenon
      <3> QED
        BY <3>1, <3>2, Zenon
    <2> QED
      BY <2>2, <2>3, Zenon
  <1>6. CASE Edits
    <2>1. PICK n \in Names : delete_user(n)
      BY <1>1, <1>6, EditsFrame, Zenon
    <2>2. requests[r].st = "load" /\ requests'[r] = [requests[r] EXCEPT !.st = "reload"]
      BY <2>1, Zenon DEF delete_user
    <2>3. requests'[r].st = "reload"
      BY <1>4, <2>2, Zenon DEF RequestRows
    <2> QED
      BY <2>2, <2>3, Zenon
  <1>7. ~Passes
    BY <1>1, Zenon DEF Passes, signVars
  <1>8. CASE \E q \in Requests : Serve(q)
    <2>1. PICK q \in Requests : Serve(q)
      BY <1>8, Zenon
    <2>2. CASE provision(q)
      <3>1. q = r
        <4>1. \E row : requests' = [requests EXCEPT ![q] = row]
          BY <1>1, <2>2 DEF provision, StoreProvisioned, Reject, Answer
        <4> QED
          BY <1>2, <4>1, Zenon
      <3> QED
        BY <2>2, <3>1, Zenon
    <2>3. CASE password_checked(q) \/ load_provisioned(q)
      <3>1. Answer(q) /\ requests[q].st \in {"hash", "load", "reload"}
        BY <2>3, Zenon DEF password_checked, load_provisioned, Accept, Reject
      <3> QED
        BY <1>3, <3>1, Zenon
    <2>4. CASE ldap_find(q)
      <3>1. requests[q].st = "find"
        BY <2>4, Zenon DEF ldap_find
      <3>2. CASE Reject(q)
        BY <1>3, <3>1, <3>2, Zenon DEF Reject
      <3>3. CASE ~Reject(q)
        <4>1. PICK found : requests' = [requests EXCEPT ![q].st = "bind", ![q].entry = found]
          BY <2>4, <3>3, Zenon DEF ldap_find
        <4>2. PICK row : row = [requests[q] EXCEPT !.st = "bind", !.entry = found]
          BY Zenon
        <4>3. requests' = [requests EXCEPT ![q] = row] /\ row.st = "bind"
          BY <1>1, <4>1, <4>2, Zenon DEF RequestRows
        <4>4. q = r /\ requests'[r] = row
          BY <1>2, <4>3, Zenon
        <4> QED
          BY <3>1, <4>3, <4>4, Zenon
      <3> QED
        BY <3>2, <3>3, Zenon
    <2>5. CASE ldap_bind(q)
      <3>1. requests[q].st = "bind"
        BY <2>5, Zenon DEF ldap_bind
      <3>2. CASE Reject(q)
        BY <1>3, <3>1, <3>2, Zenon DEF Reject
      <3>3. CASE ~Reject(q)
        <4>1. requests' = [requests EXCEPT ![q].st = "provision"]
          BY <2>5, <3>3, Zenon DEF ldap_bind
        <4>2. PICK row : row = [requests[q] EXCEPT !.st = "provision"]
          BY Zenon
        <4>3. requests' = [requests EXCEPT ![q] = row] /\ row.st = "provision"
          BY <1>1, <4>1, <4>2, Zenon DEF RequestRows
        <4>4. q = r /\ requests'[r] = row
          BY <1>2, <4>3, Zenon
        <4> QED
          BY <3>1, <4>3, <4>4, Zenon
      <3> QED
        BY <3>2, <3>3, Zenon
    <2> QED
      BY <2>1, <2>2, <2>3, <2>4, <2>5, Zenon DEF Serve
  <1> QED
    BY <1>5, <1>6, <1>7, <1>8, Zenon DEF CredentialsNext

\* A row is the directory's.
OfDirectory(row) == row # None /\ row.source = "LDAP"

\* A request that has stored its account finds the directory's account under the
\* name, until DELETE /users removes it.
LoadInv == \A r \in Requests : requests[r].st = "load" => OfDirectory(users[requests[r].name])

\* What _provision() stores is the directory's.
LEMMA StoresOfDirectory ==
    ASSUME TablesInv, NEW r, requests[r].name \in Names, StoreProvisioned(r),
           users[requests[r].name] # None => users[requests[r].name].source = "LDAP"
    PROVE  /\ OfDirectory(users'[requests[r].name])
           /\ \A m \in Names : m # requests[r].name => users'[m] = users[m]
  <1>1. PICK row : row = Provisioned(r) /\ row \in UserRows /\ row.source = "LDAP"
    BY ProvisionedRow, Zenon
  <1>2. users' = [users EXCEPT ![requests[r].name] = row]
    BY <1>1, Zenon DEF StoreProvisioned
  <1>3. users'[requests[r].name] = row /\ \A m \in Names : m # requests[r].name => users'[m] = users[m]
    BY <1>2, Zenon DEF TablesInv
  <1> QED
    BY <1>1, <1>3, NoneAssumption, Zenon DEF OfDirectory

\* The directory's account stays the directory's until it is deleted.
LEMMA DirectoryAccounts ==
    ASSUME CredentialsInv, CredentialsNext, NEW n \in Names, OfDirectory(users[n])
    PROVE  OfDirectory(users'[n]) \/ delete_user(n)
  <1>1. TablesInv /\ RequestsInv /\ UploadInv /\ users[n] # None /\ users[n].source = "LDAP"
    BY Zenon DEF CredentialsInv, OfDirectory
  <1>2. users \in [Names -> UserRows \cup {None}] /\ users[n] \in UserRows
    BY <1>1, Zenon DEF TablesInv
  <1>3. CASE users' = users
    BY <1>1, <1>3, Zenon DEF OfDirectory
  <1>4. CASE \E r \in Requests : provision(r)
    <2>1. PICK r \in Requests : provision(r)
      BY <1>4, Zenon
    <2>2. requests[r].name \in Names
      <3>1. requests[r].st # "idle"
        BY <2>1, Zenon DEF provision
      <3> QED
        BY <1>1, <3>1, Zenon DEF RequestsInv
    <2>3. CASE users' = users
      BY <1>3, <2>3, Zenon
    <2>4. CASE users' # users
      <3>1. StoreProvisioned(r) /\ (users[requests[r].name] # None => users[requests[r].name].source = "LDAP")
        BY <2>1, <2>4, Zenon DEF provision
      <3>2. OfDirectory(users'[requests[r].name]) /\ \A m \in Names : m # requests[r].name => users'[m] = users[m]
        BY <1>1, <2>2, <3>1, StoresOfDirectory, Zenon
      <3> QED
        BY <3>2, Zenon DEF OfDirectory
    <2> QED
      BY <2>3, <2>4, Zenon
  <1>5. ASSUME NEW m \in Names, NEW e, NEW g, NEW pw, create_user(m, e, g, pw)
        PROVE  users'[n] = users[n]
    <2>1. users[m] = None /\ \E row : users' = [users EXCEPT ![m] = row]
      BY <1>5, Zenon DEF create_user
    <2> QED
      BY <1>1, <1>2, <2>1, Zenon
  <1>6. ASSUME NEW m \in Names, NEW e \in BOOLEAN, NEW g \in GroupIds \cup {None}, NEW pw \in Passwords \cup {None},
               update_user(m, e, g, pw)
        PROVE  OfDirectory(users'[n])
    <2>1. CASE m # n
      BY <1>1, <1>2, <1>6, <2>1 DEF update_user, OfDirectory
    <2>2. CASE m = n
      <3>1. PICK old \in UserRows : old = users[n] /\ old.pw \in Passwords \cup {None}
        BY <1>2, Zenon DEF UserRows
      <3>2. PICK p \in Passwords \cup {None} : p = IF pw # None THEN pw ELSE old.pw
        BY <3>1, Zenon
      <3>3. PICK new : new = [old EXCEPT !.enabled = e, !.group = g, !.pw = p]
        BY Zenon
      <3>4. users' = [users EXCEPT ![n] = new]
        <4>1. users' = [users EXCEPT ![n].enabled = e, ![n].group = g, ![n].pw = IF pw # None THEN pw ELSE @]
          BY <1>6, <2>2, Zenon DEF update_user
        <4> QED
          BY <1>2, <3>1, <3>2, <3>3, <4>1, Zenon
      <3>5. new \in UserRows /\ new.source = old.source
        BY <3>1, <3>2, <3>3, Zenon DEF UserRows
      <3>6. users'[n] = new
        BY <1>2, <3>4, Zenon
      <3> QED
        BY <1>1, <3>1, <3>5, <3>6, NoneAssumption, Zenon DEF OfDirectory
    <2> QED
      BY <2>1, <2>2, Zenon
  <1>7. ASSUME NEW m \in Names, delete_user(m), m # n
        PROVE  users'[n] = users[n]
    BY <1>2, <1>7, Zenon DEF delete_user
  <1>8. ASSUME NEW g \in GroupIds, delete_group(g)
        PROVE  OfDirectory(users'[n])
    BY <1>1, <1>2, <1>8, NoneAssumption DEF delete_group, OfDirectory, UserRows
  <1>9. ASSUME import_commit
        PROVE  users'[n] = users[n]
    <2>1. CASE Conflict(upload.rows)
      BY <1>9, <2>1, Zenon DEF import_commit
    <2>2. CASE ~Conflict(upload.rows)
      <3>1. users' = Added(upload.rows) /\ ~\E u \in upload.rows : u.name = n
        BY <1>1, <1>9, <2>2, Zenon DEF import_commit, Conflict
      <3> QED
        BY <1>1, <3>1, AddedRows, Zenon
    <2> QED
      BY <2>1, <2>2, Zenon
  <1>10. CASE Edits
    <2>1. \A g, name : create_group(name) \/ update_group(g, name) => users' = users
      BY Zenon DEF create_group, update_group
    <2>2. \A m, entry : directory_changes(m, entry) \/ directory_fails => users' = users
      BY Zenon DEF directory_changes, directory_fails, tableVars
    <2>3. \A file, barred : import_begin(file, barred) => users' = users
      BY Zenon DEF import_begin, tableVars
    <2>4. \/ users' = users
          \/ \E m \in Names, e \in BOOLEAN, g \in GroupIds \cup {None}, pw \in Passwords \cup {None} :
                create_user(m, e, g, pw) \/ update_user(m, e, g, pw)
          \/ \E m \in Names : delete_user(m)
          \/ \E g \in GroupIds : delete_group(g)
          \/ import_commit
      BY <1>10, <2>1, <2>2, <2>3, Zenon DEF Edits
    <2> QED
      BY <1>1, <1>3, <1>5, <1>6, <1>7, <1>8, <1>9, <2>4, Zenon DEF OfDirectory
  <1>11. CASE Arrives \/ Passes
    BY <1>3, <1>11, Zenon DEF Arrives, authenticate, Passes, tableVars
  <1>12. CASE \E r \in Requests : Serve(r) /\ ~provision(r)
    BY <1>3, <1>12, Zenon DEF Serve, password_checked, ldap_find, ldap_bind, load_provisioned, tableVars
  <1> QED
    BY <1>4, <1>10, <1>11, <1>12, Zenon DEF CredentialsNext

\* A step keeps the account a request has stored, or the request knows it gone.
LEMMA LoadNextInv ==
    ASSUME CredentialsInv, LoadInv, CredentialsNext
    PROVE  LoadInv'
  <1> SUFFICES ASSUME NEW r \in Requests, requests'[r].st = "load"
               PROVE  OfDirectory(users'[requests'[r].name])
    BY Zenon DEF LoadInv, OfDirectory
  <1>1. TablesInv /\ RequestsInv /\ requests[r] \in RequestRows
    BY Zenon DEF CredentialsInv, RequestsInv
  <1>2. CASE requests'[r] # requests[r]
    <2>1. provision(r) /\ requests[r].st = "provision"
      BY <1>2, RequestMoves, Zenon DEF provision
    <2>2. requests[r].name \in Names
      <3>1. "provision" # "idle"
        BY Zenon
      <3> QED
        BY <1>1, <2>1, <3>1, Zenon DEF RequestsInv
    <2>3. ~Reject(r)
      <3>1. Reject(r) => requests'[r] = Idle
        BY <1>1, Zenon DEF Reject, Answer, RequestsInv
      <3>2. Idle.st = "idle"
        BY Zenon DEF Idle
      <3> QED
        BY <3>1, <3>2, Zenon
    <2>4. StoreProvisioned(r) /\ (users[requests[r].name] # None => users[requests[r].name].source = "LDAP")
      BY <2>1, <2>3, Zenon DEF provision
    <2>5. requests'[r].name = requests[r].name
      <3>1. PICK on : on = Provisioned(r).enabled
        BY Zenon
      <3>2. requests' = [requests EXCEPT ![r].st = "load", ![r].enabled = on]
        BY <2>4, <3>1, Zenon DEF StoreProvisioned
      <3> QED
        BY <1>1, <3>2 DEF RequestsInv, RequestRows
    <2> QED
      BY <1>1, <2>2, <2>4, <2>5, StoresOfDirectory, Zenon
  <1>3. CASE requests'[r] = requests[r]
    <2>1. OfDirectory(users[requests[r].name]) /\ requests[r].st = "load"
      BY <1>3, Zenon DEF LoadInv
    <2>2. requests[r].name \in Names
      <3>1. "load" # "idle"
        BY Zenon
      <3> QED
        BY <1>1, <2>1, <3>1, Zenon DEF RequestsInv
    <2>3. ~delete_user(requests[r].name)
      <3>1. delete_user(requests[r].name) => requests'[r] = [requests[r] EXCEPT !.st = "reload"]
        BY <2>1, Zenon DEF delete_user
      <3>2. [requests[r] EXCEPT !.st = "reload"].st = "reload"
        BY <1>1, Zenon DEF RequestRows
      <3> QED
        BY <3>1, <3>2, Zenon
    <2> QED
      BY <1>3, <2>1, <2>2, <2>3, DirectoryAccounts, Zenon
  <1> QED
    BY <1>2, <1>3, Zenon

\* No request has stored its account when the server starts.
LEMMA LoadInvariant == CredentialsSpec => []LoadInv
  <1>1. CredentialsInit => LoadInv
    <2>1. Idle.st = "idle"
      BY Zenon DEF Idle
    <2>2. CredentialsInit => \A r \in Requests : requests[r] = Idle
      BY Zenon DEF CredentialsInit, ServiceInit
    <2> QED
      BY <2>1, <2>2, Zenon DEF LoadInv
  <1>2. CredentialsInv /\ LoadInv /\ [CredentialsNext]_credVars => LoadInv'
    <2>1. CASE CredentialsNext
      BY <2>1, LoadNextInv, Zenon
    <2>2. CASE UNCHANGED credVars
      <3>1. users' = users /\ requests' = requests
        BY <2>2, Zenon DEF credVars, tableVars
      <3> QED
        BY <3>1, Zenon DEF LoadInv, OfDirectory
    <2> QED
      BY <2>1, <2>2, Zenon
  <1> QED
    BY <1>1, <1>2, CredentialsInvariant, PTL DEF CredentialsSpec

\* _provision() leaves a local account as it is, and its request is refused.
LEMMA ProvisionRespects ==
    ASSUME CredentialsInv, NEW r \in Requests, provision(r), NEW n, n = requests[r].name,
           users[n] # None, users[n].source = "LOCAL"
    PROVE  users'[n] = users[n] /\ requests'[r] = Idle /\ ~Accept(r)
  <1>1. GuardInv /\ VerifiedInv /\ RequestsInv /\ requests[r].st = "provision"
    BY Zenon DEF CredentialsInv, provision
  <1>2. n \in Names /\ requests[r].source \in Sources
    <2>1. "provision" # "idle"
      BY Zenon
    <2> QED
      BY <1>1, <2>1, Zenon DEF RequestsInv
  <1>3. ~(Accept(r) /\ Reject(r))
    BY <1>1, <1>2, AcceptInv, RejectInv, Zenon
  <1>4. "LOCAL" # "LDAP"
    BY Zenon
  <1>5. Reject(r) /\ users' = users
    BY <1>4, Zenon DEF provision
  <1>6. requests'[r] = Idle
    BY <1>1, <1>5, Zenon DEF Reject, Answer, RequestsInv
  <1> QED
    BY <1>3, <1>5, <1>6, Zenon

\* "never let LDAP take it over": a local account that is there when _provision()
\* looks is left as it is and the request refused, whatever ran while the
\* directory was asked; and a request let in on the account it has just stored
\* finds the directory's account under the name.
THEOREM LocalAccountsStay == CredentialsSpec => NoTakeover
  <1>1. ASSUME CredentialsInv, LoadInv, [CredentialsNext]_credVars
        PROVE  [\A r \in Requests :
                  LET n == requests[r].name
                  IN  /\ requests[r].st = "provision" /\ requests'[r] # requests[r]
                          /\ users[n] # None /\ users[n].source = "LOCAL" =>
                              users'[n] = users[n] /\ requests'[r] = Idle /\ ~Accept(r)
                      /\ requests[r].st = "load" /\ Accept(r) => users[n] # None /\ users[n].source = "LDAP"]_credVars
    <2> SUFFICES ASSUME CredentialsNext, NEW r \in Requests, NEW n, n = requests[r].name
                 PROVE  /\ requests[r].st = "provision" /\ requests'[r] # requests[r]
                            /\ users[n] # None /\ users[n].source = "LOCAL" =>
                                users'[n] = users[n] /\ requests'[r] = Idle /\ ~Accept(r)
                        /\ requests[r].st = "load" => users[n] # None /\ users[n].source = "LDAP"
      BY <1>1, Zenon
    <2>1. requests[r].st = "provision" /\ requests'[r] # requests[r] => provision(r)
      BY <1>1, RequestMoves, Zenon
    <2> QED
      BY <1>1, <2>1, ProvisionRespects, Zenon DEF LoadInv, OfDirectory
  <1> QED
    BY <1>1, CredentialsInvariant, LoadInvariant, PTL DEF CredentialsSpec, NoTakeover

\* An import ends by adding all its rows to names that had none, or nothing.
LEMMA ImportEnds ==
    ASSUME CredentialsInv, CredentialsNext, upload.st = "hash", upload'.st = "idle"
    PROVE  /\ \A n \in Names : users[n] # None => users'[n] = users[n]
           /\ users' = users \/ \A u \in upload.rows : users'[u.name] = u.row
  <1>1. upload' # upload /\ upload.st # "idle" /\ upload'.st # "hash"
    BY Zenon
  <1>2. import_commit
    <2>1. ~Arrives /\ ~Passes /\ \A r \in Requests : ~Serve(r)
      BY <1>1, Zenon DEF Arrives, authenticate, Passes, Serve, password_checked, ldap_find, ldap_bind, provision,
         load_provisioned
    <2>2. Edits
      BY <2>1, Zenon DEF CredentialsNext
    <2>3. \A file, barred : ~import_begin(file, barred)
      BY <1>1, Zenon DEF import_begin
    <2>4. \A n, e, g, pw : ~create_user(n, e, g, pw) /\ ~update_user(n, e, g, pw) /\ ~delete_user(n)
      BY <1>1 DEF create_user, update_user, delete_user
    <2>5. \A g, name : ~create_group(name) /\ ~update_group(g, name) /\ ~delete_group(g)
      BY <1>1, Zenon DEF create_group, update_group, delete_group
    <2>6. \A n, entry : ~directory_changes(n, entry) /\ ~directory_fails
      BY <1>1, Zenon DEF directory_changes, directory_fails
    <2> QED
      BY <2>2, <2>3, <2>4, <2>5, <2>6, Zenon DEF Edits
  <1>3. CASE Conflict(upload.rows)
    BY <1>2, <1>3, Zenon DEF import_commit
  <1>4. CASE ~Conflict(upload.rows)
    <2>1. users' = Added(upload.rows) /\ UploadInv
      BY <1>2, <1>4, Zenon DEF import_commit, CredentialsInv
    <2>2. ASSUME NEW n \in Names, users[n] # None PROVE users'[n] = users[n]
      <3>1. ~\E u \in upload.rows : u.name = n
        BY <1>4, <2>2, Zenon DEF Conflict
      <3> QED
        BY <2>1, <3>1, AddedRows, Zenon
    <2>3. ASSUME NEW u \in upload.rows PROVE users'[u.name] = u.row
      <3>1. u.name \in Names
        BY <2>1, Zenon DEF UploadInv
      <3> QED
        BY <2>1, <3>1, AddedRows, Zenon
    <2> QED
      BY <2>2, <2>3, Zenon
  <1> QED
    BY <1>3, <1>4, Zenon

\* An import changes no account there is; it creates all its rows or none,
\* whatever was created or deleted while it hashed the passwords.
THEOREM ImportsAdd == CredentialsSpec => ImportsOnlyAdd
  <1>1. ASSUME CredentialsInv, [CredentialsNext]_credVars
        PROVE  [upload.st = "hash" /\ upload'.st = "idle" =>
                  /\ \A n \in Names : users[n] # None => users'[n] = users[n]
                  /\ users' = users \/ \A u \in upload.rows : users'[u.name] = u.row]_credVars
    BY <1>1, ImportEnds, Zenon
  <1> QED
    BY <1>1, CredentialsInvariant, PTL DEF CredentialsSpec, ImportsOnlyAdd

=============================================================================
