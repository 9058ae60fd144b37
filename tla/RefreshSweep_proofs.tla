------------------------ MODULE RefreshSweep_proofs ------------------------
(***************************************************************************)
(* Proofs about the spread for every period, list length and word width:   *)
(* the bridge's slices are an exact, balanced, contiguous partition of the *)
(* list, no register wraps while it computes them, and a sweep a minute    *)
(* over them refreshes every company exactly once per cycle.  Registers of *)
(* no list are left alone.                                                 *)
(***************************************************************************)
EXTENDS RefreshSweep, BridgeCalls, Integers, FiniteSetTheorems, FunctionTheorems, TLAPS

-----------------------------------------------------------------------------
(* Arithmetic.                                                             *)

(* Quotient and remainder, as div leaves them in RAX and RDX.              *)
LEMMA DivMod ==
    ASSUME NEW x \in Nat, NEW y \in Nat \ {0}
    PROVE  /\ x \div y \in Nat /\ x % y \in 0 .. y - 1
           /\ x = y * (x \div y) + (x % y)
  OBVIOUS

(* Multiplication is monotone in steps of its other factor.                *)
LEMMA TimesLess ==
    ASSUME NEW x \in Nat, NEW y \in Nat, NEW q \in Nat, x < y
    PROVE  q * x + q <= q * y
  OBVIOUS

(* The remainder of a number given by quotient and remainder.              *)
LEMMA ModOf ==
    ASSUME NEW p \in Nat \ {0}, NEW k \in Nat, NEW b \in 0 .. p - 1
    PROVE  (p * k + b) % p = b
  OBVIOUS

(* A number below the modulus is not changed by wrapping.                  *)
LEMMA ModSmall ==
    ASSUME NEW p \in Nat \ {0}, NEW x \in Nat, x < p
    PROVE  x % p = x
  OBVIOUS

(* Two minutes less than a cycle apart have different buckets.             *)
LEMMA ModDistinct ==
    ASSUME NEW p \in Nat \ {0}, NEW a \in Nat, NEW b \in Nat,
           a % p = b % p, b <= a, a - b < p
    PROVE  a = b
  <1>1. /\ a \div p \in Nat /\ a % p \in 0 .. p - 1 /\ a = p * (a \div p) + (a % p)
        /\ b \div p \in Nat /\ b = p * (b \div p) + (b % p)
    BY DivMod
  <1>2. PICK k \in Nat, c \in 0 .. p - 1 : a = p * k + c /\ c = a % p
    BY <1>1
  <1>3. PICK l \in Nat : b = p * l + c
    BY <1>1, <1>2
  <1>4. p * k \in Nat /\ p * l \in Nat
    OBVIOUS
  <1>5. p * k < p * l + p /\ p * l <= p * k
    BY <1>2, <1>3, <1>4
  <1>6. ~(l < k)
    BY <1>4, <1>5, TimesLess
  <1>7. ~(k < l)
    BY <1>4, <1>5, TimesLess
  <1> QED BY <1>2, <1>3, <1>6, <1>7

(* Within a cycle back from any minute every bucket had its turn.          *)
LEMMA ModBack ==
    ASSUME NEW p \in Nat \ {0}, NEW m \in Nat, NEW b \in 0 .. p - 1, m >= p - 1
    PROVE  \E d \in 0 .. p - 1 : (m - d) % p = b
  <1>1. PICK k \in Nat, c \in 0 .. p - 1 : m = p * k + c
    BY DivMod
  <1>2. CASE b <= c
    <2>1. m - (c - b) = p * k + b
      BY <1>1
    <2>2. c - b \in 0 .. p - 1
      BY <1>2
    <2> QED BY <2>1, <2>2, ModOf
  <1>3. CASE c < b
    <2>1. k # 0
      BY <1>1, <1>3
    <2>2. k - 1 \in Nat /\ p * k = p * (k - 1) + p
      BY <2>1
    <2>3. m - (c + p - b) = p * (k - 1) + b
      BY <1>1, <2>2
    <2>4. c + p - b \in 0 .. p - 1
      BY <1>3
    <2> QED BY <2>2, <2>3, <2>4, ModOf
  <1> QED BY <1>2, <1>3

-----------------------------------------------------------------------------
(* The slices.                                                             *)

(* Where a slice starts, over the integers.                                *)
Start(k, bucket) == Quotient(k) * bucket + Lesser(bucket, Remainder(k))

(* Slices that are in order are apart, the last ends where the list ends.  *)
LEMMA SliceOrder ==
    ASSUME NEW k \in Nat, NEW b \in 0 .. BucketCount - 1
    PROVE  /\ Start(k, b) \in Nat /\ SliceLength(k, b) \in Nat
           /\ Start(k, b) + SliceLength(k, b) <= k
           /\ \A c \in 0 .. BucketCount - 1 :
                 b < c => Start(k, b) + SliceLength(k, b) <= Start(k, c)
  <1> DEFINE q == Quotient(k)  r == Remainder(k)
  <1>1. /\ q \in Nat /\ r \in 0 .. BucketCount - 1
        /\ k = BucketCount * q + r
    BY DivMod, BucketCountAssumption DEF Quotient, Remainder
  <1>2. /\ SliceLength(k, b) = q + (IF b < r THEN 1 ELSE 0)
        /\ \A c \in Nat : Start(k, c) = q * c + (IF c < r THEN c ELSE r)
    BY DEF SliceLength, Start, Lesser
  <1> HIDE DEF q, r
  <1>3. \A c \in Nat : q * c \in Nat
    BY <1>1
  <1>4. \A c \in Nat : b < c => q * b + q <= q * c
    BY <1>1, TimesLess
  <1>5. q * BucketCount = BucketCount * q
    BY <1>1, BucketCountAssumption
  <1>6. q * b + q <= q * BucketCount
    BY <1>4, BucketCountAssumption
  <1>7. Start(k, b) \in Nat /\ SliceLength(k, b) \in Nat
    BY <1>1, <1>2, <1>3
  <1>8. Start(k, b) + SliceLength(k, b) <= k
    BY <1>1, <1>2, <1>3, <1>5, <1>6, BucketCountAssumption
  <1>9. ASSUME NEW c \in 0 .. BucketCount - 1, b < c
        PROVE  Start(k, b) + SliceLength(k, b) <= Start(k, c)
    <2>1. q * b + q <= q * c /\ q * c \in Nat /\ q * b \in Nat
      BY <1>3, <1>4, <1>9
    <2>2. /\ Start(k, b) = q * b + (IF b < r THEN b ELSE r)
          /\ Start(k, c) = q * c + (IF c < r THEN c ELSE r)
      BY <1>2
    <2>3. SliceLength(k, b) = q + (IF b < r THEN 1 ELSE 0)
      BY <1>2
    <2>4. CASE c < r
      BY <1>1, <1>9, <2>1, <2>2, <2>3, <2>4
    <2>5. CASE ~(c < r)
      BY <1>1, <1>9, <2>1, <2>2, <2>3, <2>5
    <2> QED BY <2>4, <2>5
  <1> QED BY <1>7, <1>8, <1>9

(* Every element lies in the slice of some bucket.                         *)
LEMMA SliceExists ==
    ASSUME NEW k \in Nat, NEW i \in 0 .. k - 1
    PROVE  \E b \in 0 .. BucketCount - 1 :
              /\ Start(k, b) <= i
              /\ i < Start(k, b) + SliceLength(k, b)
  <1> DEFINE q == Quotient(k)  r == Remainder(k)
  <1>1. /\ q \in Nat /\ r \in 0 .. BucketCount - 1
        /\ k = BucketCount * q + r
    BY DivMod, BucketCountAssumption DEF Quotient, Remainder
  <1>2. \A c \in Nat : /\ SliceLength(k, c) = q + (IF c < r THEN 1 ELSE 0)
                       /\ Start(k, c) = q * c + (IF c < r THEN c ELSE r)
    BY DEF SliceLength, Start, Lesser
  <1> HIDE DEF q, r
  <1>3. (q + 1) * r = q * r + r /\ q * r \in Nat
    BY <1>1
  <1>4. CASE i < (q + 1) * r
    <2>0. /\ i \div (q + 1) \in Nat /\ i % (q + 1) \in 0 .. q
          /\ i = (q + 1) * (i \div (q + 1)) + (i % (q + 1))
      <3>1. q + 1 \in Nat \ {0} /\ (q + 1) - 1 = q /\ i \in Nat
        BY <1>1
      <3> QED BY <3>1, DivMod
    <2>1. PICK b \in Nat, e \in 0 .. q : i = (q + 1) * b + e
      BY <2>0
    <2>2. b < r
      <3>1. SUFFICES ASSUME r <= b PROVE FALSE
        BY <1>1
      <3>2. (q + 1) * r <= (q + 1) * b
        BY <1>1, <3>1, TimesLess
      <3>3. (q + 1) * b \in Nat /\ (q + 1) * r \in Nat
        BY <1>1
      <3> QED BY <1>4, <2>1, <3>2, <3>3
    <2>3. (q + 1) * b = q * b + b /\ q * b \in Nat
      BY <1>1
    <2>4. Start(k, b) = q * b + b /\ SliceLength(k, b) = q + 1
      BY <1>2, <2>2
    <2>5. b \in 0 .. BucketCount - 1
      BY <1>1, <2>1, <2>2, BucketCountAssumption
    <2> QED BY <1>1, <2>1, <2>3, <2>4, <2>5
  <1>5. CASE ~(i < (q + 1) * r)
    <2>1. i - r \in Nat /\ i - r >= q * r
      BY <1>1, <1>3, <1>5
    <2>2. q # 0
      <3>1. SUFFICES ASSUME q = 0 PROVE FALSE
        OBVIOUS
      <3>2. BucketCount * q = 0
        BY <3>1, BucketCountAssumption
      <3> QED BY <1>1, <2>1, <3>2
    <2>3. PICK b \in Nat, e \in 0 .. q - 1 : i - r = q * b + e
      BY <1>1, <2>1, <2>2, DivMod
    <2>4. q * b \in Nat /\ q * BucketCount = BucketCount * q /\ BucketCount * q \in Nat
      BY <1>1, BucketCountAssumption
    <2>5. i - r < BucketCount * q
      BY <1>1, <2>4
    <2>6. b < BucketCount
      <3>1. SUFFICES ASSUME BucketCount <= b PROVE FALSE
        BY BucketCountAssumption
      <3>2. q * BucketCount <= q * b
        BY <1>1, <3>1, TimesLess, BucketCountAssumption
      <3> QED BY <2>3, <2>4, <2>5, <3>2
    <2>7. r <= b
      <3>1. SUFFICES ASSUME b < r PROVE FALSE
        BY <1>1
      <3>2. q * b + q <= q * r
        BY <1>1, <3>1, TimesLess
      <3> QED BY <1>1, <1>3, <2>1, <2>3, <2>4, <3>2
    <2>8. Start(k, b) = q * b + r /\ SliceLength(k, b) = q
      BY <1>1, <1>2, <2>7
    <2>9. b \in 0 .. BucketCount - 1
      BY <2>6, BucketCountAssumption
    <2> QED BY <1>1, <2>3, <2>4, <2>8, <2>9
  <1> QED BY <1>4, <1>5

(* No register wraps while a slice of a list is computed.                  *)
LEMMA NoRegisterWraps ==
    ASSUME NEW k \in Nat, k < Capacity, NEW b \in 0 .. BucketCount - 1
    PROVE  SliceStart(k, b) = Start(k, b)
  <1>1. /\ Start(k, b) \in Nat /\ SliceLength(k, b) \in Nat
        /\ Start(k, b) + SliceLength(k, b) <= k
    BY SliceOrder
  <1>2. AddressModulus \in Nat \ {0} /\ k < AddressModulus
    BY CapacityAssumption DEF AddressModulus
  <1>3. Quotient(k) * b \in Nat /\ Lesser(b, Remainder(k)) \in Nat
    <2>1. Quotient(k) \in Nat /\ Remainder(k) \in 0 .. BucketCount - 1
      BY DivMod, BucketCountAssumption DEF Quotient, Remainder
    <2> QED BY <2>1, BucketCountAssumption DEF Lesser
  <1>4. Quotient(k) * b < AddressModulus /\ Start(k, b) < AddressModulus
    BY <1>1, <1>2, <1>3 DEF Start
  <1>5. Wrap(Quotient(k) * b) = Quotient(k) * b
    BY <1>2, <1>3, <1>4, ModSmall DEF Wrap
  <1>6. Wrap(Start(k, b)) = Start(k, b)
    BY <1>1, <1>2, <1>4, ModSmall DEF Wrap
  <1> QED BY <1>5, <1>6 DEF SliceStart, Start

(* For a list that fits the address space the bridge hands the loop the    *)
(* slice of this minute's bucket, within the list and on element bounds,   *)
(* for every period, length, address and minute.                           *)
THEOREM BridgeNarrowsToSlice ==
    ASSUME NEW b \in Bounds, Representable(b),
           NEW l \in Layouts, ~OriginalEmpty(l, b), NEW m \in Nat
    PROVE  LET slice == Start(b.n, Bucket(m))
               length == SliceLength(b.n, Bucket(m))
           IN  /\ Bridge(l, b, m).cursor = b.cursor + 8 * slice
               /\ Bridge(l, b, m).end = b.cursor + 8 * slice + 8 * length
               /\ Bridge(l, b, m).count = length
               /\ b.cursor <= Bridge(l, b, m).cursor
               /\ Bridge(l, b, m).end <= b.end
  <1> DEFINE slice == Start(b.n, Bucket(m))
             length == SliceLength(b.n, Bucket(m))
  <1>1. /\ b.n \in Nat /\ b.cursor \in Nat /\ b.n < Capacity
        /\ b.cursor + 8 * b.n < AddressModulus /\ b.end = b.cursor + 8 * b.n
    BY CapacityAssumption DEF Representable, Bounds, Word, AddressModulus
  <1>2. Bucket(m) \in 0 .. BucketCount - 1
    BY DivMod, BucketCountAssumption DEF Bucket
  <1>3. /\ slice \in Nat /\ length \in Nat /\ slice + length <= b.n
        /\ SliceStart(b.n, Bucket(m)) = slice
    BY <1>1, <1>2, SliceOrder, NoRegisterWraps
  <1>4. Bridge(l, b, m) = Narrowed(b, Bucket(m))
    BY DEF Bridge
  <1>5. /\ Narrowed(b, Bucket(m)).cursor = Wrap(b.cursor + 8 * slice)
        /\ Narrowed(b, Bucket(m)).end = Wrap(Wrap(b.cursor + 8 * slice) + 8 * length)
        /\ Narrowed(b, Bucket(m)).count = length
    BY <1>3 DEF Narrowed
  <1> HIDE DEF slice, length
  <1>6. AddressModulus \in Nat \ {0}
    BY CapacityAssumption DEF AddressModulus
  <1>7. /\ b.cursor + 8 * slice \in Nat
        /\ b.cursor + 8 * slice < AddressModulus
        /\ b.cursor + 8 * slice + 8 * length \in Nat
        /\ b.cursor + 8 * slice + 8 * length < AddressModulus
    BY <1>1, <1>3, <1>6
  <1>8. /\ Wrap(b.cursor + 8 * slice) = b.cursor + 8 * slice
        /\ Wrap(b.cursor + 8 * slice + 8 * length) = b.cursor + 8 * slice + 8 * length
    BY <1>6, <1>7, ModSmall DEF Wrap
  <1>9. /\ Bridge(l, b, m).cursor = b.cursor + 8 * slice
        /\ Bridge(l, b, m).end = b.cursor + 8 * slice + 8 * length
        /\ Bridge(l, b, m).count = length
    BY <1>4, <1>5, <1>8
  <1> QED BY <1>1, <1>3, <1>9 DEF slice, length

-----------------------------------------------------------------------------
(* The sweep.                                                              *)

(* The companies of a bucket.                                              *)
Slice(bucket) ==
    {i \in Companies : /\ Start(n, bucket) <= i
                       /\ i < Start(n, bucket) + SliceLength(n, bucket)}

(* What the loop visits is exactly the slice of the minute's bucket, also  *)
(* when that slice or the whole list is empty.                             *)
LEMMA SweepIsSlice ==
    ASSUME TypeOK, NEW m \in Nat
    PROVE  SweepOf(m) = Slice(Bucket(m))
  <1> DEFINE slice == Start(n, Bucket(m))  length == SliceLength(n, Bucket(m))
             r == Bridge(layout, List, m)
  <1>1. n \in Nat /\ n < Capacity /\ layout \in Layouts
    BY MaxCompaniesAssumption, CapacityAssumption DEF TypeOK
  <1>2. Bucket(m) \in 0 .. BucketCount - 1
    BY DivMod, BucketCountAssumption DEF Bucket
  <1>3. slice \in Nat /\ length \in Nat /\ slice + length <= n
    BY <1>1, <1>2, SliceOrder
  <1>4. CASE n = 0
    <2>1. Companies = {}
      BY <1>4 DEF Companies
    <2> QED BY <2>1 DEF SweepOf, Swept, Slice
  <1>5. CASE n # 0
    <2>1. /\ List \in Bounds /\ Representable(List)
          /\ ~OriginalEmpty(layout, List) /\ List.n = n /\ List.cursor = 0
      BY <1>1, <1>5, CapacityAssumption
      DEF List, Bounds, Word, AddressModulus, Representable, OriginalEmpty
    <2>2. r.cursor = 8 * slice /\ r.end = 8 * slice + 8 * length /\ r.count = length
      <3>1. /\ r.cursor = 0 + 8 * slice
            /\ r.end = 0 + 8 * slice + 8 * length
            /\ r.count = length
        BY <1>1, <2>1, BridgeNarrowsToSlice
      <3> QED BY <1>3, <3>1
    <2>3. SweepOf(m) = Swept(r)
      BY <1>5 DEF SweepOf
    <2> HIDE DEF slice, length, r
    <2>4. ASSUME NEW i \in Companies
          PROVE  i \in Swept(r) <=> (slice <= i /\ i < slice + length)
      <3>1. i \in Nat
        BY <1>1 DEF Companies
      <3> QED BY <1>3, <2>2, <3>1 DEF Swept
    <2>5. Swept(r) \subseteq Companies
      BY DEF Swept
    <2> QED BY <2>3, <2>4, <2>5 DEF Slice, slice, length
  <1> QED BY <1>4, <1>5

(* A company is in the slice of one bucket, and of one only.               *)
LEMMA OneSlice ==
    ASSUME n \in Nat, NEW i \in Companies
    PROVE  /\ \E b \in 0 .. BucketCount - 1 : i \in Slice(b)
           /\ \A b, c \in 0 .. BucketCount - 1 :
                 i \in Slice(b) /\ i \in Slice(c) => b = c
  <1>1. \E b \in 0 .. BucketCount - 1 : i \in Slice(b)
    BY SliceExists DEF Slice, Companies
  <1>2. ASSUME NEW b \in 0 .. BucketCount - 1, NEW c \in 0 .. BucketCount - 1,
               i \in Slice(b), i \in Slice(c), b < c
        PROVE  FALSE
    <2>1. /\ Start(n, b) \in Nat /\ SliceLength(n, b) \in Nat /\ Start(n, c) \in Nat
          /\ Start(n, b) + SliceLength(n, b) <= Start(n, c)
      BY <1>2, SliceOrder
    <2>2. i \in Nat /\ i < Start(n, b) + SliceLength(n, b) /\ Start(n, c) <= i
      BY <1>2 DEF Slice, Companies
    <2> QED BY <2>1, <2>2
  <1>3. \A b, c \in 0 .. BucketCount - 1 : b # c => b < c \/ c < b
    BY BucketCountAssumption
  <1> QED BY <1>1, <1>2, <1>3
-----------------------------------------------------------------------------
(* The inductive invariant: the ages of the companies are the footprints   *)
(* of the last settled sweeps, each of which visited its minute's slice.   *)

LastSweeps ==
    /\ settled <= minute + 1
    /\ \A i \in Companies, d \in Nat :
          d < settled /\ i \in Slice(Bucket(minute - d)) => age[i] = d
    /\ \A i \in Companies :
          age[i] < settled => i \in Slice(Bucket(minute - age[i]))

OneSliceVisited ==
    visited = {} \/ \E b \in 0 .. BucketCount - 1 : visited = Slice(b)

IInv == TypeOK /\ LastSweeps /\ OneSliceVisited

(* A bucket is a number below the period.                                  *)
LEMMA BucketType ==
    \A m \in Nat : Bucket(m) \in 0 .. BucketCount - 1
  BY DivMod, BucketCountAssumption DEF Bucket

LEMMA InitIInv == Init => IInv
  <1> SUFFICES ASSUME Init PROVE IInv
    OBVIOUS
  <1>1. Companies = {}
    BY DEF Init, Companies
  <1>2. TypeOK
    BY <1>1, MaxCompaniesAssumption, BucketCountAssumption DEF Init, TypeOK
  <1>3. LastSweeps
    BY <1>1, MinuteModulusAssumption DEF Init, LastSweeps
  <1> QED BY <1>2, <1>3 DEF Init, IInv, OneSliceVisited

(* The type of the next minute.                                            *)
LEMMA NextMinuteType ==
    ASSUME TypeOK
    PROVE  /\ NextMinute \in 0 .. MinuteModulus - 1
           /\ NextMinute = 0 \/ NextMinute = minute + 1
  <1>1. minute \in Nat /\ minute + 1 <= MinuteModulus
    BY MinuteModulusAssumption DEF TypeOK
  <1>2. (minute + 1) % MinuteModulus \in 0 .. MinuteModulus - 1
    BY <1>1, DivMod, MinuteModulusAssumption
  <1>3. CASE minute + 1 < MinuteModulus
    BY <1>1, <1>2, <1>3, ModSmall, MinuteModulusAssumption DEF NextMinute
  <1>4. CASE minute + 1 = MinuteModulus
    <2>1. (MinuteModulus * 1 + 0) % MinuteModulus = 0
      BY ModOf, MinuteModulusAssumption
    <2>2. MinuteModulus * 1 + 0 = MinuteModulus
      BY MinuteModulusAssumption
    <2>3. NextMinute = 0
      BY <1>4, <2>1, <2>2 DEF NextMinute
    <2> QED BY <1>2, <2>3 DEF NextMinute
  <1> QED BY <1>1, <1>3, <1>4, MinuteModulusAssumption

(* A minute's sweep over the same list.                                    *)
LEMMA MinuteIInv ==
    ASSUME IInv, Minute
    PROVE  IInv'
  <1>1. /\ minute \in Nat /\ settled \in Nat /\ settled <= BucketCount
        /\ n \in Nat /\ age \in [Companies -> 0 .. BucketCount]
        /\ BucketCount \in Nat \ {0}
    BY BucketCountAssumption, MaxCompaniesAssumption, MinuteModulusAssumption
    DEF IInv, TypeOK
  <1>2. /\ NextMinute \in 0 .. MinuteModulus - 1 /\ NextMinute \in Nat
        /\ NextMinute = 0 \/ NextMinute = minute + 1
    BY NextMinuteType DEF IInv
  <1>3. Companies' = Companies /\ \A b : Slice(b)' = Slice(b)
    BY DEF Minute, Companies, Slice
  <1>4. visited' = Slice(Bucket(NextMinute))
    BY <1>2, SweepIsSlice DEF IInv, Minute
  <1>5. /\ minute' = NextMinute
        /\ settled' = IF NextMinute = 0 THEN 1 ELSE Older(settled)
        /\ \A i \in Companies :
              age'[i] = IF i \in visited' THEN 0 ELSE Older(age[i])
    BY DEF Minute
  <1>6. \A k \in 0 .. BucketCount :
           /\ Older(k) \in 0 .. BucketCount
           /\ Older(k) = IF k < BucketCount THEN k + 1 ELSE k
    BY <1>1 DEF Older, Lesser
  <1>7. \A i \in Companies : age[i] \in 0 .. BucketCount
    BY <1>1
  <1>8. TypeOK'
    <2>1. visited' \subseteq Companies
      BY <1>4 DEF Slice
    <2>2. age' \in [Companies -> 0 .. BucketCount]
      BY <1>1, <1>6, <1>7 DEF Minute
    <2>3. settled' \in 0 .. BucketCount
      BY <1>1, <1>5, <1>6
    <2> QED BY <1>2, <1>3, <1>5, <2>1, <2>2, <2>3 DEF IInv, TypeOK, Minute
  <1>9. settled' <= minute' + 1 /\ settled' \in Nat /\ settled' <= settled + 1
        /\ settled' <= BucketCount /\ (NextMinute = 0 => settled' = 1)
    <2>1. settled <= minute + 1
      BY DEF IInv, LastSweeps
    <2> QED BY <1>1, <1>2, <1>5, <1>6, <2>1
  <1>10. ASSUME NEW i \in Companies, NEW d \in Nat, d < settled',
                i \in Slice(Bucket(minute' - d))
         PROVE  age'[i] = d
    <2>1. CASE d = 0
      BY <1>2, <1>4, <1>5, <1>10, <2>1
    <2>2. CASE d # 0
      <3>1. NextMinute = minute + 1 /\ d - 1 \in Nat /\ d - 1 < settled
        BY <1>1, <1>2, <1>9, <1>10, <2>2
      <3>2. minute' - d = minute - (d - 1) /\ minute' - d \in Nat
        BY <1>1, <1>5, <1>9, <1>10, <3>1
      <3>3. age[i] = d - 1
        BY <1>10, <3>1, <3>2 DEF IInv, LastSweeps
      <3>4. i \notin Slice(Bucket(NextMinute))
        <4>1. SUFFICES ASSUME i \in Slice(Bucket(NextMinute)) PROVE FALSE
          OBVIOUS
        <4>2. Bucket(minute' - d) = Bucket(NextMinute)
          BY <1>1, <1>2, <1>10, <3>2, <4>1, BucketType, OneSlice
        <4>3. NextMinute - (minute' - d) = d /\ minute' - d <= NextMinute
              /\ d < BucketCount
          BY <1>1, <1>2, <1>5, <1>9, <1>10, <3>2
        <4>4. NextMinute = minute' - d
          BY <1>1, <1>2, <3>2, <4>2, <4>3, ModDistinct DEF Bucket
        <4> QED BY <1>2, <2>2, <4>3, <4>4
      <3>5. age'[i] = Older(age[i])
        BY <1>4, <1>5, <3>4
      <3> QED BY <1>1, <1>6, <1>7, <1>9, <1>10, <3>1, <3>3, <3>5
    <2> QED BY <2>1, <2>2
  <1>11. ASSUME NEW i \in Companies, age'[i] < settled'
         PROVE  i \in Slice(Bucket(minute' - age'[i]))
    <2>1. CASE i \in visited'
      <3>1. age'[i] = 0 /\ minute' - age'[i] = NextMinute
        BY <1>2, <1>5, <2>1
      <3> QED BY <1>4, <2>1, <3>1
    <2>2. CASE i \notin visited'
      <3>1. age'[i] = Older(age[i]) /\ age[i] \in 0 .. BucketCount
        BY <1>5, <1>7, <2>2
      <3>2. age'[i] = age[i] + 1 /\ age[i] < settled
        BY <1>1, <1>6, <1>9, <1>11, <3>1
      <3>3. NextMinute = minute + 1
        BY <1>2, <1>9, <1>11, <3>1, <3>2
      <3>4. i \in Slice(Bucket(minute - age[i]))
        BY <3>2 DEF IInv, LastSweeps
      <3>5. minute' - age'[i] = minute - age[i]
        BY <1>1, <1>5, <3>1, <3>2, <3>3
      <3> QED BY <3>4, <3>5
    <2> QED BY <2>1, <2>2
  <1>12. LastSweeps'
    <2>1. n' = n
      BY DEF Minute
    <2>2. \A i \in Companies, d \in Nat :
             d < settled' /\ i \in Slice(Bucket(minute' - d)) => age'[i] = d
      BY <1>10
    <2>3. \A i \in Companies :
             age'[i] < settled' => i \in Slice(Bucket(minute' - age'[i]))
      BY <1>11
    <2> QED BY <1>9, <2>1, <2>2, <2>3 DEF LastSweeps, Slice, Companies
  <1>13. OneSliceVisited'
    <2>1. Bucket(NextMinute) \in 0 .. BucketCount - 1
      BY <1>2, BucketType
    <2> QED BY <1>3, <1>4, <2>1 DEF OneSliceVisited
  <1> QED BY <1>8, <1>12, <1>13 DEF IInv

(* Disturbances forget what is known, and disturb nothing else.            *)
LEMMA DisturbedIInv ==
    ASSUME IInv, Jump \/ Relist
    PROVE  IInv'
  <1>1. /\ minute' \in 0 .. MinuteModulus - 1 /\ settled' = 0
        /\ n' \in 0 .. MaxCompanies /\ layout' = layout
        /\ BucketCount \in Nat
    BY BucketCountAssumption DEF IInv, TypeOK, Jump, Relist
  <1>2. TypeOK'
    <2>1. CASE Jump
      BY <1>1, <2>1 DEF IInv, TypeOK, Jump, Companies
    <2>2. CASE Relist
      <3>1. age' \in [0 .. n' - 1 -> 0 .. BucketCount]
        <4>1. BucketCount \in 0 .. BucketCount
          BY BucketCountAssumption
        <4>2. age' = [i \in 0 .. n' - 1 |-> BucketCount]
          BY <2>2 DEF Relist
        <4> QED BY ONLY <4>1, <4>2
      <3>2. layout' \in Layouts /\ visited' = {} /\ settled' \in 0 .. BucketCount
        BY <1>1, <2>2 DEF IInv, TypeOK, Relist
      <3> QED BY <1>1, <3>1, <3>2 DEF TypeOK, Companies
    <2> QED BY <2>1, <2>2
  <1>3. LastSweeps'
    <2>1. /\ minute' \in Nat
          /\ \A i \in Companies' : age'[i] \in Nat
      BY <1>1, <1>2, MinuteModulusAssumption DEF TypeOK
    <2>2. settled' <= minute' + 1 /\ \A d \in Nat : ~(d < settled')
      <3>1. settled' = 0
        BY <1>1
      <3>2. minute' \in Nat
        BY <2>1
      <3>3. \A x \in Nat : 0 <= x + 1
        OBVIOUS
      <3>4. \A d \in Nat : ~(d < 0)
        OBVIOUS
      <3> QED BY <3>1, <3>2, <3>3, <3>4
    <2>3. \A i \in Companies' : ~(age'[i] < settled')
      BY <1>1, <2>1
    <2> QED BY <2>2, <2>3 DEF LastSweeps
  <1>4. OneSliceVisited'
    <2>1. CASE Jump
      BY <2>1 DEF IInv, OneSliceVisited, Jump, Slice, Companies
    <2>2. CASE Relist
      BY <2>2 DEF OneSliceVisited, Relist
    <2> QED BY <2>1, <2>2
  <1> QED BY <1>2, <1>3, <1>4 DEF IInv

(* The ages of the companies are true of the sweeps made.                  *)
THEOREM Inductive == Spec => []IInv
  <1>1. Init => IInv
    BY InitIInv
  <1>2. IInv /\ [Next]_vars => IInv'
    <2> SUFFICES ASSUME IInv, [Next]_vars PROVE IInv'
      OBVIOUS
    <2>1. CASE Minute
      BY <2>1, MinuteIInv
    <2>2. CASE Jump \/ Relist
      BY <2>2, DisturbedIInv
    <2>3. CASE UNCHANGED vars
      BY <2>3 DEF vars, IInv, TypeOK, LastSweeps, OneSliceVisited, Slice, Companies
    <2> QED BY <2>1, <2>2, <2>3 DEF Next
  <1> QED BY <1>1, <1>2, PTL DEF Spec

(* Every state of a sweep has its type.                                    *)
THEOREM TypeCorrect == Spec => []TypeOK
  <1>1. IInv => TypeOK
    BY DEF IInv
  <1> QED BY <1>1, Inductive, PTL

(* After BucketCount undisturbed sweeps every company had its turn within  *)
(* the last of them, for every period and every length of the list, also   *)
(* one shorter than the period.                                            *)
THEOREM CyclesComplete == Spec => []CompleteCycle
  <1>1. IInv => CompleteCycle
    <2> SUFFICES ASSUME IInv, settled = BucketCount, NEW i \in Companies
                 PROVE  age[i] < BucketCount
      BY DEF CompleteCycle
    <2>1. minute \in Nat /\ minute >= BucketCount - 1 /\ n \in Nat
      BY MinuteModulusAssumption, MaxCompaniesAssumption, BucketCountAssumption
      DEF IInv, TypeOK, LastSweeps
    <2>2. PICK b \in 0 .. BucketCount - 1 : i \in Slice(b)
      BY <2>1, OneSlice
    <2>3. PICK d \in 0 .. BucketCount - 1 : (minute - d) % BucketCount = b
      BY <2>1, ModBack, BucketCountAssumption
    <2>4. d \in Nat /\ d < BucketCount
      BY BucketCountAssumption
    <2>5. age[i] = d
      BY <2>2, <2>3, <2>4 DEF IInv, LastSweeps, Bucket
    <2> QED BY <2>4, <2>5
  <1> QED BY <1>1, Inductive, PTL

(* No company is refreshed twice in a cycle.                               *)
THEOREM NeverTwicePerCycle == Spec => OncePerCycle
  <1>1. IInv /\ Minute /\ NextMinute # 0 =>
           \A i \in visited' : age[i] >= Lesser(settled, BucketCount - 1)
    <2> SUFFICES ASSUME IInv, Minute, NextMinute # 0, NEW i \in visited'
                 PROVE  age[i] >= Lesser(settled, BucketCount - 1)
      OBVIOUS
    <2>1. /\ minute \in Nat /\ settled \in Nat /\ n \in Nat
          /\ BucketCount \in Nat \ {0}
          /\ NextMinute = minute + 1
      BY NextMinuteType, BucketCountAssumption, MaxCompaniesAssumption,
         MinuteModulusAssumption DEF IInv, TypeOK
    <2>2. i \in Slice(Bucket(NextMinute)) /\ i \in Companies
      BY <2>1, SweepIsSlice DEF IInv, Minute, Slice
    <2>3. age[i] \in Nat
      BY <2>1, <2>2 DEF IInv, TypeOK
    <2>4. ASSUME age[i] < settled, age[i] + 1 < BucketCount
          PROVE  FALSE
      <3>1. i \in Slice(Bucket(minute - age[i]))
        BY <2>2, <2>4 DEF IInv, LastSweeps
      <3>2. minute - age[i] \in Nat
        BY <2>1, <2>3, <2>4 DEF IInv, LastSweeps
      <3>3. Bucket(minute - age[i]) = Bucket(NextMinute)
        BY <2>1, <2>2, <3>1, <3>2, BucketType, OneSlice
      <3>4. NextMinute - (minute - age[i]) = age[i] + 1
        BY <2>1, <2>3
      <3>5. NextMinute = minute - age[i]
        BY <2>1, <2>3, <2>4, <3>2, <3>3, <3>4, ModDistinct DEF Bucket
      <3> QED BY <2>1, <2>3, <3>4, <3>5
    <2> QED BY <2>1, <2>3, <2>4 DEF Lesser
  <1> QED BY <1>1, Inductive, PTL DEF OncePerCycle

(* A settled company is refreshed once in every cycle and never twice.     *)
THEOREM OneTurnPerCycle == Spec => ExactlyOncePerCycle
  BY CyclesComplete, NeverTwicePerCycle DEF ExactlyOncePerCycle

(* No sweep visits more than the list's share of a period, rounded up.     *)
THEOREM LoadBalanced == Spec => []BalancedLoad
  <1>1. IInv => BalancedLoad
    <2> SUFFICES ASSUME IInv PROVE Cardinality(visited) * BucketCount < n + BucketCount
      BY DEF BalancedLoad
    <2>1. n \in Nat /\ BucketCount \in Nat \ {0}
      BY MaxCompaniesAssumption, BucketCountAssumption DEF IInv, TypeOK
    <2>2. CASE visited = {}
      BY <2>1, <2>2, FS_EmptySet
    <2>3. ASSUME NEW b \in 0 .. BucketCount - 1, visited = Slice(b)
          PROVE  Cardinality(visited) * BucketCount < n + BucketCount
      <3> DEFINE start == Start(n, b)  length == SliceLength(n, b)
                 q == Quotient(n)  r == Remainder(n)
      <3>1. start \in Nat /\ length \in Nat /\ start + length <= n
        BY <2>1, SliceOrder
      <3>2. /\ q \in Nat /\ r \in Nat /\ n = BucketCount * q + r
            /\ length = IF b < r THEN q + 1 ELSE q
        BY <2>1, DivMod DEF Quotient, Remainder, SliceLength
      <3>3. visited = start .. (start + length - 1)
        <4> HIDE DEF start, length
        <4>1. visited = {i \in Companies : start <= i /\ i < start + length}
          BY <2>3 DEF Slice, start, length
        <4> QED BY <2>1, <3>1, <4>1 DEF Companies
      <3> HIDE DEF start, length, q, r
      <3>4. Cardinality(visited) = length
        BY <3>1, <3>3, FS_Interval
      <3>5. CASE b < r
        <4>1. length * BucketCount = BucketCount * q + BucketCount
          BY <2>1, <3>2, <3>5
        <4> QED BY <2>1, <2>3, <3>2, <3>4, <3>5, <4>1
      <3>6. CASE ~(b < r)
        <4>1. length * BucketCount = BucketCount * q
          BY <2>1, <3>2, <3>6
        <4> QED BY <2>1, <3>2, <3>4, <4>1
      <3> QED BY <3>5, <3>6
    <2> QED BY <2>2, <2>3 DEF IInv, OneSliceVisited
  <1> QED BY <1>1, Inductive, PTL

-----------------------------------------------------------------------------
(* Bridges called with any registers (BridgeCalls).                        *)

(* Element steps do not change the remainder by 8.                         *)
LEMMA Steps8 ==
    ASSUME NEW x \in Nat, NEW k \in Nat, x % 8 = 0
    PROVE  (x + 8 * k) % 8 = 0
  OBVIOUS

(* The registers come from a list, and the bridge has dealt with them.     *)
CallsInv ==
    /\ called \in Layouts /\ bounds \in Bounds /\ now \in Nat
    /\ bounds.begin = bounds.cursor
    /\ called # "v161" => bounds.cursor # bounds.end
    /\ out = Bridge(called, bounds, now)

(* A wrapped address is a word.                                            *)
LEMMA WrapType == ASSUME NEW x \in Nat PROVE Wrap(x) \in Word
  <1>1. AddressModulus \in Nat \ {0}
    BY CapacityAssumption DEF AddressModulus
  <1> QED BY <1>1, DivMod DEF Wrap, Word

(* It holds of every call.                                                 *)
LEMMA CallsInductive == CallsSpec => []CallsInv
<1>1. CallsInit => CallsInv
  <2> SUFFICES ASSUME CallsInit PROVE CallsInv
    OBVIOUS
  <2>1. PICK k \in Word, cursor \in Starts : \E end \in EndsFor(k, cursor) :
            bounds = [n |-> k, begin |-> cursor, cursor |-> cursor, end |-> end]
    BY DEF CallsInit
  <2>2. k \in Nat /\ k \in Word /\ cursor \in Word /\ cursor \in Nat
    BY <2>1, CapacityAssumption DEF Starts, Word, AddressModulus
  <2>3. EndsFor(k, cursor) \subseteq Word
    <3>1. AddressModulus - 8 \in Nat
      BY CapacityAssumption DEF AddressModulus
    <3>2. \A j \in {0, 1, 8, AddressModulus - 8} : cursor + 8 * k + j \in Nat
      BY <2>2, <3>1
    <3> QED BY <2>2, <3>2, WrapType DEF EndsFor
  <2>4. bounds \in Bounds /\ bounds.begin = bounds.cursor
    BY <2>1, <2>2, <2>3 DEF Bounds
  <2> QED BY <2>4 DEF CallsInit, CallsInv, Reaches
<1>2. CallsInv /\ [CallsNext]_callVars => CallsInv'
  <2> SUFFICES ASSUME CallsInv, [CallsNext]_callVars PROVE CallsInv'
    OBVIOUS
  <2>1. CASE CallsNext
    <3>1. now' \in Nat
      BY <2>1, DivMod, MinuteModulusAssumption DEF CallsNext, CallsInv
    <3> QED BY <2>1, <3>1 DEF CallsNext, CallsInv
  <2>2. CASE UNCHANGED callVars
    BY <2>2 DEF callVars, CallsInv
  <2> QED BY <2>1, <2>2
<1> QED BY <1>1, <1>2, PTL DEF CallsSpec

(* What a bridge may return: nothing to sweep, the list as it was, or a    *)
(* slice of it.                                                            *)
LEMMA BridgeCases ==
    ASSUME CallsInv
    PROVE  \/ OriginalEmpty(called, bounds) /\ out = [cursor |-> bounds.cursor, end |-> bounds.end, count |-> 0]
           \/ /\ ~OriginalEmpty(called, bounds) /\ ~Representable(bounds)
              /\ out = [cursor |-> bounds.cursor, end |-> bounds.end, count |-> 1]
           \/ /\ Representable(bounds) /\ bounds.cursor \in Nat /\ bounds.end \in Nat
              /\ \E s \in Nat, m \in Nat :
                    /\ out.cursor = bounds.cursor + 8 * s
                    /\ out.end = bounds.cursor + 8 * s + 8 * m
                    /\ out.count = m /\ out.end <= bounds.end
  <1>1. CASE OriginalEmpty(called, bounds)
    BY <1>1 DEF CallsInv, Bridge
  <1>2. CASE ~OriginalEmpty(called, bounds) /\ ~Representable(bounds)
    BY <1>2 DEF CallsInv, Bridge
  <1>3. CASE ~OriginalEmpty(called, bounds) /\ Representable(bounds)
    <2> DEFINE s == Start(bounds.n, Bucket(now))
               m == SliceLength(bounds.n, Bucket(now))
    <2>1. /\ bounds.n \in Nat /\ bounds.cursor \in Nat /\ bounds.end \in Nat
      BY CapacityAssumption DEF CallsInv, Bounds, Word, AddressModulus
    <2>2. s \in Nat /\ m \in Nat
      BY <2>1, BucketType, SliceOrder DEF CallsInv
    <2>3. /\ out.cursor = bounds.cursor + 8 * s
          /\ out.end = bounds.cursor + 8 * s + 8 * m
          /\ out.count = m /\ out.end <= bounds.end
      BY <1>3, BridgeNarrowsToSlice DEF CallsInv
    <2> QED BY <1>3, <2>1, <2>2, <2>3
  <1> QED BY <1>1, <1>2, <1>3

(* Whatever the registers hold, the bridge adds no element to the original *)
(* loop and leaves a malformed list alone, for every word width.           *)
THEOREM BridgeAddsNothing == CallsSpec => []NothingAdded
<1>1. CallsInv => NothingAdded
  <2> SUFFICES ASSUME CallsInv PROVE NothingAdded
    OBVIOUS
  <2>1. CASE out.cursor = bounds.cursor /\ out.end = bounds.end
    BY <2>1 DEF NothingAdded, Elements
  <2>2. CASE Representable(bounds) /\ bounds.cursor \in Nat /\ bounds.end \in Nat
    <3>1. WellFormed(bounds)
      <4>1. bounds.n \in Nat
        BY CapacityAssumption DEF CallsInv, Bounds, Word, AddressModulus
      <4> QED BY <2>2, <4>1 DEF Representable, WellFormed
    <3>2. CASE \E s \in Nat, m \in Nat :
                    /\ out.cursor = bounds.cursor + 8 * s
                    /\ out.end = bounds.cursor + 8 * s + 8 * m
                    /\ out.count = m /\ out.end <= bounds.end
      <4>1. PICK s \in Nat, m \in Nat :
                    /\ out.cursor = bounds.cursor + 8 * s
                    /\ out.end = bounds.cursor + 8 * s + 8 * m
                    /\ out.count = m /\ out.end <= bounds.end
        BY <3>2
      <4>2. ASSUME NEW a \in Word, out.cursor <= a, a < out.end, (a - out.cursor) % 8 = 0
            PROVE  bounds.cursor <= a /\ a < bounds.end /\ (a - bounds.cursor) % 8 = 0
        <5>1. a \in Nat
          BY CapacityAssumption DEF Word, AddressModulus
        <5>2. a - out.cursor \in Nat /\ a - bounds.cursor = (a - out.cursor) + 8 * s
          BY <2>2, <4>1, <4>2, <5>1
        <5>3. (a - bounds.cursor) % 8 = 0
          BY <4>2, <5>2, Steps8
        <5> QED BY <2>2, <4>1, <4>2, <5>1, <5>3
      <4> QED BY <3>1, <4>2 DEF NothingAdded, Elements
    <3>3. CASE out.cursor = bounds.cursor /\ out.end = bounds.end
      BY <2>1, <3>3
    <3> QED BY <3>2, <3>3, BridgeCases
  <2> QED BY <2>1, <2>2, BridgeCases
<1> QED BY <1>1, CallsInductive, PTL

(* The loop, which tests last, is entered exactly if the slice has an      *)
(* element, for every list, period and layout.                             *)
THEOREM BridgeEntersNoEmptyLoop == CallsSpec => []LoopEntered
<1>1. CallsInv => LoopEntered
  <2> SUFFICES ASSUME CallsInv, WellFormed(bounds)
               PROVE  out.count = 0 <=> out.cursor = out.end
    BY DEF LoopEntered
  <2>1. /\ bounds.n \in Nat /\ bounds.cursor \in Nat /\ bounds.end \in Nat
        /\ bounds.end < AddressModulus /\ bounds.begin = bounds.cursor
        /\ bounds.end = bounds.cursor + 8 * bounds.n /\ bounds.n < Capacity
    BY CapacityAssumption DEF CallsInv, Bounds, Word, AddressModulus, WellFormed
  <2>2. CASE OriginalEmpty(called, bounds) /\ out = [cursor |-> bounds.cursor, end |-> bounds.end, count |-> 0]
    BY <2>1, <2>2 DEF OriginalEmpty
  <2>3. CASE /\ ~OriginalEmpty(called, bounds) /\ ~Representable(bounds)
             /\ out = [cursor |-> bounds.cursor, end |-> bounds.end, count |-> 1]
    <3>1. bounds.n = 0
      BY <2>1, <2>3 DEF Representable
    <3>2. called = "v161" /\ bounds.begin = bounds.end
      BY <2>1, <3>1 DEF CallsInv
    <3> QED BY <2>3, <3>2 DEF OriginalEmpty
  <2>4. CASE \E s \in Nat, m \in Nat :
                    /\ out.cursor = bounds.cursor + 8 * s
                    /\ out.end = bounds.cursor + 8 * s + 8 * m
                    /\ out.count = m /\ out.end <= bounds.end
    BY <2>1, <2>4
  <2> QED BY <2>2, <2>3, <2>4, BridgeCases
<1> QED BY <1>1, CallsInductive, PTL

(* Quotient and remainder are unique.                                      *)
LEMMA OneQuotient ==
    ASSUME NEW p \in Nat \ {0}, NEW j \in Nat, NEW l \in Nat,
           NEW c \in 0 .. p - 1, NEW e \in 0 .. p - 1, p * j + c = p * l + e
    PROVE  j = l /\ c = e
  <1>1. p * j \in Nat /\ p * l \in Nat
    OBVIOUS
  <1>2. ~(j < l)
    <2>1. SUFFICES ASSUME j < l PROVE FALSE
      OBVIOUS
    <2>2. p * j + p <= p * l
      BY <2>1, TimesLess
    <2> QED BY <1>1, <2>2
  <1>3. ~(l < j)
    <2>1. SUFFICES ASSUME l < j PROVE FALSE
      OBVIOUS
    <2>2. p * l + p <= p * j
      BY <2>1, TimesLess
    <2> QED BY <1>1, <2>2
  <1> QED BY <1>1, <1>2, <1>3

(* div and mod give back what a number was made of.                        *)
LEMMA QuotientOf ==
    ASSUME NEW p \in Nat \ {0}, NEW j \in Nat, NEW c \in 0 .. p - 1
    PROVE  (p * j + c) \div p = j /\ (p * j + c) % p = c
  <1>1. p * j + c \in Nat
    OBVIOUS
  <1> QED BY <1>1, DivMod, OneQuotient

(* A bucket is dealt as many elements as its slice is long: the i-th of    *)
(* them is element BucketCount * (i - 1) + b.                              *)
LEMMA CountDealt ==
    ASSUME NEW k \in Nat, NEW b \in 0 .. BucketCount - 1
    PROVE  Cardinality({i \in 0 .. k - 1 : i % BucketCount = b}) = SliceLength(k, b)
  <1> DEFINE q == Quotient(k)  r == Remainder(k)  L == SliceLength(k, b)
             D == {i \in 0 .. k - 1 : i % BucketCount = b}
             f == [i \in 1 .. L |-> BucketCount * (i - 1) + b]
  <1>1. /\ q \in Nat /\ r \in 0 .. BucketCount - 1 /\ BucketCount * q \in Nat
        /\ k = BucketCount * q + r /\ BucketCount \in Nat \ {0}
        /\ L \in Nat /\ L = q + (IF b < r THEN 1 ELSE 0)
    BY DivMod, BucketCountAssumption DEF Quotient, Remainder, SliceLength
  <1> HIDE DEF q, r, L
  <1>2. ASSUME NEW j \in Nat
        PROVE  BucketCount * j + b < k <=> j < L
    <2>1. BucketCount * j \in Nat
      BY <1>1
    <2>2. CASE j < q
      <3>1. BucketCount * j + BucketCount <= BucketCount * q
        BY <1>1, <2>2, TimesLess
      <3> QED BY <1>1, <2>1, <2>2, <3>1
    <2>3. CASE j = q
      BY <1>1, <2>3
    <2>4. CASE q < j
      <3>1. BucketCount * q + BucketCount <= BucketCount * j
        BY <1>1, <2>4, TimesLess
      <3> QED BY <1>1, <2>1, <2>4, <3>1
    <2> QED BY <1>1, <2>2, <2>3, <2>4
  <1>3. ASSUME NEW i \in 1 .. L
        PROVE  f[i] \in D
    <2>1. i - 1 \in Nat /\ i - 1 < L /\ f[i] = BucketCount * (i - 1) + b
      BY <1>1
    <2>2. BucketCount * (i - 1) + b \in Nat /\ BucketCount * (i - 1) + b < k
      BY <1>1, <1>2, <2>1
    <2>3. (BucketCount * (i - 1) + b) % BucketCount = b
      BY <1>1, <2>1, QuotientOf
    <2> QED BY <2>1, <2>2, <2>3
  <1>4. ASSUME NEW i \in 1 .. L, NEW j \in 1 .. L, f[i] = f[j]
        PROVE  i = j
    <2>1. i - 1 \in Nat /\ j - 1 \in Nat /\ BucketCount * (i - 1) + b = BucketCount * (j - 1) + b
      BY <1>1, <1>4
    <2>2. i - 1 = j - 1
      BY <1>1, <2>1, OneQuotient
    <2> QED BY <1>1, <2>2
  <1>5. ASSUME NEW d \in D
        PROVE  \E i \in 1 .. L : f[i] = d
    <2>1. d \in Nat /\ d < k /\ d % BucketCount = b
      BY <1>1
    <2>2. PICK j \in Nat : d = BucketCount * j + b
      BY <1>1, <2>1, DivMod
    <2>3. j < L
      BY <1>2, <2>1, <2>2
    <2>4. j + 1 \in 1 .. L /\ (j + 1) - 1 = j
      BY <1>1, <2>3
    <2> QED BY <2>2, <2>4
  <1> HIDE DEF D
  <1>6. f \in Bijection(1 .. L, D)
    <2>1. f \in [1 .. L -> D]
      BY <1>3
    <2>2. f \in Injection(1 .. L, D)
      BY <2>1, <1>4 DEF Injection, IsInjective
    <2>3. f \in Surjection(1 .. L, D)
      BY <2>1, <1>5 DEF Surjection
    <2> QED BY <2>2, <2>3 DEF Bijection
  <1>7. ExistsBijection(1 .. L, D)
    BY <1>6 DEF ExistsBijection
  <1> QED BY <1>1, <1>7, FS_CountingElements DEF D, L

(* Its slice starts after all that the buckets before it are dealt.        *)
LEMMA CountDealtBefore ==
    ASSUME NEW k \in Nat, NEW b \in 0 .. BucketCount - 1
    PROVE  Cardinality({i \in 0 .. k - 1 : i % BucketCount < b}) = Start(k, b)
  <1> DEFINE q == Quotient(k)  r == Remainder(k)  S == Start(k, b)
             D == {i \in 0 .. k - 1 : i % BucketCount < b}
             g == [i \in D |-> b * (i \div BucketCount) + (i % BucketCount) + 1]
  <1>1. /\ q \in Nat /\ r \in 0 .. BucketCount - 1 /\ BucketCount * q \in Nat
        /\ k = BucketCount * q + r /\ BucketCount \in Nat \ {0}
        /\ S \in Nat /\ S = b * q + (IF b < r THEN b ELSE r) /\ b * q \in Nat
    <2>0. q \in Nat /\ r \in 0 .. BucketCount - 1 /\ k = BucketCount * q + r
      BY DivMod, BucketCountAssumption DEF Quotient, Remainder
    <2> HIDE DEF q, r
    <2>1. /\ q \in Nat /\ r \in 0 .. BucketCount - 1 /\ BucketCount * q \in Nat
          /\ k = BucketCount * q + r /\ BucketCount \in Nat \ {0}
      BY <2>0, BucketCountAssumption
    <2>2. q * b = b * q /\ b * q \in Nat
      BY <2>1
    <2> QED BY <2>1, <2>2 DEF Start, Lesser, q, r
  <1> HIDE DEF q, r, S
  <1>2. ASSUME NEW j \in Nat, NEW c \in 0 .. b - 1
        PROVE  BucketCount * j + c < k <=> b * j + c < S
    <2>1. BucketCount * j \in Nat /\ b * j \in Nat /\ b \in Nat
      BY <1>1
    <2>2. CASE j < q
      <3>1. BucketCount * j + BucketCount <= BucketCount * q /\ b * j + b <= b * q
        BY <1>1, <2>1, <2>2, TimesLess
      <3> QED BY <1>1, <2>1, <2>2, <3>1
    <2>3. CASE j = q
      BY <1>1, <2>3
    <2>4. CASE q < j
      <3>1. BucketCount * q + BucketCount <= BucketCount * j /\ b * q + b <= b * j
        BY <1>1, <2>1, <2>4, TimesLess
      <3> QED BY <1>1, <2>1, <2>4, <3>1
    <2> QED BY <1>1, <2>2, <2>3, <2>4
  <1>3. ASSUME NEW d \in D
        PROVE  \E j \in Nat, c \in 0 .. b - 1 :
                  /\ d = BucketCount * j + c /\ g[d] = b * j + c + 1
                  /\ b * j + c \in Nat /\ b * j + c < S
    <2>1. d \in Nat /\ d < k /\ d % BucketCount < b
      BY <1>1
    <2>0. /\ d \div BucketCount \in Nat /\ d % BucketCount \in 0 .. BucketCount - 1
          /\ d = BucketCount * (d \div BucketCount) + (d % BucketCount)
      BY <1>1, <2>1, DivMod
    <2>2. /\ d \div BucketCount \in Nat /\ d % BucketCount \in 0 .. b - 1
          /\ d = BucketCount * (d \div BucketCount) + (d % BucketCount)
      BY <2>0, <2>1
    <2>3. g[d] = b * (d \div BucketCount) + (d % BucketCount) + 1
      OBVIOUS
    <2>4. PICK j \in Nat, c \in 0 .. b - 1 : d = BucketCount * j + c /\ g[d] = b * j + c + 1
      BY <2>2, <2>3
    <2>5. b * j \in Nat /\ c \in Nat
      OBVIOUS
    <2>6. b * j + c \in Nat
      BY <2>5
    <2>7. BucketCount * j + c < k
      BY <2>1, <2>4
    <2>8. b * j + c < S
      BY <1>2, <2>7
    <2> QED BY <2>4, <2>6, <2>8
  <1>4. ASSUME NEW i \in D, NEW j \in D, g[i] = g[j]
        PROVE  i = j
    <2>1. PICK m \in Nat, c \in 0 .. b - 1 :
              i = BucketCount * m + c /\ g[i] = b * m + c + 1 /\ b * m + c \in Nat
      BY <1>3
    <2>2. PICK l \in Nat, e \in 0 .. b - 1 :
              j = BucketCount * l + e /\ g[j] = b * l + e + 1 /\ b * l + e \in Nat
      BY <1>3
    <2>3. b \in Nat \ {0} /\ b * m + c = b * l + e
      BY <1>4, <2>1, <2>2
    <2>4. m = l /\ c = e
      BY <2>3, OneQuotient
    <2> QED BY <2>1, <2>2, <2>4
  <1>5. ASSUME NEW t \in 1 .. S
        PROVE  \E i \in D : g[i] = t
    <2>1. b # 0
      <3>1. SUFFICES ASSUME b = 0 PROVE FALSE
        OBVIOUS
      <3>2. b * q = 0
        BY <1>1, <3>1
      <3> QED BY <1>1, <3>1, <3>2
    <2>2. b \in Nat \ {0} /\ t - 1 \in Nat /\ t - 1 < S
      BY <1>1, <2>1
    <2>3. PICK j \in Nat, c \in 0 .. b - 1 : t - 1 = b * j + c
      BY <2>2, DivMod
    <2>4. BucketCount * j + c \in Nat /\ BucketCount * j + c < k
      BY <1>1, <1>2, <2>2, <2>3
    <2>5. (BucketCount * j + c) \div BucketCount = j /\ (BucketCount * j + c) % BucketCount = c
      BY <1>1, QuotientOf
    <2>6. BucketCount * j + c \in D
      BY <2>4, <2>5
    <2>7. g[BucketCount * j + c] = b * j + c + 1
      BY <2>5, <2>6
    <2>8. b * j + c + 1 = t
      BY <1>1, <2>3
    <2> QED BY <2>6, <2>7, <2>8
  <1>6. ASSUME NEW d \in D
        PROVE  g[d] \in 1 .. S
    <2>1. PICK j \in Nat, c \in 0 .. b - 1 :
              g[d] = b * j + c + 1 /\ b * j + c \in Nat /\ b * j + c < S
      BY <1>3
    <2> QED BY <1>1, <2>1
  <1> HIDE DEF D
  <1>7. g \in Bijection(D, 1 .. S)
    <2>1. g \in [D -> 1 .. S]
      BY <1>6
    <2>2. g \in Injection(D, 1 .. S)
      BY <2>1, <1>4 DEF Injection, IsInjective
    <2>3. g \in Surjection(D, 1 .. S)
      BY <2>1, <1>5 DEF Surjection
    <2> QED BY <2>2, <2>3 DEF Bijection
  <1>8. ExistsBijection(1 .. S, D)
    BY <1>7, Fun_ExistsBijSymmetric DEF ExistsBijection
  <1> QED BY <1>1, <1>8, FS_CountingElements DEF D, S

(* A well-formed list is narrowed to what dealing its elements out would   *)
(* give the minute's bucket, for every period, length and address.         *)
THEOREM BridgeDealsFairly == CallsSpec => []NarrowedAsDealt
<1>1. CallsInv => NarrowedAsDealt
  <2> SUFFICES ASSUME CallsInv, WellFormed(bounds)
               PROVE  /\ out.cursor = bounds.cursor + 8 * Cardinality(DealtBefore(bounds.n, now % BucketCount))
                      /\ out.end = out.cursor + 8 * Cardinality(Dealt(bounds.n, now % BucketCount))
    BY DEF NarrowedAsDealt
  <2>1. /\ bounds.n \in Nat /\ bounds.cursor \in Nat /\ bounds.end \in Nat
        /\ bounds.end < AddressModulus /\ bounds.begin = bounds.cursor
        /\ bounds.end = bounds.cursor + 8 * bounds.n /\ bounds.n < Capacity
    BY CapacityAssumption DEF CallsInv, Bounds, Word, AddressModulus, WellFormed
  <2> DEFINE c == Bucket(now)
  <2>2. c \in 0 .. BucketCount - 1 /\ c = now % BucketCount
    BY BucketType DEF CallsInv, Bucket
  <2> HIDE DEF c
  <2>3. /\ Cardinality(DealtBefore(bounds.n, now % BucketCount)) = Start(bounds.n, c)
        /\ Cardinality(Dealt(bounds.n, now % BucketCount)) = SliceLength(bounds.n, c)
    BY <2>1, <2>2, CountDealt, CountDealtBefore DEF Dealt, DealtBefore
  <2>4. /\ Start(bounds.n, c) \in Nat /\ SliceLength(bounds.n, c) \in Nat
        /\ Start(bounds.n, c) + SliceLength(bounds.n, c) <= bounds.n
    BY <2>1, <2>2, SliceOrder
  <2>5. CASE bounds.n = 0
    <3>1. Start(bounds.n, c) = 0 /\ SliceLength(bounds.n, c) = 0
      BY <2>4, <2>5
    <3>2. out.cursor = bounds.cursor /\ out.end = bounds.end
      BY <2>5 DEF CallsInv, Bridge, Representable
    <3> QED BY <2>1, <2>3, <2>5, <3>1, <3>2
  <2>6. CASE bounds.n # 0
    <3>1. Representable(bounds) /\ ~OriginalEmpty(called, bounds)
      BY <2>1, <2>6 DEF Representable, OriginalEmpty
    <3>2. /\ out.cursor = bounds.cursor + 8 * Start(bounds.n, c)
          /\ out.end = bounds.cursor + 8 * Start(bounds.n, c) + 8 * SliceLength(bounds.n, c)
      BY <3>1, BridgeNarrowsToSlice DEF CallsInv, c
    <3> QED BY <2>3, <2>4, <3>2
  <2> QED BY <2>5, <2>6
<1>2. CallsInv => NarrowedAsDealt
  BY <1>1
<1> QED BY <1>2, CallsInductive, PTL

(* The altered loop stays within the engine's list: it is entered only     *)
(* with an element to visit, and visits none the original would not.       *)
THEOREM BridgeStaysInList == CallsSpec => []StaysInList
<1>1. LoopEntered /\ NothingAdded => StaysInList
  BY DEF StaysInList
<1> QED BY <1>1, BridgeEntersNoEmptyLoop, BridgeAddsNothing, PTL

-----------------------------------------------------------------------------
(* Element i of a list of k is in the slice of bucket b.                  *)
InSlice(k, b, i) == SliceStart(k, b) <= i /\ i < SliceStart(k, b) + SliceLength(k, b)

(* The arithmetic of the bridges deals every list that fits the address    *)
(* space out to the buckets of a cycle: each element to exactly one of     *)
(* them, none beyond the list, and no bucket gets two elements more than   *)
(* another.                                                                *)
THEOREM SlicesDealEvenly ==
    ASSUME NEW k \in Nat, k < Capacity
    PROVE  LET Buckets == 0 .. BucketCount - 1
           IN  /\ \A i \in 0 .. k - 1 : \E b \in Buckets :
                     InSlice(k, b, i) /\ \A c \in Buckets : InSlice(k, c, i) => c = b
               /\ \A b \in Buckets : SliceStart(k, b) + SliceLength(k, b) <= k
               /\ \A b, c \in Buckets : SliceLength(k, b) <= SliceLength(k, c) + 1
<1> DEFINE Buckets == 0 .. BucketCount - 1
<1>1. \A b \in Buckets :
        /\ SliceStart(k, b) = Start(k, b)
        /\ Start(k, b) \in Nat /\ SliceLength(k, b) \in Nat
        /\ Start(k, b) + SliceLength(k, b) <= k
        /\ \A c \in Buckets : b < c => Start(k, b) + SliceLength(k, b) <= Start(k, c)
  BY SliceOrder, NoRegisterWraps
<1>2. ASSUME NEW i \in 0 .. k - 1
      PROVE  \E b \in Buckets : InSlice(k, b, i) /\ \A c \in Buckets : InSlice(k, c, i) => c = b
  <2>1. PICK b \in Buckets : Start(k, b) <= i /\ i < Start(k, b) + SliceLength(k, b)
    BY SliceExists
  <2>2. ASSUME NEW c \in Buckets, InSlice(k, c, i) PROVE c = b
    <3>1. Start(k, c) <= i /\ i < Start(k, c) + SliceLength(k, c)
      BY <1>1, <2>2 DEF InSlice
    <3>2. b \in Nat /\ c \in Nat
      BY BucketCountAssumption
    <3>3. ~(b < c)
      <4>1. SUFFICES ASSUME b < c PROVE FALSE
        OBVIOUS
      <4>2. Start(k, b) + SliceLength(k, b) <= Start(k, c)
        BY <1>1, <4>1
      <4>3. QED BY <1>1, <2>1, <3>1, <4>2
    <3>4. ~(c < b)
      <4>1. SUFFICES ASSUME c < b PROVE FALSE
        OBVIOUS
      <4>2. Start(k, c) + SliceLength(k, c) <= Start(k, b)
        BY <1>1, <4>1
      <4>3. QED BY <1>1, <2>1, <3>1, <4>2
    <3>5. QED BY <3>2, <3>3, <3>4
  <2>3. InSlice(k, b, i)
    BY <1>1, <2>1 DEF InSlice
  <2>4. QED BY <2>2, <2>3
<1>3. \A b, c \in Buckets : SliceLength(k, b) <= SliceLength(k, c) + 1
  <2>1. Quotient(k) \in Nat
    BY DivMod, BucketCountAssumption DEF Quotient
  <2>2. QED BY <2>1 DEF SliceLength
<1>4. QED BY <1>1, <1>2, <1>3
=============================================================================
