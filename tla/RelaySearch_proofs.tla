-------------------------- MODULE RelaySearch_proofs --------------------------
(***************************************************************************)
(* Proofs about RelaySearch, for every size of the address space, of its   *)
(* granules and of the reach of a CALL.                                    *)
(***************************************************************************)
EXTENDS RelaySearch, TLAPS

Modulus == Top + 1

Whole(x) == x % Granule = 0

(* The constants without their divisibility.                               *)
LEMMA Constants ==
    /\ Granule \in Nat \ {0} /\ Page \in Nat \ {0} /\ Top \in Nat /\ Modulus \in Nat \ {0}
    /\ SearchLimit \in Nat /\ CallSize \in Nat \ {0}
    /\ Rel32 \in Nat /\ SearchLimit + CallSize <= Rel32 + 1 /\ 2 * Rel32 <= Modulus
    /\ Targets \subseteq 1 .. Top
  BY RelayAssumption DEF Modulus

(* Arithmetic of words.                                                    *)
LEMMA DivMod ==
    ASSUME NEW x \in Nat, NEW y \in Nat \ {0}
    PROVE  /\ x \div y \in Nat /\ x % y \in 0 .. y - 1
           /\ x = y * (x \div y) + (x % y)
  OBVIOUS

LEMMA ModSmall == ASSUME NEW m \in Nat \ {0}, NEW x \in 0 .. m - 1 PROVE x % m = x
  OBVIOUS

LEMMA ModRange == ASSUME NEW m \in Nat \ {0}, NEW x \in Int PROVE x % m \in 0 .. m - 1
  OBVIOUS

LEMMA ModOf == ASSUME NEW m \in Nat \ {0}, NEW k \in Int, NEW c \in 0 .. m - 1
               PROVE  (m * k + c) % m = c
  OBVIOUS

LEMMA ModPlus == ASSUME NEW m \in Nat \ {0}, NEW x \in Int PROVE (x + m) % m = x % m
<1>1. x \div m \in Int /\ x % m \in 0 .. m - 1 /\ x = m * (x \div m) + (x % m)
  OBVIOUS
<1>2. PICK k \in Int, c \in 0 .. m - 1 : x = m * k + c /\ c = x % m
  BY <1>1
<1>3. x + m = m * (k + 1) + c /\ k + 1 \in Int
  BY <1>2
<1>4. (m * (k + 1) + c) % m = c
  BY <1>3, ModOf
<1> QED BY <1>2, <1>3, <1>4

LEMMA ModMinus == ASSUME NEW m \in Nat \ {0}, NEW x \in Int PROVE (x - m) % m = x % m
<1>1. x - m \in Int /\ (x - m) + m = x
  OBVIOUS
<1> QED BY <1>1, ModPlus

LEMMA WordMinus ==
    ASSUME NEW a \in Int, NEW b \in Int
    PROVE  (a + b - Modulus) % Modulus = (a + b) % Modulus
<1>1. Modulus \in Nat \ {0}
  BY Constants
<1>2. PICK x \in Int : x = a + b
  OBVIOUS
<1>3. (x - Modulus) % Modulus = x % Modulus
  BY <1>1, <1>2, ModMinus, Zenon
<1> QED BY <1>1, <1>2, <1>3

LEMMA ModNegative == ASSUME NEW m \in Nat \ {0}, NEW x \in -m .. -1 PROVE x % m = x + m
<1>1. x \in Int /\ x + m \in 0 .. m - 1
  OBVIOUS
<1> QED BY <1>1, ModPlus, ModSmall

LEMMA Multiple ==
    ASSUME NEW g \in Nat \ {0}, NEW x \in Nat, x % g = 0
    PROVE  \E i \in Nat : x = g * i
<1>1. x \div g \in Nat /\ x = g * (x \div g)
  BY DivMod
<1> WITNESS x \div g \in Nat
<1> QED BY <1>1

(* Multiples of a granule lie whole granules apart.                        *)
LEMMA MultiplesApart ==
    ASSUME NEW g \in Nat \ {0}, NEW i \in Nat, NEW j \in Nat, g * i < g * j
    PROVE  g * i + g <= g * j /\ j - i \in Nat /\ g * j - g * i = g * (j - i)
<1>1. i < j
  <2>1. SUFFICES ASSUME j <= i PROVE FALSE
    OBVIOUS
  <2>2. g * j <= g * i
    BY <2>1
  <2> QED BY <2>2
<1>2. g * i + g <= g * j
  BY <1>1
<1>3. j - i \in Nat /\ g * j - g * i = g * (j - i)
  BY <1>1
<1> QED BY <1>2, <1>3

LEMMA Apart ==
    ASSUME NEW x \in Nat, NEW y \in Nat, Whole(x), Whole(y), x < y
    PROVE  x + Granule <= y
<1>1. PICK i \in Nat : x = Granule * i
  BY Multiple, Constants DEF Whole
<1>2. PICK j \in Nat : y = Granule * j
  BY Multiple, Constants DEF Whole
<1> QED BY <1>1, <1>2, MultiplesApart, Constants

LEMMA NextMultiple ==
    ASSUME NEW x \in Nat, Whole(x) PROVE Whole(x + Granule)
<1>1. Granule \in Nat \ {0} /\ x \in Int
  BY Constants
<1>2. (x + Granule) % Granule = x % Granule
  BY ONLY <1>1, ModPlus
<1> QED BY <1>2 DEF Whole

LEMMA GranuleIsWhole == Whole(Granule)
<1>1. 0 + Granule = Granule /\ 0 % Granule = 0
  BY Constants
<1>2. (0 + Granule) % Granule = 0 % Granule
  BY Constants, ModPlus
<1> QED BY <1>1, <1>2 DEF Whole

LEMMA LimitIsWhole == Whole(SearchLimit)
  BY RelayAssumption DEF Whole

LEMMA Difference ==
    ASSUME NEW x \in Nat, NEW y \in Nat, Whole(x), Whole(y), x < y
    PROVE  y - x \in Nat /\ Whole(y - x)
<1>1. PICK i \in Nat : x = Granule * i
  BY Multiple, Constants DEF Whole
<1>2. PICK j \in Nat : y = Granule * j
  BY Multiple, Constants DEF Whole
<1>3. j - i \in Nat /\ y - x = Granule * (j - i)
  BY <1>1, <1>2, MultiplesApart, Constants
<1>4. PICK k \in Int : y - x = Granule * k + 0
  BY <1>3, Constants
<1>5. (Granule * k + 0) % Granule = 0
  BY ModOf, Constants
<1> QED BY <1>4, <1>5 DEF Whole

-----------------------------------------------------------------------------
(* What the search has to do with the distance it has come to: the places  *)
(* nearer than that, and below the target at that distance, are refused.   *)
SearchInv ==
    pc = "search" =>
        /\ relay = 0 /\ Whole(d) /\ d >= Granule
        /\ \A a \in Nearby : a - anchor \in -d + 1 .. d - 1 => a \in refused
        /\ \A a \in Nearby : above /\ a - anchor = -d => a \in refused

CallReaches(e) ==
    e \in -Rel32 .. Rel32 - 1 /\ (target + CallSize + e) % Modulus = relay

ReachInv == pc = "reach" => relay # 0 /\ CallReaches(delta)

DetourInv == prepared => pc = "idle" /\ relay # 0 /\ CallReaches(detour)

IInv == TypeOK /\ NoPageLost /\ SearchInv /\ ReachInv /\ DetourInv

(* The anchor is the start of the target's granule.                        *)
LEMMA AnchorFacts ==
    ASSUME TypeOK
    PROVE  /\ target \in Nat /\ anchor \in 0 .. Top /\ anchor \in Nat /\ Whole(anchor)
           /\ target - anchor \in 0 .. Granule - 1
<1>1. target \in Nat /\ target <= Top /\ Granule \in Nat \ {0}
  BY Constants DEF TypeOK
<1>0. target \div Granule \in Nat /\ target = Granule * (target \div Granule) + (target % Granule)
  BY <1>1, DivMod
<1>2. PICK i \in Int : i \in Nat /\ target = Granule * i + (target % Granule)
  BY <1>0
<1>3. target % Granule \in 0 .. Granule - 1
  BY <1>1, ModRange
<1>4. anchor = Granule * i /\ anchor \in Nat
  BY <1>1, <1>2, <1>3 DEF anchor
<1>5. (Granule * i + 0) % Granule = 0 /\ Granule * i + 0 = anchor
  BY <1>1, <1>2, <1>4, ModOf
<1>6. Whole(anchor)
  BY <1>5 DEF Whole
<1> QED BY <1>1, <1>2, <1>3, <1>4, <1>6, Constants

LEMMA NearbyFacts ==
    ASSUME NEW a \in Nearby
    PROVE  /\ a \in Nat /\ a \in 1 .. Top - Page /\ Whole(a) /\ a # anchor
           /\ a - anchor \in -SearchLimit + 1 .. SearchLimit - 1
  BY Constants DEF Nearby, Whole

(* A page found at a distance below the limit is in the reach of a CALL.   *)
LEMMA CandidateInReach ==
    ASSUME TypeOK, Whole(d), d >= Granule, InSearch, Candidate # 0,
           relay' = Candidate, target' = target
    PROVE  CallReaches(delta)'
<1> DEFINE t5 == target + CallSize
           e == IF above THEN anchor + d - t5 ELSE anchor - d - t5
<1>1. /\ anchor \in 0 .. Top /\ target \in Nat /\ target - anchor \in 0 .. Granule - 1
      /\ d \in Nat /\ above \in BOOLEAN /\ Modulus \in Nat \ {0} /\ CallSize \in Nat
      /\ Granule \in Nat \ {0} /\ SearchLimit \in Nat /\ Rel32 \in Nat /\ 2 * Rel32 <= Modulus
      /\ SearchLimit + CallSize <= Rel32 + 1 /\ Top \in Nat
  BY AnchorFacts, Constants DEF TypeOK, Modulus
<1>2. d + Granule <= SearchLimit
  BY <1>1, Constants, LimitIsWhole, Apart DEF InSearch
<1>3. e \in -Rel32 .. Rel32 - 1
  <2>1. CallSize >= 1 /\ Granule >= 1 /\ d <= SearchLimit - Granule
    BY <1>1, <1>2, Constants
  <2> QED BY <1>1, <2>1
<1>4. /\ Candidate \in 0 .. Top
      /\ Candidate = (t5 + e) % Modulus
      /\ Candidate = t5 + e \/ above
  <2>1. CASE above
    <3>1. t5 + e = anchor + d /\ Candidate = (anchor + d) % Modulus
      BY <1>1, <2>1 DEF Candidate, Modulus
    <3>2. (anchor + d) % Modulus \in 0 .. Modulus - 1
      BY <1>1, ModRange
    <3> QED BY <1>1, <2>1, <3>1, <3>2 DEF Modulus
  <2>2. CASE ~above
    <3>1. t5 + e = anchor - d
      BY <1>1, <2>2
    <3>2. anchor >= d /\ Candidate = anchor - d
      BY <2>2 DEF Candidate
    <3>3. anchor - d \in 0 .. Modulus - 1
      BY <1>1, <3>2 DEF Modulus
    <3>4. (anchor - d) % Modulus = anchor - d
      BY <1>1, <3>3, ModSmall
    <3>5. ~above
      BY <2>2
    <3> QED BY <1>1, <2>2, <3>1, <3>2, <3>3, <3>4 DEF Modulus
  <2> QED BY <1>1, <2>1, <2>2
<1>5. (Candidate - t5) % Modulus = e % Modulus
  <2>1. Candidate = t5 + e \/ Candidate = t5 + e - Modulus
    <3>1. CASE t5 + e \in 0 .. Modulus - 1
      BY <1>1, <1>4, <3>1, ModSmall
    <3>2. CASE t5 + e >= Modulus
      <4>1. above
        BY <1>1, <1>4, <3>2 DEF Modulus
      <4>2. t5 + e = anchor + d
        BY <1>1, <4>1
      <4>3. anchor + d - Modulus \in 0 .. Modulus - 1 /\ anchor \in Int /\ d \in Int
        BY <1>1, <1>2, <3>2, <4>2 DEF Modulus
      <4>4. (anchor + d - Modulus) % Modulus = anchor + d - Modulus
        BY <1>1, <4>3, ModSmall
      <4>5. (anchor + d - Modulus) % Modulus = (anchor + d) % Modulus
        BY <4>3, WordMinus
      <4>6. Candidate = (anchor + d) % Modulus
        BY <4>1 DEF Candidate, Modulus
      <4> QED BY <1>1, <4>2, <4>4, <4>5, <4>6
    <3>3. t5 + e >= 0
      BY <1>1, <1>4
    <3> QED BY <1>1, <1>3, <3>1, <3>2, <3>3
  <2>2. e \in Int /\ t5 \in Int
    BY <1>1
  <2> HIDE DEF e, t5
  <2>3. CASE Candidate = t5 + e
    BY <2>2, <2>3
  <2>4. CASE Candidate = t5 + e - Modulus
    <3>1. Candidate - t5 = e - Modulus
      BY <1>1, <2>2, <2>4
    <3> QED BY <1>1, <2>2, <3>1, ModMinus
  <2> QED BY <2>1, <2>3, <2>4
<1> HIDE DEF e, t5
<1>6. delta' = e
  <2> DEFINE w == (Candidate - t5) % Modulus
  <2>1. delta' = IF 2 * w > Top THEN w - Modulus ELSE w
    BY DEF delta, t5, Modulus
  <2>2. CASE e >= 0
    <3>1. e \in 0 .. Modulus - 1
      BY <1>1, <1>3, <2>2
    <3>2. w = e
      BY <1>1, <1>5, <3>1, ModSmall
    <3> QED BY <1>1, <1>3, <2>1, <3>1, <3>2 DEF Modulus
  <2>3. CASE e < 0
    <3>1. e \in -Modulus .. -1
      BY <1>1, <1>3, <2>3
    <3>2. w = e + Modulus
      BY <1>1, <1>5, <3>1, ModNegative
    <3> QED BY <1>1, <1>3, <2>1, <3>1, <3>2 DEF Modulus
  <2> QED BY <1>3, <2>2, <2>3
<1> QED BY <1>3, <1>4, <1>6 DEF CallReaches, t5, Modulus

(* Allocation: a page taken is in reach, a place refused is recorded.      *)
LEMMA AllocateInvariant == ASSUME IInv, Allocate PROVE IInv'
<1> USE DEF IInv
<1>0. /\ pc = "search" /\ InSearch /\ UNCHANGED <<target, detour, prepared>>
      /\ relay = 0 /\ Whole(d) /\ d >= Granule /\ d \in Nat /\ above \in BOOLEAN
      /\ above' = ~above /\ d' = IF above THEN d + Granule ELSE d
      /\ anchor' = anchor /\ Nearby' = Nearby
      /\ Granule \in Nat \ {0} /\ Top \in Nat /\ Page \in Nat \ {0}
  BY Constants DEF Allocate, Advance, TypeOK, SearchInv, anchor, Nearby
<1>1. /\ anchor \in 0 .. Top /\ anchor \in Nat /\ Whole(anchor)
  BY AnchorFacts
<1>2. Candidate \in 0 .. Top
  <2>1. (anchor + d) % (Top + 1) \in 0 .. (Top + 1) - 1
    BY <1>0, <1>1, ModRange
  <2> QED BY <1>0, <1>1, <2>1 DEF Candidate
<1>3. d' \in 0 .. SearchLimit + Granule /\ above' \in BOOLEAN /\ Whole(d') /\ d' >= Granule
  BY <1>0, NextMultiple, Constants DEF InSearch
<1>4. ~prepared
  BY <1>0 DEF DetourInv
<1>5. ASSUME relay' = Candidate, ours' = ours \cup {Candidate}, pc' = "reach", refused' = refused,
             Candidate # 0
      PROVE  IInv'
  <2>1. CallReaches(delta)'
    BY <1>0, <1>5, CandidateInReach
  <2>2. TypeOK'
    BY <1>0, <1>2, <1>3, <1>5 DEF TypeOK
  <2>3. NoPageLost'
    BY <1>0, <1>5 DEF NoPageLost
  <2> QED BY <1>0, <1>4, <1>5, <2>1, <2>2, <2>3 DEF SearchInv, ReachInv, DetourInv
<1>6. ASSUME UNCHANGED <<relay, ours, pc>>, refused' \in {refused, refused \cup {Candidate}},
             Candidate \in refused' \/ Candidate = 0 \/ Candidate > Top - Page,
             Candidate = 0 => refused' = refused
      PROVE  IInv'
  <2>1. TypeOK'
    BY <1>0, <1>2, <1>3, <1>6 DEF TypeOK
  <2>2. NoPageLost'
    BY <1>0, <1>6 DEF NoPageLost
  <2>3. ASSUME NEW a \in Nearby, a - anchor = IF above THEN d ELSE -d
        PROVE  a \in refused'
    <3>1. a \in 1 .. Top - Page /\ a \in Nat
      BY <1>0, NearbyFacts
    <3>2. Candidate = a
      <4>1. CASE above
        <5>1. anchor + d = a /\ a \in 0 .. (Top + 1) - 1
          BY <1>0, <1>1, <2>3, <3>1, <4>1
        <5> QED BY <1>0, <4>1, <5>1, ModSmall DEF Candidate
      <4>2. CASE ~above
        BY <1>0, <1>1, <2>3, <3>1, <4>2 DEF Candidate
      <4> QED BY <4>1, <4>2
    <3> QED BY <1>0, <1>6, <3>1, <3>2
  <2>4. ASSUME NEW a \in Nearby, above, a - anchor \in -(d + Granule) + 1 .. (d + Granule) - 1
        PROVE  a - anchor \in -d .. d
    <3>1. a \in Nat /\ Whole(a) /\ a # anchor
      BY <1>0, NearbyFacts
    <3>2. CASE a > anchor
      <4>1. a - anchor \in Nat /\ Whole(a - anchor)
        BY <1>0, <1>1, <3>1, <3>2, Difference
      <4>2. ~(d < a - anchor)
        BY <1>0, <2>4, <4>1, Apart
      <4> QED BY <1>0, <1>1, <3>1, <3>2, <4>1, <4>2
    <3>3. CASE a < anchor
      <4>1. anchor - a \in Nat /\ Whole(anchor - a)
        BY <1>0, <1>1, <3>1, <3>3, Difference
      <4>2. ~(d < anchor - a)
        BY <1>0, <1>1, <2>4, <3>1, <4>1, Apart
      <4> QED BY <1>0, <1>1, <3>1, <3>3, <4>1, <4>2
    <3> QED BY <1>1, <3>1, <3>2, <3>3
  <2>5. SearchInv'
    <3>1. \A a \in Nearby : a - anchor \in -d + 1 .. d - 1 => a \in refused'
      BY <1>0, <1>6 DEF SearchInv
    <3>2. \A a \in Nearby : above /\ a - anchor = -d => a \in refused'
      BY <1>0, <1>6 DEF SearchInv
    <3>3. CASE ~above
      BY <1>0, <1>3, <1>6, <2>3, <3>1, <3>3 DEF SearchInv
    <3>4. CASE above
      <4>1. ASSUME NEW a \in Nearby, a - anchor \in -d' + 1 .. d' - 1
            PROVE  a \in refused'
        <5>1. a - anchor \in -d .. d
          BY <1>0, <2>4, <3>4, <4>1
        <5>2. a - anchor = d \/ a - anchor = -d \/ a - anchor \in -d + 1 .. d - 1
          BY <1>0, <5>1
        <5> QED BY <2>3, <3>1, <3>2, <3>4, <5>2
      <4> QED BY <1>0, <1>3, <1>6, <3>4, <4>1 DEF SearchInv
    <3> QED BY <1>0, <3>3, <3>4
  <2> QED BY <1>0, <1>4, <1>6, <2>1, <2>2, <2>5 DEF ReachInv, DetourInv
<1>7. CASE Candidate = 0 \/ Candidate > Top - Page
  BY <1>6, <1>7 DEF Allocate
<1>8. CASE ~(Candidate = 0 \/ Candidate > Top - Page)
  <2>1. \/ relay' = Candidate /\ ours' = ours \cup {Candidate} /\ pc' = "reach" /\ refused' = refused
        \/ refused' = refused \cup {Candidate} /\ UNCHANGED <<relay, ours, pc>>
    BY <1>8 DEF Allocate
  <2> QED BY <1>5, <1>6, <1>8, <2>1
<1> QED BY <1>7, <1>8

LEMMA SpecIInv == Spec => []IInv
<1>1. Init => IInv
  <2> SUFFICES ASSUME Init PROVE IInv
    OBVIOUS
  <2>1. TypeOK
    <3>1. target \in Targets /\ relay \in 0 .. Top /\ d \in 0 .. SearchLimit + Granule
      BY Constants DEF Init
    <3>2. above \in BOOLEAN /\ pc \in {"idle", "search", "reach"} /\ prepared \in BOOLEAN
      BY DEF Init
    <3>3. detour \in (-Rel32 .. Rel32 - 1) \cup {NoDetour}
      BY DEF Init
    <3>4. ours \subseteq 1 .. Top /\ refused \subseteq 1 .. Top
      BY DEF Init
    <3> QED BY <3>1, <3>2, <3>3, <3>4 DEF TypeOK
  <2> QED BY <2>1 DEF Init, IInv, NoPageLost, SearchInv, ReachInv, DetourInv
<1>2. IInv /\ [Next]_vars => IInv'
  <2> SUFFICES ASSUME IInv, [Next]_vars PROVE IInv'
    OBVIOUS
  <2> USE DEF IInv
  <2>1. CASE Prepare
    <3>1. pc = "idle" /\ UNCHANGED <<site, ours>> /\ Granule \in Nat \ {0} /\ SearchLimit \in Nat
      BY <2>1, Constants DEF Prepare
    <3>2. CASE Return(FALSE) /\ UNCHANGED <<d, above, refused>>
      BY <3>1, <3>2 DEF Return, site, TypeOK, NoPageLost, SearchInv, ReachInv, DetourInv
    <3>3. CASE /\ ~has_allocation /\ d' = Granule /\ above' = FALSE /\ refused' = {}
               /\ pc' = "search" /\ UNCHANGED prepared
      <4>1. relay = 0 /\ ~prepared
        BY <3>3 DEF has_allocation, DetourInv
      <4>2. ASSUME NEW a \in Nearby' PROVE ~(a - anchor' \in -Granule + 1 .. Granule - 1)
        <5>1. /\ anchor \in Nat /\ Whole(anchor) /\ anchor' = anchor /\ Nearby' = Nearby
          BY <3>1, AnchorFacts DEF Nearby, anchor, site
        <5>0. a \in Nat /\ Whole(a) /\ a # anchor
          BY <5>1, NearbyFacts
        <5>2. CASE a < anchor
          BY <3>1, <5>0, <5>1, <5>2, Apart
        <5>3. CASE anchor < a
          BY <3>1, <5>0, <5>1, <5>3, Apart
        <5> QED BY <5>0, <5>1, <5>2, <5>3
      <4>3. SearchInv'
        BY <3>1, <3>3, <4>1, <4>2, GranuleIsWhole DEF SearchInv, site
      <4>4. TypeOK'
        <5>1. target' \in Targets /\ relay' \in 0 .. Top /\ d' \in 0 .. SearchLimit + Granule
          BY <3>1, <3>3 DEF TypeOK, site
        <5>2. above' \in BOOLEAN /\ pc' \in {"idle", "search", "reach"} /\ prepared' \in BOOLEAN
          BY <3>3 DEF TypeOK
        <5>3. detour' \in (-Rel32 .. Rel32 - 1) \cup {NoDetour}
          BY <3>1 DEF TypeOK, site
        <5>4. ours' \subseteq 1 .. Top /\ refused' \subseteq 1 .. Top
          BY <3>1, <3>3 DEF TypeOK
        <5> QED BY <5>1, <5>2, <5>3, <5>4 DEF TypeOK
      <4>5. NoPageLost'
        BY <3>1 DEF NoPageLost, site
      <4> QED BY <3>3, <4>1, <4>3, <4>4, <4>5 DEF ReachInv, DetourInv
    <3> QED BY <2>1, <3>2, <3>3 DEF Prepare
  <2>2. CASE Allocate
    BY <2>2, AllocateInvariant
  <2>3. CASE Exhausted
    BY <2>3 DEF Exhausted, Return, site, TypeOK, NoPageLost, SearchInv, ReachInv, DetourInv
  <2>4. CASE Reach
    <3>1. pc = "reach" /\ pc' = "idle" /\ UNCHANGED <<target, relay, d, above, ours, refused>>
      BY <2>4 DEF Reach, Return
    <3>2. relay # 0 /\ CallReaches(delta)
      BY <3>1 DEF ReachInv
    <3>3. \/ prepared' = FALSE /\ detour' = detour
          \/ prepared' = TRUE /\ detour' = delta
      BY <2>4 DEF Reach, Return
    <3>4. TypeOK'
      BY <3>1, <3>2, <3>3 DEF TypeOK, CallReaches
    <3> QED BY <3>1, <3>2, <3>3, <3>4
         DEF NoPageLost, SearchInv, ReachInv, DetourInv, CallReaches
  <2>5. CASE FreeAllocation
    <3>1. PICK done \in BOOLEAN :
              /\ relay' = IF done THEN 0 ELSE relay
              /\ ours' = IF done THEN ours \ {relay} ELSE ours
      BY <2>5 DEF FreeAllocation
    <3>2. /\ pc = "idle" /\ relay # 0 /\ prepared' = FALSE
          /\ UNCHANGED <<target, detour, d, above, refused, pc>>
      BY <2>5 DEF FreeAllocation, has_allocation
    <3>3. TypeOK'
      <4>1. target' \in Targets /\ d' \in 0 .. SearchLimit + Granule /\ refused' \subseteq 1 .. Top
        BY <3>2 DEF TypeOK
      <4>2. above' \in BOOLEAN /\ pc' \in {"idle", "search", "reach"} /\ prepared' \in BOOLEAN
        BY <3>2 DEF TypeOK
      <4>3. detour' \in (-Rel32 .. Rel32 - 1) \cup {NoDetour}
        BY <3>2 DEF TypeOK
      <4>4. relay' \in 0 .. Top /\ ours' \subseteq 1 .. Top
        BY <3>1, Constants DEF TypeOK
      <4> QED BY <4>1, <4>2, <4>3, <4>4 DEF TypeOK
    <3>4. NoPageLost'
      BY <3>1, <3>2 DEF NoPageLost
    <3> QED BY <3>2, <3>3, <3>4 DEF SearchInv, ReachInv, DetourInv
  <2>6. CASE UNCHANGED vars
    BY <2>6 DEF vars, site, TypeOK, NoPageLost, SearchInv, ReachInv, DetourInv, CallReaches,
               delta, Nearby, anchor
  <2> QED BY <2>1, <2>2, <2>3, <2>4, <2>5, <2>6 DEF Next
<1> QED BY <1>1, <1>2, PTL DEF Spec

-----------------------------------------------------------------------------
(* The search's variables keep their types.                                *)
THEOREM SearchTypes == Spec => []TypeOK
<1>1. IInv => TypeOK
  BY DEF IInv
<1> QED BY <1>1, SpecIInv, PTL

(* Every page that Windows has given to the site is the one it knows of.   *)
THEOREM PagesKnown == Spec => []NoPageLost
<1>1. IInv => NoPageLost
  BY DEF IInv
<1> QED BY <1>1, SpecIInv, PTL

(* No page that the search finds is out of a CALL's reach, and the detour  *)
(* of a prepared site calls its relay, wherever the target and the relay   *)
(* lie and whatever wraps.                                                 *)
THEOREM RelayIsReached == Spec => []RelayInReach
<1>1. IInv => DetourReachesRelay
  BY DEF IInv, DetourInv, DetourReachesRelay, has_allocation, CallReaches, Modulus
<1>2. IInv => NeverOutOfReach
  BY DEF IInv, ReachInv, NeverOutOfReach, CallReaches
<1>3. IInv => RelayInReach
  BY <1>1, <1>2 DEF RelayInReach
<1> QED BY <1>3, SpecIInv, PTL

(* A search that ends without a page has tried every place there is.       *)
THEOREM SearchIsComplete == Spec => []ExhaustedMeansNone
<1>1. IInv => ExhaustedMeansNone
  <2> SUFFICES ASSUME IInv, pc = "search", ~InSearch, NEW a \in Nearby PROVE a \in refused
    BY DEF ExhaustedMeansNone
  <2>1. /\ d \in Nat /\ SearchLimit \in Nat /\ d >= SearchLimit /\ anchor \in Nat
        /\ a - anchor \in -SearchLimit + 1 .. SearchLimit - 1
    BY AnchorFacts, NearbyFacts, Constants DEF IInv, TypeOK, InSearch
  <2>2. a - anchor \in -d + 1 .. d - 1
    BY <2>1
  <2> QED BY <2>2 DEF IInv, SearchInv
<1> QED BY <1>1, SpecIInv, PTL

-----------------------------------------------------------------------------
(* The distance the search has still to go, over both sides.               *)
SearchLeft == 2 * (SearchLimit - d) - (IF above THEN Granule ELSE 0)

(* An attempt takes one granule of it.                                     *)
SearchAdvances == Allocate => SearchLeft' = SearchLeft - Granule

(* A search asks Windows for at most 2 * (SearchLimit \div Granule - 1)    *)
(* pages: each attempt takes one granule of the distance, and none is made *)
(* when there is less than that left.                                      *)
THEOREM SearchBounded ==
  Spec => /\ [](pc = "search" /\ InSearch => SearchLeft \in Granule .. 2 * (SearchLimit - Granule))
          /\ [][SearchAdvances]_vars
<1>1. IInv => (pc = "search" /\ InSearch => SearchLeft \in Granule .. 2 * (SearchLimit - Granule))
  <2> SUFFICES ASSUME IInv, pc = "search", InSearch
               PROVE  SearchLeft \in Granule .. 2 * (SearchLimit - Granule)
    OBVIOUS
  <2>1. d \in Nat /\ Whole(d) /\ d >= Granule /\ above \in BOOLEAN
    BY Constants DEF IInv, TypeOK, SearchInv
  <2>2. d + Granule <= SearchLimit
    BY <2>1, Constants, LimitIsWhole, Apart DEF InSearch
  <2>3. QED BY <2>1, <2>2, Constants DEF SearchLeft
<1>2. IInv /\ [Next]_vars => [SearchAdvances]_vars
  <2> SUFFICES ASSUME IInv, Allocate PROVE SearchLeft' = SearchLeft - Granule
    BY DEF SearchAdvances
  <2>1. d \in Nat /\ above \in BOOLEAN
    BY Constants DEF IInv, TypeOK
  <2>2. above' = ~above /\ d' = IF above THEN d + Granule ELSE d
    BY DEF Allocate, Advance
  <2>3. CASE above
    <3>1. ~above' /\ d' = d + Granule
      BY <2>2, <2>3
    <3>2. QED BY <2>1, <2>3, <3>1, Constants DEF SearchLeft
  <2>4. CASE ~above
    <3>1. above' /\ d' = d
      BY <2>2, <2>4
    <3>2. QED BY <2>1, <2>4, <3>1, Constants DEF SearchLeft
  <2>5. QED BY <2>3, <2>4
<1>3. QED BY <1>1, <1>2, SpecIInv, PTL DEF Spec
=============================================================================
