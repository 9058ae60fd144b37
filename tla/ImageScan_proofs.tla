--------------------------- MODULE ImageScan_proofs ---------------------------
(***************************************************************************)
(* Proofs about ImageScan, for every set of images, every signature and    *)
(* every size of the headers.                                              *)
(***************************************************************************)
EXTENDS ImageScan, ReadableWalk, TLAPS

-----------------------------------------------------------------------------
(* What the headers must be for the scan to get as far as it is.           *)
DosFine == Within(0, DosSize) /\ image.lfanew > 0

NtFine == /\ DosFine
          /\ Within(image.lfanew, NtSize) /\ image.wellformed /\ Required <= image.size
          /\ Len(image.sections) \in 1 .. SectionLimit

TableFine == NtFine /\ Within(image.lfanew + NtSize, Len(image.sections) * SectionSize)

SectionFine(i) == LET s == image.sections[i] IN
    s.length >= Len(Signature) /\ Within(s.start, s.length)

StageInv ==
    /\ pc = "nt" => DosFine
    /\ pc = "table" => NtFine
    /\ pc \in {"section", "window", "accepted"} => TableFine
    /\ pc \in {"dos", "nt", "table"} => section = 1 /\ matches = 0
    /\ pc = "window" => section \in CodeSections /\ SectionFine(section)
    /\ pc \in {"section", "window"} =>
          \A i \in CodeSections : i < section => SectionFine(i)

(* The occurrences of the signature that the scan has passed.              *)
Passed(i, a) ==
    /\ i \in CodeSections /\ Holds(i, a)
    /\ \/ i < section
       \/ i = section /\ pc = "window" /\ a < Current.start + offset

(* They are none, or the one that is wanted.                               *)
MatchInv ==
    pc \in {"section", "window"} =>
        /\ matches \in {0, 1}
        /\ matches = 0 => \A i, a \in Nat : ~Passed(i, a)
        /\ matches = 1 => /\ \E i \in Nat : Passed(i, Place)
                          /\ \A i, k, a, b \in Nat : Passed(i, a) /\ Passed(k, b) => i = k /\ a = b

IInv == TypeOK /\ ReadsInside /\ StageInv /\ MatchInv /\ VerdictIsRight

-----------------------------------------------------------------------------
LEMMA Unwrapped == ASSUME NEW w \in Nat, NEW x \in 0 .. w - 1 PROVE x % w = x
  OBVIOUS

(* The unsigned comparisons ask what they mean to.                         *)
LEMMA BeyondIsOutside ==
    ASSUME WellTyped(image), NEW a \in Nat, NEW n \in Nat
    PROVE  Beyond(a, n) <=> a + n > image.size
<1>1. CASE a > image.size
  BY <1>1 DEF Beyond, WellTyped
<1>2. CASE a <= image.size
  <2>1. image.size - a \in 0 .. Word - 1
    BY <1>2, ScanAssumption DEF WellTyped
  <2>2. (image.size - a) % Word = image.size - a
    BY <2>1, ScanAssumption, Unwrapped
  <2> QED BY <1>2, <2>2 DEF Beyond, WellTyped
<1> QED BY <1>1, <1>2 DEF WellTyped

LEMMA LastWindowIsLast ==
    ASSUME WellTyped(image), NEW i \in CodeSections, i = section, SectionFine(i)
    PROVE  LastWindow = Current.length - Len(Signature) /\ LastWindow \in Nat
<1>1. Current \in Section
  BY DEF CodeSections, WellTyped, Current
<1>2. Current.length - Len(Signature) \in 0 .. Word - 1
  <2>1. /\ Current.start \in Nat /\ Current.length \in Nat
        /\ Len(Signature) \in Nat \ {0} /\ Word \in Nat /\ image.size \in 0 .. Word - 1
    BY <1>1, ScanAssumption DEF Section, WellTyped
  <2>2. Current.length >= Len(Signature) /\ Current.start + Current.length <= image.size
    BY DEF SectionFine, Within, Current
  <2> QED BY <2>1, <2>2
<1>3. (Current.length - Len(Signature)) % Word = Current.length - Len(Signature)
  BY <1>2, Unwrapped, ScanAssumption
<1> QED BY <1>2, <1>3 DEF LastWindow

(* A look at what is within the image keeps the reads inside.              *)
LEMMA LookInside ==
    ASSUME ReadsInside, NEW a \in Nat, NEW n \in Nat, Within(a, n), Look(a, n),
           image' = image, image.size \in Nat
    PROVE  ReadsInside' /\ read' \subseteq Nat
  BY DEF ReadsInside, Within, Readable, Look, Span

(* All these predicates are about the image, which does not change.        *)
LEMMA SameImage ==
    ASSUME image' = image
    PROVE  /\ DosFine' <=> DosFine
           /\ NtFine' <=> NtFine
           /\ TableFine' <=> TableFine
           /\ IsTheBuild' <=> IsTheBuild
           /\ CodeSections' = CodeSections
           /\ \A i : SectionFine(i)' <=> SectionFine(i)
           /\ \A i, a : Holds(i, a)' <=> Holds(i, a)
<1>1. /\ DosFine' <=> DosFine
      /\ NtFine' <=> NtFine
      /\ TableFine' <=> TableFine
  BY DEF DosFine, NtFine, TableFine, Within, Readable
<1>2. CodeSections' = CodeSections
  BY DEF CodeSections
<1>3. \A i : SectionFine(i)' <=> SectionFine(i)
  BY DEF SectionFine, Within, Readable
<1>4. \A i, a : Holds(i, a)' <=> Holds(i, a)
  BY DEF Holds, Occurs
<1>5. IsTheBuild' <=> IsTheBuild
  BY <1>2, <1>4 DEF IsTheBuild, Within, Readable
<1> QED BY <1>1, <1>2, <1>3, <1>4, <1>5

(* The build is an image whose headers are fine and that has one match.    *)
LEMMA TheBuildIs ==
    IsTheBuild <=>
        /\ TableFine
        /\ \A i \in CodeSections : SectionFine(i)
        /\ \E i \in CodeSections : Holds(i, Place)
        /\ \A i, k \in CodeSections : \A a, b \in Span(0, image.size) :
              Holds(i, a) /\ Holds(k, b) => i = k /\ a = b
  BY DEF IsTheBuild, TableFine, NtFine, DosFine, SectionFine

(* A match lies in the image.                                              *)
LEMMA MatchInside ==
    ASSUME WellTyped(image), NEW i \in CodeSections, SectionFine(i), NEW a \in Int, Holds(i, a)
    PROVE  a \in Span(0, image.size) /\ a \in Nat
<1>1. image.sections[i] \in Section
  BY DEF CodeSections, WellTyped
<1> QED BY <1>1, ScanAssumption DEF Holds, SectionFine, Within, Span, Section, WellTyped

(* A step that passes nothing and counts nothing.                          *)
LEMMA NothingPassed ==
    ASSUME MatchInv, pc \in {"section", "window"}, matches' = matches,
           \A i, a \in Nat : Passed(i, a)' <=> Passed(i, a)
    PROVE  MatchInv'
<1>1. Place \in Nat
  BY ScanAssumption
<1>2. CASE matches = 0
  BY <1>2 DEF MatchInv
<1>3. CASE matches = 1
  BY <1>1, <1>3 DEF MatchInv
<1> QED BY <1>2, <1>3 DEF MatchInv

-----------------------------------------------------------------------------
LEMMA InitIInv == Init => IInv
<1> SUFFICES ASSUME Init PROVE IInv
  OBVIOUS
<1>1. TypeOK
  BY ScanAssumption DEF Init, TypeOK, WellTyped
<1> QED BY <1>1 DEF Init, IInv, ReadsInside, StageInv, MatchInv, VerdictIsRight

LEMMA DosHeaderInvariant == ASSUME IInv, DosHeader PROVE IInv'
<1> USE DEF IInv
<1>0. UNCHANGED <<image, section, offset, matches>> /\ pc = "dos" /\ WellTyped(image)
  BY DEF DosHeader, TypeOK
<1>1. CASE image.size < RoomFirst \/ ~Readable(0, DosSize)
  <2>1. pc' = "refused" /\ read' = read
    BY <1>1 DEF DosHeader, Refuse, Goto
  <2>2. ~IsTheBuild
    BY <1>0, <1>1, ScanAssumption DEF IsTheBuild, Within, WellTyped, RoomFirst
  <2> QED
    BY <1>0, <2>1, <2>2, SameImage
       DEF TypeOK, ReadsInside, StageInv, MatchInv, VerdictIsRight
<1>2. CASE ~(image.size < RoomFirst \/ ~Readable(0, DosSize))
  <2>1. Look(0, DosSize) /\ pc' = IF image.lfanew <= 0 THEN "refused" ELSE "nt"
    BY <1>2 DEF DosHeader, Refuse, Goto
  <2>2. Within(0, DosSize)
    BY <1>0, <1>2, ScanAssumption DEF Within, WellTyped, RoomFirst
  <2>3. ReadsInside' /\ read' \subseteq Nat
    BY <1>0, <2>1, <2>2, LookInside, ScanAssumption DEF WellTyped
  <2>4. image.lfanew <= 0 => ~IsTheBuild
    BY <1>0 DEF IsTheBuild, WellTyped
  <2>5. image.lfanew > 0 => DosFine
    BY <2>2 DEF DosFine
  <2>6. TypeOK' /\ MatchInv'
    BY <1>0, <2>1, <2>3 DEF TypeOK, MatchInv
  <2>7. StageInv' /\ VerdictIsRight'
    BY <1>0, <2>1, <2>4, <2>5, SameImage DEF StageInv, VerdictIsRight, WellTyped
  <2> QED BY <2>3, <2>6, <2>7
<1> QED BY <1>1, <1>2

LEMMA NtHeadersInvariant == ASSUME IInv, NtHeaders PROVE IInv'
<1> USE DEF IInv
<1>0. /\ UNCHANGED <<image, section, offset, matches>> /\ pc = "nt" /\ WellTyped(image) /\ image.size \in Nat
      /\ DosFine /\ image.lfanew \in Nat /\ NtSize \in Nat
  BY ScanAssumption DEF NtHeaders, TypeOK, StageInv, DosFine, WellTyped
<1>1. CASE Beyond(image.lfanew, NtSize) \/ ~Readable(image.lfanew, NtSize)
  <2>1. pc' = "refused" /\ read' = read
    BY <1>1 DEF NtHeaders, Refuse, Goto
  <2>2. ~Within(image.lfanew, NtSize)
    BY <1>0, <1>1, BeyondIsOutside DEF Within
  <2>3. ~IsTheBuild
    BY <2>2 DEF IsTheBuild
  <2> QED
    BY <1>0, <2>1, <2>3, SameImage
       DEF TypeOK, ReadsInside, StageInv, MatchInv, VerdictIsRight
<1>2. CASE ~(Beyond(image.lfanew, NtSize) \/ ~Readable(image.lfanew, NtSize))
  <2> DEFINE bad == \/ ~image.wellformed \/ image.size < Required
                    \/ Len(image.sections) \notin 1 .. SectionLimit
  <2>1. Look(image.lfanew, NtSize) /\ pc' = IF bad THEN "refused" ELSE "table"
    BY <1>2 DEF NtHeaders, Refuse, Goto
  <2>2. Within(image.lfanew, NtSize)
    BY <1>0, <1>2, BeyondIsOutside DEF Within
  <2>3. ReadsInside' /\ read' \subseteq Nat
    BY <1>0, <2>1, <2>2, LookInside
  <2>4. bad => ~IsTheBuild
    BY <1>0, ScanAssumption DEF IsTheBuild, WellTyped
  <2>5. ~bad => NtFine
    BY <1>0, <2>2, ScanAssumption DEF NtFine, WellTyped
  <2> HIDE DEF bad
  <2>6. TypeOK' /\ MatchInv'
    BY <1>0, <2>1, <2>3 DEF TypeOK, MatchInv
  <2>7. StageInv' /\ VerdictIsRight'
    BY <1>0, <2>1, <2>4, <2>5, SameImage DEF StageInv, VerdictIsRight
  <2> QED BY <2>3, <2>6, <2>7
<1> QED BY <1>1, <1>2

LEMMA SectionTableInvariant == ASSUME IInv, SectionTable PROVE IInv'
<1> USE DEF IInv
<1> DEFINE so == image.lfanew + NtSize
           sb == Len(image.sections) * SectionSize
<1>0. /\ UNCHANGED <<image, section, offset, matches>> /\ pc = "table" /\ WellTyped(image) /\ image.size \in Nat
      /\ NtFine /\ section = 1 /\ matches = 0
  BY ScanAssumption DEF SectionTable, TypeOK, StageInv, WellTyped
<1>a. so \in Nat /\ sb \in Nat
  <2>1. Len(image.sections) \in Nat /\ SectionSize \in Nat
    BY <1>0, ScanAssumption DEF WellTyped
  <2> QED BY <1>0, <2>1, ScanAssumption DEF NtFine, DosFine, WellTyped
<1>b. \A i \in CodeSections : ~(i < 1)
  BY <1>0 DEF CodeSections, WellTyped
<1>1. CASE Beyond(so, sb) \/ ~Readable(so, sb)
  <2>1. pc' = "refused" /\ read' = read
    BY <1>1 DEF SectionTable, Refuse, Goto
  <2>2. ~Within(so, sb)
    <3> HIDE DEF so, sb
    <3> QED BY <1>0, <1>a, <1>1, BeyondIsOutside DEF Within
  <2>3. ~IsTheBuild
    BY <2>2 DEF IsTheBuild
  <2> QED
    BY <1>0, <2>1, <2>3, SameImage
       DEF TypeOK, ReadsInside, StageInv, MatchInv, VerdictIsRight
<1>2. CASE ~(Beyond(so, sb) \/ ~Readable(so, sb))
  <2>1. Look(so, sb) /\ pc' = "section"
    BY <1>2 DEF SectionTable, Goto
  <2>2. Within(so, sb)
    <3> HIDE DEF so, sb
    <3> QED BY <1>0, <1>a, <1>2, BeyondIsOutside DEF Within
  <2>3. TableFine
    BY <1>0, <2>2 DEF TableFine
  <2> HIDE DEF so, sb
  <2>4. ReadsInside' /\ read' \subseteq Nat
    BY <1>0, <1>a, <2>1, <2>2, LookInside
  <2>5. TypeOK' /\ VerdictIsRight'
    BY <1>0, <2>1, <2>4 DEF TypeOK, VerdictIsRight
  <2>6. StageInv'
    BY <1>0, <1>b, <2>1, <2>3, SameImage DEF StageInv
  <2>7. MatchInv'
    BY <1>0, <1>b, <2>1, SameImage DEF MatchInv, Passed
  <2> QED BY <2>4, <2>5, <2>6, <2>7
<1> QED BY <1>1, <1>2

(* Before the scan of a section nothing of it is passed, and at its end    *)
(* all of it.                                                              *)
LEMMA NextSectionInvariant == ASSUME IInv, NextSection PROVE IInv'
<1> USE DEF IInv
<1>0. /\ UNCHANGED <<image, matches, read>> /\ pc = "section" /\ WellTyped(image)
      /\ TableFine /\ section \in 1 .. Len(image.sections) + 1
      /\ Len(image.sections) \in Nat /\ DOMAIN image.sections = 1 .. Len(image.sections)
      /\ CodeSections \subseteq 1 .. Len(image.sections)
  BY DEF NextSection, TypeOK, StageInv, CodeSections, WellTyped
<1>r. ReadsInside'
  BY <1>0 DEF ReadsInside
<1>1. CASE section > Len(image.sections)
  <2>1. /\ pc' = IF matches = 1 THEN "accepted" ELSE "refused"
        /\ UNCHANGED <<section, offset>>
    BY <1>0, <1>1 DEF NextSection, Goto
  <2>2. \A i \in CodeSections : i < section /\ SectionFine(i)
    BY <1>0, <1>1 DEF StageInv
  <2>3. \A i \in CodeSections, a \in Nat : Holds(i, a) <=> Passed(i, a)
    BY <2>2 DEF Passed
  <2>4. ASSUME matches = 1 PROVE IsTheBuild
    <3>1. \E i \in CodeSections : Holds(i, Place)
      BY <2>4, <1>0 DEF MatchInv, Passed
    <3>2. \A i, k \in CodeSections : \A a, b \in Span(0, image.size) :
              Holds(i, a) /\ Holds(k, b) => i = k /\ a = b
      BY <2>4, <2>3, <1>0 DEF MatchInv, Span
    <3> QED BY <1>0, <2>2, <3>1, <3>2, TheBuildIs
  <2>5. ASSUME matches # 1 PROVE ~IsTheBuild
    <3>1. matches = 0
      BY <2>5, <1>0 DEF MatchInv
    <3>2. \A i \in CodeSections : ~Holds(i, Place)
      BY <3>1, <2>3, <1>0, ScanAssumption DEF MatchInv
    <3> QED BY <3>2 DEF IsTheBuild
  <2>6. TypeOK' /\ MatchInv'
    BY <1>0, <2>1 DEF TypeOK, MatchInv
  <2>7. StageInv' /\ VerdictIsRight'
    BY <1>0, <2>1, <2>4, <2>5, SameImage DEF StageInv, VerdictIsRight
  <2> QED BY <1>r, <2>6, <2>7
<1>2. CASE section <= Len(image.sections) /\ ~Current.text
  <2>1. section' = section + 1 /\ UNCHANGED <<offset, pc>>
    BY <1>0, <1>2 DEF NextSection
  <2>2. section \notin CodeSections
    BY <1>2 DEF CodeSections, Current
  <2>3. \A i \in CodeSections : i < section + 1 <=> i < section
    BY <1>0, <2>2
  <2>4. TypeOK' /\ VerdictIsRight'
    BY <1>0, <1>2, <2>1 DEF TypeOK, VerdictIsRight
  <2>5. StageInv'
    BY <1>0, <2>1, <2>3, SameImage DEF StageInv
  <2>6. \A i, a : Passed(i, a)' <=> Passed(i, a)
    BY <1>0, <2>1, <2>3, SameImage DEF Passed
  <2>7. MatchInv'
    BY <1>0, <2>1, <2>6 DEF MatchInv
  <2> QED BY <1>r, <2>4, <2>5, <2>7
<1>3. CASE section <= Len(image.sections) /\ Current.text
  <2> DEFINE bad == \/ Beyond(Current.start, Current.length) \/ TooSmall(Current)
                    \/ ~Readable(Current.start, Current.length)
  <2>1. /\ section' = section /\ offset' = 0
        /\ pc' = IF bad THEN "refused" ELSE "window"
    BY <1>0, <1>3 DEF NextSection, Goto, Refuse
  <2>2. section \in CodeSections /\ Current \in Section /\ image.size \in Nat
    BY <1>0, <1>3, ScanAssumption DEF CodeSections, Current, WellTyped
  <2>3. SectionFine(section) <=> ~bad
    <3>1. Current.start \in Nat /\ Current.length \in Nat /\ Len(Signature) \in Nat
      BY <2>2, ScanAssumption DEF Section
    <3>2. Beyond(Current.start, Current.length) <=> Current.start + Current.length > image.size
      BY <3>1, <1>0, BeyondIsOutside
    <3> QED BY <3>1, <3>2, <2>2 DEF SectionFine, Within, TooSmall, Current
  <2> HIDE DEF bad
  <2>4. bad => ~IsTheBuild
    BY <2>2, <2>3, TheBuildIs
  <2>5. TypeOK'
    BY <1>0, <2>1 DEF TypeOK
  <2>6. StageInv' /\ VerdictIsRight'
    BY <1>0, <2>1, <2>2, <2>3, <2>4, SameImage DEF StageInv, VerdictIsRight
  <2>7. ASSUME NEW a \in Nat, Holds(section, a) PROVE ~(a < Current.start + 0)
    BY <2>2, <2>7 DEF Holds, Current, Section
  <2>8. pc' = "window" => \A i, a \in Nat : Passed(i, a)' <=> Passed(i, a)
    BY <1>0, <2>1, <2>7, SameImage DEF Passed, Current
  <2>9. MatchInv'
    <3>1. CASE pc' = "window"
      BY <1>0, <2>8, <3>1, NothingPassed
    <3>2. CASE pc' # "window"
      BY <2>1, <3>2 DEF MatchInv
    <3> QED BY <3>1, <3>2
  <2> QED BY <1>r, <2>5, <2>6, <2>9
<1> QED BY <1>0, <1>1, <1>2, <1>3

LEMMA WindowInvariant == ASSUME IInv, Window PROVE IInv'
<1> USE DEF IInv
<1> DEFINE here == Current.start + offset
<1>0. /\ UNCHANGED <<image, section>> /\ offset' = offset + 1
      /\ pc = "window" /\ WellTyped(image) /\ offset \in Nat /\ offset <= LastWindow
      /\ TableFine /\ section \in CodeSections /\ SectionFine(section)
      /\ Len(Signature) \in Nat \ {0} /\ image.size \in Nat
  BY ScanAssumption DEF Window, TypeOK, StageInv, WellTyped
<1>1. Current \in Section /\ Current = image.sections[section]
  BY <1>0 DEF CodeSections, Current, WellTyped
<1>2. /\ Current.start \in Nat /\ Current.length \in Nat /\ here \in Nat
      /\ here >= Current.start
      /\ here + Len(Signature) <= Current.start + Current.length
  BY <1>0, <1>1, LastWindowIsLast DEF Section
<1>3. Look(here, Len(Signature)) /\ IF Occurs(here) THEN Found(here) ELSE UNCHANGED <<matches, pc>>
  BY DEF Window
<1>4. Within(here, Len(Signature))
  <2> HIDE DEF here
  <2>1. /\ Current.start + Current.length <= image.size
        /\ Span(Current.start, Current.length) \subseteq image.readable
    BY <1>0, <1>1 DEF SectionFine, Within, Readable
  <2>2. Span(here, Len(Signature)) \subseteq Span(Current.start, Current.length)
    BY <1>0, <1>2 DEF Span
  <2> QED BY <1>0, <1>2, <2>1, <2>2 DEF Within, Readable
<1>5. Holds(section, here) <=> Occurs(here)
  <2> HIDE DEF here
  <2> QED BY <1>1, <1>2 DEF Holds
<1>h. Current' = Current
  BY <1>0 DEF Current
<1>6. ReadsInside' /\ read' \subseteq Nat
  BY <1>0, <1>2, <1>3, <1>4, LookInside
<1>7. ASSUME NEW i \in Nat, NEW a \in Nat, Passed(i, a) PROVE ~(i = section /\ a = here)
  BY <1>0, <1>2, <1>7 DEF Passed
<1> HIDE DEF here
<1>8. \A i, a \in Nat : pc' = "window" =>
        (Passed(i, a)' <=> Passed(i, a) \/ (i = section /\ a = here /\ Occurs(here)))
  <2> SUFFICES ASSUME NEW i \in Nat, NEW a \in Nat, pc' = "window"
               PROVE  Passed(i, a)' <=> Passed(i, a) \/ (i = section /\ a = here /\ Occurs(here))
    OBVIOUS
  <2>1. a < Current.start + (offset + 1) <=> a < Current.start + offset \/ a = here
    BY <1>0, <1>2 DEF here
  <2> QED BY <1>0, <1>5, <1>h, <2>1, SameImage DEF Passed
<1>9. CASE ~Occurs(here)
  <2>1. UNCHANGED <<matches, pc>>
    BY <1>3, <1>9
  <2>2. MatchInv'
    BY <1>0, <1>8, <1>9, <2>1, NothingPassed
  <2>3. TypeOK' /\ VerdictIsRight'
    BY <1>0, <1>6, <2>1 DEF TypeOK, VerdictIsRight
  <2>4. StageInv'
    BY <1>0, <2>1, SameImage DEF StageInv
  <2> QED BY <1>6, <2>2, <2>3, <2>4
<1>10. CASE Occurs(here)
  <2>1. /\ matches' = matches + 1
        /\ IF matches' # 1 \/ here # Place THEN pc' = "refused" ELSE pc' = pc
    BY <1>3, <1>10 DEF Found, Refuse, Goto
  <2>2. matches \in {0, 1}
    BY <1>0 DEF MatchInv
  <2>3. TypeOK'
    BY <1>0, <1>6, <2>1, <2>2 DEF TypeOK
  <2>4. here \in Span(0, image.size)
    BY <1>0, <1>2, <1>5, <1>10, MatchInside
  <2>5. ASSUME matches = 1 PROVE ~IsTheBuild
    <3>1. PICK k \in Nat : Passed(k, Place)
      BY <2>5, <1>0 DEF MatchInv
    <3>2. k \in CodeSections /\ Holds(k, Place) /\ SectionFine(k)
      BY <3>1, <1>0 DEF Passed, StageInv
    <3>3. Place \in Span(0, image.size) /\ Place \in Nat
      BY <3>2, <1>0, MatchInside, ScanAssumption
    <3>4. ~(k = section /\ Place = here)
      BY <3>1, <3>3, <1>7
    <3> QED BY <1>0, <1>5, <1>10, <2>4, <3>2, <3>3, <3>4, TheBuildIs
  <2>6. ASSUME here # Place PROVE ~IsTheBuild
    <3> SUFFICES ASSUME IsTheBuild PROVE FALSE
      OBVIOUS
    <3>1. PICK k \in CodeSections : Holds(k, Place)
      BY TheBuildIs
    <3>2. SectionFine(k)
      BY <3>1, TheBuildIs
    <3>3. Place \in Span(0, image.size)
      BY <3>1, <3>2, <1>0, MatchInside, ScanAssumption
    <3> QED BY <1>0, <1>5, <1>10, <2>4, <2>6, <3>1, <3>3, TheBuildIs
  <2>7. StageInv' /\ VerdictIsRight'
    BY <1>0, <2>1, <2>2, <2>5, <2>6, SameImage DEF StageInv, VerdictIsRight
  <2>8. MatchInv'
    <3> SUFFICES ASSUME pc' = "window" PROVE MatchInv'
      BY <1>0, <2>1 DEF MatchInv
    <3>1. matches = 0 /\ matches' = 1 /\ here = Place
      BY <2>1, <2>2
    <3>2. \A i, a \in Nat : Passed(i, a)' <=> i = section /\ a = here
      BY <1>0, <1>8, <1>10, <3>1 DEF MatchInv
    <3>3. section \in Nat /\ Place \in Nat
      BY <1>0, ScanAssumption DEF TypeOK
    <3> QED BY <3>1, <3>2, <3>3 DEF MatchInv
  <2> QED BY <1>6, <2>3, <2>7, <2>8
<1> QED BY <1>9, <1>10

LEMMA EndSectionInvariant == ASSUME IInv, EndSection PROVE IInv'
<1> USE DEF IInv
<1>0. /\ UNCHANGED <<image, offset, matches, read>> /\ pc = "window" /\ pc' = "section"
      /\ section' = section + 1 /\ WellTyped(image) /\ offset \in Nat /\ offset > LastWindow
      /\ TableFine /\ section \in CodeSections /\ SectionFine(section)
      /\ Len(image.sections) \in Nat /\ CodeSections \subseteq 1 .. Len(image.sections)
  BY DEF EndSection, Goto, TypeOK, StageInv, CodeSections, WellTyped
<1>1. Current \in Section /\ Current = image.sections[section]
  BY <1>0 DEF CodeSections, Current, WellTyped
<1>2. ASSUME NEW a \in Nat, Holds(section, a) PROVE a < Current.start + offset
  BY <1>0, <1>1, <1>2, LastWindowIsLast, ScanAssumption DEF Holds, Section
<1>3. \A i \in CodeSections : i < section + 1 <=> i < section \/ i = section
  BY <1>0
<1>4. \A i, a \in Nat : Passed(i, a)' <=> Passed(i, a)
  BY <1>0, <1>2, <1>3, SameImage DEF Passed
<1>5. TypeOK' /\ ReadsInside' /\ VerdictIsRight'
  BY <1>0 DEF TypeOK, ReadsInside, VerdictIsRight
<1>6. StageInv'
  BY <1>0, <1>3, SameImage DEF StageInv
<1>7. MatchInv'
  BY <1>0, <1>4, NothingPassed
<1> QED BY <1>5, <1>6, <1>7

LEMMA SpecIInv == Spec => []IInv
<1>1. IInv /\ [Next]_vars => IInv'
  <2>1. ASSUME IInv, UNCHANGED vars PROVE IInv'
    <3>1. UNCHANGED <<image, section, offset, matches, read, pc>>
      BY <2>1 DEF vars
    <3>2. \A i, a : Passed(i, a)' <=> Passed(i, a)
      BY <3>1, SameImage DEF Passed, Current
    <3>3. MatchInv'
      BY <2>1, <3>1, <3>2 DEF IInv, MatchInv
    <3>4. TypeOK' /\ ReadsInside' /\ StageInv' /\ VerdictIsRight'
      BY <2>1, <3>1, SameImage DEF IInv, TypeOK, ReadsInside, StageInv, VerdictIsRight
    <3> QED BY <3>3, <3>4 DEF IInv
  <2> QED
    BY <2>1, DosHeaderInvariant, NtHeadersInvariant, SectionTableInvariant,
       NextSectionInvariant, WindowInvariant, EndSectionInvariant DEF Next
<1> QED BY <1>1, InitIInv, PTL DEF Spec

-----------------------------------------------------------------------------
(* The scan's variables keep their types.                                  *)
THEOREM ScanTypes == Spec => []TypeOK
<1>1. IInv => TypeOK
  BY DEF IInv
<1> QED BY <1>1, SpecIInv, PTL

(* Both validators read nothing outside the image, or where readable() has *)
(* not said that it can be read, whatever the headers hold.                *)
THEOREM ScanReadsInside == Spec => []ReadsInside
<1>1. IInv => ReadsInside
  BY DEF IInv
<1> QED BY <1>1, SpecIInv, PTL

(* Both validators accept exactly the images that hold the signature once, *)
(* at its place.                                                           *)
THEOREM ScanVerdict == Spec => []VerdictIsRight
<1>1. IInv => VerdictIsRight
  BY DEF IInv
<1> QED BY <1>1, SpecIInv, PTL

-----------------------------------------------------------------------------
(* readable(), for an address space of any size.                           *)

(* What the walk has passed can be read; what it stands at lies in what it *)
(* was asked for.                                                          *)
WalkInv ==
    /\ WalkTypeOK
    /\ stage = "enter" => p = start
    /\ stage = "walk" =>
          /\ start # 0 /\ start + bytes <= Top
          /\ p \in start .. start + bytes
          /\ Stretch(start, p - start) \subseteq accessible
    /\ stage = "yes" => start # 0 /\ Stretch(start, bytes) \subseteq accessible
    /\ stage = "no" => \/ start = 0 \/ start + bytes > Top \/ failed
                       \/ ~(Stretch(start, bytes) \subseteq accessible)

(* The part of a region that the walk goes over is a part of the region.   *)
LEMMA WalkedPart ==
    ASSUME NEW q \in Nat, NEW from \in Nat, NEW to \in Nat, NEW top \in Nat,
           to <= top, NEW a \in from .. to - 1, a >= q
    PROVE  a \in q .. top - 1
  OBVIOUS

(* One region that Windows names keeps it, whatever the region is.         *)
LEMMA AdvanceKeepsWalkInv ==
    ASSUME WalkInv, stage = "walk", p < start + bytes,
           NEW base \in 0 .. p, NEW size \in 0 .. Top + 1 - base,
           Region(base, size), Advance(base, size),
           UNCHANGED <<accessible, start, bytes>>
    PROVE  WalkInv'
<1>1. /\ start \in Nat /\ bytes \in Nat /\ p \in Nat /\ base \in Nat /\ size \in Nat
      /\ start # 0 /\ start + bytes <= Top /\ p >= start
      /\ \A a \in start .. p - 1 : a \in accessible
      /\ accessible \subseteq 0 .. Top
  BY DEF WalkInv, WalkTypeOK, Addresses, Stretch
<1>2. CASE p \notin accessible
  <2>1. p \in Stretch(start, bytes)
    BY <1>1 DEF Stretch
  <2>2. stage' = "no" /\ UNCHANGED <<p, failed>>
    BY <1>2 DEF Advance
  <2>3. ~(Stretch(start, bytes) \subseteq accessible)'
    BY <1>2, <2>1 DEF Stretch
  <2>4. WalkTypeOK'
    BY <2>2 DEF WalkInv, WalkTypeOK
  <2> QED BY <2>2, <2>3, <2>4 DEF WalkInv
<1>3. CASE p \in accessible /\ (size > Top - base \/ base + size <= p)
  <2>1. stage' = "no" /\ failed' = TRUE /\ UNCHANGED p
    BY <1>3 DEF Advance
  <2>2. WalkTypeOK'
    BY <2>1 DEF WalkInv, WalkTypeOK
  <2> QED BY <2>1, <2>2 DEF WalkInv
<1>4. CASE p \in accessible /\ ~(size > Top - base \/ base + size <= p)
  <2>1. /\ p' = IF start + bytes < base + size THEN start + bytes ELSE base + size
        /\ UNCHANGED <<failed, stage>>
    BY <1>4 DEF Advance, end
  <2>2. p' \in Nat /\ p' > p /\ p' <= start + bytes /\ p' <= base + size
    BY <1>1, <1>4, <2>1
  <2>3. p \in p .. base + size - 1
    BY <1>1, <1>4
  <2>4. \A a \in p .. base + size - 1 : a \in accessible
    <3>1. p + (base + size - p) - 1 = base + size - 1
      BY <1>1
    <3> QED BY <1>4, <2>3, <3>1 DEF Region, Stretch
  <2>5. \A a \in start .. p' - 1 : a \in accessible
    <3> SUFFICES ASSUME NEW a \in start .. p' - 1 PROVE a \in accessible
      OBVIOUS
    <3>1. CASE a < p
      BY <1>1, <2>2, <3>1
    <3>2. CASE a >= p
      <4> DEFINE next == p'  top == base + size
      <4>0. a \in start .. next - 1
        OBVIOUS
      <4>3. p \in Nat /\ start \in Nat /\ next \in Nat /\ next <= top
        BY <1>1, <2>2
      <4>4. top \in Nat
        BY <1>1
      <4> HIDE DEF next, top
      <4>1. a \in p .. top - 1
        BY <3>2, <4>0, <4>3, <4>4, WalkedPart
      <4>2. a \in p .. base + size - 1
        BY <4>1 DEF top
      <4> QED BY <2>4, <4>2
    <3> QED BY <1>1, <2>2, <3>1, <3>2
  <2>6. (Stretch(start, p - start) \subseteq accessible)'
    <3>1. start' = start /\ accessible' = accessible
      OBVIOUS
    <3>2. start + (p' - start) - 1 = p' - 1
      BY <1>1, <2>2
    <3> QED BY <2>5, <3>1, <3>2 DEF Stretch
  <2>7. WalkTypeOK'
    BY TopAssumption, <1>1, <2>1, <2>2 DEF WalkInv, WalkTypeOK, Addresses
  <2> QED BY <1>1, <2>1, <2>2, <2>6, <2>7 DEF WalkInv
<1> QED BY <1>2, <1>3, <1>4

LEMMA WalkInductive == WalkSpec => []WalkInv
<1>1. WalkInit => WalkInv
  BY DEF WalkInit, WalkInv, WalkTypeOK
<1>2. WalkInv /\ [WalkNext]_walkVars => WalkInv'
  <2> SUFFICES ASSUME WalkInv, [WalkNext]_walkVars PROVE WalkInv'
    OBVIOUS
  <2>0. start \in Nat /\ bytes \in Nat /\ p \in Nat
    BY DEF WalkInv, WalkTypeOK, Addresses
  <2>1. CASE Enter
    <3>1. /\ stage' = IF start = 0 \/ bytes > Top - start THEN "no" ELSE "walk"
          /\ stage = "enter" /\ UNCHANGED <<accessible, start, bytes, p, failed>>
      BY <2>1 DEF Enter
    <3>2. WalkTypeOK'
      BY <3>1 DEF WalkInv, WalkTypeOK
    <3>3. CASE start = 0 \/ bytes > Top - start
      BY TopAssumption, <2>0, <3>1, <3>2, <3>3 DEF WalkInv
    <3>4. CASE start # 0 /\ bytes <= Top - start
      <4>1. p = start
        BY <2>1, <3>1 DEF WalkInv
      <4> QED BY TopAssumption, <2>0, <3>1, <3>2, <3>4, <4>1 DEF WalkInv, Stretch
    <3> QED BY TopAssumption, <2>0, <3>3, <3>4
  <2>2. CASE Query
    <3>1. stage = "walk" /\ p < start + bytes /\ UNCHANGED <<accessible, start, bytes>>
      BY <2>2 DEF Query, end
    <3>2. CASE stage' = "no" /\ failed' = TRUE /\ UNCHANGED p
      <4>1. WalkTypeOK'
        BY <3>1, <3>2 DEF WalkInv, WalkTypeOK
      <4> QED BY <3>2, <4>1 DEF WalkInv
    <3>3. CASE \E base \in 0 .. p : \E size \in 0 .. Top + 1 - base :
                  Region(base, size) /\ Advance(base, size)
      BY <3>1, <3>3, AdvanceKeepsWalkInv
    <3> QED BY <2>2, <3>2, <3>3 DEF Query
  <2>3. CASE Leave
    <3>1. stage = "walk" /\ p >= start + bytes /\ stage' = "yes"
          /\ UNCHANGED <<accessible, start, bytes, p, failed>>
      BY <2>3 DEF Leave, end
    <3>2. p = start + bytes
      BY <2>0, <3>1 DEF WalkInv
    <3>3. p - start = bytes
      BY <2>0, <3>2
    <3>4. WalkTypeOK'
      BY <3>1 DEF WalkInv, WalkTypeOK
    <3>5. Stretch(start, bytes) \subseteq accessible /\ start # 0
      BY <3>1, <3>3 DEF WalkInv
    <3> QED BY <3>1, <3>4, <3>5 DEF WalkInv, Stretch
  <2>4. CASE UNCHANGED walkVars
    BY <2>4 DEF walkVars, WalkInv, WalkTypeOK, Stretch
  <2> QED BY <2>1, <2>2, <2>3, <2>4 DEF WalkNext
<1> QED BY <1>1, <1>2, PTL DEF WalkSpec

(* The walk's variables keep their types.                                  *)
THEOREM WalkTypes == WalkSpec => []WalkTypeOK
<1>1. WalkInv => WalkTypeOK
  BY DEF WalkInv
<1> QED BY <1>1, WalkInductive, PTL

(* readable() says yes only if every byte can be read, and no only for a   *)
(* reason, however large the address space is and however Windows cuts it. *)
THEOREM WalkAnswersRight == WalkSpec => []AnswerIsRight
<1>1. WalkInv => AnswerIsRight
  BY DEF WalkInv, AnswerIsRight, YesMeansReadable, NoHasReason
<1> QED BY <1>1, WalkInductive, PTL

-----------------------------------------------------------------------------
USE DEF Goto, Refuse

(* How many steps the scan has still to take at most: a section is gone    *)
(* through window by window, and has fewer of them than the image bytes.   *)
OneSection == image.size + 2
SectionsLeft == Len(image.sections) + 1 - section

ScanLeft ==
    CASE pc \in {"accepted", "refused"} -> 0
      [] pc = "window" -> SectionsLeft * OneSection - offset
      [] pc = "section" -> SectionsLeft * OneSection + 1
      [] pc = "table" -> SectionsLeft * OneSection + 2
      [] pc = "nt" -> SectionsLeft * OneSection + 3
      [] pc = "dos" -> SectionsLeft * OneSection + 4

(* The windows of a section that is gone through lie in the image.         *)
LEMMA WindowsFit ==
    ASSUME IInv, pc = "window"
    PROVE  /\ section \in 1 .. Len(image.sections)
           /\ LastWindow \in Nat /\ LastWindow + 1 <= image.size
<1>0. /\ section \in CodeSections /\ SectionFine(section) /\ WellTyped(image)
      /\ Len(Signature) \in Nat \ {0} /\ image.size \in Nat
  BY ScanAssumption DEF IInv, StageInv, TypeOK, WellTyped
<1>1. section \in 1 .. Len(image.sections) /\ Current \in Section
  BY <1>0 DEF CodeSections, WellTyped, Current
<1>2. /\ Current.start \in Nat /\ Current.length \in Nat
      /\ Current.length >= Len(Signature)
      /\ Current.start + Current.length <= image.size
  BY <1>0, <1>1 DEF SectionFine, Within, Current, Section
<1>3. LastWindow = Current.length - Len(Signature)
  BY <1>0, <1>1, <1>2, LastWindowIsLast
<1>4. QED BY <1>0, <1>1, <1>2, <1>3

(* Past the last window of a section the scan leaves it.                   *)
OffsetInv == pc = "window" => offset <= LastWindow + 1

(* Arithmetic of the bound: one section more, one less, and at least one.  *)
LEMMA OneSectionLess ==
    ASSUME NEW m \in Nat, NEW w \in Nat
    PROVE  (m + 1) * w = m * w + w /\ m * w \in Nat
  OBVIOUS

LEMMA OneLess ==
    ASSUME NEW n \in Nat, NEW k \in Nat, k <= n
    PROVE  /\ n + 1 - (k + 1) \in Nat
           /\ n + 1 - k = (n + 1 - (k + 1)) + 1
  OBVIOUS

LEMMA AtLeastOne ==
    ASSUME NEW m \in Nat, NEW w \in Nat, m >= 1
    PROVE  m * w >= w
<1> DEFINE before == m - 1
           product == before * w
<1>1. before \in Nat /\ before + 1 = m
  OBVIOUS
<1> HIDE DEF before
<1>2. (before + 1) * w = product + w /\ product \in Nat
  BY <1>1, OneSectionLess
<1> HIDE DEF product
<1>3. QED BY <1>1, <1>2

LEMMA SectionCounts ==
    ASSUME TypeOK
    PROVE  /\ image.size \in Nat /\ OneSection \in Nat /\ SectionsLeft \in Nat
           /\ SectionsLeft * OneSection \in Nat /\ section \in Nat
           /\ Len(image.sections) \in Nat
<1>1. image.size \in Nat /\ Len(image.sections) \in Nat /\ section \in 1 .. Len(image.sections) + 1
  BY ScanAssumption DEF TypeOK, WellTyped
<1>2. OneSection \in Nat /\ SectionsLeft \in Nat
  BY <1>1 DEF OneSection, SectionsLeft
<1>3. QED BY <1>1, <1>2, OneSectionLess

LEMMA OffsetStep == IInv /\ OffsetInv /\ [Next]_vars => OffsetInv'
<1> SUFFICES ASSUME IInv, OffsetInv, [Next]_vars PROVE OffsetInv'
  OBVIOUS
<1>1. CASE DosHeader \/ NtHeaders \/ SectionTable
  BY <1>1 DEF DosHeader, NtHeaders, SectionTable, OffsetInv
<1>2. CASE NextSection
  <2> SUFFICES ASSUME pc' = "window" PROVE OffsetInv'
    BY DEF OffsetInv
  <2>1. /\ pc = "section" /\ section <= Len(image.sections) /\ Current.text /\ offset' = 0
        /\ ~Beyond(Current.start, Current.length) /\ ~TooSmall(Current)
        /\ UNCHANGED <<image, section>>
    BY <1>2 DEF NextSection
  <2>2. LastWindow' = LastWindow
    BY <2>1 DEF LastWindow, Current
  <2>3. LastWindow \in Int /\ LastWindow >= 0
    <3>1. Current \in Section
      BY <2>1, SectionCounts DEF IInv, TypeOK, WellTyped, Current
    <3>2. Current.length - Len(Signature) \in Int
      BY <3>1, ScanAssumption DEF Section
    <3>3. QED BY <3>2, ScanAssumption DEF LastWindow
  <2>4. QED BY <2>1, <2>2, <2>3 DEF OffsetInv
<1>3. CASE Window
  <2>1. pc = "window" /\ offset <= LastWindow /\ offset' = offset + 1 /\ UNCHANGED <<image, section>>
    BY <1>3 DEF Window
  <2>2. LastWindow' = LastWindow /\ LastWindow \in Nat /\ offset \in Nat
    BY <2>1, WindowsFit DEF LastWindow, Current, IInv, TypeOK
  <2>3. QED BY <2>1, <2>2 DEF OffsetInv
<1>4. CASE EndSection
  BY <1>4 DEF EndSection, OffsetInv
<1>5. CASE UNCHANGED vars
  BY <1>5 DEF vars, OffsetInv, LastWindow, Current
<1>6. QED BY <1>1, <1>2, <1>3, <1>4, <1>5 DEF Next

(* In a section the offset is less than what is left for the section.      *)
LEMMA OffsetFits ==
    ASSUME IInv, OffsetInv, pc = "window"
    PROVE  /\ section <= Len(image.sections)
           /\ offset \in Nat /\ offset <= image.size
           /\ SectionsLeft * OneSection >= OneSection
<1>1. /\ image.size \in Nat /\ OneSection \in Nat /\ SectionsLeft \in Nat
      /\ section \in Nat /\ Len(image.sections) \in Nat
  BY SectionCounts DEF IInv
<1>2. section \in 1 .. Len(image.sections) /\ LastWindow \in Nat /\ LastWindow + 1 <= image.size
  BY WindowsFit
<1>3. offset \in Nat /\ offset <= LastWindow + 1
  BY DEF OffsetInv, IInv, TypeOK
<1>4. SectionsLeft >= 1
  BY <1>1, <1>2 DEF SectionsLeft
<1>5. QED BY <1>1, <1>2, <1>3, <1>4, AtLeastOne

(* Each step of the scan brings its verdict nearer.                        *)
LEMMA ScanNearer == IInv /\ OffsetInv /\ Next => ScanLeft' < ScanLeft
<1> SUFFICES ASSUME IInv, OffsetInv, Next PROVE ScanLeft' < ScanLeft
  OBVIOUS
<1>0. TypeOK
  BY DEF IInv
<1> DEFINE rest == SectionsLeft * OneSection
<1>1. rest \in Nat /\ OneSection \in Nat /\ SectionsLeft \in Nat
      /\ section \in Nat /\ Len(image.sections) \in Nat /\ image.size \in Nat
  BY <1>0, SectionCounts
<1>2. image' = image
  BY DEF Next, DosHeader, NtHeaders, SectionTable, NextSection, Window, EndSection
<1>3. OneSection' = OneSection
  BY <1>2 DEF OneSection
<1>4. section' = section => rest' = rest
  BY <1>2 DEF SectionsLeft, OneSection
<1>5. section' = section + 1 /\ section <= Len(image.sections) =>
          rest = rest' + OneSection /\ rest' \in Nat
  <2> SUFFICES ASSUME section' = section + 1, section <= Len(image.sections)
               PROVE  rest = rest' + OneSection /\ rest' \in Nat
    OBVIOUS
  <2>1. SectionsLeft' = Len(image.sections) + 1 - (section + 1)
    BY <1>2 DEF SectionsLeft
  <2>2. SectionsLeft = Len(image.sections) + 1 - section
    BY DEF SectionsLeft
  <2>3. SectionsLeft' \in Nat /\ SectionsLeft = SectionsLeft' + 1
    BY <1>1, <2>1, <2>2, OneLess
  <2>4. QED BY <1>1, <1>3, <2>3, OneSectionLess
<1>6. OneSection = image.size + 2
  BY DEF OneSection
<1>7. ScanLeft = CASE pc \in {"accepted", "refused"} -> 0
                   [] pc = "window" -> rest - offset
                   [] pc = "section" -> rest + 1
                   [] pc = "table" -> rest + 2
                   [] pc = "nt" -> rest + 3
                   [] pc = "dos" -> rest + 4
  BY DEF ScanLeft
<1>8. ScanLeft' = CASE pc' \in {"accepted", "refused"} -> 0
                    [] pc' = "window" -> rest' - offset'
                    [] pc' = "section" -> rest' + 1
                    [] pc' = "table" -> rest' + 2
                    [] pc' = "nt" -> rest' + 3
                    [] pc' = "dos" -> rest' + 4
  BY DEF ScanLeft
<1>9. pc = "window" => offset \in Nat /\ offset < OneSection /\ rest >= OneSection
  BY <1>1, <1>6, OffsetFits
<1> HIDE DEF rest
<1>10. CASE DosHeader \/ NtHeaders \/ SectionTable
  <2>1. /\ UNCHANGED section
        /\ \/ pc = "dos" /\ pc' \in {"refused", "nt"}
           \/ pc = "nt" /\ pc' \in {"refused", "table"}
           \/ pc = "table" /\ pc' \in {"refused", "section"}
    BY <1>10 DEF DosHeader, NtHeaders, SectionTable
  <2>2. QED BY <1>1, <1>4, <1>7, <1>8, <2>1
<1>11. CASE NextSection
  <2>1. /\ pc = "section"
        /\ \/ pc' \in {"accepted", "refused"}
           \/ /\ pc' = "section" /\ section <= Len(image.sections) /\ section' = section + 1
           \/ /\ pc' = "window" /\ offset' = 0 /\ UNCHANGED section
    BY <1>11 DEF NextSection
  <2>2. CASE pc' \in {"accepted", "refused"}
    BY <1>1, <1>7, <1>8, <2>1, <2>2
  <2>3. CASE pc' = "section"
    BY <1>1, <1>5, <1>6, <1>7, <1>8, <2>1, <2>3
  <2>4. CASE pc' = "window"
    BY <1>1, <1>4, <1>7, <1>8, <2>1, <2>4
  <2>5. QED BY <2>1, <2>2, <2>3, <2>4
<1>12. CASE Window
  <2>1. /\ pc = "window" /\ pc' \in {"window", "refused"} /\ offset' = offset + 1
        /\ UNCHANGED section
    BY <1>12 DEF Window, Found
  <2>2. QED BY <1>1, <1>4, <1>7, <1>8, <1>9, <2>1
<1>13. CASE EndSection
  <2>1. /\ pc = "window" /\ pc' = "section" /\ section' = section + 1
        /\ section <= Len(image.sections) /\ UNCHANGED offset
    BY <1>13, OffsetFits DEF EndSection
  <2>2. offset <= image.size /\ offset \in Nat
    BY <2>1, OffsetFits
  <2>3. QED BY <1>1, <1>5, <1>6, <1>7, <1>8, <2>1, <2>2
<1>14. QED BY <1>10, <1>11, <1>12, <1>13 DEF Next

ScanAdvances == ScanLeft' < ScanLeft

(* Whatever the headers say, the validators come to a verdict: each step   *)
(* lowers a number that is never below zero and begins at four steps and   *)
(* the sections times the image's size plus two.                           *)
THEOREM ScanBounded == Spec => [](ScanLeft \in Nat) /\ [][ScanAdvances]_vars
<1>1. Init => OffsetInv
  BY DEF Init, OffsetInv
<1>2. Spec => []OffsetInv
  BY <1>1, OffsetStep, SpecIInv, PTL DEF Spec
<1>3. IInv /\ OffsetInv => ScanLeft \in Nat
  <2> SUFFICES ASSUME IInv, OffsetInv PROVE ScanLeft \in Nat
    OBVIOUS
  <2>0. TypeOK
    BY DEF IInv
  <2> DEFINE rest == SectionsLeft * OneSection
  <2>1. rest \in Nat /\ OneSection \in Nat /\ SectionsLeft \in Nat
        /\ section \in Nat /\ Len(image.sections) \in Nat /\ image.size \in Nat
    BY <2>0, SectionCounts
  <2>2. pc = "window" => offset \in Nat /\ offset <= rest
    <3>1. OneSection = image.size + 2
      BY DEF OneSection
    <3>2. QED BY <2>1, <3>1, OffsetFits
  <2>3. pc \in {"dos", "nt", "table", "section", "window", "accepted", "refused"}
    BY <2>0 DEF TypeOK
  <2> HIDE DEF rest
  <2>4. QED BY <2>1, <2>2, <2>3 DEF ScanLeft, rest
<1>4. IInv /\ OffsetInv /\ [Next]_vars => [ScanAdvances]_vars
  BY ScanNearer DEF ScanAdvances
<1>5. QED BY <1>2, <1>3, <1>4, SpecIInv, PTL DEF Spec

-----------------------------------------------------------------------------
(* How many calls of VirtualQuery readable() has still to make at most,    *)
(* and two steps more: the test of its arguments and the return.           *)
WalkLeft ==
    CASE stage = "enter" -> bytes + 2
      [] stage = "walk" -> end - p + 1
      [] stage \in {"yes", "no"} -> 0

WalkAdvances == WalkLeft' < WalkLeft

(* Each step brings the answer nearer.                                     *)
LEMMA WalkNearer == WalkInv /\ WalkNext => WalkLeft' < WalkLeft
<1> SUFFICES ASSUME WalkInv, WalkNext PROVE WalkLeft' < WalkLeft
  OBVIOUS
<1>1. /\ start \in Nat /\ bytes \in Nat /\ p \in Nat
      /\ stage = "enter" => p = start
      /\ stage = "walk" => p <= start + bytes
  BY TopAssumption DEF WalkInv, WalkTypeOK, Addresses
<1>2. UNCHANGED <<start, bytes>>
  BY DEF WalkNext, Enter, Query, Leave
<1>3. CASE Enter
  <2>1. stage = "enter" /\ stage' \in {"no", "walk"} /\ p' = p
    BY <1>3 DEF Enter
  <2>2. QED BY <1>1, <1>2, <2>1 DEF WalkLeft, end
<1>4. CASE Query
  <2>1. stage = "walk" /\ p < start + bytes
    BY <1>4 DEF Query, end
  <2>2. \/ stage' = "no"
        \/ stage' = "walk" /\ p' > p
    <3>1. ASSUME NEW base \in 0 .. p, NEW size \in 0 .. Top + 1 - base, Advance(base, size)
          PROVE  stage' = "no" \/ (stage' = "walk" /\ p' > p)
      BY <1>1, <2>1, <3>1, TopAssumption DEF Advance, end
    <3>2. QED BY <1>4, <3>1 DEF Query
  <2>3. CASE stage' = "no"
    BY <1>1, <2>1, <2>3 DEF WalkLeft, end
  <2>4. CASE stage' = "walk" /\ p' > p
    <3>1. p' \in Nat
      <4>1. ASSUME NEW base \in 0 .. p, NEW size \in 0 .. Top + 1 - base, Advance(base, size)
            PROVE  p' \in Nat
        BY <1>1, <2>1, <4>1, TopAssumption DEF Advance, end
      <4>2. QED BY <1>1, <1>4, <4>1 DEF Query
    <3>2. QED BY <1>1, <1>2, <2>1, <2>4, <3>1 DEF WalkLeft, end
  <2>5. QED BY <2>2, <2>3, <2>4
<1>5. CASE Leave
  <2>1. stage = "walk" /\ stage' = "yes"
    BY <1>5 DEF Leave
  <2>2. QED BY <1>1, <2>1 DEF WalkLeft, end
<1>6. QED BY <1>3, <1>4, <1>5 DEF WalkNext

(* readable() comes to an answer: each step lowers a number that is never  *)
(* below zero and begins at the length asked for and two, so that it makes *)
(* at most one call for each byte however small the regions are.           *)
THEOREM WalkBounded == WalkSpec => [](WalkLeft \in 0 .. bytes + 2) /\ [][WalkAdvances]_walkVars
<1>1. WalkInv => WalkLeft \in 0 .. bytes + 2
  <2> SUFFICES ASSUME WalkInv PROVE WalkLeft \in 0 .. bytes + 2
    OBVIOUS
  <2>1. /\ start \in Nat /\ bytes \in Nat /\ p \in Nat
        /\ stage \in {"enter", "walk", "yes", "no"}
        /\ stage = "walk" => p >= start /\ p <= start + bytes
    BY TopAssumption DEF WalkInv, WalkTypeOK, Addresses
  <2>2. QED BY <2>1 DEF WalkLeft, end
<1>2. WalkInv /\ [WalkNext]_walkVars => [WalkAdvances]_walkVars
  BY WalkNearer DEF WalkAdvances
<1>3. QED BY <1>1, <1>2, WalkInductive, PTL DEF WalkSpec
=============================================================================
