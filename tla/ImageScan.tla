------------------------------ MODULE ImageScan ------------------------------
(***************************************************************************)
(* validate_image of CAP4 (src/src/cap4_patch.cpp) and validate_site_image *)
(* of the refresh spread (src/src/refresh_spread.cpp): is the signature of *)
(* the known build found in the loaded image, once, and at its place?      *)
(*                                                                         *)
(* The two differ in where they look at the image's size before the        *)
(* headers: CAP4 needs room for the first header, and later for the whole  *)
(* generator; the spread needs room for the whole sweep at once.           *)
(*                                                                         *)
(* Addresses are relative to the image.  What the headers say otherwise    *)
(* (magic numbers, machine, SizeOfImage) is one Boolean; the name and the  *)
(* characteristics of a section are another.                               *)
(***************************************************************************)
EXTENDS Integers, Sequences

CONSTANTS
    Images,
    Signature, Place,   \* what to find, and where
    Required,           \* generator_end, or the sweep's end
    DosSize, NtSize, SectionSize, SectionLimit,
    Word                \* 2^64: sizes wrap

(* An image: its size, its headers, where it can be read, and in byte what *)
(* is at every such address, inside the image or beyond it; and whether    *)
(* the spread's validator is asked about it, or CAP4's.                    *)
Section == [text : BOOLEAN, start : Nat, length : Nat]
WellTyped(i) == /\ i.size \in 0 .. Word - 1 /\ i.wellformed \in BOOLEAN
                /\ i.lfanew \in Int /\ i.sections \in Seq(Section)
                /\ i.readable \subseteq Nat /\ i.spread \in BOOLEAN

ASSUME ScanAssumption ==
    /\ \A i \in Images : WellTyped(i)
    /\ Word \in Nat \ {0} /\ Place \in Nat /\ Len(Signature) \in Nat \ {0}
    /\ DosSize \in Nat /\ NtSize \in Nat /\ SectionSize \in Nat
    /\ SectionLimit \in Nat /\ Required \in Nat /\ DosSize <= Required

VARIABLES
    image,
    section, offset,   \* i and j
    matches,
    read,              \* history: the addresses looked at so far
    pc

vars == <<image, section, offset, matches, read, pc>>

TypeOK ==
    /\ WellTyped(image)
    /\ section \in 1 .. Len(image.sections) + 1
    /\ offset \in Nat /\ matches \in 0 .. 2
    /\ read \subseteq Nat
    /\ pc \in {"dos", "nt", "table", "section", "window", "accepted", "refused"}

Init ==
    /\ image \in Images
    /\ section = 1 /\ offset = 0 /\ matches = 0
    /\ read = {} /\ pc = "dos"

Span(a, n) == a .. a + n - 1
Readable(a, n) == Span(a, n) \subseteq image.readable

(* n bytes at a are not all inside the image, by unsigned differences.     *)
BeyondByStart(a, n) == a > image.size                                 \* mutant
Beyond(a, n) == a > image.size \/ n > (image.size - a) % Word

Goto(label) == pc' = label
Refuse == Goto("refused")
Look(a, n) == read' = read \cup Span(a, n)

-----------------------------------------------------------------------------
RoomFirst == IF image.spread THEN Required ELSE DosSize

DosHeader ==
    /\ pc = "dos"
    /\ IF image.size < RoomFirst \/ ~Readable(0, DosSize)
       THEN Refuse /\ UNCHANGED read
       ELSE /\ Look(0, DosSize)
            /\ IF image.lfanew <= 0 THEN Refuse ELSE Goto("nt")
    /\ UNCHANGED <<image, section, offset, matches>>

NtHeaders ==
    /\ pc = "nt"
    /\ LET off == image.lfanew IN
       IF Beyond(off, NtSize) \/ ~Readable(off, NtSize)
       THEN Refuse /\ UNCHANGED read
       ELSE /\ Look(off, NtSize)
            /\ IF \/ ~image.wellformed \/ image.size < Required
                  \/ Len(image.sections) \notin 1 .. SectionLimit
               THEN Refuse ELSE Goto("table")
    /\ UNCHANGED <<image, section, offset, matches>>

SectionTable ==
    /\ pc = "table"
    /\ LET so == image.lfanew + NtSize
           sb == Len(image.sections) * SectionSize
       IN  IF Beyond(so, sb) \/ ~Readable(so, sb)
           THEN Refuse /\ UNCHANGED read
           ELSE Look(so, sb) /\ Goto("section")
    /\ UNCHANGED <<image, section, offset, matches>>

Current == image.sections[section]

(* The windows of a section are offset 0 .. LastWindow.                    *)
LastWindow == (Current.length - Len(Signature)) % Word

TooSmall(s) == s.length < Len(Signature)

(* One section's header; after the last one the verdict.                   *)
NextSection ==
    /\ pc = "section"
    /\ \/ /\ section > Len(image.sections)
          /\ Goto(IF matches = 1 THEN "accepted" ELSE "refused")
          /\ UNCHANGED <<section, offset>>
       \/ /\ section <= Len(image.sections) /\ ~Current.text
          /\ section' = section + 1
          /\ UNCHANGED <<offset, pc>>
       \/ /\ section <= Len(image.sections) /\ Current.text
          /\ offset' = 0
          /\ IF \/ Beyond(Current.start, Current.length) \/ TooSmall(Current)
                \/ ~Readable(Current.start, Current.length)
             THEN Refuse ELSE Goto("window")
          /\ UNCHANGED section
    /\ UNCHANGED <<image, matches, read>>

Occurs(a) == \A k \in 1 .. Len(Signature) : image.byte[a + k - 1] = Signature[k]

(* A second match is refused wherever it is, a first one anywhere else.    *)
FoundAnywhere(a) ==                                                   \* mutant
    /\ matches' = matches + 1
    /\ IF matches' # 1 THEN Refuse ELSE UNCHANGED pc
Found(a) ==
    /\ matches' = matches + 1
    /\ IF matches' # 1 \/ a # Place THEN Refuse ELSE UNCHANGED pc

Window ==
    /\ pc = "window" /\ offset <= LastWindow
    /\ LET a == Current.start + offset IN
       /\ Look(a, Len(Signature))
       /\ IF Occurs(a) THEN Found(a) ELSE UNCHANGED <<matches, pc>>
    /\ offset' = offset + 1
    /\ UNCHANGED <<image, section>>

EndSection ==
    /\ pc = "window" /\ offset > LastWindow
    /\ section' = section + 1
    /\ Goto("section")
    /\ UNCHANGED <<image, offset, matches, read>>

Next == \/ DosHeader \/ NtHeaders \/ SectionTable
        \/ NextSection \/ Window \/ EndSection

Spec == Init /\ [][Next]_vars

-----------------------------------------------------------------------------
(* Nothing is read outside the image, or where readable() has not said     *)
(* that it can be, whatever offsets and lengths the headers hold.          *)
ReadsInside == read \subseteq Span(0, image.size) \cap image.readable

(* The image the code means to accept: headers and code sections lie in    *)
(* it, and of all the places of all its code sections exactly one holds    *)
(* the signature, the one that the descriptor names.                       *)
Within(a, n) == a + n <= image.size /\ Readable(a, n)

CodeSections == {i \in DOMAIN image.sections : image.sections[i].text}

Holds(i, a) ==
    LET s == image.sections[i] IN
    a >= s.start /\ a + Len(Signature) <= s.start + s.length /\ Occurs(a)

IsTheBuild ==
    /\ image.wellformed /\ image.lfanew > 0
    /\ Within(0, DosSize) /\ Within(image.lfanew, NtSize) /\ Required <= image.size
    /\ Len(image.sections) \in 1 .. SectionLimit
    /\ Within(image.lfanew + NtSize, Len(image.sections) * SectionSize)
    /\ \A i \in CodeSections : LET s == image.sections[i] IN
          s.length >= Len(Signature) /\ Within(s.start, s.length)
    /\ \E i \in CodeSections : Holds(i, Place)
    /\ \A i, k \in CodeSections : \A a, b \in Span(0, image.size) :
          Holds(i, a) /\ Holds(k, b) => i = k /\ a = b

(* The verdict is this definition's: no second copy of the code, in the    *)
(* same section or in one that overlaps it, goes unnoticed, and no image   *)
(* of the build is turned away.                                            *)
VerdictIsRight == pc \in {"accepted", "refused"} => (pc = "accepted" <=> IsTheBuild)
=============================================================================
