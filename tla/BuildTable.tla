------------------------------ MODULE BuildTable ------------------------------
(***************************************************************************)
(* The known builds of the game (src/src/fix_builds.h), with the layouts   *)
(* of the refresh spread's detour (src/src/refresh_spread.h): addresses    *)
(* relative to the image, and offsets inside the signatures.  Signatures   *)
(* are known here by their size, not their bytes.                          *)
(***************************************************************************)
EXTENDS Integers

(* spread::Layout: how many bytes the detour replaces, and by how much its *)
(* JRCXZ jumps when there is nothing to sweep.                             *)
Layout == [legacy_v157_v159    |-> [span |-> 9, empty_displacement |-> \h16],
           v160_rcx_rbp        |-> [span |-> 8, empty_displacement |-> \h15],
           v161_empty_rcx_rbp  |-> [span |-> 9, empty_displacement |-> \h16]]

SpreadSignature == [legacy_v157_v159   |-> [size |-> 75, patch_offset |-> 27, call_offset |-> 43],
                    v160_rcx_rbp       |-> [size |-> 57, patch_offset |-> 29, call_offset |-> 44],
                    v161_empty_rcx_rbp |-> [size |-> 53, patch_offset |-> 24, call_offset |-> 40]]

Descriptor(patched, begin, end, hooked, from, to, size, write, strategy) ==
    [cap4 |-> patched, generator_begin |-> begin, generator_end |-> end,
     spread |-> hooked, sweep_begin |-> from, sweep_end |-> to,
     cap4_signature_size |-> size, cap4_write_strategy |-> write,
     spread_strategy |-> strategy]

Table160At159 == [                                                    \* mutant
    v1572 |-> Descriptor(\h6CE618, \h6CE3F0, \h6CEE5B, \h3EC647, \h3EC330, \h3EC677,
                         67, "aligned_atomic16", "legacy_v157_v159"),
    v1581 |-> Descriptor(\h6F4CE8, \h6F4AC0, \h6F563C, \h407627, \h407310, \h407657,
                         67, "aligned_atomic16", "legacy_v157_v159"),
    v1591 |-> Descriptor(\h711B54, \h711950, \h712374, \h417BB7, \h4178A0, \h417BE7,
                         70, "aligned_atomic16", "legacy_v157_v159"),
    v1601 |-> Descriptor(\h7A83DF, \h7A8180, \h7A8EBC, \h489D58, \h489970, \h489E00,
                         70, "aligned_atomic16", "v160_rcx_rbp"),
    v1610 |-> Descriptor(\h7CF835, \h7CF5D0, \h7D031C, \h49AF17, \h49AB30, \h49AFC0,
                         70, "quiesced_copy2", "v161_empty_rcx_rbp"),
    v1611 |-> Descriptor(\h7CF9E5, \h7CF780, \h7D04CC, \h49AF17, \h49AB30, \h49AFC0,
                         70, "quiesced_copy2", "v161_empty_rcx_rbp"),
    v1619 |-> Descriptor(\h7CFE05, \h7CFBA0, \h7D08EC, \h49B027, \h49AC40, \h49B0D0,
                         70, "quiesced_copy2", "v161_empty_rcx_rbp")]
Table == [
    v1572 |-> Descriptor(\h6CE618, \h6CE3F0, \h6CEE5B, \h3EC647, \h3EC330, \h3EC677,
                         67, "aligned_atomic16", "legacy_v157_v159"),
    v1581 |-> Descriptor(\h6F4CE8, \h6F4AC0, \h6F563C, \h407627, \h407310, \h407657,
                         67, "aligned_atomic16", "legacy_v157_v159"),
    v1591 |-> Descriptor(\h711B54, \h711950, \h712374, \h417BB7, \h4178A0, \h417BE7,
                         70, "aligned_atomic16", "legacy_v157_v159"),
    v1601 |-> Descriptor(\h7A83DF, \h7A8180, \h7A8EBC, \h489D58, \h489970, \h489E00,
                         70, "quiesced_copy2", "v160_rcx_rbp"),
    v1610 |-> Descriptor(\h7CF835, \h7CF5D0, \h7D031C, \h49AF17, \h49AB30, \h49AFC0,
                         70, "quiesced_copy2", "v161_empty_rcx_rbp"),
    v1611 |-> Descriptor(\h7CF9E5, \h7CF780, \h7D04CC, \h49AF17, \h49AB30, \h49AFC0,
                         70, "quiesced_copy2", "v161_empty_rcx_rbp"),
    v1619 |-> Descriptor(\h7CFE05, \h7CFBA0, \h7D08EC, \h49B027, \h49AC40, \h49B0D0,
                         70, "quiesced_copy2", "v161_empty_rcx_rbp")]

Builds == DOMAIN Table

(* CMF_RELEASE_TARGET: a release knows one build, other plugins all.       *)
ReleaseTargets == {"none"} \cup Builds
supported(target) == IF target = "none" THEN Builds ELSE {target}

Range(begin, end) == begin .. end - 1

(* What cap4::validate_image and cap4::Site::prepare ask of a descriptor.  *)
Cap4SiteFits(b) ==
    /\ b.cap4 >= 19 /\ {b.cap4, b.cap4 + 1} \subseteq Range(b.generator_begin, b.generator_end)
    /\ b.cap4_write_strategy = "quiesced_copy2" \/ b.cap4 % 2 = 0

(* What spread::validate_site_image asks of one before it looks at bytes.  *)
SpreadSiteFits(b) ==
    LET spec == SpreadSignature[b.spread_strategy]
        span == Layout[b.spread_strategy].span
    IN  /\ spec.size <= 256 /\ span <= spec.size /\ spec.patch_offset <= spec.size - span
        /\ b.spread - spec.patch_offset >= b.sweep_begin
        /\ b.spread - spec.patch_offset + spec.size <= b.sweep_end
        /\ Range(b.spread, b.spread + span) \subseteq Range(b.sweep_begin, b.sweep_end)
        /\ spec.call_offset <= spec.size - 4

-----------------------------------------------------------------------------
(* The game's loop around the displacement at call_offset: it begins seven *)
(* bytes before it ("mov rcx,[rbx]", "mov rdx,rbp", the CALL's opcode) and *)
(* ends nine bytes after it ("add rbx,8", "cmp rbx,rdi", "jne").           *)
LoopHead(spec) == spec.call_offset - 7
LoopExit(spec) == spec.call_offset + 4 + 9

(* The detour is a CALL of five bytes, a JRCXZ of two, and NOPs.           *)
SkipsTo(spec, layout) == spec.patch_offset + 7 + layout.empty_displacement
=============================================================================
