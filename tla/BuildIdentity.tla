---------------------------- MODULE BuildIdentity ----------------------------
(***************************************************************************)
(* Which build of the game is this?  process_executable_path and           *)
(* inspect_executable (src/src/build_info.cpp) with identify               *)
(* (src/src/fix_builds.h), one Windows call per step.                      *)
(*                                                                         *)
(* A file is known by the build it is, or "other", and by its length: the  *)
(* digest of all of it tells the build, that of a part tells nothing.      *)
(***************************************************************************)
EXTENDS BuildTable

CONSTANTS
    FirstBuffer, LastBuffer,   \* of the path: 512 and 32768 characters
    PathLengths, FileLengths,
    Chunk                      \* ReadFile's buffer, 1 MiB

ASSUME IdentityAssumption ==
    /\ FirstBuffer \in Nat \ {0} /\ LastBuffer \in Nat /\ Chunk \in Nat \ {0}
    /\ PathLengths \subseteq Nat \ {0} /\ FileLengths \subseteq Nat

VARIABLES
    target,      \* CMF_RELEASE_TARGET
    file,        \* the executable: what it is, how long it is, and its path
    buffer,      \* the size of get_module_filename's buffer
    path,        \* the length of the path found, 0 if none
    held,        \* algorithm, hash, file: what sha256_file has open
    backed,      \* the memory of the hash object exists
    fed,         \* how much of the file has gone into the hash
    sha256,      \* whose digest the identity has
    build,       \* what identify returned
    step         \* of the identification

identityVars == <<target, file, buffer, path, held, backed, fed, sha256, build, step>>

Handles == {"algorithm", "hash", "file"}

IdentityTypeOK ==
    /\ target \in ReleaseTargets
    /\ file \in [is : Builds \cup {"other"}, length : FileLengths, path : PathLengths]
    /\ buffer \in Nat /\ path \in Nat
    /\ held \subseteq Handles /\ backed \in BOOLEAN
    /\ fed \in Nat
    /\ sha256 \in Builds \cup {"other", "unavailable"}
    /\ build \in Builds \cup {"unsupported"}
    /\ step \in {"path", "provider", "lengths", "object", "hash", "open", "buffer",
                 "read", "finish", "text", "catch", "identify", "done"}

IdentityInit ==
    /\ target \in ReleaseTargets
    /\ file \in [is : Builds \cup {"other"}, length : FileLengths, path : PathLengths]
    /\ buffer = FirstBuffer /\ path = 0
    /\ held = {} /\ backed = FALSE /\ fed = 0
    /\ sha256 = "unavailable" /\ build = "unsupported"
    /\ step = "path"

Continue(label) == step' = label

-----------------------------------------------------------------------------
(* GetModuleFileNameW answers with the length, or with the buffer's size   *)
(* when it had to cut the path off.                                        *)
NameLength == IF file.path < buffer THEN file.path ELSE buffer

Fits(length) == length < buffer - 1

ModuleFilename ==
    /\ step = "path"
    /\ \/ path' = 0 /\ Continue("provider") /\ UNCHANGED buffer  \* the call, or memory, fails
       \/ /\ Fits(NameLength)
          /\ path' = NameLength /\ Continue("provider") /\ UNCHANGED buffer
       \/ /\ ~Fits(NameLength) /\ buffer >= LastBuffer
          /\ path' = 0 /\ Continue("provider") /\ UNCHANGED buffer
       \/ /\ ~Fits(NameLength) /\ buffer < LastBuffer
          /\ buffer' = 2 * buffer
          /\ UNCHANGED <<path, step>>
    /\ UNCHANGED <<target, file, held, backed, fed, sha256, build>>

-----------------------------------------------------------------------------
(* sha256_file.  Whatever it leaves by, cleanup closes what is open; the   *)
(* memory of the hash object goes with the function's scope.               *)
CleanupFileOnly == held' = held \ {"file"}                            \* mutant
Cleanup == held' = {}

Fail == Cleanup /\ backed' = FALSE /\ Continue("identify") /\ UNCHANGED <<fed, sha256>>

(* An exception unwinds the scope before the handler cleans up.            *)
Throw == backed' = FALSE /\ Continue("catch") /\ UNCHANGED <<held, fed, sha256>>

OpenProvider ==
    /\ step = "provider"
    /\ \/ Fail
       \/ held' = held \cup {"algorithm"} /\ Continue("lengths") /\ UNCHANGED <<backed, fed, sha256>>

ReadLengths ==
    /\ step = "lengths"
    /\ \/ Fail
       \/ Continue("object") /\ UNCHANGED <<held, backed, fed, sha256>>

AllocateObject ==
    /\ step = "object"
    /\ \/ Throw
       \/ backed' = TRUE /\ Continue("hash") /\ UNCHANGED <<held, fed, sha256>>

CreateHash ==
    /\ step = "hash"
    /\ \/ Fail
       \/ held' = held \cup {"hash"} /\ Continue("open") /\ UNCHANGED <<backed, fed, sha256>>

(* An empty path opens nothing.                                            *)
OpenFile ==
    /\ step = "open"
    /\ \/ Fail
       \/ /\ path # 0
          /\ held' = held \cup {"file"} /\ Continue("buffer") /\ UNCHANGED <<backed, fed, sha256>>

AllocateBuffer ==
    /\ step = "buffer"
    /\ \/ Throw
       \/ Continue("read") /\ UNCHANGED <<held, backed, fed, sha256>>

(* A failed read is not the end of the file.                               *)
ReadFailsAsEnd ==                                                     \* mutant
    Continue("finish") /\ UNCHANGED <<held, backed, fed, sha256>>
ReadFails == Fail

ReadChunk ==
    /\ step = "read"
    /\ \/ ReadFails
       \/ /\ fed = file.length
          /\ Continue("finish") /\ UNCHANGED <<held, backed, fed, sha256>>
       \/ \E n \in 1 .. Chunk :
             /\ n <= file.length - fed
             /\ \/ fed' = fed + n /\ UNCHANGED <<held, backed, sha256, step>>
                \/ Fail

FinishHash ==
    /\ step = "finish"
    /\ \/ Fail
       \/ Continue("text") /\ UNCHANGED <<held, backed, fed, sha256>>

Digest == IF fed = file.length THEN file.is ELSE "other"

MakeText ==
    /\ step = "text"
    /\ \/ Throw
       \/ /\ sha256' = Digest
          /\ Cleanup /\ backed' = FALSE /\ Continue("identify") /\ UNCHANGED fed

Catch == step = "catch" /\ Cleanup /\ Continue("identify") /\ UNCHANGED <<backed, fed, sha256>>

Hash ==
    /\ \/ OpenProvider \/ ReadLengths \/ AllocateObject \/ CreateHash \/ OpenFile
       \/ AllocateBuffer \/ ReadChunk \/ FinishHash \/ MakeText \/ Catch
    /\ UNCHANGED <<target, file, buffer, path, build>>

(* init looks the digest up only if there is one.                          *)
Identify ==
    /\ step = "identify"
    /\ build' = IF sha256 \in supported(target) THEN sha256 ELSE "unsupported"
    /\ Continue("done")
    /\ UNCHANGED <<target, file, buffer, path, held, backed, fed, sha256>>

IdentityNext == ModuleFilename \/ Hash \/ Identify

IdentitySpec == IdentityInit /\ [][IdentityNext]_identityVars

-----------------------------------------------------------------------------
(* No handle stays open, by whichever of its calls the hashing fails and   *)
(* whatever throws.                                                        *)
NothingLeftOpen == step \in {"identify", "done"} => held = {}

(* The hash object lives in memory that is there as long as the hash is    *)
(* open; the handler of an exception is the one place where it is not.     *)
HashHasItsMemory == "hash" \in held /\ step # "catch" => backed

(* The handles of the hashing are opened and closed in order.              *)
HandlesInOrder == NothingLeftOpen /\ HashHasItsMemory

(* There is a digest only of the whole file at the whole path, never of a  *)
(* part that fitted a buffer or was read before an error; what is          *)
(* recognised by it is the file's build, and a release recognises no build *)
(* but its own.                                                            *)
RecognisedIsRunning ==
    /\ path \in {0, file.path}
    /\ sha256 # "unavailable" => fed = file.length
    /\ build # "unsupported" => build = file.is /\ target \in {"none", build}

(* What is recognised can be patched: the validators' bounds admit it; the *)
(* detour ends where the loop begins, so that it is passed once per sweep, *)
(* and skips exactly to the loop's end; and neither patch lies in the      *)
(* range that the other one keeps threads out of.                          *)
RecognisedFits ==
    build # "unsupported" =>
        LET b == Table[build]
            spec == SpreadSignature[b.spread_strategy]
            layout == Layout[b.spread_strategy]
        IN  /\ Cap4SiteFits(b) /\ SpreadSiteFits(b)
            /\ spec.patch_offset + layout.span = LoopHead(spec)
            /\ SkipsTo(spec, layout) = LoopExit(spec)
            /\ b.sweep_end <= b.generator_begin
=============================================================================
