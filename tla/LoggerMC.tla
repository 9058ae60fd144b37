------------------------------- MODULE LoggerMC -------------------------------
(* Logger on files of up to a few bytes.                                   *)
EXTENDS Logger

(* Files grow without bound only through sizes that cannot be read; the    *)
(* run stops looking once one is this large.                               *)
CONSTANT FileBound
FilesBounded == \A p \in Paths : disk[p] <= FileBound
=============================================================================
