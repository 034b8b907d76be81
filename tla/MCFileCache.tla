---------------------------- MODULE MCFileCache ----------------------------
(* Three processes on one key: a plain one, one told to store binaries only, *)
(* and one told to always compile; with a back end whose binary the second   *)
(* leaves out (metax, thrive, tsingmicro).                                   *)
EXTENDS FileCache

CONSTANTS p1, p2, p3, source, ttir, binaryFile

MCProcs == {p1, p2, p3}
MCOutputs == <<source, ttir, binaryFile>>
MCBinaryOnly == {p2}
MCKept == {}
MCAlwaysCompile == {p3}
=============================================================================
