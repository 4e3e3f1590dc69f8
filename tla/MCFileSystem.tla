--------------------------- MODULE MCFileSystem ---------------------------
(* Threads creating, opening, reading, growing and removing two files on a   *)
(* disk of a few sectors.                                                    *)
EXTENDS FileSystem, TLC

MCFile == 0 .. NumSectors - 1

Symmetry == Permutations(Thread) \cup Permutations(Name)
=============================================================================
