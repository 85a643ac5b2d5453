-------------------------- MODULE MCFunctionTable --------------------------
(* Every file of one to MaxLines lines in a small address space, and a     *)
(* replay with every file of up to TrackedLines routines of two addresses. *)
EXTENDS CallSites

CONSTANTS MaxLines, MaxSize, TrackedLines

FilesUpTo(n) ==
  UNION { [1 .. k -> [start : Address, size : 0 .. MaxSize]] : k \in 1 .. n }

MCFiles   == FilesUpTo(MaxLines)
MCTracked == { f \in FilesUpTo(TrackedLines) : \A i \in DOMAIN f : f[i].size = 1 }
MCNames   == 0 .. MaxLines
=============================================================================
