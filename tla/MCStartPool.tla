----------------------------- MODULE MCStartPool -----------------------------
(***************************************************************************)
(* Instance of StartPool for TLC: how many processes and targets, sizes    *)
(* within and beyond the limits, and what the comparisons find.            *)
(***************************************************************************)
EXTENDS StartPool

(* Files are named r1, r2, t1, t2, ...                                     *)
Start(nr, nt, size, threshold, processes) ==
  [refs |-> [i \in 1 .. nr |-> <<"r", i>>],
   targets |-> [i \in 1 .. nt |-> <<"t", i>>],
   size |-> [f \in ({"r"} \X (1 .. nr)) \cup ({"t"} \X (1 .. nt)) |-> size[f[1]][f[2]]],
   threshold |-> threshold, processes |-> processes]

Even == [r |-> <<5, 5>>, t |-> <<5, 5, 5, 5>>]
Odd  == [r |-> <<20, 5>>, t |-> <<5, 8, 5, 9>>]

MCSettings ==
  { Start(1, n, Even, FALSE, p) : n \in 1 .. 4, p \in 1 .. 2 }
  \cup { Start(1, 4, Even, FALSE, 3), Start(2, 2, Even, FALSE, 2),
         Start(2, 3, Odd, TRUE, 2), Start(2, 2, Odd, FALSE, 3) }

Found(m, l) == [matches |-> m, length |-> l]

(* The first and the third pair of a reference have as many matches, one   *)
(* with long formulas and one with short ones; or all have long ones.      *)
MCFinds ==
  { [p \in (1 .. 2) \X (1 .. 4) |->
       IF p[2] \in {1, 3} THEN Found(1, IF p[2] = 1 THEN 12 ELSE 4)
       ELSE IF p = <<1, 2>> THEN Found(2, 9) ELSE Found(0, 0)],
    [p \in (1 .. 2) \X (1 .. 4) |-> Found(1, 8 + p[2])] }
=============================================================================
