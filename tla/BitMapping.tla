------------------------------ MODULE BitMapping ------------------------------
(***************************************************************************)
(* bitVarmap: which bits of one formula are which of another.  Partial     *)
(* mappings (PartMap) say that some bits map to some others.  A test feeds *)
(* both formulas a matrix of inputs and counts the ones in the rows (one   *)
(* for each input bit) and columns (one for each output bit) of what comes *)
(* out; bits with the same count make a PartMap.  reduce intersects the    *)
(* PartMaps and moves those of one bit to the mapping; when that is not    *)
(* enough two bits are paired and bitVarmap calls itself.                  *)
(*                                                                         *)
(* What the formulas are does not matter here: a test may count anything.  *)
(* FormulaMatching runs these actions with the counts of its formulas.     *)
(***************************************************************************)
EXTENDS Integers, Sequences, FiniteSets, Functions

CONSTANT Sizes   (* how many bits inputs and outputs may have              *)

ASSUME SizesAssumption == Sizes \subseteq Nat

VARIABLES
  frames,    (* the calls of bitVarmap, the innermost last                 *)
  maps       (* the complete mappings bitVarmap has found                  *)

mapVars == <<frames, maps>>

Bits(n) == 0 .. n - 1

(* The members of a finite set of numbers, ascending.                      *)
Ascending(s) == [k \in 1 .. Cardinality(s) |-> CHOOSE x \in s : Cardinality({ y \in s : y <= x }) = k]

-----------------------------------------------------------------------------
(* A PartMap says that some bits of one side map to some of the other.     *)
PartMap(first, second) == [first |-> first, second |-> second]

(* What f maps, and what g maps besides.                                   *)
Merged(f, g) == [b \in DOMAIN f \cup DOMAIN g |-> IF b \in DOMAIN f THEN f[b] ELSE g[b]]

(* The inputs or the outputs in a call: what is not mapped (unmap), what   *)
(* is (map), and, in reduce, what it has mapped (mvar) and where in the    *)
(* list it looks for single bits (at).                                     *)
Side(size, unmap, map) ==
  [size |-> size, unmap |-> unmap, map |-> map, mvar |-> <<>>, at |-> 1]

Balanced(p) == Cardinality(p.first) = Cardinality(p.second)

(* The sizes of the sets alone.                                            *)
CheckConsist_Sizes(m) == \A i \in DOMAIN m : Balanced(m[i])

(* checkConsist                                                            *)
CheckConsist(m) ==
  /\ \A i \in DOMAIN m : Balanced(m[i])
  /\ \A i, j \in DOMAIN m :
       i < j => Cardinality(m[i].first \cap m[j].first)
                  = Cardinality(m[i].second \cap m[j].second)

(* updateUnmap: a PartMap for every count, in the order in which the       *)
(* counts appear on the first side.                                        *)
UpdateUnmap(unmap, vec1, vec2, map) ==
  LET left == DOMAIN vec1 \ DOMAIN map
      heads == Ascending({ i \in left : \A k \in left : vec1[k] = vec1[i] => i <= k })
  IN  unmap \o [k \in DOMAIN heads |->
         PartMap({ i \in left : vec1[i] = vec1[heads[k]] },
                 { i \in DOMAIN vec2 \ Range(map) : vec2[i] = vec1[heads[k]] })]

NotEmpty(m) ==
  LET kept == Ascending({ i \in DOMAIN m : m[i].first # {} })
  IN  [k \in DOMAIN kept |-> m[kept[k]]]

-----------------------------------------------------------------------------
(* The turns of reduce.                                                    *)
Without(m, k) == [i \in 1 .. Len(m) - 1 |-> IF i < k THEN m[i] ELSE m[i + 1]]

(* *s.begin(); in an empty std::set that is the count of its nodes.        *)
SomeOf(s) == IF s = {} THEN 0 ELSE CHOOSE x \in s : \A y \in s : x <= y

StartReduce(s, unmap) ==
  LET m == NotEmpty(unmap) IN [s EXCEPT !.unmap = m, !.at = Len(m) + 1]

Singles(s) == { k \in s.at .. Len(s.unmap) : Cardinality(s.unmap[k].first) = 1 }

(* Without removing the bit from the second sides of the others.           *)
TakeSingle_FirstOnly(s) ==
  LET k == SomeOf(Singles(s))
      a == SomeOf(s.unmap[k].first)
      rest == Without(s.unmap, k)
  IN  [s EXCEPT !.unmap = [i \in DOMAIN rest |-> PartMap(rest[i].first \ {a}, rest[i].second)],
                !.mvar = Merged(@, [x \in {a} |-> SomeOf(s.unmap[k].second)]),
                !.at = k]

(* A PartMap with one bit is moved to the mapping.                         *)
TakeSingle(s) ==
  LET k == SomeOf(Singles(s))
      a == SomeOf(s.unmap[k].first)
      b == SomeOf(s.unmap[k].second)
      rest == Without(s.unmap, k)
  IN  [s EXCEPT !.unmap = [i \in DOMAIN rest |->
                             PartMap(rest[i].first \ {a}, rest[i].second \ {b})],
                !.mvar = Merged(@, [x \in {a} |-> b]),
                !.at = k]

Overlap(m, i, j) ==
  /\ m[i].first \cap m[j].first # {}
  /\ m[i].second \cap m[j].second # {}

Overlaps(m) == \E i, j \in DOMAIN m : i < j /\ Overlap(m, i, j)

(* Without pushing what they have in common.                               *)
Split_NotPushed(m, i, j) ==
  LET one == m[i].first \cap m[j].first
      two == m[i].second \cap m[j].second
  IN  [k \in DOMAIN m |->
         IF k \in {i, j} THEN PartMap(m[k].first \ one, m[k].second \ two) ELSE m[k]]

(* What the two PartMaps have in common becomes one of its own.            *)
Split(m, i, j) ==
  LET one == m[i].first \cap m[j].first
      two == m[i].second \cap m[j].second
  IN  Append([k \in DOMAIN m |->
                IF k \in {i, j} THEN PartMap(m[k].first \ one, m[k].second \ two) ELSE m[k]],
             PartMap(one, two))

(* The loops find the first two that overlap.                              *)
SplitFirst(s) ==
  LET m == s.unmap
      i == SomeOf({ k \in DOMAIN m : \E j \in DOMAIN m : k < j /\ Overlap(m, k, j) })
      j == SomeOf({ k \in DOMAIN m : i < k /\ Overlap(m, i, k) })
  IN  [s EXCEPT !.unmap = NotEmpty(Split(m, i, j)), !.at = 1]

ReduceTurn(s) == IF Singles(s) # {} THEN TakeSingle(s) ELSE SplitFirst(s)

Reduced(s) == Singles(s) = {} /\ ~ Overlaps(s.unmap)

(* The sort by size, which keeps the order of lists this short.            *)
BySize(m) ==
  LET size(i) == Cardinality(m[i].first)
      upTo(i) == { j \in DOMAIN m : size(j) < size(i) \/ (size(j) = size(i) /\ j <= i) }
  IN  [k \in DOMAIN m |-> m[CHOOSE i \in DOMAIN m : Cardinality(upTo(i)) = k]]

(* After reduce: the mapping extended, the rest sorted.                    *)
Extend(s) == Side(s.size, BySize(NotEmpty(s.unmap)), Merged(s.mvar, s.map))

-----------------------------------------------------------------------------
(* A call of bitVarmap; the counts of its test, and, in the loop over the  *)
(* pairings of one bit, the bits that are still to be paired with it.      *)
Frame(in, out) ==
  [stage |-> "entered", in |-> in, out |-> out,
   rows1 |-> <<>>, rows2 |-> <<>>, cols1 |-> <<>>, cols2 |-> <<>>, left |-> {}]

Top == frames[Len(frames)]
Return == SubSeq(frames, 1, Len(frames) - 1)
Replace(f) == Append(Return, f)
AtStage(stage) == frames # <<>> /\ Top.stage = stage

Whole(n) == Side(n, <<PartMap(Bits(n), Bits(n))>>, <<>>)

(* The call by varmapAndoutputCVC, and what it does with the result.       *)
CallMap(n, w) ==
  /\ frames = <<>>
  /\ frames' = << Frame(Whole(n), Whole(w)) >>
  /\ maps' = {}

ForgetMaps ==
  /\ frames = <<>>
  /\ maps' = {}
  /\ UNCHANGED frames

(* That nothing is left to map is tested before, but never so in a call.   *)
Test(rows1, rows2, cols1, cols2) ==
  /\ AtStage("entered")
  /\ frames' = Replace([Top EXCEPT !.stage = "tested", !.rows1 = rows1, !.rows2 = rows2,
                                   !.cols1 = cols1, !.cols2 = cols2])
  /\ UNCHANGED maps

SameSorted(f, g) ==
  \A n \in Range(f) \cup Range(g) :
    Cardinality({ i \in DOMAIN f : f[i] = n }) = Cardinality({ i \in DOMAIN g : g[i] = n })

UpdatedIn(f) == UpdateUnmap(f.in.unmap, f.rows1, f.rows2, f.in.map)
UpdatedOut(f) == UpdateUnmap(f.out.unmap, f.cols1, f.cols2, f.out.map)

Alike(f) ==
  /\ SameSorted(f.rows1, f.rows2) /\ SameSorted(f.cols1, f.cols2)
  /\ CheckConsist(UpdatedIn(f)) /\ CheckConsist(UpdatedOut(f))

Differ ==
  /\ AtStage("tested")
  /\ ~ Alike(Top)
  /\ frames' = Return
  /\ UNCHANGED maps

Refine ==
  /\ AtStage("tested")
  /\ Alike(Top)
  /\ frames' = Replace([Frame(StartReduce(Top.in, UpdatedIn(Top)),
                              StartReduce(Top.out, UpdatedOut(Top)))
                        EXCEPT !.stage = "reducing"])
  /\ UNCHANGED maps

(* The inputs are reduced before the outputs.                              *)
ReduceIn ==
  /\ AtStage("reducing")
  /\ ~ Reduced(Top.in)
  /\ frames' = Replace([Top EXCEPT !.in = ReduceTurn(@)])
  /\ UNCHANGED maps

ReduceOut ==
  /\ AtStage("reducing")
  /\ Reduced(Top.in) /\ ~ Reduced(Top.out)
  /\ frames' = Replace([Top EXCEPT !.out = ReduceTurn(@)])
  /\ UNCHANGED maps

FullMap(mapIn, mapOut) == [input |-> mapIn, output |-> mapOut]

Complete(f) == f.in.unmap = <<>> /\ f.out.unmap = <<>>

(* The list whose first PartMap is split.                                  *)
Divides(f) == IF f.in.unmap # <<>> THEN f.in.unmap ELSE f.out.unmap

EndReduce ==
  /\ AtStage("reducing")
  /\ Reduced(Top.in) /\ Reduced(Top.out)
  /\ LET f == Frame(Extend(Top.in), Extend(Top.out)) IN
     IF Complete(f)
     THEN frames' = Return /\ maps' = maps \cup {FullMap(f.in.map, f.out.map)}
     ELSE /\ frames' = Replace([f EXCEPT !.stage = "looping", !.left = Divides(f)[1].second])
          /\ UNCHANGED maps

(* One pairing of the loop.  The PartMap is pushed to the caller's own     *)
(* list, where those of the pairings before still are.                     *)
Pushed(f, b) ==
  LET pair == PartMap({SomeOf(Divides(f)[1].first)}, {b}) IN
  IF f.in.unmap # <<>>
  THEN [f EXCEPT !.left = @ \ {b}, !.in.unmap = Append(@, pair)]
  ELSE [f EXCEPT !.left = @ \ {b}, !.out.unmap = Append(@, pair)]

Pair ==
  /\ AtStage("looping") /\ Top.left # {}
  /\ LET f == Pushed(Top, SomeOf(Top.left)) IN frames' = Append(Replace(f), Frame(f.in, f.out))
  /\ UNCHANGED maps

Leave ==
  /\ AtStage("looping") /\ Top.left = {}
  /\ frames' = Return
  /\ UNCHANGED maps

-----------------------------------------------------------------------------
MapInit == frames = <<>> /\ maps = {}

(* A test of the formulas, whatever it counts.                             *)
Tested ==
  \E f \in { frames'[k] : k \in DOMAIN frames' } :
    /\ f.rows1 \in [Bits(Top.in.size) -> Nat] /\ f.rows2 \in [Bits(Top.in.size) -> Nat]
    /\ f.cols1 \in [Bits(Top.out.size) -> Nat] /\ f.cols2 \in [Bits(Top.out.size) -> Nat]
    /\ Test(f.rows1, f.rows2, f.cols1, f.cols2)

MapTurn == Differ \/ Refine \/ ReduceIn \/ ReduceOut \/ EndReduce \/ Pair \/ Leave

MapNext ==
  \/ \E n, w \in Sizes : CallMap(n, w)
  \/ ForgetMaps
  \/ Tested
  \/ MapTurn

MapSpec == MapInit /\ [][MapNext]_mapVars

-----------------------------------------------------------------------------
SidesOf(f) == {f.in, f.out}

(* Bits are never mapped twice: through splitting, pairing and reducing,   *)
(* the mappings of every call and of every result stay injective.          *)
MapsInjective ==
  /\ \A k \in DOMAIN frames : \A s \in SidesOf(frames[k]) : IsInjective(Merged(s.mvar, s.map))
  /\ \A m \in maps : IsInjective(m.input) /\ IsInjective(m.output)

(* reduce takes the first bit of each side of a PartMap without looking:   *)
(* as its comments say, the second side is empty when the first is, and    *)
(* has one bit when the first has, however often they have been split.     *)
SizesAgree ==
  \A k \in DOMAIN frames :
    frames[k].stage = "reducing" =>
      \A s \in SidesOf(frames[k]) : \A i \in DOMAIN s.unmap : Balanced(s.unmap[i])

(* No bit is lost on either side: it is mapped or in a PartMap, and what   *)
(* is called a complete mapping is one.                                    *)
NoBitLost ==
  /\ \A k \in DOMAIN frames : \A s \in SidesOf(frames[k]) :
       /\ Bits(s.size) = DOMAIN s.map \cup DOMAIN s.mvar
                           \cup UNION { s.unmap[i].first : i \in DOMAIN s.unmap }
       /\ Bits(s.size) = Range(s.map) \cup Range(s.mvar)
                           \cup UNION { s.unmap[i].second : i \in DOMAIN s.unmap }
  /\ \A m \in maps : Range(m.input) = DOMAIN m.input /\ Range(m.output) = DOMAIN m.output

(* Through all the calls of bitVarmap and the turns of reduce, no bit is   *)
(* mapped twice or lost, on either side, and both sides stay alike in size.*)
MappingsExact == MapsInjective /\ SizesAgree /\ NoBitLost
=============================================================================
