-------------------------- MODULE MCFormulaMatching --------------------------
(***************************************************************************)
(* Instance of FormulaMatching for TLC: formulas of two and three inputs   *)
(* on short words.  The reference's symbols are 1 to 3, the target's 11    *)
(* to 13; the registers hold what a loop body may leave there.             *)
(***************************************************************************)
EXTENDS FormulaMatching

P == Symbol(1)
Q == Symbol(2)
R == Symbol(3)
X == Symbol(11)
Y == Symbol(12)
Z == Symbol(13)

bvadd(v, w) == BuildOp("add", <<v, w>>)
bvsub(v, w) == BuildOp("sub", <<v, w>>)
bvxor(v, w) == BuildOp("xor", <<v, w>>)
bvxor3(v, w, x) == BuildOp("xor3", <<v, w, x>>)
bvand(v, w) == BuildOp("and", <<v, w>>)
bvor(v, w) == BuildOp("or", <<v, w>>)
bvnot(v) == BuildOp("not", <<v>>)
bvimul(v, w) == BuildOp("imul", <<v, w>>)
bvneg(v) == BuildOp("neg", <<v>>)
bvrol(v, n) == BuildOp("rol", <<v, Concrete(n)>>)

(* Operations that the traces below do not have.                           *)
Op2(op) == BuildOp(op, <<bvadd(P, Concrete(3)), bvnot(Q)>>)
ByOdd(op) == BuildOp(op, <<bvsub(Q, P), bvor(P, Concrete(1))>>)
Count(op) == BuildOp(op, <<Op2("sub"), bvxor(bvand(Q, Concrete(2)), Concrete(1))>>)
Op1(op) == BuildOp(op, <<Op2("sub")>>)
Double(op) == BuildOp(op, <<P, Op2("imul"), Concrete(3)>>)
Wide(op) == BuildOp(op, <<Q, Op2("xor"), bvor(P, Concrete(1))>>)
Half(low) == ExtractOf(Op2("imul"), low, low + 1)
SignExt(v) == [op |-> "signext", args |-> <<v>>, size |-> Width]

Operations ==
  <<Op2("equal"), Op2("noequal"), Op2("greater"), Op2("less"), Op2("bit"), Op2("mul"),
    Op2("mul32_l"), Op2("mul32_h"), Op2("imul32_l"), Op2("imul32_h"), Op2("imul16_l"),
    Op2("imul16_h"), Op2("imul8_l"), Op2("imul8_h"), ByOdd("quo"), ByOdd("rem"),
    Count("shl"), Count("shr"), Count("sar"), Count("ror"), Op1("bitnot"), Op1("bsf"),
    Op1("zeroext"), Double("shld"), Double("shrd"), Wide("and3"), Wide("or3"),
    Wide("div32_quo"), Wide("div32_rem"), Wide("idiv32_quo"), Wide("idiv32_rem"),
    BuildOp("concat", <<Half(3), Half(1)>>), SignExt(Half(2)),
    ExtractOf(BuildOp("concat", <<Half(3), Half(1)>>), 2, 3),
    SignExt(Q), BuildOp("neg", <<Op2("sub")>>)>>

End(registers, cells) == [registers |-> registers, cells |-> cells]
Trace(reference, target) == [reference |-> reference, target |-> target]

MCTraces ==
  { (* The inputs in the other order; a formula twice; one with one input. *)
    Trace(End(<<P, bvsub(bvrol(P, 1), Q), bvneg(P), bvsub(bvrol(P, 1), Q)>>, <<>>),
          End(<<bvsub(bvrol(Y, 1), X), X, X, Y>>, <<bvadd(bvnot(X), Y)>>)),
    (* A sum against the difference of a negation, below different roots.  *)
    Trace(End(<<P, bvxor(bvadd(P, Q), bvand(P, Q)), Q, Q>>, <<>>),
          End(<<X, bvxor(bvsub(X, bvneg(Y)), bvor(X, Y)), X, Y>>, <<>>)),
    (* Alike but for their constants.                                      *)
    Trace(End(<<P, bvxor(bvadd(P, Q), Concrete(2)), Q, Q>>, <<>>),
          End(<<X, bvxor(bvsub(X, bvneg(Y)), Concrete(1)), X, Y>>, <<>>)),
    (* The other order again, where only fuzzing finds it.                 *)
    Trace(End(<<P, bvsub(bvadd(P, P), Q), Q, Q>>, <<>>),
          End(<<X, bvsub(bvimul(Y, Concrete(2)), X), X, Y>>, <<>>)),
    (* Two bits trade places: 0 sets three bits and 1 two, and vice versa. *)
    Trace(End(<<P, bvxor3(P, bvxor(bvimul(bvand(P, Concrete(1)), Concrete(6)),
                                   bvimul(bvand(P, Concrete(2)), Concrete(2))), Q), Q, Q>>, <<>>),
          End(<<X, bvxor(bvxor3(bvimul(bvand(X, Concrete(1)), Concrete(6)),
                                bvimul(bvand(X, Concrete(2)), Concrete(3)),
                                bvrol(bvand(X, Concrete(2)), 3)),
                         bvxor(bvand(X, Concrete(12)), Y)), X, Y>>, <<>>)),
    (* A bit mapping that is none of words.                                *)
    Trace(End(<<P, bvor(P, bvrol(Q, 1)), Q, Q>>, <<bvor(bvrol(P, 1), Q)>>),
          End(<<X, bvnot(bvand(bvnot(X), bvnot(Y))), X, Y>>, <<>>)),
    (* Three inputs.                                                       *)
    Trace(End(<<P, bvsub(bvadd(P, Q), R), Q, R>>, <<>>),
          End(<<X, bvadd(bvneg(X), bvsub(Y, bvneg(Z))), Y, Z>>, <<>>)),
    (* One shape and two functions; constants; another number of inputs.   *)
    Trace(End(<<P, bvadd(bvxor(bvsub(P, Q), bvrol(P, 1)), bvadd(Concrete(5), Concrete(1))), Q, Q>>,
              <<>>),
          End(<<X, bvadd(bvadd(X, Y), Z), X, Y>>,
              <<bvadd(bvxor(bvsub(X, Y), bvrol(Y, 1)), bvsub(Concrete(7), Concrete(1)))>>)),
    (* Two halves of a product that pass for one formula.                  *)
    Trace(End(<<ExtractOf(bvimul(P, Q), 1, 2), ExtractOf(bvimul(P, Q), 3, 4), Q, Q>>, <<>>),
          End(<<X, ExtractOf(bvimul(Y, X), 3, 4), X, Y>>,
              <<bvxor3(X, Y, bvand(X, Y))>>)),
    (* Lists too different in length.                                      *)
    Trace(End(<<bvadd(P, Q), bvsub(P, Q), bvxor(P, Q), bvand(P, Q)>>, <<>>),
          End(<<X, bvadd(X, Y), X, Y>>, <<>>)),
    (* Every other operation, in lists too different in length as well.    *)
    Trace(End(<<P, P, Q, Q>>, [i \in DOMAIN Operations |-> bvsub(Operations[i], P)]),
          End(<<X, X, Y, Y>>, <<bvadd(bvsub(Y, X), Y)>>)) }
=============================================================================
