--------------------------------- MODULE Emit ---------------------------------
(***************************************************************************)
(* The code of a function as the evaluator reads it                       *)
(* (lib/Lvm/Write.hs, emit and emitMatch): alternatives and scrutinees    *)
(* are laid out one after the other and referred to by offsets.           *)
(*                                                                         *)
(* An instruction with its operands is one element of the sequence.  The  *)
(* offset of a PUSHCONT counts the instructions to skip, the offset of an *)
(* alternative is counted from the match itself; 0 says that there is no  *)
(* such alternative.                                                      *)
(***************************************************************************)
EXTENDS Rewrite

RECURSIVE emits(_)

emitMatch(i) ==
  LET codes    == [j \in DOMAIN i[2] |-> emits(i[2][j][2])]
      start(j) == FoldLeft(LAMBDA n, c : n + Len(c), 1, SubSeq(codes, 1, j - 1))
      ofs(j)   == IF codes[j] = <<>> THEN 0 ELSE start(j)
      pat(j)   == i[2][j][1]
      entry(j) == <<IF pat(j)[1] = "PatTag" THEN Tail(pat(j)) ELSE <<pat(j)[2]>>, ofs(j)>>
  IN <<<<i[1], ofs(1), [j \in 1 .. Len(codes) - 1 |-> entry(j + 1)]>>>> \o FlattenSeq(codes)

emit(i) ==
  CASE i[1] \in {"MATCH", "MATCHCON", "MATCHINT"} -> emitMatch(i)
    [] i[1] = "EVAL" -> LET scrut == emits(i[2])
                        IN <<<<"PUSHCONT", Len(scrut)>>>> \o scrut
    [] OTHER -> <<i>>

emits(is) == FlattenSeq([j \in DOMAIN is |-> emit(is[j])])

\* The compiled program, and the same with one round of rewriting and without
\* the short instructions: what the later passes are compared with.
codegen == [f \in DOMAIN Tops |-> emits(instrRewrite(instrResolve(cgTop(Tops[f])).is))]

plain == [f \in DOMAIN Tops |->
            emits(dummies(rewrites(instrResolve(cgTop(Tops[f])).is)))]
=============================================================================
