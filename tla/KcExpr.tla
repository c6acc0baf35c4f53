------------------------------ MODULE KcExpr ------------------------------
(***************************************************************************)
(* Dependency expressions of kconfig (expr.c): the rewriting that menu.c   *)
(* applies to them, against their value.  An expression is changed in      *)
(* place through two pointers into the same tree, so the rules that take   *)
(* two pointers are given two paths.                                       *)
(***************************************************************************)
EXTENDS Integers, Sequences, FiniteSetsExt

CONSTANTS KeBools, KeTris,  \* boolean and tristate symbols
          KePairs           \* [op, e, f], with prompt for "below": what is rewritten

VARIABLES ke_pc, ke_in, ke_out

keVars == <<ke_pc, ke_in, ke_out>>

SymE(s) == [t |-> "sym", s |-> s]
NotE(e) == [t |-> "not", l |-> e]
Two(type, e, f) == [t |-> type, l |-> e, r |-> f]
Comp(type, s, c) == [t |-> type, s |-> s, c |-> c]
None == [t |-> "none"]                      \* no expression: NULL
Yes == SymE("y")
No == SymE("n")
IsConst(s) == s \in {"y", "m", "n"}
Leaf(e) == e.t \in {"sym", "eq", "neq"}

-----------------------------------------------------------------------------
(* expr_calc_value: 0, 1, 2 for n, m, y. *)
RECURSIVE Value(_, _)
SymValue(s, env) == CASE s = "y" -> 2 [] s = "m" -> 1 [] s = "n" -> 0 [] OTHER -> env[s]
Value(e, env) ==
    CASE e = None -> 2
      [] e.t = "sym" -> SymValue(e.s, env)
      [] e.t = "eq" -> IF SymValue(e.s, env) = SymValue(e.c, env) THEN 2 ELSE 0
      [] e.t = "neq" -> IF SymValue(e.s, env) = SymValue(e.c, env) THEN 0 ELSE 2
      [] e.t = "not" -> 2 - Value(e.l, env)
      [] e.t = "and" -> Min({Value(e.l, env), Value(e.r, env)})
      [] e.t = "or" -> Max({Value(e.l, env), Value(e.r, env)})

Envs == {env \in [KeBools \cup KeTris -> 0 .. 2] : \A b \in KeBools : env[b] # 1}

(* expr_eliminate_yn. *)
RECURSIVE EliminateYn(_)
EliminateYn(e) ==
    IF e.t \notin {"and", "or"} THEN e
    ELSE LET l == EliminateYn(e.l)
             r == EliminateYn(e.r)
             zero == IF e.t = "and" THEN No ELSE Yes
             one == IF e.t = "and" THEN Yes ELSE No
         IN  CASE l = zero -> zero [] l = one -> r
               [] r = zero -> zero [] r = one -> l
               [] OTHER -> Two(e.t, l, r)

(* expr_transform, from the leaves up: comparisons of booleans with        *)
(* constants, and negations pushed inwards.                                *)
RECURSIVE Transform(_)
TransformComp(e) ==
    IF e.s \notin KeBools \/ ~IsConst(e.c) THEN e
    ELSE CASE e.c = "m" -> IF e.t = "eq" THEN No ELSE Yes
           [] (e.c = "y") = (e.t = "eq") -> SymE(e.s)
           [] OTHER -> NotE(SymE(e.s))
Negated(c) == CASE c = "y" -> No [] c = "m" -> SymE("m") [] c = "n" -> Yes
DeMorganHalf(type) == type                  \* mutant: the operator is not exchanged
DeMorgan(type) == IF type = "or" THEN "and" ELSE "or"
Transform(e) ==
    CASE e.t = "sym" -> e
      [] e.t \in {"eq", "neq"} -> TransformComp(e)
      [] e.t \in {"and", "or"} -> Two(e.t, Transform(e.l), Transform(e.r))
      [] e.t = "not" ->
            LET l == Transform(e.l) IN
            CASE l.t = "not" -> Transform(l.l)
              [] l.t \in {"eq", "neq"} -> Comp(IF l.t = "eq" THEN "neq" ELSE "eq", l.s, l.c)
              [] l.t \in {"and", "or"} ->
                    Transform(Two(DeMorgan(l.t), NotE(l.l), NotE(l.r)))
              [] OTHER -> IF IsConst(l.s) THEN Negated(l.s) ELSE NotE(l)

-----------------------------------------------------------------------------
(* expr_eq and expr_eliminate_eq: what two trees have in common, as        *)
(* operands of the same operator, is replaced by its neutral element.      *)
RECURSIVE EliminateEq1(_, _, _), ExprEq(_, _)
Unit(type) == IF type = "or" THEN No ELSE Yes
EliminateEq1(type, e1, e2) ==
    IF e1.t = type
    THEN LET a == EliminateEq1(type, e1.l, e2)
             b == EliminateEq1(type, e1.r, a[2])
         IN  <<Two(type, a[1], b[1]), b[2]>>
    ELSE IF e2.t = type
    THEN LET a == EliminateEq1(type, e1, e2.l)
             b == EliminateEq1(type, a[1], e2.r)
         IN  <<b[1], Two(type, a[2], b[2])>>
    ELSE IF (e1 = e2 /\ e1 \in {Yes, No}) \/ ~ExprEq(e1, e2) THEN <<e1, e2>>
    ELSE <<Unit(type), Unit(type)>>

EliminateEq(e1, e2) ==
    LET first == IF e1.t \in {"and", "or"} THEN EliminateEq1(e1.t, e1, e2) ELSE <<e1, e2>>
        second(a) == IF a[1].t # a[2].t /\ a[2].t \in {"and", "or"}
                     THEN EliminateEq1(a[2].t, a[1], a[2]) ELSE a
        cleaned(b) == <<EliminateYn(b[1]), EliminateYn(b[2])>>
    IN  cleaned(second(first))

SameSymbol(r) == r[1].t = "sym" /\ r[1] = r[2]
ExprEq(e1, e2) ==
    CASE e1.t # e2.t -> FALSE
      [] Leaf(e1) -> e1 = e2
      [] e1.t = "not" -> ExprEq(e1.l, e2.l)
      [] OTHER -> SameSymbol(EliminateEq(e1, e2))

(* expr_extract_eq: the same on copies; only what is left of the first is  *)
(* looked at.                                                              *)
RECURSIVE ExtractEq(_, _, _)
ExtractEq(type, e1, e2) ==
    IF e1.t = type
    THEN LET a == ExtractEq(type, e1.l, e2)
             b == ExtractEq(type, e1.r, a[2])
         IN  <<Two(type, a[1], b[1]), b[2], a[3] \/ b[3]>>
    ELSE IF e2.t = type
    THEN LET a == ExtractEq(type, e1, e2.l)
             b == ExtractEq(type, a[1], e2.r)
         IN  <<b[1], Two(type, a[2], b[2]), a[3] \/ b[3]>>
    ELSE IF ExprEq(e1, e2) THEN <<Unit(type), Unit(type), TRUE>> ELSE <<e1, e2, FALSE>>
Extracted(type, e1, e2) ==
    LET left(x) == IF x[3] THEN EliminateYn(x[1]) ELSE x[1] IN left(ExtractEq(type, e1, e2))

(* expr_join_or, expr_join_and: one expression for two, or <<>>.  Both     *)
(* compare or name the same symbol.                                        *)
Simple(e) == e.t \in {"sym", "eq", "neq", "not"}
JoinSym1(e) == IF e.t # "not" THEN e.s ELSE IF Leaf(e.l) THEN e.l.s ELSE "none"
JoinSym2(e) == IF e.t # "not" THEN e.s ELSE IF e.l.t = "sym" THEN e.l.s ELSE "none"
Both(e1, e2, t1, t2) == e1.t = t1 /\ e2.t = t2
OneIs(e1, e2, t, c) ==                      \* a symbol, and a comparison t of it with c
    \/ Both(e1, e2, "sym", t) /\ e2.c = c
    \/ Both(e1, e2, t, "sym") /\ e1.c = c

Third(c, d) == CHOOSE x \in {"y", "m", "n"} : x \notin {c, d}
Distinct(e1, e2) == e1.c # e2.c /\ IsConst(e1.c) /\ IsConst(e2.c)

JoinOr(e1, e2) ==
    IF ExprEq(e1, e2) THEN <<e1>>
    ELSE IF ~Simple(e1) \/ ~Simple(e2) THEN <<>>
    ELSE LET s == JoinSym1(e1) IN
         IF s = "none" \/ s # JoinSym2(e2) THEN <<>>
         ELSE CASE s \in KeTris /\ Both(e1, e2, "eq", "eq") /\ Distinct(e1, e2) ->
                        <<Comp("neq", s, Third(e1.c, e2.c))>>
                [] s \in KeBools /\ \/ e1.t = "not" /\ e1.l.t = "sym" /\ e2.t = "sym"
                                    \/ e2.t = "not" /\ e2.l.t = "sym" /\ e1.t = "sym" -> <<Yes>>
                [] OTHER -> <<>>

JoinAnd(e1, e2) ==
    IF ExprEq(e1, e2) THEN <<e1>>
    ELSE IF ~Simple(e1) \/ ~Simple(e2) THEN <<>>
    ELSE LET s == JoinSym1(e1)
             uneq(e, f) == IF e.c # f.c THEN <<Comp("eq", s, e.c)>> ELSE <<No>>
         IN
         IF s = "none" \/ s # JoinSym2(e2) \/ s \notin KeBools \cup KeTris THEN <<>>
         ELSE CASE OneIs(e1, e2, "eq", "y") -> <<Comp("eq", s, "y")>>
                [] OneIs(e1, e2, "neq", "n") -> <<SymE(s)>>
                [] OneIs(e1, e2, "neq", "m") -> <<Comp("eq", s, "y")>>
                [] s \in KeTris /\ Both(e1, e2, "eq", "neq") /\ IsConst(e1.c) /\ IsConst(e2.c) ->
                        uneq(e1, e2)
                [] s \in KeTris /\ Both(e1, e2, "neq", "eq") /\ IsConst(e1.c) /\ IsConst(e2.c) ->
                        uneq(e2, e1)
                [] s \in KeTris /\ Both(e1, e2, "neq", "neq") /\ Distinct(e1, e2) ->
                        <<Comp("eq", s, Third(e1.c, e2.c))>>
                [] OTHER -> <<>>

-----------------------------------------------------------------------------
(* expr_eliminate_dups: a tree and the count of its changes. *)
RECURSIVE At(_, _), Put(_, _, _)
At(e, p) == IF p = <<>> THEN e ELSE At(e[Head(p)], Tail(p))
Put(e, p, x) == IF p = <<>> THEN x ELSE [e EXCEPT ![Head(p)] = Put(e[Head(p)], Tail(p), x)]

Changed(st, p, x) == [tree |-> Put(st.tree, p, x), n |-> st.n + 1]

RECURSIVE Dups1(_, _, _, _), Dups2(_, _, _, _)
Dups1(type, st, p1, p2) ==
    LET e1 == At(st.tree, p1)
        e2 == At(st.tree, p2)
    IN  IF e1.t = type
        THEN Dups1(type, Dups1(type, st, Append(p1, "l"), p2), Append(p1, "r"), p2)
        ELSE IF e2.t = type
        THEN Dups1(type, Dups1(type, st, p1, Append(p2, "l")), p1, Append(p2, "r"))
        ELSE IF p1 = p2 THEN st
        ELSE LET in == IF e1.t \in {"and", "or"} THEN Dups1(e1.t, st, p1, p1) ELSE st
                 joined(f1) == IF type = "or" THEN JoinOr(f1, e2) ELSE JoinAnd(f1, e2)
                 put(tmp) == IF tmp = <<>> THEN in
                             ELSE [Changed(in, p1, Unit(type)) EXCEPT !.tree = Put(@, p2, tmp[1])]
             IN  put(joined(At(in.tree, p1)))

Dups2(type, st, p1, p2) ==
    LET e1 == At(st.tree, p1) IN
    IF e1.t = type
    THEN Dups2(type, Dups2(type, st, Append(p1, "l"), p2), Append(p1, "r"), p2)
    ELSE LET in == IF At(st.tree, p2).t = type
                   THEN Dups2(type, Dups2(type, st, p1, Append(p2, "l")), p1, Append(p2, "r"))
                   ELSE st
             t1 == At(in.tree, p1).t
         IN  IF p1 = p2 \/ t1 \notin {"and", "or"} THEN in
             ELSE LET sub == Dups2(t1, in, p1, p1)
                      f1 == At(sub.tree, p1)
                      left == Extracted(IF t1 = "or" THEN "and" ELSE "or",
                                        Transform(NotE(f1)), At(sub.tree, p2))
                  IN  IF left = (IF t1 = "or" THEN Yes ELSE No)
                      THEN Changed(sub, p1, IF t1 = "or" THEN No ELSE Yes) ELSE sub

RECURSIVE EliminateDups(_)
EliminateDups(e) ==
    IF e.t \notin {"and", "or"} THEN e
    ELSE LET again(st) == IF st.n = 0 THEN st.tree ELSE EliminateDups(EliminateYn(st.tree))
         IN  again(Dups2(e.t, Dups1(e.t, [tree |-> e, n |-> 0], <<>>, <<>>), <<>>, <<>>))

(* expr_trans_bool: for the dependencies of a boolean. *)
RECURSIVE TransBool(_)
TransBool(e) ==
    CASE e.t \in {"and", "or"} -> Two(e.t, TransBool(e.l), TransBool(e.r))
      [] e.t = "not" -> NotE(TransBool(e.l))
      [] e.t = "neq" /\ e.s \in KeTris /\ e.c = "n" -> SymE(e.s)
      [] OTHER -> e

(* expr_trans_compare with n: what menu.c makes of "e != n". *)
RECURSIVE TransCompare(_, _)
TransCompare(e, type) ==
    CASE e = None -> IF type = "neq" THEN NotE(No) ELSE No
      [] e.t \in {"and", "or"} ->
            LET f == Two(IF e.t = "and" THEN "or" ELSE "and",
                         TransCompare(e.l, "eq"), TransCompare(e.r, "eq"))
            IN  IF type = "neq" THEN NotE(f) ELSE f
      [] e.t = "not" -> TransCompare(e.l, IF type = "eq" THEN "neq" ELSE "eq")
      [] e.t \in {"eq", "neq"} -> IF type = "eq" THEN NotE(e) ELSE e
      [] e.t = "sym" -> Comp(type, e.s, "n")

-----------------------------------------------------------------------------
KeOff == ke_pc = "off" /\ ke_in = <<>> /\ ke_out = <<>>
KeInit == ke_in \in KePairs /\ ke_pc = "start" /\ ke_out = <<>>

(* menu_finalize: the dependency f of the parent, if any, is put before    *)
(* that of an entry.                                                       *)
ExprAnd(f, e) == IF f = None THEN e ELSE Two("and", f, e)

Simplify ==
    /\ ke_pc = "start" /\ ke_in.op = "simplify"
    /\ ke_out' = <<EliminateDups(ExprAnd(ke_in.f, Transform(ke_in.e)))>>
    /\ ke_pc' = "done" /\ UNCHANGED ke_in

(* The prompt of what is not a tristate. *)
SimplifyPrompt ==
    /\ ke_pc = "start" /\ ke_in.op = "prompt"
    /\ ke_out' = <<TransBool(EliminateDups(ExprAnd(ke_in.f, Transform(ke_in.e))))>>
    /\ ke_pc' = "done" /\ UNCHANGED ke_in

(* expr_contains_symbol, expr_depends_symbol. *)
RECURSIVE Contains(_, _), Depends(_, _)
Contains(e, s) ==
    CASE e.t \in {"and", "or"} -> Contains(e.l, s) \/ Contains(e.r, s)
      [] e.t = "not" -> Contains(e.l, s)
      [] e.t = "sym" -> e.s = s
      [] OTHER -> s \in {e.s, e.c}
Depends(e, s) ==
    CASE e.t = "and" -> Depends(e.l, s) \/ Depends(e.r, s)
      [] e.t = "sym" -> e.s = s
      [] e.t = "eq" -> e.s = s /\ e.c \in {"y", "m"}
      [] e.t = "neq" -> e.s = s /\ e.c = "n"
      [] OTHER -> FALSE

(* menu_finalize: whether the entry that follows a symbol with prompt      *)
(* dependency e goes below it; f is the dependency of that entry.          *)
Compared(e) == EliminateDups(Transform(TransCompare(e, "neq")))
GoesBelow(sym, e, f) ==
    /\ Contains(f, sym)
    /\ \/ Depends(f, sym)
       \/ EliminateEq(Compared(f), Compared(e))[2] = Yes

Below ==
    /\ ke_pc = "start" /\ ke_in.op = "below"
    /\ ke_out' = <<{s \in KeBools \cup KeTris : GoesBelow(s, IF ke_in.prompt THEN ke_in.e ELSE None, ke_in.f)}>>
    /\ ke_pc' = "placed" /\ UNCHANGED ke_in

(* The menu around the symbol takes back what went below an entry without  *)
(* a prompt.                                                               *)
Lift ==
    /\ ke_pc = "placed"
    /\ ke_out' = IF ke_in.prompt THEN ke_out ELSE <<{}>>
    /\ ke_pc' = "done" /\ UNCHANGED ke_in

KeNext == Simplify \/ SimplifyPrompt \/ Below \/ Lift

-----------------------------------------------------------------------------
RECURSIVE Count(_, _)
Count(e, s) ==
    CASE e.t \in {"and", "or"} -> Count(e.l, s) + Count(e.r, s)
      [] e.t = "not" -> Count(e.l, s)
      [] OTHER -> IF e.s = s THEN 1 ELSE 0
Original(in) == IF in.f = None THEN in.e ELSE Two("and", in.f, in.e)
Repeats(e) == \E s \in KeBools \cup KeTris : Count(e, s) > 1

(* expr_transform and expr_eliminate_dups keep the value of a dependency   *)
(* for every value of the symbols.  Only where it is m and names a symbol  *)
(* more than once it may change: the two rules of expr_eliminate_dups2     *)
(* take "x and not x" for n and "x or not x" for y.                        *)
SimplifyPreserves ==
    ke_pc = "done" /\ ke_in.op = "simplify" =>
        \A env \in Envs :
            LET v == Value(Original(ke_in), env)
            IN  v = Value(ke_out[1], env) \/ (v = 1 /\ Repeats(Original(ke_in)))

(* The prompt of what is not a tristate may change between m and y, which  *)
(* sym_calc_visibility does not tell apart.  It does not come, and it goes *)
(* only where its dependency is m and names a symbol more than once, by    *)
(* the same two rules.                                                     *)
PromptPreserved ==
    ke_pc = "done" /\ ke_in.op = "prompt" =>
        \A env \in Envs :
            LET v == Value(Original(ke_in), env)
            IN  (v = 0 <=> Value(ke_out[1], env) = 0) \/ (v = 1 /\ Repeats(Original(ke_in)))

(* When menu_finalize is through, an entry stands below a symbol only if   *)
(* it cannot be visible while that symbol is n and its prompt is           *)
(* invisible.  (Below a symbol without a prompt it may be put whatever it  *)
(* says, and is taken back.)                                               *)
BelowImplies ==
    ke_pc = "done" /\ ke_in.op = "below" =>
        \A s \in ke_out[1] : \A env \in Envs :
            Value(ke_in.f, env) # 0 => env[s] # 0 \/ Value(ke_in.e, env) # 0
=============================================================================
