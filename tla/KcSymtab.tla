----------------------------- MODULE KcSymtab -----------------------------
(***************************************************************************)
(* The symbol table of kconfig (symbol.c, confdata.c): values that are     *)
(* calculated on demand and kept until the next change, and the files that *)
(* they are written to and read from.                                      *)
(*                                                                         *)
(* A program stands for a parsed Kconfig file:                             *)
(*   syms      the named symbols and the choice, in the order of the menu  *)
(*   hash      the same in the order of the symbol table                   *)
(*   type      "bool", "tri" or "int" of each                              *)
(*   prompts   the dependencies of its prompts                             *)
(*   defaults  its defaults, each with a condition                         *)
(*   dir, rev  what it depends on, and what selects it                     *)
(*   range     none, or <<condition, low, high>>                           *)
(*   choice    "none", or the choice; values: its values, in order         *)
(*   modules   "none", or the symbol that enables modules                  *)
(*   below     the entries below each in the menu; syms is in menu order   *)
(***************************************************************************)
EXTENDS Integers, Sequences, SequencesExt, FiniteSetsExt

Empty == -1                 \* the empty string, as the value of an int
Number(v) == IF v = Empty THEN 0 ELSE v

IsValue(p, s) == s \in Range(p.values)
Syms(p) == Range(p.syms)

(* The symbol table: flags as sets, curr, visible and rev_dep of each      *)
(* symbol, the user's value (Empty for NULL), and what the choice has      *)
(* chosen.                                                                 *)
Fresh(p) ==
    [valid |-> {}, write |-> {}, has |-> {}, need |-> {},
     curr |-> [s \in Syms(p) |-> 0], vis |-> [s \in Syms(p) |-> 0],
     rev |-> [s \in Syms(p) |-> 0],
     user |-> [s \in Syms(p) |-> IF p.type[s] = "int" THEN Empty ELSE 0],
     cval |-> "none", uval |-> "none", mods |-> 0, changed |-> FALSE]

The(S) == CHOOSE x \in S : TRUE             \* the element of a singleton
Lesser(v, w) == IF v < w THEN v ELSE w
Greater(v, w) == IF v < w THEN w ELSE v

(* sym_get_type. *)
GetType(p, st, s) ==
    IF p.type[s] = "tri" /\ (st.mods = 0 \/ (IsValue(p, s) /\ st.vis[s] = 2))
    THEN "bool" ELSE p.type[s]

-----------------------------------------------------------------------------
(* expr_calc_value and sym_calc_value call each other; both return the     *)
(* symbol table as they leave it.                                          *)
RECURSIVE Eval(_, _, _), Calc(_, _, _), Prompted(_, _, _, _), FirstVisible(_, _, _, _)

Tri(c) == CASE c = "y" -> 2 [] c = "m" -> 1 [] c = "n" -> 0
IsTri(s) == s \in {"y", "m", "n"}
Looked(c, e) ==                             \* a symbol, or its comparison with a constant
    [v |-> IF e.t = "sym" THEN c.curr[e.s] ELSE IF c.curr[e.s] = Tri(e.c) THEN 2 ELSE 0, st |-> c]
Joined(type, v, r) ==
    [v |-> IF type = "and" THEN Lesser(v, r.v) ELSE Greater(v, r.v), st |-> r.st]
Eval(p, st, e) ==
    LET not(l) == [v |-> 2 - l.v, st |-> l.st]
        both(l) == Joined(e.t, l.v, Eval(p, l.st, e.r))
    IN  CASE e.t = "sym" /\ IsTri(e.s) -> [v |-> Tri(e.s), st |-> st]
          [] e.t = "eq" \/ (e.t = "sym" /\ ~IsTri(e.s)) -> Looked(Calc(p, st, e.s), e)
          [] e.t = "not" -> not(Eval(p, st, e.l))
          [] OTHER -> both(Eval(p, st, e.l))

(* sym_calc_visibility. *)
Prompted(p, st, prompts, tri) ==
    LET others(e) == Prompted(p, e.st, Tail(prompts), Greater(tri, e.v))
    IN  IF prompts = <<>> THEN [v |-> tri, st |-> st] ELSE others(Eval(p, st, Head(prompts)))

Visibility(p, st, s) ==
    LET shown(a) ==
            [a.st EXCEPT !.vis[s] =
                IF a.v = 1 /\ (p.type[s] # "tri" \/ a.st.mods = 0) THEN 2 ELSE a.v]
        selected(r) ==
            [r.st EXCEPT !.rev[s] = IF r.v = 1 /\ GetType(p, r.st, s) = "bool" THEN 2 ELSE r.v]
        depends(a) ==
            IF IsValue(p, s) THEN a ELSE selected(Eval(p, Eval(p, a, p.dir[s]).st, p.rev[s]))
    IN  depends(shown(Prompted(p, st, p.prompts[s], 0)))

(* sym_get_default_prop: the first default whose condition is not n. *)
FirstVisible(p, st, defaults, i) ==
    LET from(e) == IF e.v # 0 THEN [i |-> i, v |-> e.v, st |-> e.st]
                   ELSE FirstVisible(p, e.st, defaults, i + 1)
    IN  IF i > Len(defaults) THEN [i |-> 0, v |-> 0, st |-> st]
        ELSE from(Eval(p, st, defaults[i].vis))

(* sym_choice_default: first a default, then any value that is visible. *)
RECURSIVE ChoiceDefault(_, _, _)
ChoiceDefault(p, st, i) ==
    LET value(d) == p.defaults[p.choice][d.i].val.s
        shown == SelectSeq(p.values, LAMBDA v : st.vis[v] # 0)
        from(d) ==
            IF d.i = 0 THEN [s |-> IF shown = <<>> THEN "none" ELSE Head(shown), st |-> d.st]
            ELSE IF d.st.vis[value(d)] # 0 THEN [s |-> value(d), st |-> d.st]
            ELSE ChoiceDefault(p, d.st, d.i + 1)
    IN  from(FirstVisible(p, st, p.defaults[p.choice], i))

(* sym_calc_choice: the user's choice if it is visible, or the default. *)
UserChoice(st) == IF st.uval # "none" /\ st.vis[st.uval] # 0 THEN st.uval ELSE "none"
Chosen(p, st) ==
    LET by(d) == [d.st EXCEPT !.cval = d.s, !.curr[p.choice] = IF d.s = "none" THEN 0 ELSE @]
    IN  IF UserChoice(st) # "none" THEN [st EXCEPT !.cval = UserChoice(st)]
        ELSE by(ChoiceDefault(p, st, 1))
ShownValues(p, st) == {v \in Range(p.values) : st.vis[v] # 0}
CalcChoice(p, st) ==
    LET user(a) == IF ShownValues(p, a) \subseteq a.has THEN a
                   ELSE [a EXCEPT !.has = @ \ {p.choice}]
    IN  Chosen(p, user(FoldLeft(LAMBDA a, v : Visibility(p, a, v), st, p.values)))

(* sym_get_range_prop, sym_validate_range. *)
Bound(p, st, b) ==
    LET of(c) == [v |-> Number(c.curr[b.s]), st |-> c]
    IN  IF b.t = "num" THEN [v |-> b.n, st |-> st] ELSE of(Calc(p, st, b.s))
Bounds(p, st, s) ==
    LET none(a) == [lo |-> <<>>, hi |-> <<>>, st |-> a]
        range(lo, hi) == [lo |-> <<lo>>, hi |-> <<hi.v>>, st |-> hi.st]
        from(lo) == range(lo.v, Bound(p, lo.st, p.range[s][3]))
        if(e) == IF e.v = 0 THEN none(e.st) ELSE from(Bound(p, e.st, p.range[s][2]))
    IN  IF p.range[s] = <<>> THEN none(st) ELSE if(Eval(p, st, p.range[s][1]))
ValidateRange(p, st, s) ==
    LET val(a) == Number(a.curr[s])
        within(b) == b.lo = <<>> \/ val(b.st) \in b.lo[1] .. b.hi[1]
        moved(b) == IF within(b) THEN b.st
                    ELSE [b.st EXCEPT !.curr[s] = IF val(b.st) < b.lo[1] THEN b.lo[1] ELSE b.hi[1]]
    IN  IF p.type[s] # "int" THEN st ELSE moved(Bounds(p, st, s))

(* set_all_choice_values. *)
SetAllChoiceValues(p, st) ==
    [st EXCEPT !.user = [s \in Syms(p) |-> IF IsValue(p, s) /\ s \notin st.has THEN 0 ELSE @[s]],
               !.has = @ \cup {p.choice}, !.valid = @ \ {p.choice}, !.need = @ \ {p.choice}]

(* The value of a bool or tristate. *)
Own(p, st, s) ==                            \* from the user or a default
    LET least(v, e) == [v |-> Lesser(e.v, v), st |-> [e.st EXCEPT !.write = @ \cup {s}]]
        default(d) == IF d.i = 0 THEN [v |-> 0, st |-> d.st]
                      ELSE least(d.v, Eval(p, d.st, p.defaults[s][d.i].val))
    IN  IF st.vis[s] # 0 /\ s \in st.has THEN [v |-> Lesser(st.user[s], st.vis[s]), st |-> st]
        ELSE IF s = p.choice THEN [v |-> 0, st |-> st]
        ELSE default(FirstVisible(p, st, p.defaults[s], 1))
Selected(v, rev) == Greater(v, rev)
TriValue(p, st, s) ==
    LET w == IF st.vis[s] # 0 \/ st.rev[s] # 0 THEN [st EXCEPT !.write = @ \cup {s}] ELSE st
        promoted(v, a) == IF v = 1 /\ GetType(p, a, s) = "bool" THEN 2 ELSE v
        selected(o) == [v |-> promoted(Selected(o.v, o.st.rev[s]), o.st), st |-> o.st]
    IN  IF IsValue(p, s) /\ st.vis[s] = 2
        THEN [v |-> IF st.cval = s THEN 2 ELSE 0, st |-> st]
        ELSE selected(Own(p, w, s))

(* The value of an int. *)
IntValue(p, st, s) ==
    LET w == IF st.vis[s] # 0 THEN [st EXCEPT !.write = @ \cup {s}] ELSE st
        default(d) ==
            IF d.i = 0 THEN [v |-> Empty, st |-> d.st]
            ELSE [v |-> p.defaults[s][d.i].val.n, st |-> [d.st EXCEPT !.write = @ \cup {s}]]
    IN  IF st.vis[s] # 0 /\ s \in st.has THEN [v |-> st.user[s], st |-> w]
        ELSE default(FirstVisible(p, w, p.defaults[s], 1))

CalcInvalid(p, st, s) ==
    LET ofChoice == IF IsValue(p, s) /\ s \in st.need
                    THEN Calc(p, [st EXCEPT !.need = @ \ {s}], p.choice) ELSE st
        cleared(a) == [a EXCEPT !.valid = @ \cup {s},
                                !.write = IF IsValue(p, s) THEN @ ELSE @ \ {s}]
        visible(a) == [Visibility(p, a, s) EXCEPT !.curr[s] = IF p.type[s] = "int" THEN Empty ELSE 0,
                                                  !.cval = IF s = p.choice THEN "none" ELSE @]
        value(a) == IF p.type[s] = "int" THEN IntValue(p, a, s) ELSE TriValue(p, a, s)
        valued(n) == [n.st EXCEPT !.curr[s] = n.v]
        ranged(a) == IF s = p.choice /\ a.curr[s] = 2 THEN CalcChoice(p, a)
                     ELSE ValidateRange(p, a, s)
        modules(a) == IF s = p.modules THEN [a EXCEPT !.mods = a.curr[s]] ELSE a
        written(a) == IF s = p.choice /\ s \in a.write
                      THEN [a EXCEPT !.write = @ \cup ShownValues(p, a)] ELSE a
        all(a) == IF s \in a.need THEN SetAllChoiceValues(p, a) ELSE a
    IN  The({all(written(modules(b))) :
                b \in {ranged(valued(value(a))) : a \in {visible(cleared(ofChoice))}}})
Calc(p, st, s) == The({IF s \in a.valid THEN a ELSE CalcInvalid(p, a, s) : a \in {st}})

RECURSIVE CalcAll(_, _, _)
CalcAll(p, st, order) ==
    IF order = <<>> THEN st
    ELSE The({CalcAll(p, a, Tail(order)) : a \in {Calc(p, st, Head(order))}})

(* menu_is_visible: a symbol that cannot be seen itself, but is not n and  *)
(* stands above one that can, counts as visible and as set by the user.    *)
RECURSIVE MenuIsVisible(_, _, _), AnyVisible(_, _, _)
AnyVisible(p, st, entries) ==
    IF entries = <<>> THEN [v |-> FALSE, st |-> st]
    ELSE The({IF r.v THEN r ELSE AnyVisible(p, r.st, Tail(entries)) :
                r \in {MenuIsVisible(p, st, Head(entries))}})
MenuIsVisible(p, st, s) ==
    LET marked(r) == IF r.v THEN [r EXCEPT !.st.has = @ \cup {s}] ELSE r
        seen(c) == IF c.vis[s] # 0 THEN [v |-> TRUE, st |-> c]
                   ELSE IF p.type[s] = "int" \/ c.curr[s] = 0 THEN [v |-> FALSE, st |-> c]
                   ELSE marked(AnyVisible(p, c, p.below[s]))
    IN  IF p.prompts[s] = <<>> THEN [v |-> FALSE, st |-> st] ELSE seen(Calc(p, st, s))

(* sym_clear_all_valid. *)
CalcModules(p, st) == IF p.modules = "none" THEN st ELSE Calc(p, st, p.modules)
ClearAllKept(p, st) == [st EXCEPT !.changed = TRUE]     \* mutant: cached values are kept
ClearAll(p, st) == CalcModules(p, [st EXCEPT !.valid = {}, !.changed = TRUE])

-----------------------------------------------------------------------------
(* sym_tristate_within_range, sym_set_tristate_value; <<>> if refused.     *)
Changeable(st, s) == st.vis[s] > st.rev[s]
WithinRange(p, st, s, val) ==
    /\ st.vis[s] # 0
    /\ ~(GetType(p, st, s) = "bool" /\ val = 1)
    /\ Changeable(st, s)
    /\ IF IsValue(p, s) /\ st.vis[s] = 2 THEN val = 2 ELSE val \in st.rev[s] .. st.vis[s]

SetTri(p, st, s, val) ==
    LET old == st.curr[s]
        shown == {v \in Range(p.values) : st.vis[v] # 0}
        st1 == [st EXCEPT !.has = @ \cup {s}, !.user[s] = val]
        st2 == IF IsValue(p, s) /\ val = 2
               THEN [st1 EXCEPT !.uval = s, !.has = @ \cup {p.choice} \cup shown] ELSE st1
    IN  IF old # val /\ ~WithinRange(p, st, s, val) THEN <<>>
        ELSE IF old # val THEN <<ClearAll(p, st2)>> ELSE <<st2>>

(* sym_set_string_value of an int: nothing is calculated anew if the       *)
(* user's value is there already, be it only as what conf_read left of it. *)
SetInt(p, st, s, val) ==
    LET out(b) == b.lo # <<>> /\ val \notin b.lo[1] .. b.hi[1]
        st1(a) == [a EXCEPT !.has = @ \cup {s}]
        set(b) == IF out(b) THEN <<>>
                  ELSE <<IF b.st.user[s] = val THEN st1(b.st)
                         ELSE ClearAll(p, [st1(b.st) EXCEPT !.user[s] = val])>>
    IN  set(Bounds(p, st, s))

-----------------------------------------------------------------------------
(* conf_write and conf_write_defconfig: the file and the symbol table. *)
Line(st, s) == <<s, st.curr[s]>>

(* sym_get_string_default. *)
Default(p, st, s) ==
    LET promoted(r, a) ==
            IF r = 1 /\ (p.type[s] = "bool" \/ (p.type[s] = "tri" /\ ~IsValue(p, s) /\ a.mods = 0))
            THEN 2 ELSE r
        tri(v, a) == [v |-> promoted(Greater(v, a.rev[s]), a), st |-> a]
        least(v, x) == tri(Lesser(v, x.v), x.st)
        of(d) ==
            CASE p.type[s] = "int" ->
                    [v |-> IF d.i = 0 THEN Empty ELSE p.defaults[s][d.i].val.n, st |-> d.st]
              [] p.type[s] # "int" /\ d.i = 0 -> tri(0, d.st)
              [] OTHER -> least(d.v, Eval(p, d.st, p.defaults[s][d.i].val))
    IN  of(FirstVisible(p, CalcModules(p, Visibility(p, st, s)), p.defaults[s], 1))

DefaultOfChoice(p, st, s) ==                \* the value that the choice takes by itself
    /\ IsValue(p, s) /\ ~p.optional
    /\ ChoiceDefault(p, st, 1).s = s
    /\ p.type[s] = "bool" /\ st.curr[s] = 2
SkipDefault(p, st, s) ==
    LET if(d) == [skip |-> \/ ~Changeable(st, s)
                           \/ st.curr[s] = d.v
                           \/ DefaultOfChoice(p, d.st, s),
                  st |-> d.st]
    IN  if(Default(p, st, s))

(* Both write the symbols in their order; min: conf_write_defconfig, which *)
(* leaves out the lines that say what is so by default.                    *)
WriteOne(p, a, s, min) ==
    LET line(c, k) == [lines |-> IF k.skip THEN a.lines ELSE Append(a.lines, Line(c, s)),
                       st |-> [k.st EXCEPT !.write = @ \ {s}]]
        skip(c) == IF min THEN SkipDefault(p, c, s) ELSE [skip |-> FALSE, st |-> c]
        written(c) == IF s \notin c.write THEN [a EXCEPT !.st = c] ELSE line(c, skip(c))
    IN  IF s = p.choice THEN a ELSE written(Calc(p, a.st, s))
WriteAll(p, st, min) ==
    FoldLeft(LAMBDA a, s : The({WriteOne(p, b, s, min) : b \in {a}}), [lines |-> <<>>, st |-> st], p.syms)
Printed(p, st) == WriteAll(p, IF st.changed THEN st ELSE ClearAll(p, st), FALSE)
ConfWrite(p, st) == [Printed(p, st) EXCEPT !.st.changed = FALSE]
ConfWriteDefconfig(p, st) == WriteAll(p, ClearAll(p, st), TRUE)

(* conf_read_simple and conf_read. *)
ReadLine(p, st, line) ==
    LET s == line[1]
        v == line[2]
        st1 == IF p.type[s] = "int" /\ v = Empty THEN st
               ELSE [st EXCEPT !.user[s] = v, !.has = @ \cup {s}]
        c == p.choice
    IN  IF ~IsValue(p, s) THEN st1
        ELSE [st1 EXCEPT !.uval = IF v = 2 THEN s ELSE @,
                         !.has = IF v = 1 /\ st1.user[c] = 2 THEN @ \ {c} ELSE @,
                         !.user[c] = Greater(@, v)]

ReadSimple(p, lines) ==
    LET f == Fresh(p)
        st == IF p.choice = "none" THEN f ELSE [f EXCEPT !.has = {p.choice}]
    IN  CalcModules(p, FoldLeft(LAMBDA a, l : ReadLine(p, a, l), st, lines))

Unsaved(p, st, s) ==                        \* the value is not what the file says
    IF s = p.choice THEN FALSE
    ELSE IF s \in st.has /\ s \in st.write THEN st.user[s] # st.curr[s]
    ELSE s \in st.has \/ s \in st.write

Dropped(p, st, unsaved, s) ==               \* the user's value is given up
    /\ s \in st.has /\ ~IsValue(p, s)
    /\ st.vis[s] = 0 /\ ~unsaved
OutOfRange(p, st, s) ==
    LET out(b) == b.lo # <<>> /\ st.user[s] \notin b.lo[1] .. b.hi[1]
    IN  p.type[s] = "int" /\ s \in st.has /\ out(Bounds(p, st, s))

Settled(p, st) ==
    LET without(unsaved, out) ==
            [st EXCEPT !.has = @ \ (out \cup {s \in Syms(p) : Dropped(p, st, unsaved, s)}),
                       !.valid = @ \ out,
                       !.changed = unsaved \/ out # {}]
    IN  without(\E s \in Syms(p) : Unsaved(p, st, s), {s \in Syms(p) : OutOfRange(p, st, s)})
ConfRead(p, lines) == Settled(p, CalcAll(p, ReadSimple(p, lines), p.hash))

-----------------------------------------------------------------------------
(* conf_set_all_new_symbols for allyesconfig, allmodconfig, allnoconfig    *)
(* and alldefconfig (mode 2, 1, 0 and -1), of symbols without a value.     *)
NewValues(p, st, mode) ==
    LET new == {s \in Syms(p) \ (st.has \cup st.valid) : p.type[s] # "int"}
    IN  IF mode = -1 THEN st
        ELSE [st EXCEPT !.user = [s \in Syms(p) |-> IF s \in new THEN mode ELSE @[s]], !.has = @ \cup new]
SetAllNew(p, st, mode) ==
    LET c == p.choice
        needed(a, more) == [a EXCEPT !.need = @ \cup Range(p.values) \cup more]
        choose(a) == IF c = "none" THEN a
                     ELSE IF c \in a.has THEN needed(a, {})
                     ELSE SetAllChoiceValues(p, Calc(p, needed(a, {c}), c))
    IN  choose(ClearAll(p, NewValues(p, st, mode)))
=============================================================================
