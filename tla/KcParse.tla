------------------------------ MODULE KcParse -------------------------------
(***************************************************************************)
(* The reader of Kconfig files (zconf.y, zconf.l) and the menu tree it     *)
(* builds (menu.c): blocks that nest, files that include files, the errors *)
(* that conf_parse counts.  A statement is reduced once its end of line    *)
(* was read; at the end of a file that may be the one which stands for the *)
(* end of the file, when the including file is already the current one.    *)
(***************************************************************************)
EXTENDS Integers, Sequences, FiniteSetsExt, SequencesExt, Relation

CONSTANTS KpTrees           \* functions from file names to [stmts, nl]; "root" is read first

VARIABLES kp_pc, kp_files,
          kp_buf,           \* the stack of buffers: <<file, next statement>>
          kp_file,          \* current_file
          kp_parent,        \* the including file that a file remembers
          kp_open,          \* the open blocks of the parser, as entries
          kp_menu,          \* current_menu: an entry, or 0 for the root
          kp_entries,       \* the entries: [kind, file, parent]
          kp_errs           \* zconfnerrs

kpVars == <<kp_pc, kp_files, kp_buf, kp_file, kp_parent, kp_open, kp_menu, kp_entries, kp_errs>>

NoFile == "none"
Blocks == {"menu", "if", "choice"}
EndOf == [menu |-> "endmenu", if |-> "endif", choice |-> "endchoice"]

KpOff ==
    /\ kp_pc = "off" /\ kp_files = <<>> /\ kp_buf = <<>> /\ kp_file = NoFile /\ kp_parent = <<>>
    /\ kp_open = <<>> /\ kp_menu = 0 /\ kp_entries = <<>> /\ kp_errs = 0

KpInit ==
    /\ kp_pc = "parse" /\ kp_files \in KpTrees
    /\ kp_buf = << <<"root", 1>> >> /\ kp_file = "root"
    /\ kp_parent = [f \in DOMAIN kp_files |-> NoFile]
    /\ kp_open = <<>> /\ kp_menu = 0 /\ kp_entries = <<>> /\ kp_errs = 0

Parsing == kp_pc = "parse"
Stmts(f) == kp_files[f].stmts
Exhausted(buf) == buf # <<>> /\ Last(buf)[2] > Len(Stmts(Last(buf)[1]))
ParentOf(f) == IF f = NoFile THEN NoFile ELSE kp_parent[f]

(* zconf_endfile: where the scanner is after the end of n files. *)
RECURSIVE Ended(_)
Ended(pos) ==
    IF Exhausted(pos.buf) THEN Ended([buf |-> Front(pos.buf), file |-> ParentOf(pos.file)]) ELSE pos
EndedOne(pos) == [buf |-> Front(pos.buf), file |-> ParentOf(pos.file)]

AtStatement == Parsing /\ kp_buf # <<>> /\ ~Exhausted(kp_buf)
Statement == Stmts(Last(kp_buf)[1])[Last(kp_buf)[2]]

(* Where the scanner is when the statement is reduced: an if waits for     *)
(* what follows its ends of line.                                          *)
Scanned ==
    LET f == Last(kp_buf)[1]
        pos == [buf |-> Append(Front(kp_buf), <<f, Last(kp_buf)[2] + 1>>), file |-> kp_file]
    IN  CASE Statement = "if" -> Ended(pos)
          [] Statement # "if" /\ Exhausted(pos.buf) /\ ~kp_files[f].nl -> EndedOne(pos)
          [] OTHER -> pos
MoveTo(pos) == kp_buf' = pos.buf /\ kp_file' = pos.file

(* menu_add_entry. *)
AddEntry(kind, file) == kp_entries' = Append(kp_entries, [kind |-> kind, file |-> file, parent |-> kp_menu])

Config ==
    /\ AtStatement /\ Statement = "config"
    /\ MoveTo(Scanned) /\ AddEntry("config", Scanned.file)
    /\ UNCHANGED <<kp_pc, kp_files, kp_parent, kp_open, kp_menu, kp_errs>>

InChoice == kp_open # <<>> /\ kp_entries[Last(kp_open)].kind = "choice"

(* menu_add_menu: the entry is the current menu. *)
Open ==
    /\ AtStatement /\ Statement \in Blocks /\ (Statement = "if" \/ ~InChoice)
    /\ MoveTo(Scanned) /\ AddEntry(Statement, Scanned.file)
    /\ kp_menu' = Len(kp_entries) + 1
    /\ kp_open' = Append(kp_open, Len(kp_entries) + 1)
    /\ UNCHANGED <<kp_pc, kp_files, kp_parent, kp_errs>>

(* The destructors of bison: the blocks that are discarded, the innermost  *)
(* first, end the current menu if it is theirs.                            *)
RECURSIVE Discard(_, _)
Discard(open, menu) ==
    IF open = <<>> THEN menu
    ELSE Discard(Front(open), IF Last(open) = menu THEN kp_entries[menu].parent ELSE menu)

(* choice_block has no menus and choices: a syntax error, from which only  *)
(* the outermost statement list recovers.                                  *)
Misplaced ==
    /\ AtStatement /\ Statement \in {"menu", "choice"} /\ InChoice
    /\ MoveTo(Scanned)
    /\ kp_menu' = Discard(kp_open, kp_menu) /\ kp_open' = <<>> /\ kp_errs' = kp_errs + 2
    /\ UNCHANGED <<kp_pc, kp_files, kp_parent, kp_entries>>

EndOutside ==
    /\ AtStatement /\ Statement \in Range(EndOf) /\ kp_open = <<>>
    /\ MoveTo(Scanned) /\ kp_errs' = kp_errs + 1
    /\ UNCHANGED <<kp_pc, kp_files, kp_parent, kp_open, kp_menu, kp_entries>>

(* zconf_endtoken. *)
EndTokenAnyFile(block, stmt, file) == stmt = EndOf[kp_entries[block].kind]      \* mutant: a block may end in another file
EndToken(block, stmt, file) ==
    /\ stmt = EndOf[kp_entries[block].kind]
    /\ kp_menu # 0 /\ kp_entries[kp_menu].file = file
Close ==
    /\ AtStatement /\ Statement \in Range(EndOf) /\ kp_open # <<>>
    /\ MoveTo(Scanned) /\ kp_open' = Front(kp_open)
    /\ \/ EndToken(Last(kp_open), Statement, Scanned.file)
          /\ kp_menu' = kp_entries[kp_menu].parent /\ UNCHANGED kp_errs
       \/ ~EndToken(Last(kp_open), Statement, Scanned.file)
          /\ kp_errs' = kp_errs + 2 /\ UNCHANGED kp_menu
    /\ UNCHANGED <<kp_pc, kp_files, kp_parent, kp_entries>>

(* The files that a file remembers to be included from. *)
RECURSIVE Chain(_, _)
Chain(f, seen) == IF f = NoFile \/ f \in seen THEN seen ELSE Chain(kp_parent[f], seen \cup {f})

(* zconf_nextfile. *)
Sources == {"source sub", "source root", "source gone"}
Named == [s \in Sources |-> CASE s = "source sub" -> "sub" [] s = "source root" -> "root" [] OTHER -> "gone"]
RecursiveFrom(f) == f \in Chain(kp_parent[f], {})
Source ==
    /\ AtStatement /\ Statement \in Sources
    /\ LET pos == Scanned
           name == Named[Statement]
       IN  \/ /\ name \in DOMAIN kp_files /\ ~RecursiveFrom(pos.file)
              /\ MoveTo([buf |-> Append(pos.buf, <<name, 1>>), file |-> name])
              /\ kp_parent' = [kp_parent EXCEPT ![name] = pos.file]
              /\ UNCHANGED kp_pc
           \/ /\ name \notin DOMAIN kp_files \/ RecursiveFrom(pos.file)
              /\ kp_pc' = IF name \notin DOMAIN kp_files THEN "no file" ELSE "recursive"
              /\ UNCHANGED <<kp_buf, kp_file, kp_parent>>
    /\ UNCHANGED <<kp_files, kp_open, kp_menu, kp_entries, kp_errs>>

EndFile ==
    /\ Parsing /\ Exhausted(kp_buf)
    /\ MoveTo(EndedOne([buf |-> kp_buf, file |-> kp_file]))
    /\ UNCHANGED <<kp_pc, kp_files, kp_parent, kp_open, kp_menu, kp_entries, kp_errs>>

(* The end of the input: open blocks are a syntax error; conf_parse exits  *)
(* if there was any.                                                       *)
Finish ==
    /\ Parsing /\ kp_buf = <<>>
    /\ kp_menu' = Discard(kp_open, kp_menu) /\ kp_open' = <<>>
    /\ kp_errs' = kp_errs + (IF kp_open = <<>> THEN 0 ELSE 1)
    /\ kp_pc' = IF kp_errs' = 0 THEN "parsed" ELSE "failed"
    /\ UNCHANGED <<kp_files, kp_buf, kp_file, kp_parent, kp_entries>>

KpNext ==
    Config \/ Open \/ Misplaced \/ EndOutside \/ Close \/ Source \/ EndFile \/ Finish

-----------------------------------------------------------------------------
(* The statements in the order in which they count, each with its file and *)
(* whether it is the last of it.                                           *)
RECURSIVE Flat(_)
Flat(f) ==
    FoldLeft(LAMBDA acc, i :
                 acc \o (IF Stmts(f)[i] \in Sources THEN Flat(Named[Stmts(f)[i]])
                         ELSE << [stmt |-> Stmts(f)[i], file |-> f, last |-> i = Len(Stmts(f))] >>),
             <<>>, [i \in 1 .. Len(Stmts(f)) |-> i])
Includes(f) == {Named[s] : s \in Range(Stmts(f)) \cap Sources}
Expandable == Includes("root") \subseteq {"sub"} /\ ("sub" \in Includes("root") => Includes("sub") = {})

(* The open blocks before statement n, as positions; the entry of n.       *)
RECURSIVE OpenAt(_, _)
OpenAt(flat, n) ==
    IF n = 1 THEN <<>>
    ELSE LET before == OpenAt(flat, n - 1) IN
         CASE flat[n - 1].stmt \in Blocks -> Append(before, n - 1)
           [] flat[n - 1].stmt \in Range(EndOf) -> (IF before = <<>> THEN <<>> ELSE Front(before))
           [] OTHER -> before
Matches(flat, n) ==
    LET open == OpenAt(flat, n) IN
    /\ flat[n].stmt \in Range(EndOf) =>
            /\ open # <<>> /\ flat[n].stmt = EndOf[flat[Last(open)].stmt]
            /\ flat[n].file = flat[Last(open)].file
    /\ flat[n].stmt \in {"menu", "choice"} /\ open # <<>> => flat[Last(open)].stmt # "choice"
WellFormed(flat) ==
    /\ \A n \in 1 .. Len(flat) : Matches(flat, n)
    /\ OpenAt(flat, Len(flat) + 1) = <<>>
NotLastIf(flat) == \A n \in 1 .. Len(flat) : flat[n].stmt = "if" => ~flat[n].last
EndsLines == \A f \in DOMAIN kp_files : kp_files[f].nl

(* Files whose lines all end are accepted exactly if their blocks nest,    *)
(* each within one file.  (An if on the last line of a file counts as of   *)
(* the file that includes it.)                                             *)
AcceptsNested ==
    kp_pc \in {"parsed", "failed"} /\ Expandable /\ EndsLines =>
        LET flat == Flat("root") IN
        NotLastIf(flat) => (kp_pc = "parsed" <=> WellFormed(flat))

(* What is accepted, is a tree that is closed again, and every entry is in *)
(* the block that surrounds it in the text.                                *)
TreeFollowsText ==
    kp_pc = "parsed" =>
        /\ kp_menu = 0
        /\ LET flat == Flat("root")
               entries == SelectSeq([n \in 1 .. Len(flat) |-> n], LAMBDA n : flat[n].stmt \notin Range(EndOf))
               place(n) == IF OpenAt(flat, n) = <<>> THEN 0 ELSE
                           CHOOSE i \in 1 .. Len(entries) : entries[i] = Last(OpenAt(flat, n))
           IN  /\ Len(entries) = Len(kp_entries)
               /\ \A i \in 1 .. Len(entries) :
                    /\ kp_entries[i].kind = flat[entries[i]].stmt
                    /\ kp_entries[i].parent = place(entries[i])

(* A file that includes itself is found before it is read a third time,    *)
(* and only such a file is refused.                                        *)
InclusionBounded ==
    /\ kp_pc = "parse" =>
            \A f \in DOMAIN kp_files : Cardinality({i \in 1 .. Len(kp_buf) : kp_buf[i][1] = f}) <= 2
    /\ kp_pc = "recursive" => ~Expandable
    /\ kp_pc \in {"parsed", "failed"} => Expandable

-----------------------------------------------------------------------------
(***************************************************************************)
(* conf_parse looks for recursive dependencies (zconf.y, sym_check_deps of *)
(* symbol.c): a walk along what the value of each symbol depends on, with  *)
(* the symbols under way and those seen marked by two flags.  A choice and *)
(* its values are walked together.                                         *)
(***************************************************************************)

CONSTANTS KdGraphs          \* [deps, order, choice, values]

VARIABLES kd_pc, kd_g, kd_i,
          kd_st,            \* check, checked: sets; printed: errors reported
          kd_errs           \* zconfnerrs

kdVars == <<kd_pc, kd_g, kd_i, kd_st, kd_errs>>

KdOff == kd_pc = "off" /\ kd_g = <<>> /\ kd_i = 0 /\ kd_st = <<>> /\ kd_errs = 0

KdInit ==
    /\ kd_pc = "check" /\ kd_g \in KdGraphs /\ kd_i = 1 /\ kd_errs = 0
    /\ kd_st = [check |-> {}, checked |-> {}, printed |-> 0]

None == "none"
IsValueOf(g, s) == s \in Range(g.values)

(* sym_check_expr_deps and sym_check_sym_deps: the first symbol that comes *)
(* back from what s depends on, and the flags.                             *)
RECURSIVE CheckDeps(_, _, _), CheckEach(_, _, _), CheckValues(_, _, _)
CheckEach(g, st, deps) ==
    IF deps = <<>> THEN [s |-> None, st |-> st]
    ELSE LET r == CheckDeps(g, st, Head(deps))
         IN  IF r.s # None THEN r ELSE CheckEach(g, r.st, Tail(deps))
CheckSym(g, st, s) == CheckEach(g, st, g.deps[s])

(* sym_check_choice_deps. *)
CheckValues(g, st, vals) ==
    IF vals = <<>> THEN [s |-> None, st |-> st]
    ELSE LET r == CheckSym(g, st, Head(vals))
         IN  IF r.s # None THEN r ELSE CheckValues(g, r.st, Tail(vals))
CheckChoice(g, st) ==
    LET all == {g.choice} \cup Range(g.values)
        st1 == [st EXCEPT !.check = @ \cup all, !.checked = @ \cup all]
        c == CheckSym(g, st1, g.choice)
        st2 == [c.st EXCEPT !.check = @ \ {g.choice}]
        v == IF c.s # None THEN [s |-> c.s, st |-> st2] ELSE CheckValues(g, st2, g.values)
    IN  [s |-> IF v.s \in Range(g.values) THEN g.choice ELSE v.s,
         st |-> [v.st EXCEPT !.check = @ \ Range(g.values)]]

(* sym_check_deps. *)
Plain(g, st, s) ==
    LET r == CheckSym(g, [st EXCEPT !.check = @ \cup {s}, !.checked = @ \cup {s}], s)
    IN  [r EXCEPT !.st.check = @ \ {s}]
UnderWay(st, s) == s \in st.check
CheckDeps(g, st, s) ==
    CASE UnderWay(st, s) -> [s |-> s, st |-> [st EXCEPT !.printed = @ + 1]]
      [] ~UnderWay(st, s) /\ s \in st.checked -> [s |-> None, st |-> st]
      [] OTHER ->
            LET r == IF IsValueOf(g, s) THEN CheckDeps(g, st, g.choice)
                     ELSE IF s = g.choice THEN CheckChoice(g, st)
                     ELSE Plain(g, st, s)
            IN  IF r.s = s THEN [r EXCEPT !.s = None] ELSE r

CheckNext ==
    /\ kd_pc = "check" /\ kd_i <= Len(kd_g.order)
    /\ LET r == CheckDeps(kd_g, kd_st, kd_g.order[kd_i])
       IN  kd_st' = r.st /\ kd_errs' = kd_errs + (IF r.s # None THEN 1 ELSE 0)
    /\ kd_i' = kd_i + 1 /\ UNCHANGED <<kd_pc, kd_g>>

CheckDone ==
    /\ kd_pc = "check" /\ kd_i > Len(kd_g.order)
    /\ kd_pc' = "done" /\ UNCHANGED <<kd_g, kd_i, kd_st, kd_errs>>

KdNext == CheckNext \/ CheckDone

-----------------------------------------------------------------------------
(* Cycles where the values of a choice are one node, and the choice is the *)
(* node that node(choice) says.  That a value depends on its choice is an  *)
(* edge only between two nodes.                                            *)
Cyclic(g, node(_)) ==
    LET nodes == {node(s) : s \in DOMAIN g.deps}
        edge == [<<a, b>> \in nodes \X nodes |->
                    \E s \in DOMAIN g.deps : \E d \in Range(g.deps[s]) :
                        /\ node(s) = a /\ node(d) = b
                        /\ ~(IsValueOf(g, s) /\ d = g.choice /\ a = b)]
    IN  \E a \in nodes : TransitiveClosure(edge, nodes)[a, a]
Apart(g, s) == IF IsValueOf(g, s) THEN "values" ELSE s
Together(g, s) == IF IsValueOf(g, s) THEN g.choice ELSE s

(* sym_check_deps reports a recursive dependency if there is one, and none *)
(* where there is none: only then is sym_calc_value sure to end with       *)
(* values that do not depend on the order of the calls.  A cycle that runs *)
(* from a value to the choice itself may or may not be reported.           *)
CycleReported ==
    kd_pc = "done" =>
        /\ LET node(s) == Apart(kd_g, s) IN Cyclic(kd_g, node) => kd_st.printed > 0
        /\ LET node(s) == Together(kd_g, s) IN kd_st.printed > 0 => Cyclic(kd_g, node)

(* The flags that mark what is under way are all taken back, also when a   *)
(* walk ends early: a later walk does not run into them.                   *)
MarksCleared == kd_pc \in {"check", "done"} => kd_st.check = {}
=============================================================================
