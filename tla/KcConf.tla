------------------------------- MODULE KcConf -------------------------------
(***************************************************************************)
(* A kconfig front end: it shows and sets symbols in any order, writes the *)
(* configuration, and a later run reads it.                                *)
(***************************************************************************)
EXTENDS Integers, Sequences, FiniteSetsExt, SequencesExt, KcSymtab

CONSTANTS KsPrograms,       \* the programs
          KsOps,            \* bound on the calls of a front end
          KsNumbers,        \* numbers typed for an int
          KsFiles           \* configurations there may be

VARIABLES ks_pc,            \* "ui", "written", "read"
          ks_prog,
          ks_st,            \* the symbol table
          ks_ops,
          ks_file,          \* the lines of the file: <<symbol, value>>
          ks_saved,         \* what the symbols were when it was written
          ks_wish,          \* the last value that was set: <<symbol, value>>, or <<>>
          ks_gap            \* what went wrong since all was calculated anew: "set", "rename"

ksVars == <<ks_pc, ks_prog, ks_st, ks_ops, ks_file, ks_saved, ks_wish, ks_gap>>

-----------------------------------------------------------------------------
KsOff ==
    /\ ks_pc = "off" /\ ks_prog = <<>> /\ ks_st = <<>> /\ ks_ops = 0
    /\ ks_file = <<>> /\ ks_saved = <<>> /\ ks_wish = <<>> /\ ks_gap = {}

(* Without a configuration, or after conf_read of one. *)
Fits(p, f) == \A i \in DOMAIN f : f[i][1] \in Syms(p)
KsInit ==
    /\ ks_pc = "ui" /\ ks_prog \in KsPrograms
    /\ ks_st \in {CalcModules(ks_prog, Fresh(ks_prog))}
                  \cup {ConfRead(ks_prog, f) : f \in {g \in KsFiles : Fits(ks_prog, g)}}
    /\ ks_ops = 0 /\ ks_file = <<>> /\ ks_saved = <<>> /\ ks_wish = <<>> /\ ks_gap = {}

Op == ks_pc = "ui" /\ ks_ops < KsOps /\ ks_ops' = ks_ops + 1

(* A front end shows any symbol. *)
Show(s) ==
    /\ ks_pc = "ui" /\ ks_st' = MenuIsVisible(ks_prog, ks_st, s).st /\ ks_st' # ks_st
    /\ ks_wish' = <<>>
    /\ UNCHANGED <<ks_pc, ks_prog, ks_ops, ks_file, ks_saved, ks_gap>>

(* It sets a symbol that it shows. *)
Unmoved(s, v) == (IF ks_prog.type[s] = "int" THEN ks_st.user[s] ELSE ks_st.curr[s]) = v
Set(s, v) ==
    /\ Op
    /\ s \in ks_st.valid /\ ks_st.vis[s] # 0
    /\ \E r \in {IF ks_prog.type[s] = "int" THEN SetInt(ks_prog, ks_st, s, v)
                ELSE SetTri(ks_prog, ks_st, s, v)} :
            r # <<>> /\ ks_st' = r[1]
    /\ ks_wish' = <<s, v>>
    /\ ks_gap' = IF ~Unmoved(s, v) THEN {}
                 ELSE IF ks_prog.type[s] = "int" /\ s \notin ks_st.has THEN ks_gap \cup {"set"} ELSE ks_gap
    /\ UNCHANGED <<ks_pc, ks_prog, ks_file, ks_saved>>

(* conf --allyesconfig and its like, which start from nothing. *)
AllNew(mode) ==
    /\ Op /\ ks_ops = 0 /\ ks_st.valid \subseteq {ks_prog.modules}
    /\ ks_st' = SetAllNew(ks_prog, ks_st, mode)
    /\ UNCHANGED <<ks_pc, ks_prog, ks_file, ks_saved, ks_wish, ks_gap>>

(* The configuration, or the part that differs from the defaults, is       *)
(* written.                                                                *)
Write(kind) ==
    /\ ks_pc = "ui" /\ ks_pc' = "written"
    /\ \E w \in {IF kind = "config" THEN ConfWrite(ks_prog, ks_st)
                ELSE ConfWriteDefconfig(ks_prog, ks_st)} :
            /\ ks_file' = w.lines /\ ks_st' = w.st
            /\ ks_saved' = CalcAll(ks_prog, w.st, ks_prog.syms).curr
    /\ ks_wish' = <<>>
    /\ ks_gap' = IF kind = "config" /\ ks_st.changed THEN ks_gap ELSE {}
    /\ UNCHANGED <<ks_prog, ks_ops>>

(* The file cannot be opened: nothing has changed.  Or all is printed and  *)
(* it cannot be renamed: the marks of what was to be written are gone, and *)
(* the configuration still counts as changed; the file there was now has   *)
(* its other name.  A front end goes on.                                   *)
OpenFails ==
    /\ Op /\ ks_wish' = <<>>
    /\ UNCHANGED <<ks_pc, ks_prog, ks_st, ks_file, ks_saved, ks_gap>>
RenameFails ==
    /\ Op /\ ks_wish' = <<>>
    /\ ks_st' = Printed(ks_prog, ks_st).st
    /\ ks_gap' = (IF ks_st.changed THEN ks_gap ELSE {}) \cup {"rename"}
    /\ UNCHANGED <<ks_pc, ks_prog, ks_file, ks_saved>>

(* Another run reads it. *)
Read ==
    /\ ks_pc = "written" /\ ks_pc' = "read"
    /\ ks_st' = ConfRead(ks_prog, ks_file)
    /\ UNCHANGED <<ks_prog, ks_ops, ks_file, ks_saved, ks_wish, ks_gap>>

KsNext ==
    \/ \E s \in IF ks_pc = "ui" THEN Syms(ks_prog) ELSE {} :
            \/ Show(s)
            \/ \E v \in IF ks_prog.type[s] = "int" THEN KsNumbers ELSE 0 .. 2 : Set(s, v)
    \/ \E mode \in -1 .. 2 : AllNew(mode)
    \/ \E kind \in {"config", "defconfig"} : Write(kind)
    \/ OpenFails \/ RenameFails \/ Read

-----------------------------------------------------------------------------
Anew(p, st) == CalcAll(p, [st EXCEPT !.valid = {}], p.syms)

(* A value that sym_calc_value keeps is the one it would calculate anew:   *)
(* no change of another symbol leaves a stale one, and the order in which  *)
(* symbols are asked for does not matter.  A choice that can be set itself *)
(* (optional, or tristate) is left out: sym_calc_choice forgets that it    *)
(* was set while not all of its values are.  So is the time, until the     *)
(* next change, after a number was set that conf_read had given up but not *)
(* forgotten: sym_set_string_value takes it for no change                  *)
(* (symbol.c:674-677, confdata.c:449-458).                                 *)
FreeChoice(p) == p.choice # "none" /\ (p.optional \/ p.type[p.choice] = "tri")
CacheFresh ==
    ks_pc = "ui" /\ ~FreeChoice(ks_prog) /\ "set" \notin ks_gap => \A s \in ks_st.valid :
        \E a \in {Anew(ks_prog, ks_st)} : ks_st.curr[s] = a.curr[s] /\ ks_st.vis[s] = a.vis[s]

(* A choice that is y has exactly one value that is y, a visible one. *)
OneChosen ==
    ks_pc = "ui" /\ ks_prog.choice # "none" =>
        \E a \in {Anew(ks_prog, ks_st)} :
        LET on == {v \in Range(ks_prog.values) : a.curr[v] = 2}
        IN  a.curr[ks_prog.choice] = 2 => Cardinality(on) = 1 /\ \A v \in on : a.vis[v] # 0

(* A symbol is at least what the selects on it ask for. *)
SelectHonoured ==
    ks_pc = "ui" => \A s \in ks_st.valid :
        LET e == Eval(ks_prog, Anew(ks_prog, ks_st), ks_prog.rev[s])
        IN  ks_prog.type[s] # "int" /\ ~IsValue(ks_prog, s) => ks_st.curr[s] >= e.v

(* sym_set_tristate_value and sym_set_string_value report success only if  *)
(* the symbol then has the value, with the same two exceptions.            *)
SetHonoured ==
    ks_pc = "ui" /\ ks_wish # <<>> /\ ~FreeChoice(ks_prog) /\ "set" \notin ks_gap =>
        Calc(ks_prog, ks_st, ks_wish[1]).curr[ks_wish[1]] = ks_wish[2]

(* A configuration that is written and read is the same configuration,     *)
(* whether all of it is written or only what is not a default; but not     *)
(* when conf_write is called again after its rename failed and nothing was *)
(* changed since: it finds no marks and writes no lines (confdata.c:783,   *)
(* 798-801, 826-832).                                                      *)
ReadsBack ==
    ks_pc = "read" /\ "rename" \notin ks_gap => \A s \in Syms(ks_prog) :
        CalcAll(ks_prog, ks_st, ks_prog.syms).curr[s] = ks_saved[s]

-----------------------------------------------------------------------------
(***************************************************************************)
(* conf.c: a configuration is read, and what is new in the Kconfig files   *)
(* is asked for, over and over until nothing new is left.  The menu is     *)
(* walked in its order; with an entry all below it is left out.            *)
(***************************************************************************)

CONSTANTS KcoPrograms,      \* as in KcSymtab
          KcoModes          \* "oldconfig", "oldaskconfig", "silent", "olddefconfig"

VARIABLES kco_pc,           \* "check", "walk", "choose", "done", "aborted"
          kco_prog, kco_mode, kco_st,
          kco_i,            \* check_conf: the entry it is at
          kco_j,            \* conf: the entry it is at
          kco_cnt,          \* conf_cnt: walks since the last pass of check_conf
          kco_walks,        \* walks in all
          kco_new,          \* is_new of the choice it asks for
          kco_old           \* the mode, and the user's values as they were read

kcoVars == <<kco_pc, kco_prog, kco_mode, kco_st, kco_i, kco_j, kco_cnt, kco_walks, kco_new, kco_old>>

KcoOff ==
    /\ kco_pc = "off" /\ kco_prog = <<>> /\ kco_mode = "" /\ kco_st = <<>> /\ kco_i = 0
    /\ kco_j = 0 /\ kco_cnt = 0 /\ kco_walks = 0 /\ kco_new = FALSE /\ kco_old = <<>>

(* conf_read of a file with values for some of the symbols, written for an *)
(* older state of the Kconfig files.                                       *)
OldFiles(p) ==
    {SelectSeq([i \in 1 .. Len(p.syms) |-> <<p.syms[i], f[i]>>], LAMBDA l : l[2] # 3) :
        f \in {g \in [1 .. Len(p.syms) -> {0, 2, 3}] :
                /\ \A i \in 1 .. Len(p.syms) : p.syms[i] = p.choice => g[i] = 3
                /\ Cardinality({i \in 1 .. Len(p.syms) : IsValue(p, p.syms[i]) /\ g[i] = 2}) < 2}}

KcoInit ==
    /\ kco_prog \in KcoPrograms /\ kco_mode \in KcoModes
    /\ \E f \in OldFiles(kco_prog) : kco_st = ConfRead(kco_prog, f)
    /\ kco_pc = (IF kco_mode = "oldaskconfig" THEN "walk" ELSE "check")
    /\ kco_i = 1 /\ kco_j = 1 /\ kco_cnt = 0 /\ kco_walks = 0 /\ kco_new = FALSE
    /\ kco_old = [mode |-> kco_mode, has |-> kco_st.has, user |-> kco_st.user]

Menu == kco_prog.syms
Asking == kco_mode # "olddefconfig"

RECURSIVE Size(_)
Size(s) == 1 + FoldLeft(LAMBDA n, t : n + Size(t), 0, kco_prog.below[s])
Behind(i) == i + Size(Menu[i])              \* the entry behind entry i and all below it
Look(st, s) == MenuIsVisible(kco_prog, st, s)

(* check_conf: what is visible, can be changed and has no value, makes it  *)
(* walk the menu again.                                                    *)
NewHere(s, st) ==
    /\ s \notin st.has
    /\ \/ Changeable(st, s)
       \/ s = kco_prog.choice /\ st.curr[s] = 2

CheckEntry ==
    /\ kco_pc = "check" /\ kco_i <= Len(Menu)
    /\ \E r \in {Look(kco_st, Menu[kco_i])} :
          LET walk == r.v /\ NewHere(Menu[kco_i], r.st) /\ Asking
          IN  /\ kco_st' = r.st /\ kco_j' = 1
              /\ kco_i' = IF r.v THEN kco_i + 1 ELSE Behind(kco_i)
              /\ kco_pc' = IF walk THEN "walk" ELSE "check"
              /\ kco_cnt' = kco_cnt + (IF walk THEN 1 ELSE 0)
              /\ kco_walks' = kco_walks + (IF walk THEN 1 ELSE 0)
    /\ UNCHANGED <<kco_prog, kco_mode, kco_new, kco_old>>

(* main: update until a loop caused no more changes. *)
Again == kco_cnt # 0
CheckEnd ==
    /\ kco_pc = "check" /\ kco_i > Len(Menu)
    /\ kco_pc' = IF Again THEN "check" ELSE "done"
    /\ kco_i' = IF Again THEN 1 ELSE kco_i
    /\ kco_cnt' = 0
    /\ UNCHANGED <<kco_prog, kco_mode, kco_st, kco_j, kco_walks, kco_new, kco_old>>

-----------------------------------------------------------------------------
(* conf: one entry of the walk.  conf_askvalue keeps what cannot be        *)
(* changed and, but for oldaskconfig, what has a value.                    *)
Ask(s, st) == Changeable(st, s) /\ (kco_mode = "oldaskconfig" \/ s \notin st.has)

(* Where the standard input is no terminal, a question ends silentoldconfig. *)
Aborts == kco_mode = "silent"

SkipEntry ==
    /\ kco_pc = "walk" /\ kco_j <= Len(Menu)
    /\ \E s \in {Menu[kco_j]} : \E r \in {Look(kco_st, s)} :
          /\ kco_st' = r.st
          /\ \/ ~r.v /\ kco_j' = Behind(kco_j)
             \/ r.v /\ s # kco_prog.choice /\ ~Ask(s, r.st) /\ kco_j' = kco_j + 1
    /\ UNCHANGED <<kco_pc, kco_prog, kco_mode, kco_i, kco_cnt, kco_walks, kco_new, kco_old>>

(* conf_sym: the answer is n, m, y or nothing, which stands for the        *)
(* present value, also at the end of the input; a value that is refused is *)
(* asked for again.                                                        *)
AskSym ==
    /\ kco_pc = "walk" /\ kco_j <= Len(Menu)
    /\ \E s \in {Menu[kco_j]} : \E st \in {r.st : r \in {x \in {Look(kco_st, s)} : x.v}} :
            /\ s # kco_prog.choice /\ Ask(s, st)
            /\ IF Aborts THEN kco_pc' = "aborted" /\ UNCHANGED <<kco_st, kco_j>>
               ELSE /\ \E r \in {SetTri(kco_prog, st, s, v) : v \in 0 .. 2} :
                            r # <<>> /\ kco_st' = r[1]
                    /\ kco_j' = kco_j + 1 /\ UNCHANGED kco_pc
    /\ UNCHANGED <<kco_prog, kco_mode, kco_i, kco_cnt, kco_walks, kco_new, kco_old>>

(* conf_choice: first the choice as a symbol. *)
AskChoice ==
    /\ kco_pc = "walk" /\ kco_j <= Len(Menu)
    /\ \E s \in {Menu[kco_j]} : \E st \in {r.st : r \in {x \in {Look(kco_st, s)} : x.v}} :
            /\ s = kco_prog.choice
            /\ kco_new' = (s \notin st.has)
            /\ IF Ask(s, st) /\ Aborts THEN kco_pc' = "aborted" /\ UNCHANGED <<kco_st, kco_j>>
               ELSE \E r \in IF Ask(s, st) THEN {SetTri(kco_prog, st, s, v) : v \in 0 .. 2}
                             ELSE {<<st>>} :
                        /\ r # <<>>
                        /\ kco_st' = Calc(kco_prog, r[1], s)
                        /\ IF kco_st'.curr[s] = 2 THEN kco_pc' = "choose" /\ UNCHANGED kco_j
                           ELSE /\ kco_pc' = "walk"
                                /\ kco_j' = IF kco_st'.curr[s] = 1 THEN kco_j + 1 ELSE Behind(kco_j)
    /\ UNCHANGED <<kco_prog, kco_mode, kco_i, kco_cnt, kco_walks, kco_old>>

(* Then one of its visible values: the only one, the present one if it is  *)
(* not new, or what is answered.                                           *)
Choose ==
    /\ kco_pc = "choose"
    /\ \E st \in {CalcAll(kco_prog, kco_st, kco_prog.values)} :
        LET keep == kco_mode # "oldaskconfig" /\ ~kco_new
            free == Cardinality(ShownValues(kco_prog, st)) > 1 /\ ~keep
            some == IF free \/ Cardinality(ShownValues(kco_prog, st)) = 1
                    THEN ShownValues(kco_prog, st) ELSE {st.cval}
        IN  IF free /\ Aborts THEN kco_pc' = "aborted" /\ UNCHANGED <<kco_st, kco_j>>
            ELSE /\ \E r \in {SetTri(kco_prog, st, v, 2) : v \in some} :
                        kco_st' = IF r = <<>> THEN st ELSE r[1]
                 /\ kco_pc' = "walk" /\ kco_j' = Behind(kco_j)
    /\ UNCHANGED <<kco_prog, kco_mode, kco_i, kco_cnt, kco_walks, kco_new, kco_old>>

WalkEnd ==
    /\ kco_pc = "walk" /\ kco_j > Len(Menu)
    /\ kco_pc' = "check"
    /\ kco_mode' = IF kco_mode = "oldaskconfig" THEN "oldconfig" ELSE kco_mode
    /\ UNCHANGED <<kco_prog, kco_st, kco_i, kco_j, kco_cnt, kco_walks, kco_new, kco_old>>

KcoNext ==
    \/ CheckEntry \/ CheckEnd \/ SkipEntry \/ AskSym \/ AskChoice \/ Choose \/ WalkEnd

-----------------------------------------------------------------------------
(* When conf is done, everything that the user can see and change counts   *)
(* as set by the user, although answers make other symbols appear behind   *)
(* the walk: it was read or asked for, or was marked as set by             *)
(* menu_is_visible when only something below it could be seen, and is then *)
(* never asked for (menu.c:493-498).                                       *)
Above(s) == {t \in Syms(kco_prog) : s \in Range(kco_prog.below[t])}
AllAsked ==
    kco_pc = "done" /\ Asking =>
        \E st \in {CalcAll(kco_prog, [kco_st EXCEPT !.valid = {}], kco_prog.syms)} :
            \A s \in Syms(kco_prog) :
                (\A t \in Above(s) : st.vis[t] # 0) /\ st.vis[s] # 0 => ~NewHere(s, st)

(* It gets there: each walk answers something for good. *)
WalksBounded == kco_pc # "off" => kco_walks <= Cardinality(Syms(kco_prog))

(* conf keeps the values that it read, unless all are asked for; of the    *)
(* members of a choice one stands for all.                                 *)
KeepsOld ==
    kco_pc # "off" /\ kco_old.mode # "oldaskconfig" =>
        \A s \in kco_old.has \ ({kco_prog.choice} \cup Range(kco_prog.values)) :
            kco_st.user[s] = kco_old.user[s]

-----------------------------------------------------------------------------
(***************************************************************************)
(* conf_write_autoconf (confdata.c): after a change of the configuration,  *)
(* the header of every symbol that changed is touched and autoconf.h,      *)
(* tristate.conf and auto.conf are replaced, auto.conf last; a build       *)
(* rebuilds what depends on a touched header.  conf may stop anywhere.     *)
(***************************************************************************)

CONSTANTS KaSyms,           \* the symbols, in the order of the symbol table
          KaValues,         \* their values: 0 is n, or not written
          KaChanges         \* bound on changes of the configuration and on stops

VARIABLES ka_pc, ka_val,    \* the configuration
          ka_auto,          \* auto.conf: 0 where a symbol is not in it
          ka_header,        \* autoconf.h
          ka_touched,       \* symbols whose header is newer than what depends on it
          ka_new,           \* auto.conf is newer than .config
          ka_built,         \* the value that was built with
          ka_i, ka_n

kaVars == <<ka_pc, ka_val, ka_auto, ka_header, ka_touched, ka_new, ka_built, ka_i, ka_n>>

KaAll == Range(KaSyms)

KaOff ==
    /\ ka_pc = "off" /\ ka_val = <<>> /\ ka_auto = <<>> /\ ka_header = <<>> /\ ka_touched = {}
    /\ ka_new = FALSE /\ ka_built = <<>> /\ ka_i = 0 /\ ka_n = 0

(* After a first build. *)
KaInit ==
    /\ ka_val \in [KaAll -> KaValues]
    /\ ka_auto = ka_val /\ ka_header = ka_val /\ ka_built = ka_val
    /\ ka_pc = "idle" /\ ka_touched = {} /\ ka_new = TRUE /\ ka_i = 0 /\ ka_n = 0

Configure ==
    /\ ka_pc = "idle" /\ ka_n < KaChanges /\ ka_n' = ka_n + 1
    /\ ka_val' \in [KaAll -> KaValues] /\ ka_new' = FALSE
    /\ UNCHANGED <<ka_pc, ka_auto, ka_header, ka_touched, ka_built, ka_i>>

Start ==
    /\ ka_pc = "idle" /\ ~ka_new
    /\ ka_pc' = "split" /\ ka_i' = 1
    /\ UNCHANGED <<ka_val, ka_auto, ka_header, ka_touched, ka_new, ka_built, ka_n>>

(* conf_split_config: a symbol whose old value, from auto.conf, differs.   *)
Differs(s) == ka_val[s] # ka_auto[s]
Split ==
    /\ ka_pc = "split" /\ ka_i <= Len(KaSyms)
    /\ ka_touched' = ka_touched \cup {s \in {KaSyms[ka_i]} : Differs(s)}
    /\ ka_i' = ka_i + 1
    /\ UNCHANGED <<ka_pc, ka_val, ka_auto, ka_header, ka_new, ka_built, ka_n>>

SplitEnd ==
    /\ ka_pc = "split" /\ ka_i > Len(KaSyms) /\ ka_pc' = "header"
    /\ UNCHANGED <<ka_val, ka_auto, ka_header, ka_touched, ka_new, ka_built, ka_i, ka_n>>

(* The files are written under other names and renamed. *)
RenameHeader ==
    /\ ka_pc = "header" /\ ka_pc' = "auto"
    /\ ka_header' = ka_val
    /\ UNCHANGED <<ka_val, ka_auto, ka_touched, ka_new, ka_built, ka_i, ka_n>>

RenameAuto ==
    /\ ka_pc = "auto" /\ ka_pc' = "idle"
    /\ ka_auto' = ka_val /\ ka_new' = TRUE
    /\ UNCHANGED <<ka_val, ka_header, ka_touched, ka_built, ka_i, ka_n>>

(* A file cannot be opened or renamed, or conf is stopped. *)
Stop ==
    /\ ka_pc \in {"split", "header", "auto"} /\ ka_n < KaChanges /\ ka_n' = ka_n + 1
    /\ ka_pc' = "idle"
    /\ UNCHANGED <<ka_val, ka_auto, ka_header, ka_touched, ka_new, ka_built, ka_i>>

(* The build, which make starts once auto.conf is up to date. *)
Build ==
    /\ ka_pc = "idle" /\ ka_new
    /\ ka_built' = [s \in KaAll |-> IF s \in ka_touched THEN ka_header[s] ELSE ka_built[s]]
    /\ ka_touched' = {}
    /\ ka_pc' = "built"
    /\ UNCHANGED <<ka_val, ka_auto, ka_header, ka_new, ka_i, ka_n>>

Continue ==
    /\ ka_pc = "built" /\ ka_n < KaChanges /\ ka_pc' = "idle"
    /\ UNCHANGED <<ka_val, ka_auto, ka_header, ka_touched, ka_new, ka_built, ka_i, ka_n>>

KaNext ==
    \/ Configure \/ Start \/ Split \/ SplitEnd \/ RenameHeader \/ RenameAuto
    \/ Stop \/ Build \/ Continue

-----------------------------------------------------------------------------
(* Everything is built with the present configuration, whatever was        *)
(* changed, stopped and changed back since the last build.                 *)
BuiltCurrent == ka_pc = "built" => ka_built = ka_val
=============================================================================
