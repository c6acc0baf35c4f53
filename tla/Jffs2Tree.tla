------------------------------ MODULE Jffs2Tree ------------------------------
(***************************************************************************)
(* mkfs.jffs2.c: the tree of entries, made from the directory of the host  *)
(* and then changed line by line by the device table.                      *)
(***************************************************************************)
EXTENDS Integers, Sequences, FiniteSets, FiniteSetsExt, SequencesExt

CONSTANTS JtHosts,          \* hosts: sequences of [path, t, uid, w, rdev] in the order of the scan
          JtLines,          \* lines of device tables
          JtMaxLines,
          JtSquash          \* settings of squash_uids and squash_perms

VARIABLES jt_pc, jt_host,
          jt_at,            \* host entries scanned
          jt_squash,        \* <<squash_uids, squash_perms>>
          jt_squashed,      \* their values before the table
          jt_e,             \* the entries in the order they were made; jt_e[1] is the root
          jt_files,         \* files lists: entries of each entry
          jt_lines,         \* the lines read
          jt_status

jtVars == <<jt_pc, jt_host, jt_at, jt_squash, jt_squashed, jt_e, jt_files, jt_lines, jt_status>>

JtOff ==
    /\ jt_pc = "off" /\ jt_host = <<>> /\ jt_at = 0 /\ jt_squash = <<FALSE, FALSE>>
    /\ jt_squashed = <<FALSE, FALSE>> /\ jt_e = <<>> /\ jt_files = <<>> /\ jt_lines = <<>> /\ jt_status = 0

(* A path is a sequence of names; a name a word and, of a row of devices,  *)
(* its number.  A mode is a type and whether more than the owner may write *)
(* or a set-id bit is set.                                                 *)
JtInit ==
    /\ jt_pc = "scan" /\ jt_host \in JtHosts /\ jt_at = 0 /\ jt_squash \in JtSquash
    /\ jt_squashed = jt_squash /\ jt_e = <<>> /\ jt_files = <<>> /\ jt_lines = <<>> /\ jt_status = 0

(* find_filesystem_entry: 0 is NULL. *)
IsParentOf(p, q) == Len(p) < Len(q) /\ SubSeq(q, 1, Len(p)) = p
RECURSIVE FindIn(_, _), FindAmong(_, _)
FindIn(dir, full) ==
    IF jt_e[dir].t = "d" /\ jt_e[dir].path = full THEN dir
    ELSE FindAmong(IF jt_e[dir].t = "d" THEN jt_files[dir] ELSE <<dir>>, full)
FindAmong(list, full) ==
    IF list = <<>> THEN 0
    ELSE LET e == Head(list)
         IN  IF jt_e[e].path = full THEN e
             ELSE IF jt_e[e].t = "d" /\ IsParentOf(jt_e[e].path, full)
                  THEN IF jt_files[e] # <<>> THEN FindIn(e, full) ELSE 0
                  ELSE FindAmong(Tail(list), full)
Find(full) == FindIn(1, full)

HostAt(path) == {i \in DOMAIN jt_host : jt_host[i].path = path}

(* add_host_filesystem_entry: what the entry is, whether it dies, and the  *)
(* entry hooked in behind its brothers.                                    *)
Dies(path, t) == IF HostAt(path) # {} THEN \E i \in HostAt(path) : jt_host[i].t # t ELSE t = "f"
Squashed(e, sq) == [e EXCEPT !.uid = IF sq[1] THEN 0 ELSE @, !.w = @ /\ ~(sq[2] /\ e.t # "l")]
AddTo(es, e, sq) == Append(es, Squashed(e, sq))
HookTo(files, parent, n) == Append(IF parent = 0 THEN files ELSE [files EXCEPT ![parent] = Append(@, n)], <<>>)

(* recursive_add_host_directory, an entry at a time. *)
DirOf(path) == SubSeq(path, 1, Len(path) - 1)
ParentIn(es, path) == IF path = <<>> THEN 0 ELSE CHOOSE i \in DOMAIN es : es[i].path = DirOf(path)
ScanEntry ==
    /\ jt_pc = "scan" /\ jt_at < Len(jt_host)
    /\ LET h == jt_host[jt_at + 1]
       IN  /\ jt_e' = AddTo(jt_e, h, jt_squash)
           /\ jt_files' = HookTo(jt_files, ParentIn(jt_e, h.path), Len(jt_e) + 1)
    /\ jt_at' = jt_at + 1
    /\ UNCHANGED <<jt_pc, jt_host, jt_squash, jt_squashed, jt_lines, jt_status>>

(* parse_device_table turns squashing off. *)
SquashOfTable(sq) == <<FALSE, FALSE>>
ScanEnd ==
    /\ jt_pc = "scan" /\ jt_at = Len(jt_host)
    /\ jt_squash' = SquashOfTable(jt_squash) /\ jt_pc' = "table"
    /\ UNCHANGED <<jt_host, jt_at, jt_squashed, jt_e, jt_files, jt_lines, jt_status>>

(* interpret_table_entry. *)
Many(l) == l.count > 0 /\ l.t \in {"c", "b"}
New(l, path, rdev) == [path |-> path, t |-> l.t, uid |-> l.uid, w |-> l.w, rdev |-> rdev]
FixRdev(l, old) == IF l.major # 0 /\ l.minor # 0 THEN <<l.major, l.minor>> ELSE old
Fixup(l, i) ==
    /\ jt_e' = [jt_e EXCEPT ![i] = New(l, l.path, FixRdev(l, jt_e[i].rdev))]
    /\ UNCHANGED <<jt_pc, jt_files, jt_status>>
Row(l) == [j \in 1 .. l.count |->
              [path |-> Append(DirOf(l.path), <<l.path[Len(l.path)][1], l.start + j - 1>>),
               rdev |-> <<l.major, l.minor + (j - 1) * l.inc>>]]
Devices(l) == IF Many(l) THEN Row(l)
              ELSE <<[path |-> l.path, rdev |-> IF l.t \in {"c", "b"} THEN <<l.major, l.minor>> ELSE <<0, 0>>]>>

Skip == jt_status' = 1 /\ UNCHANGED <<jt_pc, jt_e, jt_files>>
Add(l, parent) ==
    LET ds == Devices(l)
    IN  IF l.t = "l" \/ (\E j \in DOMAIN ds : Dies(ds[j].path, l.t))
        THEN jt_pc' = "died" /\ UNCHANGED <<jt_e, jt_files, jt_status>>
        ELSE /\ jt_e' = FoldLeft(LAMBDA es, d : AddTo(es, New(l, d.path, d.rdev), jt_squash), jt_e, ds)
             /\ jt_files' = FoldLeft(LAMBDA fs, d : HookTo(fs, parent, Len(fs) + 1), jt_files, ds)
             /\ UNCHANGED <<jt_pc, jt_status>>
TableLine ==
    /\ jt_pc = "table" /\ Len(jt_lines) < JtMaxLines
    /\ \E l \in JtLines :
          LET i == Find(l.path)
              parent == Find(DirOf(l.path))
          IN  /\ jt_lines' = Append(jt_lines, l)
              /\ IF i # 0 /\ ~Many(l) THEN Fixup(l, i)
                 ELSE IF parent = 0 THEN Skip ELSE Add(l, parent)
    /\ UNCHANGED <<jt_host, jt_at, jt_squash, jt_squashed>>
TableEnd ==
    /\ jt_pc = "table" /\ jt_lines # <<>> /\ jt_pc' = "exit"
    /\ UNCHANGED <<jt_host, jt_at, jt_squash, jt_squashed, jt_e, jt_files, jt_lines, jt_status>>

JtNext == ScanEntry \/ ScanEnd \/ TableLine \/ TableEnd

-----------------------------------------------------------------------------
Prefix(p, q) == Len(p) <= Len(q) /\ SubSeq(q, 1, Len(p)) = p
Reachable(i) == \A j \in DOMAIN jt_e : jt_e[j].path # jt_e[i].path /\ Prefix(jt_e[j].path, jt_e[i].path) => jt_e[j].t = "d"

(* The last line that names an entry decides what it is, as the table      *)
(* says it and unsquashed: wherever it has a place to be, below            *)
(* directories only, there is an entry of that name, type, owner and mode, *)
(* whether the line found it or made it.                                   *)
TableDecides ==
    jt_pc = "exit" =>
        \A n \in DOMAIN jt_lines :
            LET l == jt_lines[n]
            IN  /\ ~Many(l)
                /\ \A m \in n + 1 .. Len(jt_lines) : ~Prefix(jt_lines[m].path, l.path)
                /\ \E p \in DOMAIN jt_e : jt_e[p].path = DirOf(l.path) /\ jt_e[p].t = "d" /\ Reachable(p)
                                            /\ ~\E m \in n + 1 .. Len(jt_lines) : Prefix(DirOf(l.path), jt_lines[m].path)
                => \E i \in DOMAIN jt_e : /\ jt_e[i].path = l.path /\ jt_e[i].t = l.t
                                          /\ jt_e[i].uid = l.uid /\ jt_e[i].w = l.w

(* An entry no line names keeps what the host says of it, squashed as      *)
(* asked for, symbolic links with their mode.                              *)
HostSquashed ==
    jt_pc \notin {"off", "died"} =>
        \A i \in 1 .. jt_at :
            (\A n \in DOMAIN jt_lines : jt_lines[n].path # jt_e[i].path) =>
                /\ jt_e[i].t = jt_host[i].t /\ jt_e[i].rdev = jt_host[i].rdev
                /\ jt_e[i].uid = IF jt_squashed[1] THEN 0 ELSE jt_host[i].uid
                /\ jt_e[i].w = (jt_host[i].w /\ ~(jt_squashed[2] /\ jt_host[i].t # "l"))

(* A directory has two entries of one name only if a line with a count     *)
(* made one of them, which looks for the name without a number, or if a    *)
(* line had made something else of the directory, which hides what it has. *)
NamesOnce ==
    (\A n \in DOMAIN jt_lines :
        /\ ~Many(jt_lines[n])
        /\ \A i \in DOMAIN jt_e : IsParentOf(jt_lines[n].path, jt_e[i].path) => jt_lines[n].t = "d") =>
        \A d \in DOMAIN jt_files : \A i, j \in DOMAIN jt_files[d] :
            jt_e[d].t = "d" /\ jt_e[jt_files[d][i]].path = jt_e[jt_files[d][j]].path => i = j
=============================================================================
