---------------------------- MODULE Jffs2Reader ----------------------------
(***************************************************************************)
(* jffs2reader.c: the listing of a directory from the nodes of an image,   *)
(* in the order of their versions, and the resolution of a path.           *)
(*                                                                         *)
(* An image is a sequence of items in the order of their offsets: a        *)
(* directory entry, an inode node, another node, or "pad" for a run of     *)
(* words without the magic number.  A pointer into the image is the index  *)
(* of an item, and Len + 1 is its end.                                     *)
(***************************************************************************)
EXTENDS Integers, Sequences, FiniteSets

CONSTANTS JrImages,         \* the images
          JrInf,            \* ~0, above every version
          JrMaxLinks,       \* 16: the depth at which symlinks are given up
          JrMaxTurns        \* bound on the turns of one collectdir

VARIABLES jr_pc,
          jr_img,
          jr_ino,           \* the directory being collected
          jr_path,          \* and its path
          jr_n, jr_lr, jr_mp,
          jr_vmint, jr_vmaxt, jr_vmax, jr_vcur,
          jr_dir,           \* struct dir: the list so far
          jr_turns,
          jr_stack,         \* callers: the lists still to be printed
          jr_out            \* what was printed: path, inode, type

jrPointers == <<jr_n, jr_lr, jr_mp>>
jrVersions == <<jr_vmint, jr_vmaxt, jr_vmax, jr_vcur>>
jrVars == <<jr_pc, jr_img, jr_ino, jr_path, jrPointers, jrVersions, jr_dir, jr_turns,
            jr_stack, jr_out>>

Dirent(pino, name, ino, version, type) ==
    [k |-> "dirent", pino |-> pino, name |-> name, ino |-> ino, version |-> version, type |-> type]
Pad == [k |-> "pad"]

Collecting(ino) ==
    /\ jr_ino' = ino /\ jr_dir' = <<>> /\ jr_turns' = 0
    /\ jr_n' = 1 /\ jr_lr' = 1 /\ jr_mp' = 0
    /\ jr_vmint' = JrInf /\ jr_vmaxt' = 0 /\ jr_vmax' = JrInf /\ jr_vcur' = 0

JrOff ==
    /\ jr_pc = "off" /\ jr_img = <<>> /\ jr_ino = 0 /\ jr_path = <<>>
    /\ jr_n = 0 /\ jr_lr = 0 /\ jr_mp = 0 /\ jr_dir = <<>> /\ jr_turns = 0
    /\ jr_vmint = 0 /\ jr_vmaxt = 0 /\ jr_vmax = 0 /\ jr_vcur = 0
    /\ jr_stack = <<>> /\ jr_out = {}

JrStart(img) ==
    /\ jr_img = img /\ jr_pc = "collect" /\ jr_ino = 1 /\ jr_path = <<>>
    /\ jr_n = 1 /\ jr_lr = 1 /\ jr_mp = 0 /\ jr_dir = <<>> /\ jr_turns = 0
    /\ jr_vmint = JrInf /\ jr_vmaxt = 0 /\ jr_vmax = JrInf /\ jr_vcur = 0
    /\ jr_stack = <<>> /\ jr_out = {}
JrInit == \E img \in JrImages : JrStart(img)

-----------------------------------------------------------------------------
(* putdir: an entry is added, takes the place of the one with its name, or *)
(* (inode 0) removes it.                                                   *)
PutDirTwice(list, d) ==                 \* mutant: the old entry of the name is left in the list
    IF d.ino = 0 THEN SelectSeq(list, LAMBDA x : x.name # d.name)
    ELSE Append(list, [name |-> d.name, ino |-> d.ino, type |-> d.type])
Listed(d) == [name |-> d.name, ino |-> d.ino, type |-> d.type]
PutDir(list, d) ==
    IF d.ino = 0 THEN SelectSeq(list, LAMBDA x : x.name # d.name)
    ELSE IF \E i \in DOMAIN list : list[i].name = d.name
         THEN [i \in DOMAIN list |-> IF list[i].name = d.name THEN Listed(d) ELSE list[i]]
         ELSE Append(list, Listed(d))

(* collectdir: one turn of the loop.  Entries are taken in the order of    *)
(* their versions: the next version at once when the scan meets it, else   *)
(* the least version above the current one after a whole loop.             *)
End == Len(jr_img) + 1
NextNode(n) == CHOOSE i \in n .. End : /\ (i < End => jr_img[i].k # "pad")
                                      /\ \A j \in n .. i - 1 : jr_img[j].k = "pad"

MaxSeen(seen) == seen

Newer(d) == d.version > jr_vcur

CollectTurn ==
    /\ jr_pc = "collect" /\ jr_vcur < jr_vmax /\ jr_turns < JrMaxTurns
    /\ \E i \in {NextNode(jr_n)} :
       LET at == IF i < End THEN jr_img[i] ELSE Pad
           hit == at.k = "dirent" /\ at.pino = jr_ino /\ Newer(at)
           exact == hit /\ at.version = jr_vcur + 1
           n == IF i < End THEN i + 1 ELSE 1
           lr == IF exact THEN i ELSE jr_lr
           vmaxt == IF hit /\ at.version > jr_vmaxt THEN at.version ELSE jr_vmaxt
           least == hit /\ at.version < jr_vmint
           mp == IF least THEN i ELSE jr_mp
           vmint == IF exact THEN JrInf ELSE IF least THEN at.version ELSE jr_vmint
           vcur == IF exact THEN jr_vcur + 1 ELSE jr_vcur
           list == IF exact THEN PutDir(jr_dir, at) ELSE jr_dir
           whole == lr = n
           oldest == whole /\ vcur < vmaxt /\ vcur < vmint
       IN  /\ jr_vmaxt' = vmaxt /\ jr_mp' = mp
           /\ jr_vmax' = IF whole THEN MaxSeen(vmaxt) ELSE jr_vmax
           /\ jr_vmint' = IF whole THEN JrInf ELSE vmint
           /\ jr_vcur' = IF oldest THEN vmint ELSE vcur
           /\ jr_dir' = IF oldest THEN PutDir(list, jr_img[mp]) ELSE list
           /\ jr_n' = IF oldest THEN mp + 1 ELSE n
           /\ jr_lr' = IF oldest THEN mp + 1 ELSE lr
    /\ jr_turns' = jr_turns + 1
    /\ UNCHANGED <<jr_pc, jr_img, jr_ino, jr_path, jr_stack, jr_out>>

CollectEnd ==
    /\ jr_pc = "collect" /\ jr_vcur >= jr_vmax
    /\ jr_stack' = <<[path |-> jr_path, rest |-> jr_dir]>> \o jr_stack
    /\ jr_pc' = "print"
    /\ UNCHANGED <<jr_img, jr_ino, jr_path, jrPointers, jrVersions, jr_dir, jr_turns, jr_out>>

-----------------------------------------------------------------------------
(* find_raw_inode: the node of version 1, else the one of the least        *)
(* version; the first in the image where two share it.                     *)
InodesOf(ino) == {i \in DOMAIN jr_img : jr_img[i].k = "inode" /\ jr_img[i].ino = ino
                                        /\ jr_img[i].version > 0}
FindRawInode(ino) ==
    IF InodesOf(ino) = {} THEN 0
    ELSE CHOOSE i \in InodesOf(ino) :
             \A j \in InodesOf(ino) \ {i} :
                \/ jr_img[i].version < jr_img[j].version
                \/ jr_img[i].version = jr_img[j].version /\ i < j

(* resolvedirent: among the entries that match, the first of the greatest  *)
(* version above 0.                                                        *)
NoDirent == Dirent(0, "", 0, 0, "none")
NewestOf(S) ==
    CHOOSE i \in S : \A j \in S \ {i} : \/ jr_img[i].version > jr_img[j].version
                                        \/ jr_img[i].version = jr_img[j].version /\ i < j
SeenDirents == {i \in DOMAIN jr_img : jr_img[i].k = "dirent" /\ jr_img[i].version > 0}
ResolveDirent(S) == IF S = {} THEN NoDirent ELSE jr_img[NewestOf(S)]
ResolveName(pino, name) == ResolveDirent({i \in SeenDirents : jr_img[i].pino = pino /\ jr_img[i].name = name})
ResolveInode(ino) == IF ino <= 1 THEN NoDirent ELSE ResolveDirent({i \in SeenDirents : jr_img[i].ino = ino})

(* resolvepath0: "." and "..", and symlinks up to a depth.  A path is a    *)
(* sequence of names, with "/" first where it is absolute.                 *)
Nowhere == [dir |-> NoDirent, ino |-> 0]
Absolute(path) == path # <<>> /\ Head(path) = "/"

ParentOf(dir) == IF dir.pino = 1 THEN [dir |-> NoDirent, ino |-> 1]
                 ELSE LET d == ResolveInode(dir.pino) IN [dir |-> d, ino |-> d.ino]

RECURSIVE Walk(_, _, _, _), ResolvePath0(_, _, _)
Walk(names, dir, ino, recc) ==
    IF ino = 0 \/ names = <<>> THEN [dir |-> dir, ino |-> ino]
    ELSE LET d == ResolveName(ino, Head(names))
             Through(e) == Tail(names) = <<>> \/ e.type \in {"dir", "lnk"}
             r == ResolvePath0(ino, jr_img[FindRawInode(d.ino)].target, recc + 1)
             up == ParentOf(dir)
         IN  CASE Head(names) = "." -> Walk(Tail(names), dir, ino, recc)
               [] Head(names) = ".." -> Walk(Tail(names), up.dir, up.ino, recc)
               [] OTHER ->
                    IF d.ino = 0 \/ ~Through(d) THEN Nowhere
                    ELSE IF d.type # "lnk" THEN Walk(Tail(names), d, d.ino, recc)
                    ELSE IF r.dir # NoDirent /\ ~Through(r.dir) THEN Nowhere
                    ELSE Walk(Tail(names), r.dir, r.ino, recc + 1)
ResolvePath0(ino, path, recc) ==
    IF recc > JrMaxLinks THEN Nowhere
    ELSE IF Absolute(path) THEN Walk(Tail(path), NoDirent, 1, recc)
    ELSE LET dir == ResolveInode(ino)
         IN  Walk(path, dir, IF ino > 1 THEN dir.ino ELSE ino, recc)
Resolve(path) == ResolvePath0(1, <<"/">> \o path, 0)

-----------------------------------------------------------------------------
(* printdir: one entry; a directory is listed before the next entry, found *)
(* again by its path.                                                      *)
Top == Head(jr_stack)
PrintEntry ==
    /\ jr_pc = "print" /\ jr_stack # <<>> /\ Top.rest # <<>>
    /\ LET e == Head(Top.rest)
           path == Append(Top.path, e.name)
           found == Resolve(path)
           stack == <<[Top EXCEPT !.rest = Tail(@)]>> \o Tail(jr_stack)
           enter == FindRawInode(e.ino) # 0 /\ e.type = "dir"
       IN  /\ jr_out' = IF FindRawInode(e.ino) # 0 THEN jr_out \cup {<<path, e.ino, e.type>>} ELSE jr_out
           /\ jr_stack' = stack
           /\ IF enter /\ found.ino # 0 /\ found.dir.type \in {"none", "dir"}
              THEN Collecting(found.ino) /\ jr_path' = path /\ jr_pc' = "collect"
              ELSE /\ jr_pc' = IF enter THEN "died" ELSE "print"
                   /\ UNCHANGED <<jr_ino, jr_path, jrPointers, jrVersions, jr_dir, jr_turns>>
    /\ UNCHANGED jr_img

PrintEnd ==
    /\ jr_pc = "print" /\ jr_stack # <<>> /\ Top.rest = <<>>
    /\ jr_stack' = Tail(jr_stack)
    /\ jr_pc' = IF Tail(jr_stack) = <<>> THEN "exit" ELSE "print"
    /\ UNCHANGED <<jr_img, jr_ino, jr_path, jrPointers, jrVersions, jr_dir, jr_turns, jr_out>>

JrNext == CollectTurn \/ CollectEnd \/ PrintEntry \/ PrintEnd
JrEnded == jr_pc \in {"exit", "died"} \/ jr_turns = JrMaxTurns

-----------------------------------------------------------------------------
Dirents == {i \in DOMAIN jr_img : jr_img[i].k = "dirent" /\ jr_img[i].pino = jr_ino}
Distinct == \A i, j \in Dirents : i # j => jr_img[i].version # jr_img[j].version
LastOf(name) == {i \in Dirents : /\ jr_img[i].name = name /\ jr_img[i].version > 0
                                 /\ \A j \in Dirents : jr_img[j].name = name =>
                                        jr_img[j].version <= jr_img[i].version}

(* What collectdir lists, however the versions lie in the image, is for    *)
(* each name its entry of the greatest version, unless that one is a       *)
(* deletion, and nothing twice.  (Version 0 is never seen, and two entries *)
(* of one version are one.)                                                *)
ListedByVersion ==
    jr_pc = "print" /\ jr_stack # <<>> /\ Distinct /\ jr_vcur >= jr_vmax /\ Top.rest = jr_dir =>
        /\ {jr_dir[k] : k \in DOMAIN jr_dir} =
               {Listed(jr_img[i]) : i \in {j \in UNION {LastOf(jr_img[x].name) : x \in Dirents} :
                                            jr_img[j].ino # 0}}
        /\ \A a, b \in DOMAIN jr_dir : jr_dir[a].name = jr_dir[b].name => a = b

AllDirents == {i \in DOMAIN jr_img : jr_img[i].k = "dirent"}
AllDistinct == \A i, j \in AllDirents : i # j => jr_img[i].version # jr_img[j].version

(* The two ways to an entry agree: the path of every entry that was        *)
(* printed, but a symlink, resolves to the inode it was printed with,      *)
(* although collectdir goes by all versions in turn and resolvename by the *)
(* greatest.                                                               *)
PathsResolve ==
    jr_pc # "off" /\ AllDistinct => \A p \in jr_out : p[3] # "lnk" => Resolve(p[1]).ino = p[2]

(* From a directory that was printed, k times ".." leads to the directory  *)
(* k levels above it, where every inode has one entry.                     *)
RECURSIVE Ups(_)
Ups(k) == IF k = 0 THEN <<>> ELSE Append(Ups(k - 1), "..")
UpLeadsUp ==
    jr_pc \in {"exit", "died"}
    /\ (\A i, j \in AllDirents : i # j => jr_img[i].ino # jr_img[j].ino) =>
        \A p \in jr_out : p[3] = "dir" =>
            \A k \in 1 .. Len(p[1]) :
                Resolve(p[1] \o Ups(k)).ino = Resolve(SubSeq(p[1], 1, Len(p[1]) - k)).ino

(* collectdir ends within a scan of the image for each entry and two more, *)
(* where no entry lies right behind padding.  (Where one does, the pointer *)
(* comparison that ends the loop steps over it: see the README.)           *)
ScansBounded ==
    jr_pc = "collect" /\ (\A i \in Dirents : i > 1 => jr_img[i - 1].k # "pad") =>
        jr_turns <= (Cardinality(Dirents) + 2) * (Len(jr_img) + 1)
=============================================================================
