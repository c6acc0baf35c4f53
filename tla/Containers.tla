----------------------------- MODULE Containers -----------------------------
(***************************************************************************)
(* The chained hash table of mkfs.ubifs (hashtable.c, hashtable_itr.c) as  *)
(* the device table uses it: a key is searched before it is inserted, and  *)
(* while an iterator is in use the table changes only through it.          *)
(***************************************************************************)
EXTENDS Integers, Sequences, FiniteSets, SequencesExt

CONSTANTS HtKeys,
          HtHash,           \* hash(): key -> number
          HtPrimes,         \* the sizes of the table
          HtMaxOps

VARIABLES ht_pc,
          ht_table,         \* index -> chain of [k, h, v]
          ht_prime, ht_limit, ht_count,
          ht_itr,           \* [on, e, parent, index]
          ht_map,           \* what the callers have stored
          ht_seen, ht_due,  \* the keys an iteration gave, and those it has to give
          ht_ops

htVars == <<ht_pc, ht_table, ht_prime, ht_limit, ht_count, ht_itr, ht_map, ht_seen, ht_due, ht_ops>>
htIter == <<ht_itr, ht_seen, ht_due>>

NoEntry == "NULL"
NoValue == 0
NoItr == [on |-> FALSE, e |-> NoEntry, parent |-> NoEntry, index |-> 0]
Empty(n) == [i \in 0 .. n - 1 |-> <<>>]

HtOff ==
    /\ ht_pc = "off" /\ ht_table = <<>> /\ ht_prime = 1 /\ ht_limit = 0 /\ ht_count = 0 /\ ht_itr = NoItr
    /\ ht_map = <<>> /\ ht_seen = <<>> /\ ht_due = {} /\ ht_ops = 0

(* The load factor is 0.65. *)
LoadLimit(n) == (n * 65 + 99) \div 100

(* create_hashtable. *)
HtInit ==
    /\ ht_pc = "run" /\ ht_prime = 1 /\ ht_table = Empty(HtPrimes[1]) /\ ht_limit = LoadLimit(HtPrimes[1])
    /\ ht_count = 0 /\ ht_itr = NoItr /\ ht_map = <<>> /\ ht_seen = <<>> /\ ht_due = {}
    /\ ht_ops = 0

Length(table) == Cardinality(DOMAIN table)
IndexFor(n, h) == h % n
Chain(table, k) == table[IndexFor(Length(table), HtHash[k])]
KeyAt(chain, k) == {i \in DOMAIN chain : chain[i].h = HtHash[k] /\ chain[i].k = k}

(* Every chain from its head on is pushed onto chains of the new table. *)
Push(table, index, e) == [table EXCEPT ![index] = <<e>> \o @]
Move(table, e, n) == Push(table, IndexFor(n, e.h), e)
Expanded(table, n) ==
    LET all == FoldLeft(LAMBDA s, i : s \o table[i], <<>>, [i \in 1 .. Length(table) |-> i - 1])
    IN  FoldLeft(LAMBDA t, e : Move(t, e, n), Empty(n), all)

(* hashtable_insert: the table is expanded when it gets too full.  At the  *)
(* largest size, or without memory, it is not, and the entry is put in     *)
(* nevertheless; without memory for the entry nothing is.  Where only      *)
(* realloc has memory, the code clears memory through a pointer it never   *)
(* set.                                                                    *)
Insert ==
    /\ ~ht_itr.on
    /\ \E k \in HtKeys \ DOMAIN ht_map, v \in 1 .. 2 :
          LET full == ht_count + 1 > ht_limit
              more == ht_prime < Len(HtPrimes)
              store(table, prime, limit) ==
                 \/ /\ ht_table' = Push(table, IndexFor(Length(table), HtHash[k]), [k |-> k, h |-> HtHash[k], v |-> v])
                    /\ ht_prime' = prime /\ ht_limit' = limit /\ ht_count' = ht_count + 1
                    /\ ht_map' = [x \in DOMAIN ht_map \cup {k} |-> IF x = k THEN v ELSE ht_map[x]]
                    /\ UNCHANGED ht_pc
                 \/ /\ ht_table' = table /\ ht_prime' = prime /\ ht_limit' = limit
                    /\ UNCHANGED <<ht_pc, ht_count, ht_map>>
          IN  \/ full /\ more /\ store(Expanded(ht_table, HtPrimes[ht_prime + 1]), ht_prime + 1,
                                       LoadLimit(HtPrimes[ht_prime + 1]))
              \/ full /\ more /\ ht_pc' = "undefined" /\ UNCHANGED <<ht_table, ht_prime, ht_limit, ht_count, ht_map>>
              \/ store(ht_table, ht_prime, ht_limit)
    /\ UNCHANGED <<htIter>>

(* hashtable_search. *)
Least(S) == CHOOSE x \in S : \A y \in S : x <= y
Search(k) ==
    LET chain == Chain(ht_table, k)
    IN  IF KeyAt(chain, k) = {} THEN NoValue ELSE chain[Least(KeyAt(chain, k))].v

Without(map, k) == [x \in DOMAIN map \ {k} |-> map[x]]

(* hashtable_remove. *)
CountLess == ht_count - 1
RemoveKey ==
    /\ ~ht_itr.on
    /\ \E k \in HtKeys :
          LET chain == Chain(ht_table, k)
              i == CHOOSE j \in KeyAt(chain, k) : TRUE
          IN  IF KeyAt(chain, k) = {} THEN UNCHANGED <<ht_table, ht_count, ht_map>>
              ELSE /\ ht_table' = [ht_table EXCEPT ![IndexFor(Length(ht_table), HtHash[k])] = RemoveAt(chain, i)]
                   /\ ht_count' = CountLess /\ ht_map' = Without(ht_map, k)
    /\ UNCHANGED <<ht_pc, ht_prime, ht_limit, htIter>>

(* hashtable_iterator: the head of the first chain there is.  Without      *)
(* memory it gives NULL, through which the callers read.                   *)
Full(table, from) == {i \in DOMAIN table : i >= from /\ table[i] # <<>>}
Iterator ==
    /\ ~ht_itr.on /\ UNCHANGED ht_pc
    /\ ht_itr' = IF ht_count = 0 THEN [NoItr EXCEPT !.on = TRUE, !.index = Length(ht_table)]
                 ELSE LET i == Least(Full(ht_table, 0))
                      IN  [on |-> TRUE, e |-> ht_table[i][1].k, parent |-> NoEntry, index |-> i]
    /\ ht_due' = DOMAIN ht_map
    /\ ht_seen' = IF ht_itr'.e = NoEntry THEN <<>> ELSE <<ht_itr'.e>>
    /\ UNCHANGED <<ht_table, ht_prime, ht_limit, ht_count, ht_map>>
NoIterator ==
    /\ ~ht_itr.on /\ ht_count > 0 /\ ht_pc' = "undefined"
    /\ UNCHANGED <<ht_table, ht_prime, ht_limit, ht_count, ht_map, htIter>>

(* hashtable_iterator_advance, in a table whose current entry may just     *)
(* have been taken out: its successor is known from the chain as it was.   *)
Succ(chain, k) == LET i == CHOOSE j \in DOMAIN chain : chain[j].k = k
                  IN  IF i = Len(chain) THEN NoEntry ELSE chain[i + 1].k
NextFull(table, itr) == Full(table, itr.index + 1)
Advanced(table, was, itr) ==
    LET next == Succ(was[itr.index], itr.e)
        rest == NextFull(table, itr)
    IN  IF next # NoEntry THEN [itr EXCEPT !.parent = itr.e, !.e = next]
        ELSE IF rest = {} THEN [itr EXCEPT !.parent = NoEntry, !.e = NoEntry, !.index = Length(table)]
        ELSE [itr EXCEPT !.parent = NoEntry, !.e = table[Least(rest)][1].k, !.index = Least(rest)]
Yield(itr) == ht_itr' = itr /\ ht_seen' = IF itr.e = NoEntry THEN ht_seen ELSE Append(ht_seen, itr.e)
Advance ==
    /\ ht_itr.on /\ ht_itr.e # NoEntry
    /\ Yield(Advanced(ht_table, ht_table, ht_itr))
    /\ UNCHANGED <<ht_pc, ht_table, ht_prime, ht_limit, ht_count, ht_map, ht_due>>

(* hashtable_iterator_remove: the entry leaves its chain, by its parent's  *)
(* link or as the head, and the iterator goes on.                          *)
Corrected(itr, was) == IF itr.parent = was.e THEN [itr EXCEPT !.parent = was.parent] ELSE itr
IteratorRemove ==
    /\ ht_itr.on /\ ht_itr.e # NoEntry
    /\ LET chain == ht_table[ht_itr.index]
           at(k) == CHOOSE j \in DOMAIN chain : chain[j].k = k
           after == SubSeq(chain, at(ht_itr.e) + 1, Len(chain))
           cut == IF ht_itr.parent = NoEntry THEN after
                  ELSE IF \A j \in DOMAIN chain : chain[j].k # ht_itr.parent THEN chain
                  ELSE SubSeq(chain, 1, at(ht_itr.parent)) \o after
           table == [ht_table EXCEPT ![ht_itr.index] = cut]
       IN  /\ ht_table' = table /\ ht_count' = ht_count - 1 /\ ht_map' = Without(ht_map, ht_itr.e)
           /\ Yield(Corrected(Advanced(table, ht_table, ht_itr), ht_itr))
    /\ UNCHANGED <<ht_pc, ht_prime, ht_limit, ht_due>>

(* hashtable_iterator_search: the iterator moved onto a key. *)
IteratorSearch ==
    /\ ht_itr.on
    /\ \E k \in HtKeys :
          LET chain == Chain(ht_table, k)
              i == Least(KeyAt(chain, k))
          IN  /\ KeyAt(chain, k) # {}
              /\ ht_itr' = [on |-> TRUE, e |-> k, parent |-> IF i = 1 THEN NoEntry ELSE chain[i - 1].k,
                            index |-> IndexFor(Length(ht_table), HtHash[k])]
    /\ ht_seen' = <<>> /\ ht_due' = {}
    /\ UNCHANGED <<ht_pc, ht_table, ht_prime, ht_limit, ht_count, ht_map>>

(* A caller that is done, at the end or by an error on the way, forgets    *)
(* its iterator; none is ever freed.                                       *)
DropIterator ==
    /\ ht_itr.on /\ ht_itr' = NoItr /\ ht_seen' = <<>> /\ ht_due' = {}
    /\ UNCHANGED <<ht_pc, ht_table, ht_prime, ht_limit, ht_count, ht_map>>

HtNext ==
    /\ ht_pc = "run" /\ ht_ops < HtMaxOps /\ ht_ops' = ht_ops + 1
    /\ \/ Insert \/ RemoveKey \/ Iterator \/ NoIterator \/ Advance \/ IteratorRemove \/ IteratorSearch \/ DropIterator
HtEnded == ht_pc = "undefined" \/ ht_ops = HtMaxOps

(* Whatever was inserted, removed, expanded or taken out by an iterator:   *)
(* hashtable_search finds the value of each key stored, nothing for any    *)
(* other key, and no chain holds more than the keys stored                 *)
(* (hashtable_insert, _expand, _remove, hashtable_iterator_remove).        *)
TableIsMap ==
    ht_pc # "off" =>
        /\ \A k \in HtKeys : Search(k) = IF k \in DOMAIN ht_map THEN ht_map[k] ELSE NoValue
        /\ \A i \in DOMAIN ht_table : \A j \in DOMAIN ht_table[i] : ht_table[i][j].k \in DOMAIN ht_map

(* hashtable_count, by which first_name_htbl_element decides whether there *)
(* is an element at all, is the number of keys stored.                     *)
CountTrue == ht_count = Cardinality(DOMAIN ht_map)

(* An iteration that got to its end gave every key that was stored when it *)
(* began, each once, also when it removed entries on the way               *)
(* (hashtable_iterator, hashtable_iterator_advance).                       *)
IterationOnce ==
    ht_itr.on /\ ht_itr.e = NoEntry /\ ht_seen # <<>> /\ ht_due # {} =>
        ToSet(ht_seen) = ht_due /\ Len(ht_seen) = Cardinality(ht_due)

-----------------------------------------------------------------------------
(***************************************************************************)
(* rbtree.c and rbtree.h of mtd-utils, the red-black tree in which         *)
(* mkfs.jffs2 finds hard links, one round of a loop at a time.  Nodes are  *)
(* numbers and 0 is NULL.  Node RbNodes + 1 has the key of node RbTwin and *)
(* takes its place or gives it back (rb_replace_node).  What is written    *)
(* once for "l" and once for "r" in the code is one definition with a side *)
(* here.                                                                   *)
(***************************************************************************)

CONSTANTS RbNodes, RbTwin

VARIABLES rb_pc, rb_t, rb_in, rb_node, rb_parent

rbVars == <<rb_pc, rb_t, rb_in, rb_node, rb_parent>>

AllNodes == 0 .. RbNodes + 1
Key(n) == IF n = RbNodes + 1 THEN RbTwin ELSE n
Twin(n) == IF n = RbTwin THEN RbNodes + 1 ELSE RbTwin
Bare == [root |-> 0, ch |-> [s \in {"l", "r"} |-> [n \in AllNodes |-> 0]], up |-> [n \in AllNodes |-> 0],
         red |-> [n \in AllNodes |-> FALSE]]
RbStart(pc) == rb_pc = pc /\ rb_t = Bare /\ rb_in = {} /\ rb_node = 0 /\ rb_parent = 0
RbOff == RbStart("off")
RbInit == RbStart("idle")

Flip(s) == IF s = "l" THEN "r" ELSE "l"
SideOf(t, n, p) == IF t.ch["l"][p] = n THEN "l" ELSE "r"
Black(t, n) == [t EXCEPT !.red[n] = FALSE]
Red(t, n) == [t EXCEPT !.red[n] = TRUE]
IsRed(t, n) == n # 0 /\ t.red[n]
Adopt(t, n, p) == IF n = 0 THEN t ELSE [t EXCEPT !.up[n] = p]
Relink(t, p, old, new) ==
    IF p = 0 THEN [t EXCEPT !.root = new] ELSE [t EXCEPT !.ch[SideOf(t, old, p)][p] = new]

(* __rb_rotate_left for "l", __rb_rotate_right for "r". *)
Rotate(t, n, s) ==
    LET u == t.ch[Flip(s)][n]
        inner == t.ch[s][u]
        hung == Adopt([t EXCEPT !.ch[Flip(s)][n] = inner, !.ch[s][u] = n], inner, n)
    IN  Adopt(Relink(Adopt(hung, u, t.up[n]), t.up[n], n, u), n, u)

(* find_hardlink of mkfs.jffs2: larger keys go to the left; rb_link_node. *)
LeftOf(n, at) == Key(at) < Key(n)
RECURSIVE Place(_, _)
Place(n, at) ==
    LET s == IF LeftOf(n, at) THEN "l" ELSE "r"
    IN  IF rb_t.ch[s][at] = 0 THEN <<at, s>> ELSE Place(n, rb_t.ch[s][at])
Free(n) == \A k \in rb_in : Key(k) # Key(n)
RbInsert ==
    /\ rb_pc = "idle" /\ rb_pc' = "insert" /\ rb_parent' = 0
    /\ \E n \in AllNodes \ {0} :
          /\ Free(n) /\ rb_node' = n /\ rb_in' = rb_in \cup {n}
          /\ rb_t' = IF rb_t.root = 0 THEN [Red(rb_t, n) EXCEPT !.root = n]
                     ELSE LET at == Place(n, rb_t.root)
                          IN  [Red(rb_t, n) EXCEPT !.up[n] = at[1], !.ch[at[2]][at[1]] = n]

(* rb_insert_color. *)
RedUncle(u) == IsRed(rb_t, u)
InsertColor ==
    /\ rb_pc = "insert" /\ UNCHANGED <<rb_in, rb_parent>>
    /\ LET p == rb_t.up[rb_node]
           g == rb_t.up[p]
           s == SideOf(rb_t, p, g)
           uncle == rb_t.ch[Flip(s)][g]
           bent == rb_t.ch[Flip(s)][p] = rb_node
           straight == IF bent THEN Rotate(rb_t, p, s) ELSE rb_t
           upper == IF bent THEN rb_node ELSE p
       IN  \/ /\ ~IsRed(rb_t, p) /\ rb_t' = Black(rb_t, rb_t.root) /\ rb_pc' = "idle" /\ rb_node' = 0
           \/ /\ IsRed(rb_t, p) /\ RedUncle(uncle) /\ UNCHANGED rb_pc
              /\ rb_t' = Red(Black(Black(rb_t, uncle), p), g) /\ rb_node' = g
           \/ /\ IsRed(rb_t, p) /\ ~RedUncle(uncle) /\ UNCHANGED rb_pc
              /\ rb_t' = Rotate(Red(Black(straight, upper), g), g, Flip(s))
              /\ rb_node' = IF bent THEN p ELSE rb_node

(* rb_erase: unlink the node itself, or put its successor in its place. *)
RECURSIVE Farthest(_, _)
Farthest(n, s) == IF rb_t.ch[s][n] = 0 THEN n ELSE Farthest(rb_t.ch[s][n], s)
Forget(t, n) == [t EXCEPT !.up[n] = 0, !.red[n] = FALSE, !.ch["l"][n] = 0, !.ch["r"][n] = 0]
Unlinked(n) ==
    LET child == IF rb_t.ch["l"][n] = 0 THEN rb_t.ch["r"][n] ELSE rb_t.ch["l"][n]
        parent == rb_t.up[n]
    IN  [t |-> Relink(Adopt(rb_t, child, parent), parent, n, child), child |-> child, parent |-> parent, red |-> rb_t.red[n]]
Succeeded(old) ==
    LET n == Farthest(rb_t.ch["r"][old], "l")
        child == rb_t.ch["r"][n]
        parent == rb_t.up[n]
        near == parent = old
        out == [Adopt(rb_t, child, parent) EXCEPT !.ch[IF near THEN "r" ELSE "l"][parent] = child]
        moved == [out EXCEPT !.up[n] = out.up[old], !.red[n] = out.red[old],
                             !.ch["l"][n] = out.ch["l"][old], !.ch["r"][n] = out.ch["r"][old]]
        hung == Relink(moved, out.up[old], old, n)
    IN  [t |-> Adopt(Adopt(hung, out.ch["l"][old], n), out.ch["r"][old], n), child |-> child,
         parent |-> IF near THEN n ELSE parent, red |-> rb_t.red[n]]
Erase ==
    /\ rb_pc = "idle"
    /\ \E n \in rb_in :
          LET e == IF rb_t.ch["l"][n] = 0 \/ rb_t.ch["r"][n] = 0 THEN Unlinked(n) ELSE Succeeded(n)
          IN  /\ rb_t' = Forget(e.t, n) /\ rb_in' = rb_in \ {n}
              /\ IF e.red THEN rb_pc' = "idle" /\ UNCHANGED <<rb_node, rb_parent>>
                 ELSE rb_pc' = "erase" /\ rb_node' = e.child /\ rb_parent' = e.parent

(* __rb_erase_color. *)
FarRed(t, other, s) == IsRed(t, t.ch[Flip(s)][other])
EraseColor ==
    /\ rb_pc = "erase" /\ UNCHANGED rb_in
    /\ LET p == rb_parent
           s == SideOf(rb_t, rb_node, p)
           first == rb_t.ch[Flip(s)][p]
           t1 == IF IsRed(rb_t, first) THEN Rotate(Red(Black(rb_t, first), p), p, s) ELSE rb_t
           other == t1.ch[Flip(s)][p]
           t2 == IF FarRed(t1, other, s) THEN t1
                 ELSE Rotate(Red(Black(t1, t1.ch[s][other]), other), other, Flip(s))
           o2 == t2.ch[Flip(s)][p]
           t3 == Black(Black([t2 EXCEPT !.red[o2] = t2.red[p]], p), t2.ch[Flip(s)][o2])
       IN  \/ /\ IsRed(rb_t, rb_node) \/ rb_node = rb_t.root
              /\ rb_t' = Black(rb_t, rb_node) /\ rb_pc' = "idle" /\ rb_node' = 0 /\ rb_parent' = 0
           \/ /\ ~IsRed(rb_t, rb_node) /\ rb_node # rb_t.root /\ UNCHANGED rb_pc
              /\ ~IsRed(t1, t1.ch["l"][other]) /\ ~IsRed(t1, t1.ch["r"][other])
              /\ rb_t' = Red(t1, other) /\ rb_node' = p /\ rb_parent' = t1.up[p]
           \/ /\ ~IsRed(rb_t, rb_node) /\ rb_node # rb_t.root /\ UNCHANGED rb_pc
              /\ IsRed(t1, t1.ch["l"][other]) \/ IsRed(t1, t1.ch["r"][other])
              /\ rb_t' = Rotate(t3, p, s) /\ rb_node' = rb_t'.root /\ rb_parent' = 0

(* rb_replace_node. *)
NotTold(t, victim, new) == t                                  \* mutant: the children keep the old parent
Told(t, victim, new) == Adopt(Adopt(t, t.ch["l"][victim], new), t.ch["r"][victim], new)
Replace ==
    /\ rb_pc = "idle" /\ UNCHANGED <<rb_pc, rb_node, rb_parent>>
    /\ \E v \in rb_in :
          LET t == Told(Relink(rb_t, rb_t.up[v], v, Twin(v)), v, Twin(v))
          IN  /\ Key(v) = RbTwin /\ rb_in' = (rb_in \ {v}) \cup {Twin(v)}
              /\ rb_t' = Forget([t EXCEPT !.up[Twin(v)] = t.up[v], !.red[Twin(v)] = t.red[v],
                                          !.ch["l"][Twin(v)] = t.ch["l"][v], !.ch["r"][Twin(v)] = t.ch["r"][v]], v)

RbNext == RbInsert \/ InsertColor \/ Erase \/ EraseColor \/ Replace

(* rb_first for "l" and rb_last for "r"; rb_next for "r" and rb_prev for   *)
(* "l".                                                                    *)
End(s) == IF rb_t.root = 0 THEN 0 ELSE Farthest(rb_t.root, s)
RECURSIVE Climb(_, _)
KeepClimbing(n, s) == IF rb_t.up[n] # 0 /\ rb_t.ch[s][rb_t.up[n]] = n THEN Climb(rb_t.up[n], s) ELSE rb_t.up[n]
Climb(n, s) == KeepClimbing(n, s)
Beside(n, s) == IF rb_t.ch[s][n] # 0 THEN Farthest(rb_t.ch[s][n], Flip(s)) ELSE Climb(n, s)

RECURSIVE InOrder(_)
InOrder(n) == IF n = 0 THEN <<>> ELSE InOrder(rb_t.ch["l"][n]) \o <<n>> \o InOrder(rb_t.ch["r"][n])
RECURSIVE Heights(_)
Heights(n) ==
    IF n = 0 THEN {0}
    ELSE {h + (IF rb_t.red[n] THEN 0 ELSE 1) : h \in Heights(rb_t.ch["l"][n]) \cup Heights(rb_t.ch["r"][n])}

(* Child and parent pointers agree, and the root has no parent, after      *)
(* every call (__rb_rotate_left, rb_erase, rb_replace_node).               *)
RbLinked ==
    rb_pc = "idle" =>
        /\ rb_t.up[rb_t.root] = 0 /\ (rb_in = {} <=> rb_t.root = 0)
        /\ \A n \in rb_in, s \in {"l", "r"} : rb_t.ch[s][n] # 0 => rb_t.ch[s][n] \in rb_in /\ rb_t.up[rb_t.ch[s][n]] = n
        /\ \A n \in rb_in \ {rb_t.root} : \E s \in {"l", "r"} : rb_t.ch[s][rb_t.up[n]] = n

(* The tree holds exactly the nodes inserted and not erased, in the order  *)
(* of the search, whatever rotations there were: no node that was put in   *)
(* is ever missed by find_hardlink.                                        *)
RbOrdered ==
    rb_pc = "idle" =>
        LET o == InOrder(rb_t.root)
        IN  {o[i] : i \in DOMAIN o} = rb_in /\ \A i, j \in DOMAIN o : i < j => Key(o[i]) > Key(o[j])

(* No red node has a red child, every path has the same number of black    *)
(* nodes and the root is black after every call (rb_insert_color,          *)
(* __rb_erase_color).                                                      *)
RbBalanced ==
    rb_pc = "idle" =>
        /\ Cardinality(Heights(rb_t.root)) = 1 /\ ~IsRed(rb_t, rb_t.root)
        /\ \A n \in rb_in : rb_t.red[n] => ~IsRed(rb_t, rb_t.ch["l"][n]) /\ ~IsRed(rb_t, rb_t.ch["r"][n])

(* rb_next and rb_prev go to the neighbours in the order of keys, from     *)
(* rb_first to rb_last and back.                                           *)
RbWalks ==
    rb_pc = "idle" =>
        LET o == InOrder(rb_t.root)
            Nth(i) == IF i \in DOMAIN o THEN o[i] ELSE 0
        IN  /\ \A i \in DOMAIN o : Beside(o[i], "r") = Nth(i + 1) /\ Beside(o[i], "l") = Nth(i - 1)
            /\ End("l") = Nth(1) /\ End("r") = Nth(Len(o))
=============================================================================
