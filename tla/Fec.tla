--------------------------------- MODULE Fec ---------------------------------
(***************************************************************************)
(* lib/libfec.c: the erasure code of the multicast tools over GF(2^bits).  *)
(* A code for k of n packets is made, some k packets are encoded, in any   *)
(* order and with repetitions, and decoded again.  Source packet i is 1 at *)
(* its i-th symbol, so that the decoded packets show the whole linear map. *)
(* Indexes begin at 0 as in the code.                                      *)
(***************************************************************************)
EXTENDS Integers, Sequences, FiniteSets, FiniteSetsExt, SequencesExt, Bitwise

CONSTANTS FeCodes,          \* [bits, k, n, more]: a code, and symbols of a packet beyond k
          FeIndexes(_, _),  \* the index vectors tried for k and n
          FeUnroll          \* UNROLL

VARIABLES fe_pc, fe_c, fe_t, fe_p, fe_coef, fe_m, fe_enc, fe_pkt, fe_sent, fe_index, fe_i, fe_piv, fe_swap, fe_ret

feVars == <<fe_pc, fe_c, fe_t, fe_p, fe_coef, fe_m, fe_enc, fe_pkt, fe_sent, fe_index, fe_i, fe_piv, fe_swap, fe_ret>>
feCode == <<fe_c, fe_t, fe_p, fe_coef, fe_enc>>
feRecv == <<fe_pkt, fe_sent, fe_index, fe_piv, fe_swap, fe_ret>>

FeBlank ==
    /\ fe_t = [size |-> 2 ^ fe_c.bits - 1, exp |-> <<>>, log |-> <<>>] /\ fe_p = <<>> /\ fe_coef = <<>> /\ fe_m = <<>> /\ fe_enc = <<>> /\ fe_pkt = <<>> /\ fe_sent = <<>>
    /\ fe_index = <<>> /\ fe_i = 0 /\ fe_piv = <<>> /\ fe_swap = <<>> /\ fe_ret = -1
FeOff == fe_pc = "off" /\ fe_c = [bits |-> 2, k |-> 0, n |-> 0, more |-> 0] /\ FeBlank
FeInit == fe_pc = "new" /\ fe_c \in FeCodes /\ FeBlank

K == 0 .. fe_c.k - 1

(* allPp, the primitive polynomials, lowest power first. *)
AllPp(bits) ==
    CASE bits = 2 -> <<1, 1, 1>>
      [] bits = 3 -> <<1, 1, 0, 1>>
      [] bits = 4 -> <<1, 1, 0, 0, 1>>
      [] bits = 8 -> <<1, 0, 1, 1, 1, 0, 0, 0, 1>>

(* generate_gf: the power after e, and the tables when all are known. *)
GfTop(bits) == MapThenSumSet(LAMBDA i : AllPp(bits)[i + 1] * 2 ^ i, 0 .. bits - 1)
GfShift(bits, e) == IF e >= 2 ^ (bits - 1) THEN GfTop(bits) ^^ ((e - 2 ^ (bits - 1)) * 2) ELSE 2 * e
GfNext(bits, exp) ==
    LET i == Len(exp) IN IF i < bits THEN 2 ^ i ELSE IF i = bits THEN GfTop(bits) ELSE GfShift(bits, Last(exp))
Extended(t) == [i \in 0 .. 2 * t.size - 1 |-> t.exp[(i % t.size) + 1]]
Logs(t) ==
    [x \in 0 .. t.size |-> IF x = 0 THEN t.size ELSE Max({0} \cup {i \in 0 .. t.size - 1 : t.exp[i + 1] = x})]

(* modnn; gf_mul through its table (init_mul_table); inverse. *)
RECURSIVE Modnn(_, _)
Modnn(x, size) ==
    IF x < size THEN x ELSE Modnn(((x - size) \div (size + 1)) + ((x - size) % (size + 1)), size)
Mul(x, y) == IF x = 0 \/ y = 0 THEN 0 ELSE fe_t.exp[Modnn(fe_t.log[x] + fe_t.log[y], fe_t.size)]
Inverse1(x) == IF x < 2 THEN x ELSE fe_t.exp[fe_t.size - fe_t.log[x]]

(* addmul: whole rounds of UNROLL symbols, then the rest up to a limit     *)
(* that is moved back first.                                               *)
RoundLimit(sz) == sz - FeUnroll + 1
Rounds(sz) == Cardinality({r \in 0 .. sz : r * FeUnroll < RoundLimit(sz)})
RestLimit(sz) == RoundLimit(sz) + FeUnroll - 1
AddMul(dst, src, c) ==
    IF c = 0 THEN dst
    ELSE [s \in DOMAIN dst |->
             IF s <= Rounds(Len(dst)) * FeUnroll \/ s <= RestLimit(Len(dst)) THEN dst[s] ^^ Mul(c, src[s]) ELSE dst[s]]

(* fec_new: the tables on the first call, the parameters, the Vandermonde  *)
(* matrix with 0 as the first element.                                     *)
BadParameters == fe_c.k > 2 ^ fe_c.bits \/ fe_c.n > 2 ^ fe_c.bits \/ fe_c.k > fe_c.n
Vandermonde(t) ==
    [r \in 0 .. fe_c.n - 1 |->
        [c \in K |-> IF r = 0 THEN (IF c = 0 THEN 1 ELSE 0) ELSE t.exp[Modnn((r - 1) * c, t.size)]]]
Generate ==
    /\ fe_pc = "new" /\ Len(fe_t.exp) < fe_t.size
    /\ fe_t' = [fe_t EXCEPT !.exp = Append(@, GfNext(fe_c.bits, @))]
    /\ UNCHANGED <<fe_pc, fe_c, fe_p, fe_coef, fe_m, fe_enc, fe_i, feRecv>>
New ==
    /\ fe_pc = "new" /\ Len(fe_t.exp) = fe_t.size
    /\ fe_t' = [fe_t EXCEPT !.exp = Extended(fe_t), !.log = Logs(fe_t)]
    /\ \/ BadParameters /\ fe_pc' = "null" /\ UNCHANGED <<fe_m, fe_p, fe_coef, fe_i>>
       \/ /\ ~BadParameters /\ fe_m' = Vandermonde(fe_t') /\ fe_i' = 1
          /\ IF fe_c.k = 1 THEN fe_pc' = "systematic" /\ UNCHANGED <<fe_p, fe_coef>>
             ELSE /\ fe_pc' = "coefficients" /\ fe_p' = [i \in K |-> fe_m'[i][1]]
                  /\ fe_coef' = [i \in K |-> IF i = fe_c.k - 1 THEN fe_m'[0][1] ELSE 0]
    /\ UNCHANGED <<fe_c, fe_enc, feRecv>>

(* invert_vdm: the coefficients of the product of all x - p[i], then by    *)
(* synthetic division one column of the inverse per p[row].                *)
Coefficient ==
    /\ fe_pc = "coefficients"
    /\ IF fe_i = fe_c.k THEN fe_pc' = "columns" /\ fe_i' = 0 /\ UNCHANGED fe_coef
       ELSE /\ fe_coef' = [j \in K |->
                   IF j = fe_c.k - 1 THEN fe_coef[j] ^^ fe_p[fe_i]
                   ELSE IF j >= fe_c.k - fe_i THEN fe_coef[j] ^^ Mul(fe_p[fe_i], fe_coef[j + 1]) ELSE fe_coef[j]]
            /\ fe_i' = fe_i + 1 /\ UNCHANGED fe_pc
    /\ UNCHANGED <<fe_c, fe_t, fe_p, fe_m, fe_enc, feRecv>>
Quotient(xx) ==
    LET b[i \in K] == IF i = fe_c.k - 1 THEN 1 ELSE LET up == b[i + 1] IN fe_coef[i + 1] ^^ Mul(xx, up) IN b
ValueAt(xx, b) ==
    LET t[i \in K] == IF i = fe_c.k - 1 THEN 1 ELSE LET up == t[i + 1] IN Mul(xx, up) ^^ b[i] IN t[0]
Column ==
    /\ fe_pc = "columns"
    /\ IF fe_i = fe_c.k THEN fe_pc' = "systematic" /\ UNCHANGED <<fe_m, fe_i>>
       ELSE /\ LET xx == fe_p[fe_i] b == Quotient(xx)
               IN  fe_m' = [r \in DOMAIN fe_m |->
                               IF r \in K THEN [fe_m[r] EXCEPT ![fe_i] = Mul(Inverse1(ValueAt(xx, b)), b[r])] ELSE fe_m[r]]
            /\ fe_i' = fe_i + 1 /\ UNCHANGED fe_pc
    /\ UNCHANGED <<feCode, feRecv>>

(* matmul for the lower rows, the identity above them. *)
Dot(row, col) == FoldSet(LAMBDA i, sum : Mul(fe_m[row][i], fe_m[i][col]) ^^ sum, 0, K)
UnitRow(r) == [c \in K |-> IF c = r THEN 1 ELSE 0]
Systematic ==
    /\ fe_pc = "systematic" /\ fe_pc' = "ready"
    /\ fe_enc' = [r \in DOMAIN fe_m |-> IF r \in K THEN UnitRow(r) ELSE [c \in K |-> Dot(r, c)]]
    /\ fe_m' = <<>> /\ fe_i' = 0
    /\ UNCHANGED <<fe_c, fe_t, fe_p, fe_coef, feRecv>>

(* fec_encode: a source packet is copied, any other one is a combination;  *)
(* an invalid index leaves the buffer as it was, here all 0.               *)
Size == fe_c.k + fe_c.more
Source(i) == [s \in 1 .. Size |-> IF s = i + 1 \/ s > fe_c.k THEN 1 ELSE 0]
Zero == [s \in 1 .. Size |-> 0]
Encode(index) ==
    IF index < fe_c.k THEN Source(index)
    ELSE IF index < fe_c.n
         THEN FoldLeft(LAMBDA pkt, i : AddMul(pkt, Source(i - 1), fe_enc[index][i - 1]), Zero, [i \in 1 .. fe_c.k |-> i])
         ELSE Zero
Receive ==
    /\ fe_pc = "ready" /\ fe_pc' = "shuffle"
    /\ fe_index' \in FeIndexes(fe_c.k, fe_c.n) /\ fe_sent' = fe_index'
    /\ fe_pkt' = [i \in K |-> Encode(fe_index'[i])]
    /\ UNCHANGED <<feCode, fe_m, fe_i, fe_piv, fe_swap, fe_ret>>

Return(ret) == fe_pc' = "done" /\ fe_ret' = ret

(* shuffle: source packets go to their places. *)
Exchanged(f, i, j) == [f EXCEPT ![i] = f[j], ![j] = f[i]]
PacketsStay(i, j) == fe_pkt                 \* mutant: only the indexes are exchanged
PacketsMove(i, j) == Exchanged(fe_pkt, i, j)
Shuffle ==
    /\ fe_pc = "shuffle" /\ fe_i < fe_c.k
    /\ LET c == fe_index[fe_i]
       IN  \/ (c >= fe_c.k \/ c = fe_i) /\ fe_i' = fe_i + 1 /\ UNCHANGED <<fe_pc, fe_index, fe_pkt, fe_ret>>
           \/ /\ c < fe_c.k /\ c # fe_i /\ fe_index[c] = c /\ Return(1) /\ UNCHANGED <<fe_i, fe_index, fe_pkt>>
           \/ /\ c < fe_c.k /\ c # fe_i /\ fe_index[c] # c
              /\ fe_index' = Exchanged(fe_index, fe_i, c) /\ fe_pkt' = PacketsMove(fe_i, c)
              /\ UNCHANGED <<fe_pc, fe_i, fe_ret>>
    /\ UNCHANGED <<feCode, fe_m, fe_sent, fe_piv, fe_swap>>

(* build_decode_matrix. *)
Build ==
    /\ fe_pc = "shuffle" /\ fe_i = fe_c.k
    /\ \/ /\ \E i \in K : fe_index[i] >= fe_c.n
          /\ Return(1) /\ UNCHANGED <<fe_m, fe_piv, fe_i>>
       \/ /\ \A i \in K : fe_index[i] < fe_c.n
          /\ fe_m' = [i \in K |-> IF fe_index[i] < fe_c.k THEN UnitRow(i) ELSE fe_enc[fe_index[i]]]
          /\ fe_pc' = "invert" /\ fe_piv' = [i \in K |-> 0] /\ fe_i' = 0 /\ UNCHANGED fe_ret
    /\ UNCHANGED <<feCode, fe_pkt, fe_sent, fe_index, fe_swap>>

(* invert_mat, one column: a pivot on the diagonal or the first one in the *)
(* rows not yet used, its row scaled and taken from the others.            *)
Free == {<<r, x>> \in K \X K : fe_piv[r] # 1 /\ fe_piv[x] = 0 /\ fe_m[r][x] # 0}
First(S) == CHOOSE a \in S : \A b \in S : a[1] < b[1] \/ (a[1] = b[1] /\ a[2] <= b[2])
Pivots == IF fe_piv[fe_i] # 1 /\ fe_m[fe_i][fe_i] # 0 THEN {<<fe_i, fe_i>>} ELSE IF Free = {} THEN {} ELSE {First(Free)}
AsVector(row) == [s \in 1 .. fe_c.k |-> row[s - 1]]
AsRow(vec) == [c \in K |-> vec[c + 1]]
Scaled(row, x) == IF row[x] = 1 THEN row ELSE [c \in K |-> Mul(Inverse1(row[x]), IF c = x THEN 1 ELSE row[c])]
Eliminated(m, pivot, x) ==
    [r \in K |-> IF r = x THEN pivot
                 ELSE IF pivot = UnitRow(x) THEN m[r]
                 ELSE AsRow(AddMul(AsVector([m[r] EXCEPT ![x] = 0]), AsVector(pivot), m[r][x]))]
Singular == Pivots = {}
Pivot ==
    /\ fe_pc = "invert" /\ fe_i < fe_c.k
    /\ \/ Singular /\ Return(1) /\ UNCHANGED <<fe_m, fe_piv, fe_swap, fe_i>>
       \/ /\ ~Singular /\ UNCHANGED <<fe_pc, fe_ret>>
          /\ \E p \in IF Pivots = {} THEN {<<fe_i, fe_i>>} ELSE Pivots :
                LET m == Exchanged(fe_m, p[1], p[2])
                IN  fe_m' = Eliminated(m, Scaled(m[p[2]], p[2]), p[2])
                    /\ fe_piv' = [fe_piv EXCEPT ![p[2]] = @ + 1] /\ fe_swap' = Append(fe_swap, p)
          /\ fe_i' = fe_i + 1
    /\ UNCHANGED <<feCode, fe_pkt, fe_sent, fe_index>>
(* The columns back in order, last exchange first. *)
Unscramble ==
    /\ fe_pc = "invert" /\ fe_i = fe_c.k
    /\ IF fe_swap = <<>> THEN fe_pc' = "decode" /\ UNCHANGED <<fe_m, fe_swap>>
       ELSE /\ fe_m' = [r \in K |-> Exchanged(fe_m[r], Last(fe_swap)[1], Last(fe_swap)[2])]
            /\ fe_swap' = Front(fe_swap) /\ UNCHANGED fe_pc
    /\ UNCHANGED <<feCode, fe_pkt, fe_sent, fe_index, fe_piv, fe_i, fe_ret>>

(* fec_decode: the missing packets from all that arrived, moved when all   *)
(* are made.                                                               *)
Decoded(row) ==
    FoldLeft(LAMBDA pkt, c : AddMul(pkt, fe_pkt[c - 1], fe_m[row][c - 1]), Zero, [c \in 1 .. fe_c.k |-> c])
Decode ==
    /\ fe_pc = "decode" /\ Return(0)
    /\ fe_pkt' = [r \in K |-> IF fe_index[r] >= fe_c.k THEN Decoded(r) ELSE fe_pkt[r]]
    /\ UNCHANGED <<feCode, fe_m, fe_sent, fe_index, fe_i, fe_piv, fe_swap>>

FeNext ==
    \/ Generate \/ New \/ Coefficient \/ Column \/ Systematic \/ Receive \/ Shuffle \/ Build \/ Pivot \/ Unscramble \/ Decode

Valid ==
    /\ \A i \in K : fe_sent[i] < fe_c.n
    /\ \A i, j \in K : i # j => fe_sent[i] # fe_sent[j]

(* Any k different packets of the n, in any order, give back the k source  *)
(* packets: what recv_image relies on when it counts packets (fec_new,     *)
(* fec_encode, fec_decode).                                                *)
FecDecodes ==
    fe_pc = "done" /\ Valid => fe_ret = 0 /\ \A i \in K : fe_pkt[i] = Source(i)

(* Packets among which one occurs twice or has an invalid index are        *)
(* refused, never decoded to something else (shuffle, build_decode_matrix, *)
(* invert_mat).                                                            *)
FecRefuses == fe_pc = "done" /\ ~Valid => fe_ret = 1

(* While packets are moved to their places each stays with its index, and  *)
(* none is lost; at the end every source packet is at its own place.       *)
FecPairs ==
    /\ fe_pc \in {"shuffle", "invert", "decode"} => \A i \in K : fe_pkt[i] = Encode(fe_index[i])
    /\ fe_pc \in {"shuffle", "invert", "decode"} =>
          \E f \in [K -> K] : (\A i, j \in K : i # j => f[i] # f[j]) /\ \A i \in K : fe_index[i] = fe_sent[f[i]]
    /\ fe_pc \in {"invert", "decode"} => \A i \in K : fe_index[i] < fe_c.k => fe_index[i] = i

(* The tables are those of a field: the powers reach every element but 0   *)
(* once, each element has its inverse, and each step of the powers is the  *)
(* multiplication by 2 (generate_gf, init_mul_table).  This is what        *)
(* test_gf tests, but for exp[log[0]], which is 1 and which it reports.    *)
FecField ==
    fe_pc \in {"null", "ready"} =>
        /\ {fe_t.exp[i] : i \in 0 .. fe_t.size - 1} = 1 .. fe_t.size
        /\ \A x \in 1 .. fe_t.size : Mul(x, Inverse1(x)) = 1 /\ Mul(2, x) = GfShift(fe_c.bits, x)
=============================================================================
