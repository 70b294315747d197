----------------------------- MODULE DjlcArrays -----------------------------
(***************************************************************************)
(* The numbers, arrays and strings of djlc: matrix.h, mod_math.h,          *)
(* interval.h, utils.h, compare.h, string_utils.h and random.h.  A         *)
(* behaviour is one call on one input; arrays are sequences, indexed from  *)
(* one, and an int has the width IntBits.                                  *)
(***************************************************************************)
EXTENDS Integers, Sequences, FiniteSets, FiniteSetsExt, SequencesExt, Bitwise

CONSTANTS Nothing,
          IntBits,   \* of an int, and of a char
          WordBits,  \* of an unsigned int that holds a hash
          MaxN,      \* bound: rows of a matrix, elements of an array to shuffle
          Moduli,    \* primes
          Half,      \* intervals end in -Half .. Half - 1
          Intervals, \* bound: how many intervals
          Chars,     \* of strings: codes
          StrLen     \* bound: how long a string is

VARIABLES kind, obj, op, arg, answer
vars == <<kind, obj, op, arg, answer>>

Asked(name, a, result) ==
  op = "none" /\ op' = name /\ arg' = a /\ answer' = result /\ UNCHANGED <<kind, obj>>
SeqsOver(S, n) == UNION {[1..k -> S] : k \in 0..n}
Points == -Half..Half - 1
Ints == -(2^(IntBits - 1))..2^(IntBits - 1) - 1
(* What a subtraction of two ints leaves in an int.                        *)
Wrap(x) == ((x + 2^(IntBits - 1)) % (2^IntBits)) - 2^(IntBits - 1)
(* The operators / and % of C round towards zero.                          *)
CDiv(a, b) == IF a >= 0 THEN a \div b ELSE -((-a) \div b)
CMod(a, b) == a - b * CDiv(a, b)

-----------------------------------------------------------------------------
(* matrix.h.  A matrix of n rows maps the pairs of 0..n - 1 to numbers.    *)
Swapped(m, p, q) == [m EXCEPT ![p] = m[q], ![q] = m[p]]
Nest(rows, cols, P(_, _)) ==  \* the pairs that two nested loops go through
  SelectSeq([k \in 1..rows * cols |-> <<(k - 1) \div cols, (k - 1) % cols>>],
            LAMBDA c : P(c[1], c[2]))
Transpose(m, n) == FoldLeft(LAMBDA x, c : Swapped(x, c, <<c[2], c[1]>>), m,
                            Nest(n, n, LAMBDA i, j : j > i))
ReverseRows(m, n) == FoldLeft(LAMBDA x, c : Swapped(x, c, <<c[1], n - 1 - c[2]>>), m,
                              Nest(n, n, LAMBDA i, j : j < n - 1 - j))
ReverseCols(m, n) == FoldLeft(LAMBDA x, c : Swapped(x, c, <<n - 1 - c[1], c[2]>>), m,
                              Nest(n, n, LAMBDA i, j : i < n - 1 - i))
Rotate90Cw(m, n) == ReverseRows(Transpose(m, n), n)
Rotate90Ccw(m, n) == ReverseCols(Transpose(m, n), n)
Rotate180(m, n) == ReverseCols(ReverseRows(m, n), n)
FourWay(m, n, layer, i) ==
  LET last == n - 1 - layer
      back == last - (i - layer)
  IN  [m EXCEPT ![<<layer, i>>] = m[<<back, layer>>], ![<<back, layer>>] = m[<<last, back>>],
                ![<<last, back>>] = m[<<i, last>>], ![<<i, last>>] = m[<<layer, i>>]]
Rotate90Layer(m, n) == FoldLeft(LAMBDA x, c : FourWay(x, n, c[1], c[2]), m,
                                Nest(n \div 2, n, LAMBDA i, j : i <= j /\ j < n - 1 - i))
MatrixCopy(m, rows, cols) == [c \in (0..rows - 1) \X (0..cols - 1) |-> m[c]]
(* Every entry is its own place: what moved where is all there is to see.  *)
Places(n) == [c \in (0..n - 1) \X (0..n - 1) |-> c]
Matrices ==
  /\ kind = "matrix"
  /\ \E n \in 0..MaxN :
       \/ Asked("transpose", n, Transpose(Places(n), n))
       \/ Asked("reverse_rows", n, ReverseRows(Places(n), n))
       \/ Asked("reverse_cols", n, ReverseCols(Places(n), n))
       \/ Asked("rotate_90_cw", n, Rotate90Cw(Places(n), n))
       \/ Asked("rotate_90_ccw", n, Rotate90Ccw(Places(n), n))
       \/ Asked("rotate_180", n, Rotate180(Places(n), n))
       \/ Asked("rotate_90_layer", n, Rotate90Layer(Places(n), n))
       \/ Asked("matrix_copy", n, MatrixCopy(Places(n), n, n))
From(c) == LET z == arg - 1
           IN  CASE op = "transpose" -> <<c[2], c[1]>>
                 [] op = "reverse_rows" -> <<c[1], z - c[2]>>
                 [] op = "reverse_cols" -> <<z - c[1], c[2]>>
                 [] op \in {"rotate_90_cw", "rotate_90_layer"} -> <<z - c[2], c[1]>>
                 [] op = "rotate_90_ccw" -> <<c[2], z - c[1]>>
                 [] op = "rotate_180" -> <<z - c[1], z - c[2]>>
                 [] op = "matrix_copy" -> c
MatricesMeet == answer = [c \in DOMAIN Places(arg) |-> From(c)]

-----------------------------------------------------------------------------
(* mod_math.h, for moduli whose products fit into a long long.             *)
Mod(a, m) == LET r == CMod(a, m) IN IF r < 0 THEN r + m ELSE r
ModAdd(a, b, m) == Mod(Mod(a, m) + Mod(b, m), m)
ModSub(a, b, m) == Mod(Mod(a, m) - Mod(b, m) + m, m)
ModMul(a, b, m) == Mod(Mod(a, m) * Mod(b, m), m)
RECURSIVE PowFrom(_, _, _, _)
PowFrom(result, base, exp, m) ==
  IF exp <= 0 THEN result
  ELSE PowFrom(IF exp % 2 = 1 THEN ModMul(result, base, m) ELSE result,
               ModMul(base, base, m), exp \div 2, m)
ModPow(base, exp, m) == PowFrom(1, Mod(base, m), exp, m)
ModInv(a, m) == ModPow(a, m - 2, m)
ModDiv(a, b, m) == ModMul(a, ModInv(b, m), m)
FactorialInit(n, m) ==
  LET fact[i \in 0..n] == IF i = 0 THEN 1 ELSE ModMul(fact[i - 1], i, m)
      inv[i \in 0..n] == IF i = n THEN ModInv(fact[n], m) ELSE ModMul(inv[i + 1], i + 1, m)
  IN  [fact |-> fact, inv_fact |-> inv, size |-> n + 1, mod |-> m]
ModNcr(mf, n, r) == IF r < 0 \/ r > n THEN 0
                    ELSE ModMul(mf.fact[n], ModMul(mf.inv_fact[r], mf.inv_fact[n - r], mf.mod), mf.mod)
ModNpr(mf, n, r) == IF r < 0 \/ r > n THEN 0 ELSE ModMul(mf.fact[n], mf.inv_fact[n - r], mf.mod)
ModMath ==
  /\ kind = "mod_math"
  /\ \E m \in Moduli :
       \/ \E a \in -m..m + 1, b \in -m..m + 1 :
            \/ Asked("mod_add", <<a, b, m>>, ModAdd(a, b, m))
            \/ Asked("mod_sub", <<a, b, m>>, ModSub(a, b, m))
            \/ Asked("mod_mul", <<a, b, m>>, ModMul(a, b, m))
            \/ b >= 0 /\ Asked("mod_pow", <<a, b, m>>, ModPow(a, b, m))
            \/ b % m # 0 /\ Asked("mod_div", <<a, b, m>>, ModDiv(a, b, m))
       (* The factorials up to n, for n below the modulus.                 *)
       \/ \E n \in 0..m - 1 : \E k \in 0..n : \E r \in -1..k + 1 :
            \/ Asked("mod_ncr", <<k, r, m>>, ModNcr(FactorialInit(n, m), k, r))
            \/ Asked("mod_npr", <<k, r, m>>, ModNpr(FactorialInit(n, m), k, r))
Power(a, n) == IF n = 0 THEN 1 ELSE a^n  \* 0 to the 0 as well
Injections(r, k) == {f \in [1..r -> 1..k] : IsInjective(f)}
ModMathMeets ==
  LET a == arg[1]
      b == arg[2]
      m == arg[3]
  IN  /\ answer \in 0..m - 1
      /\ CASE op = "mod_add" -> answer = (a + b) % m
           [] op = "mod_sub" -> answer = (a - b) % m
           [] op = "mod_mul" -> answer = (a * b) % m
           [] op = "mod_pow" -> answer = Power(a, b) % m
           [] op = "mod_div" -> (answer * b) % m = a % m
           [] op = "mod_ncr" -> answer = (IF b < 0 THEN 0 ELSE Cardinality(kSubset(b, 1..a))) % m
           [] op = "mod_npr" -> answer = (IF b < 0 THEN 0 ELSE Cardinality(Injections(b, a))) % m

-----------------------------------------------------------------------------
(* interval.h.  An interval is <<start, end>>; swapping two equal ones in a *)
(* sort cannot be seen in any result.                                      *)
Pairs == {p \in Points \X Points : p[1] <= p[2]}
CmpByStart(a, b) == IF a[1] # b[1] THEN Wrap(a[1] - b[1]) ELSE Wrap(a[2] - b[2])
CmpByEnd(a, b) == IF a[2] # b[2] THEN Wrap(a[2] - b[2]) ELSE Wrap(a[1] - b[1])
PtrCmpStart(a, b) == Wrap(a[1] - b[1])
PtrCmpEnd(a, b) == Wrap(a[2] - b[2])
Sorted(s, Cmp(_, _)) == SortSeq(s, LAMBDA a, b : Cmp(a, b) < 0)
Overlaps(a, b) == a[1] < b[2] /\ b[1] < a[2]
IntervalContains(a, b) == a[1] <= b[1] /\ b[2] <= a[2]
MergeIntervals(a, b) == <<IF a[1] < b[1] THEN a[1] ELSE b[1], IF a[2] > b[2] THEN a[2] ELSE b[2]>>
Merged(result, x) ==
  LET top == Len(result)
  IN  IF x[1] <= result[top][2]
        THEN [result EXCEPT ![top][2] = IF x[2] > @ THEN x[2] ELSE @]
        ELSE Append(result, x)
IntervalMerge(s) == IF s = <<>> THEN <<>> ELSE FoldLeft(Merged, <<s[1]>>, Tail(s))
(* Mutant: an interval that begins where another ends is removed as well.  *)
RemoveTouching(s, x) == IF x[1] <= s.end THEN [s EXCEPT !.removed = @ + 1] ELSE [s EXCEPT !.end = x[2]]
RemoveOne(s, x) == IF x[1] < s.end THEN [s EXCEPT !.removed = @ + 1] ELSE [s EXCEPT !.end = x[2]]
MinRemove(s) == IF s = <<>> THEN 0
                ELSE LET t == Sorted(s, CmpByEnd)
                     IN  FoldLeft(RemoveOne, [end |-> t[1][2], removed |-> 0], Tail(t)).removed
RECURSIVE Bisect(_, _, _)
Bisect(lo, hi, right) ==  \* the loop of both binary searches
  IF lo >= hi THEN lo
  ELSE LET mid == lo + (hi - lo) \div 2
       IN  IF mid \in right THEN Bisect(lo, mid, right) ELSE Bisect(mid + 1, hi, right)
LowerBoundStart(s, target) == Bisect(0, Len(s), {i \in 0..Len(s) - 1 : s[i + 1][1] >= target})
UpperBoundEnd(s, target) == Bisect(0, Len(s), {i \in 0..Len(s) - 1 : s[i + 1][2] > target})
IntervalOps ==
  /\ kind = "interval"
  /\ \/ \E a \in Pairs, b \in Pairs :
          \/ Asked("overlaps", <<a, b>>, Overlaps(a, b))
          \/ Asked("contains", <<a, b>>, IntervalContains(a, b))
          \/ Overlaps(a, b) /\ Asked("merge_two", <<a, b>>, MergeIntervals(a, b))
          \/ Asked("cmp_by_start", <<a, b>>, CmpByStart(a, b))
          \/ Asked("cmp_by_end", <<a, b>>, CmpByEnd(a, b))
          \/ Asked("ptr_cmp_start", <<a, b>>, PtrCmpStart(a, b))
          \/ Asked("ptr_cmp_end", <<a, b>>, PtrCmpEnd(a, b))
     \/ \E s \in SeqsOver(Pairs, Intervals) :
          \/ Asked("merge", s, IntervalMerge(Sorted(s, CmpByStart)))
          \/ Asked("min_remove", s, MinRemove(s))
          \/ \E t \in Points :
               \/ Asked("lower_bound_start", <<s, t>>, LowerBoundStart(Sorted(s, CmpByStart), t))
               \/ Asked("upper_bound_end", <<s, t>>, UpperBoundEnd(Sorted(s, CmpByEnd), t))
(* Twice the numbers and the numbers between them stand for the real line. *)
Line(p) == 2 * p[1]..2 * p[2]
Inside(p) == 2 * p[1] + 1..2 * p[2] - 1
Sign(x) == IF x > 0 THEN 1 ELSE IF x < 0 THEN -1 ELSE 0
Lexical(a, b) == IF a[1] # b[1] THEN Sign(a[1] - b[1]) ELSE Sign(a[2] - b[2])
Turned(p) == <<p[2], p[1]>>
Disjoint(s, J) == \A i, j \in J : i # j => ~Overlaps(s[i], s[j])
IntervalsMeet ==
  CASE op = "overlaps" -> (\A i \in 1..2 : arg[i][1] < arg[i][2]) =>
                            answer = (Inside(arg[1]) \cap Inside(arg[2]) # {})
    [] op = "contains" -> answer = (Line(arg[2]) \subseteq Line(arg[1]))
    [] op = "merge_two" -> Line(answer) = Line(arg[1]) \cup Line(arg[2])
    [] op = "cmp_by_start" -> Sign(answer) = Lexical(arg[1], arg[2])
    [] op = "cmp_by_end" -> Sign(answer) = Lexical(Turned(arg[1]), Turned(arg[2]))
    [] op = "ptr_cmp_start" -> Sign(answer) = Sign(arg[1][1] - arg[2][1])
    [] op = "ptr_cmp_end" -> Sign(answer) = Sign(arg[1][2] - arg[2][2])
    [] op = "merge" ->
         /\ UNION {Line(answer[i]) : i \in 1..Len(answer)} = UNION {Line(arg[i]) : i \in 1..Len(arg)}
         /\ \A i \in 1..Len(answer) - 1 : answer[i][2] < answer[i + 1][1]
    [] op = "min_remove" ->
         answer = Min({Cardinality(D) : D \in {D \in SUBSET (1..Len(arg)) :
                                                 Disjoint(arg, 1..Len(arg) \ D)}})
    [] op = "lower_bound_start" ->
         answer = Cardinality({i \in 1..Len(arg[1]) : arg[1][i][1] < arg[2]})
    [] op = "upper_bound_end" ->
         answer = Cardinality({i \in 1..Len(arg[1]) : arg[1][i][2] <= arg[2]})

-----------------------------------------------------------------------------
(* utils.h.  Memory has two cells; a and b may point to the same one.      *)
MemCells == {1, 2}
SwapInt(mem, a, b) == [mem EXCEPT ![a] = mem[b], ![b] = mem[a]]
SwapIntXor(mem, a, b) ==
  IF a = b THEN mem
  ELSE LET m1 == [mem EXCEPT ![a] = mem[a] ^^ mem[b]]
           m2 == [m1 EXCEPT ![b] = m1[b] ^^ m1[a]]
       IN  [m2 EXCEPT ![a] = m2[a] ^^ m2[b]]
SmallOf(a, b) == IF a < b THEN a ELSE b
LargeOf(a, b) == IF a > b THEN a ELSE b
Min3(a, b, c) == SmallOf(SmallOf(a, b), c)
Max3(a, b, c) == LargeOf(LargeOf(a, b), c)
AbsInt(a) == IF a < 0 THEN Wrap(-a) ELSE a
Clamp(v, lo, hi) == IF v < lo THEN lo ELSE IF v > hi THEN hi ELSE v
DivCeil(a, b) == CDiv(a + b - 1, b)
RECURSIVE Gcd(_, _)
Gcd(a, b) == IF b = 0 THEN a ELSE Gcd(b, CMod(a, b))
Lcm(a, b) == CDiv(a, Gcd(a, b)) * b
RECURSIVE PowModFrom(_, _, _, _)
PowModFrom(result, base, exp, m) ==
  IF exp <= 0 THEN result
  ELSE PowModFrom(IF exp % 2 = 1 THEN CMod(result * base, m) ELSE result,
                  CMod(base * base, m), exp \div 2, m)
PowMod(base, exp, m) == PowModFrom(1, CMod(base, m), exp, m)
(* reverse_int, reverse_char and the reversal of a part of a string.       *)
RECURSIVE ReverseBetween(_, _, _)
ReverseBetween(s, i, j) ==
  IF i >= j THEN s
  ELSE ReverseBetween([s EXCEPT ![i + 1] = s[j + 1], ![j + 1] = s[i + 1]], i + 1, j - 1)
ReverseInt(s) == ReverseBetween(s, 0, Len(s) - 1)
Utils ==
  /\ kind = "utils"
  /\ \/ \E mem \in [MemCells -> 0..2^(IntBits - 1) - 1], a \in MemCells, b \in MemCells :
          \/ Asked("swap_int", <<mem, a, b>>, SwapInt(mem, a, b))
          \/ Asked("swap_int_xor", <<mem, a, b>>, SwapIntXor(mem, a, b))
     \/ \E a \in Ints, b \in Ints, c \in Ints :
          \/ Asked("min3", <<a, b, c>>, Min3(a, b, c))
          \/ Asked("max3", <<a, b, c>>, Max3(a, b, c))
          \/ b <= c /\ Asked("clamp", <<a, b, c>>, Clamp(a, b, c))
     \/ \E a \in Ints : a # Min(Ints) /\ Asked("abs", a, AbsInt(a))
     \/ \E a \in 0..12, b \in 0..12 :
          \/ b # 0 /\ Asked("div_ceil", <<a, b>>, DivCeil(a, b))
          \/ Asked("gcd", <<a, b>>, Gcd(a, b))
          \/ a + b > 0 /\ Asked("lcm", <<a, b>>, Lcm(a, b))
     \/ \E m \in Moduli : \E a \in 0..m + 1, n \in 0..m + 1 :
          Asked("pow_mod", <<a, n, m>>, PowMod(a, n, m))
     \/ \E n \in 0..MaxN + 1 : Asked("reverse_int", n, ReverseInt([i \in 1..n |-> i]))
Divides(d, a) == \E k \in 0..12 : a = d * k
UtilsMeet ==
  CASE op \in {"swap_int", "swap_int_xor"} ->
         LET mem == arg[1] IN answer = [mem EXCEPT ![arg[2]] = mem[arg[3]], ![arg[3]] = mem[arg[2]]]
    [] op = "min3" -> answer = Min({arg[1], arg[2], arg[3]})
    [] op = "max3" -> answer = Max({arg[1], arg[2], arg[3]})
    [] op = "clamp" -> answer = SetToSortSeq({<<1, arg[1]>>, <<2, arg[2]>>, <<3, arg[3]>>},
                                             LAMBDA x, y : x[2] < y[2] \/ (x[2] = y[2] /\ x[1] < y[1]))[2][2]
    [] op = "abs" -> answer = Max({arg, -arg})
    [] op = "div_ceil" -> answer = Min({q \in 0..12 : q * arg[2] >= arg[1]})
    [] op = "gcd" -> /\ Divides(answer, arg[1]) /\ Divides(answer, arg[2])
                     /\ \A d \in 1..12 : Divides(d, arg[1]) /\ Divides(d, arg[2]) => Divides(d, answer)
    [] op = "lcm" -> answer = IF 0 \in {arg[1], arg[2]} THEN 0
                              ELSE Min({n \in 1..144 : n % arg[1] = 0 /\ n % arg[2] = 0})
    [] op = "pow_mod" -> answer = Power(arg[1], arg[2]) % arg[3]
    [] op = "reverse_int" -> answer = [i \in 1..arg |-> arg + 1 - i]

-----------------------------------------------------------------------------
(* compare.h: what qsort is given.  The comparators of longs, doubles and  *)
(* pointers to int compare as those of ints do; a char is not as wide as   *)
(* the int that a difference of chars is.                                  *)
Less(a, b) == IF a < b THEN 1 ELSE 0
CmpIntAsc(a, b) == Less(b, a) - Less(a, b)
CmpIntDesc(a, b) == Less(a, b) - Less(b, a)
CmpIntAbs(a, b) == CmpIntAsc(AbsInt(a), AbsInt(b))
CmpCharAsc(a, b) == a - b
CmpCharDesc(a, b) == b - a
CmpStrLen(s, t) == CmpIntAsc(Len(s), Len(t))
Compare ==
  /\ kind = "compare"
  /\ \/ \E a \in Ints, b \in Ints :
          \/ Asked("cmp_int_asc", <<a, b>>, CmpIntAsc(a, b))
          \/ Asked("cmp_int_desc", <<a, b>>, CmpIntDesc(a, b))
          \/ Min(Ints) \notin {a, b} /\ Asked("cmp_int_abs", <<a, b>>, CmpIntAbs(a, b))
          \/ Asked("cmp_char_asc", <<a, b>>, CmpCharAsc(a, b))
          \/ Asked("cmp_char_desc", <<a, b>>, CmpCharDesc(a, b))
     \/ \E s \in SeqsOver(Chars, 2), t \in SeqsOver(Chars, 2) :
          Asked("cmp_str_len", <<s, t>>, CmpStrLen(s, t))
Magnitude(a) == Max({a, -a})
CompareMeets ==
  Sign(answer) =
    CASE op \in {"cmp_int_asc", "cmp_char_asc"} -> Sign(arg[1] - arg[2])
      [] op \in {"cmp_int_desc", "cmp_char_desc"} -> Sign(arg[2] - arg[1])
      [] op = "cmp_int_abs" -> Sign(Magnitude(arg[1]) - Magnitude(arg[2]))
      [] op = "cmp_str_len" -> Sign(Len(arg[1]) - Len(arg[2]))

-----------------------------------------------------------------------------
(* string_utils.h.  A string is the sequence of its codes, without the     *)
(* terminator; an unsigned int has WordBits bits here, not 32.             *)
HashDjb2(s) == FoldLeft(LAMBDA h, c : (33 * h + c) % (2^WordBits), 5381, s)
HashStr(s) == FoldLeft(LAMBDA h, c : (31 * h + c) % (2^WordBits), 0, s)
SortStr(s) == SortSeq(s, LAMBDA a, b : CmpCharAsc(a, b) < 0)
Strndup(s, n) == SubSeq(s, 1, SmallOf(n, Len(s)))
StrReverseRange(s, start, end) == ReverseBetween(s, start, end - 1)
CountChar(s, c) == FoldLeft(LAMBDA n, x : IF x = c THEN n + 1 ELSE n, 0, s)
IsDigit(c) == c \in 48..57
IsAlpha(c) == c \in 65..90 \cup 97..122
StrIsDigit(s) == s # <<>> /\ \A i \in 1..Len(s) : IsDigit(s[i])
StrIsAlpha(s) == s # <<>> /\ \A i \in 1..Len(s) : IsAlpha(s[i])
FreqLower(s) == FoldLeft(LAMBDA f, c : IF c \in 97..122 THEN [f EXCEPT ![c - 97] = @ + 1] ELSE f,
                         [i \in 0..25 |-> 0], s)
FreqAscii(s) == FoldLeft(LAMBDA f, c : [f EXCEPT ![c] = @ + 1], [i \in 0..127 |-> 0], s)
Strings ==
  /\ kind = "string"
  /\ \E s \in SeqsOver(Chars, StrLen) :
       \/ Asked("hash_djb2", s, HashDjb2(s))
       \/ Asked("hash_str", s, HashStr(s))
       \/ Asked("sort_str", s, SortStr(s))
       \/ \E n \in 0..StrLen + 1 : Asked("strndup", <<s, n>>, Strndup(s, n))
       \/ \E i \in 0..Len(s) : \E j \in i..Len(s) :
            Asked("reverse_range", <<s, i, j>>, StrReverseRange(s, i, j))
       \/ \E c \in Chars : Asked("count_char", <<s, c>>, CountChar(s, c))
       \/ Asked("is_digit", s, StrIsDigit(s))
       \/ Asked("is_alpha", s, StrIsAlpha(s))
       \/ Asked("freq_lower", s, FreqLower(s))
       \/ Asked("freq_ascii", s, FreqAscii(s))
Occurs(s, c) == Cardinality({i \in 1..Len(s) : s[i] = c})
Polynomial(s, x, h) ==
  (h * x^Len(s) + MapThenSumSet(LAMBDA i : s[i] * x^(Len(s) - i), 1..Len(s))) % (2^WordBits)
StringsMeet ==
  CASE op = "hash_djb2" -> answer = Polynomial(arg, 33, 5381)
    [] op = "hash_str" -> answer = Polynomial(arg, 31, 0)
    [] op = "sort_str" -> /\ \A c \in Chars : Occurs(answer, c) = Occurs(arg, c)
                          /\ \A i \in 1..Len(answer) - 1 : answer[i] <= answer[i + 1]
    [] op = "strndup" -> IsPrefix(answer, arg[1]) /\ Len(answer) = Min({arg[2], Len(arg[1])})
    [] op = "reverse_range" ->
         answer = [i \in 1..Len(arg[1]) |->
                     arg[1][IF arg[2] < i /\ i <= arg[3] THEN arg[2] + arg[3] + 1 - i ELSE i]]
    [] op = "count_char" -> answer = Occurs(arg[1], arg[2])
    [] op = "is_digit" -> answer = (arg # <<>> /\ ToSet(arg) \subseteq 48..57)
    [] op = "is_alpha" -> answer = (arg # <<>> /\ ToSet(arg) \subseteq 65..90 \cup 97..122)
    [] op = "freq_lower" -> answer = [i \in 0..25 |-> Occurs(arg, i + 97)]
    [] op = "freq_ascii" -> answer = [i \in 0..127 |-> Occurs(arg, i)]

-----------------------------------------------------------------------------
(* random.h.  choices[i] is what the i-th call of rand() gives, already    *)
(* taken modulo the number that the code takes it modulo.                  *)
(* Mutant: every place is swapped with any other.                          *)
AnyPlace(n, i) == 0..n - 1
ShuffleRange(n, i) == 0..i  \* rand() % (i + 1)
Shuffles(n) == {ch \in [1..n - 1 -> 0..n - 1] : \A i \in 1..n - 1 : ch[i] \in ShuffleRange(n, i)}
RECURSIVE ShuffleFrom(_, _, _)
ShuffleFrom(s, i, choices) ==
  IF i <= 0 THEN s
  ELSE ShuffleFrom([s EXCEPT ![i + 1] = s[choices[i] + 1], ![choices[i] + 1] = s[i + 1]],
                   i - 1, choices)
ShuffleInt(s, choices) == ShuffleFrom(s, Len(s) - 1, choices)

ReservoirInit(k) == [reservoir |-> [i \in 1..k |-> Nothing], k |-> k, count |-> 0]
ReservoirRange(rs) == 0..rs.count  \* rand() % (count + 1)
ReservoirAdd(rs, val, j) ==
  [rs EXCEPT !.count = @ + 1,
             !.reservoir = IF rs.count < rs.k THEN [@ EXCEPT ![rs.count + 1] = val]
                           ELSE IF j < rs.k THEN [@ EXCEPT ![j + 1] = val] ELSE @]
(* The choices when n values come; rand() is not called for the first k.   *)
Streams(n, k) == {ch \in [1..n -> 0..n - 1] :
                    \A i \in 1..n : ch[i] \in ReservoirRange([count |-> IF i <= k THEN 0 ELSE i - 1])}
ReservoirOf(n, k, choices) ==
  FoldLeft(LAMBDA rs, i : ReservoirAdd(rs, i, choices[i]), ReservoirInit(k), [i \in 1..n |-> i])

PrefixSums(weights) ==
  FoldLeft(LAMBDA wr, w : [prefix_sum |-> Append(wr.prefix_sum, wr.total + w), total |-> wr.total + w],
           [prefix_sum |-> <<>>, total |-> 0], weights)
WeightedPick(wr, rand) ==
  LET target == rand + 1
  IN  Bisect(0, Len(wr.prefix_sum) - 1,
             {i \in 0..Len(wr.prefix_sum) - 1 : wr.prefix_sum[i + 1] >= target})
Random ==
  /\ kind = "random"
  /\ \/ \E n \in 0..MaxN : \E ch \in Shuffles(n) :
          Asked("shuffle_int", <<n, ch>>, ShuffleInt([i \in 1..n |-> i], ch))
     \/ \E n \in 0..MaxN, k \in 1..MaxN : \E ch \in Streams(n, k) :
          Asked("reservoir_add", <<n, k, ch>>, ReservoirOf(n, k, ch))
     \/ \E w \in SeqsOver(0..2, MaxN) :
          LET wr == PrefixSums(w)
          IN  \E r \in 0..wr.total - 1 : Asked("weighted_pick", <<w, r>>, WeightedPick(wr, r))
RandomMeets ==
  CASE op = "shuffle_int" -> ToSet(answer) = 1..arg[1]
    [] op = "reservoir_add" ->
         LET kept == {answer.reservoir[i] : i \in 1..arg[2]} \ {Nothing}
         IN  kept \subseteq 1..arg[1] /\ Cardinality(kept) = Min({arg[1], arg[2]})
    [] op = "weighted_pick" -> arg[1][answer + 1] > 0

(* Every order of an array is the outcome of one way in which the calls of *)
(* rand() can fall, every selection of k values of a stream is in the      *)
(* reservoir for as many ways as any other, and an index is picked for as  *)
(* many as its weight says.                                                *)
Kept(n, k, ch) == ToSet(ReservoirOf(n, k, ch).reservoir)
ChoicesFair ==
  kind = "random" /\ op = "none" =>
    /\ \A n \in 0..MaxN :
         LET Order(ch) == ShuffleInt([i \in 1..n |-> i], ch)
         IN  \A c, d \in Shuffles(n) : c # d => Order(c) # Order(d)
    /\ \A n \in 1..MaxN : \A k \in 1..n :
         \E ways \in 1..Cardinality(Streams(n, k)) : \A S \in kSubset(k, 1..n) :
           Cardinality({ch \in Streams(n, k) : Kept(n, k, ch) = S}) = ways
    /\ \A w \in SeqsOver(0..2, MaxN) : \A i \in 1..Len(w) :
         Cardinality({r \in 0..PrefixSums(w).total - 1 : WeightedPick(PrefixSums(w), r) + 1 = i}) = w[i]

-----------------------------------------------------------------------------
Kinds == {"matrix", "mod_math", "interval", "utils", "compare", "string", "random"}
Init == /\ kind \in Kinds /\ obj = Nothing
        /\ op = "none" /\ arg = Nothing /\ answer = Nothing
Next == Matrices \/ ModMath \/ IntervalOps \/ Utils \/ Compare \/ Strings \/ Random
Spec == Init /\ [][Next]_vars

(* Every call answers what its comment in the header promises.             *)
MeetsReference ==
  \/ op = "none"
  \/ kind = "matrix" /\ MatricesMeet
  \/ kind = "mod_math" /\ ModMathMeets
  \/ kind = "interval" /\ IntervalsMeet
  \/ kind = "utils" /\ UtilsMeet
  \/ kind = "compare" /\ CompareMeets
  \/ kind = "string" /\ StringsMeet
  \/ kind = "random" /\ RandomMeets
=============================================================================
