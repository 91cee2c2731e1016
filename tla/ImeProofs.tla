----------------------------- MODULE ImeProofs -----------------------------
(***************************************************************************)
(* The two conversions of app/ime.c are each other's inverse on every text *)
(* without surrogates, and remove_illegal_chars commutes with them.        *)
(*                                                                         *)
(* The proofs are by induction on the place in the text.  They get it from *)
(* the least element of a set of numbers, so the induction lemmas have a   *)
(* set, not a predicate, as their parameter.                               *)
(***************************************************************************)
EXTENDS Ime, WellFoundedInduction, TLAPS

-----------------------------------------------------------------------------
(* Induction *)

(* A nonempty set of natural numbers has a least element. *)
LEMMA LeastElement ==
    ASSUME NEW S \in SUBSET Nat, S # {}
    PROVE  \E m \in S : \A k \in S : m <= k
<1> DEFINE R == OpToRel(<, Nat)
<1>1. IsWellFoundedOn(R, Nat)
    BY NatLessThanWellFounded
<1> HIDE DEF R
<1>2. PICK m \in S : \A k \in S : ~(<<k, m>> \in R)
    BY <1>1, WFMin, Zenon
<1>3. \A k \in S : ~(k < m)
    BY <1>2 DEF R, OpToRel
<1> QED BY <1>3

(* Induction from the end of a text to its beginning. *)
LEMMA BackwardInduction ==
    ASSUME NEW m \in Nat, NEW S, m \in S,
           \A k \in 2..m : k \in S => k - 1 \in S
    PROVE  \A k \in 1..m : k \in S
<1> DEFINE D == {j \in Nat : j < m /\ m - j \notin S}
<1> SUFFICES ASSUME D # {} PROVE FALSE
  <2>1. \A k \in 1..m : m - k \in Nat /\ m - k < m /\ m - (m - k) = k
    OBVIOUS
  <2> QED BY <2>1
<1>1. PICK j \in D : \A k \in D : j <= k
    BY LeastElement
<1>2. j # 0
    BY <1>1
<1>3. j - 1 \in Nat /\ j - 1 \notin D /\ j - 1 < m
    BY <1>1, <1>2
<1>4. m - (j - 1) \in S /\ m - (j - 1) \in 2..m
    BY <1>1, <1>3
<1>5. (m - (j - 1)) - 1 \in S
    BY <1>4
<1>6. (m - (j - 1)) - 1 = m - j
    BY <1>1
<1> QED BY <1>1, <1>5, <1>6

-----------------------------------------------------------------------------
(* The loop *)

(* The equation of the recursive function WalkFrom has a solution, so WalkFrom
   satisfies it: from a character on, the loop appends what that character
   becomes and then what it appends from behind it on. *)
LEMMA WalkUnfold ==
    ASSUME NEW n \in Nat, NEW become, Len(become) = n, NEW width \in [1..n -> 1..3],
           NEW i \in 1..(n + 3)
    PROVE  /\ i > n => WalkFrom(become, width)[i] = <<>>
           /\ i <= n => WalkFrom(become, width)[i] =
                          become[i] \o WalkFrom(become, width)[i + width[i]]
<1> DEFINE Val(f, j) == IF j > n THEN <<>> ELSE become[j] \o f[j + width[j]]
           Solves(f, k) == \A j \in k..(n + 3) : f[j] = Val(f, j)
           S == {k \in 1..(n + 1) : \E f : Solves(f, k)}
<1>v. ASSUME NEW f, NEW g, NEW j \in 1..(n + 3), j <= n => f[j + width[j]] = g[j + width[j]]
      PROVE  Val(f, j) = Val(g, j)
    BY <1>v
<1>z. ASSUME NEW f, NEW j \in (n + 1)..(n + 3) PROVE Val(f, j) = <<>>
    OBVIOUS
<1> HIDE DEF Val
<1>1. n + 1 \in S
  <2> DEFINE f == [j \in (n + 1)..(n + 3) |-> <<>>]
  <2>1. Solves(f, n + 1)
    BY <1>z
  <2> HIDE DEF Solves, f
  <2> QED BY <2>1
<1>2. ASSUME NEW k \in 2..(n + 1), k \in S PROVE k - 1 \in S
  <2>1. PICK f : Solves(f, k)
    BY <1>2
  <2> DEFINE g == [j \in (k - 1)..(n + 3) |-> IF j = k - 1 THEN Val(f, j) ELSE f[j]]
  <2>2. \A j \in (k - 1)..(n + 3) : j <= n => f[j + width[j]] = g[j + width[j]]
    OBVIOUS
  <2>3. \A j \in (k - 1)..(n + 3) : Val(f, j) = Val(g, j)
    BY <2>2, <1>v
  <2>4. \A j \in (k - 1)..(n + 3) : g[j] = Val(f, j)
    BY <2>1
  <2>5. Solves(g, k - 1) /\ k - 1 \in 1..(n + 1)
    BY <2>3, <2>4
  <2> HIDE DEF Solves, g
  <2> QED BY <2>5
<1>3. \A k \in 1..(n + 1) : k \in S
  <2> HIDE DEF S
  <2>1. n + 1 \in Nat
    OBVIOUS
  <2> QED BY <1>1, <1>2, <2>1, BackwardInduction
<1>4. PICK f : f = [j \in 1..(n + 3) |-> Val(f, j)]
  <2>1. PICK f0 : Solves(f0, 1)
    <3> HIDE DEF Solves
    <3>1. 1 \in 1..(n + 1)
      OBVIOUS
    <3> QED BY <1>3, <3>1
  <2> DEFINE f1 == [j \in 1..(n + 3) |-> f0[j]]
  <2>2. \A j \in 1..(n + 3) : j <= n => f0[j + width[j]] = f1[j + width[j]]
    OBVIOUS
  <2>3. \A j \in 1..(n + 3) : Val(f0, j) = Val(f1, j)
    BY <2>2, <1>v
  <2>4. f1 = [j \in 1..(n + 3) |-> Val(f1, j)]
    BY <2>1, <2>3
  <2> HIDE DEF f1
  <2> QED BY <2>4
<1> DEFINE w == WalkFrom(become, width)
<1>5. w = CHOOSE h : h = [j \in 1..(n + 3) |-> Val(h, j)]
    BY DEF WalkFrom, Val
<1> HIDE DEF w
<1>6. w = [j \in 1..(n + 3) |-> Val(w, j)]
    BY <1>4, <1>5
<1>7. w[i] = Val(w, i)
    BY <1>6
<1>8. CASE i > n
  <2>1. Val(w, i) = <<>>
    BY <1>8 DEF Val
  <2>2. ~(i <= n)
    BY <1>8
  <2> QED BY <1>7, <2>1, <2>2 DEF w
<1>9. CASE ~(i > n)
  <2>1. Val(w, i) = become[i] \o w[i + width[i]]
    BY <1>9, Zenon DEF Val
  <2> HIDE DEF Val
  <2> QED BY <1>7, <1>9, <2>1, Zenon DEF w
<1> QED BY <1>8, <1>9

(* The same at all places. *)
Steps(n, become, width) ==
    /\ \A i \in (n + 1)..(n + 3) : WalkFrom(become, width)[i] = <<>>
    /\ \A i \in 1..n : WalkFrom(become, width)[i] =
                         become[i] \o WalkFrom(become, width)[i + width[i]]
(* A loop takes these steps. *)
LEMMA WalkSteps ==
    ASSUME NEW n \in Nat, NEW become, Len(become) = n, NEW width \in [1..n -> 1..3]
    PROVE  Steps(n, become, width)
<1>1. \A i \in (n + 1)..(n + 3) : i \in 1..(n + 3) /\ i > n
    OBVIOUS
<1>2. \A i \in 1..n : i \in 1..(n + 3) /\ i <= n
    OBVIOUS
<1>3. \A i \in (n + 1)..(n + 3) : WalkFrom(become, width)[i] = <<>>
    BY <1>1, WalkUnfold, Zenon
<1>4. \A i \in 1..n : WalkFrom(become, width)[i] =
                         become[i] \o WalkFrom(become, width)[i + width[i]]
    BY <1>2, WalkUnfold, Zenon
<1> QED BY <1>3, <1>4, Zenon DEF Steps

(* What the loop appends is a sequence of what the characters become. *)
LEMMA WalkType ==
    ASSUME NEW n \in Nat, NEW T, NEW become \in [1..n -> Seq(T)], Len(become) = n,
           NEW width \in [1..n -> 1..3], NEW i \in 1..(n + 3)
    PROVE  WalkFrom(become, width)[i] \in Seq(T)
<1> DEFINE w == WalkFrom(become, width)
           S == {k \in 1..(n + 3) : \A j \in k..(n + 3) : w[j] \in Seq(T)}
<1>w. Steps(n, become, width)
    BY WalkSteps
<1>0. \A j \in (n + 1)..(n + 3) : w[j] = <<>>
    BY <1>w, Zenon DEF Steps
<1>1. \A j \in 1..n : w[j] = become[j] \o w[j + width[j]]
    BY <1>w, Zenon DEF Steps
<1> HIDE DEF w
<1>e. <<>> \in Seq(T)
    OBVIOUS
<1>2. n + 3 \in S
  <2>1. \A j \in (n + 3)..(n + 3) : j \in (n + 1)..(n + 3)
    OBVIOUS
  <2>2. \A j \in (n + 3)..(n + 3) : w[j] \in Seq(T)
    BY <1>0, <1>e, <2>1, Zenon
  <2> QED BY <2>2
<1>3. ASSUME NEW k \in 2..(n + 3), k \in S PROVE k - 1 \in S
  <2>1. \A j \in k..(n + 3) : w[j] \in Seq(T)
    BY <1>3
  <2>2. w[k - 1] \in Seq(T)
    <3>1. CASE k - 1 > n
      <4>1. k - 1 \in (n + 1)..(n + 3)
        BY <3>1
      <4> QED BY <1>0, <1>e, <4>1, Zenon
    <3>2. CASE k - 1 <= n
      <4>1. k - 1 \in 1..n /\ width[k - 1] \in 1..3 /\ become[k - 1] \in Seq(T)
        BY <3>2
      <4>2. w[k - 1 + width[k - 1]] \in Seq(T)
        BY <2>1, <4>1
      <4>3. w[k - 1] = become[k - 1] \o w[k - 1 + width[k - 1]]
        BY <1>1, <4>1
      <4> QED BY <4>1, <4>2, <4>3
    <3> QED BY <3>1, <3>2
  <2>3. \A j \in (k - 1)..(n + 3) : w[j] \in Seq(T)
    BY <2>1, <2>2
  <2> QED BY <2>3
<1>4. 1 \in S
  <2> HIDE DEF S
  <2>1. n + 3 \in Nat /\ 1 \in 1..(n + 3)
    OBVIOUS
  <2> QED BY <1>2, <1>3, <2>1, BackwardInduction
<1> QED BY <1>4 DEF w

-----------------------------------------------------------------------------
(* One character *)

(* The values of a unit. *)
LEMMA CodeUnits == \A s : s \in CodeUnit <=> s \in Nat /\ s < 65536
<1>1. MaxUnit \in Nat
    BY DEF MaxUnit
<1>2. \A s : s \in CodeUnit <=> s \in Nat /\ s <= MaxUnit
    BY <1>1 DEF CodeUnit
<1>3. MaxUnit = 65535
    BY DEF MaxUnit
<1> QED BY <1>2, <1>3

(* A unit that is no surrogate becomes one, two or three bytes that depend on
   nothing but the unit, and comes back from them. *)
LEMMA UnitSurvives ==
    ASSUME NEW s \in CodeUnit, ~Lead(s), NEW t, NEW e, e = Bytes(s, t)
    PROVE  /\ e = Bytes(s, 0) /\ e \in Seq(Nat)
           /\ Len(e) \in 1..3 /\ Width(e[1]) = Len(e)
           /\ \A c, d : (Len(e) >= 2 => c = e[2]) /\ (Len(e) >= 3 => d = e[3])
                            => Unit(e[1], c, d) = s
<1>0. s \in Nat /\ s < 65536
    BY CodeUnits
<1>1. CASE s < 128
  <2>1. e = <<s>> /\ Bytes(s, 0) = <<s>>
    BY <1>1 DEF Bytes
  <2>2. Width(s) = 1 /\ \A c, d : Unit(s, c, d) = s
    BY <1>0, <1>1 DEF Width, Unit
  <2>3. e \in Seq(Nat) /\ Len(e) = 1 /\ e[1] = s
    BY <1>0, <2>1
  <2> QED BY <2>1, <2>2, <2>3
<1>2. CASE s >= 128 /\ s < 2048
  <2> DEFINE x == 192 + (s \div 64)
             y == 128 + (s % 64)
  <2>1. e = <<x, y>> /\ Bytes(s, 0) = <<x, y>>
    BY <1>0, <1>2 DEF Bytes
  <2>2. x \in 192..223 /\ y \in Nat
    BY <1>0, <1>2
  <2>3. (x % 32) * 64 + (y % 64) = s
    BY <1>0, <1>2
  <2> HIDE DEF x, y
  <2>4. Width(x) = 2
    BY <2>2 DEF Width
  <2>5. \A d : Unit(x, y, d) = s
    BY <2>2, <2>3 DEF Unit
  <2>6. e \in Seq(Nat) /\ Len(e) = 2 /\ e[1] = x /\ e[2] = y
    BY <2>1, <2>2
  <2> QED BY <2>1, <2>4, <2>5, <2>6
<1>3. CASE s >= 2048
  <2> DEFINE x == 224 + (s \div 4096)
             y == 128 + ((s \div 64) % 64)
             z == 128 + (s % 64)
  <2>1. e = <<x, y, z>> /\ Bytes(s, 0) = <<x, y, z>>
    BY <1>0, <1>3 DEF Bytes
  <2>2. x \in 224..255 /\ y \in Nat /\ z \in Nat
    BY <1>0, <1>3
  <2>3. (x % 16) * 4096 + (y % 64) * 64 + (z % 64) = s
    BY <1>0, <1>3
  <2> HIDE DEF x, y, z
  <2>4. Width(x) = 3
    BY <2>2 DEF Width
  <2>5. Unit(x, y, z) = s
    BY <2>2, <2>3 DEF Unit
  <2>6. e \in Seq(Nat) /\ Len(e) = 3 /\ e[1] = x /\ e[2] = y /\ e[3] = z
    BY <2>1, <2>2
  <2> QED BY <2>1, <2>4, <2>5, <2>6
<1> QED BY <1>0, <1>1, <1>2, <1>3

-----------------------------------------------------------------------------
(* The two loops *)

(* What utf16_to_utf8 and utf8_to_utf16 still append from a place on. *)
Enc(u) ==
    WalkFrom([i \in DOMAIN u |-> Bytes(u[i], At(u, i + 1))],
             [i \in DOMAIN u |-> IF Lead(u[i]) /\ Trail(At(u, i + 1)) THEN 2 ELSE 1])
Dec(b) ==
    WalkFrom([i \in DOMAIN b |-> <<Unit(b[i], At(b, i + 1), At(b, i + 2))>>],
             [i \in DOMAIN b |-> Width(b[i])])

(* On a text without surrogates utf16_to_utf8 goes on unit by unit. *)
LEMMA EncWalk ==
    ASSUME NEW u, Narrow(u)
    PROVE  /\ Len(u) \in Nat /\ utf16_to_utf8(u) = Enc(u)[1]
           /\ Enc(u)[Len(u) + 1] = <<>>
           /\ \A i \in 1..Len(u) : Enc(u)[i] = Bytes(u[i], 0) \o Enc(u)[i + 1]
           /\ \A i \in 1..(Len(u) + 1) : Enc(u)[i] \in Seq(Nat)
<1> DEFINE n == Len(u)
           become == [i \in 1..n |-> Bytes(u[i], At(u, i + 1))]
           width == [i \in 1..n |-> 1]
<1>1. /\ n \in Nat /\ DOMAIN u = 1..n
      /\ \A i \in 1..n : u[i] \in CodeUnit /\ ~Lead(u[i])
    BY DEF Narrow
<1>2. Enc(u) = WalkFrom(become, width) /\ utf16_to_utf8(u) = Enc(u)[1]
  <2>1. width = [i \in DOMAIN u |-> IF Lead(u[i]) /\ Trail(At(u, i + 1)) THEN 2 ELSE 1]
    BY <1>1
  <2>2. become = [i \in DOMAIN u |-> Bytes(u[i], At(u, i + 1))]
    BY <1>1
  <2> QED BY <2>1, <2>2 DEF Enc, utf16_to_utf8, Walk
<1>3. \A i \in 1..n : become[i] = Bytes(u[i], 0) /\ become[i] \in Seq(Nat)
    BY <1>1, UnitSurvives
<1>4. /\ become \in [1..n -> Seq(Nat)] /\ Len(become) = n
      /\ width \in [1..n -> 1..3] /\ \A i \in 1..n : width[i] = 1
  <2>1. become \in [1..n -> Seq(Nat)]
    BY <1>3
  <2> HIDE DEF become
  <2> QED BY <1>1, <2>1
<1> HIDE DEF become, width, n
<1>5. \A i \in 1..(n + 3) : Enc(u)[i] \in Seq(Nat)
    BY <1>1, <1>2, <1>4, WalkType
<1>w. Steps(n, become, width)
    BY <1>1, <1>4, WalkSteps
<1>6. Enc(u)[n + 1] = <<>>
  <2>1. n + 1 \in (n + 1)..(n + 3)
    BY <1>1
  <2> QED BY <1>2, <1>w, <2>1, Zenon DEF Steps
<1>7. \A i \in 1..n : Enc(u)[i] = become[i] \o Enc(u)[i + width[i]]
    BY <1>2, <1>w, Zenon DEF Steps
<1>8. \A i \in 1..n : Enc(u)[i] = Bytes(u[i], 0) \o Enc(u)[i + 1]
    BY <1>3, <1>4, <1>7
<1>9. \A i \in 1..(n + 1) : Enc(u)[i] \in Seq(Nat)
    BY <1>1, <1>5
<1> QED BY <1>1, <1>2, <1>6, <1>8, <1>9 DEF n

(* utf8_to_utf16 goes on by the width the first byte of a character says. *)
LEMMA DecWalk ==
    ASSUME NEW b \in Seq(Nat)
    PROVE  /\ utf8_to_utf16(b) = Dec(b)[1]
           /\ \A i \in (Len(b) + 1)..(Len(b) + 3) : Dec(b)[i] = <<>>
           /\ \A i \in 1..Len(b) :
                 Dec(b)[i] = <<Unit(b[i], At(b, i + 1), At(b, i + 2))>>
                             \o Dec(b)[i + Width(b[i])]
<1> DEFINE n == Len(b)
           become == [i \in 1..n |-> <<Unit(b[i], At(b, i + 1), At(b, i + 2))>>]
           width == [i \in 1..n |-> Width(b[i])]
<1>1. n \in Nat /\ DOMAIN b = 1..n
    OBVIOUS
<1>2. Dec(b) = WalkFrom(become, width) /\ utf8_to_utf16(b) = Dec(b)[1]
    BY <1>1 DEF Dec, utf8_to_utf16, Walk
<1>3. Len(become) = n /\ width \in [1..n -> 1..3]
  <2>1. \A x : Width(x) \in 1..3
    BY DEF Width
  <2>2. Len(become) = n
    BY <1>1
  <2>3. width \in [1..n -> 1..3]
    BY <2>1
  <2> QED BY <2>2, <2>3
<1>4. /\ \A i \in 1..n : become[i] = <<Unit(b[i], At(b, i + 1), At(b, i + 2))>>
      /\ \A i \in 1..n : width[i] = Width(b[i])
    OBVIOUS
<1> HIDE DEF become, width, n
<1>w. Steps(n, become, width)
    BY <1>1, <1>3, WalkSteps
<1>5. \A i \in (n + 1)..(n + 3) : Dec(b)[i] = <<>>
    BY <1>2, <1>w, Zenon DEF Steps
<1>6. \A i \in 1..n : Dec(b)[i] = become[i] \o Dec(b)[i + width[i]]
    BY <1>2, <1>w, Zenon DEF Steps
<1>7. \A i \in 1..n : Dec(b)[i] = <<Unit(b[i], At(b, i + 1), At(b, i + 2))>>
                                     \o Dec(b)[i + Width(b[i])]
    BY <1>4, <1>6, Zenon
<1> QED BY <1>2, <1>5, <1>7, Zenon DEF n

-----------------------------------------------------------------------------
(* There and back *)

(* c is x with y behind it. *)
IsCat(T, c, x, y) ==
    /\ c \in Seq(T) /\ Len(c) = Len(x) + Len(y)
    /\ \A k \in 1..Len(x) : c[k] = x[k]
    /\ \A k \in 1..Len(y) : c[Len(x) + k] = y[k]
(* What the concatenation of two sequences is. *)
LEMMA CatFacts ==
    ASSUME NEW T, NEW x \in Seq(T), NEW y \in Seq(T)
    PROVE  IsCat(T, x \o y, x, y)
    BY DEF IsCat

(* The rest of a text from a unit on, and bytes that end with others. *)
Rest(u, i) == [k \in 1..(Len(u) + 1 - i) |-> u[i + k - 1]]
EndsWith(b, p, x) ==
    Len(b) = p - 1 + Len(x) /\ \A k \in 1..Len(x) : b[p - 1 + k] = x[k]

(* The rest of a text is a unit and the rest behind it. *)
LEMMA RestSteps ==
    ASSUME NEW u \in Seq(CodeUnit)
    PROVE  /\ Rest(u, 1) = u /\ Rest(u, Len(u) + 1) = <<>>
           /\ \A i \in 1..Len(u) : Rest(u, i) = <<u[i]>> \o Rest(u, i + 1)
<1> DEFINE n == Len(u)
<1>1. n \in Nat /\ u \in [1..n -> CodeUnit]
    OBVIOUS
<1>2. Rest(u, 1) = u
    BY DEF Rest
<1>3. Rest(u, n + 1) = <<>>
    BY <1>1 DEF Rest
<1>r. \A i : Rest(u, i) = [k \in 1..(n + 1 - i) |-> u[i + k - 1]]
    BY DEF Rest
<1> HIDE DEF n
<1>4. ASSUME NEW i \in 1..n PROVE Rest(u, i) = <<u[i]>> \o Rest(u, i + 1)
  <2> DEFINE r == Rest(u, i + 1)
             m == n - i
             x == <<u[i]>>
  <2>0. m \in Nat /\ i \in Nat /\ n + 1 - (i + 1) = m /\ n + 1 - i = m + 1 /\ i + m = n
    BY <1>1
  <2> HIDE DEF m
  <2>1. r = [k \in 1..m |-> u[i + 1 + k - 1]] /\ Rest(u, i) = [k \in 1..(m + 1) |-> u[i + k - 1]]
    BY <1>r, <2>0
  <2>2. \A k \in 1..(m + 1) : i + k - 1 \in 1..n
    BY <1>1, <2>0
  <2>3. \A k \in 1..m : i + 1 + k - 1 \in 1..n /\ i + 1 + k - 1 = i + k
    BY <1>1, <2>0
  <2>4. r \in [1..m -> CodeUnit]
    BY <1>1, <2>1, <2>3
  <2>5. r \in Seq(CodeUnit) /\ Len(r) = m
    BY <2>0, <2>4
  <2>6. \A k \in 1..m : r[k] = u[i + k]
    BY <2>1, <2>3
  <2>7. x \in Seq(CodeUnit) /\ Len(x) = 1 /\ x[1] = u[i]
    BY <1>1
  <2> HIDE DEF r, x
  <2> DEFINE c == x \o r
  <2>8. /\ c \in Seq(CodeUnit) /\ Len(c) = Len(x) + Len(r)
        /\ \A k \in 1..Len(x) : c[k] = x[k]
        /\ \A k \in 1..Len(r) : c[Len(x) + k] = r[k]
    <3>1. IsCat(CodeUnit, c, x, r)
      BY <2>5, <2>7, CatFacts, Zenon
    <3> QED BY <3>1, Zenon DEF IsCat
  <2> HIDE DEF c
  <2>9. Len(c) = m + 1 /\ c[1] = x[1] /\ \A k \in 1..m : c[1 + k] = r[k]
    BY <2>0, <2>5, <2>7, <2>8
  <2>10. \A k \in 1..(m + 1) : c[k] = u[i + k - 1]
    <3> SUFFICES ASSUME NEW k \in 1..(m + 1) PROVE c[k] = u[i + k - 1]
      OBVIOUS
    <3>1. CASE k = 1
      BY <2>0, <2>7, <2>9, <3>1
    <3>2. CASE k # 1
      <4>1. k - 1 \in 1..m /\ i + (k - 1) = i + k - 1 /\ 1 + (k - 1) = k
        BY <2>0, <3>2
      <4> QED BY <2>6, <2>9, <4>1
    <3> QED BY <3>1, <3>2
  <2>11. c = [k \in 1..(m + 1) |-> u[i + k - 1]]
    BY <2>8, <2>9, <2>10
  <2> QED BY <2>1, <2>11, Zenon DEF r, x, c
<1> QED BY <1>2, <1>3, <1>4 DEF n

(* utf8_to_utf16 reads one unit's bytes as that unit and goes on behind them. *)
LEMMA OneBack ==
    ASSUME NEW s \in CodeUnit, ~Lead(s), NEW b \in Seq(Nat), NEW p \in 1..(Len(b) + 1),
           NEW x \in Seq(Nat), EndsWith(b, p, Bytes(s, 0) \o x)
    PROVE  \E q \in 1..(Len(b) + 1) :
              EndsWith(b, q, x) /\ Dec(b)[p] = <<s>> \o Dec(b)[q]
<1> DEFINE e == Bytes(s, 0)
           q == p + Len(e)
<1>1. /\ e \in Seq(Nat) /\ Len(e) \in 1..3 /\ Width(e[1]) = Len(e)
      /\ \A c, d : (Len(e) >= 2 => c = e[2]) /\ (Len(e) >= 3 => d = e[3])
                       => Unit(e[1], c, d) = s
    BY UnitSurvives, Zenon
<1>0. EndsWith(b, p, e \o x)
    OBVIOUS
<1> HIDE DEF e
<1>2. /\ Len(e \o x) = Len(e) + Len(x)
      /\ \A k \in 1..Len(e) : (e \o x)[k] = e[k]
      /\ \A k \in 1..Len(x) : (e \o x)[Len(e) + k] = x[k]
  <2>1. IsCat(Nat, e \o x, e, x)
    BY <1>1, CatFacts, Zenon
  <2> QED BY <2>1, Zenon DEF IsCat
<1>3. /\ Len(b) = p - 1 + Len(e) + Len(x)
      /\ \A k \in 1..Len(e) : b[p - 1 + k] = e[k]
      /\ \A k \in 1..Len(x) : b[p - 1 + Len(e) + k] = x[k]
  <2> DEFINE y == e \o x
  <2>1. /\ Len(b) = p - 1 + Len(y) /\ \A k \in 1..Len(y) : b[p - 1 + k] = y[k]
        /\ Len(y) = Len(e) + Len(x)
        /\ \A k \in 1..Len(e) : y[k] = e[k]
        /\ \A k \in 1..Len(x) : y[Len(e) + k] = x[k]
    BY <1>0, <1>2, Zenon DEF EndsWith
  <2> HIDE DEF y
  <2>2. Len(e) \in Nat /\ Len(x) \in Nat /\ p \in Nat
    BY <1>1
  <2>3. Len(b) = p - 1 + Len(e) + Len(x)
    BY <2>1, <2>2
  <2>4. ASSUME NEW k \in 1..Len(e) PROVE b[p - 1 + k] = e[k]
    <3>1. k \in 1..Len(y)
      BY <2>1, <2>2
    <3> QED BY <2>1, <3>1
  <2>5. ASSUME NEW k \in 1..Len(x) PROVE b[p - 1 + Len(e) + k] = x[k]
    <3>1. Len(e) + k \in 1..Len(y) /\ p - 1 + (Len(e) + k) = p - 1 + Len(e) + k
      BY <2>1, <2>2
    <3> QED BY <2>1, <3>1
  <2> QED BY <2>3, <2>4, <2>5
<1>4. q \in 1..(Len(b) + 1) /\ EndsWith(b, q, x)
    BY <1>1, <1>3 DEF EndsWith
<1>5. /\ p \in 1..Len(b) /\ b[p] = e[1]
      /\ Len(e) >= 2 => At(b, p + 1) = e[2]
      /\ Len(e) >= 3 => At(b, p + 2) = e[3]
  <2>1. /\ Len(e) \in Nat /\ Len(x) \in Nat /\ p \in Nat /\ DOMAIN b = 1..Len(b)
        /\ p - 1 + 1 = p /\ p - 1 + 2 = p + 1 /\ p - 1 + 3 = p + 2
    BY <1>1
  <2>2. p \in 1..Len(b) /\ b[p] = e[1]
    <3>1. 1 \in 1..Len(e)
      BY <1>1
    <3>2. b[p - 1 + 1] = e[1]
      BY <1>3, <3>1
    <3> QED BY <1>1, <1>3, <2>1, <3>2
  <2>3. ASSUME Len(e) >= 2 PROVE At(b, p + 1) = e[2]
    <3>1. 2 \in 1..Len(e) /\ p + 1 \in 1..Len(b)
      BY <1>3, <2>1, <2>3
    <3>2. b[p - 1 + 2] = e[2]
      BY <1>3, <3>1
    <3> QED BY <2>1, <3>1, <3>2 DEF At
  <2>4. ASSUME Len(e) >= 3 PROVE At(b, p + 2) = e[3]
    <3>1. 3 \in 1..Len(e) /\ p + 2 \in 1..Len(b)
      BY <1>3, <2>1, <2>4
    <3>2. b[p - 1 + 3] = e[3]
      BY <1>3, <3>1
    <3> QED BY <2>1, <3>1, <3>2 DEF At
  <2> QED BY <2>2, <2>3, <2>4
<1>6. Unit(b[p], At(b, p + 1), At(b, p + 2)) = s /\ p + Width(b[p]) = q
    BY <1>1, <1>5
<1>7. Dec(b)[p] = <<Unit(b[p], At(b, p + 1), At(b, p + 2))>> \o Dec(b)[p + Width(b[p])]
    BY <1>5, DecWalk, Zenon
<1>8. Dec(b)[p] = <<s>> \o Dec(b)[q]
    BY <1>6, <1>7, Zenon
<1> HIDE DEF q
<1> QED BY <1>4, <1>8, Zenon

(* A text without surrogates comes back from its UTF-8 form: utf8_to_utf16 undoes
   utf16_to_utf8 (ime.c). *)
THEOREM ThereAndBack ==
    ASSUME NEW u, Narrow(u)
    PROVE  utf16_to_utf8(u) \in Seq(Nat) /\ utf8_to_utf16(utf16_to_utf8(u)) = u
<1> DEFINE n == Len(u)
           b == utf16_to_utf8(u)
           Back(i) == \A p \in 1..(Len(b) + 1) :
                         EndsWith(b, p, Enc(u)[i]) => Dec(b)[p] = Rest(u, i)
           S == {i \in 1..(n + 1) : Back(i)}
<1>1. /\ n \in Nat /\ u \in Seq(CodeUnit)
      /\ \A i \in 1..n : u[i] \in CodeUnit /\ ~Lead(u[i])
    BY DEF Narrow
<1>2. /\ b = Enc(u)[1] /\ Enc(u)[n + 1] = <<>>
      /\ \A i \in 1..n : Enc(u)[i] = Bytes(u[i], 0) \o Enc(u)[i + 1]
      /\ \A i \in 1..(n + 1) : Enc(u)[i] \in Seq(Nat)
    BY EncWalk, Zenon
<1>3. b \in Seq(Nat)
    BY <1>1, <1>2
<1>4. /\ Rest(u, 1) = u /\ Rest(u, n + 1) = <<>>
      /\ \A i \in 1..n : Rest(u, i) = <<u[i]>> \o Rest(u, i + 1)
    BY <1>1, RestSteps, Zenon
<1> HIDE DEF n, b
<1>5. n + 1 \in S
  <2> SUFFICES ASSUME NEW p \in 1..(Len(b) + 1), EndsWith(b, p, <<>>)
               PROVE  Dec(b)[p] = <<>>
    BY <1>1, <1>2, <1>4
  <2>1. p \in (Len(b) + 1)..(Len(b) + 3)
    BY <1>3 DEF EndsWith
  <2> QED BY <1>3, <2>1, DecWalk, Zenon
<1>6. ASSUME NEW k \in 2..(n + 1), k \in S PROVE k - 1 \in S
  <2> DEFINE i == k - 1
  <2>1. i \in 1..n /\ i \in 1..(n + 1) /\ i + 1 = k /\ k \in 1..(n + 1)
    BY <1>1
  <2> HIDE DEF i
  <2>2. ASSUME NEW p \in 1..(Len(b) + 1), EndsWith(b, p, Enc(u)[i])
        PROVE  Dec(b)[p] = Rest(u, i)
    <3>1. EndsWith(b, p, Bytes(u[i], 0) \o Enc(u)[k])
      BY <1>2, <2>1, <2>2, Zenon
    <3>2. u[i] \in CodeUnit /\ ~Lead(u[i]) /\ Enc(u)[k] \in Seq(Nat)
      BY <1>1, <1>2, <2>1
    <3>3. PICK q \in 1..(Len(b) + 1) :
             EndsWith(b, q, Enc(u)[k]) /\ Dec(b)[p] = <<u[i]>> \o Dec(b)[q]
      BY <1>3, <3>1, <3>2, OneBack, Zenon
    <3>4. Dec(b)[q] = Rest(u, k)
      BY <1>6, <3>3, Zenon
    <3> QED BY <1>4, <2>1, <3>3, <3>4, Zenon
  <2>3. i \in S
    BY <2>1, <2>2
  <2> QED BY <2>3 DEF i
<1>7. 1 \in S
  <2> HIDE DEF S
  <2>1. n + 1 \in Nat /\ 1 \in 1..(n + 1)
    BY <1>1
  <2> QED BY <1>5, <1>6, <2>1, BackwardInduction
<1>8. 1 \in 1..(Len(b) + 1) /\ EndsWith(b, 1, Enc(u)[1])
    BY <1>2, <1>3 DEF EndsWith
<1>9. Dec(b)[1] = u
    BY <1>4, <1>7, <1>8, Zenon
<1>10. utf8_to_utf16(b) = Dec(b)[1]
    BY <1>3, DecWalk, Zenon
<1> QED BY <1>3, <1>9, <1>10 DEF b

-----------------------------------------------------------------------------
(* remove_illegal_chars *)

(* One unit or byte of remove_illegal_chars. *)
Clean(x) == IF x \in Illegal THEN 32 ELSE x

(* What the cleaned text is. *)
LEMMA CleanIs ==
    ASSUME NEW T, NEW s \in Seq(T), 32 \in T
    PROVE  /\ remove_illegal_chars(s) \in Seq(T)
           /\ Len(remove_illegal_chars(s)) = Len(s)
           /\ \A i \in 1..Len(s) : remove_illegal_chars(s)[i] = Clean(s[i])
<1>1. remove_illegal_chars(s) = [i \in 1..Len(s) |-> Clean(s[i])]
    BY DEF remove_illegal_chars, Clean
<1>2. \A i \in 1..Len(s) : Clean(s[i]) \in T
    BY DEF Clean
<1> DEFINE r == remove_illegal_chars(s)
<1>3. r \in [1..Len(s) -> T]
    BY <1>1, <1>2
<1>4. \A i \in 1..Len(s) : r[i] = Clean(s[i])
    BY <1>1
<1> HIDE DEF r
<1>5. r \in Seq(T) /\ Len(r) = Len(s)
    BY <1>3
<1> QED BY <1>4, <1>5 DEF r

(* Cleaning what is clean changes nothing. *)
LEMMA CleanTwice ==
    ASSUME NEW s
    PROVE  remove_illegal_chars(remove_illegal_chars(s)) = remove_illegal_chars(s)
<1>1. 32 \notin Illegal
    BY DEF Illegal
<1> QED BY <1>1 DEF remove_illegal_chars

(* Two texts are cleaned one by one. *)
LEMMA CleanCat ==
    ASSUME NEW x \in Seq(Nat), NEW y \in Seq(Nat)
    PROVE  remove_illegal_chars(x \o y) = remove_illegal_chars(x) \o remove_illegal_chars(y)
<1> DEFINE c == x \o y
           cx == remove_illegal_chars(x)
           cy == remove_illegal_chars(y)
           d == cx \o cy
           cc == remove_illegal_chars(c)
<1>1. IsCat(Nat, c, x, y)
    BY CatFacts, Zenon
<1>2. /\ cx \in Seq(Nat) /\ Len(cx) = Len(x) /\ \A i \in 1..Len(x) : cx[i] = Clean(x[i])
      /\ cy \in Seq(Nat) /\ Len(cy) = Len(y) /\ \A i \in 1..Len(y) : cy[i] = Clean(y[i])
    BY CleanIs
<1> HIDE DEF cx, cy, c
<1>3. IsCat(Nat, d, cx, cy)
    BY <1>2, CatFacts, Zenon
<1>4. cc \in Seq(Nat) /\ Len(cc) = Len(c) /\ \A i \in 1..Len(c) : cc[i] = Clean(c[i])
    BY <1>1, CleanIs DEF IsCat
<1> HIDE DEF d, cc
<1>5. /\ Len(x) \in Nat /\ Len(y) \in Nat
      /\ Len(cc) = Len(x) + Len(y) /\ Len(d) = Len(x) + Len(y)
      /\ d \in Seq(Nat) /\ cc \in Seq(Nat)
    BY <1>1, <1>2, <1>3, <1>4 DEF IsCat
<1>6. ASSUME NEW i \in 1..(Len(x) + Len(y)) PROVE cc[i] = d[i]
  <2>0. cc[i] = Clean(c[i])
    BY <1>1, <1>4 DEF IsCat
  <2>1. CASE i <= Len(x)
    <3>1. i \in 1..Len(x)
      BY <1>5, <2>1
    <3> QED BY <1>1, <1>2, <1>3, <2>0, <3>1 DEF IsCat
  <2>2. CASE i > Len(x)
    <3> DEFINE j == i - Len(x)
    <3>1. j \in 1..Len(y) /\ Len(x) + j = i
      BY <1>5, <2>2
    <3> HIDE DEF j
    <3>2. c[Len(x) + j] = y[j]
      BY <1>1, <3>1, Zenon DEF IsCat
    <3>3. d[Len(cx) + j] = cy[j]
      BY <1>2, <1>3, <3>1 DEF IsCat
    <3> QED BY <1>2, <2>0, <3>1, <3>2, <3>3
  <2> QED BY <1>5, <2>1, <2>2
<1>7. cc = d
    BY <1>5, <1>6
<1> QED BY <1>7 DEF cc, d, cx, cy, c

(* The bytewise replacement never falls into the middle of a character: it does
   to a unit's bytes what it does to the unit. *)
LEMMA CleanBytes ==
    ASSUME NEW s \in CodeUnit, ~Lead(s)
    PROVE  /\ Clean(s) \in CodeUnit /\ ~Lead(Clean(s))
           /\ Bytes(Clean(s), 0) = remove_illegal_chars(Bytes(s, 0))
<1>0. s \in Nat /\ s < 65536
    BY CodeUnits
<1>1. \A x \in Nat : x >= 128 => Clean(x) = x
    BY DEF Clean, Illegal
<1>2. CASE s < 128
  <2>1. Clean(s) \in Nat /\ Clean(s) < 128
    BY <1>0, <1>2 DEF Clean
  <2>2. Clean(s) \in CodeUnit /\ ~Lead(Clean(s))
    <3>1. \A x \in Nat : x < 128 => ~Lead(x)
      BY DEF Lead
    <3>2. \A x \in Nat : x < 128 => x \in CodeUnit
      BY CodeUnits
    <3> QED BY <2>1, <3>1, <3>2
  <2>3. Bytes(Clean(s), 0) = <<Clean(s)>> /\ Bytes(s, 0) = <<s>>
    BY <1>2, <2>1 DEF Bytes
  <2>4. remove_illegal_chars(<<s>>) = <<Clean(s)>>
    BY DEF remove_illegal_chars, Clean
  <2> QED BY <2>2, <2>3, <2>4
<1>3. CASE s >= 128
  <2> DEFINE e == Bytes(s, 0)
  <2>1. Clean(s) = s
    BY <1>0, <1>1, <1>3
  <2>2. e \in Seq(Nat)
    BY UnitSurvives
  <2>3. \A i \in 1..Len(e) : e[i] >= 128
    <3>1. CASE s < 2048
      <4> DEFINE x == 192 + (s \div 64)
                 y == 128 + (s % 64)
      <4>1. e = <<x, y>>
        BY <1>0, <1>3, <3>1 DEF Bytes
      <4>2. x >= 128 /\ y >= 128
        BY <1>0
      <4> HIDE DEF x, y
      <4> QED BY <4>1, <4>2
    <3>2. CASE s >= 2048
      <4> DEFINE x == 224 + (s \div 4096)
                 y == 128 + ((s \div 64) % 64)
                 z == 128 + (s % 64)
      <4>1. e = <<x, y, z>>
        BY <1>0, <1>3, <3>2 DEF Bytes
      <4>2. x >= 128 /\ y >= 128 /\ z >= 128
        BY <1>0
      <4> HIDE DEF x, y, z
      <4> QED BY <4>1, <4>2
    <3> QED BY <1>0, <3>1, <3>2
  <2> HIDE DEF e
  <2> DEFINE r == remove_illegal_chars(e)
  <2>4. r \in Seq(Nat) /\ Len(r) = Len(e) /\ \A i \in 1..Len(e) : r[i] = Clean(e[i])
    BY <2>2, CleanIs
  <2>5. \A i \in 1..Len(e) : r[i] = e[i]
    BY <1>1, <2>2, <2>3, <2>4
  <2> HIDE DEF r
  <2>6. r = e
    BY <2>2, <2>4, <2>5
  <2> QED BY <2>1, <2>6 DEF e, r
<1> QED BY <1>0, <1>2, <1>3

(* A text without surrogates has none when it is cleaned. *)
LEMMA CleanNarrow ==
    ASSUME NEW u, Narrow(u)
    PROVE  /\ Narrow(remove_illegal_chars(u)) /\ Len(remove_illegal_chars(u)) = Len(u)
           /\ \A i \in 1..Len(u) : remove_illegal_chars(u)[i] = Clean(u[i])
<1> DEFINE r == remove_illegal_chars(u)
<1>1. u \in Seq(CodeUnit) /\ \A i \in 1..Len(u) : u[i] \in CodeUnit /\ ~Lead(u[i])
    BY DEF Narrow
<1>2. 32 \in CodeUnit
    BY CodeUnits
<1>3. /\ r \in Seq(CodeUnit) /\ Len(r) = Len(u)
      /\ \A i \in 1..Len(u) : r[i] = Clean(u[i])
    BY <1>1, <1>2, CleanIs
<1> HIDE DEF r
<1>4. \A i \in DOMAIN r : ~Lead(r[i])
    BY <1>1, <1>3, CleanBytes
<1> QED BY <1>3, <1>4 DEF Narrow, r

(* Cleaning a text's UTF-8 form is cleaning the text: remove_illegal_chars (io.c)
   works on bytes and never falls into the middle of a character. *)
THEOREM CleanCommutes ==
    ASSUME NEW u, Narrow(u)
    PROVE  utf16_to_utf8(remove_illegal_chars(u)) = remove_illegal_chars(utf16_to_utf8(u))
<1> DEFINE n == Len(u)
           r == remove_illegal_chars(u)
           S == {i \in 1..(n + 1) : Enc(r)[i] = remove_illegal_chars(Enc(u)[i])}
<1>1. /\ n \in Nat /\ \A i \in 1..n : u[i] \in CodeUnit /\ ~Lead(u[i])
    BY DEF Narrow
<1>2. /\ utf16_to_utf8(u) = Enc(u)[1] /\ Enc(u)[n + 1] = <<>>
      /\ \A i \in 1..n : Enc(u)[i] = Bytes(u[i], 0) \o Enc(u)[i + 1]
      /\ \A i \in 1..(n + 1) : Enc(u)[i] \in Seq(Nat)
    BY EncWalk, Zenon
<1>3. Narrow(r) /\ Len(r) = n /\ \A i \in 1..n : r[i] = Clean(u[i])
    BY CleanNarrow, Zenon
<1> HIDE DEF n, r
<1>4. /\ utf16_to_utf8(r) = Enc(r)[1] /\ Enc(r)[n + 1] = <<>>
      /\ \A i \in 1..n : Enc(r)[i] = Bytes(r[i], 0) \o Enc(r)[i + 1]
  <2>1. /\ utf16_to_utf8(r) = Enc(r)[1] /\ Enc(r)[Len(r) + 1] = <<>>
        /\ \A i \in 1..Len(r) : Enc(r)[i] = Bytes(r[i], 0) \o Enc(r)[i + 1]
    BY <1>3, EncWalk, Zenon
  <2> QED BY <1>3, <2>1, Zenon
<1>5. n + 1 \in S
  <2>1. remove_illegal_chars(<<>>) = <<>>
    BY DEF remove_illegal_chars
  <2> QED BY <1>1, <1>2, <1>4, <2>1
<1>6. ASSUME NEW k \in 2..(n + 1), k \in S PROVE k - 1 \in S
  <2> DEFINE i == k - 1
  <2>1. i \in 1..n /\ i \in 1..(n + 1) /\ i + 1 = k /\ k \in 1..(n + 1)
    BY <1>1
  <2> HIDE DEF i
  <2>2. u[i] \in CodeUnit /\ ~Lead(u[i]) /\ Enc(u)[k] \in Seq(Nat)
    BY <1>1, <1>2, <2>1
  <2>3. Bytes(u[i], 0) \in Seq(Nat) /\ Bytes(r[i], 0) = remove_illegal_chars(Bytes(u[i], 0))
    BY <1>3, <2>1, <2>2, UnitSurvives, CleanBytes
  <2>4. Enc(r)[k] = remove_illegal_chars(Enc(u)[k])
    BY <1>6
  <2>5. Enc(r)[i] = remove_illegal_chars(Bytes(u[i], 0)) \o remove_illegal_chars(Enc(u)[k])
    BY <1>4, <2>1, <2>3, <2>4, Zenon
  <2>6. Enc(r)[i] = remove_illegal_chars(Bytes(u[i], 0) \o Enc(u)[k])
    BY <2>2, <2>3, <2>5, CleanCat, Zenon
  <2>7. Enc(r)[i] = remove_illegal_chars(Enc(u)[i])
    BY <1>2, <2>1, <2>6, Zenon
  <2> QED BY <2>1, <2>7 DEF i
<1>7. 1 \in S
  <2> HIDE DEF S
  <2>1. n + 1 \in Nat /\ 1 \in 1..(n + 1)
    BY <1>1
  <2> QED BY <1>5, <1>6, <2>1, BackwardInduction
<1> QED BY <1>2, <1>4, <1>7, Zenon DEF r

-----------------------------------------------------------------------------
(* Types *)

(* Bytes, and what an unset array reads as. *)
Char == {c \in Nat : c <= 256}

(* A unit becomes bytes. *)
LEMMA BytesType ==
    ASSUME NEW s \in CodeUnit, NEW t \in Nat
    PROVE  Bytes(s, t) \in Seq(Char)
<1>0. s \in Nat /\ s < 65536
    BY CodeUnits
<1>1. CASE s < 128
  <2>1. Bytes(s, t) = <<s>> /\ s \in Char
    BY <1>0, <1>1 DEF Bytes, Char
  <2> QED BY <2>1
<1>2. CASE s >= 128 /\ s < 2048
  <2> DEFINE x == 192 + (s \div 64)
             y == 128 + (s % 64)
  <2>1. Bytes(s, t) = <<x, y>>
    BY <1>0, <1>2 DEF Bytes
  <2>2. x \in Char /\ y \in Char
    BY <1>0, <1>2 DEF Char
  <2> HIDE DEF x, y
  <2> QED BY <2>1, <2>2
<1>3. CASE s >= 2048 /\ Lead(s) /\ Trail(t)
  <2> DEFINE w == 240 + (((s + 64) \div 256) % 4)
             x == 128 + (((s \div 4) + 16) % 64)
             y == 128 + ((s \div 256) % 4) * 16 + ((t * 4) % 16)
             z == 128 + (t % 64)
  <2>1. Bytes(s, t) = <<w, x, y, z>>
    BY <1>0, <1>3 DEF Bytes
  <2>2. w \in Char /\ x \in Char /\ y \in Char /\ z \in Char
    BY <1>0 DEF Char
  <2> HIDE DEF w, x, y, z
  <2> QED BY <2>1, <2>2
<1>4. CASE s >= 2048 /\ ~(Lead(s) /\ Trail(t))
  <2> DEFINE x == 224 + (s \div 4096)
             y == 128 + ((s \div 64) % 64)
             z == 128 + (s % 64)
  <2>1. Bytes(s, t) = <<x, y, z>>
    BY <1>0, <1>4 DEF Bytes
  <2>2. x \in Char /\ y \in Char /\ z \in Char
    BY <1>0 DEF Char
  <2> HIDE DEF x, y, z
  <2> QED BY <2>1, <2>2
<1> QED BY <1>0, <1>1, <1>2, <1>3, <1>4

(* utf16_to_utf8 yields bytes, of any units. *)
LEMMA EncType ==
    ASSUME NEW u \in Seq(CodeUnit)
    PROVE  utf16_to_utf8(u) \in Seq(Char)
<1> DEFINE n == Len(u)
           become == [i \in 1..n |-> Bytes(u[i], At(u, i + 1))]
           width == [i \in 1..n |-> IF Lead(u[i]) /\ Trail(At(u, i + 1)) THEN 2 ELSE 1]
<1>1. n \in Nat /\ DOMAIN u = 1..n /\ \A i \in 1..n : u[i] \in CodeUnit
    OBVIOUS
<1>2. utf16_to_utf8(u) = WalkFrom(become, width)[1]
    BY <1>1 DEF utf16_to_utf8, Walk
<1>3. \A i \in Nat : At(u, i) \in Nat
    BY <1>1, CodeUnits DEF At
<1>4. become \in [1..n -> Seq(Char)]
    BY <1>1, <1>3, BytesType
<1>5. width \in [1..n -> 1..3]
    OBVIOUS
<1> HIDE DEF become, width, n
<1>6. Len(become) = n /\ 1 \in 1..(n + 3)
    BY <1>1, <1>4
<1>9. WalkFrom(become, width)[1] \in Seq(Char)
    BY <1>1, <1>4, <1>5, <1>6, WalkType, Zenon
<1> QED BY <1>2, <1>9

(* utf8_to_utf16 yields units, of any bytes. *)
LEMMA DecType ==
    ASSUME NEW b \in Seq(Char)
    PROVE  utf8_to_utf16(b) \in Seq(CodeUnit)
<1> DEFINE n == Len(b)
           become == [i \in 1..n |-> <<Unit(b[i], At(b, i + 1), At(b, i + 2))>>]
           width == [i \in 1..n |-> Width(b[i])]
<1>1. n \in Nat /\ DOMAIN b = 1..n /\ \A i \in 1..n : b[i] \in Char
    OBVIOUS
<1>2. utf8_to_utf16(b) = WalkFrom(become, width)[1]
    BY <1>1 DEF utf8_to_utf16, Walk
<1>3. \A i \in Nat : At(b, i) \in Nat
    BY <1>1 DEF At, Char
<1>4. ASSUME NEW x \in Char, NEW c \in Nat, NEW d \in Nat PROVE Unit(x, c, d) \in CodeUnit
  <2>1. Unit(x, c, d) \in Nat /\ Unit(x, c, d) < 65536
    BY DEF Unit, Char
  <2> QED BY <2>1, CodeUnits
<1>5. \A i \in 1..n : Unit(b[i], At(b, i + 1), At(b, i + 2)) \in CodeUnit
    BY <1>1, <1>3, <1>4
<1>6. become \in [1..n -> Seq(CodeUnit)]
    BY <1>5
<1>7. width \in [1..n -> 1..3]
    BY DEF Width
<1> HIDE DEF become, width, n
<1>8. Len(become) = n /\ 1 \in 1..(n + 3)
    BY <1>1, <1>6
<1>9. WalkFrom(become, width)[1] \in Seq(CodeUnit)
    BY <1>1, <1>6, <1>7, <1>8, WalkType, Zenon
<1> QED BY <1>2, <1>9

-----------------------------------------------------------------------------
(* File names *)

(* NameSurvivesKeyboard of a name and the units meant, wide characters aside. *)
Survives(name, meant) ==
    /\ utf8_to_utf16(name) = remove_illegal_chars(meant)
    /\ utf16_to_utf8(utf8_to_utf16(name)) = name

(* What is typed survives as a file name, and so does a title, which is read
   cleaned and meant as it is read. *)
LEMMA TypedSurvives ==
    ASSUME NEW u, Narrow(u), NEW name, name = remove_illegal_chars(utf16_to_utf8(u))
    PROVE  Survives(name, u) /\ Survives(name, utf8_to_utf16(name))
<1> DEFINE r == remove_illegal_chars(u)
<1>1. Narrow(r)
    BY CleanNarrow, Zenon
<1>2. name = utf16_to_utf8(r)
    BY CleanCommutes, Zenon
<1>3. utf8_to_utf16(name) = r
    BY <1>1, <1>2, ThereAndBack, Zenon
<1>4. remove_illegal_chars(r) = r
    BY CleanTwice, Zenon
<1> HIDE DEF r
<1>5. remove_illegal_chars(u) = r
    BY DEF r
<1> QED BY <1>2, <1>3, <1>4, <1>5, Zenon DEF Survives
=============================================================================
