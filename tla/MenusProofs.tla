---------------------------- MODULE MenusProofs ----------------------------
(***************************************************************************)
(* Proofs about Menus: for any size of the option array and of the window, *)
(* any folders, cards and registers.                                       *)
(***************************************************************************)
EXTENDS Menus, ImeProofs, FiniteSetTheorems, TLAPS

(* A set of natural numbers that is not empty has a least element. *)
LEMMA LeastNat ==
    ASSUME NEW T \in SUBSET Nat, T # {}
    PROVE  Min(T) \in T /\ \A y \in T : Min(T) <= y
<1>1. \E m \in T : \A k \in T : m <= k
    BY LeastElement
<1> QED BY <1>1 DEF Min

(* A set of natural numbers with a bound has a greatest one. *)
LEMMA GreatestNat ==
    ASSUME NEW n \in Nat, NEW T \in SUBSET (0..n), T # {}
    PROVE  Max(T) \in T /\ \A y \in T : y <= Max(T)
<1> DEFINE U == {n - i : i \in T}
<1>1. U \in SUBSET Nat /\ U # {}
  <2>1. PICK i \in T : TRUE
    OBVIOUS
  <2>2. \A j \in T : n - j \in Nat
    OBVIOUS
  <2>3. n - i \in U
    OBVIOUS
  <2> QED BY <2>2, <2>3
<1>2. Min(U) \in U /\ \A y \in U : Min(U) <= y
    BY <1>1, LeastNat
<1>3. PICK x \in T : Min(U) = n - x
    BY <1>2
<1>4. \A y \in T : y <= x
    BY <1>2, <1>3
<1> QED BY <1>4 DEF Max

(* The remainder of the number of files by the window's size. *)
LEMMA Remainder ==
    ASSUME NEW n \in Nat, NEW w \in Nat, w > 1
    PROVE  /\ n % w \in 0..(w - 1)
           /\ n < w => n % w = n
           /\ n >= w => n - (n % w) >= w
<1>a. n \div w \in Int
  OBVIOUS
<1>b. n % w \in 0..(w - 1)
  OBVIOUS
<1>c. n = w * (n \div w) + (n % w)
  OBVIOUS
<1>1. n = w * (n \div w) + (n % w) /\ n % w \in 0..(w - 1) /\ n \div w \in Int
  BY <1>a, <1>b, <1>c
<1> DEFINE q == n \div w
           r == n % w
<1>2. n = w * q + r /\ r \in 0..(w - 1) /\ q \in Int
  BY <1>1
<1> HIDE DEF q, r
<1>3. q >= 1 => w * q >= w
  BY <1>2
<1>4. q <= -1 => w * q <= -w
  BY <1>2
<1>5. q = 0 => w * q = 0
  BY <1>2
<1>6. n < w => q = 0
  BY <1>2, <1>3, <1>4
<1>7. n >= w => q >= 1
  BY <1>2, <1>4, <1>5
<1>8. /\ r \in 0..(w - 1)
      /\ n < w => r = n
      /\ n >= w => n - r >= w
  BY <1>2, <1>3, <1>5, <1>6, <1>7
<1> QED BY <1>8 DEF r

(* The smaller of two numbers. *)
LEMMA MinPair ==
    ASSUME NEW a \in Int, NEW b \in Int
    PROVE  Min({a, b}) = IF a <= b THEN a ELSE b
<1> DEFINE m == IF a <= b THEN a ELSE b
<1>1. m \in {a, b} /\ \A y \in {a, b} : m <= y
    OBVIOUS
<1>2. \A x \in {a, b} : (\A y \in {a, b} : x <= y) => x = m
    OBVIOUS
<1> HIDE DEF m
<1>3. Min({a, b}) = m
    BY <1>1, <1>2 DEF Min
<1> QED BY <1>3 DEF m

-----------------------------------------------------------------------------
(* The cursor *)

(* options[] holds zeros and ones. *)
LEMMA OptionsType ==
    ASSUME past \in {0, 1}, NEW rows, NEW i
    PROVE  options(rows, i) \in {0, 1}
    BY DEF options

(* Of rows of which one is drawn, CALC_FIRST_OPTION and CALC_LAST_OPTION are
   rows that are drawn, and every other lies between them. *)
LEMMA Ends ==
    ASSUME NEW rows, NEW k \in 0..Size, options(rows, k) = 1
    PROVE  /\ CALC_FIRST_OPTION(rows) \in 0..Size /\ CALC_LAST_OPTION(rows) \in 0..Size
           /\ CALC_FIRST_OPTION(rows) <= CALC_LAST_OPTION(rows)
           /\ options(rows, CALC_FIRST_OPTION(rows)) = 1
           /\ options(rows, CALC_LAST_OPTION(rows)) = 1
           /\ \A i \in 0..Size : options(rows, i) = 1 =>
                  CALC_FIRST_OPTION(rows) <= i /\ i <= CALC_LAST_OPTION(rows)
<1> USE SizeAssumption
<1> DEFINE F == {i \in 0..Size : i = Size \/ options(rows, i) = 1}
           L == {i \in 0..Size : i = 0 \/ options(rows, i) = 1}
<1>1. Min(F) \in F /\ \A y \in F : Min(F) <= y
  <2>1. F \in SUBSET Nat /\ k \in F
    OBVIOUS
  <2> QED BY <2>1, LeastNat
<1>2. Max(L) \in L /\ \A y \in L : y <= Max(L)
  <2>1. L \in SUBSET (0..Size) /\ k \in L
    OBVIOUS
  <2> QED BY <2>1, GreatestNat
<1>3. k \in F /\ k \in L
    OBVIOUS
<1>4. Min(F) = Size => k = Size
    BY <1>1, <1>3
<1>5. Max(L) = 0 => k = 0
    BY <1>2, <1>3
<1> QED BY <1>1, <1>2, <1>3, <1>4, <1>5 DEF CALC_FIRST_OPTION, CALC_LAST_OPTION

(* UP leads to a row that is drawn or past the first one. *)
LEMMA AboveLands ==
    ASSUME past \in {0, 1}, NEW rows, NEW k \in 0..Size, options(rows, k) = 1,
           NEW s \in 0..Size
    PROVE  /\ Above(rows, s) \in Int
           /\ Above(rows, s) < CALC_FIRST_OPTION(rows) \/ options(rows, Above(rows, s)) = 1
<1> USE SizeAssumption
<1>1. CALC_FIRST_OPTION(rows) \in 0..Size /\ options(rows, CALC_FIRST_OPTION(rows)) = 1
    BY Ends
<1>2. CASE s = 0
    BY <1>1, <1>2 DEF Above
<1>3. CASE s > 0
  <2> DEFINE A == {i \in 0..(s - 1) : i = 0 \/ options(rows, i) # 0}
  <2>1. A \in SUBSET (0..(s - 1)) /\ 0 \in A /\ s - 1 \in Nat
    BY <1>3
  <2>2. Max(A) \in A
    BY <2>1, GreatestNat
  <2>3. Above(rows, s) = Max(A)
    BY <1>3 DEF Above
  <2>4. options(rows, Max(A)) = 1 \/ Max(A) = 0
    BY <2>2, OptionsType
  <2> QED BY <1>1, <2>2, <2>3, <2>4
<1> QED BY <1>2, <1>3

(* DOWN leads to a row that is drawn or past the last one. *)
LEMMA BelowLands ==
    ASSUME past \in {0, 1}, NEW rows, NEW k \in 0..Size, options(rows, k) = 1,
           NEW s \in 0..Size
    PROVE  /\ Below(rows, s) \in Int
           /\ Below(rows, s) > CALC_LAST_OPTION(rows) \/ options(rows, Below(rows, s)) = 1
<1> USE SizeAssumption
<1>1. /\ CALC_LAST_OPTION(rows) \in 0..Size
      /\ options(rows, CALC_LAST_OPTION(rows)) = 1
    BY Ends
<1>2. CASE s = Size
    BY <1>1, <1>2 DEF Below
<1>3. CASE s < Size
  <2> DEFINE B == {i \in (s + 1)..Size : i = Size \/ options(rows, i) # 0}
  <2>1. B \in SUBSET Nat /\ Size \in B
    BY <1>3
  <2>2. Min(B) \in B
    BY <2>1, LeastNat
  <2>3. Below(rows, s) = Min(B)
    BY <1>3 DEF Below
  <2>4. options(rows, Min(B)) = 1 \/ Min(B) = Size
    BY <2>2, OptionsType
  <2> QED BY <1>1, <2>2, <2>3, <2>4
<1> QED BY <1>2, <1>3

(* After the tests at the end of the loop the cursor is on a row that is drawn,
   wherever the key drove it. *)
LEMMA ClampLands ==
    ASSUME NEW rows, NEW k \in 0..Size, options(rows, k) = 1, NEW s \in Int, NEW w,
           \/ s < CALC_FIRST_OPTION(rows) \/ s > CALC_LAST_OPTION(rows)
           \/ options(rows, s) = 1
    PROVE  /\ Clamp(rows, s, w).sel \in 0..Size
           /\ CALC_FIRST_OPTION(rows) <= Clamp(rows, s, w).sel
           /\ Clamp(rows, s, w).sel <= CALC_LAST_OPTION(rows)
           /\ options(rows, Clamp(rows, s, w).sel) = 1
<1> USE SizeAssumption
<1>1. /\ CALC_FIRST_OPTION(rows) \in 0..Size /\ CALC_LAST_OPTION(rows) \in 0..Size
      /\ CALC_FIRST_OPTION(rows) <= CALC_LAST_OPTION(rows)
      /\ options(rows, CALC_FIRST_OPTION(rows)) = 1
      /\ options(rows, CALC_LAST_OPTION(rows)) = 1
    BY Ends
<1> QED BY <1>1 DEF Clamp

(* Rows that draw the same numbers have the same ends. *)
LEMMA SameEnds ==
    ASSUME NEW r1, NEW r2, \A i \in 0..Size : options(r1, i) = options(r2, i)
    PROVE  /\ CALC_FIRST_OPTION(r1) = CALC_FIRST_OPTION(r2)
           /\ CALC_LAST_OPTION(r1) = CALC_LAST_OPTION(r2)
<1>1. {i \in 0..Size : i = Size \/ options(r1, i) = 1}
        = {i \in 0..Size : i = Size \/ options(r2, i) = 1}
    OBVIOUS
<1>2. {i \in 0..Size : i = 0 \/ options(r1, i) = 1}
        = {i \in 0..Size : i = 0 \/ options(r2, i) = 1}
    OBVIOUS
<1> QED BY <1>1, <1>2 DEF CALC_FIRST_OPTION, CALC_LAST_OPTION

-----------------------------------------------------------------------------
(* The file menu *)

(* The windows draw_select_file is called with, for so many files. *)
WindowOk(w, total) ==
    /\ total \in Nat \ {0} /\ w \in Int /\ w < total % WINDOW_SIZE
    /\ total < WINDOW_SIZE \/ total % WINDOW_SIZE = 1 => w = 0
RowCount(total) == IF total < WINDOW_SIZE THEN total ELSE WINDOW_SIZE + 1

(* A window shows all the files, or one more than WINDOW_SIZE of them. *)
LEMMA WindowRows ==
    ASSUME NEW w, NEW total, WindowOk(w, total)
    PROVE  /\ RowCount(total) \in 1..Size
           /\ draw_select_file(w, total) = [j \in 1..RowCount(total) |->
                 Row(TRUE, IF w + j - 1 < 0 THEN NoFile ELSE w + j - 1)]
           /\ Len(draw_select_file(w, total)) = RowCount(total)
<1> USE SizeAssumption DEF WindowOk, RowCount
<1> DEFINE r == total % WINDOW_SIZE
<1>1. /\ r \in 0..(WINDOW_SIZE - 1)
      /\ total < WINDOW_SIZE => r = total
      /\ total >= WINDOW_SIZE => total - r >= WINDOW_SIZE
  <2>1. total \in Nat /\ WINDOW_SIZE \in Nat /\ WINDOW_SIZE > 1
    OBVIOUS
  <2> QED BY <2>1, Remainder, Zenon
<1>2. w < r /\ w \in Int /\ total \in Nat
    OBVIOUS
<1>3. total < WINDOW_SIZE => w = 0
    OBVIOUS
<1> HIDE DEF r
<1>4. Min({w + WINDOW_SIZE, total - 1})
        = IF w + WINDOW_SIZE <= total - 1 THEN w + WINDOW_SIZE ELSE total - 1
    BY <1>2, MinPair
<1>5. Min({w + WINDOW_SIZE, total - 1}) - w + 1 = RowCount(total)
    BY <1>1, <1>2, <1>3, <1>4
<1>6. RowCount(total) \in 1..Size
    OBVIOUS
<1>7. draw_select_file(w, total) = [j \in 1..RowCount(total) |->
          Row(TRUE, IF w + j - 1 < 0 THEN NoFile ELSE w + j - 1)]
    BY <1>5 DEF draw_select_file
<1> HIDE DEF RowCount
<1>8. Len(draw_select_file(w, total)) = RowCount(total)
    BY <1>6, <1>7
<1> QED BY <1>6, <1>7, <1>8

(* Each of them is drawn, at the first numbers. *)
LEMMA WindowOptions ==
    ASSUME NEW w, NEW total, WindowOk(w, total), NEW i \in 0..Size
    PROVE  options(draw_select_file(w, total), i)
             = IF i = Size THEN past ELSE IF i < RowCount(total) THEN 1 ELSE 0
<1> DEFINE rows == draw_select_file(w, total)
           n == RowCount(total)
<1>1. n \in 1..Size /\ DOMAIN rows = 1..n /\ \A j \in 1..n : rows[j].on = TRUE
    BY WindowRows DEF Row
<1> HIDE DEF rows, n
<1>2. i + 1 \in DOMAIN rows <=> i < n
    BY <1>1, SizeAssumption
<1>3. options(rows, i) = IF i = Size THEN past ELSE IF i < n THEN 1 ELSE 0
    BY <1>1, <1>2 DEF options
<1> QED BY <1>3 DEF rows, n

(* The test at the top of draw_select_file yields such a window from any that is
   one off it. *)
LEMMA ClampedWindow ==
    ASSUME NEW total \in Nat \ {0}, NEW w \in Int,
           total < WINDOW_SIZE => w = 0,
           total % WINDOW_SIZE = 1 => w \in {0, 1}
    PROVE  WindowOk(ClampWindow(w, total), total)
<1> USE SizeAssumption
<1> DEFINE r == total % WINDOW_SIZE
<1>1. r \in 0..(WINDOW_SIZE - 1) /\ (total < WINDOW_SIZE => r = total)
  <2>1. total \in Nat /\ WINDOW_SIZE \in Nat /\ WINDOW_SIZE > 1
    OBVIOUS
  <2> QED BY <2>1, Remainder, Zenon
<1>2. r = 1 => w \in {0, 1}
    OBVIOUS
<1> HIDE DEF r
<1>3. LET x == IF w > r - 1 THEN r - 1 ELSE w
      IN  x \in Int /\ x < r /\ (total < WINDOW_SIZE \/ r = 1 => x = 0)
    BY <1>1, <1>2
<1> QED BY <1>3 DEF WindowOk, ClampWindow, r

(* The count of get_files_in_folder is a number of files, or -1. *)
LEMMA FileCount ==
    ASSUME NEW folder \in Folders
    PROVE  get_files_in_folder(folder) \in Nat \cup {-1}
<1> USE SizeAssumption, InputAssumption
<1> DEFINE I == {i \in 1..Len(folder) : folder[i] \in {"blank", "error"}}
           stop == IF I # {} THEN Min(I) ELSE 0
           end == IF stop = 0 THEN Len(folder) ELSE stop - 1
           hits == {i \in 1..Min({end, Size}) : folder[i] = "match"}
<1>1. Len(folder) \in Nat
    OBVIOUS
<1>2. I # {} => Min(I) \in I
  <2>1. I \in SUBSET Nat
    BY <1>1
  <2> HIDE DEF I
  <2> QED BY <2>1, LeastNat
<1>3. stop \in Nat /\ end \in Nat
    BY <1>1, <1>2
<1>4. Min({end, Size}) \in Int
  <2> HIDE DEF end
  <2>1. Size \in Int /\ end \in Int
    BY <1>3
  <2> QED BY <2>1, MinPair
<1>5. IsFiniteSet(1..Min({end, Size}))
    BY <1>4, FS_Interval
<1>6. IsFiniteSet(hits)
    BY <1>5, FS_Subset
<1>7. Cardinality(hits) \in Nat
    BY <1>6, FS_CardinalityType
<1>8. SelectInSeq(folder, LAMBDA e : e \in {"blank", "error"}) = stop
    BY DEF SelectInSeq
<1>9. get_files_in_folder(folder) = -1 \/ get_files_in_folder(folder) = Cardinality(hits)
    BY <1>8 DEF get_files_in_folder
<1> QED BY <1>7, <1>9

-----------------------------------------------------------------------------
(* The invariant *)

(* No enumeration has more than nine values. *)
LEMMA EnumRows == \A m \in DOMAIN Enum : \E n \in 1..9 : DOMAIN Enum[m] = 1..n
<1> SUFFICES ASSUME NEW m \in DOMAIN Enum PROVE \E n \in 1..9 : DOMAIN Enum[m] = 1..n
    OBVIOUS
<1>1. m \in {"gc", "net", "erase", "input", "output", "format"}
    BY DEF Enum
<1>2. CASE m = "gc"
  <2>1. DOMAIN Enum[m] = 1..9
    BY <1>2 DEF Enum
  <2> QED BY <2>1
<1>3. CASE m \in {"net", "erase"}
  <2>1. DOMAIN Enum[m] = 1..3
    BY <1>3 DEF Enum
  <2> QED BY <2>1
<1>4. CASE m \in {"input", "format"}
  <2>1. DOMAIN Enum[m] = 1..5
    BY <1>4 DEF Enum
  <2> QED BY <2>1
<1>5. CASE m = "output"
  <2>1. DOMAIN Enum[m] = 1..7
    BY <1>5 DEF Enum
  <2> QED BY <2>1
<1> QED BY <1>1, <1>2, <1>3, <1>4, <1>5

(* A row of an enumeration that is on is drawn. *)
LEMMA EnumOption ==
    ASSUME NEW m \in DOMAIN Enum, NEW rows, DOMAIN rows = DOMAIN Enum[m],
           NEW i \in DOMAIN rows, rows[i].on
    PROVE  i - 1 \in 0..Size /\ options(rows, i - 1) = 1
<1>1. PICK n \in 1..9 : DOMAIN rows = 1..n
    BY EnumRows
<1>2. i \in 1..9 /\ i - 1 \in 0..Size /\ i - 1 # Size /\ (i - 1) + 1 = i
    BY <1>1, SizeAssumption
<1> QED BY <1>2 DEF options

(* While a menu is open one of its rows is drawn. *)
LEMMA SomeRow ==
    ASSUME RowsInv, menu # "none"
    PROVE  \E k \in 0..Size : options(shown, k) = 1
<1>1. CASE menu = "file"
  <2>1. WindowOk(window, files) /\ shown = draw_select_file(window, files)
    BY <1>1 DEF RowsInv, WindowOk
  <2>2. RowCount(files) \in 1..Size
    BY <2>1, WindowRows
  <2>3. 0 \in 0..Size /\ 0 # Size
    BY SizeAssumption
  <2>4. options(shown, 0) = 1
    BY <2>1, <2>2, <2>3, WindowOptions
  <2> QED BY <2>3, <2>4
<1>2. CASE menu \in DOMAIN Enum
  <2>1. PICK i \in DOMAIN shown : shown[i].on
    BY <1>2 DEF RowsInv
  <2>2. i - 1 \in 0..Size /\ options(shown, i - 1) = 1
    BY <1>2, <2>1, EnumOption DEF RowsInv
  <2> QED BY <2>2
<1> QED BY <1>1, <1>2 DEF RowsInv

(* The byte after the array never changes, so that the same rows read the same
   before and after a step. *)
LEMMA PrimedRows ==
    ASSUME past' = past
    PROVE  /\ CALC_FIRST_OPTION(shown)' = CALC_FIRST_OPTION(shown')
           /\ CALC_LAST_OPTION(shown)' = CALC_LAST_OPTION(shown')
           /\ options(shown, selected)' = options(shown', selected')
    BY DEF CALC_FIRST_OPTION, CALC_LAST_OPTION, options

(* A menu opens with the cursor on its first row. *)
LEMMA OpensOnRow ==
    ASSUME past' = past, NEW k \in 0..Size, options(shown', k) = 1,
           selected' = CALC_FIRST_OPTION(shown')
    PROVE  CursorInv'
    BY Ends, PrimedRows DEF CursorInv

(* The menus whose rows are an enumeration's. *)
LEMMA OpenEnum ==
    ASSUME NavInv, NEW m \in DOMAIN Enum, NEW rows, Open(m, rows, 0, 0),
           DOMAIN rows = DOMAIN Enum[m], \A i \in DOMAIN rows : rows[i].what = Enum[m][i],
           \E i \in DOMAIN rows : rows[i].on
    PROVE  NavInv'
<1>1. /\ menu' = m /\ shown' = rows /\ past' = past /\ port' = port
      /\ selected' = CALC_FIRST_OPTION(rows)
    BY DEF Open
<1>2. m # "none" /\ m # "file"
    BY DEF Enum
<1>3. RowsInv'
    BY <1>1, <1>2 DEF RowsInv
<1>4. \E k \in 0..Size : options(rows, k) = 1
    BY EnumOption
<1>5. CursorInv'
    BY <1>1, <1>4, OpensOnRow
<1> QED BY <1>1, <1>3, <1>5, Zenon DEF NavInv

(* The file menu. *)
LEMMA OpenFiles ==
    ASSUME NavInv, NEW total \in Nat \ {0},
           LET w == ClampWindow(0, total)
           IN  Open("file", draw_select_file(w, total), total, w)
    PROVE  NavInv'
<1> DEFINE w == ClampWindow(0, total)
<1>1. /\ menu' = "file" /\ shown' = draw_select_file(w, total) /\ past' = past
      /\ port' = port /\ files' = total /\ window' = w
      /\ selected' = CALC_FIRST_OPTION(draw_select_file(w, total))
    BY DEF Open
<1>2. WindowOk(w, total)
    BY ClampedWindow
<1> HIDE DEF w
<1>3. /\ RowCount(total) \in 1..Size
      /\ Len(draw_select_file(w, total)) = RowCount(total)
    BY <1>2, WindowRows
<1>4. RowsInv'
    BY <1>1, <1>2, <1>3 DEF RowsInv, WindowOk, RowCount, Enum
<1>5. 0 \in 0..Size /\ options(draw_select_file(w, total), 0) = 1
    BY <1>2, <1>3, WindowOptions, SizeAssumption
<1>6. CursorInv'
    BY <1>1, <1>5, OpensOnRow
<1> QED BY <1>1, <1>4, <1>6, Zenon DEF NavInv

(* A step that leaves the menu alone. *)
LEMMA NavKept ==
    ASSUME NavInv, UNCHANGED <<menu, shown, files, window, selected, past>>, port' \in Port
    PROVE  NavInv'
<1>1. RowsInv'
    BY DEF NavInv, RowsInv
<1>2. CursorInv'
    BY PrimedRows DEF NavInv, CursorInv
<1> QED BY <1>1, <1>2, Zenon DEF NavInv

(* A key that drives the cursor to s, or past an end. *)
LEMMA KeyStep ==
    ASSUME NavInv, NEW s \in Int, Key(s),
           \/ s < CALC_FIRST_OPTION(shown) \/ s > CALC_LAST_OPTION(shown)
           \/ options(shown, s) = 1
    PROVE  NavInv'
<1> DEFINE to == Clamp(shown, s, window)
<1>0. /\ RowsInv /\ menu # "none" /\ menu' = menu /\ files' = files /\ past' = past
      /\ port' = port /\ selected' = to.sel /\ Redraw(to.win)
    BY DEF NavInv, Key
<1>1. PICK k \in 0..Size : options(shown, k) = 1
    BY <1>0, SomeRow
<1>2. /\ to.sel \in 0..Size /\ options(shown, to.sel) = 1
      /\ CALC_FIRST_OPTION(shown) <= to.sel /\ to.sel <= CALC_LAST_OPTION(shown)
    BY <1>1, ClampLands
<1>3. CASE menu # "file"
  <2>1. shown' = shown
    BY <1>0, <1>3 DEF Redraw
  <2>2. RowsInv'
    BY <1>0, <1>3, <2>1 DEF RowsInv
  <2>3. CursorInv'
    BY <1>0, <1>2, <2>1, PrimedRows DEF CursorInv
  <2> QED BY <1>0, <2>2, <2>3, Zenon DEF NavInv
<1>4. CASE menu = "file"
  <2>1. /\ WindowOk(window, files) /\ shown = draw_select_file(window, files)
        /\ Len(shown) = RowCount(files) /\ files \in Nat \ {0} /\ window \in Int
    BY <1>0, <1>4 DEF RowsInv, WindowOk, RowCount
  <2>2. CALC_FIRST_OPTION(shown) = 0
    <3>0. RowCount(files) \in 1..Size
      BY <2>1, WindowRows
    <3>1. 0 \in 0..Size /\ 0 # Size /\ 0 < RowCount(files)
      BY <3>0, SizeAssumption
    <3>2. options(shown, 0) = 1
      BY <2>1, <3>1, WindowOptions
    <3>3. CALC_FIRST_OPTION(shown) \in 0..Size /\ CALC_FIRST_OPTION(shown) <= 0
      BY <3>1, <3>2, Ends
    <3> QED BY <3>3
  <2>3. \/ to.win = window
        \/ to.win = window + 1 /\ RowCount(files) > WINDOW_SIZE
        \/ to.win = window - 1 /\ window # 0
    BY <2>1, <2>2 DEF Clamp, TotalOptions
  <2>4. /\ files < WINDOW_SIZE => to.win = 0
        /\ files % WINDOW_SIZE = 1 => to.win \in {0, 1}
        /\ to.win \in Int
    BY <2>1, <2>3, SizeAssumption DEF WindowOk, RowCount
  <2>5. /\ window' = ClampWindow(to.win, files)
        /\ shown' = draw_select_file(window', files)
    BY <1>0, <1>4 DEF Redraw
  <2> HIDE DEF to
  <2>6. WindowOk(window', files)
    BY <2>1, <2>4, <2>5, ClampedWindow
  <2>7. Len(shown') = RowCount(files)
    BY <2>5, <2>6, WindowRows
  <2>8. RowsInv'
    BY <1>0, <1>4, <2>5, <2>6, <2>7 DEF RowsInv, WindowOk, RowCount, Enum
  <2>9. \A i \in 0..Size : options(shown, i) = options(shown', i)
    BY <2>1, <2>5, <2>6, WindowOptions
  <2>10. /\ CALC_FIRST_OPTION(shown) = CALC_FIRST_OPTION(shown')
         /\ CALC_LAST_OPTION(shown) = CALC_LAST_OPTION(shown')
    BY <2>9, SameEnds
  <2>11. CursorInv'
    BY <1>0, <1>2, <2>9, <2>10, PrimedRows DEF CursorInv
  <2> QED BY <1>0, <2>8, <2>11, Zenon DEF NavInv
<1> QED BY <1>3, <1>4

(* UP and DOWN. *)
LEMMA ArrowStep == NavInv /\ (PressUp \/ PressDown) => NavInv'
<1> SUFFICES ASSUME NavInv, PressUp \/ PressDown PROVE NavInv'
    OBVIOUS
<1>1. menu # "none" /\ past \in {0, 1} /\ selected \in 0..Size
    BY DEF NavInv, CursorInv, PressUp, PressDown, Key
<1>2. PICK k \in 0..Size : options(shown, k) = 1
    BY <1>1, SomeRow DEF NavInv
<1>3. CASE PressUp
    BY <1>1, <1>2, <1>3, AboveLands, KeyStep DEF PressUp
<1>4. CASE PressDown
    BY <1>1, <1>2, <1>4, BelowLands, KeyStep DEF PressDown
<1> QED BY <1>3, <1>4

(* The rows that do_gc_options draws are its enumeration's, whichever are hidden. *)
LEMMA GcRows ==
    ASSUME NEW g \in BOOLEAN, NEW m \in BOOLEAN
    PROVE  LET rows == draw_gc_options(g, m)
           IN  /\ DOMAIN rows = DOMAIN Enum["gc"]
               /\ \A i \in DOMAIN rows : rows[i].what = Enum["gc"][i]
               /\ \E i \in DOMAIN rows : rows[i].on
    BY DEF draw_gc_options, Row, Enum
(* Those of the menu of devices to restore from are its enumeration's. *)
LEMMA InputRows ==
    ASSUME NEW have
    PROVE  LET rows == draw_select_input_location(have)
           IN  /\ DOMAIN rows = DOMAIN Enum["input"]
               /\ \A i \in DOMAIN rows : rows[i].what = Enum["input"][i]
               /\ \E i \in DOMAIN rows : rows[i].on
    BY DEF draw_select_input_location, Row, Enum
(* Those of the menu of devices to save to are its enumeration's. *)
LEMMA OutputRows ==
    ASSUME NEW have, NEW room, NEW net
    PROVE  LET rows == draw_select_output_location(have, room, net)
           IN  /\ DOMAIN rows = DOMAIN Enum["output"]
               /\ \A i \in DOMAIN rows : rows[i].what = Enum["output"][i]
               /\ \E i \in DOMAIN rows : rows[i].on
    BY DEF draw_select_output_location, Row, Enum
(* The three menus that hide no row. *)
LEMMA FixedRows ==
    /\ DOMAIN draw_network_settings = DOMAIN Enum["net"]
    /\ \A i \in DOMAIN Enum["net"] :
          draw_network_settings[i].what = Enum["net"][i] /\ draw_network_settings[i].on
    /\ DOMAIN draw_format_confirm_menu = DOMAIN Enum["erase"]
    /\ \A i \in DOMAIN Enum["erase"] :
          draw_format_confirm_menu[i].what = Enum["erase"][i] /\ draw_format_confirm_menu[i].on
    /\ DOMAIN draw_select_backup_format = DOMAIN Enum["format"]
    /\ \A i \in DOMAIN Enum["format"] :
          draw_select_backup_format[i].what = Enum["format"][i] /\ draw_select_backup_format[i].on
    BY DEF draw_network_settings, draw_format_confirm_menu, draw_select_backup_format, All,
           Row, Enum

(* Opening one of the menus. *)
LEMMA OpenStep ==
    ASSUME NavInv,
           \/ do_gc_options \/ do_network_options \/ do_format_confirm
           \/ do_select_backup_format \/ do_select_input_location \/ OpenOutput
    PROVE  NavInv'
<1>0. {"gc", "net", "erase", "input", "output", "format"} \subseteq DOMAIN Enum
    BY DEF Enum
<1>1. CASE do_gc_options
  <2>1. PICK g, m \in BOOLEAN : Open("gc", draw_gc_options(g, m), 0, 0)
    BY <1>1 DEF do_gc_options
  <2> QED BY <1>0, <2>1, GcRows, OpenEnum
<1>2. CASE do_network_options
  <2>1. Open("net", draw_network_settings, 0, 0) /\ 1 \in DOMAIN Enum["net"]
    BY <1>2 DEF do_network_options, Enum
  <2> QED BY <1>0, <2>1, FixedRows, OpenEnum
<1>3. CASE do_format_confirm
  <2>1. Open("erase", draw_format_confirm_menu, 0, 0) /\ 1 \in DOMAIN Enum["erase"]
    BY <1>3 DEF do_format_confirm, Enum
  <2> QED BY <1>0, <2>1, FixedRows, OpenEnum
<1>4. CASE do_select_backup_format
  <2>1. Open("format", draw_select_backup_format, 0, 0) /\ 1 \in DOMAIN Enum["format"]
    BY <1>4 DEF do_select_backup_format, Enum
  <2> QED BY <1>0, <2>1, FixedRows, OpenEnum
<1>5. CASE do_select_input_location
  <2>1. PICK have : Open("input", draw_select_input_location(have), 0, 0)
    BY <1>5 DEF do_select_input_location
  <2> QED BY <1>0, <2>1, InputRows, OpenEnum
<1>6. CASE OpenOutput
  <2>1. PICK have, room, net :
            Open("output", draw_select_output_location(have, room, net), 0, 0)
    BY <1>6 DEF OpenOutput
  <2> QED BY <1>0, <2>1, OutputRows, OpenEnum
<1> QED BY <1>1, <1>2, <1>3, <1>4, <1>5, <1>6

(* A number typed for the port is cut to what fits. *)
LEMMA PortStep == NavInv /\ change_port => port' \in Port
<1> SUFFICES ASSUME NavInv, change_port PROVE port' \in Port
    OBVIOUS
<1>1. PICK button \in {"CLOSE", "ENTER"}, num \in Numbers :
          port' = open_ime_short(port, button, num)
    BY DEF change_port
<1>2. num \in Nat /\ port \in Port
    BY InputAssumption DEF NavInv
<1>3. \A n \in Nat : (IF n > 65535 THEN 65535 ELSE n) \in Port
    BY DEF Port
<1> QED BY <1>1, <1>2, <1>3 DEF open_ime_short

(* Every step keeps the rows, the cursor and the port right. *)
LEMMA NavStep == NavInv /\ [Next]_vars => NavInv'
<1> SUFFICES ASSUME NavInv, [Next]_vars PROVE NavInv'
    OBVIOUS
<1>0. port \in Port
    BY DEF NavInv
<1>1. CASE PressUp \/ PressDown
    BY <1>1, ArrowStep
<1>2. CASE PressConfirm \/ PressCancel
  <2>1. /\ menu' = "none" /\ shown' = <<>> /\ selected' = 0 /\ past' = past
        /\ port' = port
    BY <1>2 DEF PressConfirm, PressCancel, Leave
  <2>2. RowsInv' /\ CursorInv'
    BY <2>1, SizeAssumption DEF RowsInv, CursorInv, Enum
  <2> QED BY <2>1, <2>2, Zenon DEF NavInv
<1>3. CASE \/ do_gc_options \/ do_network_options \/ do_format_confirm
           \/ do_select_backup_format \/ do_select_input_location
    BY <1>3, OpenStep
<1>4. CASE do_select_file
  <2>1. PICK folder \in Folders :
          LET total == get_files_in_folder(folder)
              w     == ClampWindow(0, total)
          IN  IF total > 0
              THEN Open("file", draw_select_file(w, total), total, w)
              ELSE UNCHANGED <<menu, shown, files, window, selected, past, port>>
    BY <1>4 DEF do_select_file
  <2>2. CASE get_files_in_folder(folder) > 0
    <3>1. get_files_in_folder(folder) \in Nat \ {0}
      BY <2>2, FileCount
    <3> QED BY <2>1, <2>2, <3>1, OpenFiles
  <2>3. CASE ~(get_files_in_folder(folder) > 0)
    BY <1>0, <2>1, <2>3, NavKept
  <2> QED BY <2>2, <2>3
<1>5. CASE handle_menu_set_output \/ do_select_output_location
    BY <1>5, OpenStep DEF handle_menu_set_output, do_select_output_location
<1>6. CASE change_filename \/ do_device_info
    BY <1>0, <1>6, NavKept DEF change_filename, do_device_info, Chosen
<1>7. CASE change_port
    BY <1>7, PortStep, NavKept DEF change_port, Chosen
<1>8. CASE UNCHANGED vars
    BY <1>0, <1>8, NavKept DEF vars
<1> QED BY <1>1, <1>2, <1>3, <1>4, <1>5, <1>6, <1>7, <1>8 DEF Next

(* The cursor is on a row that is drawn and the rows are the enumeration's, in
   every menu and for every list of files (PROCESS_MENU, draw_select_file). *)
THEOREM CursorOnARow == Spec => []NavInv
<1>1. Init => NavInv
    BY SizeAssumption DEF Init, NavInv, RowsInv, CursorInv, Enum
<1> QED BY <1>1, NavStep, PTL DEF Spec

(* What main.c does is what the cursor was on, but for the lists of files whose
   window can move. *)
THEOREM ChoiceIsTheRow == Spec => []ConfirmedIsHighlighted
<1>1. Init => ConfirmedIsHighlighted
    BY DEF Init, NoResult, ConfirmedIsHighlighted
<1>2. NavInv /\ ConfirmedIsHighlighted /\ [Next]_vars => ConfirmedIsHighlighted'
  <2> SUFFICES ASSUME NavInv, ConfirmedIsHighlighted, [Next]_vars
               PROVE  ConfirmedIsHighlighted'
    OBVIOUS
  <2>1. CASE PressConfirm
    <3>a. /\ last'.menu = menu /\ last'.files = files /\ past' = past
          /\ last'.seen = Highlighted /\ last'.got = Returned
      BY <2>1 DEF PressConfirm, Leave
    <3>b. menu = "file" /\ ~(files >= WINDOW_SIZE) => files < WINDOW_SIZE
      BY SizeAssumption DEF NavInv, RowsInv
    <3> SUFFICES ASSUME past = 0,
                        menu = "file" => files < WINDOW_SIZE \/ files % WINDOW_SIZE = 1
                 PROVE  Highlighted = Returned
      BY <3>a, <3>b DEF ConfirmedIsHighlighted
    <3>1. /\ RowsInv /\ menu # "none" /\ selected \in 0..Size
          /\ options(shown, selected) = 1
      BY <2>1 DEF NavInv, CursorInv, PressConfirm, Leave
    <3>2. selected # Size /\ selected + 1 \in DOMAIN shown
      BY <3>1 DEF options
    <3>3. Highlighted = shown[selected + 1].what
      BY <3>1, <3>2, SizeAssumption DEF Highlighted
    <3>4. CASE menu = "file"
      <4>1. /\ WindowOk(0, files) /\ shown = draw_select_file(0, files)
            /\ files \in Nat
        BY <3>1, <3>4 DEF RowsInv, WindowOk
      <4>2. shown = [j \in 1..RowCount(files) |->
                       Row(TRUE, IF 0 + j - 1 < 0 THEN NoFile ELSE 0 + j - 1)]
        BY <4>1, WindowRows
      <4>3. RowCount(files) <= files
        <5>1. files % WINDOW_SIZE = 1 /\ files = WINDOW_SIZE => WINDOW_SIZE - 1 >= WINDOW_SIZE
          <6>1. WINDOW_SIZE \in Nat /\ WINDOW_SIZE > 1
            BY SizeAssumption
          <6>2. files >= WINDOW_SIZE => files - (files % WINDOW_SIZE) >= WINDOW_SIZE
            BY <4>1, <6>1, Remainder, Zenon
          <6> QED BY <6>1, <6>2
        <5>2. files = WINDOW_SIZE => FALSE
          BY <3>4, <5>1, SizeAssumption
        <5> QED BY <4>1, <5>2, SizeAssumption DEF RowCount
      <4>4. selected + 1 \in 1..RowCount(files)
        BY <3>2, <4>2
      <4>5. shown[selected + 1].what = selected
        BY <3>1, <4>2, <4>4 DEF Row
      <4>6. selected < files
        BY <3>1, <4>1, <4>3, <4>4, SizeAssumption DEF RowCount
      <4> QED BY <3>3, <3>4, <4>5, <4>6 DEF Returned
    <3>5. CASE menu # "file"
      BY <3>1, <3>2, <3>3, <3>5 DEF RowsInv, Returned
    <3> QED BY <3>4, <3>5
  <2>2. CASE PressCancel
    BY <2>2 DEF PressCancel, Leave, ConfirmedIsHighlighted
  <2>3. CASE PressUp \/ PressDown \/ UNCHANGED vars
    BY <2>3 DEF PressUp, PressDown, Key, vars, ConfirmedIsHighlighted
  <2>4. CASE \/ do_gc_options \/ do_network_options \/ do_format_confirm
             \/ do_select_backup_format \/ do_select_input_location \/ do_select_file
             \/ handle_menu_set_output \/ do_select_output_location
    <3>1. last' = NoResult \/ last' = [kind |-> "nofile"]
      BY <2>4 DEF do_gc_options, do_network_options, do_format_confirm,
             do_select_backup_format, do_select_input_location, do_select_file,
             handle_menu_set_output, do_select_output_location, OpenOutput, Open
    <3> QED BY <3>1 DEF NoResult, ConfirmedIsHighlighted
  <2>5. CASE change_filename \/ change_port \/ do_device_info
    BY <2>5 DEF change_filename, change_port, do_device_info, NoResult,
                ConfirmedIsHighlighted
  <2> QED BY <2>1, <2>2, <2>3, <2>4, <2>5 DEF Next
<1> QED BY <1>1, <1>2, CursorOnARow, PTL DEF Spec

-----------------------------------------------------------------------------
(* The card's date *)

(* mmc_datetime_from_byte stays within the sixteen years of a revision and
   tells any two date bytes apart. *)
LEMMA DateOfByte ==
    ASSUME NEW rev \in Nat, NEW a \in Nat
    PROVE  /\ mmc_datetime_from_byte(rev, a).year \in Epoch(rev)
           /\ \A b \in Nat :
                 mmc_datetime_from_byte(rev, b) = mmc_datetime_from_byte(rev, a) => b = a
<1>1. \A x \in Nat : x % 16 \in 0..15 /\ x = 16 * (x \div 16) + (x % 16)
    OBVIOUS
<1>2. \A x \in Nat :
        /\ mmc_datetime_from_byte(rev, x).year =
             IF rev > 4 /\ 1997 + (x % 16) < 2010 THEN 2013 + (x % 16) ELSE 1997 + (x % 16)
        /\ mmc_datetime_from_byte(rev, x).month = x \div 16
    BY DEF mmc_datetime_from_byte
<1>3. ASSUME NEW b \in Nat,
             mmc_datetime_from_byte(rev, b) = mmc_datetime_from_byte(rev, a)
      PROVE  b = a
  <2>1. b \div 16 = a \div 16
    BY <1>2, <1>3
  <2>2. b % 16 = a % 16
    BY <1>1, <1>2, <1>3
  <2> QED BY <1>1, <2>1, <2>2
<1> DEFINE y == a % 16
           year == mmc_datetime_from_byte(rev, a).year
<1>4. y \in 0..15 /\ year = IF rev > 4 /\ 1997 + y < 2010 THEN 2013 + y ELSE 1997 + y
  <2>1. y \in 0..15
    BY <1>1
  <2>2. year = IF rev > 4 /\ 1997 + y < 2010 THEN 2013 + y ELSE 1997 + y
    BY DEF mmc_datetime_from_byte
  <2> HIDE DEF y, year
  <2> QED BY <2>1, <2>2
<1> HIDE DEF y, year
<1>5. year \in Epoch(rev)
    BY <1>4 DEF Epoch
<1> QED BY <1>3, <1>5 DEF year

(* get_gc_info's date is that of the byte read. *)
LEMMA InfoDate ==
    ASSUME NEW cid \in Nat, NEW ext \in Nat, Byte \subseteq Nat, last'.info.rev = ext,
           last'.info.mdt = cid, last'.info.date = mmc_datetime_from_byte(ext, cid)
    PROVE  DateInEpoch'
<1>1. /\ mmc_datetime_from_byte(ext, cid).year \in Epoch(ext)
      /\ \A mdt \in Byte :
           mmc_datetime_from_byte(ext, mdt) = mmc_datetime_from_byte(ext, cid) => mdt = cid
    BY DateOfByte, Zenon
<1> QED BY <1>1, Zenon DEF DateInEpoch

(* The information shown of a card has a date of its revision's epoch, and of
   that date byte alone (get_gc_info). *)
THEOREM DatesAreTheCards == Spec => []DateInEpoch
<1>1. Init => DateInEpoch
    BY DEF Init, NoResult, DateInEpoch
<1>2. DateInEpoch /\ [Next]_vars => DateInEpoch'
  <2> SUFFICES ASSUME DateInEpoch, [Next]_vars PROVE DateInEpoch'
    OBVIOUS
  <2>1. CASE do_device_info
    <3>1. PICK cid, ext \in Registers, auth \in BOOLEAN, key_id \in {1, 32769} :
             last' = [kind |-> "info", info |-> get_gc_info(cid, ext, auth, key_id)]
      BY <2>1 DEF do_device_info
    <3>2. cid \in Nat /\ ext \in Nat /\ Byte \subseteq Nat
      BY InputAssumption DEF Byte
    <3>3. /\ last'.info.rev = ext /\ last'.info.mdt = cid
          /\ last'.info.date = mmc_datetime_from_byte(ext, cid)
      BY <3>1 DEF get_gc_info
    <3> QED BY <3>2, <3>3, InfoDate
  <2>2. CASE last' = last
    BY <2>2 DEF DateInEpoch
  <2>3. CASE last'.kind # "info"
    BY <2>3 DEF DateInEpoch
  <2>4. CASE PressConfirm \/ PressCancel
    <3>1. last'.kind # "info"
      BY <2>4 DEF PressConfirm, PressCancel, Leave
    <3> QED BY <2>3, <3>1
  <2>5. CASE PressUp \/ PressDown \/ UNCHANGED vars
    BY <2>2, <2>5 DEF PressUp, PressDown, Key, vars
  <2>6. CASE \/ do_gc_options \/ do_network_options \/ do_format_confirm
             \/ do_select_backup_format \/ do_select_input_location \/ do_select_file
             \/ handle_menu_set_output \/ do_select_output_location
    <3>1. last' = NoResult \/ last' = [kind |-> "nofile"]
      BY <2>6 DEF do_gc_options, do_network_options, do_format_confirm,
             do_select_backup_format, do_select_input_location, do_select_file,
             handle_menu_set_output, do_select_output_location, OpenOutput, Open
    <3> QED BY <2>3, <3>1 DEF NoResult
  <2>7. CASE change_filename \/ change_port
    <3>1. last'.kind # "info"
      BY <2>7 DEF change_filename, change_port, NoResult
    <3> QED BY <2>3, <3>1
  <2> QED BY <2>1, <2>4, <2>5, <2>6, <2>7 DEF Next
<1> QED BY <1>1, <1>2, PTL DEF Spec

-----------------------------------------------------------------------------
(* The title *)

(* A result of read_sfo_key that agrees with the format: the value it gives the
   key, nothing found only if the key is not there, an error never of a
   well-formed file. *)
KeyRead(sfo, key, r) ==
    /\ r.res \in {"ok", "error", "SFO_KEY_NOT_FOUND"}
    /\ r.res = "ok" => TextEntries(sfo, key) # {} /\ r.out = FirstText(sfo, key)
    /\ r.res = "SFO_KEY_NOT_FOUND" => TextEntries(sfo, key) = {}
    /\ r.res = "error" => ~WellFormed(sfo)
(* read_sfo_key's first entry is the format's, or one that points outside. *)
LEMMA KeyIsFirst ==
    ASSUME NEW sfo \in SfoFile, sfo.size > 0, Fits(sfo), NEW key
    PROVE  KeyRead(sfo, key, read_sfo_key(sfo, key))
<1> DEFINE I == {i \in 1..Len(sfo.ents) :
                   sfo.ents[i].type = "STR" /\ (sfo.ents[i].inside => sfo.ents[i].name = key)}
           hit == IF I # {} THEN Min(I) ELSE 0
           T == TextEntries(sfo, key)
           without(r) == [res |-> r, out |-> Unset]
<1>1. SelectInSeq(sfo.ents, LAMBDA e : e.type = "STR" /\ (e.inside => e.name = key)) = hit
    BY DEF SelectInSeq
<1>2. read_sfo_key(sfo, key) =
          IF sfo.size = 0 THEN without("ok")
          ELSE IF Rejected(sfo) THEN without("error")
          ELSE IF hit = 0 THEN without("SFO_KEY_NOT_FOUND")
          ELSE IF ~sfo.ents[hit].inside THEN without("error")
          ELSE [res |-> "ok", out |-> CopyValue(sfo.ents[hit].value)]
    BY <1>1 DEF read_sfo_key
<1>a. sfo.size # 0
    BY DEF SfoFile
<1>3. /\ Len(sfo.ents) \in Nat /\ DOMAIN sfo.ents = 1..Len(sfo.ents)
      /\ sfo.size \in Nat /\ sfo.count \in Nat
    BY DEF SfoFile
<1>4. T \subseteq I
    BY <1>3 DEF TextEntries
<1>5. ASSUME I # {} PROVE Min(I) \in I /\ \A j \in I : Min(I) <= j
  <2>1. I \in SUBSET Nat
    BY <1>3
  <2> HIDE DEF I
  <2> QED BY <1>5, <2>1, LeastNat
<1>6. WellFormed(sfo) => ~Rejected(sfo)
  <2> SUFFICES ASSUME WellFormed(sfo) PROVE ~Rejected(sfo)
    OBVIOUS
  <2>1. /\ sfo.io /\ sfo.magic /\ sfo.count \in 1..200
        /\ sfo.size >= HeaderSize + KeySize * sfo.count
    BY Zenon DEF WellFormed
  <2>2. 1 <= sfo.count /\ sfo.count <= 200
    BY <2>1
  <2> QED BY <1>3, <2>1, <2>2 DEF Rejected, HeaderSize, KeySize
<1>7. CASE Rejected(sfo)
  <2>1. read_sfo_key(sfo, key) = without("error")
    BY <1>a, <1>2, <1>7, Zenon
  <2> QED BY <1>6, <1>7, <2>1 DEF KeyRead
<1>8. CASE ~Rejected(sfo) /\ I = {}
  <2>1. read_sfo_key(sfo, key) = without("SFO_KEY_NOT_FOUND")
    <3>1. hit = 0
      BY <1>8
    <3> QED BY <1>a, <1>2, <1>8, <3>1, Zenon
  <2> QED BY <1>4, <1>8, <2>1 DEF KeyRead
<1>9. CASE ~Rejected(sfo) /\ I # {}
  <2>1. hit \in I /\ hit # 0 /\ hit \in DOMAIN sfo.ents /\ hit \in Nat
    BY <1>3, <1>5, <1>9
  <2>2. CASE ~sfo.ents[hit].inside
    <3>1. ~WellFormed(sfo)
      BY <2>1, <2>2 DEF WellFormed
    <3>2. read_sfo_key(sfo, key) = without("error")
      BY <1>a, <1>2, <1>9, <2>1, <2>2, Zenon
    <3> QED BY <3>1, <3>2 DEF KeyRead
  <2>3. CASE sfo.ents[hit].inside
    <3>1. hit \in T
      BY <1>3, <2>1, <2>3 DEF TextEntries
    <3>2. \A j \in T : hit <= j
      BY <1>4, <1>5, <1>9
    <3>3. T \subseteq Nat
      BY <1>3, <1>4
    <3>4. (CHOOSE i \in T : \A j \in T : i <= j) = hit
      <4> HIDE DEF hit, T
      <4> QED BY <2>1, <3>1, <3>2, <3>3
    <3>5. FirstText(sfo, key) = sfo.ents[hit].value
      BY <3>4 DEF FirstText
    <3>6. CopyValue(sfo.ents[hit].value) = sfo.ents[hit].value
      BY <2>1 DEF CopyValue, Fits
    <3>7. read_sfo_key(sfo, key) = [res |-> "ok", out |-> sfo.ents[hit].value]
      BY <1>a, <1>2, <1>9, <2>1, <2>3, <3>6, Zenon
    <3> QED BY <3>1, <3>5, <3>7 DEF KeyRead
  <2> QED BY <2>2, <2>3
<1> QED BY <1>7, <1>8, <1>9

(* read_gameinfo: the short title, or else the long one, or UNKNOWN. *)
LEMMA TitleOfCard ==
    ASSUME NEW c \in Cards, c.app = "there", c.sfo.size > 0, Fits(c.sfo)
    PROVE  /\ read_gameinfo(c) \in {RefTitle(c.sfo), DEFAULT_TITLE}
           /\ WellFormed(c.sfo) => read_gameinfo(c) = RefTitle(c.sfo)
<1> DEFINE short == read_sfo_key(c.sfo, "STITLE")
           long == read_sfo_key(c.sfo, "TITLE")
<1>1. c.sfo \in SfoFile
    BY InputAssumption DEF Card
<1>2. KeyRead(c.sfo, "STITLE", short) /\ KeyRead(c.sfo, "TITLE", long)
    BY <1>1, KeyIsFirst, Zenon
<1>3. read_gameinfo(c) =
        LET r == IF short.res = "SFO_KEY_NOT_FOUND" THEN long ELSE short
        IN  IF r.res # "ok" THEN DEFAULT_TITLE ELSE r.out
    BY DEF read_gameinfo
<1> HIDE DEF short, long
<1> QED BY <1>2, <1>3 DEF RefTitle, KeyRead

(* The main menu shows the title the format gives the card. *)
THEOREM TitlesAreTheCards == Spec => []TitleIsGames
<1> DEFINE TitleInv ==
      card # NoCard => card \in Cards /\ title = remove_illegal_chars(read_gameinfo(card))
<1>1. Init => TitleInv
    BY DEF Init
<1>2. TitleInv /\ [Next]_vars => TitleInv'
  <2> SUFFICES ASSUME TitleInv, [Next]_vars PROVE TitleInv'
    OBVIOUS
  <2>1. CASE do_gc_options
    BY <2>1 DEF do_gc_options
  <2>2. CASE PressConfirm \/ PressCancel
    BY <2>2 DEF PressConfirm, PressCancel, Leave
  <2>3. CASE PressUp \/ PressDown \/ UNCHANGED vars
    BY <2>3 DEF PressUp, PressDown, Key, vars
  <2>4. CASE \/ do_network_options \/ do_format_confirm
             \/ do_select_backup_format \/ do_select_input_location \/ do_select_file
             \/ handle_menu_set_output \/ do_select_output_location
    BY <2>4 DEF do_network_options, do_format_confirm, do_select_backup_format,
           do_select_input_location, do_select_file, handle_menu_set_output,
           do_select_output_location, NoTitle
  <2>5. CASE change_filename \/ change_port \/ do_device_info
    BY <2>5 DEF change_filename, change_port, do_device_info, Chosen
  <2> QED BY <2>1, <2>2, <2>3, <2>4, <2>5 DEF Next
<1>3. TitleInv => TitleIsGames
    BY TitleOfCard DEF TitleIsGames
<1> QED BY <1>1, <1>2, <1>3, PTL DEF Spec

-----------------------------------------------------------------------------
(* The file name *)

(* A name or what it was meant to be has a character outside the basic plane. *)
Wide(n, m) == (\E i \in DOMAIN n : n[i] >= 240) \/ (\E i \in DOMAIN m : Lead(m[i]))
(* The invariant: names are bytes without what a file name may not hold. *)
NameInv(n, m) ==
    /\ n \in Seq(Char) /\ remove_illegal_chars(n) = n
    /\ Wide(n, m) \/ Survives(n, m)

(* What read_gameinfo yields is a text entry's value, UNKNOWN or an array nothing
   was written to. *)
LEMMA TitleFrom ==
    ASSUME NEW c \in Cards
    PROVE  \/ read_gameinfo(c) \in {DEFAULT_TITLE, Unset}
           \/ \E i \in DOMAIN c.sfo.ents :
                c.sfo.ents[i].type = "STR" /\ read_gameinfo(c) = c.sfo.ents[i].value
<1> DEFINE From(sfo, out) ==
      \/ out = Unset
      \/ \E i \in DOMAIN sfo.ents : sfo.ents[i].type = "STR" /\ out = sfo.ents[i].value
<1>1. ASSUME NEW sfo \in SfoFile, NEW key PROVE From(sfo, read_sfo_key(sfo, key).out)
  <2> DEFINE I == {i \in 1..Len(sfo.ents) :
                sfo.ents[i].type = "STR" /\ (sfo.ents[i].inside => sfo.ents[i].name = key)}
             hit == IF I # {} THEN Min(I) ELSE 0
  <2>1. SelectInSeq(sfo.ents, LAMBDA e : e.type = "STR" /\ (e.inside => e.name = key)) = hit
    BY DEF SelectInSeq
  <2>2. I \in SUBSET Nat /\ I \in SUBSET DOMAIN sfo.ents
    BY DEF SfoFile
  <2>3. hit # 0 => hit \in I
    BY <2>2, LeastNat
  <2>4. \/ read_sfo_key(sfo, key).out = Unset
        \/ hit # 0 /\ read_sfo_key(sfo, key).out = CopyValue(sfo.ents[hit].value)
    <3> HIDE DEF hit
    <3> QED BY <2>1 DEF read_sfo_key
  <2>5. hit # 0 => hit \in DOMAIN sfo.ents /\ sfo.ents[hit].type = "STR"
    BY <2>2, <2>3
  <2> HIDE DEF hit
  <2> QED BY <2>4, <2>5 DEF CopyValue
<1>2. c.sfo \in SfoFile
    BY InputAssumption DEF Card
<1>3. ASSUME NEW key PROVE read_sfo_key(SfoMissing, key).out = Unset
    BY DEF read_sfo_key, SfoMissing
<1>4. From(c.sfo, read_sfo_key(c.sfo, "STITLE").out) /\ From(c.sfo, read_sfo_key(c.sfo, "TITLE").out)
    BY <1>1, <1>2, Zenon
<1>5. \/ read_gameinfo(c) = DEFAULT_TITLE
      \/ \E sfo \in {c.sfo, SfoMissing}, key \in {"STITLE", "TITLE"} :
           read_gameinfo(c) = read_sfo_key(sfo, key).out
    BY DEF read_gameinfo
<1> QED BY <1>3, <1>4, <1>5

(* What is typed and confirmed keeps the invariant, wide or not. *)
LEMMA TypedName ==
    ASSUME NEW u \in Seq(CodeUnit), NEW n, n = remove_illegal_chars(utf16_to_utf8(u))
    PROVE  NameInv(n, u)
<1>1. n \in Seq(Char) /\ remove_illegal_chars(n) = n
  <2>1. 32 \in Char
    BY DEF Char
  <2> QED BY <2>1, EncType, CleanIs, CleanTwice
<1>2. Wide(n, u) \/ Survives(n, u)
  <2>1. Wide(n, u) \/ Narrow(u)
    BY DEF Wide, Narrow
  <2> QED BY <2>1, TypedSurvives, Zenon
<1> QED BY <1>1, <1>2, Zenon DEF NameInv

(* Bytes that are UTF-8, read as a title, too. *)
LEMMA Utf8Name ==
    ASSUME NEW v \in Seq(Char), IsUtf8(v) \/ (\E k \in DOMAIN v : v[k] >= 240),
           NEW n, n = remove_illegal_chars(v)
    PROVE  NameInv(n, utf8_to_utf16(n))
<1>1. 32 \in Char
    BY DEF Char
<1>2. n \in Seq(Char) /\ remove_illegal_chars(n) = n
    BY <1>1, CleanIs, CleanTwice
<1>3. CASE IsUtf8(v)
  <2>1. Narrow(utf8_to_utf16(v)) /\ n = remove_illegal_chars(utf16_to_utf8(utf8_to_utf16(v)))
    BY <1>3, Zenon DEF IsUtf8
  <2>2. Survives(n, utf8_to_utf16(n))
    BY <2>1, TypedSurvives, Zenon
  <2> QED BY <1>2, <2>2, Zenon DEF NameInv
<1>4. CASE \E k \in DOMAIN v : v[k] >= 240
  <2>1. PICK k \in 1..Len(v) : v[k] >= 240
    BY <1>4
  <2>2. /\ Len(n) = Len(v) /\ n[k] = Clean(v[k]) /\ v[k] \in Nat
    BY <1>1, <2>1, CleanIs DEF Char
  <2>3. Clean(v[k]) = v[k]
    BY <2>1, <2>2 DEF Clean, Illegal
  <2>4. k \in DOMAIN n /\ n[k] >= 240
    BY <1>2, <2>1, <2>2, <2>3
  <2>5. Wide(n, utf8_to_utf16(n))
    BY <2>4, Zenon DEF Wide
  <2> QED BY <1>2, <2>5, Zenon DEF NameInv
<1> QED BY <1>3, <1>4

(* UNKNOWN is UTF-8. *)
LEMMA DefaultTitle == IsUtf8(DEFAULT_TITLE) /\ DEFAULT_TITLE \in Seq(Char)
<1> DEFINE u == <<85>>
<1>1. Narrow(u) /\ Len(u) = 1 /\ u[1] = 85
  <2>1. 85 \in CodeUnit /\ ~Lead(85)
    BY CodeUnits DEF Lead
  <2> QED BY <2>1 DEF Narrow
<1>2. Bytes(85, 0) = u
    BY DEF Bytes
<1>3. u \in Seq(Char)
    BY DEF Char
<1>4. u \o <<>> = u
    BY <1>3
<1> HIDE DEF u
<1>5. /\ utf16_to_utf8(u) = Enc(u)[1] /\ Enc(u)[Len(u) + 1] = <<>>
      /\ \A i \in 1..Len(u) : Enc(u)[i] = Bytes(u[i], 0) \o Enc(u)[i + 1]
    BY <1>1, EncWalk, Zenon
<1>6. Enc(u)[1] = Bytes(u[1], 0) \o Enc(u)[1 + 1] /\ Enc(u)[1 + 1] = <<>>
  <2>1. 1 \in 1..Len(u)
    BY <1>1
  <2> QED BY <1>1, <1>5, <2>1, Zenon
<1>7. utf16_to_utf8(u) = u
    BY <1>1, <1>2, <1>4, <1>5, <1>6, Zenon
<1>8. utf8_to_utf16(u) = u
    BY <1>1, <1>7, ThereAndBack, Zenon
<1> QED BY <1>1, <1>3, <1>7, <1>8 DEF IsUtf8, DEFAULT_TITLE, u

(* So do the names handle_menu_set_output starts with. *)
LEMMA TitleName ==
    ASSUME NEW c \in Cards, NEW n, n = remove_illegal_chars(read_gameinfo(c))
    PROVE  NameInv(n, utf8_to_utf16(n))
<1> DEFINE v == read_gameinfo(c)
<1>1. v \in Seq(Char) /\ (IsUtf8(v) \/ \E k \in DOMAIN v : v[k] >= 240)
  <2>1. CASE v = DEFAULT_TITLE
    BY <2>1, DefaultTitle
  <2>2. CASE v = Unset
    <3>1. Unset \in Seq(Char) /\ 1 \in DOMAIN Unset /\ Unset[1] >= 240
      BY DEF Unset, Char
    <3> QED BY <2>2, <3>1
  <2>3. ASSUME NEW i \in DOMAIN c.sfo.ents, c.sfo.ents[i].type = "STR", v = c.sfo.ents[i].value
        PROVE  v \in Seq(Char) /\ (IsUtf8(v) \/ \E k \in DOMAIN v : v[k] >= 240)
    <3>1. v \in Seq(Byte) /\ (IsUtf8(v) \/ \E k \in DOMAIN v : v[k] >= 240)
      BY <2>3, TitlesAssumption, Zenon
    <3>2. Byte \subseteq Char
      BY DEF Byte, Char
    <3> HIDE DEF v
    <3> QED BY <3>1, <3>2
  <2> HIDE DEF v
  <2> QED BY <2>1, <2>2, <2>3, TitleFrom DEF v
<1> QED BY <1>1, Utf8Name, Zenon

(* A file name survives the keyboard, whatever is typed and whichever card gave
   it its first value (change_filename, handle_menu_set_output). *)
THEOREM NamesSurvive == Spec => []NameSurvivesKeyboard
<1> DEFINE Inv == NameInv(name, meant)
<1>0. NameInv(<<>>, <<>>)
  <2>1. <<>> \in Seq(CodeUnit) /\ Narrow(<<>>) /\ Len(<<>>) = 0
    BY DEF Narrow
  <2>2. utf16_to_utf8(<<>>) = <<>>
    <3> DEFINE u == <<>>
    <3>1. Narrow(u) /\ Len(u) + 1 = 1
      BY <2>1
    <3> HIDE DEF u
    <3>2. utf16_to_utf8(u) = Enc(u)[1] /\ Enc(u)[Len(u) + 1] = <<>>
      BY <3>1, EncWalk, Zenon
    <3> QED BY <3>1, <3>2, Zenon DEF u
  <2>3. remove_illegal_chars(<<>>) = <<>>
    BY DEF remove_illegal_chars
  <2> QED BY <2>1, <2>2, <2>3, TypedName
<1>1. Init => Inv
    BY <1>0 DEF Init
<1>2. Inv /\ [Next]_vars => Inv'
  <2> SUFFICES ASSUME Inv, [Next]_vars PROVE Inv'
    OBVIOUS
  <2>0. NameInv(name', meant') => Inv'
    BY DEF NameInv, Wide, Survives
  <2> HIDE DEF Inv
  <2>1. CASE UNCHANGED <<name, meant>>
    BY <2>0, <2>1 DEF Inv
  <2>2. CASE NoText
    BY <1>0, <2>0, <2>2 DEF NoText
  <2>3. CASE handle_menu_set_output
    BY <2>0, <2>3, TitleName DEF handle_menu_set_output
  <2>4. CASE change_filename
    <3>1. PICK button \in {"CLOSE", "ENTER"}, input \in Typed \cup {utf8_to_utf16(name)} :
            /\ name' = remove_illegal_chars(open_ime(name, button, input))
            /\ meant' = IF button = "CLOSE" THEN meant ELSE input
      BY <2>4 DEF change_filename
    <3>2. CASE button = "CLOSE"
      <4>1. name' = name /\ meant' = meant
        BY <3>1, <3>2 DEF open_ime, Inv, NameInv
      <4> QED BY <2>1, <4>1
    <3>3. CASE button # "CLOSE"
      <4>1. name' = remove_illegal_chars(utf16_to_utf8(input)) /\ meant' = input
        BY <3>1, <3>3 DEF open_ime
      <4>2. input \in Seq(CodeUnit)
        BY InputAssumption, DecType DEF Inv, NameInv
      <4> QED BY <2>0, <4>1, <4>2, TypedName
    <3> QED BY <3>2, <3>3
  <2>5. CASE PressConfirm \/ PressCancel
    BY <2>1, <2>5 DEF PressConfirm, PressCancel, Leave
  <2>6. CASE PressUp \/ PressDown \/ UNCHANGED vars
    BY <2>1, <2>6 DEF PressUp, PressDown, Key, vars
  <2>7. CASE \/ do_gc_options \/ do_format_confirm \/ do_select_backup_format
             \/ do_select_input_location \/ do_select_file
    BY <2>2, <2>7 DEF do_gc_options, do_format_confirm, do_select_backup_format,
           do_select_input_location, do_select_file
  <2>8. CASE do_select_output_location \/ do_network_options \/ change_port \/ do_device_info
    BY <2>1, <2>8 DEF do_select_output_location, do_network_options, change_port,
           do_device_info
  <2> QED BY <2>3, <2>4, <2>5, <2>6, <2>7, <2>8 DEF Next
<1>3. Inv => NameSurvivesKeyboard
    BY Zenon DEF NameInv, Wide, Survives, NameSurvivesKeyboard
<1> QED BY <1>1, <1>2, <1>3, PTL DEF Spec
=============================================================================
