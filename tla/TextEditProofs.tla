-------------------------- MODULE TextEditProofs --------------------------
(***************************************************************************)
(* The editor's window shows its text, for every size of the window and of *)
(* the text, every file and every order of events; what is uploaded and    *)
(* what is saved is that text; and the array of lines implements the one   *)
(* text of TextBuffer.                                                     *)
(*                                                                         *)
(* An edit is judged by what it leaves alone: Edited(t, u, f, l) says that *)
(* the text t became u, with its view where it was, and that no line       *)
(* outside f .. l changed.  KeyEdits shows that the rows of Dirty are such *)
(* lines for every key.  The invariant Right says that a row outside the   *)
(* range that waits to be drawn shows the text behind it, so that drawing  *)
(* that range (Finished) or all (AllRedrawn) makes the window right.       *)
(*                                                                         *)
(* For the refinement, the text is cut at the cursor's line, Lead before   *)
(* and Trail behind it (FlatAround).  KeySteps shows that a key puts       *)
(* something in at the point, takes a character or a line break out, or    *)
(* moves the point, all in terms of what is before it and behind it;       *)
(* Inserts, RemovesChar and RemovesBreak, that these are the steps of      *)
(* TextBuffer, which speaks of positions.                                  *)
(***************************************************************************)
EXTENDS TextEdit, SequenceTheorems, WellFoundedInduction, TLAPS

(***************************************************************************)
(* Numbers                                                                 *)
(***************************************************************************)
LEMMA Min2 == ASSUME NEW a \in Int, NEW b \in Int
              PROVE  Min({a, b}) = IF a <= b THEN a ELSE b
BY DEF Min

LEMMA Max2 == ASSUME NEW a \in Int, NEW b \in Int
              PROVE  Max({a, b}) = IF a >= b THEN a ELSE b
BY DEF Max

LEMMA OneMore == ASSUME NEW k \in Nat, NEW w \in Nat
                 PROVE  (k + 1) * w = k * w + w
OBVIOUS

LEMMA Swapped == ASSUME NEW k \in Nat, NEW q \in Nat, NEW m \in Nat
                 PROVE  q + m + (k - q) = k + m
OBVIOUS

LEMMA LeastNumber ==
  ASSUME NEW T, T \in SUBSET Nat, T # {}
  PROVE  \E x \in T : \A y \in T : x <= y
<1> DEFINE R == {ss \in Nat \X Nat : ss[1] < ss[2]}
<1>1. IsWellFoundedOn(R, Nat)
  BY NatLessThanWellFounded DEF OpToRel
<1> HIDE DEF R
<1>3. PICK x \in T : \A y \in T : <<y, x>> \notin R
  BY <1>1, WFMin
<1>4. ASSUME NEW y \in T PROVE x <= y
  <2>1. x \in Nat /\ y \in Nat
    OBVIOUS
  <2>2. ~(y < x)
    BY <1>3, <2>1 DEF R
  <2> QED
    BY <2>1, <2>2
<1> QED
  BY <1>4

LEMMA MinOfNat ==
  ASSUME NEW T, T \in SUBSET Nat, T # {}
  PROVE  Min(T) \in T /\ \A y \in T : Min(T) <= y
BY LeastNumber DEF Min

LEMMA MaxOfNat ==
  ASSUME NEW n \in Nat, NEW T, T \in SUBSET (0 .. n), T # {}
  PROVE  Max(T) \in T /\ \A y \in T : Max(T) >= y
<1> DEFINE U == {n - y : y \in T}
<1>1. U \in SUBSET Nat /\ U # {}
  <2>1. \A y \in T : n - y \in Nat
    OBVIOUS
  <2>2. PICK y \in T : TRUE
    OBVIOUS
  <2>3. n - y \in U
    OBVIOUS
  <2> QED
    BY <2>1, <2>3
<1>2. PICK x \in U : \A y \in U : x <= y
  BY <1>1, LeastNumber
<1>3. PICK z \in T : x = n - z
  OBVIOUS
<1>4. ASSUME NEW y \in T PROVE z >= y
  <2>1. n - y \in U
    OBVIOUS
  <2>2. x <= n - y
    BY <1>2, <2>1
  <2>3. z \in Int /\ y \in Int
    OBVIOUS
  <2> QED
    BY <1>3, <2>2, <2>3
<1> QED
  BY <1>4 DEF Max

(***************************************************************************)
(* The buffer keeps its shape                                              *)
(***************************************************************************)
Tes == [lines : Seq(Seq(Chars)), row : Nat, col : Nat, shown : BOOLEAN,
        hscroll : Int, vscroll : Int]

(* The cursor is in the text, or behind it when no line holds a character: *)
(* a file that begins with NUL leaves no line.                             *)
EditOK(t) ==
  /\ t \in Tes /\ IsText(t.lines)
  /\ t.row <= Len(t.lines) /\ t.col <= Len(Line(t, t.row))
  /\ t.row = Len(t.lines) => \A j \in DOMAIN t.lines : t.lines[j] = <<>>

(* What an edit may do to a text of which lines first to last are drawn    *)
(* again.                                                                  *)
Beyond(t, u, first, last) ==
  \A q \in Nat : q \notin first .. last => Line(u, q) = Line(t, q)
SameView(t, u) == u.hscroll = t.hscroll /\ u.vscroll = t.vscroll /\ u.shown = t.shown

LEMMA SizesAre ==
  /\ MaxLines \in Nat /\ MaxLines >= 2 /\ MaxLines <= ToEnd /\ ToEnd \in Nat
  /\ MaxLen \in Nat /\ MaxLen > 0 /\ MaxLen + 1 \in Nat
<1>1. MaxLines \in 2 .. ToEnd /\ MaxLen \in Nat \ {0}
  BY WindowAssumption
<1>2. ToEnd \in Nat
  BY DEF ToEnd
<1> QED
  BY <1>1, <1>2

LEMMA TextIsShort ==
  ASSUME NEW ls, IsText(ls)
  PROVE  /\ Len(ls) \in Nat /\ ToEnd \in Nat /\ MaxLines \in Nat /\ MaxLines <= ToEnd
         /\ Len(ls) <= MaxLines /\ Len(ls) <= ToEnd
<1>1. Len(ls) \in Nat /\ Len(ls) <= MaxLines
  BY DEF IsText
<1>2. ToEnd \in Nat /\ MaxLines \in Nat /\ MaxLines <= ToEnd
  BY SizesAre
<1> QED
  BY <1>1, <1>2

LEMMA LineType ==
  ASSUME NEW t \in Tes, IsText(t.lines), NEW q \in Nat
  PROVE  /\ Line(t, q) \in Seq(Chars) /\ Len(Line(t, q)) \in 0 .. MaxLen
         /\ q < Len(t.lines) => Line(t, q) = t.lines[q + 1] /\ q + 1 \in DOMAIN t.lines
         /\ q >= Len(t.lines) => Line(t, q) = <<>>
<1>1. t.lines \in Seq(Seq(Chars)) /\ Len(t.lines) \in Nat
  BY DEF Tes
<1>2. CASE q < Len(t.lines)
  <2>1. q + 1 \in DOMAIN t.lines /\ q + 1 \in 1 .. Len(t.lines)
    BY <1>1, <1>2
  <2>2. Line(t, q) = t.lines[q + 1]
    BY <1>2 DEF Line
  <2>3. t.lines[q + 1] \in Seq(Chars) /\ Len(t.lines[q + 1]) <= MaxLen
    BY <1>1, <2>1 DEF IsText
  <2>4. Len(t.lines[q + 1]) \in Nat
    BY <2>3
  <2> QED
    BY <1>1, <1>2, <2>1, <2>2, <2>3, <2>4, WindowAssumption
<1>3. CASE ~(q < Len(t.lines))
  <2>1. Line(t, q) = <<>>
    BY <1>3 DEF Line
  <2>2. <<>> \in Seq(Chars) /\ Len(<<>>) = 0
    OBVIOUS
  <2> QED
    BY <1>1, <1>3, <2>1, <2>2, WindowAssumption
<1> QED
  BY <1>2, <1>3

LEMMA SliceType ==
  ASSUME NEW S, NEW s \in Seq(S), NEW n \in Nat
  PROVE  /\ Slice(s, 1, n) \in Seq(S)
         /\ Len(Slice(s, 1, n)) = IF n <= Len(s) THEN n ELSE Len(s)
         /\ Slice(s, 1, n) = SubSeq(s, 1, IF n <= Len(s) THEN n ELSE Len(s))
<1>1. Len(s) \in Nat
  OBVIOUS
<1>2. PICK m \in Nat : m = Min({n, Len(s)}) /\ m <= Len(s) /\ m = IF n <= Len(s) THEN n ELSE Len(s)
  BY <1>1, Min2
<1>3. Slice(s, 1, n) = SubSeq(s, 1, m)
  BY <1>2 DEF Slice
<1>4. \A i \in 1 .. m : s[i] \in S
  BY <1>2
<1>5. SubSeq(s, 1, m) \in Seq(S) /\ Len(SubSeq(s, 1, m)) = m
  <2>1. m \in Int /\ 1 \in Int /\ m >= 0
    BY <1>2
  <2>2. SubSeq(s, 1, m) \in Seq(S) /\ Len(SubSeq(s, 1, m)) = IF 1 <= m THEN m - 1 + 1 ELSE 0
    BY <1>4, <2>1, SubSeqProperties
  <2> QED
    BY <2>1, <2>2
<1> QED
  BY <1>2, <1>3, <1>5

LEMMA Substring ==
  ASSUME NEW S, NEW s \in Seq(S), NEW q \in Nat, NEW l \in Nat, q + l <= Len(s)
  PROVE  /\ SubSeq(s, q + 1, q + l) \in Seq(S) /\ Len(SubSeq(s, q + 1, q + l)) = l
         /\ \A i \in 1 .. l : SubSeq(s, q + 1, q + l)[i] = s[q + i]
<1>1. PICK x \in Int, y \in Int : x = q + 1 /\ y = q + l
  OBVIOUS
<1>2. \A i \in x .. y : s[i] \in S
  BY <1>1
<1>3. /\ SubSeq(s, x, y) \in Seq(S)
      /\ Len(SubSeq(s, x, y)) = (IF x <= y THEN y - x + 1 ELSE 0)
      /\ \A i \in 1 .. y - x + 1 : SubSeq(s, x, y)[i] = s[x + i - 1]
  BY <1>2, SubSeqProperties
<1>4. (IF x <= y THEN y - x + 1 ELSE 0) = l /\ y - x + 1 = l
  BY <1>1
<1>5. ASSUME NEW i \in 1 .. l PROVE SubSeq(s, x, y)[i] = s[q + i]
  <2>1. i \in 1 .. y - x + 1 /\ x + i - 1 = q + i
    BY <1>1
  <2> QED
    BY <1>3, <2>1
<1> QED
  BY <1>1, <1>3, <1>4, <1>5

LEMMA FunIsText ==
  ASSUME NEW n \in Nat, n <= MaxLines, NEW f, f = [j \in 1 .. n |-> f[j]],
         \A j \in 1 .. n : f[j] \in Seq(Chars) /\ Len(f[j]) <= MaxLen
  PROVE  IsText(f) /\ f \in Seq(Seq(Chars)) /\ Len(f) = n /\ DOMAIN f = 1 .. n
<1>1. DOMAIN f = 1 .. n
  BY Zenon
<1>2. f \in [1 .. n -> Seq(Chars)]
  BY <1>1
<1>3. f \in Seq(Seq(Chars)) /\ Len(f) = n
  BY <1>2
<1> QED
  BY <1>1, <1>3 DEF IsText

Replaced(ls, i, l, new) ==
  /\ IsText(new) /\ new \in Seq(Seq(Chars)) /\ Len(new) = Len(ls)
  /\ new[i] = l /\ \A j \in 1 .. Len(ls) : j # i => new[j] = ls[j]

LEMMA ReplaceLine ==
  ASSUME NEW ls, IsText(ls), NEW i \in 1 .. Len(ls), NEW l \in Seq(Chars), Len(l) <= MaxLen,
         NEW new, new = [ls EXCEPT ![i] = l]
  PROVE  Replaced(ls, i, l, new)
<1> SUFFICES /\ IsText(new) /\ new \in Seq(Seq(Chars)) /\ Len(new) = Len(ls)
             /\ new[i] = l /\ \A j \in 1 .. Len(ls) : j # i => new[j] = ls[j]
  BY DEF Replaced
<1>1. ls \in Seq(Seq(Chars)) /\ DOMAIN ls = 1 .. Len(ls) /\ Len(ls) \in Nat
  BY DEF IsText
<1>2. new = [j \in 1 .. Len(ls) |-> IF j = i THEN l ELSE ls[j]]
  BY <1>1
<1>3. \A j \in 1 .. Len(ls) : new[j] = IF j = i THEN l ELSE ls[j]
  BY <1>2
<1>4. ASSUME NEW j \in 1 .. Len(ls) PROVE new[j] \in Seq(Chars) /\ Len(new[j]) <= MaxLen
  <2>1. ls[j] \in Seq(Chars) /\ Len(ls[j]) <= MaxLen
    <3>1. j \in DOMAIN ls
      BY <1>1
    <3>2. ls[j] \in Seq(Chars)
      BY <1>1, <3>1
    <3> QED
      BY <3>1, <3>2 DEF IsText
  <2>2. new[j] = l \/ new[j] = ls[j]
    BY <1>3
  <2> QED
    BY <2>1, <2>2
<1>5. new = [j \in 1 .. Len(ls) |-> new[j]]
  BY <1>2, <1>3
<1>6. Len(ls) <= MaxLines
  BY DEF IsText
<1>7. PICK n \in Nat : n = Len(ls)
  BY <1>1
<1>8. IsText(new) /\ new \in Seq(Seq(Chars)) /\ Len(new) = n
  BY <1>4, <1>5, <1>6, <1>7, FunIsText
<1> QED
  BY <1>3, <1>7, <1>8

(* One line is changed, where the cursor is.                               *)
LEMMA LineEdited ==
  ASSUME NEW t, EditOK(t), t.row < Len(t.lines), NEW l \in Seq(Chars), Len(l) <= MaxLen,
         NEW c \in 0 .. Len(l)
  PROVE  LET u == [t EXCEPT !.lines[t.row + 1] = l, !.col = c]
         IN  EditOK(u) /\ SameView(t, u) /\ u.row = t.row /\ Beyond(t, u, t.row, t.row)
<1> DEFINE u == [t EXCEPT !.lines[t.row + 1] = l, !.col = c]
<1>1. t \in Tes /\ IsText(t.lines) /\ t.row \in Nat /\ Len(t.lines) \in Nat
      /\ t.row + 1 \in 1 .. Len(t.lines) /\ Len(l) \in Nat
  BY DEF EditOK, Tes
<1>2. PICK new : new = [t.lines EXCEPT ![t.row + 1] = l]
  OBVIOUS
<1>3. u = [t EXCEPT !.lines = new, !.col = c]
  BY <1>1, <1>2 DEF Tes
<1>4. IsText(new) /\ new \in Seq(Seq(Chars)) /\ Len(new) = Len(t.lines)
      /\ new[t.row + 1] = l /\ \A j \in 1 .. Len(t.lines) : j # t.row + 1 => new[j] = t.lines[j]
  <2>1. PICK ls, i : ls = t.lines /\ i = t.row + 1
    OBVIOUS
  <2>2. IsText(ls) /\ i \in 1 .. Len(ls) /\ new = [ls EXCEPT ![i] = l]
    BY <1>1, <1>2, <2>1
  <2>3. Replaced(ls, i, l, new)
    BY <2>2, ReplaceLine
  <2> QED
    BY <2>1, <2>3 DEF Replaced
<1>5. u \in Tes /\ u.lines = new /\ u.row = t.row /\ u.col = c /\ SameView(t, u)
  <2>1. c \in Nat
    BY <1>1
  <2>2. u \in Tes /\ u.lines = new /\ u.row = t.row /\ u.col = c
    BY <1>1, <1>3, <1>4, <2>1 DEF Tes
  <2> QED
    BY <1>1, <1>3, <2>2 DEF Tes, SameView
<1> HIDE DEF u
<1>6. Line(u, t.row) = l
  BY <1>1, <1>4, <1>5 DEF Line
<1>7. ASSUME NEW q \in Nat, q \notin t.row .. t.row PROVE Line(u, q) = Line(t, q)
  <2>1. CASE q < Len(t.lines)
    <3>1. q + 1 \in 1 .. Len(t.lines) /\ q + 1 # t.row + 1
      BY <1>1, <1>7, <2>1
    <3> QED
      BY <1>4, <1>5, <2>1, <3>1 DEF Line
  <2>2. CASE ~(q < Len(t.lines))
    BY <1>4, <1>5, <2>2 DEF Line
  <2> QED
    BY <2>1, <2>2
<1>8. EditOK(u)
  BY <1>1, <1>4, <1>5, <1>6 DEF EditOK
<1>9. Beyond(t, u, t.row, t.row)
  BY <1>7 DEF Beyond
<1> QED
  BY <1>5, <1>8, <1>9 DEF u

(* Only the cursor moves.                                                  *)
LEMMA CursorMoved ==
  ASSUME NEW t, EditOK(t), NEW r \in Nat, NEW c \in Nat, r <= Len(t.lines),
         r = Len(t.lines) => r = t.row, c <= Len(Line(t, r))
  PROVE  LET u == At(t, r, c)
         IN  EditOK(u) /\ SameView(t, u) /\ u.row = r /\ u.lines = t.lines
             /\ \A f, l : Beyond(t, u, f, l)
<1> DEFINE u == At(t, r, c)
<1>1. u \in Tes /\ u.lines = t.lines /\ u.row = r /\ u.col = c /\ SameView(t, u)
  BY DEF EditOK, Tes, SameView, At
<1> HIDE DEF u
<1>2. \A q \in Nat : Line(u, q) = Line(t, q)
  BY <1>1 DEF Line
<1>3. EditOK(u)
  BY <1>1, <1>2 DEF EditOK
<1> QED
  BY <1>1, <1>2, <1>3 DEF Beyond, u

(* The characters of an edited line.                                       *)
LEMMA Around ==
  ASSUME NEW t, EditOK(t)
  PROVE  /\ Line(t, t.row) \in Seq(Chars) /\ Len(Line(t, t.row)) \in 0 .. MaxLen
         /\ t.col \in 0 .. Len(Line(t, t.row)) /\ t.row \in Nat /\ t.col \in Nat
         /\ t.row = Len(t.lines) => t.col = 0
         /\ Before(t) \in Seq(Chars) /\ Len(Before(t)) = t.col
         /\ After(t) \in Seq(Chars) /\ Len(After(t)) = Len(Line(t, t.row)) - t.col
<1>1. t \in Tes /\ IsText(t.lines) /\ t.row \in Nat /\ t.col \in Nat
      /\ t.col <= Len(Line(t, t.row))
  BY DEF EditOK, Tes
<1>2. PICK s \in Seq(Chars) : s = Line(t, t.row) /\ Len(s) \in 0 .. MaxLen
  BY <1>1, LineType
<1>3. t.col \in 0 .. Len(s) /\ Len(s) \in Nat
  BY <1>1, <1>2
<1>4. Before(t) \in Seq(Chars) /\ Len(Before(t)) = t.col
  BY <1>1, <1>2, <1>3, SliceType DEF Before
<1>5. After(t) \in Seq(Chars) /\ Len(After(t)) = Len(s) - t.col
  <2>1. \A i \in t.col + 1 .. Len(s) : s[i] \in Chars
    BY <1>3
  <2>2. t.col + 1 \in Int /\ Len(s) \in Int
    BY <1>3
  <2>3. /\ SubSeq(s, t.col + 1, Len(s)) \in Seq(Chars)
        /\ Len(SubSeq(s, t.col + 1, Len(s))) =
             IF t.col + 1 <= Len(s) THEN Len(s) - (t.col + 1) + 1 ELSE 0
    BY <2>1, <2>2, SubSeqProperties
  <2> QED
    BY <1>2, <1>3, <2>3 DEF After
<1>6. t.row = Len(t.lines) => t.col = 0
  BY <1>1, <1>2, LineType
<1> QED
  BY <1>1, <1>2, <1>3, <1>4, <1>5, <1>6

Edited(t, u, first, last) == EditOK(u) /\ SameView(t, u) /\ Beyond(t, u, first, last)

LEMMA NothingEdited ==
  ASSUME NEW t, EditOK(t), NEW first, NEW last
  PROVE  Edited(t, t, first, last)
BY DEF Edited, SameView, Beyond

LEMMA CharsInserted ==
  ASSUME NEW t, EditOK(t), NEW c \in Chars, NEW n \in Nat
  PROVE  Edited(t, InsertChar(t, c, n), t.row, t.row) /\ InsertChar(t, c, n).row = t.row
<1>1. PICK s : s = Line(t, t.row)
  OBVIOUS
<1>2. /\ s \in Seq(Chars) /\ Len(s) \in 0 .. MaxLen /\ t.row \in Nat
      /\ t.col \in 0 .. Len(s) /\ MaxLen \in Nat
      /\ Before(t) \in Seq(Chars) /\ Len(Before(t)) = t.col
      /\ After(t) \in Seq(Chars) /\ Len(After(t)) = Len(s) - t.col
  BY <1>1, Around, WindowAssumption
<1>3. PICK m : m = Min({n, Room(t)})
  OBVIOUS
<1>4. m \in Nat /\ m <= MaxLen - Len(s)
  <2>1. Room(t) = MaxLen - Len(s) /\ Room(t) \in Nat
    <3>1. PICK k \in 0 .. MaxLen : k = Len(s)
      BY <1>2
    <3>2. Room(t) = AtLeast0(MaxLen - k) /\ k \in Nat /\ MaxLen - k \in Nat
      BY <1>1, <1>2, <3>1 DEF Room
    <3>3. AtLeast0(MaxLen - k) = MaxLen - k
      BY <1>2, <3>2 DEF AtLeast0
    <3> QED
      BY <3>1, <3>2, <3>3
  <2> QED
    BY <1>3, <2>1, Min2
<1>5. PICK b, a : b = Before(t) /\ a = After(t)
  OBVIOUS
<1>6. PICK w : w = [j \in 1 .. m |-> c]
  OBVIOUS
<1>7. w \in Seq(Chars) /\ Len(w) = m
  BY <1>4, <1>6
<1>8. PICK l : l = b \o w \o a
  OBVIOUS
<1>9. l \in Seq(Chars) /\ Len(l) = t.col + m + (Len(s) - t.col)
  <2>1. PICK d : d = b \o w
    OBVIOUS
  <2>2. b \in Seq(Chars) /\ Len(b) = t.col /\ a \in Seq(Chars) /\ Len(a) = Len(s) - t.col
    BY <1>2, <1>5
  <2>3. d \in Seq(Chars) /\ Len(d) = Len(b) + Len(w)
    BY <1>7, <2>1, <2>2, ConcatProperties
  <2>4. d \o a \in Seq(Chars) /\ Len(d \o a) = Len(d) + Len(a)
    BY <2>2, <2>3, ConcatProperties
  <2>5. l = d \o a
    BY <1>8, <2>1
  <2>6. Len(d) = t.col + m
    BY <1>7, <2>2, <2>3
  <2> QED
    BY <2>2, <2>4, <2>5, <2>6
<1>10. Len(l) <= MaxLen /\ t.col + m \in 0 .. Len(l)
  <2>1. PICK k \in Nat, q \in Nat : k = Len(s) /\ q = t.col
    BY <1>2
  <2>2. m \in Nat /\ MaxLen \in Nat /\ m <= MaxLen - k /\ q <= k
    BY <1>2, <1>4, <2>1
  <2>3. q + m + (k - q) = k + m
    BY <2>2, Swapped
  <2>4. PICK z : z = Len(l)
    OBVIOUS
  <2>5. z = k + m
    BY <1>9, <2>1, <2>3, <2>4
  <2>6. z <= MaxLen /\ q + m \in 0 .. z
    BY <2>1, <2>2, <2>5
  <2> QED
    BY <2>1, <2>4, <2>6
<1>11. CASE t.row < Len(t.lines)
  <2>1. InsertChar(t, c, n) = [t EXCEPT !.lines[t.row + 1] = l, !.col = t.col + m]
    <3>1. ~(t.row >= Len(t.lines))
      BY <1>2, <1>11 DEF EditOK, Tes
    <3> QED
      BY <1>3, <1>5, <1>6, <1>8, <3>1 DEF InsertChar
  <2>2. LET u == [t EXCEPT !.lines[t.row + 1] = l, !.col = t.col + m]
        IN  EditOK(u) /\ SameView(t, u) /\ u.row = t.row /\ Beyond(t, u, t.row, t.row)
    BY <1>9, <1>10, <1>11, LineEdited
  <2> QED
    BY <2>1, <2>2 DEF Edited
<1>12. CASE ~(t.row < Len(t.lines))
  <2>1. t.row >= Len(t.lines)
    BY <1>2, <1>12 DEF EditOK, Tes
  <2>2. InsertChar(t, c, n) = t
    BY <2>1 DEF InsertChar
  <2> QED
    BY <2>2, NothingEdited
<1> QED
  BY <1>11, <1>12

(* One character goes.                                                     *)
Without(t, i, c) == [t EXCEPT !.lines[t.row + 1] = RemoveAt(@, i), !.col = c]

LEMMA CharRemoved ==
  ASSUME NEW t, EditOK(t), NEW i \in 1 .. Len(Line(t, t.row)),
         NEW c \in 0 .. Len(Line(t, t.row)) - 1
  PROVE  Edited(t, Without(t, i, c), t.row, t.row) /\ Without(t, i, c).row = t.row
<1>1. PICK s : s = Line(t, t.row)
  OBVIOUS
<1>2. s \in Seq(Chars) /\ Len(s) \in 0 .. MaxLen /\ t.row \in Nat /\ i \in 1 .. Len(s)
  BY <1>1, Around
<1>3. t.row < Len(t.lines) /\ s = t.lines[t.row + 1]
  <2>1. t \in Tes /\ IsText(t.lines) /\ Len(t.lines) \in Nat
    BY DEF EditOK, Tes
  <2>2. s # <<>>
    BY <1>2
  <2> QED
    BY <1>1, <1>2, <2>1, <2>2, LineType
<1>4. PICK l : l = RemoveAt(s, i)
  OBVIOUS
<1>5. l \in Seq(Chars) /\ Len(l) = Len(s) - 1
  <2>1. /\ \A j \in 1 .. i - 1 : s[j] \in Chars
        /\ \A j \in i + 1 .. Len(s) : s[j] \in Chars
    BY <1>2
  <2>2. i - 1 \in Int /\ i + 1 \in Int /\ Len(s) \in Int /\ 1 \in Int
    BY <1>2
  <2>3. PICK a, b : a = SubSeq(s, 1, i - 1) /\ b = SubSeq(s, i + 1, Len(s))
    OBVIOUS
  <2>4. a \in Seq(Chars) /\ Len(a) = IF 1 <= i - 1 THEN (i - 1) - 1 + 1 ELSE 0
    <3>1. /\ SubSeq(s, 1, i - 1) \in Seq(Chars)
          /\ Len(SubSeq(s, 1, i - 1)) = IF 1 <= i - 1 THEN (i - 1) - 1 + 1 ELSE 0
      BY <2>1, <2>2, SubSeqProperties
    <3> QED
      BY <2>3, <3>1
  <2>5. b \in Seq(Chars) /\ Len(b) = IF i + 1 <= Len(s) THEN Len(s) - (i + 1) + 1 ELSE 0
    <3>1. /\ SubSeq(s, i + 1, Len(s)) \in Seq(Chars)
          /\ Len(SubSeq(s, i + 1, Len(s))) = IF i + 1 <= Len(s) THEN Len(s) - (i + 1) + 1 ELSE 0
      BY <2>1, <2>2, SubSeqProperties
    <3> QED
      BY <2>3, <3>1
  <2>6. l = a \o b
    BY <1>4, <2>3 DEF RemoveAt
  <2>7. l \in Seq(Chars) /\ Len(l) = Len(a) + Len(b)
    BY <2>4, <2>5, <2>6, ConcatProperties
  <2> QED
    <3>1. Len(a) = i - 1 /\ Len(b) = Len(s) - i
      BY <1>2, <2>4, <2>5
    <3> QED
      BY <1>2, <2>7, <3>1
<1>6. Len(l) <= MaxLen /\ c \in 0 .. Len(l)
  BY <1>1, <1>2, <1>5, WindowAssumption
<1>7. Without(t, i, c) = [t EXCEPT !.lines[t.row + 1] = l, !.col = c]
  BY <1>3, <1>4 DEF EditOK, Tes, Without
<1>8. LET v == [t EXCEPT !.lines[t.row + 1] = l, !.col = c]
      IN  EditOK(v) /\ SameView(t, v) /\ v.row = t.row /\ Beyond(t, v, t.row, t.row)
  BY <1>3, <1>5, <1>6, LineEdited
<1> QED
  BY <1>7, <1>8 DEF Edited

(* Two lines become one, if there is a second.                             *)
Joined(t, r, u) ==
  /\ IsText(u.lines) /\ u \in Tes /\ SameView(t, u) /\ u.row = t.row /\ u.col = t.col
  /\ Len(u.lines) = Len(t.lines) - 1
  /\ r < Len(u.lines) => Len(Line(u, r)) >= Len(Line(t, r))
  /\ r >= Len(u.lines) => \A j \in DOMAIN u.lines : u.lines[j] = t.lines[j]
  /\ Beyond(t, u, r, ToEnd)

LEMMA LinesJoined ==
  ASSUME NEW t, t \in Tes, IsText(t.lines), NEW r \in Nat, r < Len(t.lines)
  PROVE  Joined(t, r, Join(t, r))
<1>1. PICK ls : ls = t.lines
  OBVIOUS
<1>2. ls \in Seq(Seq(Chars)) /\ IsText(ls) /\ DOMAIN ls = 1 .. Len(ls)
  BY <1>1 DEF Tes
<1>3. PICK n \in Nat : n = Len(ls) - 1 /\ r <= n /\ n + 1 = Len(ls) /\ n <= MaxLines /\ n < ToEnd
  <2>1. Len(ls) \in Nat /\ Len(ls) <= MaxLines /\ MaxLines \in Nat /\ MaxLines <= ToEnd /\ ToEnd \in Nat
    BY <1>2, SizesAre, TextIsShort
  <2> QED
    BY <1>1, <2>1
<1>4. PICK a, b : a = Line(t, r) /\ b = Line(t, r + 1)
  OBVIOUS
<1>5. a \in Seq(Chars) /\ b \in Seq(Chars) /\ Len(a) \in 0 .. MaxLen /\ Len(b) \in Nat
  BY <1>4, LineType
<1>6. PICK l : l = Slice(a \o b, 1, MaxLen)
  OBVIOUS
<1>7. l \in Seq(Chars) /\ Len(l) <= MaxLen /\ Len(l) >= Len(a)
  <2>1. a \o b \in Seq(Chars) /\ Len(a \o b) = Len(a) + Len(b)
    BY <1>5, ConcatProperties
  <2>2. MaxLen \in Nat
    BY WindowAssumption
  <2>3. l \in Seq(Chars) /\ Len(l) = IF MaxLen <= Len(a \o b) THEN MaxLen ELSE Len(a \o b)
    BY <1>6, <2>1, <2>2, SliceType
  <2> QED
    BY <1>5, <2>1, <2>2, <2>3
<1>8. PICK f : f = [j \in 1 .. n |-> IF j = r + 1 THEN l ELSE ls[IF j <= r THEN j ELSE j + 1]]
  OBVIOUS
<1>9. ASSUME NEW j \in 1 .. n
      PROVE  /\ f[j] = IF j = r + 1 THEN l ELSE ls[IF j <= r THEN j ELSE j + 1]
             /\ f[j] \in Seq(Chars) /\ Len(f[j]) <= MaxLen
  <2>1. f[j] = IF j = r + 1 THEN l ELSE ls[IF j <= r THEN j ELSE j + 1]
    BY <1>8
  <2>2. j \in DOMAIN ls /\ j + 1 \in DOMAIN ls
    <3>1. n \in Nat /\ DOMAIN ls = 1 .. n + 1
      BY <1>2, <1>3
    <3> QED
      BY <3>1
  <2>3. \A k \in DOMAIN ls : ls[k] \in Seq(Chars) /\ Len(ls[k]) <= MaxLen
    BY <1>2 DEF IsText
  <2>4. f[j] = l \/ f[j] = ls[j] \/ f[j] = ls[j + 1]
    BY <2>1
  <2>5. ls[j] \in Seq(Chars) /\ Len(ls[j]) <= MaxLen
    BY <2>2, <2>3
  <2>6. ls[j + 1] \in Seq(Chars) /\ Len(ls[j + 1]) <= MaxLen
    BY <2>2, <2>3
  <2>7. f[j] \in Seq(Chars) /\ Len(f[j]) <= MaxLen
    BY <1>7, <2>4, <2>5, <2>6, Zenon
  <2> QED
    BY <2>1, <2>7
<1>10. IsText(f) /\ f \in Seq(Seq(Chars)) /\ Len(f) = n /\ DOMAIN f = 1 .. n
  <2>1. f = [j \in 1 .. n |-> f[j]]
    BY <1>8
  <2> QED
    BY <1>3, <1>9, <2>1, FunIsText
<1>11. PICK u : u = Join(t, r)
  OBVIOUS
<1>12. u = [t EXCEPT !.lines = f]
  <2>1. Len(t.lines) - 1 = n
    BY <1>1, <1>3
  <2> QED
    BY <1>1, <1>4, <1>6, <1>8, <1>11, <2>1 DEF Join
<1>13. u \in Tes /\ u.lines = f /\ SameView(t, u) /\ u.row = t.row /\ u.col = t.col
  BY <1>10, <1>12 DEF Tes, SameView
<1>14. r < n => Len(Line(u, r)) >= Len(a)
  <2>1. SUFFICES ASSUME r < n PROVE Len(Line(u, r)) >= Len(a)
    OBVIOUS
  <2>2. r + 1 \in 1 .. n
    BY <1>3, <2>1
  <2>3. Line(u, r) = f[r + 1]
    BY <1>10, <1>13, <2>1 DEF Line
  <2> QED
    BY <1>7, <1>9, <2>2, <2>3
<1>15. r >= n => \A j \in 1 .. n : f[j] = ls[j]
  <2>1. SUFFICES ASSUME r >= n, NEW j \in 1 .. n PROVE f[j] = ls[j]
    OBVIOUS
  <2>2. j # r + 1 /\ j <= r
    BY <1>3, <2>1
  <2> QED
    BY <1>9, <2>2
<1>16. ASSUME NEW q \in Nat, q \notin r .. ToEnd PROVE Line(u, q) = Line(t, q)
  <2>0. q < r \/ q > ToEnd
    BY <1>16 DEF ToEnd
  <2>1. CASE q < r
    <3>1. q + 1 \in 1 .. n /\ q + 1 # r + 1 /\ q + 1 <= r /\ q < n /\ q < n + 1
      BY <1>3, <2>1
    <3>2. Line(u, q) = f[q + 1]
      BY <1>10, <1>13, <3>1 DEF Line
    <3>3. Line(t, q) = ls[q + 1]
      BY <1>1, <1>3, <3>1 DEF Line
    <3> QED
      BY <1>9, <3>1, <3>2, <3>3
  <2>2. CASE q > ToEnd
    <3>1. ~(q < n) /\ ~(q < n + 1)
      BY <1>3, <2>2 DEF ToEnd
    <3> QED
      BY <1>1, <1>3, <1>10, <1>13, <3>1 DEF Line
  <2> QED
    BY <2>0, <2>1, <2>2
<1>17. Beyond(t, u, r, ToEnd)
  BY <1>16 DEF Beyond
<1>18. Joined(t, r, u)
  BY <1>1, <1>3, <1>4, <1>10, <1>13, <1>14, <1>15, <1>17 DEF Joined
<1> QED
  BY <1>11, <1>18

LEMMA DeletedBefore ==
  ASSUME NEW t, EditOK(t)
  PROVE  \E f \in Nat : /\ Edited(t, DeleteBefore(t), f, ToEnd)
                        /\ f = DeleteBefore(t).row /\ f <= t.row
<1>1. /\ t.row \in Nat /\ t.col \in Nat /\ t \in Tes /\ IsText(t.lines) /\ t.row <= Len(t.lines)
      /\ t.col \in 0 .. Len(Line(t, t.row)) /\ Len(Line(t, t.row)) \in Nat /\ Len(t.lines) \in Nat
      /\ t.row = Len(t.lines) => \A j \in DOMAIN t.lines : t.lines[j] = <<>>
  BY Around DEF EditOK, Tes
<1>2. CASE t.col > 0
  <2>1. t.col \in 1 .. Len(Line(t, t.row)) /\ t.col - 1 \in 0 .. Len(Line(t, t.row)) - 1
    BY <1>1, <1>2
  <2>2. DeleteBefore(t) = Without(t, t.col, t.col - 1)
    BY <1>2 DEF DeleteBefore, Without
  <2>3. Edited(t, DeleteBefore(t), t.row, t.row) /\ DeleteBefore(t).row = t.row
    BY <2>1, <2>2, CharRemoved
  <2>4. Edited(t, DeleteBefore(t), t.row, ToEnd)
    <3>1. \A q \in Nat : q \notin t.row .. ToEnd => q \notin t.row .. t.row
      BY <1>1, TextIsShort
    <3> QED
      BY <2>3, <3>1 DEF Edited, Beyond
  <2> QED
    BY <1>1, <2>3, <2>4
<1>3. CASE ~(t.col > 0) /\ t.row > 0
  <2>1. PICK r \in Nat : r = t.row - 1 /\ r < Len(t.lines) /\ r < t.row
    BY <1>1, <1>3
  <2>2. PICK j : j = Join(t, r)
    OBVIOUS
  <2>3. Joined(t, r, j)
    BY <1>1, <2>1, <2>2, LinesJoined
  <2>4. PICK c : c = Len(Line(t, r))
    OBVIOUS
  <2>5. c \in Nat
    BY <1>1, <2>4, LineType
  <2>6. PICK u : u = DeleteBefore(t)
    OBVIOUS
  <2>7. u = [j EXCEPT !.row = r, !.col = c]
    BY <1>3, <2>1, <2>2, <2>4, <2>6 DEF DeleteBefore, At
  <2>8. u \in Tes /\ u.lines = j.lines /\ u.row = r /\ u.col = c /\ SameView(t, u)
    BY <2>1, <2>3, <2>5, <2>7 DEF Joined, Tes, SameView
  <2>9. \A q \in Nat : Line(u, q) = Line(j, q)
    BY <2>8 DEF Line
  <2>10. r >= Len(u.lines) => c = 0 /\ \A k \in DOMAIN u.lines : u.lines[k] = <<>>
    <3>1. SUFFICES ASSUME r >= Len(u.lines) PROVE c = 0 /\ \A k \in DOMAIN u.lines : u.lines[k] = <<>>
      OBVIOUS
    <3>2. t.row = Len(t.lines) /\ Len(u.lines) = Len(t.lines) - 1 /\ Len(u.lines) \in Nat
      <4>1. Len(u.lines) = Len(t.lines) - 1
        BY <2>3, <2>8 DEF Joined
      <4>2. t.row - 1 >= Len(t.lines) - 1
        BY <2>1, <3>1, <4>1
      <4> QED
        BY <1>1, <2>1, <4>1, <4>2
    <3>3. t.lines[r + 1] = <<>> /\ Line(t, r) = t.lines[r + 1]
      BY <1>1, <2>1, <3>2, LineType
    <3>4. \A k \in DOMAIN u.lines : u.lines[k] = t.lines[k] /\ k \in DOMAIN t.lines
      <4>1. DOMAIN u.lines = 1 .. Len(u.lines) /\ DOMAIN t.lines = 1 .. Len(t.lines)
        BY <1>1, <2>8 DEF Tes
      <4> QED
        BY <2>3, <2>8, <3>1, <3>2, <4>1 DEF Joined
    <3> QED
      BY <1>1, <2>4, <3>2, <3>3, <3>4
  <2>11. c <= Len(Line(u, r))
    <3>1. CASE r < Len(u.lines)
      <4>1. Len(Line(j, r)) >= c /\ Len(Line(j, r)) \in Nat
        BY <2>1, <2>3, <2>4, <2>8, <3>1, LineType DEF Joined
      <4> QED
        BY <2>1, <2>5, <2>9, <4>1
    <3>2. CASE r >= Len(u.lines)
      <4>1. Line(u, r) = <<>>
        BY <2>1, <2>3, <2>8, <3>2, LineType DEF Joined
      <4> QED
        BY <2>10, <3>2, <4>1
    <3> QED
      BY <2>1, <2>8, <3>1, <3>2 DEF Tes
  <2>12. EditOK(u)
    <3>1. r <= Len(u.lines)
      BY <1>1, <2>1, <2>3, <2>8 DEF Joined
    <3>2. IsText(u.lines)
      BY <2>3, <2>8 DEF Joined
    <3> QED
      BY <2>8, <2>10, <2>11, <3>1, <3>2 DEF EditOK
  <2>13. Beyond(t, u, r, ToEnd)
    BY <2>3, <2>9 DEF Joined, Beyond
  <2> QED
    BY <1>1, <2>1, <2>6, <2>8, <2>12, <2>13 DEF Edited
<1>4. CASE ~(t.col > 0) /\ ~(t.row > 0)
  <2>1. DeleteBefore(t) = t
    BY <1>4 DEF DeleteBefore
  <2> QED
    BY <1>1, <2>1, NothingEdited
<1> QED
  BY <1>2, <1>3, <1>4

LEMMA DeletedAt ==
  ASSUME NEW t, EditOK(t)
  PROVE  Edited(t, DeleteAt(t), t.row, ToEnd) /\ DeleteAt(t).row = t.row
<1>1. /\ t.row \in Nat /\ t.col \in Nat /\ t \in Tes /\ IsText(t.lines) /\ t.row <= Len(t.lines)
      /\ t.col \in 0 .. Len(Line(t, t.row)) /\ Len(Line(t, t.row)) \in Nat /\ Len(t.lines) \in Nat
  BY Around DEF EditOK, Tes
<1>2. CASE t.col < Len(Line(t, t.row))
  <2>1. t.col + 1 \in 1 .. Len(Line(t, t.row)) /\ t.col \in 0 .. Len(Line(t, t.row)) - 1
    BY <1>1, <1>2
  <2>2. DeleteAt(t) = Without(t, t.col + 1, t.col)
    BY <1>1, <1>2 DEF DeleteAt, Without, Tes
  <2>3. Edited(t, DeleteAt(t), t.row, t.row) /\ DeleteAt(t).row = t.row
    BY <2>1, <2>2, CharRemoved
  <2>4. \A q \in Nat : q \notin t.row .. ToEnd => q \notin t.row .. t.row
    BY <1>1, TextIsShort
  <2> QED
    BY <2>3, <2>4 DEF Edited, Beyond
<1>3. CASE ~(t.col < Len(Line(t, t.row))) /\ t.row < Len(t.lines) - 1
  <2>1. PICK u : u = DeleteAt(t)
    OBVIOUS
  <2>2. u = Join(t, t.row)
    BY <1>3, <2>1 DEF DeleteAt
  <2>3. Joined(t, t.row, u)
    BY <1>1, <1>3, <2>2, LinesJoined
  <2>4. t.row < Len(u.lines) /\ Len(u.lines) \in Nat
    BY <1>1, <1>3, <2>3 DEF Joined
  <2>5. t.col <= Len(Line(u, t.row))
    <3>1. Len(Line(u, t.row)) >= Len(Line(t, t.row)) /\ Len(Line(u, t.row)) \in Nat
      BY <1>1, <2>3, <2>4, LineType DEF Joined
    <3> QED
      BY <1>1, <3>1
  <2>6. EditOK(u)
    BY <1>1, <2>3, <2>4, <2>5 DEF Joined, EditOK
  <2> QED
    BY <2>1, <2>3, <2>6 DEF Edited, Joined
<1>4. CASE ~(t.col < Len(Line(t, t.row))) /\ ~(t.row < Len(t.lines) - 1)
  <2>1. DeleteAt(t) = t
    BY <1>4 DEF DeleteAt
  <2> QED
    BY <2>1, NothingEdited
<1> QED
  BY <1>2, <1>3, <1>4

LEMMA NewlineInserted ==
  ASSUME NEW t, EditOK(t)
  PROVE  Edited(t, InsertNewline(t), t.row, ToEnd) /\ InsertNewline(t).row >= t.row
<1>1. /\ t.row \in Nat /\ t \in Tes /\ IsText(t.lines) /\ t.row <= Len(t.lines)
      /\ t.lines \in Seq(Seq(Chars))
      /\ DOMAIN t.lines = 1 .. Len(t.lines) /\ Len(t.lines) \in Nat /\ MaxLen \in Nat
      /\ t.row = Len(t.lines) => \A j \in DOMAIN t.lines : t.lines[j] = <<>>
  BY WindowAssumption DEF EditOK, Tes
<1>2. CASE Len(t.lines) >= MaxLines
  <2>1. InsertNewline(t) = t
    BY <1>2 DEF InsertNewline
  <2> QED
    BY <1>1, <2>1, NothingEdited
<1>3. CASE ~(Len(t.lines) >= MaxLines)
  <2>1. PICK n \in Nat : n = Len(t.lines) /\ n + 1 <= MaxLines /\ t.row <= n /\ n + 1 <= ToEnd
    BY <1>1, <1>3, TextIsShort
  <2>2. PICK b, a : b = Before(t) /\ a = After(t)
    OBVIOUS
  <2>3. /\ b \in Seq(Chars) /\ Len(b) <= MaxLen /\ a \in Seq(Chars) /\ Len(a) <= MaxLen
        /\ t.row = n => b = <<>>
    <3>1. PICK k \in 0 .. MaxLen : k = Len(Line(t, t.row))
      BY Around
    <3>2. t.col \in 0 .. k /\ b \in Seq(Chars) /\ Len(b) = t.col /\ a \in Seq(Chars) /\ Len(a) = k - t.col
          /\ (t.row = n => t.col = 0)
      BY <2>1, <2>2, <3>1, Around
    <3> QED
      BY <1>1, <3>1, <3>2
  <2>4. PICK f : f = [j \in 1 .. n + 1 |->
                       IF j <= t.row THEN t.lines[j]
                       ELSE IF j = t.row + 1 THEN b
                       ELSE IF j = t.row + 2 THEN a
                       ELSE t.lines[j - 1]]
    OBVIOUS
  <2>5. ASSUME NEW j \in 1 .. n + 1
        PROVE  /\ j <= t.row => f[j] = t.lines[j]
               /\ j = t.row + 1 => f[j] = b
               /\ f[j] \in Seq(Chars) /\ Len(f[j]) <= MaxLen
    <3>1. f[j] = IF j <= t.row THEN t.lines[j] ELSE IF j = t.row + 1 THEN b
                 ELSE IF j = t.row + 2 THEN a ELSE t.lines[j - 1]
      BY <2>4
    <3>2. \A k \in DOMAIN t.lines : t.lines[k] \in Seq(Chars) /\ Len(t.lines[k]) <= MaxLen
      BY <1>1 DEF IsText
    <3>3. CASE j <= t.row
      <4>1. j \in DOMAIN t.lines
        BY <1>1, <2>1, <3>3
      <4> QED
        BY <1>1, <3>1, <3>2, <3>3, <4>1
    <3>4. CASE j = t.row + 1
      BY <1>1, <2>3, <3>1, <3>4
    <3>5. CASE j = t.row + 2
      BY <1>1, <2>3, <3>1, <3>5
    <3>6. CASE j > t.row + 2
      <4>1. j - 1 \in DOMAIN t.lines
        BY <1>1, <2>1, <3>6
      <4>2. ~(j <= t.row) /\ j # t.row + 1 /\ j # t.row + 2
        BY <1>1, <3>6
      <4>3. f[j] = t.lines[j - 1]
        BY <3>1, <4>2
      <4>4. t.lines[j - 1] \in Seq(Chars) /\ Len(t.lines[j - 1]) <= MaxLen
        BY <3>2, <4>1
      <4> QED
        BY <4>2, <4>3, <4>4
    <3>7. j <= t.row \/ j = t.row + 1 \/ j = t.row + 2 \/ j > t.row + 2
      <4>1. t.row \in Int /\ j \in Int
        BY <1>1
      <4> QED
        BY <4>1
    <3> QED
      BY <3>3, <3>4, <3>5, <3>6, <3>7
  <2>6. IsText(f) /\ f \in Seq(Seq(Chars)) /\ Len(f) = n + 1 /\ DOMAIN f = 1 .. n + 1
    <3>1. f = [j \in 1 .. n + 1 |-> f[j]]
      BY <2>4
    <3>2. PICK m \in Nat : m = n + 1
      BY <2>1
    <3> QED
      BY <2>1, <2>5, <3>1, <3>2, FunIsText
  <2>7. PICK u : u = InsertNewline(t)
    OBVIOUS
  <2>8. u = [t EXCEPT !.lines = f, !.row = t.row + 1, !.col = 0]
    BY <1>3, <2>1, <2>2, <2>4, <2>7 DEF InsertNewline
  <2>9. u \in Tes /\ u.lines = f /\ u.row = t.row + 1 /\ u.col = 0 /\ SameView(t, u)
    <3>1. t.row + 1 \in Nat /\ 0 \in Nat
      BY <1>1
    <3>2. u \in Tes /\ u.lines = f /\ u.row = t.row + 1 /\ u.col = 0
      BY <1>1, <2>6, <2>8, <3>1 DEF Tes
    <3> QED
      BY <1>1, <2>8, <3>2 DEF Tes, SameView
  <2>10. EditOK(u)
    <3>1. t.row = n => \A j \in 1 .. n + 1 : f[j] = <<>>
      <4>1. SUFFICES ASSUME t.row = n, NEW j \in 1 .. n + 1 PROVE f[j] = <<>>
        OBVIOUS
      <4>2. j <= n \/ j = n + 1
        BY <2>1
      <4>3. CASE j <= n
        <5>1. f[j] = t.lines[j]
          BY <2>5, <4>1, <4>3
        <5>2. j \in DOMAIN t.lines
          BY <1>1, <2>1, <4>1, <4>3
        <5>3. t.row = Len(t.lines)
          BY <2>1, <4>1
        <5>4. \A i \in DOMAIN t.lines : t.lines[i] = <<>>
          BY <1>1, <5>3 DEF EditOK
        <5> QED
          BY <5>1, <5>2, <5>4
      <4> QED
        BY <2>3, <2>5, <4>1, <4>2, <4>3
    <3>2. u \in Tes /\ u.lines = f /\ u.row \in Nat /\ u.col = 0
      BY <2>9 DEF Tes
    <3>3. Len(Line(u, u.row)) \in Nat
      BY <2>6, <3>2, LineType
    <3>4. u.row = t.row + 1 /\ Len(u.lines) = n + 1 /\ t.row <= n /\ t.row \in Nat /\ n \in Nat
      BY <1>1, <2>1, <2>6, <2>9
    <3>5. u.row <= Len(u.lines) /\ (u.row = Len(u.lines) => t.row = n)
      BY <3>4
    <3>6. u.row = Len(u.lines) => \A j \in DOMAIN u.lines : u.lines[j] = <<>>
      BY <2>6, <3>1, <3>2, <3>5
    <3>7. IsText(u.lines) /\ u.col <= Len(Line(u, u.row))
      BY <2>6, <3>2, <3>3
    <3> QED
      BY <3>2, <3>5, <3>6, <3>7 DEF EditOK
  <2>11. ASSUME NEW q \in Nat, q \notin t.row .. ToEnd PROVE Line(u, q) = Line(t, q)
    <3>1. q < t.row \/ q > ToEnd
      BY <1>1, <2>11 DEF ToEnd
    <3>2. CASE q < t.row
      <4>1. q + 1 \in 1 .. n + 1 /\ q + 1 <= t.row /\ q < n /\ q < n + 1
        BY <1>1, <2>1, <3>2
      <4> QED
        BY <2>1, <2>5, <2>6, <2>9, <4>1 DEF Line
    <3>3. CASE q > ToEnd
      <4>1. ~(q < n) /\ ~(q < n + 1)
        BY <2>1, <3>3 DEF ToEnd
      <4> QED
        BY <2>1, <2>6, <2>9, <4>1 DEF Line
    <3> QED
      BY <3>1, <3>2, <3>3
  <2> QED
    BY <1>1, <2>7, <2>9, <2>10, <2>11 DEF Edited, Beyond
<1> QED
  BY <1>2, <1>3

LEMMA MoveKeeps ==
  ASSUME NEW t, EditOK(t), NEW k \in Moves, NEW f, NEW l
  PROVE  Edited(t, Move(t, k), f, l)
<1> DEFINE n == Len(t.lines)
<1>1. /\ t.row \in Nat /\ t.col \in Nat /\ t \in Tes /\ IsText(t.lines) /\ t.row <= n /\ n \in Nat
      /\ t.col \in 0 .. Len(Line(t, t.row))
  BY Around DEF EditOK, Tes
<1>2. ASSUME NEW r \in Nat, r < n \/ r = t.row PROVE Len(Line(t, r)) \in Nat
  BY <1>1, LineType
<1>3. ASSUME NEW r \in Nat, r < n \/ r = t.row, NEW c \in Nat, c <= Len(Line(t, r))
      PROVE  Edited(t, At(t, r, c), f, l)
  <2>1. r <= n /\ (r = n => r = t.row)
    BY <1>1, <1>3
  <2> QED
    BY <1>3, <2>1, CursorMoved DEF Edited
<1>4. ASSUME NEW r \in Nat, r < n \/ r = t.row PROVE Edited(t, ToRow(t, r), f, l)
  <2>1. PICK c : c = Min({t.col, Len(Line(t, r))})
    OBVIOUS
  <2>2. c \in Nat /\ c <= Len(Line(t, r))
    BY <1>1, <1>2, <1>4, <2>1, Min2
  <2> QED
    BY <1>3, <1>4, <2>1, <2>2 DEF ToRow
<1>5. Edited(t, t, f, l)
  BY NothingEdited
<1>6. t.row > 0 => t.row - 1 \in Nat /\ t.row - 1 < n
  BY <1>1
<1>7. t.row < n - 1 => t.row + 1 \in Nat /\ t.row + 1 < n
  BY <1>1
<1> HIDE DEF n
<1>8. CASE k = "up"
  <2>1. CASE t.row > 0
    <3>1. Move(t, k) = ToRow(t, Min({t.row, n}) - 1)
      BY <1>8, <2>1 DEF Move, n
    <3>2. Min({t.row, n}) = t.row
      BY <1>1, Min2
    <3> QED
      BY <1>4, <1>6, <2>1, <3>1, <3>2
  <2>2. CASE ~(t.row > 0)
    BY <1>5, <1>8, <2>2 DEF Move
  <2> QED
    BY <2>1, <2>2
<1>9. CASE k = "down"
  <2>1. CASE t.row < n - 1
    <3>1. Move(t, k) = ToRow(t, t.row + 1)
      BY <1>9, <2>1 DEF Move, n
    <3> QED
      BY <1>4, <1>7, <2>1, <3>1
  <2>2. CASE ~(t.row < n - 1)
    BY <1>5, <1>9, <2>2 DEF Move, n
  <2> QED
    BY <2>1, <2>2
<1>10. CASE k = "left"
  <2>1. CASE t.col > 0
    <3>1. Move(t, k) = At(t, t.row, t.col - 1)
      BY <1>10, <2>1 DEF Move
    <3>2. t.col - 1 \in Nat /\ t.col - 1 <= Len(Line(t, t.row))
      BY <1>1, <1>2, <2>1
    <3> QED
      BY <1>1, <1>3, <3>1, <3>2
  <2>2. CASE ~(t.col > 0) /\ t.row > 0
    <3>1. Move(t, k) = At(t, t.row - 1, Len(Line(t, t.row - 1)))
      BY <1>10, <2>2 DEF Move
    <3>2. Len(Line(t, t.row - 1)) \in Nat /\ Len(Line(t, t.row - 1)) <= Len(Line(t, t.row - 1))
      BY <1>2, <1>6, <2>2
    <3> QED
      BY <1>3, <1>6, <2>2, <3>1, <3>2
  <2>3. CASE ~(t.col > 0) /\ ~(t.row > 0)
    BY <1>5, <1>10, <2>3 DEF Move
  <2> QED
    BY <2>1, <2>2, <2>3
<1>11. CASE k = "right"
  <2>1. CASE t.col < Len(Line(t, t.row))
    <3>1. Move(t, k) = At(t, t.row, t.col + 1)
      BY <1>11, <2>1 DEF Move
    <3>2. t.col + 1 \in Nat /\ t.col + 1 <= Len(Line(t, t.row))
      BY <1>1, <1>2, <2>1
    <3> QED
      BY <1>1, <1>3, <3>1, <3>2
  <2>2. CASE ~(t.col < Len(Line(t, t.row))) /\ t.row < n - 1
    <3>1. Move(t, k) = At(t, t.row + 1, 0)
      BY <1>11, <2>2 DEF Move, n
    <3>2. 0 \in Nat /\ 0 <= Len(Line(t, t.row + 1))
      BY <1>2, <1>7, <2>2
    <3> QED
      BY <1>3, <1>7, <2>2, <3>1, <3>2
  <2>3. CASE ~(t.col < Len(Line(t, t.row))) /\ ~(t.row < n - 1)
    BY <1>5, <1>11, <2>3 DEF Move, n
  <2> QED
    BY <2>1, <2>2, <2>3
<1>12. CASE k = "home"
  <2>1. Move(t, k) = At(t, t.row, 0)
    BY <1>12 DEF Move
  <2>2. 0 \in Nat /\ 0 <= Len(Line(t, t.row))
    BY <1>1, <1>2
  <2> QED
    BY <1>1, <1>3, <2>1, <2>2
<1>13. CASE k = "end"
  <2>1. Move(t, k) = At(t, t.row, Len(Line(t, t.row)))
    BY <1>13 DEF Move
  <2>2. Len(Line(t, t.row)) \in Nat /\ Len(Line(t, t.row)) <= Len(Line(t, t.row))
    BY <1>1, <1>2
  <2> QED
    BY <1>1, <1>3, <2>1, <2>2
<1> QED
  BY <1>8, <1>9, <1>10, <1>11, <1>12, <1>13 DEF Moves

LEMMA AppliedIs ==
  ASSUME NEW t, NEW k \in Keys
  PROVE  /\ k \in Moves => Applied(t, k) = Move(t, k)
         /\ k = "delete" => Applied(t, k) = DeleteAt(t)
         /\ k = "backspace" => Applied(t, k) = DeleteBefore(t)
         /\ k = "enter" => Applied(t, k) = InsertNewline(t)
         /\ k = "tab" => Applied(t, k) = InsertChar(t, Space, TabWidth)
         /\ k \in Chars => Applied(t, k) = InsertChar(t, k, 1) /\ k \notin Named
         /\ k = "unhandled" => Applied(t, k) = t
<1>1. k \in Named => k \notin Chars
  BY KeysAssumption
<1> QED
  BY <1>1 DEF Applied, Named, Moves

(* The rows that a key makes stale are those of Dirty.                     *)
LEMMA KeyEdits ==
  ASSUME NEW t, EditOK(t), NEW k \in Keys, k # "unhandled",
         NEW u, u = Applied(t, k), NEW d, d = Dirty(t, k)
  PROVE  /\ EditOK(u) /\ SameView(t, u) /\ Beyond(t, u, d.first, d.last)
         /\ d.first \in Nat /\ d.last \in Nat /\ d.first <= t.row /\ t.row <= d.last
<1>1. t.row \in Nat /\ t.row <= ToEnd /\ ToEnd \in Nat
  <2>1. t.row \in Nat /\ t.row <= Len(t.lines) /\ IsText(t.lines)
    BY DEF EditOK, Tes
  <2> QED
    BY <2>1, TextIsShort
<1>2. d = [first |-> Min({t.row, u.row}),
           last |-> IF k \in {"delete", "backspace", "enter"} THEN ToEnd
                    ELSE Max({t.row, u.row}), keys |-> 0]
  BY DEF Dirty
<1>3. \E f \in Nat : \E l \in Nat :
        /\ Edited(t, u, f, l)
        /\ f = t.row \/ f = u.row
        /\ l = (IF k \in {"delete", "backspace", "enter"} THEN ToEnd ELSE t.row)
  <2>1. CASE k \in Moves
    <3>1. Edited(t, u, t.row, t.row)
      BY <2>1, AppliedIs, MoveKeeps
    <3>2. k \notin {"delete", "backspace", "enter"}
      BY <2>1 DEF Moves
    <3> QED
      BY <1>1, <3>1, <3>2
  <2>2. CASE k = "delete"
    BY <1>1, <2>2, AppliedIs, DeletedAt
  <2>3. CASE k = "backspace"
    <3>1. u = DeleteBefore(t)
      BY <2>3, AppliedIs
    <3> QED
      BY <1>1, <2>3, <3>1, DeletedBefore
  <2>4. CASE k = "enter"
    BY <1>1, <2>4, AppliedIs, NewlineInserted
  <2>5. CASE k = "tab"
    <3>1. Edited(t, u, t.row, t.row)
      BY <2>5, AppliedIs, CharsInserted, WindowAssumption
    <3> QED
      BY <1>1, <2>5, <3>1
  <2>6. CASE k \in Chars
    <3>1. Edited(t, u, t.row, t.row)
      BY <2>6, AppliedIs, CharsInserted
    <3>2. k \notin {"delete", "backspace", "enter"}
      BY <2>6, AppliedIs DEF Named
    <3> QED
      BY <1>1, <3>1, <3>2
  <2> QED
    BY <2>1, <2>2, <2>3, <2>4, <2>5, <2>6 DEF Keys, Named
<1>4. u.row \in Nat /\ u.row <= ToEnd
  <2>1. EditOK(u)
    BY <1>3 DEF Edited
  <2>2. u.row \in Nat /\ u.row <= Len(u.lines) /\ IsText(u.lines)
    BY <2>1 DEF EditOK, Tes
  <2> QED
    BY <2>2, TextIsShort
<1>5. PICK f \in Nat, l \in Nat :
        /\ Edited(t, u, f, l)
        /\ f = t.row \/ f = u.row
        /\ l = (IF k \in {"delete", "backspace", "enter"} THEN ToEnd ELSE t.row)
  BY <1>3
<1>6. /\ d.first \in Nat /\ d.last \in Nat /\ d.first <= t.row /\ t.row <= d.last
      /\ l <= d.last /\ (f = t.row \/ f = u.row => d.first <= f)
  <2>1. Min({t.row, u.row}) = IF t.row <= u.row THEN t.row ELSE u.row
    BY <1>1, <1>4, Min2
  <2>2. Max({t.row, u.row}) = IF t.row >= u.row THEN t.row ELSE u.row
    BY <1>1, <1>4, Max2
  <2> QED
    BY <1>1, <1>2, <1>4, <1>5, <2>1, <2>2
<1>7. \A q \in Nat : q \notin d.first .. d.last => q \notin f .. l
  BY <1>5, <1>6
<1> QED
  BY <1>5, <1>6, <1>7 DEF Edited, Beyond


(***************************************************************************)
(* What is on the screen                                                   *)
(***************************************************************************)
(* Row r shows the text behind it, with no bar but the cursor's.           *)
Shows(t, r) ==
  screen[r].text = Drawn(t, r).text /\ screen[r].bars \subseteq Bars(t, r)

(* Of the rows outside a range.                                            *)
ShowsBut(t, first, last) ==
  \A r \in 0 .. Rows - 1 : t.vscroll + r \notin first .. last => Shows(t, r)

IsScreen ==
  /\ DOMAIN screen = 0 .. Rows - 1
  /\ \A r \in 0 .. Rows - 1 : screen[r] = [text |-> screen[r].text, bars |-> screen[r].bars]

Scrolled(t) == t.hscroll \in Nat /\ t.vscroll \in Nat

Right ==
  /\ EditOK(te) /\ Scrolled(te) /\ IsScreen
  /\ batch.first \in Int /\ batch.last \in Int /\ batch.keys \in Nat
  /\ batch = [first |-> batch.first, last |-> batch.last, keys |-> batch.keys]
  /\ Idle => batch = NoBatch
  /\ ShowsBut(te, batch.first, batch.last)

Refreshed == EditOK(te) /\ Scrolled(te) /\ IsScreen /\ \A r \in 0 .. Rows - 1 : Shows(te, r)

LEMMA DrawnShows ==
  ASSUME NEW t, NEW r
  PROVE  /\ Drawn(t, r).bars \subseteq Bars(t, r)
         /\ Drawn(t, r) = [text |-> Drawn(t, r).text, bars |-> Drawn(t, r).bars]
BY DEF Drawn

LEMMA RowsAre == Rows \in Nat /\ Rows > 0 /\ Cols \in Nat /\ Cols > 0 /\ \A r \in 0 .. Rows - 1 : r \in Nat
BY WindowAssumption

LEMMA Redrawn ==
  ASSUME NEW t, NEW first, NEW last, Redraw(t, first, last), IsScreen
  PROVE  /\ IsScreen'
         /\ \A r \in 0 .. Rows - 1 : screen'[r] = IF r \in first .. last THEN Drawn(t, r) ELSE screen[r]
<1>1. screen' = [r \in 0 .. Rows - 1 |-> IF r \in first .. last THEN Drawn(t, r) ELSE screen[r]]
  BY DEF Redraw
<1>2. DOMAIN screen' = 0 .. Rows - 1
  BY <1>1
<1>3. \A r \in 0 .. Rows - 1 : screen'[r] = IF r \in first .. last THEN Drawn(t, r) ELSE screen[r]
  BY <1>1
<1>4. ASSUME NEW r \in 0 .. Rows - 1
      PROVE  screen'[r] = [text |-> screen'[r].text, bars |-> screen'[r].bars]
  <2>1. CASE r \in first .. last
    <3>1. screen'[r] = Drawn(t, r)
      BY <1>3, <2>1
    <3> QED
      BY <3>1, DrawnShows
  <2>2. CASE r \notin first .. last
    <3>1. screen'[r] = screen[r]
      BY <1>3, <2>2
    <3> QED
      BY <3>1 DEF IsScreen
  <2> QED
    BY <2>1, <2>2
<1> QED
  BY <1>2, <1>3, <1>4 DEF IsScreen

LEMMA AllRedrawn ==
  ASSUME NEW t, RedrawAll(t), IsScreen, te' = t, EditOK(t), Scrolled(t)
  PROVE  Refreshed'
<1>1. IsScreen' /\ \A r \in 0 .. Rows - 1 : screen'[r] = Drawn(t, r)
  BY Redrawn DEF RedrawAll
<1>2. \A r \in 0 .. Rows - 1 : Shows(te, r)'
  BY <1>1, DrawnShows DEF Shows
<1> QED
  BY <1>1, <1>2 DEF Refreshed

ScrolledTo(t, h, v, u) == u = [t EXCEPT !.hscroll = h, !.vscroll = v]

LEMMA ScrollKeeps ==
  ASSUME NEW t, EditOK(t), NEW h \in Int, NEW v \in Int, NEW u, ScrolledTo(t, h, v, u)
  PROVE  EditOK(u) /\ u.hscroll = h /\ u.vscroll = v /\ u.lines = t.lines /\ u.row = t.row
         /\ u.col = t.col
<1>1. /\ u \in Tes /\ u.lines = t.lines /\ u.row = t.row /\ u.col = t.col /\ u.hscroll = h
      /\ u.vscroll = v
  BY DEF EditOK, Tes, ScrolledTo
<1>2. Line(u, u.row) = Line(t, t.row)
  BY <1>1 DEF Line
<1> QED
  BY <1>1, <1>2 DEF EditOK

LEMMA HMaxIsNat ==
  ASSUME NEW t \in Tes, IsText(t.lines)
  PROVE  HMax(t) \in Nat /\ VMax(t) \in Nat
<1> DEFINE T == {0} \cup {Len(t.lines[j]) : j \in DOMAIN t.lines}
<1>1. t.lines \in Seq(Seq(Chars)) /\ Len(t.lines) \in Nat
  BY DEF Tes
<1>2. \A j \in DOMAIN t.lines : Len(t.lines[j]) \in 0 .. MaxLen
  <2>1. \A j \in DOMAIN t.lines : t.lines[j] \in Seq(Chars)
    BY <1>1
  <2> QED
    BY <2>1, WindowAssumption DEF IsText
<1>3. T \in SUBSET (0 .. MaxLen) /\ T # {} /\ MaxLen \in Nat
  BY <1>2, WindowAssumption
<1>4. Max(T) \in T /\ \A y \in T : Max(T) >= y
  BY <1>3, MaxOfNat
<1>5. Max(T) \in Nat
  BY <1>3, <1>4
<1> HIDE DEF T
<1>6. HMax(t) = AtLeast0(Max(T) + 1 - Cols)
  BY DEF HMax, T
<1>7. AtLeast0(Max(T) + 1 - Cols) \in Nat
  BY <1>5, RowsAre DEF AtLeast0
<1>8. VMax(t) \in Nat
  BY <1>1, RowsAre DEF VMax, AtLeast0
<1> QED
  BY <1>6, <1>7, <1>8

LEMMA Clamped ==
  ASSUME NEW t, EditOK(t)
  PROVE  /\ EditOK(ClampScroll(t)) /\ Scrolled(ClampScroll(t))
         /\ ClampScroll(t) = [t EXCEPT !.hscroll = ClampScroll(t).hscroll,
                                       !.vscroll = ClampScroll(t).vscroll]
<1>1. t \in Tes /\ IsText(t.lines) /\ t.hscroll \in Int /\ t.vscroll \in Int
  BY DEF EditOK, Tes
<1>2. PICK hm \in Nat, vm \in Nat : hm = HMax(t) /\ vm = VMax(t)
  BY <1>1, HMaxIsNat
<1>3. PICK h \in Nat, v \in Nat : h = AtLeast0(Min({t.hscroll, hm})) /\ v = AtLeast0(Min({t.vscroll, vm}))
  <2>1. Min({t.hscroll, hm}) \in Int /\ Min({t.vscroll, vm}) \in Int
    BY <1>1, Min2
  <2> QED
    BY <2>1 DEF AtLeast0
<1>4. PICK u : u = ClampScroll(t)
  OBVIOUS
<1>5. u = [t EXCEPT !.hscroll = h, !.vscroll = v]
  <2>1. u = [t EXCEPT !.hscroll = AtLeast0(Min({t.hscroll, HMax(t)})),
                      !.vscroll = AtLeast0(Min({t.vscroll, VMax(t)}))]
    BY <1>1, <1>4 DEF ClampScroll, Tes
  <2> QED
    BY <1>2, <1>3, <2>1
<1>6. EditOK(u) /\ u.hscroll = h /\ u.vscroll = v
  <2>1. h \in Int /\ v \in Int
    BY <1>3
  <2>2. ScrolledTo(t, h, v, u)
    BY <1>5 DEF ScrolledTo
  <2> QED
    BY <2>1, <2>2, ScrollKeeps
<1> QED
  BY <1>4, <1>5, <1>6 DEF Scrolled

LEMMA Rescrolled ==
  ASSUME NEW t, EditOK(t), IsScreen, Rescroll(t)
  PROVE  Refreshed' /\ batch' = batch
<1>1. PICK u : u = ClampScroll(t)
  OBVIOUS
<1>2. EditOK(u) /\ Scrolled(u) /\ te' = u /\ RedrawAll(u) /\ batch' = batch
  BY <1>1, Clamped DEF Rescroll
<1> QED
  BY <1>2, AllRedrawn


LEMMA MadeVisible ==
  ASSUME NEW t, EditOK(t)
  PROVE  EditOK(EnsureCursorVisible(t))
<1>1. t \in Tes /\ t.hscroll \in Int /\ t.vscroll \in Int /\ t.row \in Nat /\ t.col \in Nat
  BY DEF EditOK, Tes
<1>2. PICK h \in Int, v \in Int : h = Into(t.col, t.hscroll, Cols) /\ v = Into(t.row, t.vscroll, Rows)
  BY <1>1, RowsAre DEF Into
<1>3. ScrolledTo(t, h, v, EnsureCursorVisible(t))
  BY <1>1, <1>2 DEF EnsureCursorVisible, Tes, ScrolledTo
<1>4. PICK w : w = EnsureCursorVisible(t)
  OBVIOUS
<1> QED
  BY <1>3, <1>4, ScrollKeeps

(* The redraw after an edit: if the view moved, of all rows; else of those *)
(* that d names.                                                           *)
LEMMA Finished ==
  ASSUME NEW t, EditOK(t), Scrolled(t), NEW d, d.first \in Int, d.last \in Int, IsScreen,
         ShowsBut(t, d.first, d.last), FinishEdit(t, d)
  PROVE  Refreshed'
<1>1. PICK u : u = ClampScroll(EnsureCursorVisible(t))
  OBVIOUS
<1>2. PICK w : w = EnsureCursorVisible(t)
  OBVIOUS
<1>3. EditOK(w) /\ u = ClampScroll(w)
  BY <1>1, <1>2, MadeVisible
<1>4. EditOK(u) /\ Scrolled(u)
  BY <1>3, Clamped
<1>5. te' = u
  BY <1>1 DEF FinishEdit
<1>6. CASE u.hscroll # t.hscroll \/ u.vscroll # t.vscroll
  <2>1. RedrawAll(u)
    BY <1>1, <1>6 DEF FinishEdit
  <2> QED
    BY <1>4, <1>5, <2>1, AllRedrawn
<1>7. CASE u.hscroll = t.hscroll /\ u.vscroll = t.vscroll
  <2>1. u = t
    <3>1. w = [t EXCEPT !.hscroll = w.hscroll, !.vscroll = w.vscroll]
      BY <1>2 DEF EnsureCursorVisible, EditOK, Tes
    <3>2. u = [w EXCEPT !.hscroll = u.hscroll, !.vscroll = u.vscroll]
      BY <1>3, Clamped
    <3>3. t \in Tes
      BY DEF EditOK
    <3> QED
      BY <1>7, <3>1, <3>2, <3>3 DEF Tes
  <2>2. PICK v \in Nat : v = t.vscroll /\ u.vscroll = v
    BY <1>7 DEF Scrolled
  <2>3. PICK a, b : /\ a = d.first - v
                    /\ b = IF d.last = ToEnd \/ d.last < v THEN Rows - 1 ELSE d.last - v
    OBVIOUS
  <2>4. Redraw(u, a, b)
    BY <1>1, <1>7, <2>2, <2>3 DEF FinishEdit
  <2>5. ASSUME NEW r \in 0 .. Rows - 1, r \notin a .. b PROVE v + r \notin d.first .. d.last
    BY <2>2, <2>3, <2>5, RowsAre
  <2>6. IsScreen' /\ \A r \in 0 .. Rows - 1 : screen'[r] = IF r \in a .. b THEN Drawn(t, r) ELSE screen[r]
    BY <2>1, <2>4, Redrawn
  <2>7. ASSUME NEW r \in 0 .. Rows - 1 PROVE Shows(te, r)'
    <3>1. CASE r \in a .. b
      <4>1. screen'[r] = Drawn(t, r)
        BY <2>6, <3>1
      <4> QED
        BY <1>5, <2>1, <4>1, DrawnShows DEF Shows
    <3>2. CASE r \notin a .. b
      <4>1. screen'[r] = screen[r]
        BY <2>6, <3>2
      <4>2. Shows(t, r)
        BY <2>2, <2>5, <3>2 DEF ShowsBut
      <4> QED
        BY <1>5, <2>1, <4>1, <4>2 DEF Shows
    <3> QED
      BY <3>1, <3>2
  <2> QED
    BY <1>4, <1>5, <2>6, <2>7 DEF Refreshed
<1> QED
  BY <1>6, <1>7

LEMMA RefreshedIsRight == Refreshed /\ batch = NoBatch => Right
<1> SUFFICES ASSUME Refreshed, batch = NoBatch PROVE Right
  OBVIOUS
<1>1. batch.first = 1 /\ batch.last = 0 /\ batch.keys = 0
  BY DEF NoBatch
<1>2. ShowsBut(te, batch.first, batch.last)
  BY DEF Refreshed, ShowsBut
<1> QED
  BY <1>1, <1>2 DEF Refreshed, Right, NoBatch

LEMMA IdleIsRefreshed == Right /\ Idle => Refreshed /\ batch = NoBatch
<1> SUFFICES ASSUME Right, Idle PROVE Refreshed /\ batch = NoBatch
  OBVIOUS
<1>1. batch = NoBatch /\ batch.first = 1 /\ batch.last = 0
  BY DEF Right, NoBatch
<1>2. ASSUME NEW r \in 0 .. Rows - 1 PROVE Shows(te, r)
  <2>1. te.vscroll + r \notin 1 .. 0
    BY RowsAre DEF Right, Scrolled
  <2> QED
    BY <1>1, <2>1 DEF Right, ShowsBut
<1> QED
  BY <1>1, <1>2 DEF Right, Refreshed

LEMMA RightIdles == Right /\ Idle /\ Refreshed' /\ batch' = batch => Right'
BY IdleIsRefreshed, RefreshedIsRight DEF Refreshed, NoBatch, Right, Idle, Shows, ShowsBut


WithBar(t, x, u) == u = [t EXCEPT !.shown = x]

LEMMA BarOnly ==
  ASSUME NEW t, EditOK(t), NEW x \in BOOLEAN, NEW u, WithBar(t, x, u)
  PROVE  /\ EditOK(u) /\ (Scrolled(t) => Scrolled(u)) /\ u.vscroll = t.vscroll
         /\ \A r : Shows(t, r) => Shows(u, r)
         /\ \A r : Bars(u, r) = Bars(t, r)
<1>1. /\ u \in Tes /\ u.lines = t.lines /\ u.row = t.row /\ u.col = t.col
      /\ u.hscroll = t.hscroll /\ u.vscroll = t.vscroll
  BY DEF EditOK, Tes, WithBar
<1>2. \A q : Line(u, q) = Line(t, q)
  BY <1>1 DEF Line
<1>3. EditOK(u)
  BY <1>1, <1>2 DEF EditOK
<1>4. \A r : Bars(u, r) = Bars(t, r)
  BY <1>1 DEF Bars, OnScreen
<1>5. \A r : Drawn(u, r).text = Drawn(t, r).text
  BY <1>1, <1>2 DEF Drawn
<1> QED
  BY <1>1, <1>3, <1>4, <1>5 DEF Shows, Scrolled

(* Rows that an edit leaves alone show what they showed, the cursor being  *)
(* in none of them before.                                                 *)
LEMMA EditShows ==
  ASSUME NEW t, EditOK(t), Scrolled(t), NEW u, NEW first \in Int, NEW last \in Int,
         Edited(t, u, first, last), t.row \in first .. last,
         NEW r \in 0 .. Rows - 1, t.vscroll + r \notin first .. last, Shows(t, r)
  PROVE  Shows(u, r)
<1>1. t.vscroll + r \in Nat /\ t.row \in Nat /\ t.vscroll \in Nat /\ r \in Nat
  <2>1. t.row \in Nat
    BY DEF EditOK, Tes
  <2>2. t.vscroll \in Nat
    BY DEF Scrolled
  <2>3. r \in Nat
    BY RowsAre
  <2> QED
    BY <2>1, <2>2, <2>3
<1>2. Line(u, t.vscroll + r) = Line(t, t.vscroll + r)
  BY <1>1 DEF Edited, Beyond
<1>3. Drawn(u, r).text = Drawn(t, r).text
  BY <1>2 DEF Drawn, Edited, SameView
<1>4. Bars(t, r) = {}
  <2>1. r # t.row - t.vscroll
    BY <1>1
  <2> QED
    BY <2>1 DEF Bars
<1> QED
  BY <1>3, <1>4 DEF Shows

LEMMA DirtyIs ==
  ASSUME NEW t, NEW k
  PROVE  Dirty(t, k) = [first |-> Dirty(t, k).first, last |-> Dirty(t, k).last,
                        keys |-> Dirty(t, k).keys]
<1>1. CASE k = "unhandled"
  BY <1>1 DEF Dirty, NoBatch
<1>2. CASE k # "unhandled"
  BY <1>2 DEF Dirty
<1> QED
  BY <1>1, <1>2

LEMMA KeyRight ==
  ASSUME Right, NEW k \in Keys, Key(k)
  PROVE  Right'
<1>1. PICK t : t = [te EXCEPT !.shown = TRUE]
  OBVIOUS
<1>2. /\ EditOK(t) /\ Scrolled(t) /\ t.vscroll = te.vscroll
      /\ \A r \in 0 .. Rows - 1 : Shows(te, r) => Shows(t, r)
  <2>1. WithBar(te, TRUE, t)
    BY <1>1 DEF WithBar
  <2> QED
    BY <2>1, BarOnly DEF Right
<1>3. PICK u, d : u = Applied(t, k) /\ d = Dirty(t, k)
  OBVIOUS
<1>4. /\ te' = u
      /\ batch' = [IF Idle THEN d ELSE Union(batch, d) EXCEPT !.keys = batch.keys + 1]
      /\ screen' = screen
  BY <1>1, <1>3 DEF Key
<1>5. /\ EditOK(u) /\ Scrolled(u) /\ u.vscroll = t.vscroll /\ d.first \in Int /\ d.last \in Int
      /\ \A r \in 0 .. Rows - 1 :
           Shows(t, r) /\ t.vscroll + r \notin d.first .. d.last => Shows(u, r)
  <2>1. CASE k = "unhandled"
    <3>1. u = t
      BY <1>3, <2>1, AppliedIs
    <3>2. d.first = 1 /\ d.last = 0
      BY <1>3, <2>1 DEF Dirty, NoBatch
    <3> QED
      BY <1>2, <3>1, <3>2
  <2>2. CASE k # "unhandled"
    <3>1. /\ EditOK(u) /\ SameView(t, u) /\ Beyond(t, u, d.first, d.last)
          /\ d.first \in Nat /\ d.last \in Nat /\ d.first <= t.row /\ t.row <= d.last
      BY <1>2, <1>3, <2>2, KeyEdits
    <3>2. d.first \in Int /\ d.last \in Int /\ t.row \in d.first .. d.last
      BY <1>2, <3>1 DEF EditOK, Tes
    <3>3. Edited(t, u, d.first, d.last)
      BY <3>1 DEF Edited
    <3>4. \A r \in 0 .. Rows - 1 :
            Shows(t, r) /\ t.vscroll + r \notin d.first .. d.last => Shows(u, r)
      BY <1>2, <3>2, <3>3, EditShows
    <3> QED
      BY <1>2, <3>1, <3>2, <3>4 DEF Scrolled, SameView
  <2> QED
    BY <2>1, <2>2
<1>6. /\ batch.first \in Int /\ batch.last \in Int /\ batch.keys \in Nat
      /\ batch = [first |-> batch.first, last |-> batch.last, keys |-> batch.keys]
      /\ (Idle => batch.first = 1 /\ batch.last = 0)
  BY DEF Right, NoBatch
<1>7. PICK a \in Int, b \in Int :
        /\ batch' = [first |-> a, last |-> b, keys |-> batch.keys + 1]
        /\ \A q \in Nat : q \notin a .. b => q \notin d.first .. d.last
                                           /\ q \notin batch.first .. batch.last
  <2>1. CASE Idle
    <3>1. batch' = [d EXCEPT !.keys = batch.keys + 1]
      BY <1>4, <2>1
    <3>2. d = [first |-> d.first, last |-> d.last, keys |-> d.keys]
      BY <1>3, DirtyIs
    <3>3. batch' = [first |-> d.first, last |-> d.last, keys |-> batch.keys + 1]
      BY <3>1, <3>2
    <3>4. \A q \in Nat : q \notin batch.first .. batch.last
      BY <1>6, <2>1
    <3> QED
      BY <1>5, <3>3, <3>4
  <2>2. CASE ~Idle
    <3>1. PICK a \in Int, b \in Int : a = Min({batch.first, d.first}) /\ b = Max({batch.last, d.last})
      BY <1>5, <1>6, Min2, Max2
    <3>2. batch' = [[batch EXCEPT !.first = Min({batch.first, d.first}), !.last = Max({batch.last, d.last})]
                      EXCEPT !.keys = batch.keys + 1]
      BY <1>4, <1>6, <2>2 DEF Union
    <3>3. batch' = [first |-> a, last |-> b, keys |-> batch.keys + 1]
      BY <1>6, <3>1, <3>2
    <3>4. a <= batch.first /\ a <= d.first /\ b >= batch.last /\ b >= d.last
      <4>1. a = IF batch.first <= d.first THEN batch.first ELSE d.first
        BY <1>5, <1>6, <3>1, Min2
      <4>2. b = IF batch.last >= d.last THEN batch.last ELSE d.last
        BY <1>5, <1>6, <3>1, Max2
      <4> QED
        BY <1>5, <1>6, <4>1, <4>2
    <3>5. \A q \in Nat : q \notin a .. b => q \notin d.first .. d.last
                                            /\ q \notin batch.first .. batch.last
      BY <1>5, <1>6, <3>4
    <3> QED
      BY <3>3, <3>5
  <2> QED
    BY <2>1, <2>2
<1>8. /\ batch'.first = a /\ batch'.last = b /\ batch'.keys = batch.keys + 1
      /\ batch'.keys \in Nat /\ batch'.keys # 0
  BY <1>6, <1>7
<1>9. ASSUME NEW r \in 0 .. Rows - 1, u.vscroll + r \notin a .. b PROVE Shows(te, r)'
  <2>1. u.vscroll + r \in Nat
    BY <1>5, RowsAre DEF Scrolled
  <2>2. Shows(te, r)
    BY <1>2, <1>5, <1>7, <1>9, <2>1 DEF Right, ShowsBut
  <2>3. Shows(u, r)
    BY <1>2, <1>5, <1>7, <1>9, <2>1, <2>2
  <2> QED
    BY <1>4, <2>3 DEF Shows
<1>10. IsScreen'
  BY <1>4 DEF Right, IsScreen
<1>11. ShowsBut(te, batch.first, batch.last)'
  BY <1>4, <1>8, <1>9 DEF ShowsBut
<1> QED
  BY <1>4, <1>5, <1>7, <1>8, <1>10, <1>11 DEF Right, Idle


LEMMA DrainedRight == Right /\ Drained => Right'
<1> SUFFICES ASSUME Right, Drained PROVE Right'
  OBVIOUS
<1>1. PICK t, d : t = te /\ d = batch
  OBVIOUS
<1>2. EditOK(t) /\ Scrolled(t) /\ d.first \in Int /\ d.last \in Int /\ IsScreen
      /\ ShowsBut(t, d.first, d.last)
  BY <1>1 DEF Right
<1>3. FinishEdit(t, d) /\ batch' = NoBatch
  BY <1>1 DEF Drained
<1>4. Refreshed'
  BY <1>2, <1>3, Finished
<1> QED
  BY <1>3, <1>4, RefreshedIsRight DEF Refreshed, Right, Idle, NoBatch, Shows, ShowsBut

LEMMA ClickRight ==
  ASSUME Right, NEW sr \in 0 .. Rows - 1, NEW sc \in 0 .. Cols - 1, Click(sr, sc)
  PROVE  Right'
<1>1. Idle /\ Refreshed /\ batch' = batch
  BY IdleIsRefreshed DEF Click
<1>2. /\ EditOK(te) /\ te \in Tes /\ IsText(te.lines) /\ Len(te.lines) \in Nat /\ te.row \in Nat
      /\ te.hscroll \in Nat /\ te.vscroll \in Nat /\ te.row <= Len(te.lines) /\ IsScreen
  BY <1>1 DEF Refreshed, EditOK, Scrolled, Tes
<1>3. PICK r : r = AtLeast0(Min({te.vscroll + sr, Len(te.lines) - 1}))
  OBVIOUS
<1>4. r \in Nat /\ (r < Len(te.lines) \/ r = te.row) /\ r <= Len(te.lines)
  <2>1. Min({te.vscroll + sr, Len(te.lines) - 1}) =
          IF te.vscroll + sr <= Len(te.lines) - 1 THEN te.vscroll + sr ELSE Len(te.lines) - 1
    <3>1. te.vscroll + sr \in Int /\ Len(te.lines) - 1 \in Int
      BY <1>2
    <3> QED
      BY <3>1, Min2
  <2>2. PICK n \in Nat, y \in Nat : n = Len(te.lines) /\ y = te.vscroll + sr
    BY <1>2
  <2>3. PICK k \in Int : /\ k = IF y <= n - 1 THEN y ELSE n - 1
                         /\ r = IF k < 0 THEN 0 ELSE k
    BY <1>3, <2>1, <2>2 DEF AtLeast0
  <2>4. r \in Nat /\ r <= n /\ (r < n \/ (r = 0 /\ n = 0))
    BY <2>3
  <2>5. n = 0 => te.row = 0
    BY <1>2, <2>2
  <2> QED
    BY <2>2, <2>4, <2>5
<1>5. PICK c \in Nat : c = Min({te.hscroll + sc, Len(Line(te, r))}) /\ c <= Len(Line(te, r))
  <2>1. Len(Line(te, r)) \in Nat
    BY <1>2, <1>4, LineType
  <2>2. te.hscroll + sc \in Nat
    BY <1>2, RowsAre
  <2>3. Min({te.hscroll + sc, Len(Line(te, r))}) =
          IF te.hscroll + sc <= Len(Line(te, r)) THEN te.hscroll + sc ELSE Len(Line(te, r))
    BY <2>1, <2>2, Min2
  <2> QED
    BY <2>1, <2>2, <2>3
<1>6. PICK m, t, d : /\ m = At(te, r, c) /\ t = [m EXCEPT !.shown = TRUE]
                     /\ d = [first |-> Min({te.row, r}), last |-> Max({te.row, r}), keys |-> 0]
  OBVIOUS
<1>7. FinishEdit(t, d)
  BY <1>3, <1>5, <1>6 DEF Click
<1>8. d.first \in Int /\ d.last \in Int /\ te.row \in d.first .. d.last
  <2>1. d.first = (IF te.row <= r THEN te.row ELSE r) /\ d.last = IF te.row >= r THEN te.row ELSE r
    BY <1>2, <1>4, <1>6, Min2, Max2
  <2> QED
    BY <1>2, <1>4, <2>1
<1>9. Edited(te, m, d.first, d.last)
  <2>1. r = Len(te.lines) => r = te.row
    BY <1>4
  <2> QED
    BY <1>2, <1>4, <1>5, <1>6, <2>1, CursorMoved DEF Edited
<1>10. /\ EditOK(t) /\ Scrolled(t) /\ t.vscroll = te.vscroll
       /\ \A q : Shows(m, q) => Shows(t, q)
  <2>1. WithBar(m, TRUE, t)
    BY <1>6 DEF WithBar
  <2>2. EditOK(m) /\ Scrolled(m) /\ m.vscroll = te.vscroll
    BY <1>2, <1>9 DEF Edited, SameView, Scrolled
  <2> QED
    BY <2>1, <2>2, BarOnly
<1>11. ASSUME NEW q \in 0 .. Rows - 1, t.vscroll + q \notin d.first .. d.last PROVE Shows(t, q)
  <2>1. Shows(te, q) /\ te.vscroll + q \notin d.first .. d.last /\ Scrolled(te)
    BY <1>1, <1>10, <1>11 DEF Refreshed
  <2>2. Shows(m, q)
    BY <1>2, <1>8, <1>9, <2>1, EditShows
  <2> QED
    BY <1>10, <2>2
<1>12. ShowsBut(t, d.first, d.last)
  BY <1>11 DEF ShowsBut
<1>13. Refreshed'
  BY <1>2, <1>7, <1>8, <1>10, <1>12, Finished
<1> QED
  BY <1>1, <1>13, RightIdles

LEMMA BlinkRight == Right /\ Blink => Right'
<1> SUFFICES ASSUME Right, Blink PROVE Right'
  OBVIOUS
<1>1. Idle /\ Refreshed /\ batch' = batch
  BY IdleIsRefreshed DEF Blink
<1>2. PICK x \in BOOLEAN : x = ~te.shown /\ te' = [te EXCEPT !.shown = x]
  BY DEF Blink
<1>3. PICK u : u = [te EXCEPT !.shown = x] /\ te' = u
  BY <1>2
<1>4. EditOK(te) /\ Scrolled(te) /\ IsScreen
  BY <1>1 DEF Refreshed
<1>5. /\ EditOK(u) /\ Scrolled(u) /\ (\A r : Shows(te, r) => Shows(u, r))
      /\ \A r : Bars(u, r) = Bars(te, r)
  <2>1. WithBar(te, x, u)
    BY <1>3 DEF WithBar
  <2> QED
    BY <1>4, <2>1, BarOnly
<1>6. screen' = [r \in DOMAIN screen |->
         [screen[r] EXCEPT !.bars = IF te'.shown THEN @ \cup Bars(te, r) ELSE @ \ Bars(te, r)]]
  BY DEF Blink
<1>7. DOMAIN screen' = 0 .. Rows - 1
  BY <1>4, <1>6 DEF IsScreen
<1>8. ASSUME NEW r \in 0 .. Rows - 1
      PROVE  /\ screen'[r] = [text |-> screen'[r].text, bars |-> screen'[r].bars]
             /\ Shows(te, r)'
  <2>1. PICK x1, b1, b2 : /\ x1 = screen[r].text /\ b1 = screen[r].bars
                          /\ b2 = IF te'.shown THEN b1 \cup Bars(te, r) ELSE b1 \ Bars(te, r)
    OBVIOUS
  <2>2. screen[r] = [text |-> x1, bars |-> b1] /\ r \in DOMAIN screen
    BY <1>4, <2>1 DEF IsScreen
  <2>3. screen'[r] = [screen[r] EXCEPT !.bars = b2]
    BY <1>6, <2>1, <2>2
  <2>4. screen'[r] = [text |-> x1, bars |-> b2]
    BY <2>2, <2>3
  <2>5. x1 = Drawn(te, r).text /\ b1 \subseteq Bars(te, r) /\ Shows(u, r)
    BY <1>1, <1>5, <2>1 DEF Refreshed, Shows
  <2>6. x1 = Drawn(u, r).text /\ b2 \subseteq Bars(u, r)
    BY <1>5, <2>1, <2>5 DEF Shows
  <2> QED
    BY <1>3, <2>4, <2>6 DEF Shows
<1>9. Refreshed'
  BY <1>3, <1>5, <1>7, <1>8 DEF Refreshed, IsScreen
<1> QED
  BY <1>1, <1>9, RightIdles

LEMMA ViewRight ==
  ASSUME Right, NEW h \in Int, NEW v \in Int, NEW t, ScrolledTo(te, h, v, t), Idle, Rescroll(t)
  PROVE  Right'
<1>1. EditOK(te) /\ IsScreen
  BY DEF Right
<1>2. EditOK(t)
  BY <1>1, ScrollKeeps
<1>3. Refreshed' /\ batch' = batch
  BY <1>1, <1>2, Rescrolled
<1> QED
  BY <1>3, RightIdles

LEMMA ArrowedRight == Right /\ Arrowed => Right'
<1> SUFFICES ASSUME Right, Arrowed PROVE Right'
  OBVIOUS
<1>1. Idle /\ te \in Tes /\ te.hscroll \in Int /\ te.vscroll \in Int
  BY DEF Right, Arrowed, EditOK, Tes
<1>2. CASE \E d \in {-Rows, -1, 1, Rows} : Rescroll([te EXCEPT !.vscroll = @ + d])
  <2>1. PICK d \in {-Rows, -1, 1, Rows} : Rescroll([te EXCEPT !.vscroll = @ + d])
    BY <1>2
  <2>2. PICK t : t = [te EXCEPT !.vscroll = @ + d]
    OBVIOUS
  <2>3. PICK v \in Int : v = te.vscroll + d
    BY <1>1, RowsAre
  <2>4. ScrolledTo(te, te.hscroll, v, t)
    BY <1>1, <2>2, <2>3 DEF ScrolledTo, Tes
  <2> QED
    BY <1>1, <2>1, <2>2, <2>4, ViewRight
<1>3. CASE \E d \in {-Cols, -1, 1, Cols} : Rescroll([te EXCEPT !.hscroll = @ + d])
  <2>1. PICK d \in {-Cols, -1, 1, Cols} : Rescroll([te EXCEPT !.hscroll = @ + d])
    BY <1>3
  <2>2. PICK t : t = [te EXCEPT !.hscroll = @ + d]
    OBVIOUS
  <2>3. PICK h \in Int : h = te.hscroll + d
    BY <1>1, RowsAre
  <2>4. ScrolledTo(te, h, te.vscroll, t)
    BY <1>1, <2>2, <2>3 DEF ScrolledTo, Tes
  <2> QED
    BY <1>1, <2>1, <2>2, <2>4, ViewRight
<1> QED
  BY <1>2, <1>3 DEF Arrowed

LEMMA SlidRight == ASSUME Right, NEW pos \in Stops, Slid(pos) PROVE Right'
<1>1. Idle /\ te \in Tes /\ te.hscroll \in Int /\ te.vscroll \in Int /\ IsText(te.lines)
  BY DEF Right, Slid, EditOK, Tes
<1>2. pos \in Nat
  BY TextsAssumption
<1>3. PICK hm \in Nat, vm \in Nat : hm = HMax(te) /\ vm = VMax(te)
  BY <1>1, HMaxIsNat
<1>4. PICK h, v : h = (pos * hm) \div 1000 /\ v = (pos * vm) \div 1000
  OBVIOUS
<1>5. h \in Int /\ v \in Int
  <2>1. \A p \in Nat : p \div 1000 \in Nat
    OBVIOUS
  <2>2. pos * hm \in Nat /\ pos * vm \in Nat
    BY <1>2
  <2> QED
    BY <1>4, <2>1, <2>2
<1>6. PICK t, u : t = [te EXCEPT !.vscroll = v] /\ u = [te EXCEPT !.hscroll = h]
  OBVIOUS
<1>7. Rescroll(t) \/ Rescroll(u)
  BY <1>3, <1>4, <1>6 DEF Slid
<1>8. ScrolledTo(te, te.hscroll, v, t) /\ ScrolledTo(te, h, te.vscroll, u)
  BY <1>1, <1>6 DEF ScrolledTo, Tes
<1> QED
  BY <1>1, <1>5, <1>7, <1>8, ViewRight

LEMMA ExposedRight == ASSUME Right, NEW first, NEW last, Exposed(first, last) PROVE Right'
<1>1. Idle /\ Refreshed /\ batch' = batch /\ te' = te /\ Redraw(te, first, last) /\ IsScreen
  BY IdleIsRefreshed DEF Exposed, Refreshed
<1>2. /\ IsScreen'
      /\ \A r \in 0 .. Rows - 1 : screen'[r] = IF r \in first .. last THEN Drawn(te, r) ELSE screen[r]
  <2>1. PICK t : t = te
    OBVIOUS
  <2>2. /\ IsScreen'
        /\ \A r \in 0 .. Rows - 1 : screen'[r] = IF r \in first .. last THEN Drawn(t, r) ELSE screen[r]
    BY <1>1, <2>1, Redrawn
  <2> QED
    BY <2>1, <2>2
<1>3. ASSUME NEW r \in 0 .. Rows - 1 PROVE Shows(te, r)'
  <2>1. screen'[r] = Drawn(te, r) \/ screen'[r] = screen[r]
    BY <1>2
  <2>2. Shows(te, r)
    BY <1>1 DEF Refreshed
  <2> QED
    BY <1>1, <2>1, <2>2, DrawnShows DEF Shows
<1>4. Refreshed'
  BY <1>1, <1>2, <1>3 DEF Refreshed
<1> QED
  BY <1>1, <1>4, RightIdles

LEMMA FreshOK == ASSUME NEW ls, IsText(ls) PROVE EditOK(Fresh(ls)) /\ Fresh(ls).lines = ls
<1>1. PICK t : t = Fresh(ls)
  OBVIOUS
<1>2. ls \in Seq(Seq(Chars)) /\ Len(ls) \in Nat /\ DOMAIN ls = 1 .. Len(ls)
  BY DEF IsText
<1>3. t \in Tes /\ t.lines = ls /\ t.row = 0 /\ t.col = 0
  BY <1>1, <1>2 DEF Fresh, Tes
<1>4. Len(Line(t, 0)) \in Nat
  BY <1>3, LineType
<1> QED
  BY <1>1, <1>2, <1>3, <1>4 DEF EditOK

LEMMA FreshRight == ASSUME Right, Idle, NEW ls, IsText(ls), Rescroll(Fresh(ls)) PROVE Right'
<1>1. PICK t : t = Fresh(ls)
  OBVIOUS
<1>2. EditOK(t) /\ IsScreen /\ Rescroll(t)
  BY <1>1, FreshOK DEF Right
<1>3. Refreshed' /\ batch' = batch
  BY <1>2, Rescrolled
<1> QED
  BY <1>3, RightIdles


(***************************************************************************)
(* What a file is loaded as                                                *)
(***************************************************************************)
LEMMA Induction ==
  ASSUME NEW S, 0 \in S, \A n \in Nat : n \in S => n + 1 \in S
  PROVE  \A n \in Nat : n \in S
<1> DEFINE T == {n \in Nat : n \notin S}
<1> SUFFICES ASSUME T # {} PROVE FALSE
  OBVIOUS
<1>1. PICK x \in T : \A y \in T : x <= y
  BY LeastNumber
<1>2. x \in Nat /\ x # 0 /\ x - 1 \in Nat /\ ~(x <= x - 1) /\ (x - 1) + 1 = x
  BY <1>1
<1>3. x - 1 \notin T
  BY <1>1, <1>2
<1> QED
  BY <1>1, <1>2, <1>3

LEMMA UptoNulType ==
  ASSUME NEW f \in Seq(Chars \cup {LF, CR, NUL})
  PROVE  UptoNul(f) \in Seq(Chars \cup {LF, CR})
<1> DEFINE T == {Len(f) + 1} \cup {j \in DOMAIN f : f[j] = NUL}
<1>1. Len(f) \in Nat /\ DOMAIN f = 1 .. Len(f)
  OBVIOUS
<1>2. T \in SUBSET Nat /\ T # {}
  BY <1>1
<1>3. PICK m : m = Min(T)
  OBVIOUS
<1>4. m \in T /\ \A y \in T : m <= y
  BY <1>2, <1>3, MinOfNat
<1>5. m \in Nat /\ m <= Len(f) + 1
  BY <1>1, <1>2, <1>4
<1>6. ASSUME NEW i \in 1 .. m - 1 PROVE f[i] \in Chars \cup {LF, CR}
  <2>1. i \in DOMAIN f /\ ~(m <= i)
    BY <1>1, <1>5
  <2>2. f[i] \in Chars \cup {LF, CR, NUL} /\ i \notin T
    BY <1>4, <2>1
  <2>3. f[i] # NUL
    BY <2>1, <2>2
  <2> QED
    BY <2>2, <2>3
<1>7. UptoNul(f) = SubSeq(f, 1, m - 1)
  BY <1>3 DEF UptoNul
<1>8. 1 \in Int /\ m - 1 \in Int
  BY <1>5
<1> QED
  BY <1>6, <1>7, <1>8, SubSeqProperties

LEMMA EolIs ==
  ASSUME NEW S, NEW s \in Seq(S), NEW p \in Nat \ {0}, NEW e, e = Eol(s, p)
  PROVE  /\ e \in 1 .. Len(s) + 1 /\ e \in Nat
         /\ \A i \in p .. e - 1 : i \in DOMAIN s /\ s[i] \notin {LF, CR}
         /\ e \in p .. Len(s) \/ e = Len(s) + 1
         /\ e <= Len(s) => s[e] \in {LF, CR}
<1> DEFINE T == {Len(s) + 1} \cup {j \in p .. Len(s) : s[j] \in {LF, CR}}
<1>1. Len(s) \in Nat /\ DOMAIN s = 1 .. Len(s)
  OBVIOUS
<1>2. T \in SUBSET Nat /\ T # {}
  BY <1>1
<1>3. e \in T /\ \A y \in T : e <= y
  BY <1>2, MinOfNat DEF Eol
<1>4. e \in Nat /\ e <= Len(s) + 1 /\ e >= 1 /\ (e \in p .. Len(s) \/ e = Len(s) + 1)
  BY <1>1, <1>2, <1>3
<1>5. ASSUME NEW i \in p .. e - 1 PROVE i \in DOMAIN s /\ s[i] \notin {LF, CR}
  <2>1. i \in p .. Len(s) /\ ~(e <= i) /\ i \in DOMAIN s
    BY <1>1, <1>4
  <2> QED
    BY <1>3, <2>1
<1>6. e <= Len(s) => s[e] \in {LF, CR}
  <2>1. ~(Len(s) + 1 <= Len(s))
    BY <1>1
  <2> QED
    BY <1>3, <2>1
<1> HIDE DEF T
<1> QED
  BY <1>1, <1>4, <1>5, <1>6

LEMMA BehindType == ASSUME NEW s, NEW e \in Nat PROVE Behind(s, e) \in Nat \ {0} /\ Behind(s, e) > e
BY DEF Behind

(* The function of LoadedLines: where each line starts.                    *)
Starts(s, f, n) == f = [j \in 1 .. n |-> IF j = 1 THEN 1 ELSE Behind(s, Eol(s, f[j - 1]))]

LEMMA StartsExist ==
  ASSUME NEW s, NEW n \in Nat
  PROVE  \E f : Starts(s, f, n)
<1> DEFINE Good == {k \in Nat : \E f : Starts(s, f, k)}
<1>1. 0 \in Good
  <2>1. Starts(s, [i \in 1 .. 0 |-> 0], 0)
    BY DEF Starts
  <2> QED
    BY <2>1
<1>2. ASSUME NEW k \in Nat, k \in Good PROVE k + 1 \in Good
  <2>1. PICK f : Starts(s, f, k)
    BY <1>2
  <2>2. \A i \in 1 .. k : f[i] = IF i = 1 THEN 1 ELSE Behind(s, Eol(s, f[i - 1]))
    BY <2>1 DEF Starts
  <2> DEFINE g == [i \in 1 .. k + 1 |->
                     IF i <= k THEN f[i] ELSE IF i = 1 THEN 1 ELSE Behind(s, Eol(s, f[i - 1]))]
             h == [i \in 1 .. k + 1 |-> IF i = 1 THEN 1 ELSE Behind(s, Eol(s, g[i - 1]))]
  <2>3. ASSUME NEW i \in 1 .. k + 1 PROVE g[i] = h[i]
    <3>1. CASE i = 1
      BY <2>2, <3>1
    <3>2. CASE i # 1
      <4>1. i - 1 \in 1 .. k + 1 /\ i - 1 <= k
        BY <3>2
      <4>2. g[i - 1] = f[i - 1]
        BY <4>1
      <4>3. h[i] = Behind(s, Eol(s, f[i - 1]))
        BY <3>2, <4>2
      <4>4. CASE i <= k
        <5>1. i \in 1 .. k /\ g[i] = f[i]
          BY <4>4
        <5> QED
          BY <2>2, <3>2, <4>3, <5>1
      <4>5. CASE ~(i <= k)
        BY <3>2, <4>3, <4>5
      <4> QED
        BY <4>4, <4>5
    <3> QED
      BY <3>1, <3>2
  <2>4. g = h
    BY <2>3
  <2>5. Starts(s, g, k + 1)
    <3> HIDE DEF g
    <3> QED
      BY <2>4 DEF Starts
  <2> QED
    BY <2>5
<1> HIDE DEF Good
<1>3. n \in Good
  BY <1>1, <1>2, Induction
<1> QED
  BY <1>3 DEF Good

LEMMA StartType ==
  ASSUME NEW S, NEW s \in Seq(S), NEW n \in Nat, NEW f, Starts(s, f, n)
  PROVE  \A j \in 1 .. n : f[j] \in Nat \ {0}
<1> DEFINE Good == {k \in Nat : k \in 1 .. n => f[k] \in Nat \ {0}}
<1>1. 0 \in Good
  OBVIOUS
<1>2. ASSUME NEW k \in Nat, k \in Good PROVE k + 1 \in Good
  <2>1. SUFFICES ASSUME k + 1 \in 1 .. n PROVE f[k + 1] \in Nat \ {0}
    OBVIOUS
  <2>2. f[k + 1] = IF k + 1 = 1 THEN 1 ELSE Behind(s, Eol(s, f[k]))
    <3>1. (k + 1) - 1 = k
      OBVIOUS
    <3> QED
      BY <2>1, <3>1 DEF Starts
  <2>3. CASE k # 0
    <3>1. k \in 1 .. n
      BY <2>1, <2>3
    <3>2. PICK p \in Nat \ {0} : p = f[k]
      BY <1>2, <3>1
    <3>3. Eol(s, p) \in Nat
      BY EolIs
    <3> QED
      BY <2>2, <2>3, <3>2, <3>3, BehindType
  <2>4. CASE k = 0
    BY <2>2, <2>4
  <2> QED
    BY <2>3, <2>4
<1> HIDE DEF Good
<1>3. \A k \in Nat : k \in Good
  BY <1>1, <1>2, Induction
<1> QED
  BY <1>3 DEF Good

LEMMA LoadedIsText ==
  ASSUME NEW f \in Seq(Chars \cup {LF, CR, NUL})
  PROVE  IsText(LoadedLines(f))
<1>1. PICK s \in Seq(Chars \cup {LF, CR}) : s = UptoNul(f)
  BY UptoNulType
<1>2. PICK start : start = CHOOSE g : Starts(s, g, MaxLines)
  OBVIOUS
<1>3. Starts(s, start, MaxLines) /\ MaxLines \in Nat /\ MaxLen \in Nat
  BY <1>2, StartsExist, WindowAssumption
<1>4. PICK T, n : T = {0} \cup {j \in 1 .. MaxLines : start[j] <= Len(s)} /\ n = Max(T)
  OBVIOUS
<1>5. n \in 0 .. MaxLines
  <2>1. T \in SUBSET (0 .. MaxLines) /\ T # {}
    BY <1>3, <1>4
  <2> QED
    BY <1>3, <1>4, <2>1, MaxOfNat
<1>6. PICK ls : ls = [j \in 1 .. n |-> Slice(SubSeq(s, start[j], Eol(s, start[j]) - 1), 1, MaxLen)]
  OBVIOUS
<1>7. LoadedLines(f) = ls
  BY <1>1, <1>2, <1>4, <1>6 DEF LoadedLines, Starts
<1>8. ASSUME NEW j \in 1 .. n PROVE ls[j] \in Seq(Chars) /\ Len(ls[j]) <= MaxLen
  <2>1. j \in 1 .. MaxLines
    BY <1>3, <1>5
  <2>2. PICK p \in Nat \ {0} : p = start[j]
    BY <1>3, <2>1, StartType
  <2>3. PICK e \in Nat : /\ e = Eol(s, p)
                         /\ \A i \in p .. e - 1 : i \in DOMAIN s /\ s[i] \notin {LF, CR}
    BY EolIs
  <2>4. \A i \in p .. e - 1 : s[i] \in Chars
    <3>1. \A i \in DOMAIN s : s[i] \in Chars \cup {LF, CR}
      BY <1>1
    <3> QED
      BY <2>3, <3>1
  <2>5. PICK l : l = SubSeq(s, p, e - 1)
    OBVIOUS
  <2>6. l \in Seq(Chars)
    <3>1. p \in Int /\ e - 1 \in Int
      BY <2>2, <2>3
    <3> QED
      BY <2>4, <2>5, <3>1, SubSeqProperties
  <2>7. ls[j] = Slice(l, 1, MaxLen)
    BY <1>6, <2>2, <2>3, <2>5
  <2>8. Slice(l, 1, MaxLen) \in Seq(Chars) /\ Len(Slice(l, 1, MaxLen)) <= MaxLen
    <3>1. /\ Slice(l, 1, MaxLen) \in Seq(Chars)
          /\ Len(Slice(l, 1, MaxLen)) = IF MaxLen <= Len(l) THEN MaxLen ELSE Len(l)
      BY <1>3, <2>6, SliceType
    <3>2. Len(l) \in Nat
      BY <2>6
    <3> QED
      BY <1>3, <3>1, <3>2
  <2> QED
    BY <2>7, <2>8
<1>9. ls = [j \in 1 .. n |-> ls[j]]
  BY <1>6
<1>10. n \in Nat /\ n <= MaxLines
  BY <1>3, <1>5
<1>11. IsText(ls) /\ ls \in Seq(Seq(Chars)) /\ Len(ls) = n /\ DOMAIN ls = 1 .. n
  BY <1>8, <1>9, <1>10, FunIsText
<1> QED
  BY <1>7, <1>11


(***************************************************************************)
(* The lines in one piece                                                  *)
(***************************************************************************)
(* The function of FlattenSeq: the first pieces together.                  *)
Joins(s, f, n) == f = [i \in 1 .. n |-> IF i = 1 THEN s[i] ELSE f[i - 1] \o s[i]]

LEMMA JoinsExist ==
  ASSUME NEW s, NEW n \in Nat
  PROVE  \E f : Joins(s, f, n)
<1> DEFINE Good == {k \in Nat : \E f : Joins(s, f, k)}
<1>1. 0 \in Good
  <2>1. Joins(s, [i \in 1 .. 0 |-> 0], 0)
    BY DEF Joins
  <2> QED
    BY <2>1
<1>2. ASSUME NEW k \in Nat, k \in Good PROVE k + 1 \in Good
  <2>1. PICK f : Joins(s, f, k)
    BY <1>2
  <2>2. \A i \in 1 .. k : f[i] = IF i = 1 THEN s[i] ELSE f[i - 1] \o s[i]
    BY <2>1 DEF Joins
  <2> DEFINE g == [i \in 1 .. k + 1 |->
                     IF i <= k THEN f[i] ELSE IF i = 1 THEN s[i] ELSE f[i - 1] \o s[i]]
             h == [i \in 1 .. k + 1 |-> IF i = 1 THEN s[i] ELSE g[i - 1] \o s[i]]
  <2>3. ASSUME NEW i \in 1 .. k + 1 PROVE g[i] = h[i]
    <3>1. CASE i = 1
      BY <2>2, <3>1
    <3>2. CASE i # 1
      <4>1. i - 1 \in 1 .. k + 1 /\ i - 1 <= k
        BY <3>2
      <4>2. g[i - 1] = f[i - 1]
        BY <4>1
      <4>3. h[i] = f[i - 1] \o s[i]
        BY <3>2, <4>2
      <4>4. CASE i <= k
        <5>1. i \in 1 .. k /\ g[i] = f[i]
          BY <4>4
        <5> QED
          BY <2>2, <3>2, <4>3, <5>1
      <4>5. CASE ~(i <= k)
        BY <3>2, <4>3, <4>5
      <4> QED
        BY <4>4, <4>5
    <3> QED
      BY <3>1, <3>2
  <2>4. g = h
    BY <2>3
  <2>5. Joins(s, g, k + 1)
    <3> HIDE DEF g
    <3> QED
      BY <2>4 DEF Joins
  <2> QED
    BY <2>5
<1> HIDE DEF Good
<1>3. n \in Good
  BY <1>1, <1>2, Induction
<1> QED
  BY <1>3 DEF Good

(* f joins the pieces of s one by one.                                     *)
JoinsUp(s, f) ==
  /\ f[1] = s[1]
  /\ \A k \in Nat : k # 0 /\ k < Len(s) => f[k + 1] = f[k] \o s[k + 1]

LEMMA FlattenIsLast ==
  ASSUME NEW s, Len(s) \in Nat, Len(s) # 0
  PROVE  \E f : JoinsUp(s, f) /\ FlattenSeq(s) = f[Len(s)]
<1> DEFINE f == CHOOSE g : Joins(s, g, Len(s))
<1>1. FlattenSeq(s) = f[Len(s)]
  BY DEF FlattenSeq, Joins
<1>2. Joins(s, f, Len(s))
  BY JoinsExist
<1> HIDE DEF f
<1>3. \A i \in 1 .. Len(s) : f[i] = IF i = 1 THEN s[i] ELSE f[i - 1] \o s[i]
  BY <1>2 DEF Joins
<1>4. f[1] = s[1]
  <2>1. 1 \in 1 .. Len(s)
    OBVIOUS
  <2> QED
    BY <1>3, <2>1
<1>5. ASSUME NEW k \in Nat, k # 0, k < Len(s) PROVE f[k + 1] = f[k] \o s[k + 1]
  <2>1. k + 1 \in 1 .. Len(s) /\ k + 1 # 1 /\ (k + 1) - 1 = k
    BY <1>5
  <2> QED
    BY <1>3, <2>1
<1> QED
  BY <1>1, <1>4, <1>5 DEF JoinsUp

LEMMA JoinedType ==
  ASSUME NEW S, NEW s \in Seq(Seq(S)), NEW f, JoinsUp(s, f), NEW k \in 1 .. Len(s)
  PROVE  f[k] \in Seq(S) /\ Len(f[k]) \in Nat
<1> DEFINE Good == {j \in Nat : j # 0 /\ j <= Len(s) => f[j] \in Seq(S)}
<1>1. 0 \in Good
  OBVIOUS
<1>2. ASSUME NEW j \in Nat, j \in Good PROVE j + 1 \in Good
  <2>1. SUFFICES ASSUME j + 1 <= Len(s) PROVE f[j + 1] \in Seq(S)
    OBVIOUS
  <2>2. s[j + 1] \in Seq(S)
    BY <2>1
  <2>3. CASE j = 0
    BY <2>2, <2>3 DEF JoinsUp
  <2>4. CASE j # 0
    <3>1. j < Len(s) /\ j <= Len(s)
      BY <2>1
    <3>2. f[j] \in Seq(S)
      BY <1>2, <2>4, <3>1
    <3>3. f[j + 1] = f[j] \o s[j + 1]
      BY <2>4, <3>1 DEF JoinsUp
    <3> QED
      BY <2>2, <3>2, <3>3
  <2> QED
    BY <2>3, <2>4
<1> HIDE DEF Good
<1>3. \A j \in Nat : j \in Good
  BY <1>1, <1>2, Induction
<1>4. k \in Nat /\ k # 0 /\ k <= Len(s)
  OBVIOUS
<1>5. f[k] \in Seq(S)
  BY <1>3, <1>4 DEF Good
<1> QED
  BY <1>5

(* c is a, and b behind it.                                                *)
Together(a, b, c) ==
  /\ c = a \o b /\ Len(c) = Len(a) + Len(b)
  /\ \A i \in 1 .. Len(a) : c[i] = a[i]
  /\ \A i \in 1 .. Len(b) : c[Len(a) + i] = b[i]

LEMMA ConcatIs ==
  ASSUME NEW S, NEW a \in Seq(S), NEW b \in Seq(S)
  PROVE  Together(a, b, a \o b) /\ a \o b \in Seq(S)
<1>1. /\ Len(a \o b) = Len(a) + Len(b) /\ a \o b \in Seq(S)
      /\ \A i \in 1 .. Len(a) + Len(b) : (a \o b)[i] = IF i <= Len(a) THEN a[i] ELSE b[i - Len(a)]
  BY ConcatProperties
<1>2. Len(a) \in Nat /\ Len(b) \in Nat
  OBVIOUS
<1>3. \A i \in 1 .. Len(a) : (a \o b)[i] = a[i]
  BY <1>1, <1>2
<1>4. ASSUME NEW i \in 1 .. Len(b) PROVE (a \o b)[Len(a) + i] = b[i]
  <2>1. Len(a) + i \in 1 .. Len(a) + Len(b) /\ ~(Len(a) + i <= Len(a)) /\ (Len(a) + i) - Len(a) = i
    BY <1>2
  <2> QED
    BY <1>1, <2>1
<1> QED
  BY <1>1, <1>3, <1>4 DEF Together

LEMMA JoinedNext ==
  ASSUME NEW S, NEW s \in Seq(Seq(S)), NEW f, JoinsUp(s, f), NEW k \in Nat, k # 0, k < Len(s)
  PROVE  Together(f[k], s[k + 1], f[k + 1])
<1>1. k \in 1 .. Len(s) /\ k + 1 \in 1 .. Len(s)
  OBVIOUS
<1>2. PICK a \in Seq(S), b \in Seq(S) : a = f[k] /\ b = s[k + 1]
  BY <1>1, JoinedType
<1>3. f[k + 1] = a \o b
  BY <1>2 DEF JoinsUp
<1> QED
  BY <1>2, <1>3, ConcatIs

LEMMA FlattenType ==
  ASSUME NEW S, NEW s \in Seq(Seq(S))
  PROVE  FlattenSeq(s) \in Seq(S)
<1>1. CASE s = <<>>
  <2>1. FlattenSeq(s) = <<>>
    BY <1>1, Zenon DEF FlattenSeq
  <2> QED
    BY <2>1
<1>2. CASE s # <<>>
  <2>1. PICK n \in Nat : n = Len(s) /\ n # 0 /\ n \in 1 .. Len(s)
    BY <1>2
  <2>2. PICK f : JoinsUp(s, f) /\ FlattenSeq(s) = f[n]
    BY <2>1, FlattenIsLast
  <2> QED
    BY <2>1, <2>2, JoinedType
<1> QED
  BY <1>1, <1>2


(* The lines of a text with what is written behind each.                   *)
Broken(ls, brk) == [j \in DOMAIN ls |-> IF j < Len(ls) THEN ls[j] \o brk ELSE ls[j]]
FileChars == Chars \cup {LF, CR}

LEMMA BrokenIs ==
  ASSUME NEW ls, IsText(ls), NEW brk \in Seq(FileChars), NEW p, p = Broken(ls, brk)
  PROVE  /\ p \in Seq(Seq(FileChars)) /\ Len(p) = Len(ls) /\ Len(ls) \in Nat
         /\ WithBreaks(ls, brk) = FlattenSeq(p)
         /\ \A j \in 1 .. Len(ls) :
              /\ ls[j] \in Seq(FileChars) /\ ls[j] \in Seq(Chars) /\ Len(ls[j]) \in 0 .. MaxLen
              /\ j < Len(ls) => p[j] = ls[j] \o brk /\ Together(ls[j], brk, p[j])
              /\ j = Len(ls) => p[j] = ls[j]
<1>1. ls \in Seq(Seq(Chars)) /\ DOMAIN ls = 1 .. Len(ls) /\ Len(ls) \in Nat
  BY DEF IsText
<1>2. PICK n \in Nat : n = Len(ls)
  BY <1>1
<1>3. ASSUME NEW j \in 1 .. n
      PROVE  ls[j] \in Seq(FileChars) /\ ls[j] \in Seq(Chars) /\ Len(ls[j]) \in 0 .. MaxLen
  <2>1. j \in DOMAIN ls
    BY <1>1, <1>2
  <2>2. PICK l \in Seq(Chars) : l = ls[j]
    BY <1>1, <2>1
  <2>3. \A i \in 1 .. Len(l) : l[i] \in FileChars
    BY DEF FileChars
  <2>4. l = [i \in 1 .. Len(l) |-> l[i]] /\ Len(l) \in Nat
    OBVIOUS
  <2>5. l \in [1 .. Len(l) -> FileChars]
    BY <2>3, <2>4
  <2>6. l \in Seq(FileChars)
    BY <2>4, <2>5
  <2>7. Len(l) <= MaxLen
    BY <2>1, <2>2 DEF IsText
  <2> QED
    BY <2>2, <2>4, <2>6, <2>7, WindowAssumption
<1>4. ASSUME NEW j \in 1 .. n
      PROVE  /\ p[j] \in Seq(FileChars)
             /\ j < n => p[j] = ls[j] \o brk /\ Together(ls[j], brk, p[j])
             /\ j = n => p[j] = ls[j]
  <2>1. p[j] = IF j < n THEN ls[j] \o brk ELSE ls[j]
    BY <1>1, <1>2 DEF Broken
  <2>2. PICK l \in Seq(FileChars) : l = ls[j]
    BY <1>3
  <2>3. Together(l, brk, l \o brk) /\ l \o brk \in Seq(FileChars)
    BY ConcatIs
  <2> QED
    BY <2>1, <2>2, <2>3
<1>5. p = [j \in 1 .. n |-> p[j]]
  BY <1>1, <1>2 DEF Broken
<1>6. p \in [1 .. n -> Seq(FileChars)]
  BY <1>4, <1>5
<1>7. p \in Seq(Seq(FileChars)) /\ Len(p) = n
  BY <1>5, <1>6
<1>8. WithBreaks(ls, brk) = FlattenSeq(p)
  BY DEF WithBreaks, Broken
<1> QED
  BY <1>2, <1>3, <1>4, <1>7, <1>8

LEMMA FilesAre ==
  ASSUME NEW ls, IsText(ls), NEW f \in Files \cup {SavedFile(ls)}
  PROVE  f \in Seq(Chars \cup {LF, CR, NUL})
<1>1. CASE f \in Files
  BY <1>1, TextsAssumption
<1>2. CASE f = SavedFile(ls)
  <2>1. PICK brk \in Seq(FileChars) : brk = <<CR, LF>>
    <3>1. CR \in FileChars /\ LF \in FileChars
      BY DEF FileChars
    <3>2. <<CR, LF>> \in Seq(FileChars)
      BY <3>1
    <3> QED
      BY <3>2
  <2>2. PICK p \in Seq(Seq(FileChars)) : f = FlattenSeq(p)
    BY <1>2, <2>1, BrokenIs DEF SavedFile
  <2>3. f \in Seq(FileChars)
    BY <2>2, FlattenType
  <2>4. f = [i \in 1 .. Len(f) |-> f[i]] /\ Len(f) \in Nat
    BY <2>3
  <2>5. \A i \in 1 .. Len(f) : f[i] \in Chars \cup {LF, CR, NUL}
    BY <2>3 DEF FileChars
  <2>6. f \in [1 .. Len(f) -> Chars \cup {LF, CR, NUL}]
    BY <2>4, <2>5
  <2> QED
    BY <2>4, <2>6
<1> QED
  BY <1>1, <1>2

(***************************************************************************)
(* The window shows the text                                               *)
(***************************************************************************)
LEMMA RightInitially == Init => Right
<1> SUFFICES ASSUME Init PROVE Right
  OBVIOUS
<1>1. PICK t : t = Fresh(InitialText)
  OBVIOUS
<1>2. EditOK(t) /\ te = ClampScroll(t)
  BY <1>1, FreshOK, TextsAssumption DEF Init
<1>3. EditOK(te) /\ Scrolled(te)
  BY <1>2, Clamped
<1>4. DOMAIN screen = 0 .. Rows - 1 /\ \A r \in 0 .. Rows - 1 : screen[r] = Drawn(te, r)
  BY DEF Init
<1>5. \A r \in 0 .. Rows - 1 :
        Shows(te, r) /\ screen[r] = [text |-> screen[r].text, bars |-> screen[r].bars]
  BY <1>4, DrawnShows DEF Shows
<1>6. Refreshed
  BY <1>3, <1>4, <1>5 DEF Refreshed, IsScreen
<1> QED
  BY <1>6, RefreshedIsRight DEF Init

LEMMA EventRight == Right /\ Event => Right'
<1> SUFFICES ASSUME Right, Event PROVE Right'
  OBVIOUS
<1>1. ASSUME NEW k \in Keys, Key(k) PROVE Right'
  BY <1>1, KeyRight
<1>2. CASE Drained
  BY <1>2, DrainedRight
<1>3. CASE Blink
  BY <1>3, BlinkRight
<1>4. CASE Arrowed
  BY <1>4, ArrowedRight
<1>5. CASE New
  BY <1>5, FreshRight, TextsAssumption DEF New
<1>6. ASSUME NEW r \in 0 .. Rows - 1, NEW c \in 0 .. Cols - 1, Click(r, c) PROVE Right'
  BY <1>6, ClickRight
<1>7. ASSUME NEW pos \in Stops, Slid(pos) PROVE Right'
  BY <1>7, SlidRight
<1>8. ASSUME NEW r, NEW s, Exposed(r, s) PROVE Right'
  BY <1>8, ExposedRight
<1>9. ASSUME NEW f \in FilesNow, Load(f) PROVE Right'
  <2>1. IsText(te.lines)
    BY DEF Right, EditOK
  <2>2. f \in Seq(Chars \cup {LF, CR, NUL})
    BY <2>1, FilesAre DEF FilesNow
  <2>3. IsText(LoadedLines(f))
    BY <2>2, LoadedIsText
  <2> QED
    BY <1>9, <2>3, FreshRight DEF Load, Opens
<1> QED
  BY <1>1, <1>2, <1>3, <1>4, <1>5, <1>6, <1>7, <1>8, <1>9 DEF Event

LEMMA SameIsRight == Right /\ UNCHANGED <<te, screen, batch>> => Right'
BY DEF Right, Idle, IsScreen, ShowsBut, Shows

(* No key waits when a file ends the program: what starts it again begins  *)
(* with nothing to draw.                                                   *)
EditInv == Right /\ (running \/ Idle)

LEMMA EditInductive == EditInv /\ [Next]_vars => EditInv'
<1> SUFFICES ASSUME EditInv, [Next]_vars PROVE EditInv'
  OBVIOUS
<1>1. Right /\ (running \/ Idle)
  BY DEF EditInv
<1>2. CASE running /\ Event /\ UNCHANGED running
  <2>1. Right' /\ running'
    BY <1>1, <1>2, EventRight
  <2> QED
    BY <2>1 DEF EditInv
<1>3. ASSUME NEW f \in FilesNow, Overrun(f) PROVE EditInv'
  <2>1. Idle /\ UNCHANGED <<te, screen, batch>>
    BY <1>3 DEF Overrun, Opens
  <2>2. Right' /\ Idle'
    BY <1>1, <2>1, SameIsRight DEF Idle
  <2> QED
    BY <2>2 DEF EditInv
<1>4. CASE ~running /\ Start
  <2>1. Idle /\ Rescroll(Fresh(InitialText)) /\ running'
    BY <1>1, <1>4 DEF Start
  <2>2. Right'
    BY <1>1, <2>1, FreshRight, TextsAssumption
  <2> QED
    BY <2>1, <2>2 DEF EditInv
<1>5. CASE UNCHANGED vars
  <2>1. UNCHANGED <<te, screen, batch>> /\ UNCHANGED running
    BY <1>5 DEF vars
  <2>2. Right' /\ (Idle => Idle')
    BY <1>1, <2>1, SameIsRight DEF Idle
  <2> QED
    BY <1>1, <2>1, <2>2 DEF EditInv
<1> QED
  BY <1>2, <1>3, <1>4, <1>5 DEF Next

(* However keys, clicks, the blinking cursor, scrolling, exposed rows and  *)
(* loaded files follow each other, the text keeps its shape, the cursor is *)
(* in it, and each row outside the range that waits to be drawn shows the  *)
(* text behind it (textedit_apply_key, TE_DIRTY_UNION, finish_edit).  A    *)
(* file that overruns (main.c:1165) ends the program between two batches   *)
(* of keys, and what is started again has the shape anew.                  *)
THEOREM EditInvariant == Spec => []EditInv
<1>1. Init => EditInv
  BY RightInitially DEF EditInv, Init
<1>2. EditInv /\ [Next]_vars => EditInv'
  BY EditInductive
<1> QED
  BY <1>1, <1>2, PTL DEF Spec

(* Between two events the window shows the text, every row of it, and no   *)
(* bar but the cursor's (textedit.c:709-731).                              *)
THEOREM ScreenShowsText == Spec => []ScreenIsText
<1>1. EditInv => ScreenIsText
  BY IdleIsRefreshed DEF EditInv, ScreenIsText, Refreshed, Shows
<1> QED
  BY <1>1, EditInvariant, PTL


(***************************************************************************)
(* The upload is the whole text                                            *)
(***************************************************************************)
LEMMA Breaks == <<LF>> \in Seq(FileChars) /\ Len(<<LF>>) = 1
<1>1. LF \in FileChars
  BY DEF FileChars
<1> QED
  BY <1>1

LEMMA FlatLength ==
  ASSUME NEW ls, IsText(ls)
  PROVE  /\ Flat(ls) \in Seq(FileChars) /\ Len(Flat(ls)) \in Nat
         /\ Len(ls) # 0 => Len(Flat(ls)) + 1 <= Len(ls) * (MaxLen + 1)
<1>1. PICK brk \in Seq(FileChars) : brk = <<LF>> /\ Len(brk) = 1
  BY Breaks
<1>2. PICK p : p = Broken(ls, brk)
  OBVIOUS
<1>3. /\ p \in Seq(Seq(FileChars)) /\ Len(p) = Len(ls) /\ Len(ls) \in Nat
      /\ WithBreaks(ls, brk) = FlattenSeq(p)
      /\ \A j \in 1 .. Len(ls) :
           /\ Len(ls[j]) \in 0 .. MaxLen
           /\ j < Len(ls) => Together(ls[j], brk, p[j])
           /\ j = Len(ls) => p[j] = ls[j]
  BY <1>2, BrokenIs
<1>4. PICK n \in Nat : n = Len(ls) /\ n = Len(p)
  BY <1>3
<1>5. Flat(ls) = FlattenSeq(p)
  BY <1>1, <1>3 DEF Flat
<1>6. Flat(ls) \in Seq(FileChars) /\ Len(Flat(ls)) \in Nat
  <2>1. FlattenSeq(p) \in Seq(FileChars)
    BY <1>3, FlattenType
  <2> QED
    BY <1>5, <2>1
<1>7. ASSUME n # 0 PROVE Len(Flat(ls)) + 1 <= n * (MaxLen + 1)
  <2>1. PICK f : JoinsUp(p, f) /\ FlattenSeq(p) = f[n]
    BY <1>4, <1>7, FlattenIsLast
  <2>2. PICK w \in Nat : w = MaxLen + 1
    BY WindowAssumption
  <2>3. ASSUME NEW j \in Nat, j # 0, j < n PROVE Len(p[j]) \in 0 .. w
    <3>1. j \in 1 .. Len(ls) /\ j < Len(ls)
      BY <1>4, <2>3
    <3>2. Len(ls[j]) \in 0 .. MaxLen /\ Len(p[j]) = Len(ls[j]) + 1
      BY <1>1, <1>3, <3>1 DEF Together
    <3> QED
      BY <2>2, <3>2, WindowAssumption
  <2>4. \A j \in 1 .. n : Len(f[j]) \in Nat
    BY <1>3, <1>4, <2>1, JoinedType
  <2>5. \A k \in Nat : (k + 1) * w = k * w + w /\ k * w \in Nat
    BY <2>2
  <2> DEFINE Good == {k \in Nat : k # 0 /\ k < n => Len(f[k]) <= k * w}
  <2>6. 0 \in Good
    OBVIOUS
  <2>7. ASSUME NEW k \in Nat, k \in Good PROVE k + 1 \in Good
    <3>1. SUFFICES ASSUME k + 1 < n PROVE Len(f[k + 1]) <= (k + 1) * w
      OBVIOUS
    <3>2. Len(p[k + 1]) \in 0 .. w
      BY <2>3, <3>1
    <3>3. CASE k = 0
      <4>1. f[k + 1] = p[k + 1]
        BY <2>1, <3>3 DEF JoinsUp
      <4>2. (k + 1) * w = w
        BY <2>2, <3>3
      <4> QED
        BY <2>2, <3>2, <4>1, <4>2
    <3>4. CASE k # 0
      <4>1. Len(f[k]) <= k * w
        BY <2>7, <3>1, <3>4
      <4>2. Together(f[k], p[k + 1], f[k + 1])
        BY <1>3, <1>4, <2>1, <3>1, <3>4, JoinedNext
      <4>3. Len(f[k + 1]) = Len(f[k]) + Len(p[k + 1])
        BY <4>2 DEF Together
      <4>4. PICK a \in Nat, b \in Nat, c \in Nat :
              a = Len(f[k]) /\ b = k * w /\ c = (k + 1) * w /\ c = b + w
        <5>1. k \in 1 .. n /\ (k + 1) * w \in Nat
          BY <2>5, <3>1, <3>4
        <5> QED
          BY <2>4, <2>5, <5>1
      <4>5. a <= b
        BY <4>1, <4>4
      <4>6. PICK e \in 0 .. w : e = Len(p[k + 1])
        BY <3>2
      <4>7. Len(f[k + 1]) = a + e /\ a + e <= c
        <5>1. c = b + w /\ e <= w /\ e \in Nat
          BY <2>2, <4>4, <4>6
        <5>2. a + e <= c
          BY <2>2, <4>5, <5>1
        <5> QED
          BY <4>3, <4>4, <4>6, <5>2
      <4> QED
        BY <4>4, <4>7
    <3> QED
      BY <3>3, <3>4
  <2> HIDE DEF Good
  <2>8. \A k \in Nat : k \in Good
    BY <2>6, <2>7, Induction
  <2>9. Len(p[n]) \in 0 .. MaxLen /\ n \in 1 .. Len(ls)
    <3>1. n \in 1 .. Len(ls) /\ n = Len(ls)
      BY <1>4, <1>7
    <3> QED
      BY <1>3, <3>1
  <2>10. CASE n = 1
    <3>1. Flat(ls) = p[n] /\ n * w = w
      BY <1>5, <2>1, <2>2, <2>10 DEF JoinsUp
    <3> QED
      BY <2>2, <2>9, <3>1, WindowAssumption
  <2>11. CASE n # 1
    <3>1. PICK k \in Nat : n = k + 1 /\ k # 0 /\ k < n
      BY <1>7, <2>11
    <3>2. Together(f[k], p[k + 1], f[k + 1])
      BY <1>3, <1>4, <2>1, <3>1, JoinedNext
    <3>3. Len(f[n]) = Len(f[k]) + Len(p[n])
      BY <3>1, <3>2 DEF Together
    <3>4. Len(f[k]) <= k * w
      BY <2>8, <3>1 DEF Good
    <3>5. PICK a \in Nat, b \in Nat, c \in Nat :
            a = Len(f[k]) /\ b = k * w /\ c = n * w /\ c = b + w
      <4>1. k \in 1 .. n /\ n * w \in Nat
        BY <2>2, <3>1
      <4> QED
        BY <2>4, <2>5, <3>1, <4>1
    <3>6. PICK e \in 0 .. MaxLen : e = Len(p[n])
      BY <2>9
    <3>7. a <= b /\ Len(f[n]) = a + e
      BY <3>3, <3>4, <3>5, <3>6
    <3>8. a + e + 1 <= c
      <4>1. a <= b /\ c = b + w /\ w = MaxLen + 1
        BY <2>2, <3>5, <3>7
      <4>2. MaxLen \in Nat /\ e \in Nat /\ e <= MaxLen
        BY <3>6, WindowAssumption
      <4> QED
        BY <4>1, <4>2
    <3>9. Len(Flat(ls)) = a + e /\ n * (MaxLen + 1) = c
      BY <1>5, <2>1, <2>2, <3>5, <3>7
    <3> QED
      BY <3>8, <3>9
  <2> QED
    BY <2>10, <2>11
<1> QED
  BY <1>4, <1>6, <1>7

LEMMA FirstLines ==
  ASSUME NEW ls, IsText(ls), NEW j \in 0 .. Len(ls)
  PROVE  IsText(SubSeq(ls, 1, j)) /\ Len(SubSeq(ls, 1, j)) = j
<1>1. ls \in Seq(Seq(Chars)) /\ Len(ls) \in Nat /\ DOMAIN ls = 1 .. Len(ls) /\ Len(ls) <= MaxLines
  BY DEF IsText
<1>2. PICK l : l = SubSeq(ls, 1, j)
  OBVIOUS
<1>3. \A i \in 1 .. j : ls[i] \in Seq(Chars) /\ Len(ls[i]) <= MaxLen
  <2>1. \A i \in 1 .. j : i \in DOMAIN ls
    BY <1>1
  <2> QED
    BY <1>1, <2>1 DEF IsText
<1>4. /\ l \in Seq(Seq(Chars)) /\ Len(l) = (IF 1 <= j THEN j - 1 + 1 ELSE 0)
      /\ \A i \in 1 .. j - 1 + 1 : l[i] = ls[1 + i - 1]
  <2>1. 1 \in Int /\ j \in Int
    OBVIOUS
  <2>2. \A i \in 1 .. j : ls[i] \in Seq(Chars)
    BY <1>3
  <2> QED
    BY <1>2, <2>1, <2>2, SubSeqProperties
<1>5. Len(l) = j /\ j \in Nat /\ DOMAIN l = 1 .. j
  BY <1>1, <1>4
<1>6. \A i \in 1 .. j : Len(l[i]) <= MaxLen
  <2>1. \A i \in 1 .. j : i \in 1 .. j - 1 + 1 /\ 1 + i - 1 = i
    BY <1>5
  <2> QED
    BY <1>3, <1>4, <2>1
<1>7. IsText(l)
  BY <1>1, <1>4, <1>5, <1>6, SizesAre DEF IsText
<1> QED
  BY <1>2, <1>5, <1>7

LEMMA UploadIsWhole ==
  ASSUME NEW ls, IsText(ls)
  PROVE  \/ UploadBuf(ls) = Flat(ls)
         \/ Len(Flat(ls)) + 1 = FileLimit /\ UploadBuf(ls) = Flat(Front(ls)) \o <<LF>>
<1>1. PICK n \in Nat : n = Len(ls) /\ n <= MaxLines /\ DOMAIN ls = 1 .. n
  BY DEF IsText
<1>2. PICK w \in Nat, lim \in Nat : w = MaxLen + 1 /\ w > 0 /\ lim = MaxLines * w /\ lim = FileLimit
  <2>1. MaxLen + 1 \in Nat /\ MaxLen + 1 > 0 /\ MaxLines \in Nat
    BY SizesAre
  <2>2. MaxLines * (MaxLen + 1) \in Nat
    BY <2>1
  <2> QED
    BY <2>1, <2>2 DEF FileLimit
<1>3. PICK T, m : /\ T = {0} \cup {j \in DOMAIN ls : Len(Flat(SubSeq(ls, 1, j))) + 1 < FileLimit}
                  /\ m = Max(T)
  OBVIOUS
<1>4. UploadBuf(ls) = Flat(SubSeq(ls, 1, m)) \o (IF m \in 1 .. n - 1 THEN <<LF>> ELSE <<>>)
  BY <1>1, <1>3 DEF UploadBuf, Flattened
<1>5. m \in T /\ m \in 0 .. n /\ \A y \in T : m >= y
  <2>1. T \in SUBSET (0 .. n) /\ T # {}
    BY <1>1, <1>3
  <2> QED
    BY <1>3, <2>1, MaxOfNat
<1>6. ASSUME NEW j \in 1 .. n PROVE Len(Flat(SubSeq(ls, 1, j))) \in Nat
                                    /\ Len(Flat(SubSeq(ls, 1, j))) + 1 <= j * w
  <2>1. PICK l : l = SubSeq(ls, 1, j)
    OBVIOUS
  <2>2. IsText(l) /\ Len(l) = j
    BY <1>1, <2>1, FirstLines
  <2>3. Len(l) # 0
    BY <2>2
  <2>4. Len(Flat(l)) \in Nat /\ Len(Flat(l)) + 1 <= Len(l) * (MaxLen + 1)
    BY <2>2, <2>3, FlatLength
  <2> QED
    BY <1>2, <2>1, <2>2, <2>4
<1>7. \A j \in 0 .. MaxLines : j < MaxLines => j * w + w <= lim /\ j * w \in Nat
  <2>1. SUFFICES ASSUME NEW j \in 0 .. MaxLines, j < MaxLines PROVE j * w + w <= lim /\ j * w \in Nat
    OBVIOUS
  <2>2. PICK d \in Nat : MaxLines = (j + 1) + d
    <3>1. MaxLines - (j + 1) \in Nat /\ MaxLines = (j + 1) + (MaxLines - (j + 1))
      BY <2>1, SizesAre
    <3> QED
      BY <3>1
  <2>3. lim = j * w + w + d * w /\ d * w \in Nat /\ j * w \in Nat
    BY <1>2, <2>2
  <2> QED
    BY <2>3, <1>2
<1>8. SubSeq(ls, 1, n) = ls
  BY <1>1 DEF IsText
<1>9. CASE m = n
  <2>1. Flat(ls) \in Seq(FileChars) /\ Flat(ls) \o <<>> = Flat(ls)
    BY FlatLength, ConcatEmptySeq
  <2>2. m \notin 1 .. n - 1
    BY <1>9
  <2> QED
    BY <1>4, <1>8, <1>9, <2>1, <2>2
<1>10. CASE m # n
  <2>1. n # 0 /\ n \in 1 .. n /\ n \notin T
    BY <1>5, <1>10
  <2>2. PICK a \in Nat : a = Len(Flat(ls)) /\ a + 1 <= n * w /\ ~(a + 1 < lim)
    BY <1>1, <1>2, <1>3, <1>6, <1>8, <2>1
  <2>3. PICK k \in Nat : n = k + 1 /\ k < MaxLines /\ k \in 0 .. MaxLines
    <3>1. PICK k \in Nat : n = k + 1
      <4>1. n - 1 \in Nat /\ n = (n - 1) + 1
        BY <2>1
      <4> QED
        BY <4>1
    <3> QED
      BY <1>1, <3>1, SizesAre
  <2>4. n * w = k * w + w /\ k * w + w <= lim /\ k * w \in Nat
    <3>1. k * w + w <= lim /\ k * w \in Nat
      BY <1>7, <2>3
    <3>2. (k + 1) * w = k * w + w
      BY OneMore
    <3> QED
      BY <2>3, <3>1, <3>2
  <2>5. a + 1 = lim
    <3>1. PICK x, y : x = n * w /\ y = k * w
      OBVIOUS
    <3>2. x = y + w /\ y + w <= lim /\ y \in Nat
      BY <2>4, <3>1
    <3>3. a + 1 <= x /\ ~(a + 1 < lim)
      BY <2>2, <3>1
    <3> QED
      BY <1>2, <2>2, <3>2, <3>3
  <2>6. k # 0
    <3>1. SUFFICES ASSUME k = 0 PROVE FALSE
      OBVIOUS
    <3>2. 1 \in 0 .. MaxLines /\ 1 < MaxLines
      BY SizesAre
    <3>3. 1 * w + w <= lim /\ 1 * w = w
      BY <1>2, <1>7, <3>2
    <3>4. n * w = w
      BY <1>2, <2>3, <3>1
    <3> QED
      BY <1>2, <2>2, <2>5, <3>3, <3>4
  <2>7. k \in T
    <3>1. k \in 1 .. n
      BY <2>3, <2>6
    <3>2. PICK b \in Nat : b = Len(Flat(SubSeq(ls, 1, k))) /\ b + 1 <= k * w
      BY <1>6, <3>1
    <3>3. b + 1 < lim
      <4>1. PICK x \in Nat : x = k * w
        BY <2>4
      <4>2. x + w <= lim /\ b + 1 <= x
        BY <2>4, <3>2, <4>1
      <4> QED
        BY <1>2, <4>2
    <3>4. k \in DOMAIN ls /\ Len(Flat(SubSeq(ls, 1, k))) + 1 < FileLimit
      BY <1>1, <1>2, <3>1, <3>2, <3>3
    <3> QED
      BY <1>3, <3>4
  <2>8. m = k
    BY <1>5, <1>10, <2>3, <2>7
  <2>9. m \in 1 .. n - 1 /\ m = Len(ls) - 1
    BY <1>1, <2>3, <2>6, <2>8
  <2>10. UploadBuf(ls) = Flat(Front(ls)) \o <<LF>>
    BY <1>4, <2>9 DEF Front
  <2> QED
    BY <1>2, <2>2, <2>5, <2>10
<1> QED
  BY <1>9, <1>10

(* A program is uploaded whole, unless it fills the buffer to the last     *)
(* character: then its last line is missing (build_upload_buf).            *)
THEOREM UploadShowsText == Spec => []UploadIsText
<1>1. EditInv => UploadIsText
  BY UploadIsWhole DEF EditInv, Right, EditOK, UploadIsText
<1> QED
  BY <1>1, EditInvariant, PTL


(***************************************************************************)
(* What is saved is what is loaded                                         *)
(***************************************************************************)
(* Line j of the file f stands behind its first b[j] characters.           *)
LaidOut(ls, f, b) ==
  /\ b[1] = 0
  /\ \A j \in 1 .. Len(ls) :
       /\ b[j] \in Nat /\ b[j] + Len(ls[j]) <= Len(f)
       /\ \A i \in 1 .. Len(ls[j]) : f[b[j] + i] = ls[j][i]
       /\ j = Len(ls) => b[j] + Len(ls[j]) = Len(f)
  /\ \A j \in 1 .. Len(ls) - 1 :
       /\ f[b[j] + Len(ls[j]) + 1] = CR /\ f[b[j] + Len(ls[j]) + 2] = LF
       /\ b[j + 1] = b[j] + Len(ls[j]) + 2 /\ b[j + 1] <= Len(f)

(* What is joined later leaves what there is.                              *)
Prefix(a, c) == Len(a) <= Len(c) /\ \A i \in 1 .. Len(a) : c[i] = a[i]

LEMMA JoinedPrefix ==
  ASSUME NEW S, NEW s \in Seq(Seq(S)), NEW f, JoinsUp(s, f), NEW j \in 1 .. Len(s)
  PROVE  Prefix(f[j], f[Len(s)])
<1> DEFINE Good == {k \in Nat : k \in j .. Len(s) => Prefix(f[j], f[k])}
<1>1. j \in Nat /\ j # 0 /\ Len(s) \in Nat /\ \A k \in 1 .. Len(s) : Len(f[k]) \in Nat
  BY JoinedType
<1>2. 0 \in Good
  BY <1>1
<1>3. ASSUME NEW k \in Nat, k \in Good PROVE k + 1 \in Good
  <2>1. SUFFICES ASSUME k + 1 \in j .. Len(s) PROVE Prefix(f[j], f[k + 1])
    OBVIOUS
  <2>2. CASE k + 1 = j
    <3>1. Prefix(f[j], f[j])
      BY <1>1 DEF Prefix
    <3> QED
      BY <2>2, <3>1
  <2>3. CASE k + 1 # j
    <3>1. k \in j .. Len(s) /\ k # 0 /\ k < Len(s) /\ k \in 1 .. Len(s) /\ k + 1 \in 1 .. Len(s)
      BY <1>1, <2>1, <2>3
    <3>2. Prefix(f[j], f[k]) /\ Together(f[k], s[k + 1], f[k + 1])
      BY <1>3, <3>1, JoinedNext
    <3>3. PICK x \in Nat, y \in Nat, z \in Nat, l \in Nat :
            x = Len(f[j]) /\ y = Len(f[k]) /\ z = Len(f[k + 1]) /\ l = Len(s[k + 1])
      <4>1. s[k + 1] \in Seq(S)
        BY <3>1
      <4>2. Len(s[k + 1]) \in Nat
        BY <4>1
      <4>3. Len(f[j]) \in Nat /\ Len(f[k]) \in Nat /\ Len(f[k + 1]) \in Nat
        BY <1>1, <3>1
      <4> QED
        BY <4>2, <4>3
    <3>4. x <= y /\ z = y + l /\ (\A i \in 1 .. x : f[k][i] = f[j][i])
          /\ \A i \in 1 .. y : f[k + 1][i] = f[k][i]
      BY <3>2, <3>3 DEF Prefix, Together
    <3>5. \A i \in 1 .. x : f[k + 1][i] = f[j][i]
      BY <3>4
    <3>6. x <= z
      BY <3>4
    <3> QED
      BY <3>3, <3>5, <3>6 DEF Prefix
  <2> QED
    BY <2>2, <2>3
<1> HIDE DEF Good
<1>4. \A k \in Nat : k \in Good
  BY <1>2, <1>3, Induction
<1>5. Len(s) \in Good /\ Len(s) \in j .. Len(s)
  BY <1>1, <1>4
<1> QED
  BY <1>5 DEF Good

LEMMA SavedIsLaidOut ==
  ASSUME NEW ls, IsText(ls), Len(ls) # 0, NEW f, f = SavedFile(ls)
  PROVE  f \in Seq(FileChars) /\ \E b : LaidOut(ls, f, b)
<1>1. PICK brk \in Seq(FileChars) : brk = <<CR, LF>> /\ Len(brk) = 2 /\ brk[1] = CR /\ brk[2] = LF
  <2>1. CR \in FileChars /\ LF \in FileChars
    BY DEF FileChars
  <2>2. <<CR, LF>> \in Seq(FileChars)
    BY <2>1
  <2> QED
    BY <2>2
<1>2. PICK p : p = Broken(ls, brk)
  OBVIOUS
<1>3. /\ p \in Seq(Seq(FileChars)) /\ Len(p) = Len(ls) /\ Len(ls) \in Nat
      /\ WithBreaks(ls, brk) = FlattenSeq(p)
      /\ \A j \in 1 .. Len(ls) :
           /\ Len(ls[j]) \in 0 .. MaxLen
           /\ j < Len(ls) => Together(ls[j], brk, p[j])
           /\ j = Len(ls) => p[j] = ls[j]
  BY <1>2, BrokenIs
<1>4. PICK n \in Nat : n = Len(ls) /\ n = Len(p) /\ n # 0
  BY <1>3
<1>5. f = FlattenSeq(p)
  BY <1>1, <1>3 DEF SavedFile
<1>6. f \in Seq(FileChars)
  BY <1>3, <1>5, FlattenType
<1>7. PICK g : JoinsUp(p, g) /\ f = g[n]
  BY <1>4, <1>5, FlattenIsLast
<1>8. \A j \in 1 .. n : Len(g[j]) \in Nat /\ Prefix(g[j], f)
  BY <1>3, <1>4, <1>7, JoinedType, JoinedPrefix
<1>9. PICK b : b = [j \in 1 .. n |-> IF j = 1 THEN 0 ELSE Len(g[j - 1])]
  OBVIOUS
<1>10. \A j \in 1 .. n : Len(ls[j]) \in Nat
  BY <1>3, <1>4
<1>11. ASSUME NEW j \in 1 .. n
       PROVE  /\ b[j] \in Nat /\ Len(g[j]) = b[j] + Len(p[j]) /\ Len(g[j]) <= Len(f)
              /\ \A i \in 1 .. Len(p[j]) : f[b[j] + i] = p[j][i]
  <2>1. Len(p[j]) \in Nat
    <3>1. p[j] \in Seq(FileChars)
      BY <1>3, <1>4
    <3> QED
      BY <3>1
  <2>2. /\ b[j] \in Nat /\ Len(g[j]) = b[j] + Len(p[j])
        /\ \A i \in 1 .. Len(p[j]) : g[j][b[j] + i] = p[j][i]
    <3>1. CASE j = 1
      <4>1. g[j] = p[j] /\ b[j] = 0
        BY <1>7, <1>9, <3>1 DEF JoinsUp
      <4> QED
        BY <2>1, <4>1
    <3>2. CASE j # 1
      <4>1. PICK k \in Nat : k = j - 1 /\ j = k + 1 /\ k # 0 /\ k < n /\ k \in 1 .. n
        BY <3>2
      <4>2. Together(g[k], p[k + 1], g[k + 1])
        BY <1>3, <1>4, <1>7, <4>1, JoinedNext
      <4>3. b[j] = Len(g[k]) /\ Len(g[k]) \in Nat
        BY <1>8, <1>9, <3>2, <4>1
      <4> QED
        BY <4>1, <4>2, <4>3 DEF Together
    <3> QED
      BY <3>1, <3>2
  <2>3. Len(g[j]) <= Len(f) /\ \A i \in 1 .. Len(g[j]) : f[i] = g[j][i]
    BY <1>8 DEF Prefix
  <2>4. ASSUME NEW i \in 1 .. Len(p[j]) PROVE f[b[j] + i] = p[j][i]
    <3>1. b[j] + i \in 1 .. Len(g[j])
      BY <2>1, <2>2
    <3> QED
      BY <2>2, <2>3, <3>1
  <2> QED
    BY <2>2, <2>3, <2>4
<1>12. ASSUME NEW j \in 1 .. n - 1
       PROVE  /\ b[j] + Len(ls[j]) + 2 <= Len(f) /\ b[j + 1] = b[j] + Len(ls[j]) + 2
              /\ \A i \in 1 .. Len(ls[j]) : f[b[j] + i] = ls[j][i]
              /\ f[b[j] + Len(ls[j]) + 1] = CR /\ f[b[j] + Len(ls[j]) + 2] = LF
  <2>1. j \in 1 .. n /\ j < n /\ j + 1 \in 1 .. n /\ j + 1 # 1 /\ (j + 1) - 1 = j
    OBVIOUS
  <2>2. Together(ls[j], brk, p[j])
    BY <1>3, <1>4, <2>1
  <2>3. PICK l \in Nat : l = Len(ls[j])
    BY <1>10, <2>1
  <2>4. /\ Len(p[j]) = l + 2 /\ \A i \in 1 .. l : p[j][i] = ls[j][i]
        /\ \A i \in 1 .. 2 : p[j][l + i] = brk[i]
    BY <1>1, <2>2, <2>3 DEF Together
  <2>5. b[j] \in Nat /\ Len(g[j]) = b[j] + (l + 2) /\ Len(g[j]) <= Len(f)
        /\ \A i \in 1 .. l + 2 : f[b[j] + i] = p[j][i]
    BY <1>11, <2>1, <2>4
  <2>6. b[j + 1] = Len(g[j])
    BY <1>9, <2>1
  <2>7. ASSUME NEW i \in 1 .. l PROVE f[b[j] + i] = ls[j][i]
    <3>1. i \in 1 .. l + 2
      OBVIOUS
    <3> QED
      BY <2>4, <2>5, <3>1
  <2>8. f[b[j] + (l + 1)] = CR /\ f[b[j] + (l + 2)] = LF
    <3>1. l + 1 \in 1 .. l + 2 /\ l + 2 \in 1 .. l + 2
      OBVIOUS
    <3>2. p[j][l + 1] = CR /\ p[j][l + 2] = LF
      BY <1>1, <2>4
    <3> QED
      BY <2>5, <3>1, <3>2
  <2>9. b[j] + (l + 1) = b[j] + l + 1 /\ b[j] + (l + 2) = b[j] + l + 2
    <3>1. b[j] \in Nat
      BY <2>5
    <3> QED
      BY <3>1
  <2> QED
    BY <2>3, <2>5, <2>6, <2>7, <2>8, <2>9
<1>13. /\ b[n] \in Nat /\ Len(f) = b[n] + Len(ls[n])
       /\ \A i \in 1 .. Len(ls[n]) : f[b[n] + i] = ls[n][i]
  <2>1. n \in 1 .. n /\ p[n] = ls[n]
    BY <1>3, <1>4
  <2> QED
    BY <1>7, <1>11, <2>1
<1>14. ASSUME NEW j \in 1 .. n
       PROVE  /\ b[j] \in Nat /\ b[j] + Len(ls[j]) <= Len(f)
              /\ \A i \in 1 .. Len(ls[j]) : f[b[j] + i] = ls[j][i]
              /\ j = n => b[j] + Len(ls[j]) = Len(f)
  <2>1. CASE j = n
    <3>1. Len(f) \in Nat
      BY <1>6
    <3> QED
      BY <1>13, <2>1, <3>1
  <2>2. CASE j # n
    <3>1. j \in 1 .. n - 1 /\ b[j] \in Nat /\ Len(ls[j]) \in Nat /\ Len(f) \in Nat
      BY <1>6, <1>10, <1>11, <2>2
    <3>2. b[j] + Len(ls[j]) + 2 <= Len(f) /\ \A i \in 1 .. Len(ls[j]) : f[b[j] + i] = ls[j][i]
      BY <1>12, <3>1
    <3> QED
      BY <2>2, <3>1, <3>2
  <2> QED
    BY <2>1, <2>2
<1>15. b[1] = 0
  <2>1. 1 \in 1 .. n
    BY <1>4
  <2> QED
    BY <1>9, <2>1
<1>16. \A j \in 1 .. n - 1 :
         /\ f[b[j] + Len(ls[j]) + 1] = CR /\ f[b[j] + Len(ls[j]) + 2] = LF
         /\ b[j + 1] = b[j] + Len(ls[j]) + 2 /\ b[j + 1] <= Len(f)
  BY <1>12
<1>17. LaidOut(ls, f, b)
  BY <1>4, <1>14, <1>15, <1>16 DEF LaidOut
<1> QED
  BY <1>6, <1>17


LEMMA EolAt ==
  ASSUME NEW S, NEW s \in Seq(S), NEW p \in Nat \ {0}, NEW e \in p .. Len(s) + 1,
         \A i \in p .. e - 1 : s[i] \notin {LF, CR}, e = Len(s) + 1 \/ s[e] \in {LF, CR}
  PROVE  Eol(s, p) = e
<1>1. PICK x \in Nat :
        /\ x = Eol(s, p) /\ x \in 1 .. Len(s) + 1 /\ (x \in p .. Len(s) \/ x = Len(s) + 1)
        /\ \A i \in p .. x - 1 : i \in DOMAIN s /\ s[i] \notin {LF, CR}
        /\ x <= Len(s) => s[x] \in {LF, CR}
  BY EolIs
<1>2. Len(s) \in Nat /\ DOMAIN s = 1 .. Len(s) /\ e \in Nat
  OBVIOUS
<1>3. ~(x < e)
  <2>1. SUFFICES ASSUME x < e PROVE FALSE
    OBVIOUS
  <2>2. x \in p .. e - 1 /\ x <= Len(s)
    BY <1>1, <1>2, <2>1
  <2> QED
    BY <1>1, <2>2
<1>4. ~(x > e)
  <2>1. SUFFICES ASSUME x > e PROVE FALSE
    OBVIOUS
  <2>2. e \in p .. x - 1
    BY <1>1, <1>2, <2>1
  <2>3. e \in DOMAIN s /\ s[e] \notin {LF, CR}
    BY <1>1, <2>2
  <2>4. e # Len(s) + 1
    BY <1>2, <2>3
  <2> QED
    BY <2>3, <2>4
<1> QED
  BY <1>1, <1>2, <1>3, <1>4

(* A file without NUL is read to its end.                                  *)
LEMMA NoNul == ASSUME NEW f \in Seq(FileChars) PROVE UptoNul(f) = f
<1>1. NUL \notin FileChars
  BY WindowAssumption DEF FileChars
<1>2. {j \in DOMAIN f : f[j] = NUL} = {}
  <2>1. \A j \in DOMAIN f : f[j] \in FileChars
    OBVIOUS
  <2> QED
    BY <1>1, <2>1
<1>3. PICK m \in Nat : m = Len(f) + 1
  OBVIOUS
<1>4. Min({m}) = m
  BY MinOfNat
<1>5. PICK T : T = {Len(f) + 1} \cup {j \in DOMAIN f : f[j] = NUL} /\ T = {m}
  BY <1>2, <1>3
<1>6. UptoNul(f) = SubSeq(f, 1, m - 1) /\ m - 1 = Len(f)
  <2>1. UptoNul(f) = SubSeq(f, 1, Min(T) - 1)
    BY <1>5 DEF UptoNul
  <2>2. Min(T) = m
    BY <1>4, <1>5
  <2>3. m - 1 = Len(f)
    BY <1>3, LenProperties
  <2> QED
    BY <2>1, <2>2, <2>3
<1> QED
  BY <1>6, SubSeqFull

(* Line j is found where it was laid out.                                  *)
StartsAt(ls, f, b, start) ==
  /\ \A j \in 1 .. Len(ls) :
       start[j] = b[j] + 1 /\ Eol(f, b[j] + 1) = b[j] + Len(ls[j]) + 1
  /\ \A j \in Len(ls) + 1 .. MaxLines : start[j] > Len(f)

LEMMA StartsAre ==
  ASSUME NEW ls, IsText(ls), Len(ls) # 0, NEW f \in Seq(FileChars), NEW b, LaidOut(ls, f, b),
         NEW start, Starts(f, start, MaxLines)
  PROVE  StartsAt(ls, f, b, start)
<1>1. PICK n \in Nat : n = Len(ls) /\ n # 0 /\ n <= MaxLines
  BY DEF IsText
<1>2. MaxLines \in Nat /\ Len(f) \in Nat
  BY SizesAre
<1>3. \A j \in 1 .. n : Len(ls[j]) \in Nat /\ ls[j] \in Seq(Chars)
  BY <1>1 DEF IsText
<1>4. ASSUME NEW j \in 1 .. n PROVE Eol(f, b[j] + 1) = b[j] + Len(ls[j]) + 1
  <2>1. PICK q \in Nat, l \in Nat : q = b[j] /\ l = Len(ls[j])
    BY <1>1, <1>3 DEF LaidOut
  <2>2. /\ q + l <= Len(f) /\ (j = n => q + l = Len(f))
        /\ \A i \in 1 .. l : f[q + i] = ls[j][i]
    BY <1>1, <2>1 DEF LaidOut
  <2>3. ASSUME NEW i \in q + 1 .. q + l PROVE f[i] \notin {LF, CR}
    <3>1. i - q \in 1 .. l /\ q + (i - q) = i
      BY <2>1
    <3>2. ls[j][i - q] \in Chars
      <4>1. PICK s \in Seq(Chars) : s = ls[j] /\ Len(s) = l
        BY <1>3, <2>1
      <4> QED
        BY <3>1, <4>1
    <3>3. f[i] = ls[j][i - q]
      BY <2>2, <3>1
    <3> QED
      BY <3>2, <3>3, WindowAssumption
  <2>4. q + l + 1 = Len(f) + 1 \/ f[q + l + 1] \in {LF, CR}
    <3>1. CASE j = n
      BY <2>2, <3>1
    <3>2. CASE j # n
      <4>1. j \in 1 .. n - 1
        BY <3>2
      <4> QED
        BY <1>1, <2>1, <4>1 DEF LaidOut
    <3> QED
      BY <3>1, <3>2
  <2>5. q + 1 \in Nat \ {0} /\ q + l + 1 \in q + 1 .. Len(f) + 1 /\ (q + l + 1) - 1 = q + l
    <3>1. q + l <= Len(f) /\ Len(f) \in Nat
      BY <1>2, <2>2
    <3> QED
      BY <3>1
  <2>6. PICK x, e : x = q + 1 /\ e = q + l + 1
    OBVIOUS
  <2>7. /\ x \in Nat \ {0} /\ e \in x .. Len(f) + 1 /\ (\A i \in x .. e - 1 : f[i] \notin {LF, CR})
        /\ e = Len(f) + 1 \/ f[e] \in {LF, CR}
    BY <2>3, <2>4, <2>5, <2>6
  <2>8. Eol(f, x) = e
    BY <2>7, EolAt
  <2> QED
    BY <2>1, <2>6, <2>8
<1>5. \A j \in 1 .. MaxLines : start[j] = IF j = 1 THEN 1 ELSE Behind(f, Eol(f, start[j - 1]))
  BY DEF Starts
<1> DEFINE Good == {k \in Nat : k \in 1 .. n => start[k] = b[k] + 1}
<1>6. 0 \in Good
  OBVIOUS
<1>7. ASSUME NEW k \in Nat, k \in Good PROVE k + 1 \in Good
  <2>1. SUFFICES ASSUME k + 1 \in 1 .. n PROVE start[k + 1] = b[k + 1] + 1
    OBVIOUS
  <2>2. k + 1 \in 1 .. MaxLines /\ (k + 1) - 1 = k
    BY <1>1, <1>2, <2>1
  <2>3. CASE k = 0
    BY <1>5, <2>2, <2>3 DEF LaidOut
  <2>4. CASE k # 0
    <3>1. k \in 1 .. n /\ k \in 1 .. n - 1 /\ k + 1 # 1
      BY <2>1, <2>4
    <3>2. PICK q \in Nat, l \in Nat : q = b[k] /\ l = Len(ls[k])
      BY <1>1, <1>3, <3>1 DEF LaidOut
    <3>3. start[k] = q + 1 /\ Eol(f, q + 1) = q + l + 1
      BY <1>4, <1>7, <3>1, <3>2
    <3>4. start[k + 1] = Behind(f, q + l + 1)
      BY <1>5, <2>2, <3>1, <3>3
    <3>5. f[q + l + 1] = CR /\ f[q + l + 2] = LF /\ b[k + 1] = q + l + 2 /\ q + l + 2 <= Len(f)
      BY <1>1, <3>1, <3>2 DEF LaidOut
    <3>6. q + l + 1 < Len(f) /\ (q + l + 1) + 1 = q + l + 2 /\ (q + l + 1) + 2 = (q + l + 2) + 1
      <4>1. q + l + 2 <= Len(f) /\ Len(f) \in Nat
        BY <1>2, <3>5
      <4> QED
        BY <4>1
    <3>7. Behind(f, q + l + 1) = (q + l + 1) + 2
      BY <3>5, <3>6 DEF Behind
    <3> QED
      BY <3>4, <3>5, <3>6, <3>7
  <2> QED
    BY <2>3, <2>4
<1> HIDE DEF Good
<1>8. \A k \in Nat : k \in Good
  BY <1>6, <1>7, Induction
<1>9. \A j \in 1 .. n : start[j] = b[j] + 1
  BY <1>8 DEF Good
<1> DEFINE Late == {k \in Nat : k \in n + 1 .. MaxLines => start[k] > Len(f)}
<1>10. 0 \in Late
  BY <1>1
<1>11. ASSUME NEW k \in Nat, k \in Late PROVE k + 1 \in Late
  <2>1. SUFFICES ASSUME k + 1 \in n + 1 .. MaxLines PROVE start[k + 1] > Len(f)
    OBVIOUS
  <2>2. k >= n /\ k \in 1 .. MaxLines /\ k + 1 \in 1 .. MaxLines /\ k + 1 # 1 /\ (k + 1) - 1 = k
    BY <1>1, <1>2, <2>1
  <2>3. Eol(f, start[k]) = Len(f) + 1
    <3>1. CASE k = n
      <4>1. k \in 1 .. n /\ b[n] + Len(ls[n]) = Len(f)
        BY <1>1, <2>2, <3>1 DEF LaidOut
      <4>2. start[k] = b[n] + 1 /\ Eol(f, b[n] + 1) = b[n] + Len(ls[n]) + 1
        BY <1>4, <1>9, <3>1, <4>1
      <4> QED
        BY <4>1, <4>2
    <3>2. CASE k # n
      <4>1. start[k] > Len(f)
        BY <1>11, <2>1, <2>2, <3>2
      <4>2. PICK x \in Nat \ {0} : x = start[k]
        BY <1>2, <2>2, StartType
      <4>3. Eol(f, x) \in x .. Len(f) \/ Eol(f, x) = Len(f) + 1
        BY EolIs
      <4> QED
        BY <1>2, <4>1, <4>2, <4>3
    <3> QED
      BY <3>1, <3>2
  <2>4. start[k + 1] = Behind(f, Len(f) + 1)
    BY <1>5, <2>2, <2>3
  <2>5. Behind(f, Len(f) + 1) \in Nat /\ Behind(f, Len(f) + 1) > Len(f) + 1
    <3>1. PICK e \in Nat : e = Len(f) + 1
      BY <1>2
    <3> QED
      BY <3>1, BehindType
  <2> QED
    BY <1>2, <2>4, <2>5
<1> HIDE DEF Late
<1>12. \A k \in Nat : k \in Late
  BY <1>10, <1>11, Induction
<1>13. \A j \in n + 1 .. MaxLines : start[j] > Len(f)
  BY <1>1, <1>12 DEF Late
<1> QED
  BY <1>1, <1>4, <1>9, <1>13 DEF StartsAt

LEMMA Reloaded ==
  ASSUME NEW ls, IsText(ls), Len(ls) # 0, NEW f, f = SavedFile(ls)
  PROVE  LoadedLines(f) = IF Last(ls) = <<>> THEN Front(ls) ELSE ls
<1>1. f \in Seq(FileChars) /\ Len(f) \in Nat
  BY SavedIsLaidOut
<1>2. PICK b : LaidOut(ls, f, b)
  BY SavedIsLaidOut
<1>3. UptoNul(f) = f
  BY <1>1, NoNul
<1>4. PICK start : start = CHOOSE g : Starts(f, g, MaxLines)
  OBVIOUS
<1>5. Starts(f, start, MaxLines) /\ MaxLines \in Nat /\ MaxLen \in Nat
  BY <1>4, StartsExist, SizesAre
<1>6. PICK n \in Nat : n = Len(ls) /\ n # 0 /\ n <= MaxLines /\ DOMAIN ls = 1 .. n
                       /\ ls = [j \in 1 .. n |-> ls[j]]
  <2>1. ls \in Seq(Seq(Chars)) /\ Len(ls) <= MaxLines
    BY DEF IsText
  <2>2. Len(ls) \in Nat /\ DOMAIN ls = 1 .. Len(ls) /\ ls = [j \in 1 .. Len(ls) |-> ls[j]]
    BY <2>1
  <2> QED
    BY <2>1, <2>2
<1>7. ASSUME NEW j \in 1 .. n
      PROVE  ls[j] \in Seq(Chars) /\ Len(ls[j]) \in Nat /\ Len(ls[j]) <= MaxLen
  <2>1. j \in DOMAIN ls /\ ls \in Seq(Seq(Chars))
    BY <1>6 DEF IsText
  <2>2. ls[j] \in Seq(Chars) /\ Len(ls[j]) <= MaxLen
    BY <2>1 DEF IsText
  <2> QED
    BY <2>2
<1>8. /\ \A j \in 1 .. n : start[j] = b[j] + 1 /\ Eol(f, b[j] + 1) = b[j] + Len(ls[j]) + 1
      /\ \A j \in n + 1 .. MaxLines : start[j] > Len(f)
  <2>1. StartsAt(ls, f, b, start)
    <3>1. Starts(f, start, MaxLines) /\ Len(ls) # 0
      BY <1>5, <1>6
    <3>2. f \in Seq(FileChars) /\ LaidOut(ls, f, b)
      BY <1>1, <1>2
    <3> QED
      BY <3>1, <3>2, StartsAre
  <2> QED
    BY <1>6, <2>1 DEF StartsAt
<1>9. PICK T, m : T = {0} \cup {j \in 1 .. MaxLines : start[j] <= Len(f)} /\ m = Max(T)
  OBVIOUS
<1>10. LoadedLines(f) = [j \in 1 .. m |-> Slice(SubSeq(f, start[j], Eol(f, start[j]) - 1), 1, MaxLen)]
  BY <1>3, <1>4, <1>9 DEF LoadedLines, Starts
<1>11. ASSUME NEW j \in 1 .. n
       PROVE  Slice(SubSeq(f, start[j], Eol(f, start[j]) - 1), 1, MaxLen) = ls[j]
  <2>1. PICK q \in Nat, l \in Nat : q = b[j] /\ l = Len(ls[j])
    BY <1>2, <1>6, <1>7 DEF LaidOut
  <2>2. q + l <= Len(f) /\ \A i \in 1 .. l : f[q + i] = ls[j][i]
    BY <1>2, <1>6, <2>1 DEF LaidOut
  <2>3. start[j] = q + 1 /\ Eol(f, start[j]) - 1 = q + l
    BY <1>8, <2>1
  <2>4. PICK s : s = SubSeq(f, q + 1, q + l)
    OBVIOUS
  <2>5. q + l <= Len(f)
    BY <2>2
  <2>6. s \in Seq(FileChars) /\ Len(s) = l /\ \A i \in 1 .. l : s[i] = f[q + i]
    BY <1>1, <2>4, <2>5, Substring
  <2>7. Len(s) = l
    BY <2>6
  <2>8. \A i \in 1 .. l : s[i] = ls[j][i]
    BY <2>2, <2>6
  <2>9. s = ls[j]
    <3>1. ls[j] \in Seq(FileChars)
      BY <1>7, SeqMonotonic DEF FileChars
    <3> QED
      BY <2>1, <2>6, <2>7, <2>8, <3>1, SeqEqual
  <2>10. Slice(s, 1, MaxLen) = SubSeq(s, 1, Len(s))
    <3>1. Slice(s, 1, MaxLen) = SubSeq(s, 1, IF MaxLen <= Len(s) THEN MaxLen ELSE Len(s))
      BY <1>5, <2>6, SliceType
    <3>2. (IF MaxLen <= Len(s) THEN MaxLen ELSE Len(s)) = Len(s)
      BY <1>5, <1>7, <2>1, <2>7
    <3> QED
      BY <3>1, <3>2
  <2>11. SubSeq(s, 1, Len(s)) = s
    BY <2>6, SubSeqFull
  <2> QED
    BY <2>3, <2>4, <2>9, <2>10, <2>11
<1>12. m \in T /\ (\A y \in T : m >= y) /\ m \in 0 .. MaxLines
  <2>1. T \in SUBSET (0 .. MaxLines) /\ T # {}
    BY <1>5, <1>9
  <2> QED
    BY <1>5, <1>9, <2>1, MaxOfNat
<1>13. m <= n
  <2>1. SUFFICES ASSUME m > n PROVE FALSE
    BY <1>12
  <2>2. m \in n + 1 .. MaxLines /\ m # 0 /\ start[m] <= Len(f)
    BY <1>9, <1>12, <2>1
  <2>3. start[m] \in Nat
    BY <1>1, <1>5, <1>6, <2>2, StartType
  <2> QED
    BY <1>1, <1>8, <2>2, <2>3
<1>14. \A j \in 1 .. n - 1 : j \in T
  <2>1. SUFFICES ASSUME NEW j \in 1 .. n - 1 PROVE j \in T
    OBVIOUS
  <2>2. j \in 1 .. n /\ j \in 1 .. MaxLines /\ b[j] \in Nat /\ Len(ls[j]) \in Nat
    <3>1. j \in 1 .. n /\ j \in 1 .. MaxLines
      BY <1>5, <1>6
    <3> QED
      BY <1>2, <1>6, <1>7, <3>1 DEF LaidOut
  <2>3. b[j] + Len(ls[j]) + 2 <= Len(f)
    BY <1>2, <1>6 DEF LaidOut
  <2>4. start[j] <= Len(f)
    BY <1>1, <1>8, <2>2, <2>3
  <2> QED
    BY <1>9, <2>2, <2>4
<1>15. /\ n \in T <=> Len(ls[n]) # 0
       /\ n \in 1 .. n
  <2>1. n \in 1 .. n /\ n \in 1 .. MaxLines
    BY <1>5, <1>6
  <2>2. b[n] \in Nat /\ b[n] + Len(ls[n]) = Len(f) /\ start[n] = b[n] + 1 /\ Len(ls[n]) \in Nat
    BY <1>2, <1>6, <1>7, <1>8, <2>1 DEF LaidOut
  <2>3. start[n] <= Len(f) <=> Len(ls[n]) # 0
    BY <2>2
  <2> QED
    BY <1>6, <1>9, <2>1, <2>3
<1>16. Last(ls) = <<>> <=> Len(ls[n]) = 0
  <2>1. ls[n] \in Seq(Chars)
    BY <1>7, <1>15
  <2> QED
    BY <1>6, <2>1 DEF Last
<1>17. CASE Len(ls[n]) # 0
  <2>1. m = n
    BY <1>12, <1>13, <1>15, <1>17
  <2>2. LoadedLines(f) = [j \in 1 .. n |-> ls[j]]
    BY <1>10, <1>11, <2>1
  <2> QED
    BY <1>6, <1>16, <1>17, <2>2
<1>18. CASE Len(ls[n]) = 0
  <2>1. PICK k \in Nat : n = k + 1 /\ k = n - 1
    BY <1>6
  <2>2. m = k
    <3>1. m # n /\ m <= k
      BY <1>12, <1>13, <1>15, <1>18, <2>1
    <3>2. m >= k
      <4>1. k \in T
        <5>1. CASE k = 0
          BY <1>9, <5>1
        <5>2. CASE k # 0
          BY <1>14, <2>1, <5>2
        <5> QED
          BY <5>1, <5>2
      <4> QED
        BY <1>12, <4>1
    <3> QED
      BY <1>12, <2>1, <3>1, <3>2
  <2>3. LoadedLines(f) = [j \in 1 .. k |-> ls[j]]
    <3>1. \A j \in 1 .. k : j \in 1 .. n
      BY <2>1
    <3> QED
      BY <1>10, <1>11, <2>2, <3>1
  <2>4. Front(ls) = [j \in 1 .. k |-> ls[j]]
    BY <1>6, <2>1 DEF Front
  <2> QED
    BY <1>16, <1>18, <2>3, <2>4
<1> QED
  BY <1>17, <1>18

(* No line break of a saved text is farther than a line is long.           *)
LEMMA BreakIsNear ==
  ASSUME NEW ls, IsText(ls), Len(ls) # 0, NEW f, f = SavedFile(ls), NEW p \in 1 .. Len(f)
  PROVE  Eol(f, p) \in Nat /\ Eol(f, p) - p \in 0 .. MaxLen
<1>1. f \in Seq(FileChars) /\ Len(f) \in Nat /\ p \in Nat \ {0} /\ p <= Len(f)
  BY SavedIsLaidOut
<1>2. PICK b : LaidOut(ls, f, b)
  BY SavedIsLaidOut
<1>3. MaxLines \in Nat /\ MaxLen \in Nat
  BY SizesAre
<1>4. PICK start : Starts(f, start, MaxLines)
  BY <1>3, StartsExist
<1>5. PICK n \in Nat : n = Len(ls) /\ n # 0
  BY DEF IsText
<1>6. \A j \in 1 .. n : Len(ls[j]) \in 0 .. MaxLen /\ b[j] \in Nat
  <2>1. SUFFICES ASSUME NEW j \in 1 .. n PROVE Len(ls[j]) \in 0 .. MaxLen /\ b[j] \in Nat
    OBVIOUS
  <2>2. j \in DOMAIN ls /\ ls \in Seq(Seq(Chars))
    BY <1>5 DEF IsText
  <2>3. ls[j] \in Seq(Chars) /\ Len(ls[j]) <= MaxLen
    BY <2>2 DEF IsText
  <2>4. Len(ls[j]) \in 0 .. MaxLen
    BY <1>3, <2>3
  <2> QED
    BY <1>2, <1>5, <2>4 DEF LaidOut
<1>7. \A j \in 1 .. n : Eol(f, b[j] + 1) = b[j] + Len(ls[j]) + 1
  <2>1. StartsAt(ls, f, b, start)
    BY <1>1, <1>2, <1>4, <1>5, StartsAre
  <2> QED
    BY <1>5, <2>1 DEF StartsAt
<1>8. PICK T, j : T = {k \in 1 .. n : b[k] < p} /\ j = Max(T)
  OBVIOUS
<1>9. j \in T /\ \A k \in T : j >= k
  <2>1. b[1] = 0 /\ 1 \in 1 .. n
    BY <1>2, <1>5 DEF LaidOut
  <2>2. T \in SUBSET (0 .. n) /\ 1 \in T
    BY <1>1, <1>8, <2>1
  <2> QED
    BY <1>5, <1>8, <2>2, MaxOfNat
<1>10. PICK q \in Nat, l \in 0 .. MaxLen : q = b[j] /\ l = Len(ls[j]) /\ q < p /\ j \in 1 .. n
  BY <1>6, <1>8, <1>9
<1>11. q + l <= Len(f) /\ (j = n => q + l = Len(f)) /\ Eol(f, q + 1) = q + l + 1 /\ l \in Nat
  BY <1>2, <1>3, <1>5, <1>7, <1>10 DEF LaidOut
<1>12. /\ \A i \in q + 1 .. q + l : f[i] \notin {LF, CR}
       /\ q + l + 1 = Len(f) + 1 \/ f[q + l + 1] \in {LF, CR}
  <2>1. PICK x \in Nat \ {0}, e \in Nat : x = q + 1 /\ e = q + l + 1 /\ e = Eol(f, x) /\ e - 1 = q + l
    BY <1>11
  <2>2. /\ \A i \in x .. e - 1 : f[i] \notin {LF, CR}
        /\ e \in x .. Len(f) \/ e = Len(f) + 1
        /\ e <= Len(f) => f[e] \in {LF, CR}
    BY <1>1, <2>1, EolIs
  <2> QED
    BY <1>1, <2>1, <2>2
<1>13. CASE p <= q + l + 1
  <2>1. PICK e \in Nat : e = q + l + 1 /\ e \in p .. Len(f) + 1 /\ e - p \in 0 .. MaxLen
    <3>1. q + l + 1 \in Nat /\ q + l + 1 <= Len(f) + 1
      BY <1>1, <1>11
    <3>2. q + 1 <= p /\ p \in Nat /\ l <= MaxLen
      BY <1>1, <1>3, <1>10
    <3>3. \A x, y, z, w \in Nat : x + 1 <= z /\ z <= x + y + 1 /\ y <= w => x + y + 1 - z \in 0 .. w
      OBVIOUS
    <3>4. q + l + 1 - p \in 0 .. MaxLen
      BY <1>3, <1>11, <1>13, <3>2, <3>3
    <3> QED
      BY <1>1, <1>13, <3>1, <3>4
  <2>2. \A i \in p .. e - 1 : f[i] \notin {LF, CR}
    <3>1. q + 1 <= p /\ p \in Nat /\ e - 1 = q + l
      <4>1. q + 1 <= p /\ p \in Nat
        BY <1>1, <1>10
      <4>2. e - 1 = q + l
        BY <1>11, <2>1
      <4> QED
        BY <4>1, <4>2
    <3>2. \A i \in p .. q + l : i \in q + 1 .. q + l
      BY <1>11, <3>1
    <3> QED
      BY <1>12, <3>1, <3>2
  <2>3. e = Len(f) + 1 \/ f[e] \in {LF, CR}
    BY <1>12, <2>1
  <2>4. Eol(f, p) = e
    BY <1>1, <2>1, <2>2, <2>3, EolAt
  <2> QED
    BY <2>1, <2>4
<1>14. CASE ~(p <= q + l + 1)
  <2>1. j # n
    BY <1>1, <1>11, <1>14
  <2>2. j \in 1 .. n - 1 /\ j + 1 \in 1 .. n
    BY <1>5, <1>10, <2>1
  <2>3. b[j + 1] = q + l + 2 /\ f[q + l + 2] = LF
    BY <1>2, <1>5, <1>10, <2>2 DEF LaidOut
  <2>4. ~(b[j + 1] < p)
    BY <1>8, <1>9, <1>10, <2>2
  <2>5. p = q + l + 2
    BY <1>1, <1>11, <1>14, <2>3, <2>4
  <2>6. p \in p .. Len(f) + 1 /\ (\A i \in p .. p - 1 : f[i] \notin {LF, CR}) /\ f[p] \in {LF, CR}
    BY <1>1, <2>3, <2>5
  <2>7. Eol(f, p) = p
    BY <1>1, <2>6, EolAt
  <2> QED
    BY <1>1, <1>3, <2>7
<1> QED
  BY <1>13, <1>14

LEMMA SavedIsSafe ==
  ASSUME NEW ls, IsText(ls), Len(ls) # 0, NEW f, f = SavedFile(ls)
  PROVE  ~Overruns(f)
<1>1. f \in Seq(FileChars) /\ UptoNul(f) = f /\ DOMAIN f = 1 .. Len(f)
  <2>1. f \in Seq(FileChars)
    BY SavedIsLaidOut
  <2> QED
    BY <2>1, NoNul
<1>2. ASSUME NEW p \in 1 .. Len(f) PROVE ~(LineLen(Eol(f, p) - p) < 0)
  <2>1. PICK d : d = Eol(f, p) - p
    OBVIOUS
  <2>2. d \in 0 .. MaxLen
    BY <2>1, BreakIsNear
  <2>3. MaxLen \in Nat /\ ShortMax \in Nat /\ MaxLen <= ShortMax
    BY WindowAssumption
  <2>4. LineLen(d) = d /\ d >= 0
    BY <2>2, <2>3 DEF LineLen
  <2>5. ~(LineLen(d) < 0)
    BY <2>2, <2>3, <2>4
  <2> QED
    BY <2>1, <2>5
<1> QED
  BY <1>1, <1>2 DEF Overruns

(* A text that is saved, and not refused for its size, is loaded as it     *)
(* was, an empty last line excepted, and never ends the program (do_save,  *)
(* do_load).                                                               *)
THEOREM SaveLosesNothing == Spec => []SaveIsLoaded
<1>1. ASSUME EditInv PROVE SaveIsLoaded
  <2>1. PICK ls, f : ls = te.lines /\ f = SavedFile(ls)
    OBVIOUS
  <2>2. IsText(ls) /\ Len(ls) \in Nat
    <3>1. IsText(te.lines)
      BY <1>1 DEF EditInv, Right, EditOK
    <3> QED
      BY <2>1, <3>1 DEF IsText
  <2>3. SUFFICES ASSUME Len(f) \in 1 .. FileLimit
                 PROVE  /\ ~Overruns(f)
                        /\ LoadedLines(f) = IF Last(ls) = <<>> THEN Front(ls) ELSE ls
    BY <2>1 DEF SaveIsLoaded
  <2>4. Len(ls) # 0
    <3>1. SUFFICES ASSUME Len(ls) = 0 PROVE FALSE
      OBVIOUS
    <3>2. f = <<>>
      <4>1. ls = <<>>
        BY <2>2, <3>1 DEF IsText
      <4> QED
        BY <2>1, <4>1 DEF SavedFile, WithBreaks, FlattenSeq
    <3>3. Len(f) = 0
      BY <3>2
    <3> QED
      BY <2>3, <3>3
  <2> QED
    BY <2>1, <2>2, <2>4, Reloaded, SavedIsSafe
<1>2. EditInv => SaveIsLoaded
  BY <1>1
<1> QED
  BY <1>2, EditInvariant, PTL

(***************************************************************************)
(* The user edits one text                                                 *)
(*                                                                         *)
(* The text around a line.                                                 *)
(***************************************************************************)
TextChars == Chars \cup {LF}
Break     == <<LF>>

(* The provers take \o apart; as Cat it is algebra to them.                *)
Texts     == Seq(TextChars)
Cat(a, b) == a \o b

(* What the text holds before and behind line r + 1 of ls.                 *)
Lead(ls, r)  == IF r = 0 THEN <<>> ELSE Cat(Flat(SubSeq(ls, 1, r)), Break)
Trail(ls, r) ==
  IF r = Len(ls) - 1 THEN <<>> ELSE Cat(Break, Flat(SubSeq(ls, r + 2, Len(ls))))

LEMMA BreakType == Break \in Seq(TextChars) /\ Len(Break) = 1 /\ Break[1] = LF
<1>1. LF \in TextChars
  BY DEF TextChars
<1> QED
  BY <1>1 DEF Break

LEMMA WiderSeq ==
  ASSUME NEW S, NEW T, S \subseteq T, NEW s \in Seq(S)
  PROVE  s \in Seq(T)
OBVIOUS

LEMMA LinesAre ==
  ASSUME NEW ls, IsText(ls), NEW j \in 1 .. Len(ls)
  PROVE  ls[j] \in Seq(Chars) /\ ls[j] \in Seq(TextChars) /\ Len(ls[j]) \in 0 .. MaxLen
<1>1. ls \in Seq(Seq(Chars)) /\ j \in DOMAIN ls
  BY DEF IsText
<1>2. ls[j] \in Seq(Chars)
  BY <1>1
<1>3. Len(ls[j]) \in 0 .. MaxLen
  BY <1>1, <1>2, SizesAre DEF IsText
<1>4. Chars \subseteq TextChars
  BY DEF TextChars
<1> QED
  BY <1>2, <1>3, <1>4, WiderSeq

(* The pieces that Flat joins.                                             *)
Pieces(ls, p) ==
  /\ p \in Seq(Seq(TextChars)) /\ Len(p) = Len(ls) /\ Flat(ls) = FlattenSeq(p)
  /\ \A j \in 1 .. Len(ls) : p[j] = IF j < Len(ls) THEN ls[j] \o Break ELSE ls[j]

LEMMA PiecesExist ==
  ASSUME NEW ls, IsText(ls)
  PROVE  \E p : Pieces(ls, p)
<1>1. ls \in Seq(Seq(Chars)) /\ DOMAIN ls = 1 .. Len(ls) /\ Len(ls) \in Nat
  BY DEF IsText
<1> DEFINE p == [j \in DOMAIN ls |-> IF j < Len(ls) THEN ls[j] \o Break ELSE ls[j]]
<1>2. Flat(ls) = FlattenSeq(p)
  BY DEF Flat, WithBreaks, Break
<1>3. \A j \in 1 .. Len(ls) : p[j] = IF j < Len(ls) THEN ls[j] \o Break ELSE ls[j]
  BY <1>1
<1>4. DOMAIN p = 1 .. Len(ls)
  BY <1>1
<1>5. ASSUME NEW j \in 1 .. Len(ls) PROVE p[j] \in Seq(TextChars)
  <2>1. PICK l \in Seq(TextChars) : l = ls[j]
    BY LinesAre
  <2>2. l \o Break \in Seq(TextChars)
    BY BreakType, ConcatProperties
  <2> QED
    BY <1>3, <2>1, <2>2
<1>6. p = [j \in 1 .. Len(ls) |-> p[j]]
  BY <1>1
<1> HIDE DEF p
<1>7. p \in [1 .. Len(ls) -> Seq(TextChars)]
  BY <1>5, <1>6
<1>8. p \in Seq(Seq(TextChars)) /\ Len(p) = Len(ls)
  BY <1>1, <1>7
<1> QED
  BY <1>2, <1>3, <1>8 DEF Pieces

LEMMA FlatType ==
  ASSUME NEW ls, IsText(ls)
  PROVE  Flat(ls) \in Seq(TextChars) /\ Len(Flat(ls)) \in Nat
<1>1. PICK p : Pieces(ls, p)
  BY PiecesExist
<1>2. Flat(ls) \in Seq(TextChars)
  BY <1>1, FlattenType DEF Pieces
<1> QED
  BY <1>2

LEMMA FlatEmpty == Flat(<<>>) = <<>>
<1>1. [j \in DOMAIN <<>> |-> IF j < Len(<<>>) THEN <<>>[j] \o <<LF>> ELSE <<>>[j]] = <<>>
  OBVIOUS
<1>2. Flat(<<>>) = FlattenSeq(<<>>)
  BY <1>1 DEF Flat, WithBreaks
<1>3. FlattenSeq(<<>>) = <<>>
  BY Zenon DEF FlattenSeq
<1> QED
  BY <1>2, <1>3

(* Lines i to j.                                                           *)
Span(ls, i, j, m) ==
  /\ IsText(m) /\ Len(m) = j - i + 1
  /\ \A q \in 1 .. j - i + 1 : m[q] = ls[i + q - 1]

LEMMA SpanIsText ==
  ASSUME NEW ls, IsText(ls), NEW i \in 1 .. Len(ls), NEW j \in i .. Len(ls)
  PROVE  Span(ls, i, j, SubSeq(ls, i, j))
<1>1. ls \in Seq(Seq(Chars)) /\ Len(ls) \in Nat /\ DOMAIN ls = 1 .. Len(ls) /\ Len(ls) <= MaxLines
  BY DEF IsText
<1>2. PICK l : l = SubSeq(ls, i, j)
  OBVIOUS
<1>3. PICK n \in Nat : n = j - i + 1 /\ n <= Len(ls)
  BY <1>1
<1>4. /\ l \in Seq(Seq(Chars)) /\ Len(l) = n
      /\ \A q \in 1 .. n : l[q] = ls[i + q - 1]
  <2>1. i \in Int /\ j \in Int /\ i <= j
    BY <1>1
  <2>2. \A q \in i .. j : ls[q] \in Seq(Chars)
    BY <1>1
  <2>3. /\ SubSeq(ls, i, j) \in Seq(Seq(Chars))
        /\ Len(SubSeq(ls, i, j)) = IF i <= j THEN j - i + 1 ELSE 0
        /\ \A q \in 1 .. j - i + 1 : SubSeq(ls, i, j)[q] = ls[i + q - 1]
    BY <2>1, <2>2, SubSeqProperties
  <2>4. l \in Seq(Seq(Chars))
    BY <1>2, <2>3
  <2>5. Len(l) = n
    BY <1>2, <1>3, <2>1, <2>3
  <2>6. \A q \in 1 .. n : l[q] = ls[i + q - 1]
    BY <1>2, <1>3, <2>3
  <2> QED
    BY <2>4, <2>5, <2>6
<1>5. \A q \in 1 .. n : Len(l[q]) <= MaxLen
  <2>1. \A q \in 1 .. n : i + q - 1 \in DOMAIN ls
    BY <1>1, <1>3
  <2> QED
    BY <1>4, <2>1 DEF IsText
<1>6. IsText(l)
  <2>1. Len(l) <= MaxLines
    <3>1. Len(ls) \in Nat /\ MaxLines \in Nat /\ Len(l) = n
      BY <1>1, <1>4, SizesAre
    <3> QED
      BY <1>1, <1>3, <3>1
  <2>2. DOMAIN l = 1 .. n
    <3>1. DOMAIN l = 1 .. Len(l)
      BY <1>4
    <3> QED
      BY <1>4, <3>1
  <2> QED
    BY <1>4, <1>5, <2>1, <2>2 DEF IsText
<1> QED
  BY <1>2, <1>3, <1>4, <1>6 DEF Span

LEMMA FlatOne ==
  ASSUME NEW ls, IsText(ls), NEW i \in 1 .. Len(ls)
  PROVE  Flat(SubSeq(ls, i, i)) = ls[i]
<1>1. PICK m : m = SubSeq(ls, i, i) /\ IsText(m) /\ Len(m) = 1 /\ m[1] = ls[i]
  <2>1. Len(ls) \in Nat /\ i \in i .. Len(ls) /\ i - i + 1 = 1 /\ i + 1 - 1 = i
    BY TextIsShort
  <2>2. PICK m : m = SubSeq(ls, i, i)
    OBVIOUS
  <2>3. Span(ls, i, i, m)
    BY <2>1, <2>2, SpanIsText
  <2>4. IsText(m) /\ Len(m) = 1 /\ \A q \in 1 .. 1 : m[q] = ls[i + q - 1]
    BY <2>1, <2>3 DEF Span
  <2>5. m[1] = ls[i]
    BY <2>1, <2>4
  <2> QED
    BY <2>2, <2>4, <2>5
<1>2. PICK p : Pieces(m, p)
  BY <1>1, PiecesExist
<1>3. PICK f : JoinsUp(p, f) /\ FlattenSeq(p) = f[1]
  <2>1. Len(p) = 1 /\ Len(p) \in Nat /\ Len(p) # 0
    BY <1>1, <1>2 DEF Pieces
  <2>2. PICK f : JoinsUp(p, f) /\ FlattenSeq(p) = f[Len(p)]
    BY <2>1, FlattenIsLast
  <2> QED
    BY <2>1, <2>2
<1>4. p[1] = m[1]
  BY <1>1, <1>2 DEF Pieces
<1> QED
  BY <1>1, <1>2, <1>3, <1>4 DEF JoinsUp, Pieces

LEMMA BreakBehind ==
  ASSUME NEW x \in Seq(TextChars), NEW y \in Seq(TextChars)
  PROVE  (x \o y) \o Break = x \o (y \o Break)
BY BreakType, ConcatAssociative

(* One line more.                                                          *)
LEMMA FlatLonger ==
  ASSUME NEW a, NEW b, IsText(a), IsText(b), NEW n \in Nat \ {0}, Len(a) = n, Len(b) = n + 1,
         \A q \in 1 .. n : b[q] = a[q]
  PROVE  Flat(b) = (Flat(a) \o Break) \o b[n + 1]
<1>1. PICK p : Pieces(a, p)
  BY PiecesExist
<1>2. PICK s : Pieces(b, s)
  BY PiecesExist
<1>3. Len(p) = n /\ Len(s) = n + 1 /\ p \in Seq(Seq(TextChars)) /\ s \in Seq(Seq(TextChars))
  BY <1>1, <1>2 DEF Pieces
<1>4. PICK f : JoinsUp(p, f) /\ Flat(a) = f[n]
  <2>1. Len(p) \in Nat /\ Len(p) # 0
    BY <1>3
  <2> QED
    BY <1>1, <1>3, <2>1, FlattenIsLast DEF Pieces
<1>5. PICK g : JoinsUp(s, g) /\ Flat(b) = g[n + 1]
  <2>1. Len(s) \in Nat /\ Len(s) # 0
    BY <1>3
  <2> QED
    BY <1>2, <1>3, <2>1, FlattenIsLast DEF Pieces
<1>6. /\ \A q \in 1 .. n : p[q] = IF q < n THEN a[q] \o Break ELSE a[q]
      /\ \A q \in 1 .. n + 1 : s[q] = IF q < n + 1 THEN b[q] \o Break ELSE b[q]
  BY <1>1, <1>2 DEF Pieces
<1>7. /\ \A q \in 1 .. n : q < n => s[q] = p[q]
      /\ s[n] = p[n] \o Break /\ s[n + 1] = b[n + 1]
  <2>1. ASSUME NEW q \in 1 .. n PROVE s[q] = a[q] \o Break
    <3>1. q \in 1 .. n + 1 /\ q < n + 1 /\ b[q] = a[q]
      OBVIOUS
    <3> QED
      BY <1>6, <3>1
  <2>2. n \in 1 .. n /\ ~(n < n) /\ n + 1 \in 1 .. n + 1 /\ ~(n + 1 < n + 1)
    OBVIOUS
  <2> QED
    BY <1>6, <2>1, <2>2
<1> DEFINE Good == {k \in Nat : k # 0 /\ k < n => g[k] = f[k]}
<1>8. \A k \in Nat : k \in Good
  <2>1. 0 \in Good
    OBVIOUS
  <2>2. ASSUME NEW k \in Nat, k \in Good PROVE k + 1 \in Good
    <3>1. SUFFICES ASSUME k + 1 < n PROVE g[k + 1] = f[k + 1]
      OBVIOUS
    <3>2. s[k + 1] = p[k + 1]
      BY <1>7, <3>1
    <3>3. CASE k = 0
      BY <1>4, <1>5, <3>2, <3>3 DEF JoinsUp
    <3>4. CASE k # 0
      <4>1. g[k] = f[k]
        BY <2>2, <3>1, <3>4
      <4>2. k < Len(p) /\ k < Len(s)
        BY <1>3, <3>1
      <4>3. f[k + 1] = f[k] \o p[k + 1] /\ g[k + 1] = g[k] \o s[k + 1]
        BY <1>4, <1>5, <3>4, <4>2 DEF JoinsUp
      <4> QED
        BY <3>2, <4>1, <4>3
    <3> QED
      BY <3>3, <3>4
  <2> HIDE DEF Good
  <2> QED
    BY <2>1, <2>2, Induction
<1>9. g[n] = f[n] \o Break
  <2>1. CASE n = 1
    BY <1>4, <1>5, <1>7, <2>1 DEF JoinsUp
  <2>2. CASE n # 1
    <3>1. PICK k \in Nat : n = k + 1 /\ k # 0 /\ k < n /\ k \in 1 .. n
      BY <2>2
    <3>2. g[k] = f[k]
      BY <1>8, <3>1
    <3>3. k < Len(p) /\ k < Len(s)
      BY <1>3, <3>1
    <3>4. f[n] = f[k] \o p[n] /\ g[n] = g[k] \o s[n]
      BY <1>4, <1>5, <3>1, <3>3 DEF JoinsUp
    <3>5. f[k] \in Seq(TextChars) /\ p[n] \in Seq(TextChars)
      BY <1>3, <1>4, <3>1, JoinedType
    <3>6. (f[k] \o p[n]) \o Break = f[k] \o (p[n] \o Break)
      <4>1. PICK x \in Seq(TextChars), y \in Seq(TextChars) : x = f[k] /\ y = p[n]
        BY <3>5
      <4>2. (x \o y) \o Break = x \o (y \o Break)
        BY BreakBehind
      <4> QED
        BY <4>1, <4>2
    <3> QED
      BY <1>7, <3>2, <3>4, <3>6
  <2> QED
    BY <2>1, <2>2
<1>10. g[n + 1] = g[n] \o s[n + 1]
  <2>1. n \in Nat /\ n # 0 /\ n < Len(s)
    BY <1>3
  <2> QED
    BY <1>5, <2>1 DEF JoinsUp
<1> QED
  BY <1>4, <1>5, <1>7, <1>9, <1>10

LEMMA FlatNext ==
  ASSUME NEW ls, IsText(ls), NEW i \in 1 .. Len(ls), NEW j \in i .. Len(ls), j < Len(ls)
  PROVE  Flat(SubSeq(ls, i, j + 1)) = Cat(Cat(Flat(SubSeq(ls, i, j)), Break), ls[j + 1])
<1>1. Len(ls) \in Nat /\ j + 1 \in i .. Len(ls) /\ i \in Nat /\ j \in Nat
  BY TextIsShort
<1>2. PICK a, b : a = SubSeq(ls, i, j) /\ b = SubSeq(ls, i, j + 1)
  OBVIOUS
<1>3. Span(ls, i, j, a) /\ Span(ls, i, j + 1, b)
  BY <1>1, <1>2, SpanIsText
<1>4. PICK n \in Nat \ {0} : n = j - i + 1 /\ n + 1 = (j + 1) - i + 1 /\ i + (n + 1) - 1 = j + 1
  BY <1>1
<1>5. IsText(a) /\ IsText(b) /\ Len(a) = n /\ Len(b) = n + 1
  BY <1>3, <1>4 DEF Span
<1>6. \A q \in 1 .. n : b[q] = a[q]
  <2>1. \A q \in 1 .. n : q \in 1 .. n + 1
    OBVIOUS
  <2> QED
    BY <1>3, <1>4, <2>1 DEF Span
<1>7. b[n + 1] = ls[j + 1]
  <2>1. n + 1 \in 1 .. n + 1
    OBVIOUS
  <2> QED
    BY <1>3, <1>4, <2>1 DEF Span
<1>8. Flat(b) = (Flat(a) \o Break) \o b[n + 1]
  BY <1>5, <1>6, FlatLonger
<1>9. Flat(b) = Cat(Cat(Flat(a), Break), b[n + 1])
  BY <1>8 DEF Cat
<1> QED
  BY <1>2, <1>7, <1>9

LEMMA CatLaws ==
  ASSUME NEW a \in Texts, NEW b \in Texts
  PROVE  /\ Cat(a, b) \in Texts /\ Cat(a, <<>>) = a /\ Cat(<<>>, a) = a /\ <<>> \in Texts
         /\ \A c \in Texts : Cat(Cat(a, b), c) = Cat(a, Cat(b, c))
<1>1. a \in Seq(TextChars) /\ b \in Seq(TextChars)
  BY DEF Texts
<1>2. a \o b \in Seq(TextChars) /\ a \o <<>> = a /\ <<>> \o a = a /\ <<>> \in Seq(TextChars)
  BY <1>1, ConcatProperties, ConcatEmptySeq
<1>3. ASSUME NEW c \in Texts PROVE (a \o b) \o c = a \o (b \o c)
  <2>1. c \in Seq(TextChars)
    BY DEF Texts
  <2> QED
    BY <1>1, <2>1, ConcatAssociative
<1> QED
  BY <1>2, <1>3 DEF Texts, Cat

LEMMA Regroup ==
  ASSUME NEW a \in Texts, NEW b \in Texts, NEW c \in Texts, NEW d \in Texts, NEW e \in Texts
  PROVE  Cat(Cat(Cat(a, Cat(b, c)), d), e) = Cat(a, Cat(b, Cat(Cat(c, d), e)))
<1>1. PICK x \in Texts, y \in Texts : x = Cat(b, c) /\ y = Cat(c, d)
  BY CatLaws
<1>2. PICK z \in Texts : z = Cat(b, y)
  BY CatLaws
<1>3. Cat(Cat(a, x), d) = Cat(a, Cat(x, d))
  BY CatLaws
<1>4. Cat(x, d) = z
  BY <1>1, <1>2, CatLaws
<1>5. Cat(Cat(a, z), e) = Cat(a, Cat(z, e))
  BY CatLaws
<1>6. Cat(z, e) = Cat(b, Cat(y, e))
  BY <1>2, CatLaws
<1> QED
  BY <1>1, <1>3, <1>4, <1>5, <1>6

LEMMA SpanFlat ==
  ASSUME NEW ls, IsText(ls), NEW i \in 1 .. Len(ls), NEW j \in i .. Len(ls)
  PROVE  Flat(SubSeq(ls, i, j)) \in Texts
<1>1. IsText(SubSeq(ls, i, j))
  BY SpanIsText DEF Span
<1> QED
  BY <1>1, FlatType DEF Texts

(* The text is what lies before a line, the line, and what lies behind it. *)
LEMMA FlatAround ==
  ASSUME NEW ls, IsText(ls), NEW r \in Nat, r < Len(ls)
  PROVE  /\ Lead(ls, r) \in Texts /\ Trail(ls, r) \in Texts /\ ls[r + 1] \in Texts
         /\ Flat(ls) = Cat(Lead(ls, r), Cat(ls[r + 1], Trail(ls, r)))
<1>1. PICK n \in Nat : n = Len(ls) /\ r + 1 \in 1 .. n /\ r + 1 \in 1 .. Len(ls)
  BY TextIsShort
<1>2. PICK x \in Texts, k \in Texts : x = ls[r + 1] /\ k = Break
  BY <1>1, LinesAre, BreakType DEF Texts
<1>3. PICK l \in Texts : /\ l = Lead(ls, r)
                         /\ Flat(SubSeq(ls, 1, r + 1)) = Cat(l, x)
  <2>1. CASE r = 0
    <3>1. Lead(ls, r) = <<>> /\ <<>> \in Texts
      BY <1>2, <2>1, CatLaws DEF Lead
    <3>2. Flat(SubSeq(ls, 1, r + 1)) = x
      BY <1>1, <1>2, <2>1, FlatOne
    <3>3. Cat(<<>>, x) = x
      BY CatLaws
    <3> QED
      BY <3>1, <3>2, <3>3
  <2>2. CASE r # 0
    <3>1. 1 \in 1 .. Len(ls) /\ r \in 1 .. Len(ls)
      BY <1>1, <2>2
    <3>2. Flat(SubSeq(ls, 1, r)) \in Texts
      BY <3>1, SpanFlat
    <3>3. Lead(ls, r) = Cat(Flat(SubSeq(ls, 1, r)), k)
      BY <1>2, <2>2 DEF Lead
    <3>4. Lead(ls, r) \in Texts
      BY <3>2, <3>3, CatLaws
    <3>5. Flat(SubSeq(ls, 1, r + 1)) = Cat(Cat(Flat(SubSeq(ls, 1, r)), Break), ls[r + 1])
      BY <3>1, FlatNext
    <3> QED
      BY <1>2, <3>3, <3>4, <3>5
  <2> QED
    BY <2>1, <2>2
<1> DEFINE Behind0(m) == IF m = 0 THEN <<>> ELSE Cat(k, Flat(SubSeq(ls, r + 2, r + 1 + m)))
           Good == {m \in Nat : r + 1 + m <= n =>
                      /\ Behind0(m) \in Texts
                      /\ Flat(SubSeq(ls, 1, r + 1 + m)) = Cat(l, Cat(x, Behind0(m)))}
<1>4. 0 \in Good
  <2>1. Behind0(0) = <<>> /\ <<>> \in Texts /\ Cat(x, <<>>) = x /\ r + 1 + 0 = r + 1
    BY CatLaws
  <2> HIDE DEF Behind0
  <2> QED
    BY <1>3, <2>1
<1>5. ASSUME NEW m \in Nat, m \in Good PROVE m + 1 \in Good
  <2>1. PICK q \in Nat : q = r + 1 + m /\ q + 1 = r + 1 + (m + 1)
    OBVIOUS
  <2>2. SUFFICES ASSUME q + 1 <= n
                 PROVE  /\ Behind0(m + 1) \in Texts
                        /\ Flat(SubSeq(ls, 1, q + 1)) = Cat(l, Cat(x, Behind0(m + 1)))
    BY <2>1
  <2>3. PICK c : c = Behind0(m)
    OBVIOUS
  <2>4. c \in Texts /\ Flat(SubSeq(ls, 1, q)) = Cat(l, Cat(x, c))
    <3> HIDE DEF Behind0
    <3> QED
      BY <1>1, <1>5, <2>1, <2>2, <2>3
  <2>5. 1 \in 1 .. Len(ls) /\ q \in 1 .. Len(ls) /\ q < Len(ls) /\ q + 1 \in 1 .. Len(ls)
    BY <1>1, <2>1, <2>2
  <2>6. PICK y \in Texts : y = ls[q + 1]
    BY <2>5, LinesAre DEF Texts
  <2>7. Flat(SubSeq(ls, 1, q + 1)) = Cat(Cat(Cat(l, Cat(x, c)), k), y)
    BY <1>2, <2>4, <2>5, <2>6, FlatNext
  <2>8. Flat(SubSeq(ls, 1, q + 1)) = Cat(l, Cat(x, Cat(Cat(c, k), y)))
    <3>1. Cat(Cat(Cat(l, Cat(x, c)), k), y) = Cat(l, Cat(x, Cat(Cat(c, k), y)))
      BY <2>4, Regroup
    <3> QED
      BY <2>7, <3>1
  <2>9. Behind0(m + 1) = Cat(Cat(c, k), y) /\ Behind0(m + 1) \in Texts
    <3>1. Behind0(m + 1) = Cat(k, Flat(SubSeq(ls, r + 2, q + 1)))
      BY <2>1
    <3>2. CASE m = 0
      <4>1. r + 2 = q + 1
        BY <2>1, <3>2
      <4>2. Flat(SubSeq(ls, q + 1, q + 1)) = y
        BY <2>5, <2>6, FlatOne
      <4>3. c = <<>>
        BY <2>3, <3>2
      <4>4. Cat(c, k) = k
        BY <4>3, CatLaws
      <4>5. Cat(k, y) \in Texts
        BY CatLaws
      <4> QED
        BY <3>1, <4>1, <4>2, <4>4, <4>5
    <3>3. CASE m # 0
      <4>1. r + 2 \in 1 .. Len(ls) /\ q \in r + 2 .. Len(ls)
        BY <1>1, <2>1, <2>5, <3>3
      <4>2. PICK z \in Texts : z = Flat(SubSeq(ls, r + 2, q))
        BY <4>1, SpanFlat
      <4>3. c = Cat(k, z)
        BY <2>1, <2>3, <3>3, <4>2
      <4>4. Flat(SubSeq(ls, r + 2, q + 1)) = Cat(Cat(z, k), y)
        BY <1>2, <2>5, <2>6, <4>1, <4>2, FlatNext
      <4>5. PICK w \in Texts : w = Cat(z, k)
        BY CatLaws
      <4>6. PICK v \in Texts : v = Cat(w, y)
        BY CatLaws
      <4>7. Cat(k, v) \in Texts
        BY CatLaws
      <4>8. Cat(k, v) = Cat(Cat(Cat(k, z), k), y)
        <5>1. Cat(k, Cat(w, y)) = Cat(Cat(k, w), y)
          BY CatLaws
        <5>2. Cat(k, w) = Cat(Cat(k, z), k)
          BY <4>5, CatLaws
        <5> QED
          BY <4>6, <5>1, <5>2
      <4> HIDE DEF Behind0
      <4> QED
        BY <3>1, <4>3, <4>4, <4>5, <4>6, <4>7, <4>8
    <3> QED
      BY <3>2, <3>3
  <2> HIDE DEF Behind0
  <2> QED
    BY <2>8, <2>9
<1> HIDE DEF Good
<1>6. \A m \in Nat : m \in Good
  BY <1>4, <1>5, Induction
<1>7. PICK m \in Nat : r + 1 + m = n
  <2>1. n - (r + 1) \in Nat /\ r + 1 + (n - (r + 1)) = n
    BY <1>1
  <2> QED
    BY <2>1
<1>8. Behind0(m) \in Texts /\ Flat(SubSeq(ls, 1, n)) = Cat(l, Cat(x, Behind0(m)))
  <2> HIDE DEF Behind0
  <2>1. m \in Good /\ r + 1 + m <= n
    BY <1>1, <1>6, <1>7
  <2> QED
    BY <1>7, <2>1 DEF Good
<1>9. Behind0(m) = Trail(ls, r)
  <2>1. r = Len(ls) - 1 <=> m = 0
    BY <1>1, <1>7
  <2>2. Behind0(m) = IF m = 0 THEN <<>> ELSE Cat(k, Flat(SubSeq(ls, r + 2, n)))
    BY <1>7
  <2> QED
    BY <1>1, <1>2, <2>1, <2>2 DEF Trail
<1>10. SubSeq(ls, 1, n) = ls
  <2>1. ls \in Seq(Seq(Chars))
    BY DEF IsText
  <2> QED
    BY <1>1, <2>1, SubSeqFull
<1> HIDE DEF Behind0
<1> QED
  BY <1>2, <1>3, <1>8, <1>9, <1>10

(* What lies before a line does not depend on it.                          *)
LEMMA LeadSame ==
  ASSUME NEW a, NEW b, IsText(a), IsText(b), NEW r \in Nat, r <= Len(a), r <= Len(b),
         \A q \in 1 .. r : a[q] = b[q]
  PROVE  Lead(a, r) = Lead(b, r)
<1>1. CASE r = 0
  BY <1>1 DEF Lead
<1>2. CASE r # 0
  <2>1. 1 \in 1 .. Len(a) /\ r \in 1 .. Len(a) /\ 1 \in 1 .. Len(b) /\ r \in 1 .. Len(b)
    <3>1. Len(a) \in Nat /\ Len(b) \in Nat
      BY TextIsShort
    <3> QED
      BY <1>2, <3>1
  <2>2. PICK c, d : c = SubSeq(a, 1, r) /\ d = SubSeq(b, 1, r)
    OBVIOUS
  <2>3. Span(a, 1, r, c) /\ Span(b, 1, r, d)
    BY <2>1, <2>2, SpanIsText
  <2>4. /\ c \in Seq(Seq(Chars)) /\ d \in Seq(Seq(Chars)) /\ Len(c) = r /\ Len(d) = r
        /\ \A q \in 1 .. r : c[q] = d[q]
    <3>1. r - 1 + 1 = r /\ \A q \in 1 .. r : 1 + q - 1 = q
      OBVIOUS
    <3> QED
      BY <2>3, <3>1 DEF Span, IsText
  <2>5. c = d
    BY <2>4, SeqEqual
  <2> QED
    BY <2>2, <2>5 DEF Lead
<1> QED
  BY <1>1, <1>2

(* Nor does what lies behind it, wherever the lines are: behind line r + 1 *)
(* of a there are the n lines that are behind line s + 1 of b.             *)
SameTail(a, r, b, s, n) ==
  /\ Len(a) = r + 1 + n /\ Len(b) = s + 1 + n
  /\ \A q \in 1 .. n : a[r + 1 + q] = b[s + 1 + q]

LEMMA TrailSame ==
  ASSUME NEW a, NEW b, IsText(a), IsText(b), NEW r \in Nat, NEW s \in Nat, NEW n \in Nat,
         SameTail(a, r, b, s, n)
  PROVE  Trail(a, r) = Trail(b, s)
<1> USE DEF SameTail
<1>1. CASE n = 0
  BY <1>1 DEF Trail
<1>2. CASE n # 0
  <2>1. PICK i \in Nat, j \in Nat : i = Len(a) /\ j = Len(b)
    OBVIOUS
  <2>2. /\ r + 2 \in 1 .. Len(a) /\ Len(a) \in r + 2 .. Len(a) /\ Len(a) - (r + 2) + 1 = n
        /\ s + 2 \in 1 .. Len(b) /\ Len(b) \in s + 2 .. Len(b) /\ Len(b) - (s + 2) + 1 = n
        /\ r # Len(a) - 1 /\ s # Len(b) - 1
    BY <1>2
  <2>3. PICK c, d : c = SubSeq(a, r + 2, Len(a)) /\ d = SubSeq(b, s + 2, Len(b))
    OBVIOUS
  <2>4. Span(a, r + 2, Len(a), c) /\ Span(b, s + 2, Len(b), d)
    BY <2>2, <2>3, SpanIsText
  <2>5. /\ c \in Seq(Seq(Chars)) /\ d \in Seq(Seq(Chars)) /\ Len(c) = n /\ Len(d) = n
        /\ \A q \in 1 .. n : c[q] = d[q]
    <3>1. \A q \in 1 .. n : (r + 2) + q - 1 = r + 1 + q /\ (s + 2) + q - 1 = s + 1 + q
      OBVIOUS
    <3> QED
      BY <2>2, <2>4, <3>1 DEF Span, IsText
  <2>6. c = d
    BY <2>5, SeqEqual
  <2> QED
    BY <2>2, <2>3, <2>6 DEF Trail
<1> QED
  BY <1>1, <1>2

(* c is a with b behind it.                                                *)
Glued(a, b, c) ==
  /\ c \in Texts /\ Len(c) = Len(a) + Len(b) /\ Len(a) \in Nat /\ Len(b) \in Nat
  /\ \A i \in 1 .. Len(a) : c[i] = a[i]
  /\ \A i \in 1 .. Len(b) : c[Len(a) + i] = b[i]

LEMMA CatIs ==
  ASSUME NEW a \in Texts, NEW b \in Texts
  PROVE  Glued(a, b, Cat(a, b))
<1>1. a \in Seq(TextChars) /\ b \in Seq(TextChars)
  BY DEF Texts
<1>2. Together(a, b, a \o b) /\ a \o b \in Seq(TextChars)
  BY <1>1, ConcatIs
<1>3. Len(a) \in Nat /\ Len(b) \in Nat
  BY <1>1
<1> QED
  BY <1>2, <1>3 DEF Cat, Texts, Together, Glued

LEMMA LenIsNat == ASSUME NEW a \in Texts PROVE Len(a) \in Nat
BY DEF Texts

LEMMA EqualTexts ==
  ASSUME NEW a \in Texts, NEW b \in Texts, NEW n \in Nat, Len(a) = n, Len(b) = n,
         \A i \in 1 .. n : a[i] = b[i]
  PROVE  a = b
BY SeqEqual DEF Texts

(* s is the n characters of a behind the first q.                          *)
Part(a, q, n, s) == s \in Texts /\ Len(s) = n /\ \A i \in 1 .. n : s[i] = a[q + i]

LEMMA PartIs ==
  ASSUME NEW a \in Texts, NEW q \in Nat, NEW n \in Nat, q + n <= Len(a)
  PROVE  Part(a, q, n, SubSeq(a, q + 1, q + n))
<1>1. a \in Seq(TextChars)
  BY DEF Texts
<1> QED
  BY <1>1, Substring DEF Texts, Part

LEMMA FrontIs ==
  ASSUME NEW a \in Texts, NEW n \in Nat, n <= Len(a)
  PROVE  Part(a, 0, n, SubSeq(a, 1, n))
<1>1. a \in Seq(TextChars)
  BY DEF Texts
<1>2. PICK s : s = SubSeq(a, 1, n)
  OBVIOUS
<1>3. \A i \in 1 .. n : a[i] \in TextChars
  BY <1>1
<1>4. /\ s \in Seq(TextChars) /\ Len(s) = (IF 1 <= n THEN n - 1 + 1 ELSE 0)
      /\ \A i \in 1 .. n - 1 + 1 : s[i] = a[1 + i - 1]
  <2>1. 1 \in Int /\ n \in Int
    OBVIOUS
  <2> QED
    BY <1>2, <1>3, <2>1, SubSeqProperties
<1>5. Len(s) = n /\ \A i \in 1 .. n : s[i] = a[0 + i]
  <2>1. \A i \in 1 .. n : i \in 1 .. n - 1 + 1 /\ 1 + i - 1 = 0 + i
    OBVIOUS
  <2> QED
    BY <1>4, <2>1
<1> QED
  BY <1>2, <1>4, <1>5 DEF Part, Texts

(* Behind u there is y in t, and w behind that.                            *)
Inside(u, y, w, t) ==
  /\ t \in Texts /\ Len(t) = Len(u) + Len(y) + Len(w)
  /\ \A i \in 1 .. Len(y) : t[Len(u) + i] = y[i]
  /\ \A n \in 0 .. Len(y) :
       SubSeq(t, Len(u) + 1, Len(u) + n) = SubSeq(y, 1, n) /\ SubSeq(y, 1, n) \in Texts

LEMMA MiddleOf ==
  ASSUME NEW u \in Texts, NEW y \in Texts, NEW w \in Texts, NEW t, t = Cat(u, Cat(y, w))
  PROVE  Inside(u, y, w, t)
<1>1. PICK k \in Nat, m \in Nat, p \in Nat : k = Len(u) /\ m = Len(y) /\ p = Len(w)
  BY LenIsNat
<1>2. PICK z \in Texts : z = Cat(y, w) /\ Glued(y, w, z)
  <2>1. Glued(y, w, Cat(y, w))
    BY CatIs
  <2>2. Cat(y, w) \in Texts
    BY <2>1 DEF Glued
  <2> QED
    BY <2>1, <2>2
<1>3. Glued(u, z, t)
  BY <1>2, CatIs
<1>4. Len(z) = m + p /\ \A i \in 1 .. m : z[i] = y[i]
  BY <1>1, <1>2 DEF Glued
<1>5. t \in Texts /\ Len(t) = k + (m + p) /\ \A i \in 1 .. m + p : t[k + i] = z[i]
  BY <1>1, <1>3, <1>4 DEF Glued
<1>6. \A i \in 1 .. m : t[k + i] = y[i]
  <2>1. \A i \in 1 .. m : i \in 1 .. m + p
    BY <1>1
  <2> QED
    BY <1>4, <1>5, <2>1
<1>7. ASSUME NEW n \in 0 .. m
      PROVE  SubSeq(t, k + 1, k + n) = SubSeq(y, 1, n) /\ SubSeq(y, 1, n) \in Texts
  <2>1. n \in Nat /\ k + n <= Len(t) /\ n <= Len(y)
    BY <1>1, <1>5
  <2>2. PICK a : a = SubSeq(t, k + 1, k + n) /\ Part(t, k, n, a)
    BY <1>1, <1>5, <2>1, PartIs
  <2>3. PICK b : b = SubSeq(y, 1, n) /\ Part(y, 0, n, b)
    BY <2>1, FrontIs
  <2>4. /\ a \in Texts /\ Len(a) = n /\ \A i \in 1 .. n : a[i] = t[k + i]
        /\ b \in Texts /\ Len(b) = n /\ \A i \in 1 .. n : b[i] = y[0 + i]
    BY <2>2, <2>3 DEF Part
  <2>5. \A i \in 1 .. n : a[i] = b[i]
    <3>1. \A i \in 1 .. n : i \in 1 .. m /\ 0 + i = i
      BY <1>1
    <3> QED
      BY <1>6, <2>4, <3>1
  <2>6. a = b
    BY <2>1, <2>4, <2>5, EqualTexts
  <2> QED
    BY <2>2, <2>3, <2>4, <2>6
<1>8. k + (m + p) = k + m + p
  BY <1>1
<1> QED
  BY <1>1, <1>5, <1>6, <1>7, <1>8 DEF Inside

(* A text ends where its parts end.                                        *)
Parts(u, v, t) == SubSeq(t, 1, Len(u)) = u /\ SubSeq(t, Len(u) + 1, Len(t)) = v

LEMMA PartsOf ==
  ASSUME NEW u \in Texts, NEW v \in Texts, NEW t, t = Cat(u, v)
  PROVE  Parts(u, v, t)
<1>1. PICK k \in Nat, m \in Nat : k = Len(u) /\ m = Len(v)
  BY LenIsNat
<1>2. /\ t \in Texts /\ Len(t) = k + m
      /\ \A i \in 1 .. k : t[i] = u[i]
      /\ \A i \in 1 .. m : t[k + i] = v[i]
  BY <1>1, CatIs DEF Glued
<1>3. SubSeq(t, 1, k) = u
  <2>1. k <= Len(t)
    BY <1>1, <1>2
  <2>2. PICK s : s = SubSeq(t, 1, k) /\ Part(t, 0, k, s)
    BY <1>2, <2>1, FrontIs
  <2>3. s \in Texts /\ Len(s) = k /\ \A i \in 1 .. k : s[i] = t[0 + i]
    BY <2>2 DEF Part
  <2>4. \A i \in 1 .. k : s[i] = u[i]
    <3>1. \A i \in 1 .. k : 0 + i = i
      OBVIOUS
    <3> QED
      BY <1>2, <2>3, <3>1
  <2>5. s = u
    BY <1>1, <2>3, <2>4, EqualTexts
  <2> QED
    BY <2>2, <2>5
<1>4. SubSeq(t, k + 1, k + m) = v
  <2>1. k + m <= Len(t)
    BY <1>1, <1>2
  <2>2. PICK s : s = SubSeq(t, k + 1, k + m) /\ Part(t, k, m, s)
    BY <1>2, <2>1, PartIs
  <2>3. s \in Texts /\ Len(s) = m /\ \A i \in 1 .. m : s[i] = t[k + i]
    BY <2>2 DEF Part
  <2>4. \A i \in 1 .. m : s[i] = v[i]
    BY <1>2, <2>3
  <2>5. s = v
    BY <1>1, <2>3, <2>4, EqualTexts
  <2> QED
    BY <2>2, <2>5
<1> QED
  BY <1>1, <1>2, <1>3, <1>4 DEF Parts

(***************************************************************************)
(* Steps of TextBuffer                                                     *)
(***************************************************************************)
LEMMA Inserts ==
  ASSUME NEW u \in Texts, NEW v \in Texts, NEW s \in Texts,
         Flat(te.lines) = Cat(u, v), Point(te) = Len(u),
         Flat(te'.lines) = Cat(u, Cat(s, v)), Point(te') = Len(u) + Len(s)
  PROVE  Promise!Insert(s)
<1>1. PICK t : t = Flat(te.lines) /\ SubSeq(t, 1, Len(u)) = u
               /\ SubSeq(t, Len(u) + 1, Len(t)) = v
  <2>1. PICK t : t = Cat(u, v)
    OBVIOUS
  <2>2. SubSeq(t, 1, Len(u)) = u /\ SubSeq(t, Len(u) + 1, Len(t)) = v
    <3>1. Parts(u, v, t)
      BY <2>1, PartsOf
    <3> QED
      BY <3>1 DEF Parts
  <2> QED
    BY <2>1, <2>2
<1>2. Promise!Upto(Point(te)) = u /\ Promise!From(Point(te) + 1) = v
  BY <1>1 DEF Promise!Upto, Promise!From
<1>3. (u \o s) \o v = Cat(u, Cat(s, v))
  <2>1. Cat(Cat(u, s), v) = Cat(u, Cat(s, v))
    BY CatLaws
  <2> QED
    BY <2>1 DEF Cat
<1>4. Flat(te'.lines) = Promise!Upto(Point(te)) \o s \o Promise!From(Point(te) + 1)
  BY <1>2, <1>3
<1> QED
  BY <1>4 DEF Promise!Insert

LEMMA LineEndIs ==
  ASSUME NEW t \in Texts, t = Flat(te.lines), NEW i \in 1 .. Len(t)
  PROVE  Promise!LineEnd(i) \in i + 1 .. Len(t) + 1
<1>1. PICK n \in Nat : n = Len(t)
  BY LenIsNat
<1>2. PICK T : T = {n + 1} \cup {j \in i + 1 .. n : t[j] = LF}
  OBVIOUS
<1>3. Promise!LineEnd(i) = Min(T)
  BY <1>1, <1>2 DEF Promise!LineEnd, Promise!Min, Min
<1>4. T \in SUBSET Nat /\ T # {} /\ T \subseteq i + 1 .. n + 1
  BY <1>1, <1>2
<1>5. Min(T) \in T
  BY <1>4, MinOfNat
<1> QED
  BY <1>1, <1>3, <1>4, <1>5

LEMMA LineEndAt ==
  ASSUME NEW t \in Texts, t = Flat(te.lines), NEW i \in 1 .. Len(t), NEW e \in i + 1 .. Len(t) + 1,
         \A j \in i + 1 .. e - 1 : t[j] # LF, e = Len(t) + 1 \/ t[e] = LF
  PROVE  Promise!LineEnd(i) = e
<1>1. PICK n \in Nat : n = Len(t)
  BY LenIsNat
<1>2. PICK T : T = {n + 1} \cup {j \in i + 1 .. n : t[j] = LF}
  OBVIOUS
<1>3. Promise!LineEnd(i) = Min(T)
  BY <1>1, <1>2 DEF Promise!LineEnd, Promise!Min, Min
<1>4. T \in SUBSET Nat /\ T # {} /\ T \subseteq i + 1 .. n + 1
  BY <1>1, <1>2
<1>5. Min(T) \in T /\ \A y \in T : Min(T) <= y
  BY <1>4, MinOfNat
<1>6. Min(T) = e
  <2>1. e \in T
    BY <1>1, <1>2
  <2>2. PICK m \in T : m = Min(T) /\ m <= e
    BY <1>5, <2>1
  <2>3. m \in i + 1 .. n + 1
    BY <1>4
  <2>4. CASE m = n + 1
    BY <1>1, <2>2, <2>4
  <2>5. CASE m # n + 1
    <3>1. t[m] = LF
      BY <1>2, <2>5
    <3>2. m \notin i + 1 .. e - 1
      BY <3>1
    <3> QED
      BY <1>1, <2>2, <2>3, <3>2
  <2> QED
    BY <2>2, <2>4, <2>5
<1> QED
  BY <1>3, <1>6

LEMMA RemovesChar ==
  ASSUME NEW u \in Texts, NEW v \in Texts, NEW c \in Chars,
         Flat(te.lines) = Cat(u, Cat(<<c>>, v)), Point(te) \in {Len(u), Len(u) + 1},
         Flat(te'.lines) = Cat(u, v), Point(te') = Len(u)
  PROVE  Promise!TextNext
<1>1. PICK k \in Nat, i \in Nat : k = Len(u) /\ i = k + 1 /\ i - 1 = k
  <2>1. PICK k \in Nat : k = Len(u)
    BY LenIsNat
  <2>2. k + 1 \in Nat /\ (k + 1) - 1 = k
    OBVIOUS
  <2> QED
    BY <2>1, <2>2
<1>2. PICK d \in Texts : d = <<c>> /\ Len(d) = 1 /\ d[1] = c
  <2>1. c \in TextChars
    BY DEF TextChars
  <2>2. <<c>> \in Seq(TextChars)
    BY <2>1
  <2> QED
    BY <2>2 DEF Texts
<1>3. PICK t \in Texts : t = Flat(te.lines) /\ t = Cat(u, Cat(d, v))
  BY <1>2, MiddleOf DEF Inside
<1>4. Len(t) = k + 1 + Len(v) /\ Len(v) \in Nat /\ t[k + 1] = d[1]
  <2>1. /\ Len(t) = Len(u) + Len(d) + Len(v)
        /\ \A q \in 1 .. Len(d) : t[Len(u) + q] = d[q]
    <3>1. Inside(u, d, v, t)
      BY <1>3, MiddleOf
    <3> QED
      BY <3>1 DEF Inside
  <2>2. 1 \in 1 .. Len(d) /\ Len(v) \in Nat
    BY <1>2, LenIsNat
  <2> QED
    BY <1>1, <1>2, <2>1, <2>2
<1>5. i \in 1 .. Len(t) /\ i \in DOMAIN t /\ t[i] # LF
  <2>1. i \in 1 .. Len(t)
    BY <1>1, <1>4
  <2>2. DOMAIN t = 1 .. Len(t)
    BY DEF Texts
  <2>3. c # LF
    BY WindowAssumption
  <2> QED
    BY <1>1, <1>2, <1>4, <2>1, <2>2, <2>3
<1>6. SubSeq(t, 1, k) = u
  <2>1. PICK w \in Texts : w = Cat(d, v)
    BY CatLaws
  <2>2. t = Cat(u, w)
    BY <1>3, <2>1
  <2>3. SubSeq(t, 1, Len(u)) = u
    BY <2>2, PartsOf DEF Parts
  <2> QED
    BY <1>1, <2>3
<1>7. SubSeq(t, i + 1, Len(t)) = v
  <2>1. t = Cat(Cat(u, d), v) /\ Cat(u, d) \in Texts /\ Len(Cat(u, d)) = i
    <3>1. t = Cat(Cat(u, d), v)
      BY <1>3, CatLaws
    <3>2. Cat(u, d) \in Texts /\ Len(Cat(u, d)) = Len(u) + Len(d)
      BY CatIs DEF Glued
    <3> QED
      BY <1>1, <1>2, <3>1, <3>2
  <2> QED
    <3>1. Parts(Cat(u, d), v, t)
      BY <2>1, PartsOf
    <3> QED
      BY <2>1, <3>1 DEF Parts
<1>8. PICK e \in i + 1 .. Len(t) + 1 : e = Promise!LineEnd(i)
  BY <1>3, <1>5, LineEndIs
<1>9. SubSeq(t, i + 1, e - 1) \o SubSeq(t, e, Len(t)) = v
  <2>1. t \in Seq(TextChars)
    BY DEF Texts
  <2>2. i + 1 \in 1 .. Len(t) + 1 /\ e - 1 \in (i + 1) - 1 .. Len(t) /\ Len(t) \in e - 1 .. Len(t)
        /\ (e - 1) + 1 = e
    BY <1>1, <1>4, <1>5, <1>8
  <2>3. SubSeq(t, i + 1, e - 1) \o SubSeq(t, (e - 1) + 1, Len(t)) = SubSeq(t, i + 1, Len(t))
    BY <2>1, <2>2, ConcatAdjacentSubSeq
  <2> QED
    BY <1>7, <2>2, <2>3
<1>10. SubSeq(t, i + 1, e - 1) \in Texts /\ SubSeq(t, e, Len(t)) \in Texts
  <2>1. PICK z \in Nat : z = Len(t)
    BY LenIsNat
  <2>2. e \in Nat /\ i + 1 <= e /\ e <= z + 1
    BY <1>1, <1>8, <2>1
  <2>3. e - 1 - i \in Nat /\ z + 1 - e \in Nat /\ i + (e - 1 - i) = e - 1
        /\ (e - 1) + (z + 1 - e) = z /\ (e - 1) + 1 = e /\ e - 1 \in Nat /\ e - 1 <= z
    BY <1>1, <2>1, <2>2
  <2>4. SubSeq(t, i + 1, i + (e - 1 - i)) \in Texts
    BY <1>1, <2>1, <2>3, PartIs DEF Part
  <2>5. PICK b \in Nat, m \in Nat : b + 1 = e /\ b + m = z
    BY <2>3
  <2>6. SubSeq(t, b + 1, b + m) \in Texts
    <3>1. b + m <= Len(t)
      BY <2>1, <2>5
    <3>2. Part(t, b, m, SubSeq(t, b + 1, b + m))
      BY <3>1, PartIs
    <3> QED
      BY <3>2 DEF Part
  <2> QED
    BY <2>1, <2>3, <2>4, <2>5, <2>6
<1>11. (u \o SubSeq(t, i + 1, e - 1)) \o SubSeq(t, e, Len(t)) = Cat(u, v)
  <2>1. PICK x \in Texts, y \in Texts : x = SubSeq(t, i + 1, e - 1) /\ y = SubSeq(t, e, Len(t))
    BY <1>10
  <2>2. Cat(Cat(u, x), y) = Cat(u, Cat(x, y))
    BY CatLaws
  <2> QED
    BY <1>9, <2>1, <2>2 DEF Cat
<1>12. Promise!Kept(i) = e - 1
  BY <1>3, <1>5, <1>8 DEF Promise!Kept
<1>13. Promise!Remove1(i)
  <2>1. Promise!Upto(i - 1) = u /\ Promise!From(Promise!LineEnd(i)) = SubSeq(t, e, Len(t))
    BY <1>1, <1>3, <1>6, <1>8 DEF Promise!Upto, Promise!From
  <2>2. Flat(te'.lines) = Promise!Upto(i - 1) \o SubSeq(Flat(te.lines), i + 1, Promise!Kept(i))
                           \o Promise!From(Promise!LineEnd(i))
    BY <1>3, <1>11, <1>12, <2>1
  <2>3. Point(te') = i - 1
    BY <1>1
  <2> QED
    BY <2>2, <2>3 DEF Promise!Remove1
<1>14. i \in {Point(te), Point(te) + 1} \cap DOMAIN Flat(te.lines)
  BY <1>1, <1>3, <1>5
<1> QED
  BY <1>13, <1>14 DEF Promise!TextNext

(* A text that ends with a line break, or one that begins with it.         *)
EndsLine(l)   == l = <<>> \/ \E p \in Texts : l = Cat(p, Break)
BeginsLine(w) == w = <<>> \/ \E p \in Texts : w = Cat(Break, p)

LEMMA LineEnds ==
  ASSUME NEW l \in Texts, EndsLine(l), NEW k \in Nat, k = Len(l), k # 0
  PROVE  l[k] = LF
<1>1. l # <<>>
  OBVIOUS
<1>2. PICK p \in Texts : l = Cat(p, Break)
  BY <1>1 DEF EndsLine
<1>3. Break \in Texts /\ Len(Break) = 1 /\ Break[1] = LF
  BY BreakType DEF Texts
<1>4. Glued(p, Break, l)
  BY <1>2, <1>3, CatIs
<1> QED
  BY <1>3, <1>4 DEF Glued

LEMMA LineBegins ==
  ASSUME NEW w \in Texts, BeginsLine(w), Len(w) # 0
  PROVE  w[1] = LF
<1>1. w # <<>>
  OBVIOUS
<1>2. PICK p \in Texts : w = Cat(Break, p)
  BY <1>1 DEF BeginsLine
<1>3. Break \in Texts /\ Len(Break) = 1 /\ Break[1] = LF
  BY BreakType DEF Texts
<1>4. Glued(Break, p, w)
  BY <1>2, <1>3, CatIs
<1> QED
  BY <1>3, <1>4 DEF Glued

LEMMA LineIsText ==
  ASSUME NEW x \in Seq(Chars)
  PROVE  x \in Texts /\ \A j \in 1 .. Len(x) : x[j] # LF
<1>1. Chars \subseteq TextChars
  BY DEF TextChars
<1>2. x \in Seq(TextChars)
  BY <1>1, WiderSeq
<1>3. \A j \in 1 .. Len(x) : x[j] \in Chars
  OBVIOUS
<1>4. LF \notin Chars
  BY WindowAssumption
<1> QED
  BY <1>2, <1>3, <1>4 DEF Texts

(* As much of the second line as the first one takes.                      *)
LEMMA CutIs ==
  ASSUME NEW x \in Texts, NEW y \in Texts, Len(x) <= MaxLen,
         NEW n \in Nat, n = IF Len(x) + Len(y) <= MaxLen THEN Len(y) ELSE MaxLen - Len(x)
  PROVE  Slice(x \o y, 1, MaxLen) = Cat(x, SubSeq(y, 1, n)) /\ n <= Len(y) /\ SubSeq(y, 1, n) \in Texts
<1>1. PICK a \in Nat, b \in Nat, m \in Nat : a = Len(x) /\ b = Len(y) /\ m = MaxLen
  BY LenIsNat, SizesAre
<1>2. PICK z \in Texts : z = x \o y /\ Glued(x, y, z)
  BY CatIs, CatLaws DEF Cat
<1>3. /\ Len(z) = a + b /\ \A i \in 1 .. a : z[i] = x[i]
      /\ \A i \in 1 .. b : z[a + i] = y[i]
  BY <1>1, <1>2 DEF Glued
<1>4. n <= b /\ a + n <= a + b /\ (m <= a + b => a + n = m) /\ (~(m <= a + b) => n = b)
  BY <1>1
<1>5. Slice(z, 1, m) = SubSeq(z, 1, a + n)
  <2>1. Slice(z, 1, m) = SubSeq(z, 1, IF m <= Len(z) THEN m ELSE Len(z))
    BY <1>1, <1>2, SliceType DEF Texts
  <2> QED
    BY <1>1, <1>3, <1>4, <2>1
<1>6. PICK s : s = SubSeq(z, 1, a + n) /\ Part(z, 0, a + n, s)
  <2>1. PICK q \in Nat : q = a + n /\ q <= Len(z)
    BY <1>1, <1>3, <1>4
  <2>2. Part(z, 0, q, SubSeq(z, 1, q))
    BY <1>2, <2>1, FrontIs
  <2> QED
    BY <2>1, <2>2
<1>7. PICK v : v = SubSeq(y, 1, n) /\ Part(y, 0, n, v)
  BY <1>1, <1>4, FrontIs
<1>8. /\ s \in Texts /\ Len(s) = a + n /\ \A i \in 1 .. a + n : s[i] = z[0 + i]
      /\ v \in Texts /\ Len(v) = n /\ \A i \in 1 .. n : v[i] = y[0 + i]
  BY <1>6, <1>7 DEF Part
<1>9. PICK c \in Texts : c = Cat(x, v) /\ Glued(x, v, c)
  BY <1>8, CatIs, CatLaws
<1>10. /\ Len(c) = a + n /\ \A i \in 1 .. a : c[i] = x[i]
       /\ \A i \in 1 .. n : c[a + i] = v[i]
  BY <1>1, <1>8, <1>9 DEF Glued
<1>11. ASSUME NEW i \in 1 .. a + n PROVE s[i] = c[i]
  <2>1. s[i] = z[i]
    <3>1. 0 + i = i
      OBVIOUS
    <3> QED
      BY <1>8, <3>1
  <2>2. CASE i <= a
    <3>1. i \in 1 .. a
      BY <2>2
    <3> QED
      BY <1>3, <1>10, <2>1, <3>1
  <2>3. CASE ~(i <= a)
    <3>1. PICK j \in 1 .. n : i = a + j
      <4>1. i - a \in 1 .. n /\ i = a + (i - a)
        BY <1>1, <2>3
      <4> QED
        BY <4>1
    <3>2. j \in 1 .. b /\ 0 + j = j
      BY <1>1, <1>4
    <3>3. z[i] = y[j]
      BY <1>3, <3>1, <3>2
    <3>4. c[i] = v[j] /\ v[j] = y[j]
      BY <1>8, <1>10, <3>1, <3>2
    <3> QED
      BY <2>1, <3>3, <3>4
  <2> QED
    BY <2>2, <2>3
<1>12. s = c
  BY <1>1, <1>8, <1>10, <1>11, EqualTexts
<1> QED
  BY <1>1, <1>2, <1>4, <1>5, <1>6, <1>7, <1>8, <1>9, <1>12

LEMMA LineStartIs ==
  ASSUME NEW t \in Texts, t = Flat(te.lines), NEW i \in 1 .. Len(t), NEW k \in 0 .. i - 1,
         \A j \in k + 1 .. i - 1 : t[j] # LF, k = 0 \/ t[k] = LF
  PROVE  Promise!LineStart(i) = k
<1>1. PICK n \in Nat : n = i - 1 /\ n \in Nat /\ k \in 0 .. n
  BY LenIsNat
<1>2. PICK T : T = {0} \cup {j \in 1 .. n : t[j] = LF}
  OBVIOUS
<1>3. Promise!LineStart(i) = Max(T)
  BY <1>1, <1>2 DEF Promise!LineStart, Promise!Max, Max
<1>4. T \in SUBSET (0 .. n) /\ T # {}
  BY <1>1, <1>2
<1>5. PICK m : m = Max(T) /\ m \in T /\ \A y \in T : m >= y
  BY <1>1, <1>4, MaxOfNat
<1>6. k \in T
  BY <1>1, <1>2
<1>7. m >= k /\ m \in 0 .. n
  BY <1>4, <1>5, <1>6
<1>8. ~(m > k)
  <2>1. SUFFICES ASSUME m > k PROVE FALSE
    OBVIOUS
  <2>2. m \in k + 1 .. i - 1 /\ m # 0
    BY <1>1, <1>7, <2>1
  <2>3. t[m] = LF
    BY <1>2, <1>5, <2>2
  <2> QED
    BY <2>2, <2>3
<1> QED
  BY <1>1, <1>3, <1>5, <1>7, <1>8

(* The parts of t around the line break at i: l is k characters long, x a, *)
(* y b and w p.                                                            *)
Between(l, x, y, w, t, k, a, b, p, i) ==
  /\ t \in Texts /\ Len(t) = i + b + p
  /\ \A j \in 1 .. k : t[j] = l[j]
  /\ \A j \in 1 .. a : t[k + j] = x[j]
  /\ t[i] = LF
  /\ \A j \in 1 .. b : t[i + j] = y[j]
  /\ \A j \in 1 .. p : t[i + b + j] = w[j]
  /\ SubSeq(t, 1, i - 1) = Cat(l, x)
  /\ \A n \in 0 .. b : SubSeq(t, i + 1, i + n) = SubSeq(y, 1, n)
  /\ SubSeq(t, i + b + 1, Len(t)) = w

LEMMA BreakBetween ==
  ASSUME NEW l \in Texts, NEW x \in Texts, NEW y \in Texts, NEW w \in Texts,
         NEW t, t = Cat(l, Cat(x, Cat(Break, Cat(y, w)))),
         NEW k \in Nat, NEW a \in Nat, NEW b \in Nat, NEW p \in Nat, NEW i \in Nat,
         k = Len(l), a = Len(x), b = Len(y), p = Len(w), i = k + a + 1
  PROVE  Between(l, x, y, w, t, k, a, b, p, i)
<1>1. Break \in Texts /\ Len(Break) = 1 /\ Break[1] = LF
  BY BreakType DEF Texts
<1>2. PICK yw \in Texts : yw = Cat(y, w)
  BY CatLaws
<1>3. PICK tail \in Texts : tail = Cat(Break, yw)
  BY <1>1, CatLaws
<1>4. PICK u \in Texts : u = Cat(l, x) /\ Glued(l, x, u)
  BY CatIs, CatLaws
<1>5. PICK ub \in Texts : ub = Cat(u, Break) /\ Glued(u, Break, ub)
  BY <1>1, CatIs, CatLaws
<1>6. PICK uby \in Texts : uby = Cat(ub, y) /\ Glued(ub, y, uby)
  BY CatIs, CatLaws
<1>7. Len(u) = i - 1 /\ Len(ub) = i /\ Len(uby) = i + b
  BY <1>1, <1>4, <1>5, <1>6 DEF Glued
<1>8. t = Cat(l, Cat(x, tail)) /\ t = Cat(u, tail)
  BY <1>2, <1>3, <1>4, CatLaws
<1>9. t = Cat(ub, yw)
  BY <1>1, <1>3, <1>5, <1>8, CatLaws
<1>10. t = Cat(uby, w)
  BY <1>2, <1>6, <1>9, CatLaws
<1>11. PICK xt \in Texts : xt = Cat(x, tail)
  BY CatLaws
<1>12. Glued(l, xt, t) /\ Glued(uby, w, t)
  BY <1>8, <1>10, <1>11, CatIs
<1>13. Inside(l, x, tail, t) /\ Inside(u, Break, yw, t) /\ Inside(ub, y, w, t)
  <2>1. Inside(l, x, tail, t)
    BY <1>8, MiddleOf
  <2>2. Inside(u, Break, yw, t)
    BY <1>1, <1>3, <1>8, MiddleOf
  <2>3. Inside(ub, y, w, t)
    BY <1>2, <1>9, MiddleOf
  <2> QED
    BY <2>1, <2>2, <2>3
<1>14. /\ t \in Texts /\ Len(t) = i + b + p
       /\ \A j \in 1 .. k : t[j] = l[j]
       /\ \A j \in 1 .. p : t[i + b + j] = w[j]
  BY <1>7, <1>12 DEF Glued
<1>15. \A j \in 1 .. a : t[k + j] = x[j]
  BY <1>13 DEF Inside
<1>16. t[i] = LF
  <2>1. 1 \in 1 .. Len(Break) /\ (i - 1) + 1 = i
    BY <1>1
  <2> QED
    BY <1>1, <1>7, <1>13, <2>1 DEF Inside
<1>17. /\ \A j \in 1 .. b : t[i + j] = y[j]
       /\ \A n \in 0 .. b : SubSeq(t, i + 1, i + n) = SubSeq(y, 1, n)
  BY <1>7, <1>13 DEF Inside
<1>18. SubSeq(t, 1, i - 1) = u
  <2>1. SubSeq(t, 1, Len(u)) = u
    <3>1. Parts(u, tail, t)
      BY <1>8, PartsOf
    <3> QED
      BY <3>1 DEF Parts
  <2> QED
    BY <1>7, <2>1
<1>19. SubSeq(t, i + b + 1, Len(t)) = w
  <2>1. SubSeq(t, Len(uby) + 1, Len(t)) = w
    <3>1. Parts(uby, w, t)
      BY <1>10, PartsOf
    <3> QED
      BY <3>1 DEF Parts
  <2> QED
    BY <1>7, <2>1
<1> QED
  BY <1>4, <1>14, <1>15, <1>16, <1>17, <1>18, <1>19 DEF Between

LEMMA RemovesBreak ==
  ASSUME NEW l \in Texts, EndsLine(l), NEW w \in Texts, BeginsLine(w),
         NEW x \in Seq(Chars), NEW y \in Seq(Chars), Len(x) <= MaxLen,
         Flat(te.lines) = Cat(l, Cat(x, Cat(Break, Cat(y, w)))),
         Point(te) \in {Len(l) + Len(x), Len(l) + Len(x) + 1},
         Flat(te'.lines) = Cat(l, Cat(Slice(x \o y, 1, MaxLen), w)),
         Point(te') = Len(l) + Len(x)
  PROVE  Promise!TextNext
<1>1. /\ x \in Texts /\ y \in Texts
      /\ \A j \in 1 .. Len(x) : x[j] # LF
      /\ \A j \in 1 .. Len(y) : y[j] # LF
  BY LineIsText
<1>2. PICK t : t = Flat(te.lines)
  OBVIOUS
<1>3. PICK k \in Nat, a \in Nat, b \in Nat, p \in Nat :
        k = Len(l) /\ a = Len(x) /\ b = Len(y) /\ p = Len(w)
  BY <1>1, LenIsNat
<1>4. PICK i \in Nat : i = k + a + 1 /\ i - 1 = k + a
  <2>1. k + a + 1 \in Nat /\ (k + a + 1) - 1 = k + a
    BY <1>3
  <2> QED
    BY <2>1
<1>5. /\ t \in Texts /\ Len(t) = i + b + p
      /\ \A j \in 1 .. k : t[j] = l[j]
      /\ \A j \in 1 .. a : t[k + j] = x[j]
      /\ t[i] = LF
      /\ \A j \in 1 .. b : t[i + j] = y[j]
      /\ \A j \in 1 .. p : t[i + b + j] = w[j]
      /\ SubSeq(t, 1, i - 1) = Cat(l, x)
      /\ \A n \in 0 .. b : SubSeq(t, i + 1, i + n) = SubSeq(y, 1, n)
      /\ SubSeq(t, i + b + 1, Len(t)) = w
  <2>1. t = Cat(l, Cat(x, Cat(Break, Cat(y, w))))
    BY <1>2
  <2>2. Between(l, x, y, w, t, k, a, b, p, i)
    BY <1>1, <1>3, <1>4, <2>1, BreakBetween
  <2> QED
    BY <2>2 DEF Between
<1>6. i \in 1 .. Len(t) /\ i \in DOMAIN t
  <2>1. i \in 1 .. Len(t)
    BY <1>3, <1>4, <1>5
  <2>2. DOMAIN t = 1 .. Len(t)
    BY <1>5 DEF Texts
  <2> QED
    BY <2>1, <2>2
<1>7. Promise!LineEnd(i) = i + b + 1
  <2>1. PICK e : e = i + b + 1 /\ e \in i + 1 .. Len(t) + 1
    BY <1>3, <1>4, <1>5
  <2>2. \A j \in i + 1 .. e - 1 : t[j] # LF
    <3>1. ASSUME NEW j \in i + 1 .. e - 1 PROVE t[j] # LF
      <4>1. PICK q \in 1 .. b : j = i + q
        <5>1. j - i \in 1 .. b /\ j = i + (j - i)
          BY <1>3, <1>4, <2>1
        <5> QED
          BY <5>1
      <4> QED
        BY <1>1, <1>3, <1>5, <4>1
    <3> QED
      BY <3>1
  <2>3. e = Len(t) + 1 \/ t[e] = LF
    <3>1. CASE p = 0
      BY <1>3, <1>4, <1>5, <2>1, <3>1
    <3>2. CASE p # 0
      <4>1. w[1] = LF
        BY <1>3, <3>2, LineBegins
      <4>2. 1 \in 1 .. p
        BY <3>2
      <4> QED
        BY <1>5, <2>1, <4>1, <4>2
    <3> QED
      BY <3>1, <3>2
  <2> QED
    <3>1. t \in Texts /\ t = Flat(te.lines) /\ i \in 1 .. Len(t) /\ e \in i + 1 .. Len(t) + 1
      BY <1>2, <1>5, <1>6, <2>1
    <3>2. Promise!LineEnd(i) = e
      BY <2>2, <2>3, <3>1, LineEndAt
    <3> QED
      BY <2>1, <3>2
<1>8. Promise!LineStart(i) = k
  <2>1. k \in 0 .. i - 1
    BY <1>3, <1>4
  <2>2. \A j \in k + 1 .. i - 1 : t[j] # LF
    <3>1. ASSUME NEW j \in k + 1 .. i - 1 PROVE t[j] # LF
      <4>1. PICK q \in 1 .. a : j = k + q
        <5>1. j - k \in 1 .. a /\ j = k + (j - k)
          BY <1>3, <1>4
        <5> QED
          BY <5>1
      <4> QED
        BY <1>1, <1>3, <1>5, <4>1
    <3> QED
      BY <3>1
  <2>3. k = 0 \/ t[k] = LF
    <3>1. CASE k # 0
      <4>1. l[k] = LF /\ k \in 1 .. k
        BY <1>3, <3>1, LineEnds
      <4> QED
        BY <1>5, <4>1
    <3> QED
      BY <3>1
  <2> QED
    BY <1>2, <1>5, <1>6, <2>1, <2>2, <2>3, LineStartIs
<1>9. PICK n \in Nat : n = IF a + b <= MaxLen THEN b ELSE MaxLen - a
  <2>1. MaxLen \in Nat /\ a <= MaxLen
    BY <1>3, SizesAre
  <2>2. MaxLen - a \in Nat
    BY <2>1
  <2> QED
    BY <1>3, <2>2
<1>10. /\ Slice(x \o y, 1, MaxLen) = Cat(x, SubSeq(y, 1, n)) /\ n <= b
       /\ SubSeq(y, 1, n) \in Texts
  BY <1>1, <1>3, <1>9, CutIs
<1>11. Promise!Kept(i) = i + n
  <2>1. Promise!Kept(i) = Min({i + b + 1 - 1, k + MaxLen + 1})
    BY <1>2, <1>5, <1>7, <1>8 DEF Promise!Kept, Promise!Min, Min
  <2>2. MaxLen \in Nat /\ i + b + 1 - 1 \in Int /\ k + MaxLen + 1 \in Int
    BY <1>3, <1>4, SizesAre
  <2>3. Min({i + b + 1 - 1, k + MaxLen + 1}) =
          IF i + b + 1 - 1 <= k + MaxLen + 1 THEN i + b + 1 - 1 ELSE k + MaxLen + 1
    BY <2>2, Min2
  <2>4. i + b + 1 - 1 <= k + MaxLen + 1 <=> a + b <= MaxLen
    BY <1>3, <1>4, <2>2
  <2>5. CASE a + b <= MaxLen
    BY <1>3, <1>4, <1>9, <2>1, <2>3, <2>4, <2>5
  <2>6. CASE ~(a + b <= MaxLen)
    <3>1. k + MaxLen + 1 = i + (MaxLen - a)
      BY <1>3, <1>4, <2>2
    <3> QED
      BY <1>9, <2>1, <2>3, <2>4, <2>6, <3>1
  <2> QED
    BY <2>5, <2>6
<1>12. Promise!Remove1(i)
  <2>1. PICK v \in Texts : v = SubSeq(y, 1, n)
    BY <1>10
  <2>2. Promise!Upto(i - 1) = Cat(l, x)
    BY <1>2, <1>5 DEF Promise!Upto
  <2>3. Promise!From(Promise!LineEnd(i)) = w
    BY <1>2, <1>5, <1>7 DEF Promise!From
  <2>4. SubSeq(Flat(te.lines), i + 1, Promise!Kept(i)) = v
    <3>1. n \in 0 .. b
      BY <1>3, <1>10
    <3> QED
      BY <1>2, <1>5, <1>11, <2>1, <3>1
  <2>5. Flat(te'.lines) = Cat(Cat(Cat(l, x), v), w)
    <3>1. Flat(te'.lines) = Cat(l, Cat(Cat(x, v), w))
      BY <1>10, <2>1
    <3>2. PICK xv \in Texts : xv = Cat(x, v)
      BY <1>1, CatLaws
    <3>3. Cat(l, Cat(xv, w)) = Cat(Cat(l, xv), w)
      BY CatLaws
    <3>4. Cat(l, xv) = Cat(Cat(l, x), v)
      BY <1>1, <3>2, CatLaws
    <3> QED
      BY <3>1, <3>2, <3>3, <3>4
  <2>6. Flat(te'.lines) = Promise!Upto(i - 1) \o SubSeq(Flat(te.lines), i + 1, Promise!Kept(i))
                           \o Promise!From(Promise!LineEnd(i))
    BY <2>2, <2>3, <2>4, <2>5 DEF Cat
  <2>7. Point(te') = i - 1
    BY <1>3, <1>4
  <2> QED
    BY <2>6, <2>7 DEF Promise!Remove1
<1>13. i \in {Point(te), Point(te) + 1} \cap DOMAIN Flat(te.lines)
  <2>1. Point(te) = i - 1 \/ Point(te) = i
    BY <1>3, <1>4
  <2>2. (i - 1) + 1 = i
    BY <1>4
  <2> QED
    BY <1>2, <1>6, <2>1, <2>2
<1> QED
  BY <1>12, <1>13 DEF Promise!TextNext

(***************************************************************************)
(* The cursor is on a line                                                 *)
(***************************************************************************)
OnLine(t) == EditOK(t) /\ t.row < Len(t.lines)

(* The text of t is x, the line of the cursor, between l and w.            *)
Held(t, l, x, w) ==
  /\ l \in Texts /\ w \in Texts /\ x \in Seq(Chars) /\ x \in Texts /\ Len(x) \in 0 .. MaxLen
  /\ l = Lead(t.lines, t.row) /\ x = t.lines[t.row + 1] /\ w = Trail(t.lines, t.row)
  /\ Flat(t.lines) = Cat(l, Cat(x, w))
  /\ Point(t) = Len(l) + t.col /\ t.col \in 0 .. Len(x)

LEMMA OnLineIs ==
  ASSUME NEW t, OnLine(t)
  PROVE  /\ t \in Tes /\ IsText(t.lines) /\ t.row \in Nat /\ t.col \in Nat /\ t.row < Len(t.lines)
         /\ Len(t.lines) \in Nat /\ t.row + 1 \in 1 .. Len(t.lines)
         /\ Line(t, t.row) = t.lines[t.row + 1] /\ t.col \in 0 .. Len(t.lines[t.row + 1])
<1>1. EditOK(t) /\ t.row < Len(t.lines) /\ t \in Tes /\ IsText(t.lines)
  BY DEF OnLine, EditOK
<1>2. t.row \in Nat /\ t.col \in Nat /\ Len(t.lines) \in Nat
  BY <1>1 DEF Tes
<1>3. Line(t, t.row) = t.lines[t.row + 1]
  BY <1>1, <1>2, LineType
<1>4. t.col \in 0 .. Len(Line(t, t.row))
  BY <1>1, Around
<1> QED
  BY <1>1, <1>2, <1>3, <1>4

LEMMA PointIs ==
  ASSUME NEW t, OnLine(t)
  PROVE  Point(t) = Len(Lead(t.lines, t.row)) + t.col
<1>1. /\ t.row \in Nat /\ t.col \in Nat /\ IsText(t.lines) /\ t.row < Len(t.lines)
      /\ Len(t.lines) \in Nat
  BY OnLineIs
<1>2. PICK f : f = Flat(SubSeq(t.lines, 1, t.row))
  OBVIOUS
<1>3. Point(t) = Len(f) + (IF t.row > 0 THEN 1 ELSE 0) + t.col
  BY <1>2 DEF Point
<1>4. CASE t.row = 0
  <2>1. SubSeq(t.lines, 1, 0) = <<>>
    BY SubSeqEmpty
  <2>2. Len(f) = 0
    <3>1. f = Flat(<<>>)
      BY <1>2, <1>4, <2>1
    <3>2. f = <<>>
      BY <3>1, FlatEmpty
    <3> QED
      BY <3>2
  <2>3. Lead(t.lines, t.row) = <<>>
    BY <1>4 DEF Lead
  <2> QED
    BY <1>1, <1>3, <1>4, <2>2, <2>3
<1>5. CASE t.row # 0
  <2>1. 1 \in 1 .. Len(t.lines) /\ t.row \in 1 .. Len(t.lines)
    BY <1>1, <1>5
  <2>2. f \in Texts
    BY <1>1, <1>2, <2>1, SpanFlat
  <2>3. Break \in Texts /\ Len(Break) = 1
    BY BreakType DEF Texts
  <2>4. Glued(f, Break, Cat(f, Break))
    BY <2>2, <2>3, CatIs
  <2>5. Len(Cat(f, Break)) = Len(f) + 1
    BY <2>3, <2>4 DEF Glued
  <2>6. Lead(t.lines, t.row) = Cat(f, Break)
    BY <1>2, <1>5 DEF Lead
  <2> QED
    BY <1>1, <1>3, <1>5, <2>5, <2>6
<1> QED
  BY <1>4, <1>5

LEMMA CursorIs ==
  ASSUME NEW t, OnLine(t), NEW l, NEW x, NEW w,
         l = Lead(t.lines, t.row), x = t.lines[t.row + 1], w = Trail(t.lines, t.row)
  PROVE  Held(t, l, x, w)
<1>1. /\ t \in Tes /\ IsText(t.lines) /\ t.row \in Nat /\ t.row < Len(t.lines)
      /\ t.row + 1 \in 1 .. Len(t.lines) /\ t.col \in 0 .. Len(x)
  BY OnLineIs
<1>2. l \in Texts /\ w \in Texts /\ x \in Texts /\ Flat(t.lines) = Cat(l, Cat(x, w))
  BY <1>1, FlatAround
<1>3. x \in Seq(Chars) /\ Len(x) \in 0 .. MaxLen
  BY <1>1, LinesAre
<1>4. Point(t) = Len(l) + t.col
  BY PointIs
<1> QED
  BY <1>1, <1>2, <1>3, <1>4 DEF Held

LEMMA EveryOneHeld ==
  ASSUME NEW t, OnLine(t)
  PROVE  \E l, x, w : Held(t, l, x, w)
BY CursorIs

(* A line becomes another.                                                 *)
NewLine(t, y, c, u) == u = [t EXCEPT !.lines[t.row + 1] = y, !.col = c]

LEMMA LineReplaced ==
  ASSUME NEW t, OnLine(t), NEW l, NEW x, NEW w, Held(t, l, x, w),
         NEW y \in Seq(Chars), Len(y) <= MaxLen, NEW c \in 0 .. Len(y),
         NEW u, NewLine(t, y, c, u)
  PROVE  OnLine(u) /\ Held(u, l, y, w) /\ u.col = c
<1>1. /\ t \in Tes /\ IsText(t.lines) /\ t.row \in Nat /\ Len(t.lines) \in Nat
      /\ t.row < Len(t.lines) /\ t.row + 1 \in 1 .. Len(t.lines) /\ EditOK(t)
  BY OnLineIs DEF OnLine
<1>2. EditOK(u) /\ u.row = t.row
  BY <1>1, LineEdited DEF NewLine
<1>3. PICK new : new = [t.lines EXCEPT ![t.row + 1] = y]
  OBVIOUS
<1>4. u.lines = new /\ u.col = c
  BY <1>1, <1>3 DEF Tes, NewLine
<1>5. PICK ls, i : ls = t.lines /\ i = t.row + 1
  OBVIOUS
<1>6. Replaced(ls, i, y, new)
  BY <1>1, <1>3, <1>5, ReplaceLine
<1>7. /\ IsText(new) /\ Len(new) = Len(t.lines) /\ new[t.row + 1] = y
      /\ \A j \in 1 .. Len(t.lines) : j # t.row + 1 => new[j] = t.lines[j]
  BY <1>5, <1>6 DEF Replaced
<1>8. OnLine(u)
  BY <1>1, <1>2, <1>4, <1>7 DEF OnLine
<1>9. Lead(new, t.row) = l
  <2>1. \A q \in 1 .. t.row : new[q] = t.lines[q]
    <3>1. \A q \in 1 .. t.row : q \in 1 .. Len(t.lines) /\ q # t.row + 1
      BY <1>1
    <3> QED
      BY <1>7, <3>1
  <2>2. t.row <= Len(new) /\ t.row <= Len(t.lines)
    BY <1>1, <1>7
  <2>3. Lead(new, t.row) = Lead(t.lines, t.row)
    BY <1>1, <1>7, <2>1, <2>2, LeadSame
  <2> QED
    BY <2>3 DEF Held
<1>10. Trail(new, t.row) = w
  <2>1. PICK r \in Nat, n \in Nat : r = t.row /\ Len(t.lines) = r + 1 + n
    <3>1. Len(t.lines) - (t.row + 1) \in Nat /\ Len(t.lines) = t.row + 1 + (Len(t.lines) - (t.row + 1))
      BY <1>1
    <3> QED
      BY <1>1, <3>1
  <2>2. \A q \in 1 .. n : new[r + 1 + q] = t.lines[r + 1 + q]
    <3>1. \A q \in 1 .. n : r + 1 + q \in 1 .. Len(t.lines) /\ r + 1 + q # t.row + 1
      BY <2>1
    <3> QED
      BY <1>7, <3>1
  <2>3. Trail(new, r) = Trail(t.lines, r)
    <3>1. IsText(new) /\ IsText(t.lines) /\ Len(new) = r + 1 + n
      BY <1>1, <1>7, <2>1
    <3>2. SameTail(new, r, t.lines, r, n)
      BY <2>1, <2>2, <3>1 DEF SameTail
    <3> QED
      BY <3>1, <3>2, TrailSame
  <2> QED
    BY <2>1, <2>3 DEF Held
<1>11. Held(u, l, y, w)
  <2>1. l = Lead(u.lines, u.row) /\ y = u.lines[u.row + 1] /\ w = Trail(u.lines, u.row)
    BY <1>2, <1>4, <1>7, <1>9, <1>10
  <2> QED
    BY <1>8, <2>1, CursorIs
<1> QED
  BY <1>4, <1>8, <1>11

(***************************************************************************)
(* Keys                                                                    *)
(***************************************************************************)
(* From t to u, s is put in at the point.                                  *)
PutIn(t, u, s) ==
  \E a \in Texts, b \in Texts :
    /\ Flat(t.lines) = Cat(a, b) /\ Point(t) = Len(a)
    /\ Flat(u.lines) = Cat(a, Cat(s, b)) /\ Point(u) = Len(a) + Len(s)

(* The line of the cursor, cut there.                                      *)
LEMMA LineCut ==
  ASSUME NEW t, OnLine(t), NEW l, NEW x, NEW w, Held(t, l, x, w)
  PROVE  /\ Before(t) \in Seq(Chars) /\ After(t) \in Seq(Chars)
         /\ Before(t) \in Texts /\ After(t) \in Texts
         /\ x = Cat(Before(t), After(t))
         /\ Len(Before(t)) = t.col /\ Len(After(t)) = Len(x) - t.col
<1>1. Line(t, t.row) = x /\ x \in Seq(Chars) /\ Len(x) \in Nat /\ t.col \in 0 .. Len(x) /\ x \in Texts
      /\ EditOK(t)
  BY OnLineIs DEF Held, OnLine
<1>2. /\ Before(t) \in Seq(Chars) /\ Len(Before(t)) = t.col
      /\ After(t) \in Seq(Chars) /\ Len(After(t)) = Len(x) - t.col
  BY <1>1, Around
<1>3. Before(t) \in Texts /\ After(t) \in Texts
  BY <1>2, LineIsText
<1>4. PICK c \in Nat, n \in Nat : c = t.col /\ n = Len(x) /\ c <= n
  BY <1>1
<1>5. Before(t) = SubSeq(x, 1, c)
  <2>1. Slice(x, 1, c) = SubSeq(x, 1, IF c <= Len(x) THEN c ELSE Len(x))
    BY <1>1, <1>4, SliceType
  <2> QED
    BY <1>1, <1>4, <2>1 DEF Before
<1>6. After(t) = SubSeq(x, c + 1, n)
  BY <1>1, <1>4 DEF After
<1>7. SubSeq(x, 1, c) \o SubSeq(x, c + 1, n) = x
  <2>1. 1 \in 1 .. Len(x) + 1 /\ c \in 1 - 1 .. Len(x) /\ n \in c .. Len(x)
    BY <1>4
  <2>2. SubSeq(x, 1, c) \o SubSeq(x, c + 1, n) = SubSeq(x, 1, n)
    BY <1>1, <2>1, ConcatAdjacentSubSeq
  <2>3. SubSeq(x, 1, n) = x
    BY <1>1, <1>4, SubSeqFull
  <2> QED
    BY <2>2, <2>3
<1> QED
  BY <1>1, <1>2, <1>3, <1>5, <1>6, <1>7 DEF Cat

LEMMA CharsPutIn ==
  ASSUME NEW t, OnLine(t), NEW c \in Chars, NEW n \in Nat, NEW u, u = InsertChar(t, c, n)
  PROVE  OnLine(u) /\ \E m \in 0 .. MaxLen : PutIn(t, u, [j \in 1 .. m |-> c])
<1>1. PICK l, x, w : Held(t, l, x, w)
  BY EveryOneHeld
<1>2. /\ l \in Texts /\ w \in Texts /\ x \in Texts /\ Len(x) \in 0 .. MaxLen
      /\ Flat(t.lines) = Cat(l, Cat(x, w)) /\ Point(t) = Len(l) + t.col /\ t.col \in 0 .. Len(x)
      /\ Line(t, t.row) = x /\ t.row \in Nat /\ Len(t.lines) \in Nat /\ t.row < Len(t.lines)
  BY <1>1, OnLineIs DEF Held
<1>3. PICK b, a : b = Before(t) /\ a = After(t)
  OBVIOUS
<1>4. /\ b \in Seq(Chars) /\ a \in Seq(Chars) /\ b \in Texts /\ a \in Texts
      /\ x = Cat(b, a) /\ Len(b) = t.col /\ Len(a) = Len(x) - t.col
  BY <1>1, <1>3, LineCut
<1>5. PICK m : m = Min({n, Room(t)})
  OBVIOUS
<1>6. PICK k \in 0 .. MaxLen, q \in Nat : k = Len(x) /\ q = t.col /\ q <= k
  BY <1>2
<1>7. MaxLen \in Nat /\ m \in 0 .. MaxLen /\ k + m <= MaxLen
  <2>1. MaxLen \in Nat /\ k \in Nat /\ MaxLen - k \in Nat
    BY <1>6, SizesAre
  <2>2. Room(t) = MaxLen - k
    BY <1>2, <1>6, <2>1 DEF Room, AtLeast0
  <2>3. m = IF n <= MaxLen - k THEN n ELSE MaxLen - k
    BY <1>5, <2>1, <2>2, Min2
  <2> QED
    BY <2>1, <2>3
<1>8. PICK s : s = [j \in 1 .. m |-> c]
  OBVIOUS
<1>9. s \in Seq(Chars) /\ Len(s) = m /\ s \in Texts
  <2>1. s \in Seq(Chars) /\ Len(s) = m
    BY <1>7, <1>8
  <2> QED
    BY <2>1, LineIsText
<1>10. PICK y : y = (b \o s) \o a
  OBVIOUS
<1>11. y \in Seq(Chars) /\ Len(y) = q + m + (k - q)
  <2>1. b \o s \in Seq(Chars) /\ Len(b \o s) = Len(b) + Len(s)
    BY <1>4, <1>9, ConcatProperties
  <2>2. y \in Seq(Chars) /\ Len(y) = Len(b \o s) + Len(a)
    BY <1>4, <1>10, <2>1, ConcatProperties
  <2> QED
    BY <1>4, <1>6, <1>9, <2>1, <2>2
<1>12. Len(y) <= MaxLen /\ t.col + m \in 0 .. Len(y)
  <2>1. m \in Nat /\ k \in Nat
    BY <1>6, <1>7
  <2>2. q + m + (k - q) = k + m
    BY <1>6, <2>1, Swapped
  <2>3. PICK z : z = Len(y) /\ z = k + m
    BY <1>11, <2>2
  <2>4. z <= MaxLen /\ q + m \in 0 .. z
    BY <1>6, <1>7, <2>1, <2>3
  <2> QED
    BY <1>6, <2>3, <2>4
<1>13. u = [t EXCEPT !.lines[t.row + 1] = y, !.col = t.col + m]
  <2>1. ~(t.row >= Len(t.lines))
    BY <1>2
  <2> QED
    BY <1>3, <1>5, <1>8, <1>10, <2>1 DEF InsertChar
<1>14. OnLine(u) /\ Held(u, l, y, w) /\ u.col = t.col + m
  <2>1. PICK e \in 0 .. Len(y) : e = t.col + m
    BY <1>12
  <2>2. NewLine(t, y, e, u)
    BY <1>13, <2>1 DEF NewLine
  <2>3. OnLine(u) /\ Held(u, l, y, w) /\ u.col = e
    BY <1>1, <1>11, <1>12, <2>2, LineReplaced
  <2> QED
    BY <2>1, <2>3
<1>15. y = Cat(Cat(b, s), a)
  BY <1>10 DEF Cat
<1>16. PICK lb \in Texts, aw \in Texts : lb = Cat(l, b) /\ aw = Cat(a, w) /\ Glued(l, b, lb)
  BY <1>2, <1>4, CatIs, CatLaws
<1>17. Flat(t.lines) = Cat(lb, aw)
  <2>1. Cat(Cat(b, a), w) = Cat(b, aw)
    BY <1>2, <1>4, <1>16, CatLaws
  <2>2. Cat(l, Cat(b, aw)) = Cat(lb, aw)
    BY <1>2, <1>4, <1>16, CatLaws
  <2> QED
    BY <1>2, <1>4, <2>1, <2>2
<1>18. Flat(u.lines) = Cat(lb, Cat(s, aw))
  <2>1. PICK bs \in Texts, saw \in Texts : bs = Cat(b, s) /\ saw = Cat(s, aw)
    BY <1>4, <1>9, CatLaws
  <2>2. Cat(Cat(bs, a), w) = Cat(bs, aw)
    BY <1>2, <1>4, <1>16, CatLaws
  <2>3. Cat(bs, aw) = Cat(b, saw)
    BY <1>4, <1>9, <2>1, CatLaws
  <2>4. Cat(l, Cat(b, saw)) = Cat(lb, saw)
    BY <1>2, <1>4, <1>16, CatLaws
  <2>5. Flat(u.lines) = Cat(l, Cat(y, w))
    BY <1>14 DEF Held
  <2> QED
    BY <1>15, <2>1, <2>2, <2>3, <2>4, <2>5
<1>19. Point(t) = Len(lb) /\ Point(u) = Len(lb) + Len(s)
  <2>1. Len(lb) = Len(l) + Len(b) /\ Len(l) \in Nat
    BY <1>16 DEF Glued
  <2>2. Point(u) = Len(l) + (t.col + m)
    BY <1>14 DEF Held
  <2> QED
    BY <1>2, <1>4, <1>6, <1>7, <1>9, <2>1, <2>2
<1>20. PutIn(t, u, s)
  BY <1>16, <1>17, <1>18, <1>19 DEF PutIn
<1> QED
  BY <1>7, <1>8, <1>14, <1>20

(* From t to u, the character behind a goes: it is next to the point.      *)
TakenOut(t, u) ==
  \E a \in Texts, b \in Texts, c \in Chars :
    /\ Flat(t.lines) = Cat(a, Cat(<<c>>, b)) /\ Point(t) \in {Len(a), Len(a) + 1}
    /\ Flat(u.lines) = Cat(a, b) /\ Point(u) = Len(a)

LEMMA CharIsText == ASSUME NEW c \in Chars PROVE <<c>> \in Texts /\ <<c>> \in Seq(Chars) /\ Len(<<c>>) = 1
<1>1. <<c>> \in Seq(Chars) /\ Len(<<c>>) = 1
  OBVIOUS
<1> QED
  BY <1>1, LineIsText

(* A line without its character i.                                         *)
LEMMA LineWithout ==
  ASSUME NEW x \in Seq(Chars), NEW i \in 1 .. Len(x)
  PROVE  \E v \in Seq(Chars), z \in Seq(Chars), c \in Chars :
           /\ x = Cat(v, Cat(<<c>>, z)) /\ RemoveAt(x, i) = Cat(v, z)
           /\ Len(v) = i - 1 /\ Len(x) = Len(v) + 1 + Len(z)
<1>1. PICK n \in Nat : n = Len(x) /\ i \in 1 .. n /\ i \in Nat
  OBVIOUS
<1>2. PICK v, z, c : v = SubSeq(x, 1, i - 1) /\ z = SubSeq(x, i + 1, n) /\ c = x[i]
  OBVIOUS
<1>3. \A j \in 1 .. n : x[j] \in Chars
  BY <1>1
<1>4. v \in Seq(Chars) /\ Len(v) = i - 1
  <2>1. 1 \in Int /\ i - 1 \in Int /\ \A j \in 1 .. i - 1 : x[j] \in Chars
    BY <1>1, <1>3
  <2>2. /\ SubSeq(x, 1, i - 1) \in Seq(Chars)
        /\ Len(SubSeq(x, 1, i - 1)) = IF 1 <= i - 1 THEN (i - 1) - 1 + 1 ELSE 0
    BY <2>1, SubSeqProperties
  <2> QED
    BY <1>1, <1>2, <2>2
<1>5. z \in Seq(Chars) /\ Len(z) = n - i
  <2>1. i + 1 \in Int /\ n \in Int /\ \A j \in i + 1 .. n : x[j] \in Chars
    BY <1>1, <1>3
  <2>2. /\ SubSeq(x, i + 1, n) \in Seq(Chars)
        /\ Len(SubSeq(x, i + 1, n)) = IF i + 1 <= n THEN n - (i + 1) + 1 ELSE 0
    BY <2>1, SubSeqProperties
  <2> QED
    BY <1>1, <1>2, <2>2
<1>6. c \in Chars
  BY <1>1, <1>2, <1>3
<1>7. RemoveAt(x, i) = Cat(v, z)
  BY <1>1, <1>2 DEF RemoveAt, Cat
<1>8. x = Cat(v, Cat(<<c>>, z))
  <2>1. SubSeq(x, i, n) = <<c>> \o z
    <3>1. i \in 1 .. Len(x) /\ n \in i .. Len(x)
      BY <1>1
    <3> QED
      BY <1>2, <3>1, SubSeqRecursiveFirst
  <2>2. SubSeq(x, 1, i - 1) \o SubSeq(x, (i - 1) + 1, n) = SubSeq(x, 1, n)
    <3>1. 1 \in 1 .. Len(x) + 1 /\ i - 1 \in 1 - 1 .. Len(x) /\ n \in i - 1 .. Len(x)
      BY <1>1
    <3> QED
      BY <3>1, ConcatAdjacentSubSeq
  <2>3. (i - 1) + 1 = i /\ SubSeq(x, 1, n) = x
    BY <1>1, SubSeqFull
  <2> QED
    BY <1>2, <2>1, <2>2, <2>3 DEF Cat
<1>9. Len(x) = Len(v) + 1 + Len(z)
  BY <1>1, <1>4, <1>5
<1> QED
  BY <1>4, <1>5, <1>6, <1>7, <1>8, <1>9

LEMMA CharTakenOut ==
  ASSUME NEW t, OnLine(t), NEW i \in 1 .. Len(Line(t, t.row)), NEW c, c = i - 1, t.col \in {c, i},
         NEW u, u = Without(t, i, c)
  PROVE  OnLine(u) /\ TakenOut(t, u)
<1>1. PICK l, x, w : Held(t, l, x, w)
  BY EveryOneHeld
<1>2. /\ l \in Texts /\ w \in Texts /\ x \in Texts /\ x \in Seq(Chars) /\ Len(x) \in 0 .. MaxLen
      /\ Flat(t.lines) = Cat(l, Cat(x, w)) /\ Point(t) = Len(l) + t.col
      /\ t.lines[t.row + 1] = x /\ Line(t, t.row) = x /\ i \in 1 .. Len(x) /\ t \in Tes
      /\ t.lines \in Seq(Seq(Chars)) /\ t.row + 1 \in 1 .. Len(t.lines)
  BY <1>1, OnLineIs DEF Held, Tes
<1>3. PICK v \in Seq(Chars), z \in Seq(Chars), d \in Chars :
        /\ x = Cat(v, Cat(<<d>>, z)) /\ RemoveAt(x, i) = Cat(v, z)
        /\ Len(v) = i - 1 /\ Len(x) = Len(v) + 1 + Len(z)
  BY <1>2, LineWithout
<1>4. v \in Texts /\ z \in Texts /\ <<d>> \in Texts
  BY LineIsText, CharIsText
<1>5. PICK y : y = Cat(v, z)
  OBVIOUS
<1>6. y \in Seq(Chars) /\ Len(y) <= MaxLen /\ c \in 0 .. Len(y)
  <2>1. y \in Seq(Chars) /\ Len(y) = Len(v) + Len(z)
    BY <1>5, ConcatProperties DEF Cat
  <2>2. Len(v) \in Nat /\ Len(z) \in Nat
    OBVIOUS
  <2>3. MaxLen \in Nat
    BY SizesAre
  <2> QED
    BY <1>2, <1>3, <2>1, <2>2, <2>3
<1>7. NewLine(t, y, c, u)
  BY <1>2, <1>3, <1>5 DEF Without, NewLine
<1>8. OnLine(u) /\ Held(u, l, y, w) /\ u.col = c
  BY <1>1, <1>6, <1>7, LineReplaced
<1>9. PICK lv \in Texts, zw \in Texts : lv = Cat(l, v) /\ zw = Cat(z, w) /\ Glued(l, v, lv)
  BY <1>2, <1>4, CatIs, CatLaws
<1>10. Flat(t.lines) = Cat(lv, Cat(<<d>>, zw))
  <2>1. PICK dz \in Texts, dzw \in Texts : dz = Cat(<<d>>, z) /\ dzw = Cat(<<d>>, zw)
    BY <1>4, <1>9, CatLaws
  <2>2. Cat(dz, w) = dzw
    BY <1>2, <1>4, <1>9, <2>1, CatLaws
  <2>3. Cat(Cat(v, dz), w) = Cat(v, dzw)
    BY <1>2, <1>4, <2>1, <2>2, CatLaws
  <2>4. Cat(l, Cat(v, dzw)) = Cat(lv, dzw)
    BY <1>2, <1>4, <1>9, <2>1, CatLaws
  <2> QED
    BY <1>2, <1>3, <2>1, <2>3, <2>4
<1>11. Flat(u.lines) = Cat(lv, zw)
  <2>1. Flat(u.lines) = Cat(l, Cat(y, w))
    BY <1>8 DEF Held
  <2>2. Cat(y, w) = Cat(v, zw)
    BY <1>2, <1>4, <1>5, <1>9, CatLaws
  <2>3. Cat(l, Cat(v, zw)) = Cat(lv, zw)
    BY <1>2, <1>4, <1>9, CatLaws
  <2> QED
    BY <2>1, <2>2, <2>3
<1>12. Point(t) \in {Len(lv), Len(lv) + 1} /\ Point(u) = Len(lv)
  <2>1. Len(lv) = Len(l) + Len(v) /\ Len(l) \in Nat
    BY <1>9 DEF Glued
  <2>2. Point(u) = Len(l) + c
    BY <1>8 DEF Held
  <2>3. i \in Nat /\ Len(v) = c /\ i = c + 1
    BY <1>2, <1>3
  <2>4. Point(u) = Len(lv)
    BY <2>1, <2>2, <2>3
  <2>5. Point(t) = Len(l) + t.col /\ (t.col = c \/ t.col = i)
    BY <1>2
  <2>6. CASE t.col = c
    BY <2>1, <2>3, <2>4, <2>5, <2>6
  <2>7. CASE t.col = i
    <3>1. PICK a \in Nat, b \in Nat : a = Len(l) /\ b = c
      BY <2>1, <2>3
    <3>2. a + (b + 1) = (a + b) + 1
      BY <3>1
    <3>3. Point(t) = Len(lv) + 1
      BY <2>1, <2>3, <2>5, <2>7, <3>1, <3>2
    <3> QED
      BY <2>4, <3>3
  <2> QED
    BY <2>5, <2>6, <2>7
<1>13. TakenOut(t, u)
  BY <1>10, <1>11, <1>12 DEF TakenOut
<1> QED
  BY <1>8, <1>13

(* Only the cursor moves.                                                  *)
LEMMA PointInText ==
  ASSUME NEW t, OnLine(t)
  PROVE  Point(t) \in 0 .. Len(Flat(t.lines)) /\ Flat(t.lines) \in Texts
<1>1. PICK l, x, w : Held(t, l, x, w)
  BY EveryOneHeld
<1>2. /\ l \in Texts /\ w \in Texts /\ x \in Texts /\ Len(x) \in Nat
      /\ Flat(t.lines) = Cat(l, Cat(x, w)) /\ Point(t) = Len(l) + t.col /\ t.col \in 0 .. Len(x)
  BY <1>1 DEF Held
<1>3. PICK f : f = Flat(t.lines)
  OBVIOUS
<1>4. Inside(l, x, w, f)
  BY <1>2, <1>3, MiddleOf
<1>5. f \in Texts /\ Len(f) = Len(l) + Len(x) + Len(w)
  BY <1>4 DEF Inside
<1>6. Len(l) \in Nat /\ Len(w) \in Nat
  BY <1>2, LenIsNat
<1> QED
  BY <1>2, <1>3, <1>5, <1>6

Moved(t, u) == u.lines = t.lines /\ Point(u) \in 0 .. Len(Flat(t.lines))

LEMMA CursorStays ==
  ASSUME NEW t, OnLine(t), NEW u, OnLine(u), u.lines = t.lines
  PROVE  Moved(t, u)
BY PointInText DEF Moved

LEMMA Ends ==
  ASSUME NEW ls, IsText(ls), NEW r \in Nat, r < Len(ls)
  PROVE  EndsLine(Lead(ls, r)) /\ BeginsLine(Trail(ls, r))
<1>1. PICK n \in Nat : n = Len(ls)
  BY TextIsShort
<1>2. EndsLine(Lead(ls, r))
  <2>1. CASE r = 0
    BY <2>1 DEF Lead, EndsLine
  <2>2. CASE r # 0
    <3>1. 1 \in 1 .. Len(ls) /\ r \in 1 .. Len(ls)
      BY <1>1, <2>2
    <3>2. Flat(SubSeq(ls, 1, r)) \in Texts
      BY <3>1, SpanFlat
    <3> QED
      BY <2>2, <3>2 DEF Lead, EndsLine
  <2> QED
    BY <2>1, <2>2
<1>3. BeginsLine(Trail(ls, r))
  <2>1. CASE r = Len(ls) - 1
    BY <2>1 DEF Trail, BeginsLine
  <2>2. CASE r # Len(ls) - 1
    <3>1. r + 2 \in 1 .. Len(ls) /\ Len(ls) \in r + 2 .. Len(ls)
      BY <1>1, <2>2
    <3>2. Flat(SubSeq(ls, r + 2, Len(ls))) \in Texts
      BY <3>1, SpanFlat
    <3> QED
      BY <2>2, <3>2 DEF Trail, BeginsLine
  <2> QED
    BY <2>1, <2>2
<1> QED
  BY <1>2, <1>3

LEMMA LeadNext ==
  ASSUME NEW ls, IsText(ls), NEW r \in Nat, r < Len(ls)
  PROVE  Lead(ls, r + 1) = Cat(Cat(Lead(ls, r), ls[r + 1]), Break)
<1>1. PICK n \in Nat : n = Len(ls) /\ 1 \in 1 .. Len(ls) /\ r + 1 \in 1 .. Len(ls)
  BY TextIsShort
<1>2. PICK m : m = SubSeq(ls, 1, r + 1)
  OBVIOUS
<1>3. Span(ls, 1, r + 1, m)
  BY <1>1, <1>2, SpanIsText
<1>4. IsText(m) /\ Len(m) = r + 1 /\ \A q \in 1 .. r + 1 : m[q] = ls[q]
  <2>1. (r + 1) - 1 + 1 = r + 1 /\ \A q \in 1 .. r + 1 : 1 + q - 1 = q
    OBVIOUS
  <2> QED
    BY <1>3, <2>1 DEF Span
<1>5. Lead(m, r) = Lead(ls, r)
  <2>1. r <= Len(m) /\ r <= Len(ls) /\ \A q \in 1 .. r : m[q] = ls[q]
    BY <1>1, <1>4
  <2> QED
    BY <1>4, <2>1, LeadSame
<1>6. Trail(m, r) = <<>>
  <2>1. r = Len(m) - 1
    BY <1>4
  <2> QED
    BY <2>1 DEF Trail
<1>7. m[r + 1] = ls[r + 1]
  <2>1. r + 1 \in 1 .. r + 1
    OBVIOUS
  <2> QED
    BY <1>4, <2>1
<1>8. PICK x \in Texts : x = m[r + 1] /\ Flat(m) = Cat(Lead(m, r), Cat(x, <<>>))
  <2>1. r < Len(m)
    BY <1>4
  <2> QED
    BY <1>4, <1>6, <2>1, FlatAround
<1>9. Cat(x, <<>>) = x
  BY CatLaws
<1>10. Flat(m) = Cat(Lead(ls, r), ls[r + 1])
  BY <1>5, <1>7, <1>8, <1>9
<1> QED
  BY <1>2, <1>10 DEF Lead

(* From t to u, two lines become one, and the point is between them.       *)
BreakTakenOut(t, u) ==
  \E l \in Texts, w \in Texts, x \in Seq(Chars), y \in Seq(Chars) :
    /\ EndsLine(l) /\ BeginsLine(w) /\ Len(x) <= MaxLen
    /\ Flat(t.lines) = Cat(l, Cat(x, Cat(Break, Cat(y, w))))
    /\ Point(t) \in {Len(l) + Len(x), Len(l) + Len(x) + 1}
    /\ Flat(u.lines) = Cat(l, Cat(Slice(x \o y, 1, MaxLen), w))
    /\ Point(u) = Len(l) + Len(x)

(* The texts of lines r + 1 and r + 2, before and after they are joined.   *)
JoinedAt(t, r, u, l, x, y, w) ==
  /\ l \in Texts /\ w \in Texts /\ x \in Seq(Chars) /\ y \in Seq(Chars) /\ Len(x) <= MaxLen
  /\ l = Lead(t.lines, r) /\ x = t.lines[r + 1] /\ EndsLine(l) /\ BeginsLine(w)
  /\ Lead(t.lines, r + 1) = Cat(Cat(l, x), Break)
  /\ Flat(t.lines) = Cat(l, Cat(x, Cat(Break, Cat(y, w))))
  /\ Lead(u.lines, r) = l /\ Flat(u.lines) = Cat(l, Cat(Slice(x \o y, 1, MaxLen), w))

LEMMA JoinJoins ==
  ASSUME NEW t, t \in Tes, IsText(t.lines), NEW r \in Nat, r + 1 < Len(t.lines),
         NEW u, u = Join(t, r)
  PROVE  \E l, x, y, w : JoinedAt(t, r, u, l, x, y, w)
<1>1. PICK ls : ls = t.lines
  OBVIOUS
<1>2. PICK n \in Nat : /\ Len(ls) = n + 1 /\ r < n /\ n = Len(ls) - 1
                       /\ r < Len(ls) /\ r + 1 < Len(ls) /\ r + 1 \in 1 .. n
  <2>1. PICK k \in Nat : k = Len(ls)
    BY <1>1, TextIsShort
  <2>2. PICK m \in Nat : k = m + 1 /\ m = k - 1
    <3>1. k - 1 \in Nat /\ k = (k - 1) + 1 /\ r + 1 < k
      BY <1>1, <2>1
    <3> QED
      BY <3>1
  <2>3. r < m /\ r < k /\ r + 1 < k /\ r + 1 \in 1 .. m
    BY <1>1, <2>1, <2>2
  <2> QED
    BY <2>1, <2>2, <2>3
<1>3. PICK l, x, y, w : l = Lead(ls, r) /\ x = ls[r + 1] /\ y = ls[r + 2] /\ w = Trail(ls, r + 1)
  OBVIOUS
<1>4. IsText(ls) /\ r + 1 \in Nat /\ (r + 1) + 1 = r + 2
  BY <1>1
<1>5. /\ x \in Seq(Chars) /\ y \in Seq(Chars) /\ Len(x) <= MaxLen /\ x \in Texts /\ y \in Texts
  <2>1. r + 1 \in 1 .. Len(ls) /\ r + 2 \in 1 .. Len(ls)
    BY <1>2
  <2>2. x \in Seq(Chars) /\ Len(x) \in 0 .. MaxLen /\ y \in Seq(Chars)
    BY <1>3, <1>4, <2>1, LinesAre
  <2>3. x \in Texts /\ y \in Texts
    BY <2>2, LineIsText
  <2> QED
    BY <2>2, <2>3, SizesAre
<1>6. l \in Texts /\ EndsLine(l)
  BY <1>2, <1>3, <1>4, FlatAround, Ends
<1>7. w \in Texts /\ BeginsLine(w) /\ Flat(ls) = Cat(Lead(ls, r + 1), Cat(y, w))
  <2>1. PICK q \in Nat : q = r + 1 /\ q < Len(ls) /\ q + 1 = r + 2
    BY <1>2, <1>4
  <2>2. /\ Trail(ls, q) \in Texts /\ BeginsLine(Trail(ls, q))
        /\ Flat(ls) = Cat(Lead(ls, q), Cat(ls[q + 1], Trail(ls, q)))
    BY <1>4, <2>1, FlatAround, Ends
  <2> QED
    BY <1>3, <2>1, <2>2
<1>8. Lead(ls, r + 1) = Cat(Cat(l, x), Break)
  BY <1>2, <1>3, <1>4, LeadNext
<1>9. Break \in Texts
  BY BreakType DEF Texts
<1>10. Flat(ls) = Cat(l, Cat(x, Cat(Break, Cat(y, w))))
  <2>1. PICK lx \in Texts, yw \in Texts, byw \in Texts :
          lx = Cat(l, x) /\ yw = Cat(y, w) /\ byw = Cat(Break, yw)
    BY <1>5, <1>6, <1>7, <1>9, CatLaws
  <2>2. Cat(Cat(lx, Break), yw) = Cat(lx, byw)
    BY <1>9, <2>1, CatLaws
  <2>3. Cat(lx, byw) = Cat(l, Cat(x, byw))
    BY <1>5, <1>6, <2>1, CatLaws
  <2> QED
    BY <1>7, <1>8, <2>1, <2>2, <2>3
<1>11. PICK f : f = u.lines
  OBVIOUS
<1>12. IsText(f) /\ Len(f) = n
  <2>1. r < Len(t.lines)
    BY <1>1, <1>2
  <2>2. Joined(t, r, u)
    BY <2>1, LinesJoined
  <2> QED
    BY <1>1, <1>2, <1>11, <2>2 DEF Joined
<1>13. PICK s : s = Slice(x \o y, 1, MaxLen)
  OBVIOUS
<1>14. Line(t, r) = x /\ Line(t, r + 1) = y
  BY <1>1, <1>2, <1>3, <1>4 DEF Line
<1>15. f = [j \in 1 .. n |-> IF j = r + 1 THEN s ELSE ls[IF j <= r THEN j ELSE j + 1]]
  BY <1>1, <1>2, <1>11, <1>13, <1>14 DEF Join, Tes
<1>16. f[r + 1] = s
  BY <1>2, <1>15
<1>17. Lead(f, r) = l
  <2>1. r <= Len(f) /\ r <= Len(ls)
    BY <1>2, <1>12
  <2>2. \A q \in 1 .. r : f[q] = ls[q]
    <3>1. \A q \in 1 .. r : q \in 1 .. n /\ q # r + 1 /\ q <= r
      BY <1>2
    <3> QED
      BY <1>15, <3>1
  <2> QED
    BY <1>3, <1>4, <1>12, <2>1, <2>2, LeadSame
<1>18. Trail(f, r) = w
  <2>1. PICK m \in Nat : n = r + 1 + m
    <3>1. n - (r + 1) \in Nat /\ n = r + 1 + (n - (r + 1))
      BY <1>2
    <3> QED
      BY <3>1
  <2>2. PICK q \in Nat : q = r + 1 /\ Len(ls) = q + 1 + m /\ Len(f) = r + 1 + m
    BY <1>2, <1>12, <2>1
  <2>3. \A j \in 1 .. m : f[r + 1 + j] = ls[q + 1 + j]
    <3>1. ASSUME NEW j \in 1 .. m PROVE f[r + 1 + j] = ls[q + 1 + j]
      <4>1. PICK e : e = r + 1 + j
        OBVIOUS
      <4>2. e \in 1 .. n /\ e # r + 1 /\ ~(e <= r) /\ e + 1 = q + 1 + j
        BY <2>1, <2>2, <4>1
      <4>3. f[e] = ls[e + 1]
        BY <1>15, <4>2
      <4> QED
        BY <4>1, <4>2, <4>3
    <3> QED
      BY <3>1
  <2>4. SameTail(f, r, ls, q, m)
    BY <2>2, <2>3 DEF SameTail
  <2>5. Trail(f, r) = Trail(ls, q)
    BY <1>4, <1>12, <2>4, TrailSame
  <2> QED
    BY <1>3, <2>2, <2>5
<1>19. Flat(f) = Cat(l, Cat(s, w))
  <2>1. r < Len(f)
    BY <1>2, <1>12
  <2> QED
    BY <1>12, <1>16, <1>17, <1>18, <2>1, FlatAround
<1>20. JoinedAt(t, r, u, l, x, y, w)
  BY <1>1, <1>3, <1>5, <1>6, <1>7, <1>8, <1>10, <1>11, <1>13, <1>17, <1>19 DEF JoinedAt
<1> QED
  BY <1>20

(* The cursor is left between the two lines that were joined.              *)
LEMMA BreakGoes ==
  ASSUME NEW t, OnLine(t), NEW r \in Nat, r + 1 < Len(t.lines), NEW v, v = Join(t, r),
         NEW u \in Tes, u.lines = v.lines, u.row = r, u.col = Len(t.lines[r + 1]),
         NEW p, p = Len(Lead(t.lines, r)) + Len(t.lines[r + 1]), Point(t) \in {p, p + 1}
  PROVE  OnLine(u) /\ BreakTakenOut(t, u)
<1>1. t \in Tes /\ IsText(t.lines) /\ Len(t.lines) \in Nat
  BY OnLineIs
<1>2. PICK n \in Nat : n = Len(t.lines) /\ r + 1 < n /\ r < n
  BY <1>1
<1>3. Joined(t, r, v)
  BY <1>1, <1>2, LinesJoined
<1>4. IsText(u.lines) /\ Len(u.lines) = n - 1 /\ r < Len(u.lines) /\ v \in Tes
  BY <1>2, <1>3 DEF Joined
<1>5. Line(t, r) = t.lines[r + 1] /\ Line(u, r) = Line(v, r)
  BY <1>1, <1>2 DEF Line
<1>6. Len(Line(u, r)) >= u.col /\ r < Len(v.lines)
  BY <1>3, <1>4, <1>5 DEF Joined
<1>7. OnLine(u)
  <2>1. u.col <= Len(Line(u, r))
    <3>1. Len(Line(u, r)) \in Nat
      BY <1>4, LineType
    <3>2. u.col \in Nat
      BY DEF Tes
    <3> QED
      BY <1>6, <3>1, <3>2
  <2>2. u.row < Len(u.lines) /\ u.row <= Len(u.lines) /\ u.row # Len(u.lines)
    BY <1>2, <1>4
  <2> QED
    BY <1>4, <2>1, <2>2 DEF OnLine, EditOK
<1>8. PICK l, x, y, w : JoinedAt(t, r, v, l, x, y, w)
  BY <1>1, JoinJoins
<1>9. /\ l \in Texts /\ w \in Texts /\ x \in Seq(Chars) /\ y \in Seq(Chars) /\ Len(x) <= MaxLen
      /\ l = Lead(t.lines, r) /\ x = t.lines[r + 1] /\ EndsLine(l) /\ BeginsLine(w)
      /\ Flat(t.lines) = Cat(l, Cat(x, Cat(Break, Cat(y, w))))
      /\ Lead(u.lines, r) = l /\ Flat(u.lines) = Cat(l, Cat(Slice(x \o y, 1, MaxLen), w))
  BY <1>8 DEF JoinedAt
<1>10. Point(u) = Len(l) + Len(x)
  <2>1. Point(u) = Len(Lead(u.lines, u.row)) + u.col
    BY <1>7, PointIs
  <2> QED
    BY <1>9, <2>1
<1>11. Point(t) \in {Len(l) + Len(x), Len(l) + Len(x) + 1}
  BY <1>9
<1> QED
  BY <1>7, <1>9, <1>10, <1>11 DEF BreakTakenOut

(* What a key that deletes may do: it takes out a character, or a line     *)
(* break, or nothing where there is nothing next to it.                    *)
LEMMA BackspaceTakes ==
  ASSUME NEW t, OnLine(t), NEW u, u = DeleteBefore(t)
  PROVE  OnLine(u) /\ (u = t \/ TakenOut(t, u) \/ BreakTakenOut(t, u))
<1>1. /\ t \in Tes /\ IsText(t.lines) /\ t.row \in Nat /\ t.col \in Nat /\ Len(t.lines) \in Nat
      /\ t.row < Len(t.lines) /\ Line(t, t.row) = t.lines[t.row + 1]
      /\ t.col \in 0 .. Len(t.lines[t.row + 1])
  BY OnLineIs
<1>2. CASE t.col > 0
  <2>1. PICK i \in 1 .. Len(Line(t, t.row)), c \in Nat : i = t.col /\ c = i - 1
    <3>1. t.col \in 1 .. Len(Line(t, t.row)) /\ t.col - 1 \in Nat
      BY <1>1, <1>2
    <3> QED
      BY <3>1
  <2>2. u = Without(t, i, c)
    BY <1>2, <2>1 DEF DeleteBefore, Without
  <2>3. OnLine(u) /\ TakenOut(t, u)
    BY <2>1, <2>2, CharTakenOut
  <2> QED
    BY <2>3
<1>3. CASE ~(t.col > 0) /\ t.row > 0
  <2>1. PICK r \in Nat : r = t.row - 1 /\ r + 1 = t.row /\ r < Len(t.lines)
    <3>1. t.row - 1 \in Nat /\ (t.row - 1) + 1 = t.row /\ t.row - 1 < Len(t.lines)
      BY <1>1, <1>3
    <3> QED
      BY <3>1
  <2>2. PICK v : v = Join(t, r)
    OBVIOUS
  <2>3. PICK x : x = t.lines[r + 1] /\ x = Line(t, r) /\ Len(x) \in Nat
    BY <1>1, <2>1, LineType
  <2>4. u = [v EXCEPT !.row = r, !.col = Len(x)]
    BY <1>3, <2>1, <2>2, <2>3 DEF DeleteBefore, At
  <2>5. u \in Tes /\ u.lines = v.lines /\ u.row = r /\ u.col = Len(x)
    <3>1. v \in Tes
      BY <1>1, <2>1, <2>2, LinesJoined DEF Joined
    <3> QED
      BY <2>1, <2>3, <2>4, <3>1 DEF Tes
  <2>6. PICK p, l : l = Lead(t.lines, r) /\ p = Len(l) + Len(x)
    OBVIOUS
  <2>7. Point(t) = p + 1
    <3>1. Lead(t.lines, t.row) = Cat(Cat(l, x), Break)
      BY <1>1, <2>1, <2>3, <2>6, LeadNext
    <3>2. l \in Texts /\ x \in Texts
      BY <1>1, <2>1, <2>3, <2>6, FlatAround
    <3>3. Break \in Texts /\ Len(Break) = 1
      BY BreakType DEF Texts
    <3>4. PICK lx \in Texts : lx = Cat(l, x) /\ Len(lx) = Len(l) + Len(x)
      <4>1. Glued(l, x, Cat(l, x))
        BY <3>2, CatIs
      <4> QED
        BY <4>1 DEF Glued
    <3>5. Len(Cat(lx, Break)) = Len(lx) + 1
      <4>1. Glued(lx, Break, Cat(lx, Break))
        BY <3>3, CatIs
      <4> QED
        BY <3>3, <4>1 DEF Glued
    <3>6. Point(t) = Len(Cat(lx, Break)) + t.col
      BY <3>1, <3>4, PointIs
    <3>7. t.col = 0
      BY <1>1, <1>3
    <3>8. Len(lx) \in Nat
      BY LenIsNat
    <3> QED
      BY <2>6, <3>4, <3>5, <3>6, <3>7, <3>8
  <2>8. r + 1 < Len(t.lines) /\ Point(t) \in {p, p + 1}
    BY <1>1, <2>1, <2>7
  <2>9. OnLine(u) /\ BreakTakenOut(t, u)
    BY <2>2, <2>3, <2>5, <2>6, <2>8, BreakGoes
  <2> QED
    BY <2>9
<1>4. CASE ~(t.col > 0) /\ ~(t.row > 0)
  BY <1>4 DEF DeleteBefore
<1> QED
  BY <1>2, <1>3, <1>4

LEMMA DeleteTakes ==
  ASSUME NEW t, OnLine(t), NEW u, u = DeleteAt(t)
  PROVE  OnLine(u) /\ (u = t \/ TakenOut(t, u) \/ BreakTakenOut(t, u))
<1>1. /\ t \in Tes /\ IsText(t.lines) /\ t.row \in Nat /\ t.col \in Nat /\ Len(t.lines) \in Nat
      /\ t.row < Len(t.lines) /\ Line(t, t.row) = t.lines[t.row + 1]
      /\ t.col \in 0 .. Len(t.lines[t.row + 1])
  BY OnLineIs
<1>2. CASE t.col < Len(Line(t, t.row))
  <2>1. PICK i \in 1 .. Len(Line(t, t.row)), c \in Nat : i = t.col + 1 /\ c = i - 1 /\ c = t.col
    <3>1. t.col + 1 \in 1 .. Len(Line(t, t.row)) /\ t.col = (t.col + 1) - 1
      BY <1>1, <1>2
    <3> QED
      BY <1>1, <3>1
  <2>2. u = Without(t, i, c)
    BY <1>1, <1>2, <2>1 DEF DeleteAt, Without, Tes
  <2>3. OnLine(u) /\ TakenOut(t, u)
    BY <2>1, <2>2, CharTakenOut
  <2> QED
    BY <2>3
<1>3. CASE ~(t.col < Len(Line(t, t.row))) /\ t.row < Len(t.lines) - 1
  <2>1. PICK r \in Nat : r = t.row /\ r + 1 < Len(t.lines)
    BY <1>1, <1>3
  <2>2. PICK x : x = t.lines[r + 1] /\ t.col = Len(x)
    BY <1>1, <1>3, <2>1
  <2>3. u = Join(t, r)
    BY <1>3, <2>1 DEF DeleteAt
  <2>4. u \in Tes /\ u.row = r /\ u.col = Len(x)
    <3>1. r < Len(t.lines)
      BY <1>1, <2>1
    <3>2. Joined(t, r, u)
      BY <1>1, <2>1, <2>3, <3>1, LinesJoined
    <3> QED
      BY <2>1, <2>2, <3>2 DEF Joined
  <2>5. PICK p : p = Len(Lead(t.lines, r)) + Len(x) /\ Point(t) = p
    BY <2>1, <2>2, PointIs
  <2>6. OnLine(u) /\ BreakTakenOut(t, u)
    BY <2>1, <2>2, <2>3, <2>4, <2>5, BreakGoes
  <2> QED
    BY <2>6
<1>4. CASE ~(t.col < Len(Line(t, t.row))) /\ ~(t.row < Len(t.lines) - 1)
  BY <1>4 DEF DeleteAt
<1> QED
  BY <1>2, <1>3, <1>4

(* A line break is put in, where there is room for another line.           *)
LEMMA BreakPutIn ==
  ASSUME NEW t, OnLine(t), NEW u, u = InsertNewline(t)
  PROVE  OnLine(u) /\ (u = t \/ PutIn(t, u, Break))
<1>1. CASE Len(t.lines) >= MaxLines
  BY <1>1 DEF InsertNewline
<1>2. CASE ~(Len(t.lines) >= MaxLines)
  <2>1. /\ t \in Tes /\ IsText(t.lines) /\ t.row \in Nat /\ t.col \in Nat /\ Len(t.lines) \in Nat
        /\ t.row < Len(t.lines) /\ EditOK(t)
    BY OnLineIs DEF OnLine
  <2>2. PICK n \in Nat, r \in Nat : n = Len(t.lines) /\ r = t.row /\ r < n
    BY <2>1
  <2>3. PICK b, a, ls : b = Before(t) /\ a = After(t) /\ ls = t.lines
    OBVIOUS
  <2>4. PICK f : f = [j \in 1 .. n + 1 |->
                       IF j <= r THEN ls[j]
                       ELSE IF j = r + 1 THEN b
                       ELSE IF j = r + 2 THEN a
                       ELSE ls[j - 1]]
    OBVIOUS
  <2>5. u = [t EXCEPT !.lines = f, !.row = r + 1, !.col = 0]
    BY <1>2, <2>2, <2>3, <2>4 DEF InsertNewline
  <2>6. u.lines = f /\ u.row = r + 1 /\ u.col = 0
    BY <2>1, <2>5 DEF Tes
  <2>7. EditOK(u) /\ IsText(f) /\ u \in Tes
    <3>1. EditOK(u)
      BY <2>1, NewlineInserted DEF Edited
    <3> QED
      BY <2>6, <3>1 DEF EditOK
  <2>8. Len(f) = n + 1
    <3>1. DOMAIN f = 1 .. n + 1
      BY <2>4
    <3>2. f \in Seq(Seq(Chars))
      BY <2>6, <2>7 DEF Tes
    <3>3. Len(f) \in Nat /\ DOMAIN f = 1 .. Len(f)
      BY <3>2
    <3>4. n + 1 \in Nat
      BY <2>2
    <3> QED
      BY <3>1, <3>3, <3>4
  <2>9. r + 1 < Len(f) /\ r < Len(f) /\ r <= Len(f) /\ r <= Len(ls)
    BY <2>2, <2>3, <2>8
  <2>10. OnLine(u)
    BY <2>6, <2>7, <2>9 DEF OnLine
  <2>11. PICK l, x, w : Held(t, l, x, w)
    BY EveryOneHeld
  <2>12. /\ l \in Texts /\ w \in Texts /\ x \in Texts /\ Flat(ls) = Cat(l, Cat(x, w))
         /\ l = Lead(ls, r) /\ w = Trail(ls, r) /\ Point(t) = Len(l) + t.col
    BY <2>2, <2>3, <2>11 DEF Held
  <2>13. b \in Texts /\ a \in Texts /\ x = Cat(b, a) /\ Len(b) = t.col
    BY <2>3, <2>11, LineCut
  <2>14. f[r + 1] = b /\ f[r + 2] = a
    <3>1. r + 1 \in 1 .. n + 1 /\ ~(r + 1 <= r) /\ r + 2 \in 1 .. n + 1 /\ ~(r + 2 <= r)
          /\ r + 2 # r + 1
      BY <2>2
    <3> QED
      BY <2>4, <3>1
  <2>15. Lead(f, r) = l
    <3>1. \A q \in 1 .. r : f[q] = ls[q]
      <4>1. \A q \in 1 .. r : q \in 1 .. n + 1 /\ q <= r
        BY <2>2
      <4> QED
        BY <2>4, <4>1
    <3> QED
      BY <2>1, <2>3, <2>7, <2>9, <2>12, <3>1, LeadSame
  <2>16. PICK s \in Nat : s = r + 1 /\ s + 1 = r + 2 /\ s < Len(f)
    BY <2>9
  <2>17. Trail(f, s) = w
    <3>1. PICK m \in Nat : n = r + 1 + m
      <4>1. n - (r + 1) \in Nat /\ n = r + 1 + (n - (r + 1))
        BY <2>2
      <4> QED
        BY <4>1
    <3>2. Len(f) = s + 1 + m /\ Len(ls) = r + 1 + m
      BY <2>2, <2>3, <2>8, <2>16, <3>1
    <3>3. \A j \in 1 .. m : f[s + 1 + j] = ls[r + 1 + j]
      <4>1. ASSUME NEW j \in 1 .. m PROVE f[s + 1 + j] = ls[r + 1 + j]
        <5>1. PICK e : e = s + 1 + j
          OBVIOUS
        <5>2. e \in 1 .. n + 1 /\ ~(e <= r) /\ e # r + 1 /\ e # r + 2 /\ e - 1 = r + 1 + j
          <6>1. j \in Nat /\ 1 <= j /\ j <= m /\ e = r + 2 + j
            BY <2>2, <2>16, <5>1
          <6>2. r \in Nat /\ m \in Nat /\ n = r + 1 + m
            BY <2>2, <3>1
          <6> QED
            BY <6>1, <6>2
        <5>3. f[e] = ls[e - 1]
          BY <2>4, <5>2
        <5> QED
          BY <5>1, <5>2, <5>3
      <4> QED
        BY <4>1
    <3>4. SameTail(f, s, ls, r, m)
      BY <3>2, <3>3 DEF SameTail
    <3> QED
      BY <2>1, <2>3, <2>7, <2>12, <3>2, <3>4, TrailSame
  <2>18. Break \in Texts /\ Len(Break) = 1
    BY BreakType DEF Texts
  <2>19. PICK lb \in Texts, aw \in Texts : lb = Cat(l, b) /\ aw = Cat(a, w) /\ Glued(l, b, lb)
    BY <2>12, <2>13, CatIs, CatLaws
  <2>20. Lead(f, s) = Cat(lb, Break)
    BY <2>7, <2>9, <2>14, <2>15, <2>16, <2>19, LeadNext
  <2>21. Flat(f) = Cat(lb, Cat(Break, aw))
    <3>1. Flat(f) = Cat(Lead(f, s), Cat(f[s + 1], Trail(f, s)))
      BY <2>7, <2>16, FlatAround
    <3>2. Flat(f) = Cat(Cat(lb, Break), aw)
      BY <2>14, <2>16, <2>17, <2>19, <2>20, <3>1
    <3> QED
      BY <2>18, <3>2, CatLaws
  <2>22. Flat(ls) = Cat(lb, aw)
    <3>1. Cat(x, w) = Cat(b, aw)
      BY <2>12, <2>13, <2>19, CatLaws
    <3>2. Cat(l, Cat(b, aw)) = Cat(lb, aw)
      BY <2>12, <2>13, <2>19, CatLaws
    <3> QED
      BY <2>12, <3>1, <3>2
  <2>23. Point(t) = Len(lb)
    BY <2>12, <2>13, <2>19 DEF Glued
  <2>24. Point(u) = Len(lb) + Len(Break)
    <3>1. Point(u) = Len(Lead(f, s)) + 0
      BY <2>6, <2>10, <2>16, PointIs
    <3>2. Glued(lb, Break, Cat(lb, Break))
      BY <2>18, CatIs
    <3>3. Len(Lead(f, s)) = Len(lb) + 1 /\ Len(lb) \in Nat
      BY <2>18, <2>20, <3>2, LenIsNat DEF Glued
    <3> QED
      BY <2>18, <3>1, <3>3
  <2>25. PutIn(t, u, Break)
    BY <2>3, <2>6, <2>21, <2>22, <2>23, <2>24 DEF PutIn
  <2> QED
    BY <2>10, <2>25
<1> QED
  BY <1>1, <1>2

(***************************************************************************)
(* One key                                                                 *)
(***************************************************************************)
LEMMA MoveStays ==
  ASSUME NEW t, OnLine(t), NEW k \in Moves, NEW u, u = Move(t, k)
  PROVE  OnLine(u) /\ Moved(t, u)
<1>1. /\ t \in Tes /\ t.row \in Nat /\ Len(t.lines) \in Nat /\ t.row < Len(t.lines) /\ EditOK(t)
  BY OnLineIs DEF OnLine
<1>2. PICK n \in Nat, q \in Nat : n = Len(t.lines) /\ q = t.row /\ q < n
  BY <1>1
<1>3. u = t \/ \E r \in Nat : \E c : r < n /\ u = At(t, r, c)
  <2>1. CASE k = "up"
    <3>1. CASE q > 0
      <4>1. Move(t, k) = ToRow(t, Min({q, n}) - 1)
        BY <1>2, <2>1, <3>1 DEF Move
      <4>2. Min({q, n}) = q
        BY <1>2, Min2
      <4>3. q - 1 \in Nat /\ q - 1 < n
        BY <1>2, <3>1
      <4> QED
        BY <4>1, <4>2, <4>3 DEF ToRow
    <3>2. CASE ~(q > 0)
      BY <1>2, <2>1, <3>2 DEF Move
    <3> QED
      BY <3>1, <3>2
  <2>2. CASE k = "down"
    <3>1. CASE q < n - 1
      <4>1. Move(t, k) = ToRow(t, q + 1)
        BY <1>2, <2>2, <3>1 DEF Move
      <4>2. q + 1 \in Nat /\ q + 1 < n
        BY <1>2, <3>1
      <4> QED
        BY <4>1, <4>2 DEF ToRow
    <3>2. CASE ~(q < n - 1)
      BY <1>2, <2>2, <3>2 DEF Move
    <3> QED
      BY <3>1, <3>2
  <2>3. CASE k = "left"
    <3>1. CASE t.col > 0
      BY <1>2, <2>3, <3>1 DEF Move
    <3>2. CASE ~(t.col > 0) /\ q > 0
      <4>1. Move(t, k) = At(t, q - 1, Len(Line(t, q - 1)))
        BY <1>2, <2>3, <3>2 DEF Move
      <4>2. q - 1 \in Nat /\ q - 1 < n
        BY <1>2, <3>2
      <4> QED
        BY <4>1, <4>2
    <3>3. CASE ~(t.col > 0) /\ ~(q > 0)
      BY <1>2, <2>3, <3>3 DEF Move
    <3> QED
      BY <3>1, <3>2, <3>3
  <2>4. CASE k = "right"
    <3>1. CASE t.col < Len(Line(t, t.row))
      BY <1>2, <2>4, <3>1 DEF Move
    <3>2. CASE ~(t.col < Len(Line(t, t.row))) /\ q < n - 1
      <4>1. Move(t, k) = At(t, q + 1, 0)
        BY <1>2, <2>4, <3>2 DEF Move
      <4>2. q + 1 \in Nat /\ q + 1 < n
        BY <1>2, <3>2
      <4> QED
        BY <4>1, <4>2
    <3>3. CASE ~(t.col < Len(Line(t, t.row))) /\ ~(q < n - 1)
      BY <1>2, <2>4, <3>3 DEF Move
    <3> QED
      BY <3>1, <3>2, <3>3
  <2>5. CASE k = "home"
    BY <1>2, <2>5 DEF Move
  <2>6. CASE k = "end"
    BY <1>2, <2>6 DEF Move
  <2> QED
    BY <2>1, <2>2, <2>3, <2>4, <2>5, <2>6 DEF Moves
<1>4. u.lines = t.lines /\ u.row < n
  <2>1. CASE u = t
    BY <1>2, <2>1
  <2>2. ASSUME NEW r \in Nat, NEW c, r < n, u = At(t, r, c)
        PROVE  u.lines = t.lines /\ u.row < n
    BY <1>1, <2>2 DEF At, Tes
  <2> QED
    BY <1>3, <2>1, <2>2
<1>5. OnLine(u)
  <2>1. EditOK(u)
    BY <1>1, MoveKeeps DEF Edited
  <2> QED
    BY <1>2, <1>4, <2>1 DEF OnLine
<1> QED
  BY <1>4, <1>5, CursorStays

KeyStep(t, u) ==
  \/ Moved(t, u)
  \/ \E m \in 0 .. MaxLen, c \in Chars : PutIn(t, u, [j \in 1 .. m |-> c])
  \/ PutIn(t, u, Break)
  \/ TakenOut(t, u)
  \/ BreakTakenOut(t, u)

LEMMA KeySteps ==
  ASSUME NEW t, OnLine(t), NEW k \in Keys, NEW u, u = Applied(t, k)
  PROVE  OnLine(u) /\ KeyStep(t, u)
<1>1. CASE u = t
  <2>1. Moved(t, u)
    BY <1>1, CursorStays
  <2> QED
    BY <1>1, <2>1 DEF KeyStep
<1>2. CASE k \in Moves
  <2>1. u = Move(t, k)
    BY <1>2, AppliedIs
  <2> QED
    BY <1>2, <2>1, MoveStays DEF KeyStep
<1>3. CASE k = "delete"
  <2>1. u = DeleteAt(t)
    BY <1>3, AppliedIs
  <2> QED
    BY <1>1, <2>1, DeleteTakes DEF KeyStep
<1>4. CASE k = "backspace"
  <2>1. u = DeleteBefore(t)
    BY <1>4, AppliedIs
  <2> QED
    BY <1>1, <2>1, BackspaceTakes DEF KeyStep
<1>5. CASE k = "enter"
  <2>1. u = InsertNewline(t)
    BY <1>5, AppliedIs
  <2> QED
    BY <1>1, <2>1, BreakPutIn DEF KeyStep
<1>6. CASE k = "tab"
  <2>1. PICK c \in Chars, n \in Nat : c = Space /\ n = TabWidth /\ u = InsertChar(t, c, n)
    BY <1>6, AppliedIs, WindowAssumption
  <2>2. OnLine(u) /\ \E m \in 0 .. MaxLen : PutIn(t, u, [j \in 1 .. m |-> c])
    BY <2>1, CharsPutIn
  <2>3. KeyStep(t, u)
    BY <2>2 DEF KeyStep
  <2> QED
    BY <2>2, <2>3
<1>7. CASE k \in Chars
  <2>1. PICK c \in Chars, n \in Nat : u = InsertChar(t, c, n)
    BY <1>7, AppliedIs
  <2>2. OnLine(u) /\ \E m \in 0 .. MaxLen : PutIn(t, u, [j \in 1 .. m |-> c])
    BY <2>1, CharsPutIn
  <2>3. KeyStep(t, u)
    BY <2>2 DEF KeyStep
  <2> QED
    BY <2>2, <2>3
<1>8. CASE k = "unhandled"
  BY <1>1, <1>8, AppliedIs
<1> QED
  BY <1>2, <1>3, <1>4, <1>5, <1>6, <1>7, <1>8 DEF Keys, Named

(***************************************************************************)
(* Every step is a step of the text                                        *)
(***************************************************************************)
TextStep == Promise!TextNext \/ UNCHANGED <<Flat(te.lines), Point(te)>>

LEMMA SameText ==
  ASSUME te'.lines = te.lines, te'.row = te.row, te'.col = te.col
  PROVE  TextStep
<1>1. Flat(te'.lines) = Flat(te.lines) /\ Point(te') = Point(te)
  BY DEF Point
<1> QED
  BY <1>1 DEF TextStep

LEMMA TextMoves ==
  ASSUME OnLine(te), OnLine(te'), te'.lines = te.lines
  PROVE  TextStep
<1>1. PICK t, u : t = te /\ u = te'
  OBVIOUS
<1>2. Moved(t, u)
  BY <1>1, CursorStays
<1>3. Point(te') \in 0 .. Len(Flat(te.lines)) /\ Flat(te'.lines) = Flat(te.lines)
  BY <1>1, <1>2 DEF Moved
<1> QED
  BY <1>3 DEF TextStep, Promise!TextNext, Promise!MovePoint

LEMMA CharsInsert ==
  ASSUME NEW t, Flat(t.lines) = Flat(te.lines), Point(t) = Point(te),
         NEW u, u = te', NEW m \in 0 .. MaxLen, NEW c \in Chars, PutIn(t, u, [j \in 1 .. m |-> c])
  PROVE  TextStep
<1>1. PICK s : s = [j \in 1 .. m |-> c]
  OBVIOUS
<1>2. m \in Nat
  BY SizesAre
<1>3. s \in Texts /\ Len(s) = m
  <2>1. s \in Seq(Chars) /\ Len(s) = m
    BY <1>1, <1>2
  <2> QED
    BY <2>1, LineIsText
<1>4. PICK a \in Texts, b \in Texts :
        /\ Flat(te.lines) = Cat(a, b) /\ Point(te) = Len(a)
        /\ Flat(te'.lines) = Cat(a, Cat(s, b)) /\ Point(te') = Len(a) + Len(s)
  BY <1>1 DEF PutIn
<1>5. CASE m = 0
  <2>1. s = <<>>
    BY <1>3, <1>5 DEF Texts
  <2>2. Flat(te'.lines) = Flat(te.lines)
    BY <1>4, <2>1, CatLaws
  <2>3. Point(te') = Point(te)
    <3>1. Len(a) \in Nat
      BY LenIsNat
    <3> QED
      BY <1>3, <1>4, <1>5, <3>1
  <2> QED
    BY <2>2, <2>3 DEF TextStep
<1>6. CASE m # 0
  <2>1. Promise!Insert(s)
    BY <1>3, <1>4, Inserts
  <2>2. m \in 1 .. MaxLen
    BY <1>2, <1>6, SizesAre
  <2>3. Promise!TextNext
    BY <1>1, <2>1, <2>2 DEF Promise!TextNext
  <2> QED
    BY <2>3 DEF TextStep
<1> QED
  BY <1>5, <1>6

LEMMA StepOfText ==
  ASSUME NEW t, Flat(t.lines) = Flat(te.lines), Point(t) = Point(te),
         NEW u, u = te', KeyStep(t, u)
  PROVE  TextStep
<1>1. CASE Moved(t, u)
  <2>1. Flat(te'.lines) = Flat(te.lines) /\ Point(te') \in 0 .. Len(Flat(te.lines))
    BY <1>1 DEF Moved
  <2> QED
    BY <2>1 DEF TextStep, Promise!TextNext, Promise!MovePoint
<1>2. ASSUME NEW m \in 0 .. MaxLen, NEW c \in Chars, PutIn(t, u, [j \in 1 .. m |-> c])
      PROVE  TextStep
  BY <1>2, CharsInsert
<1>3. CASE PutIn(t, u, Break)
  <2>1. Break \in Texts
    BY BreakType DEF Texts
  <2>2. PICK a \in Texts, b \in Texts :
          /\ Flat(te.lines) = Cat(a, b) /\ Point(te) = Len(a)
          /\ Flat(te'.lines) = Cat(a, Cat(Break, b)) /\ Point(te') = Len(a) + Len(Break)
    BY <1>3 DEF PutIn
  <2>3. Promise!Insert(Break)
    BY <2>1, <2>2, Inserts
  <2> QED
    BY <2>3 DEF Break, TextStep, Promise!TextNext
<1>4. CASE TakenOut(t, u)
  <2>1. PICK a \in Texts, b \in Texts, c \in Chars :
          /\ Flat(te.lines) = Cat(a, Cat(<<c>>, b)) /\ Point(te) \in {Len(a), Len(a) + 1}
          /\ Flat(te'.lines) = Cat(a, b) /\ Point(te') = Len(a)
    BY <1>4 DEF TakenOut
  <2>2. Promise!TextNext
    BY <2>1, RemovesChar
  <2> QED
    BY <2>2 DEF TextStep
<1>5. CASE BreakTakenOut(t, u)
  <2>1. PICK l \in Texts, w \in Texts, x \in Seq(Chars), y \in Seq(Chars) :
          /\ EndsLine(l) /\ BeginsLine(w) /\ Len(x) <= MaxLen
          /\ Flat(te.lines) = Cat(l, Cat(x, Cat(Break, Cat(y, w))))
          /\ Point(te) \in {Len(l) + Len(x), Len(l) + Len(x) + 1}
          /\ Flat(te'.lines) = Cat(l, Cat(Slice(x \o y, 1, MaxLen), w))
          /\ Point(te') = Len(l) + Len(x)
    BY <1>5 DEF BreakTakenOut
  <2>2. Promise!TextNext
    BY <2>1, RemovesBreak
  <2> QED
    BY <2>2 DEF TextStep
<1> QED
  BY <1>1, <1>2, <1>3, <1>4, <1>5 DEF KeyStep

LEMMA KeyText ==
  ASSUME Right, OnLine(te), NEW k \in Keys, Key(k)
  PROVE  OnLine(te') /\ TextStep
<1>1. PICK t : t = [te EXCEPT !.shown = TRUE]
  OBVIOUS
<1>2. te \in Tes /\ EditOK(te) /\ te.row < Len(te.lines)
  BY DEF OnLine, EditOK
<1>3. t.lines = te.lines /\ t.row = te.row /\ t.col = te.col
  BY <1>1, <1>2 DEF Tes
<1>4. OnLine(t)
  <2>1. WithBar(te, TRUE, t)
    BY <1>1 DEF WithBar
  <2>2. EditOK(t)
    BY <1>2, <2>1, BarOnly
  <2> QED
    BY <1>2, <1>3, <2>2 DEF OnLine
<1>5. Flat(t.lines) = Flat(te.lines) /\ Point(t) = Point(te)
  BY <1>3 DEF Point
<1>6. PICK u : u = te' /\ u = Applied(t, k)
  BY <1>1 DEF Key
<1>7. OnLine(u) /\ KeyStep(t, u)
  BY <1>4, <1>6, KeySteps
<1>8. TextStep
  BY <1>5, <1>6, <1>7, StepOfText
<1> QED
  BY <1>6, <1>7, <1>8

(* What scrolls leaves the text and the cursor.                            *)
LEMMA ScrollLeaves ==
  ASSUME NEW t, EditOK(t), NEW u, u = ClampScroll(t)
  PROVE  EditOK(u) /\ u.lines = t.lines /\ u.row = t.row /\ u.col = t.col
<1>1. EditOK(u) /\ u = [t EXCEPT !.hscroll = u.hscroll, !.vscroll = u.vscroll]
  BY Clamped
<1>2. t \in Tes
  BY DEF EditOK
<1> QED
  BY <1>1, <1>2 DEF Tes

LEMMA FinishLeaves ==
  ASSUME NEW t, EditOK(t), NEW d, FinishEdit(t, d)
  PROVE  EditOK(te') /\ te'.lines = t.lines /\ te'.row = t.row /\ te'.col = t.col
<1>1. PICK w : w = EnsureCursorVisible(t)
  OBVIOUS
<1>2. EditOK(w)
  BY <1>1, MadeVisible
<1>3. w.lines = t.lines /\ w.row = t.row /\ w.col = t.col
  BY <1>1 DEF EnsureCursorVisible, EditOK, Tes
<1>4. PICK u : u = ClampScroll(w) /\ te' = u
  BY <1>1 DEF FinishEdit
<1>5. EditOK(u) /\ u.lines = w.lines /\ u.row = w.row /\ u.col = w.col
  BY <1>2, <1>4, ScrollLeaves
<1> QED
  BY <1>3, <1>4, <1>5

LEMMA DrainedText == OnLine(te) /\ Drained => OnLine(te') /\ TextStep
<1> SUFFICES ASSUME OnLine(te), Drained PROVE OnLine(te') /\ TextStep
  OBVIOUS
<1>1. PICK t, d : t = te /\ d = batch
  OBVIOUS
<1>2. EditOK(t) /\ FinishEdit(t, d) /\ t.row < Len(t.lines)
  BY <1>1 DEF OnLine, Drained
<1>3. EditOK(te') /\ te'.lines = t.lines /\ te'.row = t.row /\ te'.col = t.col
  BY <1>2, FinishLeaves
<1>4. OnLine(te')
  BY <1>2, <1>3 DEF OnLine
<1>5. TextStep
  BY <1>1, <1>3, SameText
<1> QED
  BY <1>4, <1>5

LEMMA ClickText ==
  ASSUME OnLine(te), Right', NEW sr \in Nat, NEW sc, Click(sr, sc), te.vscroll \in Nat
  PROVE  OnLine(te') /\ TextStep
<1>1. te \in Tes /\ EditOK(te) /\ te.row < Len(te.lines) /\ Len(te.lines) \in Nat /\ te.row \in Nat
  BY OnLineIs DEF OnLine
<1>2. PICK n \in Nat, q \in Nat : n = Len(te.lines) /\ q = te.vscroll + sr /\ n > 0
  BY <1>1
<1>3. PICK r : r = AtLeast0(Min({te.vscroll + sr, Len(te.lines) - 1}))
  OBVIOUS
<1>4. r \in Nat /\ r < n
  <2>1. Min({q, n - 1}) = IF q <= n - 1 THEN q ELSE n - 1
    BY <1>2, Min2
  <2> QED
    BY <1>2, <1>3, <2>1 DEF AtLeast0
<1>5. PICK c, t : /\ c = Min({te.hscroll + sc, Len(Line(te, r))})
                  /\ t = [At(te, r, c) EXCEPT !.shown = TRUE]
  OBVIOUS
<1>6. PICK w, u : w = EnsureCursorVisible(t) /\ u = ClampScroll(w) /\ te' = u
  BY <1>3, <1>5 DEF Click, FinishEdit
<1>7. te'.lines = te.lines /\ te'.row = r
  <2>1. u.lines = w.lines /\ u.row = w.row
    BY <1>6 DEF ClampScroll
  <2> QED
    BY <1>5, <1>6, <2>1 DEF At, EnsureCursorVisible
<1>8. OnLine(te')
  <2>1. EditOK(te')
    BY DEF Right
  <2> QED
    BY <1>2, <1>4, <1>7, <2>1 DEF OnLine
<1> QED
  BY <1>7, <1>8, TextMoves

LEMMA BlinkText == OnLine(te) /\ Right' /\ Blink => OnLine(te') /\ TextStep
<1> SUFFICES ASSUME OnLine(te), Right', Blink PROVE OnLine(te') /\ TextStep
  OBVIOUS
<1>1. te \in Tes /\ te.row < Len(te.lines)
  BY OnLineIs
<1>2. te'.lines = te.lines /\ te'.row = te.row /\ te'.col = te.col
  BY <1>1 DEF Blink, Tes
<1>3. OnLine(te')
  BY <1>1, <1>2 DEF Right, OnLine
<1>4. TextStep
  BY <1>2, SameText
<1> QED
  BY <1>3, <1>4

LEMMA ViewText ==
  ASSUME OnLine(te), Right', NEW h, NEW v, NEW t, ScrolledTo(te, h, v, t), Rescroll(t)
  PROVE  OnLine(te') /\ TextStep
<1>1. te \in Tes /\ te.row < Len(te.lines)
  BY OnLineIs
<1>2. t.lines = te.lines /\ t.row = te.row /\ t.col = te.col
  BY <1>1 DEF ScrolledTo, Tes
<1>3. te' = ClampScroll(t)
  BY DEF Rescroll
<1>4. te'.lines = t.lines /\ te'.row = t.row /\ te'.col = t.col
  BY <1>1, <1>3 DEF ScrolledTo, ClampScroll, Tes
<1>5. OnLine(te')
  BY <1>1, <1>2, <1>4 DEF Right, OnLine
<1>6. TextStep
  BY <1>2, <1>4, SameText
<1> QED
  BY <1>5, <1>6

LEMMA ArrowedText == OnLine(te) /\ Right' /\ Arrowed => OnLine(te') /\ TextStep
<1> SUFFICES ASSUME OnLine(te), Right', Arrowed PROVE OnLine(te') /\ TextStep
  OBVIOUS
<1>1. te \in Tes
  BY OnLineIs
<1>2. PICK h, v, t : ScrolledTo(te, h, v, t) /\ Rescroll(t)
  <2>1. ASSUME NEW d, Rescroll([te EXCEPT !.vscroll = @ + d])
        PROVE  \E h, v, t : ScrolledTo(te, h, v, t) /\ Rescroll(t)
    <3>1. PICK t : t = [te EXCEPT !.vscroll = @ + d]
      OBVIOUS
    <3>2. ScrolledTo(te, te.hscroll, te.vscroll + d, t)
      BY <1>1, <3>1 DEF ScrolledTo, Tes
    <3> QED
      BY <2>1, <3>1, <3>2
  <2>2. ASSUME NEW d, Rescroll([te EXCEPT !.hscroll = @ + d])
        PROVE  \E h, v, t : ScrolledTo(te, h, v, t) /\ Rescroll(t)
    <3>1. PICK t : t = [te EXCEPT !.hscroll = @ + d]
      OBVIOUS
    <3>2. ScrolledTo(te, te.hscroll + d, te.vscroll, t)
      BY <1>1, <3>1 DEF ScrolledTo, Tes
    <3> QED
      BY <2>2, <3>1, <3>2
  <2>3. \/ \E d \in {-Rows, -1, 1, Rows} : Rescroll([te EXCEPT !.vscroll = @ + d])
        \/ \E d \in {-Cols, -1, 1, Cols} : Rescroll([te EXCEPT !.hscroll = @ + d])
    BY DEF Arrowed
  <2> QED
    BY <2>1, <2>2, <2>3
<1> QED
  BY <1>2, ViewText

LEMMA SlidText == ASSUME OnLine(te), Right', NEW pos, Slid(pos) PROVE OnLine(te') /\ TextStep
<1>1. te \in Tes
  BY OnLineIs
<1>2. PICK h, v : h = (pos * HMax(te)) \div 1000 /\ v = (pos * VMax(te)) \div 1000
  OBVIOUS
<1>3. PICK t, u : t = [te EXCEPT !.vscroll = v] /\ u = [te EXCEPT !.hscroll = h]
  OBVIOUS
<1>4. Rescroll(t) \/ Rescroll(u)
  BY <1>2, <1>3 DEF Slid
<1>5. ScrolledTo(te, te.hscroll, v, t) /\ ScrolledTo(te, h, te.vscroll, u)
  BY <1>1, <1>3 DEF ScrolledTo, Tes
<1> QED
  BY <1>4, <1>5, ViewText

LEMMA ExposedText ==
  ASSUME OnLine(te), NEW first, NEW last, Exposed(first, last)
  PROVE  OnLine(te') /\ TextStep
<1>1. te' = te
  BY DEF Exposed
<1>2. TextStep
  BY <1>1, SameText
<1> QED
  BY <1>1, <1>2

(* A new text: the cursor is before its first character, or there is none. *)
OnNew(u) == OnLine(u) \/ u.lines = <<>>

LEMMA FreshIs ==
  ASSUME NEW ls, IsText(ls), NEW u, u = ClampScroll(Fresh(ls))
  PROVE  /\ u.lines = ls /\ (ls # <<>> => OnLine(u))
         /\ Flat(u.lines) \in Seq(Chars \cup {LF}) /\ Point(u) = 0
<1>1. PICK t : t = Fresh(ls)
  OBVIOUS
<1>2. EditOK(t) /\ t.lines = ls
  BY <1>1, FreshOK
<1>3. t.row = 0 /\ t.col = 0
  BY <1>1 DEF Fresh
<1>4. EditOK(u) /\ u.lines = ls /\ u.row = 0 /\ u.col = 0
  BY <1>1, <1>2, <1>3, ScrollLeaves
<1>5. ls # <<>> => OnLine(u)
  <2>1. ls \in Seq(Seq(Chars))
    BY DEF IsText
  <2>2. ls # <<>> => Len(ls) \in Nat /\ Len(ls) # 0
    BY <2>1
  <2> QED
    BY <1>4, <2>2 DEF OnLine
<1>6. Point(u) = 0
  <2>1. SubSeq(u.lines, 1, 0) = <<>>
    BY SubSeqEmpty
  <2>2. Flat(<<>>) = <<>>
    BY FlatEmpty
  <2>3. PICK k : k = Len(Flat(SubSeq(u.lines, 1, u.row)))
    OBVIOUS
  <2>4. k = 0
    <3>1. SubSeq(u.lines, 1, u.row) = <<>>
      BY <1>4, <2>1
    <3>2. k = Len(<<>>)
      BY <2>2, <2>3, <3>1, Zenon
    <3> QED
      BY <3>2
  <2>5. Point(u) = k + (IF u.row > 0 THEN 1 ELSE 0) + u.col
    BY <2>3 DEF Point
  <2> QED
    BY <1>4, <2>4, <2>5
<1>7. Flat(u.lines) \in Seq(Chars \cup {LF})
  BY <1>4, FlatType DEF TextChars
<1> QED
  BY <1>4, <1>5, <1>6, <1>7

LEMMA FreshText ==
  ASSUME NEW ls, IsText(ls), Rescroll(Fresh(ls))
  PROVE  OnNew(te') /\ TextStep
<1>1. PICK u : u = te' /\ u = ClampScroll(Fresh(ls))
  BY DEF Rescroll
<1>2. /\ u.lines = ls /\ (ls # <<>> => OnLine(u))
      /\ Flat(u.lines) \in Seq(Chars \cup {LF}) /\ Point(u) = 0
  BY <1>1, FreshIs
<1>3. Flat(te'.lines) \in Seq(Chars \cup {LF}) /\ Point(te') = 0
  BY <1>1, <1>2
<1>4. TextStep
  BY <1>3 DEF TextStep, Promise!TextNext
<1> QED
  BY <1>1, <1>2, <1>4 DEF OnNew

LEMMA TextInitially == Init => Promise!TextInit
<1> SUFFICES ASSUME Init PROVE Promise!TextInit
  OBVIOUS
<1>1. te = ClampScroll(Fresh(InitialText)) /\ IsText(InitialText)
  BY TextsAssumption DEF Init
<1>2. Flat(te.lines) \in Seq(Chars \cup {LF}) /\ Point(te) = 0
  BY <1>1, FreshIs
<1> QED
  BY <1>2 DEF Promise!TextInit

LEMMA EventText ==
  ASSUME Right, Right', OnLine(te), Event
  PROVE  OnNew(te') /\ TextStep
<1>1. ASSUME NEW k \in Keys, Key(k) PROVE OnNew(te') /\ TextStep
  BY <1>1, KeyText DEF OnNew
<1>2. CASE Drained
  BY <1>2, DrainedText DEF OnNew
<1>3. CASE Blink
  BY <1>3, BlinkText DEF OnNew
<1>4. CASE Arrowed
  BY <1>4, ArrowedText DEF OnNew
<1>5. CASE New
  BY <1>5, FreshText, TextsAssumption DEF New
<1>6. ASSUME NEW r \in 0 .. Rows - 1, NEW c \in 0 .. Cols - 1, Click(r, c)
      PROVE  OnNew(te') /\ TextStep
  <2>1. r \in Nat /\ te.vscroll \in Nat
    BY RowsAre DEF Right, Scrolled
  <2> QED
    BY <1>6, <2>1, ClickText DEF OnNew
<1>7. ASSUME NEW pos \in Stops, Slid(pos) PROVE OnNew(te') /\ TextStep
  BY <1>7, SlidText DEF OnNew
<1>8. ASSUME NEW r, NEW s, Exposed(r, s) PROVE OnNew(te') /\ TextStep
  BY <1>8, ExposedText DEF OnNew
<1>9. ASSUME NEW f \in FilesNow, Load(f) PROVE OnNew(te') /\ TextStep
  <2>1. IsText(te.lines)
    BY OnLineIs
  <2>2. f \in Seq(Chars \cup {LF, CR, NUL})
    BY <2>1, FilesAre DEF FilesNow
  <2>3. Rescroll(Fresh(LoadedLines(f))) /\ IsText(LoadedLines(f))
    BY <1>9, <2>2, LoadedIsText DEF Load
  <2> QED
    BY <2>3, FreshText
<1> QED
  BY <1>1, <1>2, <1>3, <1>4, <1>5, <1>6, <1>7, <1>8, <1>9 DEF Event

LEMMA TextNextStep ==
  ASSUME EditInv, EditInv', OnText, [Next]_vars
  PROVE  (running /\ running' => TextStep) /\ (OnText' \/ te'.lines = <<>>)
<1>1. Right /\ Right' /\ OnLine(te)
  BY DEF EditInv, Right, OnText, OnLine
<1>2. CASE running /\ Event
  <2>1. OnNew(te') /\ TextStep
    BY <1>1, <1>2, EventText
  <2> QED
    BY <2>1 DEF OnNew, OnLine, OnText
<1>3. ASSUME NEW f \in FilesNow, Overrun(f)
      PROVE  (running /\ running' => TextStep) /\ (OnText' \/ te'.lines = <<>>)
  <2>1. ~running' /\ te' = te
    BY <1>3 DEF Overrun
  <2> QED
    BY <2>1 DEF OnText
<1>4. CASE ~running /\ Start
  <2>1. OnNew(te')
    BY <1>4, FreshText, TextsAssumption DEF Start
  <2> QED
    BY <1>4, <2>1 DEF OnNew, OnLine, OnText
<1>5. CASE UNCHANGED vars
  <2>1. te' = te
    BY <1>5 DEF vars
  <2>2. TextStep
    BY <2>1, SameText
  <2> QED
    BY <2>1, <2>2 DEF OnText
<1> QED
  BY <1>2, <1>3, <1>4, <1>5 DEF Next

(* Whatever the array of lines does, and in whatever part of it the edit   *)
(* falls, the user edits one text: as long as the program runs and the     *)
(* cursor is on a line of the array, a key puts its characters in at the   *)
(* point, or takes the character or the line break next to it out, and     *)
(* nothing but a new text changes what is written (textedit.c:312-423 and  *)
(* 627-707).  For every file there may be, the cursor leaves the lines     *)
(* only when the file has none (main.c:1156).                              *)
THEOREM EditorKeepsOneText == Spec => EditsOneText
<1>1. Init => Promise!TextInit
  BY TextInitially
<1>2. EditInv /\ [Next]_vars /\ EditInv'
        => /\ [running /\ running' /\ OnText => Promise!TextNext]_(Promise!textVars)
           /\ [OnText /\ ~OnText' => te'.lines = <<>>]_te
  <2>1. SUFFICES ASSUME EditInv, [Next]_vars, EditInv', OnText
                 PROVE  /\ [running /\ running' => Promise!TextNext]_(Promise!textVars)
                        /\ ~OnText' => te'.lines = <<>>
    OBVIOUS
  <2>2. (running /\ running' => TextStep) /\ (OnText' \/ te'.lines = <<>>)
    BY <2>1, TextNextStep
  <2> QED
    BY <2>2 DEF TextStep, Promise!textVars
<1>3. Spec => []EditInv
  BY EditInvariant
<1> QED
  BY <1>1, <1>2, <1>3, PTL DEF Spec, EditsOneText
=============================================================================
