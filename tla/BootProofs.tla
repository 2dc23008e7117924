----------------------------- MODULE BootProofs -----------------------------
(***************************************************************************)
(* For every table of defaults, every geometry of the flash and whatever   *)
(* the Booster, the radio and power do: a boot reads, for each key, what   *)
(* was saved last or the default, and all of it after a whole save; once   *)
(* the sector of the application holds its settings, main does not erase   *)
(* it again; and the connection attempt reports what happened on the       *)
(* radio, and serves the ST.                                               *)
(*                                                                         *)
(* The library keeps tables of known entries, whatever it overlays: a      *)
(* sector reads as a prefix of the image it was given, since no entry is   *)
(* cut behind its type.  GlobalInv adds whose image that is: one of the    *)
(* Booster's tables, where a key that comes twice has its value twice, so  *)
(* that it does not matter which of the two the loader and the finder take.*)
(*                                                                         *)
(* The application's sector is only erased by a save that main began       *)
(* because the load found no magic.  FirstSave keeps that fact until the   *)
(* erase.                                                                  *)
(*                                                                         *)
(* The loop knows the link by a copy that it refreshes now and then.       *)
(* StaInv relates the copy, the time since it was refreshed and the        *)
(* deadline to what the link has really done.                              *)
(***************************************************************************)
EXTENDS Boot, SequenceTheorems, WellFoundedInduction, TLAPS

(***************************************************************************)
(* Both tables                                                             *)
(***************************************************************************)
(* Every entry that can come into a table or into a sector.                *)
Given   == {Magic} \cup Range(Defaults) \cup Range(AppDefaults) \cup Range(BoosterDefaults)
                   \cup Settable
Values  == {e.value : e \in Given} \ {NoType}
Entries == [key : Keys, value : Values]
Tables  == {t \in Seq(Entries) : Len(t) <= MaxEntries}

LEMMA LeastNumber ==
  ASSUME NEW T, T \in SUBSET Nat, T # {}
  PROVE  \E x \in T : \A y \in T : x <= y
<1> DEFINE R == {ss \in Nat \X Nat : ss[1] < ss[2]}
<1>1. IsWellFoundedOn(R, Nat)
  BY NatLessThanWellFounded DEF OpToRel
<1> HIDE DEF R
<1>2. PICK x \in T : \A y \in T : <<y, x>> \notin R
  BY <1>1, WFMin
<1>3. ASSUME NEW y \in T PROVE x <= y
  <2>1. x \in Nat /\ y \in Nat
    OBVIOUS
  <2>2. ~(y < x)
    BY <1>2, <2>1 DEF R
  <2> QED
    BY <2>1, <2>2
<1> QED
  BY <1>3

LEMMA FirstOf ==
  ASSUME NEW T, T \in SUBSET Nat, T # {}
  PROVE  First(T) \in T /\ \A y \in T : First(T) <= y
BY LeastNumber DEF First

LEMMA LastOf ==
  ASSUME NEW n \in Nat, NEW T, T \in SUBSET (1 .. n), T # {}
  PROVE  \E x \in T : \A y \in T : y <= x
<1> DEFINE D == {n - y : y \in T}
<1>1. D \in SUBSET Nat /\ D # {}
  <2>1. \A y \in T : n - y \in Nat
    OBVIOUS
  <2> QED
    BY <2>1
<1>2. PICK d \in D : \A e \in D : d <= e
  BY <1>1, LeastNumber
<1>3. PICK x \in T : d = n - x
  BY <1>2
<1>4. ASSUME NEW y \in T PROVE y <= x
  <2>1. d <= n - y
    BY <1>2
  <2> QED
    BY <1>3, <2>1
<1> QED
  BY <1>4

LEMMA Induction ==
  ASSUME NEW S, 0 \in S, \A n \in Nat : n \in S => n + 1 \in S
  PROVE  \A n \in Nat : n \in S
<1> DEFINE T == {n \in Nat : n \notin S}
<1> SUFFICES ASSUME T # {} PROVE FALSE
  OBVIOUS
<1>1. PICK x \in T : \A y \in T : x <= y
  BY LeastNumber
<1>2. x \in Nat /\ x # 0 /\ x - 1 \in Nat /\ ~(x <= x - 1) /\ (x - 1) + 1 = x
  BY <1>1
<1>3. x - 1 \notin T
  BY <1>1, <1>2
<1> QED
  BY <1>1, <1>2, <1>3

(* Nothing is kept but a prefix.                                           *)
LEMMA BeforeIs ==
  ASSUME NEW S, NEW s \in Seq(S), NEW stops \in SUBSET (1 .. Len(s))
  PROVE  \E n \in 0 .. Len(s) :
           /\ Before(s, stops) = SubSeq(s, 1, n)
           /\ n = Len(s) \/ n + 1 \in stops
           /\ \A i \in 1 .. n : i \notin stops
<1>1. Len(s) \in Nat
  OBVIOUS
<1>2. CASE stops = {}
  <2>1. Before(s, stops) = SubSeq(s, 1, Len(s))
    BY <1>2, SubSeqFull DEF Before
  <2> QED
    BY <1>1, <1>2, <2>1
<1>3. CASE stops # {}
  <2>1. PICK m : m = First(stops)
    OBVIOUS
  <2>2. m \in stops /\ \A y \in stops : m <= y
    <3>1. stops \in SUBSET Nat
      BY <1>1
    <3> QED
      BY <1>3, <2>1, <3>1, FirstOf
  <2>3. m - 1 \in 0 .. Len(s) /\ (m - 1) + 1 = m /\ \A i \in 1 .. m - 1 : i \notin stops
    BY <1>1, <2>2
  <2>4. Before(s, stops) = SubSeq(s, 1, m - 1)
    BY <1>3, <2>1 DEF Before
  <2> QED
    BY <2>2, <2>3, <2>4
<1> QED
  BY <1>2, <1>3

Spans(s, n) == s = [j \in 1 .. n |-> s[j]]
LEMMA SpansIsSeq ==
  ASSUME NEW S, NEW n \in Nat, NEW s, Spans(s, n), \A j \in 1 .. n : s[j] \in S
  PROVE  s \in Seq(S) /\ Len(s) = n
BY DEF Spans

LEMMA SubSeqAre ==
  ASSUME NEW S, NEW s \in Seq(S), NEW n \in 0 .. Len(s)
  PROVE  /\ SubSeq(s, 1, n) \in Seq(S) /\ Len(SubSeq(s, 1, n)) = n
         /\ \A i \in 1 .. n : SubSeq(s, 1, n)[i] = s[i]
<1>1. n \in Int /\ 1 \in Int /\ \A i \in 1 .. n : s[i] \in S
  OBVIOUS
<1>2. /\ SubSeq(s, 1, n) \in Seq(S)
      /\ Len(SubSeq(s, 1, n)) = IF 1 <= n THEN n - 1 + 1 ELSE 0
      /\ \A i \in 1 .. n - 1 + 1 : SubSeq(s, 1, n)[i] = s[1 + i - 1]
  BY <1>1, SubSeqProperties
<1> QED
  BY <1>1, <1>2

LEMMA TimesIsMonotone ==
  ASSUME NEW p \in Nat, NEW a \in Nat, NEW b \in Nat, a <= b
  PROVE  p * a \in Nat /\ p * b \in Nat /\ p * a <= p * b
<1>1. PICK d \in Nat : b = a + d
  <2>1. b - a \in Nat /\ b = a + (b - a)
    OBVIOUS
  <2> QED
    BY <2>1
<1>2. p * (a + d) = p * a + p * d /\ p * d \in Nat /\ p * a \in Nat
  OBVIOUS
<1> QED
  BY <1>1, <1>2

LEMMA DivIs ==
  ASSUME NEW a \in Nat, NEW p \in Nat \ {0}
  PROVE  a \div p \in Nat /\ p * (a \div p) <= a /\ a < p * (a \div p) + p
OBVIOUS

LEMMA DivReaches ==
  ASSUME NEW a \in Nat, NEW p \in Nat \ {0}, NEW q \in Nat, p * q <= a
  PROVE  q <= a \div p
<1>1. PICK d : d = a \div p
  OBVIOUS
<1>2. d \in Nat /\ p * d <= a /\ a < p * d + p
  BY <1>1, DivIs
<1>3. p * (d + 1) = p * d + p /\ d + 1 \in Nat
  BY <1>2
<1>4. d + 1 <= q => p * (d + 1) <= p * q
  BY <1>3, TimesIsMonotone
<1>5. ~(d + 1 <= q)
  <2>1. p * (d + 1) \in Int /\ p * q \in Int /\ p * d \in Int
    BY <1>2, <1>3
  <2> QED
    BY <1>2, <1>3, <1>4, <2>1
<1> QED
  BY <1>1, <1>2, <1>5

(* The sector holds MaxEntries entries and its pages all of them.          *)
LEMMA SectorHolds ==
  /\ MaxEntries \in Nat /\ MaxEntries >= 1 /\ Pages \in Nat
  /\ \A l \in 0 .. MaxEntries :
       l * EntrySize <= SectorSize /\ (l * EntrySize + PageSize - 1) \div PageSize \in 0 .. Pages
<1> USE SizesAssumption
<1>1. MaxEntries \in Nat /\ EntrySize * MaxEntries <= SectorSize
  BY DivIs DEF MaxEntries
<1>2. MaxEntries >= 1
  <2>1. EntrySize * 1 <= SectorSize
    OBVIOUS
  <2> QED
    BY <2>1, DivReaches DEF MaxEntries
<1>3. Pages \in Nat /\ SectorSize = PageSize * Pages
  BY DivIs DEF Pages
<1>4. ASSUME NEW l \in 0 .. MaxEntries
      PROVE  /\ l * EntrySize \in Nat /\ l * EntrySize <= SectorSize
             /\ (l * EntrySize + PageSize - 1) \div PageSize \in 0 .. Pages
  <2>1. l \in Nat /\ l <= MaxEntries
    BY <1>1
  <2>2. EntrySize * l \in Nat /\ EntrySize * l <= EntrySize * MaxEntries
    BY <1>1, <2>1, TimesIsMonotone
  <2>3. l * EntrySize = EntrySize * l /\ EntrySize * MaxEntries \in Nat
    BY <1>1, <2>1
  <2>4. l * EntrySize \in Nat /\ l * EntrySize <= SectorSize
    BY <1>1, <2>2, <2>3
  <2>5. PICK a \in Nat : a = l * EntrySize + PageSize - 1
    BY <2>4
  <2>6. PICK q : q = a \div PageSize
    OBVIOUS
  <2>7. q \in Nat /\ PageSize * q <= a
    BY <2>6, DivIs
  <2>8. Pages + 1 <= q => PageSize * (Pages + 1) <= PageSize * q
    BY <1>3, <2>7, TimesIsMonotone
  <2>9. PageSize * (Pages + 1) = SectorSize + PageSize
    BY <1>3
  <2>10. ~(Pages + 1 <= q)
    <3>1. PageSize * q \in Nat /\ a <= SectorSize + PageSize - 1
      BY <2>4, <2>5, <2>7
    <3> QED
      BY <2>5, <2>7, <2>8, <2>9, <3>1
  <2> QED
    BY <1>3, <2>4, <2>5, <2>6, <2>7, <2>10
<1> QED
  BY <1>1, <1>2, <1>3, <1>4

(* The pages of a table hold each of its entries.                          *)
LEMMA PagesHold ==
  ASSUME NEW l \in Nat, NEW j \in 1 .. l
  PROVE  (EntrySize * (j - 1) + EntrySize - 1) \div PageSize
           < (l * EntrySize + PageSize - 1) \div PageSize
<1> USE SizesAssumption
<1>1. PICK a : a = EntrySize * (j - 1) + EntrySize - 1
  OBVIOUS
<1>2. j - 1 \in Nat /\ j \in Nat /\ j <= l
  OBVIOUS
<1>3. EntrySize * (j - 1) \in Nat /\ EntrySize * j = EntrySize * (j - 1) + EntrySize
  BY <1>2
<1>4. a \in Nat /\ a = EntrySize * j - 1
  BY <1>1, <1>3
<1>5. EntrySize * j \in Nat /\ EntrySize * l \in Nat /\ EntrySize * j <= EntrySize * l
  BY <1>2, TimesIsMonotone
<1>6. PICK b : b = l * EntrySize + PageSize - 1
  OBVIOUS
<1>7. b \in Nat /\ a + PageSize <= b
  <2>1. l * EntrySize = EntrySize * l
    OBVIOUS
  <2> QED
    BY <1>4, <1>5, <1>6, <2>1
<1>8. PICK q : q = a \div PageSize
  OBVIOUS
<1>9. q \in Nat /\ PageSize * q <= a
  BY <1>4, <1>8, DivIs
<1>10. PageSize * (q + 1) <= b
  <2>1. PageSize * (q + 1) = PageSize * q + PageSize /\ PageSize * q \in Nat
    BY <1>9
  <2> QED
    BY <1>4, <1>7, <1>9, <2>1
<1>11. q + 1 <= b \div PageSize
  <2>1. q + 1 \in Nat
    BY <1>9
  <2> QED
    BY <1>7, <1>10, <2>1, DivReaches
<1> QED
  <2>1. b \div PageSize \in Nat
    BY <1>7, DivIs
  <2> QED
    BY <1>1, <1>6, <1>8, <1>9, <1>11, <2>1

(* The loop of settingsLoadDefaultEntries over the first n of src.         *)
Copies(src, f, n) ==
  f = [j \in 0 .. n |-> IF j = 0 THEN <<>>
                        ELSE IF src[j].key = Bad THEN f[j - 1] ELSE Append(f[j - 1], src[j])]

LEMMA CopiesAt ==
  ASSUME NEW src, NEW n, NEW f, Copies(src, f, n), NEW j \in 0 .. n
  PROVE  f[j] = IF j = 0 THEN <<>>
                ELSE IF src[j].key = Bad THEN f[j - 1] ELSE Append(f[j - 1], src[j])
BY Zenon DEF Copies

LEMMA CopiesExist ==
  ASSUME NEW src, NEW n \in Nat
  PROVE  \E f : Copies(src, f, n)
<1> DEFINE Done == {k \in Nat : \E f : Copies(src, f, k)}
           Next1(f, j) == IF src[j].key = Bad THEN f[j - 1] ELSE Append(f[j - 1], src[j])
<1>1. 0 \in Done
  <2> DEFINE f == [j \in {0} |-> <<>>]
             h == [j \in 0 .. 0 |-> IF j = 0 THEN <<>> ELSE Next1(f, j)]
  <2>1. f = h
    <3>1. 0 .. 0 = {0}
      OBVIOUS
    <3> QED
      BY <3>1
  <2>2. Copies(src, f, 0)
    <3> HIDE DEF f
    <3> QED
      BY <2>1 DEF Copies
  <2> QED
    BY <2>2
<1>2. ASSUME NEW k \in Nat, k \in Done PROVE k + 1 \in Done
  <2>1. PICK f : Copies(src, f, k)
    BY <1>2
  <2>2. \A j \in 0 .. k : f[j] = IF j = 0 THEN <<>> ELSE Next1(f, j)
    BY <2>1 DEF Copies
  <2> DEFINE g == [j \in 0 .. k + 1 |-> IF j <= k THEN f[j] ELSE Next1(f, j)]
             h == [j \in 0 .. k + 1 |-> IF j = 0 THEN <<>> ELSE Next1(g, j)]
  <2>3. ASSUME NEW j \in 0 .. k + 1 PROVE g[j] = h[j]
    <3>1. CASE j = 0
      BY <2>2, <3>1
    <3>2. CASE j # 0
      <4>1. j - 1 \in 0 .. k + 1 /\ j - 1 <= k
        BY <3>2
      <4>2. g[j - 1] = f[j - 1]
        BY <4>1
      <4>3. h[j] = Next1(f, j)
        BY <3>2, <4>2
      <4>4. CASE j <= k
        <5>1. j \in 0 .. k /\ g[j] = f[j]
          BY <4>4
        <5> QED
          BY <2>2, <3>2, <4>3, <5>1
      <4>5. CASE ~(j <= k)
        BY <4>3, <4>5
      <4> QED
        BY <4>4, <4>5
    <3> QED
      BY <3>1, <3>2
  <2>4. g = h
    BY <2>3
  <2>5. Copies(src, g, k + 1)
    <3> HIDE DEF g
    <3> QED
      BY <2>4 DEF Copies
  <2> QED
    BY <2>5
<1> HIDE DEF Done
<1>3. n \in Done
  BY <1>1, <1>2, Induction
<1> QED
  BY <1>3 DEF Done

(* A table that begins with the magic.                                     *)
IsLoaded(t) == t \in Tables /\ t # <<>> /\ t[1] = Magic

LEMMA CopiesAre ==
  ASSUME NEW S, NEW src \in Seq(S), NEW f, Copies(src, f, Len(src)),
         Len(src) \in 1 .. MaxEntries, src[1] = Magic, Magic.key # Bad,
         \A i \in 1 .. Len(src) : src[i].key = Bad \/ src[i] \in Entries
  PROVE  IsLoaded(f[Len(src)])
<1> DEFINE Good(t, k) == t \in Seq(Entries) /\ Len(t) <= k /\ (k >= 1 => Len(t) >= 1 /\ t[1] = Magic)
           Done == {k \in Nat : k <= Len(src) => Good(f[k], k)}
<1>1. Len(src) \in Nat
  OBVIOUS
<1>2. 0 \in Done
  <2>1. f[0] = <<>> /\ <<>> \in Seq(Entries) /\ Len(<<>>) = 0
    BY <1>1 DEF Copies
  <2>2. ~(0 >= 1) /\ 0 <= 0
    OBVIOUS
  <2>3. Good(f[0], 0)
    BY <2>1, <2>2
  <2> QED
    BY <2>3
<1>3. ASSUME NEW k \in Nat, k \in Done PROVE k + 1 \in Done
  <2> SUFFICES ASSUME k + 1 <= Len(src) PROVE Good(f[k + 1], k + 1)
    OBVIOUS
  <2>1. Good(f[k], k)
    BY <1>1, <1>3
  <2>2. k + 1 \in 1 .. Len(src) /\ k + 1 \in 0 .. Len(src) /\ k + 1 # 0 /\ k + 1 - 1 = k
    BY <1>1
  <2>3. f[k + 1] = IF src[k + 1].key = Bad THEN f[k] ELSE Append(f[k], src[k + 1])
    <3>1. f[k + 1] = IF k + 1 = 0 THEN <<>>
                     ELSE IF src[k + 1].key = Bad THEN f[k + 1 - 1]
                          ELSE Append(f[k + 1 - 1], src[k + 1])
      BY <2>2, CopiesAt
    <3> QED
      BY <2>2, <3>1
  <2>4. CASE src[k + 1].key = Bad
    <3>1. k + 1 # 1
      BY <2>4
    <3>2. k >= 1
      BY <2>2, <3>1
    <3> QED
      BY <2>1, <2>3, <2>4, <3>2
  <2>5. CASE src[k + 1].key # Bad
    <3>1. src[k + 1] \in Entries
      BY <2>2, <2>5
    <3>2. PICK t : t = f[k]
      OBVIOUS
    <3>3. t \in Seq(Entries) /\ Len(t) <= k /\ Len(t) \in Nat
      BY <2>1, <3>2
    <3>4. PICK u : u = Append(t, src[k + 1])
      OBVIOUS
    <3>5. /\ u \in Seq(Entries) /\ Len(u) = Len(t) + 1
          /\ \A i \in 1 .. Len(t) : u[i] = t[i]
          /\ u[Len(t) + 1] = src[k + 1]
      BY <3>1, <3>3, <3>4
    <3>6. u[1] = Magic
      <4>1. CASE k = 0
        <5>1. Len(t) = 0 /\ Len(t) + 1 = 1 /\ k + 1 = 1
          BY <3>3, <4>1
        <5> QED
          BY <3>5, <5>1
      <4>2. CASE k # 0
        <5>1. 1 \in 1 .. Len(t) /\ t[1] = Magic
          BY <2>1, <3>2, <3>3, <4>2
        <5> QED
          BY <3>5, <5>1
      <4> QED
        BY <4>1, <4>2
    <3>7. f[k + 1] = u
      BY <2>3, <2>5, <3>2, <3>4
    <3> QED
      BY <3>3, <3>5, <3>6, <3>7
  <2> QED
    BY <2>4, <2>5
<1> HIDE DEF Done
<1>4. Len(src) \in Done
  BY <1>1, <1>2, <1>3, Induction
<1>5. Good(f[Len(src)], Len(src))
  BY <1>1, <1>4 DEF Done
<1>6. MaxEntries \in Nat
  BY SectorHolds
<1> QED
  BY <1>1, <1>5, <1>6 DEF IsLoaded, Tables

(* settings_init starts from a table of known entries behind the magic.    *)
LEMMA TableOfIs ==
  ASSUME NEW defs, NEW n, IsDefaults(defs, n), Range(defs) \subseteq Given
  PROVE  IsLoaded(TableOf(defs, n))
<1> DEFINE G == Range(defs) \cup {Magic}
<1> USE KeysAssumption
<1>1. n \in Nat /\ n <= Len(defs) /\ defs \in Seq(Range(defs)) /\ Len(defs) \in Nat
  BY SectorHolds DEF IsDefaults
<1>2. PICK m : m = NumEntries(n)
  OBVIOUS
<1>3. m \in 1 .. MaxEntries /\ m <= n + 1 /\ m \in Nat
  BY <1>1, <1>2, SectorHolds DEF NumEntries
<1>4. PICK all : all = <<Magic>> \o defs
  OBVIOUS
<1>5. all \in Seq(G) /\ Len(all) = Len(defs) + 1 /\ all[1] = Magic
  <2>1. <<Magic>> \in Seq(G) /\ defs \in Seq(G)
    <3>1. \A i \in 1 .. Len(defs) : defs[i] \in G
      BY <1>1
    <3> QED
      BY <1>1, <3>1
  <2> HIDE DEF G
  <2> QED
    BY <1>1, <1>4, <2>1
<1>6. \A e \in G : e = Entry(e.key, e.value) /\ e.key \in Keys \cup {End, Bad} /\ e.value \in Values
  <2>1. ASSUME NEW e \in G
        PROVE  e = Entry(e.key, e.value) /\ e.key \in Keys \cup {End, Bad} /\ e.value # NoType /\ e \in Given
    BY <2>1 DEF IsDefaults, Given
  <2> QED
    BY <2>1 DEF Values
<1> HIDE DEF G
<1>7. PICK given : given = SubSeq(all, 1, m)
  OBVIOUS
<1>8. /\ given \in Seq(G) /\ Len(given) = m /\ given[1] = Magic
      /\ DOMAIN given = 1 .. m /\ \A i \in 1 .. m : given[i] \in G
  <2>1. m \in 0 .. Len(all) /\ 1 \in 1 .. m
    BY <1>1, <1>3, <1>5
  <2>2. given \in Seq(G) /\ Len(given) = m /\ given[1] = Magic
    BY <1>5, <1>7, <2>1, SubSeqAre
  <2> QED
    BY <2>2
<1>9. PICK stops : stops = {i \in DOMAIN given : given[i].key = End}
  OBVIOUS
<1>10. PICK l \in 0 .. m : /\ Before(given, stops) = SubSeq(given, 1, l)
                           /\ l = m \/ l + 1 \in stops
                           /\ \A i \in 1 .. l : i \notin stops
  <2>1. stops \in SUBSET (1 .. Len(given))
    BY <1>8, <1>9
  <2> QED
    BY <1>8, <2>1, BeforeIs
<1>11. l \in 1 .. MaxEntries
  <2>1. l # 0
    <3>1. 1 \notin stops /\ m # 0
      BY <1>3, <1>8, <1>9
    <3> QED
      BY <1>10, <3>1
  <2> QED
    BY <1>3, <2>1, SectorHolds
<1>12. PICK src : src = Before(given, stops)
  OBVIOUS
<1>13. /\ src \in Seq(G) /\ Len(src) = l /\ \A i \in 1 .. l : src[i] = given[i]
  BY <1>8, <1>10, <1>12, SubSeqAre
<1>14. src[1] = Magic /\ Magic.key # Bad
  BY <1>8, <1>11, <1>13
<1>15. ASSUME NEW i \in 1 .. l PROVE src[i].key = Bad \/ src[i] \in Entries
  <2>1. src[i] \in G /\ src[i].key # End
    <3>1. i \in 1 .. m /\ i \notin stops /\ src[i] = given[i]
      BY <1>3, <1>10, <1>13
    <3> QED
      BY <1>8, <1>9, <3>1
  <2> QED
    BY <1>6, <2>1 DEF Entry, Entries
<1>16. PICK f : f = CHOOSE g : Copies(src, g, Len(src))
  OBVIOUS
<1>17. Copies(src, f, Len(src))
  <2>1. Len(src) \in Nat
    BY <1>13
  <2> QED
    BY <1>16, <2>1, CopiesExist
<1>18. IsLoaded(f[Len(src)])
  BY <1>11, <1>13, <1>14, <1>15, <1>17, CopiesAre
<1>19. TableOf(defs, n) = f[Len(src)]
  BY <1>2, <1>4, <1>7, <1>9, <1>12, <1>16 DEF TableOf, Copies
<1> QED
  BY <1>18, <1>19

(***************************************************************************)
(* What a load reads                                                       *)
(***************************************************************************)
(* An entry that reads as valid reads as it was written: an entry that is  *)
(* cut is cut in front of its type.                                        *)
LEMMA ReadsWhole ==
  ASSUME NEW f, NEW j \in 1 .. MaxEntries
  PROVE  /\ Programmed(f, EntrySize * (j - 1) + EntrySize) => Raw(f, j) = f.image[j]
         /\ ~IsInvalid(Raw(f, j)) => Raw(f, j) = f.image[j]
<1> USE SizesAssumption, KeysAssumption
<1>1. PICK start \in Nat : start = EntrySize * (j - 1)
  <2>1. j - 1 \in Nat
    BY SectorHolds
  <2> QED
    BY <2>1
<1>2. (start + KeySize) \div PageSize = (start + EntrySize - 1) \div PageSize
  BY <1>1, GeometryAssumption
<1>3. start + KeySize + 1 - 1 = start + KeySize
  BY <1>1
<1>4. Programmed(f, start + KeySize + 1) <=> Programmed(f, start + EntrySize)
  BY <1>2, <1>3 DEF Programmed
<1> QED
  BY <1>1, <1>4 DEF Raw, IsInvalid, Entry

IsFlash(f) ==
  /\ f = [image |-> f.image, pages |-> f.pages]
  /\ f.image \in Tables /\ f.pages \in Nat /\ f.pages <= PagesOf(f.image)

(* The sector reads as a prefix of what was written, all of it when all    *)
(* pages were programmed.                                                  *)
LEMMA StoredIs ==
  ASSUME NEW f, IsFlash(f)
  PROVE  \E n \in 0 .. Len(f.image) :
           /\ Stored(f) = SubSeq(f.image, 1, n)
           /\ f.pages = PagesOf(f.image) => n = Len(f.image)
<1> USE SizesAssumption, KeysAssumption
<1>1. PICK img : img = f.image
  OBVIOUS
<1>2. img \in Seq(Entries) /\ Len(img) \in Nat /\ Len(img) <= MaxEntries
  BY <1>1 DEF IsFlash, Tables
<1>3. PICK raw : raw = [j \in 1 .. Len(img) |-> Raw(f, j)]
  OBVIOUS
<1> DEFINE R == {Raw(f, j) : j \in 1 .. Len(img)}
<1>4. raw \in Seq(R) /\ Len(raw) = Len(img) /\ DOMAIN raw = 1 .. Len(img)
  BY <1>2, <1>3
<1> HIDE DEF R
<1>5. PICK stops : stops = {j \in DOMAIN raw : IsInvalid(raw[j])}
  OBVIOUS
<1>6. PICK n \in 0 .. Len(raw) : /\ Before(raw, stops) = SubSeq(raw, 1, n)
                                 /\ n = Len(raw) \/ n + 1 \in stops
                                 /\ \A i \in 1 .. n : i \notin stops
  <2>1. stops \in SUBSET (1 .. Len(raw))
    BY <1>4, <1>5
  <2> QED
    BY <1>4, <2>1, BeforeIs
<1>7. Stored(f) = SubSeq(raw, 1, n)
  BY <1>1, <1>3, <1>5, <1>6 DEF Stored
<1>8. ASSUME NEW i \in 1 .. n PROVE raw[i] = img[i]
  <2>1. i \in 1 .. Len(img) /\ i \in 1 .. MaxEntries /\ i \notin stops
    BY <1>2, <1>4, <1>6, SectorHolds
  <2>2. raw[i] = Raw(f, i) /\ ~IsInvalid(Raw(f, i))
    BY <1>3, <1>4, <1>5, <2>1
  <2> QED
    BY <1>1, <2>1, <2>2, ReadsWhole
<1>9. SubSeq(raw, 1, n) = SubSeq(img, 1, n)
  <2>1. n \in 0 .. Len(raw) /\ n \in 0 .. Len(img)
    BY <1>4, <1>6
  <2>2. PICK a : a = SubSeq(raw, 1, n)
    OBVIOUS
  <2>3. a \in Seq(R) /\ Len(a) = n /\ \A i \in 1 .. n : a[i] = raw[i]
    BY <1>4, <2>1, <2>2, SubSeqAre
  <2>4. PICK b : b = SubSeq(img, 1, n)
    OBVIOUS
  <2>5. b \in Seq(Entries) /\ Len(b) = n /\ \A i \in 1 .. n : b[i] = img[i]
    BY <1>2, <2>1, <2>4, SubSeqAre
  <2>6. \A i \in 1 .. n : a[i] = b[i]
    BY <1>8, <2>3, <2>5
  <2>7. a = b
    <3> DEFINE W == R \cup Entries
    <3>1. a \in Seq(W) /\ b \in Seq(W)
      BY <2>3, <2>5, SeqMonotonic
    <3> HIDE DEF W
    <3> QED
      BY <2>3, <2>5, <2>6, <3>1, SeqEqual
  <2> QED
    BY <2>2, <2>4, <2>7
<1>10. ASSUME f.pages = PagesOf(img) PROVE n = Len(img)
  <2> SUFFICES ASSUME n + 1 \in stops PROVE FALSE
    BY <1>4, <1>6
  <2>1. PICK j : j = n + 1
    OBVIOUS
  <2>2. j \in 1 .. Len(img) /\ j \in 1 .. MaxEntries /\ IsInvalid(Raw(f, j))
    BY <1>2, <1>3, <1>4, <1>5, <2>1, SectorHolds
  <2>3. Programmed(f, EntrySize * (j - 1) + EntrySize)
    BY <1>2, <1>10, <2>2, PagesHold DEF Programmed, PagesOf
  <2>4. Raw(f, j) = img[j]
    BY <1>1, <2>2, <2>3, ReadsWhole
  <2>5. img[j] \in Entries
    BY <1>2, <2>2
  <2> QED
    BY <2>2, <2>4, <2>5 DEF IsInvalid, Entries, Values
<1> QED
  BY <1>1, <1>4, <1>6, <1>7, <1>9, <1>10

(* An entry comes from the table or, with its key, from the sector: the    *)
(* first of its key in the table from the sector if it is there.           *)
From(e, s)      == \E i \in 1 .. Len(s) : s[i].key = e.key /\ s[i] = e
IsOverlay(o, t, s) ==
  /\ o \in Seq(Entries) /\ Len(o) = Len(t)
  /\ \A j \in 1 .. Len(t) :
       /\ o[j].key = t[j].key
       /\ o[j] = t[j] \/ From(o[j], s)
       /\ First(Find(t, t[j].key)) = j =>
            IF Find(s, t[j].key) = {} THEN o[j] = t[j] ELSE From(o[j], s)

LEMMA OverlayIs ==
  ASSUME NEW t \in Seq(Entries), NEW s \in Seq(Entries)
  PROVE  IsOverlay(Overlay(t, s), t, s)
<1>1. Len(t) \in Nat /\ Len(s) \in Nat /\ DOMAIN s = 1 .. Len(s) /\ DOMAIN t = 1 .. Len(t)
  OBVIOUS
<1>2. PICK o : o = Overlay(t, s)
  OBVIOUS
<1>3. ASSUME NEW j \in 1 .. Len(t)
      PROVE  /\ o[j] \in Entries /\ o[j].key = t[j].key
             /\ o[j] = t[j] \/ From(o[j], s)
             /\ First(Find(t, t[j].key)) = j =>
                  IF Find(s, t[j].key) = {} THEN o[j] = t[j] ELSE From(o[j], s)
  <2>1. o[j] = Overlaid(t, j, s)
    BY <1>2 DEF Overlay
  <2>2. t[j] \in Entries
    OBVIOUS
  <2>3. PICK same : same = Find(s, t[j].key)
    OBVIOUS
  <2>4. same \in SUBSET (1 .. Len(s)) /\ \A i \in same : s[i].key = t[j].key
    BY <1>1, <2>3 DEF Find
  <2>5. CASE same = {} \/ First(Find(t, t[j].key)) # j
    <3>1. o[j] = t[j]
      BY <2>1, <2>3, <2>5 DEF Overlaid
    <3> QED
      BY <2>2, <2>3, <2>5, <3>1
  <2>6. CASE same # {} /\ First(Find(t, t[j].key)) = j
    <3>1. PICK x : x = CHOOSE i \in same : \A h \in same : h <= i
      OBVIOUS
    <3>2. x \in same
      BY <1>1, <2>4, <2>6, <3>1, LastOf
    <3>3. o[j] = s[x]
      BY <2>1, <2>3, <2>6, <3>1 DEF Overlaid
    <3>4. x \in 1 .. Len(s) /\ s[x] \in Entries /\ s[x].key = t[j].key
      BY <2>4, <3>2
    <3>5. From(o[j], s)
      BY <3>3, <3>4 DEF From
    <3> QED
      BY <2>3, <2>6, <3>3, <3>4, <3>5
  <2> QED
    BY <2>5, <2>6
<1>4. o \in Seq(Entries) /\ Len(o) = Len(t)
  <2>1. o = [j \in 1 .. Len(t) |-> o[j]]
    BY <1>2 DEF Overlay
  <2>2. \A j \in 1 .. Len(t) : o[j] \in Entries
    BY <1>3
  <2> QED
    BY <1>1, <2>1, <2>2
<1>5. IsOverlay(o, t, s)
  BY <1>3, <1>4 DEF IsOverlay
<1> QED
  BY <1>2, <1>5

LEMMA LimitIs ==
  ASSUME NEW s \in Seq(Entries), NEW n \in Nat
  PROVE  /\ \E m \in 0 .. Len(s) : Limit(s, n) = SubSeq(s, 1, m)
         /\ Len(s) <= NumEntries(n) => Limit(s, n) = s
<1>1. NumEntries(n) \in Nat /\ Len(s) \in Nat
  BY SectorHolds DEF NumEntries
<1>2. CASE Len(s) > NumEntries(n)
  <2>1. NumEntries(n) \in 0 .. Len(s) /\ Limit(s, n) = SubSeq(s, 1, NumEntries(n))
    BY <1>1, <1>2 DEF Limit
  <2> QED
    BY <1>1, <1>2, <2>1
<1>3. CASE ~(Len(s) > NumEntries(n))
  <2>1. Limit(s, n) = s /\ s = SubSeq(s, 1, Len(s)) /\ Len(s) \in 0 .. Len(s)
    BY <1>1, <1>3, SubSeqFull DEF Limit
  <2> QED
    BY <2>1
<1> QED
  BY <1>2, <1>3

(* A load leaves the table, or overlays a prefix of what was written.      *)
LEMMA LoadedIs ==
  ASSUME NEW f, IsFlash(f), NEW t \in Seq(Entries), NEW n \in Nat
  PROVE  \/ Loaded(f, t, n) = t
         \/ \E s \in Seq(Entries) :
              /\ Loaded(f, t, n) = Overlay(t, s)
              /\ \E m \in 0 .. Len(f.image) : s = SubSeq(f.image, 1, m)
              /\ f.image # <<>>
<1> SUFFICES ASSUME HasMagic(f)
             PROVE  \E s \in Seq(Entries) :
                      /\ Loaded(f, t, n) = Overlay(t, s)
                      /\ \E m \in 0 .. Len(f.image) : s = SubSeq(f.image, 1, m)
                      /\ f.image # <<>>
  BY DEF Loaded
<1>1. PICK img : img = f.image
  OBVIOUS
<1>2. img \in Seq(Entries) /\ Len(img) \in Nat
  BY <1>1 DEF IsFlash, Tables
<1>3. PICK k \in 0 .. Len(img) : Stored(f) = SubSeq(img, 1, k)
  BY <1>1, StoredIs
<1>4. PICK u : u = SubSeq(img, 1, k)
  OBVIOUS
<1>5. u \in Seq(Entries) /\ Len(u) = k /\ \A i \in 1 .. k : u[i] = img[i]
  BY <1>2, <1>4, SubSeqAre
<1>6. PICK m \in 0 .. Len(u) : Limit(u, n) = SubSeq(u, 1, m)
  BY <1>5, LimitIs
<1>7. PICK s : s = Limit(u, n)
  OBVIOUS
<1>8. s \in Seq(Entries) /\ Len(s) = m /\ \A i \in 1 .. m : s[i] = u[i]
  BY <1>5, <1>6, <1>7, SubSeqAre
<1>9. m \in 0 .. Len(img) /\ s = SubSeq(img, 1, m)
  <2>1. m \in 0 .. Len(img) /\ m <= k /\ m \in Nat /\ k \in Nat
    BY <1>2, <1>5
  <2>2. PICK v : v = SubSeq(img, 1, m)
    OBVIOUS
  <2>3. v \in Seq(Entries) /\ Len(v) = m /\ \A i \in 1 .. m : v[i] = img[i]
    BY <1>2, <2>1, <2>2, SubSeqAre
  <2>4. \A i \in 1 .. m : s[i] = v[i]
    BY <1>5, <1>8, <2>1, <2>3
  <2>5. s = v
    BY <1>8, <2>3, <2>4, SeqEqual
  <2> QED
    BY <2>1, <2>2, <2>5
<1>10. Loaded(f, t, n) = Overlay(t, s) /\ f.image # <<>>
  BY <1>3, <1>4, <1>7 DEF Loaded, HasMagic
<1> QED
  BY <1>1, <1>8, <1>9, <1>10

(* No load makes a table longer or empties it.                             *)
LEMMA LoadedTable ==
  ASSUME NEW f, IsFlash(f), NEW t \in Tables, NEW n \in Nat
  PROVE  Loaded(f, t, n) \in Tables
<1>1. t \in Seq(Entries) /\ Len(t) <= MaxEntries
  BY DEF Tables
<1>2. CASE Loaded(f, t, n) = t
  BY <1>2
<1>3. CASE \E s \in Seq(Entries) : Loaded(f, t, n) = Overlay(t, s)
  <2>1. PICK s \in Seq(Entries) : Loaded(f, t, n) = Overlay(t, s)
    BY <1>3
  <2>2. Overlay(t, s) \in Seq(Entries) /\ Len(Overlay(t, s)) = Len(t)
    BY <1>1, OverlayIs DEF IsOverlay
  <2> QED
    BY <1>1, <2>1, <2>2 DEF Tables
<1> QED
  BY <1>1, <1>2, <1>3, LoadedIs

LEMMA TablesAre ==
  /\ IsLoaded(DefaultTable) /\ NumDefault \in Nat
  /\ IsLoaded(AppTable) /\ Len(AppDefaults) \in Nat
  /\ IsLoaded(BoosterTable) /\ BoosterCount \in Nat
<1>1. /\ IsDefaults(Defaults, NumDefault) /\ IsDefaults(AppDefaults, Len(AppDefaults))
      /\ IsDefaults(BoosterDefaults, BoosterCount)
  BY DefaultsAssumption
<1>2. IsLoaded(DefaultTable)
  BY <1>1, TableOfIs DEF DefaultTable, Given
<1>3. IsLoaded(AppTable)
  BY <1>1, TableOfIs DEF AppTable, Given
<1>4. IsLoaded(BoosterTable)
  BY <1>1, TableOfIs DEF BoosterTable, Given
<1>5. NumDefault \in Nat /\ Len(AppDefaults) \in Nat /\ BoosterCount \in Nat
  BY <1>1, SectorHolds DEF IsDefaults
<1> QED
  BY <1>2, <1>3, <1>4, <1>5

(***************************************************************************)
(* The global table                                                        *)
(***************************************************************************)
(* A table of the Booster: its keys, and its entries where nothing may be  *)
(* set.                                                                    *)
Fixed(k) == \A e \in Settable : e.key # k
Shape(t) ==
  /\ Len(t) = Len(BoosterTable)
  /\ \A j \in 1 .. Len(t) : /\ t[j].key = BoosterTable[j].key
                            /\ Fixed(t[j].key) => t[j] = BoosterTable[j]

LEMMA BoosterTableIs ==
  /\ BoosterTable \in Seq(Entries) /\ Len(BoosterTable) >= 1 /\ BoosterTable[1] = Magic
  /\ Fixed(Magic.key)
  /\ \A i, j \in 1 .. Len(BoosterTable) :
       BoosterTable[i].key = BoosterTable[j].key =>
         /\ BoosterTable[i] = BoosterTable[j]
         /\ i # j => Fixed(BoosterTable[i].key)
<1>1. PICK b : b = BoosterTable
  OBVIOUS
<1>2. b \in Seq(Entries) /\ Len(b) >= 1 /\ b[1] = Magic /\ DOMAIN b = 1 .. Len(b)
  <2>1. b \in Seq(Entries) /\ b # <<>> /\ b[1] = Magic
    BY <1>1, TablesAre DEF IsLoaded, Tables
  <2> QED
    BY <2>1
<1>3. Fixed(Magic.key)
  BY BoosterAssumption DEF Fixed
<1>4. ASSUME NEW i \in 1 .. Len(b), NEW j \in 1 .. Len(b), b[i].key = b[j].key
      PROVE  b[i] = b[j] /\ (i # j => Fixed(b[i].key))
  <2>1. i # j => b[i].value = b[j].value /\ Fixed(b[i].key)
    BY <1>1, <1>2, <1>4, BoosterAssumption DEF Fixed
  <2>2. b[i] \in Entries /\ b[j] \in Entries
    BY <1>2
  <2> QED
    BY <1>4, <2>1, <2>2 DEF Entries
<1> QED
  BY <1>1, <1>2, <1>3, <1>4

(* Where a table of the Booster has a key twice, it has its value twice.   *)
LEMMA ShapeIs ==
  ASSUME NEW t \in Seq(Entries), Shape(t)
  PROVE  /\ t # <<>> /\ t[1] = Magic
         /\ \A i, j \in 1 .. Len(t) :
              t[i].key = t[j].key => t[i] = t[j] /\ (i # j => Fixed(t[i].key))
<1>1. PICK b : b = BoosterTable
  OBVIOUS
<1>2. /\ Len(t) = Len(b) /\ Len(b) \in Nat /\ Len(b) >= 1 /\ b[1] = Magic
      /\ \A j \in 1 .. Len(t) : t[j].key = b[j].key /\ (Fixed(t[j].key) => t[j] = b[j])
  BY <1>1, BoosterTableIs DEF Shape
<1>3. ASSUME NEW i \in 1 .. Len(t), NEW j \in 1 .. Len(t), t[i].key = t[j].key
      PROVE  t[i] = t[j] /\ (i # j => Fixed(t[i].key))
  <2>1. b[i].key = b[j].key /\ b[i].key = t[i].key
    BY <1>2, <1>3
  <2>2. b[i] = b[j] /\ (i # j => Fixed(b[i].key))
    BY <1>1, <1>2, <2>1, BoosterTableIs
  <2>3. i # j => t[i] = b[i] /\ t[j] = b[j]
    BY <1>2, <1>3, <2>1, <2>2
  <2> QED
    BY <2>1, <2>2, <2>3
<1>4. t[1] = Magic
  <2>1. 1 \in 1 .. Len(t) /\ t[1].key = Magic.key /\ Fixed(Magic.key)
    BY <1>2, BoosterTableIs
  <2> QED
    BY <1>2, <2>1
<1>5. t # <<>>
  BY <1>2
<1> QED
  BY <1>3, <1>4, <1>5

(* What the Booster loads over its defaults is one of its tables.          *)
LEMMA LoadedShape ==
  ASSUME NEW f, IsFlash(f), f.image # <<>> => Shape(f.image), NEW n \in Nat
  PROVE  Shape(Loaded(f, BoosterTable, n))
<1>1. PICK b : b = BoosterTable
  OBVIOUS
<1>2. b \in Seq(Entries)
  BY <1>1, BoosterTableIs
<1>3. CASE Loaded(f, b, n) = b
  BY <1>1, <1>3 DEF Shape
<1>4. CASE \E s \in Seq(Entries) :
             /\ Loaded(f, b, n) = Overlay(b, s)
             /\ \E m \in 0 .. Len(f.image) : s = SubSeq(f.image, 1, m)
             /\ f.image # <<>>
  <2>1. PICK img : img = f.image
    OBVIOUS
  <2>2. img \in Seq(Entries) /\ Shape(img)
    BY <1>4, <2>1 DEF IsFlash, Tables
  <2>3. PICK s \in Seq(Entries) : /\ Loaded(f, b, n) = Overlay(b, s)
                                  /\ \E m \in 0 .. Len(img) : s = SubSeq(img, 1, m)
    BY <1>4, <2>1
  <2>4. PICK m \in 0 .. Len(img) : s = SubSeq(img, 1, m)
    BY <2>3
  <2>5. Len(s) = m /\ \A i \in 1 .. m : s[i] = img[i]
    BY <2>2, <2>4, SubSeqAre
  <2>6. PICK o : o = Overlay(b, s)
    OBVIOUS
  <2>7. IsOverlay(o, b, s)
    BY <1>2, <2>6, OverlayIs
  <2>8. ASSUME NEW j \in 1 .. Len(b), Fixed(o[j].key) PROVE o[j] = b[j]
    <3> SUFFICES ASSUME From(o[j], s) PROVE o[j] = b[j]
      BY <2>7 DEF IsOverlay
    <3>1. PICK i \in 1 .. m : s[i] = o[j]
      BY <2>5 DEF From
    <3>2. i \in 1 .. Len(img) /\ img[i] = o[j]
      BY <2>2, <2>4, <2>5, <3>1
    <3>3. i \in 1 .. Len(b) /\ img[i] = b[i]
      BY <1>1, <2>2, <2>8, <3>2 DEF Shape
    <3>4. o[j].key = b[j].key
      BY <2>7 DEF IsOverlay
    <3>5. b[i] = b[j]
      BY <1>1, <3>2, <3>3, <3>4, BoosterTableIs
    <3> QED
      BY <3>2, <3>3, <3>5
  <2>9. Shape(o)
    BY <1>1, <2>7, <2>8 DEF Shape, IsOverlay
  <2> QED
    BY <1>1, <2>3, <2>6, <2>9
<1> QED
  BY <1>1, <1>2, <1>3, <1>4, LoadedIs

LEMMA PutIs ==
  ASSUME NEW t \in Tables, Shape(t), NEW e \in Settable, Find(t, e.key) # {}, NEW u,
         u = [t EXCEPT ![First(Find(t, e.key))].value = e.value]
  PROVE  u \in Tables /\ Shape(u)
<1>1. t \in Seq(Entries) /\ Len(t) \in Nat /\ DOMAIN t = 1 .. Len(t) /\ Len(t) <= MaxEntries
  BY DEF Tables
<1>2. PICK x : x = First(Find(t, e.key))
  OBVIOUS
<1>3. x \in 1 .. Len(t) /\ t[x].key = e.key
  <2>1. Find(t, e.key) \in SUBSET Nat
    BY <1>1 DEF Find
  <2>2. x \in Find(t, e.key)
    BY <1>2, <2>1, FirstOf
  <2> QED
    BY <1>1, <2>2 DEF Find
<1>4. PICK d : d = [t[x] EXCEPT !.value = e.value]
  OBVIOUS
<1>5. d \in Entries /\ d.key = e.key
  <2>1. t[x] \in Entries
    BY <1>1, <1>3
  <2>2. e.value \in Values
    BY BoosterAssumption DEF Values, Given
  <2> QED
    BY <1>3, <1>4, <2>1, <2>2 DEF Entries
<1>6. u = [t EXCEPT ![x] = d]
  BY <1>2, <1>4
<1>7. u = [j \in 1 .. Len(t) |-> IF j = x THEN d ELSE t[j]]
  BY <1>1, <1>6
<1>8. /\ u \in Seq(Entries) /\ Len(u) = Len(t)
      /\ \A j \in 1 .. Len(t) : u[j] = IF j = x THEN d ELSE t[j]
  <2>1. \A j \in 1 .. Len(t) : u[j] = IF j = x THEN d ELSE t[j]
    BY <1>7
  <2>2. \A j \in 1 .. Len(t) : u[j] \in Entries
    BY <1>1, <1>5, <2>1
  <2>3. u = [j \in 1 .. Len(t) |-> u[j]]
    BY <1>7
  <2>4. PICK n \in Nat : n = Len(t)
    BY <1>1
  <2>5. Spans(u, n) /\ \A j \in 1 .. n : u[j] \in Entries
    BY <2>2, <2>3, <2>4 DEF Spans
  <2>6. u \in Seq(Entries) /\ Len(u) = n
    BY <2>5, SpansIsSeq
  <2> QED
    BY <2>1, <2>4, <2>6
<1>9. u \in Tables
  BY <1>1, <1>8 DEF Tables
<1>10. Shape(u)
  <2>1. ~Fixed(e.key)
    BY DEF Fixed
  <2> QED
    BY <1>3, <1>5, <1>8, <2>1 DEF Shape
<1> QED
  BY <1>9, <1>10

(* The sector holds a prefix, in pages, of the last table that was saved,  *)
(* all of it when that save came to its end; the Booster alone writes it.  *)
GlobalTypes ==
  /\ table \in Tables /\ IsFlash(flash) /\ saving \in {"no", "erase", "program"}
  /\ ret \in Int /\ complete \in BOOLEAN
GlobalInv ==
  /\ GlobalTypes
  /\ saving # "no" => phase = "booster" /\ table # NoTable
  /\ saving = "program" => flash.image = table
  /\ complete => flash.pages = PagesOf(flash.image)
  /\ phase = "booster" /\ table # NoTable => Shape(table)
  /\ flash.image # <<>> => Shape(flash.image)

LEMMA EmptyIs ==
  /\ NoTable \in Tables /\ PagesOf(NoTable) = 0
  /\ \A f : f = [image |-> <<>>, pages |-> 0] =>
       IsFlash(f) /\ f.image = <<>> /\ f.pages = PagesOf(f.image)
<1>1. NoTable \in Tables
  BY SectorHolds DEF NoTable, Tables
<1>2. PagesOf(NoTable) = 0
  <2>1. Len(NoTable) * EntrySize + PageSize - 1 = PageSize - 1
    BY SizesAssumption DEF NoTable
  <2>2. (PageSize - 1) \div PageSize = 0
    BY SizesAssumption
  <2> QED
    BY <2>1, <2>2 DEF PagesOf
<1>3. ASSUME NEW f, f = [image |-> <<>>, pages |-> 0]
      PROVE  IsFlash(f) /\ f.image = <<>> /\ f.pages = PagesOf(f.image)
  <2>1. f.image = <<>> /\ f.pages = 0 /\ f.image = NoTable
    BY <1>3 DEF NoTable
  <2> QED
    BY <1>1, <1>2, <1>3, <2>1 DEF IsFlash
<1> QED
  BY <1>1, <1>2, <1>3

LEMMA PagesOfTables ==
  ASSUME NEW t \in Tables
  PROVE  PagesOf(t) \in 0 .. Pages /\ PagesOf(t) \in Nat /\ Len(t) * EntrySize <= SectorSize
<1>1. Len(t) \in 0 .. MaxEntries
  BY DEF Tables
<1>2. Len(t) * EntrySize <= SectorSize /\ PagesOf(t) \in 0 .. Pages
  BY <1>1, SectorHolds DEF PagesOf
<1> QED
  BY <1>2, SectorHolds

LEMMA GlobalInit == BootInit => GlobalInv
<1> SUFFICES ASSUME BootInit PROVE GlobalInv
  OBVIOUS
<1>1. /\ table = NoTable /\ flash = [image |-> <<>>, pages |-> 0] /\ saving = "no" /\ ret = 0
      /\ complete = TRUE /\ phase = "off"
  BY DEF BootInit, SettingsInit
<1>2. /\ NoTable \in Tables /\ IsFlash(flash) /\ flash.image = <<>>
      /\ flash.pages = PagesOf(flash.image)
  BY <1>1, EmptyIs
<1> QED
  BY <1>1, <1>2 DEF GlobalInv, GlobalTypes

(* Another program than the Booster, or nothing of the library.            *)
LEMMA GlobalElsewhere ==
  ASSUME GlobalInv, UNCHANGED settingsVars,
         phase' = phase \/ (phase # "booster" /\ phase' # "booster")
  PROVE  GlobalInv'
<1>1. UNCHANGED <<table, flash, saving, ret, complete>>
  BY DEF settingsVars
<1>2. GlobalTypes'
  <2>1. GlobalTypes
    BY DEF GlobalInv
  <2> QED
    BY <1>1, <2>1 DEF GlobalTypes
<1> QED
  BY <1>1, <1>2 DEF GlobalInv

LEMMA GconfigInitKeeps ==
  ASSUME GlobalInv, GconfigInit
  PROVE  GlobalInv'
<1>1. /\ table' = Loaded(flash, DefaultTable, NumDefault) /\ ret' \in Int
      /\ UNCHANGED <<flash, saving, complete>> /\ phase = "gconfig" /\ phase' # "booster"
  BY DEF GconfigInit, Load
<1>2. table' \in Tables
  BY <1>1, LoadedTable, TablesAre DEF GlobalInv, GlobalTypes, IsLoaded
<1>3. GlobalTypes'
  <2>1. GlobalTypes
    BY DEF GlobalInv
  <2> QED
    BY <1>1, <1>2, <2>1 DEF GlobalTypes
<1> QED
  BY <1>1, <1>3 DEF GlobalInv

LEMMA BoosterLoadKeeps ==
  ASSUME GlobalInv, phase = "booster", phase' = phase, Load(BoosterTable, BoosterCount)
  PROVE  GlobalInv'
<1>1. /\ table' = Loaded(flash, BoosterTable, BoosterCount) /\ ret' \in Int /\ table = NoTable
      /\ UNCHANGED <<flash, saving, complete>>
  BY DEF Load
<1>2. IsFlash(flash) /\ (flash.image # <<>> => Shape(flash.image)) /\ BoosterCount \in Nat
  BY TablesAre DEF GlobalInv, GlobalTypes
<1>3. table' \in Tables
  BY <1>1, <1>2, LoadedTable, TablesAre DEF IsLoaded
<1>4. Shape(table')
  BY <1>1, <1>2, LoadedShape
<1>5. GlobalTypes'
  <2>1. GlobalTypes
    BY DEF GlobalInv
  <2> QED
    BY <1>1, <1>3, <2>1 DEF GlobalTypes
<1>6. saving' = "no"
  BY <1>1 DEF GlobalInv
<1>7. Shape(table)'
  BY <1>4 DEF Shape
<1> QED
  BY <1>1, <1>5, <1>6, <1>7 DEF GlobalInv

LEMMA BeginSaveKeeps ==
  ASSUME GlobalInv, phase = "booster", phase' = phase, BeginSave
  PROVE  GlobalInv'
<1>1. /\ UNCHANGED <<table, flash, complete>> /\ ret' \in Int /\ table # NoTable
      /\ saving = "no" /\ saving' \in {"no", "erase"}
  BY DEF BeginSave
<1>2. GlobalTypes'
  <2>1. GlobalTypes
    BY DEF GlobalInv
  <2> QED
    BY <1>1, <2>1 DEF GlobalTypes
<1> QED
  BY <1>1, <1>2 DEF GlobalInv

LEMMA EraseSectorKeeps ==
  ASSUME GlobalInv, phase = "booster", phase' = phase, EraseSector
  PROVE  GlobalInv'
<1>1. /\ UNCHANGED <<table, ret>> /\ saving' = "program" /\ complete' = FALSE /\ saving = "erase"
      /\ flash' = [image |-> table, pages |-> 0]
  BY DEF EraseSector
<1>2. flash'.image = table /\ flash'.pages = 0
  BY <1>1
<1>3. table \in Tables /\ PagesOf(table) \in Nat /\ table # NoTable /\ Shape(table)
  BY <1>1, PagesOfTables DEF GlobalInv, GlobalTypes
<1>4. IsFlash(flash')
  BY <1>1, <1>2, <1>3 DEF IsFlash
<1>5. GlobalTypes'
  <2>1. GlobalTypes
    BY DEF GlobalInv
  <2> QED
    BY <1>1, <1>4, <2>1 DEF GlobalTypes
<1> QED
  BY <1>1, <1>2, <1>3, <1>5 DEF GlobalInv

LEMMA ProgramPageKeeps ==
  ASSUME GlobalInv, phase = "booster", phase' = phase, ProgramPage
  PROVE  GlobalInv'
<1>1. UNCHANGED <<table, saving, ret, complete>> /\ saving = "program" /\ flash.pages < PagesOf(table)
  BY DEF ProgramPage
<1>2. /\ flash = [image |-> flash.image, pages |-> flash.pages] /\ flash.pages \in Nat
      /\ flash.image = table /\ table \in Tables
  BY <1>1 DEF GlobalInv, GlobalTypes, IsFlash
<1>3. PagesOf(table) \in Nat
  BY <1>2, PagesOfTables
<1>4. flash' = [image |-> flash.image, pages |-> flash.pages + 1]
  BY <1>2 DEF ProgramPage
<1>5. flash'.image = table /\ flash'.pages = flash.pages + 1
  BY <1>2, <1>4
<1>6. IsFlash(flash')
  BY <1>1, <1>2, <1>3, <1>4, <1>5 DEF IsFlash
<1>7. GlobalTypes'
  <2>1. GlobalTypes
    BY DEF GlobalInv
  <2> QED
    BY <1>1, <1>6, <2>1 DEF GlobalTypes
<1>8. ~complete
  BY <1>1, <1>2, <1>3 DEF GlobalInv
<1> QED
  BY <1>1, <1>2, <1>5, <1>7, <1>8 DEF GlobalInv

LEMMA EndSaveKeeps ==
  ASSUME GlobalInv, phase = "booster", phase' = phase, EndSave
  PROVE  GlobalInv'
<1>1. /\ UNCHANGED <<table, flash, ret>> /\ saving = "program" /\ saving' = "no" /\ complete' = TRUE
      /\ flash.pages = PagesOf(table)
  BY DEF EndSave
<1>2. GlobalTypes'
  <2>1. GlobalTypes
    BY DEF GlobalInv
  <2> QED
    BY <1>1, <2>1 DEF GlobalTypes
<1> QED
  BY <1>1, <1>2 DEF GlobalInv

LEMMA EraseKeeps ==
  ASSUME GlobalInv, phase = "booster", phase' = phase, Erase
  PROVE  GlobalInv'
<1>1. /\ UNCHANGED saving /\ saving = "no" /\ table' = NoTable /\ ret' = 0 /\ complete' = TRUE
      /\ flash' = [image |-> <<>>, pages |-> 0]
  BY DEF Erase
<1>2. /\ NoTable \in Tables /\ IsFlash(flash') /\ flash'.image = <<>>
      /\ flash'.pages = PagesOf(flash'.image)
  BY <1>1, EmptyIs
<1>3. GlobalTypes'
  BY <1>1, <1>2 DEF GlobalTypes
<1> QED
  BY <1>1, <1>2, <1>3 DEF GlobalInv

LEMMA PutKeeps ==
  ASSUME GlobalInv, phase = "booster", phase' = phase, NEW e \in Settable, Put(e.key, e.value)
  PROVE  GlobalInv'
<1>1. UNCHANGED <<flash, saving, complete>> /\ saving = "no" /\ table # NoTable /\ ret' \in Int
  BY DEF Put
<1>2. GlobalTypes /\ table \in Tables /\ Shape(table)
  BY <1>1 DEF GlobalInv, GlobalTypes
<1>3. table' \in Tables /\ Shape(table')
  <2>1. CASE Find(table, e.key) = {}
    <3>1. table' = table
      BY <2>1 DEF Put
    <3> QED
      BY <1>2, <3>1
  <2>2. CASE Find(table, e.key) # {}
    <3>1. table' = [table EXCEPT ![First(Find(table, e.key))].value = e.value]
      BY <2>2 DEF Put
    <3> QED
      BY <1>2, <2>2, <3>1, PutIs
  <2> QED
    BY <2>1, <2>2
<1>4. GlobalTypes'
  BY <1>1, <1>2, <1>3 DEF GlobalTypes
<1>5. Shape(table)'
  BY <1>3 DEF Shape
<1> QED
  BY <1>1, <1>4, <1>5 DEF GlobalInv

LEMMA BoosterStepKeeps ==
  ASSUME GlobalInv, BoosterStep
  PROVE  GlobalInv'
<1>1. phase = "booster" /\ phase' = phase
  BY DEF BoosterStep, boardVars
<1> QED
  BY <1>1, BoosterLoadKeeps, BeginSaveKeeps, EraseSectorKeeps, ProgramPageKeeps, EndSaveKeeps,
     EraseKeeps, PutKeeps DEF BoosterStep, SaveStep

LEMMA JumpToBoosterKeeps ==
  ASSUME GlobalInv, JumpToBooster
  PROVE  GlobalInv'
<1>1. /\ table' = NoTable /\ UNCHANGED <<flash, saving, ret, complete>> /\ phase = "to_booster"
  BY DEF JumpToBooster
<1>2. GlobalTypes'
  <2>1. GlobalTypes
    BY DEF GlobalInv
  <2> QED
    BY <1>1, <2>1, EmptyIs DEF GlobalTypes
<1> QED
  BY <1>1, <1>2 DEF GlobalInv

LEMMA OffKeeps ==
  ASSUME GlobalInv, Off
  PROVE  GlobalInv'
<1>1. table' = NoTable /\ saving' = "no" /\ UNCHANGED <<flash, ret, complete>> /\ phase' = "off"
  BY DEF Off, PowerLoss
<1>2. GlobalTypes'
  <2>1. GlobalTypes
    BY DEF GlobalInv
  <2> QED
    BY <1>1, <2>1, EmptyIs DEF GlobalTypes
<1> QED
  BY <1>1, <1>2 DEF GlobalInv

LEMMA BootKeepsGlobal == GlobalInv /\ [BootNext]_bootVars => GlobalInv'
<1> SUFFICES ASSUME GlobalInv, [BootNext]_bootVars PROVE GlobalInv'
  OBVIOUS
<1>1. CASE PowerOn \/ Register
  <2>1. UNCHANGED settingsVars
    BY <1>1 DEF PowerOn, Register
  <2>2. phase' = phase \/ (phase # "booster" /\ phase' # "booster")
    BY <1>1 DEF PowerOn, Register
  <2> QED
    BY <2>1, <2>2, GlobalElsewhere
<1>5. CASE UNCHANGED bootVars
  <2>1. UNCHANGED settingsVars /\ phase' = phase
    BY <1>5 DEF bootVars, boardVars
  <2> QED
    BY <2>1, GlobalElsewhere
<1>2. CASE (\E held \in BOOLEAN : Select(held)) \/ AconfigInit
  BY <1>2, GlobalElsewhere DEF Select, AconfigInit
<1>3. CASE BeginFirstSave \/ SaveApp
  BY <1>3, GlobalElsewhere DEF BeginFirstSave, SaveApp
<1>4. CASE StartEmul \/ Emul \/ EmulTurn
  BY <1>4, GlobalElsewhere DEF StartEmul, Emul, EmulTurn, boardVars
<1> QED
  BY <1>1, <1>2, <1>3, <1>4, <1>5, GconfigInitKeeps, BoosterStepKeeps, JumpToBoosterKeeps, OffKeeps
     DEF BootNext, MainStep

(* The global sector is the Booster's, at whatever page a save was cut.    *)
THEOREM GlobalInvariant == BootSpec => []GlobalInv
BY GlobalInit, BootKeepsGlobal, PTL DEF BootSpec

IsImage(f) == f = [image |-> f.image, pages |-> f.pages] /\ f.pages \in Nat

FirstSave ==
  /\ IsImage(aflash)
  /\ asaving # "no" => phase = "saving"
  /\ phase = "save" \/ asaving = "erase" => ~App!HasMagic(aflash)

StepKeepsSettings ==
  App!HasMagic(aflash) /\ aflash' # aflash =>
    aflash'.image = aflash.image /\ aflash'.pages > aflash.pages

LEMMA FirstSaveInit == BootInit => FirstSave
  BY DEF BootInit, App!SettingsInit, FirstSave, IsImage

(* What leaves the sector and the save alone, and begins none.             *)
LEMMA Elsewhere ==
  ASSUME FirstSave, UNCHANGED <<aflash, asaving>>,
         asaving # "no" => phase' = "saving", phase' = "save" => phase = "save"
  PROVE  FirstSave' /\ StepKeepsSettings
<1>1. App!HasMagic(aflash)' <=> App!HasMagic(aflash)
  BY DEF App!HasMagic, App!Raw, App!Programmed
<1> QED
  BY <1>1 DEF FirstSave, IsImage, StepKeepsSettings

(* aconfig_init: a save follows only a load that found no magic.           *)
LEMMA AconfigInitKeeps ==
  ASSUME FirstSave, AconfigInit PROVE FirstSave' /\ StepKeepsSettings
<1>1. asaving = "no"
  BY DEF FirstSave, AconfigInit
<1>2. UNCHANGED <<aflash, asaving>>
  BY DEF AconfigInit, App!Load, aVars
<1>3. App!HasMagic(aflash)' <=> App!HasMagic(aflash)
  BY <1>2 DEF App!HasMagic, App!Raw, App!Programmed
<1>4. phase' = "save" => ~App!HasMagic(aflash)
  BY DEF AconfigInit, App!Load, FirstTime
<1> QED
  BY <1>1, <1>2, <1>3, <1>4 DEF FirstSave, IsImage, StepKeepsSettings

LEMMA BeginFirstSaveKeeps ==
  ASSUME FirstSave, BeginFirstSave PROVE FirstSave' /\ StepKeepsSettings
<1>1. App!HasMagic(aflash)' <=> App!HasMagic(aflash)
  BY DEF BeginFirstSave, App!BeginSave, App!HasMagic, App!Raw, App!Programmed
<1>2. UNCHANGED aflash /\ ~App!HasMagic(aflash)
  BY DEF BeginFirstSave, App!BeginSave, FirstSave
<1>3. asaving' # "no" => phase' = "saving"
  BY DEF BeginFirstSave, App!BeginSave
<1> QED
  BY <1>1, <1>2, <1>3 DEF FirstSave, IsImage, StepKeepsSettings

(* settings_save: the erase finds no magic, a page comes behind the others.*)
LEMMA SaveAppKeeps ==
  ASSUME FirstSave, SaveApp PROVE FirstSave' /\ StepKeepsSettings
<1>1. CASE App!EraseSector
  <2>1. asaving' = "program" /\ phase' = "saving"
    BY <1>1 DEF SaveApp, App!EraseSector
  <2>2. IsImage(aflash)'
    BY <1>1 DEF App!EraseSector, IsImage
  <2>3. ~App!HasMagic(aflash)
    BY <1>1 DEF App!EraseSector, FirstSave
  <2> QED
    BY <2>1, <2>2, <2>3 DEF FirstSave, StepKeepsSettings
<1>2. CASE App!ProgramPage
  <2>1. asaving' = "program" /\ phase' = "saving"
    BY <1>2 DEF SaveApp, App!ProgramPage
  <2>2. aflash' = [image |-> aflash.image, pages |-> aflash.pages + 1]
    BY <1>2 DEF App!ProgramPage, FirstSave, IsImage
  <2>3. aflash.pages \in Nat
    BY DEF FirstSave, IsImage
  <2> QED
    BY <2>1, <2>2, <2>3 DEF FirstSave, IsImage, StepKeepsSettings
<1>3. CASE App!EndSave
  <2>1. UNCHANGED aflash /\ asaving' = "no" /\ phase' = "emul"
    BY <1>3 DEF SaveApp, App!EndSave
  <2> QED
    BY <2>1 DEF FirstSave, IsImage, StepKeepsSettings
<1> QED
  BY <1>1, <1>2, <1>3 DEF SaveApp, App!SaveStep

(* A step of main.                                                         *)
LEMMA MainKeeps ==
  ASSUME FirstSave, MainStep PROVE FirstSave' /\ StepKeepsSettings
<1>1. CASE \E held \in BOOLEAN : Select(held)
  BY <1>1, Elsewhere DEF FirstSave, Select, aVars
<1>2. CASE GconfigInit
  BY <1>2, Elsewhere DEF FirstSave, GconfigInit, aVars
<1>3. CASE StartEmul \/ Emul
  BY <1>3, Elsewhere DEF FirstSave, StartEmul, Emul, boardVars, aVars
<1>4. CASE JumpToBooster
  BY <1>4, Elsewhere DEF FirstSave, JumpToBooster
<1> QED
  BY <1>1, <1>2, <1>3, <1>4, AconfigInitKeeps, BeginFirstSaveKeeps, SaveAppKeeps DEF MainStep

(* Any step.                                                               *)
LEMMA BootKeeps ==
  ASSUME FirstSave, [BootNext]_bootVars PROVE FirstSave' /\ StepKeepsSettings
<1>1. CASE PowerOn
  BY <1>1, Elsewhere DEF FirstSave, PowerOn, aVars
<1>2. CASE EmulTurn
  BY <1>2, Elsewhere DEF FirstSave, EmulTurn, boardVars, aVars
<1>3. CASE BoosterStep
  BY <1>3, Elsewhere DEF FirstSave, BoosterStep, boardVars, aVars
<1>4. CASE Register
  BY <1>4, Elsewhere DEF FirstSave, Register, aVars
<1>5. CASE Off
  <2>1. UNCHANGED aflash /\ asaving' = "no" /\ phase' = "off"
    BY <1>5 DEF Off, App!PowerLoss
  <2> QED
    BY <2>1 DEF FirstSave, IsImage, StepKeepsSettings
<1>6. CASE UNCHANGED bootVars
  BY <1>6, Elsewhere DEF FirstSave, bootVars, boardVars, aVars
<1> QED
  BY <1>1, <1>2, <1>3, <1>4, <1>5, <1>6, MainKeeps DEF BootNext

(* The first save is never begun with settings in the sector.              *)
THEOREM FirstSaveInvariant == BootSpec => []FirstSave
<1>1. FirstSave /\ [BootNext]_bootVars => FirstSave'
  BY BootKeeps
<1> QED
  BY <1>1, FirstSaveInit, PTL DEF BootSpec

(* Settings that are in the sector stay there, through any power loss.     *)
THEOREM SettingsOnceSavedStay == BootSpec => AppSettingsStay
<1>1. FirstSave /\ [BootNext]_bootVars => [StepKeepsSettings]_bootVars
  BY BootKeeps
<1> QED
  BY <1>1, FirstSaveInvariant, PTL DEF BootSpec, AppSettingsStay, StepKeepsSettings


(***************************************************************************)
(* The application's table                                                 *)
(***************************************************************************)
AppTypes ==
  /\ atable \in Tables /\ IsFlash(aflash) /\ asaving \in {"no", "erase", "program"}
  /\ aret \in Int /\ acomplete \in BOOLEAN
AppInv == AppTypes /\ (asaving = "program" => aflash.image = atable)

LEMMA AppInit == BootInit => AppInv
<1> SUFFICES ASSUME BootInit PROVE AppInv
  OBVIOUS
<1>1. /\ atable = <<>> /\ aflash = [image |-> <<>>, pages |-> 0] /\ asaving = "no" /\ aret = 0
      /\ acomplete = TRUE
  BY DEF BootInit, App!SettingsInit, App!NoTable
<1>2. <<>> \in Tables /\ IsFlash(aflash)
  BY <1>1, EmptyIs DEF NoTable
<1> QED
  BY <1>1, <1>2 DEF AppInv, AppTypes

LEMMA AppElsewhere == ASSUME AppInv, UNCHANGED aVars PROVE AppInv'
<1>1. UNCHANGED <<atable, aflash, asaving, aret, acomplete>>
  BY DEF aVars
<1> QED
  BY <1>1 DEF AppInv, AppTypes

(* The library reads the one sector as it reads the other.                 *)
LEMMA AppLoads ==
  ASSUME NEW f, NEW t, NEW n
  PROVE  App!Loaded(f, t, n) = Loaded(f, t, n)
<1>1. \A j : App!Raw(f, j) = Raw(f, j)
  BY DEF App!Raw, Raw, App!Programmed, Programmed, App!Entry, Entry
<1>2. App!HasMagic(f) <=> HasMagic(f)
  BY <1>1 DEF App!HasMagic, HasMagic
<1>3. App!Stored(f) = Stored(f)
  <2>1. PICK raw : raw = [j \in 1 .. Len(f.image) |-> Raw(f, j)]
    OBVIOUS
  <2>2. raw = [j \in 1 .. Len(f.image) |-> App!Raw(f, j)]
    BY <1>1, <2>1
  <2>3. PICK stops : stops = {j \in DOMAIN raw : IsInvalid(raw[j])}
    OBVIOUS
  <2>4. stops = {j \in DOMAIN raw : App!IsInvalid(raw[j])}
    BY <2>3 DEF App!IsInvalid, IsInvalid
  <2>5. App!Before(raw, stops) = Before(raw, stops)
    BY DEF App!Before, Before, App!First, First
  <2>6. Stored(f) = Before(raw, stops)
    BY <2>1, <2>3 DEF Stored
  <2>7. App!Stored(f) = App!Before(raw, stops)
    BY <2>2, <2>4 DEF App!Stored
  <2> QED
    BY <2>5, <2>6, <2>7
<1>4. \A s : App!Limit(s, n) = Limit(s, n)
  BY DEF App!Limit, Limit, App!NumEntries, NumEntries, App!MaxEntries, MaxEntries
<1>5. \A s : App!Overlay(t, s) = Overlay(t, s)
  BY DEF App!Overlay, Overlay, App!Overlaid, Overlaid, App!Find, Find, App!First, First
<1> QED
  BY <1>2, <1>3, <1>4, <1>5 DEF App!Loaded, Loaded

LEMMA AppLoadKeeps ==
  ASSUME AppInv, asaving = "no", App!Load(AppTable, Len(AppDefaults))
  PROVE  AppInv'
<1>1. /\ atable' = App!Loaded(aflash, AppTable, Len(AppDefaults)) /\ aret' \in Int
      /\ UNCHANGED <<aflash, asaving, acomplete>> /\ atable = <<>>
  BY DEF App!Load, App!NoTable
<1>2. AppTypes
  BY DEF AppInv
<1>3. atable' \in Tables
  BY <1>1, <1>2, AppLoads, LoadedTable, TablesAre DEF AppTypes, IsLoaded
<1> QED
  BY <1>1, <1>2, <1>3 DEF AppInv, AppTypes

LEMMA AppSaveKeeps ==
  ASSUME AppInv, App!SaveStep
  PROVE  AppInv'
<1>1. AppTypes
  BY DEF AppInv
<1>2. CASE App!EraseSector
  <2>1. /\ UNCHANGED <<atable, aret>> /\ asaving' = "program" /\ acomplete' = FALSE
        /\ aflash' = [image |-> atable, pages |-> 0]
    BY <1>2 DEF App!EraseSector
  <2>2. aflash'.image = atable /\ aflash'.pages = 0
    BY <2>1
  <2>3. atable \in Tables /\ PagesOf(atable) \in Nat
    BY <1>1, PagesOfTables DEF AppTypes
  <2>4. IsFlash(aflash')
    BY <2>1, <2>2, <2>3 DEF IsFlash
  <2> QED
    BY <1>1, <2>1, <2>2, <2>4 DEF AppInv, AppTypes
<1>3. CASE App!ProgramPage
  <2>1. /\ UNCHANGED <<atable, asaving, aret, acomplete>> /\ asaving = "program"
        /\ aflash.pages < PagesOf(atable)
    BY <1>3 DEF App!ProgramPage, App!PagesOf, PagesOf
  <2>2. /\ aflash = [image |-> aflash.image, pages |-> aflash.pages] /\ aflash.pages \in Nat
        /\ aflash.image = atable /\ atable \in Tables
    BY <1>1, <2>1 DEF AppInv, AppTypes, IsFlash
  <2>3. PagesOf(atable) \in Nat
    BY <2>2, PagesOfTables
  <2>4. aflash' = [image |-> aflash.image, pages |-> aflash.pages + 1]
    BY <1>3, <2>2 DEF App!ProgramPage
  <2>5. aflash'.image = atable /\ aflash'.pages = aflash.pages + 1
    BY <2>2, <2>4
  <2>6. IsFlash(aflash')
    BY <2>1, <2>2, <2>3, <2>4, <2>5 DEF IsFlash
  <2> QED
    BY <1>1, <2>1, <2>5, <2>6 DEF AppInv, AppTypes
<1>4. CASE App!EndSave
  <2>1. UNCHANGED <<atable, aflash, aret>> /\ asaving' = "no" /\ acomplete' = TRUE
    BY <1>4 DEF App!EndSave
  <2> QED
    BY <1>1, <2>1 DEF AppInv, AppTypes
<1> QED
  BY <1>2, <1>3, <1>4 DEF App!SaveStep

LEMMA BootKeepsApp == FirstSave /\ AppInv /\ [BootNext]_bootVars => AppInv'
<1> SUFFICES ASSUME FirstSave, AppInv, [BootNext]_bootVars PROVE AppInv'
  OBVIOUS
<1>1. AppTypes
  BY DEF AppInv
<1>2. CASE AconfigInit
  <2>1. asaving = "no"
    BY <1>2 DEF FirstSave, AconfigInit
  <2> QED
    BY <1>2, <2>1, AppLoadKeeps, AppElsewhere DEF AconfigInit
<1>3. CASE BeginFirstSave
  <2>1. /\ UNCHANGED <<atable, aflash, acomplete>> /\ aret' \in Int
        /\ asaving = "no" /\ asaving' \in {"no", "erase"}
    BY <1>3 DEF BeginFirstSave, App!BeginSave
  <2> QED
    BY <1>1, <2>1 DEF AppInv, AppTypes
<1>4. CASE SaveApp
  BY <1>4, AppSaveKeeps DEF SaveApp
<1>5. CASE JumpToBooster
  <2>1. atable' = NoTable /\ UNCHANGED <<aflash, asaving, aret, acomplete>> /\ asaving = "no"
    BY <1>5 DEF JumpToBooster, FirstSave
  <2> QED
    BY <1>1, <2>1, EmptyIs DEF AppInv, AppTypes
<1>6. CASE Off
  <2>1. atable' = NoTable /\ asaving' = "no" /\ UNCHANGED <<aflash, aret, acomplete>>
    BY <1>6 DEF Off, App!PowerLoss, App!NoTable, NoTable
  <2> QED
    BY <1>1, <2>1, EmptyIs DEF AppInv, AppTypes
<1>7. CASE UNCHANGED aVars
  BY <1>7, AppElsewhere
<1>8. UNCHANGED aVars \/ AconfigInit \/ BeginFirstSave \/ SaveApp \/ JumpToBooster \/ Off
  BY DEF BootNext, MainStep, PowerOn, Select, GconfigInit, StartEmul, Emul, EmulTurn, BoosterStep,
         Register, bootVars
<1> QED
  BY <1>2, <1>3, <1>4, <1>5, <1>6, <1>7, <1>8

(***************************************************************************)
(* The types, and what a table is worth after any history                  *)
(***************************************************************************)
PhaseInv ==
  /\ phase \in {"off", "select", "gconfig", "aconfig", "save", "saving", "emul",
                "to_booster", "booster"}
  /\ registered \in BOOLEAN

LEMMA BootKeepsPhase == PhaseInv /\ [BootNext]_bootVars => PhaseInv'
BY DEF PhaseInv, BootNext, MainStep, PowerOn, Select, GconfigInit, AconfigInit, BeginFirstSave,
       SaveApp, StartEmul, Emul, EmulTurn, JumpToBooster, BoosterStep, Register, Off, bootVars,
       boardVars

LEMMA TypesFit ==
  ASSUME GlobalInv, AppInv, FirstSave, PhaseInv
  PROVE  TableFits /\ App!TableFits
<1>1. ASSUME NEW t \in Tables
      PROVE  IsTable(t) /\ App!IsTable(t) /\ Len(t) * EntrySize <= SectorSize
  <2>1. t \in Seq(Entries)
    BY DEF Tables
  <2>2. \A j \in DOMAIN t : t[j] \in Entries
    BY <2>1
  <2>3. \A j \in DOMAIN t : t[j].key \in Keys
    BY <2>2 DEF Entries
  <2> QED
    BY <2>3, PagesOfTables DEF IsTable, App!IsTable
<1>2. ASSUME NEW f, IsFlash(f)
      PROVE  IsTable(f.image) /\ App!IsTable(f.image) /\ f.pages \in 0 .. Pages
             /\ App!Pages = Pages
  <2>1. f.image \in Tables /\ f.pages \in Nat /\ f.pages <= PagesOf(f.image)
    BY <1>2 DEF IsFlash
  <2>2. f.pages \in 0 .. Pages
    BY <2>1, PagesOfTables, SectorHolds
  <2> QED
    BY <1>1, <2>1, <2>2 DEF App!Pages, Pages
<1>3. TableFits
  BY <1>1, <1>2 DEF TableFits, GlobalInv, GlobalTypes
<1>4. App!TableFits
  BY <1>1, <1>2 DEF App!TableFits, AppInv, AppTypes
<1> QED
  BY <1>3, <1>4

(* One load: the prefix is what is read of the sector, nothing of it when  *)
(* it does not begin with the magic.                                       *)
Recovers(n) ==
  \A j \in DOMAIN table' :
    LET k == table'[j].key
        kept == Find(SubSeq(flash.image, 1, n), k)
    IN  First(Find(table', k)) = j =>
          table'[j].value = IF kept = {} THEN ValueOf(DefaultTable, k)
                            ELSE flash.image[First(kept)].value
LoadIsRight ==
  GconfigInit => \E n \in 0 .. Len(flash.image) :
    /\ complete => n = Len(flash.image)
    /\ Recovers(n)

(* In a table laid over t, the first entry of a key is the one it was in t.*)
LEMMA FirstStays ==
  ASSUME NEW t \in Seq(Entries), NEW o \in Seq(Entries), Len(o) = Len(t),
         \A j \in 1 .. Len(t) : o[j].key = t[j].key
  PROVE  \A k : Find(o, k) = Find(t, k)
<1>1. DOMAIN o = 1 .. Len(t) /\ DOMAIN t = 1 .. Len(t)
  OBVIOUS
<1> QED
  BY <1>1 DEF Find

LEMMA LoadNothing ==
  ASSUME table' = DefaultTable
  PROVE  Recovers(0)
<1>1. PICK t : t = DefaultTable
  OBVIOUS
<1>2. t \in Seq(Entries) /\ DOMAIN t = 1 .. Len(t)
  BY <1>1, TablesAre DEF IsLoaded, Tables
<1>3. \A k : Find(SubSeq(flash.image, 1, 0), k) = {}
  <2>1. SubSeq(flash.image, 1, 0) = <<>>
    BY SubSeqEmpty
  <2> QED
    BY <2>1 DEF Find
<1>4. \A j \in DOMAIN t : First(Find(t, t[j].key)) = j => t[j].value = ValueOf(t, t[j].key)
  BY DEF ValueOf
<1> QED
  BY <1>1, <1>3, <1>4 DEF Recovers

LEMMA LoadPrefix ==
  ASSUME GlobalInv, NEW n \in 0 .. Len(flash.image), flash.image # <<>>,
         table' = Overlay(DefaultTable, SubSeq(flash.image, 1, n))
  PROVE  Recovers(n)
<1>1. PICK t : t = DefaultTable
  OBVIOUS
<1>2. t \in Seq(Entries) /\ DOMAIN t = 1 .. Len(t)
  BY <1>1, TablesAre DEF IsLoaded, Tables
<1>3. PICK img : img = flash.image
  OBVIOUS
<1>4. img \in Seq(Entries) /\ Shape(img) /\ Len(img) \in Nat
  BY <1>3 DEF GlobalInv, GlobalTypes, IsFlash, Tables
<1>5. PICK s : s = SubSeq(img, 1, n)
  OBVIOUS
<1>6. /\ s \in Seq(Entries) /\ Len(s) = n /\ DOMAIN s = 1 .. n
      /\ \A i \in 1 .. n : i \in 1 .. Len(img) /\ s[i] = img[i]
  BY <1>3, <1>4, <1>5, SubSeqAre
<1>7. PICK o : o = table'
  OBVIOUS
<1>8. IsOverlay(o, t, s)
  BY <1>1, <1>2, <1>3, <1>5, <1>6, <1>7, OverlayIs
<1>9. o \in Seq(Entries) /\ Len(o) = Len(t) /\ \A j \in 1 .. Len(t) : o[j].key = t[j].key
  BY <1>8 DEF IsOverlay
<1>10. \A k : Find(o, k) = Find(t, k)
  BY <1>2, <1>9, FirstStays
<1>11. ASSUME NEW j \in DOMAIN o, First(Find(o, o[j].key)) = j
       PROVE  o[j].value = IF Find(s, o[j].key) = {} THEN ValueOf(t, o[j].key)
                           ELSE img[First(Find(s, o[j].key))].value
  <2>1. j \in 1 .. Len(t) /\ o[j].key = t[j].key /\ First(Find(t, t[j].key)) = j
    BY <1>9, <1>10, <1>11
  <2>2. PICK kept : kept = Find(s, t[j].key)
    OBVIOUS
  <2>3. IF kept = {} THEN o[j] = t[j] ELSE From(o[j], s)
    BY <1>8, <2>1, <2>2 DEF IsOverlay
  <2>4. CASE kept = {}
    BY <2>1, <2>2, <2>3, <2>4 DEF ValueOf
  <2>5. CASE kept # {}
    <3>1. PICK i \in 1 .. n : s[i] = o[j]
      BY <1>6, <2>3, <2>5 DEF From
    <3>2. PICK x : x = First(kept)
      OBVIOUS
    <3>3. x \in 1 .. n /\ s[x].key = t[j].key
      <4>1. kept \in SUBSET Nat
        BY <1>6, <2>2 DEF Find
      <4>2. x \in kept
        BY <2>5, <3>2, <4>1, FirstOf
      <4> QED
        BY <1>6, <2>2, <4>2 DEF Find
    <3>4. /\ i \in 1 .. Len(img) /\ img[i] = o[j] /\ x \in 1 .. Len(img)
          /\ img[x].key = img[i].key
      BY <1>6, <2>1, <3>1, <3>3
    <3>5. img[x] = img[i]
      BY <1>4, <3>4, ShapeIs
    <3> QED
      BY <2>1, <2>2, <2>5, <3>2, <3>4, <3>5
  <2> QED
    BY <2>4, <2>5
<1>12. \A j \in DOMAIN o :
         First(Find(o, o[j].key)) = j =>
           o[j].value = IF Find(s, o[j].key) = {} THEN ValueOf(t, o[j].key)
                        ELSE img[First(Find(s, o[j].key))].value
  BY <1>11
<1> QED
  BY <1>1, <1>3, <1>5, <1>7, <1>12 DEF Recovers

LEMMA LoadRight == GlobalInv => LoadIsRight
<1> SUFFICES ASSUME GlobalInv, GconfigInit
             PROVE  \E n \in 0 .. Len(flash.image) :
                      (complete => n = Len(flash.image)) /\ Recovers(n)
  BY DEF LoadIsRight
<1>1. PICK img : img = flash.image
  OBVIOUS
<1>2. /\ IsFlash(flash) /\ img \in Seq(Entries) /\ Len(img) \in Nat /\ Len(img) <= MaxEntries
      /\ complete => flash.pages = PagesOf(img)
      /\ img # <<>> => Shape(img)
  BY <1>1 DEF GlobalInv, GlobalTypes, IsFlash, Tables
<1>3. table' = Loaded(flash, DefaultTable, NumDefault)
  BY DEF GconfigInit, Load
<1>4. PICK n \in 0 .. Len(img) : /\ Stored(flash) = SubSeq(img, 1, n)
                                 /\ flash.pages = PagesOf(img) => n = Len(img)
  BY <1>1, <1>2, StoredIs
<1>5. CASE HasMagic(flash)
  <2>1. PICK s : s = SubSeq(img, 1, n)
    OBVIOUS
  <2>2. s \in Seq(Entries) /\ Len(s) = n
    BY <1>2, <2>1, SubSeqAre
  <2>3. NumEntries(NumDefault) = MaxEntries /\ NumDefault \in Nat
    BY SectorHolds DEF NumEntries, NumDefault
  <2>4. Limit(s, NumDefault) = s
    <3>1. Len(s) <= NumEntries(NumDefault)
      BY <1>2, <2>2, <2>3, SectorHolds
    <3> QED
      BY <2>2, <2>3, <3>1, LimitIs
  <2>5. table' = Overlay(DefaultTable, s) /\ img # <<>>
    BY <1>1, <1>3, <1>4, <1>5, <2>1, <2>4 DEF Loaded, HasMagic
  <2>6. Recovers(n)
    BY <1>1, <2>1, <2>5, LoadPrefix
  <2> QED
    BY <1>1, <1>2, <1>4, <2>6
<1>6. CASE ~HasMagic(flash)
  <2>1. table' = DefaultTable
    BY <1>3, <1>6 DEF Loaded
  <2>2. Recovers(0)
    BY <2>1, LoadNothing
  <2>3. ASSUME complete PROVE Len(img) = 0
    <3> SUFFICES ASSUME img # <<>> PROVE FALSE
      BY <1>2
    <3>1. Shape(img) /\ img[1] = Magic /\ 1 \in 1 .. Len(img) /\ 1 \in 1 .. MaxEntries
      BY <1>2, ShapeIs, SectorHolds
    <3>2. PICK j : j = 1
      OBVIOUS
    <3>3. Programmed(flash, EntrySize * (j - 1) + EntrySize)
      <4>1. flash.pages = PagesOf(img)
        BY <1>2, <2>3
      <4>2. Len(img) \in Nat /\ j \in 1 .. Len(img)
        BY <1>2, <3>1, <3>2
      <4> QED
        BY <4>1, <4>2, SizesAssumption, PagesHold DEF Programmed, PagesOf
    <3>4. Raw(flash, j) = flash.image[j]
      BY <3>1, <3>2, <3>3, ReadsWhole
    <3>5. Raw(flash, 1) = Magic
      BY <1>1, <3>1, <3>2, <3>4
    <3> QED
      BY <1>1, <1>6, <3>5 DEF HasMagic
  <2>4. 0 \in 0 .. Len(img)
    BY <1>2
  <2> QED
    BY <1>1, <2>2, <2>3, <2>4
<1> QED
  BY <1>5, <1>6

(* No boot reads a torn entry, or forgets one that a whole save left.      *)
THEOREM SettingsSurvive == BootSpec => LoadRecovers
<1>1. GlobalInv => LoadIsRight
  BY LoadRight
<1>2. GlobalInv /\ [BootNext]_bootVars => [LoadIsRight]_bootVars
  BY <1>1
<1> QED
  BY <1>2, GlobalInvariant, PTL DEF BootSpec, LoadRecovers, LoadIsRight, Recovers

(***************************************************************************)
(* What the connection loop reports                                        *)
(***************************************************************************)
InLoop == pc \in {"test", "poll", "callback", "done"}

(* Nothing has happened before the attempt begins.                         *)
Untouched ==
  pc \in {"off", "wifi", "worker", "begin"} =>
    /\ now = 0 /\ served = 0 /\ seenAt = -1 /\ upAt = -1 /\ staRet = "none"
    /\ conn = "down" /\ status = "down" /\ radio # "linked" /\ ~ip /\ ~joined
    /\ pc \in {"worker", "begin"} => flag
    /\ pc = "begin" => callback

Looping ==
  /\ InLoop => callback /\ staRet = "none" /\ served = now
  /\ pc \in {"poll", "callback"} => now < Timeout

(* The time of the link; and with DHCP, whatever looks like a connection   *)
(* was one.                                                                *)
LinkInv ==
  /\ upAt # -1 <=> radio = "linked" /\ ip
  /\ config.dhcp => /\ ip => joined
                    /\ conn = "up" => joined
                    /\ InLoop /\ status = "up" => joined

(* A link that is up is in the status the loop reads next: either the      *)
(* address came with it, and the callback has set the status, or it is     *)
(* time to ask the driver.                                                 *)
NoticeInv ==
  /\ pc = "test" => /\ upAt # -1 => conn = "up" /\ now - upAt <= MaxTurn
                    /\ ip => conn = "up" /\ (upAt # -1 \/ checkAt >= now)
  /\ pc = "poll" => /\ upAt # -1 => now - upAt <= MaxTurn
                    /\ status # "up" => ~ip
  /\ pc = "callback" => /\ upAt # -1 => now - upAt <= MaxTurn
                        /\ status # "up" => (ip => conn = "up" /\ upAt # -1)
                        /\ status # "up" /\ upAt # -1 => upAt = now
  /\ pc = "done" /\ upAt # -1 => now - upAt <= 2 * MaxTurn

SeenInv ==
  /\ pc = "test" => seenAt = -1
  /\ pc \in {"poll", "callback"} => seenAt = IF status = "up" THEN now ELSE -1
  /\ pc = "done" => status = "up" /\ now - seenAt <= MaxTurn

Reported ==
  /\ staRet = "timeout" => pc = "loop" /\ now >= Timeout
  /\ ReportIsRight

StaInv == StaTypeOK /\ Untouched /\ Looping /\ LinkInv /\ NoticeInv /\ SeenInv /\ Reported

LEMMA StaOffInv ==
  ASSUME StaOff, config \in Configs
  PROVE  StaInv
<1> USE TimesAssumption DEF StaOff
<1>1. StaTypeOK
  <2>1. 0 \in Times /\ 0 \in 0 .. Timeout + Interval
    BY DEF Times
  <2> QED
    BY <2>1 DEF StaTypeOK
<1>2. Untouched /\ Looping /\ LinkInv /\ NoticeInv /\ SeenInv
  BY DEF Untouched, Looping, LinkInv, NoticeInv, SeenInv, InLoop
<1>3. Reported
  BY DEF Reported, ReportIsRight, OKMeansJoined, UpIsNoticed, SeenIsReported
<1> QED
  BY <1>1, <1>2, <1>3 DEF StaInv

LEMMA StaStartKeeps ==
  ASSUME StaInv, NEW c \in Configs, StaStart(c)
  PROVE  StaInv'
<1> USE TimesAssumption DEF StaInv, StaTypeOK, StaStart, loopVars, radioVars
<1>1. StaTypeOK'
  BY DEF Times
<1>2. Untouched' /\ Looping' /\ SeenInv' /\ NoticeInv'
  BY DEF Untouched, Looping, SeenInv, NoticeInv, InLoop
<1>3. LinkInv' /\ Reported'
  BY DEF Untouched, LinkInv, Reported, ReportIsRight, OKMeansJoined, UpIsNoticed, SeenIsReported,
         InLoop
<1> QED
  BY <1>1, <1>2, <1>3

(* network_wifiInit and js_worker_init.                                    *)
LEMMA BeforeLoopKeeps ==
  ASSUME StaInv, (\E ok \in BOOLEAN : WifiInit(ok)) \/ WorkerInit
  PROVE  StaInv'
<1> USE TimesAssumption DEF StaInv, StaTypeOK, WifiInit, WorkerInit, loopVars, radioVars
<1>1. StaTypeOK'
  BY DEF Times
<1>2. Untouched' /\ Looping' /\ SeenInv' /\ NoticeInv'
  BY DEF Untouched, Looping, SeenInv, NoticeInv, InLoop
<1>3. LinkInv' /\ Reported'
  BY DEF Untouched, LinkInv, Reported, ReportIsRight, OKMeansJoined, UpIsNoticed, SeenIsReported,
         InLoop
<1> QED
  BY <1>1, <1>2, <1>3

LEMMA RefuseKeeps ==
  ASSUME StaInv, NEW r \in Refusals, Refuse(r)
  PROVE  StaInv'
<1> USE TimesAssumption DEF StaInv, StaTypeOK, Refuse, SetAddress, StatusCallback, loopVars, radioVars
<1>1. StaTypeOK'
  BY DEF Times
<1>2. Untouched' /\ Looping' /\ SeenInv' /\ NoticeInv'
  BY DEF Untouched, Looping, SeenInv, NoticeInv, InLoop
<1>3. LinkInv'
  BY DEF Untouched, LinkInv, InLoop, Configs
<1>4. Reported'
  BY DEF Untouched, Reported, ReportIsRight, OKMeansJoined, UpIsNoticed, SeenIsReported, Refusals
<1> QED
  BY <1>1, <1>2, <1>3, <1>4

LEMMA EnterLoopKeeps ==
  ASSUME StaInv, EnterLoop
  PROVE  StaInv'
<1> USE TimesAssumption DEF StaInv, StaTypeOK, EnterLoop, SetAddress, StatusCallback, loopVars, radioVars
<1>1. StaTypeOK'
  BY DEF Times, Untouched
<1>2. Untouched' /\ Looping' /\ SeenInv' /\ NoticeInv'
  BY DEF Untouched, Looping, SeenInv, NoticeInv, InLoop, Times
<1>3. LinkInv'
  BY DEF Untouched, LinkInv, InLoop, Configs
<1>4. Reported'
  BY DEF Untouched, Reported, ReportIsRight, OKMeansJoined, UpIsNoticed, SeenIsReported
<1> QED
  BY <1>1, <1>2, <1>3, <1>4

LEMMA ReadStatusKeeps ==
  ASSUME StaInv, ReadStatus
  PROVE  StaInv'
<1> USE TimesAssumption DEF StaInv, StaTypeOK, ReadStatus, LinkStatus, radioVars
<1>1. StaTypeOK'
  BY DEF Times
<1>2. Untouched' /\ Looping' /\ SeenInv'
  BY DEF Untouched, Looping, SeenInv, InLoop
<1>3. NoticeInv'
  BY DEF NoticeInv, LinkInv, Times
<1>4. LinkInv'
  BY DEF LinkInv, InLoop
<1>5. Reported'
  BY DEF Looping, InLoop, Reported, ReportIsRight, OKMeansJoined, UpIsNoticed, SeenIsReported
<1> QED
  BY <1>1, <1>2, <1>3, <1>4, <1>5

LEMMA PollKeeps ==
  ASSUME StaInv, NEW r \in Unlinked \cup {"linked"}, NEW a \in BOOLEAN, Poll(r, a)
  PROVE  StaInv'
<1> USE TimesAssumption DEF StaInv, StaTypeOK, Poll, Radio, StatusCallback, loopVars
<1>1. StaTypeOK'
  BY DEF Times
<1>2. Untouched' /\ Looping' /\ SeenInv'
  BY DEF Untouched, Looping, SeenInv, InLoop
<1>3. NoticeInv'
  BY DEF NoticeInv, LinkInv, Times
<1>4. LinkInv'
  BY DEF LinkInv, InLoop, Configs, Times
<1>5. Reported'
  BY DEF Looping, InLoop, Reported, ReportIsRight, OKMeansJoined, UpIsNoticed, SeenIsReported
<1> QED
  BY <1>1, <1>2, <1>3, <1>4, <1>5

LEMMA TurnKeeps ==
  ASSUME StaInv, NEW t \in 1 .. MaxTurn, Turn(t)
  PROVE  StaInv'
<1> USE TimesAssumption DEF StaInv, StaTypeOK, Turn, PollWorker, Connected, radioVars
<1>1. StaTypeOK'
  BY DEF Times, Looping, InLoop
<1>2. Untouched' /\ Looping' /\ SeenInv'
  BY DEF Untouched, Looping, SeenInv, InLoop, Times
<1>3. NoticeInv'
  BY DEF NoticeInv, LinkInv, Times
<1>4. LinkInv'
  BY DEF LinkInv, InLoop
<1>5. Reported'
  BY DEF Looping, InLoop, Reported, ReportIsRight, OKMeansJoined, UpIsNoticed, SeenIsReported
<1> QED
  BY <1>1, <1>2, <1>3, <1>4, <1>5

LEMMA LeaveLoopKeeps ==
  ASSUME StaInv, LeaveLoop
  PROVE  StaInv'
<1> USE TimesAssumption DEF StaInv, StaTypeOK, LeaveLoop, TooLate, Over, loopVars, radioVars
<1>1. StaTypeOK'
  BY DEF Times
<1>2. Untouched' /\ Looping' /\ SeenInv' /\ NoticeInv'
  BY DEF Untouched, Looping, SeenInv, NoticeInv, InLoop
<1>3. LinkInv'
  BY DEF LinkInv, InLoop
<1>4. Reported'
  BY DEF Reported, ReportIsRight, OKMeansJoined, UpIsNoticed, SeenIsReported, SeenInv, NoticeInv,
         LinkInv, InLoop, Times
<1> QED
  BY <1>1, <1>2, <1>3, <1>4

(* The main loop: the report stays, and is late enough for any link.       *)
LEMMA MainTurnKeeps ==
  ASSUME StaInv, NEW r \in Unlinked \cup {"linked"}, NEW a \in BOOLEAN, MainTurn(r, a)
  PROVE  StaInv'
<1> USE TimesAssumption DEF StaInv, StaTypeOK, MainTurn, Radio, StatusCallback, loopVars
<1>1. StaTypeOK'
  BY DEF Times
<1>2. Untouched' /\ Looping' /\ SeenInv' /\ NoticeInv'
  BY DEF Untouched, Looping, SeenInv, NoticeInv, InLoop
<1>3. LinkInv'
  BY DEF LinkInv, InLoop, Configs, Times
<1>4. Reported'
  BY DEF Reported, ReportIsRight, OKMeansJoined, UpIsNoticed, SeenIsReported, Times
<1> QED
  BY <1>1, <1>2, <1>3, <1>4

LEMMA StaUnchanged == StaInv /\ UNCHANGED staVars => StaInv'
  BY DEF StaInv, StaTypeOK, Untouched, Looping, LinkInv, NoticeInv, SeenInv, Reported, InLoop,
         ReportIsRight, OKMeansJoined, UpIsNoticed, SeenIsReported, staVars, loopVars, radioVars

(* Main touches the connection in emul_start only, and power ends it.      *)
LEMMA BootKeepsSta == StaInv /\ [BootNext]_bootVars => StaInv'
<1> SUFFICES ASSUME StaInv, [BootNext]_bootVars PROVE StaInv'
  OBVIOUS
<1>1. CASE StartEmul
  <2>1. PICK c \in Configs : StaStart(c)
    BY <1>1 DEF StartEmul, Configs, IsSet
  <2> QED
    BY <2>1, StaStartKeeps
<1>2. CASE Emul
  BY <1>2, BeforeLoopKeeps, RefuseKeeps, EnterLoopKeeps, ReadStatusKeeps, PollKeeps, TurnKeeps,
     LeaveLoopKeeps DEF Emul, StaStep
<1>3. CASE EmulTurn
  BY <1>3, MainTurnKeeps DEF EmulTurn
<1>4. CASE Off
  <2>1. StaOff' /\ config' \in Configs
    BY <1>4 DEF Off, StaOff, Configs
  <2>2. StaTypeOK'
    <3>1. 0 \in Times /\ 0 \in 0 .. Timeout + Interval
      BY TimesAssumption DEF Times
    <3>2. Times' = Times /\ Configs' = Configs
      BY DEF Times, Configs
    <3> QED
      BY <2>1, <3>1, <3>2, TimesAssumption DEF StaOff, StaTypeOK
  <2>3. Untouched' /\ Looping' /\ LinkInv' /\ NoticeInv' /\ SeenInv'
    BY <2>1 DEF StaOff, Untouched, Looping, LinkInv, NoticeInv, SeenInv, InLoop
  <2>4. Reported'
    BY <2>1 DEF StaOff, Reported, ReportIsRight, OKMeansJoined, UpIsNoticed, SeenIsReported
  <2> QED
    BY <2>2, <2>3, <2>4 DEF StaInv
<1>5. CASE UNCHANGED staVars
  BY <1>5, StaUnchanged
<1>6. UNCHANGED staVars \/ StartEmul \/ Emul \/ EmulTurn \/ Off
  BY DEF BootNext, MainStep, PowerOn, Select, GconfigInit, AconfigInit, BeginFirstSave, SaveApp,
         JumpToBooster, BoosterStep, Register, bootVars
<1> QED
  BY <1>1, <1>2, <1>3, <1>4, <1>5, <1>6

THEOREM ConnectionInvariant == BootSpec => []StaInv
<1>1. BootInit => StaInv
  BY StaOffInv DEF BootInit, Configs
<1> QED
  BY <1>1, BootKeepsSta, PTL DEF BootSpec

(* Success is only reported of a link that came up, a link that came up    *)
(* and stayed is only missed in the last two turns, and one that was seen  *)
(* only if the worker delayed the last turn.                               *)
THEOREM ReportAlwaysRight == BootSpec => []ReportIsRight
<1>1. StaInv => ReportIsRight
  BY DEF StaInv, Reported
<1> QED
  BY <1>1, ConnectionInvariant, PTL

(* The worker is polled in every turn of the connection loop.              *)
THEOREM StIsServed == BootSpec => []ServedMeanwhile
<1>1. StaInv => ServedMeanwhile
  BY TimesAssumption DEF StaInv, StaTypeOK, Times, Looping, InLoop, ServedMeanwhile
<1> QED
  BY <1>1, ConnectionInvariant, PTL

(* The same of the application's sector.                                   *)
THEOREM AppInvariant == BootSpec => []AppInv
<1>1. FirstSave /\ AppInv /\ [BootNext]_bootVars => AppInv'
  BY BootKeepsApp
<1> QED
  BY <1>1, AppInit, FirstSaveInvariant, PTL DEF BootSpec

(* Both tables fit their sectors and the RAM allocated for them, whatever  *)
(* count a caller passes, and the sectors hold no more than their pages.   *)
THEOREM BootTypesHold == BootSpec => []BootTypeOK
<1>1. BootInit => PhaseInv
  BY DEF BootInit, PhaseInv
<1>2. PhaseInv /\ [BootNext]_bootVars => PhaseInv'
  BY BootKeepsPhase
<1>3. BootSpec => []PhaseInv
  BY <1>1, <1>2, PTL DEF BootSpec
<1>4. GlobalInv /\ AppInv /\ FirstSave /\ PhaseInv /\ StaInv => BootTypeOK
  <2> SUFFICES ASSUME GlobalInv, AppInv, FirstSave, PhaseInv, StaInv PROVE BootTypeOK
    OBVIOUS
  <2>1. TableFits /\ App!TableFits
    BY TypesFit
  <2>2. phase # "booster" => saving = "no"
    BY DEF GlobalInv
  <2> QED
    BY <2>1, <2>2 DEF BootTypeOK, PhaseInv, StaInv
<1> QED
  BY <1>3, <1>4, GlobalInvariant, AppInvariant, FirstSaveInvariant, ConnectionInvariant, PTL
=============================================================================
