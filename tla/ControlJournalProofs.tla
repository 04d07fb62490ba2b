------------------------ MODULE ControlJournalProofs ------------------------
(***************************************************************************)
(* The record journal of ControlJournal is the register of ControlStore,   *)
(* for every number of records per sector and every wrap of the sequence   *)
(* numbers that the signed comparison can bear.                            *)
(***************************************************************************)
EXTENDS ControlJournal, WellFoundedInduction, TLAPS

-----------------------------------------------------------------------------
(***************************************************************************)
(* Numbers: least elements, and sequence numbers that wrap.                *)
(***************************************************************************)

\* A set of naturals that is not empty has a least element.
LEMMA LeastNat ==
  ASSUME NEW T, T \subseteq Nat, T # {}
  PROVE  \E x \in T : \A y \in T : x <= y
<1> DEFINE R == OpToRel(<, Nat)
<1>1. IsWellFoundedOn(R, Nat)
  BY NatLessThanWellFounded
<1>2. \A x, y \in Nat : <<y, x>> \in R <=> y < x
  BY DEF OpToRel
<1> HIDE DEF R
<1>3. PICK x \in T : \A y \in T : ~(<<y, x>> \in R)
  BY <1>1, WFMin
<1>4. \A y \in T : ~(y < x)
  BY <1>2, <1>3, Zenon
<1> QED
  BY <1>4, SMT

\* Induction over a range, for sets: what holds of k and of the successor of
\* whatever it holds of, holds from k to m.
LEMMA RangeInduction ==
  ASSUME NEW k \in Nat, NEW m \in Nat, NEW S,
         k \in S, \A p \in (k + 1)..m : p - 1 \in S => p \in S
  PROVE  \A p \in k..m : p \in S
<1> DEFINE Bad == {p \in k..m : p \notin S}
<1> SUFFICES ASSUME Bad # {} PROVE FALSE
  OBVIOUS
<1>1. Bad \subseteq Nat
  OBVIOUS
<1>2. PICK p \in Bad : \A q \in Bad : p <= q
  BY <1>1, LeastNat
<1>3. p \in k..m /\ p # k
  OBVIOUS
<1>4. p \in (k + 1)..m /\ p - 1 \in k..m /\ ~(p <= p - 1)
  BY <1>3
<1>5. p - 1 \in S
  BY <1>2, <1>4
<1> QED
  BY <1>4, <1>5

\* FirstOf names the least position of a set.
LEMMA FirstOfIs ==
  ASSUME NEW S, S \subseteq Position, S # {}
  PROVE  FirstOf(S) \in S /\ \A q \in S : FirstOf(S) <= q
<1>1. S \subseteq Nat
  BY NAssumption DEF Position
<1>2. \E p \in S : \A q \in S : p <= q
  BY <1>1, LeastNat
<1> QED
  BY <1>2 DEF FirstOf

\* The two sectors begin at 1 and at N + 1.
LEMMA SectorFacts ==
  /\ N \in Nat /\ N >= 1
  /\ \A p \in Position : p \in SectorOf(p) /\ SectorOf(p) \subseteq Position
  /\ \A p \in Position : FirstOf(SectorOf(p)) = IF p <= N THEN 1 ELSE N + 1
  /\ \A p \in Position : FirstOf(OtherSectorOf(p)) = IF p <= N THEN N + 1 ELSE 1
<1>1. N \in Nat /\ N >= 1
  BY NAssumption
<1>2. FirstOf(1..N) = 1
  <2>1. 1..N \subseteq Position /\ 1 \in 1..N
    BY <1>1 DEF Position
  <2> QED
    BY <1>1, <2>1, FirstOfIs
<1>3. FirstOf((N + 1)..(2 * N)) = N + 1
  <2>1. (N + 1)..(2 * N) \subseteq Position /\ N + 1 \in (N + 1)..(2 * N)
    BY <1>1 DEF Position
  <2> QED
    BY <1>1, <2>1, FirstOfIs
<1>4. \A p \in Position : p \in SectorOf(p) /\ SectorOf(p) \subseteq Position
  BY <1>1 DEF SectorOf, Position
<1>5. \A p \in Position : OtherSectorOf(p) = IF p <= N THEN (N + 1)..(2 * N) ELSE 1..N
  BY <1>1 DEF OtherSectorOf, SectorOf, Position
<1> QED
  BY <1>1, <1>2, <1>3, <1>4, <1>5 DEF SectorOf

\* How far sequence number a is ahead of b.
Age(a, b) == (a - b) % SeqMod

\* Half the range of the numbers has room for both sectors.
LEMMA HalfFacts ==
  /\ SeqMod \in Nat /\ SeqMod > 0 /\ SeqMod \div 2 \in Nat
  /\ SeqMod = 2 * (SeqMod \div 2) /\ 2 * N <= SeqMod \div 2
BY NAssumption, SeqModAssumption

\* The distance of two numbers below a wrap.
LEMMA WrapDistance ==
  ASSUME NEW m \in Nat, m > 0, NEW a \in 0..(m - 1), NEW b \in 0..(m - 1)
  PROVE  (a - b) % m = IF a >= b THEN a - b ELSE a - b + m
OBVIOUS

\* The number after a.
LEMMA WrapNext ==
  ASSUME NEW m \in Nat, m > 0, NEW a \in 0..(m - 1)
  PROVE  (a + 1) % m = IF a + 1 = m THEN 0 ELSE a + 1
OBVIOUS

\* A number is newer than those it is ahead of by less than half the range, and
\* then they are not newer than it.
LEMMA NewerFacts ==
  ASSUME NEW a \in Seq, NEW b \in Seq
  PROVE  /\ SequenceIsNewer(a, b) <=> Age(a, b) \in 1..(SeqMod \div 2 - 1)
         /\ SequenceIsNewer(a, b) => ~SequenceIsNewer(b, a)
         /\ Age(a, b) \in Nat
<1>1. /\ (a - b) % SeqMod = IF a >= b THEN a - b ELSE a - b + SeqMod
      /\ (b - a) % SeqMod = IF b >= a THEN b - a ELSE b - a + SeqMod
  BY HalfFacts, WrapDistance DEF Seq
<1> QED
  BY <1>1, HalfFacts DEF SequenceIsNewer, Age, Seq

\* The number after a is one further ahead.
LEMMA NextAge ==
  ASSUME NEW a \in Seq, NEW b \in Seq, Age(a, b) + 1 < SeqMod
  PROVE  /\ (a + 1) % SeqMod \in Seq
         /\ Age((a + 1) % SeqMod, b) = Age(a, b) + 1
<1> DEFINE c == (a + 1) % SeqMod
<1>1. c = IF a + 1 = SeqMod THEN 0 ELSE a + 1
  BY HalfFacts, WrapNext DEF Seq
<1>2. c \in Seq
  BY <1>1, HalfFacts DEF Seq
<1>3. /\ Age(a, b) = IF a >= b THEN a - b ELSE a - b + SeqMod
      /\ Age(c, b) = IF c >= b THEN c - b ELSE c - b + SeqMod
  BY <1>2, HalfFacts, WrapDistance DEF Seq, Age
<1> QED
  BY <1>1, <1>2, <1>3, HalfFacts DEF Seq

-----------------------------------------------------------------------------
(***************************************************************************)
(* The scan.                                                               *)
(***************************************************************************)

CellOK == cell \in [Position -> Record \cup {Erased, Torn}]

\* A recursive function whose steps stay in a range exists: were there a least
\* domain without one, it would have one.
LEMMA RecursionExists ==
  ASSUME NEW m \in Nat, NEW Step \in [1..m -> [0..m -> 0..m]]
  PROVE  \E f \in [0..m -> 0..m] :
           f = [p \in 0..m |-> IF p = 0 THEN 0 ELSE Step[p][f[p - 1]]]
<1> DEFINE Fits(n, f) == f[0] = 0 /\ \A p \in 1..n : f[p] = Step[p][f[p - 1]]
           Has(n) == \E f \in [0..n -> 0..m] : Fits(n, f)
<1>1. Has(0)
  <2>1. [p \in 0..0 |-> 0] \in [0..0 -> 0..m] /\ Fits(0, [p \in 0..0 |-> 0])
    OBVIOUS
  <2> QED
    BY <2>1
<1>2. ASSUME NEW n \in 1..m, Has(n - 1)
      PROVE  Has(n)
  <2>1. PICK f \in [0..(n - 1) -> 0..m] : Fits(n - 1, f)
    BY <1>2
  <2> DEFINE g == [p \in 0..n |-> IF p = n THEN Step[n][f[n - 1]] ELSE f[p]]
  <2>2. n \in Nat /\ n >= 1 /\ n - 1 \in 0..(n - 1) /\ f[n - 1] \in 0..m
    OBVIOUS
  <2>3. Step[n][f[n - 1]] \in 0..m
    BY <2>2
  <2>4. \A p \in 0..n : p # n => p \in 0..(n - 1)
    BY <2>2
  <2>5. g \in [0..n -> 0..m]
    BY <2>3, <2>4
  <2>6. \A p \in 0..(n - 1) : g[p] = f[p]
    BY <2>2
  <2>7. ASSUME NEW p \in 1..n PROVE g[p] = Step[p][g[p - 1]]
    <3>1. p - 1 \in 0..(n - 1) /\ g[p - 1] = f[p - 1]
      BY <2>2, <2>6
    <3>2. CASE p = n
      BY <3>1, <3>2, <2>2
    <3>3. CASE p # n
      <4>1. p \in 1..(n - 1) /\ p \in 0..(n - 1)
        BY <3>3, <2>2
      <4> QED
        BY <4>1, <3>1, <2>1, <2>6
    <3> QED
      BY <3>2, <3>3
  <2>8. g[0] = 0
    BY <2>1, <2>2, <2>6
  <2> HIDE DEF g
  <2> QED
    BY <2>5, <2>7, <2>8
<1> HIDE DEF Has
<1>3. \A n \in 0..m : Has(n)
  <2> DEFINE S == {k \in 0..m : Has(k)}
  <2>1. 0 \in S
    BY <1>1
  <2>2. \A n \in (0 + 1)..m : n - 1 \in S => n \in S
    BY <1>2
  <2> HIDE DEF S
  <2>3. \A n \in 0..m : n \in S
    BY <2>1, <2>2, RangeInduction
  <2> QED
    BY <2>3 DEF S
<1>4. Has(m)
  <2>1. m \in 0..m
    OBVIOUS
  <2> QED
    BY <2>1, <1>3
<1>5. PICK f \in [0..m -> 0..m] : f[0] = 0 /\ \A p \in 1..m : f[p] = Step[p][f[p - 1]]
  BY <1>4 DEF Has
<1>6. \A p \in 0..m : f[p] = IF p = 0 THEN 0 ELSE Step[p][f[p - 1]]
  <2>1. \A p \in 0..m : p = 0 \/ p \in 1..m
    OBVIOUS
  <2> QED
    BY <1>5, <2>1
<1> DEFINE h == [p \in 0..m |-> IF p = 0 THEN 0 ELSE Step[p][f[p - 1]]]
<1>7. f = [p \in 0..m |-> f[p]]
  OBVIOUS
<1>8. f = h
  BY <1>6, <1>7
<1> QED
  BY <1>8

\* The definition of the scan defines it.
LEMMA ScanUnfolds ==
  ASSUME CellOK
  PROVE  /\ ScanUpTo \in [0..(2 * N) -> 0..(2 * N)]
         /\ ScanUpTo[0] = 0
         /\ \A p \in Position :
              ScanUpTo[p] =
                IF /\ Scanned(p) /\ IsRecord(p)
                   /\ ScanUpTo[p - 1] = 0
                        \/ SequenceIsNewer(cell[p].seq, cell[ScanUpTo[p - 1]].seq)
                THEN p ELSE ScanUpTo[p - 1]
<1> DEFINE m == 2 * N
           Takes(p, best) == /\ Scanned(p) /\ IsRecord(p)
                             /\ best = 0 \/ SequenceIsNewer(cell[p].seq, cell[best].seq)
           Step == [p \in 1..m |-> [best \in 0..m |-> IF Takes(p, best) THEN p ELSE best]]
           F(f) == [p \in 0..m |-> IF p = 0 THEN 0
                                   ELSE IF Takes(p, f[p - 1]) THEN p ELSE f[p - 1]]
<1>1. m \in Nat
  BY NAssumption
<1>2. Step \in [1..m -> [0..m -> 0..m]]
  BY <1>1
<1>3. PICK f \in [0..m -> 0..m] :
        f = [p \in 0..m |-> IF p = 0 THEN 0 ELSE Step[p][f[p - 1]]]
  BY <1>1, <1>2, RecursionExists
<1>4. \A p \in 1..m : p - 1 \in 0..m /\ f[p - 1] \in 0..m
  BY <1>1
<1>5. \A p \in 1..m, b \in 0..m : Step[p][b] = IF Takes(p, b) THEN p ELSE b
  OBVIOUS
<1> HIDE DEF Step, Takes
<1>6. \A p \in 0..m : (IF p = 0 THEN 0 ELSE Step[p][f[p - 1]])
                       = IF p = 0 THEN 0 ELSE IF Takes(p, f[p - 1]) THEN p ELSE f[p - 1]
  BY <1>1, <1>4, <1>5
<1>7. f = F(f)
  BY <1>3, <1>6
<1>8. ScanUpTo = CHOOSE g : g = F(g)
  BY DEF ScanUpTo, Takes
<1> HIDE DEF F
<1>9. ScanUpTo = F(ScanUpTo)
  BY <1>7, <1>8
<1>10. ScanUpTo = [p \in 0..m |-> IF p = 0 THEN 0
                       ELSE IF Takes(p, ScanUpTo[p - 1]) THEN p ELSE ScanUpTo[p - 1]]
  BY <1>9 DEF F
<1>11. /\ ScanUpTo[0] = 0
       /\ \A p \in 1..m : ScanUpTo[p] = IF Takes(p, ScanUpTo[p - 1]) THEN p ELSE ScanUpTo[p - 1]
       /\ ScanUpTo = [p \in 0..m |-> ScanUpTo[p]]
  <2> DEFINE G(g) == [p \in 0..m |-> IF p = 0 THEN 0
                       ELSE IF Takes(p, g[p - 1]) THEN p ELSE g[p - 1]]
  <2>1. ASSUME NEW g, g = G(g)
        PROVE  /\ g[0] = 0
               /\ \A p \in 1..m : g[p] = IF Takes(p, g[p - 1]) THEN p ELSE g[p - 1]
               /\ g = [p \in 0..m |-> g[p]]
    <3>1. 0 \in 0..m /\ \A p \in 1..m : p \in 0..m /\ p # 0
      BY <1>1
    <3>2. /\ G(g)[0] = 0
          /\ \A p \in 1..m : G(g)[p] = IF Takes(p, g[p - 1]) THEN p ELSE g[p - 1]
          /\ G(g) = [p \in 0..m |-> G(g)[p]]
      BY <3>1
    <3> HIDE DEF G
    <3> QED
      BY <2>1, <3>2
  <2> QED
    BY <1>10, <2>1
<1>12. \A p \in 0..m : ScanUpTo[p] \in 0..m
  <2> DEFINE S == {q \in 0..m : ScanUpTo[q] \in 0..m}
  <2>1. 0 \in S
    BY <1>1, <1>11
  <2>2. ASSUME NEW p \in (0 + 1)..m, p - 1 \in S PROVE p \in S
    <3>1. p \in 1..m /\ p \in 0..m /\ ScanUpTo[p - 1] \in 0..m
      BY <1>1, <2>2
    <3> QED
      BY <3>1, <1>11
  <2> HIDE DEF S
  <2>3. \A p \in 0..m : p \in S
    BY <1>1, <2>1, <2>2, RangeInduction
  <2> QED
    BY <2>3 DEF S
<1>13. ScanUpTo \in [0..m -> 0..m]
  BY <1>11, <1>12
<1> QED
  BY <1>11, <1>13 DEF Takes, Position

\* What the scan has found so far is nothing or a record it has passed.
LEMMA ScanFinds ==
  ASSUME CellOK
  PROVE  \A p \in 0..(2 * N) :
           ScanUpTo[p] = 0 \/ (ScanUpTo[p] \in 1..p /\ IsRecord(ScanUpTo[p]))
<1> DEFINE S == {p \in 0..(2 * N) :
                   ScanUpTo[p] = 0 \/ (ScanUpTo[p] \in 1..p /\ IsRecord(ScanUpTo[p]))}
<1>1. 2 * N \in Nat
  BY NAssumption
<1>2. 0 \in S
  BY <1>1, ScanUnfolds
<1>3. ASSUME NEW p \in (0 + 1)..(2 * N), p - 1 \in S PROVE p \in S
  <2>1. p \in Position /\ p \in 0..(2 * N) /\ p \in 1..p
    BY <1>1 DEF Position
  <2>2. \A q \in 1..(p - 1) : q \in 1..p
    BY <1>1
  <2>3. ScanUpTo[p - 1] = 0 \/ (ScanUpTo[p - 1] \in 1..p /\ IsRecord(ScanUpTo[p - 1]))
    BY <1>3, <2>2
  <2>4. \/ IsRecord(p) /\ ScanUpTo[p] = p
        \/ ScanUpTo[p] = ScanUpTo[p - 1]
    BY <2>1, ScanUnfolds
  <2> QED
    BY <2>1, <2>3, <2>4
<1> HIDE DEF S
<1>4. \A p \in 0..(2 * N) : p \in S
  BY <1>1, <1>2, <1>3, RangeInduction
<1> QED
  BY <1>4 DEF S

\* How many positions behind L position p is, going round the two sectors.
Behind(L, p) == IF p <= L THEN L - p ELSE L - p + 2 * N

\* Record L leads: the records of its sector lie before it and are reached by a
\* scan, and every other record is older, by one number per position at most.
\* If L is 0 there is no record.
Ordered(L) ==
  /\ L = 0 => \A p \in Position : ~IsRecord(p)
  /\ L # 0 =>
       /\ IsRecord(L) /\ Scanned(L)
       /\ \A p \in Position \ {L} : IsRecord(p) =>
            /\ Age(cell[L].seq, cell[p].seq) \in 1..Behind(L, p)
            /\ p \in SectorOf(L) => p < L

\* The leader is newer than every other record.
LEMMA LeaderIsNewer ==
  ASSUME CellOK, NEW L \in Position, Ordered(L), NEW p \in Position, IsRecord(p), p # L
  PROVE  /\ cell[L].seq \in Seq /\ cell[p].seq \in Seq
         /\ SequenceIsNewer(cell[L].seq, cell[p].seq)
         /\ ~SequenceIsNewer(cell[p].seq, cell[L].seq)
<1>1. L # 0 /\ L \in Nat /\ p \in Nat /\ L <= 2 * N /\ L >= 1 /\ p >= 1 /\ p <= 2 * N /\ N \in Nat
  BY NAssumption DEF Position
<1>2. cell[L] \in Record /\ cell[p] \in Record
  BY <1>1 DEF Ordered, CellOK, IsRecord
<1>3. cell[L].seq \in Seq /\ cell[p].seq \in Seq
  BY <1>2 DEF Record
<1>4. Age(cell[L].seq, cell[p].seq) \in 1..Behind(L, p)
  BY <1>1 DEF Ordered
<1>5. Behind(L, p) \in Nat /\ Behind(L, p) <= 2 * N - 1
  BY <1>1 DEF Behind
<1>6. Age(cell[L].seq, cell[p].seq) \in 1..(SeqMod \div 2 - 1)
  BY <1>1, <1>4, <1>5, HalfFacts
<1> QED
  BY <1>3, <1>6, NewerFacts

\* The scan finds the leader.
LEMMA LatestLeads == \A L \in 0..(2 * N) : CellOK /\ Ordered(L) => Latest = L
<1> SUFFICES ASSUME NEW L \in 0..(2 * N), CellOK, Ordered(L)
             PROVE  ScanUpTo[2 * N] = L
  BY DEF Latest
<1>1. N \in Nat /\ 2 * N \in 0..(2 * N) /\ 2 * N \in Nat /\ L \in Nat
  BY NAssumption
<1>2. CASE L = 0
  <2>1. \/ ScanUpTo[2 * N] = 0
        \/ ScanUpTo[2 * N] \in 1..(2 * N) /\ IsRecord(ScanUpTo[2 * N])
    BY <1>1, ScanFinds
  <2> QED
    BY <1>2, <2>1 DEF Ordered, Position
<1>3. CASE L # 0
  <2>1. L \in Position /\ L - 1 \in 0..(2 * N) /\ IsRecord(L) /\ Scanned(L)
    BY <1>1, <1>3 DEF Position, Ordered
  <2> DEFINE b == ScanUpTo[L - 1]
  <2>2. b = 0 \/ (b \in 1..(L - 1) /\ IsRecord(b))
    BY <2>1, ScanFinds
  <2>3. b = 0 \/ SequenceIsNewer(cell[L].seq, cell[b].seq)
    <3>1. CASE b \in 1..(L - 1) /\ IsRecord(b)
      <4>1. b \in Position /\ b # L
        BY <3>1, <1>1 DEF Position
      <4> QED
        BY <3>1, <4>1, <2>1, LeaderIsNewer
    <3> QED
      BY <2>2, <3>1
  <2>4. ScanUpTo[L] = L
    BY <2>1, <2>3, ScanUnfolds
  <2> DEFINE S == {p \in L..(2 * N) : ScanUpTo[p] = L}
  <2>5. L \in S
    BY <1>1, <2>4
  <2>6. ASSUME NEW p \in (L + 1)..(2 * N), p - 1 \in S PROVE p \in S
    <3>1. p \in Position /\ p \in L..(2 * N) /\ p # L /\ ScanUpTo[p - 1] = L
      BY <1>1, <2>6 DEF Position
    <3>2. IsRecord(p) => ~SequenceIsNewer(cell[p].seq, cell[L].seq)
      BY <2>1, <3>1, LeaderIsNewer
    <3>3. ScanUpTo[p] = L
      BY <1>3, <3>1, <3>2, ScanUnfolds
    <3> QED
      BY <3>1, <3>3
  <2> HIDE DEF S
  <2>7. \A p \in L..(2 * N) : p \in S
    BY <1>1, <2>5, <2>6, RangeInduction
  <2>8. 2 * N \in L..(2 * N)
    BY <1>1
  <2> QED
    BY <2>7, <2>8 DEF S
<1> QED
  BY <1>2, <1>3
-----------------------------------------------------------------------------
(***************************************************************************)
(* The inductive invariant.                                                *)
(***************************************************************************)

\* The save in progress, seen from leader L: it erases the sector L is not in,
\* or writes an erased record behind everything a scan must pass, with the
\* number after L's, in L's sector or at the head of one without records.
Aimed(L) ==
  /\ pc = "erase" => /\ target = FirstOf(SectorOf(target))
                     /\ L # 0 => target \notin SectorOf(L)
  /\ pc \in {"body", "commit"} =>
       /\ cell[target] = IF pc = "body" THEN Erased ELSE Torn
       /\ \A q \in SectorOf(target) : q < target => cell[q] # Erased
       /\ L # 0 => \/ target \in SectorOf(L) /\ L < target
                   \/ /\ target \notin SectorOf(L)
                      /\ target = FirstOf(SectorOf(target))
                      /\ \A p \in SectorOf(target) : ~IsRecord(p)
  /\ pc # "idle" /\ L # 0 => seq = (cell[L].seq + 1) % SeqMod

JInv == TypeOK /\ \E L \in 0..(2 * N) : Ordered(L) /\ Aimed(L)

\* No record is mistaken for an erased or a torn one.
LEMMA RecordCells == \A r \in Record : r # Erased /\ r # Torn
BY CellAssumption DEF Record, Seq

\* Records may vanish and torn ones come, as long as the leader and what a scan
\* passes on its way to it stay.
LEMMA LeaderStays ==
  ASSUME NEW L \in 0..(2 * N), CellOK, CellOK', Ordered(L),
         \A p \in Position : cell'[p] \in {Erased, Torn, cell[p]},
         L # 0 => /\ cell'[L] = cell[L]
                  /\ \A q \in SectorOf(L) : q <= L => cell'[q] # Erased
  PROVE  Ordered(L)'
<1>1. \A p \in Position : IsRecord(p)' => IsRecord(p) /\ cell'[p] = cell[p]
  BY DEF IsRecord
<1>2. CASE L = 0
  BY <1>1, <1>2 DEF Ordered
<1>3. CASE L # 0
  <2>1. L \in Position
    BY <1>3, NAssumption DEF Position
  <2>2. IsRecord(L)' /\ Scanned(L)'
    BY <1>3 DEF Ordered, IsRecord, Scanned
  <2>3. ASSUME NEW p \in Position \ {L}, IsRecord(p)'
        PROVE  /\ Age(cell'[L].seq, cell'[p].seq) \in 1..Behind(L, p)
               /\ p \in SectorOf(L) => p < L
    BY <1>1, <1>3, <2>3 DEF Ordered
  <2> QED
    BY <1>3, <2>2, <2>3 DEF Ordered
<1> QED
  BY <1>2, <1>3

\* Where the next record goes, everything is at least one position further
\* behind it than behind the leader.
LEMMA BehindTarget ==
  ASSUME NEW L \in Position, NEW T \in Position, T # L, NEW p \in Position, p # T,
         p \in SectorOf(L) => p <= L,
         \/ T \in SectorOf(L) /\ L < T
         \/ /\ T \notin SectorOf(L) /\ T = FirstOf(SectorOf(T))
            /\ p \notin SectorOf(T)
  PROVE  /\ Behind(L, p) + 1 <= Behind(T, p)
         /\ p \in SectorOf(T) => p < T
<1>1. T = FirstOf(SectorOf(T)) => T = IF T <= N THEN 1 ELSE N + 1
  BY SectorFacts
<1>2. N \in Nat /\ N >= 1
  BY NAssumption
<1> QED
  BY <1>1, <1>2 DEF Behind, SectorOf, Position

\* The commit word makes the record written the new leader.
LEMMA CommitLeads ==
  ASSUME TypeOK, NEW L \in 0..(2 * N), Ordered(L), Aimed(L), pc = "commit",
         NEW T, T = target, cell' = [cell EXCEPT ![T] = [seq |-> seq, control |-> saving]]
  PROVE  /\ CellOK' /\ Ordered(T)'
         /\ T \in Position /\ cell'[T].control = saving
<1>1. T \in Position /\ seq \in Seq /\ saving \in Controls /\ CellOK
  BY DEF TypeOK, CellOK
<1> DEFINE r == [seq |-> seq, control |-> saving]
<1>2. r \in Record /\ r # Erased /\ r # Torn
  BY <1>1, RecordCells DEF Record
<1>3. CellOK' /\ cell'[T] = r
  BY <1>1, <1>2 DEF CellOK
<1>4. \A p \in Position \ {T} : cell'[p] = cell[p]
  BY <1>1 DEF CellOK
<1>5. T # 0 /\ IsRecord(T)'
  BY <1>1, <1>2, <1>3, NAssumption DEF IsRecord, Position
<1>6. Scanned(T)'
  <2>1. SectorOf(T) \subseteq Position /\ SectorOf(T) \subseteq Nat /\ T \in Nat
    BY <1>1, SectorFacts DEF Position
  <2> QED
    BY <1>1, <1>2, <1>3, <1>4, <2>1 DEF Scanned, Aimed
<1>7. ASSUME NEW p \in Position \ {T}, IsRecord(p)'
      PROVE  /\ Age(cell'[T].seq, cell'[p].seq) \in 1..Behind(T, p)
             /\ p \in SectorOf(T) => p < T
  <2>1. IsRecord(p) /\ cell'[p] = cell[p]
    BY <1>4, <1>7 DEF IsRecord
  <2>2. L # 0 /\ L \in Position
    BY <2>1, NAssumption DEF Ordered, Position
  <2>3. L # T /\ IsRecord(L)
    BY <1>1, <2>2 DEF Ordered, Aimed, IsRecord
  <2>4. cell[L] \in Record /\ cell[L].seq \in Seq /\ cell[p].seq \in Seq
    BY <1>1, <2>1, <2>2, <2>3 DEF CellOK, IsRecord, Record
  <2>5. seq = (cell[L].seq + 1) % SeqMod
    BY <2>2 DEF Aimed
  <2>6. Behind(L, p) + 1 <= Behind(T, p) /\ (p \in SectorOf(T) => p < T)
    <3>1. p \in SectorOf(L) => p <= L
      BY <2>1, <2>2, NAssumption DEF Ordered, Position
    <3>2. \/ T \in SectorOf(L) /\ L < T
          \/ /\ T \notin SectorOf(L) /\ T = FirstOf(SectorOf(T))
             /\ p \notin SectorOf(T)
      BY <2>1, <2>2 DEF Aimed
    <3> QED
      BY <1>1, <2>2, <2>3, <3>1, <3>2, BehindTarget
  <2>7. Behind(L, p) \in Nat /\ Behind(L, p) <= 2 * N - 1 /\ Behind(T, p) \in Nat
    BY <1>1, <2>2, NAssumption DEF Behind, Position
  <2>8. Age(cell[L].seq, cell[p].seq) \in 0..Behind(L, p)
    <3>1. CASE p = L
      <4>1. Age(cell[L].seq, cell[L].seq) = 0
        BY <2>4, HalfFacts, WrapDistance DEF Age, Seq
      <4> QED
        BY <3>1, <4>1, <2>7
    <3>2. CASE p # L
      BY <2>1, <2>2, <2>7, <3>2 DEF Ordered
    <3> QED
      BY <3>1, <3>2
  <2>9. Age(cell[L].seq, cell[p].seq) + 1 < SeqMod
    BY <2>7, <2>8, HalfFacts, NAssumption
  <2>10. Age(seq, cell[p].seq) = Age(cell[L].seq, cell[p].seq) + 1
    BY <2>4, <2>5, <2>9, NextAge
  <2> QED
    BY <1>3, <2>1, <2>6, <2>7, <2>8, <2>10
<1> QED
  BY <1>1, <1>3, <1>5, <1>6, <1>7 DEF Ordered

-----------------------------------------------------------------------------
(***************************************************************************)
(* The steps.                                                              *)
(***************************************************************************)

\* What a load returns with leader L.
ControlAt(L) == IF L = 0 THEN NoControl ELSE cell[L].control

\* A step ends with the same leader and what it holds, or, at the end of a
\* save, with a leader that holds the control saved.
Keeps(L) == Ordered(L)' /\ Aimed(L)' /\ (L # 0 => cell'[L] = cell[L])

Replaces == /\ pc = "commit" /\ pc' = "idle"
            /\ \E T \in Position : Ordered(T)' /\ Aimed(T)' /\ cell'[T].control = saving

\* The first free record is erased and has none before it.
LEMMA FreeRecord ==
  ASSUME NEW S, S \subseteq Position
  PROVE  /\ FreeIn(S) # 0 => /\ FreeIn(S) \in S /\ cell[FreeIn(S)] = Erased
                             /\ \A q \in S : q < FreeIn(S) => cell[q] # Erased
         /\ FreeIn(S) = 0 => \A q \in S : cell[q] # Erased
<1> DEFINE free == {p \in S : cell[p] = Erased}
<1>1. S \subseteq Nat /\ 0 \notin S
  BY NAssumption DEF Position
<1>2. CASE free = {}
  BY <1>2 DEF FreeIn
<1>3. CASE free # {}
  <2>1. FirstOf(free) \in free /\ \A q \in free : FirstOf(free) <= q
    BY <1>3, FirstOfIs
  <2>2. FreeIn(S) = FirstOf(free)
    BY <1>3 DEF FreeIn
  <2>3. ASSUME NEW q \in S, q < FirstOf(free) PROVE cell[q] # Erased
    <3>1. FirstOf(free) \in Nat /\ q \in Nat
      BY <1>1, <2>1
    <3>2. q \notin free
      BY <2>1, <2>3, <3>1
    <3> QED
      BY <3>2
  <2> QED
    BY <1>1, <2>1, <2>2, <2>3
<1> QED
  BY <1>2, <1>3

\* A save begins behind the leader, or with the erase of the other sector.
LEMMA BeginKeeps ==
  ASSUME TypeOK, NEW L \in 0..(2 * N), Ordered(L), Aimed(L), NEW c \in Controls, BeginAppend(c)
  PROVE  TypeOK' /\ Keeps(L)
<1>1. CellOK /\ cell' = cell /\ seq \in Seq
  BY DEF TypeOK, CellOK, BeginAppend
<1>2. Latest = L
  BY <1>1, LatestLeads
<1> DEFINE home == IF L = 0 THEN 1..N ELSE SectorOf(L)
           next == IF L = 0 THEN 1..N ELSE OtherSectorOf(L)
<1>3. /\ pc = "idle" /\ saving' = c /\ verdict' = "NONE"
      /\ seq' = IF L = 0 THEN 0 ELSE (cell[L].seq + 1) % SeqMod
      /\ \/ FreeIn(home) # 0 /\ target' = FreeIn(home) /\ pc' = "body"
         \/ FreeIn(home) = 0 /\ target' = FirstOf(next) /\ pc' = "erase"
  BY <1>2 DEF BeginAppend
<1>4. N \in Nat /\ N >= 1 /\ 1 \in Position /\ 1..N = SectorOf(1) /\ 1..N \subseteq Position
  BY NAssumption DEF Position, SectorOf
<1>5. L # 0 => L \in Position
  BY <1>4 DEF Position
<1>6. home \subseteq Position /\ (L # 0 => L \in home)
  BY <1>4, <1>5, SectorFacts
<1>7. seq' \in Seq
  <2>1. CASE L = 0
    BY <1>3, <2>1, HalfFacts DEF Seq
  <2>2. CASE L # 0
    <3>1. cell[L].seq \in Seq
      BY <1>1, <1>5, <2>2 DEF Ordered, CellOK, IsRecord, Record
    <3>2. (cell[L].seq + 1) % SeqMod \in Seq
      BY <3>1, HalfFacts, WrapNext DEF Seq
    <3> QED
      BY <1>3, <2>2, <3>2
  <2> QED
    BY <2>1, <2>2
<1>8. \A q \in home : SectorOf(q) = home
  BY <1>4, <1>5 DEF SectorOf, Position
<1>9. CASE FreeIn(home) # 0 /\ target' = FreeIn(home) /\ pc' = "body"
  <2>1. /\ target' \in home /\ cell[target'] = Erased
        /\ \A q \in home : q < target' => cell[q] # Erased
    BY <1>6, <1>9, FreeRecord
  <2>2. L # 0 => L < target'
    <3>1. L # 0 => cell[target'] = Erased /\ \A q \in home : q <= L => cell[q] # Erased
      BY <2>1 DEF Ordered, Scanned
    <3>2. target' \in Nat /\ L \in Nat
      BY <1>4, <1>6, <2>1 DEF Position
    <3> QED
      BY <2>1, <3>1, <3>2
  <2>3. Aimed(L)'
    BY <1>1, <1>3, <1>8, <1>9, <2>1, <2>2 DEF Aimed
  <2>4. TypeOK'
    BY <1>1, <1>3, <1>6, <1>7, <1>9, <2>1 DEF TypeOK
  <2>5. Ordered(L)'
    BY <1>1 DEF Ordered, IsRecord, Scanned
  <2> QED
    BY <1>1, <2>3, <2>4, <2>5 DEF Keeps
<1>10. CASE FreeIn(home) = 0 /\ target' = FirstOf(next) /\ pc' = "erase"
  <2>1. target' \in Position /\ target' = FirstOf(SectorOf(target'))
        /\ (L # 0 => target' \notin SectorOf(L))
    <3>1. CASE L = 0
      <4>1. target' = FirstOf(SectorOf(1)) /\ FirstOf(SectorOf(1)) = 1
        BY <1>4, <1>10, <3>1, SectorFacts
      <4> QED
        BY <1>4, <3>1, <4>1
    <3>2. CASE L # 0
      <4>1. target' = IF L <= N THEN N + 1 ELSE 1
        BY <1>5, <1>10, <3>2, SectorFacts
      <4>2. target' \in Position /\ target' \notin SectorOf(L)
        BY <1>4, <1>5, <3>2, <4>1 DEF Position, SectorOf
      <4>3. FirstOf(SectorOf(target')) = IF target' <= N THEN 1 ELSE N + 1
        BY <4>2, SectorFacts
      <4> QED
        BY <1>4, <4>1, <4>2, <4>3
    <3> QED
      BY <3>1, <3>2
  <2>2. Aimed(L)'
    BY <1>1, <1>3, <1>10, <2>1 DEF Aimed
  <2>3. TypeOK'
    BY <1>1, <1>3, <1>7, <1>10, <2>1 DEF TypeOK
  <2>4. Ordered(L)'
    BY <1>1 DEF Ordered, IsRecord, Scanned
  <2> QED
    BY <1>1, <2>2, <2>3, <2>4 DEF Keeps
<1> QED
  BY <1>3, <1>9, <1>10

\* A sector that the leader is not in may be erased, wholly or in part.
LEMMA EraseLeaves ==
  ASSUME TypeOK, NEW L \in 0..(2 * N), Ordered(L), Aimed(L), pc = "erase",
         cell' \in [Position -> Record \cup {Erased, Torn}],
         \A p \in Position : cell'[p] \in {Erased, Torn, cell[p]},
         \A p \in Position : p \notin SectorOf(target) => cell'[p] = cell[p]
  PROVE  Ordered(L)' /\ (L # 0 => cell'[L] = cell[L])
<1>1. target \in Position /\ CellOK /\ CellOK' /\ N \in Nat
  BY NAssumption DEF TypeOK, CellOK
<1>2. ASSUME L # 0
      PROVE  /\ cell'[L] = cell[L]
             /\ \A q \in SectorOf(L) : q <= L => cell'[q] # Erased
  <2>1. L \in Position /\ target \notin SectorOf(L)
    BY <1>1, <1>2 DEF Aimed, Position
  <2>2. \A q \in SectorOf(L) : q \in Position /\ q \notin SectorOf(target)
    BY <1>1, <2>1 DEF SectorOf, Position
  <2>3. L \in SectorOf(L)
    BY <2>1, SectorFacts
  <2> QED
    BY <1>2, <2>2, <2>3, <2>1 DEF Ordered, Scanned
<1> QED
  BY <1>1, <1>2, LeaderStays

\* A successful erase leaves the sector empty, and the save goes on to its head.
LEMMA EraseKeeps ==
  ASSUME TypeOK, NEW L \in 0..(2 * N), Ordered(L), Aimed(L), EraseSector
  PROVE  TypeOK' /\ Keeps(L)
<1>1. /\ pc = "erase" /\ pc' = "body" /\ target' = target /\ seq' = seq /\ saving' = saving
      /\ verdict' = verdict /\ target \in Position
  BY DEF EraseSector, TypeOK
<1>2. /\ cell' \in [Position -> Record \cup {Erased, Torn}]
      /\ \A p \in Position : cell'[p] = IF p \in SectorOf(target) THEN Erased ELSE cell[p]
  BY DEF EraseSector, TypeOK
<1>3. TypeOK'
  BY <1>1, <1>2 DEF TypeOK
<1>4. Ordered(L)' /\ (L # 0 => cell'[L] = cell[L])
  BY <1>1, <1>2, EraseLeaves
<1>5. SectorOf(target) \subseteq Position /\ target \in SectorOf(target)
      /\ SectorOf(target) \subseteq Nat
  BY <1>1, SectorFacts DEF Position
<1>6. /\ cell'[target] = Erased
      /\ \A p \in SectorOf(target) : ~IsRecord(p)'
      /\ target = FirstOf(SectorOf(target))
  BY <1>1, <1>2, <1>5 DEF IsRecord, Aimed
<1>7. \A q \in SectorOf(target) : ~(q < target)
  <2>1. \A q \in SectorOf(target) : target <= q
    BY <1>5, <1>6, FirstOfIs
  <2> QED
    BY <1>1, <1>5, <2>1
<1>8. Aimed(L)'
  BY <1>1, <1>4, <1>6, <1>7 DEF Aimed
<1> QED
  BY <1>3, <1>4, <1>8 DEF Keeps

\* Torn content in the record written changes nothing for a scan.
LEMMA TornLeaves ==
  ASSUME TypeOK, NEW L \in 0..(2 * N), Ordered(L), Aimed(L), pc \in {"body", "commit"},
         NEW content, content \in {cell[target], Torn},
         cell' = [cell EXCEPT ![target] = content]
  PROVE  /\ cell' \in [Position -> Record \cup {Erased, Torn}]
         /\ Ordered(L)' /\ (L # 0 => cell'[L] = cell[L])
         /\ cell'[target] = content
         /\ \A q \in Position \ {target} : cell'[q] = cell[q]
<1>1. target \in Position /\ CellOK /\ cell[target] \in {Erased, Torn}
  BY DEF TypeOK, CellOK, Aimed
<1>2. /\ CellOK' /\ cell'[target] = content
      /\ \A q \in Position \ {target} : cell'[q] = cell[q]
  BY <1>1 DEF CellOK
<1>3. \A p \in Position : cell'[p] \in {Erased, Torn, cell[p]}
  BY <1>1, <1>2
<1>4. ASSUME L # 0
      PROVE  /\ cell'[L] = cell[L]
             /\ \A q \in SectorOf(L) : q <= L => cell'[q] # Erased
  <2>1. L \in Position /\ L # target
    BY <1>1, <1>4, NAssumption DEF Ordered, IsRecord, Position
  <2>2. \A q \in SectorOf(L) : q <= L => cell[q] # Erased /\ q \in Position
    BY <1>4, <2>1, SectorFacts DEF Ordered, Scanned
  <2>3. content = Erased => cell[target] = Erased
    BY CellAssumption
  <2> QED
    BY <1>2, <2>1, <2>2, <2>3
<1>5. Ordered(L)'
  BY <1>1, <1>2, <1>3, <1>4, LeaderStays
<1> QED
  BY <1>2, <1>4, <1>5 DEF CellOK

\* The body goes into an erased record, so programming it succeeds.
LEMMA BodyKeeps ==
  ASSUME TypeOK, NEW L \in 0..(2 * N), Ordered(L), Aimed(L), ProgramBody
  PROVE  TypeOK' /\ Keeps(L) /\ pc' = "commit" /\ UNCHANGED <<saving, verdict>>
<1>1. pc = "body" /\ cell[target] = Erased /\ target \in Position
  BY DEF ProgramBody, Aimed, TypeOK
<1>2. /\ cell' = [cell EXCEPT ![target] = Torn]
      /\ pc' = "commit" /\ UNCHANGED <<saving, target, seq, verdict>>
  BY <1>1 DEF ProgramBody
<1>3. /\ cell' \in [Position -> Record \cup {Erased, Torn}]
      /\ Ordered(L)' /\ (L # 0 => cell'[L] = cell[L])
      /\ cell'[target] = Torn
      /\ \A q \in Position \ {target} : cell'[q] = cell[q]
  BY <1>1, <1>2, TornLeaves
<1>4. TypeOK'
  BY <1>1, <1>2, <1>3 DEF TypeOK
<1>5. SectorOf(target) \subseteq Position /\ SectorOf(target) \subseteq Nat /\ target \in Nat
  BY <1>1, SectorFacts DEF Position
<1>6. \A q \in SectorOf(target) : q < target => cell'[q] # Erased
  BY <1>1, <1>3, <1>5 DEF Aimed
<1>7. \A q \in SectorOf(target) : ~IsRecord(q) => ~IsRecord(q)'
  BY <1>3, <1>5 DEF IsRecord
<1>8. Aimed(L)'
  BY <1>1, <1>2, <1>3, <1>6, <1>7 DEF Aimed
<1> QED
  BY <1>2, <1>3, <1>4, <1>8 DEF Keeps

\* The end of a save, with the control saved in flash.
LEMMA CommitReplaces ==
  ASSUME TypeOK, NEW L \in 0..(2 * N), Ordered(L), Aimed(L), pc = "commit",
         cell' = [cell EXCEPT ![target] = [seq |-> seq, control |-> saving]],
         NEW v \in {"NONE", "OK", "STORAGE"}, Return(v)
  PROVE  TypeOK' /\ Replaces
<1>1. PICK T : T = target
  OBVIOUS
<1>2. CellOK' /\ Ordered(T)' /\ T \in Position /\ cell'[T].control = saving
  BY <1>1, CommitLeads
<1>3. pc' = "idle" /\ saving' = NoControl /\ target' = 0 /\ verdict' = v /\ seq' = seq
  BY DEF Return
<1>4. TypeOK'
  BY <1>2, <1>3 DEF TypeOK, CellOK
<1>5. Aimed(T)'
  BY <1>3 DEF Aimed
<1> QED
  BY <1>2, <1>3, <1>4, <1>5 DEF Replaces

\* The end of a save that failed or was cut short.
LEMMA HalfDoneEnds ==
  ASSUME TypeOK, NEW L \in 0..(2 * N), Ordered(L), Aimed(L), HalfDone,
         NEW v \in {"NONE", "STORAGE"}, Return(v)
  PROVE  TypeOK' /\ (Keeps(L) \/ Replaces)
<1>1. pc' = "idle" /\ saving' = NoControl /\ target' = 0 /\ verdict' = v /\ seq' = seq
  BY DEF Return
<1>2. Aimed(L)'
  BY <1>1 DEF Aimed
<1>3. ASSUME cell' \in [Position -> Record \cup {Erased, Torn}],
             Ordered(L)', L # 0 => cell'[L] = cell[L]
      PROVE  TypeOK' /\ Keeps(L)
  BY <1>1, <1>2, <1>3 DEF TypeOK, Keeps
<1>4. CASE pc = "erase" /\ HalfErased
  <2>1. /\ cell' \in [Position -> Record \cup {Erased, Torn}]
        /\ \A p \in Position : cell'[p] \in {Erased, Torn, cell[p]}
        /\ \A p \in Position : p \notin SectorOf(target) => cell'[p] = cell[p]
    BY <1>4 DEF HalfErased, TypeOK
  <2> QED
    BY <1>3, <1>4, <2>1, EraseLeaves
<1>5. CASE pc = "body" /\ HalfProgrammed(Torn)
  <2>1. PICK content \in {cell[target], Torn} : cell' = [cell EXCEPT ![target] = content]
    BY <1>5 DEF HalfProgrammed
  <2>2. /\ cell' \in [Position -> Record \cup {Erased, Torn}]
        /\ Ordered(L)' /\ (L # 0 => cell'[L] = cell[L])
    BY <1>5, <2>1, TornLeaves
  <2> QED
    BY <1>3, <2>2
<1>6. CASE pc = "commit" /\ HalfProgrammed([seq |-> seq, control |-> saving])
  <2>1. PICK content \in {cell[target], Torn, [seq |-> seq, control |-> saving]} :
          cell' = [cell EXCEPT ![target] = content]
    BY <1>6 DEF HalfProgrammed
  <2>2. CASE content \in {cell[target], Torn}
    <3>1. /\ cell' \in [Position -> Record \cup {Erased, Torn}]
          /\ Ordered(L)' /\ (L # 0 => cell'[L] = cell[L])
      BY <1>6, <2>1, <2>2, TornLeaves
    <3> QED
      BY <1>3, <3>1
  <2>3. CASE content = [seq |-> seq, control |-> saving]
    BY <1>6, <2>1, <2>3, CommitReplaces
  <2> QED
    BY <2>1, <2>2, <2>3
<1> QED
  BY <1>4, <1>5, <1>6 DEF HalfDone

\* Every step keeps the leader, or puts the control saved in its place.
LEMMA StepLeads ==
  ASSUME TypeOK, NEW L \in 0..(2 * N), Ordered(L), Aimed(L), Next
  PROVE  TypeOK' /\ (Keeps(L) \/ Replaces)
<1>1. CASE \E c \in Controls : BeginAppend(c)
  BY <1>1, BeginKeeps
<1>2. CASE EraseSector
  BY <1>2, EraseKeeps
<1>3. CASE ProgramBody
  BY <1>3, BodyKeeps
<1>4. CASE ProgramCommit
  BY <1>4, CommitReplaces DEF ProgramCommit
<1>5. CASE FlashError
  BY <1>5, HalfDoneEnds DEF FlashError
<1>6. CASE PowerCut
  BY <1>6, HalfDoneEnds DEF PowerCut
<1> QED
  BY <1>1, <1>2, <1>3, <1>4, <1>5, <1>6 DEF Next

-----------------------------------------------------------------------------
(***************************************************************************)
(* The theorems.                                                           *)
(***************************************************************************)

\* The invariant is inductive.
THEOREM JournalInvariance == Spec => []JInv
<1>1. Init => JInv
  <2> SUFFICES ASSUME Init PROVE JInv
    OBVIOUS
  <2>1. TypeOK
    BY HalfFacts DEF Init, TypeOK, Seq
  <2>2. 0 \in 0..(2 * N)
    BY NAssumption
  <2>3. Ordered(0) /\ Aimed(0)
    BY DEF Init, Ordered, Aimed, IsRecord
  <2> QED
    BY <2>1, <2>2, <2>3 DEF JInv
<1>2. JInv /\ [Next]_vars => JInv'
  <2> SUFFICES ASSUME JInv, [Next]_vars PROVE JInv'
    OBVIOUS
  <2>1. TypeOK
    BY DEF JInv
  <2>2. PICK L \in 0..(2 * N) : Ordered(L) /\ Aimed(L)
    BY DEF JInv
  <2>3. CASE Next
    <3>1. TypeOK' /\ (Keeps(L) \/ Replaces)
      BY <2>1, <2>2, <2>3, StepLeads
    <3>2. \A T \in Position : T \in 0..(2 * N)
      BY NAssumption DEF Position
    <3> QED
      BY <3>1, <3>2 DEF JInv, Keeps, Replaces
  <2>4. CASE UNCHANGED vars
    BY <2>1, <2>2, <2>4 DEF vars, JInv, TypeOK, Ordered, Aimed, IsRecord, Scanned
  <2> QED
    BY <2>3, <2>4
<1> QED
  BY <1>1, <1>2, PTL DEF Spec

\* Whatever was interrupted, records, target and number of a save keep their types.
THEOREM JournalTypes == Spec => []TypeOK
BY JournalInvariance, PTL DEF JInv

\* The scan finds the record newer than all others.
THEOREM ScanAlwaysFindsNewest == Spec => []ScanFindsNewest
<1>1. JInv => ScanFindsNewest
  <2> SUFFICES ASSUME JInv, Records # {} 
               PROVE  /\ Latest \in Records
                      /\ \A p \in Records \ {Latest} :
                           SequenceIsNewer(cell[Latest].seq, cell[p].seq)
    BY DEF ScanFindsNewest
  <2>1. CellOK
    BY DEF JInv, TypeOK, CellOK
  <2>2. PICK L \in 0..(2 * N) : Ordered(L)
    BY DEF JInv
  <2>3. Latest = L
    BY <2>1, <2>2, LatestLeads
  <2>4. L # 0
    BY <2>2 DEF Ordered, Records
  <2>5. L \in Position
    BY <2>4, NAssumption DEF Position
  <2>6. L \in Records
    BY <2>2, <2>4, <2>5 DEF Ordered, Records
  <2>7. \A p \in Records \ {L} : SequenceIsNewer(cell[L].seq, cell[p].seq)
    BY <2>1, <2>2, <2>5, LeaderIsNewer DEF Records
  <2> QED
    BY <2>3, <2>6, <2>7
<1> QED
  BY <1>1, JournalInvariance, PTL

\* No erase touches the sector of the latest record.
THEOREM NewestNeverErased == Spec => []ErasesOnlyOld
<1>1. JInv => ErasesOnlyOld
  <2> SUFFICES ASSUME JInv, pc = "erase" PROVE Latest \notin SectorOf(target)
    BY DEF ErasesOnlyOld
  <2>1. CellOK /\ target \in Position /\ N \in Nat
    BY NAssumption DEF JInv, TypeOK, CellOK
  <2>2. PICK L \in 0..(2 * N) : Ordered(L) /\ Aimed(L)
    BY DEF JInv
  <2>3. Latest = L
    BY <2>1, <2>2, LatestLeads
  <2> QED
    BY <2>1, <2>2, <2>3 DEF Aimed, SectorOf, Position
<1> QED
  BY <1>1, JournalInvariance, PTL

\* A save programs only a record that reads erased.
THEOREM OnlyErasedProgrammed == Spec => []ProgramsErasedOnly
<1>1. JInv => ProgramsErasedOnly
  BY DEF JInv, Aimed, ProgramsErasedOnly
<1> QED
  BY <1>1, JournalInvariance, PTL

\* What LatestLeads says, as a formula that can be primed.
LeaderFound == \A K \in 0..(2 * N) : CellOK /\ Ordered(K) => Latest = K

\* The journal is a register: every step of a save is a step of ControlStore or
\* goes unnoticed there.
THEOREM JournalImplementsStore == Spec => ImplementsStore
<1>0. LeaderFound
  BY LatestLeads DEF LeaderFound
<1>1. Init => Store!StoreInit
  <2> SUFFICES ASSUME Init PROVE Store!StoreInit
    OBVIOUS
  <2>1. 0 \in 0..(2 * N) /\ CellOK
    BY NAssumption DEF Init, CellOK
  <2>2. Ordered(0)
    BY DEF Init, Ordered, IsRecord
  <2>3. Load = NoControl
    BY <2>1, <2>2, LatestLeads DEF Load
  <2> QED
    BY <2>3 DEF Init, Store!StoreInit
<1>2. ASSUME JInv, JInv', LeaderFound, LeaderFound', [Next]_vars
      PROVE  [Store!StoreNext]_Store!storeVars
  <2>1. TypeOK /\ CellOK /\ CellOK'
    BY <1>2 DEF JInv, TypeOK, CellOK
  <2>2. PICK L \in 0..(2 * N) : Ordered(L) /\ Aimed(L)
    BY <1>2 DEF JInv
  <2>3. Load = ControlAt(L)
    BY <1>2, <2>1, <2>2 DEF LeaderFound, Load, ControlAt
  <2>4. \A K \in 0..(2 * N) : Ordered(K)' => Load' = ControlAt(K)'
    BY <1>2, <2>1 DEF LeaderFound, Load, ControlAt
  <2>5. Keeps(L) => Load' = Load
    BY <2>3, <2>4 DEF Keeps, ControlAt
  <2>6. Replaces => Load' = saving /\ pc = "commit"
    BY <2>4, NAssumption DEF Replaces, ControlAt, Position
  <2>7. pc # "idle" => saving # NoControl
    BY <2>1, NoControlAssumption DEF TypeOK
  <2>8. CASE \E c \in Controls : BeginAppend(c)
    <3>1. PICK c \in Controls : BeginAppend(c)
      BY <2>8
    <3>2. Load' = Load
      BY <2>1, <2>2, <2>5, <3>1, BeginKeeps
    <3>3. saving = NoControl /\ saving' = c /\ verdict' = "NONE"
      BY <2>1, <3>1 DEF BeginAppend, TypeOK
    <3> QED
      BY <3>2, <3>3 DEF Store!StoreNext, Store!BeginSave
  <2>9. CASE EraseSector
    <3>1. Load' = Load
      BY <2>1, <2>2, <2>5, <2>9, EraseKeeps
    <3> QED
      BY <2>9, <3>1 DEF EraseSector, Store!storeVars
  <2>10. CASE ProgramBody
    <3>1. Load' = Load /\ UNCHANGED <<saving, verdict>>
      BY <2>1, <2>2, <2>5, <2>10, BodyKeeps
    <3> QED
      BY <3>1 DEF Store!storeVars
  <2>11. CASE ProgramCommit
    <3>1. Load' = saving /\ pc = "commit"
      BY <2>1, <2>2, <2>6, <2>11, CommitReplaces DEF ProgramCommit
    <3> QED
      BY <2>7, <2>11, <3>1 DEF ProgramCommit, Return, Store!StoreNext, Store!SaveReplaces
  <2>12. CASE FlashError \/ PowerCut
    <3>1. PICK v \in {"NONE", "STORAGE"} : HalfDone /\ Return(v)
      BY <2>12 DEF FlashError, PowerCut
    <3>2. Keeps(L) \/ Replaces
      BY <2>1, <2>2, <3>1, HalfDoneEnds
    <3>3. pc # "idle" /\ saving' = NoControl /\ verdict' = v
      BY <3>1 DEF HalfDone, Return
    <3>4. Load' = Load \/ Load' = saving
      BY <2>5, <2>6, <3>2
    <3> QED
      BY <2>7, <3>3, <3>4 DEF Store!StoreNext, Store!SaveReplaces, Store!SaveLeavesAlone
  <2>13. CASE UNCHANGED vars
    <3>1. Ordered(L)' /\ Aimed(L)' /\ cell' = cell
      BY <2>2, <2>13 DEF vars, Ordered, Aimed, IsRecord, Scanned
    <3>2. Load' = Load
      BY <2>5, <3>1 DEF Keeps
    <3> QED
      BY <2>13, <3>2 DEF vars, Store!storeVars
  <2> QED
    BY <1>2, <2>8, <2>9, <2>10, <2>11, <2>12, <2>13 DEF Next
<1> QED
  BY <1>0, <1>1, <1>2, JournalInvariance, PTL DEF Spec, ImplementsStore, Store!StoreSpec
=============================================================================
