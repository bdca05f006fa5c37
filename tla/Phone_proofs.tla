---------------------------- MODULE Phone_proofs ----------------------------
(***************************************************************************)
(* The listener's rate limits count exactly, and what it offers to buy is  *)
(* listed, for any messages, limits, window and length of a day.           *)
(***************************************************************************)
EXTENDS Phone, FiniteSetTheorems, SequenceTheorems, WellFoundedInduction, TLAPS

(***************************************************************************)
(* Numbers                                                                 *)
(***************************************************************************)
\* A set of natural numbers has a least one.
LEMMA Least ==
  ASSUME NEW S \in SUBSET Nat, S # {}
  PROVE  \E m \in S : \A n \in S : m <= n
  <1> DEFINE Less == {ss \in Nat \X Nat : ss[1] < ss[2]}
  <1>1. IsWellFoundedOn(Less, Nat)
    BY NatLessThanWellFounded DEF OpToRel
  <1>2. PICK m \in S : \A n \in S : ~(<<n, m>> \in Less)
    BY <1>1, WFMin
  <1>3. ASSUME NEW n \in S, n < m PROVE <<n, m>> \in Less
    <2>1. <<n, m>> \in Nat \X Nat /\ <<n, m>>[1] < <<n, m>>[2]
      BY <1>3
    <2> QED
      BY <2>1
  <1>4. \A n \in S : ~(n < m)
    BY <1>2, <1>3
  <1> QED
    BY <1>4

\* And Min finds it.
LEMMA LeastIn == ASSUME NEW S \in SUBSET Nat, S # {} PROVE Min(S) \in S
  BY Least DEF Min

\* Days follow each other.
LEMMA DaysFollow ==
  ASSUME NEW x \in Nat, NEW y \in Nat, x <= y
  PROVE  DayOf(x) \in Nat /\ DayOf(x) >= 1 /\ DayOf(y) \in Nat /\ DayOf(x) <= DayOf(y)
  <1> DEFINE n == DayLength
             p == x \div n
             q == y \div n
  <1>1. n \in Nat /\ n > 0
    BY BreakersAssumption
  <1> HIDE DEF n
  <1>2. /\ p \in Nat /\ x = (n * p) + (x % n) /\ x % n \in 0 .. n - 1
        /\ q \in Nat /\ y = (n * q) + (y % n) /\ y % n \in 0 .. n - 1
    BY <1>1
  <1> HIDE DEF p, q
  <1>3. ASSUME p > q PROVE FALSE
    <2>1. p - q \in Nat /\ p - q >= 1
      BY <1>2, <1>3
    <2>2. n * (p - q) >= n
      BY <1>1, <2>1
    <2>3. n * (p - q) = n * p - n * q /\ n * p \in Nat /\ n * q \in Nat
      BY <1>1, <1>2
    <2> QED
      BY <1>1, <1>2, <2>2, <2>3
  <1>4. DayOf(x) = p + 1 /\ DayOf(y) = q + 1
    BY DEF DayOf, p, q, n
  <1> QED
    BY <1>2, <1>3, <1>4

(***************************************************************************)
(* What a text is taken for is a command.                                  *)
(***************************************************************************)
LEMMA TickersAreSymbols == Tickers \subseteq Symbols
  BY PhrasesAssumption DEF Symbols, Words, KeyWords

\* A query resolves to a symbol or to nothing.
LEMMA ResolvedTyped ==
  ASSUME NEW t, DOMAIN t \in SUBSET Nat, NEW pattern
  PROVE  Resolved(t, pattern) \in Symbols \cup {NoSym}
  <1> DEFINE named  == {i \in DOMAIN Companies : Has(t, Companies[i])}
             shaped == {i \in DOMAIN t : t[i] \in Symbols \ pattern}
  <1>1. Resolved(t, pattern) =
          IF named # {} THEN TickerOf[Companies[Min(named)]]
          ELSE IF shaped # {} THEN t[Min(shaped)] ELSE NoSym
    BY DEF Resolved
  <1>2. DOMAIN Companies \in SUBSET Nat
    BY PhrasesAssumption
  <1>3. CASE named # {}
    <2>1. named \in SUBSET Nat
      BY <1>2
    <2>2. Min(named) \in DOMAIN Companies
      BY <1>3, <2>1, LeastIn
    <2>3. Companies[Min(named)] \in Range(Companies)
      BY <2>2 DEF Range
    <2>4. TickerOf[Companies[Min(named)]] \in Tickers
      BY <2>3, PhrasesAssumption
    <2> HIDE DEF named, shaped
    <2> QED
      BY <1>1, <1>3, <2>4, TickersAreSymbols
  <1>4. CASE named = {} /\ shaped # {}
    <2>1. shaped \in SUBSET Nat
      OBVIOUS
    <2>2. Min(shaped) \in shaped
      BY <1>4, <2>1, LeastIn
    <2> HIDE DEF named
    <2>3. t[Min(shaped)] \in Symbols
      BY <2>2
    <2> QED
      BY <1>1, <1>4, <2>3
  <1>5. CASE named = {} /\ shaped = {}
    BY <1>1, <1>5
  <1> QED
    BY <1>3, <1>4, <1>5

\* The patterns make a command of every text.
LEMMA ParsedTyped == ASSUME NEW t \in Messages \cup {<<>>} PROVE ParseNL(t) \in Commands
  <1>1. \E n \in Nat : DOMAIN t = 1..n
    <2>1. t \in Texts \/ t = <<>>
      BY PhoneAssumption
    <2>2. CASE t \in Texts
      <3>1. PICK n \in 1..3 : t \in [1..n -> Words]
        BY <2>2 DEF Texts
      <3> QED
        BY <3>1
    <2>3. CASE t = <<>>
      <3>1. DOMAIN t = 1..0
        BY <2>3
      <3> QED
        BY <3>1
    <2> QED
      BY <2>1, <2>2, <2>3
  <1>2. Bought(t) \in Symbols \cup {NoSym}
    BY <1>1, ResolvedTyped DEF Bought
  <1> DEFINE found == {i \in DOMAIN Patterns : Matches(t, Patterns[i])}
             cmd   == IF found = {} THEN "unknown" ELSE Patterns[Min(found)]
  <1>3. cmd \in {"flatten", "close", "status", "pending", "help", "halt", "reset", "run", "buy", "unknown"}
    <2>1. DOMAIN Patterns = 1..9
      BY DEF Patterns
    <2>2. CASE found # {}
      <3>1. found \in SUBSET Nat
        BY <2>1
      <3>2. Min(found) \in 1..9
        BY <2>1, <2>2, <3>1, LeastIn
      <3> HIDE DEF found
      <3> QED
        BY <2>2, <3>2 DEF Patterns
    <2> QED
      BY <2>2
  <1>4. Resolved(CloseRest(t), {}) \in Symbols \cup {NoSym}
    <2> DEFINE c == Closable(t)
    <2>1. CloseRest(t) = IF c = {} THEN <<>> ELSE SubSeq(t, Min(c) + 1, Len(t))
      BY DEF CloseRest
    <2>2. DOMAIN CloseRest(t) \in SUBSET Nat
      BY <1>1, <2>1, LeastIn DEF Closable
    <2> QED
      BY <2>2, ResolvedTyped
  <1>5. ParseNL(t) =
          CASE cmd = "close" -> [cmd |-> "close", sym |-> Resolved(CloseRest(t), {})]
            [] cmd = "buy"   -> IF Has(t, "5") THEN [cmd |-> "buy", sym |-> Bought(t), qty |-> 1]
                                ELSE [cmd |-> "unknown"]
            [] OTHER         -> [cmd |-> cmd]
    BY DEF ParseNL
  <1> HIDE DEF cmd
  <1> QED
    BY <1>2, <1>3, <1>4, <1>5 DEF Commands

(***************************************************************************)
(* The rate limits                                                         *)
(***************************************************************************)
\* The loop that drops what has left the window stops somewhere.
LEMMA ExpiredIs ==
  ASSUME NEW ts \in Seq(Nat), NEW t \in Nat
  PROVE  /\ Expired(ts, t) \in 0..Len(ts)
         /\ \A i \in 1..Expired(ts, t) : t - ts[i] > Window
         /\ Expired(ts, t) < Len(ts) => t - ts[Expired(ts, t) + 1] <= Window
  <1> DEFINE Good(k) == /\ \A i \in 1..k : t - ts[i] > Window
                        /\ k < Len(ts) => t - ts[k + 1] <= Window
             S == {i \in 1..Len(ts) : t - ts[i] <= Window}
  <1>0. Len(ts) \in Nat /\ \A i \in 1..Len(ts) : ts[i] \in Nat
    OBVIOUS
  <1>w. Window \in Nat
    BY BreakersAssumption DEF CircuitBreakerLimits
  <1>1. \E k \in 0..Len(ts) : Good(k)
    <2>1. CASE S = {}
      <3>1. \A i \in 1..Len(ts) : t - ts[i] > Window
        BY <1>0, <1>w, <2>1
      <3>2. Good(Len(ts)) /\ Len(ts) \in 0..Len(ts)
        BY <1>0, <3>1
      <3> QED
        BY <3>2
    <2>2. CASE S # {}
      <3>1. PICK m \in S : \A n \in S : m <= n
        <4>1. S \in SUBSET Nat
          OBVIOUS
        <4> QED
          BY <2>2, <4>1, Least
      <3>2. m \in 1..Len(ts) /\ t - ts[m] <= Window
        BY <3>1
      <3>3. \A i \in 1..m - 1 : i \in 1..Len(ts) /\ i \notin S
        BY <1>0, <3>1, <3>2
      <3>4. \A i \in 1..m - 1 : t - ts[i] > Window
        BY <1>0, <1>w, <3>3
      <3>5. m - 1 \in 0..Len(ts) /\ (m - 1) + 1 = m
        BY <1>0, <3>2
      <3> HIDE DEF S
      <3>6. Good(m - 1)
        BY <3>2, <3>4, <3>5
      <3> QED
        BY <3>5, <3>6
    <2> QED
      BY <2>1, <2>2
  <1>2. Expired(ts, t) = CHOOSE k \in 0..Len(ts) : Good(k)
    BY DEF Expired
  <1> HIDE DEF Good
  <1>3. Expired(ts, t) \in 0..Len(ts) /\ Good(Expired(ts, t))
    BY <1>1, <1>2
  <1> QED
    BY <1>3 DEF Good

\* Orders are counted in the order of time, up to now.
InOrder(c, t) ==
  /\ c \in Seq(Nat)
  /\ \A i \in 1..Len(c) : c[i] <= t
  /\ \A i, j \in 1..Len(c) : i <= j => c[i] <= c[j]

\* All of c but the first k.
Rest(ts, c, k) == Len(ts) = Len(c) - k /\ \A i \in 1..Len(ts) : ts[i] = c[k + i]

Left(c, k, t) == \A i \in 1..k : t - c[i] > Window

\* What is left after dropping from the rest of c is the rest of c: all, and
\* only, that is in the window.
LEMMA DropLeavesRest ==
  ASSUME NEW t \in Nat, NEW c, InOrder(c, t), NEW k \in 0..Len(c),
         NEW ts \in Seq(Nat), Rest(ts, c, k), Left(c, k, t)
  PROVE  LET after == SubSeq(ts, Expired(ts, t) + 1, Len(ts))
         IN /\ after \in Seq(Nat)
            /\ \E m \in 0..Len(c) : /\ Rest(after, c, m) /\ Left(c, m, t)
                                    /\ \A i \in m + 1..Len(c) : t - c[i] <= Window
            /\ \A x : (\A i \in 1..Len(ts) : ts[i] \in x) => \A i \in 1..Len(after) : after[i] \in x
  <1> DEFINE e     == Expired(ts, t)
             n     == Len(c)
             l     == Len(ts)
             after == SubSeq(ts, e + 1, l)
             m     == k + e
  <1>1. /\ n \in Nat /\ l \in Nat /\ l = n - k /\ Window \in Nat
        /\ \A i \in 1..n : c[i] \in Nat
        /\ \A i \in 1..l : ts[i] \in Nat /\ ts[i] = c[k + i]
    <2>1. n \in Nat /\ \A i \in 1..n : c[i] \in Nat
      BY DEF InOrder
    <2>2. l \in Nat /\ \A i \in 1..l : ts[i] \in Nat
      OBVIOUS
    <2>3. l = n - k /\ \A i \in 1..l : ts[i] = c[k + i]
      BY DEF Rest
    <2>4. Window \in Nat
      BY BreakersAssumption DEF CircuitBreakerLimits
    <2> QED
      BY <2>1, <2>2, <2>3, <2>4
  <1>2. e \in 0..l /\ (\A i \in 1..e : t - ts[i] > Window) /\ (e < l => t - ts[e + 1] <= Window)
    BY ExpiredIs
  <1>3. /\ after \in Seq(Nat)
        /\ Len(after) = IF e + 1 <= l THEN l - (e + 1) + 1 ELSE 0
        /\ \A i \in 1..l - (e + 1) + 1 : after[i] = ts[(e + 1) + i - 1]
    <2>1. e + 1 \in Int /\ l \in Int /\ \A i \in e + 1..l : ts[i] \in Nat
      BY <1>1, <1>2
    <2> HIDE DEF e, l
    <2> QED
      BY <2>1, SubSeqProperties
  <1> HIDE DEF e, l, n, after
  <1>4. Len(after) = l - e /\ \A i \in 1..l - e : after[i] = ts[e + i]
    <2>1. l - (e + 1) + 1 = l - e /\ \A i \in Int : (e + 1) + i - 1 = e + i
      BY <1>1, <1>2
    <2> QED
      BY <1>1, <1>2, <1>3, <2>1
  <1>5. m \in 0..n /\ n - m = l - e
    BY <1>1, <1>2 DEF n
  <1>6. \A i \in 1..l - e : after[i] = c[m + i]
    <2>1. SUFFICES ASSUME NEW i \in 1..l - e PROVE after[i] = c[m + i]
      OBVIOUS
    <2>2. e + i \in 1..l /\ k + (e + i) = m + i
      BY <1>1, <1>2
    <2> QED
      BY <1>1, <1>4, <2>2
  <1>7. Rest(after, c, m)
    BY <1>4, <1>5, <1>6 DEF Rest, n
  <1>8. Left(c, m, t)
    <2>1. SUFFICES ASSUME NEW i \in 1..m PROVE t - c[i] > Window
      BY DEF Left
    <2>2. CASE i <= k
      <3>1. i \in 1..k
        BY <2>2
      <3> QED
        BY <3>1 DEF Left
    <2>3. CASE i > k
      <3>1. i - k \in 1..e /\ i - k \in 1..l /\ k + (i - k) = i
        BY <1>1, <1>2, <2>3
      <3>2. ts[i - k] = c[i]
        BY <1>1, <3>1
      <3> QED
        BY <1>2, <3>1, <3>2
    <2> QED
      BY <1>5, <2>2, <2>3
  <1>9. ASSUME NEW i \in m + 1..n PROVE t - c[i] <= Window
    <2>1. e < l /\ e + 1 \in 1..l /\ k + (e + 1) = m + 1 /\ m + 1 \in 1..n /\ i \in 1..n /\ m + 1 <= i
      BY <1>1, <1>2, <1>5
    <2>2. t - c[m + 1] <= Window
      BY <1>1, <1>2, <2>1
    <2>3. c[m + 1] <= c[i]
      BY <2>1 DEF InOrder, n
    <2> QED
      BY <1>1, <2>1, <2>2, <2>3
  <1>10. ASSUME NEW x, \A i \in 1..l : ts[i] \in x, NEW i \in 1..Len(after)
         PROVE  after[i] \in x
    <2>1. e + i \in 1..l /\ i \in 1..l - e
      BY <1>1, <1>2, <1>4
    <2> QED
      BY <1>4, <1>10, <2>1
  <1> QED
    BY <1>3, <1>5, <1>7, <1>8, <1>9, <1>10 DEF after, e, l, n

\* What is in the window is that rest.
LEMMA RestIsWindow ==
  ASSUME NEW t \in Nat, NEW c \in Seq(Nat), NEW m \in 0..Len(c), NEW ts, Rest(ts, c, m),
         Left(c, m, t), \A i \in m + 1..Len(c) : t - c[i] <= Window
  PROVE  Len(ts) = Cardinality({i \in DOMAIN c : t - c[i] <= Window})
  <1> DEFINE n == Len(c)
             recent == {i \in 1..n : t - c[i] <= Window}
  <1>1. n \in Nat /\ DOMAIN c = 1..n /\ Window \in Nat /\ \A i \in 1..n : c[i] \in Nat
    BY BreakersAssumption DEF CircuitBreakerLimits
  <1>2. m \in 0..n /\ (\A i \in 1..m : t - c[i] > Window) /\ \A i \in m + 1..n : t - c[i] <= Window
    BY DEF Left
  <1>3. Len(ts) = n - m
    BY DEF Rest
  <1> HIDE DEF n
  <1>4. recent = m + 1..n
    <2>1. \A i \in 1..n : i \in 1..m \/ i \in m + 1..n
      BY <1>1, <1>2
    <2>2. \A i \in m + 1..n : i \in 1..n
      BY <1>1, <1>2
    <2>3. \A i \in 1..m : i \in 1..n /\ ~(t - c[i] <= Window)
      BY <1>1, <1>2
    <2> QED
      BY <1>2, <2>1, <2>2, <2>3
  <1> HIDE DEF recent
  <1>5. Cardinality(m + 1..n) = IF m + 1 > n THEN 0 ELSE n - (m + 1) + 1
    <2>1. m + 1 \in Int /\ n \in Int
      BY <1>1, <1>2
    <2> QED
      BY <2>1, FS_Interval
  <1> DEFINE N == Cardinality(m + 1..n)
  <1>6. N = n - m
    <2>1. N = IF m + 1 > n THEN 0 ELSE n - (m + 1) + 1
      BY <1>5
    <2> HIDE DEF N
    <2> QED
      BY <1>1, <1>2, <2>1
  <1> QED
    BY <1>1, <1>3, <1>4, <1>6 DEF recent

\* What the breakers remember of the orders c at time t: all but some of the
\* oldest, which have left the window; and how many there were on the day of
\* the last look.
Remembers(b, c, t) ==
  /\ \E k \in 0..Len(c) : Rest(b.times, c, k) /\ Left(c, k, t)
  /\ b.day \in 0..DayOf(t)
  /\ b.count = Cardinality({i \in DOMAIN c : DayOf(c[i]) = b.day})
  /\ \A i \in DOMAIN c : DayOf(c[i]) <= b.day

Records == [times : Seq(Nat), count : Nat, day : Nat]

\* Orders of a day are so many.
LEMMA DayCounts ==
  ASSUME NEW c \in Seq(Nat), NEW d
  PROVE  /\ IsFiniteSet({i \in DOMAIN c : DayOf(c[i]) = d})
         /\ Cardinality({i \in DOMAIN c : DayOf(c[i]) = d}) \in 0..Len(c)
  <1> DEFINE S == {i \in DOMAIN c : DayOf(c[i]) = d}
             n == Len(c)
  <1>1. n \in Nat /\ DOMAIN c = 1..n /\ S \subseteq 1..n
    OBVIOUS
  <1> HIDE DEF S, n
  <1>2. IsFiniteSet(1..n) /\ Cardinality(1..n) = n
    <2>1. 1 \in Int /\ n \in Int
      BY <1>1
    <2>2. IsFiniteSet(1..n) /\ Cardinality(1..n) = IF 1 > n THEN 0 ELSE n - 1 + 1
      BY <2>1, FS_Interval
    <2> DEFINE N == Cardinality(1..n)
    <2>3. N = IF 1 > n THEN 0 ELSE n - 1 + 1
      BY <2>2
    <2> HIDE DEF N
    <2>4. N = n
      BY <1>1, <2>3
    <2> QED
      BY <2>2, <2>4 DEF N
  <1>3. IsFiniteSet(S) /\ Cardinality(S) <= Cardinality(1..n)
    BY <1>1, <1>2, FS_Subset
  <1>4. Cardinality(S) \in Nat
    BY <1>3, FS_CardinalityType
  <1>5. Cardinality(S) \in 0..n
    BY <1>1, <1>2, <1>3, <1>4
  <1> QED
    BY <1>3, <1>5 DEF S, n

\* A look forgets only what has left the window, and counts the day anew: then
\* both counts are exact.
LEMMA LookRemembers ==
  ASSUME NEW t \in Nat, NEW c, InOrder(c, t), NEW b \in Records, Remembers(b, c, t)
  PROVE  /\ Checked(b, t) \in Records
         /\ Remembers(Checked(b, t), c, t)
         /\ Checked(b, t).day = DayOf(t)
         /\ Len(Checked(b, t).times) = Cardinality({i \in DOMAIN c : t - c[i] <= Window})
         /\ Checked(b, t).count = Cardinality({i \in DOMAIN c : DayOf(c[i]) = DayOf(t)})
  <1> DEFINE ts    == b.times
             after == SubSeq(ts, Expired(ts, t) + 1, Len(ts))
             day   == DayOf(t)
             count == Cardinality({i \in DOMAIN c : DayOf(c[i]) = day})
             y     == Checked(b, t)
  <1>1. c \in Seq(Nat) /\ ts \in Seq(Nat) /\ b = [times |-> ts, count |-> b.count, day |-> b.day]
    BY DEF InOrder, Records
  <1>2. PICK k \in 0..Len(c) : Rest(ts, c, k) /\ Left(c, k, t)
    BY DEF Remembers
  <1>3. /\ after \in Seq(Nat)
        /\ \E m \in 0..Len(c) : /\ Rest(after, c, m) /\ Left(c, m, t)
                                /\ \A i \in m + 1..Len(c) : t - c[i] <= Window
    <2> HIDE DEF ts
    <2> QED
      BY <1>1, <1>2, DropLeavesRest
  <1>4. Expire(b, t) = [times |-> after, count |-> b.count, day |-> b.day]
    <2>1. Expire(b, t) = [b EXCEPT !.times = after]
      BY DEF Expire
    <2> HIDE DEF after, ts
    <2>2. [[times |-> ts, count |-> b.count, day |-> b.day] EXCEPT !.times = after]
            = [times |-> after, count |-> b.count, day |-> b.day]
      OBVIOUS
    <2> QED
      BY <1>1, <2>1, <2>2
  <1> HIDE DEF after, ts
  <1>5. Len(after) = Cardinality({i \in DOMAIN c : t - c[i] <= Window})
    BY <1>1, <1>3, RestIsWindow
  <1>6. day \in Nat /\ \A i \in DOMAIN c : DayOf(c[i]) \in Nat /\ DayOf(c[i]) <= day
    <2>1. \A i \in DOMAIN c : c[i] \in Nat /\ c[i] <= t
      BY DEF InOrder
    <2>2. day \in Nat
      BY DaysFollow
    <2> QED
      BY <2>1, <2>2, DaysFollow
  <1>7. /\ b.day \in 0..day /\ b.count = Cardinality({i \in DOMAIN c : DayOf(c[i]) = b.day})
        /\ \A i \in DOMAIN c : DayOf(c[i]) <= b.day
    BY DEF Remembers
  <1> HIDE DEF day
  <1>8. y = [times |-> after, count |-> count, day |-> day]
    <2>1. CASE b.day = day
      BY <1>4, <1>7, <2>1 DEF Checked, RollDay, day
    <2>2. CASE b.day # day
      <3>1. \A i \in DOMAIN c : DayOf(c[i]) # day
        BY <1>6, <1>7, <2>2
      <3>2. {i \in DOMAIN c : DayOf(c[i]) = day} = {}
        BY <3>1
      <3>3. count = 0
        BY <3>2, FS_EmptySet
      <3>4. y = [times |-> after, count |-> 0, day |-> day]
        <4> DEFINE e == Expire(b, t)
        <4>1. e.day # DayOf(t)
          BY <1>4, <2>2 DEF day
        <4>2. y = [e EXCEPT !.count = 0, !.day = day]
          BY <4>1 DEF Checked, RollDay, day
        <4>3. e = [times |-> after, count |-> b.count, day |-> b.day]
          BY <1>4
        <4> HIDE DEF e, y
        <4> QED
          BY <4>2, <4>3
      <3> QED
        BY <3>3, <3>4
    <2> QED
      BY <2>1, <2>2
  <1>9. count \in Nat
    <2>1. count \in 0..Len(c)
      BY <1>1, DayCounts
    <2> HIDE DEF count
    <2> QED
      BY <1>1, <2>1
  <1> HIDE DEF y, count
  <1>10. y \in Records
    BY <1>3, <1>6, <1>8, <1>9 DEF Records
  <1>11. Remembers(y, c, t)
    <2>1. day \in 0..DayOf(t)
      BY <1>6 DEF day
    <2> QED
      BY <1>3, <1>6, <1>8, <2>1 DEF Remembers, count
  <1> QED
    BY <1>5, <1>8, <1>10, <1>11 DEF y, count, day

\* An order that is counted is remembered.
LEMMA OrderRemembered ==
  ASSUME NEW t \in Nat, NEW c, InOrder(c, t), NEW b \in Records, Remembers(b, c, t), b.day = DayOf(t)
  PROVE  /\ InOrder(Append(c, t), t)
         /\ RegisterOrder(b, t) \in Records
         /\ Remembers(RegisterOrder(b, t), Append(c, t), t)
  <1> DEFINE n  == Len(c)
             c2 == Append(c, t)
             ts == b.times
             l  == Len(ts)
             t2 == Append(ts, t)
             S  == {i \in DOMAIN c : DayOf(c[i]) = DayOf(t)}
             S2 == {i \in DOMAIN c2 : DayOf(c2[i]) = DayOf(t)}
  <1>1. /\ c \in Seq(Nat) /\ ts \in Seq(Nat) /\ n \in Nat /\ l \in Nat /\ DOMAIN c = 1..n
        /\ b = [times |-> ts, count |-> b.count, day |-> b.day] /\ b.count \in Nat /\ b.day \in Nat
        /\ \A i \in 1..n : c[i] \in Nat /\ c[i] <= t
        /\ \A i, j \in 1..n : i <= j => c[i] <= c[j]
    BY DEF InOrder, Records
  <1>2. /\ c2 \in Seq(Nat) /\ Len(c2) = n + 1 /\ DOMAIN c2 = 1..n + 1
        /\ (\A i \in 1..n : c2[i] = c[i]) /\ c2[n + 1] = t
        /\ t2 \in Seq(Nat) /\ Len(t2) = l + 1
        /\ (\A i \in 1..l : t2[i] = ts[i]) /\ t2[l + 1] = t
    BY <1>1, AppendProperties
  <1> HIDE DEF n, l, ts, c2, t2
  <1>3. InOrder(c2, t)
    <2>1. \A i \in 1..n + 1 : i \in 1..n \/ i = n + 1
      BY <1>1
    <2>2. ASSUME NEW i \in 1..n + 1 PROVE c2[i] <= t /\ c2[i] \in Nat
      <3>1. CASE i \in 1..n
        BY <1>1, <1>2, <3>1
      <3>2. CASE i = n + 1
        BY <1>2, <3>2
      <3> QED
        BY <2>1, <3>1, <3>2
    <2>3. ASSUME NEW i \in 1..n + 1, NEW j \in 1..n + 1, i <= j PROVE c2[i] <= c2[j]
      <3>1. CASE j = n + 1
        BY <1>2, <2>2, <3>1
      <3>2. CASE j \in 1..n
        <4>1. i \in 1..n
          BY <1>1, <2>3, <3>2
        <4> QED
          BY <1>1, <1>2, <2>3, <3>2, <4>1
      <3> QED
        BY <2>1, <3>1, <3>2
    <2> QED
      BY <1>2, <2>2, <2>3 DEF InOrder
  <1>4. RegisterOrder(b, t) = [times |-> t2, count |-> b.count + 1, day |-> DayOf(t)]
    <2>1. RegisterOrder(b, t) = [b EXCEPT !.times = t2, !.count = b.count + 1]
      BY DEF RegisterOrder, RollDay, t2, ts
    <2> DEFINE x == b.count
               d == b.day
    <2>2. b = [times |-> ts, count |-> x, day |-> d] /\ d = DayOf(t)
      BY <1>1
    <2> HIDE DEF x, d
    <2>3. [b EXCEPT !.times = t2] = [times |-> t2, count |-> x, day |-> d]
      BY <2>2
    <2>4. [[times |-> t2, count |-> x, day |-> d] EXCEPT !.count = x + 1]
            = [times |-> t2, count |-> x + 1, day |-> d]
      OBVIOUS
    <2>5. [b EXCEPT !.times = t2, !.count = x + 1] = [[b EXCEPT !.times = t2] EXCEPT !.count = x + 1]
      BY Zenon
    <2>6. [b EXCEPT !.times = t2, !.count = x + 1] = [times |-> t2, count |-> x + 1, day |-> d]
      BY <2>3, <2>4, <2>5, Zenon
    <2> QED
      BY <2>1, <2>2, <2>6, Zenon DEF x
  <1>5. \E k \in 0..Len(c2) : Rest(t2, c2, k) /\ Left(c2, k, t)
    <2>1. PICK k \in 0..n : Rest(ts, c, k) /\ Left(c, k, t)
      BY DEF Remembers, n, ts
    <2>2. l = n - k /\ (\A i \in 1..l : ts[i] = c[k + i]) /\ (\A i \in 1..k : t - c[i] > Window)
      BY <2>1 DEF Rest, Left, n, l
    <2>3. ASSUME NEW i \in 1..l + 1 PROVE t2[i] = c2[k + i]
      <3>1. CASE i = l + 1
        <4>1. k + i = n + 1
          BY <1>1, <2>2, <3>1
        <4> QED
          BY <1>2, <3>1, <4>1
      <3>2. CASE i \in 1..l
        <4>1. k + i \in 1..n
          BY <1>1, <2>2, <3>2
        <4> QED
          BY <1>2, <2>2, <3>2, <4>1
      <3> QED
        BY <1>1, <3>1, <3>2
    <2>4. Rest(t2, c2, k)
      <3>1. l + 1 = (n + 1) - k
        BY <1>1, <2>2
      <3> QED
        BY <1>2, <2>3, <3>1 DEF Rest
    <2>5. Left(c2, k, t)
      <3>1. \A i \in 1..k : i \in 1..n
        BY <1>1
      <3> QED
        BY <1>2, <2>2, <3>1 DEF Left
    <2>6. k \in 0..n + 1
      BY <1>1
    <2> QED
      BY <1>2, <2>4, <2>5, <2>6
  <1>6. b.count + 1 = Cardinality(S2)
    <2>1. IsFiniteSet(S)
      BY <1>1, DayCounts
    <2>2. b.count = Cardinality(S)
      BY DEF Remembers
    <2>3. S2 = S \cup {n + 1}
      <3>1. \A i \in 1..n : c2[i] = c[i]
        BY <1>2
      <3>2. 1..n + 1 = (1..n) \cup {n + 1}
        BY <1>1
      <3> QED
        BY <1>1, <1>2, <3>1, <3>2
    <2>4. n + 1 \notin S
      BY <1>1
    <2> HIDE DEF S, S2
    <2> QED
      BY <2>1, <2>2, <2>3, <2>4, FS_AddElement
  <1>7. \A i \in DOMAIN c2 : DayOf(c2[i]) <= DayOf(t)
    <2>1. \A i \in DOMAIN c2 : c2[i] \in Nat /\ c2[i] <= t
      BY <1>2, <1>3 DEF InOrder
    <2> QED
      BY <2>1, DaysFollow
  <1>8. DayOf(t) \in Nat /\ DayOf(t) \in 0..DayOf(t)
    <2>1. DayOf(t) \in Nat
      BY DaysFollow
    <2> QED
      BY <2>1
  <1>9. RegisterOrder(b, t) \in Records
    BY <1>1, <1>2, <1>4, <1>8 DEF Records
  <1>10. Remembers(RegisterOrder(b, t), c2, t)
    <2> DEFINE y == RegisterOrder(b, t)
    <2>1. y.times = t2 /\ y.count = b.count + 1 /\ y.day = DayOf(t)
      BY <1>4
    <2> HIDE DEF y
    <2>2. y.count = Cardinality({i \in DOMAIN c2 : DayOf(c2[i]) = y.day})
      BY <1>6, <2>1
    <2> QED
      BY <1>5, <1>7, <1>8, <2>1, <2>2 DEF Remembers, y
  <1> QED
    BY <1>3, <1>9, <1>10 DEF c2

\* What was remembered stays so as time passes.
LEMMA TimePasses ==
  ASSUME NEW t \in Nat, NEW c, InOrder(c, t), NEW b \in Records, Remembers(b, c, t)
  PROVE  InOrder(c, t + 1) /\ Remembers(b, c, t + 1)
  <1>1. InOrder(c, t + 1)
    BY DEF InOrder
  <1>2. Window \in Nat /\ c \in Seq(Nat)
    BY BreakersAssumption DEF CircuitBreakerLimits, InOrder
  <1>3. \A k \in 0..Len(c) : Left(c, k, t) => Left(c, k, t + 1)
    BY <1>2 DEF Left
  <1>4. DayOf(t) \in Nat /\ DayOf(t + 1) \in Nat /\ DayOf(t) <= DayOf(t + 1)
    <2>1. t + 1 \in Nat /\ t <= t + 1
      OBVIOUS
    <2> QED
      BY <2>1, DaysFollow
  <1>5. b.day \in 0..DayOf(t + 1)
    BY <1>4 DEF Remembers
  <1>6. \E k \in 0..Len(c) : Rest(b.times, c, k) /\ Left(c, k, t + 1)
    BY <1>3 DEF Remembers
  <1> QED
    BY <1>1, <1>5, <1>6 DEF Remembers

\* A process that starts remembers nothing, of nothing.
LEMMA NothingRemembered ==
  ASSUME NEW t \in Nat
  PROVE  InOrder(<<>>, t) /\ NoOrders \in Records /\ Remembers(NoOrders, <<>>, t)
  <1>1. InOrder(<<>>, t) /\ NoOrders \in Records
    BY DEF InOrder, NoOrders, Records
  <1>2. Rest(<<>>, <<>>, 0) /\ Left(<<>>, 0, t) /\ 0 \in 0..Len(<<>>)
    BY DEF Rest, Left
  <1>3. DayOf(t) \in Nat /\ 0 \in 0..DayOf(t)
    <2>1. DayOf(t) \in Nat
      BY DaysFollow
    <2> QED
      BY <2>1
  <1>4. DOMAIN <<>> = {} /\ Cardinality({}) = 0
    BY FS_EmptySet
  <1>5. {i \in DOMAIN <<>> : DayOf(<<>>[i]) = 0} = {}
    BY <1>4
  <1> QED
    BY <1>1, <1>2, <1>3, <1>4, <1>5 DEF Remembers, NoOrders

(***************************************************************************)
(* The inductive invariant                                                 *)
(***************************************************************************)
\* A resolver without assets found no saved file.
EmptyForWantOfFile == catalog = "empty" => cache = "none"

Typed0 ==
  /\ stage \in {"idle", "voice", "think", "act"}
  /\ text \in Messages \cup {<<>>}
  /\ steps \in 0..MaxSteps
  /\ command \in Commands
  /\ cache \in {"none", "old", "fresh"}
  /\ catalog \in {"unread", "empty", "read"}
  /\ shown \subseteq Symbols \cup {"flatten"}
  /\ held \subseteq Symbols
  /\ halted \in BOOLEAN
  /\ now \in 0..MaxTime

Counts ==
  /\ InOrder(counted, now)
  /\ Len(counted) <= MaxOrders
  /\ breakers \in Records
  /\ Remembers(breakers, counted, now)

PInv == Typed0 /\ EmptyForWantOfFile /\ Counts

\* The invariant gives the types.
LEMMA PInvTyped == PInv => TypeOK
  <1> SUFFICES ASSUME PInv PROVE TypeOK
    OBVIOUS
  <1> DEFINE n == Len(counted)
             T == 0..MaxTime
             ts == breakers.times
  <1>1. /\ MaxTime \in Nat /\ MaxOrders \in Nat /\ now \in Nat /\ now <= MaxTime
        /\ counted \in Seq(Nat) /\ n \in Nat /\ n <= MaxOrders /\ DOMAIN counted = 1..n
        /\ \A i \in 1..n : counted[i] \in Nat /\ counted[i] <= now
        /\ breakers \in Records /\ Remembers(breakers, counted, now)
    BY PhoneAssumption DEF PInv, Typed0, Counts, InOrder
  <1>2. counted \in Seq(T)
    <2>1. \A i \in 1..n : counted[i] \in T
      BY <1>1
    <2> HIDE DEF T
    <2>2. counted \in [1..n -> T]
      BY <1>1, <2>1
    <2> QED
      BY <1>1, <2>2, SeqDef
  <1>3. ts \in Seq(T)
    <2>1. PICK k \in 0..n : Rest(ts, counted, k)
      BY <1>1 DEF Remembers
    <2>2. ts \in Seq(Nat) /\ Len(ts) \in Nat
      BY <1>1 DEF Records
    <2>3. \A i \in 1..Len(ts) : k + i \in 1..n /\ ts[i] = counted[k + i]
      <3>1. Len(ts) = n - k /\ \A i \in 1..Len(ts) : ts[i] = counted[k + i]
        BY <2>1 DEF Rest
      <3>2. k \in 0..n /\ n \in Nat
        BY <1>1, <2>1
      <3> HIDE DEF n, ts
      <3> QED
        BY <2>2, <3>1, <3>2
    <2>4. \A i \in 1..Len(ts) : ts[i] \in T
      BY <1>1, <2>3
    <2> HIDE DEF T, ts
    <2>5. ts \in [1..Len(ts) -> T]
      BY <2>2, <2>4
    <2> QED
      BY <2>2, <2>5, SeqDef
  <1>4. breakers.count \in 0..MaxOrders
    <2>1. breakers.count \in 0..n
      BY <1>1, DayCounts DEF Remembers
    <2> QED
      BY <1>1, <2>1
  <1>5. breakers.day \in 0..DayOf(MaxTime)
    <2>1. DayOf(now) \in Nat /\ DayOf(MaxTime) \in Nat /\ DayOf(now) <= DayOf(MaxTime)
      BY <1>1, DaysFollow
    <2>2. breakers.day \in 0..DayOf(now)
      BY <1>1 DEF Remembers
    <2> HIDE DEF T
    <2> QED
      BY <2>1, <2>2
  <1>6. breakers = [times |-> ts, count |-> breakers.count, day |-> breakers.day]
    BY <1>1 DEF Records
  <1>7. breakers \in [times : Seq(T), count : 0..MaxOrders, day : 0..DayOf(MaxTime)]
    <2> DEFINE x == breakers.count
               d == breakers.day
    <2> HIDE DEF ts, T, x, d
    <2>1. breakers = [times |-> ts, count |-> x, day |-> d]
      BY <1>6 DEF x, d
    <2>2. x \in 0..MaxOrders /\ d \in 0..DayOf(MaxTime)
      BY <1>4, <1>5 DEF x, d
    <2> QED
      BY <1>3, <2>1, <2>2
  <1> QED
    BY <1>2, <1>7 DEF TypeOK, PInv, Typed0

\* What the next look counts is what there is.
LEMMA PInvExact == PInv => RatesExact
  <1> SUFFICES ASSUME PInv PROVE RatesExact
    OBVIOUS
  <1>1. now \in Nat /\ InOrder(counted, now) /\ breakers \in Records /\ Remembers(breakers, counted, now)
    BY PhoneAssumption DEF PInv, Typed0, Counts
  <1>2. /\ Len(Checked(breakers, now).times) = Cardinality(Recent)
        /\ Checked(breakers, now).count = Cardinality(Today)
    BY <1>1, LookRemembers DEF Recent, Today
  <1> QED
    BY <1>2 DEF RatesExact, WithinRates

\* The listener starts in it.
LEMMA PInvInit == Init => PInv
  <1> SUFFICES ASSUME Init PROVE PInv
    OBVIOUS
  <1>1. Typed0
    <2>1. Unasked \in Commands
      BY DEF Unasked, Commands
    <2>2. 0 \in 0..MaxSteps /\ 0 \in 0..MaxTime
      BY PhoneAssumption
    <2> QED
      BY <2>1, <2>2 DEF Init, Typed0
  <1>2. EmptyForWantOfFile
    BY DEF Init, EmptyForWantOfFile
  <1>3. Counts
    <2>1. 0 \in Nat /\ Len(<<>>) = 0 /\ MaxOrders \in Nat
      BY PhoneAssumption
    <2> QED
      BY <2>1, NothingRemembered DEF Init, Counts
  <1> QED
    BY <1>1, <1>2, <1>3 DEF PInv

\* What can be bought is a symbol, and listed if there is a list.
LEMMA ResolutionsTyped ==
  ASSUME NEW q \in Symbols \cup {NoSym}, NEW c \in {Listed, {}}, NEW x \in Resolutions(q, c)
  PROVE  /\ x \in Symbols \cup {NoSym}
         /\ c = Listed => x \in Listed \cup {NoSym}
  BY PhoneAssumption, TickersAreSymbols DEF Resolutions

\* One look at the assets, by who asks for a buy.
LEMMA LoadKeeps ==
  ASSUME Typed0, EmptyForWantOfFile, Load
  PROVE  /\ cache' \in {"none", "old", "fresh"}
         /\ catalog' \in {"empty", "read"}
         /\ EmptyForWantOfFile'
         /\ catalog' # "read" => cache' = "none"
  BY DEF Typed0, EmptyForWantOfFile, Load, names

\* Every step keeps what is not about rates.
LEMMA TypedStep ==
  ASSUME PInv, [Next]_vars
  PROVE  Typed0' /\ EmptyForWantOfFile'
  <1> USE DEF Typed0, EmptyForWantOfFile
  <1>0. Typed0 /\ EmptyForWantOfFile /\ {MaxSteps, MaxOrders, MaxTime} \subseteq Nat \ {0}
    BY PhoneAssumption DEF PInv
  <1>i. Unasked \in Commands
    BY DEF Unasked, Commands
  <1>1. CASE Typed
    BY <1>0, <1>1, PhoneAssumption DEF Typed, Becomes, names, trade
  <1>2. CASE Said
    BY <1>0, <1>i, <1>2 DEF Said, Becomes, names, trade
  <1>3. CASE Transcribe
    BY <1>0, <1>i, <1>3 DEF Transcribe, Idle, Becomes, names, trade
  <1>4. CASE Think
    <2>1. UNCHANGED <<names, shown, trade, now>>
      BY <1>4 DEF Think
    <2>2. CASE ToolTurn
      BY <1>0, <1>i, <2>1, <2>2 DEF ToolTurn, Becomes, names, trade
    <2>3. CASE FallBack
      BY <1>0, <2>1, <2>3, ParsedTyped DEF FallBack, Becomes, names, trade
    <2>4. CASE Understood
      BY <1>0, <2>1, <2>4, PhoneAssumption DEF Understood, Becomes, names, trade
    <2> QED
      BY <1>4, <2>2, <2>3, <2>4 DEF Think
  <1>5. CASE Answer
    BY <1>0, <1>i, <1>5 DEF Answer, Idle, Becomes, names, trade
  <1>6. CASE AskFlatten
    BY <1>0, <1>i, <1>6 DEF AskFlatten, Idle, Becomes, names, trade
  <1>7. CASE BuyConfirm
    <2>1. /\ stage' = "idle" /\ text' = <<>> /\ steps' = 0 /\ command' = Unasked
          /\ UNCHANGED <<trade, now>>
      BY <1>7 DEF BuyConfirm, Idle, Becomes
    <2>2. CASE ~Complete(command)
      BY <1>0, <1>i, <1>7, <2>1, <2>2 DEF BuyConfirm, names, trade
    <2>3. CASE Complete(command)
      <3>1. Load /\ \E s \in Resolutions(command.sym, Assets) : shown' = shown \cup ({s} \ {NoSym})
        BY <1>7, <2>3 DEF BuyConfirm
      <3>2. command.sym \in Symbols \cup {NoSym}
        BY <1>0, <1>7 DEF BuyConfirm, Commands
      <3>3. Assets \in {Listed, {}}
        BY DEF Assets
      <3>4. shown' \subseteq Symbols \cup {"flatten"}
        BY <1>0, <3>1, <3>2, <3>3, ResolutionsTyped
      <3> QED
        BY <1>0, <1>i, <2>1, <3>1, <3>4, LoadKeeps DEF trade
    <2> QED
      BY <2>2, <2>3
  <1>8. CASE Close
    BY <1>0, <1>i, <1>8 DEF Close, Idle, Becomes, names
  <1>9. CASE Control
    <2>1. halted' \in BOOLEAN
      BY <1>0, <1>9, Zenon DEF Control
    <2>2. /\ stage' = "idle" /\ text' = <<>> /\ steps' = 0 /\ command' = Unasked
          /\ UNCHANGED <<cache, catalog, shown, held, now>>
      BY <1>9 DEF Control, Idle, Becomes, names
    <2> QED
      BY <1>0, <1>i, <2>1, <2>2
  <1>10. CASE FlattenAll
    BY <1>0, <1>10 DEF FlattenAll, talk, names
  <1>11. CASE PlaceManual
    <2>1. UNCHANGED <<talk, names, shown, now>>
      BY <1>11 DEF PlaceManual
    <2>2. held' \subseteq Symbols /\ halted' = halted
      BY <1>0, <1>11 DEF PlaceManual, NotPlaced, Placed
    <2> QED
      BY <1>0, <2>1, <2>2 DEF talk, names
  <1>12. CASE Tick
    BY <1>0, <1>12 DEF Tick, talk, trade
  <1>13. CASE StoppedOut
    BY <1>0, <1>13 DEF StoppedOut, talk, names
  <1>14. CASE Restart
    BY <1>0, <1>i, <1>14 DEF Restart, Idle, Becomes
  <1>15. CASE UNCHANGED vars
    BY <1>0, <1>15 DEF vars, talk, names, trade
  <1> QED
    BY <1>1, <1>2, <1>3, <1>4, <1>5, <1>6, <1>7, <1>8, <1>9, <1>10, <1>11, <1>12, <1>13, <1>14, <1>15
    DEF Next, Handles

\* Every step keeps what the breakers remember.
LEMMA CountsStep ==
  ASSUME PInv, [Next]_vars
  PROVE  Counts'
  <1>0. /\ now \in Nat /\ InOrder(counted, now) /\ Len(counted) <= MaxOrders /\ MaxOrders \in Nat
        /\ breakers \in Records /\ Remembers(breakers, counted, now)
    BY PhoneAssumption DEF PInv, Typed0, Counts
  <1>1. CASE UNCHANGED <<breakers, counted, now>>
    BY <1>0, <1>1 DEF Counts
  <1>2. CASE PlaceManual
    <2>1. now' = now
      BY <1>2 DEF PlaceManual
    <2>2. /\ Checked(breakers, now) \in Records /\ Remembers(Checked(breakers, now), counted, now)
          /\ Checked(breakers, now).day = DayOf(now)
      BY <1>0, LookRemembers
    <2>3. CASE \E s \in shown : NotPlaced(s)
      <3>1. breakers' = Checked(breakers, now) /\ counted' = counted
        BY <2>3 DEF NotPlaced
      <3> QED
        BY <1>0, <2>1, <2>2, <3>1 DEF Counts
    <2>4. CASE \E s \in shown : Placed(s)
      <3>1. /\ breakers' = RegisterOrder(Checked(breakers, now), now) /\ counted' = Append(counted, now)
            /\ Len(counted) < MaxOrders
        BY <2>4 DEF Placed
      <3>2. /\ InOrder(Append(counted, now), now)
            /\ RegisterOrder(Checked(breakers, now), now) \in Records
            /\ Remembers(RegisterOrder(Checked(breakers, now), now), Append(counted, now), now)
        BY <1>0, <2>2, OrderRemembered
      <3>3. Len(Append(counted, now)) <= MaxOrders
        <4>1. counted \in Seq(Nat)
          BY <1>0 DEF InOrder
        <4>2. Len(counted) \in Nat /\ Len(Append(counted, now)) = Len(counted) + 1
          BY <1>0, <4>1
        <4> QED
          BY <1>0, <3>1, <4>2
      <3> QED
        BY <2>1, <3>1, <3>2, <3>3 DEF Counts
    <2> QED
      BY <1>2, <2>3, <2>4 DEF PlaceManual
  <1>3. CASE Tick
    <2>1. now' = now + 1 /\ UNCHANGED <<breakers, counted>>
      BY <1>3 DEF Tick, trade
    <2>2. InOrder(counted, now + 1) /\ Remembers(breakers, counted, now + 1)
      BY <1>0, TimePasses
    <2> QED
      BY <1>0, <2>1, <2>2 DEF Counts
  <1>4. CASE Restart
    <2>1. now' = now /\ breakers' = NoOrders /\ counted' = <<>>
      BY <1>4 DEF Restart
    <2>2. InOrder(<<>>, now) /\ NoOrders \in Records /\ Remembers(NoOrders, <<>>, now)
      BY <1>0, NothingRemembered
    <2>3. Len(<<>>) = 0
      OBVIOUS
    <2> QED
      BY <1>0, <2>1, <2>2, <2>3 DEF Counts
  <1>5. CASE Typed \/ Said \/ Handles
    <2>1. UNCHANGED <<breakers, counted, now>>
      BY <1>5 DEF Typed, Said, Handles, Transcribe, Think, Answer, AskFlatten, BuyConfirm, Close, Control, trade
    <2> QED
      BY <1>1, <2>1
  <1>6. CASE FlattenAll \/ StoppedOut
    <2>1. UNCHANGED <<breakers, counted, now>>
      BY <1>6 DEF FlattenAll, StoppedOut
    <2> QED
      BY <1>1, <2>1
  <1>7. CASE UNCHANGED vars
    <2>1. UNCHANGED <<breakers, counted, now>>
      BY <1>7 DEF vars, trade
    <2> QED
      BY <1>1, <2>1
  <1> QED
    BY <1>2, <1>3, <1>4, <1>5, <1>6, <1>7 DEF Next

\* The listener stays in the invariant.
LEMMA PInvAlways == Spec => []PInv
  <1>1. PInv /\ [Next]_vars => PInv'
    <2> SUFFICES ASSUME PInv, [Next]_vars PROVE PInv'
      OBVIOUS
    <2> QED
      BY TypedStep, CountsStep DEF PInv
  <1> QED
    BY PInvInit, <1>1, PTL DEF Spec

(***************************************************************************)
(* The theorems                                                            *)
(***************************************************************************)
\* The rate limits of the listener (CircuitBreakers) refuse an order exactly
\* when the window or the day is full, counted from scratch.
THEOREM RatesCountExactly == Spec => []Inv
  <1>1. PInv => Inv
    BY PInvTyped, PInvExact DEF Inv
  <1> QED
    BY PInvAlways, <1>1, PTL

\* Once an asset list was ever saved, only listed symbols are offered to buy
\* (SymbolResolver, _buy_confirm), whatever a message is taken for.
THEOREM OnlyListedBuys == Spec => BuysAreListed
  <1>1. ASSUME PInv, [Next]_vars, NEW s \in shown' \ shown
        PROVE  s \in Listed \cup {"flatten"} \/ cache' = "none"
    <2>0. Typed0 /\ EmptyForWantOfFile
      BY <1>1 DEF PInv
    <2>1. CASE AskFlatten
      BY <1>1, <2>1 DEF AskFlatten
    <2>2. CASE BuyConfirm
      <3>1. CASE ~Complete(command)
        BY <1>1, <2>2, <3>1 DEF BuyConfirm
      <3>2. CASE Complete(command)
        <4>1. Load /\ \E x \in Resolutions(command.sym, Assets) : shown' = shown \cup ({x} \ {NoSym})
          BY <2>2, <3>2 DEF BuyConfirm
        <4>2. command.sym \in Symbols \cup {NoSym}
          BY <2>0, <2>2 DEF Typed0, BuyConfirm, Commands
        <4>3. s \in Resolutions(command.sym, Assets) /\ s # NoSym
          BY <1>1, <4>1
        <4>4. CASE catalog' = "read"
          BY <4>2, <4>3, <4>4, ResolutionsTyped DEF Assets
        <4>5. CASE catalog' # "read"
          BY <2>0, <4>1, <4>5, LoadKeeps
        <4> QED
          BY <4>4, <4>5
      <3> QED
        BY <3>1, <3>2
    <2>3. CASE ~AskFlatten /\ ~BuyConfirm
      <3>1. shown' = shown
        BY <1>1, <2>3
        DEF Next, Handles, Typed, Said, Transcribe, Think, Answer, Close, Control, FlattenAll,
            PlaceManual, Tick, StoppedOut, Restart, vars
      <3> QED
        BY <1>1, <3>1
    <2> QED
      BY <2>1, <2>2, <2>3
  <1>2. PInv /\ [Next]_vars =>
          [\A s \in shown' \ shown : s \in Listed \cup {"flatten"} \/ cache' = "none"]_vars
    BY <1>1
  <1> QED
    BY PInvAlways, <1>2, PTL DEF Spec, BuysAreListed
=============================================================================
