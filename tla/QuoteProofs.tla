----------------------------- MODULE QuoteProofs -----------------------------
(***************************************************************************)
(* Theorems about NginxQuote, for strings of any length: whether a         *)
(* character is escaped is decided by the character before it and by       *)
(* whether that one is escaped (EscapedAfter), and so stays the same when  *)
(* quotes are put around a string or taken from it (EscapedShifted).       *)
(***************************************************************************)
EXTENDS NginxQuote, FiniteSetTheorems, SequenceTheorems, WellFoundedInduction, TLAPS

\* A set of natural numbers that has one has a least one.
LEMMA LeastNumber ==
  ASSUME NEW S, S \subseteq Nat, S # {}
  PROVE  \E n \in S : \A m \in S : n <= m
<1> DEFINE R == OpToRel(<, Nat)
<1>1. \A m, n \in Nat : m < n => <<m, n>> \in R
  BY DEF OpToRel
<1>2. IsWellFoundedOn(R, Nat)
  BY NatLessThanWellFounded
<1> HIDE DEF R
<1>3. PICK n \in S : \A m \in S : ~(<<m, n>> \in R)
  BY <1>2, WFMin
<1>4. ASSUME NEW m \in S
      PROVE  n <= m
  <2>1. m \in Nat /\ n \in Nat
    OBVIOUS
  <2>2. ~(m < n)
    BY <1>1, <1>3, <2>1
  <2> QED
    BY <2>1, <2>2
<1> QED
  BY <1>4

\* A set of positions has a first and a last one.
LEMMA LastNumber ==
  ASSUME NEW b \in Nat, NEW S, S \subseteq 1..b, S # {}
  PROVE  \E n \in S : \A m \in S : n >= m
<1> DEFINE T == {b - n : n \in S}
<1>1. T \subseteq Nat /\ T # {}
  <2>1. \A n \in 1..b : b - n \in Nat
    OBVIOUS
  <2> QED
    BY <2>1
<1> HIDE DEF T
<1>2. PICK t \in T : \A u \in T : t <= u
  BY <1>1, LeastNumber
<1>3. PICK n \in S : t = b - n
  BY DEF T
<1>4. ASSUME NEW m \in S
      PROVE  n >= m
  <2>1. t <= b - m
    BY <1>2 DEF T
  <2> QED
    BY <1>3, <2>1
<1> QED
  BY <1>4

-------------------------------------------------------------------------------
(* Characters that are escaped.                                            *)

\* The backslashes in front of position n.
Run(v, n) == {k \in 1..(n - 1) : \A m \in k..(n - 1) : v[m] = Backslash}

\* The first character is not escaped.
LEMMA FirstNotEscaped ==
  ASSUME NEW v
  PROVE  ~IsEscapedAt(v, 1)
<1>1. {k \in 1..(1 - 1) : \A m \in k..(1 - 1) : v[m] = Backslash} = {}
  OBVIOUS
<1>2. Cardinality({}) = 0
  BY FS_EmptySet
<1>3. 0 % 2 # 1
  OBVIOUS
<1> QED
  BY <1>1, <1>2, <1>3 DEF IsEscapedAt

\* Any other is if it follows a backslash that is not.
LEMMA EscapedAfter ==
  ASSUME NEW v, NEW n \in Nat \ {0}
  PROVE  IsEscapedAt(v, n + 1) <=> v[n] = Backslash /\ ~IsEscapedAt(v, n)
<1>1. IsEscapedAt(v, n + 1) <=> Cardinality(Run(v, n + 1)) % 2 = 1
  BY DEF IsEscapedAt, Run
<1>2. IsEscapedAt(v, n) <=> Cardinality(Run(v, n)) % 2 = 1
  BY DEF IsEscapedAt, Run
<1>3. CASE v[n] = Backslash
  <2>1. Run(v, n + 1) = Run(v, n) \cup {n}
    <3>1. ASSUME NEW k \in Run(v, n + 1), k # n
          PROVE  k \in Run(v, n)
      BY <3>1 DEF Run
    <3>2. ASSUME NEW k \in Run(v, n)
          PROVE  k \in Run(v, n + 1)
      <4>1. k \in 1..(n + 1 - 1) /\ \A m \in k..(n + 1 - 1) : m = n \/ m \in k..(n - 1)
        BY DEF Run
      <4> QED
        BY <1>3, <4>1 DEF Run
    <3>3. n \in Run(v, n + 1)
      <4>1. n \in 1..(n + 1 - 1) /\ \A m \in n..(n + 1 - 1) : m = n
        OBVIOUS
      <4> QED
        BY <1>3, <4>1 DEF Run
    <3> QED
      BY <3>1, <3>2, <3>3
  <2>2. IsFiniteSet(Run(v, n)) /\ n \notin Run(v, n)
    <3>1. Run(v, n) \subseteq 1..(n - 1) /\ n \notin 1..(n - 1) /\ n - 1 \in Int
      BY DEF Run
    <3>2. IsFiniteSet(1..(n - 1))
      BY <3>1, FS_Interval
    <3> QED
      BY <3>1, <3>2, FS_Subset
  <2>3. /\ Cardinality(Run(v, n + 1)) = Cardinality(Run(v, n)) + 1
        /\ Cardinality(Run(v, n)) \in Nat
    BY <2>1, <2>2, FS_AddElement, FS_CardinalityType
  <2>4. \A c \in Nat : (c + 1) % 2 = 1 <=> c % 2 # 1
    OBVIOUS
  <2> QED
    BY <1>1, <1>2, <1>3, <2>3, <2>4
<1>4. CASE v[n] # Backslash
  <2>1. Run(v, n + 1) = {}
    <3>1. ASSUME NEW k \in Run(v, n + 1)
          PROVE  FALSE
      <4>1. k \in 1..(n + 1 - 1) /\ n \in k..(n + 1 - 1)
        BY DEF Run
      <4> QED
        BY <1>4, <4>1 DEF Run
    <3> QED
      BY <3>1
  <2>2. Cardinality({}) = 0 /\ 0 % 2 # 1
    BY FS_EmptySet
  <2> QED
    BY <1>1, <1>4, <2>1, <2>2
<1> QED
  BY <1>3, <1>4

\* A character that is put in front, and is no backslash, changes nothing.
LEMMA EscapedShifted ==
  ASSUME NEW v, NEW w, NEW n \in Nat \ {0}, w[1] # Backslash,
         \A k \in 1..(n - 1) : w[k + 1] = v[k]
  PROVE  IsEscapedAt(w, n + 1) <=> IsEscapedAt(v, n)
<1> DEFINE Differ == {k \in 1..n : ~(IsEscapedAt(w, k + 1) <=> IsEscapedAt(v, k))}
<1> SUFFICES ASSUME Differ # {}
             PROVE  FALSE
  BY DEF Differ
<1>1. PICK k \in Differ : \A l \in Differ : k <= l
  <2>1. Differ \subseteq Nat
    OBVIOUS
  <2> HIDE DEF Differ
  <2> QED
    BY <2>1, LeastNumber
<1>2. k \in 1..n /\ k \in Nat \ {0} /\ ~(IsEscapedAt(w, k + 1) <=> IsEscapedAt(v, k))
  OBVIOUS
<1>3. IsEscapedAt(w, k + 1) <=> w[k] = Backslash /\ ~IsEscapedAt(w, k)
  BY <1>2, EscapedAfter
<1>4. CASE k = 1
  BY <1>2, <1>3, <1>4, FirstNotEscaped
<1>5. CASE k # 1
  <2> DEFINE j == k - 1
  <2>1. j \in 1..n /\ j \in 1..(n - 1) /\ j \in Nat \ {0} /\ j + 1 = k /\ ~(k <= j)
    BY <1>2, <1>5
  <2>2. IsEscapedAt(w, k) <=> IsEscapedAt(v, j)
    <3>1. j \notin Differ
      BY <1>1, <2>1
    <3> HIDE DEF j
    <3> QED
      BY <2>1, <3>1
  <2>3. w[k] = v[j]
    BY <2>1
  <2>4. IsEscapedAt(v, k) <=> v[j] = Backslash /\ ~IsEscapedAt(v, j)
    <3> HIDE DEF j
    <3> QED
      BY <2>1, EscapedAfter
  <2> QED
    BY <1>2, <1>3, <2>2, <2>3, <2>4
<1> QED
  BY <1>4, <1>5

-------------------------------------------------------------------------------
(* Strings without blanks at their ends.                                   *)

Trimmed(v) ==
  /\ v \in Seq(Characters) /\ v # <<>>
  /\ v[1] \notin Blanks /\ v[Len(v)] \notin Blanks

\* The positions that are not blank.
Kept(v) == {n \in DOMAIN v : v[n] \notin Blanks}

LEMMA TrimmedLength ==
  ASSUME NEW v, Trimmed(v)
  PROVE  /\ v \in Seq(Characters) /\ Len(v) \in Nat \ {0} /\ DOMAIN v = 1..Len(v)
         /\ 1 \in DOMAIN v /\ Len(v) \in DOMAIN v
         /\ \A n \in DOMAIN v : v[n] \in Characters
<1>1. v \in Seq(Characters) /\ Len(v) \in Nat \ {0}
  BY EmptySeq DEF Trimmed
<1>2. DOMAIN v = 1..Len(v)
  BY <1>1, LenProperties
<1>3. \A n \in DOMAIN v : v[n] \in Characters
  BY <1>1, ElementOfSeq, <1>2
<1> QED
  BY <1>1, <1>2, <1>3

\* Trim leaves nothing, or a string without blanks at its ends.
LEMMA TrimTrims ==
  ASSUME NEW v \in Seq(Characters)
  PROVE  Trim(v) = <<>> \/ Trimmed(Trim(v))
<1>1. CASE Kept(v) = {}
  BY <1>1 DEF Trim, Kept
<1>2. CASE Kept(v) # {}
  <2> DEFINE L == Len(v)
             first == CHOOSE n \in Kept(v) : \A m \in Kept(v) : n <= m
             last == CHOOSE n \in Kept(v) : \A m \in Kept(v) : n >= m
  <2>1. Kept(v) \subseteq 1..L /\ L \in Nat /\ DOMAIN v = 1..L
    BY LenProperties DEF Kept
  <2> HIDE DEF L
  <2>2. \E n \in Kept(v) : \A m \in Kept(v) : n <= m
    <3>1. Kept(v) \subseteq Nat
      BY <2>1
    <3> QED
      BY <1>2, <3>1, LeastNumber
  <2>3. \E n \in Kept(v) : \A m \in Kept(v) : n >= m
    BY <1>2, <2>1, LastNumber
  <2>4. first \in Kept(v) /\ \A m \in Kept(v) : first <= m
    BY <2>2, Zenon
  <2>5. last \in Kept(v)
    BY <2>3, Zenon
  <2>6. Trim(v) = SubSeq(v, first, last)
    BY <1>2, Zenon DEF Trim, Kept
  <2> HIDE DEF first, last
  <2>7. /\ first \in 1..L /\ last \in 1..L /\ first <= last /\ first \in Int /\ last \in Int
        /\ v[first] \notin Blanks /\ v[last] \notin Blanks
        /\ last - first + 1 \in Nat \ {0} /\ last - first + 1 \in 1..(last - first + 1)
        /\ 1 \in 1..(last - first + 1)
        /\ first + 1 - 1 = first /\ first + (last - first + 1) - 1 = last
    BY <2>1, <2>4, <2>5 DEF Kept
  <2> DEFINE t == SubSeq(v, first, last)
  <2>8. /\ t \in Seq(Characters)
        /\ Len(t) = IF first <= last THEN last - first + 1 ELSE 0
        /\ \A i \in 1..(last - first + 1) : t[i] = v[first + i - 1]
    <3>1. \A i \in first..last : v[i] \in Characters
      BY <2>1, <2>7, ElementOfSeq DEF L
    <3> HIDE DEF t
    <3> QED
      BY <2>7, <3>1, SubSeqProperties DEF t
  <2> HIDE DEF t
  <2>9. Len(t) = last - first + 1
    BY <2>7, <2>8
  <2>10. t[1] = v[first] /\ t[Len(t)] = v[last]
    BY <2>7, <2>8, <2>9
  <2>11. t # <<>>
    BY <2>7, <2>8, <2>9, EmptySeq
  <2>12. Trimmed(t)
    BY <2>7, <2>8, <2>10, <2>11 DEF Trimmed
  <2> QED
    BY <2>6, <2>12 DEF t
<1> QED
  BY <1>1, <1>2

\* And leaves such a string alone.
LEMMA TrimStays ==
  ASSUME NEW v, v = <<>> \/ Trimmed(v)
  PROVE  Trim(v) = v
<1>1. CASE v = <<>>
  <2>1. Kept(v) = {}
    BY <1>1 DEF Kept
  <2> QED
    BY <1>1, <2>1 DEF Trim, Kept
<1>2. CASE Trimmed(v)
  <2> DEFINE L == Len(v)
             first == CHOOSE n \in Kept(v) : \A m \in Kept(v) : n <= m
             last == CHOOSE n \in Kept(v) : \A m \in Kept(v) : n >= m
  <2>1. /\ Kept(v) \subseteq 1..L /\ L \in Nat \ {0} /\ 1 \in Kept(v) /\ L \in Kept(v)
        /\ v \in Seq(Characters) /\ Kept(v) # {}
    BY <1>2, TrimmedLength DEF Kept, Trimmed
  <2> HIDE DEF L
  <2>2. \A m \in Kept(v) : m \in Nat /\ 1 <= m /\ L >= m
    BY <2>1
  <2>3. first \in Kept(v) /\ \A m \in Kept(v) : first <= m
    BY <2>1, <2>2, Zenon
  <2>4. last \in Kept(v) /\ \A m \in Kept(v) : last >= m
    BY <2>1, <2>2, Zenon
  <2>5. Trim(v) = SubSeq(v, first, last)
    BY <2>1, Zenon DEF Trim, Kept
  <2> HIDE DEF first, last
  <2>6. first = 1 /\ last = L
    BY <2>1, <2>2, <2>3, <2>4
  <2> QED
    BY <2>1, <2>5, <2>6, SubSeqFull DEF L
<1> QED
  BY <1>1, <1>2

-------------------------------------------------------------------------------
(* Strings in quotes.                                                      *)

\* The characters are not each other.
LEMMA Distinct ==
  /\ Single # Double /\ Quotes = {Single, Double} /\ Single \in Quotes /\ Double \in Quotes
  /\ \A q \in Quotes : /\ q # Backslash /\ q # "#" /\ q \notin Blanks /\ q \notin Special
                        /\ q \in Characters /\ OtherQuote(q) \in Quotes /\ OtherQuote(q) # q
  /\ Backslash \in Characters /\ Backslash \notin Blanks /\ Backslash \notin Breaks
  /\ Backslash \notin Quotes /\ "#" \in Special
<1>1. Quotes \cup {Backslash} \subseteq Characters
  BY QuoteAssumption
<1> QED
  BY <1>1 DEF Single, Double, Backslash, Quotes, Special, Blanks, Breaks, OtherQuote

\* What QuoteWith puts between the quotes.
Padded(v) ==
  IF v[Len(v)] = Backslash /\ ~IsEscapedAt(v, Len(v)) THEN Append(v, Backslash) ELSE v

\* And the quotes around it.
Enclose(x, q) == <<q>> \o x \o <<q>>

LEMMA Enclosed ==
  ASSUME NEW S, NEW x \in Seq(S), NEW q \in S
  PROVE  /\ Enclose(x, q) \in Seq(S) /\ Len(Enclose(x, q)) = Len(x) + 2
         /\ Enclose(x, q)[1] = q /\ Enclose(x, q)[Len(x) + 2] = q
         /\ \A k \in 1..Len(x) : Enclose(x, q)[k + 1] = x[k]
<1> DEFINE one == <<q>>
           y == one \o x
           w == Enclose(x, q)
           L == Len(x)
<1>1. one \in Seq(S) /\ Len(one) = 1 /\ one[1] = q
  OBVIOUS
<1>2. L \in Nat
  OBVIOUS
<1> HIDE DEF one
<1>3. /\ y \in Seq(S) /\ Len(y) = 1 + L
      /\ \A i \in 1..(1 + L) : y[i] = IF i <= 1 THEN one[i] ELSE x[i - 1]
  <2>1. /\ one \o x \in Seq(S) /\ Len(one \o x) = Len(one) + Len(x)
        /\ \A i \in 1..(Len(one) + Len(x)) :
             (one \o x)[i] = IF i <= Len(one) THEN one[i] ELSE x[i - Len(one)]
    BY <1>1, ConcatProperties, Zenon
  <2> QED
    BY <1>1, <2>1, Zenon
<1>4. w = y \o one
  BY DEF one, Enclose
<1> HIDE DEF y, w, L
<1>5. /\ w \in Seq(S) /\ Len(w) = 1 + L + 1
      /\ \A i \in 1..(1 + L + 1) : w[i] = IF i <= 1 + L THEN y[i] ELSE one[i - (1 + L)]
  <2>1. /\ y \o one \in Seq(S) /\ Len(y \o one) = Len(y) + Len(one)
        /\ \A i \in 1..(Len(y) + Len(one)) :
             (y \o one)[i] = IF i <= Len(y) THEN y[i] ELSE one[i - Len(y)]
    BY <1>1, <1>3, ConcatProperties, Zenon
  <2> QED
    BY <1>1, <1>3, <1>4, <2>1, Zenon
<1> USE ONLY <1>1, <1>2, <1>3, <1>5
<1>6. w[1] = q
  BY SMT
<1>7. w[L + 2] = q
  BY SMT
<1>8. \A k \in 1..L : w[k + 1] = x[k]
  BY SMT
<1>9. Len(w) = L + 2
  BY SMT
<1> QED
  BY <1>5, <1>6, <1>7, <1>8, <1>9 DEF w, L

\* What comes after a character does not escape it.
LEMMA EscapedBefore ==
  ASSUME NEW v, NEW w, NEW n \in Nat \ {0}, \A k \in 1..(n - 1) : v[k] = w[k]
  PROVE  IsEscapedAt(v, n) <=> IsEscapedAt(w, n)
<1>1. Run(v, n) = Run(w, n)
  <2>1. \A k \in 1..(n - 1) : \A m \in k..(n - 1) : m \in 1..(n - 1)
    OBVIOUS
  <2> QED
    BY <2>1 DEF Run
<1> QED
  BY <1>1 DEF IsEscapedAt, Run

\* The last character between the quotes does not escape the one behind it.
LEMMA PaddedEnds ==
  ASSUME NEW v, Trimmed(v), NEW x, x = Padded(v)
  PROVE  /\ x \in Seq(Characters) /\ Len(x) \in {Len(v), Len(v) + 1}
         /\ \A k \in 1..Len(v) : x[k] = v[k]
         /\ \A k \in 1..Len(x) : k \in 1..Len(v) \/ x[k] = Backslash
         /\ ~IsEscapedAt(x, Len(x) + 1)
<1> DEFINE L == Len(v)
<1>1. v \in Seq(Characters) /\ L \in Nat \ {0} /\ Backslash \in Characters
  BY TrimmedLength, Distinct
<1> HIDE DEF L
<1>2. CASE v[L] = Backslash /\ ~IsEscapedAt(v, L)
  <2>1. x = Append(v, Backslash)
    BY <1>2 DEF Padded, L
  <2> DEFINE y == Append(v, Backslash)
  <2>2. /\ y \in Seq(Characters) /\ Len(y) = L + 1 /\ y[L + 1] = Backslash
        /\ \A k \in 1..L : y[k] = v[k]
    BY <1>1, AppendProperties DEF L
  <2> HIDE DEF y
  <2>3. IsEscapedAt(y, L) <=> IsEscapedAt(v, L)
    <3>1. \A k \in 1..(L - 1) : y[k] = v[k]
      BY <1>1, <2>2
    <3> QED
      BY <1>1, <3>1, EscapedBefore
  <2>4. IsEscapedAt(y, L + 1)
    <3>1. y[L] = Backslash
      BY <1>1, <1>2, <2>2
    <3> QED
      BY <1>1, <1>2, <2>3, <3>1, EscapedAfter
  <2>5. ~IsEscapedAt(y, Len(y) + 1)
    <3>1. L + 1 \in Nat \ {0}
      BY <1>1
    <3>2. ~IsEscapedAt(y, L + 1 + 1)
      BY <2>4, <3>1, EscapedAfter
    <3> QED
      BY <2>2, <3>2
  <2>6. \A k \in 1..Len(y) : k \in 1..L \/ y[k] = Backslash
    BY <1>1, <2>2
  <2>7. x = y
    BY <2>1 DEF y
  <2> QED
    BY <2>2, <2>5, <2>6, <2>7 DEF L
<1>3. CASE ~(v[L] = Backslash /\ ~IsEscapedAt(v, L))
  <2>1. x = v
    BY <1>3 DEF Padded, L
  <2>2. ~IsEscapedAt(v, L + 1)
    BY <1>1, <1>3, EscapedAfter
  <2> QED
    BY <1>1, <2>1, <2>2 DEF L
<1> QED
  BY <1>2, <1>3

\* A string that is put in quotes is in quotes, with its characters between them.
LEMMA QuoteWithQuotes ==
  ASSUME NEW v, Trimmed(v), NEW q \in Quotes, NEW w, w = QuoteWith(v, q)
  PROVE  /\ Trimmed(w) /\ IsQuotedWith(w, q) /\ w[1] = q /\ w[Len(w)] = q
         /\ Len(w) - 2 \in {Len(v), Len(v) + 1}
         /\ \A k \in 1..Len(v) : w[k + 1] = v[k]
         /\ \A k \in 1..(Len(w) - 2) : k \in 1..Len(v) \/ w[k + 1] = Backslash
<1> DEFINE x == Padded(v)
           M == Len(x)
<1>1. /\ x \in Seq(Characters) /\ M \in {Len(v), Len(v) + 1}
      /\ \A k \in 1..Len(v) : x[k] = v[k]
      /\ \A k \in 1..M : k \in 1..Len(v) \/ x[k] = Backslash
      /\ ~IsEscapedAt(x, M + 1)
  <2> HIDE DEF x
  <2> QED
    BY PaddedEnds DEF x
<1>2. w = Enclose(x, q)
  BY DEF QuoteWith, Padded, Enclose
<1> HIDE DEF x
<1>3. q \in Characters /\ q # Backslash /\ q \notin Blanks /\ Len(v) \in Nat \ {0}
  BY Distinct, TrimmedLength
<1>4. /\ w \in Seq(Characters) /\ Len(w) = M + 2 /\ w[1] = q /\ w[Len(w)] = q
      /\ \A k \in 1..M : w[k + 1] = x[k]
  <2>1. /\ Enclose(x, q) \in Seq(Characters) /\ Len(Enclose(x, q)) = M + 2
        /\ Enclose(x, q)[1] = q /\ Enclose(x, q)[M + 2] = q
        /\ \A k \in 1..M : Enclose(x, q)[k + 1] = x[k]
    BY <1>1, <1>3, Enclosed
  <2> QED
    BY <1>2, <2>1, Zenon
<1>5. M \in Nat \ {0}
  BY <1>1, <1>3
<1> HIDE DEF M
<1>6. ~IsEscapedAt(w, Len(w))
  <2>1. IsEscapedAt(w, M + 1 + 1) <=> IsEscapedAt(x, M + 1)
    <3> DEFINE n == M + 1
    <3>1. n \in Nat \ {0} /\ w[1] # Backslash /\ \A k \in 1..(n - 1) : w[k + 1] = x[k]
      BY <1>3, <1>4, <1>5
    <3> HIDE DEF n
    <3>2. IsEscapedAt(w, n + 1) <=> IsEscapedAt(x, n)
      BY <3>1, EscapedShifted
    <3> QED
      BY <3>2 DEF n
  <2>2. M + 1 + 1 = Len(w)
    BY <1>4, <1>5
  <2> QED
    BY <1>1, <2>1, <2>2
<1>7. IsQuotedWith(w, q) /\ w # <<>>
  <2>1. Len(w) >= 2 /\ Len(w) # 0
    BY <1>4, <1>5
  <2> QED
    BY <1>4, <1>6, <2>1 DEF IsQuotedWith
<1>8. Trimmed(w)
  BY <1>3, <1>4, <1>7 DEF Trimmed
<1>9. /\ Len(w) - 2 = M
      /\ \A k \in 1..Len(v) : w[k + 1] = v[k]
      /\ \A k \in 1..M : k \in 1..Len(v) \/ w[k + 1] = Backslash
  BY <1>1, <1>3, <1>4, <1>5
<1> QED
  BY <1>1, <1>4, <1>7, <1>8, <1>9

-------------------------------------------------------------------------------
(* What the helpers see.                                                   *)

\* What stands unescaped between the first and the last character.
Between(v, q) == \E n \in 2..(Len(v) - 1) : v[n] = q /\ ~IsEscapedAt(v, n)

\* In quotes of one sort, the other is not seen.
LEMMA OneSort ==
  ASSUME NEW v, NEW q \in Quotes, IsQuotedWith(v, q)
  PROVE  /\ ~IsQuotedWith(v, OtherQuote(q))
         /\ ~HasUnescapedQuotingChar(v, OtherQuote(q))
         /\ HasUnescapedQuotingChar(v, q) => Between(v, q)
         /\ ~HasUnescapedNginxSpecialChars(v)
<1>1. OtherQuote(q) \in Quotes /\ OtherQuote(q) # q /\ OtherQuote(OtherQuote(q)) = q
  BY Distinct DEF OtherQuote
<1>2. v[1] = q /\ v[Len(v)] = q
  BY DEF IsQuotedWith
<1>3. ~IsQuotedWith(v, OtherQuote(q))
  BY <1>1, <1>2 DEF IsQuotedWith
<1>4. ~HasUnescapedQuotingChar(v, OtherQuote(q))
  BY <1>1, <1>2, Zenon DEF HasUnescapedQuotingChar
<1>5. HasUnescapedQuotingChar(v, q) => Between(v, q)
  BY <1>2, Zenon DEF HasUnescapedQuotingChar, Between
<1> QED
  BY <1>3, <1>4, <1>5, Zenon DEF HasUnescapedNginxSpecialChars

\* What is seen is there.
LEMMA SeenIsThere ==
  ASSUME NEW v, Trimmed(v), NEW q, HasUnescapedQuotingChar(v, q)
  PROVE  HasUnescaped(v, q)
<1>1. /\ 1 \in DOMAIN v /\ Len(v) \in DOMAIN v
      /\ \A n \in 2..(Len(v) - 1) : n \in DOMAIN v
  BY TrimmedLength
<1>2. ~IsEscapedAt(v, 1)
  BY FirstNotEscaped
<1> QED
  BY <1>1, <1>2, Zenon DEF HasUnescapedQuotingChar, HasUnescaped

\* What stands in quotes has the characters between them.
LEMMA InnerOfQuoted ==
  ASSUME NEW v, Trimmed(v), NEW q \in Quotes, IsQuotedWith(v, q), NEW r
  PROVE  HasUnescaped(SubSeq(v, 2, Len(v) - 1), r) <=> Between(v, r)
<1> DEFINE L == Len(v)
           last == L - 1
           x == SubSeq(v, 2, last)
<1>1. /\ v \in Seq(Characters) /\ L \in Nat \ {0} /\ last \in Int /\ L >= 2
      /\ \A n \in 2..last : v[n] \in Characters
  BY TrimmedLength DEF IsQuotedWith
<1>2. v[1] # Backslash
  BY Distinct DEF IsQuotedWith
<1> HIDE DEF last
<1>3. /\ x \in Seq(Characters) /\ Len(x) = IF 2 <= last THEN last - 2 + 1 ELSE 0
      /\ \A i \in 1..(last - 2 + 1) : x[i] = v[2 + i - 1]
  <2>1. 2 \in Int /\ last \in Int /\ \A n \in 2..last : v[n] \in Characters
    BY <1>1
  <2> HIDE DEF x
  <2> QED
    BY <2>1, SubSeqProperties DEF x
<1> HIDE DEF x, L
<1>4. Len(x) = L - 2 /\ DOMAIN x = 1..(L - 2) /\ \A i \in 1..(L - 2) : x[i] = v[i + 1]
  BY <1>1, <1>3, LenProperties DEF last
<1>5. ASSUME NEW i \in 1..(L - 2)
      PROVE  IsEscapedAt(v, i + 1) <=> IsEscapedAt(x, i)
  <2>1. i \in Nat \ {0} /\ \A k \in 1..(i - 1) : v[k + 1] = x[k]
    BY <1>1, <1>4
  <2> QED
    BY <1>2, <2>1, EscapedShifted
<1>6. ASSUME HasUnescaped(x, r)
      PROVE  Between(v, r)
  <2>1. PICK i \in 1..(L - 2) : x[i] = r /\ ~IsEscapedAt(x, i)
    BY <1>4, <1>6 DEF HasUnescaped
  <2>2. i + 1 \in 2..(L - 1) /\ v[i + 1] = r /\ ~IsEscapedAt(v, i + 1)
    BY <1>1, <1>4, <1>5, <2>1
  <2> QED
    BY <2>2 DEF Between, L
<1>7. ASSUME Between(v, r)
      PROVE  HasUnescaped(x, r)
  <2>1. PICK n \in 2..(L - 1) : v[n] = r /\ ~IsEscapedAt(v, n)
    BY <1>7 DEF Between, L
  <2> DEFINE i == n - 1
  <2>2. i \in 1..(L - 2) /\ i + 1 = n
    BY <1>1
  <2> HIDE DEF i
  <2>3. x[i] = r /\ ~IsEscapedAt(x, i)
    BY <1>4, <1>5, <2>1, <2>2
  <2> QED
    BY <1>4, <2>2, <2>3 DEF HasUnescaped
<1> QED
  BY <1>6, <1>7 DEF x, last, L

\* Both sorts of quotes stand unescaped in what v holds.
BothSorts(v) == \A q \in Quotes : HasUnescaped(Inner(v), q)

LEMMA InnerIs ==
  ASSUME NEW v, Trimmed(v)
  PROVE  /\ \A q \in Quotes : IsQuotedWith(v, q) =>
              (BothSorts(v) <=> \A r \in Quotes : Between(v, r))
         /\ (\A q \in Quotes : ~IsQuotedWith(v, q)) =>
              (BothSorts(v) <=> \A r \in Quotes : HasUnescaped(v, r))
<1>1. ASSUME NEW q \in Quotes, IsQuotedWith(v, q)
      PROVE  BothSorts(v) <=> \A r \in Quotes : Between(v, r)
  <2>1. Inner(v) = SubSeq(v, 2, Len(v) - 1)
    BY <1>1 DEF Inner
  <2>2. \A r \in Quotes : HasUnescaped(SubSeq(v, 2, Len(v) - 1), r) <=> Between(v, r)
    BY <1>1, InnerOfQuoted
  <2> QED
    BY <2>1, <2>2, Zenon DEF BothSorts
<1>2. ASSUME \A q \in Quotes : ~IsQuotedWith(v, q)
      PROVE  BothSorts(v) <=> \A r \in Quotes : HasUnescaped(v, r)
  <2>1. Inner(v) = v
    BY <1>2 DEF Inner
  <2> QED
    BY <2>1, Zenon DEF BothSorts
<1> QED
  BY <1>1, <1>2

\* Both sorts are seen only if they are there.
LEMMA SeenBoth ==
  ASSUME NEW v, Trimmed(v), \A q \in Quotes : HasUnescapedQuotingChar(v, q)
  PROVE  BothSorts(v)
<1>1. \A q \in Quotes : ~IsQuotedWith(v, q)
  BY OneSort, Distinct
<1>2. \A q \in Quotes : HasUnescaped(v, q)
  BY SeenIsThere
<1> QED
  BY <1>1, <1>2, InnerIs

\* A sort that is not seen is not there, if the string is to be put in such quotes.
LEMMA NoneLeft ==
  ASSUME NEW v, Trimmed(v), ~BothSorts(v),
         NEW q \in Quotes, ~HasUnescapedQuotingChar(v, q),
         HasUnescapedQuotingChar(v, OtherQuote(q)) \/ HasUnescapedNginxSpecialChars(v)
  PROVE  ~HasUnescaped(v, q)
<1> SUFFICES ASSUME HasUnescaped(v, q)
             PROVE  FALSE
  OBVIOUS
<1>1. PICK n \in DOMAIN v : v[n] = q /\ ~IsEscapedAt(v, n)
  BY DEF HasUnescaped
<1>2. Len(v) \in Nat \ {0} /\ n \in 1..Len(v)
  BY TrimmedLength
<1>3. OtherQuote(q) \in Quotes /\ OtherQuote(q) # q /\ Quotes = {q, OtherQuote(q)}
  BY Distinct DEF OtherQuote
<1>4. ~IsQuotedWith(v, q)
  BY <1>3, OneSort
<1>5. v[1] # q
  BY <1>4 DEF HasUnescapedQuotingChar
<1>6. n # 1
  BY <1>1, <1>5
<1>7. n # Len(v)
  <2>1. SUFFICES ASSUME n = Len(v)
                 PROVE  FALSE
    OBVIOUS
  <2>2. Len(v) > 1
    BY <1>2, <1>6, <2>1
  <2> QED
    BY <1>1, <1>5, <2>1, <2>2, Zenon DEF HasUnescapedQuotingChar
<1>8. n \in 2..(Len(v) - 1)
  BY <1>2, <1>6, <1>7
<1>9. IsQuotedWith(v, OtherQuote(q))
  BY <1>1, <1>8, Zenon DEF HasUnescapedQuotingChar
<1>10. HasUnescapedQuotingChar(v, OtherQuote(q))
  BY <1>3, <1>9, OneSort
<1>11. Between(v, OtherQuote(q))
  BY <1>3, <1>9, <1>10, OneSort
<1>12. Between(v, q)
  BY <1>1, <1>8 DEF Between
<1>13. \A r \in Quotes : Between(v, r)
  BY <1>3, <1>11, <1>12
<1> QED
  BY <1>3, <1>9, <1>13, InnerIs

-------------------------------------------------------------------------------
(* What is returned.                                                       *)

\* A string that nginxQuote leaves alone.
Settled(v) ==
  /\ Trimmed(v) /\ ~ContainsAny(v, Breaks)
  /\ \A q \in Quotes : ~HasUnescapedQuotingChar(v, q)
  /\ ~HasUnescapedNginxSpecialChars(v)

\* What nginxQuote returns, case by case.
LEMMA QuotedCases ==
  ASSUME NEW u \in Seq(Characters), NEW v, v = Trim(u)
  PROVE  \/ v = <<>> /\ Quoted(u) = Returns(v)
         \/ /\ Trimmed(v) /\ Quoted(u) = Fails
            /\ ContainsAny(v, Breaks) \/ \A q \in Quotes : HasUnescapedQuotingChar(v, q)
         \/ /\ Trimmed(v) /\ ~ContainsAny(v, Breaks)
            /\ \E q \in Quotes :
                 /\ Quoted(u) = Returns(QuoteWith(v, q))
                 /\ ~HasUnescapedQuotingChar(v, q)
                 /\ \/ HasUnescapedQuotingChar(v, OtherQuote(q))
                    \/ HasUnescapedNginxSpecialChars(v)
         \/ Settled(v) /\ Quoted(u) = Returns(v)
<1> DEFINE single == HasUnescapedQuotingChar(v, Single)
           double == HasUnescapedQuotingChar(v, Double)
           breaks == ContainsAny(v, Breaks)
           special == HasUnescapedNginxSpecialChars(v)
<1>1. Quoted(u) = IF v = <<>> THEN Returns(v)
                  ELSE IF breaks \/ (single /\ double) THEN Fails
                  ELSE IF double THEN Returns(QuoteWith(v, Single))
                  ELSE IF single \/ special THEN Returns(QuoteWith(v, Double))
                  ELSE Returns(v)
  BY Zenon DEF Quoted
<1>2. v = <<>> \/ Trimmed(v)
  BY TrimTrims
<1>3. /\ Quotes = {Single, Double} /\ Single \in Quotes /\ Double \in Quotes
      /\ OtherQuote(Single) = Double /\ OtherQuote(Double) = Single
  BY Distinct DEF OtherQuote
<1>4. \A q \in Quotes : q = Single \/ q = Double
  BY <1>3
<1>5. CASE v = <<>>
  BY <1>1, <1>5, Zenon
<1>6. CASE v # <<>> /\ (breaks \/ (single /\ double))
  <2>1. Quoted(u) = Fails
    BY <1>1, <1>6, Zenon
  <2>2. breaks \/ \A q \in Quotes : HasUnescapedQuotingChar(v, q)
    BY <1>4, <1>6, Zenon
  <2> QED
    BY <1>2, <1>6, <2>1, <2>2, Zenon
<1>7. CASE v # <<>> /\ ~breaks /\ ~single /\ double
  <2>1. Quoted(u) = Returns(QuoteWith(v, Single))
    BY <1>1, <1>7, Zenon
  <2>2. HasUnescapedQuotingChar(v, OtherQuote(Single))
    BY <1>3, <1>7, Zenon
  <2> QED
    BY <1>2, <1>3, <1>7, <2>1, <2>2, Zenon
<1>8. CASE v # <<>> /\ ~breaks /\ ~double /\ (single \/ special)
  <2>1. Quoted(u) = Returns(QuoteWith(v, Double))
    BY <1>1, <1>8, Zenon
  <2>2. HasUnescapedQuotingChar(v, OtherQuote(Double)) \/ special
    BY <1>3, <1>8, Zenon
  <2> QED
    BY <1>2, <1>3, <1>8, <2>1, <2>2, Zenon
<1>9. CASE v # <<>> /\ ~breaks /\ ~double /\ ~single /\ ~special
  <2>1. Quoted(u) = Returns(v)
    BY <1>1, <1>9, Zenon
  <2>2. \A q \in Quotes : ~HasUnescapedQuotingChar(v, q)
    BY <1>4, <1>9, Zenon
  <2>3. Settled(v)
    BY <1>2, <1>9, <2>2, Zenon DEF Settled
  <2> QED
    BY <2>1, <2>3, Zenon
<1> QED
  BY <1>5, <1>6, <1>7, <1>8, <1>9, Zenon

\* What has been put in quotes is settled, unless both sorts were there.
LEMMA WrappedSettled ==
  ASSUME NEW v, Trimmed(v), ~ContainsAny(v, Breaks), NEW q \in Quotes, ~HasUnescaped(v, q)
  PROVE  Settled(QuoteWith(v, q)) /\ QuoteWith(v, q)[Len(QuoteWith(v, q))] = q
<1> DEFINE w == QuoteWith(v, q)
           L == Len(v)
           M == Len(w) - 2
<1> HIDE DEF w
<1>1. /\ Trimmed(w) /\ IsQuotedWith(w, q) /\ w[1] = q /\ w[Len(w)] = q
      /\ M \in {L, L + 1} /\ \A k \in 1..L : w[k + 1] = v[k]
      /\ \A k \in 1..M : k \in 1..L \/ w[k + 1] = Backslash
  BY QuoteWithQuotes DEF w
<1>2. /\ L \in Nat \ {0} /\ DOMAIN v = 1..L /\ Len(w) \in Nat \ {0} /\ DOMAIN w = 1..Len(w)
  BY <1>1, TrimmedLength
<1>3. /\ q # Backslash /\ q \notin Breaks /\ Backslash \notin Breaks
      /\ OtherQuote(q) \in Quotes /\ \A r \in Quotes : r = q \/ r = OtherQuote(q)
  BY Distinct DEF OtherQuote, Blanks
<1> HIDE DEF L, M
<1>4. ~Between(w, q)
  <2>1. SUFFICES ASSUME NEW n \in 2..(Len(w) - 1), w[n] = q, ~IsEscapedAt(w, n)
                 PROVE  FALSE
    BY DEF Between
  <2> DEFINE k == n - 1
  <2>2. k \in 1..M /\ k \in Nat \ {0} /\ k + 1 = n
    BY <1>2 DEF M
  <2> HIDE DEF k
  <2>3. k \in 1..L /\ v[k] = q
    BY <1>1, <1>3, <2>1, <2>2
  <2>4. IsEscapedAt(w, k + 1) <=> IsEscapedAt(v, k)
    <3>1. w[1] # Backslash /\ \A i \in 1..(k - 1) : w[i + 1] = v[i]
      BY <1>1, <1>2, <1>3, <2>3
    <3> QED
      BY <2>2, <3>1, EscapedShifted
  <2>5. ~IsEscapedAt(v, k)
    BY <2>1, <2>2, <2>4
  <2> QED
    BY <1>2, <2>3, <2>5 DEF HasUnescaped
<1>5. ~ContainsAny(w, Breaks)
  <2>1. SUFFICES ASSUME NEW n \in 1..Len(w), w[n] \in Breaks
                 PROVE  FALSE
    BY <1>2 DEF ContainsAny
  <2>2. n # 1 /\ n # Len(w)
    <3>1. w[1] \notin Breaks /\ w[Len(w)] \notin Breaks
      BY <1>1, <1>3, Zenon
    <3> QED
      BY <2>1, <3>1, Zenon
  <2> DEFINE k == n - 1
  <2>3. k \in 1..M /\ k + 1 = n
    <3>1. Len(w) \in Nat
      BY <1>2, Zenon
    <3>2. n \in Nat /\ 1 <= n /\ n <= Len(w)
      BY <2>1, <3>1
    <3> QED
      BY <2>2, <3>1, <3>2 DEF M
  <2> HIDE DEF k
  <2>4. k \in 1..L /\ v[k] \in Breaks
    BY <1>1, <1>3, <2>1, <2>3
  <2> QED
    BY <1>2, <2>4 DEF ContainsAny
<1>6. \A r \in Quotes : ~HasUnescapedQuotingChar(w, r)
  BY <1>1, <1>3, <1>4, OneSort
<1>7. ~HasUnescapedNginxSpecialChars(w)
  BY <1>1, OneSort
<1> QED
  BY <1>1, <1>4, <1>5, <1>6, <1>7 DEF Settled, w

\* A settled string is one word for nginx, and no comment.
LEMMA SettledIsWord ==
  ASSUME NEW v, Settled(v)
  PROVE  OneWord(v) /\ v[1] # "#"
<1>1. Trimmed(v) /\ Len(v) \in Nat \ {0} /\ 1 \in DOMAIN v
  BY TrimmedLength DEF Settled
<1>2. CASE v[1] \in Quotes
  <2> DEFINE q == v[1]
  <2>1. IsQuotedWith(v, q)
    BY <1>2, Zenon DEF Settled, HasUnescapedQuotingChar
  <2>2. ~IsQuotedWith(v, OtherQuote(q)) /\ q # "#"
    BY <1>2, <2>1, OneSort, Distinct
  <2>3. ~Between(v, q)
    BY <1>2, <2>2, Zenon DEF Settled, HasUnescapedQuotingChar, Between
  <2>4. ~HasUnescaped(SubSeq(v, 2, Len(v) - 1), q)
    BY <1>1, <1>2, <2>1, <2>3, InnerOfQuoted
  <2> QED
    BY <1>2, <2>1, <2>2, <2>4 DEF OneWord
<1>3. CASE v[1] \notin Quotes
  <2>1. \A q \in Quotes : ~IsQuotedWith(v, q)
    BY <1>3 DEF IsQuotedWith
  <2>2. \A n \in DOMAIN v : v[n] \in Special => IsEscapedAt(v, n)
    BY <2>1, Zenon DEF Settled, HasUnescapedNginxSpecialChars
  <2>3. v[1] # "#"
    BY <1>1, <2>2, FirstNotEscaped, Distinct
  <2> QED
    BY <1>3, <2>2, <2>3 DEF OneWord
<1> QED
  BY <1>2, <1>3

-------------------------------------------------------------------------------
(* The calls.                                                              *)

QuoteTypeOK == value \in Seq(Characters)

\* A call and a call with its result have been made.
CallsSoFar ==
  \/ results = <<>>
  \/ results = <<Quoted(value)>>
  \/ Quoted(value).ok /\ results = <<Quoted(value), Quoted(Quoted(value).text)>>

QuoteInv == QuoteTypeOK /\ CallsSoFar

\* What the two steps make of the results.
LEMMA TwoResults ==
  /\ Len(<<>>) = 0 /\ 0 # 1 /\ 2 # 1
  /\ \A a : Len(<<a>>) = 1 /\ <<a>>[1] = a
  /\ \A a, b : /\ Len(<<a, b>>) = 2 /\ <<a, b>>[1] = a /\ <<a, b>>[2] = b
               /\ Append(<<a>>, b) = <<a, b>>
<1>1. ASSUME NEW a, NEW b
      PROVE  Append(<<a>>, b) = <<a, b>>
  <2> DEFINE S == {a, b}
             one == <<a>>
             two == <<a, b>>
             x == Append(one, b)
  <2>1. /\ one \in Seq(S) /\ Len(one) = 1 /\ one[1] = a
        /\ two \in Seq(S) /\ Len(two) = 2 /\ two[1] = a /\ two[2] = b /\ b \in S
    OBVIOUS
  <2> HIDE DEF one, two, S
  <2>2. x \in Seq(S) /\ Len(x) = 1 + 1 /\ x[1] = a /\ x[1 + 1] = b
    <3>1. one \in Seq(S) /\ b \in S
      BY <2>1
    <3>2. /\ Append(one, b) \in Seq(S) /\ Len(Append(one, b)) = Len(one) + 1
          /\ Append(one, b)[Len(one) + 1] = b
          /\ \A i \in 1..Len(one) : Append(one, b)[i] = one[i]
      BY <3>1, AppendProperties
    <3> HIDE DEF x
    <3>3. /\ x \in Seq(S) /\ Len(x) = Len(one) + 1 /\ x[Len(one) + 1] = b
          /\ \A i \in 1..Len(one) : x[i] = one[i]
      BY <3>2 DEF x
    <3> QED
      BY <2>1, <3>3
  <2> HIDE DEF x
  <2>3. Len(x) = Len(two) /\ \A i \in 1..Len(x) : x[i] = two[i]
    <3>1. \A i \in 1..2 : i = 1 \/ i = 2
      OBVIOUS
    <3> QED
      BY <2>1, <2>2, <3>1
  <2>4. x = two
    BY <2>1, <2>2, <2>3, SeqEqual
  <2> QED
    BY <2>4 DEF x, one, two
<1> QED
  BY <1>1

LEMMA QuoteInvariant ==
  QuoteSpec => []QuoteInv
<1>1. QuoteInit => QuoteInv
  BY QuoteAssumption DEF QuoteInit, QuoteInv, QuoteTypeOK, CallsSoFar
<1>2. ASSUME QuoteInv, [Call]_quoteVars
      PROVE  QuoteInv'
  <2>1. value' = value
    BY <1>2 DEF Call, quoteVars
  <2>2. CallsSoFar'
    <3> DEFINE first == Quoted(value)
    <3>1. Quoted(value)' = first
      BY <2>1 DEF Quoted
    <3>2. CASE results = <<>> /\ results' = <<first>>
      BY <3>1, <3>2 DEF CallsSoFar
    <3>3. CASE Len(results) = 1 /\ results[1].ok /\ results' = Append(results, Quoted(results[1].text))
      <4> HIDE DEF first
      <4>1. \/ results = <<>>
            \/ results = <<first>>
            \/ results = <<first, Quoted(first.text)>>
        BY <1>2, Zenon DEF QuoteInv, CallsSoFar, first
      <4>2. results = <<first>>
        BY <3>3, <4>1, TwoResults, Zenon
      <4>3. results[1] = first
        BY <4>2, TwoResults, Zenon
      <4>4. first.ok /\ results' = Append(results, Quoted(first.text))
        BY <3>3, <4>3, Zenon
      <4>5. results' = <<first, Quoted(first.text)>>
        BY <4>2, <4>4, TwoResults, Zenon
      <4>6. Quoted(value)'.ok /\ results' = <<Quoted(value)', Quoted(Quoted(value)'.text)>>
        BY <3>1, <4>4, <4>5, Zenon DEF first
      <4> QED
        BY <4>6, Zenon DEF CallsSoFar
    <3>4. CASE results' = results
      BY <1>2, <3>1, <3>4 DEF QuoteInv, CallsSoFar
    <3> QED
      BY <1>2, <3>2, <3>3, <3>4 DEF Call, quoteVars
  <2> QED
    BY <1>2, <2>1, <2>2 DEF QuoteInv, QuoteTypeOK
<1> QED
  BY <1>1, <1>2, PTL DEF QuoteSpec

\* What one call with a value returns, unless it has both sorts of quotes.
LEMMA OneCall ==
  ASSUME NEW u \in Seq(Characters), ~Mixed(u)
  PROVE  \/ Quoted(u) = Fails /\ ContainsAny(Trim(u), Breaks)
         \/ Quoted(u) = Returns(<<>>) /\ Trim(u) = <<>>
         \/ Settled(Trim(u)) /\ Quoted(u) = Returns(Trim(u))
         \/ \E w : /\ Settled(w) /\ Quoted(u) = Returns(w)
                   /\ w[Len(w)] \in Quotes
<1> DEFINE v == Trim(u)
<1>1. ~BothSorts(v)
  BY DEF Mixed, BothSorts
<1> HIDE DEF v
<1>2. CASE Trimmed(v) /\ Quoted(u) = Fails
           /\ (ContainsAny(v, Breaks) \/ \A q \in Quotes : HasUnescapedQuotingChar(v, q))
  BY <1>1, <1>2, SeenBoth DEF v
<1>3. ASSUME Trimmed(v), ~ContainsAny(v, Breaks), NEW q \in Quotes,
             Quoted(u) = Returns(QuoteWith(v, q)), ~HasUnescapedQuotingChar(v, q),
             HasUnescapedQuotingChar(v, OtherQuote(q)) \/ HasUnescapedNginxSpecialChars(v)
      PROVE  \E w : Settled(w) /\ Quoted(u) = Returns(w) /\ w[Len(w)] \in Quotes
  <2>1. ~HasUnescaped(v, q)
    BY <1>1, <1>3, NoneLeft
  <2>2. Settled(QuoteWith(v, q)) /\ QuoteWith(v, q)[Len(QuoteWith(v, q))] \in Quotes
    BY <1>3, <2>1, WrappedSettled
  <2> QED
    BY <1>3, <2>2, Zenon
<1>4. \/ v = <<>> /\ Quoted(u) = Returns(v)
      \/ /\ Trimmed(v) /\ Quoted(u) = Fails
         /\ ContainsAny(v, Breaks) \/ \A q \in Quotes : HasUnescapedQuotingChar(v, q)
      \/ /\ Trimmed(v) /\ ~ContainsAny(v, Breaks)
         /\ \E q \in Quotes :
              /\ Quoted(u) = Returns(QuoteWith(v, q))
              /\ ~HasUnescapedQuotingChar(v, q)
              /\ \/ HasUnescapedQuotingChar(v, OtherQuote(q))
                 \/ HasUnescapedNginxSpecialChars(v)
      \/ Settled(v) /\ Quoted(u) = Returns(v)
  BY QuotedCases DEF v
<1>5. CASE \E q \in Quotes :
              /\ Quoted(u) = Returns(QuoteWith(v, q))
              /\ ~HasUnescapedQuotingChar(v, q)
              /\ \/ HasUnescapedQuotingChar(v, OtherQuote(q))
                 \/ HasUnescapedNginxSpecialChars(v)
           /\ Trimmed(v) /\ ~ContainsAny(v, Breaks)
  BY <1>3, <1>5, Zenon
<1> QED
  BY <1>2, <1>4, <1>5, Zenon DEF v

\* A settled string, and nothing, is returned as it is.
LEMMA SettledStays ==
  ASSUME NEW v, v = <<>> \/ Settled(v)
  PROVE  Quoted(v) = Returns(v)
<1>1. Trim(v) = v
  BY TrimStays DEF Settled
<1>2. CASE v = <<>>
  BY <1>1, <1>2, Zenon DEF Quoted
<1>3. CASE Settled(v)
  <2>1. /\ v # <<>> /\ ~ContainsAny(v, Breaks)
        /\ ~HasUnescapedQuotingChar(v, Single) /\ ~HasUnescapedQuotingChar(v, Double)
        /\ ~HasUnescapedNginxSpecialChars(v)
    BY <1>3, Distinct DEF Settled, Trimmed
  <2> QED
    BY <1>1, <2>1, Zenon DEF Quoted
<1> QED
  BY <1>2, <1>3

LEMMA AnswerFields ==
  /\ ~Fails.ok
  /\ \A v : Returns(v).ok /\ Returns(v).text = v /\ Returns(v) # Fails
BY DEF Fails, Returns

\* The second call returns what the first has.
LEMMA SecondCall ==
  ASSUME NEW u \in Seq(Characters), ~Mixed(u), Quoted(u).ok
  PROVE  Quoted(Quoted(u).text) = Quoted(u)
<1>1. Quoted(u) # Fails
  BY AnswerFields, Zenon
<1>2. PICK w : Quoted(u) = Returns(w) /\ (w = <<>> \/ Settled(w))
  BY <1>1, OneCall, Zenon
<1>3. Quoted(w) = Returns(w)
  BY <1>2, SettledStays, Zenon
<1>4. Quoted(u).text = w
  BY <1>2, AnswerFields, Zenon
<1> QED
  BY <1>2, <1>3, <1>4, Zenon

\* Every result is that of the first call, unless the value has both sorts of quotes.
LEMMA OneResult ==
  ASSUME QuoteInv, ~Mixed(value), NEW n \in DOMAIN results
  PROVE  results[n] = Quoted(value)
<1> DEFINE first == Quoted(value)
<1>1. \/ results = <<>>
      \/ results = <<first>>
      \/ first.ok /\ results = <<first, Quoted(first.text)>>
  BY Zenon DEF QuoteInv, CallsSoFar
<1>2. first.ok => Quoted(first.text) = first
  BY SecondCall, Zenon DEF QuoteInv, QuoteTypeOK
<1> HIDE DEF first
<1>3. CASE results = <<>>
  BY <1>3
<1>4. CASE results = <<first>>
  <2>1. n = 1
    BY <1>4
  <2> QED
    BY <1>4, <2>1 DEF first
<1>5. CASE results = <<first, first>>
  <2>1. n = 1 \/ n = 2
    BY <1>5
  <2>2. <<first, first>>[1] = first /\ <<first, first>>[2] = first
    OBVIOUS
  <2> QED
    BY <1>5, <2>1, <2>2, Zenon DEF first
<1> QED
  BY <1>1, <1>2, <1>3, <1>4, <1>5, Zenon

\* What nginxQuote returns is one word for nginx and no comment, for values of any
\* length and any characters, unless both sorts of quotes stand in the value.
THEOREM OneWordForNginx == QuoteSpec => []ReadAsOneWord
<1>1. ASSUME QuoteInv
      PROVE  ReadAsOneWord
  <2>1. SUFFICES ASSUME NEW n \in DOMAIN results, results[n].ok, results[n].text # <<>>,
                        ~Mixed(value)
                 PROVE  /\ OneWord(results[n].text) /\ results[n].text[1] # "#"
                        /\ EndsInBackslash(results[n].text) => results[n].text = Trim(value)
    BY Zenon DEF ReadAsOneWord
  <2>2. value \in Seq(Characters)
    BY <1>1 DEF QuoteInv, QuoteTypeOK
  <2>3. results[n] = Quoted(value)
    BY <1>1, <2>1, OneResult
  <2>4. Quoted(value) # Fails /\ Quoted(value) # Returns(<<>>)
    BY <2>1, <2>3, AnswerFields, Zenon
  <2>5. CASE Settled(Trim(value)) /\ Quoted(value) = Returns(Trim(value))
    <3>1. results[n].text = Trim(value)
      BY <2>3, <2>5, AnswerFields, Zenon
    <3> QED
      BY <2>5, <3>1, SettledIsWord, Zenon
  <2>6. ASSUME NEW w, Settled(w), Quoted(value) = Returns(w), w[Len(w)] \in Quotes
        PROVE  /\ OneWord(results[n].text) /\ results[n].text[1] # "#"
               /\ ~EndsInBackslash(results[n].text)
    <3>1. results[n].text = w
      BY <2>3, <2>6, AnswerFields, Zenon
    <3>2. ~EndsInBackslash(w)
      BY <2>6, Distinct, Zenon DEF EndsInBackslash
    <3> QED
      BY <2>6, <3>1, <3>2, SettledIsWord, Zenon
  <2> QED
    BY <2>1, <2>2, <2>4, <2>5, <2>6, OneCall, Zenon
<1> QED
  BY <1>1, QuoteInvariant, PTL

\* And it is left alone when it is quoted again.
THEOREM QuotesOnce == QuoteSpec => []QuotedOnce
<1>1. ASSUME QuoteInv
      PROVE  QuotedOnce
  <2>1. SUFFICES ASSUME Len(results) = 2, ~Mixed(value)
                 PROVE  results[2] = results[1]
    BY Zenon DEF QuotedOnce
  <2>2. 1 \in DOMAIN results /\ 2 \in DOMAIN results
    <3> DEFINE first == Quoted(value)
    <3>1. \/ results = <<>>
          \/ results = <<first>>
          \/ results = <<first, Quoted(first.text)>>
      BY <1>1, Zenon DEF QuoteInv, CallsSoFar
    <3>2. results = <<first, Quoted(first.text)>>
      <4>1. 0 # 2 /\ 1 # 2
        OBVIOUS
      <4> QED
        BY <2>1, <3>1, <4>1, TwoResults, Zenon
    <3> HIDE DEF first
    <3> QED
      BY <3>2
  <2> QED
    BY <1>1, <2>1, <2>2, OneResult, Zenon
<1> QED
  BY <1>1, QuoteInvariant, PTL

\* Only values with line breaks or with both sorts of quotes fail.
THEOREM FailsOnlyAsDocumented == QuoteSpec => []FailsAsDocumented
<1>1. ASSUME QuoteInv
      PROVE  FailsAsDocumented
  <2>1. SUFFICES ASSUME NEW n \in DOMAIN results, ~results[n].ok, ~Mixed(value)
                 PROVE  ContainsAny(Trim(value), Breaks)
    BY Zenon DEF FailsAsDocumented
  <2>2. value \in Seq(Characters)
    BY <1>1 DEF QuoteInv, QuoteTypeOK
  <2>3. ~Quoted(value).ok
    BY <1>1, <2>1, OneResult, Zenon
  <2> QED
    BY <2>1, <2>2, <2>3, OneCall, AnswerFields, Zenon
<1> QED
  BY <1>1, QuoteInvariant, PTL
===============================================================================
