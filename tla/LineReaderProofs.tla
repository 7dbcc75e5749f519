-------------------------- MODULE LineReaderProofs --------------------------
(***************************************************************************)
(* read_line and extract_line, for every size of the buffer, every stream  *)
(* and every way to cut it.                                                *)
(***************************************************************************)
EXTENDS LineReader, FiniteSetTheorems, SequenceTheorems, WellFoundedInduction, TLAPS

Text == Seq(Bytes)

\* The newlines of a text up to a place, and how many they are.
Until(text, i) == {j \in Newlines(text) : j <= i}
Rank(text, i) == Cardinality(Until(text, i))

-----------------------------------------------------------------------------
(* Newlines and their ranks.                                               *)

\* Where a newline can be.
LEMMA NewlineType ==
    ASSUME NEW text \in Text
    PROVE  /\ Len(text) \in Nat /\ DOMAIN text = 1 .. Len(text)
           /\ \A i \in Newlines(text) :
                 i \in Nat /\ 1 <= i /\ i <= Len(text) /\ text[i] = "LF"
           /\ \A i \in 1 .. Len(text) : text[i] = "LF" => i \in Newlines(text)
<1>1. Len(text) \in Nat /\ DOMAIN text = 1 .. Len(text)
  BY LenProperties DEF Text
<1> QED
  BY <1>1 DEF Newlines

\* The search finds the first newline.
LEMMA FirstNewline ==
    ASSUME NEW text \in Text, Newlines(text) # {}
    PROVE  /\ Min(Newlines(text)) \in Newlines(text)
           /\ \A i \in Newlines(text) : Min(Newlines(text)) <= i
<1> DEFINE S == Newlines(text)
           less == OpToRel(<, Nat)
<1>1. S \subseteq Nat /\ S # {}
  BY NewlineType
<1> HIDE DEF S
<1>2. PICK x \in S : \A y \in S : ~(<<y, x>> \in less)
  <2>1. IsWellFoundedOn(less, Nat)
    BY NatLessThanWellFounded
  <2> HIDE DEF less
  <2> QED
    BY <1>1, <2>1, WFMin
<1>3. \A y \in S : ~(y < x)
  <2> SUFFICES ASSUME NEW y \in S, y < x PROVE FALSE
    OBVIOUS
  <2>1. x \in Nat /\ y \in Nat
    BY <1>1
  <2>2. <<y, x>> \in less
    BY <2>1 DEF OpToRel
  <2> QED
    BY <1>2, <2>2
<1>4. \A y \in S : x <= y
  BY <1>1, <1>3
<1>5. Min(S) \in S /\ \A y \in S : Min(S) <= y
  BY <1>4 DEF Min
<1> QED
  BY <1>5 DEF S

LEMMA UntilIsFinite ==
    ASSUME NEW text \in Text, NEW i
    PROVE  /\ IsFiniteSet(Until(text, i)) /\ Rank(text, i) \in Nat
           /\ IsFiniteSet(Newlines(text))
           /\ Rank(text, i) <= Cardinality(Newlines(text))
<1>1. IsFiniteSet(1 .. Len(text))
  BY NewlineType, FS_Interval
<1>2. Newlines(text) \subseteq 1 .. Len(text)
  BY NewlineType
<1>3. IsFiniteSet(Newlines(text))
  BY <1>1, <1>2, FS_Subset
<1>4. Until(text, i) \in SUBSET Newlines(text)
  BY DEF Until
<1>5. IsFiniteSet(Until(text, i)) /\ Cardinality(Until(text, i)) <= Cardinality(Newlines(text))
  BY <1>3, <1>4, FS_Subset
<1>6. Rank(text, i) \in Nat
  BY <1>5, FS_CardinalityType DEF Rank
<1> QED
  BY <1>3, <1>5, <1>6 DEF Rank

\* No two newlines have the same rank.
LEMMA RankUnique ==
    ASSUME NEW text \in Text, NEW i \in Newlines(text), NEW j \in Newlines(text),
           Rank(text, i) = Rank(text, j)
    PROVE  i = j
<1>1. ASSUME NEW a \in Newlines(text), NEW b \in Newlines(text), a <= b,
             Rank(text, a) = Rank(text, b)
      PROVE  a = b
  <2>1. Until(text, a) \in SUBSET Until(text, b)
    BY <1>1, NewlineType DEF Until
  <2>2. Until(text, a) = Until(text, b)
    BY <1>1, <2>1, UntilIsFinite, FS_Subset DEF Rank
  <2>3. b <= a
    BY <2>2, NewlineType DEF Until
  <2> QED
    BY <1>1, <2>3, NewlineType
<1>2. i <= j \/ j <= i
  BY NewlineType
<1> QED
  BY <1>1, <1>2

\* The k-th newline is the one of rank k.
LEMMA NewlineOfRank ==
    ASSUME NEW text \in Text, NEW i \in Newlines(text)
    PROVE  Rank(text, i) # 0 /\ NewlineAt(text, Rank(text, i)) = i
<1>1. i \in Until(text, i)
  BY NewlineType DEF Until
<1>2. Rank(text, i) # 0
  BY <1>1, UntilIsFinite, FS_EmptySet DEF Rank
<1>3. \A j \in Newlines(text) : Rank(text, j) = Rank(text, i) => j = i
  BY RankUnique
<1>4. NewlineAt(text, Rank(text, i)) =
         CHOOSE j \in Newlines(text) : Rank(text, j) = Rank(text, i)
  BY <1>2 DEF NewlineAt, Rank, Until
<1> QED
  BY <1>2, <1>3, <1>4

\* The first n newlines of a text: each rank up to n is taken.
HasNewlines(text, n) ==
    \A k \in 1 .. n : \E i \in Newlines(text) : Rank(text, i) = k

\* Where the n-th newline is.
LEMMA NewlineAtType ==
    ASSUME NEW text \in Text, NEW n \in Nat, HasNewlines(text, n), NEW k \in 0 .. n
    PROVE  /\ NewlineAt(text, k) \in 0 .. Len(text)
           /\ k = 0 => NewlineAt(text, k) = 0
           /\ k # 0 => /\ NewlineAt(text, k) \in Newlines(text)
                       /\ Rank(text, NewlineAt(text, k)) = k
<1>1. CASE k = 0
  BY <1>1, NewlineType DEF NewlineAt
<1>2. CASE k # 0
  <2>1. PICK i \in Newlines(text) : Rank(text, i) = k
    BY <1>2 DEF HasNewlines
  <2>2. NewlineAt(text, k) = i
    BY <2>1, NewlineOfRank
  <2> QED
    BY <1>2, <2>1, <2>2, NewlineType
<1> QED
  BY <1>1, <1>2

\* A longer stream has the same newlines where it was known.
LEMMA NewlinesStay ==
    ASSUME NEW text \in Text, NEW more \in Text
    PROVE  /\ text \o more \in Text /\ Len(text \o more) = Len(text) + Len(more)
           /\ \A i \in Newlines(text) :
                 i \in Newlines(text \o more) /\ Rank(text \o more, i) = Rank(text, i)
<1> DEFINE long == text \o more
<1>1. /\ long \in Text /\ Len(long) = Len(text) + Len(more)
      /\ \A i \in 1 .. Len(text) + Len(more) :
            long[i] = IF i <= Len(text) THEN text[i] ELSE more[i - Len(text)]
  BY ConcatProperties DEF Text
<1>2. Len(text) \in Nat /\ Len(more) \in Nat
  BY NewlineType
<1> HIDE DEF long
<1>3. \A i : i \in Newlines(text) <=> i \in Newlines(long) /\ i <= Len(text)
  <2> TAKE i
  <2>1. ASSUME i \in Newlines(text) PROVE i \in Newlines(long) /\ i <= Len(text)
    <3>1. i \in 1 .. Len(text) /\ text[i] = "LF"
      BY <2>1, NewlineType
    <3>2. i \in 1 .. Len(long) /\ long[i] = "LF"
      BY <1>1, <1>2, <3>1
    <3> QED
      BY <1>1, <3>1, <3>2, NewlineType
  <2>2. ASSUME i \in Newlines(long), i <= Len(text) PROVE i \in Newlines(text)
    <3>1. i \in 1 .. Len(text) /\ long[i] = "LF"
      BY <1>1, <1>2, <2>2, NewlineType
    <3>2. text[i] = "LF"
      BY <1>1, <1>2, <3>1
    <3> QED
      BY <3>1, <3>2, NewlineType
  <2> QED
    BY <2>1, <2>2
<1>4. ASSUME NEW i \in Newlines(text) PROVE Rank(long, i) = Rank(text, i)
  <2>1. i \in Nat /\ i <= Len(text)
    BY NewlineType
  <2>2. \A j : j \in Newlines(long) => j \in Nat
    BY <1>1, NewlineType
  <2>3. Until(long, i) = Until(text, i)
    BY <1>2, <1>3, <2>1, <2>2 DEF Until
  <2> QED
    BY <2>3 DEF Rank
<1> QED
  BY <1>1, <1>3, <1>4 DEF long

LEMMA NewlineAtStays ==
    ASSUME NEW text \in Text, NEW more \in Text, NEW n \in Nat, HasNewlines(text, n)
    PROVE  /\ HasNewlines(text \o more, n)
           /\ \A k \in 0 .. n : NewlineAt(text \o more, k) = NewlineAt(text, k)
<1>1. HasNewlines(text \o more, n)
  BY NewlinesStay DEF HasNewlines
<1>2. ASSUME NEW k \in 0 .. n PROVE NewlineAt(text \o more, k) = NewlineAt(text, k)
  <2>1. CASE k = 0
    BY <2>1 DEF NewlineAt
  <2>2. CASE k # 0
    <3>1. PICK i \in Newlines(text) : Rank(text, i) = k
      BY <2>2 DEF HasNewlines
    <3>2. NewlineAt(text, k) = i
      BY <3>1, NewlineOfRank
    <3>3. /\ text \o more \in Text /\ i \in Newlines(text \o more)
          /\ Rank(text \o more, i) = k
      BY <3>1, NewlinesStay
    <3>4. NewlineAt(text \o more, k) = i
      BY <3>3, NewlineOfRank
    <3> QED
      BY <3>2, <3>4
  <2> QED
    BY <2>1, <2>2
<1> QED
  BY <1>1, <1>2

-----------------------------------------------------------------------------
(* Parts of a text.                                                        *)

\* A part of a text, byte by byte.
LEMMA PartOfText ==
    ASSUME NEW text \in Text, NEW a \in Nat, NEW b \in Nat, 1 <= a, b <= Len(text)
    PROVE  /\ SubSeq(text, a, b) \in Text
           /\ Len(SubSeq(text, a, b)) = IF a <= b THEN b - a + 1 ELSE 0
           /\ \A i \in 1 .. b - a + 1 : SubSeq(text, a, b)[i] = text[a + i - 1]
<1>1. \A i \in a .. b : text[i] \in Bytes
  <2>1. \A i \in a .. b : i \in 1 .. Len(text)
    BY NewlineType
  <2> QED
    BY <2>1, ElementOfSeq DEF Text
<1>2. a \in Int /\ b \in Int
  OBVIOUS
<1> QED
  BY <1>1, <1>2, SubSeqProperties DEF Text

\* The rest of a text, byte by byte.
LEMMA RestOfText ==
    ASSUME NEW text \in Text, NEW p \in Nat, p <= Len(text)
    PROVE  /\ SubSeq(text, p + 1, Len(text)) \in Text
           /\ Len(SubSeq(text, p + 1, Len(text))) = Len(text) - p
           /\ \A i \in 1 .. Len(text) - p :
                 SubSeq(text, p + 1, Len(text))[i] = text[p + i]
<1> DEFINE rest == SubSeq(text, p + 1, Len(text))
           n == Len(text)
<1>1. n \in Nat
  BY NewlineType
<1>2. /\ rest \in Text
      /\ Len(rest) = IF p + 1 <= n THEN n - (p + 1) + 1 ELSE 0
      /\ \A i \in 1 .. n - (p + 1) + 1 : rest[i] = text[(p + 1) + i - 1]
  BY <1>1, PartOfText
<1> HIDE DEF rest, n
<1>3. n - (p + 1) + 1 = n - p /\ p <= n
  BY <1>1 DEF n
<1>4. Len(rest) = n - p
  BY <1>1, <1>2, <1>3
<1>5. ASSUME NEW i \in 1 .. n - p PROVE rest[i] = text[p + i]
  <2>1. (p + 1) + i - 1 = p + i
    BY <1>1
  <2>2. rest[i] = text[(p + 1) + i - 1]
    BY <1>2, <1>3
  <2> QED
    BY <2>1, <2>2
<1> QED
  BY <1>2, <1>4, <1>5 DEF rest, n

\* A part that was there before the stream grew.
LEMMA PartStays ==
    ASSUME NEW text \in Text, NEW more \in Text, NEW a \in Nat, NEW b \in Nat,
           1 <= a, b <= Len(text)
    PROVE  SubSeq(text \o more, a, b) = SubSeq(text, a, b)
<1> DEFINE long == text \o more
           s == SubSeq(long, a, b)
           t == SubSeq(text, a, b)
<1>1. /\ long \in Text /\ Len(long) = Len(text) + Len(more)
      /\ Len(text) \in Nat /\ Len(more) \in Nat
  BY NewlinesStay, NewlineType
<1>2. \A i \in 1 .. Len(text) + Len(more) :
         long[i] = IF i <= Len(text) THEN text[i] ELSE more[i - Len(text)]
  BY ConcatProperties DEF Text
<1> HIDE DEF long
<1>3. /\ s \in Text /\ Len(s) = IF a <= b THEN b - a + 1 ELSE 0
      /\ \A i \in 1 .. b - a + 1 : s[i] = long[a + i - 1]
  BY <1>1, PartOfText
<1>4. /\ t \in Text /\ Len(t) = IF a <= b THEN b - a + 1 ELSE 0
      /\ \A i \in 1 .. b - a + 1 : t[i] = text[a + i - 1]
  BY PartOfText
<1> HIDE DEF s, t
<1>5. \A i \in 1 .. Len(s) : s[i] = t[i]
  <2> TAKE i \in 1 .. Len(s)
  <2>1. i \in 1 .. b - a + 1 /\ a + i - 1 \in 1 .. Len(text)
    BY <1>1, <1>3
  <2>2. long[a + i - 1] = text[a + i - 1]
    BY <1>1, <1>2, <2>1
  <2> QED
    BY <1>3, <1>4, <2>1, <2>2
<1>6. s = t
  BY <1>3, <1>4, <1>5, SeqEqual DEF Text
<1> QED
  BY <1>6 DEF s, t, long

\* The rest of a text when it grows.
LEMMA RestGrows ==
    ASSUME NEW text \in Text, NEW more \in Text, NEW p \in Nat, p <= Len(text)
    PROVE  SubSeq(text \o more, p + 1, Len(text \o more)) =
              SubSeq(text, p + 1, Len(text)) \o more
<1> DEFINE long == text \o more
           s == SubSeq(long, p + 1, Len(long))
           rest == SubSeq(text, p + 1, Len(text))
           t == rest \o more
<1>1. /\ long \in Text /\ Len(long) = Len(text) + Len(more)
      /\ Len(text) \in Nat /\ Len(more) \in Nat
  BY NewlinesStay, NewlineType
<1>2. \A i \in 1 .. Len(text) + Len(more) :
         long[i] = IF i <= Len(text) THEN text[i] ELSE more[i - Len(text)]
  BY ConcatProperties DEF Text
<1> HIDE DEF long
<1>3. /\ s \in Text /\ Len(s) = Len(long) - p
      /\ \A i \in 1 .. Len(long) - p : s[i] = long[p + i]
  <2>1. p <= Len(long)
    BY <1>1
  <2> QED
    BY <1>1, <2>1, RestOfText
<1>4. /\ rest \in Text /\ Len(rest) = Len(text) - p
      /\ \A i \in 1 .. Len(text) - p : rest[i] = text[p + i]
  BY <1>1, RestOfText
<1> HIDE DEF s, rest
<1>5. /\ t \in Text /\ Len(t) = Len(rest) + Len(more)
      /\ \A i \in 1 .. Len(rest) + Len(more) :
            t[i] = IF i <= Len(rest) THEN rest[i] ELSE more[i - Len(rest)]
  BY <1>4, ConcatProperties DEF Text
<1> HIDE DEF t
<1>6. \A i \in 1 .. Len(s) : s[i] = t[i]
  <2> TAKE i \in 1 .. Len(s)
  <2>1. i \in 1 .. Len(long) - p /\ i \in 1 .. Len(rest) + Len(more)
    BY <1>1, <1>3, <1>4
  <2>2. s[i] = long[p + i]
    BY <1>3, <2>1
  <2>3. CASE i <= Len(rest)
    <3>1. p + i \in 1 .. Len(text) + Len(more) /\ p + i <= Len(text) /\ i \in 1 .. Len(text) - p
      BY <1>1, <1>4, <2>1, <2>3
    <3> QED
      BY <1>2, <1>4, <1>5, <2>1, <2>2, <2>3, <3>1
  <2>4. CASE ~(i <= Len(rest))
    <3>1. /\ p + i \in 1 .. Len(text) + Len(more) /\ ~(p + i <= Len(text))
          /\ p + i - Len(text) = i - Len(rest)
      BY <1>1, <1>4, <2>1, <2>4
    <3>2. long[p + i] = more[p + i - Len(text)]
      BY <1>2, <3>1
    <3>3. t[i] = more[i - Len(rest)]
      BY <1>5, <2>1, <2>4
    <3> QED
      BY <2>2, <3>1, <3>2, <3>3
  <2> QED
    BY <2>3, <2>4
<1>7. s = t
  <2>1. Len(s) = Len(t)
    BY <1>1, <1>3, <1>4, <1>5
  <2> QED
    BY <1>3, <1>5, <1>6, <2>1, SeqEqual DEF Text
<1> QED
  BY <1>7 DEF s, t, rest, long

\* A part of the rest is a part of the text.
LEMMA PartOfRest ==
    ASSUME NEW text \in Text, NEW p \in Nat, p <= Len(text),
           NEW a \in Nat, 1 <= a, NEW b \in Nat, b <= Len(text) - p
    PROVE  SubSeq(SubSeq(text, p + 1, Len(text)), a, b) = SubSeq(text, p + a, p + b)
<1> DEFINE rest == SubSeq(text, p + 1, Len(text))
           s == SubSeq(rest, a, b)
           t == SubSeq(text, p + a, p + b)
<1>1. Len(text) \in Nat
  BY NewlineType
<1>2. /\ rest \in Text /\ Len(rest) = Len(text) - p
      /\ \A i \in 1 .. Len(text) - p : rest[i] = text[p + i]
  BY <1>1, RestOfText
<1> HIDE DEF rest
<1>3. /\ s \in Text /\ Len(s) = IF a <= b THEN b - a + 1 ELSE 0
      /\ \A i \in 1 .. b - a + 1 : s[i] = rest[a + i - 1]
  BY <1>2, PartOfText
<1>4. /\ t \in Text /\ Len(t) = IF a <= b THEN b - a + 1 ELSE 0
      /\ \A i \in 1 .. b - a + 1 : t[i] = text[p + (a + i - 1)]
  <2>1. /\ t \in Text
        /\ Len(t) = IF p + a <= p + b THEN (p + b) - (p + a) + 1 ELSE 0
        /\ \A i \in 1 .. (p + b) - (p + a) + 1 : t[i] = text[(p + a) + i - 1]
    <3>1. p + a \in Nat /\ p + b \in Nat /\ 1 <= p + a /\ p + b <= Len(text)
      BY <1>1
    <3> QED
      BY <3>1, PartOfText
  <2>2. /\ (p + b) - (p + a) + 1 = b - a + 1
        /\ p + a <= p + b <=> a <= b
        /\ \A i \in 1 .. b - a + 1 : (p + a) + i - 1 = p + (a + i - 1)
    BY <1>1
  <2> HIDE DEF t
  <2> QED
    BY <1>1, <2>1, <2>2
<1> HIDE DEF s, t
<1>5. \A i \in 1 .. Len(s) : s[i] = t[i]
  <2> TAKE i \in 1 .. Len(s)
  <2>1. i \in 1 .. b - a + 1 /\ a + i - 1 \in 1 .. Len(text) - p
    BY <1>1, <1>3
  <2> QED
    BY <1>2, <1>3, <1>4, <2>1
<1>6. s = t
  BY <1>3, <1>4, <1>5, SeqEqual DEF Text
<1> QED
  BY <1>6 DEF s, t, rest

-----------------------------------------------------------------------------
(* How lines stand in a text.                                              *)

\* The bytes before a newline, and the line they are.
LineOf(sent, line) ==
    \/ sent = line /\ (sent = <<>> \/ sent[Len(sent)] # "CR")
    \/ sent = Append(line, "CR")

\* The lines ls are the first lines of the text, and rest is what follows.
Framed(text, ls, rest) ==
    /\ HasNewlines(text, Len(ls))
    /\ \A k \in DOMAIN ls :
          LineOf(SubSeq(text, NewlineAt(text, k - 1) + 1, NewlineAt(text, k) - 1), ls[k])
    /\ rest = SubSeq(text, NewlineAt(text, Len(ls)) + 1, Len(text))

\* Dropping the CR.
LEMMA ChompedLine ==
    ASSUME NEW sent \in Text
    PROVE  /\ Chomped(sent) \in Text /\ Len(Chomped(sent)) <= Len(sent)
           /\ LineOf(sent, Chomped(sent))
<1> DEFINE n == Len(sent)
           line == SubSeq(sent, 1, n - 1)
<1>1. n \in Nat /\ "CR" \in Bytes
  BY NewlineType DEF Bytes
<1>2. CASE n > 0 /\ sent[n] = "CR"
  <2>1. Chomped(sent) = line
    BY <1>2 DEF Chomped
  <2>2. /\ line \in Text /\ Len(line) = n - 1
        /\ \A i \in 1 .. n - 1 : line[i] = sent[i]
    <3>1. 1 \in Nat /\ n - 1 \in Nat /\ n - 1 <= Len(sent)
      BY <1>1, <1>2
    <3>2. /\ line \in Text
          /\ Len(line) = IF 1 <= n - 1 THEN (n - 1) - 1 + 1 ELSE 0
          /\ \A i \in 1 .. (n - 1) - 1 + 1 : line[i] = sent[1 + i - 1]
      BY <3>1, PartOfText
    <3> HIDE DEF line, n
    <3>3. (n - 1) - 1 + 1 = n - 1 /\ \A i \in 1 .. n - 1 : 1 + i - 1 = i
      BY <1>1
    <3>4. Len(line) = n - 1
      BY <1>1, <1>2, <3>2, <3>3
    <3> QED
      BY <3>2, <3>3, <3>4
  <2> HIDE DEF line
  <2>3. sent = Append(line, "CR")
    <3> DEFINE whole == Append(line, "CR")
    <3>1. /\ whole \in Text /\ Len(whole) = Len(line) + 1
          /\ \A i \in 1 .. Len(line) : whole[i] = line[i]
          /\ whole[Len(line) + 1] = "CR"
      BY <1>1, <2>2, AppendProperties DEF Text
    <3> HIDE DEF whole
    <3>2. Len(whole) = Len(sent)
      BY <1>1, <2>2, <3>1
    <3>3. \A i \in 1 .. Len(whole) : whole[i] = sent[i]
      <4> TAKE i \in 1 .. Len(whole)
      <4>1. CASE i = n
        BY <1>1, <1>2, <2>2, <3>1, <4>1
      <4>2. CASE i # n
        <5>1. i \in 1 .. n - 1
          BY <1>1, <3>2, <4>2
        <5> QED
          BY <2>2, <3>1, <5>1
      <4> QED
        BY <4>1, <4>2
    <3>4. whole = sent
      BY <3>1, <3>2, <3>3, SeqEqual DEF Text
    <3> QED
      BY <3>4 DEF whole
  <2>4. Len(line) <= Len(sent)
    BY <1>1, <2>2
  <2> QED
    BY <2>1, <2>2, <2>3, <2>4 DEF LineOf
<1>3. CASE ~(n > 0 /\ sent[n] = "CR")
  <2>1. Chomped(sent) = sent
    BY <1>3 DEF Chomped
  <2>2. sent = <<>> \/ sent[n] # "CR"
    <3>1. sent # <<>> => n > 0
      BY <1>1, EmptySeq DEF Text
    <3> QED
      BY <1>3, <3>1
  <2> QED
    BY <1>1, <2>1, <2>2 DEF LineOf
<1> QED
  BY <1>2, <1>3

\* More of the stream does not change the lines that were returned.
LEMMA FramedGrows ==
    ASSUME NEW text \in Text, NEW more \in Text, NEW ls \in Seq(Text), NEW rest,
           Framed(text, ls, rest)
    PROVE  Framed(text \o more, ls, rest \o more)
<1> DEFINE long == text \o more
           n == Len(ls)
<1>1. n \in Nat /\ DOMAIN ls = 1 .. n
  BY LenProperties
<1>2. HasNewlines(text, n)
  BY DEF Framed
<1>3. HasNewlines(long, n) /\ \A k \in 0 .. n : NewlineAt(long, k) = NewlineAt(text, k)
  BY <1>1, <1>2, NewlineAtStays
<1>4. Len(text) \in Nat
  BY NewlineType
<1>5. \A k \in 0 .. n : /\ NewlineAt(text, k) \in Nat /\ NewlineAt(text, k) <= Len(text)
                        /\ k # 0 => NewlineAt(text, k) # 0
  <2> TAKE k \in 0 .. n
  <2>1. /\ NewlineAt(text, k) \in 0 .. Len(text)
        /\ k # 0 => NewlineAt(text, k) \in Newlines(text)
    BY <1>1, <1>2, NewlineAtType
  <2> QED
    BY <1>4, <2>1, NewlineType
<1> HIDE DEF n, long
<1>6. ASSUME NEW k \in DOMAIN ls
      PROVE  LineOf(SubSeq(long, NewlineAt(long, k - 1) + 1, NewlineAt(long, k) - 1), ls[k])
  <2> DEFINE a == NewlineAt(text, k - 1) + 1
             b == NewlineAt(text, k) - 1
  <2>1. k \in 0 .. n /\ k - 1 \in 0 .. n /\ k # 0
    BY <1>1
  <2>2. a \in Nat /\ b \in Nat /\ 1 <= a /\ b <= Len(text)
    BY <1>4, <1>5, <2>1
  <2>3. NewlineAt(long, k - 1) + 1 = a /\ NewlineAt(long, k) - 1 = b
    BY <1>3, <2>1
  <2>4. LineOf(SubSeq(text, a, b), ls[k])
    BY DEF Framed
  <2> HIDE DEF a, b
  <2>5. SubSeq(long, a, b) = SubSeq(text, a, b)
    BY <2>2, PartStays DEF long
  <2> QED
    BY <2>3, <2>4, <2>5
<1>7. rest \o more = SubSeq(long, NewlineAt(long, n) + 1, Len(long))
  <2> DEFINE p == NewlineAt(text, n)
  <2>1. n \in 0 .. n
    BY <1>1
  <2>2. p \in Nat /\ p <= Len(text) /\ NewlineAt(long, n) = p
    BY <1>3, <1>5, <2>1
  <2>3. rest = SubSeq(text, p + 1, Len(text))
    BY DEF Framed, n
  <2> HIDE DEF p
  <2> QED
    BY <2>2, <2>3, RestGrows DEF long
<1> QED
  BY <1>3, <1>6, <1>7 DEF Framed, long, n

\* The first newline of the rest is the next one of the text.
LEMMA NextNewline ==
    ASSUME NEW text \in Text, NEW n \in Nat, HasNewlines(text, n),
           NEW rest, rest = SubSeq(text, NewlineAt(text, n) + 1, Len(text)),
           Newlines(rest) # {}
    PROVE  /\ NewlineAt(text, n) + Min(Newlines(rest)) \in Newlines(text)
           /\ Rank(text, NewlineAt(text, n) + Min(Newlines(rest))) = n + 1
<1> DEFINE p == NewlineAt(text, n)
           m == Min(Newlines(rest))
<1>1. Len(text) \in Nat
  BY NewlineType
<1>2. p \in Nat /\ p <= Len(text) /\ Rank(text, p) = n
  <2>1. n \in 0 .. n
    OBVIOUS
  <2>2. /\ p \in 0 .. Len(text)
        /\ n = 0 => p = 0
        /\ n # 0 => Rank(text, p) = n
    BY <2>1, NewlineAtType
  <2>3. CASE n = 0
    <3>1. Until(text, 0) = {}
      BY NewlineType DEF Until
    <3> QED
      BY <1>1, <2>2, <2>3, <3>1, FS_EmptySet DEF Rank
  <2>4. CASE n # 0
    BY <1>1, <2>2, <2>4
  <2> QED
    BY <2>3, <2>4
<1>3. /\ rest \in Text /\ Len(rest) = Len(text) - p
      /\ \A i \in 1 .. Len(text) - p : rest[i] = text[p + i]
  <2> HIDE DEF p
  <2> QED
    BY <1>2, RestOfText DEF p
<1>4. m \in Newlines(rest) /\ \A i \in Newlines(rest) : m <= i
  BY <1>3, FirstNewline
<1> HIDE DEF p, m
<1>5. m \in 1 .. Len(text) - p /\ rest[m] = "LF"
  <2>1. m \in Nat /\ 1 <= m /\ m <= Len(rest) /\ rest[m] = "LF"
    BY <1>3, <1>4, NewlineType
  <2>2. Len(rest) = Len(text) - p
    BY <1>3
  <2>3. m \in 1 .. Len(text) - p
    <3> DEFINE whole == Len(text)
               size == Len(rest)
    <3>1. /\ whole \in Nat /\ size = whole - p /\ p \in Nat /\ p <= whole
          /\ m \in Nat /\ 1 <= m /\ m <= size
      BY <1>1, <1>2, <2>1, <2>2
    <3> HIDE DEF whole, size
    <3>2. m \in 1 .. whole - p
      BY <3>1
    <3> QED
      BY <3>2 DEF whole
  <2> QED
    BY <2>1, <2>3
<1>6. p + m \in 1 .. Len(text) /\ text[p + m] = "LF"
  <2>1. p + m \in 1 .. Len(text)
    BY <1>1, <1>2, <1>5
  <2>2. rest[m] = text[p + m]
    BY <1>3, <1>5
  <2> QED
    BY <1>5, <2>1, <2>2
<1>7. p + m \in Newlines(text)
  BY <1>6, NewlineType
<1>8. ASSUME NEW j \in Newlines(text), p < j PROVE p + m <= j
  <2>1. j \in Nat /\ j <= Len(text) /\ text[j] = "LF"
    BY NewlineType
  <2>2. j - p \in 1 .. Len(text) - p /\ p + (j - p) = j
    BY <1>1, <1>2, <1>8, <2>1
  <2>3. rest[j - p] = "LF"
    BY <1>3, <2>1, <2>2
  <2>4. j - p \in Newlines(rest)
    BY <1>3, <2>2, <2>3, NewlineType
  <2>5. m <= j - p
    BY <1>4, <2>4
  <2> QED
    BY <1>2, <1>5, <2>1, <2>5
<1>9. Until(text, p + m) = Until(text, p) \cup {p + m} /\ p + m \notin Until(text, p)
  <2>1. \A j \in Newlines(text) : j <= p + m <=> j <= p \/ j = p + m
    <3> TAKE j \in Newlines(text)
    <3>1. j \in Nat
      BY NewlineType
    <3>2. p < j => p + m <= j
      BY <1>8
    <3> QED
      BY <1>2, <1>5, <3>1, <3>2
  <2>2. ~(p + m <= p)
    BY <1>2, <1>5
  <2> QED
    BY <1>7, <2>1, <2>2 DEF Until
<1>10. Rank(text, p + m) = n + 1
  <2>1. IsFiniteSet(Until(text, p))
    BY UntilIsFinite
  <2> QED
    BY <1>2, <1>9, <2>1, FS_AddElement DEF Rank
<1> QED
  BY <1>7, <1>10 DEF p, m

\* extract_line takes the next line of the text.
LEMMA FramedTakes ==
    ASSUME NEW text \in Text, NEW ls \in Seq(Text), NEW rest,
           Framed(text, ls, rest), Newlines(rest) # {}
    PROVE  /\ Framed(text, Append(ls, FirstLine(rest)), AfterFirst(rest))
           /\ FirstLine(rest) \in Text /\ AfterFirst(rest) \in Text /\ rest \in Text
           /\ Len(FirstLine(rest)) < Len(rest) /\ Len(AfterFirst(rest)) < Len(rest)
<1> DEFINE n == Len(ls)
           p == NewlineAt(text, n)
           m == Min(Newlines(rest))
           sent == SubSeq(rest, 1, m - 1)
           more == Append(ls, FirstLine(rest))
<1>1. n \in Nat /\ DOMAIN ls = 1 .. n /\ Len(text) \in Nat
  BY LenProperties, NewlineType
<1>2. HasNewlines(text, n) /\ rest = SubSeq(text, p + 1, Len(text))
  BY DEF Framed
<1>3. p + m \in Newlines(text) /\ Rank(text, p + m) = n + 1
  BY <1>1, <1>2, NextNewline
<1>4. HasNewlines(text, n + 1) /\ NewlineAt(text, n + 1) = p + m
  <2>1. NewlineAt(text, n + 1) = p + m
    <3>1. NewlineAt(text, Rank(text, p + m)) = p + m
      BY <1>3, NewlineOfRank
    <3> QED
      BY <1>3, <3>1
  <2>2. ASSUME NEW k \in 1 .. n + 1 PROVE \E i \in Newlines(text) : Rank(text, i) = k
    <3>1. k \in 1 .. n \/ k = n + 1
      BY <1>1
    <3> HIDE DEF p, m, n
    <3> QED
      BY <1>2, <1>3, <3>1 DEF HasNewlines
  <2> QED
    BY <2>1, <2>2 DEF HasNewlines
<1>5. p \in Nat /\ p <= Len(text)
  <2>1. n \in 0 .. n
    BY <1>1
  <2>2. p \in 0 .. Len(text)
    BY <1>1, <1>2, <2>1, NewlineAtType
  <2> QED
    BY <1>1, <2>2
<1>6. rest \in Text /\ Len(rest) = Len(text) - p
  <2> HIDE DEF p
  <2> QED
    BY <1>2, <1>5, RestOfText
<1>7. m \in Nat /\ 1 <= m /\ m <= Len(rest)
  BY <1>6, FirstNewline, NewlineType
<1>8. /\ FirstLine(rest) = Chomped(sent)
      /\ AfterFirst(rest) = SubSeq(rest, m + 1, Len(rest))
  BY DEF FirstLine, AfterFirst
<1> HIDE DEF p, m, n
<1>9. sent = SubSeq(text, p + 1, p + m - 1) /\ sent \in Text /\ Len(sent) = m - 1
  <2>1. /\ 1 \in Nat /\ 1 <= 1 /\ m - 1 \in Nat /\ m - 1 <= Len(rest)
        /\ m - 1 <= Len(text) - p /\ p + (m - 1) = p + m - 1
        /\ (IF 1 <= m - 1 THEN (m - 1) - 1 + 1 ELSE 0) = m - 1
    BY <1>1, <1>5, <1>6, <1>7
  <2>2. SubSeq(SubSeq(text, p + 1, Len(text)), 1, m - 1) = SubSeq(text, p + 1, p + (m - 1))
    BY <1>5, <2>1, PartOfRest
  <2>3. sent \in Text /\ Len(sent) = IF 1 <= m - 1 THEN (m - 1) - 1 + 1 ELSE 0
    BY <1>6, <2>1, PartOfText
  <2> QED
    BY <1>2, <2>1, <2>2, <2>3
<1>10. /\ AfterFirst(rest) = SubSeq(text, (p + m) + 1, Len(text))
       /\ AfterFirst(rest) \in Text /\ Len(AfterFirst(rest)) = Len(rest) - m
  <2>1. /\ m + 1 \in Nat /\ 1 <= m + 1 /\ Len(rest) \in Nat /\ Len(rest) <= Len(text) - p
        /\ p + (m + 1) = (p + m) + 1 /\ p + Len(rest) = Len(text)
    BY <1>1, <1>5, <1>6, <1>7
  <2>2. SubSeq(SubSeq(text, p + 1, Len(text)), m + 1, Len(rest)) =
           SubSeq(text, p + (m + 1), p + Len(rest))
    BY <1>5, <2>1, PartOfRest
  <2>3. SubSeq(rest, m + 1, Len(rest)) \in Text /\ Len(SubSeq(rest, m + 1, Len(rest))) = Len(rest) - m
    BY <1>6, <1>7, RestOfText
  <2> QED
    BY <1>2, <1>8, <2>1, <2>2, <2>3
<1> HIDE DEF sent
<1>11. /\ FirstLine(rest) \in Text /\ Len(FirstLine(rest)) <= Len(sent)
       /\ LineOf(sent, FirstLine(rest))
  BY <1>8, <1>9, ChompedLine
<1>12. Len(FirstLine(rest)) < Len(rest) /\ Len(AfterFirst(rest)) < Len(rest)
  <2> DEFINE first == Len(FirstLine(rest))
             after == Len(AfterFirst(rest))
             whole == Len(rest)
  <2>1. first \in Nat /\ whole \in Nat
    BY <1>6, <1>11, NewlineType
  <2>2. first <= m - 1 /\ after = whole - m
    BY <1>9, <1>10, <1>11
  <2> HIDE DEF first, after, whole
  <2>3. first < whole /\ after < whole
    BY <1>7, <2>1, <2>2 DEF whole
  <2> QED
    BY <2>3 DEF first, after, whole
<1>13. /\ Len(more) = n + 1 /\ DOMAIN more = 1 .. n + 1
       /\ \A k \in 1 .. n : more[k] = ls[k]
       /\ more[n + 1] = FirstLine(rest)
  <2>1. /\ more \in Seq(Text) /\ Len(more) = Len(ls) + 1
        /\ \A k \in 1 .. Len(ls) : more[k] = ls[k]
        /\ more[Len(ls) + 1] = FirstLine(rest)
    BY <1>11, AppendProperties
  <2>2. DOMAIN more = 1 .. Len(more)
    BY <2>1, LenProperties
  <2> QED
    BY <2>1, <2>2 DEF n
<1> HIDE DEF more
<1>14. ASSUME NEW k \in DOMAIN more
       PROVE  LineOf(SubSeq(text, NewlineAt(text, k - 1) + 1, NewlineAt(text, k) - 1), more[k])
  <2>1. CASE k = n + 1
    <3>1. NewlineAt(text, k - 1) = p /\ NewlineAt(text, k) = p + m
      <4>1. (n + 1) - 1 = n
        BY <1>1
      <4> QED
        BY <1>4, <2>1, <4>1 DEF p
    <3>2. more[k] = FirstLine(rest)
      BY <1>13, <2>1
    <3> QED
      <4>1. SubSeq(text, NewlineAt(text, k - 1) + 1, NewlineAt(text, k) - 1) = sent
        BY <1>5, <1>7, <1>9, <3>1
      <4> QED
        BY <1>11, <3>2, <4>1
  <2>2. CASE k # n + 1
    <3>1. k \in 1 .. n
      BY <1>1, <1>13, <2>2
    <3> QED
      BY <1>1, <1>13, <3>1 DEF Framed
  <2> QED
    BY <2>1, <2>2
<1>15. Framed(text, more, AfterFirst(rest))
  BY <1>4, <1>10, <1>13, <1>14 DEF Framed
<1> QED
  BY <1>6, <1>10, <1>11, <1>12, <1>15 DEF more

-----------------------------------------------------------------------------
(* read_line.                                                              *)

ShortLines(ls) == \A i \in DOMAIN ls : Len(ls[i]) < AG_LINE_BUFFER

LineInv ==
    /\ LineTypeOK
    /\ ReceivedLineIsNotAwaited
    /\ OnlyOverlongIsRefused
    /\ Framed(stream, lines, receive_buffer)

\* extract_line on a buffer that stands in the stream: the line it takes
\* always fits the caller's.
LEMMA ExtractKeeps ==
    ASSUME NEW text \in Text, NEW buffer \in Text, Len(buffer) <= AG_LINE_BUFFER,
           lines \in Seq(Text), ShortLines(lines), Framed(text, lines, buffer),
           extract_line(buffer)
    PROVE  /\ receive_buffer' \in Text /\ Len(receive_buffer') <= AG_LINE_BUFFER
           /\ lines' \in Seq(Text) /\ ShortLines(lines')
           /\ Framed(text, lines', receive_buffer')
           /\ returned' \in {"line", "nothing"}
           /\ returned' = "nothing" => Newlines(receive_buffer') = {}
<1>1. AG_LINE_BUFFER \in Nat /\ Len(buffer) \in Nat
  BY LineAssumption, NewlineType
<1>2. CASE Newlines(buffer) # {}
  <2> DEFINE first == FirstLine(buffer)
             after == AfterFirst(buffer)
  <2>1. /\ Framed(text, Append(lines, first), after)
        /\ first \in Text /\ after \in Text
        /\ Len(first) < Len(buffer) /\ Len(after) < Len(buffer)
    BY <1>2, FramedTakes
  <2>2. Len(first) \in Nat /\ Len(after) \in Nat
    BY <2>1, NewlineType
  <2>3. ReturnLine(buffer)
    BY <1>2 DEF extract_line
  <2>4. IF Len(first) + 1 > AG_LINE_BUFFER
        THEN receive_buffer' = buffer /\ returned' = "too long" /\ UNCHANGED lines
        ELSE receive_buffer' = after /\ lines' = Append(lines, first) /\ returned' = "line"
    BY <2>3 DEF ReturnLine
  <2> HIDE DEF first, after
  <2>5. ~(Len(first) + 1 > AG_LINE_BUFFER) /\ Len(after) <= AG_LINE_BUFFER
        /\ Len(first) < AG_LINE_BUFFER
    BY <1>1, <2>1, <2>2
  <2>6. receive_buffer' = after /\ lines' = Append(lines, first) /\ returned' = "line"
    BY <2>4, <2>5
  <2>7. Append(lines, first) \in Seq(Text) /\ ShortLines(Append(lines, first))
    <3> DEFINE more == Append(lines, first)
    <3>1. /\ more \in Seq(Text) /\ Len(more) = Len(lines) + 1
          /\ \A k \in 1 .. Len(lines) : more[k] = lines[k]
          /\ more[Len(lines) + 1] = first
      BY <2>1, AppendProperties
    <3> HIDE DEF more
    <3>2. DOMAIN more = 1 .. Len(more) /\ DOMAIN lines = 1 .. Len(lines) /\ Len(lines) \in Nat
      BY <3>1, LenProperties
    <3>3. ASSUME NEW i \in DOMAIN more PROVE Len(more[i]) < AG_LINE_BUFFER
      <4>1. i = Len(lines) + 1 \/ i \in DOMAIN lines
        BY <3>1, <3>2
      <4> QED
        BY <2>5, <3>1, <3>2, <4>1 DEF ShortLines
    <3> QED
      BY <3>1, <3>3 DEF ShortLines, more
  <2> QED
    BY <2>1, <2>5, <2>6, <2>7
<1>3. CASE Newlines(buffer) = {}
  <2>1. receive_buffer' = buffer /\ returned' = "nothing" /\ lines' = lines
    BY <1>3 DEF extract_line
  <2> QED
    BY <1>3, <2>1
<1> QED
  BY <1>2, <1>3

\* What recv adds to the buffer.
LEMMA RecvKeeps ==
    ASSUME LineInv, NEW n \in 1 .. MaxStream - Len(stream),
           NEW chunk \in [1 .. n -> Bytes], Recv(chunk)
    PROVE  LineInv'
<1> DEFINE buffer == receive_buffer \o chunk
<1>1. /\ receive_buffer \in Text /\ stream \in Text /\ lines \in Seq(Text)
      /\ ShortLines(lines) /\ Framed(stream, lines, receive_buffer)
  BY DEF LineInv, LineTypeOK, Text, ShortLines
<1>2. /\ AG_LINE_BUFFER \in Nat /\ MaxStream \in Nat /\ Len(stream) \in Nat
      /\ Len(receive_buffer) \in Nat
  BY <1>1, LineAssumption, NewlineType
<1>3. chunk \in Text
  <2>1. n \in Nat
    BY <1>2
  <2> QED
    BY <2>1, SeqDef DEF Text
<1>4. Len(chunk) \in Nat /\ Len(chunk) \in 1 .. AG_LINE_BUFFER - Len(receive_buffer)
  BY <1>3, NewlineType DEF Recv, Room
<1>5. stream \o chunk \in Text /\ buffer \in Text /\ Len(buffer) = Len(receive_buffer) + Len(chunk)
  BY <1>1, <1>3, NewlinesStay
<1>6. Framed(stream \o chunk, lines, buffer)
  BY <1>1, <1>3, FramedGrows
<1>7. extract_line(buffer) /\ stream' = stream \o chunk /\ read_pc' = "called"
  BY DEF Recv, Received
<1> HIDE DEF buffer
<1>8. Len(buffer) <= AG_LINE_BUFFER
  BY <1>2, <1>4, <1>5
<1>9. /\ receive_buffer' \in Text /\ Len(receive_buffer') <= AG_LINE_BUFFER
      /\ lines' \in Seq(Text) /\ ShortLines(lines')
      /\ Framed(stream', lines', receive_buffer')
      /\ returned' \in {"line", "nothing"}
      /\ returned' = "nothing" => Newlines(receive_buffer') = {}
  BY <1>1, <1>5, <1>6, <1>7, <1>8, ExtractKeeps
<1> QED
  BY <1>5, <1>7, <1>9 DEF LineInv, LineTypeOK, ReceivedLineIsNotAwaited,
     OnlyOverlongIsRefused, Text, ShortLines

LEMMA LineInvKept == LineInv /\ [Next]_line_vars => LineInv'
<1> SUFFICES ASSUME LineInv, [Next]_line_vars PROVE LineInv'
  OBVIOUS
<1>1. /\ receive_buffer \in Text /\ stream \in Text /\ lines \in Seq(Text)
      /\ ShortLines(lines) /\ Framed(stream, lines, receive_buffer)
      /\ Len(receive_buffer) <= AG_LINE_BUFFER
  BY DEF LineInv, LineTypeOK, Text, ShortLines
<1>2. CASE ReadBuffered
  <2>1. extract_line(receive_buffer) /\ UNCHANGED <<read_pc, stream>> /\ read_pc = "called"
    BY <1>2 DEF ReadBuffered
  <2>2. /\ receive_buffer' \in Text /\ Len(receive_buffer') <= AG_LINE_BUFFER
        /\ lines' \in Seq(Text) /\ ShortLines(lines')
        /\ Framed(stream, lines', receive_buffer')
        /\ returned' \in {"line", "nothing"}
        /\ returned' = "nothing" => Newlines(receive_buffer') = {}
    BY <1>1, <2>1, ExtractKeeps
  <2> QED
    BY <1>1, <2>1, <2>2 DEF LineInv, LineTypeOK, ReceivedLineIsNotAwaited,
       OnlyOverlongIsRefused, Text, ShortLines
<1>3. CASE ReadFull
  BY <1>3 DEF ReadFull, LineInv, LineTypeOK, ReceivedLineIsNotAwaited, OnlyOverlongIsRefused
<1>4. CASE ReadPolls
  BY <1>4 DEF ReadPolls, LineInv, LineTypeOK, ReceivedLineIsNotAwaited, OnlyOverlongIsRefused
<1>5. CASE PollNothing \/ PollFails
  BY <1>5 DEF PollNothing, PollFails, LineInv, LineTypeOK, ReceivedLineIsNotAwaited,
     OnlyOverlongIsRefused
<1>6. CASE \E n \in 1 .. MaxStream - Len(stream) :
              \E chunk \in [1 .. n -> Bytes] : Recv(chunk)
  BY <1>6, RecvKeeps
<1>7. CASE UNCHANGED line_vars
  BY <1>7 DEF line_vars, LineInv, LineTypeOK, ReceivedLineIsNotAwaited, OnlyOverlongIsRefused
<1> QED
  BY <1>2, <1>3, <1>4, <1>5, <1>6, <1>7 DEF Next

LEMMA LineInvInit == Init => LineInv
<1> SUFFICES ASSUME Init PROVE LineInv
  OBVIOUS
<1>1. <<>> \in Text /\ <<>> \in Seq(Text) /\ Len(<<>>) = 0 /\ AG_LINE_BUFFER \in Nat
  BY EmptySeq, LineAssumption DEF Text
<1>2. ASSUME NEW i \in DOMAIN <<>> PROVE FALSE
  OBVIOUS
<1>3. /\ stream = <<>> /\ lines = <<>> /\ receive_buffer = <<>>
      /\ read_pc = "called" /\ returned = "nothing"
  BY DEF Init
<1>4. Newlines(<<>>) = {}
  BY <1>2 DEF Newlines
<1>5. Framed(<<>>, <<>>, <<>>)
  <2>1. HasNewlines(<<>>, 0)
    BY DEF HasNewlines
  <2>2. <<>> = SubSeq(<<>>, NewlineAt(<<>>, 0) + 1, 0)
    <3>1. NewlineAt(<<>>, 0) = 0
      BY DEF NewlineAt
    <3>2. SubSeq(<<>>, 1, 0) = <<>>
      BY SubSeqEmpty
    <3> QED
      BY <3>1, <3>2
  <2> QED
    BY <1>1, <1>2, <2>1, <2>2 DEF Framed
<1>6. Len(receive_buffer) <= AG_LINE_BUFFER
  BY <1>1, <1>3
<1> QED
  BY <1>1, <1>2, <1>3, <1>4, <1>5, <1>6 DEF LineInv, LineTypeOK, ReceivedLineIsNotAwaited,
     OnlyOverlongIsRefused, Text

LEMMA LineInvHolds == Spec => []LineInv
BY LineInvInit, LineInvKept, PTL DEF Spec

(***************************************************************************)
(* The receive buffer never holds more than it can, and neither does the   *)
(* line a caller is given with its NUL.                                    *)
(***************************************************************************)
THEOREM BufferNeverOverflows == Spec => []LineTypeOK
<1>1. LineInv => LineTypeOK
  BY DEF LineInv
<1> QED
  BY <1>1, LineInvHolds, PTL

(***************************************************************************)
(* However recv cuts the stream, the lines read_line returned are the      *)
(* first lines of it, each once, in order and without CR LF, and the       *)
(* buffer holds exactly the bytes after them.                              *)
(***************************************************************************)
THEOREM LinesAlwaysTheStream == Spec => []LinesAreTheStream
<1>1. LineInv => LinesAreTheStream
  <2> SUFFICES ASSUME LineInv PROVE LinesAreTheStream
    OBVIOUS
  <2>1. stream \in Text /\ lines \in Seq(Text) /\ Framed(stream, lines, receive_buffer)
    BY DEF LineInv, LineTypeOK, Text
  <2>2. Len(lines) <= Cardinality(Newlines(stream))
    <3> DEFINE n == Len(lines)
    <3>1. n \in Nat /\ HasNewlines(stream, n)
      BY <2>1, LenProperties DEF Framed
    <3>2. Cardinality(Newlines(stream)) \in Nat
      BY <2>1, UntilIsFinite, FS_CardinalityType
    <3>3. CASE n = 0
      BY <3>1, <3>2, <3>3
    <3>4. CASE n # 0
      <4>1. n \in 1 .. n
        BY <3>1, <3>4
      <4>2. PICK i \in Newlines(stream) : Rank(stream, i) = n
        BY <3>1, <4>1 DEF HasNewlines
      <4> QED
        BY <2>1, <4>2, UntilIsFinite
    <3> QED
      BY <3>3, <3>4
  <2> QED
    BY <2>1, <2>2 DEF LinesAreTheStream, Framed, LineOf
<1> QED
  BY <1>1, LineInvHolds, PTL

(***************************************************************************)
(* A line that has been received completely is never waited for.           *)
(***************************************************************************)
THEOREM LineNeverAwaited == Spec => []ReceivedLineIsNotAwaited
<1>1. LineInv => ReceivedLineIsNotAwaited
  BY DEF LineInv
<1> QED
  BY <1>1, LineInvHolds, PTL

(***************************************************************************)
(* extract_line's own length test never fails, and read_line gives up only *)
(* on a full buffer without a newline.                                     *)
(***************************************************************************)
THEOREM OnlyOverlongEverRefused == Spec => []OnlyOverlongIsRefused
<1>1. LineInv => OnlyOverlongIsRefused
  BY DEF LineInv
<1> QED
  BY <1>1, LineInvHolds, PTL

=============================================================================
