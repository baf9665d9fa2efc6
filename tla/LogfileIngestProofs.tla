------------------------ MODULE LogfileIngestProofs -------------------------
(***************************************************************************)
(* The proofs of LogfileIngest, for any bytes, block size, number of files *)
(* and of rotations.                                                       *)
(***************************************************************************)
EXTENDS LogfileIngest, WellFoundedInduction, TLAPS

Byte == Chars \cup {NewLine}
Text == Seq(Byte)
Series == Seq(Text)

(* The functions from some of the files.                                   *)
Tables(S) == UNION {[D -> S] : D \in SUBSET Nat}

-----------------------------------------------------------------------------
(* Sequences. *)

(* A sequence is its length and its elements. *)
LEMMA SeqFacts ==
    ASSUME NEW S, NEW s \in Seq(S)
    PROVE  /\ Len(s) \in Nat /\ DOMAIN s = 1..Len(s)
           /\ \A i \in 1..Len(s) : s[i] \in S
           /\ Len(s) = 0 <=> s = <<>>
           /\ <<>> \in Seq(S)
OBVIOUS

(* Two sequences with the same elements are equal. *)
LEMMA SeqEqual ==
    ASSUME NEW S, NEW s \in Seq(S), NEW t \in Seq(S), Len(s) = Len(t),
           \A i \in 1..Len(s) : s[i] = t[i]
    PROVE  s = t
<1>1. s = [i \in 1..Len(s) |-> s[i]] /\ t = [i \in 1..Len(t) |-> t[i]]
  OBVIOUS
<1>2. QED
  BY <1>1

(* The piece of a sequence from m to n. *)
LEMMA PieceFacts ==
    ASSUME NEW S, NEW s \in Seq(S), NEW m \in Nat \ {0}, NEW n \in Nat,
           m <= n + 1, n <= Len(s)
    PROVE  /\ SubSeq(s, m, n) \in Seq(S)
           /\ Len(SubSeq(s, m, n)) = n - m + 1
           /\ \A i \in 1..(n - m + 1) : SubSeq(s, m, n)[i] = s[m + i - 1]
<1>1. Len(s) \in Nat /\ \A i \in 1..Len(s) : s[i] \in S
  OBVIOUS
<1>2. SubSeq(s, m, n) = [i \in 1..(n - m + 1) |-> s[m + i - 1]]
  BY <1>1
<1>3. n - m + 1 \in Nat
  BY SMT
<1>4. \A i \in 1..(n - m + 1) : s[m + i - 1] \in S
  <2>1. ASSUME NEW i \in 1..(n - m + 1) PROVE m + i - 1 \in 1..Len(s)
    BY <1>1
  <2>2. QED
    BY <1>1, <2>1
<1>5. QED
  BY <1>2, <1>3, <1>4

(* One sequence behind another. *)
LEMMA ConcatFacts ==
    ASSUME NEW S, NEW s \in Seq(S), NEW t \in Seq(S)
    PROVE  /\ s \o t \in Seq(S)
           /\ Len(s \o t) = Len(s) + Len(t)
           /\ \A i \in 1..Len(s) : (s \o t)[i] = s[i]
           /\ \A i \in 1..Len(t) : (s \o t)[Len(s) + i] = t[i]
<1>1. /\ s \o t \in Seq(S)
      /\ Len(s \o t) = Len(s) + Len(t)
      /\ \A i \in 1..Len(s) : (s \o t)[i] = s[i]
  OBVIOUS
<1>2. ASSUME NEW i \in 1..Len(t) PROVE (s \o t)[Len(s) + i] = t[i]
  OBVIOUS
<1>3. QED
  BY <1>1, <1>2

(* One more element. *)
LEMMA AppendFacts ==
    ASSUME NEW S, NEW s \in Seq(S), NEW e \in S
    PROVE  /\ Append(s, e) \in Seq(S)
           /\ Len(Append(s, e)) = Len(s) + 1
           /\ Append(s, e)[Len(s) + 1] = e
           /\ \A i \in 1..Len(s) : Append(s, e)[i] = s[i]
OBVIOUS

(* What it is to start a sequence. *)
LEMMA PrefixMeans ==
    ASSUME NEW S, NEW s \in Seq(S), NEW t \in Seq(S)
    PROVE  Starts(s, t) <=> Len(s) <= Len(t) /\ \A i \in 1..Len(s) : s[i] = t[i]
<1>0. Len(s) \in Nat /\ Len(t) \in Nat
  OBVIOUS
<1> SUFFICES ASSUME Len(s) <= Len(t)
             PROVE  SubSeq(t, 1, Len(s)) = s <=> \A i \in 1..Len(s) : s[i] = t[i]
  BY DEF Starts, Prefix
<1> DEFINE u == SubSeq(t, 1, Len(s))
<1>1. /\ u \in Seq(S) /\ Len(u) = Len(s) - 1 + 1
      /\ \A i \in 1..(Len(s) - 1 + 1) : u[i] = t[1 + i - 1]
  BY <1>0, PieceFacts
<1> HIDE DEF u
<1>2. Len(u) = Len(s) /\ \A i \in 1..Len(s) : u[i] = t[i]
  BY <1>0, <1>1
<1>3. ASSUME \A i \in 1..Len(s) : s[i] = t[i] PROVE u = s
  BY <1>1, <1>2, <1>3, SeqEqual
<1>4. QED
  BY <1>2, <1>3 DEF u

(* Prefixes of prefixes. *)
LEMMA PrefixTransitive ==
    ASSUME NEW S, NEW s \in Seq(S), NEW t \in Seq(S), NEW u \in Seq(S),
           Starts(s, t), Starts(t, u)
    PROVE  Starts(s, u)
<1>1. /\ Len(s) \in Nat /\ Len(t) \in Nat /\ Len(u) \in Nat
      /\ Len(s) <= Len(t) /\ Len(t) <= Len(u)
      /\ \A i \in 1..Len(s) : s[i] = t[i]
      /\ \A i \in 1..Len(t) : t[i] = u[i]
  BY PrefixMeans
<1>2. Len(s) <= Len(u) /\ \A i \in 1..Len(s) : s[i] = u[i]
  BY <1>1
<1>3. QED
  BY <1>2, PrefixMeans

(* A file is a prefix of itself, and of what is written behind it. *)
LEMMA PrefixGrows ==
    ASSUME NEW S, NEW s \in Seq(S)
    PROVE  /\ Starts(s, s)
           /\ \A e \in S : Starts(s, Append(s, e))
           /\ \A t \in Seq(S) : Starts(s, s \o t)
<1>1. Len(s) \in Nat
  OBVIOUS
<1>2. Starts(s, s)
  BY <1>1, PrefixMeans
<1>3. ASSUME NEW e \in S PROVE Starts(s, Append(s, e))
  <2> DEFINE u == Append(s, e)
  <2>1. u \in Seq(S) /\ Len(u) = Len(s) + 1 /\ \A i \in 1..Len(s) : u[i] = s[i]
    BY AppendFacts
  <2> HIDE DEF u
  <2>2. Starts(s, u)
    BY <1>1, <2>1, PrefixMeans
  <2>3. QED
    BY <2>2 DEF u
<1>4. ASSUME NEW t \in Seq(S) PROVE Starts(s, s \o t)
  <2>1. Len(t) \in Nat
    OBVIOUS
  <2> DEFINE u == s \o t
  <2>2. u \in Seq(S) /\ Len(u) = Len(s) + Len(t) /\ \A i \in 1..Len(s) : u[i] = s[i]
    BY ConcatFacts
  <2> HIDE DEF u
  <2>3. Starts(s, u)
    BY <1>1, <2>1, <2>2, PrefixMeans
  <2>4. QED
    BY <2>3 DEF u
<1>5. QED
  BY <1>2, <1>3, <1>4

(* The first n bytes are a prefix, and a sequence is one if it is those. *)
LEMMA PrefixIs ==
    ASSUME NEW S, NEW s \in Seq(S), NEW n \in 0..Len(s)
    PROVE  /\ Prefix(s, n) \in Seq(S) /\ Len(Prefix(s, n)) = n
           /\ \A i \in 1..n : Prefix(s, n)[i] = s[i]
           /\ Starts(Prefix(s, n), s)
           /\ \A t \in Seq(S) : Len(t) = n => (Prefix(s, n) = t <=> Starts(t, s))
<1>0. Len(s) \in Nat /\ n \in Nat /\ n <= Len(s)
  OBVIOUS
<1>1. /\ Prefix(s, n) \in Seq(S) /\ Len(Prefix(s, n)) = n - 1 + 1
      /\ \A i \in 1..(n - 1 + 1) : Prefix(s, n)[i] = s[1 + i - 1]
  BY <1>0, PieceFacts DEF Prefix
<1>2. /\ Prefix(s, n) \in Seq(S) /\ Len(Prefix(s, n)) = n
      /\ \A i \in 1..n : Prefix(s, n)[i] = s[i]
  BY <1>0, <1>1
<1>3. Starts(Prefix(s, n), s)
  BY <1>0, <1>2, PrefixMeans
<1>4. ASSUME NEW t \in Seq(S), Len(t) = n, Starts(t, s) PROVE Prefix(s, n) = t
  <2>1. \A i \in 1..n : t[i] = s[i]
    BY <1>4, PrefixMeans
  <2>2. QED
    BY <1>2, <1>4, <2>1, SeqEqual
<1>5. QED
  BY <1>2, <1>3, <1>4

(* A prefix and the bytes behind it, up to the n-th. *)
LEMMA PrefixAndRest ==
    ASSUME NEW S, NEW s \in Seq(S), NEW t \in Seq(S), NEW n \in 0..Len(s),
           Starts(t, s), Len(t) <= n
    PROVE  /\ SubSeq(s, Len(t) + 1, n) \in Seq(S)
           /\ t \o SubSeq(s, Len(t) + 1, n) = Prefix(s, n)
<1> DEFINE r == SubSeq(s, Len(t) + 1, n)
<1>0. Len(s) \in Nat /\ n \in Nat /\ n <= Len(s) /\ Len(t) \in Nat
      /\ Len(t) + 1 \in Nat \ {0} /\ Len(t) + 1 <= n + 1
  OBVIOUS
<1>1. /\ r \in Seq(S) /\ Len(r) = n - (Len(t) + 1) + 1
      /\ \A i \in 1..(n - (Len(t) + 1) + 1) : r[i] = s[(Len(t) + 1) + i - 1]
  BY <1>0, PieceFacts
<1> HIDE DEF r
<1>2. Len(r) = n - Len(t) /\ \A i \in 1..Len(r) : r[i] = s[Len(t) + i]
  BY <1>0, <1>1
<1> DEFINE q == t \o r
<1>3. /\ q \in Seq(S) /\ Len(q) = n
      /\ \A i \in 1..Len(t) : q[i] = t[i]
      /\ \A i \in 1..Len(r) : q[Len(t) + i] = r[i]
  BY <1>0, <1>1, <1>2, ConcatFacts
<1> HIDE DEF q
<1>4. \A i \in 1..Len(t) : t[i] = s[i]
  BY PrefixMeans
<1>5. ASSUME NEW i \in 1..n PROVE q[i] = s[i]
  <2>1. CASE i <= Len(t)
    BY <1>0, <1>3, <1>4, <2>1
  <2>2. CASE i > Len(t)
    <3>1. PICK j \in 1..Len(r) : i = Len(t) + j
      <4>1. i - Len(t) \in 1..Len(r) /\ i = Len(t) + (i - Len(t))
        BY <1>0, <1>2, <2>2
      <4>2. QED
        BY <4>1, Zenon
    <3>2. QED
      BY <1>2, <1>3, <3>1, Zenon
  <2>3. QED
    BY <1>0, <2>1, <2>2
<1>6. /\ Prefix(s, n) \in Seq(S) /\ Len(Prefix(s, n)) = n
      /\ \A i \in 1..n : Prefix(s, n)[i] = s[i]
  BY PrefixIs
<1>7. q = Prefix(s, n)
  BY <1>3, <1>5, <1>6, SeqEqual
<1>8. QED
  BY <1>1, <1>7 DEF q, r

(* Less of what comes behind a prefix. *)
LEMMA PrefixShorter ==
    ASSUME NEW S, NEW s \in Seq(S), NEW t \in Seq(S), NEW n \in 0..Len(t)
    PROVE  Starts(s \o Prefix(t, n), s \o t)
<1>0. Len(s) \in Nat /\ Len(t) \in Nat /\ n <= Len(t) /\ n \in Nat
  OBVIOUS
<1> DEFINE w == Prefix(t, n)
<1>1. w \in Seq(S) /\ Len(w) = n /\ \A i \in 1..n : w[i] = t[i]
  BY PrefixIs
<1> HIDE DEF w
<1> DEFINE p == s \o w
           q == s \o t
<1>2. /\ p \in Seq(S) /\ Len(p) = Len(s) + n
      /\ \A i \in 1..Len(s) : p[i] = s[i]
      /\ \A i \in 1..n : p[Len(s) + i] = w[i]
  <2>0. w \in Seq(S)
    BY <1>1
  <2>1. /\ p \in Seq(S) /\ Len(p) = Len(s) + Len(w)
        /\ \A i \in 1..Len(s) : p[i] = s[i]
        /\ \A i \in 1..Len(w) : p[Len(s) + i] = w[i]
    BY <2>0, ConcatFacts
  <2> HIDE DEF p
  <2>2. QED
    BY <1>1, <2>1
<1>3. /\ q \in Seq(S) /\ Len(q) = Len(s) + Len(t)
      /\ \A i \in 1..Len(s) : q[i] = s[i]
      /\ \A i \in 1..Len(t) : q[Len(s) + i] = t[i]
  BY ConcatFacts
<1> HIDE DEF p, q
<1>4. ASSUME NEW i \in 1..Len(p) PROVE p[i] = q[i]
  <2>1. CASE i <= Len(s)
    BY <1>0, <1>2, <1>3, <2>1
  <2>2. CASE i > Len(s)
    <3>1. PICK j \in 1..n : i = Len(s) + j
      <4>1. i - Len(s) \in 1..n /\ i = Len(s) + (i - Len(s))
        BY <1>0, <1>2, <2>2
      <4>2. QED
        BY <4>1, Zenon
    <3>2. j \in 1..Len(t)
      BY <1>0
    <3>3. QED
      BY <1>1, <1>2, <1>3, <3>1, <3>2
  <2>3. QED
    BY <1>0, <1>2, <2>1, <2>2
<1>5. Len(p) <= Len(q)
  BY <1>0, <1>2, <1>3
<1>6. Starts(p, q)
  BY <1>2, <1>3, <1>4, <1>5, PrefixMeans, Zenon
<1>7. QED
  BY <1>6 DEF p, q, w

-----------------------------------------------------------------------------
(* The content of a series, and the whole lines of a text. *)

(* A set of natural numbers has a smallest one. *)
LEMMA Smallest ==
    ASSUME NEW T, T \subseteq Nat, T # {}
    PROVE  \E x \in T : \A y \in T : x <= y
<1>1. PICK x \in T : \A y \in T : ~ (<<y, x>> \in OpToRel(<, Nat))
  BY NatLessThanWellFounded, WFMin, Zenon
<1>2. ASSUME NEW y \in T PROVE ~ (y < x)
  <2>1. ~ (<<y, x>> \in OpToRel(<, Nat)) /\ y \in Nat /\ x \in Nat
    BY <1>1, Zenon
  <2>2. QED
    BY <2>1, SMT DEF OpToRel
<1>3. \A y \in T : x <= y
  BY <1>2, SMT
<1>4. QED
  BY <1>3

(* f gives the content of the first i versions, for each i up to n. *)
Reads(f, s, n) ==
    f = [i \in 0..n |-> IF i = 0 THEN <<>> ELSE f[i - 1] \o s[i]]

(* Any number of versions can be read. *)
LEMMA ReadExists ==
    ASSUME NEW S, NEW s \in Seq(S), NEW n \in 0..Len(s)
    PROVE  \E f : Reads(f, s, n)
<1> SUFFICES ASSUME \A f : ~ Reads(f, s, n)
             PROVE  FALSE
  OBVIOUS
<1> DEFINE T == {m \in 0..Len(s) : \A f : ~ Reads(f, s, m)}
<1>0. Len(s) \in Nat
  OBVIOUS
<1>1. T \subseteq Nat /\ T # {}
  BY <1>0
<1>2. PICK m \in T : \A k \in T : m <= k
  BY <1>1, Smallest, Zenon
<1>3. m \in Nat /\ m <= Len(s) /\ \A f : ~ Reads(f, s, m)
  BY <1>0, <1>2
<1>4. CASE m = 0
  <2> DEFINE g == [i \in 0..0 |-> <<>>]
  <2>1. \A i \in 0..0 : i = 0
    OBVIOUS
  <2>2. g = [i \in 0..0 |-> IF i = 0 THEN <<>> ELSE g[i - 1] \o s[i]]
    BY <2>1
  <2>3. Reads(g, s, 0)
    BY <2>2, Zenon DEF Reads
  <2>4. QED
    BY <1>3, <1>4, <2>3
<1>5. CASE m # 0
  <2>1. m - 1 \in 0..Len(s) /\ ~ (m <= m - 1) /\ m - 1 \in Nat
    BY <1>0, <1>3, <1>5
  <2>2. PICK f : Reads(f, s, m - 1)
    BY <1>2, <2>1
  <2> DEFINE last == f[m - 1] \o s[m]
             g == [i \in 0..m |-> IF i = m THEN last ELSE f[i]]
  <2> HIDE DEF last
  <2>3. ASSUME NEW i \in 0..m
        PROVE  g[i] = IF i = 0 THEN <<>> ELSE g[i - 1] \o s[i]
    <3>0. i # 0 => g[i - 1] = f[i - 1]
      <4>1. i # 0 => i - 1 \in 0..m /\ i - 1 # m
        BY <1>3
      <4>2. QED
        BY <4>1
    <3>1. CASE i = m
      <4>1. g[i] = last
        BY <3>1
      <4>2. QED
        BY <1>5, <3>0, <3>1, <4>1, Zenon DEF last
    <3>2. CASE i # m
      <4>1. i \in 0..(m - 1) /\ g[i] = f[i]
        BY <1>3, <3>2
      <4>2. f[i] = IF i = 0 THEN <<>> ELSE f[i - 1] \o s[i]
        BY <2>2, <4>1, Zenon DEF Reads
      <4>3. QED
        BY <3>0, <4>1, <4>2
    <3>3. QED
      BY <3>1, <3>2
  <2>4. g = [i \in 0..m |-> g[i]]
    OBVIOUS
  <2> HIDE DEF g
  <2>5. Reads(g, s, m)
    BY <2>3, <2>4, Zenon DEF Reads
  <2>6. QED
    BY <1>3, <2>5
<1>6. QED
  BY <1>4, <1>5

(* The same, one version at a time. *)
Unfolds(f, s, n) == \A i \in 0..n : f[i] = IF i = 0 THEN <<>> ELSE f[i - 1] \o s[i]

(* The first n versions of two series are the same texts. *)
Alike(s, t, n, B) == \A i \in 1..n : s[i] \in Seq(B) /\ s[i] = t[i]
Agree(f, g, n, B) == f[n] \in Seq(B) /\ f[n] = g[n]

(* The content of the first i versions has its type, and does not depend on  *)
(* the versions behind them.                                                 *)
LEMMA ReadFacts ==
    ASSUME NEW B, NEW n \in Nat, NEW s, NEW t, NEW f, NEW g,
           Alike(s, t, n, B), Unfolds(f, s, n), Unfolds(g, t, n)
    PROVE  Agree(f, g, n, B)
<1> USE DEF Agree
<1> DEFINE T == {i \in 0..n : ~ (f[i] \in Seq(B) /\ f[i] = g[i])}
<1> SUFFICES ASSUME T # {}
             PROVE  FALSE
  OBVIOUS
<1>1. T \subseteq Nat
  <2>1. T \subseteq 0..n
    BY Zenon
  <2> HIDE DEF T
  <2>2. QED
    BY <2>1
<1>2. PICK m \in T : \A j \in T : m <= j
  BY <1>1, Smallest, Zenon
<1>3. m \in 0..n
  BY <1>2
<1>4. /\ f[m] = IF m = 0 THEN <<>> ELSE f[m - 1] \o s[m]
      /\ g[m] = IF m = 0 THEN <<>> ELSE g[m - 1] \o t[m]
  BY <1>3, Zenon DEF Unfolds
<1>5. CASE m = 0
  <2>1. f[m] = <<>> /\ g[m] = <<>> /\ <<>> \in Seq(B)
    BY <1>4, <1>5
  <2>2. QED
    BY <1>2, <2>1, Zenon
<1>6. CASE m # 0
  <2>1. m \in 1..n /\ m - 1 \in 0..n /\ ~ (m <= m - 1)
    BY <1>3, <1>6
  <2>2. s[m] \in Seq(B) /\ s[m] = t[m]
    BY <2>1, Zenon DEF Alike
  <2>3. f[m - 1] \in Seq(B) /\ f[m - 1] = g[m - 1]
    BY <1>2, <2>1
  <2>4. f[m] = g[m]
    BY <1>4, <1>6, <2>2, <2>3, Zenon
  <2>5. f[m - 1] \o s[m] \in Seq(B)
    BY <2>2, <2>3, ConcatFacts
  <2>6. f[m] \in Seq(B)
    BY <1>4, <1>6, <2>5, Zenon
  <2>7. QED
    BY <1>2, <2>4, <2>6
<1>7. QED
  BY <1>5, <1>6

(* What Content computes. *)
LEMMA ContentIs ==
    ASSUME NEW S, NEW s \in Seq(S)
    PROVE  \E f : Unfolds(f, s, Len(s)) /\ Content(s) = f[Len(s)]
<1>0. Len(s) \in 0..Len(s)
  <2>1. Len(s) \in Nat
    OBVIOUS
  <2>2. QED
    BY <2>1
<1> DEFINE F == CHOOSE f : Reads(f, s, Len(s))
<1>1. \E f : Reads(f, s, Len(s))
  BY <1>0, ReadExists
<1>2. Reads(F, s, Len(s))
  BY <1>1, Zenon
<1>3. Content(s) = F[Len(s)]
  BY Zenon DEF Content, Reads
<1> HIDE DEF F
<1>4. Unfolds(F, s, Len(s))
  BY <1>2, Zenon DEF Reads, Unfolds
<1>5. QED
  BY <1>3, <1>4

(* A series without versions is empty. *)
LEMMA ContentEmpty == Content(<<>>) = <<>>
<1>1. <<>> \in Seq(Nat) /\ Len(<<>>) = 0
  OBVIOUS
<1>2. PICK f : Unfolds(f, <<>>, 0) /\ Content(<<>>) = f[0]
  BY <1>1, ContentIs, Zenon
<1>3. 0 \in 0..0
  OBVIOUS
<1>4. QED
  BY <1>2, <1>3, Zenon DEF Unfolds

(* A series has a text, and a new version puts its bytes behind it. *)
LEMMA ContentFacts ==
    ASSUME NEW B, NEW s \in Seq(Seq(B)), NEW x \in Seq(B)
    PROVE  /\ Content(s) \in Seq(B)
           /\ Content(Append(s, x)) = Content(s) \o x
<1> DEFINE t == Append(s, x)
           n == Len(s)
<1>0. n \in Nat /\ \A i \in 1..n : s[i] \in Seq(B)
  BY SeqFacts
<1>1. /\ t \in Seq(Seq(B)) /\ Len(t) = n + 1 /\ t[n + 1] = x
      /\ \A i \in 1..n : t[i] = s[i]
  BY AppendFacts
<1>2. PICK f : Unfolds(f, s, n) /\ Content(s) = f[n]
  BY ContentIs
<1> HIDE DEF t, n
<1>3. PICK g : Unfolds(g, t, n + 1) /\ Content(t) = g[n + 1]
  BY <1>1, ContentIs
<1>4. n + 1 \in 0..(n + 1) /\ n + 1 # 0 /\ (n + 1) - 1 = n /\ 0..n \subseteq 0..(n + 1)
  BY <1>0
<1>5. g[n + 1] = g[n] \o x
  BY <1>1, <1>3, <1>4, Zenon DEF Unfolds
<1>6. Unfolds(g, t, n)
  BY <1>3, <1>4, Zenon DEF Unfolds
<1>7. Alike(s, t, n, B)
  BY <1>0, <1>1, Zenon DEF Alike
<1>8. Agree(f, g, n, B)
  BY <1>0, <1>2, <1>6, <1>7, ReadFacts, Zenon
<1>9. QED
  BY <1>2, <1>3, <1>5, <1>8 DEF t, Agree

(* The last newline of a text. *)
LEMMA LastLine ==
    ASSUME NEW s \in Text
    PROVE  \E k \in 0..Len(s) :
              /\ CompleteLines(s) = Prefix(s, k)
              /\ k # 0 => s[k] = NewLine
<1> DEFINE T == {0} \cup {i \in 1..Len(s) : s[i] = NewLine}
           n == Len(s)
           U == {j \in 0..n : n - j \in T}
<1>0. n \in Nat /\ T \subseteq 0..n /\ 0 \in T
  BY DEF Text
<1> HIDE DEF T, n
<1>1. U \subseteq Nat /\ n \in U
  BY <1>0
<1> HIDE DEF U
<1>2. PICK u \in U : \A v \in U : u <= v
  BY <1>1, Smallest, Zenon
<1>3. u \in 0..n /\ n - u \in T
  BY <1>2 DEF U
<1>4. ASSUME NEW y \in T PROVE n - u >= y
  <2>1. n - y \in 0..n /\ n - (n - y) = y
    BY <1>0
  <2>2. n - y \in U
    BY <2>1 DEF U
  <2>3. u <= n - y
    BY <1>2, <2>2
  <2>4. QED
    BY <1>0, <1>3, <2>3
<1>5. Max(T) \in T
  BY <1>3, <1>4, Zenon DEF Max
<1>6. CompleteLines(s) = Prefix(s, Max(T))
  BY DEF CompleteLines, T
<1>7. Max(T) # 0 => s[Max(T)] = NewLine
  BY <1>5 DEF T
<1>8. Max(T) \in 0..Len(s)
  BY <1>0, <1>5, Zenon DEF n
<1>9. QED
  BY <1>6, <1>7, <1>8

-----------------------------------------------------------------------------
(* Tables: files, and series, by name. *)

(* A table maps some names to values. *)
LEMMA TableFacts ==
    ASSUME NEW S, NEW f \in Tables(S)
    PROVE  DOMAIN f \subseteq Nat /\ \A n \in DOMAIN f : f[n] \in S
BY Zenon DEF Tables

(* A function on some names is a table. *)
LEMMA TableIs ==
    ASSUME NEW S, NEW D, D \subseteq Nat, NEW f \in [D -> S]
    PROVE  f \in Tables(S) /\ DOMAIN f = D
BY DEF Tables

(* A table with a new value. *)
LEMMA WithFacts ==
    ASSUME NEW S, NEW f \in Tables(S), NEW k \in Nat, NEW v \in S
    PROVE  /\ With(f, k, v) \in Tables(S)
           /\ DOMAIN With(f, k, v) = DOMAIN f \cup {k}
           /\ With(f, k, v)[k] = v
           /\ \A n \in DOMAIN f : n # k => With(f, k, v)[n] = f[n]
<1>1. DOMAIN f \subseteq Nat /\ \A n \in DOMAIN f : f[n] \in S
  BY TableFacts
<1>2. With(f, k, v) \in [DOMAIN f \cup {k} -> S]
  BY <1>1 DEF With
<1>3. DOMAIN f \cup {k} \subseteq Nat
  BY <1>1
<1>4. With(f, k, v) \in Tables(S)
  BY <1>2, <1>3, TableIs
<1>5. QED
  BY <1>4 DEF With

(* A table without a name. *)
LEMMA WithoutFacts ==
    ASSUME NEW S, NEW f \in Tables(S), NEW k \in Nat
    PROVE  /\ Without(f, k) \in Tables(S)
           /\ DOMAIN Without(f, k) = DOMAIN f \ {k}
           /\ \A n \in DOMAIN f : n # k => Without(f, k)[n] = f[n]
<1>1. DOMAIN f \subseteq Nat /\ \A n \in DOMAIN f : f[n] \in S
  BY TableFacts
<1>2. Without(f, k) \in [DOMAIN f \ {k} -> S]
  BY <1>1 DEF Without
<1>3. DOMAIN f \ {k} \subseteq Nat
  BY <1>1
<1>4. Without(f, k) \in Tables(S)
  BY <1>2, <1>3, TableIs
<1>5. QED
  BY <1>4 DEF Without

(* The empty text in a concatenation. *)
LEMMA ConcatEmpty ==
    ASSUME NEW s \in Text
    PROVE  s \o <<>> = s /\ <<>> \o s = s
BY DEF Text

(* The text of a table's series. *)
TextOf(f, n) == IF n \in DOMAIN f THEN Content(f[n]) ELSE <<>>

(* The text of a series is a text. *)
LEMMA TextIs ==
    ASSUME NEW f \in Tables(Series), NEW n
    PROVE  TextOf(f, n) \in Text /\ <<>> \in Text /\ <<>> \in Series
<1>1. <<>> \in Text /\ <<>> \in Series
  BY DEF Text, Series
<1>2. n \in DOMAIN f => Content(f[n]) \in Text
  BY <1>1, TableFacts, ContentFacts DEF Text, Series
<1>3. QED
  BY <1>1, <1>2 DEF TextOf

(* One more version of a series: its text goes on, the rest is untouched. *)
LEMMA AppendedFacts ==
    ASSUME NEW work \in Tables(Series), NEW name, NEW slice \in Text
    PROVE  LET s == IF name \in DOMAIN work THEN work[name] ELSE <<>>
           IN  /\ s \in Series
               /\ Appended(work, name, slice) \in Series
               /\ Content(Appended(work, name, slice)) = TextOf(work, name) \o slice
               /\ Len(Appended(work, name, slice)) = Len(s) + 1
               /\ Appended(work, name, slice)[Len(s) + 1] = slice
               /\ \A i \in 1..Len(s) : Appended(work, name, slice)[i] = s[i]
<1> DEFINE s == IF name \in DOMAIN work THEN work[name] ELSE <<>>
           t == Appended(work, name, slice)
<1>1. s \in Series
  BY TableFacts, TextIs
<1>2. Content(s) = TextOf(work, name)
  BY ContentEmpty, Zenon DEF TextOf
<1>3. t = Append(s, slice)
  BY DEF Appended
<1> HIDE DEF s, t
<1>4. /\ t \in Series /\ Len(t) = Len(s) + 1
      /\ t[Len(s) + 1] = slice
      /\ \A i \in 1..Len(s) : t[i] = s[i]
  BY <1>1, <1>3, AppendFacts DEF Series
<1>5. Content(t) = Content(s) \o slice
  BY <1>1, <1>3, ContentFacts DEF Series, Text
<1>6. QED
  BY <1>1, <1>2, <1>4, <1>5 DEF s, t

(* append_version: the named series has one more version, unless it is empty. *)
LEMMA AppendVersionFacts ==
    ASSUME NEW work \in Tables(Series), NEW name \in Nat, NEW slice \in Text
    PROVE  /\ AppendVersion(work, name, slice) \in Tables(Series)
           /\ DOMAIN work \subseteq DOMAIN AppendVersion(work, name, slice)
           /\ DOMAIN AppendVersion(work, name, slice) \subseteq DOMAIN work \cup {name}
           /\ \A n \in DOMAIN work : n # name => AppendVersion(work, name, slice)[n] = work[n]
           /\ name \in DOMAIN AppendVersion(work, name, slice) =>
                Content(AppendVersion(work, name, slice)[name]) = TextOf(work, name) \o slice
           /\ slice = <<>> => AppendVersion(work, name, slice) = work
           /\ slice # <<>> => /\ name \in DOMAIN AppendVersion(work, name, slice)
                              /\ AppendVersion(work, name, slice)[name]
                                   = Appended(work, name, slice)
<1> DEFINE t == Appended(work, name, slice)
<1>1. t \in Series /\ Content(t) = TextOf(work, name) \o slice
  BY AppendedFacts
<1> HIDE DEF t
<1>2. CASE slice = <<>>
  <2>1. AppendVersion(work, name, slice) = work
    BY <1>2 DEF AppendVersion
  <2>2. name \in DOMAIN work => TextOf(work, name) = Content(work[name])
    BY DEF TextOf
  <2>3. TextOf(work, name) \o <<>> = TextOf(work, name)
    BY TextIs, ConcatEmpty
  <2>4. QED
    BY <1>2, <2>1, <2>2, <2>3
<1>3. CASE slice # <<>>
  <2>1. AppendVersion(work, name, slice) = With(work, name, t)
    BY <1>3 DEF AppendVersion, t
  <2>2. /\ With(work, name, t) \in Tables(Series)
        /\ DOMAIN With(work, name, t) = DOMAIN work \cup {name}
        /\ With(work, name, t)[name] = t
        /\ \A n \in DOMAIN work : n # name => With(work, name, t)[n] = work[n]
    <3>1. t \in Series
      BY <1>1
    <3>2. QED
      BY <3>1, WithFacts
  <2>3. QED
    BY <1>1, <1>3, <2>1, <2>2 DEF t
<1>4. QED
  BY <1>2, <1>3

(* What is stored of a text: its first k bytes, and with timestamps these    *)
(* end at a newline unless the file is final.                                *)
LEMMA SliceFacts ==
    ASSUME NEW s \in Text, NEW final \in BOOLEAN
    PROVE  \E k \in 0..Len(s) :
              /\ IngestibleSlice(s, final) = Prefix(s, k)
              /\ IngestibleSlice(s, final) \in Text
              /\ final => IngestibleSlice(s, final) = s
              /\ aligned /\ ~final /\ IngestibleSlice(s, final) # <<>>
                   => EndsLine(IngestibleSlice(s, final))
<1>0. Len(s) \in Nat /\ Len(s) \in 0..Len(s)
  BY DEF Text
<1>1. CASE final \/ ~aligned
  <2>1. IngestibleSlice(s, final) = s
    BY <1>1 DEF IngestibleSlice
  <2>2. Prefix(s, Len(s)) = s
    BY <1>0, PrefixIs, PrefixGrows DEF Text
  <2>3. QED
    BY <1>0, <1>1, <2>1, <2>2
<1>2. CASE ~ (final \/ ~aligned)
  <2>1. IngestibleSlice(s, final) = CompleteLines(s)
    BY <1>2 DEF IngestibleSlice
  <2>2. PICK k \in 0..Len(s) : /\ CompleteLines(s) = Prefix(s, k)
                               /\ k # 0 => s[k] = NewLine
    BY LastLine
  <2> DEFINE t == Prefix(s, k)
  <2>3. t \in Text /\ Len(t) = k /\ \A i \in 1..k : t[i] = s[i]
    BY PrefixIs DEF Text
  <2> HIDE DEF t
  <2>4. t # <<>> => k # 0 /\ k \in 1..k
    <3>1. Len(t) = 0 => t = <<>>
      BY <2>3, SeqFacts DEF Text
    <3>2. QED
      BY <1>0, <2>3, <3>1
  <2>5. t # <<>> => EndsLine(t)
    BY <2>2, <2>3, <2>4 DEF EndsLine
  <2>6. QED
    BY <1>2, <2>1, <2>2, <2>3, <2>5 DEF t
<1>3. QED
  BY <1>1, <1>2

-----------------------------------------------------------------------------
(* The invariant. *)

Runs == [pc : {"idle", "scan", "detect", "archived", "active", "verify", "commit"},
         archived : SUBSET Nat, size : Nat \cup {NoSize}, suffix : Text,
         exact : BOOLEAN, work : Tables(Series), rotated : BOOLEAN]

TypeInv ==
    /\ rotations \in Nat /\ aligned \in BOOLEAN /\ blind \in BOOLEAN
    /\ host \in Tables(Text) /\ pond \in Tables(Series) /\ run \in Runs
    /\ DOMAIN host \subseteq 0..rotations
    /\ DOMAIN pond \subseteq DOMAIN host \cup {Active}
    /\ run.archived \subseteq DOMAIN host \ {Active}
    /\ DOMAIN run.work \subseteq DOMAIN pond \cup run.archived \cup {Active}
    /\ run.pc \in {"scan", "detect"} => run.work = pond
    /\ run.pc = "verify" => Active \in DOMAIN run.work

(* The versions of f are whole records. *)
Records(a, f) ==
    a => \A n \in DOMAIN f : \A i \in DOMAIN f[n] :
            (n = Active \/ i < Len(f[n])) => EndsLine(f[n][i])

(* The series of f mirror the files of h. *)
Mirrors(f, h) ==
    /\ \A a \in DOMAIN f \ {Active} : Content(f[a]) = h[a]
    /\ Active \in DOMAIN f => \E n \in DOMAIN h : Starts(Content(f[Active]), h[n])

(* A text is how the active file begins, or a file the run has not seen: one *)
(* that a rotation during the run has archived.                              *)
Seen(r) == r.archived \cup DOMAIN r.work
Follows(c, r, h) ==
    \/ Active \in DOMAIN h /\ Starts(c, h[Active])
    \/ \E a \in DOMAIN h \ Seen(r) : Starts(c, h[a])

(* The active series is as it was, and none of the archived files that were  *)
(* new to the run begins with it.                                            *)
Unmatched(r, p, h) ==
    /\ Active \in DOMAIN p /\ r.work[Active] = p[Active]
    /\ \A a \in r.archived \ DOMAIN p : ~ Starts(Content(p[Active]), h[a])

(* Between the read of the active file and the check of its prefix. *)
Verifying(r, h) ==
    r.pc = "verify" =>
        /\ r.exact => Follows(Content(r.work[Active]) \o r.suffix, r, h)
        /\ ~ r.rotated =>
             /\ Active \in DOMAIN h /\ Len(Content(r.work[Active])) <= Len(h[Active])
             /\ r.exact <=> Starts(Content(r.work[Active]), h[Active])

(* The run knows which file the active series follows, or leaves the series  *)
(* as it found it.                                                           *)
Tracks(r, p, h, b) ==
    r.size # NoSize /\ Active \in DOMAIN r.work =>
        /\ r.pc \in {"archived", "active"} =>
             /\ Active \in DOMAIN p /\ r.work[Active] = p[Active]
             /\ \/ r.size > Len(Content(p[Active]))
                \/ Follows(Content(p[Active]), r, h)
                \/ Unmatched(r, p, h)
        /\ r.pc = "commit" /\ ~ b =>
             Follows(Content(r.work[Active]), r, h) \/ Unmatched(r, p, h)

IngestInv ==
    /\ Records(aligned, pond) /\ Records(aligned, run.work)
    /\ ~ blind => Mirrors(pond, host) /\ Mirrors(run.work, host)
    /\ Verifying(run, host)
    /\ Tracks(run, pond, host, blind)

(* A new pond, and no run. *)
LEMMA IngestInit == Init => TypeInv /\ IngestInv
<1>0. ASSUME NEW f \in Tables(Text), NEW e \in Text
      PROVE  With(f, Active, e) \in Tables(Text) /\ DOMAIN With(f, Active, e) = DOMAIN f \cup {Active}
  <2>1. Active \in Nat
    BY DEF Active
  <2>2. QED
    BY <2>1, WithFacts
<1> SUFFICES ASSUME Init PROVE TypeInv /\ IngestInv
  OBVIOUS
<1>1. \A S : <<>> \in Tables(S) /\ DOMAIN <<>> = {}
  <2>1. \A S : <<>> \in [{} -> S]
    OBVIOUS
  <2>2. QED
    BY <2>1 DEF Tables
<1>2. <<>> \in Text
  BY DEF Text
<1>3. host \in Tables(Text) /\ DOMAIN host = {Active}
  <2>1. <<>> \in Tables(Text)
    BY <1>1
  <2>3. PICK e \in Text : e = <<>>
    BY <1>2
  <2>4. PICK f \in Tables(Text) : f = <<>>
    BY <2>1
  <2>5. With(f, Active, e) \in Tables(Text) /\ DOMAIN With(f, Active, e) = DOMAIN f \cup {Active}
    BY <1>0, Zenon
  <2>6. QED
    BY <1>1, <2>3, <2>4, <2>5 DEF Init
<1>4. Idle \in Runs /\ Idle.work = <<>> /\ Idle.archived = {} /\ Idle.pc = "idle"
  BY <1>1, <1>2 DEF Idle, Runs, NoSize
<1>5. TypeInv
  BY <1>1, <1>3, <1>4 DEF Init, TypeInv, Active
<1>6. IngestInv
  BY <1>1, <1>4 DEF Init, IngestInv, Records, Mirrors, Verifying, Tracks
<1>7. QED
  BY <1>5, <1>6

-----------------------------------------------------------------------------
(* The logger. *)

(* No byte is lost: an archived file stays, and the active file grows or is  *)
(* archived under a new name.                                                *)
Grown(h, h2, new) ==
    /\ \A n \in DOMAIN h \ {Active} : n \in DOMAIN h2 /\ h2[n] = h[n]
    /\ Active \in DOMAIN h =>
         \/ Active \in DOMAIN h2 /\ Starts(h[Active], h2[Active])
         \/ new \in DOMAIN h2 /\ h2[new] = h[Active]

Logger == (\E byte \in Byte : Write(byte)) \/ Rotate \/ CreateActive

(* The logger changes the host as described, and nothing else. *)
LEMMA LoggerEffects ==
    ASSUME TypeInv, Logger
    PROVE  /\ Grown(host, host', rotations + 1)
           /\ host' \in Tables(Text) /\ DOMAIN host' \subseteq 0..rotations'
           /\ rotations' \in {rotations, rotations + 1}
           /\ UNCHANGED <<pond, aligned, blind>>
           /\ \E v \in BOOLEAN : run' = [run EXCEPT !.rotated = v]
           /\ ~ run'.rotated /\ run.pc # "idle" =>
                /\ ~ run.rotated
                /\ Active \in DOMAIN host =>
                     Active \in DOMAIN host' /\ Starts(host[Active], host'[Active])
<1>0. /\ host \in Tables(Text) /\ rotations \in Nat /\ DOMAIN host \subseteq 0..rotations
      /\ run \in Runs /\ Active \in Nat
  BY DEF TypeInv, Active
<1>1. DOMAIN host \subseteq Nat /\ \A n \in DOMAIN host : host[n] \in Text
  BY <1>0, TableFacts
<1>2. run' = run => \E v \in BOOLEAN : run' = [run EXCEPT !.rotated = v]
  <2>1. run.rotated \in BOOLEAN /\ run = [run EXCEPT !.rotated = run.rotated]
    BY <1>0 DEF Runs
  <2>2. QED
    BY <2>1
<1>3. ASSUME NEW byte \in Byte, Write(byte)
      PROVE  /\ Grown(host, host', rotations + 1)
             /\ host' \in Tables(Text) /\ DOMAIN host' = DOMAIN host
             /\ UNCHANGED <<rotations, pond, aligned, blind, run>>
             /\ Active \in DOMAIN host' /\ Starts(host[Active], host'[Active])
  <2>1. /\ Active \in DOMAIN host /\ UNCHANGED <<rotations, pond, aligned, blind, run>>
        /\ host' = [host EXCEPT ![Active] = Append(host[Active], byte)]
    BY <1>3 DEF Write
  <2> DEFINE new == Append(host[Active], byte)
  <2>2. new \in Text
    BY <1>1, <1>3, <2>1, AppendFacts DEF Text
  <2>3. Starts(host[Active], new)
    BY <1>1, <1>3, <2>1, PrefixGrows DEF Text
  <2> HIDE DEF new
  <2>4. DOMAIN host' = DOMAIN host /\ host'[Active] = new
        /\ \A n \in DOMAIN host : n # Active => host'[n] = host[n]
    BY <2>1 DEF new
  <2>5. host' \in [DOMAIN host -> Text]
    <3>1. host \in [DOMAIN host -> Text]
      BY <1>0, <1>1 DEF Tables
    <3>2. QED
      BY <2>1, <2>2, <3>1 DEF new
  <2>6. host' \in Tables(Text)
    BY <1>1, <2>5, TableIs
  <2>7. QED
    BY <2>1, <2>3, <2>4, <2>6, Zenon DEF Grown
<1>4. ASSUME Rotate
      PROVE  /\ Grown(host, host', rotations + 1)
             /\ host' \in Tables(Text) /\ DOMAIN host' \subseteq DOMAIN host \cup {rotations + 1}
             /\ rotations' = rotations + 1
             /\ UNCHANGED <<pond, aligned, blind>>
             /\ \E v \in BOOLEAN : run' = [run EXCEPT !.rotated = v]
             /\ run.pc # "idle" => run'.rotated
  <2>1. /\ Active \in DOMAIN host /\ rotations' = rotations + 1
        /\ host' = With(Without(host, Active), rotations + 1, host[Active])
        /\ UNCHANGED <<pond, aligned, blind>>
        /\ run' = [run EXCEPT !.rotated = (run.pc # "idle")]
    BY <1>4 DEF Rotate
  <2> DEFINE w == Without(host, Active)
  <2>2. /\ w \in Tables(Text) /\ DOMAIN w = DOMAIN host \ {Active}
        /\ \A n \in DOMAIN host : n # Active => w[n] = host[n]
    BY <1>0, WithoutFacts, Zenon
  <2> HIDE DEF w
  <2>3. rotations + 1 \in Nat /\ host[Active] \in Text /\ rotations + 1 \notin DOMAIN host
    BY <1>0, <1>1, <2>1
  <2>4. /\ host' \in Tables(Text) /\ DOMAIN host' = DOMAIN w \cup {rotations + 1}
        /\ host'[rotations + 1] = host[Active]
        /\ \A n \in DOMAIN w : n # rotations + 1 => host'[n] = w[n]
    BY <2>1, <2>2, <2>3, WithFacts DEF w
  <2>5. Grown(host, host', rotations + 1)
    BY <2>2, <2>3, <2>4 DEF Grown
  <2>6. (run.pc # "idle") \in BOOLEAN
    OBVIOUS
  <2>7. run.pc # "idle" => run'.rotated
    BY <1>0, <2>1, Zenon DEF Runs
  <2>8. QED
    BY <2>1, <2>2, <2>4, <2>5, <2>6, <2>7, Zenon
<1>5. ASSUME CreateActive
      PROVE  /\ Grown(host, host', rotations + 1)
             /\ host' \in Tables(Text) /\ DOMAIN host' = DOMAIN host \cup {Active}
             /\ UNCHANGED <<rotations, pond, aligned, blind, run>>
             /\ Active \notin DOMAIN host
  <2>1. <<>> \in Text
    BY DEF Text
  <2>2. Active \notin DOMAIN host /\ host' = With(host, Active, <<>>)
        /\ UNCHANGED <<rotations, pond, aligned, blind, run>>
    BY <1>5 DEF CreateActive
  <2>3. /\ host' \in Tables(Text) /\ DOMAIN host' = DOMAIN host \cup {Active}
        /\ \A n \in DOMAIN host : n # Active => host'[n] = host[n]
    <3>1. host \in Tables(Text)
      BY <1>0
    <3>2. Active \in Nat
      BY <1>0
    <3>3. PICK e \in Text : e = <<>>
      BY <2>1
    <3>4. /\ With(host, Active, e) \in Tables(Text)
          /\ DOMAIN With(host, Active, e) = DOMAIN host \cup {Active}
          /\ \A n \in DOMAIN host : n # Active => With(host, Active, e)[n] = host[n]
      BY <3>1, <3>2, WithFacts
    <3>5. QED
      BY <2>2, <3>3, <3>4
  <2>4. QED
    BY <2>2, <2>3 DEF Grown
<1>6. CASE \E byte \in Byte : Write(byte)
  BY <1>0, <1>2, <1>3, <1>6
<1>7. CASE Rotate
  <2>1. DOMAIN host' \subseteq 0..rotations'
    BY <1>0, <1>4, <1>7
  <2>2. QED
    BY <1>4, <1>7, <2>1
<1>8. CASE CreateActive
  <2>1. DOMAIN host' \subseteq 0..rotations'
    BY <1>0, <1>5, <1>8 DEF Active
  <2>2. QED
    BY <1>2, <1>5, <1>8, <2>1
<1>9. QED
  BY <1>6, <1>7, <1>8 DEF Logger

(* What begins a text no longer than it begins the longer text. *)
LEMMA PrefixKept ==
    ASSUME NEW S, NEW t \in Seq(S), NEW s \in Seq(S), NEW u \in Seq(S),
           Starts(s, u), Len(t) <= Len(s)
    PROVE  /\ Len(s) <= Len(u) /\ Len(t) <= Len(u)
           /\ Starts(t, s) <=> Starts(t, u)
<1>0. Len(t) \in Nat /\ Len(s) \in Nat /\ Len(u) \in Nat
  BY SeqFacts
<1>1. Len(s) <= Len(u) /\ \A i \in 1..Len(s) : s[i] = u[i]
  BY PrefixMeans
<1>2. Starts(t, s) <=> \A i \in 1..Len(t) : t[i] = s[i]
  BY PrefixMeans
<1>3. Len(t) <= Len(u)
  BY <1>0, <1>1
<1>4. Starts(t, u) <=> \A i \in 1..Len(t) : t[i] = u[i]
  BY <1>3, PrefixMeans
<1>5. \A i \in 1..Len(t) : s[i] = u[i]
  BY <1>0, <1>1
<1>6. QED
  BY <1>1, <1>2, <1>3, <1>4, <1>5

(* What a run knows of the host stays true while the logger goes on. *)
LEMMA GrownKeeps ==
    ASSUME NEW h \in Tables(Text), NEW h2 \in Tables(Text), NEW new \in Nat \ {Active},
           new \notin DOMAIN h, Grown(h, h2, new)
    PROVE  /\ DOMAIN h \subseteq DOMAIN h2 \cup {Active}
           /\ \A c \in Text : (\E n \in DOMAIN h : Starts(c, h[n])) =>
                                \E n \in DOMAIN h2 : Starts(c, h2[n])
           /\ \A r : \A c \in Text : new \notin Seen(r) /\ Follows(c, r, h) => Follows(c, r, h2)
<1>1. \A n \in DOMAIN h : h[n] \in Text
  BY TableFacts
<1>2. \A n \in DOMAIN h2 : h2[n] \in Text
  BY TableFacts
<1>3. ASSUME NEW c \in Text, Active \in DOMAIN h, Starts(c, h[Active])
      PROVE  \/ Active \in DOMAIN h2 /\ Starts(c, h2[Active])
             \/ new \in DOMAIN h2 /\ Starts(c, h2[new])
  <2>1. CASE Active \in DOMAIN h2 /\ Starts(h[Active], h2[Active])
    <3>1. h[Active] \in Text /\ h2[Active] \in Text
      BY <1>1, <1>2, <1>3, <2>1
    <3>2. Starts(c, h2[Active])
      BY <1>3, <2>1, <3>1, PrefixTransitive DEF Text
    <3>3. QED
      BY <2>1, <3>2
  <2>2. CASE new \in DOMAIN h2 /\ h2[new] = h[Active]
    BY <1>3, <2>2
  <2>3. QED
    BY <1>3, <2>1, <2>2 DEF Grown
<1>4. \A n \in DOMAIN h \ {Active} : n \in DOMAIN h2 /\ h2[n] = h[n]
  BY DEF Grown
<1>5. ASSUME NEW c \in Text, NEW n \in DOMAIN h, Starts(c, h[n])
      PROVE  \E m \in DOMAIN h2 : Starts(c, h2[m])
  <2>1. CASE n = Active
    BY <1>3, <1>5, <2>1
  <2>2. CASE n # Active
    BY <1>4, <1>5, <2>2
  <2>3. QED
    BY <2>1, <2>2
<1>6. ASSUME NEW c \in Text, NEW r, new \notin Seen(r), Follows(c, r, h)
      PROVE  Follows(c, r, h2)
  <2>1. CASE Active \in DOMAIN h /\ Starts(c, h[Active])
    BY <1>3, <1>6, <2>1 DEF Follows
  <2>2. CASE \E a \in DOMAIN h \ Seen(r) : Starts(c, h[a])
    <3>1. PICK a \in DOMAIN h \ Seen(r) : Starts(c, h[a])
      BY <2>2
    <3>2. CASE a = Active
      BY <1>3, <1>6, <3>1, <3>2 DEF Follows
    <3>3. CASE a # Active
      BY <1>4, <3>1, <3>3 DEF Follows
    <3>4. QED
      BY <3>2, <3>3
  <2>3. QED
    BY <1>6, <2>1, <2>2 DEF Follows
<1>7. QED
  BY <1>4, <1>5, <1>6

(* The logger disturbs nothing of it. *)
LEMMA LoggerKeeps ==
    ASSUME TypeInv, IngestInv, Logger
    PROVE  TypeInv' /\ IngestInv'
<1>0. /\ host \in Tables(Text) /\ host' \in Tables(Text) /\ run \in Runs
      /\ pond \in Tables(Series) /\ rotations \in Nat /\ rotations + 1 \in Nat \ {Active}
      /\ DOMAIN host \subseteq 0..rotations /\ DOMAIN host' \subseteq 0..rotations'
      /\ rotations' \in Nat
  BY LoggerEffects DEF TypeInv, Active
<1>1. /\ pond' = pond /\ aligned' = aligned /\ blind' = blind
      /\ Grown(host, host', rotations + 1) /\ rotations + 1 \notin DOMAIN host
  BY <1>0, LoggerEffects
<1>2. PICK v \in BOOLEAN : run' = [run EXCEPT !.rotated = v]
  BY LoggerEffects
<1>3. /\ run' \in Runs /\ run'.pc = run.pc /\ run'.archived = run.archived
      /\ run'.size = run.size /\ run'.suffix = run.suffix /\ run'.exact = run.exact
      /\ run'.work = run.work
  BY <1>0, <1>2 DEF Runs
<1>4. /\ rotations + 1 \notin run.archived
      /\ rotations + 1 \notin DOMAIN pond
      /\ rotations + 1 \notin DOMAIN run.work
  BY <1>0, <1>1 DEF TypeInv
<1> DEFINE h == host
           new == rotations + 1
<1>5. PICK h2 \in Tables(Text) : h2 = host'
  BY <1>0
<1>6. PICK r2 : r2 = run'
  OBVIOUS
<1>7. /\ DOMAIN h \subseteq DOMAIN h2 \cup {Active}
      /\ \A c \in Text : (\E n \in DOMAIN h : Starts(c, h[n])) =>
                            \E n \in DOMAIN h2 : Starts(c, h2[n])
      /\ \A c \in Text : Follows(c, run, h) => Follows(c, run, h2)
      /\ \A n \in DOMAIN h \ {Active} : n \in DOMAIN h2 /\ h2[n] = h[n]
  <2>1. Grown(h, h2, new) /\ new \in Nat \ {Active} /\ new \notin DOMAIN h
    BY <1>0, <1>1, <1>5
  <2>2. new \notin Seen(run)
    BY <1>4 DEF Seen
  <2>3. h \in Tables(Text)
    BY <1>0
  <2> HIDE DEF h, new
  <2>4. QED
    BY <2>1, <2>2, <2>3, GrownKeeps DEF Grown
<1>8. TypeInv'
  BY <1>0, <1>1, <1>3, <1>5, <1>7 DEF TypeInv
<1>9. ASSUME NEW f \in Tables(Series), DOMAIN f \subseteq DOMAIN h \cup {Active}, Mirrors(f, h)
      PROVE  Mirrors(f, h2)
  <2>1. \A a \in DOMAIN f \ {Active} : Content(f[a]) = h2[a]
    BY <1>7, <1>9 DEF Mirrors
  <2>2. Active \in DOMAIN f => Content(f[Active]) \in Text
    BY TextIs DEF TextOf
  <2>3. Active \in DOMAIN f => \E n \in DOMAIN h2 : Starts(Content(f[Active]), h2[n])
    BY <1>7, <1>9, <2>2 DEF Mirrors
  <2>4. QED
    BY <2>1, <2>3 DEF Mirrors
<1>10. /\ run.work \in Tables(Series) /\ DOMAIN pond \subseteq DOMAIN h \cup {Active}
       /\ DOMAIN run.work \subseteq DOMAIN h \cup {Active}
       /\ run.suffix \in Text
  BY <1>0 DEF TypeInv, Runs
<1>11. \A c : Follows(c, r2, h2) <=> Follows(c, run, h2)
  BY <1>3, <1>6 DEF Follows, Seen
<1>12. /\ Active \in DOMAIN run.work => Content(run.work[Active]) \in Text
       /\ Active \in DOMAIN pond => Content(pond[Active]) \in Text
  BY <1>0, <1>10, TextIs DEF TextOf
<1>13. Verifying(r2, h2)
  <2> SUFFICES ASSUME r2.pc = "verify" PROVE Verifying(r2, h2)
    BY DEF Verifying
  <2> DEFINE t == Content(run.work[Active])
  <2>1. run.pc = "verify" /\ Active \in DOMAIN run.work
    BY <1>3, <1>6 DEF TypeInv
  <2>2. t \in Text
    BY <1>12, <2>1
  <2>3. t \o run.suffix \in Text
    BY <1>10, <2>2, ConcatFacts DEF Text
  <2>4. run.exact => Follows(t \o run.suffix, run, h)
    BY <2>1 DEF IngestInv, Verifying
  <2>5. r2.exact => Follows(t \o r2.suffix, r2, h2)
    BY <1>3, <1>6, <1>7, <1>11, <2>3, <2>4
  <2>6. ASSUME ~ r2.rotated
        PROVE  /\ Active \in DOMAIN h2 /\ Len(t) <= Len(h2[Active])
               /\ r2.exact <=> Starts(t, h2[Active])
    <3>1. ~ run.rotated /\ (Active \in DOMAIN h =>
                              Active \in DOMAIN h2 /\ Starts(h[Active], h2[Active]))
      BY <1>5, <1>6, <2>1, <2>6, LoggerEffects
    <3>2. /\ Active \in DOMAIN h /\ Len(t) <= Len(h[Active])
          /\ run.exact <=> Starts(t, h[Active])
      BY <2>1, <3>1 DEF IngestInv, Verifying
    <3>3. h[Active] \in Text /\ h2[Active] \in Text
      BY <1>0, <3>1, <3>2, TableFacts
    <3> HIDE DEF h, t
    <3>4. /\ Len(t) <= Len(h2[Active])
          /\ Starts(t, h[Active]) <=> Starts(t, h2[Active])
      BY <2>2, <3>1, <3>2, <3>3, PrefixKept DEF Text
    <3>5. QED
      BY <1>3, <1>6, <3>1, <3>2, <3>4
  <2>7. r2.work = run.work
    BY <1>3, <1>6
  <2>8. QED
    BY <2>5, <2>6, <2>7 DEF Verifying
<1>14. Tracks(r2, pond, h2, blind)
  <2>1. Active \in DOMAIN pond /\ Unmatched(run, pond, h) => Unmatched(r2, pond, h2)
    <3>1. run.archived \subseteq DOMAIN h \ {Active}
      BY DEF TypeInv
    <3>2. \A a \in run.archived : h2[a] = h[a]
      BY <1>7, <3>1
    <3>3. QED
      BY <1>3, <1>6, <3>2 DEF Unmatched
  <2>2. Unmatched(run, pond, h) => Active \in DOMAIN pond
    BY DEF Unmatched
  <2>3. Tracks(run, pond, h, blind)
    BY DEF IngestInv
  <2> HIDE DEF h
  <2>4. QED
    BY <1>3, <1>6, <1>7, <1>11, <1>12, <2>1, <2>2, <2>3 DEF Tracks
<1>15. IngestInv'
  <2>1. ~ blind => Mirrors(pond, h2) /\ Mirrors(run.work, h2)
    BY <1>0, <1>9, <1>10 DEF IngestInv
  <2>2. Records(aligned, pond) /\ Records(aligned, run.work)
    BY DEF IngestInv
  <2>3. QED
    BY <1>1, <1>3, <1>5, <1>6, <1>13, <1>14, <2>1, <2>2 DEF IngestInv
<1>16. QED
  BY <1>8, <1>15

-----------------------------------------------------------------------------
(* The run. *)

(* A state r that the run may come to while the host and the pond stay. *)
RunOk(r, b) ==
    /\ r \in Runs /\ b \in BOOLEAN
    /\ r.archived \subseteq DOMAIN host \ {Active}
    /\ DOMAIN r.work \subseteq DOMAIN pond \cup r.archived \cup {Active}
    /\ r.pc \in {"scan", "detect"} => r.work = pond
    /\ r.pc = "verify" => Active \in DOMAIN r.work
    /\ Records(aligned, r.work)
    /\ ~ b => ~ blind /\ Mirrors(r.work, host)
    /\ Verifying(r, host)
    /\ Tracks(r, pond, host, b)

(* A step of the run keeps the invariant if it comes to such a state. *)
LEMMA RunKeeps ==
    ASSUME TypeInv, IngestInv, NEW r, NEW b, RunOk(r, b), run' = r, blind' = b,
           UNCHANGED <<host, rotations, pond, aligned>>
    PROVE  TypeInv' /\ IngestInv'
<1>1. TypeInv'
  BY DEF TypeInv, RunOk
<1>2. IngestInv'
  BY DEF IngestInv, RunOk
<1>3. QED
  BY <1>1, <1>2

(* A run that has ended. *)
LEMMA IdleOk ==
    ASSUME TypeInv, IngestInv
    PROVE  RunOk(Idle, blind)
<1>1. <<>> \in Tables(Series) /\ DOMAIN <<>> = {}
  <2>1. <<>> \in [{} -> Series]
    OBVIOUS
  <2>2. QED
    BY <2>1 DEF Tables
<1>2. <<>> \in Text
  BY DEF Text
<1>3. Idle \in Runs /\ Idle.work = <<>> /\ Idle.archived = {} /\ Idle.pc = "idle"
  BY <1>1, <1>2 DEF Idle, Runs, NoSize
<1>4. Records(aligned, <<>>) /\ Mirrors(<<>>, host)
  BY <1>1 DEF Records, Mirrors
<1>5. Verifying(Idle, host) /\ Tracks(Idle, pond, host, blind)
  BY <1>1, <1>3 DEF Verifying, Tracks
<1>6. QED
  BY <1>1, <1>3, <1>4, <1>5 DEF RunOk, TypeInv

(* A run that fails leaves the pond as it was. *)
LEMMA FailKeeps ==
    ASSUME TypeInv, IngestInv, Fail
    PROVE  TypeInv' /\ IngestInv'
BY IdleOk, RunKeeps DEF Fail, RunStep

(* The commit of a run. *)
LEMMA CommitKeeps ==
    ASSUME TypeInv, IngestInv, CommitRun
    PROVE  TypeInv' /\ IngestInv'
<1>1. /\ pond' = run.work /\ run' = Idle
      /\ UNCHANGED <<host, rotations, aligned, blind>>
  BY DEF CommitRun
<1>2. RunOk(Idle, blind)
  BY IdleOk
<1>3. run.work \in Tables(Series) /\ DOMAIN run.work \subseteq DOMAIN host \cup {Active}
  BY DEF TypeInv, Runs
<1>4. Idle.work = <<>> /\ Idle.archived = {} /\ Idle.pc = "idle" /\ DOMAIN <<>> = {}
  BY DEF Idle
<1>5. TypeInv'
  BY <1>1, <1>2, <1>3, <1>4 DEF TypeInv, RunOk
<1>6. IngestInv'
  BY <1>1, <1>2, <1>4, Zenon DEF IngestInv, RunOk, Tracks, Verifying
<1>7. QED
  BY <1>5, <1>6

(* The scans. *)
LEMMA ScanKeeps ==
    ASSUME TypeInv, IngestInv, ScanArchived \/ ScanActive
    PROVE  TypeInv' /\ IngestInv'
<1>0. /\ host \in Tables(Text) /\ run \in Runs /\ blind \in BOOLEAN /\ pond \in Tables(Series)
  BY DEF TypeInv
<1>1. CASE ScanArchived
  <2> DEFINE r == [Idle EXCEPT !.pc = "scan", !.archived = DOMAIN host \ {Active}, !.work = pond]
  <2>1. Idle \in Runs
    BY IdleOk DEF RunOk
  <2>2. /\ r \in Runs /\ r.pc = "scan" /\ r.archived = DOMAIN host \ {Active} /\ r.work = pond
    <3>1. DOMAIN host \subseteq Nat
      BY <1>0, TableFacts
    <3>2. QED
      BY <1>0, <2>1, <3>1, Zenon DEF Runs
  <2> HIDE DEF r
  <2>3. RunOk(r, blind)
    BY <1>0, <2>2, Zenon DEF RunOk, IngestInv, Verifying, Tracks
  <2>4. run' = r /\ UNCHANGED <<host, rotations, pond, aligned, blind>>
    BY <1>1 DEF ScanArchived, RunStep, r
  <2>5. QED
    BY <2>3, <2>4, RunKeeps
<1>2. CASE ScanActive
  <2> DEFINE n == IF Active \in DOMAIN host THEN Len(host[Active]) ELSE NoSize
             r == [run EXCEPT !.pc = "detect", !.size = n]
  <2>1. n \in Nat \cup {NoSize}
    <3>1. Active \in DOMAIN host => host[Active] \in Text
      BY <1>0, TableFacts
    <3>2. QED
      BY <3>1 DEF Text
  <2>2. /\ r \in Runs /\ r.pc = "detect" /\ r.archived = run.archived /\ r.work = run.work
    <3> HIDE DEF n
    <3>1. QED
      BY <1>0, <2>1, Zenon DEF Runs
  <2>3. run.pc = "scan" /\ run' = r /\ UNCHANGED <<host, rotations, pond, aligned, blind>>
    BY <1>2 DEF ScanActive, RunStep
  <2> HIDE DEF r
  <2>4. RunOk(r, blind)
    BY <1>0, <2>2, <2>3, Zenon DEF RunOk, IngestInv, TypeInv, Verifying, Tracks
  <2>5. QED
    BY <2>3, <2>4, RunKeeps
<1>3. QED
  BY <1>1, <1>2

(* The first version of a series. *)
LEMMA FirstVersion ==
    ASSUME NEW work \in Tables(Series), NEW name, NEW slice \in Text, name \notin DOMAIN work
    PROVE  /\ Appended(work, name, slice) \in Series
           /\ Content(Appended(work, name, slice)) = slice
           /\ Len(Appended(work, name, slice)) = 1
           /\ Appended(work, name, slice)[1] = slice
<1> DEFINE t == Appended(work, name, slice)
<1>1. t = Append(<<>>, slice)
  BY DEF Appended
<1>2. t \in Series /\ Content(t) = TextOf(work, name) \o slice
  BY AppendedFacts
<1>3. TextOf(work, name) \o slice = slice
  BY ConcatEmpty DEF TextOf
<1>4. Len(t) = 1 /\ t[1] = slice
  <2>1. Append(<<>>, slice) = <<slice>>
    OBVIOUS
  <2>2. QED
    BY <1>1, <2>1
<1>5. QED
  BY <1>2, <1>3, <1>4

(* The archived files that are new. *)
LEMMA ArchivedKeeps ==
    ASSUME TypeInv, IngestInv, run.pc = "archived", StoreArchived
    PROVE  TypeInv' /\ IngestInv'
<1>0. /\ host \in Tables(Text) /\ run \in Runs /\ blind \in BOOLEAN
      /\ run.work \in Tables(Series) /\ run.archived \subseteq DOMAIN host \ {Active}
      /\ run.archived \subseteq Nat
  BY DEF TypeInv, Runs
<1> DEFINE new == {a \in run.archived \ DOMAIN run.work : IngestibleSlice(host[a], TRUE) # <<>>}
           w == IngestArchived(run.work)
           r == [run EXCEPT !.pc = "active", !.work = w]
<1>1. \A a \in new : IngestibleSlice(host[a], TRUE) = host[a]
  BY DEF IngestibleSlice
<1>2. /\ DOMAIN w = DOMAIN run.work \cup new
      /\ \A n \in DOMAIN run.work : w[n] = run.work[n]
      /\ \A n \in new : w[n] = Appended(run.work, n, host[n])
  BY <1>1, Zenon DEF IngestArchived
<1>3. new \subseteq run.archived \ DOMAIN run.work
  BY Zenon
<1>4. w = [n \in DOMAIN w |-> w[n]]
  BY Zenon DEF IngestArchived
<1>5. run' = r /\ UNCHANGED <<host, rotations, pond, aligned, blind>>
  BY DEF StoreArchived, RunStep
<1> HIDE DEF new, w
<1>6. ASSUME NEW n \in new
      PROVE  w[n] \in Series /\ Content(w[n]) = host[n] /\ Len(w[n]) = 1
  <2>1. host[n] \in Text /\ n \notin DOMAIN run.work
    BY <1>0, <1>3, TableFacts
  <2>2. /\ Appended(run.work, n, host[n]) \in Series
        /\ Content(Appended(run.work, n, host[n])) = host[n]
        /\ Len(Appended(run.work, n, host[n])) = 1
    <3>1. run.work \in Tables(Series)
      BY <1>0
    <3>2. QED
      BY <2>1, <3>1, FirstVersion
  <2>3. QED
    BY <1>2, <2>2
<1>7. w \in Tables(Series)
  <2>1. DOMAIN run.work \subseteq Nat /\ \A n \in DOMAIN run.work : run.work[n] \in Series
    BY <1>0, TableFacts
  <2>2. w \in [DOMAIN w -> Series]
    BY <1>2, <1>4, <1>6, <2>1
  <2>3. DOMAIN w \subseteq Nat
    BY <1>0, <1>2, <1>3, <2>1
  <2>4. QED
    BY <2>2, <2>3, TableIs
<1>8. /\ r \in Runs /\ r.pc = "active" /\ r.archived = run.archived /\ r.work = w
      /\ r.size = run.size
  BY <1>0, <1>7, Zenon DEF Runs
<1> HIDE DEF r
<1>9. Active \notin new /\ (Active \in DOMAIN w <=> Active \in DOMAIN run.work)
  BY <1>0, <1>2, <1>3
<1>10. Records(aligned, w)
  <2>1. Records(aligned, run.work)
    BY DEF IngestInv
  <2>2. ASSUME aligned, NEW n \in DOMAIN w, NEW i \in DOMAIN w[n], n = Active \/ i < Len(w[n])
        PROVE  EndsLine(w[n][i])
    <3>1. CASE n \in new
      <4>1. w[n] \in Series /\ Len(w[n]) = 1 /\ n # Active
        BY <1>6, <1>9, <3>1
      <4>2. DOMAIN w[n] = 1..1
        BY <4>1 DEF Series
      <4>3. QED
        BY <2>2, <4>1, <4>2
    <3>2. CASE n \in DOMAIN run.work
      BY <1>2, <2>1, <2>2, <3>2 DEF Records
    <3>3. QED
      BY <1>2, <3>1, <3>2
  <2>3. QED
    BY <2>2 DEF Records
<1>11. ~ blind => Mirrors(w, host)
  <2>1. ~ blind => Mirrors(run.work, host)
    BY DEF IngestInv
  <2>2. QED
    BY <1>2, <1>6, <1>9, <2>1 DEF Mirrors
<1>12. Seen(r) = Seen(run)
  BY <1>2, <1>3, <1>8 DEF Seen
<1>13. Tracks(r, pond, host, blind)
  <2>1. Tracks(run, pond, host, blind)
    BY DEF IngestInv
  <2>2. \A c : Follows(c, r, host) <=> Follows(c, run, host)
    BY <1>12 DEF Follows
  <2>3. Active \in DOMAIN w => w[Active] = run.work[Active]
    BY <1>2, <1>9
  <2>4. Active \in DOMAIN w => (Unmatched(r, pond, host) <=> Unmatched(run, pond, host))
    BY <1>8, <2>3 DEF Unmatched
  <2>5. QED
    BY <1>8, <1>9, <2>1, <2>2, <2>3, <2>4 DEF Tracks
<1>14. Verifying(r, host)
  BY <1>8 DEF Verifying
<1>15. DOMAIN w \subseteq DOMAIN pond \cup run.archived \cup {Active}
  BY <1>2, <1>3 DEF TypeInv
<1>16. RunOk(r, blind)
  BY <1>0, <1>8, <1>10, <1>11, <1>13, <1>14, <1>15 DEF RunOk
<1>17. QED
  BY <1>5, <1>16, RunKeeps

(* A file begins with a text just if its first bytes are that text. *)
LEMMA BeginsWith ==
    ASSUME NEW s \in Text, NEW t \in Text
    PROVE  /\ Len(s) \in Nat /\ Len(t) \in Nat
           /\ Starts(t, s) <=> Len(s) >= Len(t) /\ Prefix(s, Len(t)) = t
<1>1. Len(s) \in Nat /\ Len(t) \in Nat
  BY SeqFacts DEF Text
<1>2. QED
  BY <1>1 DEF Starts

(* x continues the text t as the file s, of n bytes then, does. *)
Continues(x, t, s, n) ==
    /\ x \in Text
    /\ Starts(t, s) => /\ Starts(t \o x, s)
                       /\ n = Len(s) => t \o x = s

(* The bytes of a file from those that a text has. *)
LEMMA RestOf ==
    ASSUME NEW s \in Text, NEW t \in Text, NEW n \in Nat, Len(t) <= n, n <= Len(s)
    PROVE  Continues(SubSeq(s, Len(t) + 1, n), t, s, n)
<1>1. Len(t) \in Nat /\ Len(s) \in Nat
  BY SeqFacts DEF Text
<1>2. SubSeq(s, Len(t) + 1, n) \in Text
  <2>1. Len(t) + 1 \in Nat \ {0} /\ Len(t) + 1 <= n + 1
    BY <1>1
  <2>2. QED
    BY <2>1, PieceFacts DEF Text
<1>3. n \in 0..Len(s) /\ Len(s) \in 0..Len(s)
  BY <1>1
<1>4. Starts(Prefix(s, n), s)
  BY <1>3, PrefixIs DEF Text
<1>5. Prefix(s, Len(s)) = s
  <2>1. Starts(s, s)
    BY PrefixGrows DEF Text
  <2>2. QED
    BY <2>1, BeginsWith
<1>6. Starts(t, s) => t \o SubSeq(s, Len(t) + 1, n) = Prefix(s, n)
  BY <1>3, PrefixAndRest, Zenon DEF Text
<1>7. QED
  BY <1>2, <1>4, <1>5, <1>6, Zenon DEF Continues

(* Behind whole records come whole records. *)
LEMMA RecordsAppend ==
    ASSUME NEW work \in Tables(Series), NEW slice \in Text, NEW al, Records(al, work),
           al /\ slice # <<>> => EndsLine(slice)
    PROVE  Records(al, AppendVersion(work, Active, slice))
<1>1. CASE slice = <<>>
  BY <1>1 DEF AppendVersion
<1>2. CASE slice # <<>>
  <2> DEFINE s == IF Active \in DOMAIN work THEN work[Active] ELSE <<>>
             t == Appended(work, Active, slice)
             v == AppendVersion(work, Active, slice)
  <2>1. /\ s \in Series /\ t \in Series /\ Len(t) = Len(s) + 1
        /\ t[Len(s) + 1] = slice
        /\ \A i \in 1..Len(s) : t[i] = s[i]
    BY AppendedFacts
  <2>2. Active \in Nat
    BY DEF Active
  <2>3. /\ DOMAIN v \subseteq DOMAIN work \cup {Active} /\ v[Active] = t
        /\ \A n \in DOMAIN work : n # Active => v[n] = work[n]
    BY <1>2, <2>2, AppendVersionFacts, Zenon
  <2>4. al => \A i \in 1..Len(s) : EndsLine(s[i])
    <3>1. CASE Active \in DOMAIN work
      <4>1. s = work[Active]
        BY <3>1
      <4>2. DOMAIN s = 1..Len(s)
        BY <2>1 DEF Series
      <4>3. QED
        BY <3>1, <4>1, <4>2 DEF Records
    <3>2. CASE Active \notin DOMAIN work
      <4>1. Len(s) = 0
        BY <3>2
      <4> HIDE DEF s
      <4>2. QED
        BY <4>1
    <3>3. QED
      BY <3>1, <3>2
  <2> HIDE DEF s, t, v
  <2>5. Len(s) \in Nat /\ DOMAIN t = 1..(Len(s) + 1)
    BY <2>1 DEF Series
  <2>6. al => \A i \in DOMAIN t : EndsLine(t[i])
    <3> SUFFICES ASSUME al, NEW i \in DOMAIN t PROVE EndsLine(t[i])
      OBVIOUS
    <3>1. CASE i = Len(s) + 1
      BY <1>2, <2>1, <3>1
    <3>2. CASE i # Len(s) + 1
      <4>1. i \in 1..Len(s)
        BY <2>5, <3>2
      <4>2. QED
        BY <2>1, <2>4, <4>1
    <3>3. QED
      BY <3>1, <3>2
  <2>7. Records(al, v)
    BY <2>3, <2>6 DEF Records
  <2>8. QED
    BY <2>7 DEF v
<1>3. QED
  BY <1>1, <1>2

(* The table v is work with a text behind one of its series. *)
Extends(v, work, name, slice) ==
    /\ v \in Tables(Series) /\ DOMAIN work \subseteq DOMAIN v
    /\ DOMAIN v \subseteq DOMAIN work \cup {name}
    /\ \A n \in DOMAIN work : n # name => v[n] = work[n]
    /\ name \in DOMAIN v => Content(v[name]) = TextOf(work, name) \o slice

(* append_version puts the text behind the named series. *)
LEMMA AppendVersionExtends ==
    ASSUME NEW work \in Tables(Series), NEW name \in Nat, NEW slice \in Text
    PROVE  Extends(AppendVersion(work, name, slice), work, name, slice)
<1> DEFINE v == AppendVersion(work, name, slice)
<1>1. /\ v \in Tables(Series) /\ DOMAIN work \subseteq DOMAIN v
      /\ DOMAIN v \subseteq DOMAIN work \cup {name}
      /\ \A n \in DOMAIN work : n # name => v[n] = work[n]
      /\ name \in DOMAIN v => Content(v[name]) = TextOf(work, name) \o slice
  BY AppendVersionFacts
<1> HIDE DEF v
<1>2. Extends(v, work, name, slice)
  BY <1>1 DEF Extends
<1>3. QED
  BY <1>2 DEF v

(* g is f with the series v for the file k. *)
Puts(g, f, k, v) ==
    /\ g \in Tables(Series) /\ DOMAIN g = DOMAIN f \cup {k}
    /\ g[k] = v
    /\ \A n \in DOMAIN f : n # k => g[n] = f[n]

(* A table of series with a new one. *)
LEMMA SeriesPuts ==
    \A f \in Tables(Series) : \A k \in Nat : \A v \in Series : Puts(With(f, k, v), f, k, v)
<1> TAKE f \in Tables(Series)
<1> TAKE k \in Nat
<1> TAKE v \in Series
<1>1. With(f, k, v) \in Tables(Series)
  BY WithFacts, Zenon
<1>2. /\ DOMAIN With(f, k, v) = DOMAIN f \cup {k}
      /\ With(f, k, v)[k] = v
      /\ \A n \in DOMAIN f : n # k => With(f, k, v)[n] = f[n]
  BY DEF With
<1>3. QED
  BY <1>1, <1>2, Zenon DEF Puts

(* The series of a file that was rotated is that file in whole records, and  *)
(* goes under the archived name.                                             *)
LEMMA RenameFacts ==
    ASSUME TypeInv, IngestInv, NEW a \in run.archived \ DOMAIN run.work,
           Active \in DOMAIN run.work, Starts(Content(run.work[Active]), host[a])
    PROVE  /\ RenameRotated(a) \in Tables(Series)
           /\ DOMAIN RenameRotated(a) = (DOMAIN run.work \ {Active}) \cup {a}
           /\ Records(aligned, RenameRotated(a))
           /\ ~ blind => Mirrors(RenameRotated(a), host)
<1>0. /\ host \in Tables(Text) /\ run.work \in Tables(Series)
      /\ a \in DOMAIN host /\ a # Active /\ a \in Nat /\ Active \in Nat
  BY DEF TypeInv, Runs, Active
<1>1. host[a] \in Text
  BY <1>0, TableFacts
<1> DEFINE work == run.work
           t == Content(work[Active])
           missed == SubSeq(host[a], Len(t) + 1, Len(host[a]))
           whole == AppendVersion(work, Active, missed)
           kept == Without(whole, Active)
           w == With(kept, a, whole[Active])
<1>2. w = RenameRotated(a)
  BY DEF RenameRotated, Missed
<1>3. t \in Text /\ work \in Tables(Series) /\ TextOf(work, Active) = t
  BY <1>0, TextIs DEF TextOf
<1>4. missed \in Text /\ t \o missed = host[a]
  <2>1. Len(t) <= Len(host[a]) /\ Len(host[a]) \in Nat
    BY <1>1, <1>3, BeginsWith
  <2>2. PICK f \in Text : f = host[a]
    BY <1>1
  <2>3. t \in Text
    BY <1>3
  <2> HIDE DEF t
  <2>4. Len(t) <= Len(f) /\ Len(f) \in Nat /\ Starts(t, f)
    BY <2>1, <2>2 DEF t, work
  <2>5. Len(f) <= Len(f)
    BY <2>4
  <2>6. Continues(SubSeq(f, Len(t) + 1, Len(f)), t, f, Len(f))
    BY <2>3, <2>4, <2>5, RestOf
  <2>7. missed = SubSeq(f, Len(t) + 1, Len(f))
    BY <2>2
  <2> HIDE DEF missed
  <2>8. QED
    BY <2>2, <2>4, <2>6, <2>7, Zenon DEF Continues
<1>5. Active \in DOMAIN work
  OBVIOUS
<1>6. work[Active] \in Series
  BY <1>3, <1>5, TableFacts
<1> HIDE DEF work, t, missed
<1>7. /\ whole \in Tables(Series) /\ DOMAIN whole = DOMAIN work
      /\ \A n \in DOMAIN work : n # Active => whole[n] = work[n]
      /\ Content(whole[Active]) = host[a]
  <2>1. Active \in Nat
    BY <1>0
  <2>2. missed \in Text
    BY <1>4
  <2>3. work \in Tables(Series)
    BY <1>3
  <2>4. Extends(whole, work, Active, missed)
    BY <2>1, <2>2, <2>3, AppendVersionExtends
  <2> HIDE DEF whole
  <2>5. DOMAIN whole = DOMAIN work
    BY <1>5, <2>4, Zenon DEF Extends
  <2>6. Content(whole[Active]) = host[a]
    BY <1>3, <1>4, <1>5, <2>4 DEF Extends
  <2>7. QED
    BY <2>4, <2>5, <2>6 DEF Extends
<1>8. aligned => \A i \in DOMAIN whole[Active] :
                    i < Len(whole[Active]) => EndsLine(whole[Active][i])
  <2>1. aligned => \A i \in DOMAIN work[Active] : EndsLine(work[Active][i])
    BY <1>5 DEF IngestInv, Records, work
  <2>2. CASE missed = <<>>
    <3>1. whole = work
      BY <2>2 DEF AppendVersion
    <3>2. QED
      BY <2>1, <3>1
  <2>3. CASE missed # <<>>
    <3> DEFINE u == Appended(work, Active, missed)
               s == work[Active]
    <3>1. u \in Series /\ Len(u) = Len(s) + 1 /\ \A i \in 1..Len(s) : u[i] = s[i]
      <4>1. missed \in Text
        BY <1>4
      <4>2. work \in Tables(Series)
        BY <1>3
      <4>3. QED
        BY <1>5, <4>1, <4>2, AppendedFacts
    <3>2. whole[Active] = u
      <4>1. whole = With(work, Active, u)
        BY <2>3 DEF AppendVersion
      <4>2. QED
        BY <4>1 DEF With
    <3>3. s \in Series
      BY <1>6
    <3> HIDE DEF u, s, whole
    <3>4. Len(s) \in Nat /\ DOMAIN u = 1..(Len(s) + 1) /\ DOMAIN s = 1..Len(s)
      BY <3>1, <3>3 DEF Series
    <3>5. \A i \in DOMAIN u : i < Len(u) => i \in DOMAIN s /\ u[i] = s[i]
      BY <3>1, <3>4
    <3>6. aligned => \A i \in DOMAIN s : EndsLine(s[i])
      BY <2>1 DEF s
    <3>7. QED
      BY <3>2, <3>5, <3>6
  <2>4. QED
    BY <2>2, <2>3
<1> HIDE DEF whole
<1>9. /\ kept \in Tables(Series) /\ DOMAIN kept = DOMAIN work \ {Active}
      /\ \A n \in DOMAIN kept : kept[n] = work[n]
  <2>1. Active \in Nat
    BY <1>0
  <2>2. whole \in Tables(Series)
    BY <1>7
  <2>3. /\ kept \in Tables(Series) /\ DOMAIN kept = DOMAIN whole \ {Active}
        /\ \A n \in DOMAIN whole : n # Active => kept[n] = whole[n]
    BY <2>1, <2>2, WithoutFacts, Zenon
  <2>4. QED
    BY <1>7, <2>3
<1> HIDE DEF kept
<1>10. /\ w \in Tables(Series) /\ DOMAIN w = DOMAIN kept \cup {a}
       /\ w[a] = whole[Active]
       /\ \A n \in DOMAIN kept : n # a => w[n] = kept[n]
  <2>1. kept \in Tables(Series)
    BY <1>9
  <2>2. whole[Active] \in Series
    BY <1>5, <1>7, TableFacts
  <2>3. a \in Nat
    BY <1>0
  <2>4. PICK x \in Series : x = whole[Active]
    BY <2>2
  <2>5. Puts(With(kept, a, x), kept, a, x)
    BY <2>1, <2>3, SeriesPuts, Zenon
  <2>6. QED
    BY <2>4, <2>5, Zenon DEF Puts
<1> HIDE DEF w
<1>11. DOMAIN w = (DOMAIN work \ {Active}) \cup {a}
  BY <1>9, <1>10
<1>12. \A n \in DOMAIN work : n # Active /\ n # a => w[n] = work[n]
  BY <1>9, <1>10
<1>13. Records(aligned, w)
  <2>1. Records(aligned, work)
    BY DEF IngestInv, work
  <2>2. ASSUME aligned, NEW n \in DOMAIN w, NEW i \in DOMAIN w[n], n = Active \/ i < Len(w[n])
        PROVE  EndsLine(w[n][i])
    <3>1. CASE n = a
      BY <1>0, <1>8, <1>10, <2>2, <3>1
    <3>2. CASE n # a
      <4>1. n \in DOMAIN work /\ n # Active /\ w[n] = work[n]
        BY <1>11, <1>12, <3>2
      <4>2. QED
        BY <2>1, <2>2, <4>1 DEF Records
    <3>3. QED
      BY <3>1, <3>2
  <2>3. QED
    BY <2>2 DEF Records
<1>14. ~ blind => Mirrors(w, host)
  <2>1. ~ blind => \A n \in DOMAIN work \ {Active} : Content(work[n]) = host[n]
    BY DEF IngestInv, Mirrors, work
  <2>2. Content(w[a]) = host[a]
    BY <1>7, <1>10
  <2>3. Active \notin DOMAIN w
    BY <1>0, <1>11
  <2>4. QED
    BY <1>11, <1>12, <2>1, <2>2, <2>3 DEF Mirrors
<1>15. QED
  BY <1>2, <1>10, <1>11, <1>13, <1>14 DEF work

(* The verdict on the active file, and what follows from it. *)
LEMMA DetectKeeps ==
    ASSUME TypeInv, IngestInv, DetectRotation
    PROVE  TypeInv' /\ IngestInv'
<1>0. /\ host \in Tables(Text) /\ run \in Runs /\ blind \in BOOLEAN
      /\ run.work \in Tables(Series) /\ run.pc = "detect" /\ run.work = pond
      /\ run.size \in Nat \cup {NoSize}
  BY Zenon DEF TypeInv, Runs, DetectRotation
<1> DEFINE next == [run EXCEPT !.pc = "archived"]
           t == Content(run.work[Active])
           following == run.size # NoSize /\ Active \in DOMAIN run.work
<1>1. /\ next \in Runs /\ next.pc = "archived" /\ next.archived = run.archived
      /\ next.size = run.size /\ next.work = run.work
  BY <1>0 DEF Runs
<1>2. following => t \in Text /\ run.size \in Nat
  BY <1>0, TextIs DEF TextOf
<1>3. Active \in DOMAIN host => host[Active] \in Text
  BY <1>0, TableFacts
<1>4. ASSUME following => \/ run.size > Len(t)
                          \/ Follows(t, next, host)
                          \/ Unmatched(next, pond, host)
      PROVE  RunOk(next, blind)
  <2> HIDE DEF next
  <2>1. Tracks(next, pond, host, blind)
    BY <1>0, <1>1, <1>4 DEF Tracks
  <2>2. QED
    BY <1>0, <1>1, <2>1 DEF RunOk, IngestInv, TypeInv, Verifying
<1>5. CASE Fail
  BY <1>5, FailKeeps
<1>6. CASE RunStep(next) /\ (following => MightBeRotated(t) = "no")
  <2>1. ASSUME following PROVE run.size > Len(t) \/ Follows(t, next, host)
    <3>1. Len(t) \in Nat
      BY <1>2, <2>1, SeqFacts DEF Text
    <3>2. MightBeRotated(t) = "no"
      BY <1>6, <2>1
    <3> HIDE DEF t
    <3>3. ~ (run.size < Len(t)) /\ Active \in DOMAIN host
      BY <3>2 DEF MightBeRotated
    <3>4. CASE run.size = Len(t)
      <4>1. ~ (Len(host[Active]) < Len(t)) /\ Prefix(host[Active], Len(t)) = t
        BY <3>2, <3>3, <3>4 DEF MightBeRotated
      <4>2. host[Active] \in Text
        BY <1>3, <3>3
      <4>3. t \in Text
        BY <1>2, <2>1
      <4>4. Len(host[Active]) \in Nat
        BY <4>2, SeqFacts DEF Text
      <4>5. Len(host[Active]) >= Len(t)
        BY <3>1, <4>1, <4>4
      <4>6. Starts(t, host[Active])
        BY <4>1, <4>2, <4>3, <4>5, BeginsWith
      <4>7. QED
        BY <3>3, <4>6 DEF Follows
    <3>5. CASE run.size # Len(t)
      BY <1>2, <2>1, <3>1, <3>3, <3>5
    <3>6. QED
      BY <3>4, <3>5
  <2>2. RunOk(next, blind)
    BY <1>4, <2>1
  <2>3. QED
    BY <1>6, <2>2, RunKeeps DEF RunStep
<1>7. CASE following /\ FindRotated(t) = {} /\ RunStep(next)
  <2>1. ASSUME NEW a \in run.archived \ DOMAIN pond PROVE ~ Starts(t, host[a])
    <3>1. a \in DOMAIN host
      BY DEF TypeInv
    <3>2. a \notin FindRotated(t)
      BY <1>7
    <3> HIDE DEF t
    <3>3. QED
      BY <1>0, <2>1, <3>2 DEF FindRotated
  <2>2. Unmatched(next, pond, host)
    <3> HIDE DEF next
    <3>1. QED
      BY <1>0, <1>1, <1>7, <2>1 DEF Unmatched
  <2>3. RunOk(next, blind)
    BY <1>4, <2>2
  <2>4. QED
    BY <1>7, <2>3, RunKeeps DEF RunStep
<1>8. ASSUME following, NEW a \in FindRotated(t),
             RunStep([next EXCEPT !.work = RenameRotated(a)])
      PROVE  TypeInv' /\ IngestInv'
  <2> DEFINE w == RenameRotated(a)
             r == [next EXCEPT !.work = w]
  <2>1. a \in run.archived \ DOMAIN run.work /\ Starts(t, host[a])
    BY Zenon DEF FindRotated
  <2>2. a \in DOMAIN host /\ a # Active
    BY <2>1 DEF TypeInv
  <2>4. /\ w \in Tables(Series) /\ DOMAIN w = (DOMAIN run.work \ {Active}) \cup {a}
        /\ Records(aligned, w)
        /\ ~ blind => Mirrors(w, host)
    BY <1>8, <2>1, RenameFacts
  <2> HIDE DEF w
  <2>5. /\ r \in Runs /\ r.pc = "archived" /\ r.archived = run.archived /\ r.work = w
    BY <1>1, <2>4, Zenon DEF Runs
  <2>6. run' = r /\ UNCHANGED <<host, rotations, pond, aligned, blind>>
    BY <1>8 DEF RunStep, w
  <2> HIDE DEF r
  <2>7. Active \notin DOMAIN w
    BY <2>2, <2>4
  <2>8. Tracks(r, pond, host, blind) /\ Verifying(r, host)
    BY <2>5, <2>7 DEF Tracks, Verifying
  <2>9. DOMAIN w \subseteq DOMAIN pond \cup run.archived \cup {Active}
    BY <1>0, <2>1, <2>4
  <2>10. run.archived \subseteq DOMAIN host \ {Active}
    BY DEF TypeInv
  <2>11. RunOk(r, blind)
    BY <1>0, <2>4, <2>5, <2>8, <2>9, <2>10 DEF RunOk
  <2>12. QED
    BY <2>6, <2>11, RunKeeps
<1>9. QED
  BY <1>5, <1>6, <1>7, <1>8, Zenon DEF DetectRotation

(* A new active series, or one that the run leaves as it is, or the read of  *)
(* the bytes behind the ones it has.                                         *)
LEMMA ActiveKeeps ==
    ASSUME TypeInv, IngestInv, ProcessActive
    PROVE  TypeInv' /\ IngestInv'
<1>0. /\ host \in Tables(Text) /\ run \in Runs /\ blind \in BOOLEAN /\ run.pc = "active"
      /\ run.work \in Tables(Series) /\ run.size \in Nat \cup {NoSize} /\ Active \in Nat
  BY DEF TypeInv, Runs, ProcessActive, Active
<1> DEFINE done == [run EXCEPT !.pc = "commit"]
           t == Content(run.work[Active])
<1>1. /\ done \in Runs /\ done.pc = "commit" /\ done.archived = run.archived
      /\ done.size = run.size /\ done.work = run.work
  BY <1>0 DEF Runs
<1>2. Active \in DOMAIN run.work => t \in Text /\ Len(t) \in Nat
  <2>1. Active \in DOMAIN run.work => t \in Text
    BY <1>0, TextIs DEF TextOf
  <2>2. QED
    BY <2>1, SeqFacts DEF Text
<1>3. Active \in DOMAIN host => host[Active] \in Text
  BY <1>0, TableFacts
<1>4. CASE Fail
  BY <1>4, FailKeeps
<1>5. CASE RunStep(done) /\ (run.size # NoSize => Active \in DOMAIN run.work /\ run.size <= Len(t))
  <2>1. Tracks(done, pond, host, blind)
    <3>1. Tracks(run, pond, host, blind)
      BY DEF IngestInv
    <3>2. \A c : Follows(c, done, host) <=> Follows(c, run, host)
      BY <1>1 DEF Follows, Seen
    <3>3. Unmatched(run, pond, host) => Unmatched(done, pond, host)
      BY <1>1 DEF Unmatched
    <3> HIDE DEF done
    <3>4. CASE run.size = NoSize
      BY <1>1, <3>4 DEF Tracks
    <3>5. CASE run.size # NoSize
      <4>1. run.size \in Nat /\ Active \in DOMAIN run.work /\ run.size <= Len(t) /\ Len(t) \in Nat
        BY <1>0, <1>2, <1>5, <3>5
      <4>2. ~ (run.size > Len(t))
        BY <4>1
      <4>3. run.work[Active] = pond[Active]
        BY <1>0, <3>1, <3>5, <4>1 DEF Tracks
      <4>4. Follows(t, run, host) \/ Unmatched(run, pond, host)
        BY <1>0, <3>1, <3>5, <4>1, <4>2, <4>3 DEF Tracks
      <4>5. QED
        BY <1>1, <3>2, <3>3, <4>4 DEF Tracks
    <3>6. QED
      BY <3>4, <3>5
  <2> HIDE DEF done
  <2>2. RunOk(done, blind)
    BY <1>0, <1>1, <2>1, Zenon DEF RunOk, IngestInv, TypeInv, Verifying
  <2>3. QED
    BY <1>5, <2>2, RunKeeps DEF RunStep
<1>6. CASE /\ run.size # NoSize /\ Active \notin DOMAIN run.work /\ Active \in DOMAIN host
           /\ RunStep([done EXCEPT !.work = AppendVersion(run.work, Active,
                                                IngestibleSlice(host[Active], FALSE))])
  <2> DEFINE slice == IngestibleSlice(host[Active], FALSE)
             w == AppendVersion(run.work, Active, slice)
             r == [done EXCEPT !.work = w]
  <2>1. PICK f \in Text : f = host[Active]
    BY <1>3, <1>6
  <2>2. PICK k \in 0..Len(f) : /\ slice = Prefix(f, k) /\ slice \in Text
                               /\ aligned /\ slice # <<>> => EndsLine(slice)
    BY <2>1, SliceFacts, Zenon
  <2>3. Starts(slice, host[Active])
    <3>1. Starts(Prefix(f, k), f)
      BY PrefixIs DEF Text
    <3> HIDE DEF slice
    <3>2. QED
      BY <2>1, <2>2, <3>1
  <2>4. run' = r /\ UNCHANGED <<host, rotations, pond, aligned, blind>>
    BY <1>6 DEF RunStep
  <2> HIDE DEF slice
  <2>5. run.work \in Tables(Series)
    BY <1>0
  <2>6. Active \in Nat
    BY <1>0
  <2>7. slice \in Text
    BY <2>2
  <2>8. /\ w \in Tables(Series)
        /\ DOMAIN w \subseteq DOMAIN run.work \cup {Active}
        /\ \A n \in DOMAIN run.work : n # Active => w[n] = run.work[n]
        /\ Active \in DOMAIN w => Content(w[Active]) = TextOf(run.work, Active) \o slice
    <3>1. Extends(w, run.work, Active, slice)
      BY <2>5, <2>6, <2>7, AppendVersionExtends
    <3> HIDE DEF w
    <3>2. QED
      BY <3>1 DEF Extends
  <2>9. TextOf(run.work, Active) \o slice = slice
    BY <1>6, <2>7, ConcatEmpty DEF TextOf
  <2>10. Records(aligned, w)
    <3>1. Records(aligned, run.work)
      BY DEF IngestInv
    <3>2. QED
      BY <2>2, <2>5, <2>7, <3>1, RecordsAppend
  <2> HIDE DEF w
  <2>11. /\ r \in Runs /\ r.pc = "commit" /\ r.archived = run.archived /\ r.work = w
    BY <1>1, <2>8, Zenon DEF Runs
  <2> HIDE DEF r
  <2>12. Active \in DOMAIN w => Starts(Content(w[Active]), host[Active])
    BY <2>3, <2>8, <2>9
  <2>13. ~ blind => Mirrors(w, host)
    BY <1>6, <2>8, <2>12 DEF IngestInv, Mirrors
  <2>14. Tracks(r, pond, host, blind) /\ Verifying(r, host)
    BY <1>6, <2>11, <2>12 DEF Tracks, Follows, Verifying
  <2>15. RunOk(r, blind)
    BY <1>0, <2>8, <2>10, <2>11, <2>13, <2>14 DEF RunOk, TypeInv
  <2>16. QED
    BY <2>4, <2>15, RunKeeps
<1>7. CASE /\ run.size # NoSize /\ Active \in DOMAIN run.work /\ Active \in DOMAIN host
           /\ ~ (run.size <= Len(t)) /\ ~ (Len(host[Active]) < run.size)
           /\ RunStep([run EXCEPT !.pc = "verify",
                                  !.suffix = SubSeq(host[Active], Len(t) + 1, run.size),
                                  !.exact = (Prefix(host[Active], Len(t)) = t)])
  <2> DEFINE x == SubSeq(host[Active], Len(t) + 1, run.size)
             e == (Prefix(host[Active], Len(t)) = t)
             r == [run EXCEPT !.pc = "verify", !.suffix = x, !.exact = e]
  <2>1. PICK f \in Text : f = host[Active]
    BY <1>3, <1>7
  <2>2. t \in Text /\ Len(t) \in Nat /\ Len(f) \in Nat
    BY <1>2, <1>7, <2>1, SeqFacts DEF Text
  <2>3. run.size \in Nat /\ Len(t) <= run.size /\ run.size <= Len(f)
    BY <1>0, <1>7, <2>1, <2>2
  <2>4. e \in BOOLEAN
    OBVIOUS
  <2>5. run' = r /\ UNCHANGED <<host, rotations, pond, aligned, blind>>
    BY <1>7 DEF RunStep
  <2>6. e <=> Prefix(f, Len(t)) = t
    BY <2>1
  <2>7. x = SubSeq(f, Len(t) + 1, run.size)
    BY <2>1
  <2> HIDE DEF x, e, t
  <2>8. Len(f) >= Len(t) /\ Len(t) <= Len(f)
    BY <2>2, <2>3
  <2>9. e <=> Starts(t, f)
    <3>1. t \in Text
      BY <2>2
    <3>2. QED
      BY <2>6, <2>8, <3>1, BeginsWith
  <2>10. x \in Text /\ (Starts(t, f) => Starts(t \o x, f))
    <3>1. t \in Text
      BY <2>2
    <3>2. run.size \in Nat
      BY <2>3
    <3>3. Continues(SubSeq(f, Len(t) + 1, run.size), t, f, run.size)
      BY <2>3, <3>1, <3>2, RestOf
    <3>4. QED
      BY <2>7, <3>3, Zenon DEF Continues
  <2>11. /\ r \in Runs /\ r.pc = "verify" /\ r.archived = run.archived /\ r.work = run.work
         /\ r.suffix = x /\ r.exact = e
    BY <1>0, <2>4, <2>10, Zenon DEF Runs
  <2> HIDE DEF r
  <2>12. Verifying(r, host)
    <3>1. r.exact => Follows(t \o x, r, host)
      BY <1>7, <2>1, <2>9, <2>10, <2>11 DEF Follows
    <3>2. Active \in DOMAIN host /\ Len(t) <= Len(host[Active])
          /\ (r.exact <=> Starts(t, host[Active]))
      BY <1>7, <2>1, <2>8, <2>9, <2>11
    <3>3. QED
      BY <2>11, <3>1, <3>2 DEF Verifying, t
  <2>13. Tracks(r, pond, host, blind)
    BY <2>11 DEF Tracks
  <2>14. RunOk(r, blind)
    BY <1>0, <1>7, <2>11, <2>12, <2>13 DEF RunOk, IngestInv, TypeInv
  <2>15. QED
    BY <2>5, <2>14, RunKeeps
<1>8. QED
  BY <1>1, <1>4, <1>5, <1>6, <1>7, Zenon DEF ProcessActive

(* The bytes read are stored behind the ones the series has. *)
LEMMA VerifyKeeps ==
    ASSUME TypeInv, IngestInv, VerifyAppend
    PROVE  TypeInv' /\ IngestInv'
<1>0. /\ host \in Tables(Text) /\ run \in Runs /\ blind \in BOOLEAN /\ run.pc = "verify"
      /\ run.work \in Tables(Series) /\ run.suffix \in Text /\ run.exact \in BOOLEAN
      /\ Active \in Nat /\ Active \in DOMAIN run.work
  BY DEF TypeInv, Runs, VerifyAppend, Active
<1> DEFINE t == Content(run.work[Active])
           slice == IngestibleSlice(run.suffix, FALSE)
           w == AppendVersion(run.work, Active, slice)
           b == (blind \/ ~ run.exact)
           r == [run EXCEPT !.pc = "commit", !.suffix = <<>>, !.exact = TRUE, !.work = w]
<1>1. CASE Fail
  BY <1>1, FailKeeps
<1>2. CASE run' = r /\ blind' = b /\ UNCHANGED <<host, rotations, pond, aligned>>
  <2>1. PICK x \in Text : x = run.suffix
    BY <1>0
  <2>2. PICK k \in 0..Len(x) : /\ slice = Prefix(x, k) /\ slice \in Text
                               /\ aligned /\ slice # <<>> => EndsLine(slice)
    BY <2>1, SliceFacts, Zenon
  <2>3. t \in Text /\ TextOf(run.work, Active) = t
    BY <1>0, TextIs DEF TextOf
  <2>4. Starts(t \o slice, t \o x)
    BY <2>2, <2>3, PrefixShorter, Zenon DEF Text
  <2> HIDE DEF slice
  <2>5. run.work \in Tables(Series)
    BY <1>0
  <2>6. Active \in Nat
    BY <1>0
  <2>7. slice \in Text
    BY <2>2
  <2>8. /\ w \in Tables(Series) /\ DOMAIN run.work \subseteq DOMAIN w
        /\ DOMAIN w \subseteq DOMAIN run.work \cup {Active}
        /\ \A n \in DOMAIN run.work : n # Active => w[n] = run.work[n]
        /\ Active \in DOMAIN w => Content(w[Active]) = TextOf(run.work, Active) \o slice
    <3>1. Extends(w, run.work, Active, slice)
      BY <2>5, <2>6, <2>7, AppendVersionExtends
    <3> HIDE DEF w
    <3>2. QED
      BY <3>1 DEF Extends
  <2>9. Records(aligned, w)
    <3>1. Records(aligned, run.work)
      BY DEF IngestInv
    <3>2. QED
      BY <2>2, <2>5, <2>7, <3>1, RecordsAppend
  <2>10. b \in BOOLEAN /\ (~ b => ~ blind /\ run.exact)
    OBVIOUS
  <2>11. <<>> \in Text
    BY DEF Text
  <2>12. run' = r /\ blind' = b /\ UNCHANGED <<host, rotations, pond, aligned>>
    BY <1>2
  <2> HIDE DEF w, b
  <2>13. /\ r \in Runs /\ r.pc = "commit" /\ r.archived = run.archived /\ r.work = w
    BY <1>0, <2>8, <2>11, Zenon DEF Runs
  <2> HIDE DEF r
  <2>14. DOMAIN w = DOMAIN run.work /\ Content(w[Active]) = t \o slice
    BY <1>0, <2>3, <2>8, Zenon
  <2>15. Seen(r) = Seen(run)
    BY <2>13, <2>14 DEF Seen
  <2>16. ~ b => Follows(t \o slice, r, host)
    <3> SUFFICES ASSUME ~ b PROVE Follows(t \o slice, r, host)
      OBVIOUS
    <3>1. Follows(t \o x, run, host)
      BY <1>0, <2>1, <2>10 DEF IngestInv, Verifying
    <3> DEFINE whole == t \o x
               part == t \o slice
    <3>2. whole \in Text /\ part \in Text
      BY <2>3, <2>7, ConcatFacts DEF Text
    <3>3. Starts(part, whole) /\ Follows(whole, run, host)
      BY <2>4, <3>1
    <3> HIDE DEF whole, part
    <3>4. \A n \in DOMAIN host : Starts(whole, host[n]) => Starts(part, host[n])
      <4>1. \A n \in DOMAIN host : host[n] \in Text
        BY <1>0, TableFacts
      <4>2. QED
        BY <3>2, <3>3, <4>1, PrefixTransitive DEF Text
    <3>5. Follows(part, r, host)
      BY <2>15, <3>3, <3>4 DEF Follows
    <3>6. QED
      BY <3>5 DEF part
  <2>17. ~ b => Mirrors(w, host)
    <3>1. ~ b => Mirrors(run.work, host)
      BY <2>10 DEF IngestInv
    <3>2. ~ b => \E n \in DOMAIN host : Starts(Content(w[Active]), host[n])
      BY <2>14, <2>16 DEF Follows
    <3>3. QED
      BY <2>8, <2>14, <3>1, <3>2 DEF Mirrors
  <2>18. Tracks(r, pond, host, b) /\ Verifying(r, host)
    BY <2>13, <2>14, <2>16 DEF Tracks, Verifying
  <2>19. RunOk(r, b)
    BY <1>0, <2>9, <2>10, <2>13, <2>14, <2>17, <2>18 DEF RunOk, TypeInv
  <2>20. QED
    BY <2>12, <2>19, RunKeeps
<1>3. QED
  BY <1>1, <1>2 DEF VerifyAppend

(* Every step keeps the invariant. *)
LEMMA IngestStep ==
    ASSUME TypeInv, IngestInv, [Next]_vars
    PROVE  TypeInv' /\ IngestInv'
<1>1. CASE Logger
  BY <1>1, LoggerKeeps
<1>2. CASE ScanArchived \/ ScanActive
  BY <1>2, ScanKeeps
<1>3. CASE DetectRotation
  BY <1>3, DetectKeeps
<1>4. CASE ProcessArchived
  <2>1. run.pc = "archived" /\ (StoreArchived \/ Fail)
    BY <1>4 DEF ProcessArchived
  <2>2. QED
    BY <2>1, ArchivedKeeps, FailKeeps
<1>5. CASE ProcessActive
  BY <1>5, ActiveKeeps
<1>6. CASE VerifyAppend
  BY <1>6, VerifyKeeps
<1>7. CASE CommitRun
  BY <1>7, CommitKeeps
<1>8. CASE UNCHANGED vars
  <2>1. TypeInv'
    BY <1>8 DEF TypeInv, vars
  <2>2. IngestInv'
    BY <1>8 DEF IngestInv, vars
  <2>3. QED
    BY <2>1, <2>2
<1>9. QED
  BY <1>1, <1>2, <1>3, <1>4, <1>5, <1>6, <1>7, <1>8 DEF Next, Ingest, Logger, Byte

(* The pond mirrors the host in whole records: an archived series is its     *)
(* file, and the active series is how a file of the host begins, until a     *)
(* check has accepted a file other than the one the series follows           *)
(* (process_archived, ingest_append and the rename of a rotated series).     *)
THEOREM FaithfulHolds == Spec => []Faithful
<1>1. Init => TypeInv /\ IngestInv
  BY IngestInit
<1>2. (TypeInv /\ IngestInv) /\ [Next]_vars => (TypeInv /\ IngestInv)'
  BY IngestStep
<1>3. TypeInv /\ IngestInv => Faithful
  BY Zenon DEF IngestInv, Records, Mirrors, Faithful, WholeRecords
<1>4. QED
  BY <1>1, <1>2, <1>3, PTL DEF Spec

-----------------------------------------------------------------------------
(* A wrong file accepted. *)

(* Short of a whole block the check compares all that is tracked. *)
LEMMA ShortCompared ==
    ASSUME NEW f \in Text, NEW t \in Text, Len(t) < BlockSize,
           VerifyPrefix(f, t) = "matches"
    PROVE  Starts(t, f)
<1>0. Len(t) \in Nat /\ Len(f) \in Nat /\ BlockSize \in Nat /\ BlockSize > 0
  BY BlockSizePositive, SeqFacts DEF Text
<1>1. Len(t) \div BlockSize = 0
  BY <1>0
<1>2. BlockSize * (Len(t) \div BlockSize) + 1 = 1
  BY <1>0, <1>1
<1>3. CASE Len(t) = 0
  <2>1. Starts(t, f) <=> Len(t) <= Len(f) /\ \A i \in 1..Len(t) : t[i] = f[i]
    BY PrefixMeans DEF Text
  <2>2. QED
    BY <1>0, <1>3, <2>1
<1>4. CASE Len(t) # 0
  <2>1. ~ (1 > Len(t))
    BY <1>0, <1>4
  <2>7. ~ (Len(f) < Len(t))
    BY <1>2, <2>1, Zenon DEF VerifyPrefix
  <2>2. SubSeq(f, 1, Len(t)) = SubSeq(t, 1, Len(t))
    BY <1>2, <2>1, <2>7, Zenon DEF VerifyPrefix
  <2>3. Prefix(t, Len(t)) = t
    <3>1. Starts(t, t)
      BY PrefixGrows DEF Text
    <3>2. QED
      BY <3>1, BeginsWith
  <2>4. Prefix(f, Len(t)) = t
    BY <2>2, <2>3 DEF Prefix
  <2>5. Len(f) >= Len(t)
    BY <1>0, <2>7
  <2>6. QED
    BY <2>4, <2>5, BeginsWith
<1>5. QED
  BY <1>3, <1>4

(* The bytes of one file are put behind those of another only where          *)
(* verify_prefix_matches passes over a whole block, or if the active file    *)
(* was replaced while the run went on by one that begins as the series does. *)
THEOREM BlindOnlyPastBlockHolds == Spec => BlindOnlyPastBlock
<1> DEFINE Known == \/ Len(Content(run.work[Active])) >= BlockSize
                    \/ run.rotated /\ Starts(Content(run.work[Active]), host[Active])
<1>1. Init => TypeInv /\ IngestInv
  BY IngestInit
<1>2. (TypeInv /\ IngestInv) /\ [Next]_vars => (TypeInv /\ IngestInv)'
  BY IngestStep
<1>3. ASSUME TypeInv, IngestInv, [Next]_vars, ~ blind, blind'
      PROVE  Known
  <2>1. ~ Logger
    BY <1>3, LoggerEffects, Zenon
  <2>2. ~ UNCHANGED blind
    BY <1>3, Zenon
  <2>3. VerifyAppend /\ ~ Fail
    BY <1>3, <2>1, <2>2, Zenon DEF Next, Ingest, Logger, Byte, vars, ScanArchived, ScanActive,
       DetectRotation, ProcessArchived, StoreArchived, ProcessActive, CommitRun, Fail, RunStep
  <2> DEFINE t == Content(run.work[Active])
  <2>4. /\ run.pc = "verify" /\ Active \in DOMAIN host
        /\ VerifyPrefix(host[Active], t) = "matches"
        /\ blind' = (blind \/ ~ run.exact)
    BY <2>3 DEF VerifyAppend
  <2>5. ~ run.exact
    BY <1>3, <2>4, Zenon
  <2>6. SUFFICES ASSUME ~ (Len(t) >= BlockSize) PROVE run.rotated /\ Starts(t, host[Active])
    OBVIOUS
  <2>7. Active \in DOMAIN run.work /\ run.work \in Tables(Series) /\ host \in Tables(Text)
    BY <1>3, <2>4 DEF TypeInv, Runs
  <2>8. t \in Text
    BY <2>7, TextIs DEF TextOf
  <2>9. host[Active] \in Text
    BY <2>4, <2>7, TableFacts
  <2>10. ~ run.rotated => ~ Starts(t, host[Active])
    BY <1>3, <2>4, <2>5, Zenon DEF IngestInv, Verifying
  <2> HIDE DEF t
  <2>11. Len(t) \in Nat /\ Len(t) < BlockSize
    <3>1. Len(t) \in Nat /\ BlockSize \in Nat
      BY <2>8, BlockSizePositive, SeqFacts DEF Text
    <3>2. QED
      BY <2>6, <3>1
  <2>12. Starts(t, host[Active])
    BY <2>4, <2>8, <2>9, <2>11, ShortCompared
  <2>13. QED
    BY <2>10, <2>12
<1>4. (TypeInv /\ IngestInv) /\ [Next]_vars => [~ blind /\ blind' => Known]_vars
  BY <1>3
<1> HIDE DEF Known
<1>5. Spec => [][~ blind /\ blind' => Known]_vars
  BY <1>1, <1>2, <1>4, PTL DEF Spec
<1>6. QED
  BY <1>5 DEF BlindOnlyPastBlock, Known

-----------------------------------------------------------------------------
(* A rotated file missed. *)

(* An active series is orphaned when it follows no file the pond lacks. *)
LEMMA OrphanedMeans ==
    ASSUME NEW r, r.archived = {}, r.work = pond
    PROVE  Orphaned <=> /\ Active \in DOMAIN pond
                        /\ ~ Follows(Content(pond[Active]), r, host)
BY DEF Orphaned, Follows, Seen

(* A rotated file is missed only by a run that found no active file          *)
(* (enumerate_host_files between the rename and the first write).            *)
THEOREM OrphanedOnlyInGapHolds == Spec => OrphanedOnlyInGap
<1>1. Init => TypeInv /\ IngestInv
  BY IngestInit
<1>2. (TypeInv /\ IngestInv) /\ [Next]_vars => (TypeInv /\ IngestInv)'
  BY IngestStep
<1>3. ASSUME TypeInv, IngestInv, [Next]_vars, ~ blind, ~ Orphaned, Orphaned'
      PROVE  run.size = NoSize
  <2> DEFINE c == Content(pond[Active])
  <2>1. ~ Logger
    <3> SUFFICES ASSUME Logger PROVE FALSE
      OBVIOUS
    <3>1. /\ Grown(host, host', rotations + 1) /\ pond' = pond
          /\ host' \in Tables(Text)
      BY <1>3, LoggerEffects
    <3>2. /\ host \in Tables(Text) /\ rotations + 1 \in Nat \ {Active}
          /\ rotations + 1 \notin DOMAIN host /\ rotations + 1 \notin DOMAIN pond
          /\ pond \in Tables(Series)
      BY <1>3 DEF TypeInv, Active
    <3>3. PICK r : r = [archived |-> {}, work |-> pond]
      BY Zenon
    <3>4. r.archived = {} /\ r.work = pond
      BY <3>3
    <3>5. Active \in DOMAIN pond /\ Follows(c, r, host)
      <4>1. Active \in DOMAIN pond
        BY <1>3, <3>1 DEF Orphaned
      <4>2. QED
        BY <1>3, <3>4, <4>1, OrphanedMeans
    <3>6. PICK h2 \in Tables(Text) : h2 = host'
      BY <3>1
    <3>7. PICK new \in Nat \ {Active} : new = rotations + 1
      BY <3>2
    <3>8. c \in Text
      BY <3>2, <3>5, TextIs DEF TextOf
    <3>9. new \notin Seen(r) /\ new \notin DOMAIN host /\ Grown(host, h2, new)
      BY <3>1, <3>2, <3>4, <3>6, <3>7 DEF Seen
    <3>10. host \in Tables(Text)
      BY <3>2
    <3> HIDE DEF c
    <3>11. Follows(c, r, h2)
      BY <3>5, <3>8, <3>9, <3>10, GrownKeeps
    <3>12. \/ Active \in DOMAIN h2 /\ Starts(c, h2[Active])
           \/ \E a \in DOMAIN h2 \ DOMAIN pond : Starts(c, h2[a])
      BY <3>4, <3>11 DEF Follows, Seen
    <3>13. QED
      BY <1>3, <3>1, <3>6, <3>12, Zenon DEF Orphaned, c
  <2>2. ~ UNCHANGED <<host, pond>>
    BY <1>3 DEF Orphaned
  <2>3. CommitRun
    BY <1>3, <2>1, <2>2, Zenon DEF Next, Ingest, Logger, Byte, vars, ScanArchived, ScanActive,
       DetectRotation, ProcessArchived, StoreArchived, ProcessActive, VerifyAppend, Fail, RunStep
  <2>4. run.pc = "commit" /\ pond' = run.work /\ host' = host
    BY <2>3 DEF CommitRun
  <2> DEFINE d == Content(run.work[Active])
  <2>5. /\ Active \in DOMAIN run.work
        /\ ~ (Active \in DOMAIN host /\ Starts(d, host[Active]))
        /\ \A a \in DOMAIN host \ DOMAIN run.work : ~ Starts(d, host[a])
    BY <1>3, <2>4 DEF Orphaned
  <2>6. SUFFICES ASSUME run.size # NoSize PROVE FALSE
    OBVIOUS
  <2>7. ~ Follows(d, run, host)
    BY <2>5 DEF Follows, Seen
  <2>8. Unmatched(run, pond, host)
    BY <1>3, <2>4, <2>5, <2>6, <2>7, Zenon DEF IngestInv, Tracks
  <2>9. /\ Active \in DOMAIN pond /\ c = d
        /\ \A a \in run.archived \ DOMAIN pond : ~ Starts(c, host[a])
    BY <2>8 DEF Unmatched
  <2> HIDE DEF d
  <2>10. \E a \in DOMAIN host \ DOMAIN pond : Starts(c, host[a])
    BY <1>3, <2>5, <2>9 DEF Orphaned
  <2> HIDE DEF c
  <2>11. PICK a \in DOMAIN host \ DOMAIN pond : Starts(c, host[a])
    BY <2>10
  <2>12. a \in DOMAIN run.work /\ a \notin run.archived /\ a # Active
    BY <2>5, <2>9, <2>11
  <2>13. QED
    BY <1>3, <2>11, <2>12 DEF TypeInv
<1>4. (TypeInv /\ IngestInv) /\ [Next]_vars
        => [~ blind /\ ~ Orphaned /\ Orphaned' => run.size = NoSize]_vars
  BY <1>3
<1>5. Spec => [][~ blind /\ ~ Orphaned /\ Orphaned' => run.size = NoSize]_vars
  BY <1>1, <1>2, <1>4, PTL DEF Spec
<1>6. QED
  BY <1>5 DEF OrphanedOnlyInGap

=============================================================================
