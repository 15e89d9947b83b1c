---------------------------- MODULE HostNameProofs ----------------------------
(***************************************************************************)
(* Why host_matches, which compares strings, agrees with the meaning of    *)
(* DNS names, which are sequences of labels, for names of any length.      *)
(* Joining labels is recursive, so some facts need induction; it is done   *)
(* with sets of numbers, from the well-foundedness of <.                   *)
(***************************************************************************)
EXTENDS AuditChecker, SequenceTheorems, WellFoundedInduction, TLAPS

String == Seq(Char)

LEMMA Induct ==
  ASSUME NEW T \in SUBSET Nat, 0 \in T, \A n \in T : n + 1 \in T
  PROVE  T = Nat
<1> SUFFICES ASSUME Nat \ T # {} PROVE FALSE
  OBVIOUS
<1> DEFINE R == OpToRel(<, Nat)
<1>1. \A i, j \in Nat : <<i, j>> \in R <=> i < j
  BY DEF OpToRel
<1>2. IsWellFoundedOn(R, Nat)
  BY NatLessThanWellFounded
<1> HIDE DEF R
<1>3. PICK i \in Nat \ T : \A j \in Nat \ T : ~(<<j, i>> \in R)
  <2>1. Nat \ T \subseteq Nat
    OBVIOUS
  <2> QED
    BY <1>2, <2>1, WFMin
<1>4. i # 0 /\ i - 1 \in Nat /\ i - 1 < i
  OBVIOUS
<1>5. i - 1 \in T
  BY <1>1, <1>3, <1>4
<1> QED
  BY <1>4, <1>5
-----------------------------------------------------------------------------
(* Strings: what a suffix is, element by element and as a rest.            *)

LEMMA PrefixByElement ==
  ASSUME NEW S, NEW T, NEW s \in Seq(S), NEW t \in Seq(T)
  PROVE  IsPrefix(s, t) <=> Len(s) <= Len(t) /\ \A n \in 1 .. Len(s) : s[n] = t[n]
<1> SUFFICES ASSUME Len(s) <= Len(t)
             PROVE  SubSeq(s, 1, Len(s)) = SubSeq(t, 1, Len(s))
                      <=> \A n \in 1 .. Len(s) : s[n] = t[n]
  BY DEF IsPrefix
<1>1. /\ SubSeq(s, 1, Len(s)) = [n \in 1 .. Len(s) |-> s[n]]
      /\ SubSeq(t, 1, Len(s)) = [n \in 1 .. Len(s) |-> t[n]]
  OBVIOUS
<1> QED
  BY <1>1

LEMMA ReverseProperties ==
  ASSUME NEW S, NEW s \in Seq(S)
  PROVE  /\ Reverse(s) \in Seq(S) /\ Len(Reverse(s)) = Len(s)
         /\ \A n \in 1 .. Len(s) : Reverse(s)[n] = s[Len(s) - n + 1]
<1>1. Len(s) \in Nat /\ \A n \in 1 .. Len(s) : s[n] \in S
  BY ElementOfSeq
<1>2. \A n \in 1 .. Len(s) : Len(s) - n + 1 \in 1 .. Len(s)
  BY <1>1
<1>3. Reverse(s) \in [1 .. Len(s) -> S]
  BY <1>1, <1>2 DEF Reverse
<1> QED
  BY <1>1, <1>2, <1>3 DEF Reverse

LEMMA SuffixByElement ==
  ASSUME NEW S, NEW s \in Seq(S), NEW t \in Seq(S)
  PROVE  IsSuffix(s, t) <=>
           /\ Len(s) <= Len(t)
           /\ \A n \in 1 .. Len(s) : s[n] = t[Len(t) - Len(s) + n]
<1> DEFINE m == Len(s)
           k == Len(t)
<1>1. m \in Nat /\ k \in Nat
  OBVIOUS
<1>2. IsSuffix(s, t) <=> m <= k /\ \A n \in 1 .. m : Reverse(s)[n] = Reverse(t)[n]
  BY ReverseProperties, PrefixByElement DEF IsSuffix
<1> HIDE DEF m, k
<1>3. ASSUME m <= k, NEW n \in 1 .. m
      PROVE  Reverse(s)[n] = s[m - n + 1] /\ Reverse(t)[n] = t[k - n + 1]
  BY <1>1, <1>3, ReverseProperties DEF m, k
<1>4. ASSUME m <= k, \A n \in 1 .. m : Reverse(s)[n] = Reverse(t)[n], NEW n \in 1 .. m
      PROVE  s[n] = t[k - m + n]
  <2>1. m - n + 1 \in 1 .. m /\ m - (m - n + 1) + 1 = n /\ k - (m - n + 1) + 1 = k - m + n
    BY <1>1
  <2>2. s[m - (m - n + 1) + 1] = t[k - (m - n + 1) + 1]
    BY <1>3, <1>4, <2>1
  <2> QED
    BY <2>1, <2>2
<1>5. ASSUME m <= k, \A n \in 1 .. m : s[n] = t[k - m + n], NEW n \in 1 .. m
      PROVE  Reverse(s)[n] = Reverse(t)[n]
  <2>1. m - n + 1 \in 1 .. m /\ k - m + (m - n + 1) = k - n + 1
    BY <1>1
  <2>2. s[m - n + 1] = t[k - m + (m - n + 1)]
    BY <1>5, <2>1
  <2> QED
    BY <1>3, <1>5, <2>1, <2>2
<1> QED
  BY <1>2, <1>4, <1>5 DEF m, k

LEMMA SuffixLength ==
  ASSUME NEW S, NEW s \in Seq(S), NEW t \in Seq(S)
  PROVE  (Len(s) = 0 => IsSuffix(s, t)) /\ (IsSuffix(s, t) => Len(s) <= Len(t))
<1>1. Len(s) \in Nat /\ Len(t) \in Nat
  OBVIOUS
<1>2. Len(s) = 0 => 1 .. Len(s) = {}
  OBVIOUS
<1> QED
  BY <1>1, <1>2, SuffixByElement

LEMMA SuffixIsRest ==
  ASSUME NEW S, NEW s \in Seq(S), NEW t \in Seq(S)
  PROVE  IsSuffix(s, t) <=> \E u \in Seq(S) : t = u \o s
<1>1. Len(s) \in Nat /\ Len(t) \in Nat
  OBVIOUS
<1>2. ASSUME NEW u \in Seq(S), t = u \o s PROVE IsSuffix(s, t)
  <2>1. Len(u) \in Nat /\ Len(t) = Len(u) + Len(s)
    BY <1>2, ConcatProperties
  <2>2. ASSUME NEW n \in 1 .. Len(s) PROVE s[n] = t[Len(t) - Len(s) + n]
    <3>1. Len(u) + n \in 1 .. Len(u) + Len(s) /\ ~(Len(u) + n <= Len(u))
          /\ (Len(u) + n) - Len(u) = n /\ Len(t) - Len(s) + n = Len(u) + n
      BY <1>1, <2>1
    <3>2. t[Len(u) + n] = s[(Len(u) + n) - Len(u)]
      BY <1>2, <3>1, ConcatProperties
    <3> QED
      BY <3>1, <3>2
  <2>3. Len(s) <= Len(t)
    BY <1>1, <2>1
  <2> QED
    BY <2>2, <2>3, SuffixByElement
<1>3. ASSUME IsSuffix(s, t) PROVE \E u \in Seq(S) : t = u \o s
  <2> DEFINE d == Len(t) - Len(s)
             u == SubSeq(t, 1, d)
  <2>1. d \in Nat /\ d <= Len(t) /\ \A n \in 1 .. Len(s) : s[n] = t[d + n]
    BY <1>1, <1>3, SuffixByElement
  <2>2. /\ u \in Seq(S) /\ Len(u) = d
        /\ \A n \in 1 .. d : u[n] = t[n]
    <3>1. \A n \in 1 .. d : t[n] \in S
      BY <2>1, ElementOfSeq
    <3> QED
      BY <2>1, <3>1, SubSeqProperties
  <2>3. u \o s \in Seq(S) /\ Len(u \o s) = Len(t)
    BY <1>1, <2>1, <2>2, ConcatProperties
  <2> HIDE DEF u
  <2>4. ASSUME NEW n \in 1 .. Len(t) PROVE t[n] = (u \o s)[n]
    <3>1. (u \o s)[n] = IF n <= d THEN u[n] ELSE s[n - d]
      BY <1>1, <2>1, <2>2, ConcatProperties
    <3>2. CASE n <= d
      BY <1>1, <2>1, <2>2, <3>1, <3>2
    <3>3. CASE n > d
      <4>1. n - d \in 1 .. Len(s) /\ d + (n - d) = n /\ ~(n <= d)
        BY <1>1, <2>1, <3>3
      <4>2. s[n - d] = t[d + (n - d)]
        BY <2>1, <4>1
      <4> QED
        BY <3>1, <4>1, <4>2
    <3>4. n <= d \/ n > d
      BY <1>1, <2>1
    <3> QED
      BY <3>2, <3>3, <3>4
  <2> QED
    BY <2>2, <2>3, <2>4, SeqEqual
<1> QED
  BY <1>2, <1>3
(* w is s and then t: said without \o, which the provers would unfold.     *)
Joined(w, s, t) == w = s \o t

LEMMA JoinedProperties ==
  ASSUME NEW S, NEW s \in Seq(S), NEW t \in Seq(S), NEW w, Joined(w, s, t)
  PROVE  /\ w \in Seq(S) /\ Len(w) = Len(s) + Len(t)
         /\ Len(s) \in Nat /\ Len(t) \in Nat
         /\ \A n \in 1 .. Len(s) : w[n] = s[n]
         /\ \A n \in 1 .. Len(t) : w[Len(s) + n] = t[n]
<1>1. Len(s) \in Nat /\ Len(t) \in Nat /\ w = s \o t
  BY DEF Joined
<1>2. ASSUME NEW n \in 1 .. Len(s) PROVE w[n] = s[n]
  BY <1>1, ConcatProperties
<1>3. ASSUME NEW n \in 1 .. Len(t) PROVE w[Len(s) + n] = t[n]
  BY <1>1, ConcatProperties
<1> QED
  BY <1>1, <1>2, <1>3, ConcatProperties

LEMMA JoinedCancel ==
  ASSUME NEW S, NEW a \in Seq(S), NEW s \in Seq(S), NEW b \in Seq(S), NEW t \in Seq(S),
         NEW w, Joined(w, a, s), Joined(w, b, t), Len(a) = Len(b)
  PROVE  a = b /\ s = t
<1>1. /\ Len(w) = Len(a) + Len(s) /\ Len(a) \in Nat /\ Len(s) \in Nat
      /\ \A n \in 1 .. Len(a) : w[n] = a[n]
      /\ \A n \in 1 .. Len(s) : w[Len(a) + n] = s[n]
  BY JoinedProperties
<1>2. /\ Len(w) = Len(b) + Len(t) /\ Len(b) \in Nat /\ Len(t) \in Nat
      /\ \A n \in 1 .. Len(b) : w[n] = b[n]
      /\ \A n \in 1 .. Len(t) : w[Len(b) + n] = t[n]
  BY JoinedProperties
<1>3. Len(s) = Len(t)
  BY <1>1, <1>2
<1> QED
  BY <1>1, <1>2, <1>3, SeqEqual

LEMMA JoinedAssociative ==
  ASSUME NEW S, NEW s \in Seq(S), NEW t \in Seq(S), NEW u \in Seq(S),
         NEW st, Joined(st, s, t), NEW tu, Joined(tu, t, u), NEW w
  PROVE  Joined(w, st, u) <=> Joined(w, s, tu)
<1>1. (s \o t) \o u = s \o (t \o u)
  BY ConcatAssociative
<1> QED
  BY <1>1, Zenon DEF Joined
-----------------------------------------------------------------------------
(* Joining labels.                                                         *)

Dot == <<".">>

LEMMA DotProperties == Dot \in String /\ Len(Dot) = 1 /\ Dot[1] = "."
<1>1. Dot \in Seq({"."}) /\ Len(Dot) = 1 /\ Dot[1] = "."
  BY DEF Dot
<1> QED
  BY <1>1, NameAssumption, SeqMonotonic DEF String

LEMMA LabelProperties ==
  ASSUME NEW l \in Seq(LabelChar)
  PROVE  /\ l \in String /\ Len(l) \in Nat
         /\ \A n \in 1 .. Len(l) : l[n] \notin {".", ":", "*"}
<1>1. LabelChar \subseteq Char
  BY DEF LabelChar
<1>2. \A n \in 1 .. Len(l) : l[n] \in LabelChar
  BY ElementOfSeq
<1> QED
  BY <1>1, <1>2, SeqMonotonic DEF String, LabelChar

(* s is a string, a dot, and a label.                                      *)
Labelled(s, a, l) == \E rest : Joined(rest, Dot, l) /\ Joined(s, a, rest)

LEMMA LabelledProperties ==
  ASSUME NEW a \in String, NEW l \in Seq(LabelChar), NEW s, Labelled(s, a, l)
  PROVE  /\ s \in String /\ Len(a) \in Nat /\ Len(l) \in Nat
         /\ Len(s) = Len(a) + 1 + Len(l)
         /\ \A n \in 1 .. Len(a) : s[n] = a[n]
         /\ s[Len(a) + 1] = "."
         /\ \A n \in 1 .. Len(l) : s[Len(a) + 1 + n] = l[n]
<1>1. PICK rest : Joined(rest, Dot, l) /\ Joined(s, a, rest)
  BY DEF Labelled
<1>2. a \in Seq(Char) /\ Dot \in Seq(Char) /\ l \in Seq(Char)
  BY DotProperties, LabelProperties DEF String
<1>3. /\ rest \in Seq(Char) /\ Len(rest) = Len(Dot) + Len(l) /\ Len(l) \in Nat
      /\ \A n \in 1 .. Len(Dot) : rest[n] = Dot[n]
      /\ \A n \in 1 .. Len(l) : rest[Len(Dot) + n] = l[n]
  BY <1>1, <1>2, JoinedProperties
<1>4. /\ s \in Seq(Char) /\ Len(s) = Len(a) + Len(rest) /\ Len(a) \in Nat
      /\ \A n \in 1 .. Len(a) : s[n] = a[n]
      /\ \A n \in 1 .. Len(rest) : s[Len(a) + n] = rest[n]
  <2>1. rest \in Seq(Char)
    BY <1>3
  <2> QED
    BY <1>1, <1>2, <2>1, JoinedProperties
<1>5. /\ Len(rest) = 1 + Len(l) /\ rest[1] = "."
      /\ \A n \in 1 .. Len(l) : rest[1 + n] = l[n]
  BY <1>3, DotProperties
<1>6. s[Len(a) + 1] = "."
  BY <1>3, <1>4, <1>5
<1>7. ASSUME NEW n \in 1 .. Len(l) PROVE s[Len(a) + 1 + n] = l[n]
  <2>1. 1 + n \in 1 .. Len(rest) /\ Len(a) + (1 + n) = Len(a) + 1 + n
    BY <1>3, <1>4, <1>5
  <2>2. s[Len(a) + (1 + n)] = rest[1 + n]
    BY <1>4, <2>1
  <2> QED
    BY <1>5, <2>1, <2>2
<1>8. Len(s) = Len(a) + 1 + Len(l)
  <2>1. Len(s) = Len(a) + Len(rest) /\ Len(a) \in Nat
    BY <1>4
  <2>2. Len(rest) = 1 + Len(l) /\ Len(l) \in Nat
    BY <1>3, <1>5
  <2> QED
    BY <2>1, <2>2
<1> QED
  BY <1>3, <1>4, <1>6, <1>7, <1>8 DEF String

(* The last dot of a string is where its last label starts.                *)
LEMMA AfterLastDot ==
  ASSUME NEW a \in String, NEW l \in Seq(LabelChar), NEW s, Labelled(s, a, l)
  PROVE  \A n \in Len(a) + 2 .. Len(s) : s[n] # "."
<1> SUFFICES ASSUME NEW n \in Len(a) + 2 .. Len(s) PROVE s[n] # "."
  OBVIOUS
<1>1. n - Len(a) - 1 \in 1 .. Len(l) /\ Len(a) + 1 + (n - Len(a) - 1) = n
  BY LabelledProperties
<1>2. s[n] = l[n - Len(a) - 1]
  BY <1>1, LabelledProperties
<1> QED
  BY <1>1, <1>2, LabelProperties

LEMMA LastLabel ==
  ASSUME NEW a \in String, NEW l \in Seq(LabelChar),
         NEW b \in String, NEW k \in Seq(LabelChar),
         NEW s, Labelled(s, a, l), Labelled(s, b, k)
  PROVE  a = b /\ l = k
<1>1. /\ Len(a) \in Nat /\ Len(l) \in Nat
      /\ Len(s) = Len(a) + 1 + Len(l) /\ s[Len(a) + 1] = "."
      /\ \A n \in Len(a) + 2 .. Len(s) : s[n] # "."
  BY LabelledProperties, AfterLastDot
<1>2. /\ Len(b) \in Nat /\ Len(k) \in Nat
      /\ Len(s) = Len(b) + 1 + Len(k) /\ s[Len(b) + 1] = "."
      /\ \A n \in Len(b) + 2 .. Len(s) : s[n] # "."
  BY LabelledProperties, AfterLastDot
<1>3. Len(a) = Len(b)
  <2>1. ~(Len(a) < Len(b))
    BY <1>1, <1>2
  <2>2. ~(Len(b) < Len(a))
    BY <1>1, <1>2
  <2> QED
    BY <1>1, <1>2, <2>1, <2>2
<1>4. PICK r : Joined(r, Dot, l) /\ Joined(s, a, r)
  BY DEF Labelled
<1>5. PICK q : Joined(q, Dot, k) /\ Joined(s, b, q)
  BY DEF Labelled
<1>6. /\ a \in Seq(Char) /\ b \in Seq(Char) /\ Dot \in Seq(Char)
      /\ l \in Seq(Char) /\ k \in Seq(Char)
  BY DotProperties, LabelProperties DEF String
<1>7. r \in Seq(Char) /\ q \in Seq(Char)
  BY <1>4, <1>5, <1>6, JoinedProperties
<1>8. a = b /\ r = q
  BY <1>3, <1>4, <1>5, <1>6, <1>7, JoinedCancel
<1> QED
  BY <1>4, <1>5, <1>6, <1>8, JoinedCancel
-----------------------------------------------------------------------------
(* FlattenSeq is a recursive function: that there is one, and what it is.  *)

Flattened(f, seqs, i) == IF i = 1 THEN seqs[i] ELSE f[i - 1] \o seqs[i]

Flattens(f, seqs, m) == f = [i \in 1 .. m |-> Flattened(f, seqs, i)]

LEMMA FlattensExists ==
  ASSUME NEW seqs, NEW m \in Nat
  PROVE  \E f : Flattens(f, seqs, m)
<1> DEFINE T == {n \in Nat : \E f : Flattens(f, seqs, n)}
<1>1. 0 \in T
  <2>1. Flattens([i \in 1 .. 0 |-> 0], seqs, 0)
    BY DEF Flattens
  <2> QED
    BY <2>1
<1>2. ASSUME NEW n \in T PROVE n + 1 \in T
  <2>1. PICK f : Flattens(f, seqs, n)
    OBVIOUS
  <2> DEFINE g == [i \in 1 .. n + 1 |-> IF i <= n THEN f[i] ELSE Flattened(f, seqs, i)]
  <2>2. ASSUME NEW i \in 1 .. n + 1 PROVE g[i] = Flattened(g, seqs, i)
    <3>1. i # 1 => i - 1 \in 1 .. n /\ g[i - 1] = f[i - 1]
      OBVIOUS
    <3>2. i <= n => f[i] = Flattened(f, seqs, i)
      BY <2>1 DEF Flattens
    <3>3. g[i] = Flattened(f, seqs, i)
      BY <3>2
    <3> QED
      BY <3>1, <3>3 DEF Flattened
  <2>3. Flattens(g, seqs, n + 1)
    <3>1. g = [i \in 1 .. n + 1 |-> g[i]]
      OBVIOUS
    <3> HIDE DEF g
    <3> QED
      BY <2>2, <3>1 DEF Flattens
  <2> QED
    BY <2>3
<1>3. T = Nat
  <2>1. T \in SUBSET Nat
    OBVIOUS
  <2> HIDE DEF T
  <2> QED
    BY <1>1, <1>2, <2>1, Induct
<1> QED
  BY <1>3

LEMMA FlattenSeqFlattens ==
  ASSUME NEW seqs, Len(seqs) \in Nat \ {0}
  PROVE  \E f : Flattens(f, seqs, Len(seqs)) /\ FlattenSeq(seqs) = f[Len(seqs)]
<1> DEFINE flat == CHOOSE f : f = [i \in 1 .. Len(seqs) |-> Flattened(f, seqs, i)]
<1>1. Flattens(flat, seqs, Len(seqs))
  <2>1. \E f : f = [i \in 1 .. Len(seqs) |-> Flattened(f, seqs, i)]
    BY FlattensExists DEF Flattens
  <2> QED
    BY <2>1 DEF Flattens
<1>2. FlattenSeq(seqs) = flat[Len(seqs)]
  BY DEF FlattenSeq, Flattened
<1> QED
  BY <1>1, <1>2
-----------------------------------------------------------------------------
(* g[n] is the first n labels of a name, each with a dot before it.        *)
Spells(g, name) ==
  /\ g[0] = << >>
  /\ \A n \in 1 .. Len(name) : Labelled(g[n], g[n - 1], name[n])

LEMMA SpellingTyped ==
  ASSUME NEW name \in Seq(Label), NEW g, Spells(g, name)
  PROVE  \A n \in 0 .. Len(name) : g[n] \in String
<1> DEFINE T == {n \in Nat : n <= Len(name) => g[n] \in String}
<1>1. 0 \in T
  BY EmptySeq DEF Spells, String
<1>2. ASSUME NEW n \in T PROVE n + 1 \in T
  <2> SUFFICES ASSUME n + 1 <= Len(name) PROVE g[n + 1] \in String
    OBVIOUS
  <2>1. n + 1 \in 1 .. Len(name) /\ (n + 1) - 1 = n /\ g[n] \in String
    OBVIOUS
  <2>2. Labelled(g[n + 1], g[n], name[n + 1])
    BY <2>1 DEF Spells
  <2>3. name[n + 1] \in Seq(LabelChar)
    BY <2>1, ElementOfSeq DEF Label
  <2> QED
    BY <2>1, <2>2, <2>3, LabelledProperties
<1>3. T = Nat
  <2>1. T \in SUBSET Nat
    OBVIOUS
  <2> HIDE DEF T
  <2> QED
    BY <1>1, <1>2, <2>1, Induct
<1> QED
  BY <1>3

LEMMA SpellingExists ==
  ASSUME NEW name \in Seq(Label), name # << >>
  PROVE  \E g : Spells(g, name) /\ Dotted(name) = Tail(g[Len(name)])
<1> DEFINE m == Len(name)
           seqs == [n \in 1 .. m |-> Dot \o name[n]]
<1>1. m \in Nat \ {0} /\ Len(seqs) = m
  BY EmptySeq
<1>2. PICK f : Flattens(f, seqs, m) /\ FlattenSeq(seqs) = f[m]
  <2>1. Len(seqs) \in Nat \ {0}
    BY <1>1
  <2> HIDE DEF seqs
  <2> QED
    BY <1>1, <2>1, FlattenSeqFlattens
<1> DEFINE g == [n \in 0 .. m |-> IF n = 0 THEN << >> ELSE f[n]]
<1>3. ASSUME NEW n \in 1 .. m PROVE Labelled(g[n], g[n - 1], name[n])
  <2>1. f[n] = Flattened(f, seqs, n) /\ seqs[n] = Dot \o name[n]
    BY <1>2 DEF Flattens
  <2>2. Joined(seqs[n], Dot, name[n])
    BY <2>1 DEF Joined
  <2>3. CASE n = 1
    <3>1. f[n] = seqs[n] /\ g[n] = f[n] /\ g[n - 1] = << >>
      BY <1>1, <2>1, <2>3 DEF Flattened
    <3>2. seqs[n] \in String
      <4>1. Dot \in Seq(Char) /\ name[n] \in Seq(Char)
        <5>1. name[n] \in Seq(LabelChar)
          BY ElementOfSeq DEF Label
        <5> QED
          BY <5>1, DotProperties, LabelProperties DEF String
      <4>2. PICK w : w = seqs[n]
        OBVIOUS
      <4> QED
        BY <2>2, <4>1, <4>2, JoinedProperties DEF String
    <3>3. Joined(seqs[n], << >>, seqs[n])
      <4>1. << >> \o seqs[n] = seqs[n]
        BY <3>2, ConcatEmptySeq DEF String
      <4> QED
        BY <4>1 DEF Joined
    <3> QED
      BY <2>2, <3>1, <3>3 DEF Labelled
  <2>4. CASE n # 1
    <3>1. f[n] = f[n - 1] \o seqs[n]
      BY <2>1, <2>4 DEF Flattened
    <3>2. g[n] = f[n] /\ g[n - 1] = f[n - 1]
      BY <1>1, <2>4
    <3>3. Joined(g[n], g[n - 1], seqs[n])
      BY <3>1, <3>2 DEF Joined
    <3> QED
      BY <2>2, <3>3 DEF Labelled
  <2> QED
    BY <2>3, <2>4
<1>4. g[0] = << >> /\ g[m] = f[m]
  BY <1>1
<1>5. Dotted(name) = Tail(FlattenSeq(seqs))
  BY DEF Dotted, Dot
<1>6. Dotted(name) = Tail(g[m])
  BY <1>2, <1>4, <1>5
<1> HIDE DEF g
<1>7. Spells(g, name)
  BY <1>3, <1>4 DEF Spells
<1> QED
  BY <1>6, <1>7

(* A string ends in another exactly if their last labels are the same and  *)
(* what is before them ends in what is before them.                        *)
LEMMA LabelledSuffix ==
  ASSUME NEW a \in String, NEW l \in Seq(LabelChar), NEW s, Labelled(s, a, l),
         NEW b \in String, NEW k \in Seq(LabelChar), NEW t, Labelled(t, b, k)
  PROVE  IsSuffix(s, t) <=> l = k /\ IsSuffix(a, b)
<1>1. s \in String /\ t \in String
  BY LabelledProperties
<1>2. /\ a \in Seq(Char) /\ b \in Seq(Char) /\ s \in Seq(Char) /\ t \in Seq(Char)
      /\ l \in Seq(Char) /\ k \in Seq(Char) /\ Dot \in Seq(Char)
  BY <1>1, LabelProperties, DotProperties DEF String
<1>3. PICK r : Joined(r, Dot, l) /\ Joined(s, a, r)
  BY DEF Labelled
<1>4. PICK q : Joined(q, Dot, k) /\ Joined(t, b, q)
  BY DEF Labelled
<1>5. r \in Seq(Char) /\ q \in Seq(Char)
  BY <1>2, <1>3, <1>4, JoinedProperties
<1>6. ASSUME IsSuffix(s, t) PROVE l = k /\ IsSuffix(a, b)
  <2>1. PICK u \in Seq(Char) : Joined(t, u, s)
    BY <1>2, <1>6, SuffixIsRest DEF Joined
  <2>2. PICK c : Joined(c, u, a)
    BY DEF Joined
  <2>3. c \in Seq(Char)
    BY <1>2, <2>2, JoinedProperties
  <2>4. Joined(t, c, r)
    BY <1>2, <1>3, <1>5, <2>1, <2>2, JoinedAssociative
  <2>5. Labelled(t, c, l)
    BY <1>3, <2>4 DEF Labelled
  <2>6. c = b /\ l = k
    BY <2>3, <2>5, LastLabel DEF String
  <2> QED
    BY <1>2, <2>2, <2>6, SuffixIsRest DEF Joined
<1>7. ASSUME l = k, IsSuffix(a, b) PROVE IsSuffix(s, t)
  <2>1. PICK u \in Seq(Char) : Joined(b, u, a)
    BY <1>2, <1>7, SuffixIsRest DEF Joined
  <2>2. r = q
    BY <1>3, <1>4, <1>7 DEF Joined
  <2>3. Joined(t, b, r)
    BY <1>4, <2>2
  <2>4. Joined(t, u, s)
    BY <1>2, <1>3, <1>5, <2>1, <2>3, JoinedAssociative
  <2> QED
    BY <1>2, <2>4, SuffixIsRest DEF Joined
<1> QED
  BY <1>6, <1>7

(* The strings of two names, compared, are the names compared.             *)
LEMMA SpellingSuffix ==
  ASSUME NEW p \in Seq(Label), NEW f, Spells(f, p),
         NEW h \in Seq(Label), NEW g, Spells(g, h)
  PROVE  \A i \in 0 .. Len(p) : \A j \in 0 .. Len(h) :
           IsSuffix(f[i], g[j]) <=>
             i <= j /\ \A k \in 1 .. i : p[k] = h[j - i + k]
<1> DEFINE Same(i, j) == i <= j /\ \A k \in 1 .. i : p[k] = h[j - i + k]
           T == {i \in Nat : i <= Len(p) => \A j \in 0 .. Len(h) :
                               IsSuffix(f[i], g[j]) <=> Same(i, j)}
<1>1. /\ Len(p) \in Nat /\ Len(h) \in Nat
      /\ \A i \in 0 .. Len(p) : f[i] \in String
      /\ \A j \in 0 .. Len(h) : g[j] \in String
  BY SpellingTyped
<1>2. 0 \in T
  <2> SUFFICES ASSUME NEW j \in 0 .. Len(h) PROVE IsSuffix(f[0], g[j]) <=> Same(0, j)
    OBVIOUS
  <2>1. Same(0, j)
    BY <1>1
  <2>2. f[0] \in Seq(Char) /\ Len(f[0]) = 0 /\ g[j] \in Seq(Char)
    BY <1>1, EmptySeq DEF Spells, String
  <2>3. IsSuffix(f[0], g[j])
    BY <2>2, SuffixLength
  <2> QED
    BY <2>1, <2>3
<1>3. ASSUME NEW i \in T PROVE i + 1 \in T
  <2> SUFFICES ASSUME i + 1 <= Len(p), NEW j \in 0 .. Len(h)
               PROVE  IsSuffix(f[i + 1], g[j]) <=> Same(i + 1, j)
    OBVIOUS
  <2>1. i \in 0 .. Len(p) /\ i + 1 \in 1 .. Len(p) /\ (i + 1) - 1 = i
    BY <1>1
  <2>2. f[i] \in String /\ p[i + 1] \in Seq(LabelChar) /\ Labelled(f[i + 1], f[i], p[i + 1])
    <3>1. p[i + 1] \in Label
      BY <2>1, ElementOfSeq
    <3> QED
      BY <1>1, <2>1, <3>1 DEF Label, Spells
  <2>3. CASE j = 0
    <3>1. g[j] \in Seq(Char) /\ Len(g[j]) = 0
      BY <1>1, <2>3, EmptySeq DEF Spells, String
    <3>2. f[i + 1] \in Seq(Char) /\ Len(f[i + 1]) > 0
      BY <2>2, LabelledProperties DEF String
    <3>3. ~IsSuffix(f[i + 1], g[j])
      BY <3>1, <3>2, SuffixLength
    <3>4. ~Same(i + 1, j)
      BY <2>3
    <3> QED
      BY <3>3, <3>4
  <2>4. CASE j # 0
    <3>1. j \in 1 .. Len(h) /\ j - 1 \in 0 .. Len(h)
      BY <1>1, <2>4
    <3>2. g[j - 1] \in String /\ h[j] \in Seq(LabelChar) /\ Labelled(g[j], g[j - 1], h[j])
      <4>1. h[j] \in Label
        BY <3>1, ElementOfSeq
      <4> QED
        BY <1>1, <3>1, <4>1 DEF Label, Spells
    <3>3. IsSuffix(f[i + 1], g[j]) <=> p[i + 1] = h[j] /\ IsSuffix(f[i], g[j - 1])
      BY <2>2, <3>2, LabelledSuffix
    <3>4. IsSuffix(f[i], g[j - 1]) <=> Same(i, j - 1)
      BY <2>1, <3>1
    <3>5. Same(i + 1, j) <=> p[i + 1] = h[j] /\ Same(i, j - 1)
      <4>1. \A k \in 1 .. i + 1 : k = i + 1 \/ k \in 1 .. i
        OBVIOUS
      <4>2. j - (i + 1) + (i + 1) = j /\ \A k \in 1 .. i : j - (i + 1) + k = (j - 1) - i + k
        BY <1>1
      <4>3. i + 1 \in 1 .. i + 1 /\ \A k \in 1 .. i : k \in 1 .. i + 1
        OBVIOUS
      <4>4. i + 1 <= j <=> i <= j - 1
        BY <1>1
      <4>5. ASSUME Same(i + 1, j) PROVE p[i + 1] = h[j] /\ Same(i, j - 1)
        BY <4>2, <4>3, <4>4, <4>5
      <4>6. ASSUME p[i + 1] = h[j], Same(i, j - 1) PROVE Same(i + 1, j)
        <5> SUFFICES ASSUME NEW k \in 1 .. i + 1 PROVE p[k] = h[j - (i + 1) + k]
          BY <4>4, <4>6
        <5> QED
          BY <4>1, <4>2, <4>6
      <4> QED
        BY <4>5, <4>6
    <3> QED
      BY <3>3, <3>4, <3>5
  <2> QED
    BY <2>3, <2>4
<1>4. T = Nat
  <2>1. T \in SUBSET Nat
    OBVIOUS
  <2> HIDE DEF T
  <2> QED
    BY <1>2, <1>3, <2>1, Induct
<1>5. ASSUME NEW i \in 0 .. Len(p), NEW j \in 0 .. Len(h)
      PROVE  IsSuffix(f[i], g[j]) <=> Same(i, j)
  <2>1. i \in Nat /\ i <= Len(p)
    BY <1>1
  <2>2. i \in T
    BY <1>4, <2>1
  <2> QED
    BY <2>1, <2>2
<1> QED
  BY <1>5
-----------------------------------------------------------------------------
(* The string of a name.                                                   *)

LEMMA SpellingChars ==
  ASSUME NEW name \in Seq(Label), NEW g, Spells(g, name)
  PROVE  \A i \in 0 .. Len(name) :
           /\ \A n \in 1 .. Len(g[i]) : g[i][n] \notin {":", "*"}
           /\ i > 0 => /\ Len(g[i]) \in Nat /\ Len(g[i]) >= 2
                       /\ g[i][1] = "." /\ g[i][Len(g[i])] # "."
<1> DEFINE Good(s) == \A n \in 1 .. Len(s) : s[n] \notin {":", "*"}
           Ends(s) == Len(s) \in Nat /\ Len(s) >= 2 /\ s[1] = "." /\ s[Len(s)] # "."
           T == {i \in Nat : i <= Len(name) => Good(g[i]) /\ (i > 0 => Ends(g[i]))}
<1>1. Len(name) \in Nat /\ \A i \in 0 .. Len(name) : g[i] \in String
  BY SpellingTyped
<1>2. 0 \in T
  BY EmptySeq DEF Spells
<1>3. ASSUME NEW i \in T PROVE i + 1 \in T
  <2> SUFFICES ASSUME i + 1 <= Len(name) PROVE Good(g[i + 1]) /\ Ends(g[i + 1])
    OBVIOUS
  <2>1. i \in 0 .. Len(name) /\ i + 1 \in 1 .. Len(name) /\ (i + 1) - 1 = i
    BY <1>1
  <2> DEFINE a == g[i]
             s == g[i + 1]
             l == name[i + 1]
  <2>2. l \in Seq(LabelChar) /\ l # << >> /\ a \in String /\ Labelled(s, a, l)
    <3>1. name[i + 1] \in Label
      BY <2>1, ElementOfSeq
    <3> QED
      BY <1>1, <2>1, <3>1 DEF Label, Spells
  <2>3. Good(a) /\ (i > 0 => Ends(a)) /\ (i = 0 => Len(a) = 0)
    BY <2>1, EmptySeq DEF Spells
  <2> HIDE DEF a, s, l
  <2>4. /\ Len(a) \in Nat /\ Len(l) \in Nat /\ Len(s) = Len(a) + 1 + Len(l)
        /\ \A n \in 1 .. Len(a) : s[n] = a[n]
        /\ s[Len(a) + 1] = "."
        /\ \A n \in 1 .. Len(l) : s[Len(a) + 1 + n] = l[n] /\ l[n] \notin {".", ":", "*"}
    <3>1. \A n \in 1 .. Len(l) : l[n] \notin {".", ":", "*"}
      BY <2>2, LabelProperties
    <3>2. /\ Len(a) \in Nat /\ Len(l) \in Nat /\ Len(s) = Len(a) + 1 + Len(l)
          /\ \A n \in 1 .. Len(a) : s[n] = a[n]
          /\ s[Len(a) + 1] = "."
          /\ \A n \in 1 .. Len(l) : s[Len(a) + 1 + n] = l[n]
      BY <2>2, LabelledProperties
    <3> QED
      BY <3>1, <3>2
  <2>5. Len(l) >= 1
    BY <2>2, <2>4, EmptySeq
  <2>6. Good(s)
    <3> SUFFICES ASSUME NEW n \in 1 .. Len(s) PROVE s[n] \notin {":", "*"}
      OBVIOUS
    <3>1. CASE n \in 1 .. Len(a)
      BY <2>3, <2>4, <3>1
    <3>2. CASE n = Len(a) + 1
      BY <2>4, <3>2
    <3>3. CASE n > Len(a) + 1
      <4>1. n - (Len(a) + 1) \in 1 .. Len(l) /\ Len(a) + 1 + (n - (Len(a) + 1)) = n
        BY <2>4, <3>3
      <4>2. s[n] = l[n - (Len(a) + 1)] /\ l[n - (Len(a) + 1)] \notin {".", ":", "*"}
        BY <2>4, <4>1
      <4> QED
        BY <4>2
    <3>4. n \in 1 .. Len(a) \/ n = Len(a) + 1 \/ n > Len(a) + 1
      BY <2>4
    <3> QED
      BY <3>1, <3>2, <3>3, <3>4
  <2>7. s[1] = "."
    <3>1. CASE i = 0
      BY <2>3, <2>4, <3>1
    <3>2. CASE i > 0
      <4>1. 1 \in 1 .. Len(a) /\ a[1] = "."
        BY <2>3, <3>2
      <4> QED
        BY <2>4, <4>1
    <3> QED
      BY <3>1, <3>2
  <2>8. s[Len(s)] # "."
    <3>1. Len(l) \in 1 .. Len(l) /\ Len(s) = Len(a) + 1 + Len(l)
      BY <2>4, <2>5
    <3>2. s[Len(a) + 1 + Len(l)] = l[Len(l)] /\ l[Len(l)] \notin {".", ":", "*"}
      BY <2>4, <3>1
    <3> QED
      BY <3>1, <3>2
  <2>9. Len(s) \in Nat /\ Len(s) >= 2
    BY <2>4, <2>5
  <2> QED
    BY <2>6, <2>7, <2>8, <2>9 DEF s
<1>4. T = Nat
  <2>1. T \in SUBSET Nat
    OBVIOUS
  <2> HIDE DEF T
  <2> QED
    BY <1>2, <1>3, <2>1, Induct
<1>5. ASSUME NEW i \in 0 .. Len(name) PROVE Good(g[i]) /\ (i > 0 => Ends(g[i]))
  <2>1. i \in Nat /\ i <= Len(name) /\ i \in T
    BY <1>1, <1>4
  <2> QED
    BY <2>1
<1> QED
  BY <1>5

LEMMA DottedProperties ==
  ASSUME NEW name \in Seq(Label), name # << >>
  PROVE  /\ Dotted(name) \in String /\ Len(Dotted(name)) \in Nat \ {0}
         /\ \A n \in 1 .. Len(Dotted(name)) : Dotted(name)[n] \notin {":", "*"}
         /\ Dotted(name)[Len(Dotted(name))] # "."
         /\ \E g : Spells(g, name) /\ Joined(g[Len(name)], Dot, Dotted(name))
<1>1. PICK g : Spells(g, name) /\ Dotted(name) = Tail(g[Len(name)])
  BY SpellingExists
<1> DEFINE w == g[Len(name)]
           t == Tail(w)
<1>2. /\ w \in Seq(Char) /\ Len(w) \in Nat /\ Len(w) >= 2
      /\ w[1] = "." /\ w[Len(w)] # "."
      /\ \A n \in 1 .. Len(w) : w[n] \notin {":", "*"}
  <2>1. Len(name) \in 0 .. Len(name) /\ Len(name) > 0
    BY EmptySeq
  <2> QED
    BY <1>1, <2>1, SpellingTyped, SpellingChars DEF String
<1> HIDE DEF w
<1>3. /\ t \in Seq(Char) /\ Len(t) = Len(w) - 1
      /\ \A n \in 1 .. Len(t) : t[n] = w[n + 1]
  <2>1. w # << >>
    BY <1>2, EmptySeq
  <2> QED
    BY <1>2, <2>1, HeadTailProperties
<1> HIDE DEF t
<1>4. ASSUME NEW n \in 1 .. Len(t) PROVE t[n] \notin {":", "*"}
  BY <1>2, <1>3
<1>5. t[Len(t)] # "."
  <2>1. Len(t) \in 1 .. Len(t) /\ Len(t) + 1 = Len(w)
    BY <1>2, <1>3
  <2> QED
    BY <1>2, <1>3, <2>1
<1>6. Joined(w, Dot, t)
  <2>1. PICK v : Joined(v, Dot, t)
    BY DEF Joined
  <2>2. Dot \in Seq(Char)
    BY DotProperties DEF String
  <2>3. /\ v \in Seq(Char) /\ Len(v) = Len(Dot) + Len(t)
        /\ \A n \in 1 .. Len(Dot) : v[n] = Dot[n]
        /\ \A n \in 1 .. Len(t) : v[Len(Dot) + n] = t[n]
    BY <1>3, <2>1, <2>2, JoinedProperties
  <2>4. Len(v) = Len(w) /\ v[1] = "." /\ \A n \in 1 .. Len(t) : v[1 + n] = t[n]
    BY <1>2, <1>3, <2>3, DotProperties
  <2>5. ASSUME NEW n \in 1 .. Len(w) PROVE v[n] = w[n]
    <3>1. CASE n = 1
      BY <1>2, <2>4, <3>1
    <3>2. CASE n # 1
      <4>1. n - 1 \in 1 .. Len(t) /\ 1 + (n - 1) = n /\ (n - 1) + 1 = n
        BY <1>2, <1>3, <3>2
      <4>2. v[1 + (n - 1)] = t[n - 1] /\ t[n - 1] = w[(n - 1) + 1]
        BY <1>3, <2>4, <4>1
      <4> QED
        BY <4>1, <4>2
    <3> QED
      BY <3>1, <3>2
  <2>6. v = w
    BY <1>2, <2>3, <2>4, <2>5, SeqEqual
  <2> QED
    BY <2>1, <2>6
<1>7. t = Dotted(name)
  BY <1>1 DEF t, w
<1>8. Len(t) \in Nat \ {0}
  BY <1>2, <1>3
<1>9. Joined(g[Len(name)], Dot, Dotted(name))
  BY <1>6, <1>7 DEF w
<1> QED
  BY <1>1, <1>3, <1>4, <1>5, <1>7, <1>8, <1>9 DEF String
-----------------------------------------------------------------------------
(* Comparing the strings of two names.                                     *)

LEMMA SameSuffix ==
  ASSUME NEW S, NEW s \in Seq(S), NEW t \in Seq(S)
  PROVE  IsSuffix(s, t) /\ IsSuffix(t, s) <=> s = t
<1>1. Len(s) \in Nat /\ Len(t) \in Nat
  OBVIOUS
<1>2. ASSUME IsSuffix(s, t), IsSuffix(t, s) PROVE s = t
  <2>1. Len(s) = Len(t) /\ \A n \in 1 .. Len(s) : s[n] = t[Len(t) - Len(s) + n]
    BY <1>1, <1>2, SuffixByElement
  <2>2. \A n \in 1 .. Len(s) : s[n] = t[n]
    BY <1>1, <2>1
  <2> QED
    BY <2>1, <2>2, SeqEqual
<1>3. ASSUME s = t PROVE IsSuffix(s, t) /\ IsSuffix(t, s)
  <2>1. \A n \in 1 .. Len(s) : Len(s) - Len(s) + n = n
    BY <1>1
  <2>2. IsSuffix(s, s)
    BY <1>1, <2>1, SuffixByElement
  <2> QED
    BY <1>3, <2>2
<1> QED
  BY <1>2, <1>3

(* With a dot before each string, a suffix is a suffix of labels.          *)
LEMMA DottedSuffix ==
  ASSUME NEW p \in Seq(Label), p # << >>, NEW h \in Seq(Label), h # << >>,
         NEW f, Joined(f, Dot, Dotted(p)), NEW g, Joined(g, Dot, Dotted(h))
  PROVE  IsSuffix(f, g) <=> IsSuffix(p, h)
<1>1. PICK fs : Spells(fs, p) /\ Joined(fs[Len(p)], Dot, Dotted(p))
  BY DottedProperties
<1>2. PICK gs : Spells(gs, h) /\ Joined(gs[Len(h)], Dot, Dotted(h))
  BY DottedProperties
<1>3. f = fs[Len(p)] /\ g = gs[Len(h)]
  BY <1>1, <1>2 DEF Joined
<1>4. Len(p) \in 0 .. Len(p) /\ Len(h) \in 0 .. Len(h)
  OBVIOUS
<1>5. IsSuffix(f, g) <=>
        Len(p) <= Len(h) /\ \A k \in 1 .. Len(p) : p[k] = h[Len(h) - Len(p) + k]
  BY <1>1, <1>2, <1>3, <1>4, SpellingSuffix
<1> QED
  BY <1>5, SuffixByElement

LEMMA DottedInjective ==
  ASSUME NEW p \in Seq(Label), p # << >>, NEW h \in Seq(Label), h # << >>,
         Dotted(p) = Dotted(h)
  PROVE  p = h
<1>1. PICK f : Joined(f, Dot, Dotted(p))
  BY DEF Joined
<1>2. Joined(f, Dot, Dotted(h))
  BY <1>1
<1>3. f \in Seq(Char)
  <2>1. Dot \in Seq(Char) /\ Dotted(p) \in Seq(Char)
    BY DotProperties, DottedProperties DEF String
  <2> QED
    BY <1>1, <2>1, JoinedProperties
<1>4. IsSuffix(f, f)
  BY <1>3, SameSuffix
<1>5. IsSuffix(p, h) /\ IsSuffix(h, p)
  BY <1>1, <1>2, <1>4, DottedSuffix
<1> QED
  BY <1>5, SameSuffix

(* A dot and a name end another name's string exactly if the other name    *)
(* has further labels before it.                                           *)
LEMMA DottedBelow ==
  ASSUME NEW p \in Seq(Label), p # << >>, NEW h \in Seq(Label), h # << >>,
         NEW f, Joined(f, Dot, Dotted(p))
  PROVE  IsSuffix(f, Dotted(h)) <=> IsStrictSuffix(p, h)
<1> DEFINE t == Dotted(h)
<1>1. PICK g : Joined(g, Dot, t)
  BY DEF Joined
<1>2. Dot \in Seq(Char) /\ Dotted(p) \in Seq(Char) /\ t \in Seq(Char)
  BY DotProperties, DottedProperties DEF String
<1>3. f \in Seq(Char) /\ g \in Seq(Char) /\ Len(f) \in Nat
  BY <1>1, <1>2, JoinedProperties
<1>4. /\ Len(g) = 1 + Len(t) /\ Len(t) \in Nat
      /\ \A n \in 1 .. Len(t) : g[1 + n] = t[n]
  <2>1. /\ Len(g) = Len(Dot) + Len(t) /\ Len(t) \in Nat
        /\ \A n \in 1 .. Len(t) : g[Len(Dot) + n] = t[n]
    BY <1>1, <1>2, JoinedProperties
  <2> QED
    BY <2>1, DotProperties
<1>5. f = g <=> p = h
  <2>1. ASSUME f = g PROVE p = h
    <3>1. Dotted(p) = t
      BY <1>1, <1>2, <2>1, JoinedCancel
    <3> QED
      BY <3>1, DottedInjective
  <2>2. ASSUME p = h PROVE f = g
    BY <1>1, <2>2 DEF Joined
  <2> QED
    BY <2>1, <2>2
<1>6. IsSuffix(f, g) <=> IsSuffix(p, h)
  BY <1>1, DottedSuffix
<1> HIDE DEF t
<1>7. IsSuffix(f, t) <=> IsSuffix(f, g) /\ f # g
  <2>1. IsSuffix(f, t) <=>
          Len(f) <= Len(t) /\ \A n \in 1 .. Len(f) : f[n] = t[Len(t) - Len(f) + n]
    BY <1>2, <1>3, SuffixByElement
  <2>2. IsSuffix(f, g) <=>
          Len(f) <= Len(g) /\ \A n \in 1 .. Len(f) : f[n] = g[Len(g) - Len(f) + n]
    BY <1>3, SuffixByElement
  <2>3. ASSUME Len(f) <= Len(t), NEW n \in 1 .. Len(f)
        PROVE  g[Len(g) - Len(f) + n] = t[Len(t) - Len(f) + n]
    <3>1. /\ Len(t) - Len(f) + n \in 1 .. Len(t)
          /\ 1 + (Len(t) - Len(f) + n) = Len(g) - Len(f) + n
      BY <1>3, <1>4, <2>3
    <3> QED
      BY <1>4, <3>1
  <2>4. CASE Len(f) <= Len(t)
    <3>1. Len(f) # Len(g) /\ Len(f) <= Len(g)
      BY <1>3, <1>4, <2>4
    <3> QED
      BY <2>1, <2>2, <2>3, <2>4, <3>1
  <2>5. CASE ~(Len(f) <= Len(t))
    <3>1. Len(f) <= Len(g) => Len(f) = Len(g)
      BY <1>3, <1>4, <2>5
    <3>2. ASSUME IsSuffix(f, g) PROVE f = g
      <4>1. Len(f) = Len(g) /\ Len(g) - Len(f) = 0
        BY <1>3, <1>4, <2>2, <3>1, <3>2
      <4>2. \A n \in 1 .. Len(f) : f[n] = g[n]
        BY <1>3, <2>2, <3>2, <4>1
      <4> QED
        BY <1>3, <4>1, <4>2, SeqEqual
    <3> QED
      BY <2>1, <2>5, <3>2
  <2> QED
    BY <2>4, <2>5
<1> QED
  BY <1>5, <1>6, <1>7 DEF t, IsStrictSuffix
-----------------------------------------------------------------------------
(* What _normalize_host leaves of a string.                                *)

LEMMA MaxOf ==
  ASSUME NEW I \in SUBSET Nat, NEW k \in I, \A i \in I : k >= i
  PROVE  Max(I) = k
<1>1. \A m \in I : (\A i \in I : m >= i) => m = k
  OBVIOUS
<1> QED
  BY <1>1 DEF Max

LEMMA LastNotDot ==
  ASSUME NEW s, Len(s) \in Nat, NEW k \in 1 .. Len(s), s[k] # ".",
         \A n \in k + 1 .. Len(s) : s[n] = "."
  PROVE  SelectLastInSeq(s, LAMBDA c : c # ".") = k
<1> DEFINE I == {n \in 1 .. Len(s) : s[n] # "."}
<1>1. I \in SUBSET Nat /\ k \in I /\ \A n \in I : k >= n
  OBVIOUS
<1>2. Max(I) = k
  BY <1>1, MaxOf
<1> QED
  BY <1>1, <1>2 DEF SelectLastInSeq

LEMMA LastColon ==
  ASSUME NEW s, Len(s) \in Nat, NEW k \in 1 .. Len(s), s[k] = ":",
         \A n \in k + 1 .. Len(s) : s[n] # ":"
  PROVE  SelectLastInSeq(s, LAMBDA c : c = ":") = k
<1> DEFINE I == {n \in 1 .. Len(s) : s[n] = ":"}
<1>1. I \in SUBSET Nat /\ k \in I /\ \A n \in I : k >= n
  OBVIOUS
<1>2. Max(I) = k
  BY <1>1, MaxOf
<1> QED
  BY <1>1, <1>2 DEF SelectLastInSeq

LEMMA NoColon ==
  ASSUME NEW s, \A n \in 1 .. Len(s) : s[n] # ":"
  PROVE  SelectLastInSeq(s, LAMBDA c : c = ":") = 0
BY DEF SelectLastInSeq

Colon == <<":">>

LEMMA ColonProperties == Colon \in String /\ Len(Colon) = 1 /\ Colon[1] = ":"
<1>1. Colon \in Seq({":"}) /\ Len(Colon) = 1 /\ Colon[1] = ":"
  BY DEF Colon
<1> QED
  BY <1>1, NameAssumption, SeqMonotonic DEF String

(* s is t as it is, fully qualified, or with a port.                       *)
Spelt(s, t) ==
  \/ s = t
  \/ Joined(s, t, Dot)
  \/ \E port \in Port : \E c : Joined(c, t, Colon) /\ Joined(s, c, port)

Bare(t) ==
  /\ t \in String /\ Len(t) \in Nat \ {0} /\ t[Len(t)] # "."
  /\ \A n \in 1 .. Len(t) : t[n] # ":"

LEMMA HeadOfJoined ==
  ASSUME NEW S, NEW s \in Seq(S), NEW t \in Seq(S), NEW w, Joined(w, s, t)
  PROVE  SubSeq(w, 1, Len(s)) = s
<1>1. /\ Len(s) \in Nat /\ \A n \in 1 .. Len(s) : w[n] = s[n] /\ s[n] \in S
  BY JoinedProperties, ElementOfSeq
<1> DEFINE u == SubSeq(w, 1, Len(s))
<1>2. /\ u \in Seq(S) /\ Len(u) = IF 1 <= Len(s) THEN Len(s) - 1 + 1 ELSE 0
      /\ \A n \in 1 .. Len(s) - 1 + 1 : u[n] = w[1 + n - 1]
  BY <1>1, SubSeqProperties
<1> HIDE DEF u
<1>3. Len(u) = Len(s) /\ \A n \in 1 .. Len(s) : u[n] = s[n]
  BY <1>1, <1>2
<1> QED
  BY <1>2, <1>3, SeqEqual DEF u

LEMMA RestOfJoined ==
  ASSUME NEW S, NEW s \in Seq(S), NEW t \in Seq(S), NEW w, Joined(w, s, t)
  PROVE  SubSeq(w, Len(s) + 1, Len(w)) = t
<1>1. /\ Len(s) \in Nat /\ Len(t) \in Nat /\ Len(w) = Len(s) + Len(t)
      /\ \A n \in 1 .. Len(t) : w[Len(s) + n] = t[n] /\ t[n] \in S
  BY JoinedProperties, ElementOfSeq
<1> DEFINE u == SubSeq(w, Len(s) + 1, Len(w))
<1>2. ASSUME NEW i \in Len(s) + 1 .. Len(w) PROVE w[i] \in S
  <2>1. i - Len(s) \in 1 .. Len(t) /\ Len(s) + (i - Len(s)) = i
    BY <1>1
  <2> QED
    BY <1>1, <2>1
<1>3. /\ u \in Seq(S)
      /\ Len(u) = IF Len(s) + 1 <= Len(w) THEN Len(w) - (Len(s) + 1) + 1 ELSE 0
      /\ \A n \in 1 .. Len(w) - (Len(s) + 1) + 1 : u[n] = w[(Len(s) + 1) + n - 1]
  BY <1>1, <1>2, SubSeqProperties
<1> HIDE DEF u
<1>4. Len(u) = Len(t)
  BY <1>1, <1>3
<1>5. ASSUME NEW n \in 1 .. Len(t) PROVE u[n] = t[n]
  <2>1. n \in 1 .. Len(w) - (Len(s) + 1) + 1 /\ (Len(s) + 1) + n - 1 = Len(s) + n
    BY <1>1
  <2> QED
    BY <1>1, <1>3, <2>1
<1> QED
  BY <1>3, <1>4, <1>5, SeqEqual DEF u

LEMMA BareIsNormal ==
  ASSUME NEW t, Bare(t), NEW s, s = t \/ Joined(s, t, Dot)
  PROVE  NormalizeHost(s) = t
<1>1. t \in Seq(Char) /\ Len(t) \in Nat /\ Len(t) \in 1 .. Len(t) /\ t[Len(t)] # "."
  BY DEF Bare, String
<1>2. /\ Len(s) \in Nat /\ Len(t) \in 1 .. Len(s) /\ s[Len(t)] # "."
      /\ \A n \in Len(t) + 1 .. Len(s) : s[n] = "."
      /\ SubSeq(s, 1, Len(t)) = t
  <2>1. CASE s = t
    BY <1>1, <2>1, SubSeqFull
  <2>2. CASE Joined(s, t, Dot)
    <3>1. Dot \in Seq(Char) /\ Len(Dot) = 1 /\ Dot[1] = "."
      BY DotProperties DEF String
    <3>2. /\ Len(s) = Len(t) + Len(Dot)
          /\ \A n \in 1 .. Len(t) : s[n] = t[n]
          /\ \A n \in 1 .. Len(Dot) : s[Len(t) + n] = Dot[n]
      <4>1. t \in Seq(Char) /\ Dot \in Seq(Char)
        BY <1>1, <3>1
      <4> QED
        BY <2>2, <4>1, JoinedProperties
    <3>3. Len(s) = Len(t) + 1 /\ s[Len(t) + 1] = "."
      BY <3>1, <3>2
    <3>4. SubSeq(s, 1, Len(t)) = t
      BY <1>1, <2>2, <3>1, HeadOfJoined
    <3> QED
      BY <1>1, <3>2, <3>3, <3>4
  <2> QED
    BY <2>1, <2>2
<1>3. SelectLastInSeq(s, LAMBDA c : c # ".") = Len(t)
  BY <1>2, LastNotDot
<1>4. SelectLastInSeq(t, LAMBDA c : c = ":") = 0
  BY NoColon DEF Bare
<1> QED
  BY <1>2, <1>3, <1>4 DEF NormalizeHost

LEMMA PortIsCut ==
  ASSUME NEW t, Bare(t), NEW port \in Port, NEW c, Joined(c, t, Colon),
         NEW s, Joined(s, c, port)
  PROVE  NormalizeHost(s) = t
<1>1. /\ t \in Seq(Char) /\ Colon \in Seq(Char) /\ Len(Colon) = 1 /\ Colon[1] = ":"
      /\ Len(t) \in Nat \ {0}
  BY ColonProperties DEF Bare, String
<1>2. /\ port \in Seq(LabelChar) /\ port \in Seq(Char) /\ Len(port) \in Nat \ {0}
      /\ \A n \in 1 .. Len(port) : port[n] \in Digit /\ port[n] \notin {".", ":", "*"}
  <2>1. port \in Seq(Digit) /\ port # << >> /\ Digit \subseteq LabelChar
    BY NameAssumption
  <2>2. port \in Seq(LabelChar)
    BY <2>1, SeqMonotonic
  <2>3. Len(port) \in Nat \ {0} /\ \A n \in 1 .. Len(port) : port[n] \in Digit
    BY <2>1, EmptySeq, ElementOfSeq
  <2> QED
    BY <2>2, <2>3, LabelProperties DEF String
<1>3. c \in Seq(Char) /\ Len(c) = Len(t) + 1 /\ c[Len(t) + 1] = ":"
  <2>1. t \in Seq(Char) /\ Colon \in Seq(Char)
    BY <1>1
  <2>2. /\ c \in Seq(Char) /\ Len(c) = Len(t) + Len(Colon)
        /\ \A n \in 1 .. Len(Colon) : c[Len(t) + n] = Colon[n]
    BY <2>1, JoinedProperties
  <2> QED
    BY <1>1, <2>2
<1>4. /\ s \in Seq(Char) /\ Len(s) = Len(c) + Len(port)
      /\ \A n \in 1 .. Len(c) : s[n] = c[n]
      /\ \A n \in 1 .. Len(port) : s[Len(c) + n] = port[n]
  <2>1. c \in Seq(Char) /\ port \in Seq(Char)
    BY <1>2, <1>3
  <2> QED
    BY <2>1, JoinedProperties
<1>5. Len(s) \in 1 .. Len(s) /\ Len(s) \in Nat /\ s[Len(s)] # "."
  <2>1. Len(port) \in 1 .. Len(port) /\ Len(s) = Len(c) + Len(port)
        /\ Len(s) \in 1 .. Len(s) /\ Len(s) \in Nat
    BY <1>1, <1>2, <1>3, <1>4
  <2>2. s[Len(c) + Len(port)] = port[Len(port)] /\ port[Len(port)] \notin {".", ":", "*"}
    BY <1>2, <1>4, <2>1
  <2> QED
    BY <2>1, <2>2
<1>6. SelectLastInSeq(s, LAMBDA x : x # ".") = Len(s)
  <2>1. \A n \in Len(s) + 1 .. Len(s) : s[n] = "."
    BY <1>5
  <2> QED
    BY <1>5, <2>1, LastNotDot
<1>7. SubSeq(s, 1, Len(s)) = s
  BY <1>4, SubSeqFull
<1>8. SelectLastInSeq(s, LAMBDA x : x = ":") = Len(c)
  <2>1. Len(c) \in 1 .. Len(c) /\ Len(c) \in 1 .. Len(s)
    BY <1>1, <1>2, <1>3, <1>4
  <2>2. s[Len(c)] = ":"
    BY <1>3, <1>4, <2>1
  <2>3. ASSUME NEW n \in Len(c) + 1 .. Len(s) PROVE s[n] # ":"
    <3>1. n - Len(c) \in 1 .. Len(port) /\ Len(c) + (n - Len(c)) = n
      BY <1>1, <1>2, <1>3, <1>4
    <3>2. s[Len(c) + (n - Len(c))] = port[n - Len(c)]
          /\ port[n - Len(c)] \notin {".", ":", "*"}
      BY <1>2, <1>4, <3>1
    <3> QED
      BY <3>1, <3>2
  <2> QED
    BY <1>5, <2>1, <2>2, <2>3, LastColon
<1>9. SubSeq(s, Len(c) + 1, Len(s)) = port
  BY <1>2, <1>3, RestOfJoined
<1>10. SubSeq(s, 1, Len(c) - 1) = t
  <2>1. Len(c) - 1 = Len(t) /\ Len(t) \in Nat /\ \A n \in 1 .. Len(t) : n \in 1 .. Len(c)
    BY <1>1, <1>3
  <2>2. SubSeq(c, 1, Len(t)) = t
    BY <1>1, HeadOfJoined
  <2>3. \A n \in 1 .. Len(t) : s[n] = c[n]
    BY <1>4, <2>1
  <2>4. SubSeq(s, 1, Len(t)) = SubSeq(c, 1, Len(t))
    <3>1. /\ SubSeq(s, 1, Len(t)) = [n \in 1 .. Len(t) |-> s[n]]
          /\ SubSeq(c, 1, Len(t)) = [n \in 1 .. Len(t) |-> c[n]]
      BY <1>3, <1>4, <2>1
    <3> QED
      BY <2>3, <3>1
  <2> QED
    BY <2>1, <2>2, <2>4
<1>11. Len(c) # 0 /\ port # << >>
  BY <1>1, <1>2, <1>3, EmptySeq
<1> QED
  BY <1>2, <1>6, <1>7, <1>8, <1>9, <1>10, <1>11 DEF NormalizeHost

LEMMA Normalized ==
  ASSUME NEW t, Bare(t), NEW s, Spelt(s, t)
  PROVE  NormalizeHost(s) = t
BY BareIsNormal, PortIsCut DEF Spelt

LEMMA FirstOfSpelt ==
  ASSUME NEW t, Bare(t), NEW s, Spelt(s, t)
  PROVE  s \in String /\ Len(s) \in Nat \ {0} /\ s[1] = t[1]
<1>1. t \in Seq(Char) /\ Len(t) \in Nat \ {0} /\ 1 \in 1 .. Len(t)
  BY DEF Bare, String
<1>2. ASSUME NEW e \in Seq(Char), NEW w, Joined(w, t, e)
      PROVE  /\ w \in Seq(Char) /\ Len(w) = Len(t) + Len(e) /\ Len(e) \in Nat
             /\ w[1] = t[1]
  <2>1. t \in Seq(Char)
    BY <1>1
  <2>2. /\ w \in Seq(Char) /\ Len(w) = Len(t) + Len(e) /\ Len(e) \in Nat
        /\ \A n \in 1 .. Len(t) : w[n] = t[n]
    BY <1>2, <2>1, JoinedProperties
  <2> QED
    BY <1>1, <2>2
<1>3. CASE s = t
  BY <1>1, <1>3 DEF String
<1>4. CASE Joined(s, t, Dot)
  <2>1. Dot \in Seq(Char)
    BY DotProperties DEF String
  <2> QED
    BY <1>1, <1>2, <1>4, <2>1 DEF String
<1>5. CASE \E port \in Port : \E c : Joined(c, t, Colon) /\ Joined(s, c, port)
  <2>0. PICK port \in Port : \E c : Joined(c, t, Colon) /\ Joined(s, c, port)
    BY <1>5
  <2>1. PICK c : Joined(c, t, Colon) /\ Joined(s, c, port)
    BY <2>0
  <2>2. Colon \in Seq(Char)
    BY ColonProperties DEF String
  <2>3. c \in Seq(Char) /\ Len(c) \in Nat \ {0} /\ c[1] = t[1]
    BY <1>1, <1>2, <2>1, <2>2
  <2>4. port \in Seq(Char)
    BY NameAssumption, SeqMonotonic, LabelProperties DEF String
  <2>5. /\ s \in Seq(Char) /\ Len(s) = Len(c) + Len(port) /\ Len(port) \in Nat
        /\ \A n \in 1 .. Len(c) : s[n] = c[n]
    <3>1. c \in Seq(Char)
      BY <2>3
    <3> QED
      BY <2>1, <2>4, <3>1, JoinedProperties
  <2> QED
    BY <2>3, <2>5 DEF String
<1> QED
  BY <1>3, <1>4, <1>5 DEF Spelt
-----------------------------------------------------------------------------
(* Hosts and patterns of names.                                            *)

LEMMA NameProperties ==
  ASSUME NEW name \in Name
  PROVE  name \in Seq(Label) /\ name # << >> /\ Bare(Dotted(name))
<1>1. name \in Seq(Label) /\ name # << >>
  BY NameAssumption
<1> QED
  BY <1>1, DottedProperties DEF Bare

LEMMA NamedIsSpelt ==
  ASSUME NEW name \in Name, NEW host, Named(host, name)
  PROVE  Spelt(host, Dotted(name)) /\ NormalizeHost(host) = Dotted(name)
<1>1. host \in {Dotted(name), Dotted(name) \o Dot}
                 \cup {Dotted(name) \o Colon \o port : port \in Port}
  BY DEF Named, Spellings, Dot, Colon
<1>2. Spelt(host, Dotted(name))
  <2>1. CASE \E port \in Port : host = Dotted(name) \o Colon \o port
    <3>1. PICK port \in Port : host = (Dotted(name) \o Colon) \o port
      BY <2>1
    <3>2. Joined(Dotted(name) \o Colon, Dotted(name), Colon)
          /\ Joined(host, Dotted(name) \o Colon, port)
      BY <3>1 DEF Joined
    <3> QED
      BY <3>2 DEF Spelt
  <2>2. CASE host \in {Dotted(name), Dotted(name) \o Dot}
    BY <2>2 DEF Spelt, Joined
  <2> QED
    BY <1>1, <2>1, <2>2
<1> QED
  BY <1>2, NameProperties, Normalized

LEMMA NamedOnce ==
  ASSUME NEW p \in Name, NEW q \in Name, NEW host, Named(host, p), Named(host, q)
  PROVE  p = q
<1>1. Dotted(p) = Dotted(q)
  BY NamedIsSpelt
<1> QED
  BY <1>1, NameProperties, DottedInjective

Star == <<"*", ".">>

LEMMA StarProperties ==
  Star \in String /\ Len(Star) = 2 /\ Star[1] = "*" /\ Star[2] = "."
<1>1. Star \in Seq({"*", "."}) /\ Len(Star) = 2 /\ Star[1] = "*" /\ Star[2] = "."
  BY DEF Star
<1> QED
  BY <1>1, NameAssumption, SeqMonotonic DEF String

LEMMA WildcardByElement ==
  ASSUME NEW s \in String
  PROVE  IsWildcard(s) <=> Len(s) >= 2 /\ s[1] = "*" /\ s[2] = "."
<1>1. s \in Seq(Char) /\ Star \in Seq(Char)
  BY StarProperties DEF String
<1>2. IsWildcard(s) <=> IsPrefix(Star, s)
  BY DEF IsWildcard, Star
<1>3. IsPrefix(Star, s) <=> Len(Star) <= Len(s) /\ \A n \in 1 .. Len(Star) : Star[n] = s[n]
  BY <1>1, PrefixByElement
<1>4. \A n : n \in 1 .. 2 <=> n = 1 \/ n = 2
  OBVIOUS
<1> QED
  BY <1>1, <1>2, <1>3, <1>4, StarProperties

LEMMA WildcardIsJoined ==
  ASSUME NEW t \in String, NEW w, Joined(w, Star, t)
  PROVE  w \in String /\ IsWildcard(w) /\ Base(w) = t
<1>1. t \in Seq(Char) /\ Star \in Seq(Char)
  BY StarProperties DEF String
<1>2. /\ w \in Seq(Char) /\ Len(w) = Len(Star) + Len(t) /\ Len(t) \in Nat
      /\ \A n \in 1 .. Len(Star) : w[n] = Star[n]
  BY <1>1, JoinedProperties
<1>3. Len(w) >= 2 /\ w[1] = "*" /\ w[2] = "."
  BY <1>2, StarProperties
<1>4. SubSeq(w, Len(Star) + 1, Len(w)) = t
  BY <1>1, RestOfJoined
<1>5. Len(Star) + 1 = 3
  BY StarProperties
<1> QED
  BY <1>2, <1>3, <1>4, <1>5, WildcardByElement DEF String, Base

LEMMA WildcardJoins ==
  ASSUME NEW s \in String, IsWildcard(s)
  PROVE  Base(s) \in String /\ Joined(s, Star, Base(s))
<1>1. s \in Seq(Char) /\ Len(s) \in Nat /\ Len(s) >= 2 /\ s[1] = "*" /\ s[2] = "."
  BY WildcardByElement DEF String
<1> DEFINE b == Base(s)
<1>2. /\ b \in Seq(Char) /\ Len(b) = Len(s) - 2
      /\ \A n \in 1 .. Len(b) : b[n] = s[2 + n]
  <2>1. \A i \in 3 .. Len(s) : s[i] \in Char
    BY <1>1, ElementOfSeq
  <2>2. /\ b \in Seq(Char) /\ Len(b) = IF 3 <= Len(s) THEN Len(s) - 3 + 1 ELSE 0
        /\ \A n \in 1 .. Len(s) - 3 + 1 : b[n] = s[3 + n - 1]
    BY <1>1, <2>1, SubSeqProperties DEF Base
  <2> HIDE DEF b
  <2>3. Len(b) = Len(s) - 2
    <3>1. Len(b) = IF 3 <= Len(s) THEN Len(s) - 3 + 1 ELSE 0
      BY <2>2
    <3>2. Len(s) \in Nat /\ Len(s) >= 2
      BY <1>1
    <3>3. PICK m \in Nat : m = Len(s)
      BY <3>2
    <3>4. m >= 2 /\ Len(b) = IF 3 <= m THEN m - 3 + 1 ELSE 0
      BY <3>1, <3>2, <3>3
    <3>5. Len(b) = m - 2
      BY <3>4
    <3> QED
      BY <3>3, <3>5
  <2>4. ASSUME NEW n \in 1 .. Len(b) PROVE b[n] = s[2 + n]
    <3>1. n \in 1 .. Len(s) - 3 + 1 /\ 3 + n - 1 = 2 + n
      BY <1>1, <2>3
    <3>2. b[n] = s[3 + n - 1]
      BY <2>2, <3>1
    <3> QED
      BY <3>1, <3>2
  <2> QED
    BY <2>2, <2>3, <2>4
<1> HIDE DEF b
<1>3. PICK w : Joined(w, Star, b)
  BY DEF Joined
<1>4. Star \in Seq(Char)
  BY StarProperties DEF String
<1>5. /\ w \in Seq(Char) /\ Len(w) = Len(Star) + Len(b)
      /\ \A n \in 1 .. Len(Star) : w[n] = Star[n]
      /\ \A n \in 1 .. Len(b) : w[Len(Star) + n] = b[n]
  <2>1. b \in Seq(Char)
    BY <1>2
  <2> QED
    BY <1>3, <1>4, <2>1, JoinedProperties
<1>6. Len(w) = Len(s) /\ w[1] = s[1] /\ w[2] = s[2]
  BY <1>1, <1>2, <1>5, StarProperties
<1>7. ASSUME NEW n \in 3 .. Len(s) PROVE w[n] = s[n]
  <2>1. n - 2 \in 1 .. Len(b) /\ Len(Star) + (n - 2) = n /\ 2 + (n - 2) = n
    BY <1>1, <1>2, StarProperties
  <2> QED
    BY <1>2, <1>5, <2>1
<1>8. \A n \in 1 .. Len(s) : w[n] = s[n]
  <2>1. \A n \in 1 .. Len(s) : n = 1 \/ n = 2 \/ n \in 3 .. Len(s)
    BY <1>1
  <2> QED
    BY <1>6, <1>7, <2>1
<1>9. w = s
  BY <1>1, <1>5, <1>6, <1>8, SeqEqual
<1> QED
  BY <1>2, <1>3, <1>9 DEF String, b

(* A pattern of a name's subdomains is normalized as the name is.          *)
LEMMA BelowIsSpelt ==
  ASSUME NEW name \in Name, NEW pattern \in String, Below(pattern, name)
  PROVE  \E w \in String :
           /\ Joined(w, Star, Dotted(name))
           /\ NormalizeHost(pattern) = w
<1> DEFINE t == Dotted(name)
           b == Base(pattern)
<1>1. /\ t \in Seq(Char) /\ Len(t) \in Nat \ {0} /\ t[Len(t)] # "."
      /\ \A n \in 1 .. Len(t) : t[n] # ":"
  BY NameProperties DEF Bare, String
<1>2. Spelt(b, t)
  BY NamedIsSpelt DEF Below, Named
<1>3. b \in String /\ Joined(pattern, Star, b)
  BY WildcardJoins DEF Below
<1> HIDE DEF t, b
<1>4. PICK w : Joined(w, Star, t)
  BY DEF Joined
<1>5. Star \in Seq(Char) /\ Dot \in Seq(Char) /\ Colon \in Seq(Char)
      /\ \A port \in Port : port \in Seq(Char)
  <2>1. \A port \in Port : port \in Seq(LabelChar)
    BY NameAssumption, SeqMonotonic
  <2> QED
    BY <2>1, StarProperties, DotProperties, ColonProperties, LabelProperties DEF String
<1>6. /\ w \in Seq(Char) /\ Len(w) = 2 + Len(t)
      /\ \A n \in 1 .. 2 : w[n] = Star[n]
      /\ \A n \in 1 .. Len(t) : w[2 + n] = t[n]
  <2>1. /\ w \in Seq(Char) /\ Len(w) = Len(Star) + Len(t)
        /\ \A n \in 1 .. Len(Star) : w[n] = Star[n]
        /\ \A n \in 1 .. Len(t) : w[Len(Star) + n] = t[n]
    <3>1. t \in Seq(Char)
      BY <1>1
    <3> QED
      BY <1>4, <1>5, <3>1, JoinedProperties
  <2> QED
    BY <2>1, StarProperties
<1>7. Bare(w)
  <2>1. Len(w) \in Nat \ {0}
    BY <1>1, <1>6
  <2>2. w[Len(w)] # "."
    <3>1. Len(t) \in 1 .. Len(t)
      BY <1>1
    <3> QED
      BY <1>1, <1>6, <3>1
  <2>3. ASSUME NEW n \in 1 .. Len(w) PROVE w[n] # ":"
    <3>1. CASE n \in 1 .. 2
      <4>1. n = 1 \/ n = 2
        BY <3>1
      <4> QED
        BY <1>6, <4>1, StarProperties
    <3>2. CASE n > 2
      <4>1. n - 2 \in 1 .. Len(t) /\ 2 + (n - 2) = n
        BY <1>1, <1>6, <3>2
      <4> QED
        BY <1>1, <1>6, <4>1
    <3> QED
      BY <1>1, <1>6, <3>1, <3>2
  <2> QED
    BY <1>6, <2>1, <2>2, <2>3 DEF Bare, String
<1>8. Spelt(pattern, w)
  <2>1. t \in Seq(Char) /\ w \in Seq(Char) /\ b \in Seq(Char)
    BY <1>1, <1>3, <1>6 DEF String
  <2>2. CASE b = t
    BY <1>3, <1>4, <2>2 DEF Spelt, Joined
  <2>3. CASE Joined(b, t, Dot)
    <3>1. Joined(pattern, w, Dot)
      BY <1>3, <1>4, <1>5, <2>1, <2>3, JoinedAssociative
    <3> QED
      BY <3>1 DEF Spelt
  <2>4. CASE \E port \in Port : \E c : Joined(c, t, Colon) /\ Joined(b, c, port)
    <3>0. PICK port \in Port : \E c : Joined(c, t, Colon) /\ Joined(b, c, port)
      BY <2>4
    <3>1. PICK c : Joined(c, t, Colon) /\ Joined(b, c, port)
      BY <3>0
    <3>2. c \in Seq(Char)
      BY <1>5, <2>1, <3>1, JoinedProperties
    <3>3. PICK d : Joined(d, Star, c)
      BY DEF Joined
    <3>4. Joined(d, w, Colon)
      BY <1>4, <1>5, <2>1, <3>1, <3>3, JoinedAssociative
    <3>5. Joined(pattern, d, port)
      BY <1>3, <1>5, <3>1, <3>2, <3>3, JoinedAssociative
    <3> QED
      BY <3>4, <3>5 DEF Spelt
  <2> QED
    BY <1>2, <2>2, <2>3, <2>4 DEF Spelt
<1> QED
  BY <1>4, <1>6, <1>7, <1>8, Normalized DEF String, t

LEMMA NotBoth ==
  ASSUME NEW p \in Name, NEW pattern \in String, Named(pattern, p)
  PROVE  ~IsWildcard(pattern) /\ pattern # << >>
<1>1. Len(pattern) \in Nat \ {0} /\ pattern[1] = Dotted(p)[1]
  BY NamedIsSpelt, NameProperties, FirstOfSpelt
<1>2. 1 \in 1 .. Len(Dotted(p)) /\ Dotted(p)[1] # "*"
  BY NameProperties, DottedProperties
<1> QED
  BY <1>1, <1>2, WildcardByElement, EmptySeq

(* A pattern without wildcard means one name, and matches that name.       *)
LEMMA ExactMatch ==
  ASSUME NEW p \in Name, NEW pattern \in String, Named(pattern, p)
  PROVE  /\ pattern # << >> /\ ~Unsupported(pattern)
         /\ \A h \in Name : \A host : Named(host, h) =>
              (HostMatches(pattern, host) <=> Means(pattern, host))
<1>1. NormalizeHost(pattern) = Dotted(p) /\ Dotted(p) \in String
  BY NamedIsSpelt, NameProperties DEF Bare
<1>2. \A n \in 1 .. Len(Dotted(p)) : Dotted(p)[n] # "*"
  BY NameProperties, DottedProperties
<1>3. ~IsWildcard(Dotted(p)) /\ ~IsWildcard(pattern)
  <2>1. 1 \in 1 .. Len(Dotted(p))
    BY NameProperties DEF Bare
  <2> QED
    BY <1>1, <1>2, <2>1, NotBoth, WildcardByElement
<1>4. ~Unsupported(pattern)
  BY <1>1, <1>2, <1>3 DEF Unsupported, Contains
<1>5. ASSUME NEW h \in Name, NEW host, Named(host, h)
      PROVE  HostMatches(pattern, host) <=> Means(pattern, host)
  <2>1. NormalizeHost(host) = Dotted(h)
    BY <1>5, NamedIsSpelt
  <2>2. HostMatches(pattern, host) <=> Dotted(h) = Dotted(p)
    BY <1>1, <1>3, <2>1 DEF HostMatches
  <2>3. Dotted(h) = Dotted(p) <=> h = p
    BY NameProperties, DottedInjective
  <2>4. Means(pattern, host) <=> \E q \in Name : Named(pattern, q) /\ Named(host, q)
    BY <1>3 DEF Means, Below
  <2>5. Means(pattern, host) <=> h = p
    BY <1>5, <2>4, NamedOnce
  <2> QED
    BY <2>2, <2>3, <2>5
<1> QED
  BY <1>4, <1>5, NotBoth

(* A wildcard pattern matches exactly the names below its base.            *)
LEMMA WildcardMatch ==
  ASSUME NEW p \in Name, NEW pattern \in String, Below(pattern, p)
  PROVE  /\ pattern # << >> /\ ~Unsupported(pattern)
         /\ \A h \in Name : \A host : Named(host, h) =>
              (HostMatches(pattern, host) <=> Means(pattern, host))
<1>1. PICK w \in String : Joined(w, Star, Dotted(p)) /\ NormalizeHost(pattern) = w
  BY BelowIsSpelt
<1>2. Dotted(p) \in String /\ Dotted(p) # << >>
  BY NameProperties, EmptySeq DEF Bare
<1>3. IsWildcard(w) /\ Base(w) = Dotted(p)
  BY <1>1, <1>2, WildcardIsJoined
<1>4. \A n \in 1 .. Len(Dotted(p)) : Dotted(p)[n] # "*"
  BY NameProperties, DottedProperties
<1>5. ~Unsupported(pattern)
  BY <1>1, <1>2, <1>3, <1>4 DEF Unsupported, Contains
<1>6. pattern # << >> /\ IsWildcard(pattern)
  BY WildcardByElement, EmptySeq DEF Below
<1>7. ASSUME NEW h \in Name, NEW host, Named(host, h)
      PROVE  HostMatches(pattern, host) <=> Means(pattern, host)
  <2>1. NormalizeHost(host) = Dotted(h)
    BY <1>7, NamedIsSpelt
  <2>2. PICK f : f = Dot \o Dotted(p)
    OBVIOUS
  <2>3. HostMatches(pattern, host) <=> IsSuffix(f, Dotted(h))
    BY <1>1, <1>3, <2>1, <2>2 DEF HostMatches, Dot
  <2>4. IsSuffix(f, Dotted(h)) <=> IsStrictSuffix(p, h)
    BY <2>2, NameProperties, DottedBelow DEF Joined
  <2>5. Means(pattern, host) <=>
          \E q \in Name : Below(pattern, q) /\
            \E k \in Name : IsStrictSuffix(q, k) /\ Named(host, k)
    BY <1>6, NotBoth DEF Means
  <2>6. \A q \in Name : Below(pattern, q) => q = p
    BY NamedOnce DEF Below, Named
  <2>7. \A k \in Name : Named(host, k) => k = h
    BY <1>7, NamedOnce
  <2>8. Means(pattern, host) <=> IsStrictSuffix(p, h)
    BY <1>7, <2>5, <2>6, <2>7
  <2> QED
    BY <2>3, <2>4, <2>8
<1> QED
  BY <1>5, <1>6, <1>7
===============================================================================
