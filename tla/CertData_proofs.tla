--------------------------- MODULE CertData_proofs ---------------------------
(***************************************************************************)
(* Proofs about CertData, for any blacklist, any way to make file names    *)
(* and any texts that are well-formed (TextsAssumption of CertData).       *)
(*                                                                         *)
(* First the values of a text, by induction on its lines, and how a text   *)
(* goes on from one line to the next.  Then the parser, which at each line *)
(* has the objects so far, and the part of one that is being read.  Then   *)
(* the writer of the files, which needs of the parser only that the        *)
(* objects are those of the text.                                          *)
(***************************************************************************)
EXTENDS CertData, Integers, SequenceTheorems, WellFoundedInduction, TLAPS

\* The natural numbers are well-founded, as a fact about a relation.
LEMMA Descent == \E R : IsWellFoundedOn(R, Nat) /\ \A a, b \in Nat : a < b => <<a, b>> \in R
<1> DEFINE R == OpToRel(<, Nat)
<1>1. IsWellFoundedOn(R, Nat)
  BY NatLessThanWellFounded
<1>2. \A a, b \in Nat : a < b => <<a, b>> \in R
  BY DEF OpToRel
<1>3. QED
  BY <1>1, <1>2

LEMMA Least ==
  ASSUME NEW S, S \subseteq Nat, S # {}
  PROVE  \E n \in S : \A m \in S : n <= m
<1>1. PICK R : IsWellFoundedOn(R, Nat) /\ \A a, b \in Nat : a < b => <<a, b>> \in R
  BY Descent
<1>2. PICK n \in S : \A m \in S : ~(<<m, n>> \in R)
  BY <1>1, WFMin
<1>3. \A m \in S : ~(m < n)
  BY <1>1, <1>2
<1>4. QED
  BY <1>3

\* Induction over a set instead of a predicate.
LEMMA Induction ==
  ASSUME NEW S, 0 \in S, \A n \in Nat : n \in S => n + 1 \in S
  PROVE  Nat \subseteq S
<1>1. SUFFICES ASSUME NEW k \in Nat, k \notin S PROVE FALSE
  OBVIOUS
<1>2. PICK n \in Nat \ S : \A m \in Nat \ S : n <= m
  BY <1>1, Least
<1>3. n # 0 /\ n - 1 \in Nat
  OBVIOUS
<1>4. n - 1 \in S
  BY <1>2, <1>3
<1>5. QED
  BY <1>2, <1>3, <1>4

LEMMA BytesUpTo ==
  ASSUME NEW t, Len(t) \in Nat, NEW m \in Nat, m >= 1, NEW l \in m .. Len(t)
  PROVE  Bytes(t, m)[l] =
           IF l = m THEN <<>>
           ELSE IF t[l].kind = "octal" /\ Within(t, m, l) THEN Bytes(t, m)[l - 1] \o t[l].value
           ELSE Bytes(t, m)[l - 1]
<1> DEFINE Added(f, i) == IF i = m THEN <<>>
                          ELSE IF t[i].kind = "octal" /\ Within(t, m, i) THEN f[i - 1] \o t[i].value
                          ELSE f[i - 1]
           Is(f, n) == f = [i \in m .. n |-> Added(f, i)]
           S == {n \in Nat : \E f : Is(f, n)}
<1>1. 0 \in S
  <2>1. m .. 0 = {}
    OBVIOUS
  <2> DEFINE f == [i \in m .. 0 |-> 0]
  <2>2. f = [i \in m .. 0 |-> Added(f, i)]
    BY <2>1
  <2>3. \E g : Is(g, 0)
    BY <2>2
  <2>4. QED
    BY <2>3
<1>2. ASSUME NEW n \in Nat, n \in S PROVE n + 1 \in S
  <2>1. PICK f : Is(f, n)
    BY <1>2
  <2>2. DEFINE g == [i \in m .. n + 1 |-> IF i = n + 1 THEN Added(f, n + 1) ELSE f[i]]
  <2>3. ASSUME NEW i \in m .. n + 1 PROVE g[i] = Added(g, i)
    <3>1. CASE i = m
      <4>1. i # n + 1 => f[i] = <<>>
        BY <2>1, <3>1
      <4>2. QED
        BY <3>1, <4>1
    <3>2. CASE i # m
      <4>1. i - 1 \in m .. n /\ i - 1 # n + 1 /\ i - 1 \in m .. n + 1
        BY <3>2
      <4>2. g[i - 1] = f[i - 1]
        BY <4>1
      <4>3. ASSUME i # n + 1 PROVE f[i] = Added(f, i)
        <5>1. i \in m .. n
          BY <4>3
        <5>2. f = [j \in m .. n |-> Added(f, j)]
          BY <2>1
        <5> HIDE DEF Added
        <5>3. QED
          BY <5>1, <5>2
      <4>4. g[i] = Added(f, i)
        BY <4>3
      <4>5. Added(f, i) = Added(g, i)
        BY <3>2, <4>2
      <4>6. QED
        BY <4>4, <4>5
    <3>3. QED
      BY <3>1, <3>2
  <2>4. Is(g, n + 1)
    BY <2>3
  <2> HIDE DEF g
  <2>5. \E h : Is(h, n + 1)
    BY <2>4
  <2> HIDE DEF Is
  <2>6. QED
    BY <2>5
<1>3. PICK f : Is(f, Len(t))
  BY <1>1, <1>2, Induction
<1>4. Is(Bytes(t, m), Len(t))
  BY <1>3 DEF Bytes
<1> HIDE DEF Added
<1>5. Bytes(t, m)[l] = Added(Bytes(t, m), l)
  BY <1>4
<1>6. QED
  BY <1>5 DEF Added

-----------------------------------------------------------------------------
(* What a well-formed text is like from one line to the next.              *)

\* Before line e: the lines of the object that is being read, of those that
\* have been, and the lines of the former that are in obj.
Current(t, e) == {l \in DataLines(t) : l < e /\ NoneOf(t, "empty", l, e)}
Done(t, e) == {k \in DataLines(t) : k < e /\ ~NoneOf(t, "empty", k, e)}
Entered(t, e) ==
  {l \in Current(t, e) :
     \/ t[l].kind = "attribute"
     \/ \E o \in Data(t) : o < e /\ t[o].kind = "octal" /\ Within(t, l, o)}

LEMMA TextShape ==
  ASSUME NEW t, WellFormed(t)
  PROVE  /\ Len(t) \in Nat /\ FirstData(t) \in 1 .. Len(t)
         /\ t[FirstData(t)].kind = "BEGINDATA"
         /\ \A l \in 1 .. Len(t) : t[l].kind = "BEGINDATA" => l = FirstData(t)
         /\ Data(t) \subseteq 1 .. Len(t) /\ Data(t) \subseteq Nat
         /\ DataLines(t) \subseteq Data(t)
<1>1. Len(t) \in Nat
  BY DEF WellFormed
<1>2. \E k \in 1 .. Len(t) : t[k].kind = "BEGINDATA"
  BY DEF WellFormed, Begins
<1>3. FirstData(t) \in 1 .. Len(t) /\ t[FirstData(t)].kind = "BEGINDATA"
  BY <1>2 DEF FirstData
<1>4. \A l \in 1 .. Len(t) : t[l].kind = "BEGINDATA" => l = FirstData(t)
  BY <1>3 DEF WellFormed, Begins
<1>5. QED
  BY <1>1, <1>3, <1>4 DEF Data, DataLines

LEMMA WithinNext ==
  ASSUME NEW t, WellFormed(t), NEW e \in Data(t), NEW m
  PROVE  Within(t, m, e + 1) <=>
           \/ m = e /\ t[e].kind = "multiline"
           \/ Within(t, m, e) /\ t[e].kind # "END"
<1>1. e \in Nat /\ Len(t) \in Nat /\ FirstData(t) \in Nat
  BY TextShape
<1>2. ASSUME m \in Data(t)
      PROVE  Within(t, m, e + 1) <=>
               \/ m = e /\ t[e].kind = "multiline"
               \/ Within(t, m, e) /\ t[e].kind # "END"
  <2>1. m \in Nat
    BY <1>2, TextShape
  <2>2. CASE m < e
    <3>1. m .. e + 1 - 1 = (m .. e - 1) \cup {e}
      BY <1>1, <2>1, <2>2
    <3>2. NoneOf(t, "END", m, e + 1) <=> NoneOf(t, "END", m, e) /\ t[e].kind # "END"
      BY <3>1 DEF NoneOf
    <3>3. QED
      BY <1>1, <2>1, <2>2, <3>2 DEF Within
  <2>3. CASE m = e
    <3>1. e .. e + 1 - 1 = {e}
      BY <1>1
    <3>2. NoneOf(t, "END", e, e + 1) <=> t[e].kind # "END"
      BY <3>1 DEF NoneOf
    <3>3. e < e + 1 /\ ~(e < e)
      BY <1>1
    <3>4. Within(t, e, e + 1) <=> t[e].kind = "multiline"
      BY <3>2, <3>3 DEF Within
    <3>5. ~Within(t, e, e)
      BY <3>3 DEF Within
    <3>6. QED
      BY <2>3, <3>4, <3>5
  <2>4. CASE m > e
    BY <1>1, <2>1, <2>4 DEF Within
  <2>5. QED
    BY <1>1, <2>1, <2>2, <2>3, <2>4
<1>3. CASE m \notin Data(t)
  BY <1>3 DEF Within
<1>4. QED
  BY <1>2, <1>3

\* No line is in two values.
LEMMA OneValue ==
  ASSUME NEW t, WellFormed(t), NEW e \in Data(t) \cup {Len(t) + 1}, NEW m, NEW n,
         Within(t, m, e), Within(t, n, e)
  PROVE  m = n
<1>1. m \in Nat /\ n \in Nat /\ e \in Nat
  BY TextShape DEF Within
<1>2. ASSUME NEW i, NEW j, Within(t, i, e), Within(t, j, e), i < j
      PROVE  FALSE
  <2>1. i \in Nat /\ j \in Nat /\ j < e
    BY <1>2, TextShape DEF Within
  <2>2. i .. j - 1 \subseteq i .. e - 1
    BY <1>1, <2>1
  <2>3. Within(t, i, j)
    BY <1>2, <2>2 DEF Within, NoneOf
  <2>4. i \in DataLines(t) /\ j \in Data(t) /\ t[j].kind = "multiline"
    BY <1>2 DEF Within, DataLines
  <2>5. InValue(t, j) /\ ~InValue(t, j)
    BY <2>3, <2>4 DEF InValue, WellFormed, ValuesEnd
  <2>6. QED
    BY <2>5
<1>3. ~(m < n) /\ ~(n < m)
  BY <1>2
<1>4. QED
  BY <1>1, <1>3

LEMMA InValueNext ==
  ASSUME NEW t, WellFormed(t), NEW e \in Data(t)
  PROVE  /\ t[e].kind = "multiline" => InValue(t, e + 1)
         /\ t[e].kind = "END" => ~InValue(t, e + 1)
         /\ t[e].kind \notin {"multiline", "END"} => (InValue(t, e + 1) <=> InValue(t, e))
<1>1. ASSUME t[e].kind = "multiline" PROVE InValue(t, e + 1)
  <2>1. e \in DataLines(t)
    BY <1>1 DEF DataLines
  <2>2. QED
    BY <1>1, <2>1, WithinNext DEF InValue
<1>2. t[e].kind = "END" => ~InValue(t, e + 1)
  BY WithinNext DEF InValue
<1>3. ASSUME t[e].kind \notin {"multiline", "END"}
      PROVE  InValue(t, e + 1) <=> InValue(t, e)
  BY <1>3, WithinNext DEF InValue
<1>4. QED
  BY <1>1, <1>2, <1>3

LEMMA Header ==
  ASSUME NEW t, WellFormed(t), NEW e \in 1 .. FirstData(t) + 1
  PROVE  /\ ~InValue(t, e) /\ Current(t, e) = {} /\ Done(t, e) = {}
         /\ \A m : ~Within(t, m, e)
<1>1. \A l \in Data(t) : ~(l < e)
  BY TextShape DEF Data
<1>2. QED
  BY <1>1 DEF InValue, Within, Current, Done, DataLines

LEMMA CurrentNext ==
  ASSUME NEW t, WellFormed(t), NEW e \in Data(t)
  PROVE  /\ t[e].kind = "empty" => Current(t, e + 1) = {}
         /\ t[e].kind # "empty" => Current(t, e + 1) = Current(t, e) \cup (DataLines(t) \cap {e})
         /\ t[e].kind = "empty" => Done(t, e + 1) = Done(t, e) \cup Current(t, e)
         /\ t[e].kind # "empty" => Done(t, e + 1) = Done(t, e)
<1>1. e \in Nat /\ DataLines(t) \subseteq Nat
  BY TextShape
<1>2. ASSUME NEW l \in DataLines(t), l < e
      PROVE  NoneOf(t, "empty", l, e + 1) <=> NoneOf(t, "empty", l, e) /\ t[e].kind # "empty"
  <2>1. l \in Nat
    BY <1>1
  <2>2. l .. e + 1 - 1 = (l .. e - 1) \cup {e}
    BY <1>1, <1>2, <2>1
  <2>3. QED
    BY <2>2 DEF NoneOf
<1>3. NoneOf(t, "empty", e, e + 1) <=> t[e].kind # "empty"
  <2>1. e .. e + 1 - 1 = {e}
    BY <1>1
  <2>2. QED
    BY <2>1 DEF NoneOf
<1>4. \A l \in DataLines(t) : l < e + 1 <=> l < e \/ l = e
  BY <1>1
<1>5. ~(e < e)
  BY <1>1
<1>6. e \in DataLines(t) => t[e].kind # "empty"
  BY DEF DataLines
<1>7. \A l : l \in Current(t, e + 1) <=>
        l \in DataLines(t) /\ t[e].kind # "empty" /\ (l = e \/ (l < e /\ NoneOf(t, "empty", l, e)))
  <2>1. ASSUME NEW l \in DataLines(t)
        PROVE  l < e + 1 /\ NoneOf(t, "empty", l, e + 1) <=>
                 t[e].kind # "empty" /\ (l = e \/ (l < e /\ NoneOf(t, "empty", l, e)))
    <3>1. CASE l < e
      BY <1>2, <1>4, <1>5, <3>1
    <3>2. CASE l = e
      BY <1>3, <1>4, <3>2
    <3>3. QED
      BY <1>4, <3>1, <3>2
  <2>2. QED
    BY <2>1 DEF Current
<1>8. \A l : l \in Done(t, e + 1) <=>
        /\ l \in DataLines(t) /\ l < e
        /\ t[e].kind = "empty" \/ ~NoneOf(t, "empty", l, e)
  <2>1. ASSUME NEW l \in DataLines(t)
        PROVE  l < e + 1 /\ ~NoneOf(t, "empty", l, e + 1) <=>
                 l < e /\ (t[e].kind = "empty" \/ ~NoneOf(t, "empty", l, e))
    <3>1. CASE l < e
      BY <1>2, <1>4, <3>1
    <3>2. CASE l = e
      BY <1>3, <1>5, <1>6, <3>2
    <3>3. QED
      BY <1>4, <3>1, <3>2
  <2>2. QED
    BY <2>1 DEF Done
<1>9. \A l : l \in Current(t, e) <=> l \in DataLines(t) /\ l < e /\ NoneOf(t, "empty", l, e)
  BY DEF Current
<1>10. \A l : l \in Done(t, e) <=> l \in DataLines(t) /\ l < e /\ ~NoneOf(t, "empty", l, e)
  BY DEF Done
<1>11. QED
  BY <1>7, <1>8, <1>9, <1>10

LEMMA EnteredNext ==
  ASSUME NEW t, WellFormed(t), NEW e \in Data(t), t[e].kind # "empty", NEW l
  PROVE  l \in Entered(t, e + 1) <=>
           \/ l \in Entered(t, e)
           \/ l = e /\ t[e].kind = "attribute"
           \/ l \in Current(t, e) /\ t[e].kind = "octal" /\ Within(t, l, e)
<1>1. e \in Nat /\ DataLines(t) \subseteq Nat
  BY TextShape
<1>2. Current(t, e + 1) = Current(t, e) \cup (DataLines(t) \cap {e})
  BY CurrentNext
<1>3. \A o \in Data(t) : o < e + 1 <=> o < e \/ o = e
  BY <1>1, TextShape
<1>4. (\E o \in Data(t) : o < e + 1 /\ t[o].kind = "octal" /\ Within(t, l, o)) <=>
        \/ \E o \in Data(t) : o < e /\ t[o].kind = "octal" /\ Within(t, l, o)
        \/ t[e].kind = "octal" /\ Within(t, l, e)
  BY <1>3
<1>5. ~Within(t, e, e) /\ e \notin Current(t, e) /\ \A o \in Data(t) : o < e => ~Within(t, e, o)
  BY <1>1, TextShape DEF Within, Current
<1>6. e \in DataLines(t) <=> t[e].kind \in {"attribute", "multiline"}
  BY DEF DataLines
<1>7. CASE l = e
  BY <1>2, <1>4, <1>5, <1>6, <1>7 DEF Entered
<1>8. CASE l # e
  <2>1. l \in Current(t, e + 1) <=> l \in Current(t, e)
    BY <1>2, <1>8
  <2>2. QED
    BY <1>4, <1>8, <2>1 DEF Entered
<1>9. QED
  BY <1>7, <1>8

\* A line adds to the value it is within, and to no other.
LEMMA ValueNext ==
  ASSUME NEW t, WellFormed(t), NEW e \in Data(t), NEW l \in DataLines(t), l < e
  PROVE  /\ t[l].kind = "attribute" => ValueBy(t, l, e) = t[l].value /\ ValueBy(t, l, e + 1) = t[l].value
         /\ t[l].kind # "attribute" => ValueBy(t, l, e) = Bytes(t, l)[e - 1]
                                       /\ ValueBy(t, l, e + 1) = Bytes(t, l)[e]
         /\ t[e].kind = "octal" /\ Within(t, l, e) => Bytes(t, l)[e] = Bytes(t, l)[e - 1] \o t[e].value
         /\ ~(t[e].kind = "octal" /\ Within(t, l, e)) => ValueBy(t, l, e + 1) = ValueBy(t, l, e)
<1>1. /\ Len(t) \in Nat /\ e \in Nat /\ l \in Nat /\ l >= 1 /\ l # e /\ e \in l .. Len(t) /\ e + 1 - 1 = e
  BY TextShape
<1>2. Bytes(t, l)[e] = IF e = l THEN <<>>
                       ELSE IF t[e].kind = "octal" /\ Within(t, l, e) THEN Bytes(t, l)[e - 1] \o t[e].value
                       ELSE Bytes(t, l)[e - 1]
  BY <1>1, BytesUpTo
<1>3. ValueBy(t, l, e + 1) = IF t[l].kind = "attribute" THEN t[l].value ELSE Bytes(t, l)[e]
  BY <1>1 DEF ValueBy
<1>4. ValueBy(t, l, e) = IF t[l].kind = "attribute" THEN t[l].value ELSE Bytes(t, l)[e - 1]
  BY DEF ValueBy
<1>5. CASE t[l].kind = "attribute"
  BY <1>1, <1>2, <1>3, <1>4, <1>5
<1>6. CASE t[l].kind # "attribute"
  <2>1. ~(t[e].kind = "octal" /\ Within(t, l, e)) => Bytes(t, l)[e] = Bytes(t, l)[e - 1]
    BY <1>1, <1>2
  <2>2. t[e].kind = "octal" /\ Within(t, l, e) => Bytes(t, l)[e] = Bytes(t, l)[e - 1] \o t[e].value
    BY <1>1, <1>2
  <2>3. QED
    BY <1>3, <1>4, <1>6, <2>1, <2>2
<1>7. QED
  BY <1>5, <1>6

LEMMA FirstBytes ==
  ASSUME NEW t, WellFormed(t), NEW e \in Data(t)
  PROVE  Bytes(t, e)[e] = <<>>
<1>1. Len(t) \in Nat /\ e \in Nat /\ e >= 1 /\ e \in e .. Len(t)
  BY TextShape
<1>2. QED
  BY <1>1, BytesUpTo

\* The line of the value that line e is within is of the object being read.
LEMMA WithinCurrent ==
  ASSUME NEW t, WellFormed(t), NEW e \in Data(t) \cup {Len(t) + 1}, NEW m, Within(t, m, e)
  PROVE  m \in Current(t, e)
<1>1. m \in DataLines(t) /\ m < e
  BY DEF Within, DataLines
<1>2. m \in Nat /\ e \in Nat /\ Len(t) \in Nat /\ e <= Len(t) + 1 /\ FirstData(t) \in Nat
      /\ FirstData(t) < m
  BY <1>1, TextShape DEF Data
<1>3. ASSUME NEW x \in m .. e - 1, t[x].kind = "empty" PROVE FALSE
  <2>1. x # m
    BY <1>1, <1>3 DEF DataLines
  <2>2. x \in Data(t) /\ m < x
    BY <1>2, <2>1 DEF Data
  <2>3. m .. x - 1 \subseteq m .. e - 1
    BY <1>2, <1>3
  <2>4. Within(t, m, x)
    BY <2>2, <2>3 DEF Within, NoneOf
  <2>5. InValue(t, x)
    BY <1>1, <2>4 DEF InValue
  <2>6. QED
    BY <1>3, <2>2, <2>5 DEF WellFormed, ValuesEnd
<1>4. QED
  BY <1>1, <1>3 DEF Current, NoneOf

\* Outside of the values all lines of the object are in obj.
LEMMA AllEntered ==
  ASSUME NEW t, WellFormed(t), NEW e \in Data(t) \cup {Len(t) + 1}, ~InValue(t, e)
  PROVE  Entered(t, e) = Current(t, e)
<1>1. ASSUME NEW l \in Current(t, e), t[l].kind # "attribute"
      PROVE  \E o \in Data(t) : o < e /\ t[o].kind = "octal" /\ Within(t, l, o)
  <2>1. l \in DataLines(t) /\ l \in Data(t) /\ l < e /\ t[l].kind = "multiline"
    BY <1>1, TextShape DEF Current, DataLines
  <2>2. PICK o \in Data(t) : t[o].kind = "octal" /\ Within(t, l, o)
    BY <2>1 DEF WellFormed, ValuesEnd
  <2>3. l \in Nat /\ o \in Nat /\ e \in Nat /\ l < o
    BY <2>1, <2>2, TextShape DEF Within
  <2>4. PICK x \in l .. e - 1 : t[x].kind = "END"
    BY <2>1 DEF InValue, Within, NoneOf
  <2>5. x \notin l .. o - 1
    BY <2>2, <2>4 DEF Within, NoneOf
  <2>6. o # x
    BY <2>2, <2>4
  <2>7. o < e
    BY <2>3, <2>4, <2>5, <2>6
  <2>8. QED
    BY <2>2, <2>7
<1>2. QED
  BY <1>1 DEF Entered

LEMMA TogetherWith ==
  ASSUME NEW t, NEW k \in Nat, NEW l \in Nat, NEW m \in Nat, Together(t, k, l), Together(t, k, m)
  PROVE  Together(t, l, m)
<1>1. l .. m - 1 \subseteq (l .. k - 1) \cup (k .. m - 1)
  OBVIOUS
<1>2. m .. l - 1 \subseteq (m .. k - 1) \cup (k .. l - 1)
  OBVIOUS
<1>3. QED
  BY <1>1, <1>2 DEF Together, NoneOf

\* Where an object ends, its lines are those that are being read.
LEMMA OwnIsCurrent ==
  ASSUME NEW t, WellFormed(t), NEW e \in Data(t) \cup {Len(t) + 1},
         e = Len(t) + 1 \/ t[e].kind = "empty", NEW k \in Current(t, e)
  PROVE  Own(t, k) = Current(t, e)
<1>1. /\ Len(t) \in Nat /\ e \in Nat /\ k \in Nat /\ k < e
      /\ DataLines(t) \subseteq Nat /\ \A l \in DataLines(t) : l <= Len(t)
  BY TextShape DEF Current, Data
<1>2. ASSUME NEW l \in Own(t, k) PROVE l \in Current(t, e)
  <2>1. l \in DataLines(t) /\ l \in Nat /\ l <= Len(t) /\ Together(t, k, l)
    BY <1>1, <1>2 DEF Own
  <2>2. l < e
    <3>1. SUFFICES ASSUME e <= l PROVE FALSE
      BY <1>1, <2>1
    <3>2. t[e].kind = "empty"
      BY <1>1, <2>1, <3>1
    <3>3. e # l
      BY <2>1, <3>2 DEF DataLines
    <3>4. e \in k .. l - 1
      BY <1>1, <2>1, <3>1, <3>3
    <3>5. QED
      BY <2>1, <3>2, <3>4 DEF Together, NoneOf
  <2>3. l .. e - 1 \subseteq (l .. k - 1) \cup (k .. e - 1)
    BY <1>1, <2>1
  <2>4. NoneOf(t, "empty", l, e)
    BY <2>1, <2>3 DEF Together, NoneOf, Current
  <2>5. QED
    BY <2>1, <2>2, <2>4 DEF Current
<1>3. ASSUME NEW l \in Current(t, e) PROVE l \in Own(t, k)
  <2>1. l \in DataLines(t) /\ l \in Nat /\ l < e
    BY <1>1, <1>3 DEF Current
  <2>2. k .. l - 1 \subseteq k .. e - 1 /\ l .. k - 1 \subseteq l .. e - 1
    BY <1>1, <2>1
  <2>3. QED
    BY <1>3, <2>1, <2>2 DEF Own, Together, NoneOf, Current
<1>4. QED
  BY <1>2, <1>3

\* Later lines do not change an object that has ended.
LEMMA ObjectStays ==
  ASSUME NEW t, WellFormed(t), NEW e \in Data(t), NEW k \in Done(t, e)
  PROVE  ObjectBy(t, k, e + 1) = ObjectBy(t, k, e)
<1>1. e \in Nat /\ k \in Nat /\ DataLines(t) \subseteq Nat
  BY TextShape DEF Done
<1>2. PICK x \in k .. e - 1 : t[x].kind = "empty"
  BY DEF Done, NoneOf
<1>3. ASSUME NEW l \in Own(t, k) PROVE ValueBy(t, l, e + 1) = ValueBy(t, l, e)
  <2>1. l \in DataLines(t) /\ l \in Nat /\ Together(t, k, l)
    BY <1>1, <1>3 DEF Own
  <2>2. x \notin k .. l - 1
    BY <1>2, <2>1 DEF Together, NoneOf
  <2>3. x \in l .. e - 1 /\ l < e
    BY <1>1, <1>2, <2>1, <2>2
  <2>4. l \notin Current(t, e)
    BY <1>2, <2>3 DEF Current, NoneOf
  <2>5. ~Within(t, l, e)
    BY <2>4, WithinCurrent
  <2>6. QED
    BY <2>1, <2>3, <2>5, ValueNext
<1>4. ASSUME NEW f \in {t[l].field : l \in Own(t, k)}
      PROVE  ValueBy(t, CHOOSE l \in Own(t, k) : t[l].field = f, e + 1)
               = ValueBy(t, CHOOSE l \in Own(t, k) : t[l].field = f, e)
  <2>1. (CHOOSE l \in Own(t, k) : t[l].field = f) \in Own(t, k)
    BY <1>4
  <2>2. QED
    BY <1>3, <2>1
<1>5. QED
  BY <1>4 DEF ObjectBy

-----------------------------------------------------------------------------
(* The parser, between two lines.                                          *)

WhereInText ==
  /\ text \in Texts /\ at \in 1 .. Len(text) + 1
  /\ in_data \in BOOLEAN /\ (in_data <=> at > FirstData(text))

\* Within a value its field and its bytes so far are at hand.
ValueRead ==
  /\ in_multiline \in BOOLEAN /\ (in_multiline <=> InValue(text, at))
  /\ \A m : Within(text, m, at) => field = text[m].field /\ binval = Bytes(text, m)[at - 1]

\* obj has the lines of the object up to here.
ObjectRead ==
  /\ in_obj \in BOOLEAN /\ (in_obj <=> Current(text, at) # {})
  /\ obj = [f \in {text[l].field : l \in Entered(text, at)} |-> obj[f]]
  /\ \A l \in Entered(text, at) : obj[text[l].field] = ValueBy(text, l, at)

ObjectSet == {objects[i] : i \in 1 .. Len(objects)}
ObjectsRead ==
  /\ \E S : objects \in Seq(S)
  /\ ObjectSet = {ObjectBy(text, k, at) : k \in Done(text, at)}

Reading == WhereInText /\ ValueRead /\ ObjectRead /\ ObjectsRead

\* A line that is read.
ReadLine == /\ stage = "parse" /\ at <= Len(text) /\ NextLine
            /\ SkipLine \/ EndObject \/ OctalLine \/ EndMultiline \/ Multiline \/ Attribute

LEMMA TextIsWellFormed == WhereInText => WellFormed(text)
  BY TextsAssumption DEF WhereInText

LEMMA PositionNext ==
  ASSUME WhereInText, ReadLine
  PROVE  WhereInText' /\ at' = at + 1 /\ text' = text /\ (in_data => at \in Data(text) /\ in_data')
<1>1. at' = at + 1 /\ text' = text
  BY DEF ReadLine, NextLine
<1>2. /\ Len(text) \in Nat /\ FirstData(text) \in 1 .. Len(text)
      /\ text[FirstData(text)].kind = "BEGINDATA"
      /\ \A l \in 1 .. Len(text) : text[l].kind = "BEGINDATA" => l = FirstData(text)
  BY TextIsWellFormed, TextShape
<1>3. at \in 1 .. Len(text) /\ at' \in 1 .. Len(text) + 1
  BY <1>1, <1>2 DEF WhereInText, ReadLine
<1>4. in_data => at \in Data(text)
  BY <1>2, <1>3 DEF WhereInText, Data
<1>5. CASE in_data
  <2>1. in_data' = TRUE
    BY <1>5 DEF ReadLine, SkipLine, EndObject, OctalLine, EndMultiline, Multiline, Attribute
  <2>2. at' > FirstData(text)
    BY <1>1, <1>2, <1>3, <1>5 DEF WhereInText
  <2>3. QED
    BY <1>1, <1>3, <1>4, <2>1, <2>2 DEF WhereInText
<1>6. CASE ~in_data
  <2>1. in_data' = (text[at].kind = "BEGINDATA")
    BY <1>6 DEF ReadLine, SkipLine, EndObject, OctalLine, EndMultiline, Multiline, Attribute, line
  <2>2. at <= FirstData(text)
    BY <1>2, <1>3, <1>6 DEF WhereInText
  <2>3. text[at].kind = "BEGINDATA" <=> at = FirstData(text)
    BY <1>2, <1>3
  <2>4. at' > FirstData(text) <=> at = FirstData(text)
    BY <1>1, <1>2, <1>3, <2>2
  <2>5. QED
    BY <1>1, <1>3, <1>6, <2>1, <2>3, <2>4 DEF WhereInText
<1>7. QED
  BY <1>1, <1>4, <1>5, <1>6 DEF WhereInText

\* Before the data the parser keeps nothing.
LEMMA HeaderNext ==
  ASSUME Reading, ReadLine, ~in_data
  PROVE  ValueRead' /\ ObjectRead' /\ ObjectsRead'
<1>1. WellFormed(text) /\ at' = at + 1 /\ text' = text
  BY TextIsWellFormed, PositionNext DEF Reading
<1>2. at \in 1 .. FirstData(text) + 1 /\ at + 1 \in 1 .. FirstData(text) + 1
  BY <1>1, TextShape DEF Reading, WhereInText
<1>3. UNCHANGED <<in_multiline, in_obj, field, binval, obj, objects>>
  BY DEF ReadLine, SkipLine, EndObject, OctalLine, EndMultiline, Multiline, Attribute
<1>4. /\ ~InValue(text, at) /\ Current(text, at) = {} /\ Done(text, at) = {}
      /\ ~InValue(text, at + 1) /\ Current(text, at + 1) = {} /\ Done(text, at + 1) = {}
      /\ \A m : ~Within(text, m, at + 1)
  BY <1>1, <1>2, Header
<1>5. Entered(text, at) = {} /\ Entered(text, at + 1) = {}
  BY <1>4 DEF Entered
<1>6. ValueRead'
  BY <1>1, <1>3, <1>4 DEF Reading, ValueRead
<1>7. ObjectRead'
  BY <1>1, <1>3, <1>4, <1>5 DEF Reading, ObjectRead
<1>8. ObjectsRead'
  BY <1>1, <1>3, <1>4 DEF Reading, ObjectsRead, ObjectSet
<1>9. QED
  BY <1>6, <1>7, <1>8

\* What kind of line each action reads within the data.
LEMMA LineKinds ==
  ASSUME Reading, ReadLine, in_data
  PROVE  LET kind == text[at].kind IN
         \/ SkipLine /\ kind \in {"comment", "empty"} /\ (kind = "empty" => ~in_obj)
         \/ EndObject /\ kind = "empty"
         \/ OctalLine /\ kind = "octal"
         \/ EndMultiline /\ kind = "END"
         \/ Multiline /\ kind = "multiline"
         \/ Attribute /\ kind = "attribute"
  BY DEF ReadLine, SkipLine, EndObject, OctalLine, EndMultiline, Multiline, Attribute, OnLine, line

LEMMA ValueReadNext ==
  ASSUME Reading, ReadLine, in_data
  PROVE  ValueRead'
<1>1. WellFormed(text) /\ at' = at + 1 /\ text' = text /\ at \in Data(text)
  BY TextIsWellFormed, PositionNext DEF Reading
<1>2. at \in Nat /\ at' - 1 = at
  BY <1>1, TextShape
<1>3. /\ in_multiline \in BOOLEAN /\ (in_multiline <=> InValue(text, at))
      /\ \A m : Within(text, m, at) => field = text[m].field /\ binval = Bytes(text, m)[at - 1]
  BY DEF Reading, ValueRead
<1>4. \A m : Within(text, m, at) => m \in DataLines(text) /\ m < at /\ text[m].kind = "multiline"
  BY DEF Within, DataLines
<1>5. \A m : Within(text, m, at + 1) <=>
               \/ m = at /\ text[at].kind = "multiline"
               \/ Within(text, m, at) /\ text[at].kind # "END"
  BY <1>1, WithinNext
<1>6. SUFFICES /\ in_multiline' \in BOOLEAN /\ (in_multiline' <=> InValue(text, at + 1))
               /\ \A m : Within(text, m, at + 1) => field' = text[m].field /\ binval' = Bytes(text, m)[at]
  BY <1>1, <1>2 DEF ValueRead
<1>7. ASSUME text[at].kind \notin {"multiline", "END", "octal"}, UNCHANGED <<in_multiline, binval>>,
             text[at].kind # "comment" => text[at].kind \in {"empty", "attribute"},
             text[at].kind = "comment" => field' = field
      PROVE  /\ in_multiline' \in BOOLEAN /\ (in_multiline' <=> InValue(text, at + 1))
             /\ \A m : Within(text, m, at + 1) => field' = text[m].field /\ binval' = Bytes(text, m)[at]
  <2>1. InValue(text, at + 1) <=> InValue(text, at)
    BY <1>1, <1>7, InValueNext
  <2>2. text[at].kind \in {"empty", "attribute"} => ~InValue(text, at)
    BY <1>1 DEF WellFormed, ValuesEnd
  <2>3. ASSUME NEW m, Within(text, m, at + 1)
        PROVE  field' = text[m].field /\ binval' = Bytes(text, m)[at]
    <3>1. Within(text, m, at)
      BY <1>5, <1>7, <2>3
    <3>2. InValue(text, at)
      BY <1>4, <3>1 DEF InValue
    <3>3. field' = field
      BY <1>7, <2>2, <3>2
    <3>4. Bytes(text, m)[at] = Bytes(text, m)[at - 1]
      <4>1. m \in DataLines(text) /\ m < at /\ text[m].kind # "attribute"
        BY <1>4, <3>1
      <4>2. ValueBy(text, m, at + 1) = ValueBy(text, m, at)
        BY <1>1, <1>7, <4>1, ValueNext
      <4>3. ValueBy(text, m, at) = Bytes(text, m)[at - 1] /\ ValueBy(text, m, at + 1) = Bytes(text, m)[at]
        BY <1>1, <4>1, ValueNext
      <4>4. QED
        BY <4>2, <4>3
    <3>5. QED
      BY <1>3, <1>7, <3>1, <3>3, <3>4
  <2>4. QED
    BY <1>3, <1>7, <2>1, <2>3
<1>8. CASE SkipLine /\ text[at].kind \in {"comment", "empty"}
  BY <1>7, <1>8 DEF SkipLine
<1>9. CASE EndObject /\ text[at].kind = "empty"
  BY <1>7, <1>9 DEF EndObject
<1>10. CASE Attribute /\ text[at].kind = "attribute"
  BY <1>7, <1>10 DEF Attribute
<1>11. CASE OctalLine /\ text[at].kind = "octal"
  <2>1. InValue(text, at + 1) <=> InValue(text, at)
    BY <1>1, <1>11, InValueNext
  <2>2. binval' = binval \o text[at].value /\ field' = field /\ in_multiline' = in_multiline
    BY <1>11 DEF OctalLine, line
  <2>3. ASSUME NEW m, Within(text, m, at + 1)
        PROVE  field' = text[m].field /\ binval' = Bytes(text, m)[at]
    <3>1. Within(text, m, at)
      BY <1>5, <1>11, <2>3
    <3>2. Bytes(text, m)[at] = Bytes(text, m)[at - 1] \o text[at].value
      BY <1>1, <1>4, <1>11, <3>1, ValueNext
    <3>3. QED
      BY <1>3, <2>2, <3>1, <3>2
  <2>4. QED
    BY <1>3, <2>1, <2>2, <2>3
<1>12. CASE EndMultiline /\ text[at].kind = "END"
  <2>1. ~InValue(text, at + 1) /\ in_multiline' = FALSE
    BY <1>1, <1>12, InValueNext DEF EndMultiline
  <2>2. \A m : ~Within(text, m, at + 1)
    BY <1>5, <1>12
  <2>3. QED
    BY <2>1, <2>2
<1>13. CASE Multiline /\ text[at].kind = "multiline"
  <2>1. InValue(text, at + 1) /\ in_multiline' = TRUE /\ binval' = <<>> /\ field' = text[at].field
    BY <1>1, <1>13, InValueNext DEF Multiline, line
  <2>2. \A m : ~Within(text, m, at)
    BY <1>1, <1>4, <1>13 DEF WellFormed, ValuesEnd, InValue
  <2>3. \A m : Within(text, m, at + 1) => m = at
    BY <1>5, <2>2
  <2>4. Bytes(text, at)[at] = <<>>
    BY <1>1, FirstBytes
  <2>5. QED
    BY <2>1, <2>3, <2>4
<1>14. QED
  BY <1>8, <1>9, <1>10, <1>11, <1>12, <1>13, LineKinds

\* An object that ends is the object of its lines.
LEMMA ObjectIs ==
  ASSUME WellFormed(text), ObjectRead, at \in Data(text) \cup {Len(text) + 1},
         at = Len(text) + 1 \/ text[at].kind = "empty", NEW k \in Current(text, at)
  PROVE  obj = ObjectBy(text, k, at)
<1>1. ~InValue(text, at)
  BY DEF WellFormed, ValuesEnd
<1>2. Entered(text, at) = Current(text, at) /\ Own(text, k) = Current(text, at)
  BY <1>1, AllEntered, OwnIsCurrent
<1>3. ASSUME NEW f \in {text[l].field : l \in Own(text, k)}
      PROVE  obj[f] = ValueBy(text, CHOOSE l \in Own(text, k) : text[l].field = f, at)
  <2> DEFINE m == CHOOSE l \in Own(text, k) : text[l].field = f
  <2>1. m \in Own(text, k) /\ text[m].field = f
    BY <1>3
  <2>2. obj[text[m].field] = ValueBy(text, m, at)
    BY <1>2, <2>1 DEF ObjectRead
  <2>3. QED
    BY <2>1, <2>2
<1>4. obj = [f \in {text[l].field : l \in Own(text, k)} |-> obj[f]]
  BY <1>2 DEF ObjectRead
<1>5. QED
  BY <1>3, <1>4 DEF ObjectBy

LEMMA FieldsOfCurrent ==
  ASSUME NEW t, WellFormed(t), NEW e \in Nat, NEW l \in Current(t, e), NEW m \in Current(t, e),
         t[l].field = t[m].field
  PROVE  l = m
<1>1. l \in Nat /\ m \in Nat /\ l < e /\ m < e /\ l \in DataLines(t) /\ m \in DataLines(t)
  BY TextShape DEF Current
<1>2. l .. m - 1 \subseteq l .. e - 1 /\ m .. l - 1 \subseteq m .. e - 1
  BY <1>1
<1>3. Together(t, l, m)
  BY <1>2 DEF Current, Together, NoneOf
<1>4. QED
  BY <1>1, <1>3 DEF WellFormed, FieldsOnce

LEMMA ClassIsRead ==
  ASSUME NEW t, WellFormed(t), NEW e \in DataLines(t)
  PROVE  \/ t[e].kind = "attribute" /\ t[e].field = "CKA_CLASS"
         \/ Current(t, e) # {}
<1>1. PICK l \in Own(t, e) : l <= e /\ t[l].kind = "attribute" /\ t[l].field = "CKA_CLASS"
  BY DEF WellFormed, ClassFirst
<1>2. l \in DataLines(t) /\ NoneOf(t, "empty", l, e)
  BY <1>1 DEF Own, Together
<1>3. l \in Nat /\ e \in Nat
  BY <1>2, TextShape
<1>4. l = e \/ l \in Current(t, e)
  BY <1>1, <1>2, <1>3 DEF Current
<1>5. QED
  BY <1>1, <1>4

\* A line that enters the value v of line m in obj.
LEMMA FieldEntered ==
  ASSUME WellFormed(text), ObjectRead, at \in Data(text), text[at].kind # "empty",
         NEW m \in Current(text, at + 1),
         \A l : l \in Entered(text, at + 1) <=> l \in Entered(text, at) \/ l = m,
         \A l \in Entered(text, at) : l # m => ValueBy(text, l, at + 1) = ValueBy(text, l, at),
         obj' = Put(obj, text[m].field, ValueBy(text, m, at + 1))
  PROVE  /\ obj' = [f \in {text[l].field : l \in Entered(text, at + 1)} |-> obj'[f]]
         /\ \A l \in Entered(text, at + 1) : obj'[text[l].field] = ValueBy(text, l, at + 1)
<1>1. at + 1 \in Nat
  BY TextShape
<1>2. DOMAIN obj = {text[l].field : l \in Entered(text, at)}
  BY DEF ObjectRead
<1>3. {text[l].field : l \in Entered(text, at + 1)} = DOMAIN obj \cup {text[m].field}
  BY <1>2
<1>4. obj' = [f \in {text[l].field : l \in Entered(text, at + 1)} |-> obj'[f]]
  BY <1>3 DEF Put
<1>5. ASSUME NEW l \in Entered(text, at + 1)
      PROVE  obj'[text[l].field] = ValueBy(text, l, at + 1)
  <2>1. CASE l = m
    BY <1>3, <1>5, <2>1 DEF Put
  <2>2. CASE l # m
    <3>1. l \in Entered(text, at) /\ l \in Current(text, at + 1)
      BY <2>2 DEF Entered
    <3>2. text[l].field # text[m].field
      BY <1>1, <2>2, <3>1, FieldsOfCurrent
    <3>3. text[l].field \in DOMAIN obj
      BY <1>2, <3>1
    <3>4. obj'[text[l].field] = obj[text[l].field]
      BY <3>2, <3>3 DEF Put
    <3>5. QED
      BY <2>2, <3>1, <3>4 DEF ObjectRead
  <2>3. QED
    BY <2>1, <2>2
<1>6. QED
  BY <1>4, <1>5

LEMMA ObjectReadNext ==
  ASSUME Reading, ReadLine, in_data
  PROVE  ObjectRead'
<1>1. WellFormed(text) /\ at' = at + 1 /\ text' = text /\ at \in Data(text)
  BY TextIsWellFormed, PositionNext DEF Reading
<1>2. ObjectRead /\ in_obj \in BOOLEAN /\ (in_obj <=> Current(text, at) # {})
  BY DEF Reading, ObjectRead
<1>3. SUFFICES /\ in_obj' \in BOOLEAN /\ (in_obj' <=> Current(text, at + 1) # {})
               /\ obj' = [f \in {text[l].field : l \in Entered(text, at + 1)} |-> obj'[f]]
               /\ \A l \in Entered(text, at + 1) : obj'[text[l].field] = ValueBy(text, l, at + 1)
  BY <1>1 DEF ObjectRead
<1>4. /\ text[at].kind = "empty" => Current(text, at + 1) = {}
      /\ text[at].kind # "empty" => Current(text, at + 1) = Current(text, at) \cup (DataLines(text) \cap {at})
  BY <1>1, CurrentNext
<1>5. at \in DataLines(text) <=> text[at].kind \in {"attribute", "multiline"}
  BY <1>1 DEF DataLines
<1>6. text[at].kind # "empty" => \A l : l \in Entered(text, at + 1) <=>
        \/ l \in Entered(text, at)
        \/ l = at /\ text[at].kind = "attribute"
        \/ l \in Current(text, at) /\ text[at].kind = "octal" /\ Within(text, l, at)
  BY <1>1, EnteredNext
<1>7. \A l \in Entered(text, at) : l \in Current(text, at) /\ l \in DataLines(text) /\ l < at
  BY DEF Entered, Current
<1>8. \A l \in Entered(text, at) : ~(text[at].kind = "octal" /\ Within(text, l, at)) =>
        ValueBy(text, l, at + 1) = ValueBy(text, l, at)
  BY <1>1, <1>7, ValueNext
\* Lines that enter nothing.
<1>9. ASSUME text[at].kind \in {"comment", "END", "multiline"}, obj' = obj
      PROVE  /\ obj' = [f \in {text[l].field : l \in Entered(text, at + 1)} |-> obj'[f]]
             /\ \A l \in Entered(text, at + 1) : obj'[text[l].field] = ValueBy(text, l, at + 1)
  <2>1. Entered(text, at + 1) = Entered(text, at)
    BY <1>6, <1>9
  <2>2. QED
    BY <1>8, <1>9, <2>1, <1>2 DEF ObjectRead
<1>10. ASSUME text[at].kind \in {"comment", "octal", "END"}
       PROVE  Current(text, at + 1) = Current(text, at)
  BY <1>4, <1>5, <1>10
<1>11. CASE SkipLine /\ text[at].kind = "comment"
  BY <1>2, <1>9, <1>10, <1>11 DEF SkipLine
<1>12. CASE SkipLine /\ text[at].kind = "empty" /\ ~in_obj
  <2>1. Current(text, at + 1) = {} /\ Entered(text, at + 1) = {} /\ Entered(text, at) = {}
    BY <1>2, <1>4, <1>12 DEF Entered
  <2>2. obj' = obj /\ in_obj' = in_obj
    BY <1>12 DEF SkipLine
  <2>3. QED
    BY <1>2, <1>12, <2>1, <2>2 DEF ObjectRead
<1>13. CASE EndObject /\ text[at].kind = "empty"
  <2>1. Current(text, at + 1) = {} /\ Entered(text, at + 1) = {}
    BY <1>4, <1>13 DEF Entered
  <2>2. obj' = Nothing /\ in_obj' = FALSE
    BY <1>13 DEF EndObject
  <2>3. QED
    BY <2>1, <2>2 DEF Nothing
<1>14. CASE EndMultiline /\ text[at].kind = "END"
  BY <1>2, <1>9, <1>10, <1>14 DEF EndMultiline
<1>15. CASE OctalLine /\ text[at].kind = "octal"
  <2>1. InValue(text, at)
    BY <1>1, <1>15 DEF WellFormed, ValuesEnd
  <2>2. PICK m : Within(text, m, at)
    BY <2>1 DEF InValue
  <2>3. m \in Current(text, at) /\ m \in Current(text, at + 1) /\ m \in DataLines(text) /\ m < at
    BY <1>1, <1>4, <1>15, <2>2, WithinCurrent DEF Current
  <2>4. \A l : Within(text, l, at) <=> l = m
    BY <1>1, <2>2, OneValue
  <2>5. \A l : l \in Entered(text, at + 1) <=> l \in Entered(text, at) \/ l = m
    BY <1>6, <1>15, <2>3, <2>4
  <2>6. text[m].kind = "multiline"
    BY <2>2 DEF Within
  <2>7. field = text[m].field /\ binval = Bytes(text, m)[at - 1]
    BY <2>2 DEF Reading, ValueRead
  <2>8. ValueBy(text, m, at + 1) = Bytes(text, m)[at - 1] \o text[at].value
    <3>1. text[m].kind # "attribute"
      BY <2>6
    <3>2. ValueBy(text, m, at + 1) = Bytes(text, m)[at]
      BY <1>1, <2>3, <3>1, ValueNext
    <3>3. Bytes(text, m)[at] = Bytes(text, m)[at - 1] \o text[at].value
      BY <1>1, <1>15, <2>2, <2>3, ValueNext
    <3>4. QED
      BY <3>2, <3>3
  <2>9. obj' = Put(obj, text[m].field, ValueBy(text, m, at + 1)) /\ in_obj' = in_obj
    BY <1>15, <2>7, <2>8 DEF OctalLine, line
  <2>10. \A l \in Entered(text, at) : l # m => ValueBy(text, l, at + 1) = ValueBy(text, l, at)
    BY <1>8, <2>4
  <2>11. text[at].kind # "empty"
    BY <1>15
  <2>12. /\ obj' = [f \in {text[l].field : l \in Entered(text, at + 1)} |-> obj'[f]]
         /\ \A l \in Entered(text, at + 1) : obj'[text[l].field] = ValueBy(text, l, at + 1)
    BY <1>1, <1>2, <2>3, <2>5, <2>9, <2>10, <2>11, FieldEntered
  <2>13. QED
    BY <1>2, <1>10, <1>15, <2>9, <2>12
<1>16. CASE Multiline /\ text[at].kind = "multiline"
  <2>1. at \in DataLines(text)
    BY <1>5, <1>16
  <2>2. Current(text, at) # {} /\ Current(text, at + 1) # {}
    BY <1>1, <1>4, <1>16, <2>1, ClassIsRead
  <2>3. obj' = obj /\ in_obj' = in_obj
    BY <1>16 DEF Multiline
  <2>4. QED
    BY <1>2, <1>9, <1>16, <2>2, <2>3
<1>17. CASE Attribute /\ text[at].kind = "attribute"
  <2>1. at \in DataLines(text) /\ at \in Current(text, at + 1)
    BY <1>4, <1>5, <1>17
  <2>2. /\ in_obj' = (in_obj \/ text[at].field = "CKA_CLASS")
        /\ obj' = Put(obj, text[at].field, text[at].value)
    BY <1>17 DEF Attribute, line
  <2>3. in_obj' = TRUE
    BY <1>1, <1>2, <2>1, <2>2, ClassIsRead
  <2>4. ValueBy(text, at, at + 1) = text[at].value
    BY <1>17 DEF ValueBy
  <2>5. \A l : l \in Entered(text, at + 1) <=> l \in Entered(text, at) \/ l = at
    BY <1>6, <1>17
  <2>6. \A l \in Entered(text, at) : l # at => ValueBy(text, l, at + 1) = ValueBy(text, l, at)
    BY <1>8, <1>17
  <2>7. text[at].kind # "empty"
    BY <1>17
  <2>8. /\ obj' = [f \in {text[l].field : l \in Entered(text, at + 1)} |-> obj'[f]]
        /\ \A l \in Entered(text, at + 1) : obj'[text[l].field] = ValueBy(text, l, at + 1)
    BY <1>1, <1>2, <2>1, <2>2, <2>4, <2>5, <2>6, <2>7, FieldEntered
  <2>9. QED
    BY <2>1, <2>3, <2>8
<1>18. QED
  BY <1>11, <1>12, <1>13, <1>14, <1>15, <1>16, <1>17, LineKinds

LEMMA ObjectAppended ==
  ASSUME \E S : objects \in Seq(S), objects' = Append(objects, obj)
  PROVE  (\E S : objects' \in Seq(S)) /\ ObjectSet' = ObjectSet \cup {obj}
<1>1. PICK S : objects \in Seq(S)
  OBVIOUS
<1>2. objects \in Seq(S \cup {obj}) /\ obj \in S \cup {obj}
  BY <1>1, SeqDef
<1>3. /\ objects' \in Seq(S \cup {obj}) /\ Len(objects') = Len(objects) + 1 /\ Len(objects) \in Nat
      /\ \A i \in 1 .. Len(objects) : objects'[i] = objects[i]
      /\ objects'[Len(objects) + 1] = obj
  BY <1>2, AppendProperties, LenProperties
<1>4. 1 .. Len(objects') = 1 .. Len(objects) \cup {Len(objects) + 1}
  BY <1>3
<1>5. ObjectSet' = {objects'[i] : i \in 1 .. Len(objects')}
  BY DEF ObjectSet
<1>6. QED
  BY <1>3, <1>4, <1>5 DEF ObjectSet

LEMMA ObjectsReadNext ==
  ASSUME Reading, ReadLine, in_data
  PROVE  ObjectsRead'
<1>1. WellFormed(text) /\ at' = at + 1 /\ text' = text /\ at \in Data(text)
  BY TextIsWellFormed, PositionNext DEF Reading
<1>2. (\E S : objects \in Seq(S)) /\ ObjectSet = {ObjectBy(text, k, at) : k \in Done(text, at)}
  BY DEF Reading, ObjectsRead
<1>3. \A k \in Done(text, at) : ObjectBy(text, k, at + 1) = ObjectBy(text, k, at)
  BY <1>1, ObjectStays
<1>4. ASSUME objects' = objects, Done(text, at + 1) = Done(text, at)
      PROVE  ObjectsRead'
  <2>1. ObjectSet' = ObjectSet
    BY <1>4 DEF ObjectSet
  <2>2. {ObjectBy(text, k, at + 1) : k \in Done(text, at + 1)} = {ObjectBy(text, k, at) : k \in Done(text, at)}
    BY <1>3, <1>4
  <2>3. QED
    BY <1>1, <1>2, <1>4, <2>1, <2>2 DEF ObjectsRead
<1>5. CASE text[at].kind # "empty"
  <2>1. objects' = objects
    BY <1>5, LineKinds DEF SkipLine, EndObject, OctalLine, EndMultiline, Multiline, Attribute
  <2>2. Done(text, at + 1) = Done(text, at)
    BY <1>1, <1>5, CurrentNext
  <2>3. QED
    BY <1>4, <2>1, <2>2
<1>6. CASE SkipLine /\ text[at].kind = "empty" /\ ~in_obj
  <2>1. objects' = objects
    BY <1>6 DEF SkipLine
  <2>2. Current(text, at) = {}
    BY <1>6 DEF Reading, ObjectRead
  <2>3. Done(text, at + 1) = Done(text, at)
    BY <1>1, <1>6, <2>2, CurrentNext
  <2>4. QED
    BY <1>4, <2>1, <2>3
<1>7. CASE EndObject /\ text[at].kind = "empty"
  <2>1. objects' = Append(objects, obj) /\ Current(text, at) # {}
    BY <1>7 DEF EndObject, Reading, ObjectRead
  <2>2. (\E S : objects' \in Seq(S)) /\ ObjectSet' = ObjectSet \cup {obj}
    BY <1>2, <2>1, ObjectAppended
  <2>3. Done(text, at + 1) = Done(text, at) \cup Current(text, at)
    BY <1>1, <1>7, CurrentNext
  <2>4. \A k \in Current(text, at) : obj = ObjectBy(text, k, at)
    BY <1>1, <1>7, ObjectIs DEF Reading
  <2>5. \A k \in Current(text, at) : ObjectBy(text, k, at + 1) = ObjectBy(text, k, at)
    <3>1. ASSUME NEW k \in Current(text, at)
          PROVE  ObjectBy(text, k, at + 1) = ObjectBy(text, k, at)
      <4>1. Own(text, k) = Current(text, at) /\ ~InValue(text, at)
        BY <1>1, <1>7, OwnIsCurrent DEF WellFormed, ValuesEnd
      <4>2. \A l \in Own(text, k) : l \in DataLines(text) /\ l < at /\ text[at].kind # "octal"
        BY <1>7, <4>1 DEF Current
      <4>3. \A l \in Own(text, k) : ValueBy(text, l, at + 1) = ValueBy(text, l, at)
        BY <1>1, <4>2, ValueNext
      <4>4. \A f \in {text[l].field : l \in Own(text, k)} :
              (CHOOSE l \in Own(text, k) : text[l].field = f) \in Own(text, k)
        OBVIOUS
      <4>5. QED
        BY <4>3, <4>4 DEF ObjectBy
    <3>2. QED
      BY <3>1
  <2>6. {ObjectBy(text, k, at + 1) : k \in Done(text, at + 1)} = ObjectSet \cup {obj}
    <3>1. {ObjectBy(text, k, at + 1) : k \in Current(text, at)} = {obj}
      BY <2>1, <2>4, <2>5
    <3>2. {ObjectBy(text, k, at + 1) : k \in Done(text, at)} = ObjectSet
      BY <1>2, <1>3
    <3>3. QED
      BY <2>3, <3>1, <3>2
  <2>7. QED
    BY <1>1, <2>2, <2>6 DEF ObjectsRead
<1>8. QED
  BY <1>5, <1>6, <1>7, LineKinds

LEMMA ReadingNext ==
  ASSUME Reading, ReadLine
  PROVE  Reading'
<1>1. CASE in_data
  BY <1>1, PositionNext, ValueReadNext, ObjectReadNext, ObjectsReadNext DEF Reading
<1>2. CASE ~in_data
  BY <1>2, PositionNext, HeaderNext DEF Reading
<1>3. QED
  BY <1>1, <1>2

\* At the end of the file the objects that are read are those that are written.
LEMMA AllRead ==
  ASSUME Reading, EndOfFile
  PROVE  /\ (\E S : objects' \in Seq(S)) /\ ObjectSet' = ObjectsOf(text)
         /\ in_multiline = FALSE
<1>1. WellFormed(text) /\ Len(text) \in Nat /\ at = Len(text) + 1
  BY TextIsWellFormed, TextShape DEF Reading, WhereInText, EndOfFile
<1>2. ~InValue(text, at) /\ in_multiline = FALSE
  BY <1>1 DEF WellFormed, ValuesEnd, Reading, ValueRead
<1>3. Entered(text, at) = Current(text, at)
  BY <1>1, <1>2, AllEntered
<1>4. DataLines(text) = Done(text, at) \cup Current(text, at)
  <2>1. \A l \in DataLines(text) : l < at
    BY <1>1, TextShape
  <2>2. QED
    BY <2>1 DEF Done, Current
<1>5. (\E S : objects \in Seq(S)) /\ ObjectSet = {ObjectBy(text, k, at) : k \in Done(text, at)}
  BY DEF Reading, ObjectsRead
<1>6. DOMAIN obj = {text[l].field : l \in Current(text, at)}
  BY <1>3 DEF Reading, ObjectRead
<1>7. CASE Current(text, at) = {}
  <2>1. objects' = objects
    BY <1>6, <1>7 DEF EndOfFile
  <2>2. ObjectSet' = {ObjectBy(text, k, at) : k \in DataLines(text)}
    BY <1>4, <1>5, <1>7, <2>1 DEF ObjectSet
  <2>3. QED
    BY <1>1, <1>2, <1>5, <2>1, <2>2 DEF ObjectsOf
<1>8. CASE Current(text, at) # {}
  <2>1. objects' = Append(objects, obj)
    BY <1>6, <1>8 DEF EndOfFile
  <2>2. (\E S : objects' \in Seq(S)) /\ ObjectSet' = ObjectSet \cup {obj}
    BY <1>5, <2>1, ObjectAppended
  <2>3. \A k \in Current(text, at) : obj = ObjectBy(text, k, at)
    BY <1>1, ObjectIs DEF Reading
  <2>4. ObjectSet' = {ObjectBy(text, k, at) : k \in DataLines(text)}
    BY <1>4, <1>5, <1>8, <2>2, <2>3
  <2>5. QED
    BY <1>1, <1>2, <2>2, <2>4 DEF ObjectsOf
<1>9. QED
  BY <1>7, <1>8

\* The parser's part of the inductive invariant.
ParserInv ==
  /\ in_data \in BOOLEAN /\ in_multiline \in BOOLEAN /\ in_obj \in BOOLEAN
  /\ stage = "parse" => Reading
  /\ stage # "parse" => ObjectSet = Written /\ in_multiline = FALSE

LEMMA InitReading == Init => ParserInv
<1> SUFFICES ASSUME Init PROVE ParserInv
  OBVIOUS
<1>1. /\ text \in Texts /\ at = 1 /\ stage = "parse" /\ in_data = FALSE /\ in_multiline = FALSE
      /\ in_obj = FALSE /\ obj = Nothing /\ objects = <<>>
  BY DEF Init
<1>2. WellFormed(text)
  BY <1>1, TextsAssumption
<1>3. Len(text) \in Nat /\ FirstData(text) \in 1 .. Len(text)
  BY <1>2, TextShape
<1>4. 1 \in 1 .. Len(text) + 1 /\ 1 \in 1 .. FirstData(text) + 1 /\ ~(1 > FirstData(text))
  BY <1>3
<1>5. /\ ~InValue(text, 1) /\ Current(text, 1) = {} /\ Done(text, 1) = {}
      /\ \A m : ~Within(text, m, 1)
  BY <1>2, <1>4, Header
<1>6. Entered(text, 1) = {}
  BY <1>5 DEF Entered
<1>7. WhereInText
  BY <1>1, <1>4 DEF WhereInText
<1>8. ValueRead
  BY <1>1, <1>5 DEF ValueRead
<1>9. ObjectRead
  BY <1>1, <1>5, <1>6 DEF ObjectRead, Nothing
<1>10. ObjectsRead
  <2>1. objects \in Seq({}) /\ Len(objects) = 0
    BY <1>1, EmptySeq
  <2>2. ObjectSet = {}
    BY <2>1 DEF ObjectSet
  <2>3. QED
    BY <1>1, <1>5, <2>1, <2>2 DEF ObjectsRead
<1>11. QED
  BY <1>1, <1>7, <1>8, <1>9, <1>10 DEF ParserInv, Reading

LEMMA ParserStep ==
  ASSUME ParserInv, [Next]_vars
  PROVE  ParserInv'
<1>1. CASE UNCHANGED vars
  <2>1. UNCHANGED <<text, stage, at, in_data, in_multiline, in_obj, field, binval, obj, objects>>
    BY <1>1 DEF vars
  <2>2. WhereInText => WhereInText'
    BY <2>1 DEF WhereInText
  <2>3. ValueRead => ValueRead'
    BY <2>1 DEF ValueRead
  <2>4. ObjectRead => ObjectRead'
    BY <2>1 DEF ObjectRead
  <2>5. ObjectSet' = ObjectSet /\ (ObjectsRead => ObjectsRead') /\ Written' = Written
    BY <2>1 DEF ObjectSet, ObjectsRead, Written
  <2>6. QED
    BY <2>1, <2>2, <2>3, <2>4, <2>5 DEF ParserInv, Reading
<1>2. CASE Trust
  <2>1. /\ stage # "parse" /\ stage' # "parse"
        /\ UNCHANGED <<text, in_data, in_multiline, in_obj, objects>>
    BY <1>2 DEF Trust, NoTrust, LegacyFails, LegacyDefault, WithCertificate, WithoutCertificate,
       WithoutFails, EndOfObjects, OnTrust, NextObject, RaiseError, parserVars
  <2>2. QED
    BY <2>1 DEF ParserInv, ObjectSet, Written
<1>3. CASE ReadLine
  <2>1. stage = "parse" /\ stage' = "parse"
    BY <1>3 DEF ReadLine, NextLine
  <2>2. Reading'
    BY <1>3, <2>1, ReadingNext DEF ParserInv
  <2>3. QED
    BY <2>1, <2>2 DEF ParserInv, Reading, WhereInText, ValueRead, ObjectRead
<1>4. CASE EndOfFile
  <2>1. stage = "parse" /\ stage' = "trust" /\ UNCHANGED <<text, in_data, in_multiline, in_obj>>
    BY <1>4 DEF EndOfFile
  <2>2. ObjectSet' = ObjectsOf(text) /\ in_multiline = FALSE
    BY <1>4, <2>1, AllRead DEF ParserInv
  <2>3. QED
    BY <2>1, <2>2 DEF ParserInv, Written
<1>5. QED
  BY <1>1, <1>2, <1>3, <1>4 DEF Next, Ended, Parse, ReadLine, OnLine,
     SkipLine, EndObject, OctalLine, EndMultiline, Multiline, Attribute

LEMMA ParserInvariant == Spec => []ParserInv
  BY InitReading, ParserStep, PTL DEF Spec

\* Whatever well-formed text certdata.txt is (37-89): the objects that are
\* gone through are those the text has.
THEOREM ObjectsAreAsWritten == Spec => []ObjectsAsWritten
<1>1. ParserInv => ObjectsAsWritten
  BY DEF ParserInv, ObjectsAsWritten, ObjectSet
<1>2. QED
  BY <1>1, ParserInvariant, PTL

-----------------------------------------------------------------------------
(* The files.                                                              *)

Index == 1 .. Len(objects)
TrustAt(i) == i \in Index /\ IsTrust(objects[i])

\* What the file of o says.
Entry(o) ==
  IF certmap(o)
  THEN [cert |-> TRUE,
        trust |-> IF Distrusted(o) THEN "x-distrusted"
                  ELSE IF TrustedFor(o) # {} THEN "trusted" ELSE "neutral",
        purposes |-> TrustedFor(o)]
  ELSE [cert |-> FALSE,
        trust |-> IF Distrusted(o) THEN "x-distrusted" ELSE "neutral",
        purposes |-> {}]

\* A file says what one of the trust objects done so far says, the last that
\* has its name, and each of these has a file.
FilesInv ==
  /\ at \in Nat /\ at >= 1 /\ stage \in {"parse", "trust", "done", "raised"}
  /\ \E S : objects \in Seq(S)
  /\ stage = "parse" => DOMAIN p11 = {} /\ DOMAIN legacy = {}
  /\ \A f \in DOMAIN p11 : \E i \in Index :
       TrustAt(i) /\ FileOf(objects[i]) = f /\ p11[f] = Entry(objects[i])
  /\ stage \in {"trust", "done"} => \A i \in Index :
       TrustAt(i) /\ i < at /\ Legacy(objects[i]) = {} => FileOf(objects[i]) \in DOMAIN p11
  /\ \A f \in DOMAIN legacy : \E i \in Index :
       TrustAt(i) /\ FileOf(objects[i]) = f /\ certmap(objects[i])
  /\ stage = "done" => at > Len(objects)

LEMMA InitFiles == Init => FilesInv
<1> SUFFICES ASSUME Init PROVE FilesInv
  OBVIOUS
<1>1. objects \in Seq({})
  BY EmptySeq DEF Init
<1>2. DOMAIN p11 = {} /\ DOMAIN legacy = {}
  BY DEF Init, Nothing
<1>3. \E S : objects \in Seq(S)
  BY <1>1
<1>4. at = 1 /\ stage = "parse"
  BY DEF Init
<1>5. QED
  BY <1>2, <1>3, <1>4 DEF FilesInv

LEMMA IndexNat == FilesInv => Len(objects) \in Nat
  BY DEF FilesInv

\* The parser leaves the files alone.
LEMMA ParserFiles ==
  ASSUME FilesInv, Parse
  PROVE  FilesInv'
<1>1. stage = "parse" /\ DOMAIN p11 = {} /\ DOMAIN legacy = {} /\ UNCHANGED <<p11, legacy>>
  BY DEF FilesInv, Parse, SkipLine, EndObject, OctalLine, EndMultiline, Multiline, Attribute,
     EndOfFile, OnLine, NextLine
<1>2. objects' \in {objects, Append(objects, obj)}
  BY DEF Parse, SkipLine, EndObject, OctalLine, EndMultiline, Multiline, Attribute, EndOfFile
<1>3. \E S : objects' \in Seq(S)
  <2>1. PICK S : objects \in Seq(S)
    BY DEF FilesInv
  <2>2. objects \in Seq(S \cup {obj}) /\ obj \in S \cup {obj}
    BY <2>1, SeqDef
  <2>3. Append(objects, obj) \in Seq(S \cup {obj})
    BY <2>2, AppendProperties
  <2>4. QED
    BY <1>2, <2>2, <2>3
<1>4. \/ stage' = "parse" /\ at' = at + 1
      \/ stage' = "trust" /\ at' = 1
  BY <1>1 DEF Parse, SkipLine, EndObject, OctalLine, EndMultiline, Multiline, Attribute, EndOfFile, NextLine
<1>5. Len(objects') \in Nat
  BY <1>3
<1>6. stage' = "trust" => \A i \in 1 .. Len(objects') : ~(i < at')
  BY <1>4, <1>5
<1>7. at' \in Nat /\ at' >= 1
  BY <1>4 DEF FilesInv
<1>8. QED
  BY <1>1, <1>3, <1>4, <1>6, <1>7 DEF FilesInv, Index

LEMMA MapsKept ==
  ASSUME UNCHANGED <<objects, blacklist>>
  PROVE  /\ Index' = Index /\ \A i : TrustAt(i)' <=> TrustAt(i)
         /\ \A o : (certmap(o)' <=> certmap(o)) /\ Entry(o)' = Entry(o)
  BY DEF Index, TrustAt, IsTrust, Entry, certmap, IsCert, Key, Distrusted, TrustedFor

\* A step that writes the file of the object whose turn it is, or none.
LEMMA WriterFiles ==
  ASSUME FilesInv, stage = "trust", at <= Len(objects),
         UNCHANGED <<objects, blacklist>>,
         \/ p11' = p11 /\ (IsTrust(tobj) /\ Legacy(tobj) = {} => stage' = "raised")
         \/ IsTrust(tobj) /\ p11' = Put(p11, fname, Entry(tobj)),
         \/ legacy' = legacy
         \/ IsTrust(tobj) /\ certmap(tobj) /\ \E v : legacy' = Put(legacy, fname, v),
         \/ stage' = "trust" /\ at' = at + 1
         \/ stage' = "raised" /\ at' = at
  PROVE  FilesInv'
<1>1. /\ Index' = Index /\ \A i : TrustAt(i)' <=> TrustAt(i)
      /\ \A o : (certmap(o)' <=> certmap(o)) /\ Entry(o)' = Entry(o)
  BY MapsKept
<1>2. at \in Index /\ at \in Nat /\ Len(objects) \in Nat
  BY IndexNat DEF FilesInv, Index
<1>3. fname = FileOf(objects[at]) /\ tobj = objects[at]
  BY DEF fname, FileOf, tobj
<1>4. \A f \in DOMAIN p11' : \E i \in Index :
        TrustAt(i) /\ FileOf(objects[i]) = f /\ p11'[f] = Entry(objects[i])
  <2>1. CASE p11' = p11
    BY <2>1 DEF FilesInv
  <2>2. CASE IsTrust(tobj) /\ p11' = Put(p11, fname, Entry(tobj))
    <3>1. ASSUME NEW f \in DOMAIN p11'
          PROVE  \E i \in Index : TrustAt(i) /\ FileOf(objects[i]) = f /\ p11'[f] = Entry(objects[i])
      <4>1. f \in DOMAIN p11 \cup {fname} /\ p11'[f] = IF f = fname THEN Entry(tobj) ELSE p11[f]
        BY <2>2, <3>1 DEF Put
      <4>2. CASE f = fname
        BY <1>2, <1>3, <2>2, <4>1, <4>2 DEF TrustAt
      <4>3. CASE f # fname
        BY <4>1, <4>3 DEF FilesInv
      <4>4. QED
        BY <4>2, <4>3
    <3>2. QED
      BY <3>1
  <2>3. QED
    BY <2>1, <2>2
<1>5. stage' = "trust" => \A i \in Index :
        TrustAt(i) /\ i < at' /\ Legacy(objects[i]) = {} => FileOf(objects[i]) \in DOMAIN p11'
  <2>1. ASSUME stage' = "trust", NEW i \in Index, TrustAt(i), i < at', Legacy(objects[i]) = {}
        PROVE  FileOf(objects[i]) \in DOMAIN p11'
    <3>1. i < at \/ i = at
      BY <1>2, <2>1 DEF Index
    <3>2. DOMAIN p11 \subseteq DOMAIN p11'
      BY DEF Put
    <3>3. CASE i < at
      BY <2>1, <3>2, <3>3 DEF FilesInv
    <3>4. CASE i = at
      <4>1. p11' = Put(p11, fname, Entry(tobj))
        BY <1>3, <2>1, <3>4 DEF TrustAt
      <4>2. QED
        BY <1>3, <3>4, <4>1 DEF Put
    <3>5. QED
      BY <3>1, <3>3, <3>4
  <2>2. QED
    BY <2>1
<1>6. \A f \in DOMAIN legacy' : \E i \in Index : TrustAt(i) /\ FileOf(objects[i]) = f /\ certmap(objects[i])
  <2>1. CASE legacy' = legacy
    BY <2>1 DEF FilesInv
  <2>2. CASE IsTrust(tobj) /\ certmap(tobj) /\ \E v : legacy' = Put(legacy, fname, v)
    <3>1. TrustAt(at) /\ FileOf(objects[at]) = fname /\ certmap(objects[at])
      BY <1>2, <1>3, <2>2 DEF TrustAt
    <3>2. \A f \in DOMAIN legacy' : f \in DOMAIN legacy \/ f = fname
      BY <2>2 DEF Put
    <3>3. QED
      BY <1>2, <3>1, <3>2 DEF FilesInv
  <2>3. QED
    BY <2>1, <2>2
<1>7. at' \in Nat /\ at' >= 1 /\ stage' \in {"trust", "raised"} /\ \E S : objects' \in Seq(S)
  BY <1>2 DEF FilesInv
<1>8. FileOf(objects[1])' = FileOf(objects[1]) /\ objects' = objects
  BY DEF FileOf
<1>9. QED
  BY <1>1, <1>4, <1>5, <1>6, <1>7, <1>8 DEF FilesInv, FileOf, Legacy

LEMMA TrustFiles ==
  ASSUME FilesInv, Trust
  PROVE  FilesInv'
<1>1. CASE NoTrust
  BY <1>1, WriterFiles DEF NoTrust, NextObject, parserVars
<1>2. CASE LegacyFails
  BY <1>2, WriterFiles DEF LegacyFails, OnTrust, RaiseError, parserVars
<1>3. CASE LegacyDefault
  <2>1. /\ stage = "trust" /\ at <= Len(objects) /\ IsTrust(tobj) /\ certmap(tobj) /\ Legacy(tobj) # {}
        /\ \E v : legacy' = Put(legacy, fname, v)
        /\ p11' = p11 /\ UNCHANGED <<objects, blacklist>>
        /\ \/ stage' = "trust" /\ at' = at + 1
           \/ stage' = "raised" /\ at' = at
    BY <1>3 DEF LegacyDefault, OnTrust, RaiseError, NextObject, parserVars
  <2>2. QED
    BY <2>1, WriterFiles
<1>4. CASE WithCertificate
  <2>1. /\ stage = "trust" /\ at <= Len(objects) /\ IsTrust(tobj) /\ p11' = Put(p11, fname, Entry(tobj))
        /\ legacy' = legacy /\ UNCHANGED <<objects, blacklist>> /\ stage' = "trust" /\ at' = at + 1
    BY <1>4 DEF WithCertificate, OnTrust, NextObject, parserVars, Entry
  <2>2. QED
    BY <2>1, WriterFiles
<1>5. CASE WithoutCertificate
  <2>1. /\ stage = "trust" /\ at <= Len(objects) /\ IsTrust(tobj) /\ p11' = Put(p11, fname, Entry(tobj))
        /\ legacy' = legacy /\ UNCHANGED <<objects, blacklist>> /\ stage' = "trust" /\ at' = at + 1
    BY <1>5 DEF WithoutCertificate, OnTrust, NextObject, parserVars, Entry
  <2>2. QED
    BY <2>1, WriterFiles
<1>6. CASE WithoutFails
  BY <1>6, WriterFiles DEF WithoutFails, OnTrust, RaiseError, parserVars
<1>7. CASE EndOfObjects
  <2>1. /\ stage = "trust" /\ stage' = "done" /\ at > Len(objects)
        /\ UNCHANGED <<at, objects, blacklist, p11, legacy>>
    BY <1>7 DEF EndOfObjects, parserVars
  <2>2. /\ Index' = Index /\ \A i : TrustAt(i)' <=> TrustAt(i)
        /\ \A o : (certmap(o)' <=> certmap(o)) /\ Entry(o)' = Entry(o)
    BY <2>1, MapsKept
  <2>3. QED
    BY <2>1, <2>2 DEF FilesInv, FileOf, Legacy
<1>8. QED
  BY <1>1, <1>2, <1>3, <1>4, <1>5, <1>6, <1>7 DEF Trust

LEMMA FilesInvariant == Spec => []FilesInv
<1>1. ASSUME FilesInv, UNCHANGED vars PROVE FilesInv'
  <2>1. UNCHANGED <<at, stage, objects, blacklist, p11, legacy>>
    BY <1>1 DEF vars
  <2>2. /\ Index' = Index /\ \A i : TrustAt(i)' <=> TrustAt(i)
        /\ \A o : (certmap(o)' <=> certmap(o)) /\ Entry(o)' = Entry(o)
    BY <2>1, MapsKept
  <2>3. QED
    BY <1>1, <2>1, <2>2 DEF FilesInv, FileOf, Legacy
<1>2. ASSUME FilesInv, [Next]_vars PROVE FilesInv'
  BY <1>1, <1>2, ParserFiles, TrustFiles DEF Next, Ended
<1>3. QED
  BY <1>2, InitFiles, PTL DEF Spec

LEMMA ReadIsStated ==
  ASSUME ObjectsAsWritten, stage # "parse", NEW i \in Index
  PROVE  objects[i] \in Written /\ (TrustAt(i) => objects[i] \in Stated)
  BY DEF ObjectsAsWritten, Index, TrustAt, Stated

\* Whatever certdata.txt says of whatever certificates: what is marked as
\* trusted (certdata2pem.py:334-364) is a certificate of the text, with a trust
\* object that says so.
THEOREM TrustIsAsSaid == Spec => []TrustedOnlyAsSaid
<1>1. ASSUME FilesInv, ObjectsAsWritten, NEW f \in DOMAIN p11, p11[f].trust = "trusted"
      PROVE  \E o \in Stated, c \in Written :
               /\ FileOf(o) = f /\ IsCert(c) /\ Key(c) = Key(o)
               /\ p11[f].purposes = {p \in Purposes : Says(o, p, Trusted)}
               /\ p11[f].purposes # {} /\ \A p \in Purposes : ~Says(o, p, NotTrusted)
  <2>1. PICK i \in Index : TrustAt(i) /\ FileOf(objects[i]) = f /\ p11[f] = Entry(objects[i])
    BY <1>1 DEF FilesInv
  <2>2. stage # "parse"
    BY <1>1 DEF FilesInv
  <2>3. /\ certmap(objects[i]) /\ ~Distrusted(objects[i]) /\ TrustedFor(objects[i]) # {}
        /\ p11[f].purposes = TrustedFor(objects[i])
    BY <1>1, <2>1 DEF Entry
  <2>4. PICK j \in Index : IsCert(objects[j]) /\ Key(objects[j]) = Key(objects[i])
    BY <2>3 DEF certmap, Index
  <2>5. objects[i] \in Stated /\ objects[j] \in Written
    BY <1>1, <2>1, <2>2, ReadIsStated
  <2>6. QED
    BY <2>1, <2>3, <2>4, <2>5 DEF TrustedFor, Distrusted
<1>2. FilesInv /\ ObjectsAsWritten => TrustedOnlyAsSaid
  BY <1>1 DEF TrustedOnlyAsSaid
<1>3. QED
  BY <1>2, FilesInvariant, ObjectsAreAsWritten, PTL

\* The file of a trust object is its own if no other has its name.
LEMMA OwnFile ==
  ASSUME FilesInv, ObjectsAsWritten, stage = "done", FilesDiffer, NEW o \in Stated
  PROVE  /\ Legacy(o) = {} => FileOf(o) \in DOMAIN p11
         /\ FileOf(o) \in DOMAIN p11 => p11[FileOf(o)] = Entry(o)
         /\ FileOf(o) \in DOMAIN legacy => certmap(o)
<1>1. \A i \in Index : TrustAt(i) /\ FileOf(objects[i]) = FileOf(o) => objects[i] = o
  BY ReadIsStated DEF FilesDiffer
<1>2. PICK i \in Index : objects[i] = o
  BY DEF Stated, ObjectsAsWritten, Index
<1>3. TrustAt(i) /\ i < at
  BY <1>2, IndexNat DEF Stated, TrustAt, FilesInv, Index
<1>4. Legacy(o) = {} => FileOf(o) \in DOMAIN p11
  BY <1>2, <1>3 DEF FilesInv
<1>5. FileOf(o) \in DOMAIN p11 => p11[FileOf(o)] = Entry(o)
  BY <1>1 DEF FilesInv
<1>6. FileOf(o) \in DOMAIN legacy => certmap(o)
  BY <1>1 DEF FilesInv
<1>7. QED
  BY <1>4, <1>5, <1>6

\* Distrust for one purpose wins (312-332), with a certificate or without, for
\* every combination of objects that have files of their own.
THEOREM DistrustIsKept == Spec => []DistrustHolds
<1>1. ASSUME FilesInv, ObjectsAsWritten, stage = "done", FilesDiffer, NEW o \in Stated,
             Legacy(o) = {}, \E p \in Purposes : Says(o, p, NotTrusted)
      PROVE  FileOf(o) \in DOMAIN p11 /\ p11[FileOf(o)].trust = "x-distrusted"
  <2>1. FileOf(o) \in DOMAIN p11 /\ p11[FileOf(o)] = Entry(o)
    BY <1>1, OwnFile
  <2>2. Distrusted(o)
    BY <1>1 DEF Distrusted
  <2>3. QED
    BY <2>1, <2>2 DEF Entry
<1>2. FilesInv /\ ObjectsAsWritten => DistrustHolds
  BY <1>1 DEF DistrustHolds
<1>3. QED
  BY <1>2, FilesInvariant, ObjectsAreAsWritten, PTL

\* The map of certificates alone keeps what is blacklisted out of all files,
\* although the trust objects of it are gone through (106-123, 196).
THEOREM BlacklistIsKept == Spec => []BlacklistHolds
<1>1. ASSUME FilesInv, ObjectsAsWritten, stage = "done", FilesDiffer, NEW o \in Stated,
             o["CKA_LABEL"] \in blacklist
      PROVE  /\ FileOf(o) \notin DOMAIN legacy
             /\ FileOf(o) \in DOMAIN p11 => ~p11[FileOf(o)].cert
  <2>1. ~certmap(o)
    BY <1>1 DEF certmap, Key
  <2>2. Entry(o).cert = FALSE
    BY <2>1 DEF Entry
  <2>3. /\ FileOf(o) \in DOMAIN p11 => p11[FileOf(o)] = Entry(o)
        /\ FileOf(o) \in DOMAIN legacy => certmap(o)
    BY <1>1, OwnFile
  <2>4. QED
    BY <2>1, <2>2, <2>3
<1>2. FilesInv /\ ObjectsAsWritten => BlacklistHolds
  BY <1>1 DEF BlacklistHolds
<1>3. QED
  BY <1>2, FilesInvariant, ObjectsAreAsWritten, PTL

\* Every variable keeps to its type (32-39, 196-414): within a value the
\* parser is in an object in the data, and a file says what it can say.
THEOREM CertTypeCorrect == Spec => []TypeOK
<1> DEFINE LegacyInv == \A f \in DOMAIN legacy : legacy[f] \subseteq Purposes
<1>1. Init => LegacyInv
  BY DEF Init, Nothing
<1>2. ASSUME LegacyInv, [Next]_vars PROVE LegacyInv'
  <2>1. CASE LegacyDefault
    <3>1. PICK v : legacy' = Put(legacy, fname, v) /\ v \subseteq Purposes
      BY <2>1 DEF LegacyDefault, Legacy
    <3>2. QED
      BY <1>2, <3>1 DEF Put
  <2>2. CASE UNCHANGED legacy
    BY <1>2, <2>2
  <2>3. QED
    BY <1>2, <2>1, <2>2 DEF Next, Ended, Parse, Trust, vars, SkipLine, EndObject, OctalLine, EndMultiline,
       Multiline, Attribute, EndOfFile, NextLine, NoTrust, LegacyFails, WithCertificate,
       WithoutCertificate, WithoutFails, EndOfObjects, RaiseError
<1>3. ASSUME FilesInv, ParserInv, LegacyInv PROVE TypeOK
  <2>1. in_multiline => in_data /\ in_obj
    <3>1. SUFFICES ASSUME in_multiline PROVE in_data /\ in_obj
      OBVIOUS
    <3>2. Reading
      BY <1>3, <3>1 DEF ParserInv
    <3>3. WellFormed(text) /\ at \in 1 .. Len(text) + 1
      BY <3>2, TextIsWellFormed DEF Reading, WhereInText
    <3>4. PICK m \in DataLines(text) : Within(text, m, at)
      BY <3>1, <3>2 DEF Reading, ValueRead, InValue
    <3>5. at > FirstData(text) /\ at \in Data(text) \cup {Len(text) + 1}
      BY <3>3, <3>4, TextShape DEF Within, Data
    <3>6. m \in Current(text, at)
      BY <3>3, <3>4, <3>5, WithinCurrent
    <3>7. QED
      BY <3>2, <3>5, <3>6 DEF Reading, WhereInText, ObjectRead
  <2>2. \A f \in DOMAIN p11 : /\ p11[f].trust \in {"x-distrusted", "trusted", "neutral"}
                              /\ p11[f].purposes \subseteq Purposes
    <3>1. \A o : Entry(o).trust \in {"x-distrusted", "trusted", "neutral"} /\ Entry(o).purposes \subseteq Purposes
      BY DEF Entry, TrustedFor
    <3>2. QED
      BY <1>3, <3>1 DEF FilesInv
  <2>3. stage # "parse" => ~in_multiline
    BY <1>3 DEF ParserInv
  <2>4. QED
    BY <1>3, <2>1, <2>2, <2>3 DEF TypeOK, FilesInv, ParserInv
<1>4. Spec => []LegacyInv
  BY <1>1, <1>2, PTL DEF Spec
<1>5. FilesInv /\ ParserInv /\ LegacyInv => TypeOK
  BY <1>3
<1>6. QED
  BY <1>4, <1>5, FilesInvariant, ParserInvariant, PTL
=============================================================================
