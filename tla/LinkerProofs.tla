----------------------------- MODULE LinkerProofs -----------------------------
(***************************************************************************)
(* The loader reads every module once and resolves it completely, and      *)
(* counts the libraries that symbols keep open, whatever the files say.    *)
(***************************************************************************)
EXTENDS Linker, InductionLemmas, FiniteSetTheorems, SequenceTheorems

-----------------------------------------------------------------------------
(* Sequences                                                               *)

\* A function on 1 .. n is a sequence of length n.
LEMMA IsSeqOf ==
  ASSUME NEW n \in Nat, NEW s, s = [i \in 1 .. n |-> s[i]]
  PROVE  IsSeq(s) /\ Len(s) = n /\ DOMAIN s = 1 .. n
<1> DEFINE S == {s[i] : i \in 1 .. n}
<1>1. s \in [1 .. n -> S]
  OBVIOUS
<1>2. s \in Seq(S) /\ DOMAIN s = 1 .. n
  BY <1>1
<1>3. Len(s) = n
  BY <1>2
<1>4. QED
  BY <1>2, <1>3 DEF IsSeq

\* What a sequence in this sense is.
LEMMA SeqFacts ==
  ASSUME NEW s, IsSeq(s)
  PROVE  Len(s) \in Nat /\ DOMAIN s = 1 .. Len(s) /\ \E S : s \in Seq(S)
<1> DEFINE S == {s[i] : i \in 1 .. Len(s)}
<1>1. Len(s) \in Nat /\ s = [i \in 1 .. Len(s) |-> s[i]]
  BY DEF IsSeq
<1>2. s \in [1 .. Len(s) -> S]
  BY <1>1
<1>3. s \in Seq(S)
  BY <1>1, <1>2
<1>4. QED
  BY <1>1, <1>3

\* What Append adds, and what it leaves.
LEMMA AppendIs ==
  ASSUME NEW s, IsSeq(s), NEW e
  PROVE  /\ IsSeq(Append(s, e)) /\ Len(Append(s, e)) = Len(s) + 1
         /\ DOMAIN Append(s, e) = 1 .. Len(s) + 1
         /\ Append(s, e)[Len(s) + 1] = e
         /\ \A i \in DOMAIN s : Append(s, e)[i] = s[i]
<1>1. Len(s) \in Nat /\ DOMAIN s = 1 .. Len(s)
  BY SeqFacts
<1>2. PICK S : s \in Seq(S)
  BY SeqFacts
<1> DEFINE t == Append(s, e)
<1>3. s \in Seq(S \cup {e}) /\ e \in S \cup {e}
  BY <1>1, <1>2
<1>4. t \in Seq(S \cup {e}) /\ Len(t) = Len(s) + 1 /\ t[Len(s) + 1] = e
      /\ \A i \in 1 .. Len(s) : t[i] = s[i]
  BY <1>3
<1> HIDE DEF t
<1>5. DOMAIN t = 1 .. Len(s) + 1 /\ t = [i \in 1 .. Len(s) + 1 |-> t[i]]
  <2>1. t \in [1 .. Len(t) -> S \cup {e}]
    BY <1>4
  <2>2. QED
    BY <2>1, <1>4
<1>6. IsSeq(t)
  BY <1>4, <1>5, <1>1 DEF IsSeq
<1>7. QED
  BY <1>1, <1>4, <1>5, <1>6 DEF t

\* t is s with e at place i.
Set(t, s, i, e) == t = [s EXCEPT ![i] = e]

\* A change of one element leaves the others and the length.
LEMMA PutIs ==
  ASSUME NEW s, IsSeq(s), NEW i \in DOMAIN s, NEW e, NEW t, Set(t, s, i, e)
  PROVE  /\ IsSeq(t) /\ Len(t) = Len(s) /\ DOMAIN t = DOMAIN s
         /\ t[i] = e /\ \A j \in DOMAIN s : j # i => t[j] = s[j]
<1>1. Len(s) \in Nat /\ DOMAIN s = 1 .. Len(s)
  BY SeqFacts
<1>2. DOMAIN t = 1 .. Len(s) /\ t = [j \in 1 .. Len(s) |-> t[j]]
  BY <1>1 DEF Set
<1>3. t[i] = e /\ \A j \in DOMAIN s : j # i => t[j] = s[j]
  BY DEF Set
<1>4. IsSeq(t) /\ Len(t) = Len(s)
  BY <1>1, <1>2, IsSeqOf
<1>5. QED
  BY <1>1, <1>2, <1>3, <1>4

\* t is s with e in front.
Pushed(t, e, s) == t = <<e>> \o s

\* An element in front moves the others by one.
LEMMA PushIs ==
  ASSUME NEW s, IsSeq(s), NEW e, NEW t, Pushed(t, e, s)
  PROVE  /\ IsSeq(t) /\ Len(t) = Len(s) + 1
         /\ DOMAIN t = 1 .. Len(s) + 1
         /\ t[1] = e
         /\ \A i \in DOMAIN s : t[i + 1] = s[i]
         /\ \A i \in 1 .. Len(s) + 1 : i # 1 => i - 1 \in DOMAIN s /\ t[i] = s[i - 1]
<1>1. Len(s) \in Nat /\ DOMAIN s = 1 .. Len(s)
  BY SeqFacts
<1>2. PICK S : s \in Seq(S)
  BY SeqFacts
<1>3. s \in Seq(S \cup {e}) /\ <<e>> \in Seq(S \cup {e}) /\ Len(<<e>>) = 1
  BY <1>1, <1>2
<1>4. t \in Seq(S \cup {e}) /\ Len(t) = 1 + Len(s)
      /\ \A i \in 1 .. 1 + Len(s) : t[i] = IF i <= 1 THEN <<e>>[i] ELSE s[i - 1]
  BY <1>3, ConcatProperties DEF Pushed
<1>5. DOMAIN t = 1 .. Len(s) + 1 /\ t = [i \in 1 .. Len(s) + 1 |-> t[i]]
  BY <1>4, <1>1
<1>6. IsSeq(t) /\ Len(t) = Len(s) + 1
  BY <1>5, <1>1, IsSeqOf
<1>7. t[1] = e
  BY <1>1, <1>4
<1>8. \A i \in 1 .. Len(s) + 1 : i # 1 => i - 1 \in DOMAIN s /\ t[i] = s[i - 1]
  BY <1>1, <1>4
<1>9. \A i \in DOMAIN s : t[i + 1] = s[i]
  <2>1. ASSUME NEW i \in DOMAIN s PROVE t[i + 1] = s[i]
    <3>1. i \in 1 .. Len(s) /\ i + 1 \in 1 .. Len(s) + 1 /\ i + 1 # 1 /\ (i + 1) - 1 = i
      BY <1>1
    <3>2. QED
      BY <3>1, <1>8
  <2>2. QED
    BY <2>1
<1>10. QED
  BY <1>5, <1>6, <1>7, <1>8, <1>9

\* RemoveAt leaves the elements before i where they are and moves those behind it.
LEMMA RemoveIs ==
  ASSUME NEW s, IsSeq(s), NEW i \in DOMAIN s
  PROVE  LET t == Libs!RemoveAt(s, i)
         IN  /\ IsSeq(t) /\ Len(t) = Len(s) - 1 /\ DOMAIN t = 1 .. Len(s) - 1
             /\ \A j \in DOMAIN t : IF j < i THEN j \in DOMAIN s /\ t[j] = s[j]
                                             ELSE j + 1 \in DOMAIN s /\ t[j] = s[j + 1]
<1> DEFINE a == SubSeq(s, 1, i - 1)
           b == SubSeq(s, i + 1, Len(s))
           t == a \o b
<1>1. Len(s) \in Nat /\ DOMAIN s = 1 .. Len(s) /\ i \in 1 .. Len(s)
  BY SeqFacts
<1>2. PICK S : s \in Seq(S)
  BY SeqFacts
<1>3. a \in Seq(S) /\ Len(a) = i - 1 /\ \A j \in 1 .. i - 1 : a[j] = s[j]
  <2>1. a = [k \in 1 .. i - 1 |-> s[k]]
    BY <1>1, <1>2
  <2>2. QED
    BY <2>1, <1>1, <1>2
<1>4. b \in Seq(S) /\ Len(b) = Len(s) - i /\ \A j \in 1 .. Len(s) - i : b[j] = s[j + i]
  <2>1. \A k \in 1 .. Len(s) - i : (i + 1) + k - 1 = k + i
    BY <1>1
  <2>2. b = [k \in 1 .. Len(s) - i |-> s[k + i]]
    BY <1>1, <1>2, <2>1
  <2>3. \A k \in 1 .. Len(s) - i : s[k + i] \in S
    BY <1>1, <1>2
  <2>4. Len(s) - i \in Nat
    BY <1>1
  <2>5. b \in [1 .. Len(s) - i -> S]
    BY <2>2, <2>3
  <2> HIDE DEF b
  <2>6. b \in Seq(S) /\ Len(b) = Len(s) - i
    <3> DEFINE n == Len(s) - i
    <3>1. n \in Nat /\ b \in [1 .. n -> S]
      BY <2>4, <2>5
    <3> HIDE DEF n
    <3>2. b \in Seq(S) /\ Len(b) = n
      BY <3>1
    <3>3. QED
      BY <3>2 DEF n
  <2>7. QED
    BY <2>2, <2>6
<1> HIDE DEF a, b
<1>5. t \in Seq(S) /\ Len(t) = Len(s) - 1
      /\ \A j \in 1 .. Len(s) - 1 : t[j] = IF j <= i - 1 THEN a[j] ELSE b[j - (i - 1)]
  <2>1. Len(t) = Len(a) + Len(b) /\ t \in Seq(S)
        /\ \A j \in 1 .. Len(a) + Len(b) : t[j] = IF j <= Len(a) THEN a[j] ELSE b[j - Len(a)]
    BY <1>3, <1>4, ConcatProperties
  <2>2. QED
    BY <2>1, <1>1, <1>3, <1>4
<1> HIDE DEF t
<1>6. DOMAIN t = 1 .. Len(s) - 1 /\ t = [j \in 1 .. Len(s) - 1 |-> t[j]]
  <2>1. t \in [1 .. Len(t) -> S]
    BY <1>5
  <2>2. QED
    BY <2>1, <1>5
<1>7. IsSeq(t) /\ Len(t) = Len(s) - 1
  BY <1>6, <1>1, IsSeqOf
<1>8. ASSUME NEW j \in 1 .. Len(s) - 1
      PROVE IF j < i THEN j \in DOMAIN s /\ t[j] = s[j] ELSE j + 1 \in DOMAIN s /\ t[j] = s[j + 1]
  <2>1. CASE j < i
    BY <2>1, <1>1, <1>3, <1>5
  <2>2. CASE ~(j < i)
    <3>1. j - (i - 1) \in 1 .. Len(s) - i /\ (j - (i - 1)) + i = j + 1 /\ ~(j <= i - 1)
      BY <2>2, <1>1
    <3>2. t[j] = b[j - (i - 1)] /\ b[j - (i - 1)] = s[j + 1]
      BY <3>1, <1>4, <1>5
    <3>3. QED
      BY <3>2, <2>2, <1>1
  <2>3. QED
    BY <2>1, <2>2
<1>9. Libs!RemoveAt(s, i) = t
  BY DEF Libs!RemoveAt, t, a, b
<1>10. QED
  BY <1>6, <1>7, <1>8, <1>9

\* The sequence without its last element.
LEMMA FrontIs ==
  ASSUME NEW s, IsSeq(s), Len(s) > 0
  PROVE  LET t == Front(s)
         IN  /\ IsSeq(t) /\ Len(t) = Len(s) - 1 /\ DOMAIN t = 1 .. Len(s) - 1
             /\ \A i \in 1 .. Len(s) - 1 : t[i] = s[i]
<1> DEFINE n == Len(s) - 1
           t == Front(s)
<1>1. Len(s) \in Nat /\ DOMAIN s = 1 .. Len(s) /\ n \in Nat
  BY SeqFacts
<1>2. PICK S : s \in Seq(S)
  BY SeqFacts
<1>3. t = [k \in 1 .. n |-> s[k]]
  BY <1>1, <1>2 DEF Front
<1> HIDE DEF t, n
<1>4. t = [k \in 1 .. n |-> t[k]] /\ \A k \in 1 .. n : t[k] = s[k]
  BY <1>3
<1>5. IsSeq(t) /\ Len(t) = n /\ DOMAIN t = 1 .. n
  BY <1>1, <1>4, IsSeqOf
<1>6. QED
  BY <1>4, <1>5 DEF n, t

-----------------------------------------------------------------------------
(* The list of libraries                                                   *)

\* A library is on the list once, under the path its name is found at, and open as long as
\* it is on the list.
LibsInv ==
  /\ IsSeq(libs)
  /\ \A i \in DOMAIN libs :
       /\ "refcount" \in DOMAIN libs[i] /\ libs[i].refcount \in Nat /\ libs[i].refcount > 0
       /\ libs[i].path = Libs!PathOf(libs[i].name) /\ libs[i].path \in DOMAIN Exported
  /\ \A i, j \in DOMAIN libs : libs[i].path = libs[j].path => i = j
  /\ handles \in [DOMAIN Exported -> Int]
  /\ \A p \in DOMAIN Exported :
       handles[p] = IF \E i \in DOMAIN libs : libs[i].path = p THEN 1 ELSE 0

\* The first of the libraries that a name stands for.
LEMMA OpenedFirst ==
  ASSUME LibsInv, NEW name, Libs!AlreadyOpen(name) # {}
  PROVE  /\ Libs!Min(Libs!AlreadyOpen(name)) \in Libs!AlreadyOpen(name)
         /\ Libs!Min(Libs!AlreadyOpen(name)) \in DOMAIN libs
<1>1. Len(libs) \in Nat /\ DOMAIN libs = 1 .. Len(libs)
  BY SeqFacts DEF LibsInv
<1> DEFINE S == Libs!AlreadyOpen(name)
<1>2. S \subseteq DOMAIN libs
  BY DEF Libs!AlreadyOpen, Libs!OpenByName, Libs!OpenByPath
<1>3. S \in SUBSET Int /\ \A x \in S : 1 <= x
  BY <1>1, <1>2
<1> HIDE DEF S
<1>4. \E x \in S : \A y \in S : x <= y
  <2>1. S # {}
    BY DEF S
  <2>2. QED
    BY <2>1, <1>3, SmallestInteger
<1>5. Libs!Min(S) \in S
  BY <1>4 DEF Libs!Min
<1>6. QED
  BY <1>2, <1>5 DEF S

\* A library that is not on the list under the name has not been opened under its path.
LEMMA NotOpen ==
  ASSUME LibsInv, NEW name, Libs!AlreadyOpen(name) = {}, NEW i \in DOMAIN libs
  PROVE  libs[i].path # Libs!PathOf(name)
<1>1. /\ \A j \in DOMAIN libs : libs[j].name # name
      /\ name \in DOMAIN LibPath => \A j \in DOMAIN libs : libs[j].path # LibPath[name]
  BY DEF Libs!AlreadyOpen, Libs!OpenByName, Libs!OpenByPath
<1>2. libs[i].path = Libs!PathOf(libs[i].name)
  BY DEF LibsInv
<1>3. CASE name \in DOMAIN LibPath
  BY <1>1, <1>3 DEF Libs!PathOf
<1>4. CASE name \notin DOMAIN LibPath
  <2>1. Libs!PathOf(name) = name
    BY <1>4 DEF Libs!PathOf
  <2>2. CASE libs[i].name \in DOMAIN LibPath
    <3>1. libs[i].path \in DOMAIN LibPath
      BY <2>2, <1>2, LibPathAssumption DEF Libs!PathOf
    <3>2. QED
      BY <3>1, <2>1, <1>4
  <2>3. CASE libs[i].name \notin DOMAIN LibPath
    BY <2>3, <2>1, <1>1, <1>2 DEF Libs!PathOf
  <2>4. QED
    BY <2>2, <2>3
<1>5. QED
  BY <1>3, <1>4

\* dynamic_open counts one more for the library it returns, and nothing else changes.
LEMMA OpenCounts ==
  ASSUME LibsInv, NEW name, Libs!CanOpen(name), Libs!dynamic_open(name)
  PROVE  LET p == Libs!LibOf(name)
         IN  /\ LibsInv'
             /\ \E j \in DOMAIN libs' : libs'[j].path = p
             /\ \A i \in DOMAIN libs : \E j \in DOMAIN libs' : libs'[j].path = libs[i].path
             /\ \A j \in DOMAIN libs' :
                  \/ \E i \in DOMAIN libs :
                       /\ libs[i].path = libs'[j].path
                       /\ libs'[j].refcount = libs[i].refcount + IF libs[i].path = p THEN 1 ELSE 0
                  \/ /\ libs'[j].path = p /\ libs'[j].refcount = 1
                     /\ \A i \in DOMAIN libs : libs[i].path # p
<1> DEFINE p == Libs!LibOf(name)
           Open == Libs!AlreadyOpen(name)
           m == Libs!Min(Open)
<1>0. IsSeq(libs)
  BY DEF LibsInv
<1>1. CASE Open # {}
  <2>1. m \in DOMAIN libs /\ p = libs[m].path
    BY <1>1, OpenedFirst DEF Libs!LibOf
  <2> DEFINE e == [libs[m] EXCEPT !.refcount = @ + 1]
  <2>2. libs' = [libs EXCEPT ![m] = e] /\ handles' = handles
    BY <1>1 DEF Libs!dynamic_open, Libs!Counted
  <2> HIDE DEF Open, m
  <2>3. /\ "refcount" \in DOMAIN libs[m] /\ libs[m].refcount \in Nat
        /\ DOMAIN e = DOMAIN libs[m] /\ e.refcount = libs[m].refcount + 1
        /\ e.path = libs[m].path /\ e.name = libs[m].name
    BY <2>1 DEF LibsInv
  <2> HIDE DEF e
  <2>4. /\ IsSeq(libs') /\ DOMAIN libs' = DOMAIN libs
        /\ libs'[m] = e /\ \A j \in DOMAIN libs : j # m => libs'[j] = libs[j]
    <3>1. Set(libs', libs, m, e)
      BY <2>2 DEF Set
    <3>2. QED
      BY <1>0, <2>1, <3>1, PutIs
  <2>5. \A j \in DOMAIN libs : /\ libs'[j].path = libs[j].path /\ libs'[j].name = libs[j].name
                              /\ DOMAIN libs'[j] = DOMAIN libs[j]
    BY <2>3, <2>4
  <2>6. \A j \in DOMAIN libs : libs'[j].refcount = libs[j].refcount + IF j = m THEN 1 ELSE 0
    BY <2>3, <2>4 DEF LibsInv
  <2>7. \A j \in DOMAIN libs : libs[j].path = p <=> j = m
    BY <2>1 DEF LibsInv
  <2>8. LibsInv'
    <3>1. \A j \in DOMAIN libs' :
            /\ "refcount" \in DOMAIN libs'[j] /\ libs'[j].refcount \in Nat /\ libs'[j].refcount > 0
            /\ libs'[j].path = Libs!PathOf(libs'[j].name) /\ libs'[j].path \in DOMAIN Exported
      BY <2>4, <2>5, <2>6 DEF LibsInv
    <3>2. \A i, j \in DOMAIN libs' : libs'[i].path = libs'[j].path => i = j
      BY <2>4, <2>5 DEF LibsInv
    <3>3. \A q \in DOMAIN Exported :
            handles'[q] = IF \E i \in DOMAIN libs' : libs'[i].path = q THEN 1 ELSE 0
      BY <2>2, <2>4, <2>5 DEF LibsInv
    <3>4. handles' \in [DOMAIN Exported -> Int]
      BY <2>2 DEF LibsInv
    <3>5. QED
      BY <2>4, <3>1, <3>2, <3>3, <3>4 DEF LibsInv, Libs!PathOf
  <2> HIDE DEF p
  <2>9. QED
    BY <2>1, <2>4, <2>5, <2>6, <2>7, <2>8 DEF p
<1>2. CASE Open = {}
  <2> DEFINE e == [name |-> name, path |-> p, refcount |-> 1]
  <2>1. p = Libs!PathOf(name) /\ p \in DOMAIN Exported
    BY <1>2 DEF Libs!LibOf, Libs!CanOpen
  <2>2. libs' = <<e>> \o libs /\ handles' = [handles EXCEPT ![p] = @ + 1]
    BY <1>2, <2>1 DEF Libs!dynamic_open
  <2>3. \A i \in DOMAIN libs : libs[i].path # p
    BY <1>2, <2>1, NotOpen
  <2>4. e.name = name /\ e.path = p /\ e.refcount = 1 /\ "refcount" \in DOMAIN e
    OBVIOUS
  <2> HIDE DEF e, p, Open
  <2>5. /\ IsSeq(libs') /\ DOMAIN libs' = 1 .. Len(libs) + 1 /\ libs'[1] = e
        /\ \A i \in DOMAIN libs : libs'[i + 1] = libs[i]
        /\ \A i \in 1 .. Len(libs) + 1 : i # 1 => i - 1 \in DOMAIN libs /\ libs'[i] = libs[i - 1]
    <3>1. Pushed(libs', e, libs)
      BY <2>2 DEF Pushed
    <3>2. QED
      BY <1>0, <3>1, PushIs
  <2>6. Len(libs) \in Nat /\ DOMAIN libs = 1 .. Len(libs)
    BY <1>0, SeqFacts
  <2>7. 1 \in DOMAIN libs' /\ \A i \in DOMAIN libs : i + 1 \in DOMAIN libs'
    BY <2>5, <2>6
  <2>8. LibsInv'
    <3>1. \A j \in DOMAIN libs' :
            /\ "refcount" \in DOMAIN libs'[j] /\ libs'[j].refcount \in Nat /\ libs'[j].refcount > 0
            /\ libs'[j].path = Libs!PathOf(libs'[j].name) /\ libs'[j].path \in DOMAIN Exported
      <4>1. ASSUME NEW j \in DOMAIN libs', j # 1 PROVE j - 1 \in DOMAIN libs /\ libs'[j] = libs[j - 1]
        BY <4>1, <2>5
      <4>2. QED
        BY <4>1, <2>1, <2>4, <2>5 DEF LibsInv
    <3>2. \A i, j \in DOMAIN libs' : libs'[i].path = libs'[j].path => i = j
      <4>1. ASSUME NEW i \in DOMAIN libs', NEW j \in DOMAIN libs', libs'[i].path = libs'[j].path
            PROVE  i = j
        <5>1. CASE i = 1 \/ j = 1
          BY <5>1, <4>1, <2>3, <2>4, <2>5
        <5>2. CASE i # 1 /\ j # 1
          <6>1. /\ i - 1 \in DOMAIN libs /\ libs'[i] = libs[i - 1]
                /\ j - 1 \in DOMAIN libs /\ libs'[j] = libs[j - 1]
            BY <5>2, <2>5
          <6>2. i - 1 = j - 1
            BY <6>1, <4>1 DEF LibsInv
          <6>3. QED
            BY <6>2, <2>5, <2>6
        <5>3. QED
          BY <5>1, <5>2
      <4>2. QED
        BY <4>1
    <3>3. ASSUME NEW q \in DOMAIN Exported
          PROVE  handles'[q] = IF \E i \in DOMAIN libs' : libs'[i].path = q THEN 1 ELSE 0
      <4>1. CASE q = p
        <5>1. handles[q] = 0 /\ handles'[q] = handles[q] + 1
          BY <4>1, <2>1, <2>2, <2>3 DEF LibsInv
        <5>2. QED
          BY <5>1, <4>1, <2>4, <2>5, <2>7
      <4>2. CASE q # p
        <5>1. handles'[q] = handles[q]
          BY <4>2, <2>2 DEF LibsInv
        <5>2. (\E i \in DOMAIN libs' : libs'[i].path = q) <=> (\E i \in DOMAIN libs : libs[i].path = q)
          BY <4>2, <2>4, <2>5, <2>7
        <5>3. QED
          BY <5>1, <5>2 DEF LibsInv
      <4>3. QED
        BY <4>1, <4>2
    <3>4. handles' \in [DOMAIN Exported -> Int]
      BY <2>1, <2>2 DEF LibsInv
    <3>5. QED
      BY <2>5, <3>1, <3>2, <3>3, <3>4 DEF LibsInv, Libs!PathOf
  <2>9. ASSUME NEW j \in DOMAIN libs'
        PROVE  \/ \E i \in DOMAIN libs :
                    /\ libs[i].path = libs'[j].path
                    /\ libs'[j].refcount = libs[i].refcount + IF libs[i].path = p THEN 1 ELSE 0
               \/ /\ libs'[j].path = p /\ libs'[j].refcount = 1
                  /\ \A i \in DOMAIN libs : libs[i].path # p
    <3>1. CASE j = 1
      BY <3>1, <2>3, <2>4, <2>5
    <3>2. CASE j # 1
      <4>1. j - 1 \in DOMAIN libs /\ libs'[j] = libs[j - 1]
        BY <3>2, <2>5
      <4>2. libs[j - 1].refcount \in Nat /\ libs[j - 1].path # p
        BY <4>1, <2>3 DEF LibsInv
      <4>3. QED
        BY <4>1, <4>2
    <3>3. QED
      BY <3>1, <3>2
  <2>10. QED
    BY <2>4, <2>5, <2>7, <2>8, <2>9 DEF p
<1>3. QED
  BY <1>1, <1>2

\* dynamic_close takes one library off the list.
LEMMA CloseRemoves ==
  ASSUME LibsInv, NEW m \in DOMAIN libs, Libs!dynamic_close(m)
  PROVE  /\ LibsInv'
         /\ \A i \in DOMAIN libs : i # m => \E j \in DOMAIN libs' : libs'[j] = libs[i]
         /\ \A j \in DOMAIN libs' : \E i \in DOMAIN libs : i # m /\ libs[i] = libs'[j]
<1> DEFINE p == libs[m].path
<1>1. IsSeq(libs) /\ Len(libs) \in Nat /\ DOMAIN libs = 1 .. Len(libs) /\ m \in 1 .. Len(libs)
  BY SeqFacts DEF LibsInv
<1>2. /\ IsSeq(libs') /\ DOMAIN libs' = 1 .. Len(libs) - 1
      /\ \A j \in DOMAIN libs' : IF j < m THEN j \in DOMAIN libs /\ libs'[j] = libs[j]
                                         ELSE j + 1 \in DOMAIN libs /\ libs'[j] = libs[j + 1]
  <2>1. libs' = Libs!RemoveAt(libs, m)
    BY DEF Libs!dynamic_close
  <2>2. QED
    BY <1>1, <2>1, RemoveIs
<1>3. handles' = [handles EXCEPT ![p] = @ - 1]
  BY DEF Libs!dynamic_close
<1> DEFINE From(j) == IF j < m THEN j ELSE j + 1
<1>4. \A j \in DOMAIN libs' : From(j) \in DOMAIN libs /\ From(j) # m /\ libs'[j] = libs[From(j)]
  BY <1>1, <1>2
<1>5. \A i, j \in DOMAIN libs' : From(i) = From(j) => i = j
  BY <1>1, <1>2
<1>6. ASSUME NEW i \in DOMAIN libs, i # m PROVE \E j \in DOMAIN libs' : From(j) = i
  <2>1. CASE i < m
    <3>1. i \in DOMAIN libs' /\ From(i) = i
      BY <2>1, <1>1, <1>2
    <3>2. QED
      BY <3>1
  <2>2. CASE ~(i < m)
    <3>1. i - 1 \in DOMAIN libs' /\ From(i - 1) = i
      BY <2>2, <1>1, <1>2, <1>6
    <3>2. QED
      BY <3>1
  <2>3. QED
    BY <2>1, <2>2
<1> HIDE DEF From
<1>7. \A i \in DOMAIN libs : i # m => libs[i].path # p
  BY DEF LibsInv
<1>8. p \in DOMAIN Exported
  BY DEF LibsInv
<1>9. LibsInv'
  <2>1. \A j \in DOMAIN libs' :
          /\ "refcount" \in DOMAIN libs'[j] /\ libs'[j].refcount \in Nat /\ libs'[j].refcount > 0
          /\ libs'[j].path = Libs!PathOf(libs'[j].name) /\ libs'[j].path \in DOMAIN Exported
    BY <1>4 DEF LibsInv
  <2>2. \A i, j \in DOMAIN libs' : libs'[i].path = libs'[j].path => i = j
    BY <1>4, <1>5 DEF LibsInv
  <2>3. ASSUME NEW q \in DOMAIN Exported
        PROVE  handles'[q] = IF \E i \in DOMAIN libs' : libs'[i].path = q THEN 1 ELSE 0
    <3>1. CASE q = p
      <4>1. handles[q] = 1 /\ handles'[q] = handles[q] - 1
        BY <3>1, <1>3, <1>8 DEF LibsInv
      <4>2. \A i \in DOMAIN libs' : libs'[i].path # q
        BY <3>1, <1>4, <1>7
      <4>3. QED
        BY <4>1, <4>2
    <3>2. CASE q # p
      <4>1. handles'[q] = handles[q]
        BY <3>2, <1>3 DEF LibsInv
      <4>2. (\E i \in DOMAIN libs' : libs'[i].path = q) <=> (\E i \in DOMAIN libs : libs[i].path = q)
        BY <3>2, <1>4, <1>6
      <4>3. QED
        BY <4>1, <4>2 DEF LibsInv
    <3>3. QED
      BY <3>1, <3>2
  <2>4. handles' \in [DOMAIN Exported -> Int]
    BY <1>3, <1>8 DEF LibsInv
  <2>5. QED
    BY <1>2, <2>1, <2>2, <2>3, <2>4 DEF LibsInv, Libs!PathOf
<1>10. QED
  BY <1>4, <1>6, <1>9

\* dynamic_release counts one less for the library of that path and closes it at zero.
LEMMA ReleaseCounts ==
  ASSUME LibsInv, NEW p, \E i \in DOMAIN libs : libs[i].path = p, Libs!dynamic_release(p)
  PROVE  /\ LibsInv'
         /\ \A i \in DOMAIN libs : libs[i].path # p \/ libs[i].refcount > 1
              => \E j \in DOMAIN libs' : libs'[j].path = libs[i].path
         /\ \A j \in DOMAIN libs' : \E i \in DOMAIN libs :
              /\ libs[i].path = libs'[j].path
              /\ libs'[j].refcount = libs[i].refcount - IF libs[i].path = p THEN 1 ELSE 0
<1> DEFINE m == CHOOSE i \in DOMAIN libs : libs[i].path = p
<1>0. IsSeq(libs)
  BY DEF LibsInv
<1>1. m \in DOMAIN libs /\ libs[m].path = p
  OBVIOUS
<1>2. IF libs[m].refcount > 1
      THEN libs' = [libs EXCEPT ![m].refcount = @ - 1] /\ handles' = handles
      ELSE Libs!dynamic_close(m)
  BY DEF Libs!dynamic_release
<1> HIDE DEF m
<1>3. \A i \in DOMAIN libs : libs[i].path = p <=> i = m
  BY <1>1 DEF LibsInv
<1>4. CASE libs[m].refcount > 1
  <2> DEFINE e == [libs[m] EXCEPT !.refcount = @ - 1]
  <2>1. libs' = [libs EXCEPT ![m] = e] /\ handles' = handles
    BY <1>2, <1>4
  <2>2. /\ "refcount" \in DOMAIN libs[m] /\ libs[m].refcount \in Nat
        /\ DOMAIN e = DOMAIN libs[m] /\ e.refcount = libs[m].refcount - 1
        /\ e.path = libs[m].path /\ e.name = libs[m].name
    BY <1>1 DEF LibsInv
  <2> HIDE DEF e
  <2>3. /\ IsSeq(libs') /\ DOMAIN libs' = DOMAIN libs
        /\ libs'[m] = e /\ \A j \in DOMAIN libs : j # m => libs'[j] = libs[j]
    <3>1. Set(libs', libs, m, e)
      BY <2>1 DEF Set
    <3>2. QED
      BY <1>0, <1>1, <3>1, PutIs
  <2>4. \A j \in DOMAIN libs : /\ libs'[j].path = libs[j].path /\ libs'[j].name = libs[j].name
                              /\ DOMAIN libs'[j] = DOMAIN libs[j]
    BY <2>2, <2>3
  <2>5. \A j \in DOMAIN libs : libs'[j].refcount = libs[j].refcount - IF j = m THEN 1 ELSE 0
    BY <2>2, <2>3 DEF LibsInv
  <2>6. LibsInv'
    <3>1. \A j \in DOMAIN libs' :
            /\ "refcount" \in DOMAIN libs'[j] /\ libs'[j].refcount \in Nat /\ libs'[j].refcount > 0
            /\ libs'[j].path = Libs!PathOf(libs'[j].name) /\ libs'[j].path \in DOMAIN Exported
      BY <1>4, <2>3, <2>4, <2>5 DEF LibsInv
    <3>2. \A i, j \in DOMAIN libs' : libs'[i].path = libs'[j].path => i = j
      BY <2>3, <2>4 DEF LibsInv
    <3>3. \A q \in DOMAIN Exported :
            handles'[q] = IF \E i \in DOMAIN libs' : libs'[i].path = q THEN 1 ELSE 0
      BY <2>1, <2>3, <2>4 DEF LibsInv
    <3>4. handles' \in [DOMAIN Exported -> Int]
      BY <2>1 DEF LibsInv
    <3>5. QED
      BY <2>3, <3>1, <3>2, <3>3, <3>4 DEF LibsInv, Libs!PathOf
  <2>7. QED
    BY <1>3, <2>3, <2>4, <2>5, <2>6
<1>5. CASE ~(libs[m].refcount > 1)
  <2>1. Libs!dynamic_close(m)
    BY <1>2, <1>5
  <2>2. /\ LibsInv'
        /\ \A i \in DOMAIN libs : i # m => \E j \in DOMAIN libs' : libs'[j] = libs[i]
        /\ \A j \in DOMAIN libs' : \E i \in DOMAIN libs : i # m /\ libs[i] = libs'[j]
    BY <2>1, <1>1, CloseRemoves
  <2>3. \A i \in DOMAIN libs : libs[i].refcount \in Nat
    BY DEF LibsInv
  <2>4. ASSUME NEW i \in DOMAIN libs, libs[i].path # p \/ libs[i].refcount > 1
        PROVE  \E j \in DOMAIN libs' : libs'[j].path = libs[i].path
    <3>1. i # m
      BY <2>4, <1>3, <1>5
    <3>2. QED
      BY <3>1, <2>2
  <2>5. ASSUME NEW j \in DOMAIN libs'
        PROVE  \E i \in DOMAIN libs :
                 /\ libs[i].path = libs'[j].path
                 /\ libs'[j].refcount = libs[i].refcount - IF libs[i].path = p THEN 1 ELSE 0
    <3>1. PICK i \in DOMAIN libs : i # m /\ libs[i] = libs'[j]
      BY <2>2
    <3>2. libs[i].path # p /\ libs[i].refcount \in Nat
      BY <3>1, <1>3, <2>3
    <3>3. QED
      BY <3>1, <3>2
  <2>6. QED
    BY <2>2, <2>4, <2>5
<1>6. QED
  BY <1>4, <1>5

-----------------------------------------------------------------------------
(* Loaded modules                                                          *)

\* A record of a loaded module: the fields of its file, and room for what is resolved.
LoadedRecord(recs, r) ==
  /\ r.rec = "import" => /\ "fixup" \in DOMAIN r
                         /\ \E m \in Names : NamesModule(recs, r.module, m)
  /\ r.rec = "value" => r.code \in DOMAIN recs /\ recs[r.code].rec = "code"
  /\ r.rec = "code" => /\ "code" \in DOMAIN r /\ IsSeq(r.code)
                       /\ \A k \in DOMAIN r.code : "ptr" \in DOMAIN r.code[k]

LoadedModule(recs) ==
  /\ IsSeq(recs) /\ \E m \in Names : NamesModule(recs, 2, m)
  /\ \A i \in DOMAIN recs : LoadedRecord(recs, recs[i])

ModsInv ==
  /\ IsSeq(mods)
  /\ \A m \in DOMAIN mods :
       "recs" \in DOMAIN mods[m] /\ "next" \in DOMAIN mods[m] /\ LoadedModule(mods[m].recs)

\* read_records keeps the fields that a record has in its file.
LEMMA KeptFields ==
  ASSUME NEW recs, NEW r, RecordOK(recs, r)
  PROVE  /\ InMemory(r).rec = r.rec
         /\ r.rec \in {"name", "module"} => InMemory(r) = r
         /\ r.rec = "import" => "fixup" \in DOMAIN InMemory(r) /\ InMemory(r).module = r.module
         /\ r.rec = "value" => InMemory(r).code = r.code
         /\ r.rec = "code" => /\ "code" \in DOMAIN InMemory(r)
                              /\ InMemory(r).code =
                                   [k \in DOMAIN r.code |-> WithField(r.code[k], "ptr", NoPtr)]
<1>0. "rec" \in DOMAIN r
  BY DEF RecordOK
<1>1. CASE r.rec = "import"
  <2>1. InMemory(r) = WithField(r, "fixup", NoPtr) /\ "module" \in DOMAIN r
    BY <1>1 DEF InMemory, RecordOK
  <2>2. QED
    BY <2>1, <1>0, <1>1 DEF WithField
<1>2. CASE r.rec = "value"
  <2> DEFINE v == IF r.arity = 0 THEN "caf" ELSE "code"
  <2>1. InMemory(r) = WithField(r, "fun", v) /\ "code" \in DOMAIN r
    BY <1>2 DEF InMemory, RecordOK
  <2> HIDE DEF v
  <2>2. QED
    BY <2>1, <1>0, <1>2 DEF WithField
<1>3. CASE r.rec = "code"
  <2> DEFINE c == [k \in DOMAIN r.code |-> WithField(r.code[k], "ptr", NoPtr)]
  <2>1. InMemory(r) = [r EXCEPT !.code = c] /\ "code" \in DOMAIN r
    BY <1>3 DEF InMemory, RecordOK
  <2> HIDE DEF c
  <2>2. InMemory(r).code = c /\ InMemory(r).rec = r.rec /\ "code" \in DOMAIN InMemory(r)
    BY <2>1
  <2>3. QED
    BY <2>2, <1>3 DEF c
<1>4. CASE r.rec \notin {"import", "value", "code"}
  <2>1. InMemory(r) = r
    BY <1>4 DEF InMemory
  <2>2. QED
    BY <2>1, <1>4
<1>5. QED
  BY <1>1, <1>2, <1>3, <1>4

\* A whole file gives a loaded module of its name, in which nothing is resolved.
LEMMA FileLoaded ==
  ASSUME NEW m \in Names, NEW recs, WholeFile(m, recs), NEW new,
         new = [i \in DOMAIN recs |-> InMemory(recs[i])]
  PROVE  /\ LoadedModule(new) /\ NamesModule(new, 2, m)
         /\ Len(new) = Len(recs)
<1>1. IsSeq(recs) /\ Len(recs) \in Nat /\ DOMAIN recs = 1 .. Len(recs)
  BY SeqFacts DEF WholeFile
<1>2. IsSeq(new) /\ Len(new) = Len(recs) /\ DOMAIN new = DOMAIN recs
  <2>1. new = [i \in 1 .. Len(recs) |-> new[i]]
    BY <1>1
  <2>2. QED
    BY <2>1, <1>1, IsSeqOf
<1>3. ASSUME NEW i \in DOMAIN recs
      PROVE  new[i] = InMemory(recs[i]) /\ RecordOK(recs, recs[i])
  BY DEF WholeFile
<1>4. \A i \in DOMAIN recs : /\ new[i].rec = recs[i].rec
                             /\ recs[i].rec \in {"name", "module"} => new[i] = recs[i]
  BY <1>3, KeptFields
<1>5. ASSUME NEW j, NEW n, NamesModule(recs, j, n) PROVE NamesModule(new, j, n)
  BY <1>2, <1>4, <1>5 DEF NamesModule
<1>6. ASSUME NEW i \in DOMAIN new PROVE LoadedRecord(new, new[i])
  <2> DEFINE r == recs[i]
  <2>1. i \in DOMAIN recs /\ RecordOK(recs, r) /\ new[i] = InMemory(r) /\ new[i].rec = r.rec
    BY <1>2, <1>3, <1>4
  <2>2. CASE r.rec = "import"
    <3>1. "fixup" \in DOMAIN new[i] /\ new[i].module = r.module
      BY <2>1, <2>2, KeptFields
    <3>2. PICK n \in Names : NamesModule(recs, r.module, n)
      BY <2>1, <2>2 DEF RecordOK
    <3>3. NamesModule(new, new[i].module, n)
      BY <3>1, <3>2, <1>5
    <3>4. QED
      BY <3>1, <3>3, <2>1, <2>2 DEF LoadedRecord
  <2>3. CASE r.rec = "value"
    <3>0. r.code \in DOMAIN recs /\ recs[r.code].rec = "code"
      BY <2>1, <2>3 DEF RecordOK
    <3>1. new[i].code = r.code
      BY <2>1, <2>3, KeptFields
    <3>2. QED
      BY <3>0, <3>1, <1>2, <1>4, <2>1, <2>3 DEF LoadedRecord
  <2>4. CASE r.rec = "code"
    <3>1. /\ "code" \in DOMAIN new[i]
          /\ new[i].code = [k \in DOMAIN r.code |-> WithField(r.code[k], "ptr", NoPtr)]
      BY <2>1, <2>4, KeptFields
    <3>2. IsSeq(r.code) /\ DOMAIN r.code = 1 .. Len(r.code) /\ Len(r.code) \in Nat
      BY <2>1, <2>4, SeqFacts DEF RecordOK
    <3>3. ASSUME NEW k \in DOMAIN r.code PROVE "ptr" \in DOMAIN WithField(r.code[k], "ptr", NoPtr)
      BY DEF WithField
    <3> DEFINE c == new[i].code
               Init0(k) == WithField(r.code[k], "ptr", NoPtr)
    <3>4. c = [k \in 1 .. Len(r.code) |-> Init0(k)]
      BY <3>1, <3>2
    <3>5. \A k \in 1 .. Len(r.code) : "ptr" \in DOMAIN Init0(k)
      BY <3>2, <3>3
    <3> HIDE DEF c, Init0
    <3>6. c = [k \in 1 .. Len(r.code) |-> c[k]] /\ \A k \in 1 .. Len(r.code) : c[k] = Init0(k)
      BY <3>4
    <3>7. IsSeq(c) /\ DOMAIN c = 1 .. Len(r.code)
      BY <3>2, <3>6, IsSeqOf
    <3>8. \A k \in DOMAIN c : "ptr" \in DOMAIN c[k]
      BY <3>5, <3>6, <3>7
    <3>9. QED
      BY <3>1, <3>7, <3>8, <2>1, <2>4 DEF LoadedRecord, c
  <2>5. CASE r.rec \notin {"import", "value", "code"}
    BY <2>1, <2>5 DEF LoadedRecord
  <2>6. QED
    BY <2>2, <2>3, <2>4, <2>5
<1>7. NamesModule(new, 2, m)
  BY <1>5 DEF WholeFile
<1>8. QED
  BY <1>2, <1>6, <1>7 DEF LoadedModule

\* The name of a loaded module.
LEMMA NameIs ==
  ASSUME NEW recs, NEW m, NamesModule(recs, 2, m)
  PROVE  ModuleName(recs) = m
  BY DEF NamesModule, ModuleName, StringAt

\* One record of one module takes the place of another, of the same kind.
Replaced(m, i, e) ==
  mods' = [mods EXCEPT ![m] = [mods[m] EXCEPT !.recs = [mods[m].recs EXCEPT ![i] = e]]]

\* The other records, and the links of the ring, are left as they are.
LEMMA ReplacedIs ==
  ASSUME ModsInv, NEW m \in DOMAIN mods, NEW i \in DOMAIN mods[m].recs, NEW e, Replaced(m, i, e)
  PROVE  /\ IsSeq(mods') /\ DOMAIN mods' = DOMAIN mods /\ Len(mods') = Len(mods)
         /\ mods'[m].recs[i] = e
         /\ \A n \in DOMAIN mods :
              /\ mods'[n].next = mods[n].next
              /\ "recs" \in DOMAIN mods'[n] /\ "next" \in DOMAIN mods'[n]
              /\ IsSeq(mods'[n].recs) /\ DOMAIN mods'[n].recs = DOMAIN mods[n].recs
              /\ Len(mods'[n].recs) = Len(mods[n].recs)
              /\ \A j \in DOMAIN mods[n].recs : n # m \/ j # i => mods'[n].recs[j] = mods[n].recs[j]
<1> DEFINE rs == [mods[m].recs EXCEPT ![i] = e]
           f == [mods[m] EXCEPT !.recs = rs]
<1>1. IsSeq(mods) /\ \A n \in DOMAIN mods :
        "recs" \in DOMAIN mods[n] /\ "next" \in DOMAIN mods[n] /\ IsSeq(mods[n].recs)
  BY DEF ModsInv, LoadedModule
<1>2. /\ IsSeq(rs) /\ Len(rs) = Len(mods[m].recs) /\ DOMAIN rs = DOMAIN mods[m].recs
      /\ rs[i] = e /\ \A j \in DOMAIN mods[m].recs : j # i => rs[j] = mods[m].recs[j]
  <2>1. Set(rs, mods[m].recs, i, e)
    BY DEF Set
  <2> HIDE DEF rs
  <2>2. QED
    BY <2>1, <1>1, PutIs
<1>3. mods' = [mods EXCEPT ![m] = f]
  BY DEF Replaced
<1> HIDE DEF rs
<1>4. f.recs = rs /\ f.next = mods[m].next /\ "recs" \in DOMAIN f /\ "next" \in DOMAIN f
  BY <1>1
<1> HIDE DEF f
<1>5. /\ IsSeq(mods') /\ Len(mods') = Len(mods) /\ DOMAIN mods' = DOMAIN mods
      /\ mods'[m] = f /\ \A n \in DOMAIN mods : n # m => mods'[n] = mods[n]
  <2>1. Set(mods', mods, m, f)
    BY <1>3 DEF Set
  <2>2. QED
    BY <2>1, <1>1, PutIs
<1>6. QED
  BY <1>1, <1>2, <1>4, <1>5

\* Modules stay loaded when it is an import or code.
LEMMA ReplacedLoaded ==
  ASSUME ModsInv, NEW m \in DOMAIN mods, NEW i \in DOMAIN mods[m].recs, NEW e, Replaced(m, i, e),
         e.rec = mods[m].recs[i].rec, e.rec \in {"import", "code"},
         e.rec = "import" => "fixup" \in DOMAIN e /\ e.module = mods[m].recs[i].module,
         e.rec = "code" => /\ "code" \in DOMAIN e /\ IsSeq(e.code)
                           /\ \A k \in DOMAIN e.code : "ptr" \in DOMAIN e.code[k]
  PROVE  /\ ModsInv'
         /\ \A n \in DOMAIN mods : \A j \in DOMAIN mods[n].recs :
              mods'[n].recs[j].rec = mods[n].recs[j].rec
         /\ \A n \in DOMAIN mods : ModuleName(mods'[n].recs) = ModuleName(mods[n].recs)
<1>1. /\ IsSeq(mods') /\ DOMAIN mods' = DOMAIN mods
      /\ mods'[m].recs[i] = e
      /\ \A n \in DOMAIN mods :
           /\ "recs" \in DOMAIN mods'[n] /\ "next" \in DOMAIN mods'[n]
           /\ IsSeq(mods'[n].recs) /\ DOMAIN mods'[n].recs = DOMAIN mods[n].recs
           /\ \A j \in DOMAIN mods[n].recs : n # m \/ j # i => mods'[n].recs[j] = mods[n].recs[j]
  BY ReplacedIs
<1>2. \A n \in DOMAIN mods : LoadedModule(mods[n].recs)
  BY DEF ModsInv
<1>3. \A n \in DOMAIN mods : \A j \in DOMAIN mods[n].recs :
        /\ mods'[n].recs[j].rec = mods[n].recs[j].rec
        /\ mods[n].recs[j].rec \in {"name", "module"} => mods'[n].recs[j] = mods[n].recs[j]
  BY <1>1
<1>4. ASSUME NEW n \in DOMAIN mods, NEW j, NEW x, NamesModule(mods[n].recs, j, x)
      PROVE  NamesModule(mods'[n].recs, j, x)
  BY <1>1, <1>3, <1>4 DEF NamesModule
<1>5. ASSUME NEW n \in DOMAIN mods, NEW j \in DOMAIN mods[n].recs
      PROVE  LoadedRecord(mods'[n].recs, mods'[n].recs[j])
  <2> DEFINE r == mods[n].recs[j]
             s == mods'[n].recs[j]
  <2>1. LoadedRecord(mods[n].recs, r)
    BY <1>2 DEF LoadedModule
  <2>2. s.rec = r.rec
    BY <1>3
  <2>3. s.rec = "import" => /\ "fixup" \in DOMAIN s
                            /\ \E x \in Names : NamesModule(mods'[n].recs, s.module, x)
    <3> SUFFICES ASSUME s.rec = "import"
                 PROVE  /\ "fixup" \in DOMAIN s
                        /\ \E x \in Names : NamesModule(mods'[n].recs, s.module, x)
      OBVIOUS
    <3>1. s.module = r.module /\ "fixup" \in DOMAIN s
      <4>1. CASE n = m /\ j = i
        BY <4>1, <1>1, <2>2
      <4>2. CASE ~(n = m /\ j = i)
        BY <4>2, <1>1, <2>1, <2>2 DEF LoadedRecord
      <4>3. QED
        BY <4>1, <4>2
    <3>2. PICK x \in Names : NamesModule(mods[n].recs, r.module, x)
      BY <2>1, <2>2 DEF LoadedRecord
    <3>3. QED
      BY <3>1, <3>2, <1>4
  <2>4. s.rec = "value" => s.code \in DOMAIN mods'[n].recs /\ mods'[n].recs[s.code].rec = "code"
    <3> SUFFICES ASSUME s.rec = "value"
                 PROVE  s.code \in DOMAIN mods'[n].recs /\ mods'[n].recs[s.code].rec = "code"
      OBVIOUS
    <3>1. s = r
      BY <1>1, <2>2
    <3>2. r.code \in DOMAIN mods[n].recs /\ mods[n].recs[r.code].rec = "code"
      BY <2>1, <2>2 DEF LoadedRecord
    <3>3. QED
      BY <3>1, <3>2, <1>1, <1>3
  <2>5. s.rec = "code" => /\ "code" \in DOMAIN s /\ IsSeq(s.code)
                          /\ \A k \in DOMAIN s.code : "ptr" \in DOMAIN s.code[k]
    <3>1. CASE n = m /\ j = i
      BY <3>1, <1>1
    <3>2. CASE ~(n = m /\ j = i)
      BY <3>2, <1>1, <2>1, <2>2 DEF LoadedRecord
    <3>3. QED
      BY <3>1, <3>2
  <2> HIDE DEF r, s
  <2>6. LoadedRecord(mods'[n].recs, s)
    BY <2>3, <2>4, <2>5 DEF LoadedRecord
  <2>7. QED
    BY <2>6 DEF s
<1>6. ASSUME NEW n \in DOMAIN mods
      PROVE  LoadedModule(mods'[n].recs) /\ ModuleName(mods'[n].recs) = ModuleName(mods[n].recs)
  <2>1. PICK x \in Names : NamesModule(mods[n].recs, 2, x)
    BY <1>2 DEF LoadedModule
  <2>2. NamesModule(mods'[n].recs, 2, x)
    BY <2>1, <1>4
  <2>3. QED
    BY <2>1, <2>2, <1>1, <1>5, NameIs DEF LoadedModule
<1>7. ModsInv'
  BY <1>1, <1>6 DEF ModsInv, Names
<1>8. QED
  BY <1>3, <1>6, <1>7

-----------------------------------------------------------------------------
(* The ring of modules                                                     *)

\* r lists the modules 1 .. n in the order of the links next, and the last is linked to the first.
IsRing(r, n, next) ==
  /\ r \in [1 .. n -> 1 .. n]
  /\ \A j, k \in 1 .. n : r[j] = r[k] => j = k
  /\ \A m \in 1 .. n : \E k \in 1 .. n : r[k] = m
  /\ \A k \in 1 .. n : next[r[k]] = IF k < n THEN r[k + 1] ELSE r[1]

\* A ring can be read from any of its modules on.
LEMMA RingFrom ==
  ASSUME NEW n \in Nat, NEW next, NEW r, IsRing(r, n, next), NEW m \in 1 .. n
  PROVE  \E s : IsRing(s, n, next) /\ s[1] = m
<1>1. PICK d \in 1 .. n : r[d] = m
  BY DEF IsRing
<1> DEFINE At(k) == IF k + d - 1 <= n THEN k + d - 1 ELSE k + d - 1 - n
           s == [k \in 1 .. n |-> r[At(k)]]
<1>2. \A k \in 1 .. n : At(k) \in 1 .. n
  OBVIOUS
<1>3. \A j, k \in 1 .. n : At(j) = At(k) => j = k
  OBVIOUS
<1>4. ASSUME NEW k \in 1 .. n PROVE \E j \in 1 .. n : At(j) = k
  <2>1. CASE d <= k
    <3>1. k - d + 1 \in 1 .. n /\ At(k - d + 1) = k
      BY <2>1
    <3>2. QED
      BY <3>1
  <2>2. CASE ~(d <= k)
    <3>1. k - d + 1 + n \in 1 .. n /\ At(k - d + 1 + n) = k
      BY <2>2
    <3>2. QED
      BY <3>1
  <2>3. QED
    BY <2>1, <2>2
<1>5. \A k \in 1 .. n : At(IF k < n THEN k + 1 ELSE 1) = IF At(k) < n THEN At(k) + 1 ELSE 1
  OBVIOUS
<1>6. n >= 1 /\ At(1) = d
  OBVIOUS
<1> HIDE DEF At
<1>7. s \in [1 .. n -> 1 .. n]
  BY <1>2 DEF IsRing
<1>8. ASSUME NEW j \in 1 .. n, NEW k \in 1 .. n, s[j] = s[k] PROVE j = k
  <2>1. r[At(j)] = r[At(k)] /\ At(j) \in 1 .. n /\ At(k) \in 1 .. n
    BY <1>2, <1>8
  <2>2. \A x, y \in 1 .. n : r[x] = r[y] => x = y
    BY DEF IsRing
  <2>3. At(j) = At(k)
    BY <2>1, <2>2
  <2>4. QED
    BY <2>3, <1>3
<1>9. ASSUME NEW x \in 1 .. n PROVE \E k \in 1 .. n : s[k] = x
  <2>1. PICK j \in 1 .. n : r[j] = x
    BY DEF IsRing
  <2>2. PICK k \in 1 .. n : At(k) = j
    BY <1>4
  <2>3. QED
    BY <2>1, <2>2
<1>10. ASSUME NEW k \in 1 .. n PROVE next[s[k]] = IF k < n THEN s[k + 1] ELSE s[1]
  <2>1. next[s[k]] = IF At(k) < n THEN r[At(k) + 1] ELSE r[1]
    BY <1>2 DEF IsRing
  <2>2. next[s[k]] = r[IF At(k) < n THEN At(k) + 1 ELSE 1]
    BY <2>1
  <2>3. (IF k < n THEN k + 1 ELSE 1) \in 1 .. n
    BY <1>6
  <2>4. s[IF k < n THEN k + 1 ELSE 1] = r[At(IF k < n THEN k + 1 ELSE 1)]
    BY <2>3
  <2>5. next[s[k]] = s[IF k < n THEN k + 1 ELSE 1]
    BY <2>2, <2>4, <1>5
  <2>6. QED
    BY <2>5
<1>11. s[1] = m
  BY <1>1, <1>6
<1> HIDE DEF s
<1>12. QED
  BY <1>7, <1>8, <1>9, <1>10, <1>11 DEF IsRing

\* A module linked in behind another of the ring.
LEMMA RingGrows ==
  ASSUME NEW n \in Nat, NEW next, NEW r, IsRing(r, n, next), NEW m \in 1 .. n,
         NEW after, after[n + 1] = next[m], after[m] = n + 1,
         \A k \in 1 .. n : k # m => after[k] = next[k]
  PROVE  \E s : IsRing(s, n + 1, after)
<1>1. PICK t : IsRing(t, n, next) /\ t[1] = m
  BY RingFrom
<1>2. n >= 1 /\ n + 1 \in Nat
  OBVIOUS
<1> DEFINE s == [k \in 1 .. n + 1 |-> IF k = 1 THEN m ELSE IF k = 2 THEN n + 1 ELSE t[k - 1]]
<1>3. \A k \in 3 .. n + 1 : k - 1 \in 2 .. n /\ t[k - 1] \in 1 .. n /\ t[k - 1] # m
  <2>1. ASSUME NEW k \in 3 .. n + 1 PROVE k - 1 \in 2 .. n /\ t[k - 1] \in 1 .. n /\ t[k - 1] # m
    <3>1. k - 1 \in 2 .. n /\ k - 1 \in 1 .. n /\ 1 \in 1 .. n /\ k - 1 # 1
      BY <1>2
    <3>2. \A x, y \in 1 .. n : t[x] = t[y] => x = y
      BY <1>1 DEF IsRing
    <3>3. t[k - 1] # t[1]
      BY <3>1, <3>2
    <3>4. t \in [1 .. n -> 1 .. n]
      BY <1>1 DEF IsRing
    <3>5. QED
      BY <3>1, <3>3, <3>4, <1>1
  <2>2. QED
    BY <2>1
<1>4. \A k \in 1 .. n + 1 : k = 1 \/ k = 2 \/ k \in 3 .. n + 1
  OBVIOUS
<1>5. s[1] = m /\ s[2] = n + 1 /\ \A k \in 3 .. n + 1 : s[k] = t[k - 1]
  BY <1>2
<1>6. s \in [1 .. n + 1 -> 1 .. n + 1]
  BY <1>2, <1>3, <1>4
<1> HIDE DEF s
<1>7. ASSUME NEW j \in 1 .. n + 1, NEW k \in 1 .. n + 1, s[j] = s[k] PROVE j = k
  <2>1. \A i \in 3 .. n + 1 : s[i] # m /\ s[i] # n + 1
    BY <1>3, <1>5
  <2>2. CASE j \in 3 .. n + 1 /\ k \in 3 .. n + 1
    <3>1. t[j - 1] = t[k - 1] /\ j - 1 \in 1 .. n /\ k - 1 \in 1 .. n
      BY <2>2, <1>3, <1>5, <1>7
    <3>2. j - 1 = k - 1
      BY <3>1, <1>1 DEF IsRing
    <3>3. QED
      BY <3>2
  <2>3. CASE ~(j \in 3 .. n + 1 /\ k \in 3 .. n + 1)
    BY <2>3, <2>1, <1>4, <1>5, <1>7
  <2>4. QED
    BY <2>2, <2>3
<1>8. ASSUME NEW x \in 1 .. n + 1 PROVE \E k \in 1 .. n + 1 : s[k] = x
  <2>1. CASE x = n + 1
    <3>1. 2 \in 1 .. n + 1
      BY <1>2
    <3>2. QED
      BY <3>1, <2>1, <1>5
  <2>2. CASE x # n + 1
    <3>1. PICK k \in 1 .. n : t[k] = x
      BY <2>2, <1>1 DEF IsRing
    <3>2. CASE k = 1
      <4>1. s[1] = x /\ 1 \in 1 .. n + 1
        BY <3>1, <3>2, <1>1, <1>5
      <4>2. QED
        BY <4>1
    <3>3. CASE k # 1
      <4>1. k + 1 \in 3 .. n + 1 /\ k + 1 \in 1 .. n + 1 /\ (k + 1) - 1 = k
        BY <3>3
      <4>2. s[k + 1] = x
        BY <4>1, <3>1, <1>5
      <4>3. QED
        BY <4>1, <4>2
    <3>4. QED
      BY <3>2, <3>3
  <2>3. QED
    BY <2>1, <2>2
<1>9. ASSUME NEW k \in 1 .. n + 1
      PROVE  after[s[k]] = IF k < n + 1 THEN s[k + 1] ELSE s[1]
  <2>1. CASE k = 1
    BY <2>1, <1>2, <1>5
  <2>2. CASE k = 2
    <3>1. after[s[k]] = IF 1 < n THEN t[2] ELSE t[1]
      <4>1. 1 \in 1 .. n
        BY <1>2
      <4>2. next[t[1]] = IF 1 < n THEN t[1 + 1] ELSE t[1]
        BY <4>1, <1>1 DEF IsRing
      <4>3. QED
        BY <4>2, <2>2, <1>1, <1>5
    <3>2. CASE 1 < n
      <4>1. 3 \in 3 .. n + 1 /\ 3 - 1 = 2
        BY <3>2
      <4>2. s[3] = t[2]
        BY <4>1, <1>5
      <4>3. QED
        BY <4>2, <3>1, <3>2, <2>2
    <3>3. CASE ~(1 < n)
      BY <3>3, <3>1, <2>2, <1>1, <1>2, <1>5
    <3>4. QED
      BY <3>2, <3>3
  <2>3. CASE k \in 3 .. n + 1
    <3>1. k - 1 \in 1 .. n /\ t[k - 1] \in 1 .. n /\ t[k - 1] # m /\ s[k] = t[k - 1]
      BY <2>3, <1>3, <1>5
    <3>2. after[s[k]] = IF k - 1 < n THEN t[(k - 1) + 1] ELSE t[1]
      <4>1. \A x \in 1 .. n : next[t[x]] = IF x < n THEN t[x + 1] ELSE t[1]
        BY <1>1 DEF IsRing
      <4>2. after[s[k]] = next[t[k - 1]]
        BY <3>1
      <4>3. next[t[k - 1]] = IF k - 1 < n THEN t[(k - 1) + 1] ELSE t[1]
        BY <3>1, <4>1
      <4>4. QED
        BY <4>2, <4>3
    <3>3. CASE k < n + 1
      <4>1. k + 1 \in 3 .. n + 1 /\ (k + 1) - 1 = k /\ (k - 1) + 1 = k /\ k - 1 < n
        BY <2>3, <3>3
      <4>2. s[k + 1] = t[k]
        BY <4>1, <1>5
      <4>3. after[s[k]] = t[k]
        BY <3>2, <4>1
      <4>4. QED
        BY <4>2, <4>3, <3>3
    <3>4. CASE ~(k < n + 1)
      BY <3>4, <3>2, <2>3, <1>1, <1>5
    <3>5. QED
      BY <3>3, <3>4
  <2>4. QED
    BY <2>1, <2>2, <2>3, <1>4
<1>10. QED
  BY <1>6, <1>7, <1>8, <1>9 DEF IsRing

\* A module that is linked to itself.
LEMMA RingOfOne ==
  ASSUME NEW next, next[1] = 1
  PROVE  \E s : IsRing(s, 1, next)
<1> DEFINE s == [k \in 1 .. 1 |-> 1]
<1>1. 1 .. 1 = {1}
  OBVIOUS
<1>2. IsRing(s, 1, next)
  BY <1>1 DEF IsRing
<1>3. QED
  BY <1>2

Links == [m \in DOMAIN mods |-> mods[m].next]

\* a is the walk of N steps from m on.
Walks(a, m) == a = [k \in 0 .. Len(mods) |-> IF k = 0 THEN m ELSE mods[a[k - 1]].next]

\* Following the links from a module of a ring lists the ring.
LEMMA RingLists ==
  ASSUME IsSeq(mods), NEW r, IsRing(r, Len(mods), Links), NEW m \in DOMAIN mods, r[1] = m
  PROVE  Ring(m) = r
<1> DEFINE N == Len(mods)
           g == [k \in 0 .. N |-> IF k < N THEN r[k + 1] ELSE m]
           a == CHOOSE f : Walks(f, m)
           len == Min({k \in 1 .. N : a[k] = m} \cup {N})
<1>1. N \in Nat /\ DOMAIN mods = 1 .. N /\ N >= 1
  BY SeqFacts
<1>2. /\ r \in [1 .. N -> 1 .. N]
      /\ \A j, k \in 1 .. N : r[j] = r[k] => j = k
      /\ \A k \in 1 .. N : Links[r[k]] = IF k < N THEN r[k + 1] ELSE r[1]
  BY DEF IsRing
<1>3. \A k \in 1 .. N : mods[r[k]].next = IF k < N THEN r[k + 1] ELSE m
  BY <1>1, <1>2 DEF Links
<1>4. Walks(g, m)
  <2>1. ASSUME NEW k \in 0 .. N PROVE g[k] = IF k = 0 THEN m ELSE mods[g[k - 1]].next
    <3>1. CASE k = 0
      BY <3>1, <1>1
    <3>2. CASE k # 0
      <4>1. k \in 1 .. N /\ k - 1 \in 0 .. N /\ k - 1 < N /\ (k - 1) + 1 = k
        BY <3>2, <1>1
      <4>2. g[k - 1] = r[k]
        BY <4>1
      <4>3. QED
        BY <4>1, <4>2, <3>2, <1>3
    <3>3. QED
      BY <3>1, <3>2
  <2>2. g = [k \in 0 .. N |-> g[k]]
    OBVIOUS
  <2> HIDE DEF g
  <2>3. g = [k \in 0 .. N |-> IF k = 0 THEN m ELSE mods[g[k - 1]].next]
    BY <2>1, <2>2
  <2>4. QED
    BY <2>3 DEF Walks
<1>5. Walks(a, m)
  BY <1>4
<1>6. Ring(m) = [k \in 1 .. len |-> a[k - 1]]
  BY DEF Ring, Walks
<1> HIDE DEF a
<1>7. /\ a = [k \in 0 .. N |-> a[k]]
      /\ \A k \in 0 .. N : a[k] = IF k = 0 THEN m ELSE mods[a[k - 1]].next
  BY <1>5 DEF Walks
<1>8. \A k \in 0 .. N : a[k] = g[k]
  <2> DEFINE G == {k \in 0 .. N : a[k] = g[k]}
  <2>1. 0 \in G
    BY <1>1, <1>7
  <2>2. ASSUME NEW k \in 0 .. N, k < N, k \in G PROVE k + 1 \in G
    <3>1. k + 1 \in 0 .. N /\ k + 1 # 0 /\ (k + 1) - 1 = k
      BY <1>1, <2>2
    <3>2. a[k + 1] = mods[a[k]].next
      BY <3>1, <1>7
    <3>3. g[k + 1] = mods[g[k]].next
      <4>1. g[k] = r[k + 1] /\ k + 1 \in 1 .. N
        BY <1>1, <2>2
      <4>2. QED
        BY <4>1, <3>1, <1>3
    <3>4. QED
      BY <3>1, <3>2, <3>3, <2>2
  <2> HIDE DEF G, g, N
  <2>3. \A k \in 0 .. N : k < N /\ k \in G => k + 1 \in G
    BY <2>2
  <2>4. \A k \in 0 .. N : k \in G
    BY <1>1, <2>1, <2>3, CountUp
  <2>5. QED
    BY <2>4 DEF G
<1>9. \A k \in 1 .. N : k < N => a[k] # m
  <2>1. ASSUME NEW k \in 1 .. N, k < N, a[k] = m PROVE FALSE
    <3>1. a[k] = r[k + 1] /\ k + 1 \in 1 .. N /\ 1 \in 1 .. N /\ k + 1 # 1
      BY <2>1, <1>1, <1>8
    <3>2. QED
      BY <3>1, <2>1, <1>2
  <2>2. QED
    BY <2>1
<1>10. len = N
  <2>1. {k \in 1 .. N : a[k] = m} \cup {N} = {N}
    <3>1. ASSUME NEW k \in 1 .. N, a[k] = m PROVE k = N
      <4>1. ~(k < N)
        BY <3>1, <1>9
      <4>2. k \in 1 .. N /\ N \in Nat
        BY <3>1, <1>1
      <4> HIDE DEF N, a
      <4>3. QED
        BY <4>1, <4>2
    <3>2. QED
      BY <3>1
  <2>2. QED
    BY <2>1, <1>1 DEF Min
<1>11. \A k \in 1 .. N : a[k - 1] = r[k]
  <2>1. ASSUME NEW k \in 1 .. N PROVE a[k - 1] = r[k]
    <3>1. k - 1 \in 0 .. N /\ k - 1 < N /\ (k - 1) + 1 = k
      BY <1>1
    <3>2. QED
      BY <3>1, <1>8
  <2>2. QED
    BY <2>1
<1>12. Ring(m) = [k \in 1 .. N |-> r[k]]
  BY <1>6, <1>10, <1>11
<1>13. QED
  BY <1>2, <1>12

\* What find_module says of a ring: it finds a module of that name, or there is none.
LEMMA ModuleFound ==
  ASSUME IsSeq(mods), \E r : IsRing(r, Len(mods), Links), NEW m \in DOMAIN mods, NEW name
  PROVE  /\ ToSet(Ring(m)) = DOMAIN mods
         /\ find_module(m, name) = 0 => \A n \in DOMAIN mods : Module_name(n) # name
<1>1. Len(mods) \in Nat /\ DOMAIN mods = 1 .. Len(mods)
  BY SeqFacts
<1>2. PICK r : IsRing(r, Len(mods), Links) /\ r[1] = m
  BY <1>1, RingFrom
<1>3. Ring(m) = r
  BY <1>2, RingLists
<1>4. DOMAIN r = 1 .. Len(mods) /\ \A k \in 1 .. Len(mods) : r[k] \in DOMAIN mods
  BY <1>1, <1>2 DEF IsRing
<1>5. \A n \in DOMAIN mods : \E k \in 1 .. Len(mods) : r[k] = n
  BY <1>1, <1>2 DEF IsRing
<1>6. ToSet(Ring(m)) = DOMAIN mods
  BY <1>3, <1>4, <1>5 DEF ToSet
<1>7. ASSUME NEW n \in DOMAIN mods, Module_name(n) = name PROVE find_module(m, name) # 0
  <2> DEFINE named == {k \in DOMAIN r : Module_name(r[k]) = name}
  <2>1. named \in SUBSET Int /\ \A k \in named : 1 <= k
    BY <1>4
  <2>2. named # {}
    BY <1>4, <1>5, <1>7
  <2>3. \E k \in named : \A j \in named : k <= j
    <3> HIDE DEF named
    <3>1. named \in SUBSET Int
      BY <2>1
    <3>2. 1 \in Int /\ \A k \in named : 1 <= k
      BY <2>1
    <3>3. QED
      BY <2>2, <3>1, <3>2, SmallestInteger
  <2>4. Min(named) \in named
    <3> HIDE DEF named
    <3>1. QED
      BY <2>3 DEF Min
  <2>5. r[Min(named)] \in DOMAIN mods
    BY <2>4, <1>4
  <2>6. find_module(m, name) = r[Min(named)]
    BY <1>3, <2>2 DEF find_module
  <2>7. QED
    BY <2>5, <2>6, <1>1
<1>8. QED
  BY <1>6, <1>7

-----------------------------------------------------------------------------
(* The inductive invariant                                                 *)

TypesInv ==
  /\ phase \in {"building", "loading", "resolving", "loaded", "running", "collected",
                "closing", "done", "failed"}
  /\ why \in {NoName, "file", "symbol", "library", "circular", "kind", "size", "main"}
  /\ fixed \in BOOLEAN

RingInv == \E r : IsRing(r, Len(mods), Links)

NamesInv == \A m, n \in DOMAIN mods : Module_name(m) = Module_name(n) => m = n

\* Every module has at most one active call; there is one as long as modules are read.
CallsInv ==
  /\ IsSeq(calls)
  /\ \A k \in DOMAIN calls :
       /\ "i" \in DOMAIN calls[k] /\ "got" \in DOMAIN calls[k]
       /\ calls[k].m \in DOMAIN mods
       /\ calls[k].i \in 1 .. Len(mods[calls[k].m].recs) + 1
  /\ \A k, l \in DOMAIN calls : calls[k].m = calls[l].m => k = l
  /\ phase = "building" => Len(mods) = 0 /\ Len(calls) = 0 /\ symbols = {}
  /\ phase = "loading" => Len(calls) > 0
  /\ phase \in {"resolving", "loaded", "running"} => Len(calls) = 0

\* An import without a fixup is one that an active call is still to come to.
FixupInv ==
  \A m \in DOMAIN mods : \A i \in DOMAIN mods[m].recs :
    mods[m].recs[i].rec = "import" /\ mods[m].recs[i].fixup = NoPtr
      => \E k \in DOMAIN calls : calls[k].m = m /\ calls[k].i <= i

\* The instructions of a record, and of a module, have their pointers.
HasPtrs(r) == r.rec = "code" => \A k \in DOMAIN r.code : r.code[k].ptr # NoPtr
AllPtrs(m) == \A i \in DOMAIN mods[m].recs : HasPtrs(mods[m].recs[i])

\* The code of the modules that the ring has before at.m, and of this one up to at, is resolved.
ResolvedTo(r, p) ==
  /\ IsRing(r, Len(mods), Links) /\ r[1] = 1
  /\ p \in 1 .. Len(mods) /\ r[p] = at.m
  /\ \A q \in 1 .. Len(mods) : q < p => AllPtrs(r[q])

ResolvedHere ==
  \A i \in DOMAIN mods[at.m].recs :
    /\ i < at.i => HasPtrs(mods[at.m].recs[i])
    /\ i = at.i /\ mods[at.m].recs[i].rec = "code" =>
         \A k \in DOMAIN mods[at.m].recs[i].code :
           k < at.k => mods[at.m].recs[i].code[k].ptr # NoPtr

AtInv ==
  /\ at.m \in Nat \ {0} /\ at.i \in Nat \ {0} /\ at.k \in Nat \ {0}
  /\ {"m", "i", "k", "ptr"} \subseteq DOMAIN at
  /\ phase \in {"building", "loading"} => at.m = 1 /\ at.i = 1 /\ at.k = 1
  /\ phase = "resolving" => ResolvedHere /\ \E r, p : ResolvedTo(r, p)
  /\ phase \in {"loaded", "running"} => \A m \in DOMAIN mods : AllPtrs(m)

\* The symbols of a library.
SymbolsOf(p) == {s \in symbols : s[3] = p}

\* Symbols are of records that have been passed, their libraries are on the list and
\* count them.
SymbolsInv ==
  /\ IsFiniteSet(symbols)
  /\ \A s \in symbols : /\ s[1] \in DOMAIN mods /\ s[2] \in Nat
                        /\ \A k \in DOMAIN calls : calls[k].m = s[1] => s[2] < calls[k].i
  /\ phase \notin {"closing", "done"} =>
       \A s \in symbols : \E i \in DOMAIN libs : libs[i].path = s[3]
  /\ phase \notin {"failed", "closing", "done"} =>
       \A i \in DOMAIN libs : libs[i].refcount = Cardinality(SymbolsOf(libs[i].path))
  /\ phase = "done" => libs = <<>>

\* The invariant.
LinkInv ==
  /\ FilesOK /\ TypesInv /\ ModsInv /\ RingInv /\ NamesInv /\ CallsInv /\ FixupInv
  /\ AtInv /\ LibsInv /\ SymbolsInv

\* The active call, while modules are read.
LEMMA ActiveCall ==
  ASSUME LinkInv, phase = "loading"
  PROVE  /\ Len(calls) \in DOMAIN calls /\ Call.m \in DOMAIN mods
         /\ Call.i \in Nat \ {0} /\ Call.i <= Len(mods[Call.m].recs) + 1
         /\ IsSeq(mods[Call.m].recs) /\ Len(mods[Call.m].recs) \in Nat
         /\ DOMAIN mods[Call.m].recs = 1 .. Len(mods[Call.m].recs)
         /\ "i" \in DOMAIN Call /\ "got" \in DOMAIN Call
<1>1. IsSeq(calls) /\ Len(calls) > 0
  BY DEF LinkInv, CallsInv
<1>2. Len(calls) \in DOMAIN calls
  BY <1>1, SeqFacts
<1>3. /\ Call.m \in DOMAIN mods /\ Call.i \in 1 .. Len(mods[Call.m].recs) + 1
      /\ "i" \in DOMAIN Call /\ "got" \in DOMAIN Call
  BY <1>2 DEF LinkInv, CallsInv, Call
<1>4. IsSeq(mods[Call.m].recs)
  BY <1>3 DEF LinkInv, ModsInv, LoadedModule
<1>5. /\ Len(mods[Call.m].recs) \in Nat
      /\ DOMAIN mods[Call.m].recs = 1 .. Len(mods[Call.m].recs)
  BY <1>4, SeqFacts
<1>6. QED
  BY <1>2, <1>3, <1>4, <1>5

\* Nothing but the phase changes when loading fails, and perhaps the list of libraries.
LEMMA FailsKeeps ==
  ASSUME LinkInv, phase \notin {"closing", "done"},
         NEW reason \in {"file", "symbol", "library", "circular", "kind", "size", "main"},
         Fails(reason), LibsInv',
         \A i \in DOMAIN libs : \E j \in DOMAIN libs' : libs'[j].path = libs[i].path
  PROVE  LinkInv'
<1>1. /\ phase' = "failed" /\ why' = reason
      /\ files' = files /\ mods' = mods /\ calls' = calls /\ at' = at
      /\ symbols' = symbols /\ fixed' = fixed
  BY DEF Fails, buildVars, linkVars
<1>2. FilesOK'
  BY <1>1 DEF LinkInv, FilesOK
<1>3. TypesInv'
  BY <1>1 DEF LinkInv, TypesInv
<1>4. ModsInv' /\ RingInv'
  BY <1>1 DEF LinkInv, ModsInv, RingInv, Links
<1>5. NamesInv'
  BY <1>1 DEF LinkInv, NamesInv, Module_name
<1>6. CallsInv' /\ FixupInv'
  BY <1>1 DEF LinkInv, CallsInv, FixupInv
<1>7. AtInv'
  BY <1>1 DEF LinkInv, AtInv
<1>8. SymbolsInv'
  BY <1>1 DEF LinkInv, SymbolsInv
<1>9. QED
  BY <1>2, <1>3, <1>4, <1>5, <1>6, <1>7, <1>8 DEF LinkInv

\* Loading fails, and the list of libraries stays.
LEMMA FailsAlone ==
  ASSUME LinkInv, phase \notin {"closing", "done"},
         NEW reason \in {"file", "symbol", "library", "circular", "kind", "size", "main"},
         Fails(reason), UNCHANGED <<libs, handles>>
  PROVE  LinkInv'
<1>1. LibsInv'
  BY DEF LinkInv, LibsInv, Libs!PathOf
<1>2. \A i \in DOMAIN libs : \E j \in DOMAIN libs' : libs'[j].path = libs[i].path
  OBVIOUS
<1>3. QED
  BY <1>1, <1>2, FailsKeeps

-----------------------------------------------------------------------------
(* Reading modules                                                         *)

\* The active call goes on to the record j: what it passes is no import, or has its fixup.
LEMMA Advances ==
  ASSUME LinkInv, phase = "loading", NEW e, NEW j \in Nat,
         Call.i < j, j <= Len(mods[Call.m].recs) + 1,
         e.m = Call.m, e.i = j, "i" \in DOMAIN e, "got" \in DOMAIN e,
         calls' = [calls EXCEPT ![Len(calls)] = e],
         DOMAIN mods' = DOMAIN mods,
         \A n \in DOMAIN mods : Len(mods'[n].recs) = Len(mods[n].recs)
  PROVE  /\ IsSeq(calls') /\ DOMAIN calls' = DOMAIN calls /\ Len(calls') = Len(calls)
         /\ \A k \in DOMAIN calls :
              /\ calls'[k].m = calls[k].m
              /\ calls'[k].i = IF k = Len(calls) THEN j ELSE calls[k].i
              /\ "i" \in DOMAIN calls'[k] /\ "got" \in DOMAIN calls'[k]
              /\ calls'[k].i \in 1 .. Len(mods'[calls'[k].m].recs) + 1
              /\ calls'[k].i >= calls[k].i
<1>1. IsSeq(calls) /\ Len(calls) \in DOMAIN calls
  BY ActiveCall DEF LinkInv, CallsInv
<1>2. /\ IsSeq(calls') /\ DOMAIN calls' = DOMAIN calls /\ Len(calls') = Len(calls)
      /\ calls'[Len(calls)] = e /\ \A k \in DOMAIN calls : k # Len(calls) => calls'[k] = calls[k]
  <2>1. Set(calls', calls, Len(calls), e)
    BY DEF Set
  <2>2. QED
    BY <2>1, <1>1, PutIs
<1>3. \A k \in DOMAIN calls :
        /\ "i" \in DOMAIN calls[k] /\ "got" \in DOMAIN calls[k]
        /\ calls[k].m \in DOMAIN mods /\ calls[k].i \in 1 .. Len(mods[calls[k].m].recs) + 1
  BY DEF LinkInv, CallsInv
<1>4. \A n \in DOMAIN mods : Len(mods[n].recs) \in Nat
  <2>1. \A n \in DOMAIN mods : IsSeq(mods[n].recs)
    BY DEF LinkInv, ModsInv, LoadedModule
  <2>2. QED
    BY <2>1, SeqFacts
<1>5. Call = calls[Len(calls)] /\ Call.i \in Nat \ {0}
  BY ActiveCall DEF Call
<1>6. ASSUME NEW k \in DOMAIN calls
      PROVE  /\ calls'[k].m = calls[k].m
             /\ calls'[k].i = IF k = Len(calls) THEN j ELSE calls[k].i
             /\ "i" \in DOMAIN calls'[k] /\ "got" \in DOMAIN calls'[k]
             /\ calls'[k].i \in 1 .. Len(mods'[calls'[k].m].recs) + 1
             /\ calls'[k].i >= calls[k].i
  <2>1. calls[k].m \in DOMAIN mods /\ Len(mods[calls[k].m].recs) \in Nat
        /\ Len(mods'[calls[k].m].recs) = Len(mods[calls[k].m].recs)
    BY <1>3, <1>4
  <2>2. CASE k = Len(calls)
    BY <2>1, <2>2, <1>2, <1>5
  <2>3. CASE k # Len(calls)
    BY <2>1, <2>3, <1>2, <1>3
  <2>4. QED
    BY <2>2, <2>3
<1>7. QED
  BY <1>2, <1>6

\* What NextRecord does to the active call.
LEMMA NextRecordIs ==
  ASSUME LinkInv, phase = "loading", NextRecord
  PROVE  \E e : /\ e.m = Call.m /\ e.i = Call.i + 1 /\ "i" \in DOMAIN e /\ "got" \in DOMAIN e
                /\ calls' = [calls EXCEPT ![Len(calls)] = e]
<1> DEFINE e == [Call EXCEPT !.i = @ + 1, !.got = 0]
<1>1. "i" \in DOMAIN Call /\ "got" \in DOMAIN Call /\ Len(calls) \in DOMAIN calls
  BY ActiveCall
<1>2. e.m = Call.m /\ e.i = Call.i + 1 /\ "i" \in DOMAIN e /\ "got" \in DOMAIN e
  BY <1>1
<1>3. calls' = [calls EXCEPT ![Len(calls)] = e]
  BY <1>1 DEF NextRecord, Call
<1> HIDE DEF e
<1>4. QED
  BY <1>2, <1>3

\* What is passed over: no import among the records from the call on, up to j.
LEMMA PassKeeps ==
  ASSUME LinkInv, phase = "loading", phase' = "loading", NEW e, NEW j \in Nat,
         Call.i < j, j <= Len(mods[Call.m].recs) + 1,
         e.m = Call.m, e.i = j, "i" \in DOMAIN e, "got" \in DOMAIN e,
         calls' = [calls EXCEPT ![Len(calls)] = e],
         \A i \in DOMAIN mods[Call.m].recs :
           Call.i <= i /\ i < j => mods[Call.m].recs[i].rec # "import",
         UNCHANGED <<files, why, mods, at, fixed>>
  PROVE  /\ FilesOK' /\ TypesInv' /\ ModsInv' /\ RingInv' /\ NamesInv' /\ CallsInv' /\ FixupInv'
         /\ AtInv'
         /\ DOMAIN calls' = DOMAIN calls
         /\ \A k \in DOMAIN calls : calls'[k].m = calls[k].m /\ calls'[k].i >= calls[k].i
         /\ \A k \in DOMAIN calls : calls[k].m = Call.m => calls'[k].i = j
<1>0. DOMAIN mods' = DOMAIN mods /\ \A n \in DOMAIN mods : Len(mods'[n].recs) = Len(mods[n].recs)
  OBVIOUS
<1>1. /\ IsSeq(calls') /\ DOMAIN calls' = DOMAIN calls /\ Len(calls') = Len(calls)
      /\ \A k \in DOMAIN calls :
           /\ calls'[k].m = calls[k].m
           /\ calls'[k].i = IF k = Len(calls) THEN j ELSE calls[k].i
           /\ "i" \in DOMAIN calls'[k] /\ "got" \in DOMAIN calls'[k]
           /\ calls'[k].i \in 1 .. Len(mods'[calls'[k].m].recs) + 1
           /\ calls'[k].i >= calls[k].i
  BY <1>0, Advances
<1>2. Len(calls) \in DOMAIN calls /\ Call = calls[Len(calls)]
      /\ DOMAIN mods[Call.m].recs = 1 .. Len(mods[Call.m].recs)
  BY ActiveCall DEF Call
<1>3. \A k, l \in DOMAIN calls : calls[k].m = calls[l].m => k = l
  BY DEF LinkInv, CallsInv
<1>4. FilesOK' /\ TypesInv'
  BY DEF LinkInv, FilesOK, TypesInv
<1>5. ModsInv' /\ RingInv'
  BY DEF LinkInv, ModsInv, RingInv, Links
<1>6. NamesInv'
  BY DEF LinkInv, NamesInv, Module_name
<1>7. CallsInv'
  <2>1. \A k \in DOMAIN calls' : /\ "i" \in DOMAIN calls'[k] /\ "got" \in DOMAIN calls'[k]
                                 /\ calls'[k].m \in DOMAIN mods'
                                 /\ calls'[k].i \in 1 .. Len(mods'[calls'[k].m].recs) + 1
    BY <1>0, <1>1 DEF LinkInv, CallsInv
  <2>2. \A k, l \in DOMAIN calls' : calls'[k].m = calls'[l].m => k = l
    BY <1>1, <1>3
  <2>3. Len(calls') > 0
    BY <1>1 DEF LinkInv, CallsInv
  <2>4. QED
    BY <1>1, <2>1, <2>2, <2>3 DEF CallsInv
<1>8. FixupInv'
  <2>1. ASSUME NEW m \in DOMAIN mods, NEW i \in DOMAIN mods[m].recs,
               mods[m].recs[i].rec = "import", mods[m].recs[i].fixup = NoPtr
        PROVE  \E k \in DOMAIN calls' : calls'[k].m = m /\ calls'[k].i <= i
    <3>1. PICK k \in DOMAIN calls : calls[k].m = m /\ calls[k].i <= i
      BY <2>1 DEF LinkInv, FixupInv
    <3>2. CASE k = Len(calls)
      <4>1. m = Call.m /\ Call.i <= i /\ i \in 1 .. Len(mods[m].recs)
        BY <3>1, <3>2, <1>2
      <4>2. ~(i < j)
        BY <4>1, <2>1
      <4>3. j <= i /\ calls'[k].i = j /\ calls'[k].m = m
        BY <4>1, <4>2, <3>1, <3>2, <1>1
      <4>4. QED
        BY <4>3, <1>1
    <3>3. CASE k # Len(calls)
      BY <3>1, <3>3, <1>1
    <3>4. QED
      BY <3>2, <3>3
  <2>2. QED
    BY <2>1 DEF FixupInv
<1>9. AtInv'
  BY DEF LinkInv, AtInv
<1>10. \A k \in DOMAIN calls : calls[k].m = Call.m => calls'[k].i = j
  BY <1>1, <1>2, <1>3
<1>11. QED
  BY <1>1, <1>4, <1>5, <1>6, <1>7, <1>8, <1>9, <1>10

\* The same when no library and no symbol changes.
LEMMA PassAlone ==
  ASSUME LinkInv, phase = "loading", phase' = "loading", NEW e, NEW j \in Nat,
         Call.i < j, j <= Len(mods[Call.m].recs) + 1,
         e.m = Call.m, e.i = j, "i" \in DOMAIN e, "got" \in DOMAIN e,
         calls' = [calls EXCEPT ![Len(calls)] = e],
         \A i \in DOMAIN mods[Call.m].recs :
           Call.i <= i /\ i < j => mods[Call.m].recs[i].rec # "import",
         UNCHANGED <<files, why, mods, at, fixed, symbols, libs, handles>>
  PROVE  LinkInv'
<1>1. /\ FilesOK' /\ TypesInv' /\ ModsInv' /\ RingInv' /\ NamesInv' /\ CallsInv' /\ FixupInv' /\ AtInv'
      /\ DOMAIN calls' = DOMAIN calls
      /\ \A k \in DOMAIN calls : calls'[k].m = calls[k].m /\ calls'[k].i >= calls[k].i
  BY PassKeeps
<1>2. LibsInv'
  BY DEF LinkInv, LibsInv, Libs!PathOf
<1>3. SymbolsInv'
  <2>1. \A s \in symbols : \A k \in DOMAIN calls' : calls'[k].m = s[1] => s[2] < calls'[k].i
    <3>1. ASSUME NEW s \in symbols, NEW k \in DOMAIN calls, calls[k].m = s[1] PROVE s[2] < calls'[k].i
      <4>1. s[2] \in Nat /\ s[2] < calls[k].i
        BY <3>1 DEF LinkInv, SymbolsInv
      <4>2. calls[k].i \in Int /\ calls'[k].i \in Int
        <5>1. calls[k].i \in 1 .. Len(mods[calls[k].m].recs) + 1
          BY DEF LinkInv, CallsInv
        <5>2. calls'[k].i \in 1 .. Len(mods'[calls'[k].m].recs) + 1
          BY <1>1 DEF CallsInv
        <5>3. QED
          BY <5>1, <5>2
      <4>3. calls'[k].i >= calls[k].i
        BY <1>1
      <4>4. QED
        BY <4>1, <4>2, <4>3
    <3>2. QED
      BY <3>1, <1>1
  <2>2. QED
    BY <2>1 DEF LinkInv, SymbolsInv, SymbolsOf
<1>4. QED
  BY <1>1, <1>2, <1>3 DEF LinkInv

\* resolve_external_records passes the records that are neither imports nor externals.
LEMMA SkipKeeps ==
  ASSUME LinkInv, SkipRecord PROVE LinkInv'
<1> DEFINE recs == mods[Call.m].recs
           rest == {i \in Call.i .. Len(recs) : recs[i].rec \in {"import", "extern"}}
           S == rest \cup {Len(recs) + 1}
           j == Min(S)
           e == [Call EXCEPT !.i = j]
<1>1. /\ phase = "loading" /\ Call.i <= Len(recs) /\ recs[Call.i].rec \notin {"import", "extern"}
      /\ calls' = [calls EXCEPT ![Len(calls)].i = j]
      /\ phase' = "loading" /\ UNCHANGED <<files, why, mods, at, fixed, symbols, libs, handles>>
  BY DEF SkipRecord, Record, buildVars, exitVars
<1>2. /\ Len(calls) \in DOMAIN calls /\ Call.i \in Nat \ {0} /\ Len(recs) \in Nat
      /\ DOMAIN recs = 1 .. Len(recs) /\ "i" \in DOMAIN Call /\ "got" \in DOMAIN Call
  BY <1>1, ActiveCall
<1>3. j \in S /\ \A i \in S : j <= i
  <2>1. S \in SUBSET Nat /\ S # {}
    BY <1>2
  <2> HIDE DEF S
  <2>2. \E x \in S : \A y \in S : x <= y
    BY <2>1, SmallestNumber
  <2>3. QED
    BY <2>2 DEF Min
<1> HIDE DEF j
<1>4. j \in Nat /\ Call.i < j /\ j <= Len(recs) + 1
  <2>1. j \in Nat /\ Call.i <= j /\ j <= Len(recs) + 1
    <3>1. Call.i <= Len(recs) + 1
      BY <1>1, <1>2
    <3> HIDE DEF recs
    <3>2. S \subseteq Call.i .. Len(recs) + 1
      BY <3>1, <1>2
    <3> HIDE DEF S, rest
    <3>3. QED
      BY <3>2, <1>2, <1>3
  <2>2. j # Call.i
    <3>1. CASE j \in rest
      BY <3>1, <1>1
    <3>2. CASE j = Len(recs) + 1
      <4> HIDE DEF recs
      <4>1. QED
        BY <3>2, <1>1, <1>2
    <3>3. QED
      BY <3>1, <3>2, <1>3
  <2> HIDE DEF recs, S, rest
  <2>3. QED
    BY <2>1, <2>2, <1>2
<1>5. \A i \in DOMAIN recs : Call.i <= i /\ i < j => recs[i].rec # "import"
  <2>1. ASSUME NEW i \in DOMAIN recs, Call.i <= i, i < j, recs[i].rec = "import" PROVE FALSE
    <3>1. i \in S
      BY <2>1, <1>2
    <3>2. j <= i
      BY <3>1, <1>3
    <3>3. i \in Nat /\ i < j
      BY <2>1, <1>2
    <3>4. QED
      BY ONLY <1>4, <3>2, <3>3
  <2>2. QED
    BY <2>1
<1>6. e.m = Call.m /\ e.i = j /\ "i" \in DOMAIN e /\ "got" \in DOMAIN e
  BY <1>2
<1>7. calls' = [calls EXCEPT ![Len(calls)] = e]
  BY <1>1, <1>2 DEF Call
<1> HIDE DEF e, S, rest
<1>8. QED
  BY <1>1, <1>4, <1>5, <1>6, <1>7, PassAlone

\* An external function of the runtime is found or loading fails (load_static_symbol).
LEMMA StaticKeeps ==
  ASSUME LinkInv, ResolveStatic PROVE LinkInv'
<1>1. phase = "loading" /\ Call.i <= Len(mods[Call.m].recs) /\ Record.rec = "extern"
  BY DEF ResolveStatic, AtRecord
<1>2. CASE Fails("library") /\ UNCHANGED <<libs, handles>>
  BY <1>1, <1>2, FailsAlone
<1>3. CASE NextRecord /\ UNCHANGED <<buildVars, phase, why, mods, at, entry, exitVars>>
  <2>1. PICK e : /\ e.m = Call.m /\ e.i = Call.i + 1 /\ "i" \in DOMAIN e /\ "got" \in DOMAIN e
                 /\ calls' = [calls EXCEPT ![Len(calls)] = e]
    BY <1>1, <1>3, NextRecordIs
  <2>2. phase' = "loading" /\ UNCHANGED <<files, why, mods, at, fixed, symbols, libs, handles>>
    BY <1>1, <1>3 DEF buildVars, exitVars
  <2> DEFINE j == Call.i + 1
  <2>3. /\ Call.i \in Nat \ {0} /\ Len(mods[Call.m].recs) \in Nat
        /\ DOMAIN mods[Call.m].recs = 1 .. Len(mods[Call.m].recs)
    BY <1>1, ActiveCall
  <2>4. j \in Nat /\ Call.i < j /\ j <= Len(mods[Call.m].recs) + 1 /\ e.i = j
    BY <1>1, <2>1, <2>3
  <2>5. \A i \in DOMAIN mods[Call.m].recs :
          Call.i <= i /\ i < j => mods[Call.m].recs[i].rec # "import"
    <3>1. \A i \in DOMAIN mods[Call.m].recs : Call.i <= i /\ i < j => i = Call.i
      BY <2>3
    <3>2. QED
      BY <3>1, <1>1 DEF Record
  <2> HIDE DEF j
  <2>6. QED
    BY <1>1, <2>1, <2>2, <2>4, <2>5, PassAlone
<1>4. QED
  BY <1>2, <1>3 DEF ResolveStatic

\* An external function of a library adds a symbol that the library counts (load_dynamic_symbol).
LEMMA DynamicKeeps ==
  ASSUME LinkInv, ResolveDynamic PROVE LinkInv'
<1>1. phase = "loading" /\ Call.i <= Len(mods[Call.m].recs) /\ Record.rec = "extern"
  BY DEF ResolveDynamic, AtRecord
<1>2. CASE Fails("library") /\ UNCHANGED <<libs, handles>>
  BY <1>1, <1>2, FailsAlone
<1> DEFINE p == Libs!LibOf(LibName)
           t == <<Call.m, Call.i, p>>
<1>3. CASE Libs!CanOpen(LibName) /\ Libs!dynamic_open(LibName)
  <2>1. /\ LibsInv'
        /\ \E j \in DOMAIN libs' : libs'[j].path = p
        /\ \A i \in DOMAIN libs : \E j \in DOMAIN libs' : libs'[j].path = libs[i].path
        /\ \A j \in DOMAIN libs' :
             \/ \E i \in DOMAIN libs :
                  /\ libs[i].path = libs'[j].path
                  /\ libs'[j].refcount = libs[i].refcount + IF libs[i].path = p THEN 1 ELSE 0
             \/ /\ libs'[j].path = p /\ libs'[j].refcount = 1
                /\ \A i \in DOMAIN libs : libs[i].path # p
    <3>1. LibsInv
      BY DEF LinkInv
    <3>2. QED
      BY <3>1, <1>3, OpenCounts
  <2> HIDE DEF p
  <2>2. CASE Fails("library")
    BY <2>1, <2>2, <1>1, FailsKeeps
  <2>3. CASE /\ symbols' = symbols \cup {t} /\ NextRecord
             /\ UNCHANGED <<buildVars, phase, why, mods, at, entry, fixed>>
    <3>1. PICK e : /\ e.m = Call.m /\ e.i = Call.i + 1 /\ "i" \in DOMAIN e /\ "got" \in DOMAIN e
                   /\ calls' = [calls EXCEPT ![Len(calls)] = e]
      BY <1>1, <2>3, NextRecordIs
    <3>2. phase' = "loading" /\ UNCHANGED <<files, why, mods, at, fixed>>
      BY <1>1, <2>3 DEF buildVars
    <3> DEFINE j == Call.i + 1
    <3>3. /\ Call.i \in Nat \ {0} /\ Len(mods[Call.m].recs) \in Nat /\ Call.m \in DOMAIN mods
          /\ DOMAIN mods[Call.m].recs = 1 .. Len(mods[Call.m].recs)
          /\ Len(calls) \in DOMAIN calls
      BY <1>1, ActiveCall
    <3>4. j \in Nat /\ Call.i < j /\ j <= Len(mods[Call.m].recs) + 1 /\ e.i = j
      BY <1>1, <3>1, <3>3
    <3>5. \A i \in DOMAIN mods[Call.m].recs :
            Call.i <= i /\ i < j => mods[Call.m].recs[i].rec # "import"
      <4>1. \A i \in DOMAIN mods[Call.m].recs : Call.i <= i /\ i < j => i = Call.i
        BY <3>3
      <4>2. QED
        BY <4>1, <1>1 DEF Record
    <3>6. /\ FilesOK' /\ TypesInv' /\ ModsInv' /\ RingInv' /\ NamesInv' /\ CallsInv' /\ FixupInv' /\ AtInv'
          /\ DOMAIN calls' = DOMAIN calls
          /\ \A k \in DOMAIN calls : calls'[k].m = calls[k].m /\ calls'[k].i >= calls[k].i
          /\ \A k \in DOMAIN calls : calls[k].m = Call.m => calls'[k].i = j
      <4> HIDE DEF j
      <4>1. QED
        BY <1>1, <3>1, <3>2, <3>4, <3>5, PassKeeps
    <3>7. IsFiniteSet(symbols) /\ IsFiniteSet(symbols')
      <4>1. IsFiniteSet(symbols)
        BY DEF LinkInv, SymbolsInv
      <4>2. QED
        BY <4>1, <2>3, FS_AddElement
    <3>8. t[1] = Call.m /\ t[2] = Call.i /\ t[3] = p
      OBVIOUS
    <3>9. t \notin symbols
      <4>1. \A s \in symbols : s[2] \in Nat /\ (Call.m = s[1] => s[2] < Call.i)
        BY <3>3 DEF LinkInv, SymbolsInv, Call
      <4>2. QED
        BY <4>1, <3>3, <3>8
    <3> HIDE DEF t
    <3>10. \A s \in symbols' : /\ s[1] \in DOMAIN mods' /\ s[2] \in Nat
                               /\ \A k \in DOMAIN calls' : calls'[k].m = s[1] => s[2] < calls'[k].i
      <4>1. ASSUME NEW s \in symbols'
            PROVE  s[1] \in DOMAIN mods' /\ s[2] \in Nat
                   /\ \A k \in DOMAIN calls' : calls'[k].m = s[1] => s[2] < calls'[k].i
        <5>1. CASE s = t
          BY <5>1, <3>2, <3>3, <3>4, <3>6, <3>8
        <5>2. CASE s # t
          <6>1. s \in symbols
            BY <5>2, <2>3
          <6>2. s[1] \in DOMAIN mods /\ s[2] \in Nat
                /\ \A k \in DOMAIN calls : calls[k].m = s[1] => s[2] < calls[k].i
            BY <6>1 DEF LinkInv, SymbolsInv
          <6>3. ASSUME NEW k \in DOMAIN calls' PROVE calls[k].i \in Int /\ calls'[k].i \in Int
            <7>1. calls[k].i \in 1 .. Len(mods[calls[k].m].recs) + 1
              BY <3>6 DEF LinkInv, CallsInv
            <7>2. calls'[k].i \in 1 .. Len(mods'[calls'[k].m].recs) + 1
              BY <3>6 DEF CallsInv
            <7>3. QED
              BY <7>1, <7>2
          <6>4. ASSUME NEW k \in DOMAIN calls', calls'[k].m = s[1] PROVE s[2] < calls'[k].i
            <7>1. s[2] < calls[k].i /\ calls'[k].i >= calls[k].i
              BY <6>2, <6>4, <3>6
            <7>2. QED
              BY <7>1, <6>2, <6>3
          <6>5. QED
            BY <6>2, <6>4, <3>2
        <5>3. QED
          BY <5>1, <5>2
      <4>2. QED
        BY <4>1
    <3>11. \A s \in symbols' : \E i \in DOMAIN libs' : libs'[i].path = s[3]
      <4>1. \A s \in symbols : \E i \in DOMAIN libs : libs[i].path = s[3]
        BY <1>1 DEF LinkInv, SymbolsInv
      <4>2. QED
        BY <4>1, <2>1, <2>3, <3>8
    <3>12. ASSUME NEW i \in DOMAIN libs'
           PROVE  libs'[i].refcount = Cardinality({s \in symbols' : s[3] = libs'[i].path})
      <4> DEFINE q == libs'[i].path
                 T == {s \in symbols' : s[3] = q}
      <4>1. IsFiniteSet(SymbolsOf(q)) /\ Cardinality(SymbolsOf(q)) \in Nat
        BY <3>7, FS_Subset, FS_CardinalityType DEF SymbolsOf
      <4>2. CASE q = p
        <5>1. T = SymbolsOf(q) \cup {t} /\ t \notin SymbolsOf(q)
          BY <4>2, <2>3, <3>8, <3>9 DEF SymbolsOf
        <5>2. Cardinality(T) = Cardinality(SymbolsOf(q)) + 1
          BY <5>1, <4>1, FS_AddElement
        <5>3. CASE \E k \in DOMAIN libs : /\ libs[k].path = libs'[i].path
                                          /\ libs'[i].refcount = libs[k].refcount + 1
          BY <5>3, <5>2, <1>1 DEF LinkInv, SymbolsInv
        <5>4. CASE libs'[i].refcount = 1 /\ \A k \in DOMAIN libs : libs[k].path # p
          <6>1. SymbolsOf(q) = {}
            BY <5>4, <4>2, <1>1 DEF LinkInv, SymbolsInv, SymbolsOf
          <6>2. QED
            BY <6>1, <5>2, <5>4, FS_EmptySet
        <5>5. QED
          BY <5>3, <5>4, <2>1, <4>2
      <4>3. CASE q # p
        <5>1. T = SymbolsOf(q)
          BY <4>3, <2>3, <3>8 DEF SymbolsOf
        <5>2. PICK k \in DOMAIN libs : libs[k].path = q /\ libs'[i].refcount = libs[k].refcount + 0
          BY <2>1, <4>3
        <5>3. libs[k].refcount = Cardinality(SymbolsOf(q))
          BY <5>2, <1>1 DEF LinkInv, SymbolsInv
        <5>4. libs'[i].refcount = Cardinality(SymbolsOf(q))
          BY <5>2, <5>3, <4>1
        <5>5. QED
          BY <5>1, <5>4
      <4>4. QED
        BY <4>2, <4>3
    <3>13. SymbolsInv'
      BY <3>2, <3>7, <3>10, <3>11, <3>12 DEF SymbolsInv, SymbolsOf
    <3>14. QED
      BY <2>1, <3>6, <3>13 DEF LinkInv
  <2>4. QED
    BY <1>3, <2>2, <2>3 DEF ResolveDynamic, p
<1>4. QED
  BY <1>2, <1>3 DEF ResolveDynamic

\* The symbols stay as they are, and no call goes back.
LEMMA SymbolsStay ==
  ASSUME LinkInv, CallsInv', UNCHANGED <<symbols, libs>>, DOMAIN mods \subseteq DOMAIN mods',
         phase \notin {"failed", "closing", "done"}, phase' \notin {"closing", "done"},
         \A l \in DOMAIN calls' : calls'[l].m \in DOMAIN mods =>
           \E k \in DOMAIN calls : calls[k].m = calls'[l].m /\ calls'[l].i >= calls[k].i
  PROVE  SymbolsInv'
<1>1. ASSUME NEW s \in symbols, NEW l \in DOMAIN calls', calls'[l].m = s[1] PROVE s[2] < calls'[l].i
  <2>1. s[1] \in DOMAIN mods /\ s[2] \in Nat
        /\ \A k \in DOMAIN calls : calls[k].m = s[1] => s[2] < calls[k].i
    BY <1>1 DEF LinkInv, SymbolsInv
  <2>2. PICK k \in DOMAIN calls : calls[k].m = calls'[l].m /\ calls'[l].i >= calls[k].i
    BY <2>1, <1>1
  <2>3. calls[k].i \in Int /\ calls'[l].i \in Int
    <3>1. calls[k].i \in 1 .. Len(mods[calls[k].m].recs) + 1
      BY DEF LinkInv, CallsInv
    <3>2. calls'[l].i \in 1 .. Len(mods'[calls'[l].m].recs) + 1
      BY DEF CallsInv
    <3>3. QED
      BY <3>1, <3>2
  <2>4. s[2] < calls[k].i
    BY <2>1, <2>2, <1>1
  <2>5. QED
    BY <2>1, <2>2, <2>3, <2>4
<1>2. \A s \in symbols : s[1] \in DOMAIN mods' /\ s[2] \in Nat
  BY DEF LinkInv, SymbolsInv
<1>3. QED
  BY <1>1, <1>2 DEF LinkInv, SymbolsInv, SymbolsOf

\* What stays when an import or code is replaced by what it becomes.
LEMMA RecordReplaced ==
  ASSUME LinkInv, NEW m \in DOMAIN mods, NEW i \in DOMAIN mods[m].recs, NEW e, Replaced(m, i, e),
         e.rec = mods[m].recs[i].rec, e.rec \in {"import", "code"},
         e.rec = "import" => "fixup" \in DOMAIN e /\ e.module = mods[m].recs[i].module,
         e.rec = "code" => /\ "code" \in DOMAIN e /\ IsSeq(e.code)
                           /\ \A k \in DOMAIN e.code : "ptr" \in DOMAIN e.code[k]
  PROVE  /\ ModsInv' /\ RingInv' /\ NamesInv' /\ Links' = Links
         /\ DOMAIN mods' = DOMAIN mods /\ Len(mods') = Len(mods)
         /\ mods'[m].recs[i] = e
         /\ \A n \in DOMAIN mods :
              /\ DOMAIN mods'[n].recs = DOMAIN mods[n].recs
              /\ Len(mods'[n].recs) = Len(mods[n].recs)
              /\ \A j \in DOMAIN mods[n].recs : n # m \/ j # i => mods'[n].recs[j] = mods[n].recs[j]
<1>0. ModsInv
  BY DEF LinkInv
<1>1. /\ DOMAIN mods' = DOMAIN mods /\ Len(mods') = Len(mods)
      /\ mods'[m].recs[i] = e
      /\ \A n \in DOMAIN mods :
           /\ mods'[n].next = mods[n].next
           /\ DOMAIN mods'[n].recs = DOMAIN mods[n].recs
           /\ Len(mods'[n].recs) = Len(mods[n].recs)
           /\ \A j \in DOMAIN mods[n].recs : n # m \/ j # i => mods'[n].recs[j] = mods[n].recs[j]
  BY <1>0, ReplacedIs
<1>2. ModsInv' /\ \A n \in DOMAIN mods : ModuleName(mods'[n].recs) = ModuleName(mods[n].recs)
  BY <1>0, ReplacedLoaded
<1>3. Links' = Links
  BY <1>1 DEF Links
<1>4. RingInv'
  BY <1>1, <1>3 DEF LinkInv, RingInv
<1>5. NamesInv'
  BY <1>1, <1>2 DEF LinkInv, NamesInv, Module_name
<1>6. QED
  BY <1>1, <1>2, <1>3, <1>4, <1>5

\* An import gets its fixup and the call goes on behind it (resolve_external_records).
LEMMA ImportKeeps ==
  ASSUME LinkInv, ResolveImport PROVE LinkInv'
<1> DEFINE m == Call.m
           i == Call.i
           x == find_symbol(Target, ImportedName, KindName(Call.m, Record))
           e == [mods[m].recs[i] EXCEPT !.fixup = <<Target, x>>]
           j == i + 1
<1>1. phase = "loading" /\ i <= Len(mods[m].recs) /\ mods[m].recs[i].rec = "import"
  BY DEF ResolveImport, AtRecord, Record
<1>2. CASE Fails("symbol") /\ UNCHANGED <<libs, handles>>
  BY <1>1, <1>2, FailsAlone
<1>3. CASE /\ x # 0 /\ mods' = [mods EXCEPT ![m].recs[i].fixup = <<Target, x>>] /\ NextRecord
           /\ UNCHANGED <<buildVars, phase, why, at, entry, exitVars>>
  <2>1. /\ m \in DOMAIN mods /\ i \in Nat \ {0} /\ Len(mods[m].recs) \in Nat
        /\ DOMAIN mods[m].recs = 1 .. Len(mods[m].recs) /\ Len(calls) \in DOMAIN calls
    BY <1>1, ActiveCall
  <2>2. i \in DOMAIN mods[m].recs /\ j \in Nat /\ i < j /\ j <= Len(mods[m].recs) + 1
    BY <1>1, <2>1
  <2>3. /\ phase' = "loading"
        /\ UNCHANGED <<files, why, at, fixed, symbols, libs, handles>>
    BY <1>1, <1>3 DEF buildVars, exitVars
  <2>4. "fixup" \in DOMAIN mods[m].recs[i]
    BY <1>1, <2>1, <2>2 DEF LinkInv, ModsInv, LoadedModule, LoadedRecord
  <2>5. Replaced(m, i, e)
    BY <1>3 DEF Replaced
  <2>6. PICK c : /\ c.m = m /\ c.i = j /\ "i" \in DOMAIN c /\ "got" \in DOMAIN c
                 /\ calls' = [calls EXCEPT ![Len(calls)] = c]
    BY <1>1, <1>3, NextRecordIs
  <2>7. /\ e.rec = "import" /\ "fixup" \in DOMAIN e /\ e.module = mods[m].recs[i].module
        /\ e.fixup # NoPtr
    <3>1. e.rec = "import" /\ "fixup" \in DOMAIN e /\ e.module = mods[m].recs[i].module
          /\ e.fixup = <<Target, x>>
      BY <1>1, <2>4
    <3>2. <<Target, x>> # NoPtr
      BY <1>3 DEF NoPtr
    <3>3. QED
      BY <3>1, <3>2
  <2> HIDE DEF e, j, i, m, x
  <2>8. /\ ModsInv' /\ RingInv' /\ NamesInv'
        /\ DOMAIN mods' = DOMAIN mods
        /\ mods'[m].recs[i] = e
        /\ \A n \in DOMAIN mods :
             /\ DOMAIN mods'[n].recs = DOMAIN mods[n].recs
             /\ Len(mods'[n].recs) = Len(mods[n].recs)
             /\ \A k \in DOMAIN mods[n].recs : n # m \/ k # i => mods'[n].recs[k] = mods[n].recs[k]
    BY <1>1, <2>1, <2>2, <2>5, <2>7, RecordReplaced
  <2>9. /\ IsSeq(calls') /\ DOMAIN calls' = DOMAIN calls /\ Len(calls') = Len(calls)
        /\ \A k \in DOMAIN calls :
             /\ calls'[k].m = calls[k].m
             /\ calls'[k].i = IF k = Len(calls) THEN j ELSE calls[k].i
             /\ "i" \in DOMAIN calls'[k] /\ "got" \in DOMAIN calls'[k]
             /\ calls'[k].i \in 1 .. Len(mods'[calls'[k].m].recs) + 1
             /\ calls'[k].i >= calls[k].i
    BY <1>1, <2>1, <2>2, <2>6, <2>8, Advances DEF m, i
  <2>10. FilesOK' /\ TypesInv'
    BY <2>3, <1>1 DEF LinkInv, FilesOK, TypesInv
  <2>11. CallsInv'
    <3>1. \A k \in DOMAIN calls' : /\ "i" \in DOMAIN calls'[k] /\ "got" \in DOMAIN calls'[k]
                                   /\ calls'[k].m \in DOMAIN mods'
                                   /\ calls'[k].i \in 1 .. Len(mods'[calls'[k].m].recs) + 1
      BY <2>8, <2>9 DEF LinkInv, CallsInv
    <3>2. \A k, l \in DOMAIN calls' : calls'[k].m = calls'[l].m => k = l
      <4>1. \A k, l \in DOMAIN calls : calls[k].m = calls[l].m => k = l
        BY DEF LinkInv, CallsInv
      <4>2. QED
        BY <4>1, <2>9
    <3>3. Len(calls') > 0
      BY <1>1, <2>9 DEF LinkInv, CallsInv
    <3>4. QED
      BY <3>1, <3>2, <3>3, <2>3, <2>9 DEF CallsInv
  <2>12. FixupInv'
    <3>1. ASSUME NEW n \in DOMAIN mods, NEW k \in DOMAIN mods[n].recs,
                 mods'[n].recs[k].rec = "import", mods'[n].recs[k].fixup = NoPtr
          PROVE  \E l \in DOMAIN calls' : calls'[l].m = n /\ calls'[l].i <= k
      <4>1. n # m \/ k # i
        BY <3>1, <2>7, <2>8
      <4>2. mods'[n].recs[k] = mods[n].recs[k]
        BY <4>1, <2>8
      <4>3. PICK l \in DOMAIN calls : calls[l].m = n /\ calls[l].i <= k
        BY <4>2, <3>1 DEF LinkInv, FixupInv
      <4>4. CASE l = Len(calls)
        <5>1. n = m /\ i <= k /\ k \in 1 .. Len(mods[n].recs)
          BY <4>3, <4>4, <2>1 DEF Call, m, i
        <5>2. j <= k
          BY <5>1, <4>1, <2>1, <2>2 DEF j
        <5>3. QED
          BY <5>2, <4>3, <4>4, <2>9
      <4>5. CASE l # Len(calls)
        BY <4>3, <4>5, <2>9
      <4>6. QED
        BY <4>4, <4>5
    <3>2. QED
      BY <3>1, <2>8 DEF FixupInv
  <2>13. AtInv'
    BY <1>1, <2>3 DEF LinkInv, AtInv
  <2>14. LibsInv'
    BY <2>3 DEF LinkInv, LibsInv, Libs!PathOf
  <2>15. SymbolsInv'
    <3>1. \A l \in DOMAIN calls' : calls'[l].m \in DOMAIN mods =>
            \E k \in DOMAIN calls : calls[k].m = calls'[l].m /\ calls'[l].i >= calls[k].i
      BY <2>9
    <3>2. QED
      BY <3>1, <1>1, <2>3, <2>8, <2>11, SymbolsStay
  <2>16. QED
    BY <2>8, <2>10, <2>11, <2>12, <2>13, <2>14, <2>15 DEF LinkInv
<1>4. QED
  BY <1>2, <1>3 DEF ResolveImport

\* A module that is read joins the ring, with a call that is still to come to its records.
LEMMA ModuleRead ==
  ASSUME LinkInv, phase \in {"building", "loading"}, phase' = "loading",
         NEW p, NEW m \in Names, read_module(p, m),
         IF p = 0 THEN phase = "building" ELSE p \in DOMAIN mods,
         \A n \in DOMAIN mods : Module_name(n) # m,
         UNCHANGED <<files, why, at, fixed, symbols, libs, handles>>
  PROVE  LinkInv'
<1> DEFINE N == Len(mods)
           recs == [i \in DOMAIN files[m].recs |-> InMemory(files[m].recs[i])]
           new == [recs |-> recs, next |-> IF p = 0 THEN 1 ELSE mods[p].next]
           changed == [mods[p] EXCEPT !.next = N + 1]
           base == IF p = 0 THEN mods ELSE [mods EXCEPT ![p] = changed]
           call == [m |-> N + 1, i |-> 1, got |-> 0]
<1>1. files[m].state = "whole" /\ mods' = Append(base, new) /\ calls' = Append(calls, call)
  BY DEF read_module, Linked
<1>2. IsSeq(mods) /\ N \in Nat /\ DOMAIN mods = 1 .. N
      /\ \A n \in DOMAIN mods :
           "recs" \in DOMAIN mods[n] /\ "next" \in DOMAIN mods[n] /\ LoadedModule(mods[n].recs)
  BY SeqFacts DEF LinkInv, ModsInv
<1>3. p = 0 => N = 0
  BY DEF LinkInv, CallsInv
<1>4. /\ LoadedModule(recs) /\ NamesModule(recs, 2, m)
      /\ Len(recs) \in Nat /\ DOMAIN recs = 1 .. Len(recs)
  <2>1. WholeFile(m, files[m].recs)
    BY <1>1 DEF LinkInv, FilesOK
  <2>2. LoadedModule(recs) /\ NamesModule(recs, 2, m)
    BY <2>1, FileLoaded
  <2> HIDE DEF recs
  <2>3. QED
    BY <2>2, SeqFacts DEF LoadedModule
<1>5. new.recs = recs /\ new.next = (IF p = 0 THEN 1 ELSE mods[p].next)
      /\ "recs" \in DOMAIN new /\ "next" \in DOMAIN new
  BY <1>2
<1>6. call.m = N + 1 /\ call.i = 1 /\ "i" \in DOMAIN call /\ "got" \in DOMAIN call
  BY <1>2
<1> HIDE DEF recs, new, call
<1>7. /\ IsSeq(base) /\ Len(base) = N /\ DOMAIN base = 1 .. N
      /\ \A n \in 1 .. N : /\ base[n].recs = mods[n].recs
                           /\ base[n].next = IF n = p THEN N + 1 ELSE mods[n].next
                           /\ "recs" \in DOMAIN base[n] /\ "next" \in DOMAIN base[n]
  <2>1. CASE p = 0
    BY <2>1, <1>2, <1>3
  <2>2. CASE p # 0
    <3>1. p \in DOMAIN mods /\ Set(base, mods, p, changed)
      BY <2>2 DEF Set
    <3>2. changed.recs = mods[p].recs /\ changed.next = N + 1
          /\ "recs" \in DOMAIN changed /\ "next" \in DOMAIN changed
      BY <3>1, <1>2
    <3> HIDE DEF base, changed
    <3>3. /\ IsSeq(base) /\ Len(base) = N /\ DOMAIN base = 1 .. N
          /\ base[p] = changed /\ \A n \in 1 .. N : n # p => base[n] = mods[n]
      <4>1. IsSeq(mods) /\ DOMAIN mods = 1 .. N
        BY <1>2
      <4> HIDE DEF N
      <4>0. IsSeq(mods) /\ p \in DOMAIN mods /\ Set(base, mods, p, changed)
        BY <4>1, <3>1
      <4>2. /\ IsSeq(base) /\ Len(base) = Len(mods) /\ DOMAIN base = DOMAIN mods
            /\ base[p] = changed /\ \A n \in DOMAIN mods : n # p => base[n] = mods[n]
        BY ONLY <4>0, PutIs
      <4>3. QED
        BY <4>1, <4>2 DEF N
    <3>4. QED
      BY <3>2, <3>3, <1>2
  <2>3. QED
    BY <2>1, <2>2
<1> HIDE DEF base
<1>8. /\ IsSeq(mods') /\ Len(mods') = N + 1 /\ DOMAIN mods' = 1 .. N + 1
      /\ mods'[N + 1] = new /\ \A n \in 1 .. N : mods'[n] = base[n]
  BY <1>1, <1>7, AppendIs
<1>9. /\ IsSeq(calls) /\ Len(calls) \in Nat /\ DOMAIN calls = 1 .. Len(calls)
      /\ IsSeq(calls') /\ Len(calls') = Len(calls) + 1 /\ DOMAIN calls' = 1 .. Len(calls) + 1
      /\ calls'[Len(calls) + 1] = call /\ \A k \in 1 .. Len(calls) : calls'[k] = calls[k]
  <2>1. IsSeq(calls)
    BY DEF LinkInv, CallsInv
  <2>2. Len(calls) \in Nat /\ DOMAIN calls = 1 .. Len(calls)
    BY <2>1, SeqFacts
  <2>3. QED
    BY <2>1, <2>2, <1>1, AppendIs
<1>10. /\ \A n \in 1 .. N : mods'[n].recs = mods[n].recs
       /\ mods'[N + 1].recs = recs
       /\ \A n \in 1 .. N + 1 : n \in 1 .. N \/ n = N + 1
       /\ 1 .. N \subseteq 1 .. N + 1 /\ N + 1 \in 1 .. N + 1 /\ N + 1 \notin 1 .. N
  BY <1>2, <1>5, <1>7, <1>8
<1>11. FilesOK' /\ TypesInv'
  BY DEF LinkInv, FilesOK, TypesInv
<1>12. ModsInv'
  <2>1. ASSUME NEW n \in 1 .. N + 1
        PROVE  "recs" \in DOMAIN mods'[n] /\ "next" \in DOMAIN mods'[n] /\ LoadedModule(mods'[n].recs)
    <3>1. CASE n \in 1 .. N
      BY <3>1, <1>2, <1>7, <1>8
    <3>2. CASE n = N + 1
      BY <3>2, <1>4, <1>5, <1>8
    <3>3. QED
      BY <3>1, <3>2, <1>10
  <2>2. QED
    BY <2>1, <1>8 DEF ModsInv, LoadedModule, LoadedRecord
<1>13. RingInv'
  <2>1. CASE p = 0
    <3>1. N + 1 = 1 /\ Len(mods') = 1
      BY <2>1, <1>3, <1>8
    <3>2. mods'[1].next = 1 /\ 1 \in DOMAIN mods'
      BY <3>1, <2>1, <1>5, <1>8
    <3>3. Links'[1] = 1
      BY <3>2 DEF Links
    <3>4. \E s : IsRing(s, 1, Links')
      BY <3>3, RingOfOne
    <3>5. QED
      BY <3>1, <3>4 DEF RingInv
  <2>2. CASE p # 0
    <3>1. p \in 1 .. N
      BY <2>2, <1>2
    <3>2. PICK r : IsRing(r, N, Links)
      BY DEF LinkInv, RingInv
    <3>3. \A n \in 1 .. N : Links[n] = mods[n].next
      BY <1>2 DEF Links
    <3>4. /\ Links'[N + 1] = Links[p] /\ Links'[p] = N + 1
          /\ \A n \in 1 .. N : n # p => Links'[n] = Links[n]
      <4>1. \A n \in 1 .. N + 1 : Links'[n] = mods'[n].next
        BY <1>8 DEF Links
      <4>2. QED
        BY <4>1, <3>1, <3>3, <2>2, <1>5, <1>7, <1>8, <1>10
    <3> HIDE DEF N
    <3>5. \E s : IsRing(s, N + 1, Links')
      BY <1>2, <3>1, <3>2, <3>4, RingGrows
    <3>6. QED
      BY <3>5, <1>8 DEF RingInv
  <2>3. QED
    BY <2>1, <2>2
<1>14. NamesInv'
  <2>1. ModuleName(recs) = m
    BY <1>4, NameIs
  <2>2. \A n \in 1 .. N : ModuleName(mods[n].recs) # m
    BY <1>2 DEF Module_name
  <2>3. \A n, k \in 1 .. N : ModuleName(mods[n].recs) = ModuleName(mods[k].recs) => n = k
    BY <1>2 DEF LinkInv, NamesInv, Module_name
  <2>4. \A n, k \in 1 .. N + 1 : ModuleName(mods'[n].recs) = ModuleName(mods'[k].recs) => n = k
    BY <2>1, <2>2, <2>3, <1>10
  <2>5. QED
    BY <2>4, <1>8 DEF NamesInv, Module_name
<1>15. \A k \in DOMAIN calls : calls[k].m \in 1 .. N
  BY <1>2 DEF LinkInv, CallsInv
<1>16. \A k \in 1 .. Len(calls) + 1 : k \in 1 .. Len(calls) \/ k = Len(calls) + 1
  BY <1>9
<1>17. CallsInv'
  <2>1. ASSUME NEW k \in 1 .. Len(calls) + 1
        PROVE  /\ "i" \in DOMAIN calls'[k] /\ "got" \in DOMAIN calls'[k]
               /\ calls'[k].m \in DOMAIN mods'
               /\ calls'[k].i \in 1 .. Len(mods'[calls'[k].m].recs) + 1
    <3>1. CASE k \in 1 .. Len(calls)
      <4>1. /\ "i" \in DOMAIN calls[k] /\ "got" \in DOMAIN calls[k] /\ calls[k].m \in 1 .. N
            /\ calls[k].i \in 1 .. Len(mods[calls[k].m].recs) + 1
        BY <3>1, <1>9, <1>15 DEF LinkInv, CallsInv
      <4>2. QED
        BY <4>1, <3>1, <1>8, <1>9, <1>10
    <3>2. CASE k = Len(calls) + 1
      <4>1. calls'[k] = call
        BY <3>2, <1>9
      <4>2. 1 \in 1 .. Len(recs) + 1
        BY <1>4
      <4>3. QED
        BY <4>1, <4>2, <1>6, <1>8, <1>10
    <3>3. QED
      BY <3>1, <3>2, <1>16
  <2>2. \A k, l \in 1 .. Len(calls) + 1 : calls'[k].m = calls'[l].m => k = l
    <3>1. \A k, l \in 1 .. Len(calls) : calls[k].m = calls[l].m => k = l
      BY <1>9 DEF LinkInv, CallsInv
    <3>2. QED
      BY <3>1, <1>6, <1>9, <1>10, <1>15, <1>16
  <2>3. Len(calls') > 0
    BY <1>9
  <2>4. QED
    BY <2>1, <2>2, <2>3, <1>9 DEF CallsInv
<1>18. FixupInv'
  <2>1. ASSUME NEW n \in 1 .. N + 1, NEW i \in DOMAIN mods'[n].recs,
               mods'[n].recs[i].rec = "import", mods'[n].recs[i].fixup = NoPtr
        PROVE  \E k \in DOMAIN calls' : calls'[k].m = n /\ calls'[k].i <= i
    <3>1. CASE n \in 1 .. N
      <4>1. PICK k \in DOMAIN calls : calls[k].m = n /\ calls[k].i <= i
        BY <3>1, <2>1, <1>2, <1>10 DEF LinkInv, FixupInv
      <4>2. k \in DOMAIN calls' /\ calls'[k] = calls[k]
        BY <1>9
      <4>3. QED
        BY <4>1, <4>2
    <3>2. CASE n = N + 1
      <4>1. 1 <= i
        BY <3>2, <1>4, <1>10
      <4>2. Len(calls) + 1 \in DOMAIN calls' /\ calls'[Len(calls) + 1] = call
        BY <1>9
      <4>3. QED
        BY <4>1, <4>2, <3>2, <1>6
    <3>3. QED
      BY <3>1, <3>2, <1>10
  <2>2. QED
    BY <2>1, <1>8 DEF FixupInv
<1>19. AtInv'
  BY DEF LinkInv, AtInv
<1>20. LibsInv'
  BY DEF LinkInv, LibsInv, Libs!PathOf
<1>21. SymbolsInv'
  <2>1. ASSUME NEW l \in DOMAIN calls', calls'[l].m \in DOMAIN mods
        PROVE  \E k \in DOMAIN calls : calls[k].m = calls'[l].m /\ calls'[l].i >= calls[k].i
    <3>1. l \in 1 .. Len(calls)
      BY <2>1, <1>2, <1>6, <1>9, <1>10, <1>16
    <3>2. calls'[l] = calls[l] /\ l \in DOMAIN calls
      BY <3>1, <1>9
    <3>3. calls[l].i \in Int
      <4>1. calls[l].i \in 1 .. Len(mods[calls[l].m].recs) + 1
        BY <3>2 DEF LinkInv, CallsInv
      <4>2. QED
        BY <4>1
    <3>4. QED
      BY <3>2, <3>3
  <2>2. DOMAIN mods \subseteq DOMAIN mods'
    BY <1>2, <1>8, <1>10
  <2>3. QED
    BY <2>1, <2>2, <1>17, SymbolsStay
<1>22. QED
  BY <1>11, <1>12, <1>13, <1>14, <1>17, <1>18, <1>19, <1>20, <1>21 DEF LinkInv

\* The main module is the first of the ring (load_module).
LEMMA StartModuleKeeps ==
  ASSUME LinkInv, StartModule(Modules[1]) PROVE LinkInv'
<1> DEFINE m == Modules[1]
<1>1. phase = "building"
  BY DEF StartModule
<1>2. m \in Names
  BY ModulesAssumption DEF Names, ToSet
<1> HIDE DEF m
<1>3. CASE Fails("file") /\ UNCHANGED <<libs, handles>>
  BY <1>1, <1>3, FailsAlone
<1>4. CASE /\ read_module(0, m) /\ phase' = "loading"
           /\ UNCHANGED <<buildVars, why, at, entry, exitVars>>
  <2>1. IsSeq(mods) /\ Len(mods) = 0
    BY <1>1 DEF LinkInv, ModsInv, CallsInv
  <2>2. DOMAIN mods = {}
    <3>1. DOMAIN mods = 1 .. 0
      BY <2>1, SeqFacts
    <3>2. QED
      BY <3>1
  <2>3. UNCHANGED <<files, why, at, fixed, symbols, libs, handles>>
    BY <1>4 DEF buildVars, exitVars
  <2>4. QED
    BY <1>1, <1>2, <1>4, <2>2, <2>3, ModuleRead
<1>5. QED
  BY <1>3, <1>4 DEF StartModule, m

\* A module is read for an import only when the ring has none of that name.
LEMMA LoadImportedKeeps ==
  ASSUME LinkInv, LoadImported PROVE LinkInv'
<1> DEFINE m == ImportedModule
<1>1. phase = "loading" /\ Call.i <= Len(mods[Call.m].recs) /\ Record.rec = "import" /\ Target = 0
  BY DEF LoadImported, AtRecord
<1>2. Call.m \in DOMAIN mods /\ Call.i \in DOMAIN mods[Call.m].recs
  BY <1>1, ActiveCall
<1>3. m \in Names
  <2>1. \E x \in Names : NamesModule(mods[Call.m].recs, Record.module, x)
    BY <1>1, <1>2 DEF LinkInv, ModsInv, LoadedModule, LoadedRecord, Record
  <2>2. QED
    BY <2>1 DEF NamesModule, ImportedModule, StringAt
<1>4. CASE Fails("file") /\ UNCHANGED <<libs, handles>>
  BY <1>1, <1>4, FailsAlone
<1>5. CASE read_module(Call.m, m) /\ UNCHANGED <<buildVars, phase, why, at, entry, exitVars>>
  <2>1. \A n \in DOMAIN mods : Module_name(n) # m
    <3>1. find_module(Call.m, m) = 0
      BY <1>1 DEF Target
    <3>2. IsSeq(mods) /\ \E r : IsRing(r, Len(mods), Links)
      BY DEF LinkInv, ModsInv, RingInv
    <3> HIDE DEF m
    <3>3. QED
      BY <3>1, <3>2, <1>2, ModuleFound
  <2>2. UNCHANGED <<files, why, at, fixed, symbols, libs, handles>> /\ phase' = "loading"
    BY <1>1, <1>5 DEF buildVars, exitVars
  <2>3. Call.m # 0
    <3>1. DOMAIN mods = 1 .. Len(mods) /\ Len(mods) \in Nat
      BY SeqFacts DEF LinkInv, ModsInv
    <3>2. QED
      BY <3>1, <1>2
  <2> HIDE DEF m
  <2>4. QED
    BY <1>1, <1>2, <1>3, <1>5, <2>1, <2>2, <2>3, ModuleRead
<1>6. QED
  BY <1>4, <1>5 DEF LoadImported

\* A call returns when no import of its module is left without a fixup.
LEMMA ReadReturnsKeeps ==
  ASSUME LinkInv, ReadReturns PROVE LinkInv'
<1> DEFINE front == Front(calls)
           returned == [front[Len(calls) - 1] EXCEPT !.got = Call.m]
<1>1. /\ phase = "loading" /\ Call.i > Len(mods[Call.m].recs)
      /\ calls' = (IF Len(calls) = 1 THEN <<>> ELSE [front EXCEPT ![Len(calls) - 1].got = Call.m])
      /\ phase' = (IF Len(calls) = 1 THEN "resolving" ELSE "loading")
      /\ UNCHANGED <<files, why, mods, at, symbols, fixed, libs, handles>>
  BY DEF ReadReturns, buildVars, exitVars
<1>2. /\ IsSeq(calls) /\ Len(calls) \in Nat /\ Len(calls) > 0 /\ DOMAIN calls = 1 .. Len(calls)
      /\ Call = calls[Len(calls)] /\ Call.m \in DOMAIN mods /\ Call.i \in Nat
      /\ DOMAIN mods[Call.m].recs = 1 .. Len(mods[Call.m].recs)
      /\ Len(mods[Call.m].recs) \in Nat
  <2>1. IsSeq(calls) /\ Len(calls) > 0
    BY <1>1 DEF LinkInv, CallsInv
  <2>2. QED
    BY <2>1, <1>1, SeqFacts, ActiveCall DEF Call
<1>3. /\ IsSeq(front) /\ Len(front) = Len(calls) - 1 /\ DOMAIN front = 1 .. Len(calls) - 1
      /\ \A k \in 1 .. Len(calls) - 1 : front[k] = calls[k]
  <2>1. IsSeq(calls) /\ Len(calls) > 0
    BY <1>2
  <2>2. QED
    BY ONLY <2>1, FrontIs
<1>4. /\ IsSeq(calls') /\ Len(calls') = Len(calls) - 1 /\ DOMAIN calls' = 1 .. Len(calls) - 1
      /\ \A k \in 1 .. Len(calls) - 1 :
           /\ calls'[k].m = calls[k].m /\ calls'[k].i = calls[k].i
           /\ "i" \in DOMAIN calls'[k] /\ "got" \in DOMAIN calls'[k]
  <2>1. \A k \in DOMAIN calls : "i" \in DOMAIN calls[k] /\ "got" \in DOMAIN calls[k]
    BY DEF LinkInv, CallsInv
  <2>2. CASE Len(calls) = 1
    <3>1. calls' = <<>> /\ 1 .. Len(calls) - 1 = {}
      BY <2>2, <1>1
    <3>2. IsSeq(<<>>) /\ Len(<<>>) = 0 /\ DOMAIN <<>> = {}
      BY DEF IsSeq
    <3>3. QED
      BY <3>1, <3>2, <2>2
  <2>3. CASE Len(calls) # 1
    <3>1. Len(calls) - 1 \in 1 .. Len(calls) - 1 /\ Len(calls) - 1 \in DOMAIN calls
      BY <2>3, <1>2
    <3>2. /\ returned.m = calls[Len(calls) - 1].m /\ returned.i = calls[Len(calls) - 1].i
          /\ "i" \in DOMAIN returned /\ "got" \in DOMAIN returned
      BY <3>1, <2>1, <1>3
    <3>3. calls' = [front EXCEPT ![Len(calls) - 1] = returned]
      BY <2>3, <1>1
    <3> HIDE DEF front, returned
    <3>4. IsSeq(front) /\ Len(calls) - 1 \in DOMAIN front /\ Set(calls', front, Len(calls) - 1, returned)
      BY <3>1, <3>3, <1>3 DEF Set
    <3>5. /\ IsSeq(calls') /\ Len(calls') = Len(front) /\ DOMAIN calls' = DOMAIN front
          /\ calls'[Len(calls) - 1] = returned
          /\ \A k \in DOMAIN front : k # Len(calls) - 1 => calls'[k] = front[k]
      BY ONLY <3>4, PutIs
    <3>6. ASSUME NEW k \in 1 .. Len(calls) - 1
          PROVE  /\ calls'[k].m = calls[k].m /\ calls'[k].i = calls[k].i
                 /\ "i" \in DOMAIN calls'[k] /\ "got" \in DOMAIN calls'[k]
      <4>1. CASE k = Len(calls) - 1
        BY <4>1, <3>2, <3>5
      <4>2. CASE k # Len(calls) - 1
        <5>1. calls'[k] = calls[k] /\ k \in DOMAIN calls
          BY <4>2, <3>5, <1>2, <1>3
        <5>2. QED
          BY <5>1, <2>1
      <4>3. QED
        BY <4>1, <4>2
    <3>7. QED
      BY <3>5, <3>6, <1>3
  <2>4. QED
    BY <2>2, <2>3
<1> HIDE DEF front, returned
<1>5. \A k \in 1 .. Len(calls) - 1 : k \in DOMAIN calls
  BY <1>2
<1>6. FilesOK' /\ ModsInv' /\ RingInv'
  BY <1>1 DEF LinkInv, FilesOK, ModsInv, RingInv, Links
<1>7. NamesInv' /\ TypesInv'
  BY <1>1 DEF LinkInv, NamesInv, Module_name, TypesInv
<1>8. CallsInv'
  <2>1. \A k \in DOMAIN calls' : /\ "i" \in DOMAIN calls'[k] /\ "got" \in DOMAIN calls'[k]
                                 /\ calls'[k].m \in DOMAIN mods'
                                 /\ calls'[k].i \in 1 .. Len(mods'[calls'[k].m].recs) + 1
    BY <1>1, <1>4, <1>5 DEF LinkInv, CallsInv
  <2>2. \A k, l \in DOMAIN calls' : calls'[k].m = calls'[l].m => k = l
    BY <1>4, <1>5 DEF LinkInv, CallsInv
  <2>0. /\ Len(calls) = 1 => phase' = "resolving" /\ Len(calls') = 0
        /\ Len(calls) # 1 => phase' = "loading" /\ Len(calls') > 0
    <3>1. Len(calls) # 1 => Len(calls) - 1 > 0
      BY <1>2
    <3>2. QED
      BY <3>1, <1>1, <1>4
  <2>3. phase' = "loading" => Len(calls') > 0
    BY <2>0
  <2>4. phase' \in {"resolving", "loaded", "running"} => Len(calls') = 0
    BY <2>0
  <2>5. phase' # "building"
    BY <1>1
  <2>6. QED
    BY <2>1, <2>2, <2>3, <2>4, <2>5, <1>4 DEF CallsInv
<1>9. FixupInv'
  <2>1. ASSUME NEW m \in DOMAIN mods, NEW i \in DOMAIN mods[m].recs,
               mods[m].recs[i].rec = "import", mods[m].recs[i].fixup = NoPtr
        PROVE  \E k \in DOMAIN calls' : calls'[k].m = m /\ calls'[k].i <= i
    <3>1. PICK k \in DOMAIN calls : calls[k].m = m /\ calls[k].i <= i
      BY <2>1 DEF LinkInv, FixupInv
    <3>2. k # Len(calls)
      <4>1. SUFFICES ASSUME k = Len(calls) PROVE FALSE
        OBVIOUS
      <4>2. i \in 1 .. Len(mods[Call.m].recs) /\ Call.i <= i
        BY <4>1, <3>1, <1>2
      <4>3. QED
        BY <4>2, <1>1, <1>2
    <3>3. k \in 1 .. Len(calls) - 1
      BY <3>2, <1>2
    <3>4. QED
      BY <3>1, <3>3, <1>4
  <2>2. QED
    BY <2>1, <1>1 DEF FixupInv
<1>10. AtInv'
  <2>1. at.m = 1 /\ at.i = 1 /\ at.k = 1 /\ {"m", "i", "k", "ptr"} \subseteq DOMAIN at
    BY <1>1 DEF LinkInv, AtInv
  <2>2. 1 \in DOMAIN mods /\ DOMAIN mods = 1 .. Len(mods) /\ Len(mods) \in Nat
    <3>1. DOMAIN mods = 1 .. Len(mods) /\ Len(mods) \in Nat
      BY SeqFacts DEF LinkInv, ModsInv
    <3>2. QED
      BY <3>1, <1>2
  <2>3. PICK r : IsRing(r, Len(mods), Links) /\ r[1] = 1
    <3>1. PICK s : IsRing(s, Len(mods), Links)
      BY DEF LinkInv, RingInv
    <3>2. QED
      BY <3>1, <2>2, RingFrom
  <2>4. ResolvedTo(r, 1)
    <3>1. 1 \in 1 .. Len(mods) /\ \A q \in 1 .. Len(mods) : ~(q < 1)
      BY <2>2
    <3>2. QED
      BY <3>1, <2>1, <2>3 DEF ResolvedTo
  <2>5. ResolvedHere
    <3>1. ASSUME NEW i \in DOMAIN mods[1].recs PROVE ~(i < 1)
      <4>1. DOMAIN mods[1].recs = 1 .. Len(mods[1].recs)
        BY <2>2, SeqFacts DEF LinkInv, ModsInv, LoadedModule
      <4>2. QED
        BY <4>1
    <3>2. ASSUME NEW i \in DOMAIN mods[1].recs, mods[1].recs[i].rec = "code",
                 NEW k \in DOMAIN mods[1].recs[i].code
          PROVE  ~(k < 1)
      <4>1. IsSeq(mods[1].recs[i].code)
        BY <3>2, <2>2 DEF LinkInv, ModsInv, LoadedModule, LoadedRecord
      <4>2. DOMAIN mods[1].recs[i].code = 1 .. Len(mods[1].recs[i].code)
        BY <4>1, SeqFacts
      <4>3. QED
        BY <4>2
    <3>3. QED
      BY <3>1, <3>2, <2>1 DEF ResolvedHere
  <2>6. ResolvedHere' /\ ResolvedTo(r, 1)'
    <3>1. Links' = Links
      BY <1>1 DEF Links
    <3>2. QED
      BY <3>1, <2>4, <2>5, <1>1 DEF ResolvedHere, ResolvedTo, AllPtrs, HasPtrs
  <2>7. at' = at /\ phase' \in {"loading", "resolving"}
    BY <1>1
  <2>8. QED
    BY <2>1, <2>6, <2>7 DEF AtInv
<1>11. LibsInv'
  BY <1>1 DEF LinkInv, LibsInv, Libs!PathOf
<1>12. SymbolsInv'
  <2>1. \A l \in DOMAIN calls' : calls[l].i \in Int
    <3>1. \A l \in DOMAIN calls : calls[l].i \in 1 .. Len(mods[calls[l].m].recs) + 1
      BY DEF LinkInv, CallsInv
    <3>2. QED
      BY <3>1, <1>4, <1>5
  <2>2. ASSUME NEW l \in DOMAIN calls'
        PROVE  \E k \in DOMAIN calls : calls[k].m = calls'[l].m /\ calls'[l].i >= calls[k].i
    <3>1. l \in DOMAIN calls /\ calls'[l].m = calls[l].m /\ calls'[l].i = calls[l].i
      BY <1>4, <1>5
    <3>2. calls'[l].i >= calls[l].i
      BY <2>1, <3>1
    <3>3. QED
      BY <3>1, <3>2
  <2>3. QED
    BY <2>2, <1>1, <1>8, SymbolsStay
<1>13. QED
  BY <1>6, <1>7, <1>8, <1>9, <1>10, <1>11, <1>12 DEF LinkInv

-----------------------------------------------------------------------------
(* Resolving code                                                          *)

\* Nothing but the phase and the instruction changes.
LEMMA RestStays ==
  ASSUME LinkInv, UNCHANGED <<files, mods, calls, symbols, libs, handles>>,
         phase \notin {"building", "loading", "failed", "closing", "done"},
         phase' \notin {"building", "loading", "closing", "done"},
         phase' \in {"resolving", "loaded", "running"} => phase \in {"resolving", "loaded", "running"}
  PROVE  /\ FilesOK' /\ ModsInv' /\ RingInv' /\ NamesInv' /\ CallsInv' /\ FixupInv'
         /\ LibsInv' /\ SymbolsInv'
<1>1. FilesOK' /\ ModsInv' /\ RingInv'
  BY DEF LinkInv, FilesOK, ModsInv, RingInv, Links
<1>2. NamesInv'
  BY DEF LinkInv, NamesInv, Module_name
<1>3. CallsInv'
  BY DEF LinkInv, CallsInv
<1>4. FixupInv'
  BY DEF LinkInv, FixupInv
<1>5. LibsInv'
  BY DEF LinkInv, LibsInv, Libs!PathOf
<1>6. SymbolsInv'
  BY DEF LinkInv, SymbolsInv, SymbolsOf
<1>7. QED
  BY <1>1, <1>2, <1>3, <1>4, <1>5, <1>6

\* The code that is being resolved.
LEMMA ActiveCode ==
  ASSUME LinkInv, phase = "resolving"
  PROVE  /\ at.m \in DOMAIN mods /\ at.m # 0
         /\ Len(mods) \in Nat /\ DOMAIN mods = 1 .. Len(mods)
         /\ IsSeq(mods[at.m].recs) /\ Len(mods[at.m].recs) \in Nat
         /\ DOMAIN mods[at.m].recs = 1 .. Len(mods[at.m].recs)
         /\ AtCode => /\ at.i \in DOMAIN mods[at.m].recs /\ mods[at.m].recs[at.i].rec = "code"
                      /\ "code" \in DOMAIN mods[at.m].recs[at.i]
                      /\ IsSeq(Code) /\ Len(Code) \in Nat /\ DOMAIN Code = 1 .. Len(Code)
                      /\ \A k \in DOMAIN Code : "ptr" \in DOMAIN Code[k]
<1>1. PICK r, p : ResolvedTo(r, p)
  BY DEF LinkInv, AtInv
<1>2. Len(mods) \in Nat /\ DOMAIN mods = 1 .. Len(mods)
  BY SeqFacts DEF LinkInv, ModsInv
<1>3. at.m \in DOMAIN mods /\ at.m # 0
  <2>1. r \in [1 .. Len(mods) -> 1 .. Len(mods)] /\ p \in 1 .. Len(mods) /\ r[p] = at.m
    BY <1>1 DEF ResolvedTo, IsRing
  <2>2. QED
    BY <2>1, <1>2
<1>4. LoadedModule(mods[at.m].recs)
  BY <1>3 DEF LinkInv, ModsInv
<1>5. IsSeq(mods[at.m].recs)
  BY <1>4 DEF LoadedModule
<1>6. Len(mods[at.m].recs) \in Nat /\ DOMAIN mods[at.m].recs = 1 .. Len(mods[at.m].recs)
  BY <1>5, SeqFacts
<1>7. ASSUME AtCode
      PROVE  /\ at.i \in DOMAIN mods[at.m].recs /\ mods[at.m].recs[at.i].rec = "code"
             /\ "code" \in DOMAIN mods[at.m].recs[at.i]
             /\ IsSeq(Code) /\ Len(Code) \in Nat /\ DOMAIN Code = 1 .. Len(Code)
             /\ \A k \in DOMAIN Code : "ptr" \in DOMAIN Code[k]
  <2>1. at.i <= Len(mods[at.m].recs) /\ mods[at.m].recs[at.i].rec = "code"
    BY <1>7 DEF AtCode
  <2>2. at.i \in Nat \ {0}
    BY DEF LinkInv, AtInv
  <2>3. at.i \in DOMAIN mods[at.m].recs
    BY <2>1, <2>2, <1>6
  <2>4. /\ "code" \in DOMAIN mods[at.m].recs[at.i] /\ IsSeq(Code)
        /\ \A k \in DOMAIN Code : "ptr" \in DOMAIN Code[k]
    BY <2>1, <2>3, <1>4 DEF LoadedModule, LoadedRecord, Code
  <2>5. Len(Code) \in Nat /\ DOMAIN Code = 1 .. Len(Code)
    BY <2>4, SeqFacts
  <2>6. QED
    BY <2>1, <2>3, <2>4, <2>5
<1>8. QED
  BY <1>2, <1>3, <1>5, <1>6, <1>7

\* A step along a chain of imports (resolve_index).
LEMMA FollowKeeps ==
  ASSUME LinkInv, FollowImport PROVE LinkInv'
<1>1. phase = "resolving"
  BY DEF FollowImport, AtInstruction, AtCode
<1>2. CASE Fails("circular") /\ UNCHANGED <<libs, handles>>
  BY <1>1, <1>2, FailsAlone
<1>3. CASE /\ at' = [at EXCEPT !.ptr = Rec(Reached).fixup]
           /\ UNCHANGED <<buildVars, phase, why, mods, calls, entry, exitVars>>
  <2>1. /\ phase' = "resolving"
        /\ UNCHANGED <<files, why, mods, calls, symbols, fixed, libs, handles>>
    BY <1>1, <1>3 DEF buildVars, exitVars
  <2>2. /\ FilesOK' /\ ModsInv' /\ RingInv' /\ NamesInv' /\ CallsInv' /\ FixupInv'
        /\ LibsInv' /\ SymbolsInv'
    BY <1>1, <2>1, RestStays
  <2>3. TypesInv'
    BY <2>1 DEF LinkInv, TypesInv
  <2>4. {"m", "i", "k", "ptr"} \subseteq DOMAIN at /\ at.m \in Nat \ {0} /\ at.i \in Nat \ {0}
        /\ at.k \in Nat \ {0}
    BY DEF LinkInv, AtInv
  <2>5. at'.m = at.m /\ at'.i = at.i /\ at'.k = at.k /\ DOMAIN at' = DOMAIN at
    BY <1>3, <2>4
  <2>6. PICK r, p : ResolvedTo(r, p)
    BY <1>1 DEF LinkInv, AtInv
  <2>7. Links' = Links
    BY <2>1 DEF Links
  <2>8. ResolvedTo(r, p)'
    BY <2>1, <2>5, <2>6, <2>7 DEF ResolvedTo, AllPtrs, HasPtrs
  <2>9. ResolvedHere'
    <3>1. ResolvedHere
      BY <1>1 DEF LinkInv, AtInv
    <3>2. mods'[at'.m].recs = mods[at.m].recs
      BY <2>1, <2>5
    <3>3. SUFFICES ASSUME NEW x \in DOMAIN mods[at.m].recs
                   PROVE  /\ x < at.i => HasPtrs(mods[at.m].recs[x])
                          /\ x = at.i /\ mods[at.m].recs[x].rec = "code" =>
                               \A k \in DOMAIN mods[at.m].recs[x].code :
                                 k < at.k => mods[at.m].recs[x].code[k].ptr # NoPtr
      BY <2>5, <3>2 DEF ResolvedHere
    <3>4. QED
      BY <3>1 DEF ResolvedHere
  <2>10. AtInv'
    BY <2>1, <2>4, <2>5, <2>8, <2>9 DEF AtInv
  <2>11. QED
    BY <2>2, <2>3, <2>10 DEF LinkInv
<1>4. QED
  BY <1>2, <1>3 DEF FollowImport

\* An instruction gets its pointer (resolve_instrs).
LEMMA InstructionKeeps ==
  ASSUME LinkInv, ResolveInstruction PROVE LinkInv'
<1> DEFINE m == at.m
           i == at.i
           k == at.k
           in == Resolved(Code[k], Reached)
           code == [Code EXCEPT ![k] = in]
           e == [mods[m].recs[i] EXCEPT !.code = code]
<1>1. phase = "resolving" /\ AtCode /\ k <= Len(Code)
  BY DEF ResolveInstruction, AtInstruction, AtCode
<1>2. CASE Fails("kind") /\ UNCHANGED <<libs, handles>>
  BY <1>1, <1>2, FailsAlone
<1>3. CASE Fails("size") /\ UNCHANGED <<libs, handles>>
  BY <1>1, <1>3, FailsAlone
<1>4. CASE /\ mods' = [mods EXCEPT ![at.m].recs[at.i].code[at.k] = Resolved(@, Reached)]
           /\ at' = [at EXCEPT !.k = @ + 1, !.ptr = NoPtr]
           /\ UNCHANGED <<buildVars, phase, why, calls, entry, exitVars>>
  <2>1. {"m", "i", "k", "ptr"} \subseteq DOMAIN at /\ m \in Nat \ {0} /\ i \in Nat \ {0}
        /\ k \in Nat \ {0}
    BY DEF LinkInv, AtInv
  <2>2. /\ m \in DOMAIN mods /\ m # 0
        /\ i \in DOMAIN mods[m].recs /\ mods[m].recs[i].rec = "code"
        /\ "code" \in DOMAIN mods[m].recs[i]
        /\ IsSeq(Code) /\ Len(Code) \in Nat /\ DOMAIN Code = 1 .. Len(Code)
        /\ \A l \in DOMAIN Code : "ptr" \in DOMAIN Code[l]
    BY <1>1, ActiveCode
  <2>3. /\ phase' = "resolving"
        /\ UNCHANGED <<files, why, calls, symbols, fixed, libs, handles>>
    BY <1>1, <1>4 DEF buildVars, exitVars
  <2>4. at'.m = m /\ at'.i = i /\ at'.k = k + 1 /\ DOMAIN at' = DOMAIN at
    BY <1>4, <2>1
  <2>5. k \in DOMAIN Code
    BY <1>1, <2>1, <2>2
  <2>6. Reached # NoPtr
    <3>1. <<m, Instruction.idx>> # NoPtr
      BY <2>2 DEF NoPtr
    <3>2. QED
      BY <3>1 DEF Reached, Named
  <2>7. "ptr" \in DOMAIN in /\ in.ptr # NoPtr
    <3>1. in.ptr = Reached /\ DOMAIN in = DOMAIN Code[k]
      BY <2>2, <2>5 DEF Resolved
    <3>2. QED
      BY <3>1, <2>2, <2>5, <2>6
  <2> HIDE DEF in
  <2>8. /\ IsSeq(code) /\ DOMAIN code = DOMAIN Code
        /\ code[k] = in /\ \A l \in DOMAIN Code : l # k => code[l] = Code[l]
    <3>1. IsSeq(Code) /\ k \in DOMAIN Code /\ Set(code, Code, k, in)
      BY <2>2, <2>5 DEF Set
    <3> HIDE DEF code, k
    <3>2. QED
      BY ONLY <3>1, PutIs
  <2>9. Replaced(m, i, e)
    BY <1>4 DEF Replaced, Code, in
  <2> HIDE DEF code
  <2>10. e.rec = "code" /\ "code" \in DOMAIN e /\ e.code = code
    BY <2>2
  <2>11. IsSeq(e.code) /\ \A l \in DOMAIN e.code : "ptr" \in DOMAIN e.code[l]
    BY <2>2, <2>7, <2>8, <2>10
  <2> HIDE DEF e, m, i, k
  <2>12. /\ ModsInv' /\ RingInv' /\ NamesInv' /\ Links' = Links
         /\ DOMAIN mods' = DOMAIN mods /\ Len(mods') = Len(mods)
         /\ mods'[m].recs[i] = e
         /\ \A n \in DOMAIN mods :
              /\ DOMAIN mods'[n].recs = DOMAIN mods[n].recs
              /\ Len(mods'[n].recs) = Len(mods[n].recs)
              /\ \A j \in DOMAIN mods[n].recs : n # m \/ j # i => mods'[n].recs[j] = mods[n].recs[j]
    BY <2>2, <2>9, <2>10, <2>11, RecordReplaced
  <2>13. FilesOK' /\ TypesInv'
    BY <1>1, <2>3 DEF LinkInv, FilesOK, TypesInv
  <2>14. Len(calls) = 0 /\ IsSeq(calls) /\ DOMAIN calls = {}
    <3>1. Len(calls) = 0 /\ IsSeq(calls)
      BY <1>1 DEF LinkInv, CallsInv
    <3>2. DOMAIN calls = 1 .. 0
      BY <3>1, SeqFacts
    <3>3. QED
      BY <3>1, <3>2
  <2>15. CallsInv'
    BY <2>3, <2>14 DEF CallsInv
  <2>16. FixupInv'
    <3>1. \A n \in DOMAIN mods : \A j \in DOMAIN mods[n].recs :
            mods'[n].recs[j].rec = "import" => mods'[n].recs[j] = mods[n].recs[j]
      BY <2>10, <2>12
    <3>2. QED
      BY <3>1, <2>3, <2>12 DEF LinkInv, FixupInv
  <2>17. PICK r, p : ResolvedTo(r, p)
    BY <1>1 DEF LinkInv, AtInv
  <2>18. ResolvedTo(r, p)'
    <3>1. /\ IsRing(r, Len(mods), Links) /\ r[1] = 1
          /\ p \in 1 .. Len(mods) /\ r[p] = m
          /\ \A q \in 1 .. Len(mods) : q < p => AllPtrs(r[q])
      BY <2>17 DEF ResolvedTo, m
    <3>2. ASSUME NEW q \in 1 .. Len(mods), q < p PROVE AllPtrs(r[q])'
      <4>1. r[q] \in 1 .. Len(mods) /\ (r[q] = r[p] => q = p)
        BY <3>1 DEF IsRing
      <4>2. q # p
        BY <3>1, <3>2
      <4>3. r[q] # m /\ r[q] \in DOMAIN mods
        BY <4>1, <4>2, <3>1, <1>1, ActiveCode
      <4>4. \A j \in DOMAIN mods[r[q]].recs : mods'[r[q]].recs[j] = mods[r[q]].recs[j]
        BY <4>3, <2>12
      <4>5. AllPtrs(r[q])
        BY <3>1, <3>2
      <4>6. QED
        BY <4>3, <4>4, <4>5, <2>12 DEF AllPtrs, HasPtrs
    <3>3. QED
      BY <3>1, <3>2, <2>4, <2>12 DEF ResolvedTo
  <2>19. ResolvedHere'
    <3>1. ASSUME NEW j \in DOMAIN mods[m].recs, j < i PROVE HasPtrs(mods'[m].recs[j])
      <4>1. i \in Nat /\ j \in Int
        BY <2>1, <1>1, ActiveCode DEF m
      <4>2. mods'[m].recs[j] = mods[m].recs[j]
        BY <4>1, <3>1, <2>2, <2>12
      <4>3. HasPtrs(mods[m].recs[j])
        BY <3>1, <1>1 DEF LinkInv, AtInv, ResolvedHere, m, i
      <4>4. QED
        BY <4>2, <4>3
    <3>2. ASSUME NEW l \in DOMAIN code, l < k + 1 PROVE code[l].ptr # NoPtr
      <4>1. CASE l = k
        BY <4>1, <2>7, <2>8
      <4>2. CASE l # k
        <5>1. l \in Nat /\ k \in Nat
          BY <2>1, <2>2, <2>8
        <5>2. l < k
          BY <5>1, <4>2, <3>2
        <5>3. Code[l].ptr # NoPtr
          BY <5>2, <1>1, <2>2, <2>8 DEF LinkInv, AtInv, ResolvedHere, Code, m, i, k
        <5>4. QED
          BY <5>3, <4>2, <2>8
      <4>3. QED
        BY <4>1, <4>2
    <3>3. QED
      BY <3>1, <3>2, <2>2, <2>4, <2>10, <2>12 DEF ResolvedHere, HasPtrs
  <2>20. AtInv'
    <3>1. at'.m \in Nat \ {0} /\ at'.i \in Nat \ {0} /\ at'.k \in Nat \ {0}
          /\ {"m", "i", "k", "ptr"} \subseteq DOMAIN at'
      BY <2>1, <2>4
    <3>2. QED
      BY <3>1, <2>3, <2>18, <2>19 DEF AtInv
  <2>21. LibsInv'
    BY <2>3 DEF LinkInv, LibsInv, Libs!PathOf
  <2>22. SymbolsInv'
    BY <1>1, <2>3, <2>12, <2>14, <2>15, SymbolsStay
  <2>23. QED
    BY <2>12, <2>13, <2>15, <2>16, <2>20, <2>21, <2>22 DEF LinkInv
<1>5. QED
  BY <1>2, <1>3, <1>4 DEF ResolveInstruction

\* resolve_code goes on behind code that is resolved, round the ring.
LEMMA NextCodeKeeps ==
  ASSUME LinkInv, NextCode PROVE LinkInv'
<1> DEFINE m == at.m
           recs == mods[m].recs
           N == Len(mods)
           rest == {j \in at.i + 1 .. Len(recs) : recs[j].rec = "code"}
<1>1. /\ phase = "resolving" /\ ~AtInstruction
      /\ UNCHANGED <<files, why, mods, calls, symbols, fixed, libs, handles>>
  BY DEF NextCode, buildVars, exitVars
<1>2. /\ m \in DOMAIN mods /\ N \in Nat /\ DOMAIN mods = 1 .. N
      /\ Len(recs) \in Nat /\ DOMAIN recs = 1 .. Len(recs)
      /\ at.i \in Nat \ {0} /\ at.k \in Nat \ {0}
  BY <1>1, ActiveCode DEF LinkInv, AtInv
<1>3. PICK r, p : ResolvedTo(r, p)
  BY <1>1 DEF LinkInv, AtInv
<1>4. /\ IsRing(r, N, Links) /\ r[1] = 1 /\ p \in 1 .. N /\ r[p] = m
      /\ \A q \in 1 .. N : q < p => AllPtrs(r[q])
  BY <1>3 DEF ResolvedTo
<1>5. \A n \in DOMAIN mods : IsSeq(mods[n].recs) /\ DOMAIN mods[n].recs = 1 .. Len(mods[n].recs)
  <2>1. \A n \in DOMAIN mods : IsSeq(mods[n].recs)
    BY DEF LinkInv, ModsInv, LoadedModule
  <2>2. QED
    BY <2>1, SeqFacts
<1>6. ASSUME NEW n \in DOMAIN mods, NEW i \in DOMAIN mods[n].recs, mods[n].recs[i].rec = "code",
             NEW k \in DOMAIN mods[n].recs[i].code
      PROVE  ~(k < 1)
  <2>1. IsSeq(mods[n].recs[i].code)
    BY <1>6 DEF LinkInv, ModsInv, LoadedModule, LoadedRecord
  <2>2. DOMAIN mods[n].recs[i].code = 1 .. Len(mods[n].recs[i].code)
    BY <2>1, SeqFacts
  <2>3. QED
    BY <2>2
<1>7. ASSUME NEW j \in DOMAIN recs, j <= at.i PROVE HasPtrs(recs[j])
  <2>1. CASE j < at.i
    BY <2>1, <1>1 DEF LinkInv, AtInv, ResolvedHere
  <2>2. CASE j = at.i
    <3>1. SUFFICES ASSUME recs[j].rec = "code", NEW k \in DOMAIN recs[j].code
                   PROVE  recs[j].code[k].ptr # NoPtr
      BY DEF HasPtrs
    <3>2. AtCode
      BY <2>2, <3>1, <1>1, <1>2 DEF AtCode
    <3>3. ~(at.k <= Len(Code)) /\ Code = recs[j].code
      BY <2>2, <3>2, <1>1 DEF AtInstruction, Code
    <3>4. Len(Code) \in Nat /\ DOMAIN Code = 1 .. Len(Code)
      BY <3>2, <1>1, ActiveCode
    <3>5. k < at.k
      BY <3>1, <3>3, <3>4, <1>2
    <3>6. QED
      BY <3>1, <3>5, <2>2, <1>1 DEF LinkInv, AtInv, ResolvedHere
  <2>3. QED
    BY <2>1, <2>2, <1>2, <1>7
<1>8. Links' = Links /\ Len(mods') = N
  BY <1>1 DEF Links
<1>9. \A n : AllPtrs(n) => AllPtrs(n)'
  BY <1>1 DEF AllPtrs, HasPtrs
<1>10. \A n \in 1 .. N : Links[n] = mods[n].next
  BY <1>2 DEF Links
<1>11. \A j \in 1 .. N : Links[r[j]] = IF j < N THEN r[j + 1] ELSE 1
  BY <1>4 DEF IsRing
<1>12. \A i, j \in 1 .. N : r[i] = r[j] => i = j
  BY <1>4 DEF IsRing
<1>13. mods[m].next = IF p < N THEN r[p + 1] ELSE 1
  BY <1>2, <1>4, <1>10, <1>11
<1>14. CASE rest # {} /\ at' = [m |-> m, i |-> Min(rest), k |-> 1, ptr |-> NoPtr] /\ phase' = phase
  <2>1. Min(rest) \in rest /\ \A j \in rest : Min(rest) <= j
    <3>1. rest \in SUBSET Nat /\ rest # {}
      BY <1>2, <1>14
    <3> HIDE DEF rest
    <3>2. \E x \in rest : \A y \in rest : x <= y
      BY <3>1, SmallestNumber
    <3>3. QED
      BY <3>2 DEF Min
  <2>2. at'.m = m /\ at'.i = Min(rest) /\ at'.k = 1 /\ {"m", "i", "k", "ptr"} \subseteq DOMAIN at'
    BY <1>14
  <2>3. ResolvedTo(r, p)'
    BY <1>4, <1>8, <1>9, <2>2 DEF ResolvedTo
  <2>4. ResolvedHere'
    <3>1. ASSUME NEW j \in DOMAIN recs, j < Min(rest) PROVE HasPtrs(recs[j])
      <4>1. CASE j <= at.i
        BY <4>1, <1>7
      <4>2. CASE ~(j <= at.i)
        <5>1. j \notin rest
          <6>1. j \in 1 .. Len(recs)
            BY <1>2
          <6>2. Min(rest) \in at.i + 1 .. Len(recs)
            BY <2>1
          <6> HIDE DEF rest, recs
          <6>3. QED
            BY <2>1, <3>1, <6>1, <6>2
        <5>2. recs[j].rec # "code"
          BY <4>2, <5>1, <1>2
        <5>3. QED
          BY <5>2 DEF HasPtrs
      <4>3. QED
        BY <4>1, <4>2
    <3>2. SUFFICES ASSUME NEW j \in DOMAIN recs
                   PROVE  /\ j < Min(rest) => HasPtrs(recs[j])
                          /\ recs[j].rec = "code" => \A k \in DOMAIN recs[j].code : ~(k < 1)
      <4> HIDE DEF rest
      <4>1. mods'[at'.m].recs = recs
        BY <2>2, <1>1
      <4> HIDE DEF recs
      <4>2. QED
        BY <4>1, <2>2 DEF ResolvedHere
    <3>3. QED
      BY <3>1, <1>2, <1>6
  <2>5. phase' = "resolving" /\ at'.m \in Nat \ {0} /\ at'.i \in Nat \ {0}
    <3>1. phase' = "resolving"
      BY <1>1, <1>14
    <3>2. m \in Nat \ {0}
      BY <1>2
    <3>3. Min(rest) \in at.i + 1 .. Len(recs)
      BY <2>1
    <3> HIDE DEF m, recs, rest
    <3>4. Min(rest) \in Nat \ {0}
      BY <3>3, <1>2
    <3>5. QED
      BY <3>1, <3>2, <3>4, <2>2
  <2>6. AtInv'
    <3> HIDE DEF m, recs, rest
    <3>1. /\ at'.m \in Nat \ {0} /\ at'.i \in Nat \ {0} /\ at'.k \in Nat \ {0}
          /\ {"m", "i", "k", "ptr"} \subseteq DOMAIN at'
      BY <2>2, <2>5
    <3>2. ResolvedHere' /\ \E q, n : ResolvedTo(q, n)'
      BY <2>3, <2>4
    <3>3. QED
      BY <3>1, <3>2, <2>5 DEF AtInv
  <2>7. TypesInv'
    BY <1>1, <2>5 DEF LinkInv, TypesInv
  <2>8. QED
    BY <1>1, <2>5, <2>6, <2>7, RestStays DEF LinkInv
<1>15. ASSUME rest = {} PROVE AllPtrs(m)
  <2>1. ASSUME NEW j \in DOMAIN recs PROVE HasPtrs(recs[j])
    <3>1. CASE j <= at.i
      BY <3>1, <1>7
    <3>2. CASE ~(j <= at.i)
      <4>1. j \in at.i + 1 .. Len(recs) /\ j \notin rest
        BY <3>2, <1>2, <1>15
      <4>2. QED
        BY <4>1 DEF HasPtrs
    <3>3. QED
      BY <3>1, <3>2
  <2>2. QED
    BY <2>1 DEF AllPtrs
<1>16. CASE /\ rest = {} /\ mods[m].next # 1 /\ phase' = phase
            /\ at' = [m |-> mods[m].next, i |-> 1, k |-> 1, ptr |-> NoPtr]
  <2>1. p < N /\ mods[m].next = r[p + 1] /\ p + 1 \in 1 .. N
    BY <1>2, <1>4, <1>13, <1>16
  <2>2. at'.m = r[p + 1] /\ at'.i = 1 /\ at'.k = 1 /\ {"m", "i", "k", "ptr"} \subseteq DOMAIN at'
    BY <1>16, <2>1
  <2>3. ResolvedTo(r, p + 1)'
    <3>1. ASSUME NEW q \in 1 .. N, q < p + 1 PROVE AllPtrs(r[q])'
      <4>1. q < p \/ q = p
        BY <3>1, <1>2, <1>4
      <4>2. AllPtrs(r[q])
        BY <4>1, <1>4, <1>15, <1>16
      <4>3. QED
        BY <4>2, <1>9
    <3>2. QED
      BY <3>1, <1>4, <1>8, <2>1, <2>2 DEF ResolvedTo
  <2>4. r[p + 1] \in DOMAIN mods
    BY <2>1, <1>2, <1>4 DEF IsRing
  <2>5. ResolvedHere'
    <3>1. \A i \in DOMAIN mods[r[p + 1]].recs : ~(i < 1)
      <4>1. DOMAIN mods[r[p + 1]].recs = 1 .. Len(mods[r[p + 1]].recs)
        BY <2>4, <1>5
      <4>2. QED
        BY <4>1
    <3>2. QED
      BY <3>1, <2>2, <2>4, <1>1, <1>6 DEF ResolvedHere, HasPtrs
  <2>6. phase' = "resolving" /\ at'.m \in Nat \ {0}
    BY <2>2, <2>4, <1>1, <1>2, <1>16
  <2>7. AtInv'
    BY <2>2, <2>3, <2>5, <2>6 DEF AtInv
  <2>8. TypesInv'
    BY <1>1, <2>6 DEF LinkInv, TypesInv
  <2>9. QED
    BY <1>1, <2>6, <2>7, <2>8, RestStays DEF LinkInv
<1>17. CASE rest = {} /\ mods[m].next = 1 /\ phase' = "loaded" /\ at' = at
  <2>1. p = N
    <3>0. p \in 1 .. N /\ N \in Nat
      BY <1>2, <1>4
    <3>1. SUFFICES ASSUME p < N PROVE FALSE
      BY <3>0
    <3>2. r[p + 1] = r[1] /\ p + 1 \in 1 .. N /\ 1 \in 1 .. N
      BY <3>1, <1>2, <1>4, <1>13, <1>17
    <3>3. p + 1 = 1
      BY <3>2, <1>12
    <3>4. QED
      BY <3>3, <1>4
  <2>2. ASSUME NEW n \in DOMAIN mods PROVE AllPtrs(n)'
    <3>1. PICK q \in 1 .. N : r[q] = n
      BY <1>2, <1>4 DEF IsRing
    <3>2. q < p \/ q = p
      BY <2>1, <1>2
    <3>3. AllPtrs(n)
      BY <3>1, <3>2, <1>4, <1>15, <1>17
    <3>4. QED
      BY <3>3, <1>9
  <2>3. AtInv'
    BY <1>1, <1>17, <2>2 DEF LinkInv, AtInv
  <2>4. TypesInv'
    BY <1>1, <1>17 DEF LinkInv, TypesInv
  <2>5. QED
    BY <1>1, <1>17, <2>3, <2>4, RestStays DEF LinkInv
<1>18. QED
  BY <1>14, <1>16, <1>17 DEF NextCode

-----------------------------------------------------------------------------
(* The program, and the exit                                               *)

\* The program starts when the code of all modules is resolved (start_module).
LEMMA StartKeeps ==
  ASSUME LinkInv, Start PROVE LinkInv'
<1>1. phase = "loaded"
  BY DEF Start
<1>2. CASE Fails("main") /\ UNCHANGED <<libs, handles>>
  BY <1>1, <1>2, FailsAlone
<1>3. CASE phase' = "running" /\ UNCHANGED <<buildVars, why, mods, calls, at, exitVars>>
  <2>1. UNCHANGED <<files, why, mods, calls, at, symbols, fixed, libs, handles>>
    BY <1>3 DEF buildVars, exitVars
  <2>2. /\ FilesOK' /\ ModsInv' /\ RingInv' /\ NamesInv' /\ CallsInv' /\ FixupInv'
        /\ LibsInv' /\ SymbolsInv'
    BY <1>1, <1>3, <2>1, RestStays
  <2>3. TypesInv'
    BY <1>3, <2>1 DEF LinkInv, TypesInv
  <2>4. AtInv'
    BY <1>1, <1>3, <2>1 DEF LinkInv, AtInv, AllPtrs, HasPtrs
  <2>5. QED
    BY <2>2, <2>3, <2>4 DEF LinkInv
<1>4. QED
  BY <1>2, <1>3 DEF Start

\* The modules stay loaded to the end.
LEMMA ModulesStay ==
  ASSUME LinkInv, phase \in {"running", "collected", "closing"},
         phase' \in {"collected", "closing", "done"}, fixed' \in BOOLEAN,
         UNCHANGED <<files, why, mods, calls, at>>
  PROVE  /\ FilesOK' /\ TypesInv' /\ ModsInv' /\ RingInv' /\ NamesInv' /\ CallsInv' /\ FixupInv'
         /\ AtInv'
<1>1. FilesOK' /\ TypesInv'
  BY DEF LinkInv, FilesOK, TypesInv
<1>2. ModsInv' /\ RingInv'
  BY DEF LinkInv, ModsInv, RingInv, Links
<1>3. NamesInv'
  BY DEF LinkInv, NamesInv, Module_name
<1>4. CallsInv'
  BY DEF LinkInv, CallsInv
<1>5. FixupInv'
  BY DEF LinkInv, FixupInv
<1>6. AtInv'
  BY DEF LinkInv, AtInv
<1>7. QED
  BY <1>1, <1>2, <1>3, <1>4, <1>5, <1>6

\* The first collection of done_gc.
LEMMA FirstKeeps ==
  ASSUME LinkInv, FirstCollection PROVE LinkInv'
<1>1. /\ phase = "running" /\ phase' = "collected" /\ fixed' \in BOOLEAN
      /\ UNCHANGED <<files, why, mods, calls, at, symbols, libs, handles>>
  BY DEF FirstCollection, buildVars, linkVars
<1>2. /\ FilesOK' /\ TypesInv' /\ ModsInv' /\ RingInv' /\ NamesInv' /\ CallsInv' /\ FixupInv'
      /\ AtInv'
  BY <1>1, ModulesStay
<1>3. LibsInv'
  BY <1>1 DEF LinkInv, LibsInv, Libs!PathOf
<1>4. SymbolsInv'
  BY <1>1 DEF LinkInv, SymbolsInv, SymbolsOf
<1>5. QED
  BY <1>2, <1>3, <1>4 DEF LinkInv

\* The second collection of done_gc: a symbol that is finalised is not counted any more.
LEMMA SecondKeeps ==
  ASSUME LinkInv, SecondCollection PROVE LinkInv'
<1>1. phase = "collected" /\ UNCHANGED <<files, why, mods, calls, at>>
  BY DEF SecondCollection, buildVars, linkVars
<1>2. CASE phase' = "closing" /\ fixed' = FALSE /\ UNCHANGED <<symbols, libs, handles>>
  <2>1. /\ FilesOK' /\ TypesInv' /\ ModsInv' /\ RingInv' /\ NamesInv' /\ CallsInv' /\ FixupInv'
        /\ AtInv'
    BY <1>1, <1>2, ModulesStay
  <2>2. LibsInv'
    BY <1>2 DEF LinkInv, LibsInv, Libs!PathOf
  <2>3. SymbolsInv'
    BY <1>1, <1>2 DEF LinkInv, SymbolsInv
  <2>4. QED
    BY <2>1, <2>2, <2>3 DEF LinkInv
<1>3. ASSUME NEW s \in symbols, Libs!dynamic_release(s[3]), symbols' = symbols \ {s},
             UNCHANGED <<phase, fixed>>
      PROVE  LinkInv'
  <2> DEFINE p == s[3]
  <2>1. fixed' \in BOOLEAN
    BY <1>3 DEF LinkInv, TypesInv
  <2>2. /\ FilesOK' /\ TypesInv' /\ ModsInv' /\ RingInv' /\ NamesInv' /\ CallsInv' /\ FixupInv'
        /\ AtInv'
    BY <1>1, <1>3, <2>1, ModulesStay
  <2>3. \A t \in symbols : \E i \in DOMAIN libs : libs[i].path = t[3]
    BY <1>1 DEF LinkInv, SymbolsInv
  <2>4. \A i \in DOMAIN libs : libs[i].refcount = Cardinality(SymbolsOf(libs[i].path))
    BY <1>1 DEF LinkInv, SymbolsInv
  <2>5. \A q : IsFiniteSet(SymbolsOf(q)) /\ Cardinality(SymbolsOf(q)) \in Nat
    <3>1. IsFiniteSet(symbols)
      BY DEF LinkInv, SymbolsInv
    <3>2. \A q : SymbolsOf(q) \subseteq symbols
      BY DEF SymbolsOf
    <3>3. QED
      BY <3>1, <3>2, FS_Subset, FS_CardinalityType
  <2>6. s \in SymbolsOf(p)
    BY DEF SymbolsOf
  <2>7. /\ IsFiniteSet(SymbolsOf(p) \ {s})
        /\ Cardinality(SymbolsOf(p) \ {s}) = Cardinality(SymbolsOf(p)) - 1
    BY <2>5, <2>6, FS_RemoveElement
  <2>8. /\ LibsInv'
        /\ \A i \in DOMAIN libs : libs[i].path # p \/ libs[i].refcount > 1
             => \E j \in DOMAIN libs' : libs'[j].path = libs[i].path
        /\ \A j \in DOMAIN libs' : \E i \in DOMAIN libs :
             /\ libs[i].path = libs'[j].path
             /\ libs'[j].refcount = libs[i].refcount - IF libs[i].path = p THEN 1 ELSE 0
    <3>1. LibsInv /\ (\E i \in DOMAIN libs : libs[i].path = p) /\ Libs!dynamic_release(p)
      BY <1>3, <2>3 DEF LinkInv
    <3> HIDE DEF p
    <3>2. QED
      BY ONLY <3>1, ReleaseCounts
  <2> HIDE DEF p
  <2>9. IsFiniteSet(symbols')
    <3>1. IsFiniteSet(symbols)
      BY DEF LinkInv, SymbolsInv
    <3>2. QED
      BY <3>1, <1>3, FS_RemoveElement
  <2>10. \A t \in symbols' : /\ t[1] \in DOMAIN mods' /\ t[2] \in Nat
                             /\ \A k \in DOMAIN calls' : calls'[k].m = t[1] => t[2] < calls'[k].i
    BY <1>1, <1>3 DEF LinkInv, SymbolsInv
  <2>11. ASSUME NEW t \in symbols' PROVE \E j \in DOMAIN libs' : libs'[j].path = t[3]
    <3>1. t \in symbols /\ t # s
      BY <1>3
    <3>2. PICK i \in DOMAIN libs : libs[i].path = t[3]
      BY <2>3, <3>1
    <3>3. t[3] = p => libs[i].refcount > 1
      <4>1. SUFFICES ASSUME t[3] = p PROVE libs[i].refcount > 1
        OBVIOUS
      <4>2. t \in SymbolsOf(p) \ {s}
        BY <4>1, <3>1 DEF SymbolsOf
      <4>3. Cardinality(SymbolsOf(p) \ {s}) # 0 /\ Cardinality(SymbolsOf(p) \ {s}) \in Nat
        BY <4>2, <2>7, FS_EmptySet, FS_CardinalityType
      <4>4. libs[i].refcount = Cardinality(SymbolsOf(p)) /\ Cardinality(SymbolsOf(p)) \in Nat
        BY <4>1, <3>2, <2>4, <2>5
      <4>5. QED
        BY <4>3, <4>4, <2>7
    <3>4. QED
      BY <3>2, <3>3, <2>8
  <2>12. ASSUME NEW j \in DOMAIN libs'
         PROVE  libs'[j].refcount = Cardinality({t \in symbols' : t[3] = libs'[j].path})
    <3> DEFINE q == libs'[j].path
               T == {t \in symbols' : t[3] = q}
    <3>1. PICK i \in DOMAIN libs : /\ libs[i].path = q
                                   /\ libs'[j].refcount = libs[i].refcount - IF q = p THEN 1 ELSE 0
      BY <2>8
    <3>2. libs[i].refcount = Cardinality(SymbolsOf(q)) /\ Cardinality(SymbolsOf(q)) \in Nat
      BY <3>1, <2>4, <2>5
    <3>3. CASE q = p
      <4>1. T = SymbolsOf(p) \ {s}
        BY <3>3, <1>3 DEF SymbolsOf
      <4>2. QED
        BY <4>1, <3>1, <3>2, <3>3, <2>7
    <3>4. CASE q # p
      <4>1. T = SymbolsOf(q)
        BY <3>4, <1>3 DEF SymbolsOf, p
      <4>2. libs'[j].refcount = Cardinality(SymbolsOf(q))
        BY <3>1, <3>2, <3>4
      <4>3. QED
        BY <4>1, <4>2
    <3>5. QED
      BY <3>3, <3>4
  <2>13. SymbolsInv'
    BY <1>1, <1>3, <2>9, <2>10, <2>11, <2>12 DEF SymbolsInv, SymbolsOf
  <2>14. QED
    BY <2>2, <2>8, <2>13 DEF LinkInv
<1>4. QED
  BY <1>2, <1>3 DEF SecondCollection

\* done_dynamic closes what is left.
LEMMA DoneKeeps ==
  ASSUME LinkInv, DoneDynamic PROVE LinkInv'
<1>1. /\ phase = "closing" /\ phase' \in {"closing", "done"}
      /\ UNCHANGED <<files, why, mods, calls, at, symbols, fixed>>
  BY DEF DoneDynamic, buildVars, linkVars
<1>2. /\ FilesOK' /\ TypesInv' /\ ModsInv' /\ RingInv' /\ NamesInv' /\ CallsInv' /\ FixupInv'
      /\ AtInv'
  <2>1. fixed' \in BOOLEAN
    BY <1>1 DEF LinkInv, TypesInv
  <2>2. QED
    BY <1>1, <2>1, ModulesStay
<1>3. CASE libs = <<>> /\ phase' = "done" /\ UNCHANGED <<libs, handles>>
  <2>1. LibsInv'
    BY <1>3 DEF LinkInv, LibsInv, Libs!PathOf
  <2>2. SymbolsInv'
    BY <1>1, <1>3 DEF LinkInv, SymbolsInv
  <2>3. QED
    BY <1>2, <2>1, <2>2 DEF LinkInv
<1>4. CASE libs # <<>> /\ Libs!dynamic_close(1) /\ phase' = phase
  <2>1. 1 \in DOMAIN libs
    <3>1. IsSeq(libs)
      BY DEF LinkInv, LibsInv
    <3>2. Len(libs) \in Nat /\ DOMAIN libs = 1 .. Len(libs) /\ \E S : libs \in Seq(S)
      BY <3>1, SeqFacts
    <3>3. Len(libs) # 0
      BY <3>2, <1>4, EmptySeq
    <3>4. QED
      BY <3>2, <3>3
  <2>2. LibsInv'
    BY <2>1, <1>4, CloseRemoves DEF LinkInv
  <2>3. SymbolsInv'
    BY <1>1, <1>4 DEF LinkInv, SymbolsInv
  <2>4. QED
    BY <1>2, <2>2, <2>3 DEF LinkInv
<1>5. QED
  BY <1>3, <1>4 DEF DoneDynamic

\* The files are there before they are read.
LEMMA WriteKeeps ==
  ASSUME LinkInv, WriteFiles PROVE LinkInv'
<1>1. FilesOK' /\ UNCHANGED <<phase, why, mods, calls, at, symbols, fixed, libs, handles>>
  BY DEF WriteFiles, linkVars, exitVars
<1>2. TypesInv' /\ ModsInv' /\ RingInv'
  BY <1>1 DEF LinkInv, TypesInv, ModsInv, RingInv, Links
<1>3. NamesInv' /\ CallsInv' /\ FixupInv'
  BY <1>1 DEF LinkInv, NamesInv, Module_name, CallsInv, FixupInv
<1>4. AtInv'
  <2>1. phase' = "building"
    BY <1>1 DEF WriteFiles
  <2>2. QED
    BY <1>1, <2>1 DEF LinkInv, AtInv, WriteFiles
<1>5. LibsInv'
  BY <1>1 DEF LinkInv, LibsInv, Libs!PathOf
<1>6. SymbolsInv'
  BY <1>1 DEF LinkInv, SymbolsInv, SymbolsOf
<1>7. QED
  BY <1>1, <1>2, <1>3, <1>4, <1>5, <1>6 DEF LinkInv

\* The invariant is about the state alone.
LEMMA StutterKeeps ==
  ASSUME LinkInv, UNCHANGED vars PROVE LinkInv'
<1>1. UNCHANGED <<files, phase, why, mods, calls, at, symbols, fixed, libs, handles>>
  BY DEF vars, buildVars, linkVars, exitVars
<1>2. FilesOK' /\ TypesInv' /\ ModsInv' /\ RingInv'
  BY <1>1 DEF LinkInv, FilesOK, TypesInv, ModsInv, RingInv, Links
<1>3. NamesInv' /\ CallsInv' /\ FixupInv'
  BY <1>1 DEF LinkInv, NamesInv, Module_name, CallsInv, FixupInv
<1>4. AtInv'
  <2>1. Links' = Links
    BY <1>1 DEF Links
  <2>2. QED
    <3>1. ResolvedHere => ResolvedHere'
      BY <1>1 DEF ResolvedHere
    <3>2. \A m : AllPtrs(m) => AllPtrs(m)'
      BY <1>1 DEF AllPtrs
    <3>3. \A r, p : ResolvedTo(r, p) => ResolvedTo(r, p)'
      BY <1>1, <2>1, <3>2 DEF ResolvedTo
    <3>4. QED
      BY <1>1, <3>1, <3>2, <3>3 DEF LinkInv, AtInv
<1>5. LibsInv'
  BY <1>1 DEF LinkInv, LibsInv, Libs!PathOf
<1>6. SymbolsInv'
  BY <1>1 DEF LinkInv, SymbolsInv, SymbolsOf
<1>7. QED
  BY <1>2, <1>3, <1>4, <1>5, <1>6 DEF LinkInv

\* Before anything is loaded.
LEMMA InitHolds ==
  ASSUME LinkInit PROVE LinkInv
<1>1. /\ FilesOK /\ phase = "building" /\ why = NoName /\ mods = <<>> /\ calls = <<>>
      /\ at = [m |-> 1, i |-> 1, k |-> 1, ptr |-> NoPtr] /\ symbols = {} /\ fixed = TRUE
      /\ libs = <<>> /\ handles = [p \in DOMAIN Exported |-> 0]
  BY DEF LinkInit, Libs!DynInit
<1>2. IsSeq(<<>>) /\ Len(<<>>) = 0 /\ DOMAIN <<>> = {}
  BY DEF IsSeq
<1>3. TypesInv
  BY <1>1 DEF TypesInv
<1>4. ModsInv /\ NamesInv /\ FixupInv
  BY <1>1, <1>2 DEF ModsInv, NamesInv, FixupInv
<1>5. RingInv
  <2> DEFINE r == [k \in 1 .. 0 |-> 1]
  <2>1. 1 .. 0 = {}
    OBVIOUS
  <2>2. IsRing(r, 0, Links)
    BY <2>1 DEF IsRing
  <2>3. QED
    BY <2>2, <1>1, <1>2 DEF RingInv
<1>6. CallsInv
  BY <1>1, <1>2 DEF CallsInv
<1>7. AtInv
  BY <1>1 DEF AtInv
<1>8. LibsInv
  BY <1>1, <1>2 DEF LibsInv
<1>9. SymbolsInv
  BY <1>1, <1>2, FS_EmptySet DEF SymbolsInv
<1>10. QED
  BY <1>1, <1>3, <1>4, <1>5, <1>6, <1>7, <1>8, <1>9 DEF LinkInv

\* What the loader keeps to in every state, from any files on: the modules form one ring, an
\* import is without its fixup only while a call is still to come to it, the instructions
\* have their pointers up to the one that resolve_code is at, and a library on the list
\* counts the symbols that are of it.
THEOREM LinkInvariant == LinkSpec => []LinkInv
<1>1. LinkInit => LinkInv
  BY InitHolds
<1>2. LinkInv /\ [LinkNext]_vars => LinkInv'
  <2> SUFFICES ASSUME LinkInv, [LinkNext]_vars PROVE LinkInv'
    OBVIOUS
  <2>1. CASE WriteFiles
    BY <2>1, WriteKeeps
  <2>2. CASE StartModule(Modules[1])
    BY <2>2, StartModuleKeeps
  <2>3. CASE Load
    <3>1. CASE LoadImported
      BY <3>1, LoadImportedKeeps
    <3>2. CASE ResolveImport
      BY <3>2, ImportKeeps
    <3>3. CASE ResolveDynamic
      BY <3>3, DynamicKeeps
    <3>4. CASE ResolveStatic
      BY <3>4, StaticKeeps
    <3>5. CASE SkipRecord
      BY <3>5, SkipKeeps
    <3>6. CASE ReadReturns
      BY <3>6, ReadReturnsKeeps
    <3>7. CASE FollowImport
      BY <3>7, FollowKeeps
    <3>8. CASE ResolveInstruction
      BY <3>8, InstructionKeeps
    <3>9. CASE NextCode
      BY <3>9, NextCodeKeeps
    <3>10. CASE Start
      BY <3>10, StartKeeps
    <3>11. QED
      BY <2>3, <3>1, <3>2, <3>3, <3>4, <3>5, <3>6, <3>7, <3>8, <3>9, <3>10 DEF Load
  <2>4. CASE Exit
    <3>1. CASE FirstCollection
      BY <3>1, FirstKeeps
    <3>2. CASE SecondCollection
      BY <3>2, SecondKeeps
    <3>3. CASE DoneDynamic
      BY <3>3, DoneKeeps
    <3>4. QED
      BY <2>4, <3>1, <3>2, <3>3 DEF Exit
  <2>5. CASE UNCHANGED vars
    BY <2>5, StutterKeeps
  <2>6. QED
    BY <2>1, <2>2, <2>3, <2>4, <2>5 DEF LinkNext
<1>3. QED
  BY <1>1, <1>2, PTL DEF LinkSpec

-----------------------------------------------------------------------------
(* What follows from it                                                    *)

\* The invariant gives the types.
LEMMA TypesFollow ==
  ASSUME LinkInv PROVE TypeOK
<1>1. \A m \in DOMAIN mods : mods[m].next \in DOMAIN mods
  <2>1. PICK r : IsRing(r, Len(mods), Links)
    BY DEF LinkInv, RingInv
  <2>2. DOMAIN mods = 1 .. Len(mods) /\ Len(mods) \in Nat
    BY SeqFacts DEF LinkInv, ModsInv
  <2>3. ASSUME NEW m \in DOMAIN mods PROVE mods[m].next \in DOMAIN mods
    <3>1. PICK k \in 1 .. Len(mods) : r[k] = m
      BY <2>1, <2>2 DEF IsRing
    <3>2. Links[m] = IF k < Len(mods) THEN r[k + 1] ELSE r[1]
      BY <2>1, <3>1 DEF IsRing
    <3>3. k < Len(mods) => k + 1 \in 1 .. Len(mods)
      BY <2>2
    <3>4. 1 \in 1 .. Len(mods)
      BY <2>2
    <3>5. r \in [1 .. Len(mods) -> 1 .. Len(mods)]
      BY <2>1 DEF IsRing
    <3>6. Links[m] \in 1 .. Len(mods)
      BY <3>2, <3>3, <3>4, <3>5
    <3>7. QED
      BY <3>6, <2>2 DEF Links
  <2>4. QED
    BY <2>3
<1>2. \A c \in ToSet(calls) : c.m \in DOMAIN mods /\ c.i \in 1 .. Len(mods[c.m].recs) + 1
  BY DEF LinkInv, CallsInv, ToSet
<1>3. handles \in [DOMAIN Exported -> Nat]
  BY DEF LinkInv, LibsInv
<1>4. QED
  BY <1>1, <1>2, <1>3 DEF LinkInv, TypesInv, TypeOK

\* The invariant says that nothing is unresolved when code runs.
LEMMA ResolvedFollow ==
  ASSUME LinkInv PROVE NothingUnresolved
<1> SUFFICES ASSUME phase \in {"loaded", "running"}
             PROVE  /\ \A in \in Instructions : in.ptr # NoPtr
                    /\ \A m \in DOMAIN mods : \A r \in ToSet(mods[m].recs) :
                         r.rec = "import" => r.fixup # NoPtr
  BY DEF NothingUnresolved
<1>1. DOMAIN calls = {}
  <2>1. Len(calls) = 0 /\ IsSeq(calls)
    BY DEF LinkInv, CallsInv
  <2>2. DOMAIN calls = 1 .. 0
    BY <2>1, SeqFacts
  <2>3. QED
    BY <2>2
<1>2. \A m \in DOMAIN mods : \A r \in ToSet(mods[m].recs) : r.rec = "import" => r.fixup # NoPtr
  BY <1>1 DEF LinkInv, FixupInv, ToSet
<1>3. ASSUME NEW m \in DOMAIN mods, NEW i \in ValueRecords(m), NEW k \in DOMAIN CodeOf(m, i)
      PROVE  CodeOf(m, i)[k].ptr # NoPtr
  <2> DEFINE recs == mods[m].recs
  <2>1. i \in DOMAIN recs /\ recs[i].rec = "value"
    BY DEF ValueRecords
  <2>2. recs[i].code \in DOMAIN recs /\ recs[recs[i].code].rec = "code"
    BY <2>1 DEF LinkInv, ModsInv, LoadedModule, LoadedRecord
  <2>3. HasPtrs(recs[recs[i].code])
    BY <2>2 DEF LinkInv, AtInv, AllPtrs
  <2>4. QED
    BY <2>2, <2>3 DEF HasPtrs, CodeOf
<1>4. \A in \in Instructions : in.ptr # NoPtr
  BY <1>3 DEF Instructions
<1>5. QED
  BY <1>2, <1>4

\* The invariant says that a module is loaded once.
LEMMA OneFollows ==
  ASSUME LinkInv PROVE OneCopy
<1>1. IsSeq(mods) /\ \E r : IsRing(r, Len(mods), Links)
  BY DEF LinkInv, ModsInv, RingInv
<1>2. \A m \in DOMAIN mods : ToSet(Ring(m)) = DOMAIN mods
  BY <1>1, ModuleFound
<1>3. QED
  BY <1>2 DEF LinkInv, NamesInv, OneCopy

\* The invariant says that symbols are counted.
LEMMA CountsFollow ==
  ASSUME LinkInv PROVE SymbolsCounted
<1>1. phase \notin {"failed", "closing", "done"} =>
        \A i \in DOMAIN libs :
          libs[i].refcount = Cardinality({s \in symbols : s[3] = libs[i].path})
  BY DEF LinkInv, SymbolsInv, SymbolsOf
<1>2. phase \notin {"closing", "done"} => \A s \in symbols : handles[s[3]] = 1
  <2>1. SUFFICES ASSUME phase \notin {"closing", "done"}, NEW s \in symbols PROVE handles[s[3]] = 1
    OBVIOUS
  <2>2. PICK i \in DOMAIN libs : libs[i].path = s[3]
    BY <2>1 DEF LinkInv, SymbolsInv
  <2>3. s[3] \in DOMAIN Exported
    BY <2>2 DEF LinkInv, LibsInv
  <2>4. QED
    BY <2>2, <2>3 DEF LinkInv, LibsInv
<1>3. ASSUME NEW p \in DOMAIN handles PROVE handles[p] <= IF phase = "done" THEN 0 ELSE 1
  <2>1. p \in DOMAIN Exported
    BY DEF LinkInv, LibsInv
  <2>2. handles[p] = IF \E i \in DOMAIN libs : libs[i].path = p THEN 1 ELSE 0
    BY <2>1 DEF LinkInv, LibsInv
  <2>3. phase = "done" => DOMAIN libs = {}
    BY DEF LinkInv, SymbolsInv
  <2>4. QED
    BY <2>2, <2>3
<1>4. QED
  BY <1>1, <1>2, <1>3 DEF SymbolsCounted

\* Before code runs, every module that is reached has been read once, however the imports go
\* round, every import has its fixup and every instruction its pointer, and the ring that
\* load_module and find_module go round is closed and misses no module.
THEOREM EveryModuleLinkedOnce == LinkSpec => []LinkedOnce
<1>1. LinkInv => LinkedOnce
  BY TypesFollow, ResolvedFollow, OneFollows DEF LinkedOnce
<1>2. QED
  BY <1>1, LinkInvariant, PTL

\* A library is open as long as a symbol of it lives and counted once for each, is opened once
\* whatever names it is loaded by (dynamic_open), and is closed at the end (done_dynamic).
THEOREM EverySymbolCounted == LinkSpec => []SymbolsCounted
<1>1. LinkInv => SymbolsCounted
  BY CountsFollow
<1>2. QED
  BY <1>1, LinkInvariant, PTL
=============================================================================
