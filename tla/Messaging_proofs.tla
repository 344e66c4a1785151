-------------------------- MODULE Messaging_proofs --------------------------
(***************************************************************************)
(* Proofs about Messaging, for any processes, handlers, messages and       *)
(* names, any number of repeated sends and lost connections and any        *)
(* faults.                                                                 *)
(***************************************************************************)
EXTENDS Messaging, FiniteSetTheorems, SequenceTheorems, TLAPS

USE MaxAssumption

-----------------------------------------------------------------------------
(* Taking the first element out of a sequence leaves its tail.             *)
LEMMA FirstRemoved ==
  ASSUME NEW S, NEW s \in Seq(S), s # <<>>
  PROVE  /\ s[1] \in S /\ RemoveAt(s, 1) = Tail(s) /\ Tail(s) \in Seq(S)
         /\ ToSet(s) = ToSet(Tail(s)) \cup {s[1]}
<1>1. Len(s) \in Nat /\ Len(s) > 0 /\ s[1] \in S
  OBVIOUS
<1>2. SubSeq(s, 1, 0) = <<>>
  BY SubSeqEmpty
<1>3. Tail(s) = SubSeq(s, 2, Len(s)) /\ Tail(s) \in Seq(S)
  BY TailIsSubSeq, HeadTailProperties
<1>4. RemoveAt(s, 1) = <<>> \o Tail(s)
  BY <1>1, <1>2, <1>3 DEF RemoveAt
<1>5. RemoveAt(s, 1) = Tail(s)
  BY <1>3, <1>4, ConcatEmptySeq
<1>6. /\ DOMAIN Tail(s) = 1 .. Len(s) - 1 /\ DOMAIN s = 1 .. Len(s)
      /\ \A i \in 1 .. Len(s) - 1 : Tail(s)[i] = s[i + 1]
  BY <1>1, HeadTailProperties
<1>7. ASSUME NEW x \in ToSet(s) PROVE x \in ToSet(Tail(s)) \cup {s[1]}
  <2>1. PICK i \in 1 .. Len(s) : s[i] = x
    BY <1>6 DEF ToSet
  <2>2. CASE i = 1
    BY <2>1, <2>2
  <2>3. CASE i > 1
    <3>1. i - 1 \in 1 .. Len(s) - 1 /\ (i - 1) + 1 = i
      BY <1>1, <2>3
    <3>2. Tail(s)[i - 1] = x
      BY <1>6, <2>1, <3>1
    <3> QED
      BY <1>6, <3>1, <3>2 DEF ToSet
  <2> QED
    BY <2>2, <2>3
<1>8. ASSUME NEW x \in ToSet(Tail(s)) PROVE x \in ToSet(s)
  <2>1. PICK i \in 1 .. Len(s) - 1 : Tail(s)[i] = x
    BY <1>6 DEF ToSet
  <2>2. i + 1 \in 1 .. Len(s)
    BY <1>1
  <2> QED
    BY <1>6, <2>1, <2>2 DEF ToSet
<1>9. s[1] \in ToSet(s)
  BY <1>1, <1>6 DEF ToSet
<1> QED
  BY <1>1, <1>3, <1>5, <1>7, <1>8, <1>9

LEMMA Appended ==
  ASSUME NEW S, NEW s \in Seq(S), NEW e \in S
  PROVE  /\ Append(s, e) \in Seq(S)
         /\ DOMAIN Append(s, e) = 1 .. Len(s) + 1 /\ DOMAIN s = 1 .. Len(s)
         /\ \A i \in 1 .. Len(s) : Append(s, e)[i] = s[i]
         /\ Append(s, e)[Len(s) + 1] = e
         /\ ToSet(Append(s, e)) = ToSet(s) \cup {e}
<1> DEFINE r == Append(s, e)
<1>1. /\ r \in Seq(S) /\ DOMAIN r = 1 .. Len(s) + 1 /\ DOMAIN s = 1 .. Len(s)
      /\ \A i \in 1 .. Len(s) : r[i] = s[i]
      /\ r[Len(s) + 1] = e /\ Len(s) \in Nat
  BY AppendProperties
<1> HIDE DEF r
<1>2. ASSUME NEW x PROVE x \in ToSet(r) <=> x \in ToSet(s) \cup {e}
  BY <1>1 DEF ToSet
<1> QED
  BY <1>1, <1>2 DEF r

(* Handing a message out does not change what a handler began and what is  *)
(* under way to it, taken together.                                        *)
LEMMA HandedOut ==
  ASSUME NEW S, NEW s \in Seq(S), NEW t \in Seq(S), t # <<>>
  PROVE  Append(s, t[1]) \o Tail(t) = s \o t
<1>1. t[1] \in S /\ Tail(t) \in Seq(S) /\ <<t[1]>> \in Seq(S)
  BY FirstRemoved
<1>2. Append(s, t[1]) = s \o <<t[1]>>
  BY <1>1, AppendIsConcat
<1>3. (s \o <<t[1]>>) \o Tail(t) = s \o (<<t[1]>> \o Tail(t))
  BY <1>1, ConcatAssociative
<1>4. <<t[1]>> \o Tail(t) = t
  <2> DEFINE u == <<t[1]>>
             v == Tail(t)
             r == u \o v
  <2>1. u \in Seq(S) /\ Len(u) = 1 /\ u[1] = t[1]
    BY <1>1
  <2>2. v \in Seq(S) /\ Len(v) = Len(t) - 1 /\ \A i \in 1 .. Len(t) - 1 : v[i] = t[i + 1]
    BY HeadTailProperties
  <2> HIDE DEF u, v
  <2>3. /\ r \in Seq(S) /\ Len(r) = Len(t)
        /\ \A i \in 1 .. Len(t) : r[i] = IF i <= 1 THEN u[i] ELSE v[i - 1]
    <3>1. /\ r \in Seq(S) /\ Len(r) = Len(u) + Len(v)
          /\ \A i \in 1 .. Len(u) + Len(v) :
               r[i] = IF i <= Len(u) THEN u[i] ELSE v[i - Len(u)]
      <4>1. u \in Seq(S) /\ v \in Seq(S)
        BY <2>1, <2>2
      <4> QED
        BY <4>1, ConcatProperties
    <3> HIDE DEF r
    <3>2. Len(u) + Len(v) = Len(t) /\ Len(u) = 1
      BY <2>1, <2>2
    <3> QED
      BY <3>1, <3>2
  <2> HIDE DEF r
  <2>4. \A i \in 1 .. Len(t) : r[i] = t[i]
    <3> SUFFICES ASSUME NEW i \in 1 .. Len(t) PROVE r[i] = t[i]
      OBVIOUS
    <3>1. CASE i = 1
      BY <2>1, <2>3, <3>1
    <3>2. CASE i > 1
      <4>1. i - 1 \in 1 .. Len(t) - 1 /\ (i - 1) + 1 = i
        BY <3>2
      <4> QED
        BY <2>2, <2>3, <3>2, <4>1
    <3> QED
      BY <3>1, <3>2
  <2>5. r = t
    BY <2>3, <2>4, SeqEqual
  <2> QED
    BY <2>5 DEF r, u, v
<1> QED
  BY <1>2, <1>3, <1>4

LEMMA ConcatAppended ==
  ASSUME NEW S, NEW s \in Seq(S), NEW u \in Seq(S), NEW e \in S
  PROVE  s \o Append(u, e) = Append(s \o u, e)
<1>1. <<e>> \in Seq(S) /\ s \o u \in Seq(S)
  BY ConcatProperties
<1>2. Append(u, e) = u \o <<e>>
  BY AppendIsConcat
<1>3. Append(s \o u, e) = (s \o u) \o <<e>>
  BY <1>1, AppendIsConcat
<1>4. (s \o u) \o <<e>> = s \o (u \o <<e>>)
  BY <1>1, ConcatAssociative
<1> QED
  BY <1>2, <1>3, <1>4

-----------------------------------------------------------------------------
(* Within is a preorder that respects what is appended.                    *)
LEMMA WithinTransitive ==
  ASSUME NEW S, NEW r \in Seq(S), NEW s \in Seq(S), NEW t \in Seq(S),
         Within(r, s), Within(s, t)
  PROVE  Within(r, t)
<1>1. PICK f \in [DOMAIN r -> DOMAIN s] :
        \A i, j \in DOMAIN r : r[i] = s[f[i]] /\ (i < j => f[i] < f[j])
  BY DEF Within
<1>2. PICK g \in [DOMAIN s -> DOMAIN t] :
        \A i, j \in DOMAIN s : s[i] = t[g[i]] /\ (i < j => g[i] < g[j])
  BY DEF Within
<1> DEFINE at == [i \in DOMAIN r |-> g[f[i]]]
<1>3. at \in [DOMAIN r -> DOMAIN t]
  BY <1>1, <1>2
<1>4. \A i, j \in DOMAIN r : r[i] = t[at[i]] /\ (i < j => at[i] < at[j])
  BY <1>1, <1>2
<1> QED
  BY <1>3, <1>4 DEF Within

LEMMA WithinAppended ==
  ASSUME NEW S, NEW t \in Seq(S), NEW e \in S
  PROVE  Within(t, Append(t, e))
<1> DEFINE at == [i \in DOMAIN t |-> i]
           r == Append(t, e)
<1>1. /\ DOMAIN r = 1 .. Len(t) + 1 /\ DOMAIN t = 1 .. Len(t) /\ Len(t) \in Nat
      /\ \A i \in 1 .. Len(t) : r[i] = t[i]
  BY Appended
<1> HIDE DEF r
<1>2. at \in [DOMAIN t -> DOMAIN r]
  BY <1>1
<1>3. \A i, j \in DOMAIN t : t[i] = r[at[i]] /\ (i < j => at[i] < at[j])
  BY <1>1
<1>4. Within(t, r)
  BY <1>2, <1>3 DEF Within
<1> QED
  BY <1>4 DEF r

LEMMA WithinBothAppended ==
  ASSUME NEW S, NEW s \in Seq(S), NEW t \in Seq(S), NEW e \in S, Within(s, t)
  PROVE  Within(Append(s, e), Append(t, e))
<1> DEFINE u == Append(s, e)
           v == Append(t, e)
<1>1. /\ DOMAIN u = 1 .. Len(s) + 1 /\ DOMAIN s = 1 .. Len(s) /\ Len(s) \in Nat
      /\ \A i \in 1 .. Len(s) : u[i] = s[i]
      /\ u[Len(s) + 1] = e
  BY Appended
<1>2. /\ DOMAIN v = 1 .. Len(t) + 1 /\ DOMAIN t = 1 .. Len(t) /\ Len(t) \in Nat
      /\ \A i \in 1 .. Len(t) : v[i] = t[i]
      /\ v[Len(t) + 1] = e
  BY Appended
<1> HIDE DEF u, v
<1>3. PICK f \in [DOMAIN s -> DOMAIN t] :
        \A i, j \in DOMAIN s : s[i] = t[f[i]] /\ (i < j => f[i] < f[j])
  BY DEF Within
<1> DEFINE at == [i \in DOMAIN u |-> IF i <= Len(s) THEN f[i] ELSE Len(t) + 1]
<1>4. at \in [DOMAIN u -> DOMAIN v]
  BY <1>1, <1>2, <1>3
<1>5. \A i, j \in DOMAIN u : u[i] = v[at[i]] /\ (i < j => at[i] < at[j])
  BY <1>1, <1>2, <1>3
<1>6. Within(u, v)
  BY <1>4, <1>5 DEF Within
<1> QED
  BY <1>6 DEF u, v

LEMMA WithinPrefix ==
  ASSUME NEW S, NEW s \in Seq(S), NEW u \in Seq(S)
  PROVE  Within(s, s \o u) /\ s \o u \in Seq(S)
<1> DEFINE at == [i \in DOMAIN s |-> i]
           r == s \o u
<1>1. /\ r \in Seq(S) /\ Len(r) = Len(s) + Len(u) /\ Len(s) \in Nat /\ Len(u) \in Nat
      /\ \A i \in 1 .. Len(s) + Len(u) : r[i] = IF i <= Len(s) THEN s[i] ELSE u[i - Len(s)]
  BY ConcatProperties
<1> HIDE DEF r
<1>2. DOMAIN r = 1 .. Len(s) + Len(u) /\ DOMAIN s = 1 .. Len(s)
  BY <1>1
<1>3. at \in [DOMAIN s -> DOMAIN r]
  BY <1>1, <1>2
<1>4. \A i, j \in DOMAIN s : s[i] = r[at[i]] /\ (i < j => at[i] < at[j])
  BY <1>1, <1>2
<1>5. Within(s, r)
  BY <1>3, <1>4 DEF Within
<1> QED
  BY <1>1, <1>5 DEF r

LEMMA WithinSkipped ==
  ASSUME NEW S, NEW s \in Seq(S), NEW u \in Seq(S), u # <<>>
  PROVE  Within(s \o Tail(u), s \o u)
<1> DEFINE v == Tail(u)
           q == s \o v
           r == s \o u
           at == [i \in DOMAIN q |-> IF i <= Len(s) THEN i ELSE i + 1]
<1>1. /\ v \in Seq(S) /\ Len(v) = Len(u) - 1 /\ \A i \in 1 .. Len(u) - 1 : v[i] = u[i + 1]
  BY HeadTailProperties
<1> HIDE DEF v
<1>2. /\ r \in Seq(S) /\ Len(r) = Len(s) + Len(u) /\ Len(s) \in Nat /\ Len(u) \in Nat
      /\ \A i \in 1 .. Len(s) + Len(u) : r[i] = IF i <= Len(s) THEN s[i] ELSE u[i - Len(s)]
  BY ConcatProperties
<1>3. /\ q \in Seq(S) /\ Len(q) = Len(s) + Len(v)
      /\ \A i \in 1 .. Len(s) + Len(v) : q[i] = IF i <= Len(s) THEN s[i] ELSE v[i - Len(s)]
  BY <1>1, ConcatProperties
<1> HIDE DEF q, r
<1>4. DOMAIN r = 1 .. Len(s) + Len(u) /\ DOMAIN q = 1 .. Len(s) + Len(u) - 1
  BY <1>1, <1>2, <1>3
<1>5. at \in [DOMAIN q -> DOMAIN r]
  BY <1>2, <1>4
<1>6. \A i, j \in DOMAIN q : i < j => at[i] < at[j]
  BY <1>2, <1>4
<1>7. ASSUME NEW i \in DOMAIN q PROVE q[i] = r[at[i]]
  <2>1. CASE i <= Len(s)
    BY <1>1, <1>2, <1>3, <1>4, <2>1
  <2>2. CASE i > Len(s)
    <3>1. /\ i - Len(s) \in 1 .. Len(u) - 1 /\ (i - Len(s)) + 1 = (i + 1) - Len(s)
          /\ i + 1 \in 1 .. Len(s) + Len(u)
      BY <1>2, <1>4, <2>2
    <3>2. q[i] = v[i - Len(s)]
      <4>1. i \in 1 .. Len(s) + Len(v)
        BY <1>1, <1>2, <1>4
      <4> QED
        BY <1>2, <1>3, <2>2, <4>1
    <3>3. r[i + 1] = u[(i + 1) - Len(s)]
      BY <1>2, <1>4, <2>2, <3>1
    <3>4. v[i - Len(s)] = u[(i + 1) - Len(s)]
      BY <1>1, <3>1
    <3>5. at[i] = i + 1
      BY <2>2
    <3> QED
      BY <3>2, <3>3, <3>4, <3>5
  <2> QED
    BY <1>2, <1>4, <2>1, <2>2
<1>8. Within(q, r)
  BY <1>5, <1>6, <1>7 DEF Within
<1> QED
  BY <1>8 DEF q, r, v

-----------------------------------------------------------------------------
(* How often a message occurs in a sequence.                               *)
LEMMA TimesType ==
  ASSUME NEW S, NEW s \in Seq(S), NEW x
  PROVE  IsFiniteSet({i \in DOMAIN s : s[i] = x}) /\ Times(s, x) \in Nat
<1>1. Len(s) \in Nat /\ DOMAIN s = 1 .. Len(s)
  OBVIOUS
<1>2. IsFiniteSet(1 .. Len(s))
  BY <1>1, FS_Interval
<1>3. {i \in DOMAIN s : s[i] = x} \in SUBSET (1 .. Len(s))
  BY <1>1
<1>4. IsFiniteSet({i \in DOMAIN s : s[i] = x})
  BY <1>2, <1>3, FS_Subset
<1> QED
  BY <1>4, FS_CardinalityType DEF Times

LEMMA TimesOfNone ==
  ASSUME NEW x
  PROVE  Times(<<>>, x) = 0
<1>1. {i \in DOMAIN <<>> : <<>>[i] = x} = {}
  OBVIOUS
<1> QED
  BY <1>1, FS_EmptySet DEF Times

LEMMA TimesOfAppended ==
  ASSUME NEW S, NEW s \in Seq(S), NEW e \in S, NEW x
  PROVE  Times(Append(s, e), x) = Times(s, x) + IF x = e THEN 1 ELSE 0
<1> DEFINE r == Append(s, e)
           A == {i \in DOMAIN s : s[i] = x}
           B == {i \in DOMAIN r : r[i] = x}
<1>1. /\ DOMAIN r = 1 .. Len(s) + 1 /\ DOMAIN s = 1 .. Len(s) /\ Len(s) \in Nat
      /\ \A i \in 1 .. Len(s) : r[i] = s[i]
      /\ r[Len(s) + 1] = e
  BY Appended
<1> HIDE DEF r
<1>2. IsFiniteSet(A) /\ Cardinality(A) \in Nat
  BY TimesType DEF Times
<1>3. Len(s) + 1 \notin A
  BY <1>1
<1>4. B = IF x = e THEN A \cup {Len(s) + 1} ELSE A
  <2>1. ASSUME NEW i PROVE i \in B <=> i \in A \/ (x = e /\ i = Len(s) + 1)
    <3>1. i \in DOMAIN r <=> i \in DOMAIN s \/ i = Len(s) + 1
      BY <1>1
    <3> QED
      BY <1>1, <3>1
  <2> QED
    BY <2>1
<1> HIDE DEF A, B
<1>5. Cardinality(B) = Cardinality(A) + IF x = e THEN 1 ELSE 0
  <2>1. Cardinality(A \cup {Len(s) + 1}) = Cardinality(A) + 1
    BY <1>2, <1>3, FS_AddElement
  <2> QED
    BY <1>2, <1>4, <2>1
<1> QED
  BY <1>5 DEF A, B, r, Times

LEMMA TimesOfTail ==
  ASSUME NEW S, NEW s \in Seq(S), s # <<>>, NEW x
  PROVE  Times(s, x) = Times(Tail(s), x) + IF x = s[1] THEN 1 ELSE 0
<1> DEFINE r == Tail(s)
           A == {i \in DOMAIN r : r[i] = x}
           B == {i \in DOMAIN s : s[i] = x} \ {1}
           f == [i \in A |-> i + 1]
<1>1. /\ r \in Seq(S) /\ Len(s) \in Nat /\ Len(s) > 0
      /\ DOMAIN r = 1 .. Len(s) - 1 /\ DOMAIN s = 1 .. Len(s)
      /\ \A i \in 1 .. Len(s) - 1 : r[i] = s[i + 1]
  BY HeadTailProperties
<1> HIDE DEF r
<1>2. IsFiniteSet(A) /\ Cardinality(A) \in Nat
  BY <1>1, TimesType DEF Times
<1>3. f \in Bijection(A, B)
  <2>1. f \in [A -> B]
    BY <1>1
  <2>2. \A i, j \in A : f[i] = f[j] => i = j
    BY <1>1
  <2>3. ASSUME NEW j \in B PROVE \E i \in A : f[i] = j
    <3>1. j - 1 \in 1 .. Len(s) - 1 /\ (j - 1) + 1 = j
      BY <1>1
    <3>2. j - 1 \in A
      BY <1>1, <3>1
    <3> QED
      BY <3>1, <3>2
  <2> QED
    BY <2>1, <2>2, <2>3 DEF Bijection, Injection, IsInjective, Surjection
<1>4. Cardinality(B) = Cardinality(A)
  BY <1>2, <1>3, FS_Bijection DEF ExistsBijection
<1>5. IsFiniteSet({i \in DOMAIN s : s[i] = x}) /\ Times(s, x) \in Nat
  BY TimesType
<1>6. Cardinality(B) = Times(s, x) - IF x = s[1] THEN 1 ELSE 0
  <2> DEFINE C == {i \in DOMAIN s : s[i] = x}
  <2>1. 1 \in C <=> x = s[1]
    BY <1>1
  <2>2. IsFiniteSet(C) /\ Times(s, x) = Cardinality(C) /\ B = C \ {1}
    BY <1>5 DEF Times
  <2> HIDE DEF B, C
  <2>3. Cardinality(C \ {1}) = IF 1 \in C THEN Cardinality(C) - 1 ELSE Cardinality(C)
    BY <2>2, FS_RemoveElement
  <2> QED
    BY <1>5, <2>1, <2>2, <2>3
<1> HIDE DEF A, B
<1>7. Times(r, x) = Cardinality(A)
  BY DEF A, Times
<1> QED
  BY <1>2, <1>4, <1>5, <1>6, <1>7 DEF r

-----------------------------------------------------------------------------
(* What starting handlers changes.                                         *)
LEMMA StartEffect ==
  ASSUME running \in [Handlers -> [Messages -> Nat]], started \in [Handlers -> Seq(Messages)],
         NEW H \in SUBSET Handlers, NEW m \in Messages, Start(H, m)
  PROVE  /\ running' \in [Handlers -> [Messages -> Nat]]
         /\ started' \in [Handlers -> Seq(Messages)] /\ failed' = failed
         /\ \A h \in Handlers, q \in Messages \ {m} : running'[h][q] = running[h][q]
         /\ \A h \in H : running'[h][m] = running[h][m] + 1
         /\ \A h \in Handlers \ H : running'[h][m] = running[h][m]
         /\ \A h \in Handlers \ H : started'[h] = started[h]
         /\ \A h \in H : /\ started'[h] = Append(started[h], m)
                         /\ ToSet(started'[h]) = ToSet(started[h]) \cup {m}
<1>1. /\ running' = [h \in Handlers |-> [running[h] EXCEPT ![m] = @ + IF h \in H THEN 1 ELSE 0]]
      /\ started' = [h \in Handlers |-> IF h \in H THEN Append(started[h], m) ELSE started[h]]
      /\ failed' = failed
  BY DEF Start
<1>2. ASSUME NEW h \in Handlers
      PROVE  /\ running'[h] \in [Messages -> Nat]
             /\ \A q \in Messages :
                  running'[h][q] = running[h][q] + IF h \in H /\ q = m THEN 1 ELSE 0
  <2>1. running'[h] = [running[h] EXCEPT ![m] = @ + IF h \in H THEN 1 ELSE 0]
    BY <1>1
  <2> QED
    BY <2>1
<1>3. ASSUME NEW h \in Handlers
      PROVE  /\ started'[h] \in Seq(Messages)
             /\ h \notin H => started'[h] = started[h]
             /\ h \in H => /\ started'[h] = Append(started[h], m)
                           /\ ToSet(started'[h]) = ToSet(started[h]) \cup {m}
  BY <1>1, Appended
<1>4. running' \in [Handlers -> [Messages -> Nat]]
  <2>1. running' = [h \in Handlers |-> running'[h]]
    BY <1>1
  <2> QED
    BY <1>2, <2>1
<1>5. started' \in [Handlers -> Seq(Messages)]
  <2>1. started' = [h \in Handlers |-> started'[h]]
    BY <1>1
  <2> QED
    BY <1>3, <2>1
<1> QED
  BY <1>1, <1>2, <1>3, <1>4, <1>5

-----------------------------------------------------------------------------
(* A step that neither hands out nor sends a message.                      *)
LEMMA QuietStep ==
  ASSUME IInv, TypeOK', UNCHANGED <<fixed, inbox, work, awaits, owed, wire>>,
         \A m \in Messages : Copies(m)' >= Copies(m),
         \A m \in Messages : publish[m] # "idle" => publish'[m] # "idle",
         \A h \in Handlers : Listens(h) => Listens(h)'
  PROVE  CopiesAreSent' /\ WorkIsAwaited' /\ OwedListen' /\ OwedIsKept' /\ ArrivesInOrder'
<1> USE DEF fixed, work
<1>1. CopiesAreSent'
  <2> SUFFICES ASSUME NEW h \in Handlers, NEW m \in Messages
               PROVE  running'[h][m] + Times(inbox'[home'[h]], m) <= Copies(m)'
    BY DEF CopiesAreSent
  <2>1. running[h][m] + Times(inbox[home[h]], m) <= Copies(m)
    BY DEF IInv, CopiesAreSent
  <2>2. home[h] \in Processes /\ inbox[home[h]] \in Seq(Messages) /\ running[h][m] \in Nat
    BY DEF IInv, TypeOK
  <2>3. Times(inbox[home[h]], m) \in Nat
    BY <2>2, TimesType
  <2>4. Copies(m) \in Nat
    BY DEF IInv, TypeOK, Copies
  <2>5. Copies(m)' \in Int
    BY DEF TypeOK, Copies
  <2> QED
    BY <2>1, <2>2, <2>3, <2>4, <2>5
<1>2. WorkIsAwaited'
  BY DEF IInv, WorkIsAwaited
<1>3. OwedListen' /\ OwedIsKept'
  BY DEF IInv, TypeOK, OwedListen, OwedIsKept, Concerns
<1>4. ArrivesInOrder'
  BY DEF IInv, ArrivesInOrder
<1> QED
  BY <1>1, <1>2, <1>3, <1>4

LEMMA QuietSteps ==
  ASSUME IInv, NEW h, NEW m, NEW p,
         \/ h \in Handlers /\ (Subscribe(h) \/ Confirm(h) \/ SubscribeFails(h))
         \/ m \in Messages /\ (EmitEnds(m) \/ Publish(m) \/ PublishFails(m))
         \/ p \in Processes /\ (Reconnect(p) \/ Quit(p))
         \/ UNCHANGED vars
  PROVE  IInv'
<1> USE DEF fixed, redis, bus, work
<1>1. TypeOK'
  <2>1. CASE h \in Handlers /\ Subscribe(h)
    BY <2>1 DEF Subscribe, IInv, TypeOK
  <2>2. CASE h \in Handlers /\ Confirm(h)
    BY <2>2 DEF Confirm, IInv, TypeOK
  <2>3. CASE h \in Handlers /\ SubscribeFails(h)
    BY <2>3 DEF SubscribeFails, IInv, TypeOK
  <2>4. CASE m \in Messages /\ EmitEnds(m)
    BY <2>4 DEF EmitEnds, IInv, TypeOK
  <2>5. CASE m \in Messages /\ Publish(m)
    BY <2>5 DEF Publish, IInv, TypeOK
  <2>6. CASE m \in Messages /\ PublishFails(m)
    BY <2>6 DEF PublishFails, IInv, TypeOK
  <2>7. CASE p \in Processes /\ Reconnect(p)
    BY <2>7 DEF Reconnect, IInv, TypeOK
  <2>8. CASE p \in Processes /\ Quit(p)
    BY <2>8 DEF Quit, IInv, TypeOK
  <2>9. CASE UNCHANGED vars
    BY <2>9 DEF vars, IInv, TypeOK
  <2> QED
    BY <2>1, <2>2, <2>3, <2>4, <2>5, <2>6, <2>7, <2>8, <2>9
<1>2. UNCHANGED <<fixed, inbox, work, awaits, owed, wire>>
  BY DEF Subscribe, Confirm, SubscribeFails, EmitEnds, Publish, PublishFails, Reconnect, Quit, vars
<1>3. /\ \A q \in Messages : Copies(q)' >= Copies(q)
      /\ \A q \in Messages : publish[q] # "idle" => publish'[q] # "idle"
  <2>1. CASE h \in Handlers /\ Subscribe(h)
    BY <2>1 DEF Subscribe, IInv, TypeOK, Copies
  <2>2. CASE h \in Handlers /\ Confirm(h)
    BY <2>2 DEF Confirm, IInv, TypeOK, Copies
  <2>3. CASE h \in Handlers /\ SubscribeFails(h)
    BY <2>3 DEF SubscribeFails, IInv, TypeOK, Copies
  <2>4. CASE m \in Messages /\ EmitEnds(m)
    BY <2>4 DEF EmitEnds, IInv, TypeOK, Copies
  <2>5. CASE m \in Messages /\ Publish(m)
    BY <2>5 DEF Publish, IInv, TypeOK, Copies
  <2>6. CASE m \in Messages /\ PublishFails(m)
    BY <2>6 DEF PublishFails, IInv, TypeOK, Copies
  <2>7. CASE p \in Processes /\ Reconnect(p)
    BY <2>7 DEF Reconnect, IInv, TypeOK, Copies
  <2>8. CASE p \in Processes /\ Quit(p)
    BY <2>8 DEF Quit, IInv, TypeOK, Copies
  <2>9. CASE UNCHANGED vars
    BY <2>9 DEF vars, IInv, TypeOK, Copies
  <2> QED
    BY <2>1, <2>2, <2>3, <2>4, <2>5, <2>6, <2>7, <2>8, <2>9
<1>4. \A g \in Handlers : Listens(g) => Listens(g)'
  BY DEF Subscribe, Confirm, SubscribeFails, EmitEnds, Publish, PublishFails, Reconnect, Quit,
         vars, IInv, TypeOK, Listens
<1>5. PublishAwaitsHandlers'
  <2>1. CASE h \in Handlers /\ Subscribe(h)
    BY <2>1 DEF Subscribe, IInv, TypeOK, PublishAwaitsHandlers
  <2>2. CASE h \in Handlers /\ Confirm(h)
    BY <2>2 DEF Confirm, IInv, TypeOK, PublishAwaitsHandlers
  <2>3. CASE h \in Handlers /\ SubscribeFails(h)
    BY <2>3 DEF SubscribeFails, IInv, TypeOK, PublishAwaitsHandlers
  <2>4. CASE m \in Messages /\ EmitEnds(m)
    <3> SUFFICES ASSUME NEW q \in Messages, publish'[q] = "ok", NEW g \in Handlers
                 PROVE  /\ <<g, q>> \notin failed
                        /\ q \in ToSet(started[g]) => running[g][q] = 0
      BY <2>4 DEF EmitEnds, PublishAwaitsHandlers
    <3>1. CASE publish[q] = "ok"
      BY <2>4, <3>1 DEF EmitEnds, IInv, PublishAwaitsHandlers
    <3>2. CASE publish[q] # "ok"
      <4>1. q = m /\ Resolves(m)
        BY <2>4, <3>2 DEF EmitEnds, IInv, TypeOK
      <4>2. q \in ToSet(started[g]) \/ <<g, q>> \in failed => g \in awaits[q]
        BY <2>4 DEF EmitEnds, IInv, WorkIsAwaited
      <4> QED
        BY <4>1, <4>2 DEF Resolves
    <3> QED
      BY <3>1, <3>2
  <2>5. CASE m \in Messages /\ Publish(m)
    BY <2>5 DEF Publish, IInv, TypeOK, PublishAwaitsHandlers
  <2>6. CASE m \in Messages /\ PublishFails(m)
    BY <2>6 DEF PublishFails, IInv, TypeOK, PublishAwaitsHandlers
  <2>7. CASE p \in Processes /\ Reconnect(p)
    BY <2>7 DEF Reconnect, IInv, TypeOK, PublishAwaitsHandlers
  <2>8. CASE p \in Processes /\ Quit(p)
    BY <2>8 DEF Quit, IInv, TypeOK, PublishAwaitsHandlers
  <2>9. CASE UNCHANGED vars
    BY <2>9 DEF vars, IInv, TypeOK, PublishAwaitsHandlers
  <2> QED
    BY <2>1, <2>2, <2>3, <2>4, <2>5, <2>6, <2>7, <2>8, <2>9
<1>6. CopiesAreSent' /\ WorkIsAwaited' /\ OwedListen' /\ OwedIsKept' /\ ArrivesInOrder'
  BY <1>1, <1>2, <1>3, <1>4, QuietStep
<1> QED
  BY <1>1, <1>5, <1>6 DEF IInv

-----------------------------------------------------------------------------
(* A handler that ends was at work, so its publication did not return yet. *)
LEMMA HandlerEndsStep ==
  ASSUME IInv, NEW h \in Handlers, NEW m \in Messages, HandlerEnds(h, m)
  PROVE  IInv'
<1> USE DEF fixed, redis, bus
<1>1. /\ UNCHANGED <<fixed, redis, bus, started>>
      /\ failed \subseteq failed' /\ failed' \subseteq failed \cup {<<h, m>>}
      /\ running[h][m] > 0
  BY DEF HandlerEnds
<1>2. /\ running' \in [Handlers -> [Messages -> 0 .. 1 + MaxResend]]
      /\ \A g \in Handlers, q \in Messages : running'[g][q] <= running[g][q]
      /\ \A g \in Handlers, q \in Messages : running'[g][q] > 0 => running[g][q] > 0
      /\ \A g \in Handlers, q \in Messages : running[g][q] = 0 => running'[g][q] = 0
  BY DEF HandlerEnds, IInv, TypeOK
<1>3. TypeOK'
  <2>1. \A g \in Handlers, q \in Messages : running'[g][q] > 0 => name'[g] = name'[q]
    BY <1>1, <1>2 DEF IInv, TypeOK
  <2>2. failed' \subseteq Handlers \X Messages
    BY <1>1 DEF IInv, TypeOK
  <2> QED
    BY <1>1, <1>2, <2>1, <2>2 DEF IInv, TypeOK
<1>4. CopiesAreSent'
  <2> SUFFICES ASSUME NEW g \in Handlers, NEW q \in Messages
               PROVE  running'[g][q] + Times(inbox[home[g]], q) <= Copies(q)
    BY <1>1 DEF CopiesAreSent, Copies
  <2>1. running[g][q] + Times(inbox[home[g]], q) <= Copies(q)
    BY DEF IInv, CopiesAreSent
  <2>2. home[g] \in Processes /\ inbox[home[g]] \in Seq(Messages)
    BY DEF IInv, TypeOK
  <2>3. Times(inbox[home[g]], q) \in Nat
    BY <2>2, TimesType
  <2>4. Copies(q) \in Nat /\ running[g][q] \in Nat /\ running'[g][q] \in Nat
    BY <1>2 DEF IInv, TypeOK, Copies
  <2> QED
    BY <1>2, <2>1, <2>3, <2>4
<1>5. m \in ToSet(started[h])
  BY <1>1 DEF IInv, WorkIsAwaited
<1>6. WorkIsAwaited'
  BY <1>1, <1>2, <1>5 DEF IInv, WorkIsAwaited
<1>7. PublishAwaitsHandlers'
  <2>1. ~ (adapter = "in-memory" /\ publish[m] = "ok")
    <3>1. running[h][m] # 0
      BY <1>1 DEF IInv, TypeOK
    <3> QED
      BY <1>5, <3>1 DEF IInv, PublishAwaitsHandlers
  <2> QED
    BY <1>1, <1>2, <2>1 DEF IInv, PublishAwaitsHandlers
<1>8. OwedListen' /\ OwedIsKept'
  BY <1>1 DEF IInv, OwedListen, OwedIsKept, Listens, Concerns
<1>9. ArrivesInOrder'
  BY <1>1 DEF IInv, ArrivesInOrder
<1> QED
  BY <1>3, <1>4, <1>6, <1>7, <1>8, <1>9 DEF IInv

(* A publication in memory starts handlers of a message nobody had begun.  *)
LEMMA EmitStep ==
  ASSUME IInv, NEW m \in Messages, Emit(m)
  PROVE  IInv'
<1> USE DEF fixed, redis
<1> DEFINE H == {h \in Handlers : listener[h] = "heard" /\ home[h] = home[m] /\ Concerns(h, m)}
<1>1. /\ adapter = "in-memory" /\ publish[m] = "idle"
      /\ publish' = [publish EXCEPT ![m] = "sending"]
      /\ awaits' = [awaits EXCEPT ![m] = H]
      /\ UNCHANGED <<fixed, redis, resent, wire, owed>>
      /\ Start(H, m) /\ H \in SUBSET Handlers
      /\ \A h \in H : name[h] = name[m]
  BY DEF Emit, Concerns
<1> HIDE DEF H
<1>2. running \in [Handlers -> [Messages -> Nat]] /\ started \in [Handlers -> Seq(Messages)]
  BY DEF IInv, TypeOK
<1>3. /\ running' \in [Handlers -> [Messages -> Nat]]
      /\ started' \in [Handlers -> Seq(Messages)] /\ failed' = failed
      /\ \A h \in Handlers, q \in Messages \ {m} : running'[h][q] = running[h][q]
      /\ \A h \in H : running'[h][m] = running[h][m] + 1
      /\ \A h \in Handlers \ H : running'[h][m] = running[h][m]
      /\ \A h \in Handlers \ H : started'[h] = started[h]
      /\ \A h \in H : /\ started'[h] = Append(started[h], m)
                      /\ ToSet(started'[h]) = ToSet(started[h]) \cup {m}
  BY <1>1, <1>2, StartEffect
<1>4. \A p \in Processes : inbox[p] = <<>> /\ inbox'[p] = <<>>
  BY <1>1 DEF IInv, WorkIsAwaited
<1>5. \A h \in Handlers, q \in Messages : Times(inbox[home[h]], q) = 0
  BY <1>4, TimesOfNone DEF IInv, TypeOK
<1>6. ASSUME NEW h \in Handlers
      PROVE  running[h][m] = 0 /\ running'[h][m] = IF h \in H THEN 1 ELSE 0
  <2>1. running[h][m] = 0
    BY <1>1, <1>2, <1>5 DEF IInv, CopiesAreSent, Copies
  <2>2. CASE h \in H
    BY <1>3, <2>1, <2>2
  <2>3. CASE h \notin H
    BY <1>3, <2>1, <2>3
  <2> QED
    BY <2>1, <2>2, <2>3
<1>7. \A h \in Handlers : m \notin ToSet(started[h]) /\ <<h, m>> \notin failed
  BY <1>1 DEF IInv, WorkIsAwaited
<1>8. TypeOK'
  <2>1. running' \in [Handlers -> [Messages -> 0 .. 1 + MaxResend]]
    <3> SUFFICES ASSUME NEW h \in Handlers, NEW q \in Messages
                 PROVE  running'[h][q] \in 0 .. 1 + MaxResend
      BY <1>3
    <3>1. running[h][q] \in 0 .. 1 + MaxResend
      BY DEF IInv, TypeOK
    <3>2. CASE q = m
      BY <1>6, <3>2
    <3>3. CASE q # m
      BY <1>3, <3>1, <3>3
    <3> QED
      BY <3>2, <3>3
  <2>2. \A h \in Handlers, q \in Messages : running'[h][q] > 0 => name'[h] = name'[q]
    <3> SUFFICES ASSUME NEW h \in Handlers, NEW q \in Messages, running'[h][q] > 0
                 PROVE  name[h] = name[q]
      BY <1>1
    <3>1. CASE q = m
      BY <1>1, <1>6, <3>1
    <3>2. CASE q # m
      <4>1. running[h][q] > 0
        BY <1>3, <3>2
      <4> QED
        BY <4>1 DEF IInv, TypeOK
    <3> QED
      BY <3>1, <3>2
  <2>3. /\ publish' \in [Messages -> {"idle", "sending", "ok", "error"}]
        /\ awaits' \in [Messages -> SUBSET Handlers]
    BY <1>1 DEF IInv, TypeOK
  <2> QED
    BY <1>1, <1>3, <2>1, <2>2, <2>3 DEF IInv, TypeOK
<1>9. CopiesAreSent'
  <2> SUFFICES ASSUME NEW h \in Handlers, NEW q \in Messages
               PROVE  running'[h][q] + Times(inbox[home[h]], q) <= Copies(q)'
    BY <1>1 DEF CopiesAreSent
  <2>1. running[h][q] <= Copies(q)
    BY <1>2, <1>5 DEF IInv, CopiesAreSent
  <2>2. resent \in Nat /\ running[h][q] \in Nat
    BY <1>2 DEF IInv, TypeOK
  <2>3. CASE q = m
    <3>1. Copies(q)' = resent + 1
      BY <1>1, <2>3 DEF IInv, TypeOK, Copies
    <3>2. running'[h][q] \in 0 .. 1
      BY <1>6, <2>3
    <3> QED
      BY <1>5, <2>2, <3>1, <3>2
  <2>4. CASE q # m
    <3>1. Copies(q)' = Copies(q)
      BY <1>1, <2>4 DEF IInv, TypeOK, Copies
    <3> QED
      BY <1>3, <1>5, <2>1, <2>2, <2>4, <3>1
  <2> QED
    BY <2>3, <2>4
<1>10. WorkIsAwaited'
  <2> SUFFICES ASSUME NEW h \in Handlers, NEW q \in Messages
               PROVE  /\ running'[h][q] > 0 => q \in ToSet(started'[h])
                      /\ q \in ToSet(started'[h]) \/ <<h, q>> \in failed' =>
                           h \in awaits'[q] /\ publish'[q] # "idle"
    BY <1>1, <1>4 DEF WorkIsAwaited
  <2>1. /\ running[h][q] > 0 => q \in ToSet(started[h])
        /\ q \in ToSet(started[h]) \/ <<h, q>> \in failed =>
             h \in awaits[q] /\ publish[q] # "idle"
    BY <1>1 DEF IInv, WorkIsAwaited
  <2>2. CASE q = m
    <3>1. awaits'[q] = H /\ publish'[q] = "sending"
      BY <1>1, <2>2 DEF IInv, TypeOK
    <3>2. CASE h \in H
      BY <1>3, <2>2, <3>1, <3>2
    <3>3. CASE h \notin H
      <4>1. started'[h] = started[h] /\ running'[h][m] = 0 /\ failed' = failed
        BY <1>3, <1>6, <3>3
      <4> QED
        BY <1>7, <2>2, <4>1
    <3> QED
      BY <3>2, <3>3
  <2>3. CASE q # m
    <3>1. awaits'[q] = awaits[q] /\ publish'[q] = publish[q] /\ running'[h][q] = running[h][q]
      BY <1>1, <1>2, <1>3, <2>3 DEF IInv, TypeOK
    <3> QED
      BY <1>3, <2>1, <2>3, <3>1
  <2> QED
    BY <2>2, <2>3
<1>11. PublishAwaitsHandlers'
  <2> SUFFICES ASSUME NEW h \in Handlers, NEW q \in Messages, publish'[q] = "ok"
               PROVE  /\ <<h, q>> \notin failed'
                      /\ q \in ToSet(started'[h]) => running'[h][q] = 0
    BY DEF PublishAwaitsHandlers
  <2>1. q # m /\ publish[q] = "ok"
    BY <1>1 DEF IInv, TypeOK
  <2>2. /\ <<h, q>> \notin failed
        /\ q \in ToSet(started[h]) => running[h][q] = 0
    BY <1>1, <2>1 DEF IInv, PublishAwaitsHandlers
  <2>3. running'[h][q] = running[h][q] /\ failed' = failed
    BY <1>3, <2>1
  <2>4. q \in ToSet(started'[h]) => q \in ToSet(started[h])
    BY <1>3, <2>1
  <2> QED
    BY <2>2, <2>3, <2>4
<1>12. OwedListen' /\ OwedIsKept'
  <2>1. \A h \in Handlers : ToSet(started[h]) \subseteq ToSet(started'[h])
    BY <1>3
  <2> QED
    BY <1>1, <2>1 DEF IInv, TypeOK, OwedListen, OwedIsKept, Listens, Concerns
<1>13. ArrivesInOrder'
  BY <1>1 DEF ArrivesInOrder
<1> QED
  BY <1>8, <1>9, <1>10, <1>11, <1>12, <1>13 DEF IInv

(* What Redis takes is appended to its order and to every inbox it reaches. *)
LEMMA ReachStep ==
  ASSUME IInv, NEW m \in Messages, Reach(m)
  PROVE  IInv'
<1> USE DEF fixed, work
<1>1. /\ adapter = "redis" /\ publish[m] = "sending"
      /\ inbox' = [p \in Processes |-> IF p \in Reached(m) THEN Append(inbox[p], m) ELSE inbox[p]]
      /\ wire' = Append(wire, m)
      /\ owed' = owed \cup {<<h, m>> : h \in {g \in Handlers :
                              Listens(g) /\ Concerns(g, m) /\ home[g] \in Reached(m)}}
      /\ UNCHANGED <<fixed, listener, channels, link, dropped, awaits, work>>
  BY DEF Reach
<1>2. /\ publish' \in [Messages -> {"idle", "sending", "ok", "error"}]
      /\ resent \in 0 .. MaxResend /\ resent' \in 0 .. MaxResend
      /\ \A q \in Messages : Copies(q) \in Nat /\ Copies(q)' \in Nat /\ Copies(q)' >= Copies(q)
      /\ Copies(m)' >= Copies(m) + 1
      /\ publish'[m] # "idle" /\ \A q \in Messages \ {m} : publish'[q] = publish[q]
  <2>1. CASE publish' = [publish EXCEPT ![m] = "ok"] /\ UNCHANGED resent
    BY <1>1, <2>1 DEF IInv, TypeOK, Copies
  <2>2. CASE resent < MaxResend /\ resent' = resent + 1 /\ UNCHANGED publish
    BY <1>1, <2>2 DEF IInv, TypeOK, Copies
  <2> QED
    BY <2>1, <2>2 DEF Reach
<1>3. /\ inbox \in [Processes -> Seq(Messages)] /\ wire \in Seq(Messages)
      /\ running \in [Handlers -> [Messages -> Nat]]
      /\ started \in [Handlers -> Seq(Messages)] /\ home \in [Handlers \cup Messages -> Processes]
  BY DEF IInv, TypeOK
<1>4. ASSUME NEW p \in Processes
      PROVE  /\ inbox'[p] \in Seq(Messages)
             /\ p \in Reached(m) => /\ inbox'[p] = Append(inbox[p], m)
                                    /\ ToSet(inbox'[p]) = ToSet(inbox[p]) \cup {m}
             /\ p \notin Reached(m) => inbox'[p] = inbox[p]
  BY <1>1, <1>3, Appended
<1>5. TypeOK'
  <2>1. inbox' \in [Processes -> Seq(Messages)]
    BY <1>1, <1>4
  <2>2. wire' \in Seq(Messages)
    BY <1>1, <1>3, Appended
  <2>3. owed' \subseteq Handlers \X Messages
    BY <1>1 DEF IInv, TypeOK
  <2> QED
    BY <1>1, <1>2, <2>1, <2>2, <2>3 DEF IInv, TypeOK
<1>6. CopiesAreSent'
  <2> SUFFICES ASSUME NEW h \in Handlers, NEW q \in Messages
               PROVE  running[h][q] + Times(inbox'[home[h]], q) <= Copies(q)'
    BY <1>1 DEF CopiesAreSent
  <2>1. running[h][q] + Times(inbox[home[h]], q) <= Copies(q)
    BY DEF IInv, CopiesAreSent
  <2>2. home[h] \in Processes /\ inbox[home[h]] \in Seq(Messages) /\ running[h][q] \in Nat
    BY <1>3
  <2>3. Times(inbox[home[h]], q) \in Nat
    BY <2>2, TimesType
  <2>4. CASE home[h] \in Reached(m)
    <3>1. Times(inbox'[home[h]], q) = Times(inbox[home[h]], q) + IF q = m THEN 1 ELSE 0
      <4>1. inbox'[home[h]] = Append(inbox[home[h]], m)
        BY <1>4, <2>2, <2>4
      <4> QED
        BY <2>2, <4>1, TimesOfAppended
    <3> QED
      BY <1>2, <2>1, <2>2, <2>3, <3>1
  <2>5. CASE home[h] \notin Reached(m)
    <3>1. inbox'[home[h]] = inbox[home[h]]
      BY <1>4, <2>2, <2>5
    <3>2. Copies(q)' >= Copies(q) /\ Copies(q)' \in Nat /\ Copies(q) \in Nat
      BY <1>2
    <3> QED
      BY <2>1, <2>2, <2>3, <3>1, <3>2
  <2> QED
    BY <2>4, <2>5
<1>7. WorkIsAwaited'
  BY <1>1 DEF IInv, WorkIsAwaited
<1>8. PublishAwaitsHandlers'
  BY <1>1 DEF PublishAwaitsHandlers
<1>9. OwedListen'
  BY <1>1 DEF IInv, OwedListen, Listens, Concerns
<1>10. OwedIsKept'
  <2> SUFFICES ASSUME NEW d \in owed'
               PROVE  d[2] \in ToSet(started[d[1]]) \cup ToSet(inbox'[home[d[1]]])
    BY <1>1 DEF OwedIsKept
  <2>1. CASE d \in owed
    <3>1. d[1] \in Handlers /\ d[2] \in ToSet(started[d[1]]) \cup ToSet(inbox[home[d[1]]])
      BY <2>1 DEF IInv, TypeOK, OwedIsKept
    <3>2. home[d[1]] \in Processes
      BY <1>3, <3>1
    <3> QED
      BY <1>4, <3>1, <3>2
  <2>2. CASE d \notin owed
    <3>1. PICK h \in Handlers : d = <<h, m>> /\ home[h] \in Reached(m)
      BY <1>1, <2>2
    <3>2. home[h] \in Processes
      BY <1>3
    <3> QED
      BY <1>4, <3>1, <3>2
  <2> QED
    BY <2>1, <2>2
<1>11. ArrivesInOrder'
  <2> SUFFICES ASSUME NEW h \in Handlers
               PROVE  Within(started[h] \o inbox'[home[h]], wire')
    BY <1>1 DEF ArrivesInOrder
  <2> DEFINE s == started[h]
             u == inbox[home[h]]
             r == s \o u
  <2>1. s \in Seq(Messages) /\ u \in Seq(Messages) /\ home[h] \in Processes
    BY <1>3
  <2>2. Within(r, wire)
    BY <1>1 DEF IInv, ArrivesInOrder
  <2>3. r \in Seq(Messages)
    BY <2>1, WithinPrefix
  <2>4. CASE home[h] \in Reached(m)
    <3>1. inbox'[home[h]] = Append(u, m)
      BY <1>4, <2>1, <2>4
    <3>2. s \o Append(u, m) = Append(r, m)
      <4> HIDE DEF s, u
      <4> QED
        BY <2>1, ConcatAppended
    <3>3. Within(Append(r, m), Append(wire, m))
      BY <1>3, <2>2, <2>3, WithinBothAppended
    <3> QED
      BY <1>1, <3>1, <3>2, <3>3
  <2>5. CASE home[h] \notin Reached(m)
    <3>1. inbox'[home[h]] = u
      BY <1>4, <2>1, <2>5
    <3>2. Within(wire, Append(wire, m)) /\ Append(wire, m) \in Seq(Messages)
      BY <1>3, WithinAppended, Appended
    <3>3. Within(r, Append(wire, m))
      BY <1>3, <2>2, <2>3, <3>2, WithinTransitive
    <3> QED
      BY <1>1, <3>1, <3>3
  <2> QED
    BY <2>4, <2>5
<1> QED
  BY <1>5, <1>6, <1>7, <1>8, <1>9, <1>10, <1>11 DEF IInv

(* A message handed out is with its handlers instead of under way.         *)
LEMMA DeliverStep ==
  ASSUME IInv, NEW p \in Processes, Deliver(p)
  PROVE  IInv'
<1> USE DEF fixed, bus
<1> DEFINE m == inbox[p][1]
           H == {h \in Handlers : Hears(h, p, m)}
<1>1. /\ inbox[p] # <<>>
      /\ inbox' = [inbox EXCEPT ![p] = RemoveAt(@, 1)]
      /\ Start(H, m) /\ H \in SUBSET Handlers
      /\ \A h \in H : home[h] = p /\ name[h] = name[m]
      /\ \A h \in Handlers \ H : home[h] # p \/ name[h] # name[m] \/ ~ Listens(h)
      /\ UNCHANGED <<fixed, listener, channels, link, dropped, bus>>
  BY DEF Deliver, NextMessage, Position, Hears, Concerns
<1>2. /\ inbox \in [Processes -> Seq(Messages)] /\ wire \in Seq(Messages)
      /\ running \in [Handlers -> [Messages -> Nat]]
      /\ started \in [Handlers -> Seq(Messages)] /\ home \in [Handlers \cup Messages -> Processes]
  BY DEF IInv, TypeOK
<1>3. /\ m \in Messages /\ RemoveAt(inbox[p], 1) = Tail(inbox[p])
      /\ Tail(inbox[p]) \in Seq(Messages) /\ ToSet(inbox[p]) = ToSet(Tail(inbox[p])) \cup {m}
  BY <1>1, <1>2, FirstRemoved
<1>4. /\ inbox' \in [Processes -> Seq(Messages)] /\ inbox'[p] = Tail(inbox[p])
      /\ \A o \in Processes \ {p} : inbox'[o] = inbox[o]
  BY <1>1, <1>2, <1>3
<1>5. adapter = "redis"
  BY <1>1 DEF IInv, TypeOK, WorkIsAwaited
<1>6. /\ running' \in [Handlers -> [Messages -> Nat]]
      /\ started' \in [Handlers -> Seq(Messages)] /\ failed' = failed
      /\ \A h \in Handlers, q \in Messages \ {m} : running'[h][q] = running[h][q]
      /\ \A h \in H : running'[h][m] = running[h][m] + 1
      /\ \A h \in Handlers \ H : running'[h][m] = running[h][m]
      /\ \A h \in Handlers \ H : started'[h] = started[h]
      /\ \A h \in H : /\ started'[h] = Append(started[h], m)
                      /\ ToSet(started'[h]) = ToSet(started[h]) \cup {m}
  <2> HIDE DEF m, H
  <2> QED
    BY <1>1, <1>2, <1>3, StartEffect
<1>7. \A q \in Messages : Times(inbox[p], q) = Times(inbox'[p], q) + IF q = m THEN 1 ELSE 0
  <2> DEFINE s == inbox[p]
  <2>1. s \in Seq(Messages) /\ s # <<>> /\ inbox'[p] = Tail(s) /\ m = s[1]
    BY <1>1, <1>2, <1>4
  <2> HIDE DEF s, m
  <2>2. \A q \in Messages : Times(s, q) = Times(Tail(s), q) + IF q = s[1] THEN 1 ELSE 0
    BY <2>1, TimesOfTail
  <2> QED
    BY <2>1, <2>2 DEF s
<1> HIDE DEF m, H
<1>8. ASSUME NEW h \in Handlers, NEW q \in Messages
      PROVE  /\ running'[h][q] + Times(inbox'[home[h]], q) <= Copies(q)
             /\ Times(inbox'[home[h]], q) \in Nat /\ Copies(q) \in 0 .. 1 + MaxResend
             /\ running[h][q] \in Nat /\ running'[h][q] \in Nat
  <2>1. running[h][q] + Times(inbox[home[h]], q) <= Copies(q)
    BY DEF IInv, CopiesAreSent
  <2>2. home[h] \in Processes /\ running[h][q] \in Nat /\ running'[h][q] \in Nat
    BY <1>2, <1>6
  <2>3. inbox'[home[h]] \in Seq(Messages) /\ inbox[home[h]] \in Seq(Messages)
    BY <1>2, <1>4, <2>2
  <2>4. Times(inbox[home[h]], q) \in Nat /\ Times(inbox'[home[h]], q) \in Nat
    BY <2>3, TimesType
  <2>5. Copies(q) \in 0 .. 1 + MaxResend
    BY DEF IInv, TypeOK, Copies
  <2>6. CASE home[h] = p
    <3>1. Times(inbox[home[h]], q) = Times(inbox'[home[h]], q) + IF q = m THEN 1 ELSE 0
      BY <1>7, <2>6
    <3>2. running'[h][q] <= running[h][q] + IF q = m THEN 1 ELSE 0
      <4>1. CASE q # m
        BY <1>6, <2>2, <4>1
      <4>2. CASE q = m /\ h \in H
        BY <1>6, <2>2, <4>2
      <4>3. CASE q = m /\ h \notin H
        BY <1>6, <2>2, <4>3
      <4> QED
        BY <4>1, <4>2, <4>3
    <3> QED
      BY <2>1, <2>2, <2>4, <2>5, <3>1, <3>2
  <2>7. CASE home[h] # p
    <3>1. inbox'[home[h]] = inbox[home[h]]
      BY <1>4, <2>2, <2>7
    <3>2. h \notin H
      BY <1>1, <2>7
    <3>3. running'[h][q] = running[h][q]
      BY <1>6, <3>2
    <3> QED
      BY <2>1, <2>2, <2>4, <2>5, <3>1, <3>3
  <2> QED
    BY <2>6, <2>7
<1>9. TypeOK'
  <2>1. running' \in [Handlers -> [Messages -> 0 .. 1 + MaxResend]]
    <3> SUFFICES ASSUME NEW h \in Handlers, NEW q \in Messages
                 PROVE  running'[h][q] \in 0 .. 1 + MaxResend
      BY <1>6
    <3> QED
      BY <1>8
  <2>2. ASSUME NEW h \in Handlers, NEW q \in Messages, running'[h][q] > 0
        PROVE  name[h] = name[q]
    <3>1. CASE q = m /\ h \in H
      BY <1>1, <3>1
    <3>2. CASE ~ (q = m /\ h \in H)
      <4>1. running[h][q] > 0
        BY <1>6, <2>2, <3>2
      <4> QED
        BY <4>1 DEF IInv, TypeOK
    <3> QED
      BY <3>1, <3>2
  <2> QED
    BY <1>1, <1>4, <1>6, <2>1, <2>2 DEF IInv, TypeOK
<1>10. CopiesAreSent'
  BY <1>1, <1>8 DEF CopiesAreSent, Copies
<1>11. WorkIsAwaited'
  <2> SUFFICES ASSUME NEW h \in Handlers, NEW q \in Messages, running'[h][q] > 0
               PROVE  q \in ToSet(started'[h])
    BY <1>1, <1>5 DEF WorkIsAwaited
  <2>1. CASE q = m /\ h \in H
    BY <1>6, <2>1
  <2>2. CASE ~ (q = m /\ h \in H)
    <3>1. running[h][q] > 0
      BY <1>6, <2>2
    <3>2. q \in ToSet(started[h])
      BY <3>1 DEF IInv, WorkIsAwaited
    <3> QED
      BY <1>6, <3>2
  <2> QED
    BY <2>1, <2>2
<1>12. PublishAwaitsHandlers'
  BY <1>1, <1>5 DEF PublishAwaitsHandlers
<1>13. OwedListen'
  BY <1>1 DEF IInv, OwedListen, Listens, Concerns
<1>14. OwedIsKept'
  <2> SUFFICES ASSUME NEW h \in Handlers, NEW q \in Messages, <<h, q>> \in owed
               PROVE  q \in ToSet(started'[h]) \cup ToSet(inbox'[home[h]])
    <3>1. owed \subseteq Handlers \X Messages /\ owed' = owed /\ home' = home
      BY <1>1 DEF IInv, TypeOK
    <3> QED
      BY <3>1 DEF OwedIsKept
  <2>1. /\ q \in ToSet(started[h]) \cup ToSet(inbox[home[h]])
        /\ Listens(h) /\ name[h] = name[q] /\ home[h] \in Processes
    BY <1>2 DEF IInv, OwedIsKept, OwedListen, Concerns
  <2>2. ToSet(started[h]) \subseteq ToSet(started'[h])
    BY <1>6
  <2>3. CASE home[h] = p /\ q = m
    <3>1. h \in H
      BY <1>1, <2>1, <2>3
    <3> QED
      BY <1>6, <2>3, <3>1
  <2>4. CASE ~ (home[h] = p /\ q = m)
    BY <1>3, <1>4, <2>1, <2>2, <2>4
  <2> QED
    BY <2>3, <2>4
<1>15. ArrivesInOrder'
  <2> SUFFICES ASSUME NEW h \in Handlers
               PROVE  Within(started'[h] \o inbox'[home[h]], wire)
    BY <1>1 DEF ArrivesInOrder
  <2> DEFINE s == started[h]
             u == inbox[home[h]]
  <2>1. s \in Seq(Messages) /\ u \in Seq(Messages) /\ home[h] \in Processes
    BY <1>2
  <2>2. Within(s \o u, wire)
    BY <1>5 DEF IInv, ArrivesInOrder
  <2>3. CASE home[h] # p
    <3>1. h \notin H
      BY <1>1, <2>3
    <3> QED
      BY <1>4, <1>6, <2>1, <2>2, <2>3, <3>1
  <2>4. CASE h \in H
    <3>1. home[h] = p /\ u # <<>> /\ m = u[1]
      BY <1>1, <2>4 DEF m
    <3>2. started'[h] = Append(s, m) /\ inbox'[home[h]] = Tail(u)
      BY <1>4, <1>6, <2>4, <3>1
    <3>3. Append(s, u[1]) \o Tail(u) = s \o u
      <4> HIDE DEF s, u
      <4> QED
        BY <2>1, <3>1, HandedOut
    <3> QED
      BY <2>2, <3>1, <3>2, <3>3
  <2>5. CASE home[h] = p /\ h \notin H
    <3>1. started'[h] = s /\ inbox'[home[h]] = Tail(u) /\ u # <<>>
      BY <1>1, <1>4, <1>6, <2>5
    <3>2. Within(s \o Tail(u), wire)
      <4> HIDE DEF s, u
      <4>1. Within(s \o Tail(u), s \o u)
        BY <2>1, <3>1, WithinSkipped
      <4>2. Tail(u) \in Seq(Messages)
        BY <2>1, <3>1, HeadTailProperties
      <4>3. s \o Tail(u) \in Seq(Messages) /\ s \o u \in Seq(Messages)
        BY <2>1, <4>2, WithinPrefix
      <4> QED
        BY <1>2, <2>2, <4>1, <4>3, WithinTransitive
    <3> QED
      BY <3>1, <3>2
  <2> QED
    BY <2>3, <2>4, <2>5
<1> QED
  BY <1>9, <1>10, <1>11, <1>12, <1>13, <1>14, <1>15 DEF IInv

(* A lost connection loses what was under way to it, and owes it no more.  *)
LEMMA DropStep ==
  ASSUME IInv, NEW p \in Processes, Drop(p)
  PROVE  IInv'
<1> USE DEF fixed, work
<1>1. /\ adapter = "redis" /\ dropped < MaxDrops /\ dropped' = dropped + 1
      /\ link' = [link EXCEPT ![p] = "down"]
      /\ inbox' = [inbox EXCEPT ![p] = <<>>]
      /\ owed' = {d \in owed : home[d[1]] # p \/ d[2] \notin ToSet(inbox[p])}
      /\ UNCHANGED <<fixed, listener, channels, publish, awaits, resent, wire, work>>
  BY DEF Drop
<1>2. /\ inbox \in [Processes -> Seq(Messages)] /\ wire \in Seq(Messages)
      /\ running \in [Handlers -> [Messages -> Nat]]
      /\ started \in [Handlers -> Seq(Messages)] /\ home \in [Handlers \cup Messages -> Processes]
  BY DEF IInv, TypeOK
<1>3. /\ inbox'[p] = <<>> /\ \A o \in Processes \ {p} : inbox'[o] = inbox[o]
      /\ inbox' \in [Processes -> Seq(Messages)]
  BY <1>1, <1>2
<1>4. TypeOK'
  BY <1>1, <1>3 DEF IInv, TypeOK
<1>5. CopiesAreSent'
  <2> SUFFICES ASSUME NEW h \in Handlers, NEW q \in Messages
               PROVE  running[h][q] + Times(inbox'[home[h]], q) <= Copies(q)
    BY <1>1 DEF CopiesAreSent, Copies
  <2>1. running[h][q] + Times(inbox[home[h]], q) <= Copies(q)
    BY DEF IInv, CopiesAreSent
  <2>2. home[h] \in Processes /\ inbox[home[h]] \in Seq(Messages) /\ running[h][q] \in Nat
    BY <1>2
  <2>3. Times(inbox[home[h]], q) \in Nat /\ Copies(q) \in Nat
    <3>1. Times(inbox[home[h]], q) \in Nat
      BY <2>2, TimesType
    <3>2. Copies(q) \in Nat
      BY DEF IInv, TypeOK, Copies
    <3> QED
      BY <3>1, <3>2
  <2>4. CASE home[h] = p
    BY <1>3, <2>1, <2>2, <2>3, <2>4, TimesOfNone
  <2>5. CASE home[h] # p
    BY <1>3, <2>1, <2>2, <2>5
  <2> QED
    BY <2>4, <2>5
<1>6. WorkIsAwaited'
  BY <1>1 DEF IInv, WorkIsAwaited
<1>7. PublishAwaitsHandlers'
  BY <1>1 DEF PublishAwaitsHandlers
<1>8. OwedListen'
  BY <1>1 DEF IInv, OwedListen, Listens, Concerns
<1>9. OwedIsKept'
  <2> SUFFICES ASSUME NEW d \in owed'
               PROVE  d[2] \in ToSet(started[d[1]]) \cup ToSet(inbox'[home[d[1]]])
    BY <1>1 DEF OwedIsKept
  <2>1. d[1] \in Handlers /\ d[2] \in ToSet(started[d[1]]) \cup ToSet(inbox[home[d[1]]])
    BY <1>1 DEF IInv, TypeOK, OwedIsKept
  <2>2. home[d[1]] \in Processes
    BY <1>2, <2>1
  <2> QED
    BY <1>1, <1>3, <2>1, <2>2
<1>10. ArrivesInOrder'
  <2> SUFFICES ASSUME NEW h \in Handlers
               PROVE  Within(started[h] \o inbox'[home[h]], wire)
    BY <1>1 DEF ArrivesInOrder
  <2> DEFINE s == started[h]
             u == inbox[home[h]]
  <2>1. s \in Seq(Messages) /\ u \in Seq(Messages) /\ home[h] \in Processes
    BY <1>2
  <2>2. Within(s \o u, wire)
    BY <1>1 DEF IInv, ArrivesInOrder
  <2>3. CASE home[h] # p
    BY <1>3, <2>1, <2>2, <2>3
  <2>4. CASE home[h] = p
    <3>1. Within(s, wire)
      <4> HIDE DEF s, u
      <4>1. Within(s, s \o u) /\ s \o u \in Seq(Messages)
        BY <2>1, WithinPrefix
      <4> QED
        BY <1>2, <2>1, <2>2, <4>1, WithinTransitive
    <3>2. s \o <<>> = s
      <4> HIDE DEF s
      <4> QED
        BY <2>1, ConcatEmptySeq
    <3> QED
      BY <1>3, <2>4, <3>1, <3>2
  <2> QED
    BY <2>3, <2>4
<1> QED
  BY <1>4, <1>5, <1>6, <1>7, <1>8, <1>9, <1>10 DEF IInv

-----------------------------------------------------------------------------
LEMMA InvInit == Init => IInv
<1> SUFFICES ASSUME Init PROVE IInv
  OBVIOUS
<1>1. TypeOK
  BY DEF Init, TypeOK, Chosen
<1>2. /\ \A h \in Handlers, q \in Messages : running[h][q] = 0 /\ inbox[home[h]] = <<>>
      /\ \A h \in Handlers : started[h] = <<>> /\ inbox[home[h]] = <<>>
      /\ \A p \in Processes : inbox[p] = <<>>
      /\ owed = {} /\ failed = {} /\ wire = <<>>
      /\ \A q \in Messages : publish[q] = "idle"
  BY DEF Init
<1>3. CopiesAreSent
  BY <1>2, TimesOfNone DEF CopiesAreSent, Copies
<1>4. \A h \in Handlers, q \in Messages : q \notin ToSet(started[h])
  BY <1>2 DEF ToSet
<1>5. WorkIsAwaited /\ PublishAwaitsHandlers
  BY <1>2, <1>4 DEF WorkIsAwaited, PublishAwaitsHandlers
<1>6. OwedListen /\ OwedIsKept
  BY <1>2 DEF OwedListen, OwedIsKept
<1>7. ArrivesInOrder
  <2> SUFFICES ASSUME NEW h \in Handlers PROVE Within(started[h] \o inbox[home[h]], wire)
    BY DEF ArrivesInOrder
  <2>1. started[h] \o inbox[home[h]] = <<>> /\ wire = <<>>
    BY <1>2
  <2>2. Within(<<>>, <<>>)
    <3> DEFINE at == [i \in DOMAIN <<>> |-> i]
    <3>1. at \in [DOMAIN <<>> -> DOMAIN <<>>]
      OBVIOUS
    <3> QED
      BY <3>1 DEF Within
  <2> QED
    BY <2>1, <2>2
<1> QED
  BY <1>1, <1>3, <1>5, <1>6, <1>7 DEF IInv

LEMMA InvStep == IInv /\ [Next]_vars => IInv'
<1> SUFFICES ASSUME IInv, [Next]_vars PROVE IInv'
  OBVIOUS
<1>1. ASSUME NEW h \in Handlers, Subscribe(h) \/ Confirm(h) \/ SubscribeFails(h)
      PROVE  IInv'
  BY <1>1, QuietSteps
<1>2. ASSUME NEW m \in Messages, EmitEnds(m) \/ Publish(m) \/ PublishFails(m)
      PROVE  IInv'
  BY <1>2, QuietSteps
<1>3. ASSUME NEW p \in Processes, Reconnect(p) \/ Quit(p)
      PROVE  IInv'
  BY <1>3, QuietSteps
<1>4. CASE UNCHANGED vars
  BY <1>4, QuietSteps
<1>5. ASSUME NEW m \in Messages, Emit(m) \/ Reach(m)
      PROVE  IInv'
  BY <1>5, EmitStep, ReachStep
<1>6. ASSUME NEW p \in Processes, Deliver(p) \/ Drop(p)
      PROVE  IInv'
  BY <1>6, DeliverStep, DropStep
<1>7. ASSUME NEW h \in Handlers, NEW m \in Messages, HandlerEnds(h, m)
      PROVE  IInv'
  BY <1>7, HandlerEndsStep
<1> QED
  BY <1>1, <1>2, <1>3, <1>4, <1>5, <1>6, <1>7 DEF Next

(* The inductive invariant holds of every behaviour.                       *)
THEOREM Invariant == Spec => []IInv
  BY InvInit, InvStep, PTL DEF Spec

(* What a subscribed connection was owed is with the handler or under way  *)
(* to it: publish of the Redis adapter loses only what a lost connection   *)
(* loses.                                                                  *)
THEOREM OwedArrives == Spec => []OwedIsKept
<1>1. IInv => OwedIsKept
  BY DEF IInv
<1> QED
  BY <1>1, Invariant, PTL

(* Handlers begin messages in the order in which Redis took them, however  *)
(* many publishers, handlers and lost connections there are.               *)
THEOREM OrderIsKept == Spec => []StartsInOrder
<1>1. IInv => StartsInOrder
  <2> SUFFICES ASSUME IInv, adapter = "redis", NEW h \in Handlers
               PROVE  Within(started[h], wire)
    BY DEF StartsInOrder
  <2> DEFINE s == started[h]
             u == inbox[home[h]]
  <2>1. s \in Seq(Messages) /\ u \in Seq(Messages) /\ wire \in Seq(Messages)
    BY DEF IInv, TypeOK
  <2>2. Within(s \o u, wire)
    BY DEF IInv, ArrivesInOrder
  <2> HIDE DEF s, u
  <2>3. Within(s, s \o u) /\ s \o u \in Seq(Messages)
    BY <2>1, WithinPrefix
  <2>4. Within(s, wire)
    BY <2>1, <2>2, <2>3, WithinTransitive
  <2> QED
    BY <2>4 DEF s
<1> QED
  BY <1>1, Invariant, PTL

(* emitAsync in memory: a publication that returned was handled by every   *)
(* handler that it started, and none of them failed.                       *)
THEOREM PublicationAwaits == Spec => []PublishAwaitsHandlers
<1>1. IInv => PublishAwaitsHandlers
  BY DEF IInv
<1> QED
  BY <1>1, Invariant, PTL
=============================================================================
