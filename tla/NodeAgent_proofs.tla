--------------------------- MODULE NodeAgent_proofs ---------------------------
(***************************************************************************)
(* Proofs about the node agent and its edit of shared files: what          *)
(* withManagedBlock does to a file of any length, and with it what is left *)
(* of the lines of others and of the agent's own, for any hostnames and    *)
(* any number of outside events.                                           *)
(***************************************************************************)
EXTENDS NodeAgent, SequenceTheorems, FiniteSetTheorems, WellFoundedInduction, TLAPS

-----------------------------------------------------------------------------
(* Numbers *)

(* A set of natural numbers that is not empty has a least element.         *)
LEMMA LeastNumber ==
    ASSUME NEW S, S \subseteq Nat, S # {}
    PROVE  \E x \in S : \A y \in S : x <= y
<1> DEFINE R == OpToRel(<, Nat)
<1>1. PICK x \in S : \A y \in S : ~ (<<y, x>> \in R)
  <2>1. IsWellFoundedOn(R, Nat)
    BY NatLessThanWellFounded
  <2> HIDE DEF R
  <2>2. QED
    BY <2>1, WFMin
<1>2. ASSUME NEW y \in S PROVE x <= y
  <2>1. ~ (<<y, x>> \in R)
    BY <1>1
  <2>2. ~ (y < x)
    BY <2>1 DEF OpToRel
  <2>3. QED
    BY <2>2
<1>3. QED
  BY <1>2

(* ... and a set of line numbers a last one: with it, induction from the   *)
(* end of a file backwards is the study of the last counterexample.        *)
LEMMA LastLine ==
    ASSUME NEW n \in Nat, NEW S, S \subseteq 1 .. n, S # {}
    PROVE  \E x \in S : \A y \in S : y <= x
<1> DEFINE T == {n - x : x \in S}
<1>1. T \subseteq Nat /\ T # {}
  <2>1. \A x \in S : n - x \in Nat
    OBVIOUS
  <2>2. PICK x : x \in S
    OBVIOUS
  <2>3. n - x \in T
    BY <2>2
  <2>4. QED
    BY <2>1, <2>3
<1>2. PICK t \in T : \A u \in T : t <= u
  <2> HIDE DEF T
  <2>1. QED
    BY <1>1, LeastNumber
<1>3. PICK x \in S : t = n - x
  BY <1>2
<1>4. ASSUME NEW y \in S PROVE y <= x
  <2>1. n - x <= n - y
    BY <1>2, <1>3
  <2>2. QED
    BY <2>1
<1>5. QED
  BY <1>4

-----------------------------------------------------------------------------
(* Loops *)

(* What a turn writes is a sequence, and the loop always goes on further   *)
(* down.                                                                   *)
IsLoop(n, out, next, S) ==
    /\ n \in Nat
    /\ out \in [1 .. n -> Seq(S)]
    /\ next \in [1 .. n -> Nat]
    /\ \A i \in 1 .. n : next[i] \in i + 1 .. n + 1

(* g is what the loop writes from each line on, as far as line m.          *)
Solves(g, m, n, out, next, S) ==
    /\ g \in [m .. n + 1 -> Seq(S)]
    /\ g[n + 1] = <<>>
    /\ \A i \in m .. n : g[i] = out[i] \o g[next[i]]

(* The recursion has a solution, so that LoopFrom is one.                  *)
LEMMA LoopEnds ==
    ASSUME NEW n, NEW out, NEW next, NEW S, IsLoop(n, out, next, S)
    PROVE  Solves(LoopFrom(n, out, next), 1, n, out, next, S)
<1> DEFINE Bad == {m \in 1 .. n + 1 : ~ \E g : Solves(g, m, n, out, next, S)}
<1>0. /\ n \in Nat
      /\ out \in [1 .. n -> Seq(S)]
      /\ \A i \in 1 .. n : next[i] \in i + 1 .. n + 1
  BY DEF IsLoop
<1>1. Bad = {}
  <2> SUFFICES ASSUME Bad # {} PROVE FALSE
    OBVIOUS
  <2>1. PICK m \in Bad : \A k \in Bad : k <= m
    <3>1. Bad \subseteq 1 .. n + 1 /\ n + 1 \in Nat
      BY <1>0
    <3> HIDE DEF Bad
    <3>2. QED
      BY <3>1, LastLine
  <2>2. CASE m = n + 1
    <3> DEFINE g == [i \in n + 1 .. n + 1 |-> <<>>]
    <3>1. g \in [m .. n + 1 -> Seq(S)] /\ g[n + 1] = <<>>
      BY <1>0, <2>2, EmptySeq
    <3>2. m .. n = {}
      BY <1>0, <2>2
    <3> HIDE DEF g
    <3>3. Solves(g, m, n, out, next, S)
      BY <3>1, <3>2 DEF Solves
    <3>4. QED
      BY <2>1, <3>3
  <2>3. CASE m # n + 1
    <3>1. m \in 1 .. n /\ m + 1 \in 1 .. n + 1 /\ m + 1 \notin Bad
      BY <1>0, <2>1, <2>3
    <3>2. PICK g : Solves(g, m + 1, n, out, next, S)
      BY <3>1
    <3> DEFINE h == [i \in m .. n + 1 |->
                       IF i = m THEN out[m] \o g[next[m]] ELSE g[i]]
    <3>3. next[m] \in m + 1 .. n + 1 /\ out[m] \in Seq(S)
      BY <1>0, <3>1
    <3>4. /\ \A i \in m + 1 .. n + 1 : g[i] \in Seq(S)
          /\ g[n + 1] = <<>>
          /\ \A i \in m + 1 .. n : g[i] = out[i] \o g[next[i]]
      BY <3>2 DEF Solves
    <3>5. out[m] \o g[next[m]] \in Seq(S)
      BY <3>3, <3>4, ConcatProperties
    <3>6. h \in [m .. n + 1 -> Seq(S)]
      BY <1>0, <3>1, <3>4, <3>5
    <3>7. h[n + 1] = <<>>
      BY <1>0, <3>1, <3>4
    <3>8. ASSUME NEW i \in m .. n PROVE h[i] = out[i] \o h[next[i]]
      <4>1. next[i] \in i + 1 .. n + 1
        BY <1>0, <3>1
      <4>2. h[next[i]] = g[next[i]]
        BY <1>0, <3>1, <4>1
      <4>3. CASE i = m
        BY <1>0, <3>1, <4>2, <4>3
      <4>4. CASE i # m
        <5>1. i \in m + 1 .. n
          BY <1>0, <3>1, <4>4
        <5>2. h[i] = g[i]
          BY <1>0, <3>1, <5>1
        <5>3. QED
          BY <3>4, <4>2, <5>1, <5>2
      <4>5. QED
        BY <4>3, <4>4
    <3> HIDE DEF h
    <3>9. Solves(h, m, n, out, next, S)
      BY <3>6, <3>7, <3>8 DEF Solves
    <3>10. QED
      BY <2>1, <3>9
  <2>4. QED
    BY <2>2, <2>3
<1>2. PICK g : Solves(g, 1, n, out, next, S)
  <2>1. 1 \in 1 .. n + 1
    BY <1>0
  <2>2. QED
    BY <1>1, <2>1
<1>a. /\ n + 1 \in 1 .. n + 1
      /\ \A i \in 1 .. n : i \in 1 .. n + 1 /\ i # n + 1
      /\ \A i \in 1 .. n + 1 : i # n + 1 => i \in 1 .. n
  BY <1>0
<1>3. g = [i \in 1 .. n + 1 |-> IF i = n + 1 THEN <<>> ELSE out[i] \o g[next[i]]]
  <2>1. /\ g \in [1 .. n + 1 -> Seq(S)]
        /\ g[n + 1] = <<>>
        /\ \A i \in 1 .. n : g[i] = out[i] \o g[next[i]]
    BY <1>2 DEF Solves
  <2> DEFINE e(i) == IF i = n + 1 THEN <<>> ELSE out[i] \o g[next[i]]
  <2>2. \A i \in 1 .. n + 1 : g[i] = e(i)
    BY <1>a, <2>1
  <2> HIDE DEF e
  <2>3. g = [i \in 1 .. n + 1 |-> e(i)]
    BY <2>1, <2>2
  <2>4. QED
    BY <2>3 DEF e
<1> DEFINE f == LoopFrom(n, out, next)
<1>4. f = [i \in 1 .. n + 1 |-> IF i = n + 1 THEN <<>> ELSE out[i] \o f[next[i]]]
  BY <1>3 DEF LoopFrom
<1> HIDE DEF f
<1>5. /\ f[n + 1] = <<>>
      /\ \A i \in 1 .. n : f[i] = out[i] \o f[next[i]]
  BY <1>4, <1>a, Zenon
<1>6. \A i \in 1 .. n + 1 : f[i] \in Seq(S)
  <2> DEFINE Odd == {i \in 1 .. n + 1 : f[i] \notin Seq(S)}
  <2> SUFFICES ASSUME Odd # {} PROVE FALSE
    OBVIOUS
  <2>1. PICK m \in Odd : \A k \in Odd : k <= m
    <3>1. Odd \subseteq 1 .. n + 1 /\ n + 1 \in Nat
      BY <1>0
    <3> HIDE DEF Odd
    <3>2. QED
      BY <3>1, LastLine
  <2>2. m # n + 1
    BY <1>5, <2>1, EmptySeq
  <2>3. m \in 1 .. n /\ next[m] \in m + 1 .. n + 1 /\ out[m] \in Seq(S)
    BY <1>0, <2>1, <2>2
  <2>4. f[next[m]] \in Seq(S)
    BY <1>0, <2>1, <2>3
  <2>5. f[m] = out[m] \o f[next[m]]
    BY <1>5, <2>3
  <2>6. f[m] \in Seq(S)
    BY <2>3, <2>4, <2>5, ConcatProperties
  <2>7. QED
    BY <2>1, <2>6
<1>7. f \in [1 .. n + 1 -> Seq(S)]
  BY <1>4, <1>6
<1>8. QED
  BY <1>5, <1>7 DEF Solves, f

-----------------------------------------------------------------------------
(* Selecting lines *)

(* Select as a loop: what a turn writes, where it goes on, and what is     *)
(* selected from each line on.                                             *)
Chosen(lines, I) ==
    [i \in 1 .. Len(lines) |-> IF i \in I THEN <<lines[i]>> ELSE <<>>]

Down(lines) == [i \in 1 .. Len(lines) |-> i + 1]

From(lines, I) == LoopFrom(Len(lines), Chosen(lines, I), Down(lines))

Cons(x, s) == <<x>> \o s

(* What is selected from each line on.                                     *)
LEMMA SelectFrom ==
    ASSUME NEW S, NEW lines \in Seq(S), NEW I
    PROVE  /\ From(lines, I) \in
                [1 .. Len(lines) + 1 -> Seq({lines[i] : i \in I \cap 1 .. Len(lines)})]
           /\ From(lines, I)[Len(lines) + 1] = <<>>
           /\ \A i \in 1 .. Len(lines) :
                /\ i \in I =>
                      From(lines, I)[i] = Cons(lines[i], From(lines, I)[i + 1])
                /\ i \notin I => From(lines, I)[i] = From(lines, I)[i + 1]
           /\ Select(lines, I) = From(lines, I)[1]
<1> DEFINE n == Len(lines)
           T == {lines[i] : i \in I \cap 1 .. n}
           out == Chosen(lines, I)
           next == Down(lines)
           f == From(lines, I)
<1>1. n \in Nat
  BY LenProperties
<1>2. \A i \in 1 .. n : /\ i \in I => out[i] = <<lines[i]>>
                        /\ i \notin I => out[i] = <<>>
                        /\ next[i] = i + 1
  BY DEF Chosen, Down
<1>3. ASSUME NEW i \in 1 .. n PROVE out[i] \in Seq(T)
  <2>1. CASE i \in I
    <3>1. lines[i] \in T
      BY <2>1
    <3> HIDE DEF T
    <3>2. <<lines[i]>> \in Seq(T)
      BY <3>1
    <3>3. QED
      BY <1>2, <2>1, <3>2
  <2>2. CASE i \notin I
    <3> HIDE DEF T
    <3>1. QED
      BY <1>2, <2>2, EmptySeq
  <2>3. QED
    BY <2>1, <2>2
<1>4. out \in [1 .. n -> Seq(T)] /\ next \in [1 .. n -> Nat]
  <2>1. out = [i \in 1 .. n |-> out[i]] /\ next = [i \in 1 .. n |-> next[i]]
    BY DEF Chosen, Down
  <2> HIDE DEF n, T, out, next
  <2>2. \A i \in 1 .. n : next[i] \in Nat
    BY <1>1, <1>2
  <2>3. QED
    BY <1>3, <2>1, <2>2
<1>5. \A i \in 1 .. n : next[i] \in i + 1 .. n + 1
  <2> HIDE DEF n, out, next
  <2>1. QED
    BY <1>1, <1>2
<1>6. IsLoop(n, out, next, T)
  BY <1>1, <1>4, <1>5 DEF IsLoop
<1> HIDE DEF n, T, out, next
<1>7. Solves(LoopFrom(n, out, next), 1, n, out, next, T)
  BY <1>6, LoopEnds
<1>8. f = LoopFrom(n, out, next)
  BY DEF From, n, out, next
<1> HIDE DEF f
<1>9. /\ f \in [1 .. n + 1 -> Seq(T)] /\ f[n + 1] = <<>>
      /\ \A i \in 1 .. n : f[i] = out[i] \o f[next[i]]
  BY <1>7, <1>8 DEF Solves
<1>10. ASSUME NEW i \in 1 .. n
       PROVE  /\ i \in I => f[i] = Cons(lines[i], f[i + 1])
              /\ i \notin I => f[i] = f[i + 1]
  <2>1. f[i] = out[i] \o f[i + 1]
    BY <1>2, <1>9
  <2>2. CASE i \in I
    <3>1. out[i] = <<lines[i]>>
      BY <1>2, <2>2
    <3>2. QED
      BY <2>1, <2>2, <3>1 DEF Cons
  <2>3. CASE i \notin I
    <3>1. out[i] = <<>>
      BY <1>2, <2>3
    <3>2. i + 1 \in 1 .. n + 1
      BY <1>1
    <3>3. f[i + 1] \in Seq(T)
      BY <1>9, <3>2
    <3>4. <<>> \o f[i + 1] = f[i + 1]
      BY <3>3, ConcatEmptySeq
    <3>5. QED
      BY <2>1, <2>3, <3>1, <3>4
  <2>4. QED
    BY <2>2, <2>3
<1>11. Select(lines, I) = f[1]
  BY DEF Select, Loop, From, Chosen, Down, f
<1>12. QED
  BY <1>9, <1>10, <1>11, Zenon DEF f, n, T

(* Only selected lines are there.                                          *)
LEMMA SelectType ==
    ASSUME NEW S, NEW lines \in Seq(S), NEW I
    PROVE  Select(lines, I) \in Seq({lines[i] : i \in I \cap 1 .. Len(lines)})
<1>1. 1 \in 1 .. Len(lines) + 1
  BY LenProperties
<1> DEFINE T == {lines[i] : i \in I \cap 1 .. Len(lines)}
<1>2. /\ From(lines, I) \in [1 .. Len(lines) + 1 -> Seq(T)]
      /\ Select(lines, I) = From(lines, I)[1]
  BY SelectFrom
<1> HIDE DEF T
<1>3. Select(lines, I) \in Seq(T)
  BY <1>1, <1>2
<1>4. QED
  BY <1>3 DEF T

(* A selection is of the same type, and depends on the line numbers only.  *)
LEMMA SelectSeqType ==
    ASSUME NEW S, NEW lines \in Seq(S), NEW I
    PROVE  Select(lines, I) \in Seq(S)
<1> DEFINE T == {lines[i] : i \in I \cap 1 .. Len(lines)}
<1>1. \A i \in 1 .. Len(lines) : lines[i] \in S
  BY ElementOfSeq
<1>2. T \subseteq S
  BY <1>1
<1>3. Select(lines, I) \in Seq(T)
  BY SelectType
<1> HIDE DEF T
<1>4. QED
  BY <1>2, <1>3, SeqMonotonic

LEMMA SelectSame ==
    ASSUME NEW S, NEW lines \in Seq(S), NEW I, NEW J,
           \A i \in 1 .. Len(lines) : i \in I <=> i \in J
    PROVE  Select(lines, I) = Select(lines, J)
<1>1. [i \in 1 .. Len(lines) |-> IF i \in I THEN <<lines[i]>> ELSE <<>>]
        = [i \in 1 .. Len(lines) |-> IF i \in J THEN <<lines[i]>> ELSE <<>>]
  <2>1. \A i \in 1 .. Len(lines) :
          (IF i \in I THEN <<lines[i]>> ELSE <<>>)
            = (IF i \in J THEN <<lines[i]>> ELSE <<>>)
    OBVIOUS
  <2>2. QED
    BY <2>1, Zenon
<1>2. QED
  BY <1>1 DEF Select

(* The lines of a stretch without a selected one add nothing.              *)
LEMMA SelectSkips ==
    ASSUME NEW S, NEW lines \in Seq(S), NEW I,
           NEW a \in 1 .. Len(lines) + 1, NEW b \in a .. Len(lines) + 1,
           \A i \in a .. b - 1 : i \notin I
    PROVE  From(lines, I)[a] = From(lines, I)[b]
<1> DEFINE n == Len(lines)
           f == From(lines, I)
           Bad == {i \in a .. b : f[i] # f[b]}
<1>1. n \in Nat
  BY LenProperties
<1>2. \A i \in 1 .. n : i \notin I => f[i] = f[i + 1]
  BY SelectFrom
<1> HIDE DEF n, f
<1>3. /\ a \in 1 .. n + 1 /\ b \in a .. n + 1
      /\ \A i \in a .. b - 1 : i \notin I
  BY DEF n
<1>4. Bad = {}
  <2> SUFFICES ASSUME Bad # {} PROVE FALSE
    OBVIOUS
  <2>1. PICK m \in Bad : \A k \in Bad : k <= m
    <3>1. Bad \subseteq 1 .. n + 1 /\ n + 1 \in Nat
      BY <1>1, <1>3
    <3> HIDE DEF Bad
    <3>2. QED
      BY <3>1, LastLine
  <2>2. m \in a .. b - 1 /\ m \in 1 .. n /\ m + 1 \in a .. b
    BY <1>1, <1>3, <2>1
  <2>3. f[m] = f[m + 1]
    BY <1>2, <1>3, <2>2
  <2>4. m + 1 \in Bad
    BY <2>1, <2>2, <2>3
  <2>5. QED
    BY <1>1, <1>3, <2>1, <2>2, <2>4
<1>5. a \in a .. b
  BY <1>1, <1>3
<1>6. QED
  BY <1>4, <1>5 DEF f

(* Nothing selected, and everything.                                       *)
LEMMA SelectNone ==
    ASSUME NEW S, NEW lines \in Seq(S), NEW I,
           \A i \in 1 .. Len(lines) : i \notin I
    PROVE  Select(lines, I) = <<>>
<1>1. Len(lines) \in Nat
  BY LenProperties
<1>2. 1 \in 1 .. Len(lines) + 1 /\ Len(lines) + 1 \in 1 .. Len(lines) + 1
  BY <1>1
<1>3. \A i \in 1 .. (Len(lines) + 1) - 1 : i \notin I
  BY <1>1
<1>4. From(lines, I)[1] = From(lines, I)[Len(lines) + 1]
  BY <1>2, <1>3, SelectSkips
<1>5. QED
  BY <1>4, SelectFrom

LEMMA SelectAll ==
    ASSUME NEW S, NEW lines \in Seq(S), NEW I,
           \A i \in 1 .. Len(lines) : i \in I
    PROVE  Select(lines, I) = lines
<1> DEFINE n == Len(lines)
           f == From(lines, I)
           Bad == {i \in 1 .. n + 1 : f[i] # SubSeq(lines, i, n)}
<1>1. n \in Nat
  BY LenProperties
<1>2. /\ f[n + 1] = <<>>
      /\ \A i \in 1 .. n : f[i] = Cons(lines[i], f[i + 1])
      /\ Select(lines, I) = f[1]
  BY SelectFrom
<1> HIDE DEF f
<1>3. Bad = {}
  <2> SUFFICES ASSUME Bad # {} PROVE FALSE
    OBVIOUS
  <2>1. PICK m \in Bad : \A k \in Bad : k <= m
    <3>1. Bad \subseteq 1 .. n + 1 /\ n + 1 \in Nat
      BY <1>1
    <3> HIDE DEF Bad
    <3>2. QED
      BY <3>1, LastLine
  <2>2. CASE m = n + 1
    <3>1. SubSeq(lines, n + 1, n) = <<>>
      BY <1>1, SubSeqEmpty
    <3>2. QED
      BY <1>2, <2>1, <2>2, <3>1
  <2>3. CASE m # n + 1
    <3>1. m \in 1 .. n /\ m + 1 \in 1 .. n + 1 /\ n \in m .. n /\ m + 1 \notin Bad
      BY <1>1, <2>1, <2>3
    <3>2. f[m + 1] = SubSeq(lines, m + 1, n)
      BY <3>1
    <3>3. SubSeq(lines, m, n) = <<lines[m]>> \o SubSeq(lines, m + 1, n)
      BY <3>1, SubSeqRecursiveFirst
    <3>4. QED
      BY <1>2, <2>1, <3>1, <3>2, <3>3 DEF Cons
  <2>4. QED
    BY <2>2, <2>3
<1>4. f[1] = SubSeq(lines, 1, n)
  <2>1. 1 \in 1 .. n + 1
    BY <1>1
  <2>2. QED
    BY <1>3, <2>1
<1>5. QED
  BY <1>2, <1>4, SubSeqFull

(* c is a and after it b.                                                  *)
Joins(c, a, b) == c = a \o b

(* The lines of two files, one after the other.                            *)
LEMMA ConcatLines ==
    ASSUME NEW S, NEW a \in Seq(S), NEW b \in Seq(S), NEW c, Joins(c, a, b)
    PROVE  /\ Len(a) \in Nat /\ Len(b) \in Nat
           /\ c \in Seq(S) /\ Len(c) = Len(a) + Len(b)
           /\ \A i \in 1 .. Len(a) : c[i] = a[i]
           /\ \A i \in 1 .. Len(b) : c[Len(a) + i] = b[i]
<1> DEFINE n == Len(a)
           k == Len(b)
<1>1. n \in Nat /\ k \in Nat /\ c \in Seq(S) /\ Len(c) = n + k
  BY LenProperties, ConcatProperties DEF Joins
<1>2. \A i \in 1 .. n + k : c[i] = IF i <= n THEN a[i] ELSE b[i - n]
  BY ConcatProperties DEF Joins
<1> HIDE DEF n, k
<1>3. \A i \in 1 .. n : c[i] = a[i]
  BY <1>1, <1>2
<1>4. ASSUME NEW i \in 1 .. k PROVE c[n + i] = b[i]
  <2>1. n + i \in 1 .. n + k /\ ~(n + i <= n) /\ (n + i) - n = i
    BY <1>1
  <2>2. QED
    BY <1>2, <2>1
<1>5. QED
  BY <1>1, <1>3, <1>4 DEF n, k

(* Selecting from two files, one after the other.                          *)
LEMMA SelectConcat ==
    ASSUME NEW S, NEW a \in Seq(S), NEW b \in Seq(S), NEW c, Joins(c, a, b),
           NEW I, NEW J, \A i \in 1 .. Len(b) : i \in J <=> Len(a) + i \in I
    PROVE  Joins(Select(c, I), Select(a, I), Select(b, J))
<1>0. \A x \in S : \A s, t \in Seq(S) : Cons(x, s) \o t = Cons(x, s \o t)
  <2> TAKE x \in S
  <2> TAKE s, t \in Seq(S)
  <2>1. <<x>> \in Seq(S)
    OBVIOUS
  <2>2. QED
    BY <2>1, ConcatAssociative DEF Cons
<1>a. /\ Len(a) \in Nat /\ Len(b) \in Nat
      /\ c \in Seq(S) /\ Len(c) = Len(a) + Len(b)
      /\ \A i \in 1 .. Len(a) : c[i] = a[i]
      /\ \A i \in 1 .. Len(b) : c[Len(a) + i] = b[i]
  BY ConcatLines
<1>c. c \in Seq(S)
  BY <1>a
<1>d. /\ From(c, I)[Len(c) + 1] = <<>>
      /\ \A i \in 1 .. Len(c) :
           /\ i \in I => From(c, I)[i] = Cons(c[i], From(c, I)[i + 1])
           /\ i \notin I => From(c, I)[i] = From(c, I)[i + 1]
      /\ Select(c, I) = From(c, I)[1]
  BY <1>c, SelectFrom
<1> DEFINE n == Len(a)
           k == Len(b)
           f == From(c, I)
           fa == From(a, I)
           fb == From(b, J)
<1>1. n \in Nat /\ k \in Nat /\ c \in Seq(S) /\ Len(c) = n + k
  BY <1>a
<1>2. /\ \A i \in 1 .. n : c[i] = a[i]
      /\ \A i \in 1 .. k : c[n + i] = b[i]
  BY <1>a
<1>3. /\ f[n + k + 1] = <<>>
      /\ \A i \in 1 .. n + k : /\ i \in I => f[i] = Cons(c[i], f[i + 1])
                               /\ i \notin I => f[i] = f[i + 1]
      /\ Select(c, I) = f[1]
  BY <1>1, <1>d
<1>4. /\ fa[n + 1] = <<>>
      /\ \A i \in 1 .. n : /\ i \in I => fa[i] = Cons(a[i], fa[i + 1])
                           /\ i \notin I => fa[i] = fa[i + 1]
      /\ Select(a, I) = fa[1]
  BY SelectFrom
<1>5. /\ fb[k + 1] = <<>>
      /\ \A i \in 1 .. k : /\ i \in J => fb[i] = Cons(b[i], fb[i + 1])
                           /\ i \notin J => fb[i] = fb[i + 1]
      /\ Select(b, J) = fb[1]
  BY SelectFrom
<1>6. fb[1] \in Seq(S)
  BY <1>5, SelectSeqType
<1>7. \A i \in 1 .. n + 1 : fa[i] \in Seq(S)
  <2> DEFINE U == {a[i] : i \in I \cap 1 .. n}
  <2>1. U \subseteq S
    BY ElementOfSeq
  <2>2. fa \in [1 .. n + 1 -> Seq(U)]
    BY SelectFrom
  <2> HIDE DEF U
  <2>3. QED
    BY <2>1, <2>2, SeqMonotonic
<1>8. \A i \in 1 .. n : a[i] \in S
  BY ElementOfSeq
<1>9. \A i \in 1 .. k : i \in J <=> n + i \in I
  OBVIOUS
<1> HIDE DEF n, k, f, fa, fb
<1>10. \A i \in 1 .. k + 1 : f[n + i] = fb[i]
  <2> DEFINE Bad == {i \in 1 .. k + 1 : f[n + i] # fb[i]}
  <2> SUFFICES ASSUME Bad # {} PROVE FALSE
    OBVIOUS
  <2>1. PICK m \in Bad : \A j \in Bad : j <= m
    <3>1. Bad \subseteq 1 .. k + 1 /\ k + 1 \in Nat
      BY <1>1
    <3> HIDE DEF Bad
    <3>2. QED
      BY <3>1, LastLine
  <2>2. m # k + 1
    <3>1. n + (k + 1) = n + k + 1
      BY <1>1
    <3>2. QED
      BY <1>3, <1>5, <2>1, <3>1
  <2>3. /\ m \in 1 .. k /\ n + m \in 1 .. n + k /\ m + 1 \in 1 .. k + 1
        /\ m + 1 \notin Bad /\ n + (m + 1) = (n + m) + 1
    BY <1>1, <2>1, <2>2
  <2>4. f[(n + m) + 1] = fb[m + 1] /\ c[n + m] = b[m]
    BY <1>2, <2>3
  <2>5. f[n + m] = fb[m]
    <3>1. CASE m \in J
      BY <1>3, <1>5, <1>9, <2>3, <2>4, <3>1
    <3>2. CASE m \notin J
      BY <1>3, <1>5, <1>9, <2>3, <2>4, <3>2
    <3>3. QED
      BY <3>1, <3>2
  <2>6. QED
    BY <2>1, <2>5
<1>11. \A i \in 1 .. n + 1 : f[i] = fa[i] \o fb[1]
  <2> DEFINE g(i) == fa[i] \o fb[1]
             Bad == {i \in 1 .. n + 1 : f[i] # g(i)}
  <2> SUFFICES ASSUME Bad # {} PROVE FALSE
    OBVIOUS
  <2> HIDE DEF g
  <2>1. PICK m \in Bad : \A j \in Bad : j <= m
    <3>1. Bad \subseteq 1 .. n + 1 /\ n + 1 \in Nat
      BY <1>1
    <3> HIDE DEF Bad
    <3>2. QED
      BY <3>1, LastLine
  <2>2. m # n + 1
    <3>1. 1 \in 1 .. k + 1
      BY <1>1
    <3>2. f[n + 1] = fb[1]
      BY <1>10, <3>1
    <3>3. <<>> \o fb[1] = fb[1]
      BY <1>6, ConcatEmptySeq
    <3>4. QED
      BY <1>4, <2>1, <3>2, <3>3 DEF g
  <2>3. /\ m \in 1 .. n /\ m \in 1 .. n + k /\ m + 1 \in 1 .. n + 1
        /\ m + 1 \notin Bad
    BY <1>1, <2>1, <2>2
  <2>4. f[m + 1] = fa[m + 1] \o fb[1] /\ c[m] = a[m]
    BY <1>2, <2>3 DEF g
  <2>5. f[m] = fa[m] \o fb[1]
    <3>1. CASE m \in I
      <4>1. f[m] = Cons(a[m], fa[m + 1] \o fb[1])
        BY <1>3, <2>3, <2>4, <3>1
      <4>2. fa[m] = Cons(a[m], fa[m + 1])
        BY <1>4, <2>3, <3>1
      <4>3. a[m] \in S /\ fa[m + 1] \in Seq(S)
        BY <1>7, <1>8, <2>3
      <4>4. Cons(a[m], fa[m + 1]) \o fb[1] = Cons(a[m], fa[m + 1] \o fb[1])
        BY <1>0, <1>6, <4>3
      <4>5. QED
        BY <4>1, <4>2, <4>4
    <3>2. CASE m \notin I
      BY <1>3, <1>4, <2>3, <2>4, <3>2
    <3>3. QED
      BY <3>1, <3>2
  <2>6. QED
    BY <2>1, <2>5 DEF g
<1>12. f[1] = fa[1] \o fb[1]
  <2>1. 1 \in 1 .. n + 1
    BY <1>1
  <2>2. QED
    BY <1>11, <2>1
<1>13. QED
  BY <1>3, <1>4, <1>5, <1>12 DEF Joins

-----------------------------------------------------------------------------
(* The loop of withManagedBlock *)

(* The lines of a block differ.                                            *)
LEMMA BeginIsNotEnd ==
    ASSUME NEW r
    PROVE  Begin(r) # End(r) /\ Begin(r) # Body(r) /\ Body(r) # End(r)
BY DEF Begin, End, Body

(* There is a next marker, and only one line is it.                        *)
LEMMA MarkerFound ==
    ASSUME NEW S, NEW lines \in Seq(S), NEW i \in 1 .. Len(lines), NEW r
    PROVE  /\ NextMarker(lines, i, r) \in i + 1 .. Len(lines) + 1
           /\ \/ NextMarker(lines, i, r) = Len(lines) + 1
              \/ lines[NextMarker(lines, i, r)] \in {Begin(r), End(r)}
           /\ \A k \in i + 1 .. NextMarker(lines, i, r) - 1 :
                  lines[k] \notin {Begin(r), End(r)}
           /\ \A j \in i + 1 .. Len(lines) :
                 /\ lines[j] \in {Begin(r), End(r)}
                 /\ \A k \in i + 1 .. j - 1 : lines[k] \notin {Begin(r), End(r)}
                 => j = NextMarker(lines, i, r)
<1> DEFINE n == Len(lines)
           M == {Begin(r), End(r)}
           Is(j) == /\ j = n + 1 \/ lines[j] \in M
                    /\ \A k \in i + 1 .. j - 1 : lines[k] \notin M
           C == {j \in i + 1 .. n + 1 : j = n + 1 \/ lines[j] \in M}
           N == NextMarker(lines, i, r)
<1>1. n \in Nat /\ i \in 1 .. n
  BY LenProperties
<1> HIDE DEF n, M
<1>2. PICK j \in C : \A k \in C : j <= k
  <2>1. n + 1 \in C /\ C \subseteq Nat
    BY <1>1
  <2> HIDE DEF C
  <2>2. QED
    BY <2>1, LeastNumber
<1>3. j \in i + 1 .. n + 1 /\ Is(j)
  <2>1. ASSUME NEW k \in i + 1 .. j - 1 PROVE lines[k] \notin M
    <3>1. k \notin C
      BY <1>1, <1>2
    <3>2. k \in i + 1 .. n + 1
      BY <1>1, <1>2
    <3>3. QED
      BY <3>1, <3>2
  <2>2. QED
    BY <1>2, <2>1
<1>4. N = CHOOSE x \in i + 1 .. n + 1 : Is(x)
  BY DEF NextMarker, n, M
<1> HIDE DEF N
<1>5. N \in i + 1 .. n + 1 /\ Is(N)
  <2> HIDE DEF Is
  <2>1. QED
    BY <1>3, <1>4
<1>6. ASSUME NEW k \in i + 1 .. n, lines[k] \in M,
             \A x \in i + 1 .. k - 1 : lines[x] \notin M
      PROVE  k = N
  <2>1. CASE N < k
    <3>1. N \in i + 1 .. k - 1 /\ N # n + 1
      BY <1>1, <1>5, <2>1
    <3>2. QED
      BY <1>5, <1>6, <3>1
  <2>2. CASE k < N
    <3>1. k \in i + 1 .. N - 1
      BY <1>1, <1>5, <2>2
    <3>2. QED
      BY <1>5, <1>6, <3>1
  <2>3. QED
    BY <1>1, <1>5, <2>1, <2>2
<1>7. QED
  BY <1>5, <1>6 DEF N, n, M

(* The block of a closed BEGIN: where it ends, and what is in it.          *)
LEMMA BlockEnds ==
    ASSUME NEW S, NEW lines \in Seq(S), NEW i \in 1 .. Len(lines), NEW r,
           Closed(lines, i, r)
    PROVE  /\ NextMarker(lines, i, r) \in i + 1 .. Len(lines)
           /\ lines[NextMarker(lines, i, r)] = End(r)
           /\ \A k \in i + 1 .. NextMarker(lines, i, r) : lines[k] # Begin(r)
<1> DEFINE n == Len(lines)
           N == NextMarker(lines, i, r)
<1>1. n \in Nat /\ i \in 1 .. n
  BY LenProperties
<1>2. /\ N \in i + 1 .. n + 1
      /\ \A k \in i + 1 .. N - 1 : lines[k] \notin {Begin(r), End(r)}
  BY MarkerFound
<1>3. N <= n /\ lines[N] = End(r)
  BY DEF Closed
<1> HIDE DEF n, N
<1>4. ASSUME NEW k \in i + 1 .. N PROVE lines[k] # Begin(r)
  <2>1. CASE k = N
    BY <1>3, <2>1, BeginIsNotEnd
  <2>2. CASE k # N
    <3>1. k \in i + 1 .. N - 1
      BY <1>1, <1>2, <2>2
    <3>2. QED
      BY <1>2, <3>1
  <2>3. QED
    BY <2>1, <2>2
<1>5. N \in i + 1 .. n
  BY <1>1, <1>2, <1>3
<1>6. QED
  BY <1>3, <1>4, <1>5 DEF n, N

(* A line is the reflector's own if it is a BEGIN or in such a block.      *)
LEMMA OwnLines ==
    ASSUME NEW S, NEW lines \in Seq(S), NEW k \in 1 .. Len(lines), NEW r
    PROVE  k \in Own(lines, r) <=>
             \/ lines[k] = Begin(r)
             \/ \E i \in 1 .. k - 1 : /\ lines[i] = Begin(r)
                                      /\ Closed(lines, i, r)
                                      /\ k <= NextMarker(lines, i, r)
<1>0. Len(lines) \in Nat
  BY LenProperties
<1>1. ASSUME NEW i \in 1 .. k - 1, NEW j \in k .. Len(lines),
             lines[i] = Begin(r), lines[j] = End(r),
             \A m \in i + 1 .. j - 1 : lines[m] \notin {Begin(r), End(r)}
      PROVE  Closed(lines, i, r) /\ k <= NextMarker(lines, i, r)
  <2>1. i \in 1 .. Len(lines) /\ j \in i + 1 .. Len(lines)
    BY <1>0
  <2>2. j = NextMarker(lines, i, r)
    BY <1>1, <2>1, MarkerFound
  <2>3. j <= Len(lines) /\ k <= j
    BY <1>0
  <2>4. QED
    BY <1>1, <2>2, <2>3 DEF Closed
<1>2. ASSUME NEW i \in 1 .. k - 1, lines[i] = Begin(r),
             Closed(lines, i, r), k <= NextMarker(lines, i, r)
      PROVE  \E j \in k .. Len(lines) :
                /\ lines[j] = End(r)
                /\ \A m \in i + 1 .. j - 1 : lines[m] \notin {Begin(r), End(r)}
  <2> DEFINE N == NextMarker(lines, i, r)
  <2>1. i \in 1 .. Len(lines)
    BY <1>0
  <2>2. N \in i + 1 .. Len(lines) /\ lines[N] = End(r)
    BY <1>2, <2>1, BlockEnds
  <2>3. \A m \in i + 1 .. N - 1 : lines[m] \notin {Begin(r), End(r)}
    BY <2>1, MarkerFound
  <2>4. k <= N
    BY <1>2
  <2> HIDE DEF N
  <2>5. N \in k .. Len(lines)
    BY <1>0, <2>2, <2>4
  <2>6. QED
    BY <2>2, <2>3, <2>5
<1>3. k \in Own(lines, r) <=>
        \/ lines[k] = Begin(r)
        \/ \E i \in 1 .. k - 1 : \E j \in k .. Len(lines) :
              /\ lines[i] = Begin(r)
              /\ lines[j] = End(r)
              /\ \A m \in i + 1 .. j - 1 : lines[m] \notin {Begin(r), End(r)}
  BY DEF Own
<1>4. QED
  BY <1>1, <1>2, <1>3

KeptFrom(lines, r) == LoopFrom(Len(lines), Written(lines, r), Following(lines, r))

(* What the loop of withManagedBlock keeps from each line on.              *)
LEMMA KeptStep ==
    ASSUME NEW S, NEW lines \in Seq(S), NEW r
    PROVE  /\ \A i \in 1 .. Len(lines) + 1 : KeptFrom(lines, r)[i] \in Seq(S)
           /\ KeptFrom(lines, r)[Len(lines) + 1] = <<>>
           /\ \A i \in 1 .. Len(lines) :
                /\ lines[i] # Begin(r) =>
                      KeptFrom(lines, r)[i] = Cons(lines[i], KeptFrom(lines, r)[i + 1])
                /\ lines[i] = Begin(r) /\ ~Closed(lines, i, r) =>
                      KeptFrom(lines, r)[i] = KeptFrom(lines, r)[i + 1]
                /\ lines[i] = Begin(r) /\ Closed(lines, i, r) =>
                      KeptFrom(lines, r)[i]
                        = KeptFrom(lines, r)[NextMarker(lines, i, r) + 1]
           /\ Kept(lines, r) = KeptFrom(lines, r)[1]
<1> DEFINE n == Len(lines)
           N(i) == NextMarker(lines, i, r)
           C(i) == Closed(lines, i, r)
           out == Written(lines, r)
           next == Following(lines, r)
           f == KeptFrom(lines, r)
<1>1. n \in Nat /\ \A i \in 1 .. n : lines[i] \in S
  BY LenProperties, ElementOfSeq
<1>2. \A i \in 1 .. n : C(i) => N(i) \in i + 1 .. n
  BY BlockEnds
<1> HIDE DEF n, N, C
<1>3. /\ out = [i \in 1 .. n |-> out[i]]
      /\ \A i \in 1 .. n : /\ lines[i] = Begin(r) => out[i] = <<>>
                           /\ lines[i] # Begin(r) => out[i] = <<lines[i]>>
  BY DEF Written, n
<1>4. /\ next = [i \in 1 .. n |-> next[i]]
      /\ \A i \in 1 .. n : /\ lines[i] = Begin(r) /\ C(i) => next[i] = N(i) + 1
                           /\ ~(lines[i] = Begin(r) /\ C(i)) => next[i] = i + 1
  BY DEF Following, n, N, C
<1> HIDE DEF out, next
<1>5. ASSUME NEW i \in 1 .. n PROVE out[i] \in Seq(S)
  <2>1. <<lines[i]>> \in Seq(S) /\ <<>> \in Seq(S)
    BY <1>1, EmptySeq
  <2>2. QED
    BY <1>3, <2>1
<1>6. ASSUME NEW i \in 1 .. n PROVE next[i] \in i + 1 .. n + 1 /\ next[i] \in Nat
  <2>1. CASE lines[i] = Begin(r) /\ C(i)
    <3>1. next[i] = N(i) + 1 /\ N(i) \in i + 1 .. n
      BY <1>2, <1>4, <2>1
    <3>2. QED
      BY <1>1, <3>1
  <2>2. CASE ~(lines[i] = Begin(r) /\ C(i))
    <3>1. next[i] = i + 1
      BY <1>4, <2>2
    <3>2. QED
      BY <1>1, <3>1
  <2>3. QED
    BY <2>1, <2>2
<1>7. IsLoop(n, out, next, S)
  <2>1. out \in [1 .. n -> Seq(S)]
    BY <1>3, <1>5
  <2>2. next \in [1 .. n -> Nat]
    BY <1>4, <1>6
  <2>3. QED
    BY <1>1, <1>6, <2>1, <2>2 DEF IsLoop
<1>8. f = LoopFrom(n, out, next)
  BY DEF KeptFrom, n, out, next
<1>9. Solves(f, 1, n, out, next, S)
  BY <1>7, <1>8, LoopEnds
<1> HIDE DEF f
<1>10. /\ f \in [1 .. n + 1 -> Seq(S)] /\ f[n + 1] = <<>>
       /\ \A i \in 1 .. n : f[i] = out[i] \o f[next[i]]
  BY <1>9 DEF Solves
<1>11. ASSUME NEW i \in 1 .. n
       PROVE  /\ lines[i] # Begin(r) => f[i] = Cons(lines[i], f[i + 1])
              /\ lines[i] = Begin(r) /\ ~C(i) => f[i] = f[i + 1]
              /\ lines[i] = Begin(r) /\ C(i) => f[i] = f[N(i) + 1]
  <2>1. f[i] = out[i] \o f[next[i]] /\ next[i] \in 1 .. n + 1
    <3>1. next[i] \in i + 1 .. n + 1
      BY <1>6
    <3>2. next[i] \in 1 .. n + 1
      BY <1>1, <3>1
    <3>3. QED
      BY <1>10, <3>2
  <2>2. CASE lines[i] # Begin(r)
    <3>1. out[i] = <<lines[i]>> /\ next[i] = i + 1
      BY <1>3, <1>4, <2>2
    <3>2. QED
      BY <2>1, <2>2, <3>1 DEF Cons
  <2>3. CASE lines[i] = Begin(r)
    <3>1. out[i] = <<>> /\ f[next[i]] \in Seq(S)
      BY <1>3, <1>10, <2>1, <2>3
    <3>2. <<>> \o f[next[i]] = f[next[i]]
      BY <3>1, ConcatEmptySeq
    <3>3. f[i] = f[next[i]]
      BY <2>1, <3>1, <3>2
    <3>4. QED
      BY <1>4, <2>3, <3>3
  <2>4. QED
    BY <2>2, <2>3
<1>12. Kept(lines, r) = f[1]
  BY DEF Kept, Loop, KeptFrom, f
<1>13. QED
  BY <1>10, <1>11, <1>12 DEF f, n, N, C

(* The loop of withManagedBlock, going from marker to marker, keeps        *)
(* exactly the lines that are not the reflector's own by their definition, *)
(* of any file.                                                            *)
THEOREM KeptIsOthers ==
    ASSUME NEW S, NEW lines \in Seq(S), NEW r
    PROVE  Kept(lines, r) = Others(lines, r)
<1> DEFINE n == Len(lines)
           O == Own(lines, r)
           I == (1 .. Len(lines)) \ Own(lines, r)
           N(i) == NextMarker(lines, i, r)
           C(i) == Closed(lines, i, r)
           f == KeptFrom(lines, r)
           g == From(lines, I)
           Out(i) == \A b \in 1 .. i - 1 : lines[b] = Begin(r) /\ C(b) => N(b) < i
           Bad == {i \in 1 .. n + 1 : Out(i) /\ f[i] # g[i]}
<1>1. n \in Nat
  BY LenProperties
<1>2. \A k \in 1 .. n : k \in O <=>
          \/ lines[k] = Begin(r)
          \/ \E i \in 1 .. k - 1 : lines[i] = Begin(r) /\ C(i) /\ k <= N(i)
  BY OwnLines
<1>3. \A i \in 1 .. n : C(i) => /\ N(i) \in i + 1 .. n
                                /\ \A k \in i + 1 .. N(i) : lines[k] # Begin(r)
  BY BlockEnds
<1>4. /\ f[n + 1] = <<>>
      /\ \A i \in 1 .. n :
           /\ lines[i] # Begin(r) => f[i] = Cons(lines[i], f[i + 1])
           /\ lines[i] = Begin(r) /\ ~C(i) => f[i] = f[i + 1]
           /\ lines[i] = Begin(r) /\ C(i) => f[i] = f[N(i) + 1]
      /\ Kept(lines, r) = f[1]
  BY KeptStep
<1>5. \A i \in 1 .. n : i \in I <=> i \notin O
  OBVIOUS
<1>6. Others(lines, r) = Select(lines, I)
  BY DEF Others
<1> HIDE DEF I
<1>7. /\ g[n + 1] = <<>>
      /\ \A i \in 1 .. n : /\ i \in I => g[i] = Cons(lines[i], g[i + 1])
                           /\ i \notin I => g[i] = g[i + 1]
      /\ Select(lines, I) = g[1]
  BY SelectFrom
<1>8. \A a \in 1 .. n + 1 : \A b \in a .. n + 1 :
          (\A i \in a .. b - 1 : i \notin I) => g[a] = g[b]
  BY SelectSkips
<1> HIDE DEF n, O, N, C, f, g
<1>9. Bad = {}
  <2> SUFFICES ASSUME Bad # {} PROVE FALSE
    OBVIOUS
  <2>1. PICK m \in Bad : \A k \in Bad : k <= m
    <3>1. Bad \subseteq 1 .. n + 1 /\ n + 1 \in Nat
      BY <1>1
    <3> HIDE DEF Bad
    <3>2. QED
      BY <3>1, LastLine
  <2>2. m \in 1 .. n /\ m + 1 \in 1 .. n + 1 /\ Out(m) /\ f[m] # g[m]
    BY <1>1, <1>4, <1>7, <2>1
  <2>3. \A k \in 1 .. n + 1 : m < k /\ Out(k) => f[k] = g[k]
    BY <1>1, <2>1, <2>2
  <2>4. CASE lines[m] # Begin(r)
    <3>1. m \notin O
      BY <1>1, <1>2, <1>3, <2>2, <2>4
    <3>2. Out(m + 1)
      <4>1. ASSUME NEW b \in 1 .. m, lines[b] = Begin(r), C(b)
            PROVE  N(b) < m + 1
        <5>1. b \in 1 .. m - 1 /\ b \in 1 .. n
          BY <1>1, <2>2, <2>4, <4>1
        <5>2. N(b) < m /\ N(b) \in b + 1 .. n
          BY <1>3, <2>2, <4>1, <5>1
        <5>3. QED
          BY <1>1, <2>2, <5>2
      <4>2. 1 .. (m + 1) - 1 = 1 .. m
        BY <1>1, <2>2
      <4>3. QED
        BY <4>1, <4>2
    <3>3. f[m + 1] = g[m + 1]
      BY <1>1, <2>2, <2>3, <3>2
    <3>4. QED
      BY <1>4, <1>5, <1>7, <2>2, <2>4, <3>1, <3>3
  <2>5. CASE lines[m] = Begin(r) /\ ~C(m)
    <3>1. m \in O
      BY <1>2, <2>2, <2>5
    <3>2. Out(m + 1)
      <4>1. ASSUME NEW b \in 1 .. m, lines[b] = Begin(r), C(b)
            PROVE  N(b) < m + 1
        <5>1. b \in 1 .. m - 1 /\ b \in 1 .. n
          BY <1>1, <2>2, <2>5, <4>1
        <5>2. N(b) < m /\ N(b) \in b + 1 .. n
          BY <1>3, <2>2, <4>1, <5>1
        <5>3. QED
          BY <1>1, <2>2, <5>2
      <4>2. 1 .. (m + 1) - 1 = 1 .. m
        BY <1>1, <2>2
      <4>3. QED
        BY <4>1, <4>2
    <3>3. f[m + 1] = g[m + 1]
      BY <1>1, <2>2, <2>3, <3>2
    <3>4. QED
      BY <1>4, <1>5, <1>7, <2>2, <2>5, <3>1, <3>3
  <2>6. CASE lines[m] = Begin(r) /\ C(m)
    <3>1. /\ N(m) \in m + 1 .. n
          /\ \A k \in m + 1 .. N(m) : lines[k] # Begin(r)
      BY <1>3, <2>2, <2>6
    <3>2. N(m) + 1 \in m .. n + 1 /\ N(m) + 1 \in 1 .. n + 1
      BY <1>1, <2>2, <3>1
    <3>3. Out(N(m) + 1)
      <4>1. ASSUME NEW b \in 1 .. N(m), lines[b] = Begin(r), C(b)
            PROVE  N(b) < N(m) + 1
        <5>1. CASE b < m
          <6>1. b \in 1 .. n /\ b \in 1 .. m - 1
            BY <1>1, <2>2, <5>1
          <6>2. N(b) < m /\ N(b) \in b + 1 .. n
            BY <1>3, <2>2, <4>1, <6>1
          <6>3. QED
            BY <1>1, <2>2, <3>1, <6>2
        <5>2. CASE b = m
          BY <1>1, <3>1, <5>2
        <5>3. CASE b > m
          <6>1. b \in m + 1 .. N(m)
            BY <1>1, <2>2, <3>1, <5>3
          <6>2. QED
            BY <3>1, <4>1, <6>1
        <5>4. QED
          BY <1>1, <2>2, <3>1, <5>1, <5>2, <5>3
      <4>2. 1 .. (N(m) + 1) - 1 = 1 .. N(m)
        BY <1>1, <3>1
      <4>3. QED
        BY <4>1, <4>2
    <3>4. f[N(m) + 1] = g[N(m) + 1]
      BY <1>1, <2>2, <2>3, <3>1, <3>2, <3>3
    <3>5. ASSUME NEW k \in m .. (N(m) + 1) - 1 PROVE k \notin I
      <4>1. k \in 1 .. n /\ k <= N(m)
        BY <1>1, <2>2, <3>1
      <4>2. k = m \/ m \in 1 .. k - 1
        BY <1>1, <2>2, <3>1
      <4>3. k \in O
        BY <1>2, <2>6, <4>1, <4>2
      <4>4. QED
        BY <1>5, <4>1, <4>3
    <3>6. g[m] = g[N(m) + 1]
      <4>1. m \in 1 .. n + 1
        BY <1>1, <2>2
      <4>2. QED
        BY <1>8, <3>2, <3>5, <4>1
    <3>7. QED
      BY <1>4, <2>2, <2>6, <3>4, <3>6
  <2>7. QED
    BY <2>4, <2>5, <2>6
<1>10. f[1] = g[1]
  <2>1. 1 \in 1 .. n + 1 /\ Out(1)
    BY <1>1
  <2>2. QED
    BY <1>9, <2>1
<1>11. QED
  BY <1>4, <1>6, <1>7, <1>10

-----------------------------------------------------------------------------
(* The edited file *)

(* The block of r, and a file without a BEGIN of r.                        *)
Block(r) == <<Begin(r), Body(r), End(r)>>

Free(lines, r) == \A i \in 1 .. Len(lines) : lines[i] # Begin(r)

(* A file without a BEGIN has nothing that is the reflector's own.         *)
LEMMA FreeFile ==
    ASSUME NEW S, NEW s \in Seq(S), NEW r, Free(s, r)
    PROVE  /\ Begins(s, r) = {}
           /\ Blocks(s, r) = {}
           /\ InsertAt(s, r) = Len(s)
           /\ Others(s, r) = s
<1>0. Len(s) \in Nat
  BY LenProperties
<1>1. Begins(s, r) = {}
  BY DEF Begins, Free
<1>2. ASSUME NEW k \in 1 .. Len(s) PROVE k \notin Own(s, r)
  <2>1. \A i \in 1 .. k - 1 : i \in 1 .. Len(s)
    BY <1>0
  <2>2. QED
    BY <2>1, OwnLines DEF Free
<1>3. Others(s, r) = s
  <2> DEFINE I == (1 .. Len(s)) \ Own(s, r)
  <2>1. \A i \in 1 .. Len(s) : i \in I
    BY <1>2
  <2>2. Others(s, r) = Select(s, I)
    BY DEF Others
  <2> HIDE DEF I
  <2>3. QED
    BY <2>1, <2>2, SelectAll
<1>4. QED
  BY <1>1, <1>3 DEF Blocks, InsertAt

(* c is p, the block of r, and q.                                          *)
Blocked(c, p, q, r) == \E h : Joins(h, p, Block(r)) /\ Joins(c, h, q)

(* The lines of a file with a block in it.                                 *)
LEMMA BlockedLines ==
    ASSUME NEW S, NEW p \in Seq(S), NEW q \in Seq(S), NEW r, Block(r) \in Seq(S),
           NEW h, Joins(h, p, Block(r)), NEW c, Joins(c, h, q)
    PROVE  /\ h \in Seq(S) /\ Len(h) = Len(p) + 3
           /\ c \in Seq(S) /\ Len(c) = Len(p) + 3 + Len(q)
           /\ \A i \in 1 .. Len(p) : c[i] = p[i]
           /\ c[Len(p) + 1] = Begin(r)
           /\ c[Len(p) + 2] = Body(r)
           /\ c[Len(p) + 3] = End(r)
           /\ \A i \in 1 .. Len(q) : c[Len(p) + 3 + i] = q[i]
<1>1. /\ Len(Block(r)) = 3
      /\ Block(r)[1] = Begin(r) /\ Block(r)[2] = Body(r) /\ Block(r)[3] = End(r)
  BY DEF Block
<1>2. /\ Len(p) \in Nat /\ h \in Seq(S) /\ Len(h) = Len(p) + Len(Block(r))
      /\ \A i \in 1 .. Len(p) : h[i] = p[i]
      /\ \A i \in 1 .. Len(Block(r)) : h[Len(p) + i] = Block(r)[i]
  BY ConcatLines
<1>3. /\ Len(q) \in Nat /\ c \in Seq(S) /\ Len(c) = Len(h) + Len(q)
      /\ \A i \in 1 .. Len(h) : c[i] = h[i]
      /\ \A i \in 1 .. Len(q) : c[Len(h) + i] = q[i]
  <2>1. h \in Seq(S)
    BY <1>2
  <2>2. QED
    BY <2>1, ConcatLines
<1> DEFINE l == Len(p)
           k == Len(q)
<1>4. /\ l \in Nat /\ k \in Nat /\ Len(h) = l + 3 /\ Len(c) = (l + 3) + k
      /\ \A i \in 1 .. l : h[i] = p[i]
      /\ h[l + 1] = Begin(r) /\ h[l + 2] = Body(r) /\ h[l + 3] = End(r)
      /\ \A i \in 1 .. l + 3 : c[i] = h[i]
      /\ \A i \in 1 .. k : c[(l + 3) + i] = q[i]
  BY <1>1, <1>2, <1>3
<1> HIDE DEF l, k
<1>5. \A i \in 1 .. l : c[i] = p[i]
  BY <1>4
<1>6. c[l + 1] = Begin(r) /\ c[l + 2] = Body(r) /\ c[l + 3] = End(r)
  <2>1. l + 1 \in 1 .. l + 3 /\ l + 2 \in 1 .. l + 3 /\ l + 3 \in 1 .. l + 3
    BY <1>4
  <2>2. QED
    BY <1>4, <2>1
<1>7. QED
  BY <1>2, <1>3, <1>4, <1>5, <1>6 DEF l, k

(* What the edit finds in such a file: one block, and the lines of others. *)
LEMMA BlockedFile ==
    ASSUME NEW S, NEW p \in Seq(S), NEW q \in Seq(S), NEW r, Block(r) \in Seq(S),
           Free(p, r), Free(q, r), NEW c, Blocked(c, p, q, r)
    PROVE  /\ c \in Seq(S)
           /\ Begins(c, r) = {Len(p) + 1}
           /\ Blocks(c, r) = {Len(p) + 1}
           /\ InsertAt(c, r) = Len(p)
           /\ Joins(Others(c, r), p, q)
<1>1. PICK h : Joins(h, p, Block(r)) /\ Joins(c, h, q)
  BY DEF Blocked
<1> DEFINE l == Len(p)
           k == Len(q)
<1>3. l \in Nat /\ k \in Nat
  BY LenProperties
<1>4. /\ h \in Seq(S) /\ Len(h) = l + 3 /\ c \in Seq(S) /\ Len(c) = l + 3 + k
      /\ \A i \in 1 .. l : c[i] = p[i]
      /\ c[l + 1] = Begin(r) /\ c[l + 2] = Body(r) /\ c[l + 3] = End(r)
      /\ \A i \in 1 .. k : c[l + 3 + i] = q[i]
  BY <1>1, BlockedLines
<1>5. /\ \A i \in 1 .. l : p[i] # Begin(r)
      /\ \A i \in 1 .. k : q[i] # Begin(r)
  BY DEF Free
<1> HIDE DEF l, k
<1>6. ASSUME NEW i \in 1 .. l + 3 + k, i # l + 1 PROVE c[i] # Begin(r)
  <2>1. CASE i \in 1 .. l
    BY <1>4, <1>5, <2>1
  <2>2. CASE i = l + 2 \/ i = l + 3
    BY <1>4, <2>2, BeginIsNotEnd
  <2>3. CASE i > l + 3
    <3>1. PICK j \in 1 .. k : j = i - (l + 3)
      BY <1>3, <2>3
    <3>2. i = l + 3 + j
      BY <1>3, <3>1
    <3>3. QED
      BY <1>4, <1>5, <3>2
  <2>4. QED
    BY <1>3, <1>6, <2>1, <2>2, <2>3
<1>7. l + 1 \in 1 .. l + 3 + k /\ l + 3 \in (l + 1) + 1 .. l + 3 + k
  BY <1>3
<1>8. Begins(c, r) = {l + 1}
  BY <1>4, <1>6, <1>7 DEF Begins
<1>9. NextMarker(c, l + 1, r) = l + 3
  <2>1. ASSUME NEW i \in (l + 1) + 1 .. (l + 3) - 1 PROVE c[i] \notin {Begin(r), End(r)}
    <3>1. i = l + 2
      BY <1>3
    <3>2. QED
      BY <1>4, <3>1, BeginIsNotEnd
  <2>2. c[l + 3] \in {Begin(r), End(r)}
    BY <1>4
  <2>3. l + 1 \in 1 .. Len(c) /\ l + 3 \in (l + 1) + 1 .. Len(c)
    BY <1>4, <1>7
  <2>4. QED
    BY <1>4, <2>1, <2>2, <2>3, MarkerFound
<1>10. Closed(c, l + 1, r)
  <2>1. l + 3 <= Len(c)
    BY <1>3, <1>4
  <2>2. QED
    BY <1>4, <1>9, <2>1 DEF Closed
<1>11. Blocks(c, r) = {l + 1}
  BY <1>8, <1>10 DEF Blocks
<1>12. InsertAt(c, r) = l
  <2>1. (CHOOSE i \in {l + 1} : \A x \in {l + 1} : i <= x) = l + 1
    BY <1>3
  <2>2. QED
    BY <1>3, <1>8, <2>1 DEF InsertAt
<1>13. ASSUME NEW i \in 1 .. l + 3 + k
       PROVE  i \in Own(c, r) <=> i \in l + 1 .. l + 3
  <2>1. i \in Own(c, r) <=>
          \/ c[i] = Begin(r)
          \/ \E j \in 1 .. i - 1 : /\ c[j] = Begin(r) /\ Closed(c, j, r)
                                   /\ i <= NextMarker(c, j, r)
    BY <1>4, OwnLines
  <2>2. c[i] = Begin(r) <=> i = l + 1
    BY <1>4, <1>6
  <2>3. \A j \in 1 .. i - 1 : c[j] = Begin(r) <=> j = l + 1
    <3>1. \A j \in 1 .. i - 1 : j \in 1 .. l + 3 + k
      BY <1>3
    <3>2. QED
      BY <1>4, <1>6, <3>1
  <2>4. i \in Own(c, r) <=> i = l + 1 \/ (l + 1 \in 1 .. i - 1 /\ i <= l + 3)
    BY <1>9, <1>10, <2>1, <2>2, <2>3
  <2>5. QED
    BY <1>3, <2>4
<1>14. Joins(Others(c, r), p, q)
  <2> DEFINE I == (1 .. Len(c)) \ Own(c, r)
             J == {i \in 1 .. Len(q) : Len(h) + i \in I}
             B == {i \in 1 .. Len(Block(r)) : Len(p) + i \in I}
  <2>1. \A i \in 1 .. l + 3 + k : i \in I <=> ~(i \in l + 1 .. l + 3)
    BY <1>4, <1>13
  <2>2. Others(c, r) = Select(c, I)
    BY DEF Others
  <2> HIDE DEF I
  <2>3. \A i \in 1 .. k : i \in J
    <3>1. \A i \in 1 .. k : /\ l + 3 + i \in 1 .. l + 3 + k
                            /\ ~(l + 3 + i \in l + 1 .. l + 3)
      BY <1>3
    <3>2. QED
      BY <1>4, <2>1, <3>1 DEF k
  <2>4. \A i \in 1 .. 3 : i \notin B
    <3>1. \A i \in 1 .. 3 : l + i \in 1 .. l + 3 + k /\ l + i \in l + 1 .. l + 3
      BY <1>3
    <3>2. QED
      BY <2>1, <3>1 DEF l
  <2>5. \A i \in 1 .. l : i \in I
    <3>1. \A i \in 1 .. l : i \in 1 .. l + 3 + k /\ ~(i \in l + 1 .. l + 3)
      BY <1>3
    <3>2. QED
      BY <2>1, <3>1
  <2>a. h \in Seq(S)
    BY <1>4
  <2>6. Joins(Select(c, I), Select(h, I), Select(q, J))
    <3>1. \A i \in 1 .. Len(q) : i \in J <=> Len(h) + i \in I
      OBVIOUS
    <3> HIDE DEF J
    <3>2. QED
      BY <1>1, <2>a, <3>1, SelectConcat
  <2>7. Joins(Select(h, I), Select(p, I), Select(Block(r), B))
    <3>1. \A i \in 1 .. Len(Block(r)) : i \in B <=> Len(p) + i \in I
      OBVIOUS
    <3> HIDE DEF B
    <3>2. QED
      BY <1>1, <3>1, SelectConcat
  <2> HIDE DEF J, B
  <2>8. Select(q, J) = q
    BY <2>3, SelectAll DEF k
  <2>9. Select(p, I) = p
    BY <2>5, SelectAll DEF l
  <2>10. Select(Block(r), B) = <<>>
    <3>1. Len(Block(r)) = 3
      BY DEF Block
    <3>2. QED
      BY <2>4, <3>1, SelectNone
  <2>11. p \o <<>> = p
    BY ConcatEmptySeq
  <2>12. QED
    BY <2>2, <2>6, <2>7, <2>8, <2>9, <2>10, <2>11 DEF Joins
<1>15. QED
  BY <1>4, <1>8, <1>11, <1>12, <1>14 DEF l

(* The two parts of a file, cut after line n.                              *)
First(s, n) == SubSeq(s, 1, n)

Rest(s, n) == SubSeq(s, n + 1, Len(s))

(* A file cut in two.                                                      *)
LEMMA CutFile ==
    ASSUME NEW S, NEW s \in Seq(S), NEW n \in 0 .. Len(s)
    PROVE  /\ First(s, n) \in Seq(S) /\ Len(First(s, n)) = n
           /\ \A i \in 1 .. n : First(s, n)[i] = s[i]
           /\ Rest(s, n) \in Seq(S) /\ Len(Rest(s, n)) = Len(s) - n
           /\ \A i \in 1 .. Len(s) - n : Rest(s, n)[i] = s[n + i]
           /\ Joins(s, First(s, n), Rest(s, n))
<1> DEFINE k == Len(s)
<1>1. k \in Nat /\ n \in 0 .. k /\ \A i \in 1 .. k : s[i] \in S
  BY LenProperties, ElementOfSeq
<1>2. Joins(s, First(s, n), Rest(s, n))
  <2>1. 1 \in 1 .. k + 1 /\ n \in 1 - 1 .. k /\ k \in n .. k
    BY <1>1
  <2>2. SubSeq(s, 1, n) \o SubSeq(s, n + 1, k) = SubSeq(s, 1, k)
    BY <2>1, ConcatAdjacentSubSeq
  <2>3. QED
    BY <2>2, SubSeqFull DEF Joins, First, Rest
<1> HIDE DEF k
<1>3. /\ First(s, n) \in Seq(S) /\ Len(First(s, n)) = n
      /\ \A i \in 1 .. n : First(s, n)[i] = s[i]
  <2>1. /\ 1 \in Int /\ n \in Int /\ n - 1 + 1 = n
        /\ \A i \in 1 .. n : s[i] \in S /\ 1 + i - 1 = i
    BY <1>1
  <2>2. /\ SubSeq(s, 1, n) \in Seq(S)
        /\ Len(SubSeq(s, 1, n)) = IF 1 <= n THEN n - 1 + 1 ELSE 0
        /\ \A i \in 1 .. n - 1 + 1 : SubSeq(s, 1, n)[i] = s[1 + i - 1]
    BY <2>1, SubSeqProperties
  <2>3. QED
    BY <1>1, <2>1, <2>2 DEF First
<1>4. /\ Rest(s, n) \in Seq(S) /\ Len(Rest(s, n)) = k - n
      /\ \A i \in 1 .. k - n : Rest(s, n)[i] = s[n + i]
  <2>1. /\ n + 1 \in Int /\ k \in Int /\ k - (n + 1) + 1 = k - n
        /\ \A i \in n + 1 .. k : s[i] \in S
        /\ \A i \in 1 .. k - n : (n + 1) + i - 1 = n + i
    BY <1>1
  <2>2. /\ SubSeq(s, n + 1, k) \in Seq(S)
        /\ Len(SubSeq(s, n + 1, k)) = IF n + 1 <= k THEN k - (n + 1) + 1 ELSE 0
        /\ \A i \in 1 .. k - (n + 1) + 1 : SubSeq(s, n + 1, k)[i] = s[(n + 1) + i - 1]
    BY <2>1, SubSeqProperties
  <2>3. Len(SubSeq(s, n + 1, k)) = k - n
    BY <1>1, <2>1, <2>2
  <2>4. QED
    BY <2>1, <2>2, <2>3 DEF Rest, k
<1>5. QED
  BY <1>2, <1>3, <1>4 DEF k

(* ... where it was put together.                                          *)
LEMMA CutJoint ==
    ASSUME NEW S, NEW a \in Seq(S), NEW b \in Seq(S), NEW c, Joins(c, a, b)
    PROVE  First(c, Len(a)) = a /\ Rest(c, Len(a)) = b
<1>1. /\ Len(a) \in Nat /\ Len(b) \in Nat
      /\ c \in Seq(S) /\ Len(c) = Len(a) + Len(b)
      /\ \A i \in 1 .. Len(a) : c[i] = a[i]
      /\ \A i \in 1 .. Len(b) : c[Len(a) + i] = b[i]
  BY ConcatLines
<1>2. c \in Seq(S)
  BY <1>1
<1>3. Len(a) \in 0 .. Len(c) /\ Len(c) - Len(a) = Len(b)
  BY <1>1
<1>4. /\ First(c, Len(a)) \in Seq(S) /\ Len(First(c, Len(a))) = Len(a)
      /\ \A i \in 1 .. Len(a) : First(c, Len(a))[i] = c[i]
      /\ Rest(c, Len(a)) \in Seq(S) /\ Len(Rest(c, Len(a))) = Len(c) - Len(a)
      /\ \A i \in 1 .. Len(c) - Len(a) : Rest(c, Len(a))[i] = c[Len(a) + i]
  BY <1>2, <1>3, CutFile
<1>5. First(c, Len(a)) = a
  BY <1>1, <1>4, SeqEqual
<1>6. Rest(c, Len(a)) = b
  BY <1>1, <1>3, <1>4, SeqEqual
<1>7. QED
  BY <1>5, <1>6

(* What is not the reflector's own has no BEGIN in it.                     *)
LEMMA OthersFree ==
    ASSUME NEW S, NEW lines \in Seq(S), NEW r
    PROVE  Others(lines, r) \in Seq(S) /\ Free(Others(lines, r), r)
<1> DEFINE I == (1 .. Len(lines)) \ Own(lines, r)
           T == {lines[i] : i \in I \cap 1 .. Len(lines)}
<1>1. Others(lines, r) = Select(lines, I)
  BY DEF Others
<1>2. Begin(r) \notin T
  <2>1. \A i \in 1 .. Len(lines) : lines[i] = Begin(r) => i \in Own(lines, r)
    BY DEF Own
  <2>2. QED
    BY <2>1
<1> HIDE DEF I
<1>3. Select(lines, I) \in Seq(S) /\ Select(lines, I) \in Seq(T)
  BY SelectType, SelectSeqType
<1> HIDE DEF T
<1>4. Free(Select(lines, I), r)
  BY <1>2, <1>3, ElementOfSeq DEF Free
<1>5. QED
  BY <1>1, <1>3, <1>4

(* The lines before the first BEGIN are all kept, so that insertAt is a    *)
(* place in what is.                                                       *)
LEMMA InsertInKept ==
    ASSUME NEW S, NEW lines \in Seq(S), NEW r
    PROVE  InsertAt(lines, r) \in 0 .. Len(Others(lines, r))
<1> DEFINE n == Len(lines)
           I == (1 .. Len(lines)) \ Own(lines, r)
           at == InsertAt(lines, r)
           g == From(lines, I)
           Bad == {i \in 1 .. at + 1 : Len(g[i]) < at + 1 - i}
<1>1. n \in Nat
  BY LenProperties
<1>2. at \in 0 .. n /\ \A i \in 1 .. at : lines[i] # Begin(r)
  <2>1. CASE Begins(lines, r) = {}
    BY <1>1, <2>1 DEF InsertAt, Begins
  <2>2. CASE Begins(lines, r) # {}
    <3> DEFINE B == Begins(lines, r)
    <3>1. B \subseteq Nat /\ B \subseteq 1 .. n /\ B # {}
      BY <2>2 DEF Begins
    <3>2. \A i \in 1 .. n : lines[i] = Begin(r) => i \in B
      BY DEF Begins
    <3>3. at = (CHOOSE i \in B : \A k \in B : i <= k) - 1
      BY <2>2 DEF InsertAt
    <3> HIDE DEF B, at, n
    <3>4. PICK x : x = CHOOSE i \in B : \A k \in B : i <= k
      OBVIOUS
    <3>5. x \in B /\ \A k \in B : x <= k
      <4>1. \E i \in B : \A k \in B : i <= k
        BY <3>1, LeastNumber
      <4>2. QED
        BY <3>4, <4>1
    <3>6. at = x - 1 /\ x \in 1 .. n
      BY <3>1, <3>3, <3>4, <3>5
    <3>7. ASSUME NEW i \in 1 .. at PROVE lines[i] # Begin(r)
      <4>1. i \in 1 .. n /\ ~(x <= i)
        BY <1>1, <3>6
      <4>2. QED
        BY <3>2, <3>5, <4>1
    <3>8. QED
      BY <1>1, <3>6, <3>7
  <2>3. QED
    BY <2>1, <2>2
<1>3. ASSUME NEW k \in 1 .. at PROVE k \in I
  <2>1. k \in 1 .. n /\ \A i \in 1 .. k - 1 : i \in 1 .. at
    BY <1>1, <1>2
  <2>2. k \notin Own(lines, r)
    BY <1>2, <2>1, OwnLines
  <2>3. QED
    BY <2>1, <2>2
<1>4. Others(lines, r) = Select(lines, I)
  BY DEF Others
<1> HIDE DEF I
<1>5. /\ \A i \in 1 .. n : i \in I => g[i] = Cons(lines[i], g[i + 1])
      /\ Select(lines, I) = g[1]
  BY SelectFrom
<1>6. \A i \in 1 .. n + 1 : g[i] \in Seq(S)
  <2> DEFINE U == {lines[i] : i \in I \cap 1 .. n}
  <2>1. U \subseteq S
    BY ElementOfSeq
  <2>2. g \in [1 .. n + 1 -> Seq(U)]
    BY SelectFrom
  <2> HIDE DEF U
  <2>3. QED
    BY <2>1, <2>2, SeqMonotonic
<1>7. \A i \in 1 .. n : lines[i] \in S
  BY ElementOfSeq
<1> HIDE DEF n, at, g
<1>8. Bad = {}
  <2> SUFFICES ASSUME Bad # {} PROVE FALSE
    OBVIOUS
  <2>1. PICK m \in Bad : \A k \in Bad : k <= m
    <3>1. Bad \subseteq 1 .. at + 1 /\ at + 1 \in Nat
      BY <1>1, <1>2
    <3> HIDE DEF Bad
    <3>2. QED
      BY <3>1, LastLine
  <2>2. m \in 1 .. n + 1 /\ m \in 1 .. at + 1 /\ Len(g[m]) < at + 1 - m
    BY <1>1, <1>2, <2>1
  <2>3. Len(g[m]) \in Nat
    BY <1>6, <2>2, LenProperties
  <2>4. m \in 1 .. at /\ m \in 1 .. n /\ m + 1 \in 1 .. at + 1 /\ m + 1 \in 1 .. n + 1
    BY <1>1, <1>2, <2>2, <2>3
  <2>5. m + 1 \notin Bad
    BY <1>1, <1>2, <2>1, <2>4
  <2>6. ~(Len(g[m + 1]) < at + 1 - (m + 1))
    BY <2>4, <2>5
  <2>7. PICK s \in Seq(S) : s = g[m + 1]
    BY <1>6, <2>4
  <2>8. lines[m] \in S /\ g[m] = Cons(lines[m], s) /\ Len(s) \in Nat
    BY <1>3, <1>5, <1>7, <2>4, <2>7, LenProperties
  <2>9. Len(Cons(lines[m], s)) = 1 + Len(s)
    <3>1. <<lines[m]>> \in Seq(S) /\ Len(<<lines[m]>>) = 1
      BY <2>8
    <3>2. QED
      BY <3>1, ConcatProperties DEF Cons
  <2>10. QED
    BY <1>1, <1>2, <2>2, <2>4, <2>6, <2>7, <2>8, <2>9
<1>9. Len(g[1]) \in Nat /\ at <= Len(g[1])
  <2>1. 1 \in 1 .. at + 1 /\ 1 \in 1 .. n + 1
    BY <1>1, <1>2
  <2>2. Len(g[1]) \in Nat
    BY <1>6, <2>1, LenProperties
  <2>3. ~(Len(g[1]) < at + 1 - 1)
    BY <1>8, <2>1
  <2>4. QED
    BY <1>2, <2>2, <2>3
<1>10. QED
  BY <1>2, <1>4, <1>5, <1>9 DEF at

(* The edit: the lines of others, with the block between them or without.  *)
LEMMA Edited ==
    ASSUME NEW S, NEW lines \in Seq(S), NEW r
    PROVE  /\ Blocked(WithManagedBlock(lines, r, TRUE),
                      First(Others(lines, r), InsertAt(lines, r)),
                      Rest(Others(lines, r), InsertAt(lines, r)), r)
           /\ WithManagedBlock(lines, r, FALSE) = Others(lines, r)
<1>1. PICK o \in Seq(S) : o = Others(lines, r) /\ o = Kept(lines, r)
  BY OthersFree, KeptIsOthers
<1>2. PICK at \in 0 .. Len(o) : at = InsertAt(lines, r)
  BY <1>1, InsertInKept
<1>3. \A present \in BOOLEAN :
        WithManagedBlock(lines, r, present) =
          (First(o, at) \o (IF present THEN Block(r) ELSE <<>>)) \o Rest(o, at)
  BY <1>1, <1>2 DEF WithManagedBlock, First, Rest, Block
<1>4. First(o, at) \in Seq(S) /\ Joins(o, First(o, at), Rest(o, at))
  BY CutFile
<1>5. WithManagedBlock(lines, r, FALSE) = o
  <2>1. First(o, at) \o <<>> = First(o, at)
    BY <1>4, ConcatEmptySeq
  <2>2. QED
    BY <1>3, <1>4, <2>1 DEF Joins
<1>6. Blocked(WithManagedBlock(lines, r, TRUE), First(o, at), Rest(o, at), r)
  BY <1>3 DEF Blocked, Joins
<1>7. QED
  BY <1>1, <1>2, <1>5, <1>6

(* The edit of a file that has a block already.                            *)
LEMMA EditBlocked ==
    ASSUME NEW S, NEW p \in Seq(S), NEW q \in Seq(S), NEW r, Block(r) \in Seq(S),
           Free(p, r), Free(q, r), NEW c, Blocked(c, p, q, r)
    PROVE  /\ WithManagedBlock(c, r, TRUE) = c
           /\ Joins(WithManagedBlock(c, r, FALSE), p, q)
<1>1. c \in Seq(S) /\ InsertAt(c, r) = Len(p) /\ Joins(Others(c, r), p, q)
  BY BlockedFile
<1>2. c \in Seq(S)
  BY <1>1
<1>3. /\ Blocked(WithManagedBlock(c, r, TRUE),
                 First(Others(c, r), InsertAt(c, r)),
                 Rest(Others(c, r), InsertAt(c, r)), r)
      /\ WithManagedBlock(c, r, FALSE) = Others(c, r)
  BY <1>2, Edited
<1>4. First(Others(c, r), Len(p)) = p /\ Rest(Others(c, r), Len(p)) = q
  BY <1>1, CutJoint
<1>5. Blocked(WithManagedBlock(c, r, TRUE), p, q, r)
  BY <1>1, <1>3, <1>4
<1>6. QED
  BY <1>1, <1>3, <1>5 DEF Blocked, Joins

(* ... and of one that has none.                                           *)
LEMMA EditFree ==
    ASSUME NEW S, NEW s \in Seq(S), NEW r, Free(s, r)
    PROVE  /\ WithManagedBlock(s, r, FALSE) = s
           /\ Blocked(WithManagedBlock(s, r, TRUE), s, <<>>, r)
<1>1. Others(s, r) = s /\ InsertAt(s, r) = Len(s)
  BY FreeFile
<1>2. Joins(s, s, <<>>)
  BY ConcatEmptySeq DEF Joins
<1>3. <<>> \in Seq(S)
  BY EmptySeq
<1>4. First(s, Len(s)) = s /\ Rest(s, Len(s)) = <<>>
  BY <1>2, <1>3, CutJoint
<1>5. /\ Blocked(WithManagedBlock(s, r, TRUE),
                 First(Others(s, r), InsertAt(s, r)),
                 Rest(Others(s, r), InsertAt(s, r)), r)
      /\ WithManagedBlock(s, r, FALSE) = Others(s, r)
  BY Edited
<1>6. QED
  BY <1>1, <1>4, <1>5

(* withManagedBlock on any file whatsoever, whoever's lines it holds and   *)
(* however its markers are mixed up: the lines of others stay, one block   *)
(* or none is left, and to do it again changes nothing.                    *)
THEOREM EditOfAnyFile ==
    ASSUME NEW S, NEW lines \in Seq(S), NEW r, Block(r) \in Seq(S),
           NEW present \in BOOLEAN
    PROVE  LET new == WithManagedBlock(lines, r, present)
           IN  /\ Others(new, r) = Others(lines, r)
               /\ Begins(new, r) = Blocks(new, r)
               /\ Cardinality(Blocks(new, r)) = IF present THEN 1 ELSE 0
               /\ WithManagedBlock(new, r, present) = new
<1>1. PICK o \in Seq(S) : o = Others(lines, r) /\ Free(o, r)
  BY OthersFree
<1>2. PICK at \in 0 .. Len(o) : at = InsertAt(lines, r)
  BY <1>1, InsertInKept
<1>3. PICK new : new = WithManagedBlock(lines, r, present)
  OBVIOUS
<1>4. CASE present
  <2>1. PICK p \in Seq(S), q \in Seq(S) :
           /\ p = First(o, at) /\ q = Rest(o, at) /\ Joins(o, p, q)
           /\ Free(p, r) /\ Free(q, r)
    <3>1. /\ First(o, at) \in Seq(S) /\ Len(First(o, at)) = at
          /\ \A i \in 1 .. at : First(o, at)[i] = o[i]
          /\ Rest(o, at) \in Seq(S) /\ Len(Rest(o, at)) = Len(o) - at
          /\ \A i \in 1 .. Len(o) - at : Rest(o, at)[i] = o[at + i]
          /\ Joins(o, First(o, at), Rest(o, at))
      BY CutFile
    <3>2. Len(o) \in Nat
      BY LenProperties
    <3>3. /\ \A i \in 1 .. at : i \in 1 .. Len(o)
          /\ \A i \in 1 .. Len(o) - at : at + i \in 1 .. Len(o)
      BY <3>2
    <3>4. \A i \in 1 .. Len(o) : o[i] # Begin(r)
      BY <1>1 DEF Free
    <3>5. Free(First(o, at), r) /\ Free(Rest(o, at), r)
      BY <3>1, <3>3, <3>4 DEF Free
    <3>6. QED
      BY <3>1, <3>5
  <2>2. Blocked(new, p, q, r)
    BY <1>1, <1>2, <1>3, <1>4, <2>1, Edited
  <2>a. Free(p, r) /\ Free(q, r)
    BY <2>1
  <2>3. /\ Joins(Others(new, r), p, q) /\ Begins(new, r) = {Len(p) + 1}
        /\ Blocks(new, r) = {Len(p) + 1}
    BY <2>a, <2>2, BlockedFile
  <2>4. /\ WithManagedBlock(new, r, TRUE) = new
        /\ Joins(WithManagedBlock(new, r, FALSE), p, q)
    BY <2>a, <2>2, EditBlocked
  <2>5. Cardinality(Blocks(new, r)) = 1
    BY <2>3, FS_Singleton
  <2>6. QED
    BY <1>1, <1>3, <1>4, <2>1, <2>3, <2>4, <2>5 DEF Joins
<1>5. CASE ~present
  <2>1. new = o
    BY <1>1, <1>3, <1>5, Edited
  <2>2. Others(o, r) = o /\ Begins(o, r) = {} /\ Blocks(o, r) = {}
    BY <1>1, FreeFile
  <2>3. WithManagedBlock(o, r, FALSE) = o
    BY <1>1, EditFree
  <2>4. Cardinality(Blocks(o, r)) = 0
    BY <2>2, FS_EmptySet
  <2>5. QED
    BY <1>1, <1>3, <1>5, <2>1, <2>2, <2>3, <2>4
<1>6. QED
  BY <1>4, <1>5

-----------------------------------------------------------------------------
(* The files of the node *)

Line == {"host", "begin", "body", "end"} \X {"me", "other", "program"}

(* The lines that are not the agent's, and those that begin no block of    *)
(* it.                                                                     *)
ForeignLine == {l \in Line : l[2] # Me}

FreeLine == Line \ {Begin(Me)}

(* Nothing but the block of the agent is the agent's.                      *)
Tidy(lines) ==
    \/ lines \in Seq(ForeignLine)
    \/ \E p, q \in Seq(ForeignLine) : Blocked(lines, p, q, Me)

(* What one of the others makes of a file.                                 *)
TheirEdit(lines, t) ==
    LET kept == Select(lines, {i \in 1 .. Len(lines) :
                                  \A k \in 1 .. Len(t) : lines[i] # t[k]})
    IN  IF kept = lines THEN lines \o t ELSE kept

LEMMA LineValues ==
    /\ HostLine \in ForeignLine
    /\ <<HostLine>> \in Seq(ForeignLine)
    /\ \A r \in {Me, "other"} : Block(r) \in Seq(Line)
    /\ ForeignLine \subseteq FreeLine /\ FreeLine \subseteq Line
    /\ ForeignLine \subseteq Line
    /\ \A t \in Theirs : t \in Seq(ForeignLine)
<1>1. /\ HostLine \in ForeignLine /\ <<"host", "program">> \in ForeignLine
      /\ Begin("other") \in ForeignLine /\ Body("other") \in ForeignLine
      /\ End("other") \in ForeignLine
      /\ Begin(Me) \in Line /\ Body(Me) \in Line /\ End(Me) \in Line
      /\ Begin(Me) \notin ForeignLine
  BY DEF HostLine, ForeignLine, Line, Begin, Body, End, Me
<1>2. ForeignLine \subseteq Line
  BY DEF ForeignLine
<1> HIDE DEF ForeignLine, Line
<1>3. ForeignLine \subseteq FreeLine /\ FreeLine \subseteq Line
  BY <1>1, <1>2 DEF FreeLine
<1>4. <<HostLine>> \in Seq(ForeignLine)
  BY <1>1
<1>5. Block(Me) \in Seq(Line)
  BY <1>1 DEF Block
<1>6. Block("other") \in Seq(ForeignLine)
  BY <1>1 DEF Block
<1>7. <<<<"host", "program">>>> \in Seq(ForeignLine)
  BY <1>1
<1>8. Block("other") \in Seq(Line)
  BY <1>2, <1>6, SeqMonotonic
<1>9. \A t \in Theirs : t \in Seq(ForeignLine)
  BY <1>6, <1>7 DEF Theirs, Block
<1>10. \A r \in {Me, "other"} : Block(r) \in Seq(Line)
  BY <1>5, <1>8
<1>11. QED
  BY <1>1, <1>2, <1>3, <1>4, <1>9, <1>10

LEMMA FreeSeq ==
    ASSUME NEW s \in Seq(FreeLine)
    PROVE  s \in Seq(Line) /\ Free(s, Me) /\ Blocks(s, Me) = {}
<1>1. s \in Seq(Line)
  BY LineValues, SeqMonotonic
<1>2. Free(s, Me)
  BY ElementOfSeq DEF Free, FreeLine
<1>3. QED
  BY <1>1, <1>2, FreeFile

LEMMA ForeignSeq ==
    ASSUME NEW s \in Seq(ForeignLine)
    PROVE  s \in Seq(FreeLine) /\ s \in Seq(Line) /\ Free(s, Me)
<1>1. s \in Seq(FreeLine)
  BY LineValues, SeqMonotonic
<1>2. QED
  BY <1>1, FreeSeq

(* After the agent took its block out no line begins one.                  *)
LEMMA TakenOut ==
    ASSUME NEW lines \in Seq(Line)
    PROVE  WithManagedBlock(lines, Me, FALSE) \in Seq(FreeLine)
<1>1. PICK o \in Seq(Line) : o = Others(lines, Me) /\ Free(o, Me)
  BY OthersFree
<1>2. \A i \in 1 .. Len(o) : o[i] \in FreeLine
  BY <1>1, ElementOfSeq DEF Free, FreeLine
<1>3. o \in Seq(FreeLine)
  BY <1>2, SeqDef, LenProperties
<1>4. QED
  BY <1>1, <1>3, Edited

LEMMA EditSeq ==
    ASSUME NEW lines \in Seq(Line), NEW present \in BOOLEAN
    PROVE  WithManagedBlock(lines, Me, present) \in Seq(Line)
<1>1. CASE ~present
  BY <1>1, TakenOut, FreeSeq
<1>2. CASE present
  <2>1. PICK o \in Seq(Line) : o = Others(lines, Me)
    BY OthersFree
  <2>2. PICK at \in 0 .. Len(o) : at = InsertAt(lines, Me)
    BY <2>1, InsertInKept
  <2>3. PICK p \in Seq(Line), q \in Seq(Line) : p = First(o, at) /\ q = Rest(o, at)
    BY CutFile
  <2>4. Blocked(WithManagedBlock(lines, Me, present), p, q, Me)
    BY <1>2, <2>1, <2>2, <2>3, Edited
  <2>5. PICK h : /\ Joins(h, p, Block(Me))
                 /\ Joins(WithManagedBlock(lines, Me, present), h, q)
    BY <2>4 DEF Blocked
  <2>6. Block(Me) \in Seq(Line)
    BY LineValues
  <2>7. h \in Seq(Line)
    BY <2>5, <2>6, ConcatLines
  <2>8. QED
    BY <2>5, <2>7, ConcatLines
<1>3. QED
  BY <1>1, <1>2

(* Selecting from a file with a block.                                     *)
LEMMA SelectBlocked ==
    ASSUME NEW S, NEW p \in Seq(S), NEW q \in Seq(S), NEW r, Block(r) \in Seq(S),
           NEW c, Blocked(c, p, q, r), NEW I
    PROVE  \E K : /\ \A i \in 1 .. Len(q) : i \in K <=> (Len(p) + 3) + i \in I
                  /\ (\A i \in 1 .. 3 : Len(p) + i \in I) =>
                        Blocked(Select(c, I), Select(p, I), Select(q, K), r)
                  /\ (\A i \in 1 .. 3 : Len(p) + i \notin I) =>
                        Joins(Select(c, I), Select(p, I), Select(q, K))
<1>1. PICK h : Joins(h, p, Block(r)) /\ Joins(c, h, q)
  BY DEF Blocked
<1>2. h \in Seq(S) /\ Len(h) = Len(p) + 3
  BY <1>1, BlockedLines
<1>3. PICK K : \A i \in 1 .. Len(q) : i \in K <=> Len(h) + i \in I
  <2>1. \A i \in 1 .. Len(q) :
          i \in {j \in 1 .. Len(q) : Len(h) + j \in I} <=> Len(h) + i \in I
    OBVIOUS
  <2>2. QED
    BY <2>1
<1>4. PICK B : \A i \in 1 .. Len(Block(r)) : i \in B <=> Len(p) + i \in I
  <2>1. \A i \in 1 .. Len(Block(r)) :
          i \in {j \in 1 .. Len(Block(r)) : Len(p) + j \in I} <=> Len(p) + i \in I
    OBVIOUS
  <2>2. QED
    BY <2>1
<1>5. h \in Seq(S)
  BY <1>2
<1>6. Joins(Select(c, I), Select(h, I), Select(q, K))
  BY <1>1, <1>3, <1>5, SelectConcat
<1>7. Joins(Select(h, I), Select(p, I), Select(Block(r), B))
  BY <1>1, <1>4, SelectConcat
<1>8. Len(Block(r)) = 3
  BY DEF Block
<1>9. ASSUME \A i \in 1 .. 3 : Len(p) + i \in I
      PROVE  Blocked(Select(c, I), Select(p, I), Select(q, K), r)
  <2>1. Select(Block(r), B) = Block(r)
    BY <1>4, <1>8, <1>9, SelectAll
  <2>2. QED
    BY <1>6, <1>7, <2>1 DEF Blocked
<1>10. ASSUME \A i \in 1 .. 3 : Len(p) + i \notin I
       PROVE  Joins(Select(c, I), Select(p, I), Select(q, K))
  <2>1. Select(Block(r), B) = <<>>
    BY <1>4, <1>8, <1>10, SelectNone
  <2>2. Select(p, I) \o <<>> = Select(p, I)
    BY SelectSeqType, ConcatEmptySeq
  <2>3. QED
    BY <1>6, <1>7, <2>1, <2>2 DEF Joins
<1>11. QED
  BY <1>2, <1>3, <1>9, <1>10

(* The lines of others in a tidy file.                                     *)
LEMMA LinesOfForeign ==
    ASSUME NEW s \in Seq(ForeignLine)
    PROVE  LinesOfOthers(s) = s
<1> DEFINE I == {i \in 1 .. Len(s) : s[i][2] # Me}
<1>1. \A i \in 1 .. Len(s) : i \in I
  BY ElementOfSeq DEF ForeignLine
<1>2. LinesOfOthers(s) = Select(s, I)
  BY DEF LinesOfOthers
<1> HIDE DEF I
<1>3. QED
  BY <1>1, <1>2, SelectAll

LEMMA LinesOfBlocked ==
    ASSUME NEW p \in Seq(ForeignLine), NEW q \in Seq(ForeignLine), NEW c,
           Blocked(c, p, q, Me)
    PROVE  Joins(LinesOfOthers(c), p, q)
<1> DEFINE I == {i \in 1 .. Len(c) : c[i][2] # Me}
<1>1. p \in Seq(Line) /\ q \in Seq(Line) /\ Block(Me) \in Seq(Line)
  BY ForeignSeq, LineValues
<1>2. PICK h : Joins(h, p, Block(Me)) /\ Joins(c, h, q)
  BY DEF Blocked
<1>3. /\ Len(c) = Len(p) + 3 + Len(q)
      /\ \A i \in 1 .. Len(p) : c[i] = p[i]
      /\ c[Len(p) + 1] = Begin(Me)
      /\ c[Len(p) + 2] = Body(Me)
      /\ c[Len(p) + 3] = End(Me)
      /\ \A i \in 1 .. Len(q) : c[Len(p) + 3 + i] = q[i]
  BY <1>1, <1>2, BlockedLines
<1>4. Len(p) \in Nat /\ Len(q) \in Nat
  BY LenProperties
<1>5. Begin(Me)[2] = Me /\ Body(Me)[2] = Me /\ End(Me)[2] = Me
  BY DEF Begin, Body, End
<1>6. /\ \A i \in 1 .. Len(p) : p[i][2] # Me
      /\ \A i \in 1 .. Len(q) : q[i][2] # Me
  BY ElementOfSeq DEF ForeignLine
<1>7. \A i \in 1 .. Len(p) : i \in I
  <2>1. \A i \in 1 .. Len(p) : i \in 1 .. Len(c)
    BY <1>3, <1>4
  <2>2. QED
    BY <1>3, <1>6, <2>1
<1>8. \A i \in 1 .. Len(q) : (Len(p) + 3) + i \in I
  <2>1. \A i \in 1 .. Len(q) : Len(p) + 3 + i \in 1 .. Len(c)
    BY <1>3, <1>4
  <2>2. QED
    BY <1>3, <1>6, <2>1
<1>9. \A i \in 1 .. 3 : Len(p) + i \notin I
  <2>1. \A i \in 1 .. 3 : i = 1 \/ i = 2 \/ i = 3
    OBVIOUS
  <2>2. QED
    BY <1>3, <1>5, <2>1
<1>10. LinesOfOthers(c) = Select(c, I)
  BY DEF LinesOfOthers
<1> HIDE DEF I
<1>11. PICK K : /\ \A i \in 1 .. Len(q) : i \in K <=> (Len(p) + 3) + i \in I
                /\ Joins(Select(c, I), Select(p, I), Select(q, K))
  BY <1>1, <1>9, SelectBlocked
<1>12. Select(p, I) = p
  BY <1>7, SelectAll
<1>13. Select(q, K) = q
  BY <1>8, <1>11, SelectAll
<1>14. QED
  BY <1>10, <1>11, <1>12, <1>13

(* ... and what it consists of.                                            *)
LEMMA TidySeq ==
    ASSUME NEW c, Tidy(c)
    PROVE  c \in Seq(Line) /\ LinesOfOthers(c) \in Seq(ForeignLine)
<1>1. CASE c \in Seq(ForeignLine)
  BY <1>1, ForeignSeq, LinesOfForeign
<1>2. ASSUME NEW p \in Seq(ForeignLine), NEW q \in Seq(ForeignLine),
             Blocked(c, p, q, Me)
      PROVE  c \in Seq(Line) /\ LinesOfOthers(c) \in Seq(ForeignLine)
  <2>1. /\ p \in Seq(Line) /\ q \in Seq(Line) /\ Block(Me) \in Seq(Line)
        /\ Free(p, Me) /\ Free(q, Me)
    BY ForeignSeq, LineValues
  <2>2. c \in Seq(Line)
    BY <1>2, <2>1, BlockedFile
  <2>3. Joins(LinesOfOthers(c), p, q)
    BY <1>2, LinesOfBlocked
  <2>4. LinesOfOthers(c) \in Seq(ForeignLine)
    BY <2>3, ConcatLines
  <2>5. QED
    BY <2>2, <2>4
<1>3. QED
  BY <1>1, <1>2 DEF Tidy

(* The agent's edit of a tidy file leaves the lines of others alone.       *)
LEMMA TidyEdit ==
    ASSUME NEW c, Tidy(c), NEW present \in BOOLEAN
    PROVE  /\ Tidy(WithManagedBlock(c, Me, present))
           /\ LinesOfOthers(WithManagedBlock(c, Me, present)) = LinesOfOthers(c)
<1>1. PICK d : d = WithManagedBlock(c, Me, present)
  OBVIOUS
<1>2. CASE c \in Seq(ForeignLine)
  <2>1. c \in Seq(Line) /\ Free(c, Me) /\ LinesOfOthers(c) = c
    BY <1>2, ForeignSeq, LinesOfForeign
  <2>2. /\ WithManagedBlock(c, Me, FALSE) = c
        /\ Blocked(WithManagedBlock(c, Me, TRUE), c, <<>>, Me)
    <3>1. c \in Seq(Line) /\ Free(c, Me)
      BY <2>1
    <3>2. QED
      BY <3>1, EditFree
  <2>3. CASE present
    <3>1. Blocked(d, c, <<>>, Me) /\ <<>> \in Seq(ForeignLine)
      BY <1>1, <2>2, <2>3, EmptySeq
    <3>2. Joins(LinesOfOthers(d), c, <<>>)
      BY <1>2, <3>1, LinesOfBlocked
    <3>3. LinesOfOthers(d) = c
      BY <1>2, <3>2, ConcatEmptySeq DEF Joins
    <3>4. QED
      BY <1>1, <1>2, <2>1, <3>1, <3>3 DEF Tidy
  <2>4. CASE ~present
    BY <1>1, <2>2, <2>4
  <2>5. QED
    BY <2>3, <2>4
<1>3. ASSUME NEW p \in Seq(ForeignLine), NEW q \in Seq(ForeignLine),
             Blocked(c, p, q, Me)
      PROVE  Tidy(d) /\ LinesOfOthers(d) = LinesOfOthers(c)
  <2>1. /\ p \in Seq(Line) /\ q \in Seq(Line) /\ Block(Me) \in Seq(Line)
        /\ Free(p, Me) /\ Free(q, Me)
    BY ForeignSeq, LineValues
  <2>2. /\ WithManagedBlock(c, Me, TRUE) = c
        /\ Joins(WithManagedBlock(c, Me, FALSE), p, q)
    BY <1>3, <2>1, EditBlocked
  <2>3. CASE present
    BY <1>1, <2>2, <2>3
  <2>4. CASE ~present
    <3>1. Joins(d, p, q) /\ Joins(LinesOfOthers(c), p, q)
      BY <1>1, <1>3, <2>2, <2>4, LinesOfBlocked
    <3>2. d \in Seq(ForeignLine)
      BY <3>1, ConcatLines
    <3>3. LinesOfOthers(d) = d /\ LinesOfOthers(c) = d
      BY <3>1, <3>2, LinesOfForeign DEF Joins
    <3>4. QED
      BY <3>2, <3>3 DEF Tidy
  <2>5. QED
    BY <2>3, <2>4
<1>4. QED
  BY <1>1, <1>2, <1>3 DEF Tidy

(* The others add lines of theirs and no others to a file, ...             *)
LEMMA TheirEditSeq ==
    ASSUME NEW S, ForeignLine \subseteq S, NEW lines \in Seq(S), NEW t \in Theirs
    PROVE  TheirEdit(lines, t) \in Seq(S)
<1> DEFINE I == {i \in 1 .. Len(lines) : \A k \in 1 .. Len(t) : lines[i] # t[k]}
<1>1. t \in Seq(S)
  BY LineValues, SeqMonotonic
<1>2. \/ TheirEdit(lines, t) = lines \o t
      \/ TheirEdit(lines, t) = Select(lines, I)
  BY DEF TheirEdit
<1> HIDE DEF I
<1>3. lines \o t \in Seq(S)
  BY <1>1, ConcatProperties
<1>4. Select(lines, I) \in Seq(S)
  BY SelectSeqType
<1>5. QED
  BY <1>2, <1>3, <1>4

(* What is appended to a file is appended to its last part, ...            *)
LEMMA JoinMore ==
    ASSUME NEW S, NEW a \in Seq(S), NEW b \in Seq(S), NEW c, Joins(c, a, b),
           NEW t \in Seq(S)
    PROVE  Joins(c \o t, a, b \o t)
BY ConcatAssociative DEF Joins

(* ... and a tidy one stays it.                                            *)
LEMMA TheirEditTidy ==
    ASSUME NEW c, Tidy(c), NEW t \in Theirs
    PROVE  Tidy(TheirEdit(c, t))
<1> DEFINE I == {i \in 1 .. Len(c) : \A k \in 1 .. Len(t) : c[i] # t[k]}
<1>1. CASE c \in Seq(ForeignLine)
  BY <1>1, TheirEditSeq DEF Tidy
<1>2. ASSUME NEW p \in Seq(ForeignLine), NEW q \in Seq(ForeignLine),
             Blocked(c, p, q, Me)
      PROVE  Tidy(TheirEdit(c, t))
  <2>1. t \in Seq(ForeignLine)
    BY LineValues
  <2>2. p \in Seq(Line) /\ q \in Seq(Line) /\ Block(Me) \in Seq(Line)
    BY ForeignSeq, LineValues
  <2>3. PICK h : Joins(h, p, Block(Me)) /\ Joins(c, h, q)
    BY <1>2 DEF Blocked
  <2>4. /\ h \in Seq(Line) /\ Len(c) = Len(p) + 3 + Len(q)
        /\ c[Len(p) + 1] = Begin(Me)
        /\ c[Len(p) + 2] = Body(Me)
        /\ c[Len(p) + 3] = End(Me)
    BY <2>2, <2>3, BlockedLines
  <2>5. \/ TheirEdit(c, t) = c \o t
        \/ TheirEdit(c, t) = Select(c, I)
    BY DEF TheirEdit
  <2>6. ASSUME NEW i \in 1 .. 3 PROVE Len(p) + i \in I
    <3>1. Len(p) \in Nat /\ Len(q) \in Nat
      BY LenProperties
    <3>2. Len(p) + i \in 1 .. Len(c)
      BY <2>4, <3>1
    <3>3. i = 1 \/ i = 2 \/ i = 3
      OBVIOUS
    <3>4. c[Len(p) + i] \in {Begin(Me), Body(Me), End(Me)}
      BY <2>4, <3>3
    <3>5. c[Len(p) + i][2] = Me
      BY <3>4 DEF Begin, Body, End
    <3>6. \A k \in 1 .. Len(t) : t[k][2] # Me
      BY <2>1, ElementOfSeq DEF ForeignLine
    <3>7. QED
      BY <3>2, <3>5, <3>6
  <2> HIDE DEF I
  <2>7. CASE TheirEdit(c, t) = Select(c, I)
    <3>1. PICK K : Blocked(Select(c, I), Select(p, I), Select(q, K), Me)
      BY <1>2, <2>2, <2>6, SelectBlocked
    <3>2. Select(p, I) \in Seq(ForeignLine) /\ Select(q, K) \in Seq(ForeignLine)
      BY SelectSeqType
    <3>3. QED
      BY <2>7, <3>1, <3>2 DEF Tidy
  <2>8. CASE TheirEdit(c, t) = c \o t
    <3>1. q \o t \in Seq(ForeignLine)
      BY <2>1, ConcatProperties
    <3>2. t \in Seq(Line)
      BY <2>1, ForeignSeq
    <3>3. h \in Seq(Line)
      BY <2>4
    <3>4. Joins(TheirEdit(c, t), h, q \o t)
      BY <2>2, <2>3, <2>8, <3>2, <3>3, JoinMore
    <3>5. Blocked(TheirEdit(c, t), p, q \o t, Me)
      BY <2>3, <3>4 DEF Blocked
    <3>6. QED
      BY <3>1, <3>5 DEF Tidy
  <2>9. QED
    BY <2>5, <2>7, <2>8
<1>3. QED
  BY <1>1, <1>2 DEF Tidy

(* Written over an empty file a content is that content.                   *)
LEMMA WrittenOver ==
    ASSUME NEW S, NEW new \in Seq(S)
    PROVE  Overwritten(new, <<>>) = new
<1>1. Len(new) \in Nat /\ Len(<<>>) = 0
  BY LenProperties, EmptySeq
<1>2. SubSeq(<<>>, Len(new) + 1, 0) = <<>>
  BY <1>1, SubSeqEmpty
<1>3. new \o <<>> = new
  BY ConcatEmptySeq
<1>4. QED
  BY <1>1, <1>2, <1>3 DEF Overwritten

(* A write, whole or cut short, leaves lines in the file.                  *)
LEMMA OverwrittenSeq ==
    ASSUME NEW S, NEW new \in Seq(S), NEW old \in Seq(S)
    PROVE  Overwritten(new, old) \in Seq(S)
<1>1. Len(new) \in Nat /\ Len(old) \in Nat /\ \A i \in 1 .. Len(old) : old[i] \in S
  BY LenProperties, ElementOfSeq
<1>2. \A i \in Len(new) + 1 .. Len(old) : old[i] \in S
  BY <1>1
<1>3. SubSeq(old, Len(new) + 1, Len(old)) \in Seq(S)
  BY <1>1, <1>2, SubSeqProperties
<1>4. QED
  BY <1>3, ConcatProperties DEF Overwritten

-----------------------------------------------------------------------------
(* The agent's process and certs.d *)

AgentPcs == {"start", "idle", "down", "gone", "certs", "toml", "prune",
             "unlink", "trustRead", "trustWrite", "check", "hostsRead",
             "hostsTrunc", "hostsWrite"}

(* What a process has read of the CA file and is about to write is not     *)
(* looked into.                                                            *)
Process(ca, buf) ==
    [pc: AgentPcs, wanted: SUBSET Hostnames, term: BOOLEAN, cleaning: BOOLEAN,
     todo: SUBSET Hostnames, cur: Hostnames \cup {"none"}, ca: {ca},
     healthy: BOOLEAN, buf: {buf}]

AgentShape(p) == p \in Process(p.ca, p.buf)

AgentTypes ==
    /\ AgentShape(ag)
    /\ ag.pc \in {"toml", "unlink"} => ag.cur \in Hostnames
    /\ certs \in [Hostnames -> [toml: {"nobody", "other", Me}, ca: {"nobody", "lost", Me}]]
    /\ accident \in BOOLEAN

(* Between the two writes of writeCertsD the CA file is there, unless      *)
(* somebody took it away.                                                  *)
AgentInv ==
    /\ AgentTypes
    /\ CAFirst
    /\ At("toml") => certs[ag.cur].ca # "nobody"

LEMMA AgentValues ==
    /\ AgentShape(Gone) /\ Gone.pc = "gone"
    /\ \A w \in SUBSET Hostnames : AgentShape(Started(w)) /\ Started(w).pc = "start"
BY DEF Gone, Started, AgentShape, Process, AgentPcs

LEMMA PcShape ==
    ASSUME NEW p, AgentShape(p), NEW pc \in AgentPcs
    PROVE  /\ AgentShape([p EXCEPT !.pc = pc])
           /\ [p EXCEPT !.pc = pc].pc = pc
BY DEF AgentShape, Process

LEMMA BufShape ==
    ASSUME NEW p, AgentShape(p), NEW buf
    PROVE  AgentShape([p EXCEPT !.buf = buf])
BY DEF AgentShape, Process

LEMMA TodoShape ==
    ASSUME NEW p, AgentShape(p), NEW S \in SUBSET Hostnames
    PROVE  /\ AgentShape([p EXCEPT !.todo = S])
           /\ [p EXCEPT !.todo = S].pc = p.pc
BY DEF AgentShape, Process

(* What follows a part of a pass is no step within an entry of certs.d.    *)
LEMMA AfterPruneShape ==
    ASSUME NEW p, AgentShape(p)
    PROVE  AgentShape(AfterPrune(p)) /\ AfterPrune(p).pc \notin {"toml", "unlink"}
BY AgentValues, PcShape DEF AfterPrune, AgentPcs

LEMMA ToPruneShape ==
    ASSUME NEW p, AgentShape(p)
    PROVE  AgentShape(ToPrune(p)) /\ ToPrune(p).pc \notin {"toml", "unlink"}
<1> DEFINE stale == OwnedHostnames \ (IF p.cleaning THEN {} ELSE p.wanted)
<1>1. stale \in SUBSET Hostnames
  BY DEF OwnedHostnames
<1>2. ToPrune(p) = IF stale = {} THEN AfterPrune(p)
                   ELSE [p EXCEPT !.pc = "prune", !.todo = stale]
  BY DEF ToPrune
<1> HIDE DEF stale
<1>3. CASE stale = {}
  BY <1>2, <1>3, AfterPruneShape
<1>4. CASE stale # {}
  <2>1. ToPrune(p) = [p EXCEPT !.pc = "prune", !.todo = stale]
    BY <1>2, <1>4
  <2>2. QED
    BY <1>1, <2>1 DEF AgentShape, Process, AgentPcs
<1>5. QED
  BY <1>3, <1>4

LEMMA AfterTrustShape ==
    ASSUME NEW p, AgentShape(p)
    PROVE  AgentShape(AfterTrust(p)) /\ AfterTrust(p).pc \notin {"toml", "unlink"}
<1>1. CASE p.cleaning
  <2>1. PICK q : q = [p EXCEPT !.buf = <<>>]
    OBVIOUS
  <2>2. AgentShape(q)
    BY <2>1, BufShape
  <2>3. AfterTrust(p) = ToPrune(q)
    BY <1>1, <2>1 DEF AfterTrust
  <2>4. QED
    BY <2>2, <2>3, ToPruneShape
<1>2. CASE ~p.cleaning
  <2>1. AfterTrust(p) = [p EXCEPT !.pc = "check", !.buf = <<>>]
    BY <1>2 DEF AfterTrust
  <2>2. QED
    BY <2>1 DEF AgentShape, Process, AgentPcs
<1>3. QED
  BY <1>1, <1>2

LEMMA AfterHostsShape ==
    ASSUME NEW p, AgentShape(p)
    PROVE  AgentShape(AfterHosts(p)) /\ AfterHosts(p).pc \notin {"toml", "unlink"}
<1>1. CASE p.cleaning
  BY <1>1 DEF AfterHosts, AgentShape, Process, AgentPcs
<1>2. CASE ~p.cleaning
  BY <1>2 DEF AfterHosts, AgentShape, Process, AgentPcs
<1>3. QED
  BY <1>1, <1>2

(* Steps of the process that leave certs.d alone and do not begin a write. *)
LEMMA AgentQuiet ==
    ASSUME AgentTypes,
           \/ TickStart \/ CertsDone \/ PruneDone \/ TrustRead \/ TrustWrite
           \/ Check \/ HostsRead \/ HostsTrunc \/ HostsWrite \/ StartCleanup
           \/ Revive \/ Deploy \/ Kill \/ ShortWrite \/ Unlinked \/ RemoveFails
    PROVE  /\ AgentShape(ag') /\ ag'.pc \notin {"toml", "unlink"}
           /\ certs' = certs /\ accident' \in BOOLEAN /\ (accident => accident')
<1>a. AgentShape(ag) /\ accident \in BOOLEAN /\ ag.wanted \in SUBSET Hostnames
  BY DEF AgentTypes, AgentShape, Process
<1>1. CASE TickStart
  <2>1. CASE ag' = [ag EXCEPT !.pc = "hostsRead", !.healthy = FALSE]
    BY <1>1, <1>a, <2>1 DEF TickStart, AgentShape, Process, AgentPcs
  <2>2. CASE ag' = [ag EXCEPT !.pc = "certs", !.todo = ag.wanted,
                                !.ca = node.ca]
    BY <1>1, <1>a, <2>2 DEF TickStart, AgentShape, Process, AgentPcs
  <2>3. QED
    BY <1>1, <2>1, <2>2 DEF TickStart
<1>2. CASE CertsDone
  BY <1>2, <1>a, ToPruneShape DEF CertsDone
<1>3. CASE PruneDone
  BY <1>3, <1>a, AfterPruneShape DEF PruneDone
<1>4. CASE TrustRead
  <2>1. CASE ag' = AfterTrust(ag)
    BY <1>4, <1>a, <2>1, AfterTrustShape DEF TrustRead
  <2>2. CASE \E buf : ag' = [ag EXCEPT !.pc = "trustWrite", !.buf = buf]
    BY <1>4, <1>a, <2>2 DEF TrustRead, AgentShape, Process, AgentPcs
  <2>3. QED
    BY <1>4, <2>1, <2>2 DEF TrustRead
<1>5. CASE TrustWrite
  BY <1>5, <1>a, AfterTrustShape DEF TrustWrite
<1>6. CASE Check
  <2>1. Verifies(ag.ca) \in BOOLEAN
    BY DEF Verifies
  <2>2. ag' = [ag EXCEPT !.pc = "hostsRead", !.healthy = Verifies(ag.ca),
                           !.ca = "none"]
    BY <1>6 DEF Check
  <2>3. AgentShape(ag') /\ ag'.pc \notin {"toml", "unlink"}
    BY <1>a, <2>1, <2>2 DEF AgentShape, Process, AgentPcs
  <2>4. QED
    BY <1>6, <1>a, <2>3 DEF Check
<1>7. CASE HostsRead
  <2>1. CASE ag' = AfterHosts(ag)
    BY <1>7, <1>a, <2>1, AfterHostsShape DEF HostsRead
  <2>2. CASE \E buf : ag' = [ag EXCEPT !.pc = "hostsTrunc", !.buf = buf]
    BY <1>7, <1>a, <2>2 DEF HostsRead, AgentShape, Process, AgentPcs
  <2>3. QED
    BY <1>7, <2>1, <2>2 DEF HostsRead
<1>8. CASE HostsTrunc
  BY <1>8, <1>a, PcShape DEF HostsTrunc, AgentPcs
<1>9. CASE HostsWrite
  BY <1>9, <1>a, AfterHostsShape DEF HostsWrite
<1>10. CASE StartCleanup
  BY <1>10, <1>a DEF StartCleanup, AgentShape, Process, AgentPcs
<1>11. CASE Revive
  BY <1>11, <1>a, AgentValues DEF Revive
<1>12. CASE Deploy
  BY <1>12, <1>a, AgentValues DEF Deploy
<1>13. CASE Kill
  <2>1. CASE ag' = Gone
    BY <1>13, <1>a, <2>1, AgentValues DEF Kill
  <2>2. CASE ag' = [Gone EXCEPT !.pc = "down", !.wanted = ag.wanted]
    BY <1>13, <1>a, <2>2 DEF Kill, Gone, AgentShape, Process, AgentPcs
  <2>3. QED
    BY <1>13, <2>1, <2>2 DEF Kill
<1>14. CASE ShortWrite
  BY <1>14, <1>a, AfterHostsShape DEF ShortWrite
<1>15. CASE Unlinked \/ RemoveFails
  <2>1. ag' = [ag EXCEPT !.pc = "prune", !.cur = "none"]
    BY <1>15 DEF Unlinked, RemoveFails
  <2>2. AgentShape(ag') /\ ag'.pc \notin {"toml", "unlink"}
    BY <1>a, <2>1 DEF AgentShape, Process, AgentPcs
  <2>3. QED
    BY <1>15, <1>a, <2>2 DEF Unlinked, RemoveFails
<1>16. QED
  BY <1>1, <1>2, <1>3, <1>4, <1>5, <1>6, <1>7, <1>8, <1>9, <1>10, <1>11,
     <1>12, <1>13, <1>14, <1>15

LEMMA AgentStepKeeps == AgentInv /\ [AgentNext]_agentVars => AgentInv'
<1> SUFFICES ASSUME AgentInv, [AgentNext]_agentVars PROVE AgentInv'
  OBVIOUS
<1>a. /\ AgentTypes /\ AgentShape(ag) /\ accident \in BOOLEAN
      /\ certs \in [Hostnames -> [toml: {"nobody", "other", Me}, ca: {"nobody", "lost", Me}]]
      /\ ag.todo \in SUBSET Hostnames
      /\ NoDir \in [toml: {"nobody", "other", Me}, ca: {"nobody", "lost", Me}]
      /\ NoDir.toml = "nobody" /\ NoDir.ca = "nobody" /\ Me = "me"
  BY DEF AgentInv, AgentTypes, AgentShape, Process, NoDir, Me
<1>b. \A h \in Hostnames : certs[h].toml = Me => certs[h].ca # "nobody"
  BY DEF AgentInv, CAFirst, OwnedHostnames, Me
<1>1. CASE \/ TickStart \/ CertsDone \/ PruneDone \/ TrustRead \/ TrustWrite
           \/ Check \/ HostsRead \/ HostsTrunc \/ HostsWrite \/ StartCleanup
           \/ Revive \/ Deploy \/ Kill \/ ShortWrite \/ Unlinked \/ RemoveFails
  BY <1>1, <1>a, AgentQuiet DEF AgentInv, AgentTypes, CAFirst, OwnedHostnames, At
<1>2. ASSUME NEW h \in Hostnames, WriteCA(h) PROVE AgentInv'
  <2>1. CASE /\ certs' = [certs EXCEPT ![h].ca = Me]
             /\ ag' = [ag EXCEPT !.pc = "toml", !.todo = @ \ {h}, !.cur = h]
    <3>1. AgentShape(ag') /\ ag'.cur = h
      BY <1>a, <2>1 DEF AgentShape, Process, AgentPcs
    <3>2. /\ certs' \in [Hostnames -> [toml: {"nobody", "other", Me}, ca: {"nobody", "lost", Me}]]
          /\ \A g \in Hostnames : /\ certs'[g].toml = certs[g].toml
                                  /\ certs'[g].ca = IF g = h THEN Me ELSE certs[g].ca
      BY <1>a, <2>1
    <3>3. accident' = accident
      BY <1>2 DEF WriteCA
    <3>4. QED
      BY <1>a, <1>b, <3>1, <3>2, <3>3
         DEF AgentInv, AgentTypes, CAFirst, OwnedHostnames, At
  <2>2. CASE certs' = certs /\ ag' = [ag EXCEPT !.todo = @ \ {h}]
    <3>1. AgentShape(ag') /\ ag'.pc = "certs"
      BY <1>2, <1>a, <2>2, TodoShape DEF WriteCA, At
    <3>2. QED
      BY <1>2, <1>a, <1>b, <2>2, <3>1
         DEF WriteCA, AgentInv, AgentTypes, CAFirst, OwnedHostnames, At
  <2>3. QED
    BY <1>2, <2>1, <2>2 DEF WriteCA
<1>3. CASE WriteTOML
  <2>1. AgentShape(ag') /\ ag'.pc = "certs"
    BY <1>3, <1>a DEF WriteTOML, AgentShape, Process, AgentPcs
  <2>2. /\ ag.cur \in Hostnames /\ accident' = accident
        /\ certs[ag.cur].ca # "nobody"
    BY <1>3, <1>a DEF WriteTOML, AgentTypes, AgentInv, At
  <2>3. /\ certs' \in [Hostnames -> [toml: {"nobody", "other", Me}, ca: {"nobody", "lost", Me}]]
        /\ \A g \in Hostnames \ {ag.cur} : certs'[g] = certs[g]
        /\ certs'[ag.cur].toml = Me => certs'[ag.cur].ca = certs[ag.cur].ca
    <3>1. CASE ~HasFiles(ag.cur)
      <4>1. certs' = [certs EXCEPT ![ag.cur] = NoDir]
        BY <1>3, <3>1 DEF WriteTOML
      <4>2. QED
        BY <1>a, <2>2, <4>1
    <3>2. CASE HasFiles(ag.cur)
      <4>1. certs' = [certs EXCEPT ![ag.cur] = [@ EXCEPT !.toml = Me]]
        BY <1>3, <3>2 DEF WriteTOML
      <4>2. QED
        BY <1>a, <2>2, <4>1
    <3>3. QED
      BY <3>1, <3>2
  <2>4. QED
    BY <1>a, <1>b, <2>1, <2>2, <2>3
       DEF AgentInv, AgentTypes, CAFirst, OwnedHostnames, At
<1>4. ASSUME NEW h \in Hostnames, RemoveEntry(h) PROVE AgentInv'
  <2>1. certs' = certs /\ accident' = accident
    BY <1>4 DEF RemoveEntry
  <2>2. CASE ag' = [ag EXCEPT !.pc = "unlink", !.todo = @ \ {h}, !.cur = h]
    <3>1. AgentShape(ag') /\ ag'.pc = "unlink" /\ ag'.cur = h
      BY <1>a, <2>2 DEF AgentShape, Process, AgentPcs
    <3>2. QED
      BY <1>a, <1>b, <2>1, <3>1 DEF AgentInv, AgentTypes, CAFirst, OwnedHostnames, At
  <2>3. CASE ag' = [ag EXCEPT !.todo = @ \ {h}]
    <3>1. AgentShape(ag') /\ ag'.pc = "prune"
      <4>1. ag.pc = "prune" /\ ag.todo \ {h} \in SUBSET Hostnames
        BY <1>4, <1>a DEF RemoveEntry, At
      <4>2. QED
        BY <1>a, <2>3, <4>1, TodoShape
    <3>2. QED
      BY <1>a, <1>b, <2>1, <3>1 DEF AgentInv, AgentTypes, CAFirst, OwnedHostnames, At
  <2>4. QED
    BY <1>4, <2>2, <2>3 DEF RemoveEntry
<1>5. CASE UnlinkCA \/ UnlinkTOML
  <2>1. /\ ag.pc = "unlink" /\ ag.cur \in Hostnames /\ ag' = ag
        /\ accident' = accident
    BY <1>5, <1>a DEF UnlinkCA, UnlinkTOML, AgentTypes, At
  <2>2. certs' \in {[certs EXCEPT ![ag.cur] = NoDir],
                    [certs EXCEPT ![ag.cur] = [@ EXCEPT !.ca = "lost"]],
                    [certs EXCEPT ![ag.cur] = [@ EXCEPT !.toml = "nobody"]]}
    BY <1>5, <1>a, <2>1 DEF UnlinkCA, UnlinkTOML
  <2>3. /\ certs' \in [Hostnames -> [toml: {"nobody", "other", Me}, ca: {"nobody", "lost", Me}]]
        /\ \A g \in Hostnames : certs'[g].toml = Me =>
              certs[g].toml = Me /\ certs'[g].ca \in {certs[g].ca, "lost"}
    BY <1>a, <2>1, <2>2
  <2>4. QED
    BY <1>a, <1>b, <2>1, <2>3 DEF AgentInv, AgentTypes, CAFirst, OwnedHostnames, At
<1>6. CASE CertsChange
  <2>1. PICK h \in Hostnames, cleared \in {NoDir, [NoDir EXCEPT !.ca = "lost"]} :
           /\ At("toml") /\ ag.cur = h => cleared = [NoDir EXCEPT !.ca = "lost"]
           /\ certs' \in {[certs EXCEPT ![h] = cleared],
                           [certs EXCEPT ![h].toml = "other"]}
    BY <1>6 DEF CertsChange
  <2>2. ag' = ag /\ accident' = accident
    BY <1>6 DEF CertsChange
  <2>3. /\ cleared \in [toml: {"nobody", "other", Me}, ca: {"nobody", "lost", Me}]
        /\ cleared.toml = "nobody"
        /\ At("toml") /\ ag.cur = h => cleared.ca = "lost"
    BY <1>a, <2>1 DEF NoDir
  <2>4. /\ certs' \in [Hostnames -> [toml: {"nobody", "other", Me}, ca: {"nobody", "lost", Me}]]
        /\ \A g \in Hostnames : certs'[g].toml = Me => certs'[g] = certs[g]
        /\ \A g \in Hostnames : At("toml") /\ ag.cur = g =>
              certs'[g].ca \in {certs[g].ca, "lost"}
    BY <1>a, <2>1, <2>3
  <2>5. QED
    BY <1>a, <1>b, <2>2, <2>4 DEF AgentInv, AgentTypes, CAFirst, OwnedHostnames, At
<1>7. CASE Terminate
  <2>1. AgentShape(ag') /\ ag'.pc = ag.pc /\ ag'.cur = ag.cur
    BY <1>7, <1>a DEF Terminate, AgentShape, Process
  <2>2. certs' = certs /\ accident' = accident
    BY <1>7 DEF Terminate
  <2>3. QED
    BY <2>1, <2>2 DEF AgentInv, AgentTypes, CAFirst, OwnedHostnames, At
<1>8. CASE NodeChanges \/ OthersEdit \/ BundleRegenerated \/ UNCHANGED agentVars
  <2>1. /\ ag' = ag /\ certs' = certs /\ accident' \in BOOLEAN
        /\ accident => accident'
    BY <1>8, <1>a DEF NodeChanges, OthersEdit, BundleRegenerated, agentVars
  <2>2. QED
    BY <2>1 DEF AgentInv, AgentTypes, CAFirst, OwnedHostnames, At
<1>9. QED
  BY <1>1, <1>2, <1>3, <1>4, <1>5, <1>6, <1>7, <1>8
     DEF AgentNext, AgentStep, AgentOutside

-----------------------------------------------------------------------------
(* The agent's passes *)

(* When a process is in Cleanup, and when the proxy's answer matters.      *)
Phases ==
    /\ ag.cleaning => ag.pc \in {"hostsRead", "hostsTrunc", "hostsWrite",
                                 "trustRead", "trustWrite", "prune", "unlink"}
    /\ ag.healthy => /\ ag.pc \in {"hostsRead", "hostsTrunc", "hostsWrite"}
                     /\ ~ag.cleaning

(* The lines of others are in /etc/hosts, or in what is about to be        *)
(* written to it, and no line of the agent but its block is.               *)
OthersSafe ==
    /\ ~At("hostsWrite") => Tidy(hosts) /\ LinesOfOthers(hosts) = foreign
    /\ At("hostsWrite") => hosts = <<>>
    /\ ag.pc \in {"hostsTrunc", "hostsWrite"} =>
          Tidy(ag.buf) /\ LinesOfOthers(ag.buf) = foreign

(* What Cleanup has got rid of, by how far it is.                          *)
OursRemoved ==
    /\ ag.cleaning /\ ag.pc \in {"hostsTrunc", "hostsWrite", "trustWrite"} =>
          ag.buf \in Seq(FreeLine)
    /\ At("gone") \/ (ag.cleaning /\ ag.pc \in {"trustRead", "trustWrite",
                                                 "prune", "unlink"}) =>
          hosts \in Seq(FreeLine)
    /\ At("gone") \/ (ag.cleaning /\ ag.pc \in {"prune", "unlink"}) =>
          bundle \in Seq(FreeLine)
    /\ ag.cleaning /\ At("prune") => OwnedHostnames \subseteq ag.todo
    /\ ag.cleaning /\ At("unlink") => OwnedHostnames \subseteq ag.todo \cup {ag.cur}
    /\ At("gone") => OwnedHostnames = {}

FilesInv ==
    /\ hosts \in Seq(Line) /\ bundle \in Seq(Line) /\ ag.buf \in Seq(Line)
    /\ Phases
    /\ ~accident => OthersSafe /\ OursRemoved

(* The fields of a process that ended, started, or is done with a part of  *)
(* its pass.                                                               *)
LEMMA GoneFields ==
    /\ Gone.pc = "gone" /\ ~Gone.cleaning /\ ~Gone.healthy /\ Gone.buf = <<>>
    /\ \A w : /\ Started(w).pc = "start" /\ ~Started(w).cleaning
              /\ ~Started(w).healthy /\ Started(w).buf = <<>>
BY DEF Gone, Started

LEMMA AfterPruneFields ==
    ASSUME NEW p, AgentShape(p)
    PROVE  /\ p.cleaning => AfterPrune(p) = Gone
           /\ ~p.cleaning => /\ AfterPrune(p).pc = "trustRead"
                             /\ ~AfterPrune(p).cleaning
                             /\ AfterPrune(p).healthy = p.healthy
                             /\ AfterPrune(p).buf = p.buf
BY DEF AfterPrune, AgentShape, Process

LEMMA ToPruneFields ==
    ASSUME NEW p, AgentShape(p)
    PROVE  /\ p.cleaning =>
                \/ OwnedHostnames = {} /\ ToPrune(p) = Gone
                \/ /\ ToPrune(p).pc = "prune" /\ ToPrune(p).cleaning
                   /\ ToPrune(p).todo = OwnedHostnames
                   /\ ToPrune(p).healthy = p.healthy /\ ToPrune(p).buf = p.buf
           /\ ~p.cleaning =>
                /\ ToPrune(p).pc \in {"prune", "trustRead"}
                /\ ~ToPrune(p).cleaning
                /\ ToPrune(p).healthy = p.healthy /\ ToPrune(p).buf = p.buf
<1> DEFINE stale == OwnedHostnames \ (IF p.cleaning THEN {} ELSE p.wanted)
<1>1. p.cleaning => stale = OwnedHostnames
  OBVIOUS
<1>2. ToPrune(p) = IF stale = {} THEN AfterPrune(p)
                   ELSE [p EXCEPT !.pc = "prune", !.todo = stale]
  BY DEF ToPrune
<1> HIDE DEF stale
<1>3. CASE stale = {}
  BY <1>1, <1>2, <1>3, AfterPruneFields
<1>4. CASE stale # {}
  <2>1. ToPrune(p) = [p EXCEPT !.pc = "prune", !.todo = stale]
    BY <1>2, <1>4
  <2>2. /\ ToPrune(p).pc = "prune" /\ ToPrune(p).todo = stale
        /\ ToPrune(p).cleaning = p.cleaning
        /\ ToPrune(p).healthy = p.healthy /\ ToPrune(p).buf = p.buf
    BY <2>1 DEF AgentShape, Process
  <2>3. QED
    BY <1>1, <2>2
<1>5. QED
  BY <1>3, <1>4

LEMMA AfterTrustFields ==
    ASSUME NEW p, AgentShape(p)
    PROVE  /\ p.cleaning =>
                \/ OwnedHostnames = {} /\ AfterTrust(p) = Gone
                \/ /\ AfterTrust(p).pc = "prune" /\ AfterTrust(p).cleaning
                   /\ AfterTrust(p).todo = OwnedHostnames
                   /\ AfterTrust(p).healthy = p.healthy /\ AfterTrust(p).buf = <<>>
           /\ ~p.cleaning =>
                /\ AfterTrust(p).pc = "check" /\ ~AfterTrust(p).cleaning
                /\ AfterTrust(p).healthy = p.healthy /\ AfterTrust(p).buf = <<>>
<1>1. CASE p.cleaning
  <2>1. PICK q : q = [p EXCEPT !.buf = <<>>]
    OBVIOUS
  <2>2. /\ AgentShape(q) /\ q.cleaning = p.cleaning /\ q.healthy = p.healthy
        /\ q.buf = <<>>
    BY <2>1, BufShape DEF AgentShape, Process
  <2>3. AfterTrust(p) = ToPrune(q)
    BY <1>1, <2>1 DEF AfterTrust
  <2>4. q.cleaning =>
          \/ OwnedHostnames = {} /\ ToPrune(q) = Gone
          \/ /\ ToPrune(q).pc = "prune" /\ ToPrune(q).cleaning
             /\ ToPrune(q).todo = OwnedHostnames
             /\ ToPrune(q).healthy = q.healthy /\ ToPrune(q).buf = q.buf
    BY <2>2, ToPruneFields
  <2>5. QED
    BY <1>1, <2>2, <2>3, <2>4
<1>2. CASE ~p.cleaning
  <2>1. AfterTrust(p) = [p EXCEPT !.pc = "check", !.buf = <<>>]
    BY <1>2 DEF AfterTrust
  <2>2. QED
    BY <1>2, <2>1 DEF AgentShape, Process
<1>3. QED
  BY <1>1, <1>2

LEMMA AfterHostsFields ==
    ASSUME NEW p, AgentShape(p)
    PROVE  /\ p.cleaning => AfterHosts(p).pc = "trustRead" /\ AfterHosts(p).cleaning
           /\ ~p.cleaning => AfterHosts(p).pc = "idle" /\ ~AfterHosts(p).cleaning
           /\ ~AfterHosts(p).healthy /\ AfterHosts(p).buf = <<>>
<1>1. CASE p.cleaning
  BY <1>1 DEF AfterHosts, AgentShape, Process
<1>2. CASE ~p.cleaning
  BY <1>2 DEF AfterHosts, AgentShape, Process
<1>3. QED
  BY <1>1, <1>2

(* After an accident there is little to keep.                              *)
LEMMA AccidentStep ==
    ASSUME accident' = TRUE, Phases',
           hosts' \in Seq(Line), bundle' \in Seq(Line), ag'.buf \in Seq(Line)
    PROVE  FilesInv'
BY DEF FilesInv

(* The steps of a tick that leave /etc/hosts alone.                        *)
LEMMA OrdinaryStep ==
    ASSUME FilesInv, ~ag'.cleaning, ag.pc # "hostsWrite",
           ag'.pc \notin {"hostsTrunc", "hostsWrite", "gone"},
           ag'.healthy => ag'.pc = "hostsRead",
           ag'.buf \in Seq(Line), bundle' \in Seq(Line),
           hosts' = hosts, foreign' = foreign, accident' = accident
    PROVE  FilesInv'
BY DEF FilesInv, Phases, OthersSafe, OursRemoved, At

LEMMA TickKeepsFiles ==
    ASSUME AgentInv, FilesInv,
           \/ TickStart \/ CertsDone \/ Check \/ Revive \/ Deploy \/ WriteTOML
           \/ \E h \in Hostnames : WriteCA(h)
    PROVE  FilesInv'
<1>a. AgentShape(ag) /\ <<>> \in Seq(Line)
  BY EmptySeq DEF AgentInv, AgentTypes
<1>b. /\ hosts \in Seq(Line) /\ bundle \in Seq(Line) /\ ag.buf \in Seq(Line)
      /\ ag.pc \in {"start", "idle", "certs", "toml", "check", "down", "gone"} =>
            ~ag.cleaning /\ ~ag.healthy
  BY DEF FilesInv, Phases
<1>1. CASE TickStart
  <2>1. CASE ag' = [ag EXCEPT !.pc = "hostsRead", !.healthy = FALSE]
    <3>1. /\ ag'.pc = "hostsRead" /\ ~ag'.healthy /\ ag'.cleaning = ag.cleaning
          /\ ag'.buf = ag.buf
      BY <1>a, <2>1 DEF AgentShape, Process
    <3>2. QED
      BY <1>1, <1>b, <3>1, OrdinaryStep DEF TickStart
  <2>2. CASE ag' = [ag EXCEPT !.pc = "certs", !.todo = ag.wanted,
                                !.ca = node.ca]
    <3>1. /\ ag'.pc = "certs" /\ ag'.healthy = ag.healthy
          /\ ag'.cleaning = ag.cleaning /\ ag'.buf = ag.buf
      BY <1>a, <2>2 DEF AgentShape, Process
    <3>2. QED
      BY <1>1, <1>b, <3>1, OrdinaryStep DEF TickStart
  <2>3. QED
    BY <1>1, <2>1, <2>2 DEF TickStart
<1>2. CASE CertsDone
  <2>1. ~ag.cleaning /\ ~ag.healthy /\ ag' = ToPrune(ag)
    BY <1>2, <1>b DEF CertsDone, At
  <2>2. /\ ag'.pc \in {"prune", "trustRead"} /\ ~ag'.cleaning /\ ~ag'.healthy
        /\ ag'.buf = ag.buf
    BY <1>a, <2>1, ToPruneFields
  <2>3. QED
    BY <1>2, <1>b, <2>2, OrdinaryStep DEF CertsDone, At
<1>3. CASE Check
  <2>1. ag' = [ag EXCEPT !.pc = "hostsRead", !.healthy = Verifies(ag.ca),
                           !.ca = "none"]
    BY <1>3 DEF Check
  <2>2. ag'.pc = "hostsRead" /\ ag'.cleaning = ag.cleaning /\ ag'.buf = ag.buf
    BY <1>a, <2>1 DEF AgentShape, Process
  <2>3. QED
    BY <1>3, <1>b, <2>2, OrdinaryStep DEF Check, At
<1>4. CASE Revive
  <2>1. ag'.pc = "start" /\ ~ag'.cleaning /\ ~ag'.healthy /\ ag'.buf = <<>>
    BY <1>4, GoneFields DEF Revive
  <2>2. QED
    BY <1>4, <1>a, <1>b, <2>1, OrdinaryStep DEF Revive, At
<1>5. CASE Deploy
  <2>1. ag'.pc = "start" /\ ~ag'.cleaning /\ ~ag'.healthy /\ ag'.buf = <<>>
    BY <1>5, GoneFields DEF Deploy
  <2>2. QED
    BY <1>5, <1>a, <1>b, <2>1, OrdinaryStep DEF Deploy, At
<1>6. CASE WriteTOML
  <2>1. /\ ag'.pc = "certs" /\ ag'.healthy = ag.healthy
        /\ ag'.cleaning = ag.cleaning /\ ag'.buf = ag.buf
    BY <1>6, <1>a DEF WriteTOML, AgentShape, Process
  <2>2. QED
    BY <1>6, <1>b, <2>1, OrdinaryStep DEF WriteTOML, At
<1>7. ASSUME NEW h \in Hostnames, WriteCA(h) PROVE FilesInv'
  <2>1. \/ ag' = [ag EXCEPT !.pc = "toml", !.todo = @ \ {h}, !.cur = h]
        \/ ag' = [ag EXCEPT !.todo = @ \ {h}]
    BY <1>7 DEF WriteCA
  <2>2. /\ ag'.pc = "toml" \/ ag'.pc = ag.pc
        /\ ag'.healthy = ag.healthy /\ ag'.cleaning = ag.cleaning
        /\ ag'.buf = ag.buf
    BY <1>a, <2>1 DEF AgentShape, Process
  <2>3. QED
    BY <1>7, <1>b, <2>2, OrdinaryStep DEF WriteCA, At
<1>8. QED
  BY <1>1, <1>2, <1>3, <1>4, <1>5, <1>6, <1>7

(* applyHosts: what it has read is tidy, and so is what it writes.         *)
LEMMA HostsPassKeepsFiles ==
    ASSUME AgentInv, FilesInv, HostsRead \/ HostsTrunc \/ HostsWrite \/ StartCleanup
    PROVE  FilesInv'
<1>a. /\ AgentShape(ag) /\ ag.cleaning \in BOOLEAN /\ ag.healthy \in BOOLEAN
      /\ accident \in BOOLEAN /\ <<>> \in Seq(Line)
  BY EmptySeq DEF AgentInv, AgentTypes, AgentShape, Process
<1>b. /\ hosts \in Seq(Line) /\ bundle \in Seq(Line) /\ ag.buf \in Seq(Line)
      /\ Phases /\ (~accident => OthersSafe /\ OursRemoved)
  BY DEF FilesInv
<1>1. CASE HostsRead
  <2>1. PICK next : next = WithManagedBlock(hosts, Me, ag.healthy)
    OBVIOUS
  <2>2. next \in Seq(Line)
    BY <1>a, <1>b, <2>1, EditSeq
  <2>3. ag.cleaning => next \in Seq(FreeLine)
    <3>1. ag.cleaning => ag.healthy = FALSE
      BY <1>a, <1>b DEF Phases
    <3>2. QED
      BY <1>b, <2>1, <3>1, TakenOut
  <2>4. ~accident => /\ Tidy(hosts) /\ LinesOfOthers(hosts) = foreign
                     /\ Tidy(next) /\ LinesOfOthers(next) = foreign
    <3>1. ~accident => Tidy(hosts) /\ LinesOfOthers(hosts) = foreign
      BY <1>1, <1>b DEF HostsRead, At, OthersSafe
    <3>2. QED
      BY <1>a, <2>1, <3>1, TidyEdit
  <2>5. /\ ag.pc = "hostsRead" /\ hosts' = hosts /\ bundle' = bundle
        /\ certs' = certs /\ foreign' = foreign /\ accident' = accident
        /\ next = hosts => ag' = AfterHosts(ag)
        /\ next # hosts => ag' = [ag EXCEPT !.pc = "hostsTrunc", !.buf = next]
    BY <1>1, <2>1 DEF HostsRead, At
  <2>6. CASE next = hosts
    <3>1. /\ ag.cleaning => ag'.pc = "trustRead" /\ ag'.cleaning
          /\ ~ag.cleaning => ag'.pc = "idle" /\ ~ag'.cleaning
          /\ ~ag'.healthy /\ ag'.buf = <<>>
      BY <1>a, <2>5, <2>6, AfterHostsFields
    <3>2. QED
      BY <1>a, <1>b, <2>3, <2>4, <2>5, <2>6, <3>1
         DEF FilesInv, Phases, OthersSafe, OursRemoved, At
  <2>7. CASE next # hosts
    <3>1. /\ ag'.pc = "hostsTrunc" /\ ag'.buf = next
          /\ ag'.cleaning = ag.cleaning /\ ag'.healthy = ag.healthy
      BY <1>a, <2>5, <2>7 DEF AgentShape, Process
    <3>2. QED
      BY <1>b, <2>2, <2>3, <2>4, <2>5, <3>1
         DEF FilesInv, Phases, OthersSafe, OursRemoved, At
  <2>8. QED
    BY <2>6, <2>7
<1>2. CASE HostsTrunc
  <2>1. /\ ag.pc = "hostsTrunc" /\ hosts' = <<>> /\ bundle' = bundle
        /\ certs' = certs /\ foreign' = foreign /\ accident' = accident
        /\ ag' = [ag EXCEPT !.pc = "hostsWrite"]
    BY <1>2 DEF HostsTrunc, At
  <2>2. /\ ag'.pc = "hostsWrite" /\ ag'.buf = ag.buf
        /\ ag'.cleaning = ag.cleaning /\ ag'.healthy = ag.healthy
    BY <1>a, <2>1 DEF AgentShape, Process
  <2>3. QED
    BY <1>a, <1>b, <2>1, <2>2 DEF FilesInv, Phases, OthersSafe, OursRemoved, At
<1>3. CASE HostsWrite
  <2>1. /\ ag.pc = "hostsWrite" /\ hosts' = Overwritten(ag.buf, hosts)
        /\ bundle' = bundle /\ certs' = certs /\ foreign' = foreign
        /\ accident' = accident /\ ag' = AfterHosts(ag)
    BY <1>3 DEF HostsWrite, At
  <2>2. /\ ag.cleaning => ag'.pc = "trustRead" /\ ag'.cleaning
        /\ ~ag.cleaning => ag'.pc = "idle" /\ ~ag'.cleaning
        /\ ~ag'.healthy /\ ag'.buf = <<>>
    BY <1>a, <2>1, AfterHostsFields
  <2>3. hosts' \in Seq(Line)
    BY <1>b, <2>1, OverwrittenSeq
  <2>4. ~accident => hosts' = ag.buf
    <3>1. ~accident => hosts = <<>>
      BY <1>b, <2>1 DEF OthersSafe, At
    <3>2. QED
      BY <1>b, <2>1, <3>1, WrittenOver
  <2>5. ~accident => Tidy(ag.buf) /\ LinesOfOthers(ag.buf) = foreign
    BY <1>b, <2>1 DEF OthersSafe
  <2>6. ~accident /\ ag.cleaning => ag.buf \in Seq(FreeLine)
    BY <1>b, <2>1 DEF OursRemoved
  <2>7. QED
    BY <1>a, <1>b, <2>1, <2>2, <2>3, <2>4, <2>5, <2>6
       DEF FilesInv, Phases, OthersSafe, OursRemoved, At
<1>4. CASE StartCleanup
  <2>1. /\ ag.pc = "idle" /\ hosts' = hosts /\ bundle' = bundle
        /\ certs' = certs /\ foreign' = foreign /\ accident' = accident
        /\ ag' = [ag EXCEPT !.pc = "hostsRead", !.cleaning = TRUE]
    BY <1>4 DEF StartCleanup, At
  <2>2. /\ ag'.pc = "hostsRead" /\ ag'.buf = ag.buf /\ ag'.cleaning
        /\ ag'.healthy = ag.healthy
    BY <1>a, <2>1 DEF AgentShape, Process
  <2>3. QED
    BY <1>b, <2>1, <2>2 DEF FilesInv, Phases, OthersSafe, OursRemoved, At
<1>5. QED
  BY <1>1, <1>2, <1>3, <1>4

(* applyHostTrust and the loops over certs.d.                              *)
LEMMA TrustPassKeepsFiles ==
    ASSUME AgentInv, FilesInv,
           \/ TrustRead \/ TrustWrite \/ PruneDone
           \/ UnlinkCA \/ UnlinkTOML \/ Unlinked
           \/ \E h \in Hostnames : RemoveEntry(h)
    PROVE  FilesInv'
<1>a. /\ AgentShape(ag) /\ ag.cleaning \in BOOLEAN /\ ag.healthy \in BOOLEAN
      /\ accident \in BOOLEAN /\ <<>> \in Seq(Line)
      /\ certs \in [Hostnames -> [toml: {"nobody", "other", Me}, ca: {"nobody", "lost", Me}]]
      /\ ag.todo \in SUBSET Hostnames
  BY EmptySeq DEF AgentInv, AgentTypes, AgentShape, Process
<1>b. /\ hosts \in Seq(Line) /\ bundle \in Seq(Line) /\ ag.buf \in Seq(Line)
      /\ Phases /\ (~accident => OthersSafe /\ OursRemoved)
  BY DEF FilesInv
<1>c. certs' = certs => OwnedHostnames' = OwnedHostnames
  BY DEF OwnedHostnames
<1>1. CASE TrustRead
  <2>1. PICK next : next = WithManagedBlock(bundle, Me, ~ag.cleaning /\ ag.ca # "empty")
    OBVIOUS
  <2>2. next \in Seq(Line)
    BY <1>a, <1>b, <2>1, EditSeq
  <2>3. ag.cleaning => next \in Seq(FreeLine)
    <3>1. ag.cleaning => next = WithManagedBlock(bundle, Me, FALSE)
      BY <1>a, <2>1
    <3>2. QED
      BY <1>b, <3>1, TakenOut
  <2>4. /\ ag.pc = "trustRead" /\ hosts' = hosts /\ bundle' = bundle
        /\ certs' = certs /\ foreign' = foreign /\ accident' = accident
        /\ next = bundle => ag' = AfterTrust(ag)
        /\ next # bundle => ag' = [ag EXCEPT !.pc = "trustWrite", !.buf = next]
    BY <1>1, <2>1 DEF TrustRead, At
  <2>5. ~ag.healthy
    BY <1>b, <2>4 DEF Phases
  <2>6. CASE next = bundle
    <3>1. /\ ag.cleaning =>
               \/ OwnedHostnames = {} /\ ag' = Gone
               \/ /\ ag'.pc = "prune" /\ ag'.cleaning /\ ag'.todo = OwnedHostnames
                  /\ ag'.healthy = ag.healthy /\ ag'.buf = <<>>
          /\ ~ag.cleaning => /\ ag'.pc = "check" /\ ~ag'.cleaning
                             /\ ag'.healthy = ag.healthy /\ ag'.buf = <<>>
      BY <1>a, <2>4, <2>6, AfterTrustFields
    <3>2. CASE ag.cleaning /\ OwnedHostnames = {} /\ ag' = Gone
      BY <1>a, <1>b, <1>c, <2>3, <2>4, <2>6, <3>2, GoneFields
         DEF FilesInv, Phases, OthersSafe, OursRemoved, At
    <3>3. CASE /\ ag.cleaning /\ ag'.pc = "prune" /\ ag'.cleaning
               /\ ag'.todo = OwnedHostnames
               /\ ag'.healthy = ag.healthy /\ ag'.buf = <<>>
      BY <1>a, <1>b, <1>c, <2>3, <2>4, <2>5, <2>6, <3>3
         DEF FilesInv, Phases, OthersSafe, OursRemoved, At
    <3>4. CASE ~ag.cleaning
      BY <1>a, <1>b, <2>4, <2>5, <3>1, <3>4, OrdinaryStep
    <3>5. QED
      BY <3>1, <3>2, <3>3, <3>4
  <2>7. CASE next # bundle
    <3>1. /\ ag'.pc = "trustWrite" /\ ag'.buf = next
          /\ ag'.cleaning = ag.cleaning /\ ag'.healthy = ag.healthy
      BY <1>a, <2>4, <2>7 DEF AgentShape, Process
    <3>2. QED
      BY <1>b, <2>2, <2>3, <2>4, <2>5, <3>1
         DEF FilesInv, Phases, OthersSafe, OursRemoved, At
  <2>8. QED
    BY <2>6, <2>7
<1>2. CASE TrustWrite
  <2>1. /\ ag.pc = "trustWrite" /\ hosts' = hosts /\ bundle' = ag.buf
        /\ certs' = certs /\ foreign' = foreign /\ accident' = accident
        /\ ag' = AfterTrust(ag)
    BY <1>2 DEF TrustWrite, At
  <2>2. ~ag.healthy
    BY <1>b, <2>1 DEF Phases
  <2>3. /\ ag.cleaning =>
             \/ OwnedHostnames = {} /\ ag' = Gone
             \/ /\ ag'.pc = "prune" /\ ag'.cleaning /\ ag'.todo = OwnedHostnames
                /\ ag'.healthy = ag.healthy /\ ag'.buf = <<>>
        /\ ~ag.cleaning => /\ ag'.pc = "check" /\ ~ag'.cleaning
                           /\ ag'.healthy = ag.healthy /\ ag'.buf = <<>>
    BY <1>a, <2>1, AfterTrustFields
  <2>4. CASE ag.cleaning /\ OwnedHostnames = {} /\ ag' = Gone
    BY <1>a, <1>b, <1>c, <2>1, <2>4, GoneFields
       DEF FilesInv, Phases, OthersSafe, OursRemoved, At
  <2>5. CASE /\ ag.cleaning /\ ag'.pc = "prune" /\ ag'.cleaning
             /\ ag'.todo = OwnedHostnames
             /\ ag'.healthy = ag.healthy /\ ag'.buf = <<>>
    BY <1>a, <1>b, <1>c, <2>1, <2>2, <2>5
       DEF FilesInv, Phases, OthersSafe, OursRemoved, At
  <2>6. CASE ~ag.cleaning
    BY <1>a, <1>b, <2>1, <2>2, <2>3, <2>6, OrdinaryStep
  <2>7. QED
    BY <2>3, <2>4, <2>5, <2>6
<1>3. CASE PruneDone
  <2>1. /\ ag.pc = "prune" /\ hosts' = hosts /\ bundle' = bundle
        /\ certs' = certs /\ foreign' = foreign /\ accident' = accident
        /\ ag.todo = {} /\ ag' = AfterPrune(ag)
    BY <1>3 DEF PruneDone, At
  <2>2. ~ag.healthy
    BY <1>b, <2>1 DEF Phases
  <2>3. CASE ag.cleaning
    <3>1. ag' = Gone
      BY <1>a, <2>1, <2>3, AfterPruneFields
    <3>2. ~accident => OwnedHostnames = {}
      BY <1>b, <2>1, <2>3 DEF OursRemoved, At
    <3>3. QED
      BY <1>a, <1>b, <1>c, <2>1, <2>3, <3>1, <3>2, GoneFields
         DEF FilesInv, Phases, OthersSafe, OursRemoved, At
  <2>4. CASE ~ag.cleaning
    <3>1. /\ ag'.pc = "trustRead" /\ ~ag'.cleaning
          /\ ag'.healthy = ag.healthy /\ ag'.buf = ag.buf
      BY <1>a, <2>1, <2>4, AfterPruneFields
    <3>2. QED
      BY <1>b, <2>1, <2>2, <3>1, OrdinaryStep
  <2>5. QED
    BY <2>3, <2>4
<1>4. ASSUME NEW h \in Hostnames, RemoveEntry(h) PROVE FilesInv'
  <2>1. /\ ag.pc = "prune" /\ hosts' = hosts /\ bundle' = bundle
        /\ certs' = certs /\ foreign' = foreign /\ accident' = accident
        /\ ag' = IF certs[h].toml = Me
                 THEN [ag EXCEPT !.pc = "unlink", !.todo = @ \ {h}, !.cur = h]
                 ELSE [ag EXCEPT !.todo = @ \ {h}]
    BY <1>4 DEF RemoveEntry, At
  <2>2. CASE certs[h].toml = Me
    <3>1. /\ ag'.pc = "unlink" /\ ag'.todo = ag.todo \ {h} /\ ag'.cur = h
          /\ ag'.buf = ag.buf /\ ag'.cleaning = ag.cleaning
          /\ ag'.healthy = ag.healthy
      BY <1>a, <2>1, <2>2 DEF AgentShape, Process
    <3>2. QED
      BY <1>b, <1>c, <2>1, <3>1 DEF FilesInv, Phases, OthersSafe, OursRemoved, At
  <2>3. CASE certs[h].toml # Me
    <3>1. /\ ag'.pc = "prune" /\ ag'.todo = ag.todo \ {h} /\ ag'.buf = ag.buf
          /\ ag'.cleaning = ag.cleaning /\ ag'.healthy = ag.healthy
      BY <1>a, <2>1, <2>3 DEF AgentShape, Process
    <3>2. h \notin OwnedHostnames
      BY <2>3 DEF OwnedHostnames
    <3>3. QED
      BY <1>b, <1>c, <2>1, <3>1, <3>2 DEF FilesInv, Phases, OthersSafe, OursRemoved, At
  <2>4. QED
    BY <2>2, <2>3
<1>5. CASE UnlinkCA \/ UnlinkTOML
  <2>1. /\ ag.pc = "unlink" /\ ag.cur \in Hostnames /\ ag' = ag
        /\ hosts' = hosts /\ bundle' = bundle
        /\ foreign' = foreign /\ accident' = accident
    BY <1>5 DEF UnlinkCA, UnlinkTOML, AgentInv, AgentTypes, At
  <2>2. certs' \in {[certs EXCEPT ![ag.cur] = NoDir],
                    [certs EXCEPT ![ag.cur] = [@ EXCEPT !.ca = "lost"]],
                    [certs EXCEPT ![ag.cur] = [@ EXCEPT !.toml = "nobody"]]}
    BY <1>5, <1>a, <2>1 DEF UnlinkCA, UnlinkTOML
  <2>3. \A g \in Hostnames : certs'[g].toml = Me => certs[g].toml = Me
    BY <1>a, <2>1, <2>2 DEF NoDir, Me
  <2>4. OwnedHostnames' \subseteq OwnedHostnames
    BY <2>3 DEF OwnedHostnames
  <2>5. QED
    BY <1>b, <2>1, <2>4 DEF FilesInv, Phases, OthersSafe, OursRemoved, At
<1>6. CASE Unlinked
  <2>1. /\ ag.pc = "unlink" /\ hosts' = hosts /\ bundle' = bundle
        /\ certs' = certs /\ foreign' = foreign /\ accident' = accident
        /\ ag' = [ag EXCEPT !.pc = "prune", !.cur = "none"]
    BY <1>6 DEF Unlinked, At
  <2>2. /\ ag'.pc = "prune" /\ ag'.todo = ag.todo /\ ag'.buf = ag.buf
        /\ ag'.cleaning = ag.cleaning /\ ag'.healthy = ag.healthy
    BY <1>a, <2>1 DEF AgentShape, Process
  <2>3. ag.cur \notin OwnedHostnames
    BY <1>6 DEF Unlinked, HasFiles, OwnedHostnames, Me
  <2>4. QED
    BY <1>b, <1>c, <2>1, <2>2, <2>3 DEF FilesInv, Phases, OthersSafe, OursRemoved, At
<1>7. QED
  BY <1>1, <1>2, <1>3, <1>4, <1>5, <1>6

(* What happens to the agent, and what others do to its files.             *)
LEMMA OutsideKeepsFiles ==
    ASSUME AgentInv, FilesInv,
           \/ Terminate \/ Kill \/ ShortWrite \/ RemoveFails \/ NodeChanges
           \/ OthersEdit \/ BundleRegenerated \/ CertsChange
    PROVE  FilesInv'
<1>a. /\ AgentShape(ag) /\ ag.cleaning \in BOOLEAN /\ ag.healthy \in BOOLEAN
      /\ accident \in BOOLEAN /\ <<>> \in Seq(Line)
      /\ certs \in [Hostnames -> [toml: {"nobody", "other", Me}, ca: {"nobody", "lost", Me}]]
      /\ ag.todo \in SUBSET Hostnames
  BY EmptySeq DEF AgentInv, AgentTypes, AgentShape, Process
<1>b. /\ hosts \in Seq(Line) /\ bundle \in Seq(Line) /\ ag.buf \in Seq(Line)
      /\ Phases /\ (~accident => OthersSafe /\ OursRemoved)
  BY DEF FilesInv
<1>c. certs' = certs => OwnedHostnames' = OwnedHostnames
  BY DEF OwnedHostnames
<1>1. CASE Terminate
  <2>1. /\ hosts' = hosts /\ bundle' = bundle /\ certs' = certs
        /\ foreign' = foreign /\ accident' = accident
        /\ ag' = [ag EXCEPT !.term = TRUE]
    BY <1>1 DEF Terminate
  <2>2. /\ ag'.pc = ag.pc /\ ag'.todo = ag.todo /\ ag'.buf = ag.buf
        /\ ag'.cleaning = ag.cleaning /\ ag'.healthy = ag.healthy
        /\ ag'.cur = ag.cur
    BY <1>a, <2>1 DEF AgentShape, Process
  <2>3. QED
    BY <1>b, <1>c, <2>1, <2>2 DEF FilesInv, Phases, OthersSafe, OursRemoved, At
<1>2. CASE Kill
  <2>1. /\ hosts' = hosts /\ bundle' = bundle /\ certs' = certs
        /\ foreign' = foreign
        /\ accident' = (accident \/ ag.pc = "hostsWrite" \/ ag.term)
        /\ ag.term => ag' = Gone
        /\ ~ag.term => ag' = [Gone EXCEPT !.pc = "down", !.wanted = ag.wanted]
    BY <1>2 DEF Kill, At
  <2>2. /\ ~ag'.cleaning /\ ~ag'.healthy /\ ag'.buf = <<>>
        /\ ~ag.term => ag'.pc = "down"
    <3>1. CASE ag.term
      BY <2>1, <3>1, GoneFields
    <3>2. CASE ~ag.term
      BY <2>1, <3>2 DEF Gone
    <3>3. QED
      BY <3>1, <3>2
  <2>3. CASE ag.term \/ ag.pc = "hostsWrite"
    <3>1. accident' = TRUE
      BY <2>1, <2>3
    <3>2. Phases'
      BY <2>2 DEF Phases
    <3>3. QED
      BY <1>a, <1>b, <2>1, <2>2, <3>1, <3>2, AccidentStep
  <2>4. CASE ~ag.term /\ ag.pc # "hostsWrite"
    <3>1. accident' = accident
      BY <1>a, <2>1, <2>4
    <3>2. QED
      BY <1>a, <1>b, <2>1, <2>2, <2>4, <3>1, OrdinaryStep
  <2>5. QED
    BY <2>3, <2>4
<1>3. CASE ShortWrite
  <2>1. PICK n \in 0 .. Len(ag.buf) - 1 :
           hosts' = Overwritten(SubSeq(ag.buf, 1, n), hosts)
    BY <1>3 DEF ShortWrite
  <2>2. /\ bundle' = bundle /\ accident' = TRUE /\ ag' = AfterHosts(ag)
    BY <1>3 DEF ShortWrite
  <2>3. /\ ag.cleaning => ag'.pc = "trustRead" /\ ag'.cleaning
        /\ ~ag.cleaning => ag'.pc = "idle" /\ ~ag'.cleaning
        /\ ~ag'.healthy /\ ag'.buf = <<>>
    BY <1>a, <2>2, AfterHostsFields
  <2>4. Phases'
    BY <2>3 DEF Phases
  <2>5. SubSeq(ag.buf, 1, n) \in Seq(Line)
    <3>1. PICK b \in Seq(Line) : b = ag.buf
      BY <1>b
    <3>2. Len(b) \in Nat /\ n \in 0 .. Len(b)
      BY <2>1, <3>1, LenProperties
    <3>3. First(b, n) \in Seq(Line)
      BY <3>2, CutFile
    <3>4. QED
      BY <3>1, <3>3 DEF First
  <2>6. hosts' \in Seq(Line)
    BY <1>b, <2>1, <2>5, OverwrittenSeq
  <2>7. QED
    BY <1>a, <1>b, <2>2, <2>3, <2>4, <2>6, AccidentStep
<1>4. CASE RemoveFails
  <2>1. ag' = [ag EXCEPT !.pc = "prune", !.cur = "none"]
    BY <1>4 DEF RemoveFails
  <2>2. /\ ag.pc = "unlink" /\ hosts' = hosts /\ bundle' = bundle
        /\ accident' = TRUE
    BY <1>4 DEF RemoveFails, At
  <2>3. /\ ag'.pc = "prune" /\ ag'.cleaning = ag.cleaning
        /\ ag'.healthy = ag.healthy /\ ag'.buf = ag.buf
    BY <1>a, <2>1 DEF AgentShape, Process
  <2>4. Phases'
    BY <1>b, <2>2, <2>3 DEF Phases
  <2>5. QED
    BY <1>b, <2>2, <2>3, <2>4, AccidentStep
<1>5. CASE NodeChanges
  <2>1. /\ hosts' = hosts /\ bundle' = bundle /\ certs' = certs /\ ag' = ag
        /\ foreign' = foreign /\ accident' = accident
    BY <1>5 DEF NodeChanges
  <2>2. QED
    BY <1>b, <1>c, <2>1 DEF FilesInv, Phases, OthersSafe, OursRemoved, At
<1>6. CASE OthersEdit
  <2>1. PICK t \in Theirs : hosts' = TheirEdit(hosts, t)
    BY <1>6 DEF OthersEdit, TheirEdit
  <2>2. /\ foreign' = LinesOfOthers(hosts') /\ ag' = ag /\ bundle' = bundle
        /\ certs' = certs
        /\ accident' = (accident \/ ag.pc \in {"hostsTrunc", "hostsWrite"})
    BY <1>6 DEF OthersEdit
  <2>3. hosts' \in Seq(Line)
    BY <1>b, <2>1, LineValues, TheirEditSeq
  <2>4. hosts \in Seq(FreeLine) => hosts' \in Seq(FreeLine)
    BY <2>1, LineValues, TheirEditSeq
  <2>5. Tidy(hosts) => Tidy(hosts')
    BY <2>1, TheirEditTidy
  <2>6. CASE ag.pc \in {"hostsTrunc", "hostsWrite"}
    <3>1. accident' = TRUE
      BY <2>2, <2>6
    <3>2. Phases'
      BY <1>b, <2>2 DEF Phases
    <3>3. QED
      BY <1>b, <2>2, <2>3, <3>1, <3>2, AccidentStep
  <2>7. CASE ag.pc \notin {"hostsTrunc", "hostsWrite"}
    <3>1. accident' = accident
      BY <1>a, <2>2, <2>7
    <3>2. QED
      BY <1>b, <1>c, <2>2, <2>3, <2>4, <2>5, <2>7, <3>1
         DEF FilesInv, Phases, OthersSafe, OursRemoved, At
  <2>8. QED
    BY <2>6, <2>7
<1>7. CASE BundleRegenerated
  <2>1. /\ bundle' = <<HostLine>> /\ ag' = ag /\ hosts' = hosts /\ certs' = certs
        /\ foreign' = foreign /\ (~accident' => ~accident)
    BY <1>7, <1>a DEF BundleRegenerated
  <2>2. bundle' \in Seq(FreeLine) /\ bundle' \in Seq(Line)
    BY <2>1, LineValues, ForeignSeq
  <2>3. QED
    BY <1>b, <1>c, <2>1, <2>2 DEF FilesInv, Phases, OthersSafe, OursRemoved, At
<1>8. CASE CertsChange
  <2>1. /\ ag' = ag /\ hosts' = hosts /\ bundle' = bundle /\ foreign' = foreign
        /\ accident' = accident
    BY <1>8 DEF CertsChange
  <2>2. PICK h \in Hostnames, cleared \in {NoDir, [NoDir EXCEPT !.ca = "lost"]} :
           certs' \in {[certs EXCEPT ![h] = cleared],
                       [certs EXCEPT ![h].toml = "other"]}
    BY <1>8 DEF CertsChange
  <2>3. \A g \in Hostnames : certs'[g].toml = Me => certs[g].toml = Me
    BY <1>a, <2>2 DEF NoDir, Me
  <2>4. OwnedHostnames' \subseteq OwnedHostnames
    BY <2>3 DEF OwnedHostnames
  <2>5. QED
    BY <1>b, <2>1, <2>4 DEF FilesInv, Phases, OthersSafe, OursRemoved, At
<1>9. QED
  BY <1>1, <1>2, <1>3, <1>4, <1>5, <1>6, <1>7, <1>8

LEMMA AgentStart == AgentInit => AgentInv /\ FilesInv
<1> SUFFICES ASSUME AgentInit PROVE AgentInv /\ FilesInv
  OBVIOUS
<1>1. PICK w \in SUBSET Hostnames : ag = Started(w)
  BY DEF AgentInit
<1>2. /\ AgentShape(ag) /\ ag.pc = "start" /\ ~ag.cleaning /\ ~ag.healthy
      /\ ag.buf = <<>>
  BY <1>1, AgentValues, GoneFields
<1>3. AgentInv
  <2>1. \A h \in Hostnames : certs[h] = [toml |-> "nobody", ca |-> "nobody"]
    BY DEF AgentInit, NoDir
  <2>2. QED
    BY <1>2, <2>1 DEF AgentInit, AgentInv, AgentTypes, CAFirst, OwnedHostnames,
       At, NoDir, Me
<1>4. hosts \in Seq(ForeignLine) /\ foreign = hosts /\ bundle = hosts
  BY LineValues DEF AgentInit
<1>5. hosts \in Seq(Line) /\ LinesOfOthers(hosts) = foreign /\ Tidy(hosts)
  BY <1>4, ForeignSeq, LinesOfForeign DEF Tidy
<1>6. FilesInv
  BY <1>2, <1>4, <1>5, EmptySeq DEF FilesInv, Phases, OthersSafe, OursRemoved, At
<1>7. QED
  BY <1>3, <1>6

LEMMA AgentKeepsFiles ==
    AgentInv /\ FilesInv /\ [AgentNext]_agentVars => AgentInv' /\ FilesInv'
<1> SUFFICES ASSUME AgentInv, FilesInv, [AgentNext]_agentVars
             PROVE  AgentInv' /\ FilesInv'
  OBVIOUS
<1>1. AgentInv'
  BY AgentStepKeeps
<1>2. CASE UNCHANGED agentVars
  BY <1>1, <1>2 DEF agentVars, FilesInv, Phases, OthersSafe, OursRemoved,
     OwnedHostnames, At
<1>3. CASE AgentStep
  BY <1>1, <1>3, TickKeepsFiles, HostsPassKeepsFiles, TrustPassKeepsFiles
     DEF AgentStep
<1>4. CASE AgentOutside
  BY <1>1, <1>4, TickKeepsFiles, OutsideKeepsFiles DEF AgentOutside
<1>5. QED
  BY <1>2, <1>3, <1>4 DEF AgentNext

(* However often the agent is killed, rolled or interfered with, it never  *)
(* writes a hosts.toml before the CA file it names: one without its CA is  *)
(* what RemoveAll has begun to take away, in its own order, or what        *)
(* somebody else robbed of it between the two writes.                      *)
THEOREM CAIsFirst == AgentSpec => []CAFirst
<1>1. AgentInv => CAFirst
  BY DEF AgentInv
<1>2. QED
  BY <1>1, AgentStart, AgentKeepsFiles, PTL DEF AgentSpec

(* withManagedBlock does what it promises to every content /etc/hosts ever *)
(* has, whatever was torn or interleaved before: it keeps the lines of     *)
(* others, leaves exactly the block it should, and is idempotent.          *)
THEOREM EditIsCorrect == AgentSpec => []BlockEditCorrect
<1>1. FilesInv => BlockEditCorrect
  <2> SUFFICES ASSUME FilesInv, NEW r \in {Me, "other"}, NEW present \in BOOLEAN
               PROVE  LET new == WithManagedBlock(hosts, r, present)
                      IN  /\ Others(new, r) = Others(hosts, r)
                          /\ Begins(new, r) = Blocks(new, r)
                          /\ Cardinality(Blocks(new, r)) = IF present THEN 1 ELSE 0
                          /\ WithManagedBlock(new, r, present) = new
    BY DEF BlockEditCorrect
  <2>1. hosts \in Seq(Line) /\ Block(r) \in Seq(Line)
    BY LineValues DEF FilesInv
  <2>2. QED
    BY <2>1, EditOfAnyFile
<1>2. QED
  BY <1>1, AgentStart, AgentKeepsFiles, PTL DEF AgentSpec

(* As long as no rewrite of /etc/hosts was cut short or overlapped by      *)
(* somebody else's, the lines of others are there, all of them and in      *)
(* order, whenever the agent is not between truncating and writing.        *)
THEOREM HostLinesAreKept == AgentSpec => []HostLinesKept
<1>1. FilesInv => HostLinesKept
  BY DEF FilesInv, OthersSafe, HostLinesKept
<1>2. QED
  BY <1>1, AgentStart, AgentKeepsFiles, PTL DEF AgentSpec

(* An agent that exited on its own, undisturbed in the middle of a write,  *)
(* has left nothing: no block in /etc/hosts or the CA bundle, no entry in  *)
(* certs.d.                                                                *)
THEOREM NothingIsLeft == AgentSpec => []LeavesNothing
<1>1. FilesInv => LeavesNothing
  BY FreeSeq DEF FilesInv, OursRemoved, LeavesNothing
<1>2. QED
  BY <1>1, AgentStart, AgentKeepsFiles, PTL DEF AgentSpec
=============================================================================
