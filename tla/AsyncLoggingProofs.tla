------------------------- MODULE AsyncLoggingProofs -------------------------
(***************************************************************************)
(* Proofs about AsyncLogging, for buffers, files, backlogs, clocks and     *)
(* logs of every size.                                                     *)
(*                                                                         *)
(* The log is a concatenation of buffers, of files, and of both, so the    *)
(* proofs begin with what FlattenSeq computes.  FlattenSeq is a recursive  *)
(* function; what it yields for every sequence follows from the            *)
(* least-number principle: a set of lengths for which a fact fails has a   *)
(* least element, and there is none.                                       *)
(***************************************************************************)
EXTENDS AsyncLogging, TLAPS, SequenceTheorems, WellFoundedInduction

\* A round of the logging thread: a backlog is found before anything is written,
\* nothing is left to write between two rounds, and nextBuffer_ is only missing
\* while a filled buffer waits for the swap.
RoundInv ==
  /\ spc = "idle" <=> pc = "unstarted"
  /\ pc # "write" => done = 0
  /\ pc \in {"unstarted", "done"} => buffersToWrite = << >>
  /\ pc = "drop" => newBuffer1 = Null /\ Len(buffersToWrite) > DropLimit
  /\ nextBuffer = Null => buffers # << >>

\* There is a file to write to, and none behind it has been opened.
FileInv ==
  /\ IF pc = "unstarted" THEN file = 0 ELSE file \in Seconds
  /\ \A s \in Seconds : s > file => files[s] = << >>

\* Only lines that were appended are dropped.
DropInv == dropped \subseteq 1..appended

\* The inductive invariant.
LoggerInv == TypeOK /\ SpareBuffers /\ RoundInv /\ FileInv /\ DropInv /\ EachLineOnce
             /\ FilesInOrder

-----------------------------------------------------------------------------
(* FlattenSeq *)

Three(S, x, y, z) == x \in Seq(S) /\ y \in Seq(S) /\ z \in Seq(S)

\* Concatenation is associative, to be instantiated term by term.
LEMMA Associative ==
  ASSUME NEW S, NEW x, NEW y, NEW z, Three(S, x, y, z)
  PROVE  (x \o y) \o z = x \o (y \o z)
BY ConcatAssociative DEF Three

\* A set of natural numbers that is not empty has a least element.
LEMMA LeastNat ==
  ASSUME NEW T, T \subseteq Nat, T # {}
  PROVE  \E m \in T : \A n \in T : m <= n
<1>1. IsWellFoundedOn(OpToRel(<, Nat), Nat) BY NatLessThanWellFounded
<1>2. PICK m \in T : \A n \in T : ~(<<n, m>> \in OpToRel(<, Nat)) BY <1>1, WFMin
<1>3. \A n \in T : ~(n < m) BY <1>2 DEF OpToRel
<1>4. \A n \in T : m <= n BY <1>3
<1> QED BY <1>4

\* The recursive function inside FlattenSeq, and its equation.
Flat(ss) ==
  CHOOSE f : f = [i \in 1..Len(ss) |-> IF i = 1 THEN ss[i] ELSE f[i - 1] \o ss[i]]

Flattens(f, ss) == \A i \in 1..Len(ss) : f[i] = IF i = 1 THEN ss[i] ELSE f[i - 1] \o ss[i]

\* There is a function that satisfies the equation.
LEMMA FlattenExists ==
  ASSUME NEW S, NEW ss \in Seq(Seq(S))
  PROVE  \E f \in [1..Len(ss) -> Seq(S)] : Flattens(f, ss)
<1> DEFINE Upto(n) == \E f \in [1..n -> Seq(S)] :
                        \A i \in 1..n : f[i] = IF i = 1 THEN ss[i] ELSE f[i - 1] \o ss[i]
           Bad == {n \in 0..Len(ss) : ~Upto(n)}
<1>1. Upto(0)
  <2>1. [i \in 1..0 |-> << >>] \in [1..0 -> Seq(S)] OBVIOUS
  <2>2. \A f : \A i \in 1..0 : f[i] = IF i = 1 THEN ss[i] ELSE f[i - 1] \o ss[i] OBVIOUS
  <2> QED BY <2>1, <2>2
<1>2. ASSUME NEW n \in 0..Len(ss), n # Len(ss), Upto(n) PROVE Upto(n + 1)
  <2>1. PICK f \in [1..n -> Seq(S)] :
          \A i \in 1..n : f[i] = IF i = 1 THEN ss[i] ELSE f[i - 1] \o ss[i]
    BY <1>2
  <2> DEFINE last == IF n = 0 THEN ss[1] ELSE f[n] \o ss[n + 1]
             g == [i \in 1..n + 1 |-> IF i <= n THEN f[i] ELSE last]
  <2>2. ss[n + 1] \in Seq(S) /\ (n # 0 => f[n] \in Seq(S)) BY <1>2, <2>1
  <2>3. last \in Seq(S) BY <2>2, ConcatProperties
  <2>4. g \in [1..n + 1 -> Seq(S)] BY <2>1, <2>3
  <2>5. ASSUME NEW i \in 1..n + 1
        PROVE  g[i] = IF i = 1 THEN ss[i] ELSE g[i - 1] \o ss[i]
    <3>1. CASE i <= n
      <4>1. g[i] = f[i] /\ (i # 1 => g[i - 1] = f[i - 1]) BY <3>1
      <4>2. i \in 1..n BY <3>1
      <4>3. f[i] = IF i = 1 THEN ss[i] ELSE f[i - 1] \o ss[i] BY <2>1, <4>2
      <4> HIDE DEF g
      <4> QED BY <4>1, <4>3
    <3>2. CASE i = n + 1
      <4>1. g[i] = last BY <3>2
      <4>2. i # 1 => g[i - 1] = f[n] BY <3>2
      <4>3. i = 1 <=> n = 0 BY <3>2
      <4> QED BY <3>2, <4>1, <4>2, <4>3
    <3> QED BY <3>1, <3>2
  <2> HIDE DEF g
  <2> QED BY <2>4, <2>5
<1>3. Bad = {}
  <2> SUFFICES ASSUME Bad # {} PROVE FALSE OBVIOUS
  <2>1. Bad \subseteq Nat OBVIOUS
  <2> HIDE DEF Upto
  <2>2. PICK m \in Bad : \A n \in Bad : m <= n
    <3> HIDE DEF Bad
    <3> QED BY <2>1, LeastNat
  <2>3. m # 0 BY <1>1, <2>2
  <2>4. m - 1 \in 0..Len(ss) /\ m - 1 # Len(ss) BY <2>2, <2>3
  <2>5. m - 1 \notin Bad BY <2>1, <2>2
  <2>6. Upto(m - 1) BY <2>4, <2>5
  <2>7. Upto((m - 1) + 1) BY <1>2, <2>4, <2>6
  <2>8. (m - 1) + 1 = m BY <2>1, <2>2
  <2> QED BY <2>2, <2>7, <2>8
<1>4. Len(ss) \in 0..Len(ss) OBVIOUS
<1>5. Upto(Len(ss))
  <2> HIDE DEF Upto
  <2> QED BY <1>3, <1>4
<1> QED BY <1>5 DEF Flattens

\* So the recursive function does.
LEMMA FlatFacts ==
  ASSUME NEW S, NEW ss \in Seq(Seq(S))
  PROVE  /\ Flat(ss) \in [1..Len(ss) -> Seq(S)]
         /\ Flattens(Flat(ss), ss)
         /\ FlattenSeq(ss) = IF Len(ss) = 0 THEN ss ELSE Flat(ss)[Len(ss)]
<1>1. PICK f \in [1..Len(ss) -> Seq(S)] : Flattens(f, ss) BY FlattenExists
<1>2. f = [i \in 1..Len(ss) |-> IF i = 1 THEN ss[i] ELSE f[i - 1] \o ss[i]]
  BY <1>1 DEF Flattens
<1>3. Flat(ss) = [i \in 1..Len(ss) |-> IF i = 1 THEN ss[i] ELSE Flat(ss)[i - 1] \o ss[i]]
  BY <1>2, Zenon DEF Flat
<1>4. Flattens(Flat(ss), ss) /\ DOMAIN Flat(ss) = 1..Len(ss)
  <2> DEFINE g == Flat(ss)
  <2>1. g = [i \in 1..Len(ss) |-> IF i = 1 THEN ss[i] ELSE g[i - 1] \o ss[i]] BY <1>3
  <2> HIDE DEF g
  <2>2. Flattens(g, ss) /\ DOMAIN g = 1..Len(ss) BY <2>1 DEF Flattens
  <2> QED BY <2>2 DEF g
<1>5. FlattenSeq(ss) = IF Len(ss) = 0 THEN ss ELSE Flat(ss)[Len(ss)]
  BY DEF FlattenSeq, Flat
<1>6. Flat(ss) = f
  <2> DEFINE Bad == {i \in 1..Len(ss) : Flat(ss)[i] # f[i]}
  <2>1. Bad = {}
    <3> SUFFICES ASSUME Bad # {} PROVE FALSE OBVIOUS
    <3>1. Bad \subseteq Nat OBVIOUS
    <3>2. PICK m \in Bad : \A n \in Bad : m <= n
      <4> HIDE DEF Bad
      <4> QED BY <3>1, LeastNat
    <3>3. m \in 1..Len(ss) /\ Flat(ss)[m] # f[m] BY <3>2
    <3>4. m # 1 => Flat(ss)[m - 1] = f[m - 1] BY <3>2, <3>3
    <3> QED BY <1>1, <1>4, <3>3, <3>4 DEF Flattens
  <2>2. \A i \in 1..Len(ss) : Flat(ss)[i] = f[i] BY <2>1
  <2>3. Flat(ss) = [i \in 1..Len(ss) |-> Flat(ss)[i]] BY <1>3, <1>4
  <2>4. f = [i \in 1..Len(ss) |-> f[i]] OBVIOUS
  <2> QED BY <2>2, <2>3, <2>4
<1> QED BY <1>1, <1>4, <1>5, <1>6

\* What FlattenSeq computes, one buffer after the other.
LEMMA FlattenAppend ==
  ASSUME NEW S, NEW ss \in Seq(Seq(S)), NEW b \in Seq(S)
  PROVE  /\ FlattenSeq(ss) \in Seq(S)
         /\ FlattenSeq(Append(ss, b)) = FlattenSeq(ss) \o b
<1> DEFINE tt == Append(ss, b)
           n == Len(ss)
<1>1. tt \in Seq(Seq(S)) /\ Len(tt) = n + 1 /\ tt[n + 1] = b /\ n \in Nat
      /\ \A i \in 1..n : tt[i] = ss[i]
  OBVIOUS
<1> DEFINE f == Flat(ss)
           g == Flat(tt)
<1>2. /\ f \in [1..n -> Seq(S)] /\ Flattens(f, ss)
      /\ FlattenSeq(ss) = IF n = 0 THEN ss ELSE f[n]
  BY FlatFacts
<1>3. /\ g \in [1..n + 1 -> Seq(S)] /\ Flattens(g, tt)
      /\ FlattenSeq(tt) = g[n + 1]
  <2> HIDE DEF tt, n
  <2>1. /\ g \in [1..Len(tt) -> Seq(S)] /\ Flattens(g, tt)
        /\ FlattenSeq(tt) = IF Len(tt) = 0 THEN tt ELSE g[Len(tt)]
    BY <1>1, FlatFacts
  <2> HIDE DEF g
  <2> QED BY <1>1, <2>1
<1>4. n = 0 => ss = << >> OBVIOUS
<1> HIDE DEF f, g, tt, n
<1>5. FlattenSeq(ss) \in Seq(S) BY <1>1, <1>2, <1>4
<1> DEFINE Bad == {i \in 1..n : g[i] # f[i]}
<1>6. Bad = {}
  <2> SUFFICES ASSUME Bad # {} PROVE FALSE OBVIOUS
  <2>1. Bad \subseteq Nat BY <1>1
  <2>2. PICK m \in Bad : \A i \in Bad : m <= i
    <3> HIDE DEF Bad
    <3> QED BY <2>1, LeastNat
  <2>3. m \in 1..n /\ g[m] # f[m] BY <2>2
  <2>4. m # 1 => m - 1 \in 1..n /\ g[m - 1] = f[m - 1] BY <1>1, <2>2, <2>3
  <2>5. f[m] = IF m = 1 THEN ss[m] ELSE f[m - 1] \o ss[m] BY <1>2, <2>3 DEF Flattens, n
  <2>6. g[m] = IF m = 1 THEN tt[m] ELSE g[m - 1] \o tt[m]
    <3>1. m \in 1..Len(tt) BY <1>1, <2>3
    <3> QED BY <1>3, <3>1 DEF Flattens
  <2>7. tt[m] = ss[m] BY <1>1, <2>3
  <2> QED BY <2>3, <2>4, <2>5, <2>6, <2>7
<1>7. g[n + 1] = IF n = 0 THEN b ELSE g[n] \o b
  <2>1. n + 1 \in 1..Len(tt) BY <1>1
  <2>2. g[n + 1] = IF n + 1 = 1 THEN tt[n + 1] ELSE g[(n + 1) - 1] \o tt[n + 1]
    BY <1>3, <2>1 DEF Flattens
  <2> QED BY <1>1, <2>2
<1>8. CASE n = 0
  <2>1. << >> \o b = b BY ConcatEmptySeq
  <2> QED BY <1>2, <1>3, <1>4, <1>5, <1>7, <1>8, <2>1 DEF tt
<1>9. CASE n # 0
  <2>1. n \in 1..n BY <1>1, <1>9
  <2>2. g[n] = f[n] BY <1>6, <2>1
  <2> QED BY <1>2, <1>3, <1>5, <1>7, <1>9, <2>2 DEF tt
<1> QED BY <1>8, <1>9

\* The sequence of buffers e is c, with the lines b added to the last buffer.
LastLonger(S, c, e, b) ==
  \E ss \in Seq(Seq(S)), a \in Seq(S) : c = Append(ss, a) /\ e = Append(ss, a \o b)

\* A longer last buffer makes the whole longer.
LEMMA FlattenLonger ==
  ASSUME NEW S, NEW b \in Seq(S), NEW c, NEW e, LastLonger(S, c, e, b)
  PROVE  FlattenSeq(e) = FlattenSeq(c) \o b
<1>1. PICK ss \in Seq(Seq(S)), a \in Seq(S) : c = Append(ss, a) /\ e = Append(ss, a \o b)
  BY DEF LastLonger
<1>2. a \o b \in Seq(S) BY ConcatProperties
<1>3. FlattenSeq(ss) \in Seq(S)
      /\ FlattenSeq(Append(ss, a)) = FlattenSeq(ss) \o a
      /\ FlattenSeq(Append(ss, a \o b)) = FlattenSeq(ss) \o (a \o b)
  BY <1>2, FlattenAppend
<1> DEFINE u == FlattenSeq(ss)
<1> HIDE DEF u
<1>4. u \in Seq(S) BY <1>3 DEF u
<1>5. (u \o a) \o b = u \o (a \o b)
  <2>1. Three(S, u, a, b) BY <1>4 DEF Three
  <2> QED BY <2>1, Associative
<1> QED BY <1>1, <1>3, <1>5 DEF u

\* Nothing flattens to nothing, one buffer to itself.
LEMMA FlattenShort ==
  ASSUME NEW S
  PROVE  /\ FlattenSeq(<< >>) = << >>
         /\ \A b \in Seq(S) : FlattenSeq(<<b>>) = b
<1>1. FlattenSeq(<< >>) = << >> BY DEF FlattenSeq
<1>2. ASSUME NEW b \in Seq(S) PROVE FlattenSeq(<<b>>) = b
  <2>1. << >> \in Seq(Seq(S)) /\ Append(<< >>, b) = <<b>> OBVIOUS
  <2>2. FlattenSeq(Append(<< >>, b)) = << >> \o b BY <1>1, <2>1, FlattenAppend
  <2>3. << >> \o b = b BY ConcatEmptySeq
  <2> QED BY <2>1, <2>2, <2>3
<1> QED BY <1>1, <1>2

\* A sequence that is not empty is its front and its last element.
LEMMA FrontLast ==
  ASSUME NEW T, NEW ss \in Seq(T), NEW n \in Nat, Len(ss) = n + 1
  PROVE  /\ SubSeq(ss, 1, n) \in Seq(T) /\ Len(SubSeq(ss, 1, n)) = n
         /\ ss[n + 1] \in T
         /\ ss = Append(SubSeq(ss, 1, n), ss[n + 1])
         /\ \A i \in 1..n : SubSeq(ss, 1, n)[i] = ss[i]
<1>1. SubSeq(ss, 1, n) \in Seq(T) /\ Len(SubSeq(ss, 1, n)) = n
      /\ \A i \in 1..n : SubSeq(ss, 1, n)[i] = ss[i]
  OBVIOUS
<1>2. ss[n + 1] \in T OBVIOUS
<1> DEFINE f == SubSeq(ss, 1, n)
<1> HIDE DEF f
<1>3. f \in Seq(T) /\ Len(f) = n /\ \A i \in 1..n : f[i] = ss[i] BY <1>1 DEF f
<1>4. Append(f, ss[n + 1]) \in Seq(T) /\ Len(Append(f, ss[n + 1])) = n + 1 BY <1>2, <1>3
<1>5. \A i \in 1..n + 1 : Append(f, ss[n + 1])[i] = ss[i] BY <1>2, <1>3
<1>6. ss = Append(f, ss[n + 1]) BY <1>4, <1>5, SeqEqual
<1> QED BY <1>1, <1>2, <1>6 DEF f

\* Buffers behind buffers: the lines of the first come first.
LEMMA FlattenConcat ==
  ASSUME NEW S, NEW ss \in Seq(Seq(S)), NEW tt \in Seq(Seq(S))
  PROVE  FlattenSeq(ss \o tt) = FlattenSeq(ss) \o FlattenSeq(tt)
<1> DEFINE Good(n) == \A uu \in Seq(Seq(S)) :
                        Len(uu) = n => FlattenSeq(ss \o uu) = FlattenSeq(ss) \o FlattenSeq(uu)
           Bad == {n \in Nat : ~Good(n)}
<1>1. FlattenSeq(ss) \in Seq(S)
  <2>1. << >> \in Seq(S) OBVIOUS
  <2> QED BY <2>1, FlattenAppend
<1>2. Good(0)
  <2> SUFFICES ASSUME NEW uu \in Seq(Seq(S)), Len(uu) = 0
               PROVE  FlattenSeq(ss \o uu) = FlattenSeq(ss) \o FlattenSeq(uu)
    OBVIOUS
  <2>1. uu = << >> BY EmptySeq
  <2>2. ss \o << >> = ss /\ FlattenSeq(ss) \o << >> = FlattenSeq(ss)
    BY <1>1, ConcatEmptySeq
  <2> QED BY <2>1, <2>2, FlattenShort
<1>3. ASSUME NEW n \in Nat, Good(n) PROVE Good(n + 1)
  <2> SUFFICES ASSUME NEW uu \in Seq(Seq(S)), Len(uu) = n + 1
               PROVE  FlattenSeq(ss \o uu) = FlattenSeq(ss) \o FlattenSeq(uu)
    OBVIOUS
  <2> DEFINE f == SubSeq(uu, 1, n)
             b == uu[n + 1]
  <2>1. f \in Seq(Seq(S)) /\ Len(f) = n /\ b \in Seq(S) /\ uu = Append(f, b)
    BY FrontLast
  <2>2. FlattenSeq(ss \o f) = FlattenSeq(ss) \o FlattenSeq(f) BY <1>3, <2>1
  <2> HIDE DEF f, b, Good
  <2>3. ss \o Append(f, b) = Append(ss \o f, b)
    <3>1. f \o <<b>> = Append(f, b) /\ (ss \o f) \o <<b>> = Append(ss \o f, b)
          /\ <<b>> \in Seq(Seq(S)) /\ ss \o f \in Seq(Seq(S))
      BY <2>1, AppendIsConcat, ConcatProperties
    <3>2. Three(Seq(S), ss, f, <<b>>) BY <2>1, <3>1 DEF Three
    <3>3. (ss \o f) \o <<b>> = ss \o (f \o <<b>>) BY <3>2, Associative
    <3> QED BY <3>1, <3>3
  <2>4. ss \o f \in Seq(Seq(S)) BY <2>1, ConcatProperties
  <2>5. FlattenSeq(Append(ss \o f, b)) = FlattenSeq(ss \o f) \o b BY <2>1, <2>4, FlattenAppend
  <2>6. FlattenSeq(Append(f, b)) = FlattenSeq(f) \o b /\ FlattenSeq(f) \in Seq(S)
    BY <2>1, FlattenAppend
  <2>7. (FlattenSeq(ss) \o FlattenSeq(f)) \o b = FlattenSeq(ss) \o (FlattenSeq(f) \o b)
    <3>1. Three(S, FlattenSeq(ss), FlattenSeq(f), b) BY <1>1, <2>1, <2>6 DEF Three
    <3> QED BY <3>1, Associative
  <2> QED BY <2>1, <2>2, <2>3, <2>5, <2>6, <2>7
<1>4. Bad = {}
  <2> SUFFICES ASSUME Bad # {} PROVE FALSE OBVIOUS
  <2> HIDE DEF Good
  <2>1. Bad \subseteq Nat OBVIOUS
  <2>2. PICK m \in Bad : \A n \in Bad : m <= n
    <3> HIDE DEF Bad
    <3> QED BY <2>1, LeastNat
  <2>3. m # 0 BY <1>2, <2>2
  <2>4. m - 1 \in Nat /\ m - 1 \notin Bad /\ (m - 1) + 1 = m BY <2>1, <2>2, <2>3
  <2>5. Good((m - 1) + 1) BY <1>3, <2>4
  <2> QED BY <2>2, <2>4, <2>5
<1>5. Len(tt) \in Nat OBVIOUS
<1>6. Good(Len(tt))
  <2> HIDE DEF Good
  <2> QED BY <1>4, <1>5
<1> QED BY <1>6

\* Empty files hold nothing.
LEMMA FlattenEmpty ==
  ASSUME NEW S, NEW ss \in Seq(Seq(S)), \A i \in 1..Len(ss) : ss[i] = << >>
  PROVE  FlattenSeq(ss) = << >>
<1> DEFINE Good(n) == \A uu \in Seq(Seq(S)) :
                        Len(uu) = n /\ (\A i \in 1..n : uu[i] = << >>) => FlattenSeq(uu) = << >>
           Bad == {n \in Nat : ~Good(n)}
<1>1. Good(0)
  <2> SUFFICES ASSUME NEW uu \in Seq(Seq(S)), Len(uu) = 0 PROVE FlattenSeq(uu) = << >>
    OBVIOUS
  <2>1. uu = << >> BY EmptySeq
  <2> QED BY <2>1, FlattenShort
<1>2. ASSUME NEW n \in Nat, Good(n) PROVE Good(n + 1)
  <2> SUFFICES ASSUME NEW uu \in Seq(Seq(S)), Len(uu) = n + 1, \A i \in 1..n + 1 : uu[i] = << >>
               PROVE  FlattenSeq(uu) = << >>
    OBVIOUS
  <2> DEFINE f == SubSeq(uu, 1, n)
  <2>1. f \in Seq(Seq(S)) /\ Len(f) = n /\ uu = Append(f, uu[n + 1])
        /\ \A i \in 1..n : f[i] = uu[i]
    BY FrontLast
  <2>2. uu[n + 1] = << >> /\ << >> \in Seq(S) OBVIOUS
  <2> HIDE DEF f
  <2>3. \A i \in 1..n : f[i] = << >> BY <2>1
  <2>4. FlattenSeq(f) = << >> BY <1>2, <2>1, <2>3
  <2>5. FlattenSeq(Append(f, << >>)) = << >> \o << >> BY <2>1, <2>2, <2>4, FlattenAppend
  <2>6. << >> \o << >> = << >> BY <2>2, ConcatEmptySeq
  <2> QED BY <2>1, <2>2, <2>5, <2>6
<1>3. Bad = {}
  <2> SUFFICES ASSUME Bad # {} PROVE FALSE OBVIOUS
  <2> HIDE DEF Good
  <2>1. Bad \subseteq Nat OBVIOUS
  <2>2. PICK m \in Bad : \A n \in Bad : m <= n
    <3> HIDE DEF Bad
    <3> QED BY <2>1, LeastNat
  <2>3. m # 0 BY <1>1, <2>2
  <2>4. m - 1 \in Nat /\ m - 1 \notin Bad /\ (m - 1) + 1 = m BY <2>1, <2>2, <2>3
  <2>5. Good((m - 1) + 1) BY <1>2, <2>4
  <2> QED BY <2>2, <2>4, <2>5
<1>4. Len(ss) \in Nat OBVIOUS
<1>5. Good(Len(ss))
  <2> HIDE DEF Good
  <2> QED BY <1>3, <1>4
<1> QED BY <1>5

\* Cutting a sequence anywhere.
LEMMA CutSeq ==
  ASSUME NEW T, NEW ss \in Seq(T), NEW k \in 0..Len(ss)
  PROVE  /\ SubSeq(ss, 1, k) \in Seq(T) /\ Len(SubSeq(ss, 1, k)) = k
         /\ SubSeq(ss, k + 1, Len(ss)) \in Seq(T)
         /\ Len(SubSeq(ss, k + 1, Len(ss))) = Len(ss) - k
         /\ \A i \in 1..k : SubSeq(ss, 1, k)[i] = ss[i]
         /\ \A i \in 1..Len(ss) - k : SubSeq(ss, k + 1, Len(ss))[i] = ss[k + i]
         /\ ss = SubSeq(ss, 1, k) \o SubSeq(ss, k + 1, Len(ss))
<1> DEFINE a == SubSeq(ss, 1, k)
           b == SubSeq(ss, k + 1, Len(ss))
<1> k \in Int /\ Len(ss) \in Nat OBVIOUS
<1>1. a \in Seq(T) /\ Len(a) = k /\ \A i \in 1..k : a[i] = ss[i] OBVIOUS
<1>2. b \in Seq(T) /\ Len(b) = Len(ss) - k /\ \A i \in 1..Len(ss) - k : b[i] = ss[k + i] OBVIOUS
<1> HIDE DEF a, b
<1>3. a \o b \in Seq(T) /\ Len(a \o b) = Len(a) + Len(b)
      /\ \A i \in 1..Len(a) + Len(b) : (a \o b)[i] = IF i <= Len(a) THEN a[i] ELSE b[i - Len(a)]
  BY <1>1, <1>2, ConcatProperties
<1>4. Len(a \o b) = Len(ss) BY <1>1, <1>2, <1>3
<1>5. ASSUME NEW i \in 1..Len(ss) PROVE (a \o b)[i] = ss[i]
  <2>1. (a \o b)[i] = IF i <= k THEN a[i] ELSE b[i - k] BY <1>1, <1>2, <1>3
  <2>2. CASE i <= k BY <1>1, <2>1, <2>2
  <2>3. CASE i > k
    <3>1. i - k \in 1..Len(ss) - k /\ k + (i - k) = i BY <2>3
    <3> QED BY <1>2, <2>1, <2>3, <3>1
  <2>4. i <= k \/ i > k OBVIOUS
  <2> QED BY <2>2, <2>3, <2>4
<1>6. ss = a \o b BY <1>3, <1>4, <1>5, SeqEqual
<1> QED BY <1>1, <1>2, <1>6 DEF a, b

\* More lines in file k, and nothing in the files behind it.
Extended(ss, k, b) == [ss EXCEPT ![k] = @ \o b]
NothingBehind(ss, k) == \A i \in 1..Len(ss) : i > k => ss[i] = << >>

\* Lines at the end of the last file that is not empty are lines at the end of the log.
LEMMA FlattenExtend ==
  ASSUME NEW S, NEW ss \in Seq(Seq(S)), NEW k \in 1..Len(ss), NEW b \in Seq(S),
         NothingBehind(ss, k)
  PROVE  FlattenSeq(Extended(ss, k, b)) = FlattenSeq(ss) \o b
<1> DEFINE c == SubSeq(ss, 1, k)
           d == SubSeq(ss, k + 1, Len(ss))
           a == SubSeq(c, 1, k - 1)
           tt == [ss EXCEPT ![k] = @ \o b]
           e == Append(a, ss[k] \o b)
<1>0. k \in Int /\ Len(ss) \in Nat OBVIOUS
<1>1. /\ c \in Seq(Seq(S)) /\ Len(c) = k /\ \A i \in 1..k : c[i] = ss[i]
      /\ d \in Seq(Seq(S)) /\ Len(d) = Len(ss) - k
      /\ \A i \in 1..Len(ss) - k : d[i] = ss[k + i]
      /\ ss = c \o d
  BY CutSeq
<1> HIDE DEF c, d
<1>2. a \in Seq(Seq(S)) /\ Len(a) = k - 1 /\ c = Append(a, c[k]) /\ c[k] = ss[k]
      /\ \A i \in 1..k - 1 : a[i] = c[i]
  <2>1. k - 1 \in Nat /\ (k - 1) + 1 = k OBVIOUS
  <2> QED BY <1>1, <2>1, FrontLast
<1> HIDE DEF a
<1>3. ss[k] \in Seq(S) /\ ss[k] \o b \in Seq(S) BY ConcatProperties
<1>4. tt \in Seq(Seq(S)) /\ Len(tt) = Len(ss) /\ tt[k] = ss[k] \o b
      /\ \A i \in 1..Len(ss) : i # k => tt[i] = ss[i]
  BY <1>3
<1> HIDE DEF tt
<1>5. e \in Seq(Seq(S)) /\ Len(e) = k /\ e[k] = ss[k] \o b /\ \A i \in 1..k - 1 : e[i] = ss[i]
  <2> DEFINE v == ss[k] \o b
  <2>1. v \in Seq(S) BY <1>3
  <2> HIDE DEF v
  <2>2. Append(a, v) \in Seq(Seq(S)) /\ Len(Append(a, v)) = k /\ Append(a, v)[k] = v
        /\ \A i \in 1..k - 1 : Append(a, v)[i] = a[i]
    BY <1>0, <1>2, <2>1
  <2>3. \A i \in 1..k - 1 : a[i] = ss[i] BY <1>0, <1>1, <1>2
  <2> QED BY <2>2, <2>3 DEF v
<1>6. tt = e \o d
  <2> HIDE DEF e
  <2> USE <1>0
  <2>1. e \o d \in Seq(Seq(S)) /\ Len(e \o d) = Len(e) + Len(d)
        /\ \A i \in 1..Len(e) + Len(d) : (e \o d)[i] = IF i <= Len(e) THEN e[i] ELSE d[i - Len(e)]
    <3>1. e \in Seq(Seq(S)) /\ d \in Seq(Seq(S)) BY <1>1, <1>5
    <3> QED BY <3>1, ConcatProperties
  <2>2. Len(e \o d) = Len(tt) BY <1>1, <1>4, <1>5, <2>1
  <2>3. Len(e) = k /\ Len(d) = Len(ss) - k /\ Len(tt) = Len(ss) BY <1>1, <1>4, <1>5
  <2>4. ASSUME NEW i \in 1..Len(tt) PROVE tt[i] = (e \o d)[i]
    <3>1. i \in 1..Len(e) + Len(d) /\ i \in 1..Len(ss) /\ i \in Int BY <2>3
    <3>2. (e \o d)[i] = IF i <= k THEN e[i] ELSE d[i - k] BY <2>1, <2>3, <3>1
    <3>3. CASE i < k
      <4>1. i \in 1..k - 1 /\ i # k /\ i <= k BY <3>1, <3>3
      <4>2. e[i] = ss[i] BY <1>5, <4>1
      <4>3. tt[i] = ss[i] BY <1>4, <3>1, <4>1
      <4> QED BY <3>2, <4>1, <4>2, <4>3
    <3>4. CASE i = k
      <4>1. i <= k BY <3>4
      <4>2. e[i] = tt[i] BY <1>4, <1>5, <3>4
      <4> QED BY <3>2, <4>1, <4>2
    <3>5. CASE i > k
      <4>1. i - k \in 1..Len(ss) - k /\ k + (i - k) = i /\ i # k /\ ~(i <= k) BY <3>1, <3>5
      <4>2. d[i - k] = ss[i] BY <1>1, <4>1
      <4>3. tt[i] = ss[i] BY <1>4, <3>1, <4>1
      <4> QED BY <3>2, <4>1, <4>2, <4>3
    <3>6. i < k \/ i = k \/ i > k BY <3>1
    <3> QED BY <3>3, <3>4, <3>5, <3>6
  <2> QED BY <1>4, <2>1, <2>2, <2>4, SeqEqual
<1>7. FlattenSeq(d) = << >>
  <2>1. ASSUME NEW i \in 1..Len(d) PROVE d[i] = << >>
    <3>1. d[i] = ss[k + i] /\ k + i \in 1..Len(ss) /\ k + i > k BY <1>1
    <3> QED BY <3>1 DEF NothingBehind
  <2> QED BY <1>1, <2>1, FlattenEmpty
<1> HIDE DEF e
<1>9. FlattenSeq(e) = FlattenSeq(c) \o b
  <2>1. c = Append(a, ss[k]) /\ e = Append(a, ss[k] \o b) BY <1>2 DEF e
  <2>2. LastLonger(S, c, e, b) BY <1>2, <1>3, <2>1, Zenon DEF LastLonger
  <2> QED BY <2>2, FlattenLonger
<1>10. FlattenSeq(c) \in Seq(S) /\ FlattenSeq(e) \in Seq(S)
  <2>1. << >> \in Seq(S) OBVIOUS
  <2> QED BY <1>1, <1>5, <2>1, FlattenAppend
<1>11. FlattenSeq(ss) = FlattenSeq(c) \o << >>
  <2>1. FlattenSeq(c \o d) = FlattenSeq(c) \o FlattenSeq(d) BY <1>1, FlattenConcat
  <2> QED BY <1>1, <1>7, <2>1
<1>12. FlattenSeq(tt) = FlattenSeq(e) \o << >>
  <2>1. FlattenSeq(e \o d) = FlattenSeq(e) \o FlattenSeq(d) BY <1>1, <1>5, FlattenConcat
  <2> QED BY <1>6, <1>7, <2>1
<1>13. FlattenSeq(c) \o << >> = FlattenSeq(c) /\ FlattenSeq(e) \o << >> = FlattenSeq(e)
  BY <1>10, ConcatEmptySeq
<1> QED BY <1>9, <1>11, <1>12, <1>13 DEF tt, Extended

-----------------------------------------------------------------------------
(* Lines in order *)

\* The numbers of the lines grow; notices are skipped.
Ascending(s) ==
  \A i, j \in DOMAIN s : i < j /\ s[i] # Notice /\ s[j] # Notice => s[i] < s[j]

\* EachLineOnce, said of a log.
OnceInOrder(log, n, gone) == ToSet(log) \ {Notice} = (1..n) \ gone /\ Ascending(log)

\* What a concatenation holds.
LEMMA ToSetConcat ==
  ASSUME NEW S, NEW s \in Seq(S), NEW t \in Seq(S)
  PROVE  ToSet(s \o t) = ToSet(s) \union ToSet(t)
<1>1. Len(s) \in Nat /\ Len(t) \in Nat /\ DOMAIN s = 1..Len(s) /\ DOMAIN t = 1..Len(t) OBVIOUS
<1>2. s \o t \in Seq(S) /\ Len(s \o t) = Len(s) + Len(t)
      /\ \A i \in 1..Len(s) + Len(t) : (s \o t)[i] = IF i <= Len(s) THEN s[i] ELSE t[i - Len(s)]
  BY ConcatProperties
<1> DEFINE c == s \o t
<1>3. DOMAIN c = 1..Len(s) + Len(t)
      /\ \A i \in 1..Len(s) + Len(t) : c[i] = IF i <= Len(s) THEN s[i] ELSE t[i - Len(s)]
  BY <1>2
<1> HIDE DEF c
<1>4. ASSUME NEW i \in DOMAIN c PROVE c[i] \in ToSet(s) \union ToSet(t)
  <2>1. CASE i <= Len(s)
    <3>1. i \in 1..Len(s) /\ c[i] = s[i] BY <1>1, <1>3, <2>1
    <3> QED BY <1>1, <3>1 DEF ToSet
  <2>2. CASE ~(i <= Len(s))
    <3>1. i - Len(s) \in 1..Len(t) /\ c[i] = t[i - Len(s)] BY <1>1, <1>3, <2>2
    <3> QED BY <1>1, <3>1 DEF ToSet
  <2> QED BY <2>1, <2>2
<1>5. ASSUME NEW i \in DOMAIN s PROVE s[i] \in ToSet(c)
  <2>1. i \in DOMAIN c /\ c[i] = s[i] BY <1>1, <1>3
  <2> QED BY <2>1 DEF ToSet
<1>6. ASSUME NEW i \in DOMAIN t PROVE t[i] \in ToSet(c)
  <2>1. Len(s) + i \in DOMAIN c /\ ~(Len(s) + i <= Len(s)) /\ (Len(s) + i) - Len(s) = i
    BY <1>1, <1>3
  <2>2. c[Len(s) + i] = t[i] BY <1>3, <2>1
  <2> QED BY <2>1, <2>2 DEF ToSet
<1>7. ToSet(c) \subseteq ToSet(s) \union ToSet(t)
  <2> SUFFICES ASSUME NEW x \in ToSet(c) PROVE x \in ToSet(s) \union ToSet(t) OBVIOUS
  <2>1. PICK i \in DOMAIN c : x = c[i] BY DEF ToSet
  <2> QED BY <1>4, <2>1
<1>8. ToSet(s) \subseteq ToSet(c) /\ ToSet(t) \subseteq ToSet(c)
  <2>1. \A x \in ToSet(s) : \E i \in DOMAIN s : x = s[i] BY DEF ToSet
  <2>2. \A x \in ToSet(t) : \E i \in DOMAIN t : x = t[i] BY DEF ToSet
  <2> QED BY <1>5, <1>6, <2>1, <2>2
<1> QED BY <1>7, <1>8 DEF c

\* When a concatenation is in order.
LEMMA AscendingConcat ==
  ASSUME NEW s \in Seq(Nat), NEW t \in Seq(Nat)
  PROVE  Ascending(s \o t) <=>
           /\ Ascending(s)
           /\ Ascending(t)
           /\ \A x \in ToSet(s), y \in ToSet(t) : x # Notice /\ y # Notice => x < y
<1>1. Len(s) \in Nat /\ Len(t) \in Nat /\ DOMAIN s = 1..Len(s) /\ DOMAIN t = 1..Len(t) OBVIOUS
<1>2. s \o t \in Seq(Nat) /\ Len(s \o t) = Len(s) + Len(t)
      /\ \A i \in 1..Len(s) + Len(t) : (s \o t)[i] = IF i <= Len(s) THEN s[i] ELSE t[i - Len(s)]
  BY ConcatProperties
<1> DEFINE c == s \o t
<1>3. DOMAIN c = 1..Len(s) + Len(t)
      /\ \A i \in 1..Len(s) + Len(t) : c[i] = IF i <= Len(s) THEN s[i] ELSE t[i - Len(s)]
  BY <1>2
<1> HIDE DEF c
<1>4. \A i \in DOMAIN s : i \in DOMAIN c /\ c[i] = s[i] BY <1>1, <1>3
<1>5. ASSUME NEW i \in DOMAIN t
      PROVE  Len(s) + i \in DOMAIN c /\ c[Len(s) + i] = t[i] /\ Len(s) + i > Len(s)
  <2>1. Len(s) + i \in DOMAIN c /\ ~(Len(s) + i <= Len(s)) /\ (Len(s) + i) - Len(s) = i
    BY <1>1, <1>3
  <2> QED BY <1>1, <1>3, <2>1
<1>6. ASSUME Ascending(c)
      PROVE  /\ Ascending(s)
             /\ Ascending(t)
             /\ \A x \in ToSet(s), y \in ToSet(t) : x # Notice /\ y # Notice => x < y
  <2>1. Ascending(s) BY <1>4, <1>6 DEF Ascending
  <2>2. Ascending(t)
    <3> SUFFICES ASSUME NEW i \in DOMAIN t, NEW j \in DOMAIN t, i < j, t[i] # Notice, t[j] # Notice
                 PROVE  t[i] < t[j]
      BY DEF Ascending
    <3>1. Len(s) + i < Len(s) + j BY <1>1
    <3> QED BY <1>5, <1>6, <3>1 DEF Ascending
  <2>3. ASSUME NEW x \in ToSet(s), NEW y \in ToSet(t), x # Notice, y # Notice PROVE x < y
    <3>1. PICK i \in DOMAIN s : x = s[i] BY DEF ToSet
    <3>2. PICK j \in DOMAIN t : y = t[j] BY DEF ToSet
    <3>3. i < Len(s) + j BY <1>1
    <3> QED BY <1>4, <1>5, <1>6, <2>3, <3>1, <3>2, <3>3 DEF Ascending
  <2> QED BY <2>1, <2>2, <2>3
<1>7. ASSUME Ascending(s), Ascending(t),
             \A x \in ToSet(s), y \in ToSet(t) : x # Notice /\ y # Notice => x < y
      PROVE  Ascending(c)
  <2> SUFFICES ASSUME NEW i \in DOMAIN c, NEW j \in DOMAIN c, i < j, c[i] # Notice, c[j] # Notice
               PROVE  c[i] < c[j]
    BY DEF Ascending
  <2>1. CASE j <= Len(s)
    <3>1. i \in DOMAIN s /\ j \in DOMAIN s /\ c[i] = s[i] /\ c[j] = s[j] BY <1>1, <1>3, <2>1
    <3> QED BY <1>7, <3>1 DEF Ascending
  <2>2. CASE i > Len(s)
    <3>1. i - Len(s) \in DOMAIN t /\ j - Len(s) \in DOMAIN t /\ i - Len(s) < j - Len(s)
          /\ c[i] = t[i - Len(s)] /\ c[j] = t[j - Len(s)]
      BY <1>1, <1>3, <2>2
    <3> QED BY <1>7, <3>1 DEF Ascending
  <2>3. CASE i <= Len(s) /\ j > Len(s)
    <3>1. i \in DOMAIN s /\ j - Len(s) \in DOMAIN t /\ c[i] = s[i] /\ c[j] = t[j - Len(s)]
      BY <1>1, <1>3, <2>3
    <3>2. c[i] \in ToSet(s) /\ c[j] \in ToSet(t) BY <3>1 DEF ToSet
    <3> QED BY <1>7, <3>2
  <2>4. j <= Len(s) \/ i > Len(s) \/ (i <= Len(s) /\ j > Len(s)) BY <1>1, <1>3
  <2> QED BY <2>1, <2>2, <2>3, <2>4
<1> QED BY <1>6, <1>7 DEF c

\* A new line at the end.
LEMMA OneMoreLine ==
  ASSUME NEW log \in Seq(Nat), NEW n \in Nat, NEW gone, gone \subseteq 1..n,
         OnceInOrder(log, n, gone)
  PROVE  OnceInOrder(log \o <<n + 1>>, n + 1, gone)
<1> DEFINE new == <<n + 1>>
<1>1. new \in Seq(Nat) /\ ToSet(new) = {n + 1} /\ Ascending(new) BY DEF ToSet, Ascending
<1> HIDE DEF new
<1>2. ToSet(log) \ {0} = (1..n) \ gone /\ Ascending(log) BY DEF OnceInOrder, Notice
<1>3. ToSet(log \o new) = ToSet(log) \union {n + 1} BY <1>1, ToSetConcat
<1>4. Ascending(log \o new)
  <2>1. \A x \in ToSet(log), y \in ToSet(new) : x # Notice /\ y # Notice => x < y
    <3> SUFFICES ASSUME NEW x \in ToSet(log), x # 0 PROVE x < n + 1 BY <1>1 DEF Notice
    <3>1. x \in 1..n BY <1>2
    <3> QED BY <3>1
  <2> QED BY <1>1, <1>2, <2>1, AscendingConcat
<1>5. ToSet(log \o new) \ {0} = (1..n + 1) \ gone
  <2>1. 1..n + 1 = (1..n) \union {n + 1} /\ n + 1 # 0 /\ n + 1 \notin gone OBVIOUS
  <2> QED BY <1>2, <1>3, <2>1
<1> QED BY <1>4, <1>5 DEF OnceInOrder, Notice, new

\* What the logging thread writes of its own.
Noted(z) == z = << >> \/ z = <<Notice>>

\* Lines are gone from the middle of the log, where a notice may be in their place.
LEMMA LinesGone ==
  ASSUME NEW w \in Seq(Nat), NEW a \in Seq(Nat), NEW b \in Seq(Nat), NEW c \in Seq(Nat),
         NEW n \in Nat, NEW gone, NEW z, Noted(z),
         OnceInOrder(w \o ((a \o b) \o c), n, gone)
  PROVE  OnceInOrder((w \o z) \o (a \o c), n, gone \union (ToSet(a \o b) \ ToSet(a)))
<1>1. z \in Seq(Nat) /\ ToSet(z) \subseteq {0} /\ Ascending(z)
  <2>1. CASE z = << >> BY <2>1 DEF ToSet, Ascending
  <2>2. CASE z = <<Notice>> BY <2>2 DEF ToSet, Ascending, Notice
  <2> QED BY <2>1, <2>2 DEF Noted
<1>2. /\ a \o b \in Seq(Nat) /\ (a \o b) \o c \in Seq(Nat)
      /\ a \o c \in Seq(Nat) /\ w \o z \in Seq(Nat)
  <2>1. \A s, t \in Seq(Nat) : s \o t \in Seq(Nat) BY ConcatProperties
  <2> QED BY <1>1, <2>1
<1>0. \A s, t \in Seq(Nat) : ToSet(s \o t) = ToSet(s) \union ToSet(t) BY ToSetConcat
<1>3. /\ ToSet(a \o b) = ToSet(a) \union ToSet(b)
      /\ ToSet((a \o b) \o c) = ToSet(a) \union ToSet(b) \union ToSet(c)
      /\ ToSet(w \o ((a \o b) \o c)) = ToSet(w) \union ToSet(a) \union ToSet(b) \union ToSet(c)
  <2>1. ToSet(a \o b) = ToSet(a) \union ToSet(b) BY ToSetConcat
  <2>2. ToSet((a \o b) \o c) = ToSet(a \o b) \union ToSet(c) BY <1>0, <1>2
  <2>3. ToSet(w \o ((a \o b) \o c)) = ToSet(w) \union ToSet((a \o b) \o c) BY <1>0, <1>2
  <2> QED BY <2>1, <2>2, <2>3
<1>4. /\ ToSet(w \o z) = ToSet(w) \union ToSet(z)
      /\ ToSet(a \o c) = ToSet(a) \union ToSet(c)
      /\ ToSet((w \o z) \o (a \o c)) = ToSet(w) \union ToSet(z) \union ToSet(a) \union ToSet(c)
  <2>1. ToSet(w \o z) = ToSet(w) \union ToSet(z) BY <1>1, ToSetConcat
  <2>2. ToSet(a \o c) = ToSet(a) \union ToSet(c) BY ToSetConcat
  <2>3. ToSet((w \o z) \o (a \o c)) = ToSet(w \o z) \union ToSet(a \o c) BY <1>0, <1>2
  <2> QED BY <2>1, <2>2, <2>3
<1> DEFINE Less(X, Y) == \A x \in X, y \in Y : x # 0 /\ y # 0 => x < y
<1>5. \A s, t \in Seq(Nat) :
        Ascending(s \o t) <=> Ascending(s) /\ Ascending(t) /\ Less(ToSet(s), ToSet(t))
  BY AscendingConcat DEF Notice
<1>6. /\ ToSet(w) \subseteq Nat /\ ToSet(a) \subseteq Nat
      /\ ToSet(b) \subseteq Nat /\ ToSet(c) \subseteq Nat
  BY DEF ToSet
<1>7. Ascending(w \o ((a \o b) \o c)) BY DEF OnceInOrder
<1>8. /\ Ascending(w) /\ Ascending(a) /\ Ascending(b) /\ Ascending(c)
      /\ Less(ToSet(w), ToSet(a) \union ToSet(b) \union ToSet(c))
      /\ Less(ToSet(a) \union ToSet(b), ToSet(c))
      /\ Less(ToSet(a), ToSet(b))
  <2> HIDE DEF Less
  <2>1. Ascending(w) /\ Ascending((a \o b) \o c) /\ Less(ToSet(w), ToSet((a \o b) \o c))
    BY <1>2, <1>5, <1>7
  <2>2. Ascending(a \o b) /\ Ascending(c) /\ Less(ToSet(a \o b), ToSet(c)) BY <1>2, <1>5, <2>1
  <2>3. Ascending(a) /\ Ascending(b) /\ Less(ToSet(a), ToSet(b)) BY <1>5, <2>2
  <2> QED BY <1>3, <2>1, <2>2, <2>3
<1>9. Ascending((w \o z) \o (a \o c))
  <2>1. Less(ToSet(w), ToSet(z)) /\ Less(ToSet(a), ToSet(c)) /\ Less(ToSet(w \o z), ToSet(a \o c))
    BY <1>1, <1>4, <1>8
  <2> HIDE DEF Less
  <2>2. Ascending(w \o z) BY <1>1, <1>5, <1>8, <2>1
  <2>3. Ascending(a \o c) BY <1>5, <1>8, <2>1
  <2> QED BY <1>2, <1>5, <2>1, <2>2, <2>3
<1>10. ToSet((w \o z) \o (a \o c)) \ {0} = (1..n) \ (gone \union (ToSet(a \o b) \ ToSet(a)))
  <2> DEFINE W == ToSet(w)  A == ToSet(a)  B == ToSet(b)  C == ToSet(c)  Z == ToSet(z)
  <2>1. (W \union A \union B \union C) \ {0} = (1..n) \ gone BY <1>3 DEF OnceInOrder, Notice
  <2>2. \A x \in B : x # 0 => x \notin W /\ x \notin C /\ x \notin A
    <3> HIDE DEF W, A, B, C
    <3>1. Less(W, B) /\ Less(B, C) /\ Less(A, B) BY <1>8 DEF W, A, B, C
    <3>2. \A x \in B : ~(x < x) BY <1>6 DEF B
    <3>3. SUFFICES ASSUME NEW x \in B, x # 0 PROVE x \notin W /\ x \notin C /\ x \notin A OBVIOUS
    <3>4. x \notin W BY <3>1, <3>2, <3>3
    <3>5. x \notin C BY <3>1, <3>2, <3>3
    <3>6. x \notin A BY <3>1, <3>2, <3>3
    <3> QED BY <3>4, <3>5, <3>6
  <2>3. 0 \notin 1..n /\ Z \subseteq {0} BY <1>1
  <2> HIDE DEF W, A, B, C, Z
  <2>4. (W \union Z \union A \union C) \ {0} = (1..n) \ (gone \union ((A \union B) \ A))
    BY <2>1, <2>2, <2>3
  <2> QED BY <1>3, <1>4, <2>4 DEF W, A, B, C, Z
<1> QED BY <1>9, <1>10 DEF OnceInOrder, Notice

-----------------------------------------------------------------------------
(* The log in its parts *)

ToWrite == FlattenSeq(SubSeq(buffersToWrite, done + 1, Len(buffersToWrite)))
Waiting == FlattenSeq(buffers)
LogOf(w, r, q, c) == w \o ((r \o q) \o c)
Log == LogOf(written, ToWrite, Waiting, currentBuffer)

\* EachLineOnce speaks of this log.
LEMMA LogIsLog == EachLineOnce <=> OnceInOrder(Log, appended, dropped)
BY DEF EachLineOnce, OnceInOrder, Ascending, Log, LogOf, InMemory, ToWrite, Waiting

\* The parts are sequences of lines.
LEMMA PartsTyped ==
  ASSUME TypeOK
  PROVE  /\ ToWrite \in Buffer /\ Waiting \in Buffer /\ currentBuffer \in Buffer
         /\ written \in LogLines
         /\ ToWrite \in Seq(Nat) /\ Waiting \in Seq(Nat) /\ currentBuffer \in Seq(Nat)
         /\ written \in Seq(Nat)
<1>1. /\ buffersToWrite \in Seq(Buffer) /\ buffers \in Seq(Buffer) /\ currentBuffer \in Buffer
      /\ written \in LogLines /\ done \in 0..Len(buffersToWrite)
  BY DEF TypeOK
<1>2. << >> \in Buffer BY DEF Buffer
<1>3. SubSeq(buffersToWrite, done + 1, Len(buffersToWrite)) \in Seq(Buffer) BY <1>1, CutSeq
<1>4. ToWrite \in Buffer /\ Waiting \in Buffer
  BY <1>1, <1>2, <1>3, FlattenAppend DEF ToWrite, Waiting, Buffer
<1>5. \A q : q \in Buffer \/ q \in LogLines => q \in Seq(Nat)
  BY BoundsAssumption DEF Buffer, LogLines
<1> QED BY <1>1, <1>4, <1>5

\* The parts of a log.
Parts(S, w, h, r, q, c) ==
  w \in Seq(S) /\ h \in Seq(S) /\ r \in Seq(S) /\ q \in Seq(S) /\ c \in Seq(S)

\* The buffers are swapped.
LEMMA LogSwapped ==
  ASSUME NEW S, NEW w \in Seq(S), NEW q \in Seq(S), NEW c \in Seq(S)
  PROVE  LogOf(w, q \o c, << >>, << >>) = LogOf(w, << >>, q, c)
<1> DEFINE qc == q \o c
<1>1. qc \in Seq(S) BY ConcatProperties
<1>2. << >> \o q = q BY ConcatEmptySeq
<1> HIDE DEF qc
<1>3. qc \o << >> = qc BY <1>1, ConcatEmptySeq
<1> QED BY <1>2, <1>3 DEF qc, LogOf

\* A line is appended to the current buffer, or to the one that replaces it.
LEMMA LogAppended ==
  ASSUME NEW S, NEW w, NEW h, NEW r, NEW q, NEW c, Parts(S, w, h, r, q, c)
  PROVE  /\ LogOf(w, r, q, c \o h) = LogOf(w, r, q, c) \o h
         /\ LogOf(w, r, q \o c, h) = LogOf(w, r, q, c) \o h
<1>0. w \in Seq(S) /\ h \in Seq(S) /\ r \in Seq(S) /\ q \in Seq(S) /\ c \in Seq(S) BY DEF Parts
<1>1. r \o q \in Seq(S) BY <1>0, ConcatProperties
<1>2. (r \o q) \o c \in Seq(S) BY <1>0, <1>1, ConcatProperties
<1>3. Three(S, r, q, c) BY <1>0 DEF Three
<1>4. (r \o q) \o c = r \o (q \o c) BY <1>3, Associative
<1>5. Three(S, r \o q, c, h) BY <1>0, <1>1 DEF Three
<1>6. ((r \o q) \o c) \o h = (r \o q) \o (c \o h) BY <1>5, Associative
<1>7. Three(S, w, (r \o q) \o c, h) BY <1>0, <1>2 DEF Three
<1>8. (w \o ((r \o q) \o c)) \o h = w \o (((r \o q) \o c) \o h)
  <2> DEFINE x == (r \o q) \o c
  <2> HIDE DEF x
  <2>1. Three(S, w, x, h) BY <1>7 DEF x
  <2>2. (w \o x) \o h = w \o (x \o h) BY <2>1, Associative
  <2> QED BY <2>2 DEF x
<1>9. w \o ((r \o q) \o (c \o h)) = (w \o ((r \o q) \o c)) \o h BY <1>6, <1>8
<1>10. (r \o (q \o c)) \o h = ((r \o q) \o c) \o h BY <1>4
<1> QED BY <1>8, <1>9, <1>10 DEF LogOf

-----------------------------------------------------------------------------
(* LogFile *)

\* The period a second belongs to has begun.
LEMMA StartOfFacts ==
  ASSUME NEW sec \in Seconds
  PROVE  StartOf(sec) \in 0..MaxSec
<1>1. sec \in Nat /\ sec <= MaxSec /\ MaxSec \in Nat /\ Period \in Nat \ {0}
  BY BoundsAssumption DEF Seconds
<1>2. (sec \div Period) \in Nat /\ (sec \div Period) * Period <= sec BY <1>1
<1>3. (sec \div Period) * Period \in Nat BY <1>1, <1>2
<1> QED BY <1>1, <1>2, <1>3 DEF StartOf

\* append_unlocked writes to the end of the last file, as much as fwrite lets it.
LEMMA AppendUnlockedFacts ==
  ASSUME TypeOK, FileInv, FilesInOrder, pc # "unstarted", NEW lines \in LogLines,
         NEW n \in 0..Len(lines), AppendUnlocked(lines, n)
  PROVE  /\ written' = written \o SubSeq(lines, 1, n) /\ written' \in LogLines
         /\ files' \in [Seconds -> LogLines]
         /\ file' \in Seconds
         /\ count' \in 0..(CheckEveryN - 1) /\ writtenBytes' \in Nat /\ startOfPeriod' \in 0..MaxSec
         /\ \A s \in Seconds : s > file' => files'[s] = << >>
         /\ FilesInOrder'
<1> DEFINE size == IF n = Len(lines) THEN writtenBytes + n ELSE writtenBytes
           arrived == SubSeq(lines, 1, n)
<1>0. arrived \in LogLines /\ n \in Nat
  <2> DEFINE S == 0..MaxLines
  <2>1. lines \in Seq(S) /\ Len(lines) \in Nat BY DEF LogLines
  <2> HIDE DEF S
  <2>2. SubSeq(lines, 1, n) \in Seq(S) BY <2>1, CutSeq
  <2> QED BY <2>1, <2>2 DEF LogLines, S
<1>1. /\ written' = written \o arrived
      /\ files' = [files EXCEPT ![file] = @ \o arrived]
      /\ count' = IF size > RollSize THEN count ELSE (count + 1) % CheckEveryN
      /\ \/ clock > file /\ file' = clock /\ startOfPeriod' = StartOf(clock) /\ writtenBytes' = 0
         \/ writtenBytes' = size /\ UNCHANGED <<file, startOfPeriod>>
  BY DEF AppendUnlocked, RollFile
<1> HIDE DEF arrived
<1>2. /\ files \in [Seconds -> LogLines] /\ written \in LogLines /\ file \in Seconds
      /\ count \in 0..(CheckEveryN - 1) /\ writtenBytes \in Nat /\ startOfPeriod \in 0..MaxSec
      /\ clock \in Seconds
  BY DEF TypeOK, FileInv
<1>3. Seconds = 1..MaxSec /\ MaxSec \in Nat /\ CheckEveryN \in Nat \ {0}
  BY BoundsAssumption DEF Seconds
<1>4. \A s, t \in LogLines : s \o t \in LogLines BY ConcatProperties DEF LogLines
<1>5. written' \in LogLines BY <1>0, <1>1, <1>2, <1>4
<1>6. files[file] \o arrived \in LogLines BY <1>0, <1>2, <1>4
<1>7. files' \in [Seconds -> LogLines] BY <1>1, <1>2, <1>6
<1>8. file' \in Seconds /\ (file' = file \/ file' > file) BY <1>1, <1>2, <1>3
<1>9. size \in Nat BY <1>0, <1>2
<1> HIDE DEF size
<1>10. count' \in 0..(CheckEveryN - 1)
  <2>1. (count + 1) % CheckEveryN \in 0..(CheckEveryN - 1) BY <1>2, <1>3
  <2> QED BY <1>1, <1>2, <2>1
<1>11. writtenBytes' \in Nat /\ startOfPeriod' \in 0..MaxSec
  BY <1>1, <1>2, <1>9, StartOfFacts
<1>12. ASSUME NEW s \in Seconds, s > file' PROVE files'[s] = << >>
  <2>1. s > file /\ s # file BY <1>2, <1>3, <1>8, <1>12
  <2>2. files'[s] = files[s] BY <1>1, <1>2, <2>1
  <2> QED BY <2>1, <2>2 DEF FileInv
<1>13. FilesInOrder'
  <2>1. files \in Seq(LogLines) /\ Len(files) = MaxSec BY <1>2, <1>3
  <2>2. file \in 1..Len(files) BY <1>2, <1>3, <2>1
  <2>3. NothingBehind(files, file) BY <1>3, <2>1 DEF FileInv, NothingBehind
  <2> DEFINE S == 0..MaxLines
  <2>4. files \in Seq(Seq(S)) /\ arrived \in Seq(S) BY <1>0, <2>1 DEF LogLines
  <2> HIDE DEF S
  <2>5. FlattenSeq(Extended(files, file, arrived)) = FlattenSeq(files) \o arrived
    BY <2>2, <2>3, <2>4, FlattenExtend
  <2>6. files' = Extended(files, file, arrived) BY <1>1 DEF Extended
  <2>7. FlattenSeq(files') = written' BY <1>1, <2>5, <2>6 DEF FilesInOrder
  <2> QED BY <2>7 DEF FilesInOrder
<1> QED BY <1>1, <1>5, <1>7, <1>8, <1>10, <1>11, <1>12, <1>13 DEF arrived

-----------------------------------------------------------------------------
(* The steps *)

\* A moved-from pointer is no buffer.
LEMMA NullFacts == Empty # Null /\ Empty = << >> /\ << >> \in Buffer
<1>1. Len(Null) = 1 /\ Len(Empty) = 0 BY DEF Null, Empty
<1> QED BY <1>1 DEF Empty, Buffer

\* The lines that are left to write, at the ends of a round.
LEMMA RoundFacts ==
  ASSUME TypeOK
  PROVE  /\ done = 0 => ToWrite = FlattenSeq(buffersToWrite)
         /\ buffersToWrite = << >> => ToWrite = << >>
         /\ done = Len(buffersToWrite) => ToWrite = << >>
<1> DEFINE b == buffersToWrite
           n == Len(b)
<1>1. b \in Seq(Buffer) /\ done \in 0..n BY DEF TypeOK
<1>2. n \in Nat BY <1>1
<1>3. SubSeq(b, done + 1, n) \in Seq(Buffer) /\ Len(SubSeq(b, done + 1, n)) = n - done
      /\ \A i \in 1..n - done : SubSeq(b, done + 1, n)[i] = b[done + i]
  BY <1>1, CutSeq
<1> DEFINE d == SubSeq(b, done + 1, n)
<1>4. ToWrite = FlattenSeq(d) BY DEF ToWrite
<1>5. d \in Seq(Buffer) /\ Len(d) = n - done /\ \A i \in 1..n - done : d[i] = b[done + i]
  BY <1>3
<1> HIDE DEF b, d, n
<1>6. ASSUME done = 0 PROVE d = b
  <2>1. Len(d) = Len(b) /\ Len(b) = n BY <1>2, <1>5, <1>6 DEF n
  <2>2. \A i \in 1..Len(d) : d[i] = b[i] BY <1>2, <1>5, <1>6, <2>1
  <2> QED BY <1>1, <1>5, <2>1, <2>2, SeqEqual
<1>7. ASSUME done = n PROVE d = << >>
  <2>1. Len(d) = 0 BY <1>2, <1>5, <1>7
  <2> QED BY <1>5, <2>1, EmptySeq
<1>8. b = << >> => n = 0 /\ done = n BY <1>1 DEF n
<1>9. FlattenSeq(<< >>) = << >> BY FlattenShort
<1> QED BY <1>4, <1>6, <1>7, <1>8, <1>9 DEF b, n

\* What a step has to show of the log.
LEMMA LogKept ==
  ASSUME EachLineOnce, Log' = Log, appended' = appended, dropped' = dropped
  PROVE  EachLineOnce'
<1>1. OnceInOrder(Log, appended, dropped) BY LogIsLog
<1>2. OnceInOrder(Log', appended', dropped') BY <1>1
<1> QED BY <1>2 DEF EachLineOnce, OnceInOrder, Ascending, Log, LogOf, InMemory, ToWrite, Waiting

\* The first state.
LEMMA LoggerInit == Init => LoggerInv
<1> SUFFICES ASSUME Init PROVE LoggerInv OBVIOUS
<1> USE NullFacts, BoundsAssumption
<1>1. TypeOK
  <2>1. << >> \in LogLines /\ << >> \in Seq(Buffer) BY DEF LogLines
  <2>2. files \in [Seconds -> LogLines] BY <2>1 DEF Init
  <2>3. done \in 0..Len(buffersToWrite) BY DEF Init
  <2>4. /\ file \in 0..MaxSec /\ count \in 0..(CheckEveryN - 1) /\ writtenBytes \in Nat
        /\ startOfPeriod \in 0..MaxSec /\ appended \in 0..MaxLines /\ dropped \subseteq 1..MaxLines
    BY DEF Init
  <2>5. /\ currentBuffer \in Buffer /\ nextBuffer \in {Empty, Null} /\ newBuffer1 \in {Empty, Null}
        /\ newBuffer2 \in {Empty, Null} /\ buffers \in Seq(Buffer) /\ buffersToWrite \in Seq(Buffer)
        /\ written \in LogLines
    BY <2>1 DEF Init
  <2> QED BY <2>2, <2>3, <2>4, <2>5 DEF Init, TypeOK
<1>2. SpareBuffers /\ RoundInv /\ FileInv /\ DropInv
  BY DEF Init, SpareBuffers, RoundInv, FileInv, DropInv, Seconds
<1>3. EachLineOnce
  <2>1. ToWrite = << >> /\ Waiting = << >> BY <1>1, RoundFacts, FlattenShort DEF Init, Waiting
  <2>2. << >> \in Seq(Nat) OBVIOUS
  <2>3. << >> \o << >> = << >> BY <2>2, ConcatEmptySeq
  <2>4. Log = << >> BY <2>1, <2>3 DEF Log, LogOf, Init
  <2>5. OnceInOrder(<< >>, 0, {}) BY DEF OnceInOrder, Ascending, ToSet
  <2>6. OnceInOrder(Log, appended, dropped) BY <2>4, <2>5 DEF Init
  <2> QED BY <2>6, LogIsLog
<1>4. FilesInOrder
  <2> DEFINE S == 0..MaxLines
  <2>1. files \in [1..MaxSec -> Seq(S)] BY <1>1 DEF TypeOK, LogLines, Seconds
  <2>2. \A i \in 1..MaxSec : files[i] = << >> BY DEF Init, Seconds
  <2> HIDE DEF S
  <2>3. files \in Seq(Seq(S)) /\ Len(files) = MaxSec BY <2>1
  <2>4. FlattenSeq(files) = << >> BY <2>2, <2>3, FlattenEmpty
  <2> QED BY <2>4 DEF FilesInOrder, Init
<1> QED BY <1>1, <1>2, <1>3, <1>4 DEF LoggerInv

\* append, with or without another buffer.
LEMMA AppendLineStep == LoggerInv /\ AppendLine => LoggerInv'
<1> SUFFICES ASSUME LoggerInv, AppendLine PROVE LoggerInv' OBVIOUS
<1>1. TypeOK /\ SpareBuffers /\ RoundInv /\ FileInv /\ DropInv /\ EachLineOnce /\ FilesInOrder
  BY DEF LoggerInv
<1>2. /\ appended < MaxLines /\ appended' = appended + 1
      /\ UNCHANGED <<running, pc, newBuffer1, newBuffer2, buffersToWrite, done, clock, spc, dropped,
                     files, file, count, writtenBytes, startOfPeriod, written>>
  BY DEF AppendLine, fileVars
<1>3. appended \in 0..MaxLines /\ MaxLines \in Nat /\ currentBuffer \in Buffer
      /\ buffers \in Seq(Buffer) /\ nextBuffer \in {Empty, Null}
  BY <1>1, BoundsAssumption DEF TypeOK
<1> DEFINE n == appended + 1
           h == <<n>>
<1>4. n \in 1..MaxLines BY <1>2, <1>3
<1>5. h \in Seq(Nat) /\ h \in Buffer BY <1>4 DEF Buffer
<1>6. /\ currentBuffer' \in Buffer /\ buffers' \in Seq(Buffer) /\ nextBuffer' \in {Empty, Null}
      /\ notified' \in BOOLEAN
      /\ nextBuffer' = Null => buffers' # << >>
      /\ Log' = Log \o h
  <2>1. /\ ToWrite \in Seq(Nat) /\ Waiting \in Seq(Nat) /\ currentBuffer \in Seq(Nat)
        /\ written \in Seq(Nat) /\ Waiting \in Buffer
    BY <1>1, PartsTyped
  <2>2. ToWrite' = ToWrite /\ written' = written BY <1>2 DEF ToWrite
  <2>3. CASE Len(currentBuffer) < Capacity
    <3>1. currentBuffer' = Append(currentBuffer, n) /\ UNCHANGED <<nextBuffer, buffers, notified>>
      BY <1>2, <1>3, <2>3, BoundsAssumption DEF AppendLine, Buffer
    <3>2. Append(currentBuffer, n) \in Buffer BY <1>3, <1>4 DEF Buffer
    <3>3. currentBuffer' = currentBuffer \o h BY <2>1, <3>1, AppendIsConcat
    <3>4. Log' = LogOf(written, ToWrite, Waiting, currentBuffer \o h)
      BY <2>2, <3>1, <3>3 DEF Log, Waiting
    <3>5. LogOf(written, ToWrite, Waiting, currentBuffer \o h) = Log \o h
      <4> HIDE DEF h
      <4>1. Parts(Nat, written, h, ToWrite, Waiting, currentBuffer) BY <1>5, <2>1 DEF Parts
      <4> QED BY <4>1, LogAppended DEF Log
    <3> QED BY <1>1, <1>3, <3>1, <3>2, <3>4, <3>5 DEF TypeOK, RoundInv
  <2>4. CASE ~(Len(currentBuffer) < Capacity)
    <3>1. /\ buffers' = Append(buffers, currentBuffer)
          /\ currentBuffer' = Append(FreshBuffer, n)
          /\ nextBuffer' = Null
          /\ notified' = (pc = "wait")
      BY <1>2, <2>4 DEF AppendLine, Notify
    <3>2. FreshBuffer = << >> BY <1>3, NullFacts DEF FreshBuffer
    <3>3. currentBuffer' = h BY <3>1, <3>2
    <3>4. buffers' \in Seq(Buffer) /\ buffers' # << >> BY <1>3, <3>1
    <3>5. Waiting' = Waiting \o currentBuffer
      <4>1. FlattenSeq(Append(buffers, currentBuffer)) = FlattenSeq(buffers) \o currentBuffer
        BY <1>3, FlattenAppend DEF Buffer
      <4> QED BY <3>1, <4>1 DEF Waiting
    <3>6. Log' = LogOf(written, ToWrite, Waiting \o currentBuffer, h)
      BY <2>2, <3>3, <3>5 DEF Log
    <3>7. LogOf(written, ToWrite, Waiting \o currentBuffer, h) = Log \o h
      <4> HIDE DEF h
      <4>1. Parts(Nat, written, h, ToWrite, Waiting, currentBuffer) BY <1>5, <2>1 DEF Parts
      <4> QED BY <4>1, LogAppended DEF Log
    <3> QED BY <1>5, <3>1, <3>3, <3>4, <3>6, <3>7
  <2> QED BY <2>3, <2>4
<1>7. EachLineOnce'
  <2>1. OnceInOrder(Log, appended, dropped) BY <1>1, LogIsLog
  <2>2. Log \in Seq(Nat)
    <3>1. ToWrite \in Seq(Nat) /\ Waiting \in Seq(Nat) /\ currentBuffer \in Seq(Nat)
          /\ written \in Seq(Nat)
      BY <1>1, PartsTyped
    <3>2. ToWrite \o Waiting \in Seq(Nat) BY <3>1, ConcatProperties
    <3>3. (ToWrite \o Waiting) \o currentBuffer \in Seq(Nat) BY <3>1, <3>2, ConcatProperties
    <3>4. written \o ((ToWrite \o Waiting) \o currentBuffer) \in Seq(Nat)
      BY <3>1, <3>3, ConcatProperties
    <3> QED BY <3>4 DEF Log, LogOf
  <2>3. dropped \subseteq 1..appended /\ appended \in Nat BY <1>1, <1>3 DEF DropInv
  <2>4. OnceInOrder(Log \o <<appended + 1>>, appended + 1, dropped) BY <2>1, <2>2, <2>3, OneMoreLine
  <2>5. OnceInOrder(Log', appended', dropped') BY <1>2, <1>6, <2>4
  <2> QED BY <2>5 DEF EachLineOnce, OnceInOrder, Ascending, Log, LogOf, InMemory, ToWrite, Waiting
<1>8. TypeOK' BY <1>1, <1>2, <1>3, <1>4, <1>6 DEF TypeOK
<1>9. SpareBuffers' /\ RoundInv' /\ FileInv' /\ FilesInOrder'
  BY <1>1, <1>2, <1>6 DEF SpareBuffers, RoundInv, FileInv, FilesInOrder
<1>10. DropInv' BY <1>1, <1>2, <1>3 DEF DropInv
<1> QED BY <1>7, <1>8, <1>9, <1>10 DEF LoggerInv

\* The second half of the critical section, with something swapped or not.
LEMMA SwapStep == LoggerInv /\ (SwapAtOnce \/ Wake) => LoggerInv'
<1> SUFFICES ASSUME LoggerInv, Swap, pc \in {"lock", "wait"} PROVE LoggerInv'
  BY DEF SwapAtOnce, Wake
<1>1. TypeOK /\ SpareBuffers /\ RoundInv /\ FileInv /\ DropInv /\ EachLineOnce /\ FilesInOrder
  BY DEF LoggerInv
<1>2. /\ buffersToWrite' = Append(buffers, currentBuffer)
      /\ buffers' = << >> /\ currentBuffer' = newBuffer1 /\ newBuffer1' = Null
      /\ IF nextBuffer = Null THEN nextBuffer' = newBuffer2 /\ newBuffer2' = Null
                              ELSE UNCHANGED <<nextBuffer, newBuffer2>>
      /\ pc' = IF Len(buffersToWrite') > DropLimit THEN "drop" ELSE "write"
      /\ notified' = FALSE
      /\ UNCHANGED <<running, done, clock, spc, appended, dropped,
                     files, file, count, writtenBytes, startOfPeriod, written>>
  BY DEF Swap, SwappedOut, fileVars
<1>3. /\ newBuffer1 = << >> /\ newBuffer2 = << >> /\ buffersToWrite = << >> /\ done = 0
      /\ nextBuffer = Null => buffers # << >>
      /\ Null # << >>
  BY <1>1, NullFacts DEF SpareBuffers, RoundInv
<1>4. currentBuffer \in Buffer /\ buffers \in Seq(Buffer) /\ nextBuffer \in {Empty, Null}
  BY <1>1 DEF TypeOK
<1>5. /\ buffersToWrite' \in Seq(Buffer) /\ Len(buffersToWrite') = Len(buffers) + 1
      /\ Len(buffers) \in Nat /\ (buffers # << >> => Len(buffers) >= 1)
  BY <1>2, <1>4
<1>6. nextBuffer' = << >> /\ newBuffer2' \in {Empty, Null}
      /\ (newBuffer2' = Null => buffers # << >>)
  BY <1>2, <1>3, <1>4, NullFacts
<1>7. TypeOK'
  <2>1. done' \in 0..Len(buffersToWrite') BY <1>2, <1>3, <1>5
  <2>2. currentBuffer' \in Buffer /\ buffers' \in Seq(Buffer) /\ nextBuffer' \in {Empty, Null}
        /\ newBuffer1' \in {Empty, Null}
    BY <1>2, <1>3, <1>6, NullFacts
  <2>3. pc' \in {"drop", "write"} /\ notified' \in BOOLEAN BY <1>2
  <2> QED BY <1>1, <1>2, <1>5, <1>6, <2>1, <2>2, <2>3 DEF TypeOK
<1>8. SpareBuffers'
  <2>1. Len(buffersToWrite') >= IF newBuffer2' = Null THEN 2 ELSE 1 BY <1>5, <1>6
  <2> QED BY <1>2, <2>1 DEF SpareBuffers
<1>9. RoundInv'
  <2>1. spc' # "idle" /\ pc' # "unstarted" BY <1>1, <1>2 DEF RoundInv
  <2> QED BY <1>2, <1>3, <1>6, <2>1 DEF RoundInv
<1>10. FileInv' /\ DropInv' /\ FilesInOrder'
  BY <1>1, <1>2 DEF FileInv, DropInv, FilesInOrder
<1>11. Log' = Log
  <2>1. Waiting \in Seq(Nat) /\ currentBuffer \in Seq(Nat) /\ written \in Seq(Nat)
    BY <1>1, PartsTyped
  <2>2. ToWrite = << >> BY <1>1, <1>3, RoundFacts
  <2>3. ToWrite' = FlattenSeq(buffersToWrite')
    <3>1. SubSeq(buffersToWrite', 1, Len(buffersToWrite')) = buffersToWrite'
      <4> DEFINE b == buffersToWrite'
                 d == SubSeq(b, 1, Len(b))
      <4>1. b \in Seq(Buffer) BY <1>5
      <4> HIDE DEF b
      <4>2. d \in Seq(Buffer) /\ Len(d) = Len(b) /\ \A i \in 1..Len(b) : d[i] = b[i] BY <4>1
      <4> HIDE DEF d
      <4>3. d = b BY <4>1, <4>2, SeqEqual
      <4> QED BY <4>3 DEF b, d
    <3>2. done' + 1 = 1 BY <1>2, <1>3
    <3> QED BY <3>1, <3>2 DEF ToWrite
  <2>4. FlattenSeq(Append(buffers, currentBuffer)) = Waiting \o currentBuffer
    BY <1>4, FlattenAppend DEF Buffer, Waiting
  <2>5. Waiting' = << >> BY <1>2, FlattenShort DEF Waiting
  <2>6. Log' = LogOf(written, Waiting \o currentBuffer, << >>, << >>)
    BY <1>2, <1>3, <2>3, <2>4, <2>5 DEF Log
  <2>7. Log = LogOf(written, << >>, Waiting, currentBuffer) BY <2>2 DEF Log
  <2> QED BY <2>1, <2>6, <2>7, LogSwapped
<1>12. EachLineOnce' BY <1>1, <1>2, <1>11, LogKept
<1> QED BY <1>7, <1>8, <1>9, <1>10, <1>12 DEF LoggerInv

\* A sequence from k on: the element k and the rest.
LEMMA HeadCut ==
  ASSUME NEW T, NEW ss \in Seq(T), NEW k \in Nat, k < Len(ss)
  PROVE  /\ SubSeq(ss, (k + 1) + 1, Len(ss)) \in Seq(T) /\ ss[k + 1] \in T
         /\ SubSeq(ss, k + 1, Len(ss)) = <<ss[k + 1]>> \o SubSeq(ss, (k + 1) + 1, Len(ss))
<1> DEFINE n == Len(ss)
           r == SubSeq(ss, (k + 1) + 1, n)
           d == SubSeq(ss, k + 1, n)
           h == <<ss[k + 1]>>
<1>1. n \in Nat /\ k \in 0..n /\ k + 1 \in 0..n /\ k + 1 \in 1..n OBVIOUS
<1>2. ss[k + 1] \in T BY <1>1
<1>3. d \in Seq(T) /\ Len(d) = n - k /\ \A i \in 1..n - k : d[i] = ss[k + i] BY <1>1, CutSeq
<1>4. r \in Seq(T) /\ Len(r) = n - (k + 1) /\ \A i \in 1..n - (k + 1) : r[i] = ss[(k + 1) + i]
  BY <1>1, CutSeq
<1>5. h \in Seq(T) /\ Len(h) = 1 /\ h[1] = ss[k + 1] BY <1>2
<1> HIDE DEF d, r, h, n
<1>6. h \o r \in Seq(T) /\ Len(h \o r) = Len(h) + Len(r)
      /\ \A i \in 1..Len(h) + Len(r) : (h \o r)[i] = IF i <= Len(h) THEN h[i] ELSE r[i - Len(h)]
  <2>1. h \in Seq(T) /\ r \in Seq(T) BY <1>4, <1>5
  <2> QED BY <2>1, ConcatProperties
<1>7. Len(h \o r) = Len(d) BY <1>1, <1>3, <1>4, <1>5, <1>6
<1>8. ASSUME NEW i \in 1..Len(d) PROVE (h \o r)[i] = d[i]
  <2>1. i \in 1..n - k /\ i \in Nat BY <1>1, <1>3
  <2>2. (h \o r)[i] = IF i <= 1 THEN h[i] ELSE r[i - 1] BY <1>1, <1>4, <1>5, <1>6, <2>1
  <2>3. CASE i = 1 BY <1>3, <1>5, <2>1, <2>2, <2>3
  <2>4. CASE i # 1
    <3>1. i - 1 \in 1..n - (k + 1) /\ (k + 1) + (i - 1) = k + i BY <1>1, <2>1, <2>4
    <3>2. ~(i <= 1) BY <2>1, <2>4
    <3>3. r[i - 1] = ss[(k + 1) + (i - 1)] BY <1>4, <3>1
    <3>4. d[i] = ss[k + i] BY <1>3, <2>1
    <3> QED BY <2>2, <3>1, <3>2, <3>3, <3>4
  <2> QED BY <2>3, <2>4
<1>9. d = h \o r BY <1>3, <1>6, <1>7, <1>8, SeqEqual
<1> QED BY <1>2, <1>4, <1>9 DEF d, r, h, n

\* A line of a buffer that waits to be written has been appended.
LEMMA ToWriteAppended ==
  ASSUME TypeOK, EachLineOnce
  PROVE  ToSet(ToWrite) \subseteq 1..appended
<1>1. /\ ToWrite \in Seq(Nat) /\ Waiting \in Seq(Nat) /\ currentBuffer \in Seq(Nat)
      /\ written \in Seq(Nat) /\ ToWrite \in Buffer
  BY PartsTyped
<1>3. ToWrite \o Waiting \in Seq(Nat) BY <1>1, ConcatProperties
<1>4. (ToWrite \o Waiting) \o currentBuffer \in Seq(Nat) BY <1>1, <1>3, ConcatProperties
<1>5. ToSet(ToWrite) \subseteq ToSet(ToWrite \o Waiting) BY <1>1, ToSetConcat
<1>6. ToSet(ToWrite \o Waiting) \subseteq ToSet((ToWrite \o Waiting) \o currentBuffer)
  <2> DEFINE u == ToWrite \o Waiting
  <2>1. u \in Seq(Nat) BY <1>3
  <2> HIDE DEF u
  <2>2. ToSet(u \o currentBuffer) = ToSet(u) \union ToSet(currentBuffer) BY <1>1, <2>1, ToSetConcat
  <2> QED BY <2>2 DEF u
<1>7. ToSet((ToWrite \o Waiting) \o currentBuffer) \subseteq ToSet(Log)
  <2> DEFINE m == (ToWrite \o Waiting) \o currentBuffer
  <2>1. m \in Seq(Nat) BY <1>4
  <2> HIDE DEF m
  <2>2. ToSet(written \o m) = ToSet(written) \union ToSet(m) BY <1>1, <2>1, ToSetConcat
  <2> QED BY <2>2 DEF m, Log, LogOf
<1>8. ToSet(Log) \ {0} \subseteq 1..appended BY LogIsLog DEF OnceInOrder, Notice
<1>9. 0 \notin ToSet(ToWrite)
  <2>1. ToWrite \in Seq(1..MaxLines) BY <1>1 DEF Buffer
  <2>2. ASSUME NEW i \in DOMAIN ToWrite PROVE ToWrite[i] \in 1..MaxLines
    <3>1. DOMAIN ToWrite = 1..Len(ToWrite) BY <2>1
    <3>2. i \in 1..Len(ToWrite) BY <3>1
    <3> QED BY <2>1, <3>2, ElementOfSeq
  <2>3. \A i \in DOMAIN ToWrite : ToWrite[i] # 0 BY <2>2
  <2> QED BY <2>3 DEF ToSet
<1> QED BY <1>5, <1>6, <1>7, <1>8, <1>9

\* The next buffer goes to the file, or the first lines of it.
LEMMA WriteStep == LoggerInv /\ Write => LoggerInv'
<1> SUFFICES ASSUME LoggerInv, Write PROVE LoggerInv' OBVIOUS
<1>1. TypeOK /\ SpareBuffers /\ RoundInv /\ FileInv /\ DropInv /\ EachLineOnce /\ FilesInOrder
  BY DEF LoggerInv
<1>2. /\ pc = "write" /\ done < Len(buffersToWrite)
      /\ done' = done + 1
      /\ UNCHANGED <<running, currentBuffer, nextBuffer, buffers, pc, notified, newBuffer1,
                     newBuffer2, buffersToWrite, clock, spc, appended>>
  BY DEF Write
<1>3. buffersToWrite \in Seq(Buffer) /\ done \in 0..Len(buffersToWrite) BY <1>1 DEF TypeOK
<1> DEFINE h == buffersToWrite[done + 1]
           rest == SubSeq(buffersToWrite, (done + 1) + 1, Len(buffersToWrite))
           r == FlattenSeq(rest)
<1>4. /\ done \in Nat /\ Len(buffersToWrite) \in Nat BY <1>3
<1>5. /\ h \in Buffer /\ rest \in Seq(Buffer)
      /\ SubSeq(buffersToWrite, done + 1, Len(buffersToWrite)) = <<h>> \o rest
  BY <1>2, <1>3, <1>4, HeadCut
<1>6. h \in LogLines /\ h \in Seq(Nat)
  <2> HIDE DEF h
  <2> QED BY <1>5, BoundsAssumption DEF Buffer, LogLines
<1>7. PICK n \in 0..Len(h) :
        /\ AppendUnlocked(h, n)
        /\ dropped' = dropped \union (ToSet(h) \ ToSet(SubSeq(h, 1, n)))
  BY DEF Write
<1> DEFINE a == SubSeq(h, 1, n)
           b == SubSeq(h, n + 1, Len(h))
<1> HIDE DEF h, rest
<1>8. a \in Seq(Nat) /\ b \in Seq(Nat) /\ h = a \o b BY <1>6, CutSeq
<1>9. /\ written' = written \o a /\ written' \in LogLines
      /\ files' \in [Seconds -> LogLines]
      /\ file' \in Seconds
      /\ count' \in 0..(CheckEveryN - 1) /\ writtenBytes' \in Nat /\ startOfPeriod' \in 0..MaxSec
      /\ \A s \in Seconds : s > file' => files'[s] = << >>
      /\ FilesInOrder'
  BY <1>1, <1>2, <1>6, <1>7, AppendUnlockedFacts
<1> HIDE DEF a, b
<1>10. r \in Seq(Nat) /\ ToWrite = h \o r /\ ToWrite' = r
  <2>1. /\ <<h>> \in Seq(Seq(1..MaxLines)) /\ h \in Seq(1..MaxLines)
        /\ rest \in Seq(Seq(1..MaxLines)) /\ << >> \in Seq(1..MaxLines)
    BY <1>5 DEF Buffer
  <2>2. r \in Seq(1..MaxLines) BY <2>1, FlattenAppend
  <2>3. FlattenSeq(<<h>> \o rest) = FlattenSeq(<<h>>) \o FlattenSeq(rest) BY <2>1, FlattenConcat
  <2>4. FlattenSeq(<<h>>) = h BY <2>1, FlattenShort
  <2>5. ToWrite = h \o r BY <1>5, <2>3, <2>4 DEF ToWrite
  <2>6. ToWrite' = r BY <1>2 DEF ToWrite, rest
  <2> HIDE DEF r
  <2> QED BY <2>2, <2>5, <2>6, BoundsAssumption
<1> HIDE DEF r
<1>11. dropped' \subseteq 1..appended
  <2>1. ToSet(h) \subseteq ToSet(ToWrite) BY <1>6, <1>10, ToSetConcat
  <2>2. ToSet(h) \subseteq 1..appended BY <1>1, <2>1, ToWriteAppended
  <2> QED BY <1>1, <1>7, <2>2 DEF DropInv
<1>12. OnceInOrder(Log', appended', dropped')
  <2> DEFINE c == (r \o Waiting) \o currentBuffer
  <2>1. /\ Waiting \in Seq(Nat) /\ currentBuffer \in Seq(Nat) /\ written \in Seq(Nat)
        /\ appended \in Nat
    BY <1>1, PartsTyped DEF TypeOK
  <2>2. r \o Waiting \in Seq(Nat) BY <1>10, <2>1, ConcatProperties
  <2>3. c \in Seq(Nat) BY <2>1, <2>2, ConcatProperties
  <2>4. Log = written \o (h \o c)
    <3>1. Three(Nat, h, r, Waiting) /\ Three(Nat, h, r \o Waiting, currentBuffer)
      BY <1>6, <1>10, <2>1, <2>2 DEF Three
    <3>2. (h \o r) \o Waiting = h \o (r \o Waiting) BY <3>1, Associative
    <3>3. (h \o (r \o Waiting)) \o currentBuffer = h \o c BY <3>1, Associative
    <3> QED BY <1>10, <3>2, <3>3 DEF Log, LogOf
  <2>5. Log' = (written \o a) \o c
    BY <1>2, <1>9, <1>10 DEF Log, LogOf, Waiting
  <2> HIDE DEF c
  <2>6. Three(Nat, written, a, c) BY <1>8, <2>1, <2>3 DEF Three
  <2>7. (written \o a) \o c = written \o (a \o c) BY <2>6, Associative
  <2>8. written \o << >> = written BY <2>1, ConcatEmptySeq
  <2>9. OnceInOrder(written \o ((a \o b) \o c), appended, dropped)
    BY <1>1, <1>8, <2>4, LogIsLog
  <2>10. OnceInOrder((written \o << >>) \o (a \o c), appended,
                     dropped \union (ToSet(a \o b) \ ToSet(a)))
    <3>1. Noted(<< >>) BY DEF Noted
    <3> QED BY <1>8, <2>1, <2>3, <2>9, <3>1, LinesGone
  <2>11. dropped' = dropped \union (ToSet(a \o b) \ ToSet(a)) BY <1>7, <1>8 DEF a
  <2> QED BY <1>2, <2>5, <2>7, <2>8, <2>10, <2>11
<1>13. EachLineOnce'
  BY <1>12 DEF EachLineOnce, OnceInOrder, Ascending, Log, LogOf, InMemory, ToWrite, Waiting
<1>14. TypeOK'
  <2>1. done' \in 0..Len(buffersToWrite') BY <1>2, <1>4
  <2>2. file' \in 0..MaxSec BY <1>9 DEF Seconds
  <2>3. dropped' \subseteq 1..MaxLines
    <3>1. appended \in 0..MaxLines BY <1>1 DEF TypeOK
    <3> QED BY <1>11, <3>1, BoundsAssumption
  <2> QED BY <1>1, <1>2, <1>9, <2>1, <2>2, <2>3 DEF TypeOK
<1>15. SpareBuffers' /\ RoundInv' /\ DropInv'
  BY <1>1, <1>2, <1>11 DEF SpareBuffers, RoundInv, DropInv
<1>16. FileInv' BY <1>2, <1>9 DEF FileInv
<1> QED BY <1>9, <1>13, <1>14, <1>15, <1>16 DEF LoggerInv

\* The drop of a backlog.
LEMMA DropStep == LoggerInv /\ Drop => LoggerInv'
<1> SUFFICES ASSUME LoggerInv, Drop PROVE LoggerInv' OBVIOUS
<1>1. TypeOK /\ SpareBuffers /\ RoundInv /\ FileInv /\ DropInv /\ EachLineOnce /\ FilesInOrder
  BY DEF LoggerInv
<1> DEFINE kept == SubSeq(buffersToWrite, 1, 2)
           lost == SubSeq(buffersToWrite, 3, Len(buffersToWrite))
           a == FlattenSeq(kept)
           b == FlattenSeq(lost)
<1>2. /\ pc = "drop" /\ pc' = "write"
      /\ \E n \in 0..1 : AppendUnlocked(<<Notice>>, n)
      /\ buffersToWrite' = kept
      /\ dropped' = dropped \union (ToSet(FlattenSeq(buffersToWrite)) \ ToSet(a))
      /\ UNCHANGED <<running, currentBuffer, nextBuffer, buffers, notified, newBuffer1, newBuffer2,
                     done, clock, spc, appended>>
  BY DEF Drop, KeptOfBacklog
<1>3. /\ buffersToWrite \in Seq(Buffer) /\ done = 0 /\ Len(buffersToWrite) > DropLimit
      /\ newBuffer1 = Null
  BY <1>1, <1>2 DEF TypeOK, RoundInv
<1>4. /\ kept \in Seq(Buffer) /\ Len(kept) = 2 /\ lost \in Seq(Buffer)
      /\ buffersToWrite = kept \o lost
  <2>1. 2 \in 0..Len(buffersToWrite) /\ 2 + 1 = 3 BY <1>3, BoundsAssumption
  <2> QED BY <1>3, <2>1, CutSeq
<1> HIDE DEF kept, lost
<1>5. a \in Seq(Nat) /\ b \in Seq(Nat)
  <2>1. << >> \in Seq(1..MaxLines) OBVIOUS
  <2>2. a \in Buffer /\ b \in Buffer BY <1>4, <2>1, FlattenAppend DEF Buffer
  <2> HIDE DEF a, b
  <2> QED BY <2>2, BoundsAssumption DEF Buffer
<1>6. FlattenSeq(buffersToWrite) = a \o b
  <2>1. FlattenSeq(kept \o lost) = FlattenSeq(kept) \o FlattenSeq(lost)
    BY <1>4, FlattenConcat DEF Buffer
  <2> QED BY <1>4, <2>1
<1>7. <<Notice>> \in LogLines BY BoundsAssumption DEF Notice, LogLines
<1>8. PICK n \in 0..1 : AppendUnlocked(<<Notice>>, n) BY <1>2
<1> DEFINE z == SubSeq(<<Notice>>, 1, n)
<1>9. Noted(z)
  <2> DEFINE one == <<Notice>>
  <2>1. one \in Seq(Nat) /\ Len(one) = 1 BY DEF Notice
  <2>2. n = 0 \/ n = 1 BY <2>1
  <2> HIDE DEF one
  <2>3. z \in Seq(Nat) /\ Len(z) = n /\ \A i \in 1..n : z[i] = one[i]
    <3>1. SubSeq(one, 1, n) \in Seq(Nat) /\ Len(SubSeq(one, 1, n)) = n
          /\ \A i \in 1..n : SubSeq(one, 1, n)[i] = one[i]
      <4>1. n \in 0..Len(one) BY <2>1
      <4> QED BY <2>1, <4>1, CutSeq
    <3> QED BY <3>1 DEF one
  <2> HIDE DEF z
  <2>4. CASE n = 0 BY <2>3, <2>4 DEF Noted
  <2>5. CASE n = 1
    <3>1. z = one BY <2>1, <2>3, <2>5, SeqEqual
    <3> QED BY <3>1 DEF Noted, one
  <2> QED BY <2>2, <2>4, <2>5
<1>10. n \in 0..Len(<<Notice>>)
  <2>1. Len(<<Notice>>) = 1 OBVIOUS
  <2> QED BY <2>1
<1>11. FilesInOrder' BY <1>1, <1>2, <1>7, <1>8, <1>10, AppendUnlockedFacts
<1>12. /\ written' = written \o z /\ written' \in LogLines
      /\ files' \in [Seconds -> LogLines]
      /\ file' \in Seconds
      /\ count' \in 0..(CheckEveryN - 1) /\ writtenBytes' \in Nat /\ startOfPeriod' \in 0..MaxSec
      /\ \A s \in Seconds : s > file' => files'[s] = << >>
  BY <1>1, <1>2, <1>7, <1>8, <1>10, AppendUnlockedFacts
<1> HIDE DEF z
<1>13. ToWrite = a \o b BY <1>1, <1>3, <1>6, RoundFacts
<1>14. ToWrite' = a
  <2>1. SubSeq(kept, 1, 2) = kept
    <3> DEFINE d == SubSeq(kept, 1, 2)
    <3>0. 2 \in 0..Len(kept) BY <1>4
    <3>1. d \in Seq(Buffer) /\ Len(d) = 2 /\ \A i \in 1..2 : d[i] = kept[i]
      <4>1. kept \in Seq(Buffer) BY <1>4
      <4> QED BY <3>0, <4>1, CutSeq
    <3> HIDE DEF d
    <3>2. d = kept BY <1>4, <3>1, SeqEqual
    <3> QED BY <3>2 DEF d
  <2>2. done' + 1 = 1 BY <1>2, <1>3
  <2> QED BY <1>2, <1>4, <2>1, <2>2 DEF ToWrite
<1> HIDE DEF a, b
<1>15. dropped' \subseteq 1..appended
  <2>1. ToSet(a \o b) \subseteq 1..appended BY <1>1, <1>13, ToWriteAppended
  <2> QED BY <1>1, <1>2, <1>6, <2>1 DEF DropInv
<1>16. EachLineOnce'
  <2> DEFINE c == Waiting \o currentBuffer
  <2>1. /\ Waiting \in Seq(Nat) /\ currentBuffer \in Seq(Nat) /\ written \in Seq(Nat)
        /\ appended \in Nat
    BY <1>1, PartsTyped DEF TypeOK
  <2>2. Three(Nat, a, Waiting, currentBuffer) /\ Three(Nat, a \o b, Waiting, currentBuffer)
    <3>1. a \o b \in Seq(Nat) BY <1>5, ConcatProperties
    <3> QED BY <1>5, <2>1, <3>1 DEF Three
  <2>3. c \in Seq(Nat) BY <2>1, ConcatProperties
  <2>4. (a \o Waiting) \o currentBuffer = a \o c BY <2>2, Associative
  <2>5. ((a \o b) \o Waiting) \o currentBuffer = (a \o b) \o c BY <2>2, Associative
  <2>6. Log = written \o ((a \o b) \o c) BY <1>13, <2>5 DEF Log, LogOf
  <2>7. Log' = (written \o z) \o (a \o c)
    BY <1>2, <1>12, <1>14, <2>4 DEF Log, LogOf, Waiting
  <2> HIDE DEF c
  <2>8. OnceInOrder(written \o ((a \o b) \o c), appended, dropped) BY <1>1, <2>6, LogIsLog
  <2>9. OnceInOrder((written \o z) \o (a \o c), appended,
                    dropped \union (ToSet(a \o b) \ ToSet(a)))
    BY <1>5, <1>9, <2>1, <2>3, <2>8, LinesGone
  <2>10. OnceInOrder(Log', appended', dropped') BY <1>2, <1>6, <2>7, <2>9
  <2> QED BY <2>10
      DEF EachLineOnce, OnceInOrder, Ascending, Log, LogOf, InMemory, ToWrite, Waiting
<1>17. TypeOK'
  <2>1. done' \in 0..Len(buffersToWrite') BY <1>2, <1>3, <1>4
  <2>2. file' \in 0..MaxSec BY <1>12 DEF Seconds
  <2>3. dropped' \subseteq 1..MaxLines
    <3>1. appended \in 0..MaxLines BY <1>1 DEF TypeOK
    <3> QED BY <1>15, <3>1, BoundsAssumption
  <2>4. buffersToWrite' \in Seq(Buffer) /\ pc' = "write" BY <1>2, <1>4
  <2> QED BY <1>1, <1>2, <1>12, <2>1, <2>2, <2>3, <2>4 DEF TypeOK
<1>18. SpareBuffers'
  <2>1. Len(buffersToWrite') = 2 BY <1>2, <1>4
  <2> QED BY <1>2, <1>3, <2>1 DEF SpareBuffers
<1>19. RoundInv' /\ DropInv' BY <1>1, <1>2, <1>15 DEF RoundInv, DropInv
<1>20. FileInv'
  <2>1. pc' = "write" BY <1>2
  <2> QED BY <1>12, <2>1 DEF FileInv
<1> QED BY <1>16, <1>17, <1>18, <1>19, <1>20, <1>11 DEF LoggerInv

\* The end of a round: everything is written.
LEMMA RecycleStep == LoggerInv /\ Recycle => LoggerInv'
<1> SUFFICES ASSUME LoggerInv, Recycle PROVE LoggerInv' OBVIOUS
<1>1. TypeOK /\ SpareBuffers /\ RoundInv /\ FileInv /\ DropInv /\ EachLineOnce /\ FilesInOrder
  BY DEF LoggerInv
<1>2. /\ pc = "write" /\ done = Len(buffersToWrite)
      /\ newBuffer1' = IF newBuffer1 = Null THEN Empty ELSE newBuffer1
      /\ newBuffer2' = IF newBuffer2 = Null THEN Empty ELSE newBuffer2
      /\ buffersToWrite' = << >> /\ done' = 0 /\ pc' = "check"
      /\ UNCHANGED <<running, currentBuffer, nextBuffer, buffers, notified, clock, spc, appended,
                     dropped, files, file, count, writtenBytes, startOfPeriod, written>>
  BY DEF Recycle, fileVars
<1>3. newBuffer1' = Empty /\ newBuffer2' = Empty BY <1>1, <1>2 DEF TypeOK
<1>4. TypeOK'
  <2>1. buffersToWrite' \in Seq(Buffer) /\ done' \in 0..Len(buffersToWrite') BY <1>2
  <2> QED BY <1>1, <1>2, <1>3, <2>1 DEF TypeOK
<1>5. SpareBuffers' /\ RoundInv' /\ FileInv' /\ DropInv' /\ FilesInOrder'
  BY <1>1, <1>2, <1>3 DEF SpareBuffers, RoundInv, FileInv, DropInv, FilesInOrder
<1>6. Log' = Log
  <2>1. ToWrite = << >> BY <1>1, <1>2, RoundFacts
  <2>2. ToWrite' = << >>
    <3>1. FlattenSeq(<< >>) = << >> BY FlattenShort
    <3>2. SubSeq(<< >>, 1, 0) = << >> OBVIOUS
    <3>3. done' + 1 = 1 /\ Len(buffersToWrite') = 0 BY <1>2
    <3> QED BY <1>2, <3>1, <3>2, <3>3 DEF ToWrite
  <2> QED BY <1>2, <2>1, <2>2 DEF Log, Waiting
<1>7. EachLineOnce' BY <1>1, <1>2, <1>6, LogKept
<1> QED BY <1>4, <1>5, <1>7 DEF LoggerInv

\* start.
LEMMA StartStep == LoggerInv /\ Start => LoggerInv'
<1> SUFFICES ASSUME LoggerInv, Start PROVE LoggerInv' OBVIOUS
<1>1. TypeOK /\ SpareBuffers /\ RoundInv /\ FileInv /\ DropInv /\ EachLineOnce /\ FilesInOrder
  BY DEF LoggerInv
<1>2. /\ spc = "idle" /\ spc' = "started" /\ running' = TRUE /\ pc' = "check"
      /\ newBuffer1' = Empty /\ newBuffer2' = Empty
      /\ file' = clock /\ startOfPeriod' = StartOf(clock)
      /\ UNCHANGED <<currentBuffer, nextBuffer, buffers, notified, buffersToWrite, done,
                     files, count, writtenBytes, clock, appended, dropped, written>>
  BY DEF Start
<1>3. pc = "unstarted" /\ file = 0 /\ clock \in Seconds /\ buffersToWrite = << >>
  BY <1>1, <1>2 DEF RoundInv, FileInv, TypeOK
<1>4. clock \in 0..MaxSec /\ StartOf(clock) \in 0..MaxSec BY <1>3, StartOfFacts DEF Seconds
<1>5. TypeOK' BY <1>1, <1>2, <1>4 DEF TypeOK
<1>6. SpareBuffers' /\ RoundInv' /\ DropInv' /\ FilesInOrder'
  BY <1>1, <1>2, <1>3 DEF SpareBuffers, RoundInv, DropInv, FilesInOrder
<1>7. FileInv'
  <2>1. \A s \in Seconds : s > 0 BY BoundsAssumption DEF Seconds
  <2>2. \A s \in Seconds : files[s] = << >> BY <1>1, <1>3, <2>1 DEF FileInv
  <2> QED BY <1>2, <1>3, <2>2 DEF FileInv
<1>8. EachLineOnce'
  <2>1. Log' = Log BY <1>2 DEF Log, ToWrite, Waiting
  <2> QED BY <1>1, <1>2, <2>1, LogKept
<1> QED BY <1>5, <1>6, <1>7, <1>8 DEF LoggerInv

\* The steps that move no line.
LEMMA QuietStep ==
  LoggerInv /\ (Check \/ Wait \/ StopSet \/ StopNotify \/ StopJoin \/ Clock \/ UNCHANGED vars)
    => LoggerInv'
<1> SUFFICES ASSUME LoggerInv,
                    Check \/ Wait \/ StopSet \/ StopNotify \/ StopJoin \/ Clock \/ UNCHANGED vars
             PROVE  LoggerInv'
  OBVIOUS
<1>1. TypeOK /\ SpareBuffers /\ RoundInv /\ FileInv /\ DropInv /\ EachLineOnce /\ FilesInOrder
  BY DEF LoggerInv
<1>2. UNCHANGED <<currentBuffer, nextBuffer, buffers, newBuffer1, newBuffer2, buffersToWrite, done,
                  files, file, count, writtenBytes, startOfPeriod, written, appended, dropped>>
  BY DEF Check, Wait, StopSet, StopNotify, StopJoin, Clock, vars, fileVars
<1>3. /\ pc' = pc \/ (pc = "check" /\ pc' \in {"lock", "done"}) \/ (pc = "lock" /\ pc' = "wait")
      /\ spc' = spc \/ (spc # "idle" /\ spc' \in {"notify", "join", "stopped"})
      /\ clock' \in Seconds /\ running' \in BOOLEAN /\ notified' \in BOOLEAN
  BY <1>1 DEF TypeOK, Check, Wait, StopSet, StopNotify, StopJoin, Clock, Notify, vars
<1>4. TypeOK' BY <1>1, <1>2, <1>3 DEF TypeOK
<1>5. SpareBuffers' BY <1>1, <1>2, <1>3 DEF SpareBuffers
<1>6. RoundInv' BY <1>1, <1>2, <1>3 DEF RoundInv, SpareBuffers
<1>7. FileInv' BY <1>1, <1>2, <1>3 DEF FileInv
<1>8. DropInv' /\ FilesInOrder' BY <1>1, <1>2 DEF DropInv, FilesInOrder
<1>9. EachLineOnce'
  <2>1. Log' = Log BY <1>2 DEF Log, ToWrite, Waiting
  <2> QED BY <1>1, <1>2, <2>1, LogKept
<1> QED BY <1>4, <1>5, <1>6, <1>7, <1>8, <1>9 DEF LoggerInv

-----------------------------------------------------------------------------
(* Theorems *)

\* The invariant holds in every state of the logger.
THEOREM LoggerInvariant == Spec => []LoggerInv
<1>1. Init => LoggerInv BY LoggerInit
<1>2. LoggerInv /\ [Next]_vars => LoggerInv'
  BY AppendLineStep, SwapStep, WriteStep, DropStep, RecycleStep, StartStep, QuietStep DEF Next
<1> QED BY <1>1, <1>2, PTL DEF Spec

\* BuffersConsistent: the asserts of threadFunc hold, and no pointer that the
\* code dereferences has been moved from.
THEOREM SpareBuffersAreThere == Spec => []BuffersConsistent
<1>1. LoggerInv => BuffersConsistent BY DEF LoggerInv, BuffersConsistent
<1> QED BY <1>1, LoggerInvariant, PTL

\* LogComplete: every line that append has taken is written, on its way, dropped with
\* a backlog or refused by fwrite, once and in the order of the appends, and the files
\* in the order of their names hold what was written, in that order.
THEOREM EveryLineIsAccountedFor == Spec => []LogComplete
<1>1. LoggerInv => LogComplete BY DEF LoggerInv, LogComplete
<1> QED BY <1>1, LoggerInvariant, PTL

=============================================================================
