-------------------------- MODULE FileUploadProofs --------------------------
(***************************************************************************)
(* Proofs about FileUpload, for every number of sessions, files and        *)
(* uploads, for files of every size, and for both kinds of clients.        *)
(*                                                                         *)
(* That success means stored needs two arguments.  For a client of any     *)
(* kind the byte count never runs ahead of what the stream was given, and  *)
(* a file only one session has open is as long as its stream's position.   *)
(* For an orderly client the packets on their way are consecutive pieces   *)
(* of the file; what the stream was given is its beginning, unless a piece *)
(* was taken for an HTTP request, and then the count never reaches the     *)
(* announced size.                                                         *)
(***************************************************************************)
EXTENDS FileUpload, TLAPS, SequenceTheorems, FiniteSetTheorems, WellFoundedInduction

Tokens == [kind : {"head1", "head2", "plain", "http", "json", "zero"},
           from : Sessions \cup {NoFile}, up : Nat]

Uploads == [name : Names, size : -1 .. IntMax, at : Nat, looks : {"plain", "http", "json"}]

\* The tokens clients that follow sc send.
Sent(sc) == {x \in [kind : {"head1", "head2", "plain", "http", "json"}, from : Sessions, up : Nat] :
               x.up \in DOMAIN sc[x.from]}

Contents == {NoFile} \cup Seq(Tokens)

StreamType == [sess : Sessions, name : Names, pos : Nat, bytes : Seq(Tokens)]

\* The bytes of the i-th upload x of session s: Body, by what it depends on.
BytesOf(x, s, i) ==
  [k \in 1 .. x.size |-> Token(IF k = x.at THEN x.looks ELSE "plain", s, i)]

\* The types of the variables TypeOK does not mention; a file that is open, or that
\* an abandoned stream belongs to, exists.
TypesInv ==
  /\ TypeOK
  /\ orderly \in BOOLEAN
  /\ script \in [Sessions -> Seq(Uploads)]
  /\ inflight \in [Sessions -> Seq(Seq(Sent(script)))]
  /\ buffer \in [Sessions -> Seq(Tokens)]
  /\ disk \in [Names -> Contents]
  /\ kept \in [Names -> Contents]
  /\ rivals \in [Names -> SUBSET Sessions]
  /\ leaked \in SUBSET StreamType
  /\ IsFiniteSet(leaked)

FilesExist ==
  /\ \A s \in Sessions : m_fp[s] # NoFile => disk[m_fp[s]] \in Seq(Tokens)
  /\ \A l \in leaked : disk[l.name] \in Seq(Tokens)

\* A busy client is somewhere in one of its uploads.
ClientInv ==
  \A s \in Sessions : client[s] = "busy" =>
    /\ up[s] \in DOMAIN script[s]
    /\ unsent[s] \in 0 .. Len(BytesOf(script[s][up[s]], s, up[s]))

\* Without a file nothing is counted and nothing buffered.
SessionInv ==
  /\ StateMatchesFile
  /\ \A s \in Sessions : m_fp[s] = NoFile => pos[s] = 0 /\ buffer[s] = << >>

Live(s) == client[s] # "gone"

\* Two sessions that share a file both know.
SharedIsMarked ==
  \A s, t \in Sessions :
    s # t /\ Live(s) /\ Live(t) /\ m_fp[s] # NoFile /\ m_fp[s] = m_fp[t] => overlapped[s]

\* A file only one session has open is as long as that session has written it.
AloneInv ==
  \A s \in Sessions :
    Live(s) /\ m_fp[s] # NoFile /\ ~overlapped[s] => Len(disk[m_fp[s]]) = pos[s]

\* The count does not run ahead of the bytes.
CountInv == \A s \in Sessions : m_offset[s] <= pos[s] + Len(buffer[s])

\* The file was answered with success while nobody else had it open.
Settled(f) == kept[f] # NoFile /\ rivals[f] = {}

\* Nobody who could write to it has such a file open, and it is on disk as it was.
KeptInv ==
  \A f \in Names : Settled(f) =>
    /\ disk[f] = kept[f]
    /\ \A s \in Sessions : Live(s) => m_fp[s] # f

\* The packets q are consecutive pieces of the file b from start on, up to its
\* last u bytes.
InTransit(b, u, q, start) ==
  \E a \in [0 .. Len(q) -> 0 .. Len(b)] :
    /\ a[0] = start
    /\ a[Len(q)] = Len(b) - u
    /\ \A j \in 1 .. Len(q) : a[j - 1] < a[j] /\ q[j] = SubSeq(b, a[j - 1] + 1, a[j])

\* First the head h, then pieces of the file.
HeadInTransit(b, h, u, q) ==
  /\ Len(q) > 0
  /\ q[1] = h
  /\ InTransit(b, u, SubSeq(q, 2, Len(q)), 0)

\* No packet that could be taken for a head.
NoHeads(q) == \A j \in 1 .. Len(q) : Len(q[j]) > 0 /\ q[j][1].kind # "head1"

\* The next piece of the file b starts no earlier than at off, what was counted; if
\* nothing was lost and nobody else writes to the file, its first off bytes are d, which
\* is on disk, and then buf, which is not.
Arriving(b, u, q, off, alone, d, buf) ==
  \E start \in off .. Len(b) :
    /\ InTransit(b, u, q, start)
    /\ start = off /\ alone => d \o buf = SubSeq(b, 1, off)

\* An orderly client and its session.
OrderlyAt(s) ==
  LET b == BytesOf(script[s][up[s]], s, up[s])
  IN  /\ client[s] = "ready" => inflight[s] = << >> /\ m_fp[s] = NoFile
      /\ client[s] = "failed" => NoHeads(inflight[s]) /\ m_fp[s] = NoFile
      /\ client[s] = "busy" /\ m_fp[s] = NoFile =>
           HeadInTransit(b, HeadTokens(s, up[s]), unsent[s], inflight[s])
      /\ client[s] = "busy" /\ m_fp[s] # NoFile =>
           /\ m_filesize[s] = Len(b)
           /\ m_offset[s] = pos[s] + Len(buffer[s])
           /\ Arriving(b, unsent[s], inflight[s], m_offset[s], ~overlapped[s],
                       disk[m_fp[s]], buffer[s])

OrderlyInv == orderly => \A s \in Sessions : OrderlyAt(s)

\* The inductive invariant: before exit() all of it holds, after it what no longer
\* depends on the files.
UploadInv ==
  /\ TypesInv /\ FilesExist /\ SessionInv /\ LeaksOnlyAbandoned /\ StoredCompletely
  /\ StoredIsKept
  /\ ~exited => ClientInv /\ SharedIsMarked /\ AloneInv /\ CountInv /\ KeptInv /\ OrderlyInv

-----------------------------------------------------------------------------
(* Sequences, and what one read returns *)

Three(S, x, y, z) == x \in Seq(S) /\ y \in Seq(S) /\ z \in Seq(S)

\* Concatenation is associative, to be instantiated term by term.
LEMMA Associative ==
  ASSUME NEW S, NEW x, NEW y, NEW z, Three(S, x, y, z)
  PROVE  (x \o y) \o z = x \o (y \o z)
BY ConcatAssociative DEF Three

\* A set of natural numbers that is not empty has a least element.
LEMMA LeastNat ==
  ASSUME NEW T, T \subseteq Nat, T # {}
  PROVE  \E m \in T : \A n \in T : m <= n
<1>1. IsWellFoundedOn(OpToRel(<, Nat), Nat) BY NatLessThanWellFounded
<1>2. PICK m \in T : \A n \in T : ~(<<n, m>> \in OpToRel(<, Nat)) BY <1>1, WFMin
<1>3. \A n \in T : ~(n < m) BY <1>2 DEF OpToRel
<1>4. \A n \in T : m <= n BY <1>3
<1> QED BY <1>4

\* The recursive function inside FlattenSeq, and its equation.
Flat(ss) ==
  CHOOSE f : f = [i \in 1..Len(ss) |-> IF i = 1 THEN ss[i] ELSE f[i - 1] \o ss[i]]

Flattens(f, ss) == \A i \in 1..Len(ss) : f[i] = IF i = 1 THEN ss[i] ELSE f[i - 1] \o ss[i]

\* There is a function that satisfies the equation.
LEMMA FlattenExists ==
  ASSUME NEW S, NEW ss \in Seq(Seq(S))
  PROVE  \E f \in [1..Len(ss) -> Seq(S)] : Flattens(f, ss)
<1> DEFINE Upto(n) == \E f \in [1..n -> Seq(S)] :
                        \A i \in 1..n : f[i] = IF i = 1 THEN ss[i] ELSE f[i - 1] \o ss[i]
           Bad == {n \in 0..Len(ss) : ~Upto(n)}
<1>1. Upto(0)
  <2>1. [i \in 1..0 |-> << >>] \in [1..0 -> Seq(S)] OBVIOUS
  <2>2. \A f : \A i \in 1..0 : f[i] = IF i = 1 THEN ss[i] ELSE f[i - 1] \o ss[i] OBVIOUS
  <2> QED BY <2>1, <2>2
<1>2. ASSUME NEW n \in 0..Len(ss), n # Len(ss), Upto(n) PROVE Upto(n + 1)
  <2>1. PICK f \in [1..n -> Seq(S)] :
          \A i \in 1..n : f[i] = IF i = 1 THEN ss[i] ELSE f[i - 1] \o ss[i]
    BY <1>2
  <2> DEFINE last == IF n = 0 THEN ss[1] ELSE f[n] \o ss[n + 1]
             g == [i \in 1..n + 1 |-> IF i <= n THEN f[i] ELSE last]
  <2>2. ss[n + 1] \in Seq(S) /\ (n # 0 => f[n] \in Seq(S)) BY <1>2, <2>1
  <2>3. last \in Seq(S) BY <2>2, ConcatProperties
  <2>4. g \in [1..n + 1 -> Seq(S)] BY <2>1, <2>3
  <2>5. ASSUME NEW i \in 1..n + 1
        PROVE  g[i] = IF i = 1 THEN ss[i] ELSE g[i - 1] \o ss[i]
    <3>1. CASE i <= n
      <4>1. g[i] = f[i] /\ (i # 1 => g[i - 1] = f[i - 1]) BY <3>1
      <4>2. i \in 1..n BY <3>1
      <4>3. f[i] = IF i = 1 THEN ss[i] ELSE f[i - 1] \o ss[i] BY <2>1, <4>2
      <4> HIDE DEF g
      <4> QED BY <4>1, <4>3
    <3>2. CASE i = n + 1
      <4>1. g[i] = last BY <3>2
      <4>2. i # 1 => g[i - 1] = f[n] BY <3>2
      <4>3. i = 1 <=> n = 0 BY <3>2
      <4> QED BY <3>2, <4>1, <4>2, <4>3
    <3> QED BY <3>1, <3>2
  <2> HIDE DEF g
  <2> QED BY <2>4, <2>5
<1>3. Bad = {}
  <2> SUFFICES ASSUME Bad # {} PROVE FALSE OBVIOUS
  <2>1. Bad \subseteq Nat OBVIOUS
  <2> HIDE DEF Upto
  <2>2. PICK m \in Bad : \A n \in Bad : m <= n
    <3> HIDE DEF Bad
    <3> QED BY <2>1, LeastNat
  <2>3. m # 0 BY <1>1, <2>2
  <2>4. m - 1 \in 0..Len(ss) /\ m - 1 # Len(ss) BY <2>2, <2>3
  <2>5. m - 1 \notin Bad BY <2>1, <2>2
  <2>6. Upto(m - 1) BY <2>4, <2>5
  <2>7. Upto((m - 1) + 1) BY <1>2, <2>4, <2>6
  <2>8. (m - 1) + 1 = m BY <2>1, <2>2
  <2> QED BY <2>2, <2>7, <2>8
<1>4. Len(ss) \in 0..Len(ss) OBVIOUS
<1>5. Upto(Len(ss))
  <2> HIDE DEF Upto
  <2> QED BY <1>3, <1>4
<1> QED BY <1>5 DEF Flattens

\* So the recursive function does.
LEMMA FlatFacts ==
  ASSUME NEW S, NEW ss \in Seq(Seq(S))
  PROVE  /\ Flat(ss) \in [1..Len(ss) -> Seq(S)]
         /\ Flattens(Flat(ss), ss)
         /\ FlattenSeq(ss) = IF Len(ss) = 0 THEN ss ELSE Flat(ss)[Len(ss)]
<1>1. PICK f \in [1..Len(ss) -> Seq(S)] : Flattens(f, ss) BY FlattenExists
<1>2. f = [i \in 1..Len(ss) |-> IF i = 1 THEN ss[i] ELSE f[i - 1] \o ss[i]]
  BY <1>1 DEF Flattens
<1>3. Flat(ss) = [i \in 1..Len(ss) |-> IF i = 1 THEN ss[i] ELSE Flat(ss)[i - 1] \o ss[i]]
  BY <1>2, Zenon DEF Flat
<1>4. Flattens(Flat(ss), ss) /\ DOMAIN Flat(ss) = 1..Len(ss)
  <2> DEFINE g == Flat(ss)
  <2>1. g = [i \in 1..Len(ss) |-> IF i = 1 THEN ss[i] ELSE g[i - 1] \o ss[i]] BY <1>3
  <2> HIDE DEF g
  <2>2. Flattens(g, ss) /\ DOMAIN g = 1..Len(ss) BY <2>1 DEF Flattens
  <2> QED BY <2>2 DEF g
<1>5. FlattenSeq(ss) = IF Len(ss) = 0 THEN ss ELSE Flat(ss)[Len(ss)]
  BY DEF FlattenSeq, Flat
<1>6. Flat(ss) = f
  <2> DEFINE Bad == {i \in 1..Len(ss) : Flat(ss)[i] # f[i]}
  <2>1. Bad = {}
    <3> SUFFICES ASSUME Bad # {} PROVE FALSE OBVIOUS
    <3>1. Bad \subseteq Nat OBVIOUS
    <3>2. PICK m \in Bad : \A n \in Bad : m <= n
      <4> HIDE DEF Bad
      <4> QED BY <3>1, LeastNat
    <3>3. m \in 1..Len(ss) /\ Flat(ss)[m] # f[m] BY <3>2
    <3>4. m # 1 => Flat(ss)[m - 1] = f[m - 1] BY <3>2, <3>3
    <3> QED BY <1>1, <1>4, <3>3, <3>4 DEF Flattens
  <2>2. \A i \in 1..Len(ss) : Flat(ss)[i] = f[i] BY <2>1
  <2>3. Flat(ss) = [i \in 1..Len(ss) |-> Flat(ss)[i]] BY <1>3, <1>4
  <2>4. f = [i \in 1..Len(ss) |-> f[i]] OBVIOUS
  <2> QED BY <2>2, <2>3, <2>4
<1> QED BY <1>1, <1>4, <1>5, <1>6

\* A read that takes n packets yields a sequence of their tokens, and a read that
\* takes one packet yields that.
LEMMA FlattenFirst ==
  ASSUME NEW S, NEW q \in Seq(Seq(S)), NEW n \in 1 .. Len(q)
  PROVE  /\ FlattenSeq(SubSeq(q, 1, n)) \in Seq(S)
         /\ n = 1 => FlattenSeq(SubSeq(q, 1, n)) = q[1]
<1> DEFINE ss == SubSeq(q, 1, n)
<1>1. ss \in Seq(Seq(S)) /\ Len(ss) = n /\ ss[1] = q[1] OBVIOUS
<1> HIDE DEF ss
<1>2. /\ Flat(ss) \in [1..Len(ss) -> Seq(S)]
      /\ Flattens(Flat(ss), ss)
      /\ FlattenSeq(ss) = IF Len(ss) = 0 THEN ss ELSE Flat(ss)[Len(ss)]
  BY <1>1, FlatFacts
<1>3. FlattenSeq(ss) = Flat(ss)[n] /\ n \in 1..Len(ss) /\ Flat(ss)[n] \in Seq(S) BY <1>1, <1>2
<1>4. n = 1 => Flat(ss)[n] = ss[1] BY <1>2, <1>3 DEF Flattens
<1> QED BY <1>1, <1>3, <1>4 DEF ss

\* m_offset wraps downwards only, and not below INT32_MAX.
LEMMA WrapFacts ==
  ASSUME NEW n \in Int, n >= -(IntMax + 1)
  PROVE  /\ Wrap(n) \in -(IntMax + 1) .. IntMax
         /\ Wrap(n) <= n
         /\ n <= IntMax => Wrap(n) = n
<1> DEFINE k == 2 * (IntMax + 1)
           x == n + IntMax + 1
<1>1. IntMax \in Nat BY LimitsAssumption
<1>2. k \in Nat /\ k > 0 /\ x \in Nat BY <1>1
<1>3. k = 2 * (IntMax + 1) /\ x = n + IntMax + 1 OBVIOUS
<1>4. Wrap(n) = (x % k) - (IntMax + 1) BY DEF Wrap
<1> HIDE DEF k, x
<1>5. x % k \in 0 .. k - 1 BY <1>2
<1>6. x < k => x % k = x BY <1>2
<1>7. x % k <= x BY <1>2, <1>5, <1>6
<1> QED BY <1>1, <1>2, <1>3, <1>4, <1>5, <1>6, <1>7

\* A sequence is what comes before and what comes after a place in it.
LEMMA Split ==
  ASSUME NEW S, NEW x \in Seq(S), NEW m \in 0 .. Len(x)
  PROVE  /\ SubSeq(x, 1, m) \in Seq(S) /\ Len(SubSeq(x, 1, m)) = m
         /\ SubSeq(x, m + 1, Len(x)) \in Seq(S) /\ Len(SubSeq(x, m + 1, Len(x))) = Len(x) - m
         /\ SubSeq(x, 1, m) \o SubSeq(x, m + 1, Len(x)) = x
<1> DEFINE y == SubSeq(x, 1, m)
           z == SubSeq(x, m + 1, Len(x))
<1>1. y \in Seq(S) /\ Len(y) = m /\ \A i \in 1 .. m : y[i] = x[i] OBVIOUS
<1>2. z \in Seq(S) /\ Len(z) = Len(x) - m /\ \A i \in 1 .. Len(x) - m : z[i] = x[m + i] OBVIOUS
<1> HIDE DEF y, z
<1>3. /\ y \o z \in Seq(S) /\ Len(y \o z) = Len(y) + Len(z)
      /\ \A i \in 1 .. Len(y) + Len(z) : (y \o z)[i] = IF i <= Len(y) THEN y[i] ELSE z[i - Len(y)]
  BY <1>1, <1>2, ConcatProperties
<1>4. /\ Len(y \o z) = Len(x) /\ Len(x) \in Nat
      /\ \A i \in 1 .. Len(x) : (y \o z)[i] = x[i]
  <2> DEFINE c == y \o z
  <2> HIDE DEF c
  <2>1. Len(x) \in Nat /\ m \in Nat /\ m <= Len(x) OBVIOUS
  <2>2. Len(c) = Len(x) BY <1>1, <1>2, <1>3, <2>1 DEF c
  <2>3. ASSUME NEW i \in 1 .. Len(x) PROVE c[i] = x[i]
    <3>1. c[i] = IF i <= m THEN y[i] ELSE z[i - m] BY <1>1, <1>2, <1>3, <2>1 DEF c
    <3>2. CASE i <= m
      <4>1. i \in 1 .. m BY <2>1, <3>2
      <4> QED BY <1>1, <3>1, <3>2, <4>1
    <3>3. CASE ~(i <= m)
      <4>1. i - m \in 1 .. Len(x) - m /\ m + (i - m) = i BY <2>1, <3>3
      <4>2. z[i - m] = x[m + (i - m)] BY <1>2, <4>1
      <4> QED BY <3>1, <3>3, <4>1, <4>2
    <3> QED BY <3>2, <3>3
  <2> QED BY <2>1, <2>2, <2>3 DEF c
<1>5. y \o z = x BY <1>3, <1>4, SeqEqual
<1> QED BY <1>1, <1>2, <1>5 DEF y, z

\* Adjacent pieces, the first of which is a beginning.
LEMMA Adjacent ==
  ASSUME NEW S, NEW b \in Seq(S), NEW i \in Nat, NEW j \in Nat, i <= j, j <= Len(b)
  PROVE  /\ SubSeq(b, i + 1, j) \in Seq(S) /\ Len(SubSeq(b, i + 1, j)) = j - i
         /\ SubSeq(b, 1, i) \in Seq(S) /\ SubSeq(b, 1, j) \in Seq(S)
         /\ SubSeq(b, 1, i) \o SubSeq(b, i + 1, j) = SubSeq(b, 1, j)
<1>1. SubSeq(b, i + 1, j) \in Seq(S) /\ Len(SubSeq(b, i + 1, j)) = j - i OBVIOUS
<1>2. SubSeq(b, 1, i) \in Seq(S) /\ SubSeq(b, 1, j) \in Seq(S) OBVIOUS
<1>3. 1 \in 1 .. Len(b) + 1 /\ i \in 1 - 1 .. Len(b) /\ j \in i .. Len(b) OBVIOUS
<1>4. SubSeq(b, 1, i) \o SubSeq(b, i + 1, j) = SubSeq(b, 1, j)
  BY <1>3, ConcatAdjacentSubSeq
<1> QED BY <1>1, <1>2, <1>4

\* What comes first in a concatenation is a prefix of it.
LEMMA PrefixOfConcat ==
  ASSUME NEW S, NEW x \in Seq(S), NEW y \in Seq(S)
  PROVE  IsPrefix(x, x \o y)
<1> DEFINE z == x \o y
<1>1. z \in Seq(S) /\ Len(z) = Len(x) + Len(y) /\ \A i \in 1 .. Len(x) : z[i] = x[i] OBVIOUS
<1> HIDE DEF z
<1>2. SubSeq(x, 1, Len(x)) = x BY SubSeqFull
<1> DEFINE w == SubSeq(z, 1, Len(x))
<1>3. w \in Seq(S) /\ Len(w) = Len(x) /\ \A i \in 1 .. Len(x) : w[i] = z[i] BY <1>1
<1> HIDE DEF w
<1>4. w = x BY <1>1, <1>3, SeqEqual
<1> QED BY <1>1, <1>2, <1>4 DEF IsPrefix, z, w

-----------------------------------------------------------------------------
(* Files *)

\* fwrite at a position: the file stays a file, and is at least as long as what was
\* written reaches.
LEMMA WriteAtFacts ==
  ASSUME NEW file \in Seq(Tokens), NEW p \in Nat, NEW r \in Seq(Tokens)
  PROVE  /\ WriteAt(file, p, r) \in Seq(Tokens)
         /\ r # << >> => Len(WriteAt(file, p, r)) >= p + Len(r)
         /\ r = << >> => WriteAt(file, p, r) = file
<1>1. CASE r = << >> BY <1>1 DEF WriteAt
<1>2. CASE r # << >>
  <2> DEFINE n == IF p + Len(r) > Len(file) THEN p + Len(r) ELSE Len(file)
             w == [k \in 1 .. n |->
                     IF k > p /\ k <= p + Len(r) THEN r[k - p]
                     ELSE IF k <= Len(file) THEN file[k] ELSE Token("zero", NoFile, 0)]
  <2>1. WriteAt(file, p, r) = w BY <1>2 DEF WriteAt
  <2>2. n \in Nat /\ n >= p + Len(r) OBVIOUS
  <2>3. Token("zero", NoFile, 0) \in Tokens BY DEF Token, Tokens
  <2>4. \A k \in 1 .. n : /\ k > p /\ k <= p + Len(r) => r[k - p] \in Tokens
                          /\ k <= Len(file) => file[k] \in Tokens
    OBVIOUS
  <2> HIDE DEF n
  <2>5. \A k \in 1 .. n : w[k] \in Tokens BY <2>3, <2>4
  <2>6. w \in [1 .. n -> Tokens] BY <2>5
  <2> HIDE DEF w
  <2>7. w \in Seq(Tokens) /\ Len(w) = n BY <2>2, <2>6
  <2> QED BY <1>2, <2>1, <2>2, <2>7
<1> QED BY <1>1, <1>2

\* fwrite at the end of the file appends.
LEMMA WriteAtEnd ==
  ASSUME NEW file \in Seq(Tokens), NEW r \in Seq(Tokens)
  PROVE  WriteAt(file, Len(file), r) = file \o r
<1>1. CASE r = << >>
  <2>1. file \o << >> = file BY ConcatEmptySeq
  <2> QED BY <1>1, <2>1 DEF WriteAt
<1>2. CASE r # << >>
  <2> DEFINE n == Len(file) + Len(r)
             w == [k \in 1 .. n |->
                     IF k > Len(file) /\ k <= Len(file) + Len(r) THEN r[k - Len(file)]
                     ELSE IF k <= Len(file) THEN file[k] ELSE Token("zero", NoFile, 0)]
  <2>1. (IF Len(file) + Len(r) > Len(file) THEN Len(file) + Len(r) ELSE Len(file)) = n
    BY <1>2
  <2>2. WriteAt(file, Len(file), r) = w BY <1>2, <2>1 DEF WriteAt
  <2> DEFINE c == file \o r
  <2>3. c \in Seq(Tokens) /\ Len(c) = n BY ConcatProperties
  <2>4. \A k \in 1 .. n : c[k] = IF k <= Len(file) THEN file[k] ELSE r[k - Len(file)]
    BY ConcatProperties
  <2> HIDE DEF c
  <2>5. \A k \in 1 .. n : w[k] = c[k] BY <2>4
  <2>6. n \in Nat OBVIOUS
  <2> HIDE DEF n
  <2>7. \A k \in 1 .. n : w[k] \in Tokens BY <2>3, <2>5
  <2>8. w \in [1 .. n -> Tokens] BY <2>7
  <2> HIDE DEF w
  <2>9. w \in Seq(Tokens) /\ Len(w) = n BY <2>6, <2>8
  <2>10. w = c BY <2>3, <2>5, <2>9, SeqEqual
  <2> QED BY <2>2, <2>10 DEF c
<1> QED BY <1>1, <1>2

\* The bytes of an upload.
LEMMA BytesFacts ==
  ASSUME NEW sc \in [Sessions -> Seq(Uploads)], NEW s \in Sessions, NEW i \in DOMAIN sc[s]
  PROVE  /\ sc[s][i] \in Uploads
         /\ BytesOf(sc[s][i], s, i) \in Seq(Sent(sc))
         /\ Len(BytesOf(sc[s][i], s, i)) = IF sc[s][i].size > 0 THEN sc[s][i].size ELSE 0
         /\ Len(BytesOf(sc[s][i], s, i)) <= IntMax
         /\ \A k \in 1 .. Len(BytesOf(sc[s][i], s, i)) :
              BytesOf(sc[s][i], s, i)[k].kind # "head1"
<1> DEFINE x == sc[s][i]
           b == BytesOf(x, s, i)
           n == IF x.size > 0 THEN x.size ELSE 0
<1>1. x \in Uploads /\ i \in Nat OBVIOUS
<1>2. x.size \in -1 .. IntMax /\ IntMax \in Nat BY <1>1, LimitsAssumption DEF Uploads
<1>3. n \in Nat /\ n <= IntMax /\ 1 .. x.size = 1 .. n BY <1>2
<1>4. \A kind \in {"plain", "http", "json"} : Token(kind, s, i) \in Sent(sc)
  BY <1>1 DEF Token, Sent
<1>5. \A kind \in {"plain", "http", "json"} : Token(kind, s, i).kind # "head1" BY DEF Token
<1> DEFINE g == [k \in 1 .. n |-> Token(IF k = x.at THEN x.looks ELSE "plain", s, i)]
<1>6. b = g BY <1>3 DEF BytesOf
<1>11. x.looks \in {"plain", "http", "json"} BY <1>1 DEF Uploads
<1>7. \A k \in 1 .. n : g[k] \in Sent(sc) /\ g[k].kind # "head1" BY <1>4, <1>5, <1>11
<1> HIDE DEF n
<1>8. g \in [1 .. n -> Sent(sc)] BY <1>7
<1> HIDE DEF g
<1>9. g \in Seq(Sent(sc)) /\ Len(g) = n BY <1>3, <1>8
<1> HIDE DEF b
<1>10. b \in Seq(Sent(sc)) /\ Len(b) = n /\ \A k \in 1 .. n : b[k].kind # "head1"
  BY <1>6, <1>7, <1>9
<1> QED BY <1>1, <1>3, <1>10 DEF b, n

\* What clients send are tokens.
LEMMA SentAreTokens ==
  ASSUME NEW sc, NEW x \in Seq(Sent(sc))
  PROVE  x \in Seq(Tokens)
<1>1. Sent(sc) \subseteq Tokens BY DEF Sent, Tokens
<1>2. \A k \in 1 .. Len(x) : x[k] \in Tokens BY <1>1
<1>3. x \in Seq(Tokens) BY <1>2
<1> QED BY <1>3

\* The head a client sends.
LEMMA HeadFacts ==
  ASSUME NEW sc \in [Sessions -> Seq(Uploads)], NEW s \in Sessions, NEW i \in DOMAIN sc[s]
  PROVE  HeadTokens(s, i) \in Seq(Sent(sc))
<1>1. i \in Nat OBVIOUS
<1>2. \A kind \in {"head1", "head2"} : Token(kind, s, i) \in Sent(sc) BY <1>1 DEF Token, Sent
<1> QED BY <1>2 DEF HeadTokens

-----------------------------------------------------------------------------
(* Packets of an orderly client *)

\* What is left of a sequence after its first element.
LEMMA RestFacts ==
  ASSUME NEW T, NEW q \in Seq(T), Len(q) > 0
  PROVE  /\ SubSeq(q, 2, Len(q)) \in Seq(T)
         /\ Len(SubSeq(q, 2, Len(q))) = Len(q) - 1
         /\ \A j \in 1 .. Len(q) - 1 : SubSeq(q, 2, Len(q))[j] = q[j + 1]
<1>1. Len(q) \in Nat /\ 2 \in Int /\ \A i \in 2 .. Len(q) : q[i] \in T OBVIOUS
<1> DEFINE p == SubSeq(q, 2, Len(q))
           m == Len(q)
<1>2. /\ p \in Seq(T)
      /\ Len(p) = IF 2 <= m THEN m - 2 + 1 ELSE 0
      /\ \A i \in 1 .. m - 2 + 1 : p[i] = q[2 + i - 1]
  BY <1>1, SubSeqProperties
<1>3. m \in Nat /\ m > 0 BY <1>1
<1> HIDE DEF p, m
<1>4. Len(p) = m - 1 BY <1>2, <1>3
<1>5. ASSUME NEW j \in 1 .. m - 1 PROVE p[j] = q[j + 1]
  <2>1. j \in 1 .. m - 2 + 1 /\ 2 + j - 1 = j + 1 BY <1>3
  <2> QED BY <1>2, <2>1
<1> QED BY <1>2, <1>4, <1>5 DEF p, m

\* Before the first byte is sent none is on its way.
LEMMA InTransitNone ==
  ASSUME NEW S, NEW b \in Seq(S)
  PROVE  InTransit(b, Len(b), << >>, 0)
<1> DEFINE a == [i \in 0 .. Len(<< >>) |-> 0]
<1>1. Len(<< >>) = 0 OBVIOUS
<1>2. a \in [0 .. Len(<< >>) -> 0 .. Len(b)] /\ a[0] = 0 OBVIOUS
<1>3. a[Len(<< >>)] = Len(b) - Len(b) BY <1>1, <1>2
<1>4. \A j \in 1 .. Len(<< >>) : FALSE BY <1>1
<1> HIDE DEF a
<1> QED BY <1>2, <1>3, <1>4 DEF InTransit

\* SendBody adds the next piece.
LEMMA InTransitSend ==
  ASSUME NEW S, NEW b \in Seq(S), NEW q \in Seq(Seq(S)), NEW u \in 0 .. Len(b),
         NEW n \in 1 .. u, NEW start, InTransit(b, u, q, start)
  PROVE  InTransit(b, u - n, Append(q, SubSeq(b, Len(b) - u + 1, Len(b) - u + n)), start)
<1> DEFINE piece == SubSeq(b, Len(b) - u + 1, Len(b) - u + n)
           p == Append(q, piece)
           m == Len(q)
           end == Len(b) - u + n
<1>1. PICK a \in [0 .. m -> 0 .. Len(b)] :
        /\ a[0] = start
        /\ a[m] = Len(b) - u
        /\ \A j \in 1 .. m : a[j - 1] < a[j] /\ q[j] = SubSeq(b, a[j - 1] + 1, a[j])
  BY DEF InTransit
<1> DEFINE c == [i \in 0 .. m + 1 |-> IF i <= m THEN a[i] ELSE end]
<1>2. m \in Nat /\ end \in 0 .. Len(b) /\ Len(b) - u < end /\ end = Len(b) - (u - n) OBVIOUS
<1>3. Len(p) = m + 1 /\ p[m + 1] = piece /\ \A j \in 1 .. m : p[j] = q[j]
  <2>1. piece \in Seq(S) OBVIOUS
  <2> HIDE DEF piece
  <2> QED BY <2>1, AppendProperties
<1>4. piece = SubSeq(b, (Len(b) - u) + 1, end) OBVIOUS
<1> HIDE DEF p, piece, end, m
<1>5. c \in [0 .. m + 1 -> 0 .. Len(b)] BY <1>1, <1>2
<1>6. c[0] = start /\ c[m + 1] = end /\ c[m] = Len(b) - u BY <1>1, <1>2
<1>7. \A j \in 1 .. m : c[j] = a[j] /\ c[j - 1] = a[j - 1] BY <1>2
<1> HIDE DEF c
<1>8. ASSUME NEW j \in 1 .. m + 1
      PROVE  c[j - 1] < c[j] /\ p[j] = SubSeq(b, c[j - 1] + 1, c[j])
  <2>1. CASE j <= m
    <3>1. j \in 1 .. m BY <1>2, <2>1
    <3> QED BY <1>1, <1>3, <1>7, <3>1
  <2>2. CASE j = m + 1
    <3>1. j - 1 = m BY <1>2, <2>2
    <3> QED BY <1>2, <1>3, <1>4, <1>6, <2>2, <3>1
  <2> QED BY <1>2, <2>1, <2>2
<1>9. c[Len(p)] = Len(b) - (u - n) BY <1>2, <1>3, <1>6
<1>10. c \in [0 .. Len(p) -> 0 .. Len(b)] BY <1>3, <1>5
<1>11. \A j \in 1 .. Len(p) : c[j - 1] < c[j] /\ p[j] = SubSeq(b, c[j - 1] + 1, c[j])
  BY <1>3, <1>8
<1>12. InTransit(b, u - n, p, start) BY <1>6, <1>9, <1>10, <1>11 DEF InTransit
<1> QED BY <1>12 DEF p, piece

\* A read takes the first piece, which is not empty; the piece that ends the file is
\* the last one.
LEMMA InTransitRead ==
  ASSUME NEW S, NEW b \in Seq(S), NEW q \in Seq(Seq(S)), NEW u \in 0 .. Len(b), NEW start,
         InTransit(b, u, q, start), Len(q) > 0
  PROVE  \E e \in 0 .. Len(b) :
           /\ start \in Nat /\ start < e
           /\ q[1] = SubSeq(b, start + 1, e)
           /\ InTransit(b, u, SubSeq(q, 2, Len(q)), e)
           /\ e = Len(b) => Len(q) = 1
<1> DEFINE p == SubSeq(q, 2, Len(q))
           m == Len(q)
<1>1. PICK a \in [0 .. m -> 0 .. Len(b)] :
        /\ a[0] = start
        /\ a[m] = Len(b) - u
        /\ \A j \in 1 .. m : a[j - 1] < a[j] /\ q[j] = SubSeq(b, a[j - 1] + 1, a[j])
  BY DEF InTransit
<1> DEFINE c == [i \in 0 .. m - 1 |-> a[i + 1]]
<1>2. m \in Nat /\ m > 0 /\ Len(b) \in Nat OBVIOUS
<1>3. Len(p) = m - 1 /\ \A j \in 1 .. m - 1 : p[j] = q[j + 1] BY RestFacts
<1> HIDE DEF p, m
<1>4. c \in [0 .. m - 1 -> 0 .. Len(b)]
  <2>1. \A i \in 0 .. m - 1 : i + 1 \in 0 .. m BY <1>2
  <2> QED BY <1>1, <2>1
<1>5. c[0] = a[1] /\ c[m - 1] = a[m] BY <1>2
<1>6. \A j \in 1 .. m - 1 : c[j] = a[j + 1] /\ c[j - 1] = a[(j + 1) - 1] BY <1>2
<1> HIDE DEF c
<1>7. ASSUME NEW j \in 1 .. m - 1
      PROVE  c[j - 1] < c[j] /\ p[j] = SubSeq(b, c[j - 1] + 1, c[j])
  <2>1. j + 1 \in 1 .. m BY <1>2
  <2>2. a[(j + 1) - 1] < a[j + 1] /\ q[j + 1] = SubSeq(b, a[(j + 1) - 1] + 1, a[j + 1])
    BY <1>1, <2>1
  <2> QED BY <1>3, <1>6, <2>2
<1>8. InTransit(b, u, p, a[1]) BY <1>1, <1>3, <1>4, <1>5, <1>7 DEF InTransit
<1>9. a[0] \in 0 .. Len(b) /\ a[1] \in 0 .. Len(b) /\ 1 \in 1 .. m BY <1>1, <1>2
<1>10. a[1 - 1] < a[1] /\ q[1] = SubSeq(b, a[1 - 1] + 1, a[1]) BY <1>1, <1>9
<1>11. start \in Nat /\ start < a[1] /\ q[1] = SubSeq(b, start + 1, a[1])
  <2>1. 1 - 1 = 0 OBVIOUS
  <2>2. a[0] < a[1] /\ q[1] = SubSeq(b, a[0] + 1, a[1]) BY <1>10, <2>1
  <2>3. a[0] \in Nat BY <1>2, <1>9
  <2> QED BY <1>1, <2>2, <2>3
<1>12. ASSUME a[1] = Len(b) PROVE m = 1
  <2> SUFFICES ASSUME m # 1 PROVE FALSE OBVIOUS
  <2>1. 2 \in 1 .. m /\ 2 \in 0 .. m /\ 2 - 1 = 1 BY <1>2
  <2>2. a[2 - 1] < a[2] BY <1>1, <2>1
  <2>3. a[2] \in 0 .. Len(b) BY <1>1, <2>1
  <2>4. a[1] < a[2] BY <2>1, <2>2
  <2> QED BY <1>2, <1>12, <2>3, <2>4
<1> QED BY <1>8, <1>9, <1>11, <1>12 DEF p, m

\* No piece of a file looks like a head.
LEMMA InTransitNoHeads ==
  ASSUME NEW S, NEW b \in Seq(S), NEW q \in Seq(Seq(S)), NEW u, NEW start,
         InTransit(b, u, q, start), \A k \in 1 .. Len(b) : b[k].kind # "head1"
  PROVE  NoHeads(q)
<1>1. PICK a \in [0 .. Len(q) -> 0 .. Len(b)] :
        \A j \in 1 .. Len(q) : a[j - 1] < a[j] /\ q[j] = SubSeq(b, a[j - 1] + 1, a[j])
  BY DEF InTransit
<1>2. ASSUME NEW j \in 1 .. Len(q) PROVE Len(q[j]) > 0 /\ q[j][1].kind # "head1"
  <2> DEFINE x == a[j - 1]
             y == a[j]
  <2>1. j - 1 \in 0 .. Len(q) /\ j \in 0 .. Len(q) OBVIOUS
  <2>2. x \in 0 .. Len(b) /\ y \in 0 .. Len(b) BY <1>1, <2>1
  <2>3. x < y /\ q[j] = SubSeq(b, x + 1, y) BY <1>1
  <2> HIDE DEF x, y
  <2>4. Len(SubSeq(b, x + 1, y)) = y - x /\ SubSeq(b, x + 1, y)[1] = b[x + 1]
    BY <2>2, <2>3
  <2>5. x + 1 \in 1 .. Len(b) BY <2>2, <2>3
  <2> QED BY <2>2, <2>3, <2>4, <2>5
<1> QED BY <1>2 DEF NoHeads

\* What is left of packets none of which is a head.
LEMMA NoHeadsRead ==
  ASSUME NEW S, NEW q \in Seq(S), NoHeads(q), Len(q) > 0
  PROVE  NoHeads(SubSeq(q, 2, Len(q)))
<1>1. Len(SubSeq(q, 2, Len(q))) = Len(q) - 1
      /\ \A j \in 1 .. Len(q) - 1 : SubSeq(q, 2, Len(q))[j] = q[j + 1]
  BY RestFacts
<1>2. \A j \in 1 .. Len(q) - 1 : j + 1 \in 1 .. Len(q) OBVIOUS
<1> DEFINE p == SubSeq(q, 2, Len(q))
<1> HIDE DEF p
<1>3. Len(p) = Len(q) - 1 /\ \A j \in 1 .. Len(q) - 1 : p[j] = q[j + 1] BY <1>1 DEF p
<1>4. NoHeads(p) BY <1>2, <1>3 DEF NoHeads
<1> QED BY <1>4 DEF p

\* The head stays the first packet while pieces are sent.
LEMMA HeadInTransitSend ==
  ASSUME NEW S, NEW b \in Seq(S), NEW h, NEW q \in Seq(Seq(S)), NEW u \in 0 .. Len(b),
         NEW n \in 1 .. u, HeadInTransit(b, h, u, q)
  PROVE  HeadInTransit(b, h, u - n, Append(q, SubSeq(b, Len(b) - u + 1, Len(b) - u + n)))
<1> DEFINE x == SubSeq(b, Len(b) - u + 1, Len(b) - u + n)
           t == SubSeq(q, 2, Len(q))
           p == Append(q, x)
           r == SubSeq(p, 2, Len(p))
<1>1. x \in Seq(S) OBVIOUS
<1>2. Len(q) > 0 /\ q[1] = h /\ InTransit(b, u, t, 0) BY DEF HeadInTransit
<1>3. t \in Seq(Seq(S)) /\ Len(t) = Len(q) - 1 /\ \A j \in 1 .. Len(q) - 1 : t[j] = q[j + 1]
  BY <1>2, RestFacts
<1>4. InTransit(b, u - n, Append(t, x), 0) BY <1>2, <1>3, InTransitSend
<1> HIDE DEF x, t
<1> DEFINE w == Append(t, x)
           m == Len(q)
<1>5. /\ p \in Seq(Seq(S)) /\ Len(p) = m + 1 /\ p[m + 1] = x
      /\ \A j \in 1 .. m : p[j] = q[j]
  BY <1>1, AppendProperties
<1>6. /\ w \in Seq(Seq(S)) /\ Len(w) = m /\ w[m] = x
      /\ \A j \in 1 .. m - 1 : w[j] = q[j + 1]
  <2>1. /\ w \in Seq(Seq(S)) /\ Len(w) = Len(t) + 1 /\ w[Len(t) + 1] = x
        /\ \A j \in 1 .. Len(t) : w[j] = t[j]
    BY <1>1, <1>3, AppendProperties
  <2>2. Len(t) + 1 = m /\ Len(t) = m - 1 BY <1>3
  <2> HIDE DEF w, m
  <2> QED BY <1>3, <2>1, <2>2 DEF m
<1>7. m \in Nat /\ m > 0 BY <1>2
<1> HIDE DEF p, w, m
<1>8. r \in Seq(Seq(S)) /\ Len(r) = m /\ \A j \in 1 .. m : r[j] = p[j + 1]
  <2>1. Len(p) > 0 /\ Len(p) - 1 = m BY <1>5, <1>7
  <2>2. r \in Seq(Seq(S)) /\ Len(r) = Len(p) - 1 /\ \A j \in 1 .. Len(p) - 1 : r[j] = p[j + 1]
    BY <1>5, <2>1, RestFacts
  <2> QED BY <2>1, <2>2
<1> HIDE DEF r
<1>9. ASSUME NEW j \in 1 .. m PROVE r[j] = w[j]
  <2>1. CASE j = m BY <1>5, <1>6, <1>8, <2>1
  <2>2. CASE j # m
    <3>1. j \in 1 .. m - 1 /\ j + 1 \in 1 .. m BY <1>7, <2>2
    <3> QED BY <1>5, <1>6, <1>8, <3>1
  <2> QED BY <2>1, <2>2
<1>10. r = w BY <1>6, <1>8, <1>9, SeqEqual
<1>11. InTransit(b, u - n, r, 0) BY <1>4, <1>10 DEF w
<1>12. Len(p) > 0 /\ p[1] = h
  <2>1. 1 \in 1 .. m BY <1>7
  <2> QED BY <1>2, <1>5, <1>7, <2>1
<1>13. HeadInTransit(b, h, u - n, p) BY <1>11, <1>12 DEF HeadInTransit, r
<1> QED BY <1>13 DEF p, x

-----------------------------------------------------------------------------
(* What the steps have in common *)

\* A read.
LEMMA ReadFacts ==
  ASSUME TypesInv, NEW s \in Sessions, NEW n, CanRead(s, n)
  PROVE  /\ ~exited /\ Live(s)
         /\ inflight[s] \in Seq(Seq(Sent(script))) /\ Len(inflight[s]) > 0
         /\ Received(s, n) \in Seq(Sent(script)) /\ Received(s, n) \in Seq(Tokens)
         /\ SubSeq(inflight[s], n + 1, Len(inflight[s])) \in Seq(Seq(Sent(script)))
         /\ orderly => Received(s, n) = inflight[s][1] /\ n = 1
<1>1. ~exited /\ Live(s) BY DEF CanRead, Live
<1> DEFINE q == inflight[s]
<1>2. q \in Seq(Seq(Sent(script))) BY DEF TypesInv
<1> HIDE DEF q
<1>3. n \in 1 .. Len(q) /\ (orderly => n = 1) BY <1>2 DEF CanRead, q
<1>4. FlattenSeq(SubSeq(q, 1, n)) \in Seq(Sent(script))
      /\ (n = 1 => FlattenSeq(SubSeq(q, 1, n)) = q[1])
  BY <1>2, <1>3, FlattenFirst
<1>5. Received(s, n) = FlattenSeq(SubSeq(q, 1, n)) BY DEF Received, q
<1>6. Received(s, n) \in Seq(Tokens) BY <1>4, <1>5, SentAreTokens
<1>7. SubSeq(q, n + 1, Len(q)) \in Seq(Seq(Sent(script))) BY <1>2, <1>3
<1>8. Len(q) > 0 BY <1>2, <1>3
<1> QED BY <1>1, <1>2, <1>3, <1>4, <1>5, <1>6, <1>7, <1>8 DEF q

\* What is left to be read.
LEMMA ConsumeFacts ==
  ASSUME TypesInv, NEW s \in Sessions, NEW n, CanRead(s, n), Consume(s, n), script' = script
  PROVE  /\ inflight' \in [Sessions -> Seq(Seq(Sent(script')))]
         /\ \A t \in Sessions : t # s => inflight'[t] = inflight[t]
         /\ orderly => inflight'[s] = SubSeq(inflight[s], 2, Len(inflight[s]))
<1>1. SubSeq(inflight[s], n + 1, Len(inflight[s])) \in Seq(Seq(Sent(script)))
      /\ (orderly => n = 1)
  BY ReadFacts
<1>2. inflight \in [Sessions -> Seq(Seq(Sent(script)))] BY DEF TypesInv
<1>3. inflight' = [inflight EXCEPT ![s] = SubSeq(inflight[s], n + 1, Len(inflight[s]))]
  BY DEF Consume
<1>4. \A t \in Sessions : t # s => inflight'[t] = inflight[t] BY <1>2, <1>3
<1>5. inflight'[s] = SubSeq(inflight[s], n + 1, Len(inflight[s])) BY <1>2, <1>3
<1>6. inflight' \in [Sessions -> Seq(Seq(Sent(script)))] BY <1>1, <1>2, <1>3
<1>7. orderly => inflight'[s] = SubSeq(inflight[s], 2, Len(inflight[s])) BY <1>1, <1>5
<1> QED BY <1>4, <1>6, <1>7

\* An answer.
LEMMA AnswerFacts ==
  ASSUME TypeOK, NEW s \in Sessions, NEW ok \in BOOLEAN, Answer(s, ok)
  PROVE  /\ up' \in [Sessions -> Nat \ {0}]
         /\ unsent' \in [Sessions -> -1 .. IntMax]
         /\ client' \in [Sessions -> {"ready", "busy", "failed", "gone"}]
         /\ \A t \in Sessions : client'[t] = "gone" <=> client[t] = "gone"
         /\ \A t \in Sessions : t # s => client'[t] = client[t] /\ up'[t] = up[t]
         /\ unsent' = unsent
         /\ \A t \in Sessions : client'[t] = "busy" => client[t] = "busy" /\ up'[t] = up[t]
         /\ orderly /\ client[s] = "busy" => client'[s] = IF ok THEN "ready" ELSE "failed"
         /\ client[s] # "busy" => client'[s] = client[s] /\ up'[s] = up[s]
<1>1. /\ up \in [Sessions -> Nat \ {0}]
      /\ unsent \in [Sessions -> -1 .. IntMax]
      /\ client \in [Sessions -> {"ready", "busy", "failed", "gone"}]
  BY DEF TypeOK
<1>2. CASE orderly /\ client[s] = "busy"
  <2>1. /\ client' = [client EXCEPT ![s] = IF ok THEN "ready" ELSE "failed"]
        /\ up' = [up EXCEPT ![s] = up[s] + 1]
        /\ unsent' = unsent
    BY <1>2 DEF Answer
  <2>2. up[s] + 1 \in Nat \ {0} BY <1>1
  <2>3. up' \in [Sessions -> Nat \ {0}] BY <1>1, <2>1, <2>2
  <2> QED BY <1>1, <1>2, <2>1, <2>3
<1>3. CASE ~(orderly /\ client[s] = "busy")
  <2>1. client' = client /\ up' = up /\ unsent' = unsent BY <1>3 DEF Answer, clientVars
  <2> QED BY <1>1, <1>3, <2>1
<1> QED BY <1>2, <1>3

\* What the invariant says of the sessions and of the files.
FilesInv ==
  /\ FilesExist /\ SessionInv /\ LeaksOnlyAbandoned /\ StoredCompletely /\ StoredIsKept
  /\ SharedIsMarked /\ AloneInv /\ CountInv /\ KeptInv

\* A step that touches neither sessions nor files, and with which no client goes,
\* preserves that.
LEMMA QuietStep ==
  ASSUME UploadInv, ~exited, UNCHANGED <<sessVars, fileVars, env>>,
         \A t \in Sessions : client'[t] = "gone" <=> client[t] = "gone"
  PROVE  FilesInv'
<1> USE DEF sessVars, fileVars, env, fixed, Live
<1>1. FilesExist' /\ SessionInv' /\ CountInv'
  BY DEF UploadInv, FilesExist, SessionInv, StateMatchesFile, CountInv
<1>2. LeaksOnlyAbandoned'
  <2>1. LeaksOnlyAbandoned /\ leaked' = leaked /\ leaked \in SUBSET StreamType
    BY DEF UploadInv, TypesInv
  <2>2. \A l \in leaked : l.sess \in Sessions BY <2>1 DEF StreamType
  <2> QED BY <2>1, <2>2 DEF LeaksOnlyAbandoned
<1>3. StoredCompletely'
  BY DEF UploadInv, StoredCompletely, StoredAtLeastAnnounced, StoredExactly, Body
<1>4. StoredIsKept'
  BY DEF UploadInv, StoredIsKept, StoredStays, StoredIsServed, OnHttpResponse, SendPage,
         SendFileData, M3u8
<1>5. SharedIsMarked' BY DEF UploadInv, SharedIsMarked
<1>6. AloneInv' BY DEF UploadInv, AloneInv
<1>7. KeptInv' BY DEF UploadInv, KeptInv, Settled
<1> QED BY <1>1, <1>2, <1>3, <1>4, <1>5, <1>6, <1>7 DEF FilesInv

\* The orderly client of a session nothing was done to: another session may have
\* opened its file, or written to a file of its own.
LEMMA OrderlyFrame ==
  ASSUME NEW t \in Sessions, OrderlyAt(t), script' = script,
         client'[t] = client[t], up'[t] = up[t], unsent'[t] = unsent[t],
         inflight'[t] = inflight[t], m_fp'[t] = m_fp[t], pos'[t] = pos[t],
         buffer'[t] = buffer[t], m_offset'[t] = m_offset[t], m_filesize'[t] = m_filesize[t],
         client[t] # "gone" /\ m_fp[t] # NoFile /\ ~overlapped'[t] =>
           ~overlapped[t] /\ disk'[m_fp[t]] = disk[m_fp[t]]
  PROVE  OrderlyAt(t)'
<1> DEFINE b == BytesOf(script[t][up[t]], t, up[t])
<1>1. CASE client[t] = "busy" /\ m_fp[t] # NoFile
  <2>1. Arriving(b, unsent[t], inflight[t], m_offset[t], ~overlapped[t], disk[m_fp[t]], buffer[t])
    BY <1>1 DEF OrderlyAt
  <2>2. Arriving(b, unsent[t], inflight[t], m_offset[t], ~overlapped'[t], disk'[m_fp[t]],
                 buffer[t])
    BY <1>1, <2>1 DEF Arriving
  <2> QED BY <1>1, <2>2 DEF OrderlyAt
<1>2. CASE ~(client[t] = "busy" /\ m_fp[t] # NoFile) BY <1>2 DEF OrderlyAt
<1> QED BY <1>1, <1>2

\* The types after such a step.
LEMMA QuietTypes ==
  ASSUME TypesInv, UNCHANGED <<sessVars, fileVars, env>>,
         up' \in [Sessions -> Nat \ {0}],
         unsent' \in [Sessions -> -1 .. IntMax],
         client' \in [Sessions -> {"ready", "busy", "failed", "gone"}],
         inflight' \in [Sessions -> Seq(Seq(Sent(script')))]
  PROVE  TypesInv'
BY DEF TypesInv, TypeOK, sessVars, fileVars, env, fixed

\* Initially there are no sessions and no files.
LEMMA InitInv == Init => UploadInv
<1> SUFFICES ASSUME Init PROVE UploadInv OBVIOUS
<1> USE DEF Init
<1>1. PICK c \in Clients : orderly = c.orderly /\ script = c.script OBVIOUS
<1>2. orderly \in BOOLEAN /\ script \in [Sessions -> Seq(Uploads)]
  BY <1>1, ClientsAssumption DEF Uploads
<1>3. << >> \in Seq(Seq(Sent(script))) /\ << >> \in Seq(Tokens) OBVIOUS
<1>4. IntMax \in Nat BY LimitsAssumption
<1>5. TypeOK
  <2>1. -1 \in -1 .. IntMax /\ 0 \in -(IntMax + 1) .. IntMax /\ 0 \in 0 .. IntMax BY <1>4
  <2>2. m_offset \in [Sessions -> -(IntMax + 1) .. IntMax] BY <2>1
  <2>3. unsent \in [Sessions -> -1 .. IntMax] BY <2>1
  <2>4. up \in [Sessions -> Nat \ {0}] OBVIOUS
  <2>5. \A n \in Names : disk[n] = NoFile OBVIOUS
  <2> QED BY <2>1, <2>2, <2>3, <2>4, <2>5 DEF TypeOK
<1>6. IsFiniteSet(leaked) BY FS_EmptySet
<1>7. inflight \in [Sessions -> Seq(Seq(Sent(script)))] /\ buffer \in [Sessions -> Seq(Tokens)]
  BY <1>3
<1>8. /\ disk \in [Names -> Contents] /\ kept \in [Names -> Contents]
      /\ rivals \in [Names -> SUBSET Sessions]
  BY DEF Contents
<1>9. TypesInv BY <1>2, <1>5, <1>6, <1>7, <1>8 DEF TypesInv
<1>10. FilesExist /\ LeaksOnlyAbandoned BY DEF FilesExist, LeaksOnlyAbandoned
<1>11. SessionInv BY DEF SessionInv, StateMatchesFile
<1>12. StoredCompletely BY DEF StoredCompletely, StoredAtLeastAnnounced, StoredExactly
<1>13. StoredIsKept BY DEF StoredIsKept, StoredStays, StoredIsServed
<1>14. SharedIsMarked /\ AloneInv /\ CountInv /\ KeptInv
  BY DEF SharedIsMarked, AloneInv, CountInv, KeptInv, Settled
<1>15. ClientInv BY DEF ClientInv
<1>16. OrderlyInv BY DEF OrderlyInv, OrderlyAt
<1> QED BY <1>9, <1>10, <1>11, <1>12, <1>13, <1>14, <1>15, <1>16 DEF UploadInv

-----------------------------------------------------------------------------
(* Clients *)

\* What a send puts on its way.
LEMMA TransmitFacts ==
  ASSUME TypesInv, NEW s \in Sessions, NEW tokens \in Seq(Sent(script)), Transmit(s, tokens),
         script' = script
  PROVE  /\ inflight' \in [Sessions -> Seq(Seq(Sent(script')))]
         /\ \A t \in Sessions : t # s => inflight'[t] = inflight[t]
         /\ orderly => inflight'[s] = Append(inflight[s], tokens)
<1> DEFINE T == Seq(Sent(script))
           cut == [k \in DOMAIN tokens |-> <<tokens[k]>>]
           more == IF orderly THEN <<tokens>> ELSE cut
<1>1. inflight \in [Sessions -> Seq(T)] BY DEF TypesInv
<1>2. DOMAIN tokens = 1 .. Len(tokens) /\ Len(tokens) \in Nat OBVIOUS
<1>3. \A k \in 1 .. Len(tokens) : <<tokens[k]>> \in T OBVIOUS
<1>4. cut \in [1 .. Len(tokens) -> T] BY <1>2, <1>3
<1> HIDE DEF cut
<1>5. cut \in Seq(T) BY <1>2, <1>4
<1>6. <<tokens>> \in Seq(T) OBVIOUS
<1>7. more \in Seq(T) BY <1>5, <1>6
<1>8. inflight' = [inflight EXCEPT ![s] = inflight[s] \o more] BY DEF Transmit, cut
<1> HIDE DEF more, T
<1>9. inflight[s] \o more \in Seq(T) BY <1>1, <1>7, ConcatProperties
<1>10. inflight' \in [Sessions -> Seq(T)] BY <1>1, <1>8, <1>9
<1>11. \A t \in Sessions : t # s => inflight'[t] = inflight[t] BY <1>1, <1>8
<1>12. inflight'[s] = inflight[s] \o more BY <1>1, <1>8
<1>13. orderly => more = <<tokens>> BY DEF more
<1>14. inflight[s] \o <<tokens>> = Append(inflight[s], tokens)
  <2>1. inflight[s] \in Seq(T) /\ tokens \in T BY <1>1 DEF T
  <2> QED BY <2>1, AppendIsConcat
<1> QED BY <1>10, <1>11, <1>12, <1>13, <1>14 DEF T

\* A client sends a head: it is the first packet of a new upload on its way.
LEMMA SendHeadInv ==
  ASSUME UploadInv, NEW s \in Sessions, SendHead(s)
  PROVE  UploadInv'
<1>1. TypesInv /\ TypeOK /\ ClientInv /\ OrderlyInv /\ ~exited
  BY DEF UploadInv, TypesInv, SendHead
<1>2. script' = script /\ orderly' = orderly /\ exited' = exited
      /\ UNCHANGED <<sessVars, fileVars, env>>
  BY DEF SendHead, env, fixed
<1>3. script \in [Sessions -> Seq(Uploads)] BY <1>1 DEF TypesInv
<1> DEFINE i == up[s]
           b == BytesOf(script[s][i], s, i)
<1>4. i \in DOMAIN script[s] BY DEF SendHead
<1>5. /\ script[s][i] \in Uploads /\ b \in Seq(Sent(script)) /\ Len(b) <= IntMax
      /\ Len(b) = IF script[s][i].size > 0 THEN script[s][i].size ELSE 0
  BY <1>3, <1>4, BytesFacts
<1> HIDE DEF b
<1>6. /\ up' = up
      /\ unsent' = [unsent EXCEPT ![s] = Len(b)]
      /\ client' = [client EXCEPT ![s] = "busy"]
      /\ client[s] = "ready"
  BY <1>5 DEF SendHead
<1>7. HeadTokens(s, i) \in Seq(Sent(script)) BY <1>3, <1>4, HeadFacts
<1>8. /\ inflight' \in [Sessions -> Seq(Seq(Sent(script')))]
      /\ \A t \in Sessions : t # s => inflight'[t] = inflight[t]
      /\ orderly => inflight'[s] = Append(inflight[s], HeadTokens(s, i))
  BY <1>1, <1>2, <1>7, TransmitFacts DEF SendHead
<1>9. /\ unsent \in [Sessions -> -1 .. IntMax]
      /\ client \in [Sessions -> {"ready", "busy", "failed", "gone"}]
      /\ up \in [Sessions -> Nat \ {0}]
  BY <1>1 DEF TypeOK
<1>10. Len(b) \in -1 .. IntMax /\ Len(b) \in Nat BY <1>5
<1>11. /\ unsent' \in [Sessions -> -1 .. IntMax]
       /\ client' \in [Sessions -> {"ready", "busy", "failed", "gone"}]
       /\ up' \in [Sessions -> Nat \ {0}]
  BY <1>6, <1>9, <1>10
<1>12. \A t \in Sessions : t # s => client'[t] = client[t] /\ unsent'[t] = unsent[t]
  BY <1>6, <1>9
<1>13. client'[s] = "busy" /\ unsent'[s] = Len(b) BY <1>6, <1>9
<1>14. TypesInv' BY <1>1, <1>2, <1>8, <1>11, QuietTypes
<1>15. FilesInv' BY <1>1, <1>2, <1>6, <1>12, <1>13, QuietStep
<1>16. ClientInv'
  <2>1. ASSUME NEW t \in Sessions, client'[t] = "busy"
        PROVE  /\ up'[t] \in DOMAIN script'[t]
               /\ unsent'[t] \in 0 .. Len(BytesOf(script'[t][up'[t]], t, up'[t]))
    <3>1. CASE t = s BY <1>2, <1>4, <1>6, <1>10, <1>13, <3>1 DEF b
    <3>2. CASE t # s BY <1>1, <1>2, <1>6, <1>12, <2>1, <3>2 DEF ClientInv
    <3> QED BY <3>1, <3>2
  <2> QED BY <2>1 DEF ClientInv
<1>17. ASSUME orderly PROVE OrderlyAt(s)'
  <2>1. inflight[s] = << >> /\ m_fp[s] = NoFile
    BY <1>1, <1>6, <1>17 DEF OrderlyInv, OrderlyAt
  <2> DEFINE h == HeadTokens(s, i)
             q == <<h>>
  <2>2. inflight'[s] = q BY <1>8, <1>17, <2>1
  <2> HIDE DEF h
  <2>3. Len(q) > 0 /\ q[1] = h /\ SubSeq(q, 2, Len(q)) = << >>
    BY SubSeqEmpty
  <2>4. InTransit(b, Len(b), << >>, 0) BY <1>5, InTransitNone
  <2> HIDE DEF q
  <2>5. HeadInTransit(b, h, Len(b), q) BY <2>3, <2>4 DEF HeadInTransit
  <2>6. m_fp'[s] = NoFile BY <1>2, <2>1 DEF sessVars
  <2> QED BY <1>2, <1>6, <1>13, <2>2, <2>5, <2>6 DEF OrderlyAt, b, h
<1>18. ASSUME orderly, NEW t \in Sessions, t # s PROVE OrderlyAt(t)'
  <2>1. OrderlyAt(t) BY <1>1, <1>18 DEF OrderlyInv
  <2>2. UNCHANGED <<m_fp, pos, buffer, m_offset, m_filesize, overlapped, disk>>
    BY <1>2 DEF sessVars, fileVars
  <2> QED BY <1>2, <1>6, <1>8, <1>12, <1>18, <2>1, <2>2, OrderlyFrame
<1>19. OrderlyInv' BY <1>2, <1>17, <1>18 DEF OrderlyInv
<1> QED BY <1>14, <1>15, <1>16, <1>19 DEF UploadInv, FilesInv

\* A client sends n more bytes: the next piece of its file.
LEMMA SendBodyInv ==
  ASSUME UploadInv, NEW s \in Sessions, NEW n \in Nat, SendBody(s, n)
  PROVE  UploadInv'
<1>1. TypesInv /\ TypeOK /\ ClientInv /\ OrderlyInv /\ ~exited
  BY DEF UploadInv, TypesInv, SendBody
<1>2. script' = script /\ orderly' = orderly /\ exited' = exited
      /\ UNCHANGED <<sessVars, fileVars, env>>
  BY DEF SendBody, env, fixed
<1>3. script \in [Sessions -> Seq(Uploads)] BY <1>1 DEF TypesInv
<1> DEFINE i == up[s]
           u == unsent[s]
           b == BytesOf(script[s][i], s, i)
           piece == SubSeq(b, Len(b) - u + 1, Len(b) - u + n)
<1>4. client[s] = "busy" /\ up' = up /\ client' = client /\ n \in 1 .. u
      /\ unsent' = [unsent EXCEPT ![s] = u - n]
  BY DEF SendBody
<1>5. i \in DOMAIN script[s] /\ u \in 0 .. Len(b) BY <1>1, <1>4 DEF ClientInv
<1>6. b \in Seq(Sent(script)) /\ Len(b) <= IntMax BY <1>3, <1>5, BytesFacts
<1>7. Body(s, i) = b BY DEF Body, BytesOf
<1> HIDE DEF b
<1>8. Transmit(s, piece)
  <2>1. (Len(b) - u + 1) + n - 1 = Len(b) - u + n
    <3>1. Len(b) \in Int /\ u \in Int /\ n \in Int BY <1>5, <1>6
    <3> DEFINE l == Len(b)
    <3> HIDE DEF l, u
    <3>2. (l - u + 1) + n - 1 = l - u + n BY <3>1 DEF l
    <3> QED BY <3>2 DEF l
  <2>2. Transmit(s, SubSeq(b, Len(b) - u + 1, (Len(b) - u + 1) + n - 1))
    BY <1>7 DEF SendBody
  <2> QED BY <2>1, <2>2
<1>9. piece \in Seq(Sent(script))
  <2>1. /\ Len(b) - u \in Nat /\ Len(b) - u + n \in Nat /\ Len(b) - u <= Len(b) - u + n
        /\ Len(b) - u + n <= Len(b)
    BY <1>4, <1>5, <1>6
  <2> QED BY <1>6, <2>1, Adjacent
<1> HIDE DEF piece
<1>10. /\ inflight' \in [Sessions -> Seq(Seq(Sent(script')))]
       /\ \A t \in Sessions : t # s => inflight'[t] = inflight[t]
       /\ orderly => inflight'[s] = Append(inflight[s], piece)
  BY <1>1, <1>2, <1>8, <1>9, TransmitFacts
<1>11. /\ unsent \in [Sessions -> -1 .. IntMax]
       /\ client \in [Sessions -> {"ready", "busy", "failed", "gone"}]
       /\ up \in [Sessions -> Nat \ {0}] /\ IntMax \in Nat
  BY <1>1, LimitsAssumption DEF TypeOK
<1>12. u - n \in -1 .. IntMax /\ u - n \in 0 .. Len(b) BY <1>4, <1>5, <1>6, <1>11
<1>13. unsent' \in [Sessions -> -1 .. IntMax] BY <1>4, <1>11, <1>12
<1>14. unsent'[s] = u - n /\ \A t \in Sessions : t # s => unsent'[t] = unsent[t]
  BY <1>4, <1>11
<1>15. TypesInv' BY <1>1, <1>2, <1>4, <1>10, <1>11, <1>13, QuietTypes
<1>16. FilesInv' BY <1>1, <1>2, <1>4, QuietStep
<1>17. ClientInv'
  <2>1. ASSUME NEW t \in Sessions, client'[t] = "busy"
        PROVE  /\ up'[t] \in DOMAIN script'[t]
               /\ unsent'[t] \in 0 .. Len(BytesOf(script'[t][up'[t]], t, up'[t]))
    <3>1. CASE t = s BY <1>2, <1>4, <1>5, <1>12, <1>14, <3>1 DEF b
    <3>2. CASE t # s BY <1>1, <1>2, <1>4, <1>14, <2>1, <3>2 DEF ClientInv
    <3> QED BY <3>1, <3>2
  <2> QED BY <2>1 DEF ClientInv
<1>18. ASSUME orderly PROVE OrderlyAt(s)'
  <2> DEFINE q == inflight[s]
  <2>1. q \in Seq(Seq(Sent(script))) BY <1>1 DEF TypesInv
  <2>2. inflight'[s] = Append(q, piece) BY <1>10, <1>18
  <2>3. OrderlyAt(s) BY <1>1, <1>18 DEF OrderlyInv
  <2>4. UNCHANGED <<m_fp, pos, buffer, m_offset, m_filesize, overlapped, disk>>
    BY <1>2 DEF sessVars, fileVars
  <2> HIDE DEF q
  <2>5. CASE m_fp[s] = NoFile
    <3>1. HeadInTransit(b, HeadTokens(s, i), u, q) BY <1>4, <2>3, <2>5 DEF OrderlyAt, b, q
    <3>2. HeadInTransit(b, HeadTokens(s, i), u - n, Append(q, piece))
      BY <1>4, <1>5, <1>6, <2>1, <3>1, HeadInTransitSend DEF piece
    <3> QED BY <1>2, <1>4, <1>14, <2>2, <2>4, <2>5, <3>2 DEF OrderlyAt, b
  <2>6. CASE m_fp[s] # NoFile
    <3>1. /\ m_filesize[s] = Len(b)
          /\ m_offset[s] = pos[s] + Len(buffer[s])
          /\ Arriving(b, u, q, m_offset[s], ~overlapped[s], disk[m_fp[s]], buffer[s])
      BY <1>4, <2>3, <2>6 DEF OrderlyAt, b, q
    <3>2. PICK start \in m_offset[s] .. Len(b) :
            /\ InTransit(b, u, q, start)
            /\ start = m_offset[s] /\ ~overlapped[s] =>
                 disk[m_fp[s]] \o buffer[s] = SubSeq(b, 1, m_offset[s])
      BY <3>1 DEF Arriving
    <3>3. InTransit(b, u - n, Append(q, piece), start)
      BY <1>4, <1>5, <1>6, <2>1, <3>2, InTransitSend DEF piece
    <3>4. Arriving(b, u - n, Append(q, piece), m_offset[s], ~overlapped[s], disk[m_fp[s]],
                   buffer[s])
      BY <3>2, <3>3 DEF Arriving
    <3> QED BY <1>2, <1>4, <1>14, <2>2, <2>4, <2>6, <3>1, <3>4 DEF OrderlyAt, b
  <2> QED BY <2>5, <2>6
<1>19. ASSUME orderly, NEW t \in Sessions, t # s PROVE OrderlyAt(t)'
  <2>1. OrderlyAt(t) BY <1>1, <1>19 DEF OrderlyInv
  <2>2. UNCHANGED <<m_fp, pos, buffer, m_offset, m_filesize, overlapped, disk>>
    BY <1>2 DEF sessVars, fileVars
  <2> QED BY <1>2, <1>4, <1>10, <1>14, <1>19, <2>1, <2>2, OrderlyFrame
<1>20. OrderlyInv' BY <1>2, <1>18, <1>19 DEF OrderlyInv
<1> QED BY <1>15, <1>16, <1>17, <1>20 DEF UploadInv, FilesInv

\* A client goes on without waiting: an orderly one does not.
LEMMA SkipWaitInv ==
  ASSUME UploadInv, NEW s \in Sessions, SkipWait(s)
  PROVE  UploadInv'
<1>1. TypesInv /\ TypeOK /\ ClientInv /\ ~exited BY DEF UploadInv, TypesInv, SkipWait
<1>2. script' = script /\ orderly' = orderly /\ ~orderly
      /\ UNCHANGED <<sessVars, fileVars, env>>
  BY DEF SkipWait, env, fixed
<1>3. /\ unsent \in [Sessions -> -1 .. IntMax]
      /\ client \in [Sessions -> {"ready", "busy", "failed", "gone"}]
      /\ up \in [Sessions -> Nat \ {0}]
  BY <1>1 DEF TypeOK
<1>4. /\ client[s] = "busy" /\ client' = [client EXCEPT ![s] = "ready"]
      /\ up' = [up EXCEPT ![s] = up[s] + 1]
      /\ unsent' = unsent /\ inflight' = inflight
  BY DEF SkipWait
<1>5. up[s] + 1 \in Nat \ {0} BY <1>3
<1>6. up' \in [Sessions -> Nat \ {0}] BY <1>3, <1>4, <1>5
<1>7. client' \in [Sessions -> {"ready", "busy", "failed", "gone"}] BY <1>3, <1>4
<1>8. client'[s] = "ready"
      /\ \A t \in Sessions : t # s => client'[t] = client[t] /\ up'[t] = up[t]
  BY <1>3, <1>4
<1>9. inflight' \in [Sessions -> Seq(Seq(Sent(script')))] BY <1>1, <1>2, <1>4 DEF TypesInv
<1>10. TypesInv' BY <1>1, <1>2, <1>3, <1>4, <1>6, <1>7, <1>9, QuietTypes
<1>11. FilesInv' BY <1>1, <1>2, <1>4, <1>8, QuietStep
<1>12. ClientInv' BY <1>1, <1>2, <1>4, <1>8 DEF ClientInv
<1>13. OrderlyInv' BY <1>2 DEF OrderlyInv
<1> QED BY <1>10, <1>11, <1>12, <1>13 DEF UploadInv, FilesInv

\* A client goes: its stream is abandoned as it is, with the file it belongs to.
LEMMA DisconnectInv ==
  ASSUME UploadInv, NEW s \in Sessions, Disconnect(s)
  PROVE  UploadInv'
<1>1. /\ TypesInv /\ TypeOK /\ ClientInv /\ OrderlyInv /\ ~exited /\ FilesExist /\ SessionInv
      /\ LeaksOnlyAbandoned /\ StoredCompletely /\ StoredIsKept /\ SharedIsMarked /\ AloneInv
      /\ CountInv /\ KeptInv
  BY DEF UploadInv, TypesInv, Disconnect
<1>2. /\ client[s] # "gone" /\ client' = [client EXCEPT ![s] = "gone"]
      /\ inflight' = [inflight EXCEPT ![s] = << >>]
      /\ leaked' = (IF m_fp[s] = NoFile THEN leaked ELSE leaked \cup {Stream(s)})
      /\ UNCHANGED <<orderly, script, up, unsent, m_isState, m_fp, pos, buffer, m_offset,
                     m_filesize, disk, converted, kept, rivals, overlapped, stored, exited>>
  BY DEF Disconnect, sessVars, env, fixed
<1>3. client \in [Sessions -> {"ready", "busy", "failed", "gone"}] BY <1>1 DEF TypeOK
<1>4. client' \in [Sessions -> {"ready", "busy", "failed", "gone"}] BY <1>2, <1>3
<1>5. client'[s] = "gone" /\ \A t \in Sessions : t # s => client'[t] = client[t] BY <1>2, <1>3
<1>6. inflight \in [Sessions -> Seq(Seq(Sent(script)))] BY <1>1 DEF TypesInv
<1>7. inflight' \in [Sessions -> Seq(Seq(Sent(script')))] BY <1>2, <1>6
<1>8. \A t \in Sessions : t # s => inflight'[t] = inflight[t] BY <1>2, <1>6
<1>9. m_fp[s] # NoFile =>
        Stream(s) \in StreamType /\ Stream(s).sess = s /\ Stream(s).name = m_fp[s]
  <2>1. m_fp[s] # NoFile => m_fp[s] \in Names BY <1>1 DEF TypeOK
  <2>2. pos[s] \in Nat /\ buffer[s] \in Seq(Tokens) BY <1>1 DEF TypeOK, TypesInv
  <2> QED BY <2>1, <2>2 DEF Stream, StreamType
<1>10. leaked' \in SUBSET StreamType /\ IsFiniteSet(leaked')
  <2>1. leaked \in SUBSET StreamType /\ IsFiniteSet(leaked) BY <1>1 DEF TypesInv
  <2>2. IsFiniteSet(leaked \cup {Stream(s)}) BY <2>1, FS_AddElement
  <2> QED BY <1>2, <1>9, <2>1, <2>2
<1>11. TypesInv' BY <1>1, <1>2, <1>4, <1>7, <1>10 DEF TypesInv, TypeOK
<1>12. \A l \in leaked' : l \in leaked \/ (l = Stream(s) /\ m_fp[s] # NoFile) BY <1>2
<1>13. FilesExist' BY <1>1, <1>2, <1>9, <1>12 DEF FilesExist
<1>14. SessionInv' /\ CountInv' BY <1>1, <1>2 DEF SessionInv, StateMatchesFile, CountInv
<1>15. LeaksOnlyAbandoned'
  <2>1. \A l \in leaked : l.sess \in Sessions /\ l.sess # s
    BY <1>1, <1>2 DEF TypesInv, StreamType, LeaksOnlyAbandoned
  <2>2. \A l \in leaked' : client'[l.sess] = "gone"
    BY <1>1, <1>5, <1>9, <1>12, <2>1 DEF LeaksOnlyAbandoned
  <2>3. \A k, l \in leaked' : k.sess = l.sess => k = l
    BY <1>1, <1>9, <1>12, <2>1 DEF LeaksOnlyAbandoned
  <2> QED BY <2>2, <2>3 DEF LeaksOnlyAbandoned
<1>16. StoredCompletely'
  BY <1>1, <1>2 DEF StoredCompletely, StoredAtLeastAnnounced, StoredExactly, Body
<1>17. KeptInv' BY <1>1, <1>2, <1>5 DEF KeptInv, Settled, Live
<1>18. StoredIsKept'
  <2>1. StoredStays' BY <1>17 DEF StoredStays, KeptInv, Settled
  <2>2. StoredIsServed'
    BY <1>1, <1>2 DEF StoredIsKept, StoredIsServed, OnHttpResponse, SendPage, SendFileData, M3u8
  <2> QED BY <2>1, <2>2 DEF StoredIsKept
<1>19. \A t \in Sessions : Live(t)' => Live(t) BY <1>5 DEF Live
<1>20. SharedIsMarked' /\ AloneInv' BY <1>1, <1>2, <1>19 DEF SharedIsMarked, AloneInv
<1>21. ClientInv' BY <1>1, <1>2, <1>5 DEF ClientInv
<1>22. ASSUME orderly PROVE OrderlyAt(s)' BY <1>5 DEF OrderlyAt
<1>23. ASSUME orderly, NEW t \in Sessions, t # s PROVE OrderlyAt(t)'
  <2>1. OrderlyAt(t) BY <1>1, <1>23 DEF OrderlyInv
  <2> QED BY <1>2, <1>5, <1>8, <1>23, <2>1, OrderlyFrame
<1>24. OrderlyInv' BY <1>2, <1>22, <1>23 DEF OrderlyInv
<1> QED BY <1>11, <1>13, <1>14, <1>15, <1>16, <1>17, <1>18, <1>20, <1>21, <1>24 DEF UploadInv

-----------------------------------------------------------------------------
(* Reads that leave the upload alone *)

\* The head an orderly client sent is one.
LEMMA HeadParses ==
  ASSUME NEW s, NEW i
  PROVE  Parses(HeadTokens(s, i))
<1>1. Len(HeadTokens(s, i)) = 2 /\ HeadTokens(s, i)[1] = Token("head1", s, i)
      /\ HeadTokens(s, i)[2] = Token("head2", s, i)
  BY DEF HeadTokens
<1>2. Token("head1", s, i).kind = "head1" /\ Token("head2", s, i).kind = "head2" BY DEF Token
<1> QED BY <1>1, <1>2 DEF Parses, IsObject

\* A piece of a file is taken for an HTTP request: it is lost, and the count stays behind.
LEMMA HttpRequestInv ==
  ASSUME UploadInv, NEW s \in Sessions, NEW n, HttpRequest(s, n)
  PROVE  UploadInv'
<1>1. TypesInv /\ TypeOK /\ ClientInv /\ OrderlyInv
  BY DEF UploadInv, TypesInv, HttpRequest, CanRead
<1>2. /\ CanRead(s, n) /\ Consume(s, n) /\ ~Parses(Received(s, n))
      /\ UNCHANGED <<sessVars, fileVars, env>>
      /\ UNCHANGED <<script, orderly, up, unsent, client>>
  BY DEF HttpRequest, clientVars, env, fixed
<1>3. /\ ~exited
      /\ inflight[s] \in Seq(Seq(Sent(script))) /\ Len(inflight[s]) > 0
      /\ orderly => Received(s, n) = inflight[s][1]
  BY <1>1, <1>2, ReadFacts
<1>4. /\ inflight' \in [Sessions -> Seq(Seq(Sent(script')))]
      /\ \A t \in Sessions : t # s => inflight'[t] = inflight[t]
      /\ orderly => inflight'[s] = SubSeq(inflight[s], 2, Len(inflight[s]))
  BY <1>1, <1>2, ConsumeFacts
<1>5. TypesInv' BY <1>1, <1>2, <1>4, QuietTypes DEF TypeOK
<1>6. FilesInv' BY <1>2, <1>3, QuietStep
<1>7. ClientInv' BY <1>1, <1>2 DEF ClientInv
<1>8. ASSUME orderly PROVE OrderlyAt(s)'
  <2> DEFINE q == inflight[s]
             b == BytesOf(script[s][up[s]], s, up[s])
             p == SubSeq(q, 2, Len(q))
  <2>1. inflight'[s] = p /\ q[1] = Received(s, n) BY <1>3, <1>4, <1>8
  <2>2. OrderlyAt(s) BY <1>1, <1>8 DEF OrderlyInv
  <2>3. UNCHANGED <<m_fp, pos, buffer, m_offset, m_filesize, overlapped, disk>>
    BY <1>2 DEF sessVars, fileVars
  <2>4. CASE client[s] = "ready" BY <1>3, <2>2, <2>4 DEF OrderlyAt
  <2>5. CASE client[s] = "failed"
    <3>1. NoHeads(q) /\ m_fp[s] = NoFile BY <2>2, <2>5 DEF OrderlyAt
    <3>2. NoHeads(p) BY <1>3, <3>1, NoHeadsRead
    <3> QED BY <1>2, <2>1, <2>3, <2>5, <3>1, <3>2 DEF OrderlyAt
  <2>6. CASE client[s] = "busy" /\ m_fp[s] = NoFile
    <3>1. HeadInTransit(b, HeadTokens(s, up[s]), unsent[s], q) BY <2>2, <2>6 DEF OrderlyAt
    <3>2. q[1] = HeadTokens(s, up[s]) BY <3>1 DEF HeadInTransit
    <3> QED BY <1>2, <2>1, <3>2, HeadParses
  <2>7. CASE client[s] = "busy" /\ m_fp[s] # NoFile
    <3>1. up[s] \in DOMAIN script[s] /\ unsent[s] \in 0 .. Len(b) BY <1>1, <2>7 DEF ClientInv
    <3>2. b \in Seq(Sent(script)) BY <1>1, <3>1, BytesFacts DEF TypesInv
    <3>3. /\ m_filesize[s] = Len(b)
          /\ m_offset[s] = pos[s] + Len(buffer[s])
          /\ Arriving(b, unsent[s], q, m_offset[s], ~overlapped[s], disk[m_fp[s]], buffer[s])
      BY <2>2, <2>7 DEF OrderlyAt
    <3> HIDE DEF b, q
    <3>4. PICK start \in m_offset[s] .. Len(b) : InTransit(b, unsent[s], q, start)
      BY <3>3 DEF Arriving
    <3>5. PICK e \in 0 .. Len(b) : start \in Nat /\ start < e /\ InTransit(b, unsent[s], p, e)
      BY <1>3, <3>1, <3>2, <3>4, InTransitRead DEF q
    <3>6. e \in m_offset[s] .. Len(b) /\ e # m_offset[s]
      <4>1. m_offset[s] \in Int BY <1>1 DEF TypeOK
      <4> QED BY <3>4, <3>5, <4>1
    <3>7. Arriving(b, unsent[s], p, m_offset[s], ~overlapped[s], disk[m_fp[s]], buffer[s])
      BY <3>5, <3>6 DEF Arriving
    <3> QED BY <1>2, <2>1, <2>3, <2>7, <3>3, <3>7 DEF OrderlyAt, b
  <2>8. CASE client[s] = "gone" BY <1>2, <2>8 DEF OrderlyAt
  <2>9. client[s] \in {"ready", "busy", "failed", "gone"} BY <1>1 DEF TypeOK
  <2> QED BY <2>4, <2>5, <2>6, <2>7, <2>8, <2>9
<1>9. ASSUME orderly, NEW t \in Sessions, t # s PROVE OrderlyAt(t)'
  <2>1. OrderlyAt(t) BY <1>1, <1>9 DEF OrderlyInv
  <2>2. UNCHANGED <<m_fp, pos, buffer, m_offset, m_filesize, overlapped, disk>>
    BY <1>2 DEF sessVars, fileVars
  <2> QED BY <1>2, <1>4, <1>9, <2>1, <2>2, OrderlyFrame
<1>10. OrderlyInv' BY <1>2, <1>8, <1>9 DEF OrderlyInv
<1> QED BY <1>5, <1>6, <1>7, <1>10 DEF UploadInv, FilesInv

\* A read that is refused: nothing was open, and nothing is.
Refuses(s, n) ==
  /\ CanRead(s, n)
  /\ m_fp[s] = NoFile
  /\ Consume(s, n)
  /\ Answer(s, FALSE)
  /\ UNCHANGED <<sessVars, fileVars, env>>

\* The three ways to refuse one: their resets change nothing.
LEMMA RefusalFacts ==
  ASSUME UploadInv, NEW s \in Sessions, NEW n,
         HeadInvalid(s, n) \/ HeadOpenFails(s, n) \/ DataNoFile(s, n)
  PROVE  Refuses(s, n)
<1>1. TypeOK /\ SessionInv /\ buffer \in [Sessions -> Seq(Tokens)] BY DEF UploadInv, TypesInv
<1>2. m_fp[s] = NoFile =>
        ~m_isState[s] /\ pos[s] = 0 /\ buffer[s] = << >> /\ m_offset[s] = 0 /\ m_filesize[s] = 0
  BY <1>1 DEF SessionInv, StateMatchesFile
<1>3. ~m_isState[s] => m_fp[s] = NoFile BY <1>1 DEF SessionInv, StateMatchesFile
<1>4. m_isState[s] \in BOOLEAN BY <1>1 DEF TypeOK
<1>5. m_fp[s] = NoFile =>
        /\ [m_isState EXCEPT ![s] = FALSE] = m_isState
        /\ [m_fp EXCEPT ![s] = NoFile] = m_fp
        /\ [pos EXCEPT ![s] = 0] = pos
        /\ [buffer EXCEPT ![s] = << >>] = buffer
        /\ [m_offset EXCEPT ![s] = 0] = m_offset
        /\ [m_filesize EXCEPT ![s] = 0] = m_filesize
  <2> SUFFICES ASSUME m_fp[s] = NoFile
               PROVE  /\ [m_isState EXCEPT ![s] = FALSE] = m_isState
                      /\ [m_fp EXCEPT ![s] = NoFile] = m_fp
                      /\ [pos EXCEPT ![s] = 0] = pos
                      /\ [buffer EXCEPT ![s] = << >>] = buffer
                      /\ [m_offset EXCEPT ![s] = 0] = m_offset
                      /\ [m_filesize EXCEPT ![s] = 0] = m_filesize
    OBVIOUS
  <2>1. m_isState[s] = FALSE BY <1>2, <1>4
  <2>2. [m_isState EXCEPT ![s] = FALSE] = m_isState BY <1>1, <2>1 DEF TypeOK
  <2>3. [m_fp EXCEPT ![s] = NoFile] = m_fp BY <1>1 DEF TypeOK
  <2>4. [pos EXCEPT ![s] = 0] = pos BY <1>1, <1>2 DEF TypeOK
  <2>5. [buffer EXCEPT ![s] = << >>] = buffer BY <1>1, <1>2
  <2>6. [m_offset EXCEPT ![s] = 0] = m_offset BY <1>1, <1>2 DEF TypeOK
  <2>7. [m_filesize EXCEPT ![s] = 0] = m_filesize BY <1>1, <1>2 DEF TypeOK
  <2> QED BY <2>2, <2>3, <2>4, <2>5, <2>6, <2>7
<1>6. CASE HeadInvalid(s, n)
  <2>1. m_fp[s] = NoFile BY <1>3, <1>6 DEF HeadInvalid, IsFileHead
  <2> QED BY <1>5, <1>6, <2>1 DEF HeadInvalid, Refuses, sessVars, fileVars, env
<1>7. CASE HeadOpenFails(s, n)
  <2>1. m_fp[s] = NoFile BY <1>3, <1>7 DEF HeadOpenFails, IsFileHead
  <2> QED BY <1>5, <1>7, <2>1 DEF HeadOpenFails, Refuses, sessVars, fileVars, env
<1>8. CASE DataNoFile(s, n)
  <2>1. m_fp[s] = NoFile BY <1>8 DEF DataNoFile
  <2> QED BY <1>5, <1>8, <2>1 DEF DataNoFile, ResetUpload, Refuses, sessVars, fileVars, env
<1> QED BY <1>6, <1>7, <1>8

\* A read that is refused leaves the client failed, and the session as it was.
LEMMA RefusesInv ==
  ASSUME UploadInv, NEW s \in Sessions, NEW n, Refuses(s, n)
  PROVE  UploadInv'
<1>1. TypesInv /\ TypeOK /\ ClientInv /\ OrderlyInv BY DEF UploadInv, TypesInv, Refuses, CanRead
<1>2. /\ CanRead(s, n) /\ Consume(s, n) /\ Answer(s, FALSE) /\ m_fp[s] = NoFile
      /\ UNCHANGED <<sessVars, fileVars, env>>
      /\ script' = script /\ orderly' = orderly
  BY DEF Refuses, env, fixed
<1>3. ~exited /\ inflight[s] \in Seq(Seq(Sent(script))) /\ Len(inflight[s]) > 0 /\ Live(s)
  BY <1>1, <1>2, ReadFacts
<1>4. /\ inflight' \in [Sessions -> Seq(Seq(Sent(script')))]
      /\ \A t \in Sessions : t # s => inflight'[t] = inflight[t]
      /\ orderly => inflight'[s] = SubSeq(inflight[s], 2, Len(inflight[s]))
  BY <1>1, <1>2, ConsumeFacts
<1>5. /\ up' \in [Sessions -> Nat \ {0}]
      /\ unsent' \in [Sessions -> -1 .. IntMax]
      /\ client' \in [Sessions -> {"ready", "busy", "failed", "gone"}]
      /\ \A t \in Sessions : client'[t] = "gone" <=> client[t] = "gone"
      /\ \A t \in Sessions : t # s => client'[t] = client[t] /\ up'[t] = up[t]
      /\ unsent' = unsent
      /\ \A t \in Sessions : client'[t] = "busy" => client[t] = "busy" /\ up'[t] = up[t]
      /\ orderly /\ client[s] = "busy" => client'[s] = "failed"
      /\ client[s] # "busy" => client'[s] = client[s] /\ up'[s] = up[s]
  BY <1>1, <1>2, AnswerFacts
<1>6. TypesInv' BY <1>1, <1>2, <1>4, <1>5, QuietTypes
<1>7. FilesInv' BY <1>2, <1>3, <1>5, QuietStep
<1>8. ClientInv' BY <1>1, <1>2, <1>5 DEF ClientInv
<1>9. ASSUME orderly PROVE OrderlyAt(s)'
  <2> DEFINE q == inflight[s]
             b == BytesOf(script[s][up[s]], s, up[s])
             p == SubSeq(q, 2, Len(q))
  <2>1. inflight'[s] = p BY <1>4, <1>9
  <2>2. OrderlyAt(s) BY <1>1, <1>9 DEF OrderlyInv
  <2>3. m_fp'[s] = NoFile BY <1>2 DEF sessVars
  <2>4. client[s] # "ready" BY <1>3, <2>2 DEF OrderlyAt
  <2>5. CASE client[s] = "failed"
    <3>1. NoHeads(q) BY <2>2, <2>5 DEF OrderlyAt
    <3>2. NoHeads(p) BY <1>3, <3>1, NoHeadsRead
    <3> QED BY <1>5, <2>1, <2>3, <2>5, <3>2 DEF OrderlyAt
  <2>6. CASE client[s] = "busy"
    <3>1. InTransit(b, unsent[s], p, 0) BY <1>2, <2>2, <2>6 DEF OrderlyAt, HeadInTransit
    <3>2. up[s] \in DOMAIN script[s] BY <1>1, <2>6 DEF ClientInv
    <3>3. b \in Seq(Sent(script)) /\ \A k \in 1 .. Len(b) : b[k].kind # "head1"
      BY <1>1, <3>2, BytesFacts DEF TypesInv
    <3>4. p \in Seq(Seq(Sent(script))) BY <1>3, RestFacts
    <3> HIDE DEF b, p
    <3>5. NoHeads(p) BY <3>1, <3>3, <3>4, InTransitNoHeads
    <3> QED BY <1>5, <1>9, <2>1, <2>3, <2>6, <3>5 DEF OrderlyAt
  <2>7. client[s] \in {"ready", "busy", "failed", "gone"} BY <1>1 DEF TypeOK
  <2> QED BY <1>3, <2>4, <2>5, <2>6, <2>7 DEF Live
<1>10. ASSUME orderly, NEW t \in Sessions, t # s PROVE OrderlyAt(t)'
  <2>1. OrderlyAt(t) BY <1>1, <1>10 DEF OrderlyInv
  <2>2. UNCHANGED <<m_fp, pos, buffer, m_offset, m_filesize, overlapped, disk>>
    BY <1>2 DEF sessVars, fileVars
  <2> QED BY <1>2, <1>4, <1>5, <1>10, <2>1, <2>2, OrderlyFrame
<1>11. OrderlyInv' BY <1>2, <1>9, <1>10 DEF OrderlyInv
<1> QED BY <1>6, <1>7, <1>8, <1>11 DEF UploadInv, FilesInv

-----------------------------------------------------------------------------
(* Heads *)

\* Before exit() a file that is settled is as it was, and served.
LEMMA KeptIsServed ==
  ASSUME KeptInv'
  PROVE  StoredIsKept'
<1>1. StoredStays' BY DEF KeptInv, Settled, StoredStays
<1>2. ASSUME NEW f \in Names \ Videos, kept'[f] # NoFile, rivals'[f] = {}
      PROVE  OnHttpResponse(f, FALSE)' = <<[length |-> Len(kept'[f]), body |-> kept'[f]]>>
  <2>1. disk'[f] = kept'[f] BY <1>2 DEF KeptInv, Settled
  <2> DEFINE x == [length |-> Len(kept'[f]), body |-> kept'[f]]
  <2>2. SendPage(f)' = <<x>> BY <1>2, <2>1 DEF SendPage, SendFileData
  <2>3. OnHttpResponse(f, FALSE)' = << >> \o SendPage(f)' BY <1>2 DEF OnHttpResponse
  <2> HIDE DEF x
  <2>4. <<x>> \in Seq({x}) OBVIOUS
  <2>5. << >> \o <<x>> = <<x>> BY <2>4, ConcatEmptySeq
  <2> QED BY <2>2, <2>3, <2>5 DEF x
<1>3. StoredIsServed' BY <1>2 DEF StoredIsServed
<1> QED BY <1>1, <1>3 DEF StoredIsKept

\* What a head announces is an upload.
LEMMA AnnouncedFacts ==
  ASSUME TypesInv, NEW r \in Seq(Sent(script)), IsObject(r)
  PROVE  Announced(r) \in Uploads
<1>1. r[1] \in Sent(script) BY DEF IsObject
<1>2. r[1].from \in Sessions /\ r[1].up \in DOMAIN script[r[1].from] BY <1>1 DEF Sent
<1>3. script \in [Sessions -> Seq(Uploads)] BY DEF TypesInv
<1> DEFINE from == r[1].from
           u == r[1].up
<1> HIDE DEF from, u
<1>4. script[from] \in Seq(Uploads) BY <1>2, <1>3 DEF from
<1>5. u \in DOMAIN script[from] BY <1>2 DEF from, u
<1>6. script[from][u] \in Uploads BY <1>4, <1>5
<1> QED BY <1>6 DEF Announced, from, u

\* A head is accepted: the file starts empty, and whoever else has it open is told.
LEMMA HeadOpensInv ==
  ASSUME UploadInv, NEW s \in Sessions, NEW n, HeadOpens(s, n)
  PROVE  UploadInv'
<1>1. /\ TypesInv /\ TypeOK /\ ClientInv /\ OrderlyInv /\ ~exited /\ FilesExist /\ SessionInv
      /\ LeaksOnlyAbandoned /\ StoredCompletely /\ SharedIsMarked /\ AloneInv
      /\ CountInv /\ KeptInv
  BY DEF UploadInv, TypesInv, HeadOpens, CanRead
<1> DEFINE r == Received(s, n)
           f == Announced(r).name
           size == Announced(r).size
<1>2. /\ CanRead(s, n) /\ Consume(s, n) /\ ~m_isState[s] /\ IsObject(r) /\ size # -1
      /\ m_fp' = [m_fp EXCEPT ![s] = f]
      /\ m_filesize' = [m_filesize EXCEPT ![s] = size]
      /\ disk' = [disk EXCEPT ![f] = << >>]
      /\ kept' = [kept EXCEPT ![f] = NoFile]
      /\ rivals' = [rivals EXCEPT ![f] = {}]
      /\ overlapped' = [t \in Sessions |->
           IF t = s THEN Sharing(s, f) # {} ELSE overlapped[t] \/ t \in Sharing(s, f)]
      /\ pos' = [pos EXCEPT ![s] = 0]
      /\ m_isState' = [m_isState EXCEPT ![s] = TRUE]
      /\ UNCHANGED <<orderly, script, up, unsent, client, buffer, m_offset, converted, leaked,
                     stored, exited>>
  BY DEF HeadOpens, IsFileHead, clientVars, env, fixed
<1>3. /\ Live(s) /\ r \in Seq(Sent(script))
      /\ inflight[s] \in Seq(Seq(Sent(script))) /\ Len(inflight[s]) > 0
      /\ orderly => r = inflight[s][1]
  BY <1>1, <1>2, ReadFacts
<1>4. /\ inflight' \in [Sessions -> Seq(Seq(Sent(script')))]
      /\ \A t \in Sessions : t # s => inflight'[t] = inflight[t]
      /\ orderly => inflight'[s] = SubSeq(inflight[s], 2, Len(inflight[s]))
  BY <1>1, <1>2, ConsumeFacts
<1>5. Announced(r) \in Uploads BY <1>1, <1>2, <1>3, AnnouncedFacts
<1>6. f \in Names /\ f # NoFile /\ size \in 0 .. IntMax
  BY <1>2, <1>5, NoFileAssumption, LimitsAssumption DEF Uploads
<1>7. /\ m_fp[s] = NoFile /\ pos[s] = 0 /\ buffer[s] = << >> /\ m_offset[s] = 0
  BY <1>1, <1>2 DEF SessionInv, StateMatchesFile
<1> HIDE DEF r, f, size
<1>8. /\ m_fp \in [Sessions -> Names \cup {NoFile}] /\ pos \in [Sessions -> Nat]
      /\ m_filesize \in [Sessions -> 0 .. IntMax] /\ m_isState \in [Sessions -> BOOLEAN]
      /\ overlapped \in [Sessions -> BOOLEAN]
      /\ disk \in [Names -> Contents] /\ kept \in [Names -> Contents]
      /\ rivals \in [Names -> SUBSET Sessions]
  BY <1>1 DEF TypesInv, TypeOK
<1>9. /\ m_fp'[s] = f /\ m_filesize'[s] = size /\ pos'[s] = 0 /\ m_isState'[s] = TRUE
      /\ \A t \in Sessions : t # s =>
           /\ m_fp'[t] = m_fp[t] /\ m_filesize'[t] = m_filesize[t] /\ pos'[t] = pos[t]
           /\ m_isState'[t] = m_isState[t]
  BY <1>2, <1>8
<1>10. disk'[f] = << >> /\ kept'[f] = NoFile
       /\ \A g \in Names : g # f => disk'[g] = disk[g] /\ kept'[g] = kept[g] /\ rivals'[g] = rivals[g]
  BY <1>2, <1>6, <1>8
<1>11. \A t \in Sessions : t \in Sharing(s, f) <=> t # s /\ m_fp[t] = f /\ Live(t)
  BY DEF Sharing, Live
<1>12. /\ overlapped'[s] <=> Sharing(s, f) # {}
       /\ \A t \in Sessions : t # s =>
            (overlapped'[t] <=> overlapped[t] \/ (m_fp[t] = f /\ Live(t)))
  BY <1>2, <1>11
<1>13. TypesInv'
  <2>1. /\ m_fp' \in [Sessions -> Names \cup {NoFile}] /\ pos' \in [Sessions -> Nat]
        /\ m_filesize' \in [Sessions -> 0 .. IntMax] /\ m_isState' \in [Sessions -> BOOLEAN]
    BY <1>2, <1>6, <1>8
  <2>2. overlapped' \in [Sessions -> BOOLEAN] BY <1>2, <1>8
  <2>3. << >> \in Contents /\ NoFile \in Contents BY DEF Contents
  <2>4. /\ disk' \in [Names -> Contents] /\ kept' \in [Names -> Contents]
        /\ rivals' \in [Names -> SUBSET Sessions]
    BY <1>2, <1>6, <1>8, <2>3
  <2>5. \A g \in Names : disk'[g] # NoFile => disk'[g] \in Seq(Tokens)
    BY <2>4 DEF Contents
  <2>6. TypeOK' BY <1>1, <1>2, <2>1, <2>2, <2>5 DEF TypeOK, Tokens
  <2> QED BY <1>1, <1>2, <1>4, <2>4, <2>6 DEF TypesInv
<1>14. FilesExist'
  <2>1. << >> \in Seq(Tokens) OBVIOUS
  <2>2. \A g \in Names : disk[g] \in Seq(Tokens) => disk'[g] \in Seq(Tokens) BY <1>10, <2>1
  <2>3. ASSUME NEW t \in Sessions, m_fp'[t] # NoFile PROVE disk'[m_fp'[t]] \in Seq(Tokens)
    <3>1. CASE t = s BY <1>9, <1>10, <2>1, <3>1
    <3>2. CASE t # s
      <4>1. m_fp[t] # NoFile /\ m_fp'[t] = m_fp[t] BY <1>9, <2>3, <3>2
      <4>2. m_fp[t] \in Names /\ disk[m_fp[t]] \in Seq(Tokens)
        BY <1>1, <1>8, <4>1 DEF FilesExist
      <4> QED BY <2>2, <4>1, <4>2
    <3> QED BY <3>1, <3>2
  <2>4. ASSUME NEW l \in leaked' PROVE disk'[l.name] \in Seq(Tokens)
    <3>1. l \in leaked BY <1>2
    <3>2. l.name \in Names BY <1>1, <3>1 DEF TypesInv, StreamType
    <3>3. disk[l.name] \in Seq(Tokens) BY <1>1, <3>1 DEF FilesExist
    <3> QED BY <2>2, <3>2, <3>3
  <2> QED BY <2>3, <2>4 DEF FilesExist
<1>15. SessionInv'
  <2>1. ASSUME NEW t \in Sessions
        PROVE  /\ m_isState'[t] <=> m_fp'[t] # NoFile
               /\ ~m_isState'[t] => m_offset'[t] = 0 /\ m_filesize'[t] = 0
               /\ m_fp'[t] = NoFile => pos'[t] = 0 /\ buffer'[t] = << >>
    <3>1. CASE t = s BY <1>6, <1>9, <3>1
    <3>2. CASE t # s BY <1>1, <1>2, <1>9, <3>2 DEF SessionInv, StateMatchesFile
    <3> QED BY <3>1, <3>2
  <2> QED BY <2>1 DEF SessionInv, StateMatchesFile
<1>16. LeaksOnlyAbandoned' BY <1>1, <1>2 DEF LeaksOnlyAbandoned
<1>17. StoredCompletely'
  BY <1>1, <1>2 DEF StoredCompletely, StoredAtLeastAnnounced, StoredExactly, Body
<1>18. KeptInv'
  <2>1. ASSUME NEW g \in Names, Settled(g)'
        PROVE  disk'[g] = kept'[g] /\ \A t \in Sessions : Live(t)' => m_fp'[t] # g
    <3>1. g # f /\ Settled(g) BY <1>10, <2>1 DEF Settled
    <3>2. disk[g] = kept[g] /\ \A t \in Sessions : Live(t) => m_fp[t] # g
      BY <1>1, <3>1 DEF KeptInv
    <3>3. \A t \in Sessions : Live(t)' <=> Live(t) BY <1>2 DEF Live
    <3> QED BY <1>9, <1>10, <3>1, <3>2, <3>3
  <2> QED BY <2>1 DEF KeptInv
<1>19. StoredIsKept' BY <1>18, KeptIsServed
<1>20. \A t \in Sessions : Live(t)' <=> Live(t) BY <1>2 DEF Live
<1>21. SharedIsMarked'
  <2>1. ASSUME NEW t \in Sessions, NEW v \in Sessions, t # v, Live(t), Live(v),
               m_fp'[t] # NoFile, m_fp'[t] = m_fp'[v]
        PROVE  overlapped'[t]
    <3>1. CASE t = s
      <4>1. v # s /\ m_fp[v] = f BY <1>9, <2>1, <3>1
      <4>2. v \in Sharing(s, f) BY <1>11, <2>1, <4>1
      <4> QED BY <1>12, <3>1, <4>2
    <3>2. CASE v = s
      <4>1. t # s /\ m_fp[t] = f BY <1>9, <2>1, <3>2
      <4> QED BY <1>12, <2>1, <4>1
    <3>3. CASE t # s /\ v # s
      <4>1. m_fp[t] # NoFile /\ m_fp[t] = m_fp[v] BY <1>9, <2>1, <3>3
      <4>2. overlapped[t] BY <1>1, <2>1, <4>1 DEF SharedIsMarked
      <4> QED BY <1>12, <3>3, <4>2
    <3> QED BY <3>1, <3>2, <3>3
  <2> QED BY <1>20, <2>1 DEF SharedIsMarked
<1>22. \A t \in Sessions : t # s /\ Live(t) /\ m_fp[t] # NoFile /\ ~overlapped'[t] =>
         ~overlapped[t] /\ disk'[m_fp[t]] = disk[m_fp[t]]
  BY <1>8, <1>10, <1>12
<1>23. AloneInv'
  <2>1. ASSUME NEW t \in Sessions, Live(t), m_fp'[t] # NoFile, ~overlapped'[t]
        PROVE  Len(disk'[m_fp'[t]]) = pos'[t]
    <3>1. CASE t = s BY <1>9, <1>10, <3>1
    <3>2. CASE t # s BY <1>1, <1>9, <1>22, <2>1, <3>2 DEF AloneInv
    <3> QED BY <3>1, <3>2
  <2> QED BY <1>20, <2>1 DEF AloneInv
<1>24. CountInv'
  <2>1. ASSUME NEW t \in Sessions PROVE m_offset'[t] <= pos'[t] + Len(buffer'[t])
    <3>1. CASE t = s
      <4>1. m_offset'[t] = 0 /\ pos'[t] = 0 /\ buffer'[t] = << >> BY <1>2, <1>7, <1>9, <3>1
      <4> QED BY <4>1
    <3>2. CASE t # s BY <1>1, <1>2, <1>9, <3>2 DEF CountInv
    <3> QED BY <3>1, <3>2
  <2> QED BY <2>1 DEF CountInv
<1>25. ClientInv' BY <1>1, <1>2 DEF ClientInv
<1>26. ASSUME orderly PROVE OrderlyAt(s)'
  <2> DEFINE q == inflight[s]
             b == BytesOf(script[s][up[s]], s, up[s])
             p == SubSeq(q, 2, Len(q))
  <2>1. inflight'[s] = p /\ q[1] = r BY <1>3, <1>4, <1>26
  <2>2. OrderlyAt(s) BY <1>1, <1>26 DEF OrderlyInv
  <2>3. client[s] # "ready" BY <1>3, <2>2 DEF OrderlyAt
  <2>4. client[s] # "failed"
    <3>1. r[1].kind = "head1" BY <1>2 DEF IsObject
    <3>2. 1 \in 1 .. Len(q) BY <1>3
    <3> QED BY <2>1, <2>2, <3>1, <3>2 DEF OrderlyAt, NoHeads
  <2>5. client[s] \in {"ready", "busy", "failed", "gone"} BY <1>1 DEF TypeOK
  <2>6. client[s] = "busy" BY <1>3, <2>3, <2>4, <2>5 DEF Live
  <2>7. HeadInTransit(b, HeadTokens(s, up[s]), unsent[s], q)
    BY <1>7, <2>2, <2>6 DEF OrderlyAt
  <2>8. r = HeadTokens(s, up[s]) /\ InTransit(b, unsent[s], p, 0)
    BY <2>1, <2>7 DEF HeadInTransit
  <2>9. r[1].from = s /\ r[1].up = up[s] BY <2>8 DEF HeadTokens, Token
  <2>10. size = script[s][up[s]].size BY <2>9 DEF size, Announced
  <2>11. up[s] \in DOMAIN script[s] BY <1>1, <2>6 DEF ClientInv
  <2>12. b \in Seq(Sent(script))
         /\ Len(b) = IF script[s][up[s]].size > 0 THEN script[s][up[s]].size ELSE 0
    BY <1>1, <2>11, BytesFacts DEF TypesInv
  <2>13. size = Len(b) BY <1>6, <2>10, <2>12
  <2> HIDE DEF b
  <2>14. << >> \o << >> = SubSeq(b, 1, 0)
    <3>1. SubSeq(b, 1, 0) = << >> BY SubSeqEmpty
    <3>2. << >> \o << >> = << >> BY ConcatEmptySeq
    <3> QED BY <3>1, <3>2
  <2>15. 0 \in 0 .. Len(b) BY <2>12
  <2>16. Arriving(b, unsent[s], p, 0, ~overlapped'[s], << >>, << >>)
    BY <2>8, <2>14, <2>15 DEF Arriving
  <2>17. m_offset'[s] = 0 /\ buffer'[s] = << >> /\ disk'[m_fp'[s]] = << >> /\ 0 = 0 + Len(<< >>)
    BY <1>2, <1>7, <1>9, <1>10
  <2> QED BY <1>2, <1>6, <1>9, <2>1, <2>6, <2>13, <2>16, <2>17 DEF OrderlyAt, b
<1>27. ASSUME orderly, NEW t \in Sessions, t # s PROVE OrderlyAt(t)'
  <2>1. OrderlyAt(t) BY <1>1, <1>27 DEF OrderlyInv
  <2> QED BY <1>2, <1>4, <1>9, <1>22, <1>27, <2>1, OrderlyFrame DEF Live
<1>28. OrderlyInv' BY <1>2, <1>26, <1>27 DEF OrderlyInv
<1> QED BY <1>13, <1>14, <1>15, <1>16, <1>17, <1>18, <1>19, <1>21, <1>23, <1>24, <1>25, <1>28
        DEF UploadInv

-----------------------------------------------------------------------------
(* Data *)

\* x and then y make up z.
Parts(x, y, z) == x \o y = z

\* What a data step does to the files: only the session's own file changes, which is
\* not settled, and nobody who shares it relies on its contents.
LEMMA FlushFacts ==
  ASSUME UploadInv, NEW s \in Sessions, NEW n, IsData(s, n),
         NEW m \in 0 .. Len(Buffered(s, n)), Flush(s, Buffered(s, n), m)
  PROVE  /\ m_fp[s] \in Names /\ disk[m_fp[s]] \in Seq(Tokens) /\ ~Settled(m_fp[s])
         /\ Received(s, n) \in Seq(Tokens) /\ Buffered(s, n) \in Seq(Tokens)
         /\ Len(Buffered(s, n)) = Len(buffer[s]) + Len(Received(s, n))
         /\ disk' \in [Names -> Contents]
         /\ disk'[m_fp[s]] \in Seq(Tokens)
         /\ \A g \in Names : g # m_fp[s] => disk'[g] = disk[g]
         /\ ~overlapped[s] =>
              /\ Len(disk[m_fp[s]]) = pos[s]
              /\ Parts(disk[m_fp[s]], SubSeq(Buffered(s, n), 1, m), disk'[m_fp[s]])
              /\ Len(disk'[m_fp[s]]) = pos[s] + m
         /\ \A t \in Sessions : t # s /\ Live(t) /\ ~(overlapped[s] /\ overlapped[t]) =>
              m_fp[t] # m_fp[s]
<1> DEFINE f == m_fp[s]
           r == Received(s, n)
           bytes == Buffered(s, n)
           x == SubSeq(bytes, 1, m)
<1>1. CanRead(s, n) /\ f # NoFile BY DEF IsData
<1>2. TypesInv /\ TypeOK BY DEF UploadInv, TypesInv
<1>3. ~exited /\ Live(s) /\ r \in Seq(Tokens) BY <1>1, <1>2, ReadFacts
<1>4. FilesExist /\ SharedIsMarked /\ AloneInv /\ KeptInv BY <1>3 DEF UploadInv
<1>5. f \in Names /\ disk[f] \in Seq(Tokens) BY <1>1, <1>2, <1>4 DEF TypeOK, FilesExist
<1>6. ~Settled(f) BY <1>3, <1>4, <1>5 DEF KeptInv
<1>7. buffer[s] \in Seq(Tokens) /\ pos[s] \in Nat /\ disk \in [Names -> Contents]
  BY <1>2 DEF TypesInv, TypeOK
<1>8. bytes \in Seq(Tokens) /\ Len(bytes) = Len(buffer[s]) + Len(r)
  BY <1>3, <1>7, ConcatProperties DEF Buffered
<1> HIDE DEF r, bytes
<1>9. x \in Seq(Tokens) /\ Len(x) = m BY <1>8, Split DEF bytes
<1> HIDE DEF x
<1>10. disk' = [disk EXCEPT ![f] = WriteAt(disk[f], pos[s], x)] BY DEF Flush, x, bytes
<1>11. disk'[f] = WriteAt(disk[f], pos[s], x) BY <1>5, <1>7, <1>10
<1>12. WriteAt(disk[f], pos[s], x) \in Seq(Tokens) BY <1>5, <1>7, <1>9, WriteAtFacts
<1>13. disk' \in [Names -> Contents] BY <1>7, <1>10, <1>12 DEF Contents
<1>14. \A g \in Names : g # f => disk'[g] = disk[g] BY <1>7, <1>10
<1>15. ASSUME ~overlapped[s]
       PROVE  Len(disk[f]) = pos[s] /\ Parts(disk[f], x, disk'[f]) /\ Len(disk'[f]) = pos[s] + m
  <2>1. Len(disk[f]) = pos[s] BY <1>1, <1>3, <1>4, <1>15 DEF AloneInv
  <2>2. disk'[f] = disk[f] \o x BY <1>5, <1>9, <1>11, <2>1, WriteAtEnd
  <2>3. Len(disk[f] \o x) = Len(disk[f]) + Len(x) BY <1>5, <1>9, ConcatProperties
  <2>4. Parts(disk[f], x, disk'[f]) BY <2>2 DEF Parts
  <2> QED BY <1>9, <2>1, <2>2, <2>3, <2>4
<1>16. ASSUME NEW t \in Sessions, t # s, Live(t), m_fp[t] = f PROVE overlapped[s] /\ overlapped[t]
  BY <1>1, <1>3, <1>4, <1>16 DEF SharedIsMarked
<1> QED BY <1>3, <1>5, <1>6, <1>8, <1>11, <1>12, <1>13, <1>14, <1>15, <1>16 DEF r, x, bytes

\* What the parts of the invariant that do not depend on the answer say after an
\* upload has ended.
LEMMA EndOfUpload ==
  ASSUME UploadInv, NEW s \in Sessions, NEW n, IsData(s, n),
         NEW m \in 0 .. Len(Buffered(s, n)), Flush(s, Buffered(s, n), m),
         Consume(s, n), ResetUpload(s), NEW ok \in BOOLEAN, Answer(s, ok),
         UNCHANGED <<leaked, overlapped, env>>, converted' \in SUBSET Videos,
         kept' \in [Names -> Contents], rivals' \in [Names -> SUBSET Sessions]
  PROVE  /\ TypesInv' /\ FilesExist' /\ SessionInv' /\ LeaksOnlyAbandoned' /\ SharedIsMarked'
         /\ AloneInv' /\ CountInv' /\ ClientInv'
         /\ \A t \in Sessions : Live(t)' <=> Live(t)
         /\ m_fp'[s] = NoFile /\ \A t \in Sessions : t # s => m_fp'[t] = m_fp[t]
         /\ orderly => \A t \in Sessions : t # s => OrderlyAt(t)'
<1> DEFINE f == m_fp[s]
<1>1. CanRead(s, n) /\ f # NoFile /\ TypesInv /\ TypeOK BY DEF IsData, UploadInv, TypesInv
<1>2. ~exited /\ Live(s) BY <1>1, ReadFacts
<1>3. /\ FilesExist /\ SessionInv /\ LeaksOnlyAbandoned /\ SharedIsMarked /\ AloneInv
      /\ CountInv /\ ClientInv /\ OrderlyInv
  BY <1>2 DEF UploadInv
<1>4. script' = script /\ orderly' = orderly /\ exited' = exited BY DEF env, fixed
<1>5. /\ f \in Names
      /\ disk' \in [Names -> Contents] /\ disk'[f] \in Seq(Tokens)
      /\ \A g \in Names : g # f => disk'[g] = disk[g]
      /\ \A t \in Sessions : t # s /\ Live(t) /\ ~(overlapped[s] /\ overlapped[t]) => m_fp[t] # f
  BY FlushFacts
<1>6. /\ inflight' \in [Sessions -> Seq(Seq(Sent(script')))]
      /\ \A t \in Sessions : t # s => inflight'[t] = inflight[t]
  BY <1>1, <1>4, ConsumeFacts
<1>7. /\ up' \in [Sessions -> Nat \ {0}]
      /\ unsent' \in [Sessions -> -1 .. IntMax]
      /\ client' \in [Sessions -> {"ready", "busy", "failed", "gone"}]
      /\ \A t \in Sessions : client'[t] = "gone" <=> client[t] = "gone"
      /\ \A t \in Sessions : t # s => client'[t] = client[t] /\ up'[t] = up[t]
      /\ unsent' = unsent
      /\ \A t \in Sessions : client'[t] = "busy" => client[t] = "busy" /\ up'[t] = up[t]
  BY <1>1, AnswerFacts
<1>8. /\ m_fp \in [Sessions -> Names \cup {NoFile}] /\ pos \in [Sessions -> Nat]
      /\ m_filesize \in [Sessions -> 0 .. IntMax] /\ m_isState \in [Sessions -> BOOLEAN]
      /\ m_offset \in [Sessions -> -(IntMax + 1) .. IntMax]
      /\ buffer \in [Sessions -> Seq(Tokens)]
  BY <1>1 DEF TypesInv, TypeOK
<1>9. /\ m_fp' = [m_fp EXCEPT ![s] = NoFile] /\ m_isState' = [m_isState EXCEPT ![s] = FALSE]
      /\ m_offset' = [m_offset EXCEPT ![s] = 0] /\ m_filesize' = [m_filesize EXCEPT ![s] = 0]
      /\ pos' = [pos EXCEPT ![s] = 0] /\ buffer' = [buffer EXCEPT ![s] = << >>]
  BY DEF ResetUpload
<1> HIDE DEF f
<1>10. /\ m_fp'[s] = NoFile /\ m_isState'[s] = FALSE /\ m_offset'[s] = 0 /\ m_filesize'[s] = 0
       /\ pos'[s] = 0 /\ buffer'[s] = << >>
       /\ \A t \in Sessions : t # s =>
            /\ m_fp'[t] = m_fp[t] /\ m_filesize'[t] = m_filesize[t] /\ pos'[t] = pos[t]
            /\ m_isState'[t] = m_isState[t] /\ m_offset'[t] = m_offset[t]
            /\ buffer'[t] = buffer[t]
  BY <1>8, <1>9
<1>11. \A t \in Sessions : Live(t)' <=> Live(t) BY <1>7 DEF Live
<1>12. TypesInv'
  <2>1. 0 \in 0 .. IntMax /\ 0 \in -(IntMax + 1) .. IntMax /\ 0 \in Nat /\ << >> \in Seq(Tokens)
    BY LimitsAssumption
  <2>2. /\ m_fp' \in [Sessions -> Names \cup {NoFile}] /\ pos' \in [Sessions -> Nat]
        /\ m_filesize' \in [Sessions -> 0 .. IntMax] /\ m_isState' \in [Sessions -> BOOLEAN]
    BY <1>8, <1>9, <2>1
  <2>3. m_offset' \in [Sessions -> -(IntMax + 1) .. IntMax] BY <1>8, <1>9, <2>1
  <2>4. buffer' \in [Sessions -> Seq(Tokens)] BY <1>8, <1>9, <2>1
  <2>5. \A g \in Names : disk'[g] # NoFile => disk'[g] \in Seq(Tokens) BY <1>5 DEF Contents
  <2>6. TypeOK' BY <1>1, <1>4, <1>7, <2>2, <2>3, <2>5 DEF TypeOK, Tokens
  <2> QED BY <1>1, <1>4, <1>5, <1>6, <2>4, <2>6 DEF TypesInv
<1>13. FilesExist'
  <2>1. \A g \in Names : disk[g] \in Seq(Tokens) => disk'[g] \in Seq(Tokens) BY <1>5
  <2>2. ASSUME NEW t \in Sessions, m_fp'[t] # NoFile PROVE disk'[m_fp'[t]] \in Seq(Tokens)
    <3>1. t # s /\ m_fp[t] # NoFile /\ m_fp'[t] = m_fp[t] BY <1>10, <2>2
    <3>2. m_fp[t] \in Names /\ disk[m_fp[t]] \in Seq(Tokens) BY <1>3, <1>8, <3>1 DEF FilesExist
    <3> QED BY <2>1, <3>1, <3>2
  <2>3. ASSUME NEW l \in leaked' PROVE disk'[l.name] \in Seq(Tokens)
    <3>1. l \in leaked OBVIOUS
    <3>2. l.name \in Names BY <1>1, <3>1 DEF TypesInv, StreamType
    <3>3. disk[l.name] \in Seq(Tokens) BY <1>3, <3>1 DEF FilesExist
    <3> QED BY <2>1, <3>2, <3>3
  <2> QED BY <2>2, <2>3 DEF FilesExist
<1>14. SessionInv'
  <2>1. ASSUME NEW t \in Sessions
        PROVE  /\ m_isState'[t] <=> m_fp'[t] # NoFile
               /\ ~m_isState'[t] => m_offset'[t] = 0 /\ m_filesize'[t] = 0
               /\ m_fp'[t] = NoFile => pos'[t] = 0 /\ buffer'[t] = << >>
    <3>1. CASE t = s BY <1>10, <3>1
    <3>2. CASE t # s BY <1>3, <1>10, <3>2 DEF SessionInv, StateMatchesFile
    <3> QED BY <3>1, <3>2
  <2> QED BY <2>1 DEF SessionInv, StateMatchesFile
<1>15. LeaksOnlyAbandoned'
  <2>1. \A l \in leaked : l.sess \in Sessions BY <1>1 DEF TypesInv, StreamType
  <2> QED BY <1>3, <1>7, <2>1 DEF LeaksOnlyAbandoned
<1>16. SharedIsMarked'
  <2>1. ASSUME NEW t \in Sessions, NEW v \in Sessions, t # v, Live(t), Live(v),
               m_fp'[t] # NoFile, m_fp'[t] = m_fp'[v]
        PROVE  overlapped'[t]
    <3>1. t # s /\ v # s BY <1>10, <2>1
    <3>2. m_fp[t] # NoFile /\ m_fp[t] = m_fp[v] BY <1>10, <2>1, <3>1
    <3>3. overlapped[t] BY <1>3, <2>1, <3>2 DEF SharedIsMarked
    <3> QED BY <3>3
  <2> QED BY <1>11, <2>1 DEF SharedIsMarked
<1>17. \A t \in Sessions : t # s /\ Live(t) /\ m_fp[t] # NoFile /\ ~overlapped[t] =>
         disk'[m_fp[t]] = disk[m_fp[t]]
  BY <1>5, <1>8
<1>18. AloneInv'
  <2>1. ASSUME NEW t \in Sessions, Live(t), m_fp'[t] # NoFile, ~overlapped[t]
        PROVE  Len(disk'[m_fp'[t]]) = pos'[t]
    <3>1. t # s BY <1>10, <2>1
    <3> QED BY <1>3, <1>10, <1>17, <2>1, <3>1 DEF AloneInv
  <2> QED BY <1>11, <2>1 DEF AloneInv
<1>19. CountInv'
  <2>1. ASSUME NEW t \in Sessions PROVE m_offset'[t] <= pos'[t] + Len(buffer'[t])
    <3>1. CASE t = s
      <4>1. m_offset'[t] = 0 /\ pos'[t] = 0 /\ buffer'[t] = << >> BY <1>10, <3>1
      <4> QED BY <4>1
    <3>2. CASE t # s BY <1>3, <1>10, <3>2 DEF CountInv
    <3> QED BY <3>1, <3>2
  <2> QED BY <2>1 DEF CountInv
<1>20. ClientInv' BY <1>3, <1>4, <1>7 DEF ClientInv
<1>21. ASSUME orderly, NEW t \in Sessions, t # s PROVE OrderlyAt(t)'
  <2>1. OrderlyAt(t) BY <1>3, <1>21 DEF OrderlyInv
  <2>2. overlapped' = overlapped /\ unsent'[t] = unsent[t] BY <1>7
  <2> QED BY <1>4, <1>6, <1>7, <1>10, <1>17, <1>21, <2>1, <2>2, OrderlyFrame DEF Live
<1> QED BY <1>10, <1>11, <1>12, <1>13, <1>14, <1>15, <1>16, <1>18, <1>19, <1>20, <1>21

\* What is appended in two parts is appended.
LEMMA AppendParts ==
  ASSUME NEW S, NEW a, NEW x, NEW y, NEW z, Three(S, a, x, y), Parts(x, y, z)
  PROVE  (a \o x) \o y = a \o z
<1>1. (a \o x) \o y = a \o (x \o y) BY Associative
<1> QED BY <1>1 DEF Parts

\* The file a was to get u and then v; it gets the same bytes cut elsewhere.
LEMMA CutElsewhere ==
  ASSUME NEW S, NEW a, NEW u, NEW v, NEW x, NEW y, NEW z, NEW c, NEW d,
         Three(S, a, x, y), Three(S, a, u, v), Parts(x, y, z), Parts(u, v, z),
         Parts(a, u, c), Parts(c, v, d)
  PROVE  Parts(a \o x, y, d)
<1>1. (a \o x) \o y = a \o z BY AppendParts
<1>2. (a \o u) \o v = a \o z BY AppendParts
<1>3. (a \o u) \o v = d BY DEF Parts
<1> QED BY <1>1, <1>2, <1>3 DEF Parts

\* Of b the first i bytes are in the file and in the buffer, and the read brings the
\* bytes up to e.
Grows(file, buf, b, i, e, bytes) ==
  /\ i <= e /\ e <= Len(b)
  /\ file \o buf = SubSeq(b, 1, i)
  /\ bytes = buf \o SubSeq(b, i + 1, e)

\* Then the first e bytes are, in order, wherever the stream stops writing.
LEMMA Grown ==
  ASSUME NEW file \in Seq(Tokens), NEW buf \in Seq(Tokens), NEW b \in Seq(Tokens),
         NEW i \in Nat, NEW e \in Nat, NEW bytes, Grows(file, buf, b, i, e, bytes),
         NEW m \in 0 .. Len(bytes)
  PROVE  Parts(file \o SubSeq(bytes, 1, m), SubSeq(bytes, m + 1, Len(bytes)), SubSeq(b, 1, e))
<1> DEFINE r == SubSeq(b, i + 1, e)
           front == SubSeq(bytes, 1, m)
           back == SubSeq(bytes, m + 1, Len(bytes))
<1>1. i <= e /\ e <= Len(b) BY DEF Grows
<1>2. r \in Seq(Tokens) /\ SubSeq(b, 1, i) \o r = SubSeq(b, 1, e) BY <1>1, Adjacent
<1>3. bytes = buf \o r /\ file \o buf = SubSeq(b, 1, i) BY DEF Grows
<1> HIDE DEF r
<1>4. buf \o r \in Seq(Tokens) BY <1>2, ConcatProperties
<1>5. bytes \in Seq(Tokens) BY <1>3, <1>4
<1>6. front \in Seq(Tokens) /\ back \in Seq(Tokens) /\ front \o back = bytes BY <1>5, Split
<1> HIDE DEF front, back
<1>7. Three(Tokens, file, front, back) /\ Three(Tokens, file, buf, r) BY <1>2, <1>6 DEF Three
<1>8. /\ Parts(front, back, bytes) /\ Parts(buf, r, bytes) /\ Parts(file, buf, SubSeq(b, 1, i))
      /\ Parts(SubSeq(b, 1, i), r, SubSeq(b, 1, e))
  BY <1>2, <1>3, <1>6 DEF Parts
<1>9. Parts(file \o front, back, SubSeq(b, 1, e)) BY <1>7, <1>8, CutElsewhere
<1> QED BY <1>9 DEF front, back

\* A data read of an orderly client is the next piece of its file that is on its way:
\* bytes start + 1 to e.  If the count reaches the size with it, no piece was lost
\* and it is the last one.
LEMMA OrderlyData ==
  ASSUME UploadInv, NEW s \in Sessions, NEW n, IsData(s, n), orderly
  PROVE  LET b == BytesOf(script[s][up[s]], s, up[s])
             q == inflight[s]
             p == SubSeq(q, 2, Len(q))
             r == Received(s, n)
         IN  /\ client[s] = "busy" /\ b \in Seq(Sent(script)) /\ b \in Seq(Tokens)
             /\ m_filesize[s] = Len(b) /\ m_offset[s] \in Nat
             /\ m_offset[s] = pos[s] + Len(buffer[s])
             /\ NoHeads(p)
             /\ \E start, e \in Nat :
                  /\ m_offset[s] <= start /\ start < e /\ e <= Len(b)
                  /\ r = SubSeq(b, start + 1, e) /\ Len(r) = e - start
                  /\ InTransit(b, unsent[s], p, e)
                  /\ start = m_offset[s] /\ ~overlapped[s] =>
                       disk[m_fp[s]] \o buffer[s] = SubSeq(b, 1, m_offset[s])
                  /\ Wrap(m_offset[s] + Len(r)) = m_offset[s] + (e - start)
                  /\ Complete(s, r) => start = m_offset[s] /\ e = Len(b) /\ p = << >>
<1> DEFINE b == BytesOf(script[s][up[s]], s, up[s])
           q == inflight[s]
           p == SubSeq(q, 2, Len(q))
           r == Received(s, n)
           off == m_offset[s]
<1>1. CanRead(s, n) /\ m_fp[s] # NoFile /\ TypesInv /\ TypeOK BY DEF IsData, UploadInv, TypesInv
<1>2. /\ ~exited /\ Live(s) /\ q \in Seq(Seq(Sent(script))) /\ Len(q) > 0
      /\ r = q[1]
  BY <1>1, ReadFacts
<1>3. ClientInv /\ OrderlyAt(s) BY <1>2 DEF UploadInv, OrderlyInv
<1>4. client[s] = "busy"
  <2>1. client[s] \in {"ready", "busy", "failed", "gone"} BY <1>1 DEF TypeOK
  <2> QED BY <1>1, <1>2, <1>3, <2>1 DEF OrderlyAt, Live
<1>5. up[s] \in DOMAIN script[s] /\ unsent[s] \in 0 .. Len(b) BY <1>3, <1>4 DEF ClientInv
<1>6. b \in Seq(Sent(script)) /\ Len(b) <= IntMax /\ \A k \in 1 .. Len(b) : b[k].kind # "head1"
  BY <1>1, <1>5, BytesFacts DEF TypesInv
<1>7. b \in Seq(Tokens) BY <1>6, SentAreTokens
<1>8. m_filesize[s] = Len(b) /\ off = pos[s] + Len(buffer[s])
      /\ Arriving(b, unsent[s], q, off, ~overlapped[s], disk[m_fp[s]], buffer[s])
  BY <1>1, <1>3, <1>4 DEF OrderlyAt
<1>9. off \in Nat
  <2>1. pos[s] \in Nat /\ buffer[s] \in Seq(Tokens) BY <1>1 DEF TypeOK, TypesInv
  <2> QED BY <1>8, <2>1
<1> HIDE DEF b, q, r, off
<1>10. PICK start \in off .. Len(b) :
         /\ InTransit(b, unsent[s], q, start)
         /\ start = off /\ ~overlapped[s] => disk[m_fp[s]] \o buffer[s] = SubSeq(b, 1, off)
  BY <1>8 DEF Arriving
<1>11. PICK e \in 0 .. Len(b) :
         /\ start \in Nat /\ start < e
         /\ q[1] = SubSeq(b, start + 1, e)
         /\ InTransit(b, unsent[s], p, e)
         /\ e = Len(b) => Len(q) = 1
  BY <1>2, <1>5, <1>6, <1>10, InTransitRead
<1>12. Len(b) \in Nat /\ e \in Nat /\ e <= Len(b) /\ off <= start BY <1>6, <1>9, <1>10, <1>11
<1>13. Len(r) = e - start BY <1>2, <1>6, <1>11, <1>12, Adjacent
<1>14. p \in Seq(Seq(Sent(script))) /\ Len(p) = Len(q) - 1 BY <1>2, RestFacts
<1> HIDE DEF p
<1>15. NoHeads(p) BY <1>6, <1>11, <1>14, InTransitNoHeads
<1>16. Wrap(off + Len(r)) = off + (e - start)
  <2>1. off + Len(r) = off + (e - start) BY <1>13
  <2>2. /\ off + (e - start) \in Int /\ off + (e - start) >= -(IntMax + 1)
        /\ off + (e - start) <= IntMax
    BY <1>6, <1>9, <1>11, <1>12, LimitsAssumption
  <2> QED BY <2>1, <2>2, WrapFacts
<1>17. ASSUME Complete(s, r) PROVE start = off /\ e = Len(b) /\ p = << >>
  <2>1. off + (e - start) >= Len(b) BY <1>8, <1>16, <1>17 DEF Complete, off
  <2>2. start = off /\ e = Len(b) BY <1>9, <1>11, <1>12, <2>1
  <2>3. Len(p) = 0 BY <1>11, <1>14, <2>2
  <2> QED BY <1>14, <2>2, <2>3
<1>18. r = SubSeq(b, start + 1, e) /\ start \in Nat /\ start < e BY <1>2, <1>11
<1> QED BY <1>4, <1>6, <1>7, <1>8, <1>9, <1>10, <1>11, <1>12, <1>13, <1>15, <1>16, <1>17, <1>18
        DEF b, q, p, r, off

\* fwrite fails: the stream is closed and the upload ends.
LEMMA DataWriteFailsInv ==
  ASSUME UploadInv, NEW s \in Sessions, NEW n, DataWriteFails(s, n)
  PROVE  UploadInv'
<1>1. /\ IsData(s, n) /\ Consume(s, n) /\ ResetUpload(s) /\ Answer(s, FALSE)
      /\ UNCHANGED <<converted, leaked, kept, rivals, overlapped, stored, env>>
  BY DEF DataWriteFails
<1>2. CanRead(s, n) /\ TypesInv /\ TypeOK BY <1>1 DEF IsData, UploadInv, TypesInv
<1>3. ~exited /\ Live(s) BY <1>2, ReadFacts
<1>4. script' = script /\ orderly' = orderly BY <1>1 DEF env, fixed
<1>5. PICK m \in 0 .. Len(Buffered(s, n)) : Flush(s, Buffered(s, n), m)
  <2>1. PICK m \in 0 .. Len(Buffered(s, n)) - 1 : Flush(s, Buffered(s, n), m)
    BY DEF DataWriteFails
  <2>2. Buffered(s, n) \in Seq(Tokens)
    <3>1. Received(s, n) \in Seq(Tokens) BY <1>2, ReadFacts
    <3>2. buffer[s] \in Seq(Tokens) BY <1>2 DEF TypesInv
    <3> QED BY <3>1, <3>2, ConcatProperties DEF Buffered
  <2>3. m \in 0 .. Len(Buffered(s, n)) BY <2>2
  <2> QED BY <2>1, <2>3
<1>6. /\ m_fp[s] \in Names /\ ~Settled(m_fp[s])
      /\ \A g \in Names : g # m_fp[s] => disk'[g] = disk[g]
  BY <1>1, <1>5, FlushFacts
<1>7. /\ converted' \in SUBSET Videos /\ kept' \in [Names -> Contents]
      /\ rivals' \in [Names -> SUBSET Sessions]
  BY <1>1, <1>2 DEF TypesInv, TypeOK
<1>8. /\ TypesInv' /\ FilesExist' /\ SessionInv' /\ LeaksOnlyAbandoned' /\ SharedIsMarked'
      /\ AloneInv' /\ CountInv' /\ ClientInv'
      /\ \A t \in Sessions : Live(t)' <=> Live(t)
      /\ m_fp'[s] = NoFile /\ \A t \in Sessions : t # s => m_fp'[t] = m_fp[t]
      /\ orderly => \A t \in Sessions : t # s => OrderlyAt(t)'
  BY <1>1, <1>5, <1>7, EndOfUpload
<1>9. KeptInv'
  <2>1. ASSUME NEW g \in Names, Settled(g)
        PROVE  disk'[g] = kept[g] /\ \A t \in Sessions : Live(t) => m_fp'[t] # g
    <3>1. g # m_fp[s] BY <1>6, <2>1
    <3>2. disk[g] = kept[g] /\ \A t \in Sessions : Live(t) => m_fp[t] # g
      BY <1>3, <2>1 DEF UploadInv, KeptInv
    <3>3. g # NoFile BY NoFileAssumption
    <3> QED BY <1>6, <1>8, <3>1, <3>2, <3>3
  <2> QED BY <1>1, <1>8, <2>1 DEF KeptInv, Settled
<1>10. StoredIsKept' BY <1>9, KeptIsServed
<1>11. StoredCompletely'
  BY <1>1, <1>4 DEF UploadInv, StoredCompletely, StoredAtLeastAnnounced, StoredExactly, Body
<1>12. ASSUME orderly PROVE OrderlyAt(s)'
  <2>1. client[s] = "busy" /\ NoHeads(SubSeq(inflight[s], 2, Len(inflight[s])))
    BY <1>1, <1>12, OrderlyData
  <2>2. client'[s] = "failed" BY <1>1, <1>2, <1>12, <2>1, AnswerFacts
  <2>3. inflight'[s] = SubSeq(inflight[s], 2, Len(inflight[s]))
    BY <1>1, <1>2, <1>4, <1>12, ConsumeFacts
  <2> QED BY <1>8, <2>1, <2>2, <2>3 DEF OrderlyAt
<1>13. OrderlyInv' BY <1>4, <1>8, <1>12 DEF OrderlyInv
<1> QED BY <1>8, <1>9, <1>10, <1>11, <1>13 DEF UploadInv

\* The count reaches the announced size: what is stored is what success promises.
LEMMA DataCompletesInv ==
  ASSUME UploadInv, NEW s \in Sessions, NEW n, DataCompletes(s, n)
  PROVE  UploadInv'
<1> DEFINE f == m_fp[s]
           r == Received(s, n)
           bytes == Buffered(s, n)
           b == BytesOf(script[s][up[s]], s, up[s])
<1>1. /\ IsData(s, n) /\ Complete(s, r) /\ Consume(s, n) /\ ResetUpload(s) /\ Answer(s, TRUE)
      /\ UNCHANGED <<leaked, overlapped, env>>
      /\ (converted' = converted \cup {f} /\ f \in Videos) \/ converted' = converted
  BY DEF DataCompletes
<1>2. CanRead(s, n) /\ TypesInv /\ TypeOK BY <1>1 DEF IsData, UploadInv, TypesInv
<1>3. ~exited /\ Live(s) BY <1>2, ReadFacts
<1>4. script' = script /\ orderly' = orderly BY <1>1 DEF env, fixed
<1>5. PICK m \in 0 .. Len(bytes) :
        /\ Flush(s, bytes, m)
        /\ stored' = stored \cup {[sess |-> s, up |-> up[s], size |-> m_filesize[s],
                                   content |-> disk'[f], flushed |-> (m = Len(bytes)),
                                   overlapped |-> overlapped[s]]}
        /\ kept' = [kept EXCEPT ![f] = IF m = Len(bytes) THEN disk'[f] ELSE NoFile]
        /\ rivals' = [rivals EXCEPT ![f] = Sharing(s, f)]
  BY DEF DataCompletes
<1> DEFINE x == SubSeq(bytes, 1, m)
           y == SubSeq(bytes, m + 1, Len(bytes))
<1>6. /\ f \in Names /\ disk[f] \in Seq(Tokens) /\ ~Settled(f)
      /\ r \in Seq(Tokens) /\ bytes \in Seq(Tokens) /\ Len(bytes) = Len(buffer[s]) + Len(r)
      /\ disk' \in [Names -> Contents] /\ disk'[f] \in Seq(Tokens)
      /\ \A g \in Names : g # f => disk'[g] = disk[g]
      /\ ~overlapped[s] =>
           Len(disk[f]) = pos[s] /\ Parts(disk[f], x, disk'[f]) /\ Len(disk'[f]) = pos[s] + m
      /\ \A t \in Sessions : t # s /\ Live(t) /\ ~(overlapped[s] /\ overlapped[t]) => m_fp[t] # f
  <2>1. IsData(s, n) /\ Flush(s, Buffered(s, n), m) BY <1>1, <1>5
  <2> QED BY <2>1, FlushFacts
<1>7. /\ kept \in [Names -> Contents] /\ converted \in SUBSET Videos
      /\ rivals \in [Names -> SUBSET Sessions] /\ Sharing(s, f) \in SUBSET Sessions
  BY <1>2 DEF TypesInv, TypeOK, Sharing
<1>8. /\ converted' \in SUBSET Videos /\ kept' \in [Names -> Contents]
      /\ rivals' \in [Names -> SUBSET Sessions]
  BY <1>1, <1>5, <1>6, <1>7 DEF Contents
<1>9. /\ TypesInv' /\ FilesExist' /\ SessionInv' /\ LeaksOnlyAbandoned' /\ SharedIsMarked'
      /\ AloneInv' /\ CountInv' /\ ClientInv'
      /\ \A t \in Sessions : Live(t)' <=> Live(t)
      /\ m_fp'[s] = NoFile /\ \A t \in Sessions : t # s => m_fp'[t] = m_fp[t]
      /\ orderly => \A t \in Sessions : t # s => OrderlyAt(t)'
  BY <1>1, <1>5, <1>8, EndOfUpload
<1>10. KeptInv'
  <2>1. ASSUME NEW g \in Names, Settled(g)'
        PROVE  disk'[g] = kept'[g] /\ \A t \in Sessions : Live(t) => m_fp'[t] # g
    <3>1. g # NoFile BY NoFileAssumption
    <3>2. CASE g = f
      <4>1. kept'[f] = disk'[f] /\ Sharing(s, f) = {}
        BY <1>5, <1>6, <1>7, <2>1, <3>2 DEF Settled
      <4>2. \A t \in Sessions : t # s /\ Live(t) => m_fp[t] # f BY <4>1 DEF Sharing, Live
      <4> QED BY <1>9, <3>1, <3>2, <4>1, <4>2
    <3>3. CASE g # f
      <4>1. kept'[g] = kept[g] /\ disk'[g] = disk[g] /\ rivals'[g] = rivals[g]
        BY <1>5, <1>6, <1>7, <3>3
      <4>2. disk[g] = kept[g] /\ \A t \in Sessions : Live(t) => m_fp[t] # g
        BY <1>3, <2>1, <4>1 DEF UploadInv, KeptInv, Settled
      <4> QED BY <1>9, <3>1, <4>1, <4>2
    <3> QED BY <3>2, <3>3
  <2> QED BY <1>9, <2>1 DEF KeptInv
<1>11. StoredIsKept' BY <1>10, KeptIsServed
<1>12. ASSUME ~overlapped[s], m = Len(bytes) PROVE Len(disk'[f]) >= m_filesize[s]
  <2>1. /\ pos[s] \in Nat /\ m_offset[s] \in Int /\ m_offset[s] >= -(IntMax + 1)
        /\ m_filesize[s] \in Int /\ buffer[s] \in Seq(Tokens) /\ IntMax \in Nat
    BY <1>2, LimitsAssumption DEF TypeOK, TypesInv
  <2>2. m_offset[s] <= pos[s] + Len(buffer[s]) BY <1>3 DEF UploadInv, CountInv
  <2> DEFINE k == m_offset[s] + Len(r)
  <2>3. Len(r) \in Nat /\ Len(buffer[s]) \in Nat BY <1>6, <2>1
  <2>4. k \in Int /\ k >= -(IntMax + 1) BY <2>1, <2>3
  <2>5. Wrap(k) >= m_filesize[s] BY <1>1 DEF Complete
  <2>6. k <= pos[s] + Len(bytes)
    <3>1. Len(bytes) = Len(buffer[s]) + Len(r) BY <1>6
    <3> HIDE DEF r, bytes
    <3>2. /\ Len(r) \in Int /\ Len(buffer[s]) \in Int /\ pos[s] \in Int /\ m_offset[s] \in Int
      BY <2>1, <2>3
    <3> QED BY <2>2, <3>1, <3>2
  <2> HIDE DEF k
  <2>7. Wrap(k) <= k /\ Wrap(k) \in Int
    <3>1. Wrap(k) <= k /\ Wrap(k) \in -(IntMax + 1) .. IntMax BY <2>4, WrapFacts
    <3> QED BY <2>1, <3>1
  <2>8. Len(disk'[f]) = pos[s] + Len(bytes) BY <1>6, <1>12
  <2>9. pos[s] + Len(bytes) \in Int BY <1>6, <2>1
  <2> QED BY <2>1, <2>4, <2>5, <2>6, <2>7, <2>8, <2>9
<1>13. ASSUME orderly
       PROVE  /\ client[s] = "busy" /\ inflight'[s] = << >>
              /\ ~overlapped[s] => IsPrefix(disk'[f], b) /\ (m = Len(bytes) => disk'[f] = b)
  <2> DEFINE p == SubSeq(inflight[s], 2, Len(inflight[s]))
  <2>1. /\ client[s] = "busy" /\ b \in Seq(Tokens) /\ m_offset[s] \in Nat
        /\ \E start, e \in Nat :
             /\ m_offset[s] <= start /\ start < e /\ e <= Len(b)
             /\ r = SubSeq(b, start + 1, e)
             /\ start = m_offset[s] /\ ~overlapped[s] =>
                  disk[f] \o buffer[s] = SubSeq(b, 1, m_offset[s])
             /\ Complete(s, r) => start = m_offset[s] /\ e = Len(b) /\ p = << >>
    BY <1>1, <1>13, OrderlyData
  <2>2. PICK start, e \in Nat :
             /\ m_offset[s] <= start /\ start < e /\ e <= Len(b)
             /\ r = SubSeq(b, start + 1, e)
             /\ start = m_offset[s] /\ ~overlapped[s] =>
                  disk[f] \o buffer[s] = SubSeq(b, 1, m_offset[s])
             /\ Complete(s, r) => start = m_offset[s] /\ e = Len(b) /\ p = << >>
    BY <2>1
  <2>3. start = m_offset[s] /\ e = Len(b) /\ p = << >> BY <1>1, <2>2
  <2>4. inflight'[s] = << >> BY <1>1, <1>2, <1>4, <1>13, <2>3, ConsumeFacts
  <2>5. ASSUME ~overlapped[s] PROVE IsPrefix(disk'[f], b) /\ (m = Len(bytes) => disk'[f] = b)
    <3>1. buffer[s] \in Seq(Tokens) BY <1>2 DEF TypesInv
    <3>2. Grows(disk[f], buffer[s], b, start, e, bytes)
      <4>1. bytes = buffer[s] \o r BY DEF Buffered
      <4>2. disk[f] \o buffer[s] = SubSeq(b, 1, start) BY <2>2, <2>3, <2>5
      <4> HIDE DEF b, bytes, r, f
      <4>3. bytes = buffer[s] \o SubSeq(b, start + 1, e) BY <2>2, <4>1
      <4>4. start <= e /\ e <= Len(b) BY <2>2
      <4> QED BY <4>2, <4>3, <4>4 DEF Grows
    <3> HIDE DEF b, bytes, r, f
    <3>3. Parts(disk[f] \o x, y, SubSeq(b, 1, e)) BY <1>6, <2>1, <3>1, <3>2, Grown
    <3>4. SubSeq(b, 1, e) = b BY <2>1, <2>3, SubSeqFull
    <3>5. disk'[f] = disk[f] \o x BY <1>6, <2>5 DEF Parts
    <3>6. x \in Seq(Tokens) /\ y \in Seq(Tokens) BY <1>6, Split
    <3> HIDE DEF x, y
    <3>7. disk'[f] \o y = b BY <3>3, <3>4, <3>5 DEF Parts
    <3>8. IsPrefix(disk'[f], disk'[f] \o y) BY <1>6, <3>6, PrefixOfConcat
    <3>9. ASSUME m = Len(bytes) PROVE disk'[f] = b
      <4>1. y = << >> BY <1>6, <3>9, SubSeqEmpty DEF y
      <4>2. disk'[f] \o << >> = disk'[f] BY <1>6, ConcatEmptySeq
      <4> QED BY <3>7, <4>1, <4>2
    <3> QED BY <3>7, <3>8, <3>9
  <2> QED BY <2>1, <2>4, <2>5
<1>14. StoredCompletely'
  <2> DEFINE new == [sess |-> s, up |-> up[s], size |-> m_filesize[s], content |-> disk'[f],
                     flushed |-> (m = Len(bytes)), overlapped |-> overlapped[s]]
  <2>1. StoredAtLeastAnnounced /\ StoredExactly BY DEF UploadInv, StoredCompletely
  <2>2. stored' = stored \cup {new} BY <1>5
  <2>3. /\ new.sess = s /\ new.up = up[s] /\ new.size = m_filesize[s] /\ new.content = disk'[f]
        /\ new.flushed = (m = Len(bytes)) /\ new.overlapped = overlapped[s]
    OBVIOUS
  <2> HIDE DEF new, f, bytes, r
  <2>4. StoredAtLeastAnnounced'
    <3>1. new.overlapped \/ ~new.flushed \/ Len(new.content) >= new.size BY <1>12, <2>3
    <3> QED BY <2>1, <2>2, <3>1 DEF StoredAtLeastAnnounced
  <2>5. \A v, i : Body(v, i)' = Body(v, i) BY <1>4 DEF Body
  <2>6. StoredExactly'
    <3>1. Body(s, up[s]) = b BY DEF Body, BytesOf
    <3>2. orderly => \/ new.overlapped
                     \/ /\ IsPrefix(new.content, Body(new.sess, new.up))
                        /\ new.flushed => new.content = Body(new.sess, new.up)
      BY <1>13, <2>3, <3>1
    <3> QED BY <1>4, <2>1, <2>2, <2>5, <3>2 DEF StoredExactly
  <2> QED BY <2>4, <2>6 DEF StoredCompletely
<1>15. ASSUME orderly PROVE OrderlyAt(s)'
  <2>1. client'[s] = "ready" BY <1>1, <1>2, <1>13, <1>15, AnswerFacts
  <2> QED BY <1>9, <1>13, <1>15, <2>1 DEF OrderlyAt
<1>16. OrderlyInv' BY <1>4, <1>9, <1>15 DEF OrderlyInv
<1> QED BY <1>9, <1>10, <1>11, <1>14, <1>16 DEF UploadInv

\* The position and the buffer together grow by what was read, wherever the stream
\* stops writing.
LEMMA CountStep ==
  ASSUME NEW ps \in Int, NEW lb \in Int, NEW lr \in Int, NEW lt \in Int, NEW w \in Int,
         lt = lb + lr
  PROVE  /\ (ps + w) + (lt - w) = (ps + lb) + lr
         /\ \A o \in Int : o <= ps + lb => o + lr <= (ps + w) + (lt - w)
OBVIOUS

\* Data that does not complete the file: count, position and buffer move together.
LEMMA DataWrittenInv ==
  ASSUME UploadInv, NEW s \in Sessions, NEW n, DataWritten(s, n)
  PROVE  UploadInv'
<1> DEFINE f == m_fp[s]
           r == Received(s, n)
           bytes == Buffered(s, n)
           k == m_offset[s] + Len(r)
<1>1. /\ IsData(s, n) /\ Consume(s, n) /\ m_offset' = [m_offset EXCEPT ![s] = Wrap(k)]
      /\ UNCHANGED <<orderly, script, up, unsent, client, m_isState, m_fp, m_filesize, converted,
                     leaked, kept, rivals, overlapped, stored, exited>>
  BY DEF DataWritten, clientVars, env, fixed
<1>2. CanRead(s, n) /\ f # NoFile /\ TypesInv /\ TypeOK BY <1>1 DEF IsData, UploadInv, TypesInv
<1>3. ~exited /\ Live(s) BY <1>2, ReadFacts
<1>4. /\ FilesExist /\ SessionInv /\ LeaksOnlyAbandoned /\ SharedIsMarked /\ AloneInv
      /\ CountInv /\ ClientInv /\ OrderlyInv /\ KeptInv /\ StoredCompletely
  BY <1>3 DEF UploadInv
<1>5. PICK m \in 0 .. Len(bytes) :
        /\ Flush(s, bytes, m)
        /\ pos' = [pos EXCEPT ![s] = pos[s] + m]
        /\ buffer' = [buffer EXCEPT ![s] = SubSeq(bytes, m + 1, Len(bytes))]
  BY DEF DataWritten
<1> DEFINE x == SubSeq(bytes, 1, m)
           y == SubSeq(bytes, m + 1, Len(bytes))
<1>6. /\ f \in Names /\ disk[f] \in Seq(Tokens) /\ ~Settled(f)
      /\ r \in Seq(Tokens) /\ bytes \in Seq(Tokens) /\ Len(bytes) = Len(buffer[s]) + Len(r)
      /\ disk' \in [Names -> Contents] /\ disk'[f] \in Seq(Tokens)
      /\ \A g \in Names : g # f => disk'[g] = disk[g]
      /\ ~overlapped[s] =>
           Len(disk[f]) = pos[s] /\ Parts(disk[f], x, disk'[f]) /\ Len(disk'[f]) = pos[s] + m
      /\ \A t \in Sessions : t # s /\ Live(t) /\ ~(overlapped[s] /\ overlapped[t]) => m_fp[t] # f
  <2>1. IsData(s, n) /\ Flush(s, Buffered(s, n), m) BY <1>1, <1>5
  <2> QED BY <2>1, FlushFacts
<1>7. /\ inflight' \in [Sessions -> Seq(Seq(Sent(script')))]
      /\ \A t \in Sessions : t # s => inflight'[t] = inflight[t]
      /\ orderly => inflight'[s] = SubSeq(inflight[s], 2, Len(inflight[s]))
  BY <1>1, <1>2, ConsumeFacts
<1>8. /\ pos \in [Sessions -> Nat] /\ buffer \in [Sessions -> Seq(Tokens)]
      /\ m_offset \in [Sessions -> -(IntMax + 1) .. IntMax] /\ IntMax \in Nat
      /\ m_fp \in [Sessions -> Names \cup {NoFile}]
  BY <1>2, LimitsAssumption DEF TypesInv, TypeOK
<1>9. x \in Seq(Tokens) /\ y \in Seq(Tokens) /\ Len(y) = Len(bytes) - m BY <1>6, Split
<1>10. /\ m \in Nat /\ Len(r) \in Nat /\ Len(buffer[s]) \in Nat /\ Len(bytes) \in Nat
       /\ m_offset[s] \in Int /\ m_offset[s] >= -(IntMax + 1) /\ pos[s] \in Nat
  BY <1>6, <1>8
<1>11. Wrap(k) \in -(IntMax + 1) .. IntMax /\ Wrap(k) <= k
  <2>1. k \in Int /\ k >= -(IntMax + 1) BY <1>8, <1>10
  <2> HIDE DEF k
  <2> QED BY <2>1, WrapFacts
<1>12. /\ pos'[s] = pos[s] + m /\ buffer'[s] = y /\ m_offset'[s] = Wrap(k)
       /\ \A t \in Sessions : t # s =>
            pos'[t] = pos[t] /\ buffer'[t] = buffer[t] /\ m_offset'[t] = m_offset[t]
  BY <1>1, <1>5, <1>8
<1> HIDE DEF f, r, bytes, x, y, k
<1>13. TypesInv'
  <2>1. pos[s] + m \in Nat BY <1>10
  <2>2. pos' \in [Sessions -> Nat] BY <1>5, <1>8, <2>1
  <2>3. buffer' \in [Sessions -> Seq(Tokens)] BY <1>5, <1>8, <1>9 DEF y
  <2>4. m_offset' \in [Sessions -> -(IntMax + 1) .. IntMax] BY <1>1, <1>8, <1>11
  <2>5. \A g \in Names : disk'[g] # NoFile => disk'[g] \in Seq(Tokens) BY <1>6 DEF Contents
  <2>6. TypeOK' BY <1>1, <1>2, <2>2, <2>4, <2>5 DEF TypeOK, Tokens
  <2> QED BY <1>1, <1>2, <1>6, <1>7, <2>3, <2>6 DEF TypesInv
<1>14. FilesExist'
  <2>1. \A g \in Names : disk[g] \in Seq(Tokens) => disk'[g] \in Seq(Tokens) BY <1>6
  <2>2. ASSUME NEW t \in Sessions, m_fp'[t] # NoFile PROVE disk'[m_fp'[t]] \in Seq(Tokens)
    <3>1. m_fp[t] # NoFile /\ m_fp'[t] = m_fp[t] BY <1>1, <2>2
    <3>2. m_fp[t] \in Names /\ disk[m_fp[t]] \in Seq(Tokens) BY <1>4, <1>8, <3>1 DEF FilesExist
    <3> QED BY <2>1, <3>1, <3>2
  <2>3. ASSUME NEW l \in leaked' PROVE disk'[l.name] \in Seq(Tokens)
    <3>1. l \in leaked BY <1>1
    <3>2. l.name \in Names BY <1>2, <3>1 DEF TypesInv, StreamType
    <3>3. disk[l.name] \in Seq(Tokens) BY <1>4, <3>1 DEF FilesExist
    <3> QED BY <2>1, <3>2, <3>3
  <2> QED BY <2>2, <2>3 DEF FilesExist
<1>15. SessionInv'
  <2>1. ASSUME NEW t \in Sessions
        PROVE  /\ m_isState'[t] <=> m_fp'[t] # NoFile
               /\ ~m_isState'[t] => m_offset'[t] = 0 /\ m_filesize'[t] = 0
               /\ m_fp'[t] = NoFile => pos'[t] = 0 /\ buffer'[t] = << >>
    <3>1. CASE t = s BY <1>1, <1>2, <1>4, <3>1 DEF SessionInv, StateMatchesFile, f
    <3>2. CASE t # s BY <1>1, <1>4, <1>12, <3>2 DEF SessionInv, StateMatchesFile
    <3> QED BY <3>1, <3>2
  <2> QED BY <2>1 DEF SessionInv, StateMatchesFile
<1>16. LeaksOnlyAbandoned' BY <1>1, <1>4 DEF LeaksOnlyAbandoned
<1>17. SharedIsMarked' BY <1>1, <1>4 DEF SharedIsMarked, Live
<1>18. \A t \in Sessions : t # s /\ Live(t) /\ m_fp[t] # NoFile /\ ~overlapped[t] =>
         disk'[m_fp[t]] = disk[m_fp[t]]
  BY <1>6, <1>8
<1>19. AloneInv'
  <2>1. ASSUME NEW t \in Sessions, Live(t), m_fp[t] # NoFile, ~overlapped[t]
        PROVE  Len(disk'[m_fp[t]]) = pos'[t]
    <3>1. CASE t = s BY <1>6, <1>12, <2>1, <3>1 DEF f
    <3>2. CASE t # s BY <1>4, <1>12, <1>18, <2>1, <3>2 DEF AloneInv
    <3> QED BY <3>1, <3>2
  <2> QED BY <1>1, <2>1 DEF AloneInv, Live
<1>20. CountInv'
  <2>1. ASSUME NEW t \in Sessions PROVE m_offset'[t] <= pos'[t] + Len(buffer'[t])
    <3>1. CASE t = s
      <4>1. m_offset[s] <= pos[s] + Len(buffer[s]) BY <1>4 DEF CountInv
      <4>2. k = m_offset[s] + Len(r) BY DEF k
      <4>3. Len(bytes) = Len(buffer[s]) + Len(r) BY <1>6
      <4>4. k <= (pos[s] + m) + (Len(bytes) - m)
        <5>1. /\ pos[s] \in Int /\ Len(buffer[s]) \in Int /\ Len(r) \in Int /\ m \in Int
              /\ Len(bytes) \in Int
          BY <1>10
        <5>2. m_offset[s] <= pos[s] + Len(buffer[s]) =>
                m_offset[s] + Len(r) <= (pos[s] + m) + (Len(bytes) - m)
          <6>1. \A o \in Int : o <= pos[s] + Len(buffer[s]) =>
                  o + Len(r) <= (pos[s] + m) + (Len(bytes) - m)
            BY <4>3, <5>1, CountStep
          <6> QED BY <1>10, <6>1
        <5> QED BY <4>1, <4>2, <5>2
      <4>5. Wrap(k) \in Int /\ k \in Int BY <1>8, <1>10, <1>11, <4>2
      <4>6. Wrap(k) <= (pos[s] + m) + (Len(bytes) - m) BY <1>10, <1>11, <4>4, <4>5
      <4> QED BY <1>9, <1>12, <3>1, <4>6
    <3>2. CASE t # s BY <1>4, <1>12, <3>2 DEF CountInv
    <3> QED BY <3>1, <3>2
  <2> QED BY <2>1 DEF CountInv
<1>21. StoredCompletely'
  BY <1>1, <1>4 DEF StoredCompletely, StoredAtLeastAnnounced, StoredExactly, Body
<1>22. KeptInv'
  <2>1. ASSUME NEW g \in Names, Settled(g)
        PROVE  disk'[g] = kept[g] /\ \A t \in Sessions : Live(t) => m_fp[t] # g
    BY <1>4, <1>6, <2>1 DEF KeptInv
  <2> QED BY <1>1, <2>1 DEF KeptInv, Settled, Live
<1>23. StoredIsKept' BY <1>22, KeptIsServed
<1>24. ClientInv' BY <1>1, <1>4 DEF ClientInv
<1>25. ASSUME orderly PROVE OrderlyAt(s)'
  <2> DEFINE b == BytesOf(script[s][up[s]], s, up[s])
             p == SubSeq(inflight[s], 2, Len(inflight[s]))
             off == m_offset[s]
  <2>1. /\ client[s] = "busy" /\ b \in Seq(Tokens) /\ m_filesize[s] = Len(b) /\ off \in Nat
        /\ off = pos[s] + Len(buffer[s])
        /\ \E start, e \in Nat :
             /\ off <= start /\ start < e /\ e <= Len(b)
             /\ r = SubSeq(b, start + 1, e) /\ InTransit(b, unsent[s], p, e)
             /\ start = off /\ ~overlapped[s] => disk[f] \o buffer[s] = SubSeq(b, 1, off)
             /\ Wrap(off + Len(r)) = off + (e - start) /\ Len(r) = e - start
    BY <1>1, <1>25, OrderlyData DEF f, r
  <2> HIDE DEF b, p, off
  <2>2. PICK start, e \in Nat :
             /\ off <= start /\ start < e /\ e <= Len(b)
             /\ r = SubSeq(b, start + 1, e) /\ InTransit(b, unsent[s], p, e)
             /\ start = off /\ ~overlapped[s] => disk[f] \o buffer[s] = SubSeq(b, 1, off)
             /\ Wrap(off + Len(r)) = off + (e - start) /\ Len(r) = e - start
    BY <2>1
  <2> DEFINE next == off + (e - start)
  <2>3. m_offset'[s] = next BY <1>12, <2>2 DEF k, off
  <2>4. next = (pos[s] + m) + (Len(bytes) - m)
    <3>1. Len(bytes) = Len(buffer[s]) + (e - start) BY <1>6, <2>2
    <3>2. /\ pos[s] \in Int /\ Len(buffer[s]) \in Int /\ e - start \in Int /\ m \in Int
          /\ Len(bytes) \in Int
      BY <1>10
    <3>3. (pos[s] + m) + (Len(bytes) - m) = (pos[s] + Len(buffer[s])) + (e - start)
      BY <3>1, <3>2, CountStep
    <3> QED BY <2>1, <3>3
  <2>5. e \in next .. Len(b)
    <3>1. off \in Nat BY <2>1
    <3>2. Len(b) \in Nat BY <2>1, LenProperties
    <3>3. off <= start /\ start < e /\ e <= Len(b) BY <2>2
    <3>4. \A l \in Nat : e <= l => e \in next .. l BY <3>1, <3>3
    <3> HIDE DEF next
    <3> QED BY <3>2, <3>3, <3>4
  <2>6. ASSUME e = next, ~overlapped[s] PROVE disk'[f] \o y = SubSeq(b, 1, next)
    <3>1. start = off
      <4>1. off \in Nat BY <2>1
      <4> QED BY <2>6, <4>1
    <3>2. Grows(disk[f], buffer[s], b, start, e, bytes)
      <4>1. bytes = buffer[s] \o r BY DEF Buffered, bytes, r
      <4>2. disk[f] \o buffer[s] = SubSeq(b, 1, start) BY <2>2, <2>6, <3>1
      <4>3. bytes = buffer[s] \o SubSeq(b, start + 1, e) BY <2>2, <4>1
      <4>4. start <= e /\ e <= Len(b) BY <2>2
      <4> QED BY <4>2, <4>3, <4>4 DEF Grows
    <3>3. Parts(disk[f] \o x, y, SubSeq(b, 1, e))
      BY <1>6, <1>8, <2>1, <3>2, Grown DEF x, y
    <3>4. disk'[f] = disk[f] \o x BY <1>6, <2>6 DEF Parts
    <3> QED BY <2>6, <3>3, <3>4 DEF Parts
  <2> HIDE DEF next
  <2>7. Arriving(b, unsent[s], p, next, ~overlapped[s], disk'[f], y)
    BY <2>2, <2>5, <2>6 DEF Arriving
  <2>8. inflight'[s] = p BY <1>7, <1>25 DEF p
  <2>9. m_offset'[s] = pos'[s] + Len(buffer'[s]) BY <1>9, <1>12, <2>3, <2>4
  <2>10. Arriving(b, unsent[s], inflight'[s], m_offset'[s], ~overlapped'[s], disk'[m_fp'[s]],
                  buffer'[s])
    BY <1>1, <1>12, <2>3, <2>7, <2>8 DEF f
  <2> QED BY <1>1, <1>2, <2>1, <2>9, <2>10 DEF OrderlyAt, b, f
<1>26. ASSUME orderly, NEW t \in Sessions, t # s PROVE OrderlyAt(t)'
  <2>1. OrderlyAt(t) BY <1>4, <1>26 DEF OrderlyInv
  <2> QED BY <1>1, <1>7, <1>12, <1>18, <1>26, <2>1, OrderlyFrame DEF Live
<1>27. OrderlyInv' BY <1>1, <1>25, <1>26 DEF OrderlyInv
<1> QED BY <1>13, <1>14, <1>15, <1>16, <1>17, <1>19, <1>20, <1>21, <1>22, <1>23, <1>24, <1>27
        DEF UploadInv

-----------------------------------------------------------------------------
(* exit() *)

\* One stream is flushed.
Write(d, x) == [d EXCEPT ![x.name] = WriteAt(@, x.pos, x.bytes)]

\* What flushing the streams ss may make of the files d: they are still files, and one
\* none of whose streams has anything to write is as it was.
Flushable(d, ss) ==
  {e \in [Names -> Contents] :
     \A g \in Names :
       /\ d[g] \in Seq(Tokens) => e[g] \in Seq(Tokens)
       /\ (\A x \in ss : x.name = g => x.bytes = << >>) => e[g] = d[g]}

\* One more stream flushed leaves one of those.
LEMMA WriteFlushable ==
  ASSUME NEW d, NEW ss, ss \subseteq StreamType, NEW x \in ss, d[x.name] \in Seq(Tokens),
         NEW e \in Flushable(d, ss)
  PROVE  Write(e, x) \in Flushable(d, ss)
<1> DEFINE g == x.name
           w == WriteAt(e[g], x.pos, x.bytes)
<1>1. g \in Names /\ x.pos \in Nat /\ x.bytes \in Seq(Tokens) BY DEF StreamType
<1>2. e \in [Names -> Contents] /\ e[g] \in Seq(Tokens) BY <1>1 DEF Flushable
<1>3. w \in Seq(Tokens) /\ (x.bytes = << >> => w = e[g]) BY <1>1, <1>2, WriteAtFacts
<1> HIDE DEF w
<1>4. Write(e, x) = [e EXCEPT ![g] = w] BY DEF Write, w
<1>5. Write(e, x) \in [Names -> Contents] BY <1>1, <1>2, <1>3, <1>4 DEF Contents
<1>6. Write(e, x)[g] = w /\ \A h \in Names : h # g => Write(e, x)[h] = e[h]
  BY <1>1, <1>2, <1>4
<1> DEFINE v == Write(e, x)
<1> HIDE DEF v
<1>7. v \in [Names -> Contents] /\ v[g] = w /\ \A h \in Names : h # g => v[h] = e[h]
  BY <1>5, <1>6 DEF v
<1>8. ASSUME NEW h \in Names
      PROVE  /\ d[h] \in Seq(Tokens) => v[h] \in Seq(Tokens)
             /\ (\A z \in ss : z.name = h => z.bytes = << >>) => v[h] = d[h]
  <2>1. /\ d[h] \in Seq(Tokens) => e[h] \in Seq(Tokens)
        /\ (\A z \in ss : z.name = h => z.bytes = << >>) => e[h] = d[h]
    BY DEF Flushable
  <2>2. CASE h = g BY <1>3, <1>7, <2>1, <2>2
  <2>3. CASE h # g BY <1>7, <2>1, <2>3
  <2> QED BY <2>2, <2>3
<1>9. v \in Flushable(d, ss) BY <1>7, <1>8 DEF Flushable
<1> QED BY <1>9 DEF v

\* The recursive function inside Flushed, and its equation.
After(d, q) ==
  CHOOSE a : a = [i \in 0 .. Len(q) |-> IF i = 0 THEN d ELSE Write(a[i - 1], q[i])]

FlushesTo(a, d, q, n) ==
  \A i \in 0 .. n : a[i] = IF i = 0 THEN d ELSE Write(a[i - 1], q[i])

\* There is a function that satisfies the equation, so the recursive function does.
LEMMA AfterFacts ==
  ASSUME NEW d, NEW ss, NEW q \in Seq(ss), ss \subseteq StreamType,
         \A x \in ss : d[x.name] \in Seq(Tokens), d \in [Names -> Contents]
  PROVE  After(d, q)[Len(q)] \in Flushable(d, ss)
<1> DEFINE F == Flushable(d, ss)
           Upto(n) == \E a \in [0 .. n -> F] : FlushesTo(a, d, q, n)
<1>1. d \in F BY DEF Flushable
<1>2. ASSUME NEW e \in F, NEW x \in ss PROVE Write(e, x) \in F BY WriteFlushable
<1>3. Len(q) \in Nat /\ \A i \in 1 .. Len(q) : q[i] \in ss OBVIOUS
<1> HIDE DEF F
<1>4. Upto(0)
  <2> DEFINE a == [i \in 0 .. 0 |-> d]
  <2>1. a \in [0 .. 0 -> F] BY <1>1
  <2>2. FlushesTo(a, d, q, 0) BY DEF FlushesTo
  <2> HIDE DEF a
  <2> QED BY <2>1, <2>2
<1>5. ASSUME NEW n \in 0 .. Len(q), n # Len(q), Upto(n) PROVE Upto(n + 1)
  <2>1. PICK a \in [0 .. n -> F] : FlushesTo(a, d, q, n) BY <1>5
  <2> DEFINE last == Write(a[n], q[n + 1])
             c == [i \in 0 .. n + 1 |-> IF i <= n THEN a[i] ELSE last]
  <2>2. n \in Nat /\ n + 1 \in 1 .. Len(q) /\ n \in 0 .. n BY <1>3, <1>5
  <2>3. last \in F
    <3>1. a[n] \in F /\ q[n + 1] \in ss BY <1>3, <2>1, <2>2
    <3> QED BY <1>2, <3>1
  <2> HIDE DEF last
  <2>4. c \in [0 .. n + 1 -> F] BY <2>1, <2>2, <2>3
  <2>5. c[n + 1] = last /\ \A i \in 0 .. n : c[i] = a[i] BY <2>2
  <2> HIDE DEF c
  <2>6. ASSUME NEW i \in 0 .. n + 1
        PROVE  c[i] = IF i = 0 THEN d ELSE Write(c[i - 1], q[i])
    <3>1. CASE i <= n
      <4>1. i \in 0 .. n /\ (i # 0 => i - 1 \in 0 .. n) BY <2>2, <3>1
      <4>2. a[i] = IF i = 0 THEN d ELSE Write(a[i - 1], q[i]) BY <2>1, <4>1 DEF FlushesTo
      <4> QED BY <2>5, <4>1, <4>2
    <3>2. CASE i = n + 1
      <4>1. i # 0 /\ i - 1 = n BY <2>2, <3>2
      <4> QED BY <2>2, <2>5, <3>2, <4>1 DEF last
    <3> QED BY <2>2, <3>1, <3>2
  <2>7. FlushesTo(c, d, q, n + 1) BY <2>6 DEF FlushesTo
  <2> QED BY <2>4, <2>7
<1> DEFINE Bad == {n \in 0 .. Len(q) : ~Upto(n)}
<1>6. Bad = {}
  <2> SUFFICES ASSUME Bad # {} PROVE FALSE OBVIOUS
  <2>1. Bad \subseteq Nat BY <1>3
  <2> HIDE DEF Upto
  <2>2. PICK m \in Bad : \A n \in Bad : m <= n
    <3> HIDE DEF Bad
    <3> QED BY <2>1, LeastNat
  <2>3. m # 0 BY <1>4, <2>2
  <2>4. m \in Nat /\ m - 1 \in 0 .. Len(q) /\ m - 1 # Len(q) BY <1>3, <2>2, <2>3
  <2>5. m - 1 \notin Bad BY <2>1, <2>2
  <2>6. Upto(m - 1) BY <2>4, <2>5
  <2>7. Upto((m - 1) + 1) BY <1>5, <2>4, <2>6
  <2>8. (m - 1) + 1 = m BY <2>4
  <2> QED BY <2>2, <2>7, <2>8
<1>7. Upto(Len(q))
  <2>1. Len(q) \in 0 .. Len(q) BY <1>3
  <2> HIDE DEF Upto
  <2> QED BY <1>6, <2>1
<1>8. PICK a \in [0 .. Len(q) -> F] : FlushesTo(a, d, q, Len(q)) BY <1>7
<1>9. a = [i \in 0 .. Len(q) |-> IF i = 0 THEN d ELSE Write(a[i - 1], q[i])]
  BY <1>8 DEF FlushesTo
<1> DEFINE z == After(d, q)
<1>10. z = [i \in 0 .. Len(q) |-> IF i = 0 THEN d ELSE Write(z[i - 1], q[i])]
  BY <1>9, Zenon DEF After
<1> HIDE DEF z
<1>11. \A i \in 0 .. Len(q) : z[i] = IF i = 0 THEN d ELSE Write(z[i - 1], q[i]) BY <1>10
<1> DEFINE Wrong == {i \in 0 .. Len(q) : z[i] \notin F}
<1>12. Wrong = {}
  <2> SUFFICES ASSUME Wrong # {} PROVE FALSE OBVIOUS
  <2>1. Wrong \subseteq Nat BY <1>3
  <2>2. PICK m \in Wrong : \A n \in Wrong : m <= n
    <3> HIDE DEF Wrong
    <3> QED BY <2>1, LeastNat
  <2>3. m \in 0 .. Len(q) /\ z[m] \notin F /\ m \in Nat BY <2>1, <2>2
  <2>4. m # 0 BY <1>1, <1>11, <2>3
  <2>5. m - 1 \in 0 .. Len(q) /\ m \in 1 .. Len(q) /\ ~(m <= m - 1) BY <1>3, <2>3, <2>4
  <2>6. z[m - 1] \in F BY <2>2, <2>5
  <2>7. Write(z[m - 1], q[m]) \in F BY <1>2, <1>3, <2>5, <2>6
  <2> QED BY <1>11, <2>3, <2>4, <2>7
<1>13. Len(q) \in 0 .. Len(q) BY <1>3
<1>14. z[Len(q)] \in F BY <1>12, <1>13
<1> QED BY <1>14 DEF z, F

\* The streams exit() finds are finitely many, and belong to files.
LEMMA StreamsFacts ==
  ASSUME UploadInv
  PROVE  /\ Streams \subseteq StreamType /\ IsFiniteSet(Streams)
         /\ \A x \in Streams : disk[x.name] \in Seq(Tokens)
         /\ \A x \in Streams : x \in leaked \/ \E s \in Sessions : Live(s) /\ m_fp[s] = x.name
<1> DEFINE open == {t \in Sessions : m_fp[t] # NoFile /\ client[t] # "gone"}
           T == {Stream(s) : s \in open}
           st == [s \in open |-> Stream(s)]
<1>1. TypesInv /\ TypeOK /\ FilesExist BY DEF UploadInv, TypesInv
<1>2. leaked \in SUBSET StreamType /\ IsFiniteSet(leaked) BY <1>1 DEF TypesInv
<1>3. ASSUME NEW s \in open
      PROVE  Stream(s) \in StreamType /\ Stream(s).name = m_fp[s] /\ disk[m_fp[s]] \in Seq(Tokens)
  <2>1. m_fp[s] \in Names /\ disk[m_fp[s]] \in Seq(Tokens) BY <1>1 DEF TypeOK, FilesExist
  <2>2. pos[s] \in Nat /\ buffer[s] \in Seq(Tokens) BY <1>1 DEF TypeOK, TypesInv
  <2> QED BY <2>1, <2>2 DEF Stream, StreamType
<1>4. Streams = leaked \cup T BY DEF Streams
<1>5. open \in SUBSET Sessions /\ \A s \in open : Live(s) BY DEF Live
<1>6. st \in Surjection(open, T) BY DEF Surjection
<1> HIDE DEF open
<1>7. IsFiniteSet(open) BY <1>5, FS_Subset, LimitsAssumption
<1>8. \A x \in T : \E s \in open : x = Stream(s) OBVIOUS
<1> HIDE DEF T, st
<1>9. IsFiniteSet(T) BY <1>6, <1>7, FS_Surjection
<1>10. IsFiniteSet(Streams) BY <1>2, <1>4, <1>9, FS_Union
<1>11. Streams \subseteq StreamType BY <1>2, <1>3, <1>4, <1>8
<1>12. \A x \in Streams : disk[x.name] \in Seq(Tokens) BY <1>1, <1>3, <1>4, <1>8 DEF FilesExist
<1>13. \A x \in Streams : x \in leaked \/ \E s \in Sessions : Live(s) /\ m_fp[s] = x.name
  BY <1>3, <1>4, <1>5, <1>8
<1> QED BY <1>10, <1>11, <1>12, <1>13

\* exit() flushes every stream once, so it leaves one of those.
LEMMA FlushedFacts ==
  ASSUME UploadInv, NEW q \in SetToSeqs(Streams)
  PROVE  Flushed(q) \in Flushable(disk, Streams)
<1>1. /\ Streams \subseteq StreamType /\ IsFiniteSet(Streams)
      /\ \A x \in Streams : disk[x.name] \in Seq(Tokens)
  BY StreamsFacts
<1>2. Cardinality(Streams) \in Nat BY <1>1, FS_CardinalityType
<1>3. q \in [1 .. Cardinality(Streams) -> Streams] BY DEF SetToSeqs
<1>4. q \in Seq(Streams) BY <1>2, <1>3
<1>5. disk \in [Names -> Contents] BY DEF UploadInv, TypesInv
<1> DEFINE ss == Streams
<1>6. /\ ss \subseteq StreamType /\ q \in Seq(ss)
      /\ \A x \in ss : disk[x.name] \in Seq(Tokens)
  BY <1>1, <1>4
<1> HIDE DEF ss
<1>7. After(disk, q)[Len(q)] \in Flushable(disk, ss) BY <1>5, <1>6, AfterFacts
<1>8. Flushed(q) = After(disk, q)[Len(q)] BY Zenon DEF Flushed, After, Write
<1> QED BY <1>7, <1>8 DEF ss

\* exit() keeps the invariant: what is settled can only be damaged by the stream of
\* an upload its client abandoned.
LEMMA ExitInv ==
  ASSUME UploadInv, ~exited, CallExit
  PROVE  UploadInv'
<1>1. /\ TypesInv /\ TypeOK /\ ~exited /\ FilesExist /\ SessionInv /\ LeaksOnlyAbandoned
      /\ StoredCompletely /\ KeptInv
  BY DEF UploadInv, TypesInv
<1>2. /\ exited' = TRUE
      /\ UNCHANGED <<up, unsent, client, inflight, m_isState, m_fp, pos, buffer, m_offset,
                     m_filesize, converted, leaked, kept, rivals, overlapped, stored, orderly, script>>
  BY DEF CallExit, clientVars, sessVars, fixed
<1>3. disk' \in Flushable(disk, Streams)
  <2>1. PICK q \in SetToSeqs(Streams) : disk' = Flushed(q) BY DEF CallExit
  <2> QED BY <2>1, FlushedFacts
<1>4. disk' \in [Names -> Contents] BY <1>3 DEF Flushable
<1>5. \A g \in Names : disk[g] \in Seq(Tokens) => disk'[g] \in Seq(Tokens)
  BY <1>3 DEF Flushable
<1>6. \A g \in Names : (\A x \in Streams : x.name = g => x.bytes = << >>) => disk'[g] = disk[g]
  BY <1>3 DEF Flushable
<1>7. TypeOK' BY <1>1, <1>2, <1>4 DEF TypeOK, Contents, Tokens
<1>8. TypesInv' BY <1>1, <1>2, <1>4, <1>7 DEF TypesInv, Sent
<1>9. FilesExist'
  <2>1. \A s \in Sessions : m_fp[s] # NoFile => m_fp[s] \in Names BY <1>1 DEF TypeOK
  <2>2. \A l \in leaked : l.name \in Names BY <1>1 DEF TypesInv, StreamType
  <2> QED BY <1>1, <1>2, <1>5, <2>1, <2>2 DEF FilesExist
<1>10. SessionInv' /\ LeaksOnlyAbandoned'
  BY <1>1, <1>2 DEF SessionInv, StateMatchesFile, LeaksOnlyAbandoned
<1>11. StoredCompletely'
  BY <1>1, <1>2 DEF StoredCompletely, StoredAtLeastAnnounced, StoredExactly, Body
<1>12. ASSUME NEW f \in Names, kept'[f] # NoFile, disk'[f] # kept'[f], rivals'[f] = {}
       PROVE  \E l \in leaked' : client'[l.sess] = "gone" /\ l.name = f /\ l.bytes # << >>
  <2>0. Settled(f) BY <1>2, <1>12 DEF Settled
  <2>1. disk'[f] # disk[f] BY <1>1, <1>2, <1>12, <2>0 DEF KeptInv
  <2>2. \A s \in Sessions : Live(s) => m_fp[s] # f BY <1>1, <2>0 DEF KeptInv
  <2>3. PICK x \in Streams : x.name = f /\ x.bytes # << >> BY <1>6, <2>1
  <2>4. x \in leaked BY <2>2, <2>3, StreamsFacts
  <2>5. client[x.sess] = "gone" BY <1>1, <2>4 DEF LeaksOnlyAbandoned
  <2> QED BY <1>2, <2>3, <2>4, <2>5
<1>13. StoredIsKept'
  BY <1>2, <1>12 DEF StoredIsKept, StoredStays, StoredIsServed
<1> QED BY <1>2, <1>8, <1>9, <1>10, <1>11, <1>13 DEF UploadInv

-----------------------------------------------------------------------------
(* Every step *)

\* A step that changes nothing keeps the invariant.
LEMMA StutterInv ==
  ASSUME UploadInv, UNCHANGED vars
  PROVE  UploadInv'
<1> USE DEF vars, fixed, sessVars, fileVars
<1>1. TypesInv' BY DEF UploadInv, TypesInv, TypeOK, Sent
<1>2. FilesExist' /\ SessionInv' /\ LeaksOnlyAbandoned'
  BY DEF UploadInv, FilesExist, SessionInv, StateMatchesFile, LeaksOnlyAbandoned
<1>3. StoredCompletely'
  BY DEF UploadInv, StoredCompletely, StoredAtLeastAnnounced, StoredExactly, Body
<1>4. StoredIsKept'
  BY DEF UploadInv, StoredIsKept, StoredStays, StoredIsServed, OnHttpResponse, M3u8, SendPage,
         SendFileData
<1>5. ~exited' => ClientInv' /\ SharedIsMarked' /\ AloneInv' /\ CountInv' /\ KeptInv'
  BY DEF UploadInv, ClientInv, SharedIsMarked, AloneInv, CountInv, KeptInv, Settled, Live
<1>6. ~exited' => OrderlyInv' BY DEF UploadInv, OrderlyInv, OrderlyAt
<1> QED BY <1>1, <1>2, <1>3, <1>4, <1>5, <1>6 DEF UploadInv

\* Whatever one read is taken for keeps the invariant.
LEMMA OnReadInv ==
  ASSUME UploadInv, NEW s \in Sessions, NEW n, OnRead(s, n)
  PROVE  UploadInv'
<1>1. CASE HttpRequest(s, n) BY <1>1, HttpRequestInv
<1>2. CASE HeadInvalid(s, n) \/ HeadOpenFails(s, n) \/ DataNoFile(s, n)
  BY <1>2, RefusalFacts, RefusesInv
<1>3. CASE HeadOpens(s, n) BY <1>3, HeadOpensInv
<1>4. CASE DataWriteFails(s, n) BY <1>4, DataWriteFailsInv
<1>5. CASE DataWritten(s, n) BY <1>5, DataWrittenInv
<1>6. CASE DataCompletes(s, n) BY <1>6, DataCompletesInv
<1>7. CASE HeadThrows(s, n) BY <1>7, ExitInv DEF HeadThrows, CanRead
<1> QED BY <1>1, <1>2, <1>3, <1>4, <1>5, <1>6, <1>7 DEF OnRead

\* The invariant is inductive.
LEMMA NextInv == UploadInv /\ [Next]_vars => UploadInv'
<1> SUFFICES ASSUME UploadInv, [Next]_vars PROVE UploadInv' OBVIOUS
<1>1. CASE UNCHANGED vars BY <1>1, StutterInv
<1>2. CASE Exit BY <1>2, ExitInv DEF Exit
<1>3. ASSUME NEW s \in Sessions, ServerStep(s) PROVE UploadInv'
  BY <1>3, OnReadInv DEF ServerStep
<1>4. ASSUME NEW s \in Sessions, ClientStep(s) PROVE UploadInv'
  <2>1. CASE SendHead(s) BY <2>1, SendHeadInv
  <2>2. CASE SkipWait(s) BY <2>2, SkipWaitInv
  <2>3. ASSUME NEW n \in 1 .. IntMax, SendBody(s, n) PROVE UploadInv'
    <3>1. n \in Nat BY LimitsAssumption
    <3> QED BY <2>3, <3>1, SendBodyInv
  <2> QED BY <1>4, <2>1, <2>2, <2>3 DEF ClientStep
<1>5. ASSUME NEW s \in Sessions, Disconnect(s) PROVE UploadInv' BY <1>5, DisconnectInv
<1> QED BY <1>1, <1>2, <1>3, <1>4, <1>5 DEF Next

\* The inductive invariant holds throughout.
LEMMA UploadInvariant == Spec => []UploadInv
BY InitInv, NextInv, PTL DEF Spec

\* Whatever clients send, however reads are cut and merged and whichever error path an
\* upload ends on, m_isState, m_fp and the counters of a session agree, and a stream
\* is lost only when its client goes away in the middle of an upload.
THEOREM SessionsAreConsistent == Spec => []SessionsConsistent
<1>1. UploadInv => SessionsConsistent
  BY DEF UploadInv, TypesInv, SessionInv, SessionsConsistent
<1> QED BY <1>1, UploadInvariant, PTL

\* The answer "Ok" means stored: at least what was announced for a client of any kind,
\* and for an orderly one exactly its file, unless another session opened the same file
\* meanwhile or fclose failed unnoticed.
THEOREM SuccessMeansStored == Spec => []StoredCompletely
<1>1. UploadInv => StoredCompletely BY DEF UploadInv
<1> QED BY <1>1, UploadInvariant, PTL

\* An upload that was answered with success stays as it was and is served as it is,
\* until the file is uploaded again, with two exceptions and no third: a session that
\* had the same file open when the answer was sent may write over it, and exit() may,
\* through the stream of an abandoned upload.
THEOREM StoredFilesAreKept == Spec => []StoredIsKept
<1>1. UploadInv => StoredIsKept BY DEF UploadInv
<1> QED BY <1>1, UploadInvariant, PTL
=============================================================================
