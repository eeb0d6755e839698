-------------------------- MODULE LogFollowProofs --------------------------
(***************************************************************************)
(* What the log reader promises for any number of lines, starts and        *)
(* rotations and for every request.                                        *)
(*                                                                         *)
(* The argument is about positions.  A file holds whole lines in the order *)
(* of their numbers and at most one byte of another (Written); files that  *)
(* are created later hold later lines (FilesOrdered).  Whatever the reader *)
(* may still read is newer than everything it has delivered or has skipped *)
(* for the tail (Fresh), whether it goes on behind its offset, starts over *)
(* in a file that became shorter or turns to a new one.  A line that is    *)
(* owed, for the tail or for the final flush, is delivered or still lies   *)
(* behind the offset, where the next read decodes it (TailOwed, DueOwed).  *)
(***************************************************************************)
EXTENDS LogFollow, FiniteSetTheorems, SequenceTheorems, WellFoundedInduction, TLAPS

\* The lines of which a file holds at least a part.
LinesOf(f) == {f[p] : p \in DOMAIN f} \ {NL}

\* Two bytes belong to the same line when no newline is between them, and to a
\* later line when there is one.
Ascending(f) ==
    \A p, q \in DOMAIN f : p < q /\ f[p] # NL /\ f[q] # NL =>
        f[p] < f[q] \/ (f[p] = f[q] /\ \A m \in p..q : f[m] # NL)

\* A newline ends a line that starts after another newline or with the file.
LineEnds(f) ==
    \A i \in DOMAIN f : f[i] = NL =>
        /\ i > 1 /\ f[i - 1] # NL
        /\ StartOf(f, i) = 0 \/ (StartOf(f, i) \in DOMAIN f /\ f[StartOf(f, i)] = NL)
        /\ \A m \in (StartOf(f, i) + 1)..(i - 1) : f[m] # NL

\* A line that is being written has its first byte in the file.
TornByte(f) == Torn(f) => Len(f) = 1 \/ f[Len(f) - 1] = NL

\* Line k and those before it take at most 3 * k bytes.
Sized(f) ==
    \A p \in DOMAIN f :
        IF f[p] = NL THEN p <= 3 * f[p - 1]
        ELSE p < 3 * f[p] /\ (p = Len(f) => p + 1 < 3 * f[p])

Written(f) ==
    /\ f \in Seq(Line \cup {NL})
    /\ Ascending(f) /\ LineEnds(f) /\ TornByte(f) /\ Sized(f)

\* Later files hold later lines, and lines still to be written are later still.
Newest(i) == \A j \in Inode : j > i => files[j] = <<>>

PipeOrdered ==
    /\ \A q \in DOMAIN pipe : pipe[q] <= printed
    /\ \A q, r \in DOMAIN pipe : q < r => pipe[q] < pipe[r]

Pending(l) == l <= printed /\ \A q \in DOMAIN pipe : l < pipe[q]

FilesOrdered ==
    /\ \A i \in Inode : /\ Written(files[i])
                        /\ Torn(files[i]) => i = sink
                        /\ \A l \in LinesOf(files[i]) : Pending(l)
    /\ \A i, j \in Inode : i < j =>
           \A l \in LinesOf(files[i]), m \in LinesOf(files[j]) : l < m

\* Where the path and the sink may point; a container that is being started is
\* not removed.
Handles ==
    /\ launching => status # "gone"
    /\ sink # None => path \in {None, sink}
    /\ path <= starts /\ sink <= starts /\ st.last <= starts
    /\ path # None => st.last <= path /\ Newest(path)
    /\ sink # None => Newest(sink)
    /\ Newest(starts)

\* A reader that has not opened a file has no history.
Places ==
    /\ st.started <=> st.last # None
    /\ rd = "begin" => ~st.started /\ watch = "off"
    /\ rd = "emit" => st.started
    /\ ~st.started => /\ out = <<>> /\ st.offset = 0
                      /\ ghost = [expect |-> {}, skip |-> {}, due |-> {}]
    /\ watch \in {"off", "run"} => ghost.due = {}
    /\ watch # "off" => req.follow

\* What the reader is past: delivered or left out for the tail.
Past == Delivered \cup ghost.skip

\* The bytes of the open file that the next read may decode.
Ahead(f, off) == {p \in DOMAIN f : f[p] # NL /\ (p > off \/ Len(f) < off \/ p = Len(f))}

Fresh ==
    rd # "done" => \A l \in Past :
        /\ Pending(l)
        /\ \A j \in Inode : j > st.last => \A m \in LinesOf(files[j]) : l < m
        /\ st.last # None => \A p \in Ahead(files[st.last], st.offset) : l < files[st.last][p]

\* A line that is delivered or that a read of f from off decodes.
Owed(lines, f, off) ==
    \A l \in lines : l \in Delivered \/ \E i \in Ends(f, off) : Decoded(f, off, i) = l

Undisturbed == rotations = 0 /\ status # "gone"

Unrotated ==
    /\ rotations = 0 /\ st.started /\ rd # "done" => st.offset <= Len(files[st.last])
    /\ Undisturbed /\ st.started => path = st.last
    /\ Undisturbed /\ rd = "await" => ~st.started

WantedOnly == Wanted(ghost.expect) = ghost.expect /\ Wanted(ghost.due) = ghost.due

TailOwed ==
    rotations = 0 /\ rd # "done" =>
        IF rd = "emit" THEN Owed(ghost.expect, files[st.last], st.offset)
        ELSE ghost.expect \subseteq Delivered

DueOwed ==
    Undisturbed /\ watch = "fired" /\ client = "here" =>
        IF rd = "done" THEN ghost.due \subseteq Delivered
        ELSE st.started => Owed(ghost.due, files[st.last], st.offset)

Skipped == Delivered \cap ghost.skip = {}

LInv ==
    /\ LTypeOK /\ PipeOrdered /\ FilesOrdered /\ Handles /\ Places
    /\ Fresh /\ InOrderOnce /\ Skipped /\ WholeLines
    /\ Unrotated /\ WantedOnly /\ TailOwed /\ DueOwed

-----------------------------------------------------------------------------
(* Sets of positions.                                                      *)

Below == {ss \in Nat \X Nat : ss[1] < ss[2]}

\* A set of numbers that is not empty has a least element, and Min finds it.
LEMMA MinIn ==
    ASSUME NEW S \in SUBSET Nat, S # {}
    PROVE  Min(S) \in S /\ \A y \in S : Min(S) <= y
  <1>1. OpToRel(<, Nat) = Below
    BY Zenon DEF OpToRel, Below
  <1>2. IsWellFoundedOn(Below, Nat)
    BY <1>1, NatLessThanWellFounded, Zenon
  <1>3. PICK x \in S : \A y \in S : ~(<<y, x>> \in Below)
    BY <1>2, WFMin
  <1>4. ASSUME NEW y \in S PROVE x <= y
    <2>1. x \in Nat /\ y \in Nat /\ ~(<<y, x>> \in Below)
      BY <1>3
    <2>2. y < x => <<y, x>> \in Below
      BY <2>1 DEF Below
    <2>3. QED
      BY <2>1, <2>2
  <1>5. QED
    BY <1>4, Zenon DEF Min

\* A bounded one has a greatest element, and Max finds it.
LEMMA MaxIn ==
    ASSUME NEW b \in Nat, NEW S \in SUBSET (0..b), S # {}
    PROVE  Max(S) \in S /\ \A y \in S : y <= Max(S)
  <1> DEFINE D == {b - x : x \in S}
  <1>1. D \in SUBSET Nat /\ D # {}
    OBVIOUS
  <1>2. PICK x \in S : Min(D) = b - x
    BY <1>1, MinIn
  <1>3. \A y \in S : x >= y
    BY <1>1, <1>2, MinIn
  <1> HIDE DEF D
  <1>4. Max(S) \in S /\ \A y \in S : Max(S) >= y
    BY <1>3, Zenon DEF Max
  <1> QED
    BY <1>4

\* Positions are finitely many.
LEMMA Positions ==
    ASSUME NEW b \in Nat, NEW S \in SUBSET (0..b)
    PROVE  IsFiniteSet(S) /\ Cardinality(S) \in Nat
  <1>1. IsFiniteSet(0..b)
    BY FS_Interval
  <1>2. IsFiniteSet(S)
    BY <1>1, FS_Subset
  <1> QED
    BY <1>2, FS_CardinalityType

\* The members of S from i on.
From(S, i) == {j \in S : j >= i}

\* Fewer members follow a later position, and one of them has any given number
\* of members from it on.
LEMMA RankLess ==
    ASSUME NEW b \in Nat, NEW S \in SUBSET (0..b), NEW i \in S, NEW j \in S, i < j
    PROVE  Cardinality(From(S, j)) < Cardinality(From(S, i))
  <1>0. i \in Nat /\ j \in Nat /\ \A k \in S : k \in Nat
    OBVIOUS
  <1>1. From(S, i) \in SUBSET (0..b) /\ From(S, j) \in SUBSET From(S, i)
    <2>1. From(S, i) \in SUBSET S
      BY DEF From
    <2>2. \A k \in S : k >= j => k >= i
      BY <1>0
    <2> QED
      BY <2>1, <2>2, Zenon DEF From
  <1>2. IsFiniteSet(From(S, i))
    BY <1>1, Positions
  <1>3. i \in From(S, i) /\ i \notin From(S, j)
    BY DEF From
  <1>4. IsFiniteSet(From(S, j)) /\ Cardinality(From(S, j)) <= Cardinality(From(S, i))
        /\ Cardinality(From(S, j)) # Cardinality(From(S, i))
    BY <1>1, <1>2, <1>3, FS_Subset
  <1> QED
    BY <1>2, <1>4, FS_CardinalityType

LEMMA RankOnto ==
    ASSUME NEW b \in Nat, NEW S \in SUBSET (0..b), NEW n \in 1..Cardinality(S)
    PROVE  \E i \in S : Cardinality(From(S, i)) = n
  <1> DEFINE rank == [i \in S |-> Cardinality(From(S, i))]
             N == 1..Cardinality(S)
  <1>1. IsFiniteSet(S)
    BY Positions
  <1>2. Cardinality(S) \in Nat
    BY Positions
  <1>3. ASSUME NEW i \in S PROVE rank[i] \in N
    <2>1. From(S, i) \in SUBSET S /\ i \in From(S, i)
      BY DEF From
    <2>2. IsFiniteSet(From(S, i)) /\ Cardinality(From(S, i)) <= Cardinality(S)
      BY <2>1, <1>1, FS_Subset
    <2>3. Cardinality(From(S, i)) \in Nat /\ Cardinality(From(S, i)) # 0
      BY <2>1, <2>2, FS_CardinalityType, FS_EmptySet
    <2> QED
      BY <2>2, <2>3, <1>2
  <1>4. ASSUME NEW i \in S, NEW j \in S, rank[i] = rank[j] PROVE i = j
    <2>1. rank[i] \in Nat /\ rank[i] = Cardinality(From(S, i)) /\ rank[i] = Cardinality(From(S, j))
      BY <1>2, <1>3, <1>4
    <2> HIDE DEF rank
    <2>2. i < j => Cardinality(From(S, j)) < Cardinality(From(S, i))
      BY RankLess
    <2>3. j < i => Cardinality(From(S, i)) < Cardinality(From(S, j))
      BY RankLess
    <2> QED
      BY <2>1, <2>2, <2>3
  <1> HIDE DEF N
  <1>5. rank \in Injection(S, N)
    BY <1>3, <1>4 DEF Injection, IsInjective
  <1>6. IsFiniteSet(N) /\ Cardinality(N) = Cardinality(S)
    BY <1>2, FS_Interval DEF N
  <1>7. rank \in Surjection(S, N)
    BY <1>5, <1>6, FS_Injection
  <1>8. \E i \in S : rank[i] = n
    BY <1>7 DEF Surjection, N
  <1> QED
    BY <1>8

\* The sequences of InFileOrder list every member of S, and only those.
LEMMA FileOrderLists ==
    ASSUME NEW S, IsFiniteSet(S), NEW s \in InFileOrder(S)
    PROVE  /\ Cardinality(S) \in Nat /\ s \in [1..Cardinality(S) -> S]
           /\ \A j, k \in 1..Cardinality(S) : j < k => s[j] < s[k]
           /\ \A i \in S : \E k \in 1..Cardinality(S) : s[k] = i
  <1> DEFINE N == 1..Cardinality(S)
  <1>1. Cardinality(S) \in Nat
    BY FS_CardinalityType
  <1>2. s \in [N -> S] /\ \A j, k \in N : j # k => s[j] # s[k]
    BY DEF InFileOrder, SetToSeqs
  <1>3. \A j, k \in N : j < k => s[j] < s[k]
    BY <1>2 DEF InFileOrder
  <1>4. IsFiniteSet(N) /\ Cardinality(N) = Cardinality(S)
    BY <1>1, FS_Interval
  <1> HIDE DEF N
  <1>5. s \in Injection(N, S)
    BY <1>2 DEF Injection, IsInjective
  <1>6. s \in Surjection(N, S)
    BY <1>4, <1>5, FS_Injection
  <1>7. \A i \in S : \E k \in N : s[k] = i
    BY <1>6 DEF Surjection
  <1> QED
    BY <1>1, <1>2, <1>3, <1>7 DEF N

\* There is one, so that Deliver never blocks.
LEMMA FileOrderExists ==
    ASSUME NEW b \in Nat, NEW S \in SUBSET (0..b)
    PROVE  InFileOrder(S) # {}
  <1> DEFINE c == Cardinality(S)
             N == 1..c
             at == [k \in N |-> CHOOSE i \in S : Cardinality(From(S, i)) = c + 1 - k]
  <1>1. c \in Nat
    BY Positions
  <1>2. ASSUME NEW k \in N
        PROVE  at[k] \in S /\ Cardinality(From(S, at[k])) = c + 1 - k
    <2>1. c + 1 - k \in 1..c
      BY <1>1
    <2>2. \E i \in S : Cardinality(From(S, i)) = c + 1 - k
      BY <2>1, RankOnto
    <2> QED
      BY <2>2
  <1> HIDE DEF at
  <1>3. ASSUME NEW j \in N, NEW k \in N, j < k PROVE at[j] < at[k]
    <2>1. at[j] \in 0..b /\ at[k] \in 0..b
      BY <1>2
    <2>2. at[k] < at[j] => c + 1 - j < c + 1 - k
      BY <1>2, RankLess
    <2>3. at[j] # at[k]
      BY <1>1, <1>2, <1>3
    <2> QED
      BY <2>1, <2>2, <2>3, <1>1, <1>3
  <1>4. ASSUME NEW j \in N, NEW k \in N, j # k PROVE at[j] # at[k]
    <2>1. at[j] \in 0..b /\ at[k] \in 0..b
      BY <1>2
    <2> QED
      BY <2>1, <1>1, <1>3, <1>4
  <1>5. at \in [N -> S]
    BY <1>2 DEF at
  <1>6. DOMAIN at = N
    BY <1>5
  <1>7. at \in InFileOrder(S)
    BY <1>3, <1>4, <1>5, <1>6 DEF InFileOrder, SetToSeqs
  <1> QED
    BY <1>7

-----------------------------------------------------------------------------
(* Log files.                                                              *)

\* A file as a function of its positions.
LEMMA FileSeq ==
    ASSUME NEW f \in Seq(Line \cup {NL})
    PROVE  /\ Len(f) \in Nat /\ DOMAIN f = 1..Len(f)
           /\ \A p \in 1..Len(f) : f[p] \in Nat /\ (f[p] # NL => f[p] \in Line)
           /\ Torn(f) <=> Len(f) > 0 /\ f[Len(f)] # NL
           /\ LinesOf(f) \in SUBSET Line
           /\ \A l : l \in LinesOf(f) <=> \E p \in 1..Len(f) : l = f[p] /\ f[p] # NL
  <1>1. Len(f) \in Nat /\ DOMAIN f = 1..Len(f)
    BY LenProperties
  <1>2. \A p \in 1..Len(f) : f[p] \in Line \cup {NL}
    BY ElementOfSeq
  <1>3. f = <<>> <=> Len(f) = 0
    BY <1>1, EmptySeq
  <1>4. \A l : l \in LinesOf(f) <=> \E p \in 1..Len(f) : l = f[p] /\ f[p] # NL
    BY <1>1, Zenon DEF LinesOf
  <1>5. \A p \in 1..Len(f) : f[p] \in Nat /\ (f[p] # NL => f[p] \in Line)
    BY <1>2, LogAssumption DEF Line, NL
  <1>6. Torn(f) <=> Len(f) > 0 /\ f[Len(f)] # NL
    BY <1>1, <1>3 DEF Torn, Last
  <1>7. LinesOf(f) \in SUBSET Line
    BY <1>4, <1>5
  <1> QED
    BY <1>1, <1>4, <1>5, <1>6, <1>7

\* A line is one or two times its byte.
LEMMA BodyBytes ==
    ASSUME NEW k \in Nat
    PROVE  \/ Body(k) = <<k>> /\ Len(Body(k)) = 1 /\ Tail(Body(k)) = <<>>
           \/ Body(k) = <<k, k>> /\ Len(Body(k)) = 2 /\ Tail(Body(k)) = <<k>>
  <1>1. Len(<<k>>) = 1 /\ Len(<<k, k>>) = 2 /\ Tail(<<k, k>>) = <<k>>
    OBVIOUS
  <1>2. Tail(<<k>>) = <<>>
    OBVIOUS
  <1> QED
    BY <1>1, <1>2 DEF Body

\* What a file holds stays at its place when the file grows.
Grown(f, g) == Len(f) <= Len(g) /\ \A p \in 1..Len(f) : g[p] = f[p]

\* The bytes that CopyRest appends.
Rest(f) == Append(f \o Tail(Body(Last(f))), NL)

LEMMA RestBytes ==
    ASSUME NEW f \in Seq(Line \cup {NL}), Torn(f)
    PROVE  /\ Rest(f) \in Seq(Line \cup {NL}) /\ Grown(f, Rest(f))
           /\ Len(Rest(f)) = Len(f) + Len(Body(Last(f)))
           /\ Len(Body(Last(f))) \in 1..2
           /\ \A p \in (Len(f) + 1)..(Len(Rest(f)) - 1) : Rest(f)[p] = Last(f)
           /\ Rest(f)[Len(Rest(f))] = NL
  <1>1. Len(f) \in Nat \ {0} /\ Last(f) \in Line /\ Last(f) \in Nat
    BY FileSeq DEF Last
  <1>2. CASE Tail(Body(Last(f))) = <<>> /\ Len(Body(Last(f))) = 1
    <2>1. Rest(f) = Append(f, NL)
      BY <1>2, ConcatEmptySeq DEF Rest
    <2> QED
      BY <1>1, <1>2, <2>1 DEF Grown, NL
  <1>3. CASE Tail(Body(Last(f))) = <<Last(f)>> /\ Len(Body(Last(f))) = 2
    <2>1. Rest(f) = Append(Append(f, Last(f)), NL)
      <3>1. Last(f) \in Line \cup {NL}
        BY <1>1
      <3>2. Append(f, Last(f)) = f \o <<Last(f)>>
        BY <3>1, AppendIsConcat, Zenon
      <3> QED
        BY <3>2, <1>3, Zenon DEF Rest
    <2> QED
      BY <1>1, <1>3, <2>1 DEF Grown, NL
  <1> QED
    BY <1>1, <1>2, <1>3, BodyBytes

\* criLogWriter.Write starts a line that is newer than those of the file.
LEMMA FirstByteWritten ==
    ASSUME NEW f, Written(f), ~Torn(f), NEW k \in Line, \A l \in LinesOf(f) : l < k
    PROVE  /\ Written(Append(f, k)) /\ Grown(f, Append(f, k))
           /\ LinesOf(Append(f, k)) = LinesOf(f) \cup {k}
  <1> DEFINE g == Append(f, k)
             n == Len(f)
  <1>1. f \in Seq(Line \cup {NL})
    BY DEF Written
  <1>2. k \in Nat /\ k > 0 /\ k # NL
    BY LogAssumption DEF Line, NL
  <1>3. n \in Nat /\ \A p \in 1..n : f[p] \in Nat
    BY <1>1, FileSeq
  <1>4. /\ g \in Seq(Line \cup {NL}) /\ Len(g) = n + 1 /\ g[n + 1] = k
        /\ \A p \in 1..n : g[p] = f[p]
    BY <1>1, AppendProperties
  <1> HIDE DEF g
  <1>5. DOMAIN g = 1..(n + 1) /\ DOMAIN f = 1..n
    BY <1>1, <1>4, FileSeq
  <1>6. \A p \in 1..n : f[p] # NL => f[p] < k
    BY <1>1, FileSeq
  <1>7. n > 0 => f[n] = NL
    BY <1>1, FileSeq
  <1>8. Ascending(g)
    <2> SUFFICES ASSUME NEW p \in 1..(n + 1), NEW q \in 1..(n + 1), p < q, g[p] # NL, g[q] # NL
                 PROVE  g[p] < g[q] \/ (g[p] = g[q] /\ \A m \in p..q : g[m] # NL)
      BY <1>5 DEF Ascending
    <2>1. p \in 1..n /\ f[p] # NL /\ g[p] = f[p]
      BY <1>3, <1>4
    <2>2. CASE q = n + 1
      BY <2>1, <2>2, <1>4, <1>6
    <2>3. CASE q # n + 1
      <3>1. q \in 1..n /\ \A m \in p..q : m \in 1..n
        BY <2>1, <2>3, <1>3
      <3>2. f[p] < f[q] \/ (f[p] = f[q] /\ \A m \in p..q : f[m] # NL)
        BY <2>1, <3>1, <1>4, <1>5 DEF Written, Ascending
      <3> QED
        BY <2>1, <3>1, <3>2, <1>4
    <2> QED
      BY <2>2, <2>3
  <1>9. LineEnds(g)
    <2> SUFFICES ASSUME NEW i \in 1..n, f[i] = NL
                 PROVE  /\ i > 1 /\ g[i - 1] # NL
                        /\ StartOf(g, i) = 0 \/ (StartOf(g, i) \in DOMAIN g /\ g[StartOf(g, i)] = NL)
                        /\ \A m \in (StartOf(g, i) + 1)..(i - 1) : g[m] # NL
      BY <1>2, <1>3, <1>4, <1>5 DEF LineEnds
    <2>1. /\ i > 1 /\ f[i - 1] # NL
          /\ StartOf(f, i) = 0 \/ (StartOf(f, i) \in 1..n /\ f[StartOf(f, i)] = NL)
          /\ \A m \in (StartOf(f, i) + 1)..(i - 1) : f[m] # NL
      BY <1>5 DEF Written, LineEnds
    <2>2. i - 1 \in 1..n /\ g[i - 1] = f[i - 1]
      BY <1>3, <1>4, <2>1
    <2>3. StartOf(g, i) = StartOf(f, i)
      BY <2>2 DEF StartOf
    <2>4. StartOf(f, i) \in Nat
      BY <2>1, <1>3
    <2> QED
      BY <1>3, <1>4, <1>5, <2>1, <2>2, <2>3, <2>4
  <1>10. TornByte(g)
    BY <1>3, <1>4, <1>7 DEF TornByte
  <1>11. Sized(g)
    <2>1. ASSUME n > 0 PROVE n <= 3 * f[n - 1] /\ f[n - 1] < k /\ f[n - 1] \in Nat
      <3>1. f[n] = NL /\ n \in 1..n
        BY <1>3, <1>7, <2>1
      <3>2. n > 1 /\ f[n - 1] # NL /\ n <= 3 * f[n - 1]
        BY <1>5, <3>1 DEF Written, LineEnds, Sized
      <3> QED
        BY <1>3, <1>6, <3>2
    <2>2. n + 2 < 3 * k
      BY <1>2, <1>3, <2>1
    <2>3. ASSUME NEW p \in 1..n
          PROVE  IF g[p] = NL THEN p <= 3 * g[p - 1] ELSE p < 3 * g[p]
      <3>1. IF f[p] = NL THEN p <= 3 * f[p - 1] ELSE p < 3 * f[p]
        BY <1>5 DEF Written, Sized
      <3>2. f[p] = NL => p > 1
        BY <1>5 DEF Written, LineEnds
      <3>3. f[p] = NL => g[p - 1] = f[p - 1]
        BY <1>3, <1>4, <3>2
      <3> QED
        BY <1>4, <3>1, <3>3
    <2>4. \A p \in 1..(n + 1) : (p \in 1..n /\ p # n + 1) \/ p = n + 1
      BY <1>3
    <2> QED
      BY <1>2, <1>3, <1>4, <1>5, <2>2, <2>3, <2>4 DEF Sized
  <1>12. LinesOf(g) = LinesOf(f) \cup {k}
    <2>1. \A l : l \in LinesOf(g) <=> \E p \in 1..(n + 1) : l = g[p] /\ g[p] # NL
      BY <1>4, FileSeq
    <2>2. \A l : l \in LinesOf(f) <=> \E p \in 1..n : l = f[p] /\ f[p] # NL
      BY <1>1, FileSeq
    <2>3. n + 1 \in 1..(n + 1) /\ \A p \in 1..n : p \in 1..(n + 1)
      BY <1>3
    <2>4. \A p \in 1..(n + 1) : p \in 1..n \/ p = n + 1
      BY <1>3
    <2> QED
      BY <1>2, <1>4, <2>1, <2>2, <2>3, <2>4
  <1> QED
    BY <1>3, <1>4, <1>8, <1>9, <1>10, <1>11, <1>12 DEF Written, Grown, g

\* The rest of the line follows its first byte.
LEMMA RestWritten ==
    ASSUME NEW f, Written(f), Torn(f)
    PROVE  /\ Written(Rest(f)) /\ Grown(f, Rest(f)) /\ ~Torn(Rest(f))
           /\ LinesOf(Rest(f)) = LinesOf(f)
  <1> DEFINE g == Rest(f)
             n == Len(f)
             k == f[n]
             b == Len(Body(k))
  <1>1. f \in Seq(Line \cup {NL})
    BY DEF Written
  <1>2. n \in Nat \ {0} /\ DOMAIN f = 1..n /\ k # NL /\ \A p \in 1..n : f[p] \in Nat
    BY <1>1, FileSeq
  <1>3. /\ g \in Seq(Line \cup {NL}) /\ Grown(f, g) /\ Len(g) = n + b /\ b \in 1..2
        /\ \A p \in (n + 1)..(n + b - 1) : g[p] = k
        /\ g[n + b] = NL
    BY <1>1, RestBytes DEF Last
  <1>4. \A p \in 1..n : g[p] = f[p]
    BY <1>3 DEF Grown
  <1> HIDE DEF g, b
  <1>5. DOMAIN g = 1..(n + b)
    BY <1>3, FileSeq
  <1>6. \A p \in n..(n + b - 1) : g[p] = k
    BY <1>2, <1>3, <1>4
  <1>7. \A p \in 1..(n + b) : p \in 1..n \/ p \in n..(n + b - 1) \/ p = n + b
    BY <1>2, <1>3
  <1>8. Ascending(g)
    <2> SUFFICES ASSUME NEW p \in 1..(n + b), NEW q \in 1..(n + b), p < q, g[p] # NL, g[q] # NL
                 PROVE  g[p] < g[q] \/ (g[p] = g[q] /\ \A m \in p..q : g[m] # NL)
      BY <1>5 DEF Ascending
    <2>1. p < n + b /\ q < n + b
      BY <1>2, <1>3
    <2>2. CASE q <= n
      <3>1. p \in 1..n /\ q \in 1..n /\ f[p] # NL /\ f[q] # NL
        BY <2>2, <1>2, <1>4
      <3>2. f[p] < f[q] \/ (f[p] = f[q] /\ \A m \in p..q : f[m] # NL)
        BY <3>1, <1>2 DEF Written, Ascending
      <3>3. \A m \in p..q : m \in 1..n
        BY <3>1
      <3> QED
        BY <3>1, <3>2, <3>3, <1>4
    <2>3. CASE q > n /\ p >= n
      <3>1. \A m \in p..q : m \in n..(n + b - 1)
        BY <2>1, <2>3, <1>2, <1>3
      <3>2. p \in p..q /\ q \in p..q
        OBVIOUS
      <3> QED
        BY <3>1, <3>2, <1>2, <1>6
    <2>4. CASE q > n /\ p < n
      <3>1. p \in 1..n /\ n \in 1..n /\ f[p] # NL /\ g[q] = k
        BY <2>1, <2>4, <1>2, <1>3, <1>4, <1>6
      <3>2. f[p] < k \/ (f[p] = k /\ \A m \in p..n : f[m] # NL)
        BY <3>1, <2>4, <1>2 DEF Written, Ascending
      <3>3. \A m \in p..q : (m \in 1..n /\ m \in p..n) \/ m \in n..(n + b - 1)
        BY <3>1, <2>1, <2>4, <1>2, <1>3
      <3> QED
        BY <3>1, <3>2, <3>3, <1>2, <1>4, <1>6
    <2> QED
      BY <2>2, <2>3, <2>4, <1>2, <1>3
  <1>9. LineEnds(g)
    <2> SUFFICES ASSUME NEW i \in 1..(n + b), g[i] = NL
                 PROVE  /\ i > 1 /\ g[i - 1] # NL
                        /\ StartOf(g, i) = 0 \/ (StartOf(g, i) \in 1..(n + b) /\ g[StartOf(g, i)] = NL)
                        /\ \A m \in (StartOf(g, i) + 1)..(i - 1) : g[m] # NL
      BY <1>5 DEF LineEnds
    <2>1. CASE i \in 1..n
      <3>1. /\ i > 1 /\ f[i - 1] # NL
            /\ StartOf(f, i) = 0 \/ (StartOf(f, i) \in 1..n /\ f[StartOf(f, i)] = NL)
            /\ \A m \in (StartOf(f, i) + 1)..(i - 1) : f[m] # NL
        BY <1>2, <1>4, <2>1 DEF Written, LineEnds
      <3>2. i - 1 \in 1..n /\ g[i - 1] = f[i - 1]
        BY <2>1, <3>1, <1>2, <1>4
      <3>3. StartOf(g, i) = StartOf(f, i)
        BY <3>2 DEF StartOf
      <3>4. \A m \in (StartOf(f, i) + 1)..(i - 1) : m \in 1..n
        BY <3>1, <3>2, <1>2
      <3>5. StartOf(f, i) \in 1..n => StartOf(f, i) \in 1..(n + b)
        BY <1>2, <1>3
      <3> QED
        BY <1>4, <3>1, <3>2, <3>3, <3>4, <3>5
    <2>2. CASE i = n + b
      <3>1. i - 1 \in n..(n + b - 1) /\ g[i - 1] = k
        BY <1>2, <1>3, <1>6, <2>2
      <3>2. StartOf(g, i) = n - 1
        BY <1>2, <1>3, <2>2, <3>1 DEF StartOf, b
      <3>3. n = 1 \/ (n - 1 \in 1..n /\ f[n - 1] = NL)
        BY <1>2 DEF Written, TornByte
      <3>4. n - 1 \in 1..n => n - 1 \in 1..(n + b)
        BY <1>2, <1>3
      <3>5. \A m \in n..(i - 1) : g[m] = k
        BY <1>2, <1>3, <1>6, <2>2
      <3>6. n - 1 + 1 = n /\ i > 1
        BY <1>2, <1>3, <2>2
      <3> QED
        BY <1>2, <1>4, <3>1, <3>2, <3>3, <3>4, <3>5, <3>6
    <2>3. i \in n..(n + b - 1) => g[i] = k
      BY <1>6
    <2> QED
      BY <2>1, <2>2, <2>3, <1>2, <1>7
  <1>10. ~Torn(g)
    BY <1>3, FileSeq
  <1>11. TornByte(g)
    BY <1>10 DEF TornByte
  <1>12. Sized(g)
    <2>1. n + 1 < 3 * k
      BY <1>2 DEF Written, Sized
    <2>2. ASSUME NEW p \in 1..n, p # n
          PROVE  IF g[p] = NL THEN p <= 3 * g[p - 1] ELSE p < 3 * g[p]
      <3>1. IF f[p] = NL THEN p <= 3 * f[p - 1] ELSE p < 3 * f[p]
        BY <1>2 DEF Written, Sized
      <3>2. f[p] = NL => p > 1
        BY <1>2 DEF Written, LineEnds
      <3>3. f[p] = NL => g[p - 1] = f[p - 1]
        BY <1>2, <1>4, <3>2
      <3> QED
        BY <1>4, <3>1, <3>3
    <2>3. ASSUME NEW p \in n..(n + b - 1) PROVE g[p] = k /\ p < 3 * k
      BY <2>1, <1>2, <1>3, <1>6
    <2>4. n + b <= 3 * g[n + b - 1]
      <3>1. n + b - 1 \in n..(n + b - 1)
        BY <1>2, <1>3
      <3>2. k \in Nat
        BY <1>2
      <3> QED
        BY <2>1, <3>1, <3>2, <1>2, <1>3, <1>6
    <2> SUFFICES ASSUME NEW p \in 1..(n + b)
                 PROVE  IF g[p] = NL THEN p <= 3 * g[p - 1]
                        ELSE p < 3 * g[p] /\ p # n + b
      BY <1>3, <1>5 DEF Sized
    <2>5. CASE p < n
      <3>0. p \in Int /\ n \in Int /\ b \in Int /\ 1 <= p /\ 1 <= b
        BY <1>2, <1>3
      <3>1. p \in 1..n /\ p # n /\ p # n + b
        BY <2>5, <3>0
      <3> QED
        BY <2>2, <3>1
    <2>6. CASE p \in n..(n + b - 1)
      <3>1. p # n + b
        BY <2>6, <1>2, <1>3
      <3> QED
        BY <2>3, <2>6, <3>1, <1>2
    <2>7. CASE p = n + b
      BY <2>4, <2>7, <1>3
    <2> QED
      BY <2>5, <2>6, <2>7, <1>2, <1>3
  <1>13. LinesOf(g) = LinesOf(f)
    <2>1. \A l : l \in LinesOf(g) <=> \E p \in 1..(n + b) : l = g[p] /\ g[p] # NL
      BY <1>3, FileSeq
    <2>2. \A l : l \in LinesOf(f) <=> \E p \in 1..n : l = f[p] /\ f[p] # NL
      BY <1>1, FileSeq
    <2>3. n \in 1..n /\ \A p \in 1..n : p \in 1..(n + b)
      BY <1>2, <1>3
    <2>4. \A p \in 1..(n + b) : g[p] # NL => \E q \in 1..n : g[p] = f[q]
      BY <1>3, <1>4, <1>6, <1>7, <2>3
    <2>5. ASSUME NEW l \in LinesOf(g) PROVE l \in LinesOf(f)
      <3>1. PICK p \in 1..(n + b) : l = g[p] /\ g[p] # NL
        BY <2>1
      <3>2. PICK q \in 1..n : g[p] = f[q]
        BY <3>1, <2>4
      <3> QED
        BY <3>1, <3>2, <2>2
    <2>6. ASSUME NEW l \in LinesOf(f) PROVE l \in LinesOf(g)
      <3>1. PICK p \in 1..n : l = f[p] /\ f[p] # NL
        BY <2>2
      <3>2. p \in 1..(n + b) /\ g[p] = f[p]
        BY <1>4, <2>3
      <3> QED
        BY <3>1, <3>2, <2>1
    <2> QED
      BY <2>5, <2>6
  <1> QED
    BY <1>3, <1>8, <1>9, <1>10, <1>11, <1>12, <1>13 DEF Written, g

-----------------------------------------------------------------------------
(* What a read makes of a file.                                            *)

\* The line that ends at i is in the file behind the offset.
LEMMA EndFacts ==
    ASSUME NEW f, Written(f), NEW off \in Nat, NEW i \in Ends(f, off)
    PROVE  /\ i \in 1..Len(f) /\ i - 1 \in 1..Len(f) /\ off < i - 1
           /\ f[i] = NL /\ f[i - 1] \in Line /\ f[i - 1] # NL
           /\ Decoded(f, off, i) = f[i - 1]
           /\ StartOf(f, i) \in Nat /\ off <= StartOf(f, i) /\ StartOf(f, i) < i
  <1>1. f \in Seq(Line \cup {NL})
    BY DEF Written
  <1>2. Len(f) \in Nat /\ DOMAIN f = 1..Len(f) /\ \A p \in 1..Len(f) : f[p] \in Nat
    BY <1>1, FileSeq
  <1>3. i \in (off + 1)..Len(f) /\ f[i] = NL /\ Decoded(f, off, i) # NL
    BY DEF Ends, NewlinesIn
  <1>4. i \in 1..Len(f)
    BY <1>2, <1>3
  <1>5. i > 1 /\ f[i - 1] # NL
    BY <1>2, <1>3, <1>4 DEF Written, LineEnds
  <1>6. i - 1 \in 1..Len(f) /\ f[i - 1] \in Line /\ f[i - 1] \in Nat
    BY <1>1, <1>2, <1>4, <1>5, FileSeq
  <1>7. Len(Body(f[i - 1])) \in 1..2
    BY <1>6, BodyBytes
  <1>8. StartOf(f, i) >= off /\ Decoded(f, off, i) = f[i - 1]
    BY <1>3 DEF Decoded
  <1>9. StartOf(f, i) \in Nat /\ StartOf(f, i) < i - 1
    <2>1. StartOf(f, i) = i - 1 - Len(Body(f[i - 1]))
      BY DEF StartOf
    <2>2. StartOf(f, i) \in Int /\ StartOf(f, i) < i - 1
      BY <2>1, <1>4, <1>7
    <2> QED
      BY <2>2, <1>8
  <1>10. off < i - 1 /\ StartOf(f, i) < i
    BY <1>4, <1>8, <1>9
  <1> QED
    BY <1>3, <1>4, <1>5, <1>6, <1>8, <1>9, <1>10

\* Conversely, a complete line that starts behind the offset is decoded.
LEMMA EndDecoded ==
    ASSUME NEW f, Written(f), NEW off \in Nat, NEW i \in 1..Len(f), f[i] = NL, off <= StartOf(f, i)
    PROVE  i \in Ends(f, off) /\ Decoded(f, off, i) = f[i - 1]
  <1>1. f \in Seq(Line \cup {NL})
    BY DEF Written
  <1>2. Len(f) \in Nat /\ DOMAIN f = 1..Len(f) /\ \A p \in 1..Len(f) : f[p] \in Nat
    BY <1>1, FileSeq
  <1>3. i > 1 /\ f[i - 1] # NL
    BY <1>2 DEF Written, LineEnds
  <1>4. i - 1 \in 1..Len(f) /\ f[i - 1] \in Nat
    BY <1>2, <1>3
  <1>5. Len(Body(f[i - 1])) \in 1..2
    BY <1>4, BodyBytes
  <1>6. off < i
    BY <1>5 DEF StartOf
  <1>7. Decoded(f, off, i) = f[i - 1]
    BY DEF Decoded
  <1> QED
    BY <1>2, <1>3, <1>6, <1>7 DEF Ends, NewlinesIn

\* Complete lines are in the order of their ends, before a torn one.
LEMMA LinesInOrder ==
    ASSUME NEW f, Written(f), NEW i \in 1..Len(f), f[i] = NL, NEW q \in 1..Len(f), f[q] # NL, i < q
    PROVE  f[i - 1] < f[q]
  <1>1. f \in Seq(Line \cup {NL})
    BY DEF Written
  <1>2. Len(f) \in Nat /\ DOMAIN f = 1..Len(f) /\ \A p \in 1..Len(f) : f[p] \in Nat
    BY <1>1, FileSeq
  <1>3. i > 1 /\ f[i - 1] # NL
    BY <1>2 DEF Written, LineEnds
  <1>4. i - 1 \in 1..Len(f) /\ i - 1 < q /\ i \in (i - 1)..q
    BY <1>2, <1>3
  <1> QED
    BY <1>2, <1>3, <1>4 DEF Written, Ascending

LEMMA EndsInOrder ==
    ASSUME NEW f, Written(f), NEW off \in Nat, NEW i \in Ends(f, off), NEW j \in Ends(f, off), i < j
    PROVE  Decoded(f, off, i) < Decoded(f, off, j)
  <1>1. i \in 1..Len(f) /\ f[i] = NL /\ Decoded(f, off, i) = f[i - 1]
    BY EndFacts
  <1>2. /\ j \in 1..Len(f) /\ f[j] = NL /\ Decoded(f, off, j) = f[j - 1]
        /\ j - 1 \in 1..Len(f) /\ f[j - 1] # NL
    BY EndFacts
  <1>3. i < j - 1
    BY <1>1, <1>2
  <1> QED
    BY <1>1, <1>2, <1>3, LinesInOrder

\* A file that grows keeps the lines that can be decoded.
LEMMA EndsGrow ==
    ASSUME NEW f, NEW g, Written(f), Written(g), Grown(f, g), NEW off \in Nat, NEW i \in Ends(f, off)
    PROVE  i \in Ends(g, off) /\ Decoded(g, off, i) = Decoded(f, off, i)
  <1>1. /\ i \in 1..Len(f) /\ i - 1 \in 1..Len(f) /\ f[i] = NL
        /\ Decoded(f, off, i) = f[i - 1] /\ off <= StartOf(f, i)
    BY EndFacts
  <1>2. Len(f) \in Nat /\ Len(g) \in Nat
    BY FileSeq DEF Written
  <1>3. i \in 1..Len(g) /\ g[i] = NL /\ g[i - 1] = f[i - 1]
    BY <1>1, <1>2 DEF Grown
  <1>4. StartOf(g, i) = StartOf(f, i)
    BY <1>3 DEF StartOf
  <1> QED
    BY <1>1, <1>3, <1>4, EndDecoded

\* The lines that a read delivers: those that are wanted.
LEMMA WantedEmitted ==
    ASSUME NEW f, Written(f), NEW off \in Nat, req \in Request,
           NEW i \in Ends(f, off), Decoded(f, off, i) >= req.since, Decoded(f, off, i) <= req.until
    PROVE  i \in Emitted(f, off)
  <1>1. req.until \in Nat
    BY LogAssumption
  <1>2. i \in Nat /\ Decoded(f, off, i) \in Nat
    BY EndFacts, LogAssumption DEF Line
  <1>3. ASSUME NEW j \in TooNew(f, off) PROVE i < j
    <2>1. j \in Ends(f, off) /\ Decoded(f, off, j) > req.until
      BY DEF TooNew
    <2>2. j \in Nat /\ Decoded(f, off, j) \in Nat
      BY <2>1, EndFacts, LogAssumption DEF Line
    <2>3. j < i => Decoded(f, off, j) < Decoded(f, off, i)
      BY <2>1, EndsInOrder
    <2>4. j # i
      BY <1>1, <1>2, <2>1, <2>2
    <2> QED
      BY <1>1, <1>2, <2>1, <2>2, <2>3, <2>4
  <1> QED
    BY <1>3 DEF Emitted

LEMMA EmittedEnds == ASSUME NEW f, NEW off, NEW i \in Emitted(f, off) PROVE i \in Ends(f, off)
  BY DEF Emitted

\* The offset a read leaves is a position of the file, or the one it started at.
\* When the follow goes on, every newline of the file is behind it.
LEMMA OffsetLeft ==
    ASSUME NEW f, Written(f), NEW off \in Nat, req \in Request
    PROVE  /\ NextOffset(f, off) \in Nat
           /\ NextOffset(f, off) <= Len(f) \/ NextOffset(f, off) = off
           /\ req.follow /\ TooNew(f, off) = {} =>
                /\ off <= NextOffset(f, off)
                /\ \A i \in 1..Len(f) : f[i] = NL => i <= NextOffset(f, off) \/ i <= off
                /\ NextOffset(f, off) = off \/ f[NextOffset(f, off)] = NL
  <1>1. f \in Seq(Line \cup {NL})
    BY DEF Written
  <1>2. Len(f) \in Nat /\ DOMAIN f = 1..Len(f) /\ \A p \in 1..Len(f) : f[p] \in Nat
    BY <1>1, FileSeq
  <1>3. CASE TooNew(f, off) # {}
    <2>1. TooNew(f, off) \in SUBSET Ends(f, off)
      BY DEF TooNew
    <2>2. TooNew(f, off) \in SUBSET Nat
      BY <2>1, <1>2 DEF Ends, NewlinesIn
    <2>3. Min(TooNew(f, off)) \in Ends(f, off)
      BY <1>3, <2>1, <2>2, MinIn
    <2>4. NextOffset(f, off) = StartOf(f, Min(TooNew(f, off)))
      BY <1>3 DEF NextOffset
    <2>5. NextOffset(f, off) \in Nat /\ NextOffset(f, off) <= Len(f)
      BY <2>3, <2>4, <1>2, EndFacts
    <2> QED
      BY <1>3, <2>5
  <1>4. CASE TooNew(f, off) = {} /\ req.follow
    <2> DEFINE N == NewlinesIn(f, off + 1, Len(f))
               b == off + Len(f)
    <2>1. b \in Nat /\ {off} \cup N \in SUBSET (0..b) /\ {off} \cup N # {}
      BY <1>2 DEF NewlinesIn
    <2>2. Max({off} \cup N) \in {off} \cup N /\ \A y \in {off} \cup N : y <= Max({off} \cup N)
      BY <2>1, MaxIn
    <2>3. NextOffset(f, off) = Max({off} \cup N)
      BY <1>4 DEF NextOffset
    <2>4. \A i \in N : i \in 1..Len(f) /\ f[i] = NL
      BY <1>2 DEF NewlinesIn
    <2>5. \A i \in 1..Len(f) : f[i] = NL /\ ~(i <= off) => i \in N
      BY <1>2 DEF NewlinesIn
    <2> HIDE DEF N
    <2>6. NextOffset(f, off) = off \/ NextOffset(f, off) \in N
      BY <2>2, <2>3
    <2>7. off <= NextOffset(f, off) /\ \A i \in N : i <= NextOffset(f, off)
      BY <2>2, <2>3
    <2> QED
      BY <2>4, <2>5, <2>6, <2>7, <1>2, <1>4
  <1>5. CASE TooNew(f, off) = {} /\ ~req.follow
    <2>1. {off, Len(f)} \in SUBSET (0..(off + Len(f))) /\ {off, Len(f)} # {} /\ off + Len(f) \in Nat
      BY <1>2
    <2>2. Max({off, Len(f)}) \in {off, Len(f)}
      BY <2>1, MaxIn
    <2>3. NextOffset(f, off) = Max({off, Len(f)})
      BY <1>5 DEF NextOffset
    <2> QED
      BY <2>2, <2>3, <1>2, <1>5
  <1> QED
    BY <1>3, <1>4, <1>5

\* An incomplete line is delivered only by a read that does not follow, when it
\* is behind the offset.
LEMMA TornDelivered ==
    ASSUME NEW f, Written(f), NEW off \in Nat, req \in Request, NEW torn \in TornLines(f, off)
    PROVE  \/ torn = <<>>
           \/ /\ ~req.follow /\ Torn(f) /\ Len(f) > off
              /\ torn = <<[line |-> f[Len(f)], whole |-> FALSE]>>
  <1>1. f \in Seq(Line \cup {NL})
    BY DEF Written
  <1>2. Len(f) \in Nat
    BY <1>1, FileSeq
  <1> SUFFICES ASSUME torn # <<>> PROVE ~req.follow /\ Torn(f) /\ Len(f) > off
                                        /\ torn = <<[line |-> f[Len(f)], whole |-> FALSE]>>
    OBVIOUS
  <1>3. /\ Torn(f) /\ Len(f) > off /\ NextOffset(f, off) = Len(f)
        /\ torn = <<[line |-> f[Len(f)], whole |-> FALSE]>>
    BY DEF TornLines, Last
  <1>4. f[Len(f)] # NL
    BY <1>1, <1>3, FileSeq
  <1>5. TooNew(f, off) = {} => ~req.follow
    BY <1>2, <1>3, <1>4, OffsetLeft
  <1>6. TooNew(f, off) = {}
    <2> SUFFICES ASSUME TooNew(f, off) # {} PROVE FALSE
      OBVIOUS
    <2>1. TooNew(f, off) \in SUBSET Ends(f, off)
      BY DEF TooNew
    <2>2. TooNew(f, off) \in SUBSET Nat
      BY <2>1, <1>2 DEF Ends, NewlinesIn
    <2>3. Min(TooNew(f, off)) \in Ends(f, off)
      BY <2>1, <2>2, MinIn
    <2>4. NextOffset(f, off) = StartOf(f, Min(TooNew(f, off)))
      BY DEF NextOffset
    <2>5. StartOf(f, Min(TooNew(f, off))) < Len(f)
      BY <2>3, <1>2, EndFacts
    <2> QED
      BY <1>2, <1>3, <2>4, <2>5
  <1> QED
    BY <1>3, <1>5, <1>6

\* The n lines that end at the positions at, and an incomplete one if t = 1, are
\* appended to out.
Appends(f, off, n, at, t) ==
    /\ \A j, k \in 1..n : j < k => at[j] < at[k]
    /\ \A i \in Emitted(f, off) : \E k \in 1..n : at[k] = i
    /\ t = 1 => ~req.follow /\ Torn(f) /\ Len(f) > off
    /\ out' \in Seq([line : Line, whole : BOOLEAN])
    /\ Len(out') = Len(out) + n + t
    /\ \A k \in 1..Len(out) : out'[k] = out[k]
    /\ \A k \in 1..n : out'[Len(out) + k] = [line |-> Decoded(f, off, at[k]), whole |-> TRUE]
    /\ t = 1 => out'[Len(out) + n + 1] = [line |-> f[Len(f)], whole |-> FALSE]

\* This is what Deliver does.
LEMMA DeliverAppends ==
    ASSUME NEW f, Written(f), NEW off \in Nat, req \in Request,
           out \in Seq([line : Line, whole : BOOLEAN]), Deliver(f, off)
    PROVE  \E n \in Nat : \E at \in [1..n -> Emitted(f, off)], t \in {0, 1} : Appends(f, off, n, at, t)
  <1> DEFINE E == Emitted(f, off)
             n == Cardinality(E)
             R == [line : Line, whole : BOOLEAN]
  <1>1. f \in Seq(Line \cup {NL})
    BY DEF Written
  <1>2. Len(f) \in Nat /\ E \in SUBSET (0..Len(f))
    <2>1. Len(f) \in Nat
      BY <1>1, FileSeq
    <2>2. \A i \in E : i \in 1..Len(f)
      BY EmittedEnds, EndFacts
    <2> QED
      BY <2>1, <2>2
  <1>3. IsFiniteSet(E)
    BY <1>2, Positions
  <1>4. PICK at \in InFileOrder(E), torn \in TornLines(f, off) :
            out' = out \o [k \in DOMAIN at |-> [line |-> Decoded(f, off, at[k]), whole |-> TRUE]] \o torn
    BY DEF Deliver
  <1>5. /\ n \in Nat /\ at \in [1..n -> E]
        /\ \A j, k \in 1..n : j < k => at[j] < at[k]
        /\ \A i \in E : \E k \in 1..n : at[k] = i
    BY <1>3, FileOrderLists
  <1> HIDE DEF n
  <1> DEFINE lines == [k \in 1..n |-> [line |-> Decoded(f, off, at[k]), whole |-> TRUE]]
  <1>6. \A k \in 1..n : Decoded(f, off, at[k]) \in Line
    <2> SUFFICES ASSUME NEW k \in 1..n PROVE Decoded(f, off, at[k]) \in Line
      OBVIOUS
    <2>1. at[k] \in Ends(f, off)
      BY <1>5, EmittedEnds
    <2> QED
      BY <2>1, EndFacts
  <1>7. lines \in Seq(R) /\ Len(lines) = n
    <2>1. \A k \in 1..n : [line |-> Decoded(f, off, at[k]), whole |-> TRUE] \in R
      BY <1>6
    <2>2. lines \in [1..n -> R]
      BY <2>1
    <2>3. lines \in Seq(R)
      BY <1>5, <2>2, SeqDef
    <2>4. DOMAIN lines = 1..n
      OBVIOUS
    <2> HIDE DEF lines
    <2>5. Len(lines) \in Nat /\ 1..Len(lines) = 1..n
      BY <2>3, <2>4, LenProperties
    <2> QED
      BY <2>3, <2>5, <1>5
  <1>8. out' = (out \o lines) \o torn
    <2>1. DOMAIN at = 1..n
      BY <1>5
    <2> QED
      BY <2>1, <1>4, Zenon
  <1>9. lines \in Seq(R) /\ \A k \in 1..n : lines[k] = [line |-> Decoded(f, off, at[k]), whole |-> TRUE]
    BY <1>7
  <1> HIDE DEF lines
  <1>10. /\ out \o lines \in Seq(R) /\ Len(out \o lines) = Len(out) + n /\ Len(out) \in Nat
         /\ \A k \in 1..Len(out) : (out \o lines)[k] = out[k]
         /\ \A k \in 1..n : (out \o lines)[Len(out) + k] = lines[k]
    <2>1. Len(out) \in Nat
      BY LenProperties
    <2>2. /\ out \o lines \in Seq(R) /\ Len(out \o lines) = Len(out) + n
          /\ \A i \in 1..(Len(out) + n) : (out \o lines)[i] =
                IF i <= Len(out) THEN out[i] ELSE lines[i - Len(out)]
      BY <1>7, ConcatProperties
    <2>3. ASSUME NEW k \in 1..n
          PROVE  Len(out) + k \in 1..(Len(out) + n) /\ ~(Len(out) + k <= Len(out)) /\ Len(out) + k - Len(out) = k
      BY <1>5, <2>1
    <2>4. \A k \in 1..Len(out) : k \in 1..(Len(out) + n) /\ k <= Len(out)
      BY <1>5, <2>1
    <2> QED
      BY <2>1, <2>2, <2>3, <2>4
  <1>11. CASE torn = <<>>
    <2>1. out' = out \o lines
      BY <1>8, <1>10, <1>11, ConcatEmptySeq
    <2>2. Len(out') = Len(out) + n + 0
      BY <2>1, <1>5, <1>10
    <2>3. out' \in Seq(R)
      BY <2>1, <1>10
    <2>4. \A k \in 1..Len(out) : out'[k] = out[k]
      BY <2>1, <1>10
    <2>5. \A k \in 1..n : out'[Len(out) + k] = lines[k]
      BY <2>1, <1>10
    <2>6. 0 # 1
      OBVIOUS
    <2>7. Appends(f, off, n, at, 0)
      BY <2>2, <2>3, <2>4, <2>5, <2>6, <1>5, <1>9, Zenon DEF Appends
    <2> QED
      BY <2>7, <1>5
  <1>12. CASE torn # <<>>
    <2>1. ~req.follow /\ Torn(f) /\ Len(f) > off /\ torn = <<[line |-> f[Len(f)], whole |-> FALSE]>>
      BY <1>12, TornDelivered
    <2> DEFINE last == [line |-> f[Len(f)], whole |-> FALSE]
    <2>2. f[Len(f)] \in Line
      BY <2>1, <1>1, FileSeq
    <2>3. last \in R
      BY <2>2
    <2> HIDE DEF last
    <2>4. out' = Append(out \o lines, last)
      BY <1>8, <1>10, <2>1, <2>3, AppendIsConcat DEF last
    <2>5. /\ out' \in Seq(R) /\ Len(out') = Len(out) + n + 1
          /\ \A k \in 1..(Len(out) + n) : out'[k] = (out \o lines)[k]
          /\ out'[Len(out) + n + 1] = last
      BY <2>3, <2>4, <1>10, AppendProperties
    <2>6. \A k \in 1..n : Len(out) + k \in 1..(Len(out) + n)
      BY <1>5, <1>10
    <2>7. \A k \in 1..Len(out) : k \in 1..(Len(out) + n)
      BY <1>5, <1>10
    <2>8. \A k \in 1..n : out'[Len(out) + k] = lines[k]
      BY <2>5, <2>6, <1>10
    <2>9. \A k \in 1..Len(out) : out'[k] = out[k]
      BY <2>5, <2>7, <1>10
    <2>10. Appends(f, off, n, at, 1)
      BY <2>1, <2>5, <2>8, <2>9, <1>5, <1>9 DEF last, Appends
    <2> QED
      BY <2>10, <1>5
  <1> QED
    BY <1>11, <1>12

\* A place in the new output is an old one, that of a line or that of the
\* incomplete line.
LEMMA OutPlaces ==
    ASSUME NEW m \in Nat, NEW n \in Nat, NEW t \in {0, 1}, NEW k \in 1..(m + n + t)
    PROVE  k \in 1..m \/ (\E j \in 1..n : k = m + j) \/ (t = 1 /\ k = m + n + 1)
  <1>1. CASE k > m /\ k <= m + n
    <2>1. k - m \in 1..n /\ k = m + (k - m)
      BY <1>1
    <2> QED
      BY <2>1
  <1>2. CASE k <= m
    BY <1>2
  <1>3. CASE k > m + n
    BY <1>3
  <1> QED
    BY <1>1, <1>2, <1>3

\* What is delivered afterwards.
LEMMA DeliverFacts ==
    ASSUME NEW f, Written(f), NEW off \in Nat, req \in Request,
           out \in Seq([line : Line, whole : BOOLEAN]), Deliver(f, off), UNCHANGED req
    PROVE  /\ out' \in Seq([line : Line, whole : BOOLEAN])
           /\ Delivered \subseteq Delivered'
           /\ \A i \in Emitted(f, off) : Decoded(f, off, i) \in Delivered'
           /\ \A l \in Delivered' : \/ l \in Delivered
                                    \/ \E i \in Ends(f, off) : l = Decoded(f, off, i)
                                    \/ ~req.follow /\ Torn(f) /\ Len(f) > off /\ l = f[Len(f)]
           /\ WholeLines => WholeLines'
  <1>1. PICK n \in Nat : \E at \in [1..n -> Emitted(f, off)], t \in {0, 1} : Appends(f, off, n, at, t)
    BY DeliverAppends
  <1>2. PICK at \in [1..n -> Emitted(f, off)], t \in {0, 1} : Appends(f, off, n, at, t)
    BY <1>1
  <1> DEFINE m == Len(out)
  <1>3. /\ \A i \in Emitted(f, off) : \E k \in 1..n : at[k] = i
        /\ t = 1 => ~req.follow /\ Torn(f) /\ Len(f) > off
        /\ out' \in Seq([line : Line, whole : BOOLEAN])
        /\ Len(out') = m + n + t
        /\ \A k \in 1..m : out'[k] = out[k]
        /\ \A k \in 1..n : out'[m + k] = [line |-> Decoded(f, off, at[k]), whole |-> TRUE]
        /\ t = 1 => out'[m + n + 1] = [line |-> f[Len(f)], whole |-> FALSE]
    BY <1>2 DEF Appends
  <1>4. m \in Nat /\ DOMAIN out = 1..m /\ DOMAIN out' = 1..(m + n + t)
    <2>1. DOMAIN out' = 1..Len(out')
      BY <1>3, LenProperties
    <2> QED
      BY <1>3, <2>1, LenProperties
  <1> HIDE DEF m
  <1>5. ASSUME NEW k \in 1..n
        PROVE  out'[m + k].line = Decoded(f, off, at[k]) /\ out'[m + k].whole = TRUE
    <2>1. out'[m + k] = [line |-> Decoded(f, off, at[k]), whole |-> TRUE]
      BY <1>3
    <2> QED
      BY <2>1
  <1>6. \A k \in 1..(m + n + t) : k \in 1..m \/ (\E j \in 1..n : k = m + j) \/ (t = 1 /\ k = m + n + 1)
    BY <1>4, OutPlaces
  <1>7. (\A k \in 1..m : k \in 1..(m + n + t)) /\ \A k \in 1..n : m + k \in 1..(m + n + t)
    BY <1>4
  <1>8. Delivered \subseteq Delivered'
    <2> SUFFICES ASSUME NEW k \in 1..m PROVE out[k].line \in Delivered'
      BY <1>4 DEF Delivered
    <2>1. k \in DOMAIN out' /\ out'[k].line = out[k].line
      BY <1>3, <1>4, <1>7
    <2> QED
      BY <2>1 DEF Delivered
  <1>9. ASSUME NEW i \in Emitted(f, off) PROVE Decoded(f, off, i) \in Delivered'
    <2>1. PICK k \in 1..n : at[k] = i
      BY <1>3
    <2>2. m + k \in DOMAIN out' /\ out'[m + k].line = Decoded(f, off, i)
      BY <2>1, <1>4, <1>5, <1>7
    <2> QED
      BY <2>2 DEF Delivered
  <1>10. ASSUME NEW l \in Delivered'
         PROVE  \/ l \in Delivered
                \/ \E i \in Ends(f, off) : l = Decoded(f, off, i)
                \/ ~req.follow /\ Torn(f) /\ Len(f) > off /\ l = f[Len(f)]
    <2>1. PICK k \in 1..(m + n + t) : l = out'[k].line
      BY <1>4 DEF Delivered
    <2>2. CASE k \in 1..m
      BY <2>1, <2>2, <1>3, <1>4 DEF Delivered
    <2>3. ASSUME NEW j \in 1..n, k = m + j PROVE \E i \in Ends(f, off) : l = Decoded(f, off, i)
      <3>1. at[j] \in Ends(f, off)
        BY EmittedEnds
      <3>2. l = Decoded(f, off, at[j])
        BY <2>1, <2>3, <1>5
      <3> QED
        BY <3>1, <3>2
    <2>4. CASE t = 1 /\ k = m + n + 1
      BY <2>1, <2>4, <1>3
    <2> QED
      BY <2>2, <2>3, <2>4, <1>6
  <1>11. ASSUME WholeLines PROVE WholeLines'
    <2> SUFFICES ASSUME req.follow, NEW k \in 1..(m + n + t) PROVE out'[k].whole
      BY <1>4 DEF WholeLines
    <2>1. CASE k \in 1..m
      <3>1. out[k].whole
        BY <1>11, <2>1, <1>4 DEF WholeLines
      <3> QED
        BY <2>1, <3>1, <1>3
    <2>2. ASSUME NEW j \in 1..n, k = m + j PROVE out'[k].whole
      BY <2>2, <1>5
    <2>3. ~(t = 1)
      BY <1>3
    <2> QED
      BY <2>1, <2>2, <2>3, <1>6
  <1> QED
    BY <1>3, <1>8, <1>9, <1>10, <1>11

\* Lines that are newer than what is delivered keep the order.
LEMMA DeliverInOrder ==
    ASSUME NEW f, Written(f), NEW off \in Nat, req \in Request,
           out \in Seq([line : Line, whole : BOOLEAN]), Deliver(f, off),
           InOrderOnce, \A l \in Delivered, p \in 1..Len(f) : off < p /\ f[p] # NL => l < f[p]
    PROVE  InOrderOnce'
  <1>1. PICK n \in Nat : \E at \in [1..n -> Emitted(f, off)], t \in {0, 1} : Appends(f, off, n, at, t)
    BY DeliverAppends
  <1>2. PICK at \in [1..n -> Emitted(f, off)], t \in {0, 1} : Appends(f, off, n, at, t)
    BY <1>1
  <1> DEFINE m == Len(out)
  <1>3. /\ \A j, k \in 1..n : j < k => at[j] < at[k]
        /\ t = 1 => ~req.follow /\ Torn(f) /\ Len(f) > off
        /\ out' \in Seq([line : Line, whole : BOOLEAN])
        /\ Len(out') = m + n + t
        /\ \A k \in 1..m : out'[k] = out[k]
        /\ \A k \in 1..n : out'[m + k] = [line |-> Decoded(f, off, at[k]), whole |-> TRUE]
        /\ t = 1 => out'[m + n + 1] = [line |-> f[Len(f)], whole |-> FALSE]
    BY <1>2 DEF Appends
  <1>4. m \in Nat /\ DOMAIN out = 1..m /\ DOMAIN out' = 1..(m + n + t)
    <2>1. DOMAIN out' = 1..Len(out')
      BY <1>3, LenProperties
    <2> QED
      BY <1>3, <2>1, LenProperties
  <1> HIDE DEF m
  <1>5. ASSUME NEW k \in 1..n PROVE out'[m + k].line = Decoded(f, off, at[k])
    <2>1. out'[m + k] = [line |-> Decoded(f, off, at[k]), whole |-> TRUE]
      BY <1>3
    <2> QED
      BY <2>1
  <1>6. t = 1 => out'[m + n + 1].line = f[Len(f)]
    BY <1>3
  <1>7. \A k \in 1..(m + n + t) : k \in 1..m \/ (\E j \in 1..n : k = m + j) \/ (t = 1 /\ k = m + n + 1)
    BY <1>4, OutPlaces
  <1>8. /\ Len(f) \in Nat
        /\ Torn(f) => Len(f) \in 1..Len(f) /\ f[Len(f)] # NL
    BY FileSeq DEF Written
  <1>9. ASSUME NEW k \in 1..n
        PROVE  /\ at[k] \in Ends(f, off) /\ at[k] \in 1..Len(f) /\ f[at[k]] = NL
               /\ at[k] - 1 \in 1..Len(f) /\ off < at[k] - 1
               /\ Decoded(f, off, at[k]) = f[at[k] - 1] /\ f[at[k] - 1] # NL
    <2>1. at[k] \in Ends(f, off)
      BY EmittedEnds
    <2> QED
      BY <2>1, EndFacts
  <1>10. \A j \in 1..m : out'[j].line \in Delivered
    BY <1>3, <1>4 DEF Delivered
  <1> SUFFICES ASSUME NEW j \in 1..(m + n + t), NEW k \in 1..(m + n + t), j < k
               PROVE  out'[j].line < out'[k].line
    BY <1>4 DEF InOrderOnce
  <1>11. CASE k \in 1..m
    <2>1. j \in 1..m
      BY <1>4, <1>11
    <2> QED
      BY <2>1, <1>3, <1>4, <1>11 DEF InOrderOnce
  <1>12. ASSUME NEW r \in 1..n, k = m + r PROVE out'[j].line < out'[k].line
    <2>1. out'[k].line = f[at[r] - 1]
      BY <1>5, <1>9, <1>12
    <2>2. CASE j \in 1..m
      BY <2>1, <2>2, <1>9, <1>10
    <2>3. ASSUME NEW q \in 1..n, j = m + q PROVE out'[j].line < out'[k].line
      <3>1. q < r
        BY <1>4, <1>12, <2>3
      <3>2. at[q] < at[r]
        BY <3>1, <1>3
      <3>3. Decoded(f, off, at[q]) < Decoded(f, off, at[r])
        BY <3>2, <1>9, EndsInOrder
      <3> QED
        BY <3>3, <1>5, <1>12, <2>3
    <2>4. j # m + n + 1
      BY <1>4, <1>12
    <2> QED
      BY <2>2, <2>3, <2>4, <1>7
  <1>13. ASSUME t = 1, k = m + n + 1 PROVE out'[j].line < out'[k].line
    <2>1. out'[k].line = f[Len(f)] /\ Len(f) \in 1..Len(f) /\ f[Len(f)] # NL /\ off < Len(f)
      BY <1>3, <1>6, <1>8, <1>13
    <2>2. CASE j \in 1..m
      BY <2>1, <2>2, <1>10
    <2>3. ASSUME NEW q \in 1..n, j = m + q PROVE out'[j].line < out'[k].line
      <3>1. out'[j].line = f[at[q] - 1] /\ at[q] \in 1..Len(f) /\ f[at[q]] = NL
        BY <1>5, <1>9, <2>3
      <3>2. at[q] # Len(f)
        BY <2>1, <3>1
      <3>3. at[q] < Len(f)
        BY <1>8, <3>1, <3>2
      <3> QED
        BY <2>1, <3>1, <3>3, LinesInOrder
    <2>4. j # m + n + 1
      BY <1>13
    <2> QED
      BY <2>2, <2>3, <2>4, <1>7
  <1> QED
    BY <1>11, <1>12, <1>13, <1>7

-----------------------------------------------------------------------------
(* The tail of a file.                                                     *)

Newlines(f) == NewlinesIn(f, 1, Len(f))

\* The complete lines are told apart by their newlines, in the same order.
LEMMA NewlineFacts ==
    ASSUME NEW f, Written(f), NEW i \in Newlines(f)
    PROVE  /\ i \in 1..Len(f) /\ f[i] = NL /\ i - 1 \in 1..Len(f)
           /\ f[i - 1] # NL /\ f[i - 1] \in Line
  <1>1. f \in Seq(Line \cup {NL})
    BY DEF Written
  <1>2. Len(f) \in Nat /\ DOMAIN f = 1..Len(f)
    BY <1>1, FileSeq
  <1>3. i \in 1..Len(f) /\ f[i] = NL
    BY DEF Newlines, NewlinesIn
  <1>4. i > 1 /\ f[i - 1] # NL
    BY <1>2, <1>3 DEF Written, LineEnds
  <1>5. i - 1 \in 1..Len(f)
    BY <1>2, <1>3, <1>4
  <1> QED
    BY <1>1, <1>3, <1>4, <1>5, FileSeq

LEMMA NewlinesInOrder ==
    ASSUME NEW f, Written(f), NEW i \in Newlines(f), NEW j \in Newlines(f), i < j
    PROVE  f[i - 1] < f[j - 1]
  <1>1. i \in 1..Len(f) /\ f[i] = NL
    BY NewlineFacts
  <1>2. j \in 1..Len(f) /\ j - 1 \in 1..Len(f) /\ f[j - 1] # NL
    BY NewlineFacts
  <1>3. i < j - 1
    BY <1>1, <1>2
  <1> QED
    BY <1>1, <1>2, <1>3, LinesInOrder

\* There are as many complete lines from one on as newlines.
LEMMA LinesCounted ==
    ASSUME NEW f, Written(f), NEW e \in Newlines(f)
    PROVE  Cardinality({l \in Complete(f) : l >= f[e - 1]}) = Cardinality(From(Newlines(f), e))
  <1> DEFINE S == From(Newlines(f), e)
             T == {l \in Complete(f) : l >= f[e - 1]}
             lineOf == [j \in S |-> f[j - 1]]
  <1>1. Len(f) \in Nat /\ MaxLines \in Nat
    BY FileSeq, LogAssumption DEF Written
  <1>2. \A j \in Newlines(f) : j \in 1..Len(f) /\ j \in Nat /\ f[j - 1] \in Nat
    BY <1>1, NewlineFacts DEF Line
  <1>3. IsFiniteSet(S)
    <2>1. S \in SUBSET (0..Len(f))
      BY <1>1, <1>2 DEF From
    <2> QED
      BY <2>1, <1>1, Positions
  <1>4. ASSUME NEW j \in S PROVE j \in Newlines(f) /\ f[j - 1] \in T
    <2>1. j \in Newlines(f) /\ j >= e
      BY DEF From
    <2>2. f[j - 1] \in Complete(f)
      BY <2>1 DEF Complete, Newlines
    <2>3. j > e => f[e - 1] < f[j - 1]
      BY <2>1, NewlinesInOrder
    <2> QED
      BY <2>1, <2>2, <2>3, <1>2
  <1>5. ASSUME NEW l \in T PROVE \E j \in S : f[j - 1] = l
    <2>1. PICK j \in Newlines(f) : l = f[j - 1]
      BY DEF Complete, Newlines
    <2>2. j < e => f[j - 1] < f[e - 1]
      BY NewlinesInOrder
    <2>3. j >= e
      BY <2>1, <2>2, <1>2
    <2> QED
      BY <2>1, <2>3 DEF From
  <1>6. ASSUME NEW i \in S, NEW j \in S, f[i - 1] = f[j - 1] PROVE i = j
    <2>1. i \in Newlines(f) /\ j \in Newlines(f)
      BY <1>4
    <2>2. i < j => f[i - 1] < f[j - 1]
      BY <2>1, NewlinesInOrder
    <2>3. j < i => f[j - 1] < f[i - 1]
      BY <2>1, NewlinesInOrder
    <2> QED
      BY <2>1, <2>2, <2>3, <1>2, <1>6
  <1> HIDE DEF S, T
  <1>7. lineOf \in Injection(S, T)
    BY <1>4, <1>6 DEF Injection, IsInjective
  <1>8. lineOf \in Surjection(S, T)
    BY <1>4, <1>5 DEF Surjection
  <1> HIDE DEF lineOf
  <1>9. Cardinality(T) = Cardinality(S)
    BY <1>3, <1>7, <1>8, FS_Surjection
  <1> QED
    BY <1>9 DEF S, T

\* Is a complete line one of the last n?
InTail(f, n, l) == n = 0 \/ Cardinality({m \in Complete(f) : m >= l}) <= n

\* FindTailStart separates the last n complete lines from those before them: it
\* returns the end of a line, or 0; the last lines are decoded from there, and
\* the others are older than every byte behind it.
LEMMA TailStart ==
    ASSUME NEW f, Written(f), NEW n \in Nat
    PROVE  LET start == FindTailStart(f, n) IN
           /\ start \in 0..Len(f)
           /\ \A l \in Complete(f) : InTail(f, n, l) => \E i \in Ends(f, start) : Decoded(f, start, i) = l
           /\ \A l \in Complete(f), p \in 1..Len(f) : ~InTail(f, n, l) /\ start < p /\ f[p] # NL => l < f[p]
  <1> DEFINE N == Newlines(f)
             cuts == {i \in N : Cardinality(From(N, i)) = n + 1}
             start == FindTailStart(f, n)
  <1>1. Len(f) \in Nat /\ MaxLines \in Nat /\ DOMAIN f = 1..Len(f)
    BY FileSeq, LogAssumption DEF Written
  <1>2. N \in SUBSET (0..Len(f)) /\ \A i \in N : i \in 1..Len(f) /\ i \in Nat /\ f[i] = NL /\ f[i - 1] \in Nat
    BY <1>1, NewlineFacts DEF Line
  <1>3. \A i \in N : NewlinesIn(f, i, Len(f)) = From(N, i)
    BY <1>1, <1>2 DEF Newlines, NewlinesIn, From
  <1>4. cuts = {i \in NewlinesIn(f, 1, Len(f)) : Cardinality(NewlinesIn(f, i, Len(f))) = n + 1}
    BY <1>3 DEF Newlines
  <1>5. (n = 0 /\ start = 0) \/ (n > 0 /\ cuts = {} /\ start = 0) \/ (n > 0 /\ start \in cuts)
    <2> DEFINE K == {i \in NewlinesIn(f, 1, Len(f)) : Cardinality(NewlinesIn(f, i, Len(f))) = n + 1}
    <2>1. start = IF n = 0 \/ K = {} THEN 0 ELSE CHOOSE i \in K : TRUE
      BY DEF FindTailStart
    <2>2. K = cuts
      BY <1>4
    <2> HIDE DEF K, cuts, start
    <2>3. K # {} => (CHOOSE i \in K : TRUE) \in K
      BY Zenon
    <2>4. n = 0 \/ n > 0
      OBVIOUS
    <2> QED
      BY <2>1, <2>2, <2>3, <2>4
  <1> HIDE DEF start
  <1>6. start \in 0..Len(f) /\ start \in Nat
    BY <1>1, <1>2, <1>5
  <1>7. ASSUME NEW i \in N PROVE Cardinality(From(N, i)) \in Nat
    <2>1. From(N, i) \in SUBSET (0..Len(f))
      BY <1>2 DEF From
    <2> QED
      BY <2>1, <1>1, Positions
  <1>8. \A i, j \in N : i < j => Cardinality(From(N, j)) < Cardinality(From(N, i))
    BY <1>1, <1>2, RankLess
  <1>9. \A l \in Complete(f) : \E e \in N : l = f[e - 1]
    BY DEF Complete, Newlines
  <1>10. ASSUME NEW e \in N
         PROVE  InTail(f, n, f[e - 1]) <=> n = 0 \/ Cardinality(From(N, e)) <= n
    BY LinesCounted DEF InTail
  <1> HIDE DEF N
  <1>11. ASSUME NEW e \in N, n = 0 \/ Cardinality(From(N, e)) <= n
         PROVE  \E i \in Ends(f, start) : Decoded(f, start, i) = f[e - 1]
    <2>1. start < e
      <3>1. CASE start = 0
        BY <3>1, <1>2
      <3>2. CASE n > 0 /\ start \in cuts
        <4>1. start \in N /\ Cardinality(From(N, start)) = n + 1 /\ Cardinality(From(N, e)) <= n
          BY <3>2, <1>11
        <4>2. start # e
          BY <4>1
        <4>3. ~(e < start)
          BY <4>1, <1>7, <1>8
        <4> QED
          BY <4>1, <4>2, <4>3, <1>2
      <3> QED
        BY <3>1, <3>2, <1>5
    <2>2. /\ StartOf(f, e) = 0 \/ (StartOf(f, e) \in 1..Len(f) /\ f[StartOf(f, e)] = NL)
          /\ \A m \in (StartOf(f, e) + 1)..(e - 1) : f[m] # NL
      BY <1>1, <1>2 DEF Written, LineEnds
    <2>3. start = 0 \/ f[start] = NL
      BY <1>2, <1>5
    <2>4. StartOf(f, e) \in Nat
      BY <2>2
    <2>5. start <= StartOf(f, e)
      <3>1. ~(start \in (StartOf(f, e) + 1)..(e - 1)) \/ start = 0
        BY <2>2, <2>3
      <3> QED
        BY <3>1, <2>1, <2>4, <1>2, <1>6
    <2>6. e \in Ends(f, start) /\ Decoded(f, start, e) = f[e - 1]
      BY <2>5, <1>2, <1>6, EndDecoded
    <2> QED
      BY <2>6
  <1>12. ASSUME NEW e \in N, n # 0, ~(Cardinality(From(N, e)) <= n), NEW p \in 1..Len(f), start < p, f[p] # NL
         PROVE  f[e - 1] < f[p]
    <2>1. n + 1 <= Cardinality(From(N, e))
      BY <1>7, <1>12
    <2>2. Cardinality(From(N, e)) <= Cardinality(N) /\ Cardinality(N) \in Nat
      <3>1. IsFiniteSet(N) /\ Cardinality(N) \in Nat
        BY <1>1, <1>2, Positions
      <3>2. From(N, e) \in SUBSET N
        BY DEF From
      <3> QED
        BY <3>1, <3>2, FS_Subset
    <2>3. n + 1 \in 1..Cardinality(N)
      BY <2>1, <2>2, <1>7
    <2>4. cuts # {}
      <3>1. \E i \in N : Cardinality(From(N, i)) = n + 1
        BY <2>3, <1>1, <1>2, RankOnto
      <3> QED
        BY <3>1
    <2>5. start \in N /\ Cardinality(From(N, start)) = n + 1
      BY <2>4, <1>5, <1>12
    <2>6. ~(start < e)
      BY <2>1, <2>5, <1>7, <1>8
    <2>7. e < p
      BY <2>5, <2>6, <1>2, <1>12
    <2> QED
      BY <2>7, <1>2, <1>12, LinesInOrder
  <1>13. ASSUME NEW l \in Complete(f), InTail(f, n, l)
         PROVE  \E i \in Ends(f, start) : Decoded(f, start, i) = l
    BY <1>9, <1>10, <1>11, <1>13
  <1>14. ASSUME NEW l \in Complete(f), NEW p \in 1..Len(f), ~InTail(f, n, l), start < p, f[p] # NL
         PROVE  l < f[p]
    BY <1>9, <1>10, <1>12, <1>14
  <1> QED
    BY <1>6, <1>13, <1>14 DEF start

-----------------------------------------------------------------------------
(* The invariant is inductive.                                             *)

\* An empty file is well formed.
LEMMA EmptyWritten == Written(<<>>) /\ ~Torn(<<>>) /\ LinesOf(<<>>) = {}
  <1>1. <<>> \in Seq(Line \cup {NL}) /\ DOMAIN <<>> = {} /\ Len(<<>>) = 0
    BY EmptySeq
  <1> QED
    BY <1>1 DEF Written, Ascending, LineEnds, TornByte, Torn, Sized, LinesOf

LEMMA InitLInv == LInit => LInv
  <1> SUFFICES ASSUME LInit PROVE LInv
    OBVIOUS
  <1> USE DEF LInit
  <1>1. \A i \in Inode : files[i] = <<>>
    OBVIOUS
  <1>2. LTypeOK
    <2>1. <<>> \in Seq(Line \cup {NL}) /\ <<>> \in Seq(Line) /\ <<>> \in Seq([line : Line, whole : BOOLEAN])
      BY EmptySeq
    <2>2. files \in [Inode -> Seq(Line \cup {NL})]
      BY <2>1
    <2>3. st \in [started : BOOLEAN, offset : 0..(3 * MaxLines), last : Inode \cup {None}]
      BY LogAssumption
    <2>4. ghost \in [expect : SUBSET Line, skip : SUBSET Line, due : SUBSET Line]
      OBVIOUS
    <2>5. 0 \in 0..MaxStarts /\ 0 \in 0..MaxLines /\ 0 \in 0..MaxRotations
      BY LogAssumption
    <2> QED
      BY <2>1, <2>2, <2>3, <2>4, <2>5 DEF LTypeOK
  <1>3. Delivered = {}
    BY DEF Delivered
  <1>4. PipeOrdered
    BY DEF PipeOrdered
  <1>5. FilesOrdered
    BY <1>1, EmptyWritten DEF FilesOrdered
  <1>6. Handles
    BY <1>1 DEF Handles, Newest, None
  <1>7. Places
    BY DEF Places, None
  <1>8. Fresh /\ Skipped
    BY <1>3 DEF Fresh, Past, Skipped
  <1>9. InOrderOnce /\ WholeLines
    BY DEF InOrderOnce, WholeLines
  <1>10. Unrotated /\ WantedOnly
    BY DEF Unrotated, WantedOnly, Wanted
  <1>11. TailOwed /\ DueOwed
    BY DEF TailOwed, DueOwed
  <1> QED
    BY <1>2, <1>4, <1>5, <1>6, <1>7, <1>8, <1>9, <1>10, <1>11 DEF LInv

\* The types that the steps below need, spelled out.
LEMMA LogTypes ==
    ASSUME LTypeOK
    PROVE  /\ MaxLines \in Nat /\ MaxStarts \in Nat /\ printed \in Nat /\ starts \in Nat
           /\ path \in Nat /\ sink \in Nat /\ st.last \in Nat /\ st.offset \in Nat
           /\ path # None => path \in Inode
           /\ sink # None => sink \in Inode
           /\ st.last # None => st.last \in Inode
           /\ \A i \in Inode : i \in Nat /\ i # None /\ i > 0 /\ files[i] \in Seq(Line \cup {NL})
           /\ \A l \in Line : l \in Nat /\ l # NL
           /\ Len(pipe) \in Nat /\ DOMAIN pipe = 1..Len(pipe)
           /\ \A q \in 1..Len(pipe) : pipe[q] \in Line
           /\ Delivered \in SUBSET Line /\ Past \in SUBSET Line
           /\ req.since \in Nat /\ req.until \in Nat /\ req.tail \in Nat /\ req.follow \in BOOLEAN
  <1>1. /\ MaxLines \in Nat /\ MaxStarts \in Nat /\ printed \in Nat /\ starts \in Nat
        /\ path \in Nat /\ sink \in Nat /\ st.last \in Nat /\ st.offset \in Nat
        /\ path # None => path \in Inode
        /\ sink # None => sink \in Inode
        /\ st.last # None => st.last \in Inode
        /\ \A i \in Inode : i \in Nat /\ i # None /\ i > 0 /\ files[i] \in Seq(Line \cup {NL})
        /\ \A l \in Line : l \in Nat /\ l # NL
    BY LogAssumption DEF LTypeOK, Inode, Line, None, NL
  <1>2. Len(pipe) \in Nat /\ DOMAIN pipe = 1..Len(pipe) /\ \A q \in 1..Len(pipe) : pipe[q] \in Line
    BY LenProperties, ElementOfSeq DEF LTypeOK
  <1>3. Delivered \in SUBSET Line
    <2> DEFINE R == [line : Line, whole : BOOLEAN]
    <2>0. out \in Seq(R)
      BY DEF LTypeOK
    <2> HIDE DEF R
    <2>1. \A k \in DOMAIN out : out[k] \in R
      BY <2>0, LenProperties, ElementOfSeq
    <2>2. \A k \in DOMAIN out : out[k].line \in Line
      BY <2>1 DEF R
    <2> QED
      BY <2>2 DEF Delivered
  <1>4. ghost.skip \in SUBSET Line
    BY DEF LTypeOK
  <1>5. req.since \in Nat /\ req.until \in Nat /\ req.tail \in Nat /\ req.follow \in BOOLEAN
    BY LogAssumption DEF LTypeOK
  <1> QED
    BY <1>1, <1>2, <1>3, <1>4, <1>5 DEF Past

\* What a step that leaves the reader alone leaves true.
LEMMA ReaderFrame ==
    ASSUME LInv, UNCHANGED readVars
    PROVE  /\ Delivered' = Delivered /\ Past' = Past
           /\ Places' /\ InOrderOnce' /\ Skipped' /\ WholeLines' /\ WantedOnly'
  <1>1. Delivered' = Delivered /\ Past' = Past
    BY DEF readVars, Delivered, Past
  <1>2. Places' /\ InOrderOnce' /\ WholeLines'
    BY DEF LInv, readVars, Places, InOrderOnce, WholeLines
  <1>3. Skipped' /\ WantedOnly'
    BY <1>1 DEF LInv, readVars, Skipped, WantedOnly, Wanted
  <1> QED
    BY <1>1, <1>2, <1>3

\* A step that leaves the reader and the contents of files alone.
LEMMA QuietKeeps ==
    ASSUME LInv, LTypeOK', PipeOrdered', Handles', UNCHANGED <<files, readVars>>,
           \A l \in Line : Pending(l) => Pending(l)',
           \A i \in Inode : Torn(files[i]) /\ i = sink => i = sink',
           rotations' = 0 => rotations = 0,
           Undisturbed' => Undisturbed /\ (st.started => path' = path)
    PROVE  LInv'
  <1> USE DEF LInv
  <1>0. /\ Delivered' = Delivered /\ Past' = Past
        /\ Places' /\ InOrderOnce' /\ Skipped' /\ WholeLines' /\ WantedOnly'
    BY ReaderFrame
  <1>1. rd' = rd /\ st' = st /\ ghost' = ghost /\ watch' = watch /\ client' = client /\ req' = req /\ files' = files
    BY DEF readVars
  <1>2. FilesOrdered'
    <2>1. \A i \in Inode : LinesOf(files[i]) \in SUBSET Line
      BY LogTypes, FileSeq
    <2> QED
      BY <1>1, <2>1 DEF FilesOrdered
  <1>3. Fresh'
    <2>1. \A l \in Past : Pending(l) => Pending(l)'
      BY LogTypes
    <2> QED
      BY <1>0, <1>1, <2>1 DEF Fresh
  <1>4. Unrotated'
    BY <1>1 DEF Unrotated
  <1>5. \A S, f, off : Owed(S, f, off) => Owed(S, f, off)'
    BY <1>0 DEF Owed
  <1>6. TailOwed'
    BY <1>0, <1>1, <1>5 DEF TailOwed
  <1>7. DueOwed'
    BY <1>0, <1>1, <1>5 DEF DueOwed
  <1> QED
    BY <1>0, <1>2, <1>3, <1>4, <1>6, <1>7

\* The steps of the container that write nothing.
LEMMA OpenLogSinkKeeps == ASSUME LInv, OpenLogSink PROVE LInv'
  <1> USE DEF LInv
  <1>0. UNCHANGED <<files, readVars, status, printed, pipe, rotations>>
    BY DEF OpenLogSink
  <1>1. starts' = starts + 1 /\ starts < MaxStarts /\ starts' \in Inode
    BY LogTypes DEF OpenLogSink, Inode
  <1>2. IF sink # None THEN path' = path /\ sink' = sink
        ELSE sink' = path' /\ path' = IF path # None THEN path ELSE starts + 1
    BY DEF OpenLogSink
  <1>3. LTypeOK'
    <2>1. path' \in Inode \cup {None} /\ sink' \in Inode \cup {None}
      BY <1>1, <1>2, LogTypes DEF LTypeOK
    <2>2. starts' \in 0..MaxStarts /\ launching' \in BOOLEAN
      BY <1>1, LogTypes DEF OpenLogSink
    <2> QED
      BY <1>0, <2>1, <2>2 DEF LTypeOK, readVars
  <1>4. PipeOrdered' /\ \A l \in Line : Pending(l) => Pending(l)'
    BY <1>0 DEF PipeOrdered, Pending
  <1>5. st' = st
    BY <1>0 DEF readVars
  <1>6. \A i : Newest(i) => Newest(i)'
    BY <1>0 DEF Newest
  <1>7. Newest(starts) /\ \A i : Newest(starts) /\ i = starts + 1 => Newest(i)
    BY LogTypes DEF Handles, Newest
  <1>8. Handles'
    BY <1>0, <1>1, <1>2, <1>5, <1>6, <1>7, LogTypes DEF Handles, OpenLogSink
  <1>9. sink # None => sink' = sink
    BY <1>2
  <1>10. Undisturbed' => Undisturbed /\ (st.started => path' = path)
    BY <1>0, <1>2 DEF Undisturbed, Unrotated, Places
  <1> QED
    BY <1>0, <1>3, <1>4, <1>8, <1>9, <1>10, LogTypes, QuietKeeps

LEMMA StartTaskKeeps == ASSUME LInv, StartTask PROVE LInv'
  <1> USE DEF LInv
  <1>0. UNCHANGED <<starts, printed, files, path, sink, rotations, readVars>> /\ pipe' = <<>>
    BY DEF StartTask, fileVars
  <1>1. LTypeOK'
    <2>1. <<>> \in Seq(Line)
      BY EmptySeq
    <2> QED
      BY <1>0, <2>1 DEF StartTask, LTypeOK, readVars
  <1>2. PipeOrdered' /\ \A l \in Line : Pending(l) => Pending(l)'
    BY <1>0 DEF PipeOrdered, Pending
  <1>3. Handles'
    BY <1>0 DEF Handles, Newest, readVars, StartTask
  <1>4. Undisturbed' => Undisturbed
    BY <1>0 DEF Undisturbed, StartTask, Handles
  <1> QED
    BY <1>0, <1>1, <1>2, <1>3, <1>4, QuietKeeps

\* Steps that change the status, or the status and nothing else.
LEMMA StatusKeeps ==
    ASSUME LInv, RunTask \/ ProcessExits \/ RemoveContainer
    PROVE  LInv'
  <1> USE DEF LInv
  <1>0. UNCHANGED <<starts, launching, printed, pipe, files, path, sink, rotations, readVars>>
    BY DEF RunTask, ProcessExits, RemoveContainer, fileVars
  <1>1. /\ status' \in {"running", "exited", "gone"} /\ status # "gone"
        /\ status' = "gone" => ~launching
    BY DEF RunTask, ProcessExits, RemoveContainer
  <1>2. LTypeOK'
    BY <1>0, <1>1 DEF LTypeOK, readVars
  <1>3. PipeOrdered' /\ \A l \in Line : Pending(l) => Pending(l)'
    BY <1>0 DEF PipeOrdered, Pending
  <1>4. Handles'
    BY <1>0, <1>1 DEF Handles, Newest, readVars
  <1>5. Undisturbed' => Undisturbed
    BY <1>0, <1>1 DEF Undisturbed
  <1> QED
    BY <1>0, <1>2, <1>3, <1>4, <1>5, QuietKeeps

LEMMA ProcessPrintsKeeps == ASSUME LInv, ProcessPrints PROVE LInv'
  <1> USE DEF LInv
  <1>0. UNCHANGED <<status, starts, launching, files, path, sink, rotations, readVars>>
    BY DEF ProcessPrints, fileVars
  <1>1. /\ printed' = printed + 1 /\ printed + 1 \in Line /\ printed < MaxLines
        /\ pipe' = Append(pipe, printed + 1) /\ pipe \in Seq(Line)
    BY LogTypes DEF ProcessPrints, Line, LTypeOK
  <1>2. /\ pipe' \in Seq(Line) /\ Len(pipe') = Len(pipe) + 1
        /\ \A q \in 1..Len(pipe) : pipe'[q] = pipe[q]
        /\ pipe'[Len(pipe) + 1] = printed + 1
    BY <1>1, AppendProperties
  <1>3. DOMAIN pipe' = 1..(Len(pipe) + 1) /\ DOMAIN pipe = 1..Len(pipe) /\ Len(pipe) \in Nat
    BY <1>2, LogTypes, LenProperties
  <1>4. LTypeOK'
    <2>1. printed' \in 0..MaxLines
      BY <1>1, LogTypes
    <2> QED
      BY <1>0, <1>2, <2>1 DEF LTypeOK, readVars
  <1>5. \A q \in 1..(Len(pipe) + 1) : q \in 1..Len(pipe) \/ q = Len(pipe) + 1
    BY <1>3
  <1>6. \A q \in 1..Len(pipe) : pipe[q] <= printed /\ pipe[q] \in Nat
    BY <1>3, LogTypes DEF PipeOrdered
  <1>7. PipeOrdered'
    <2>1. \A q \in 1..(Len(pipe) + 1) : pipe'[q] <= printed'
      BY <1>1, <1>2, <1>5, <1>6, LogTypes
    <2>2. ASSUME NEW q \in 1..(Len(pipe) + 1), NEW r \in 1..(Len(pipe) + 1), q < r
          PROVE  pipe'[q] < pipe'[r]
      <3>1. q \in 1..Len(pipe)
        BY <1>3, <2>2
      <3>2. CASE r \in 1..Len(pipe)
        BY <3>1, <3>2, <2>2, <1>2, <1>3 DEF PipeOrdered
      <3>3. CASE r = Len(pipe) + 1
        BY <3>1, <3>3, <1>2, <1>6, LogTypes
      <3> QED
        BY <3>2, <3>3, <1>5
    <2> QED
      BY <2>1, <2>2, <1>3 DEF PipeOrdered
  <1>8. ASSUME NEW l \in Line, Pending(l) PROVE Pending(l)'
    <2>1. l \in Nat /\ l <= printed /\ \A q \in 1..Len(pipe) : l < pipe[q]
      BY <1>3, <1>8, LogTypes DEF Pending
    <2>2. \A q \in 1..(Len(pipe) + 1) : l < pipe'[q]
      BY <2>1, <1>2, <1>5, LogTypes
    <2> QED
      BY <2>1, <2>2, <1>1, <1>3, LogTypes DEF Pending
  <1>9. Handles'
    BY <1>0 DEF Handles, Newest, readVars
  <1>10. Undisturbed' => Undisturbed
    BY <1>0 DEF Undisturbed
  <1> QED
    BY <1>0, <1>4, <1>7, <1>8, <1>9, <1>10, QuietKeeps

\* Closing the sink, discarding the logs and moving the file away.
LEMMA CloseKeeps ==
    ASSUME LInv, CloseLogSink \/ DiscardLogs \/ (Rotate /\ UNCHANGED files)
    PROVE  LInv'
  <1> USE DEF LInv
  <1>0. UNCHANGED <<status, starts, launching, printed, pipe, files, readVars>>
    BY DEF CloseLogSink, DiscardLogs, Rotate, procVars
  <1>1. ~Writing
    BY DEF CloseLogSink, DiscardLogs, Rotate
  <1>2. /\ sink' \in {sink, None} /\ path' \in {path, None}
        /\ rotations' \in 0..MaxRotations
        /\ (rotations' = rotations /\ (path' = path \/ status = "gone")) \/ rotations' # 0
    <2>1. CASE CloseLogSink \/ DiscardLogs
      BY <2>1 DEF CloseLogSink, DiscardLogs, LTypeOK
    <2>2. CASE Rotate /\ UNCHANGED files
      <3>1. rotations' = rotations + 1 /\ rotations < MaxRotations /\ rotations \in Nat /\ sink' = sink
        BY <2>2, LogAssumption DEF Rotate, LTypeOK
      <3>2. rotations' \in 0..MaxRotations /\ rotations' # 0
        BY <3>1, LogAssumption
      <3>3. path' \in {path, None}
        BY <2>2 DEF Rotate
      <3> QED
        BY <3>1, <3>2, <3>3
    <2> QED
      BY <2>1, <2>2
  <1>3. LTypeOK'
    <2>1. path' \in Inode \cup {None} /\ sink' \in Inode \cup {None}
      BY <1>2 DEF LTypeOK
    <2> QED
      BY <1>0, <1>2, <2>1 DEF LTypeOK, readVars
  <1>4. PipeOrdered' /\ \A l \in Line : Pending(l) => Pending(l)'
    BY <1>0 DEF PipeOrdered, Pending
  <1>5. Handles'
    <2>1. \A i : Newest(i) => Newest(i)'
      BY <1>0 DEF Newest
    <2>2. None <= starts /\ st' = st
      BY <1>0, LogTypes DEF None, readVars
    <2> QED
      BY <1>0, <1>2, <2>1, <2>2 DEF Handles
  <1>6. \A i \in Inode : Torn(files[i]) => i # sink
    BY <1>1, LogTypes DEF Writing
  <1>7. Undisturbed' => Undisturbed /\ path' = path
    BY <1>0, <1>2 DEF Undisturbed
  <1>8. rotations' = 0 => rotations = 0
    BY <1>2
  <1> QED
    BY <1>0, <1>3, <1>4, <1>5, <1>6, <1>7, <1>8, QuietKeeps

\* The open file grows by g: the contents stay in order, and what was owed still
\* is.  The new bytes are those of a line newer than all others, or of the last.
LEMMA GrowKeeps ==
    ASSUME LInv, sink # None, NEW g, Written(g), Grown(files[sink], g),
           files' = [files EXCEPT ![sink] = g], LTypeOK', PipeOrdered',
           UNCHANGED <<status, starts, launching, printed, path, sink, rotations, readVars>>,
           NEW k \in Line, LinesOf(g) = LinesOf(files[sink]) \cup {k}, Pending(k)',
           \A l \in Line : Pending(l) => Pending(l)' /\ (l < k \/ k \in LinesOf(files[sink])),
           \A p \in 1..Len(g) : g[p] # NL /\ ~(p <= Len(files[sink])) => g[p] = k,
           k \in LinesOf(files[sink]) => Torn(files[sink]) /\ k = Last(files[sink]) /\ ~Torn(g),
           ~Torn(files[sink]) => Len(g) = Len(files[sink]) + 1
    PROVE  LInv'
  <1> USE DEF LInv
  <1> DEFINE f == files[sink]
  <1>0. /\ Delivered' = Delivered /\ Past' = Past
        /\ Places' /\ InOrderOnce' /\ Skipped' /\ WholeLines' /\ WantedOnly'
    BY ReaderFrame
  <1>1. rd' = rd /\ st' = st /\ ghost' = ghost /\ watch' = watch /\ client' = client /\ req' = req
    BY DEF readVars
  <1>2. sink \in Inode /\ files'[sink] = g /\ \A i \in Inode : i # sink => files'[i] = files[i]
    BY LogTypes DEF LTypeOK
  <1>3. /\ f \in Seq(Line \cup {NL}) /\ g \in Seq(Line \cup {NL}) /\ Written(f)
        /\ Len(f) \in Nat /\ Len(g) \in Nat /\ DOMAIN f = 1..Len(f) /\ DOMAIN g = 1..Len(g)
        /\ Len(f) <= Len(g) /\ \A p \in 1..Len(f) : g[p] = f[p]
    BY <1>2, LogTypes, FileSeq DEF FilesOrdered, Written, Grown
  <1>4. Newest(sink)
    BY DEF Handles
  <1>5. \A j \in Inode : j > sink => files[j] = <<>> /\ files'[j] = <<>> /\ LinesOf(<<>>) = {}
    BY <1>2, <1>4, LogTypes, EmptyWritten DEF Newest
  <1>6. \A l \in Line : Pending(l) => l < k \/ k \in LinesOf(f)
    OBVIOUS
  <1>7. \A i \in Inode : \A l \in LinesOf(files[i]) : l \in Line /\ Pending(l)
    BY LogTypes, FileSeq DEF FilesOrdered
  <1>8. FilesOrdered'
    <2>1. ASSUME NEW i \in Inode
          PROVE  /\ Written(files'[i]) /\ (Torn(files'[i]) => i = sink')
                 /\ \A l \in LinesOf(files'[i]) : Pending(l)'
      BY <1>2, <1>7 DEF FilesOrdered
    <2>2. ASSUME NEW i \in Inode, NEW j \in Inode, i < j,
                 NEW l \in LinesOf(files'[i]), NEW m \in LinesOf(files'[j])
          PROVE  l < m
      <3>1. j # sink /\ i # sink
            => l \in LinesOf(files[i]) /\ m \in LinesOf(files[j])
        BY <1>2
      <3>2. CASE i = sink
        BY <2>2, <3>2, <1>5
      <3>3. CASE j = sink /\ m # k
        BY <2>2, <3>3, <1>2, LogTypes DEF FilesOrdered
      <3>4. CASE j = sink /\ m = k
        <4>1. i # sink /\ l \in LinesOf(files[i])
          BY <2>2, <3>4, <1>2, LogTypes
        <4>2. l < k \/ k \in LinesOf(f)
          BY <4>1, <1>7, <1>6
        <4> QED
          BY <4>1, <4>2, <2>2, <3>4, <1>2 DEF FilesOrdered
      <3> QED
        BY <2>2, <3>1, <3>2, <3>3, <3>4 DEF FilesOrdered
    <2> QED
      BY <2>1, <2>2 DEF FilesOrdered
  <1>9. Handles'
    <2>1. \A i \in Nat : sink <= i /\ Newest(i) => Newest(i)'
      BY <1>2, LogTypes DEF Newest
    <2>2. path \in {None, sink} /\ sink <= starts
      BY DEF Handles
    <2> QED
      BY <2>1, <2>2, <1>1, LogTypes DEF Handles
  <1>10. Fresh'
    <2> SUFFICES ASSUME rd # "done", NEW l \in Past
                 PROVE  /\ Pending(l)'
                        /\ \A j \in Inode : j > st.last => \A m \in LinesOf(files'[j]) : l < m
                        /\ st.last # None =>
                             \A p \in Ahead(files'[st.last], st.offset) : l < files'[st.last][p]
      BY <1>0, <1>1 DEF Fresh
    <2>1. l \in Line /\ l \in Nat
      BY LogTypes
    <2>2. /\ Pending(l)
          /\ \A j \in Inode : j > st.last => \A m \in LinesOf(files[j]) : l < m
          /\ st.last # None => \A p \in Ahead(files[st.last], st.offset) : l < files[st.last][p]
      BY DEF Fresh
    <2>3. l < k \/ k \in LinesOf(f)
      BY <2>1, <2>2
    <2>4. ASSUME NEW j \in Inode, j > st.last, NEW m \in LinesOf(files'[j]) PROVE l < m
      <3>1. CASE j # sink
        BY <3>1, <2>2, <2>4, <1>2
      <3>2. CASE j = sink
        <4>1. m \in LinesOf(f) \/ m = k
          BY <3>2, <2>4, <1>2
        <4> QED
          BY <4>1, <3>2, <2>2, <2>3, <2>4
      <3> QED
        BY <3>1, <3>2
    <2>5. ASSUME st.last # None, NEW p \in Ahead(files'[st.last], st.offset)
          PROVE  l < files'[st.last][p]
      <3>1. CASE st.last # sink
        <4>1. files'[st.last] = files[st.last]
          BY <2>5, <3>1, <1>2, LogTypes
        <4> QED
          BY <4>1, <2>2, <2>5
      <3>2. CASE st.last = sink
        <4>1. /\ p \in 1..Len(g) /\ g[p] # NL /\ files'[st.last] = g
              /\ p > st.offset \/ Len(g) < st.offset \/ p = Len(g)
          BY <3>2, <2>5, <1>2, <1>3 DEF Ahead
        <4>2. CASE p <= Len(f) /\ ~(p = Len(g))
          <5>0. Len(f) \in Nat /\ Len(g) \in Nat /\ Len(f) <= Len(g) /\ st.offset \in Nat
            BY <1>3, LogTypes
          <5>1. p \in 1..Len(f) /\ g[p] = f[p]
            <6>1. p \in 1..Len(f)
              BY <4>1, <4>2, <5>0
            <6> QED
              BY <6>1, <1>3
          <5>2. p > st.offset \/ Len(f) < st.offset
            BY <4>1, <4>2, <5>0
          <5>3. p \in Ahead(f, st.offset)
            BY <5>1, <5>2, <4>1, <1>3 DEF Ahead
          <5> QED
            BY <5>1, <5>3, <4>1, <3>2, <2>2, <2>5
        <4>3. CASE p <= Len(f) /\ p = Len(g)
          <5>1. p = Len(f) /\ p \in 1..Len(f) /\ g[p] = f[p]
            BY <4>1, <4>3, <1>3
          <5>2. p \in Ahead(f, st.offset)
            BY <5>1, <4>1, <1>3 DEF Ahead
          <5> QED
            BY <5>1, <5>2, <4>1, <3>2, <2>2, <2>5
        <4>4. CASE ~(p <= Len(f))
          <5>1. g[p] = k
            BY <4>1, <4>4
          <5>2. CASE k \in LinesOf(f)
            <6>1. Torn(f) /\ k = f[Len(f)]
              BY <5>2 DEF Last
            <6>2. Len(f) \in 1..Len(f) /\ f[Len(f)] # NL
              BY <6>1, <1>3, FileSeq
            <6>3. Len(f) \in Ahead(f, st.offset)
              BY <6>2, <1>3 DEF Ahead
            <6> QED
              BY <6>1, <6>3, <5>1, <4>1, <3>2, <2>2, <2>5
          <5> QED
            BY <5>1, <5>2, <2>3, <4>1
        <4> QED
          BY <4>2, <4>3, <4>4
      <3> QED
        BY <3>1, <3>2
    <2> QED
      BY <2>1, <2>2, <2>4, <2>5
  <1>11. \A i \in Inode : /\ Written(files[i]) /\ Written(files'[i]) /\ Grown(files[i], files'[i])
                          /\ Len(files[i]) \in Nat /\ Len(files'[i]) \in Nat
    <2> SUFFICES ASSUME NEW i \in Inode
                 PROVE  /\ Written(files[i]) /\ Written(files'[i]) /\ Grown(files[i], files'[i])
                        /\ Len(files[i]) \in Nat /\ Len(files'[i]) \in Nat
      OBVIOUS
    <2>1. Written(files[i]) /\ Len(files[i]) \in Nat
      BY LogTypes, FileSeq DEF FilesOrdered
    <2>2. CASE i = sink
      BY <2>1, <2>2, <1>2, <1>3
    <2>3. CASE i # sink
      BY <2>1, <2>3, <1>2 DEF Grown
    <2> QED
      BY <2>2, <2>3
  <1>12. Unrotated'
    BY <1>1, <1>11, LogTypes DEF Unrotated, Undisturbed, Places, Grown
  <1>13. ASSUME NEW S, st.last # None, Owed(S, files[st.last], st.offset)
         PROVE  Owed(S, files[st.last], st.offset)'
    <2> SUFFICES ASSUME NEW l \in S
                 PROVE  l \in Delivered \/ \E i \in Ends(files'[st.last], st.offset) :
                                              Decoded(files'[st.last], st.offset, i) = l
      BY <1>0, <1>1 DEF Owed
    <2>1. l \in Delivered \/ \E i \in Ends(files[st.last], st.offset) : Decoded(files[st.last], st.offset, i) = l
      BY <1>13 DEF Owed
    <2>2. st.last \in Inode /\ st.offset \in Nat
      BY <1>13, LogTypes
    <2> QED
      BY <2>1, <2>2, <1>11, EndsGrow
  <1>14. TailOwed'
    BY <1>0, <1>1, <1>13 DEF TailOwed, Places
  <1>15. DueOwed'
    BY <1>0, <1>1, <1>13 DEF DueOwed, Places, Undisturbed
  <1> QED
    BY <1>0, <1>8, <1>9, <1>10, <1>12, <1>14, <1>15

\* criLogWriter.Write: the lines of the pipe are newer than those of the files.
LEMMA CopyLineKeeps == ASSUME LInv, CopyLine PROVE LInv'
  <1> USE DEF LInv
  <1>0. UNCHANGED <<status, starts, launching, printed, path, sink, rotations, readVars>>
    BY DEF CopyLine
  <1>1. pipe # <<>> /\ pipe \in Seq(Line)
    BY DEF CopyLine, LTypeOK
  <1>2. CASE sink = None
    <2>0. pipe' = <<>> /\ files' = files
      BY <1>2 DEF CopyLine
    <2>1. LTypeOK'
      <3>1. <<>> \in Seq(Line)
        BY EmptySeq
      <3> QED
        BY <1>0, <2>0, <3>1 DEF LTypeOK, readVars
    <2>2. PipeOrdered' /\ \A l \in Line : Pending(l) => Pending(l)'
      BY <1>0, <2>0 DEF PipeOrdered, Pending
    <2>3. Handles'
      BY <1>0, <2>0 DEF Handles, Newest, readVars
    <2>4. Undisturbed' => Undisturbed
      BY <1>0 DEF Undisturbed
    <2> QED
      BY <1>0, <2>0, <2>1, <2>2, <2>3, <2>4, QuietKeeps
  <1>3. CASE sink # None
    <2> DEFINE f == files[sink]
    <2>0. PICK k, g : k = Head(pipe) /\ g = Append(f, k)
      OBVIOUS
    <2>1. pipe' = Tail(pipe) /\ files' = [files EXCEPT ![sink] = g] /\ ~Torn(f)
      BY <1>3, <2>0 DEF CopyLine, Writing
    <2>2. /\ k \in Line /\ Len(pipe) \in Nat \ {0} /\ k = pipe[1]
          /\ pipe' \in Seq(Line) /\ Len(pipe') = Len(pipe) - 1
          /\ \A q \in 1..(Len(pipe) - 1) : pipe'[q] = pipe[q + 1]
      BY <1>1, <2>0, <2>1, HeadTailProperties, EmptySeq
    <2>3. DOMAIN pipe' = 1..(Len(pipe) - 1) /\ DOMAIN pipe = 1..Len(pipe) /\ 1 \in 1..Len(pipe)
      BY <2>2, <1>1, LenProperties
    <2>4. ASSUME NEW q \in 1..(Len(pipe) - 1)
          PROVE  q + 1 \in 1..Len(pipe) /\ 1 < q + 1 /\ pipe'[q] = pipe[q + 1]
      BY <2>2
    <2>5. sink \in Inode /\ f \in Seq(Line \cup {NL}) /\ Written(f) /\ LinesOf(f) \in SUBSET Line
      BY <1>3, LogTypes, FileSeq DEF FilesOrdered
    <2>6. \A l \in Line : Pending(l) => l < k
      BY <2>2, <2>3 DEF Pending
    <2>7. \A l \in LinesOf(f) : l < k
      BY <2>5, <2>6 DEF FilesOrdered
    <2>8. Written(g) /\ Grown(f, g) /\ LinesOf(g) = LinesOf(f) \cup {k}
      BY <2>0, <2>1, <2>2, <2>5, <2>7, FirstByteWritten
    <2>9. Len(g) = Len(f) + 1 /\ g[Len(f) + 1] = k /\ Len(f) \in Nat
      <3>1. k \in Line \cup {NL}
        BY <2>2
      <3> QED
        BY <2>0, <2>5, <3>1, AppendProperties, FileSeq
    <2>10. PipeOrdered'
      <3>1. \A q \in 1..(Len(pipe) - 1) : pipe'[q] <= printed
        BY <2>3, <2>4 DEF PipeOrdered
      <3>2. \A q, r \in 1..(Len(pipe) - 1) : q < r => pipe'[q] < pipe'[r]
        BY <2>3, <2>4 DEF PipeOrdered
      <3> QED
        BY <3>1, <3>2, <1>0, <2>3 DEF PipeOrdered
    <2>11. Pending(k)'
      <3>1. k <= printed
        BY <2>2, <2>3 DEF PipeOrdered
      <3>2. \A q \in 1..(Len(pipe) - 1) : k < pipe'[q]
        BY <2>2, <2>3, <2>4 DEF PipeOrdered
      <3> QED
        BY <3>1, <3>2, <1>0, <2>3 DEF Pending
    <2>12. \A l \in Line : Pending(l) => Pending(l)'
      BY <1>0, <2>3, <2>4 DEF Pending
    <2>13. LTypeOK'
      <3>1. files' \in [Inode -> Seq(Line \cup {NL})]
        BY <2>1, <2>8 DEF LTypeOK, Written
      <3> QED
        BY <1>0, <2>2, <3>1 DEF LTypeOK, readVars
    <2>14. k \notin LinesOf(f)
      BY <2>2, <2>7, LogTypes
    <2>15. \A p \in 1..Len(g) : g[p] # NL /\ ~(p <= Len(f)) => g[p] = k
      BY <2>9
    <2>16. \A l \in Line : Pending(l) => Pending(l)' /\ (l < k \/ k \in LinesOf(f))
      BY <2>6, <2>12
    <2> QED
      BY <1>0, <1>3, <2>1, <2>2, <2>8, <2>9, <2>10, <2>11, <2>13, <2>14, <2>15, <2>16, GrowKeeps
  <1> QED
    BY <1>2, <1>3

LEMMA CopyRestKeeps == ASSUME LInv, CopyRest PROVE LInv'
  <1> USE DEF LInv
  <1> DEFINE f == files[sink]
  <1> PICK k, g : k = Last(f) /\ g = Rest(f)
    OBVIOUS
  <1>0. UNCHANGED <<status, starts, launching, printed, pipe, path, sink, rotations, readVars>>
    BY DEF CopyRest, procVars
  <1>1. sink # None /\ Torn(f) /\ files' = [files EXCEPT ![sink] = g]
    BY DEF CopyRest, Writing, Rest
  <1>2. sink \in Inode /\ f \in Seq(Line \cup {NL}) /\ Written(f)
    BY <1>1, LogTypes DEF FilesOrdered
  <1>3. Written(g) /\ Grown(f, g) /\ ~Torn(g) /\ LinesOf(g) = LinesOf(f)
    BY <1>1, <1>2, RestWritten
  <1>4. Len(f) \in 1..Len(f) /\ k = f[Len(f)] /\ k # NL /\ k \in Line /\ Len(f) \in Nat
    BY <1>1, <1>2, FileSeq DEF Last
  <1>5. k \in LinesOf(f)
    BY <1>2, <1>4, FileSeq
  <1>6. /\ Len(g) \in Nat /\ g[Len(g)] = NL
        /\ \A p \in (Len(f) + 1)..(Len(g) - 1) : g[p] = k
    BY <1>1, <1>2, <1>3, RestBytes, FileSeq DEF Written
  <1>7. \A p \in 1..Len(g) : g[p] # NL /\ ~(p <= Len(f)) => g[p] = k
    <2> SUFFICES ASSUME NEW p \in 1..Len(g), g[p] # NL, ~(p <= Len(f)) PROVE g[p] = k
      OBVIOUS
    <2>1. p # Len(g)
      BY <1>6
    <2>2. p \in (Len(f) + 1)..(Len(g) - 1)
      BY <1>4, <1>6, <2>1
    <2> QED
      BY <1>6, <2>2
  <1>8. LTypeOK'
    <2>1. files' \in [Inode -> Seq(Line \cup {NL})]
      BY <1>1, <1>3 DEF LTypeOK, Written
    <2> QED
      BY <1>0, <2>1 DEF LTypeOK, readVars
  <1>9. PipeOrdered' /\ \A l \in Line : Pending(l) => Pending(l)'
    BY <1>0 DEF PipeOrdered, Pending
  <1>10. Pending(k)'
    BY <1>2, <1>4, <1>5, <1>9 DEF FilesOrdered
  <1>11. LinesOf(g) = LinesOf(f) \cup {k}
    BY <1>3, <1>5
  <1> QED
    BY <1>0, <1>1, <1>3, <1>4, <1>5, <1>7, <1>8, <1>9, <1>10, <1>11, GrowKeeps

\* A file that is truncated in place is read from its start by then, or was read
\* to its end.
LEMMA TruncateKeeps == ASSUME LInv, Rotate, path # None, files' = [files EXCEPT ![path] = <<>>], UNCHANGED path
                       PROVE  LInv'
  <1> USE DEF LInv
  <1>0. UNCHANGED <<status, starts, launching, printed, pipe, path, sink, readVars>>
    BY DEF Rotate, procVars
  <1>1. rotations' = rotations + 1 /\ rotations' \in 0..MaxRotations /\ rotations' # 0
    BY LogAssumption DEF Rotate, LTypeOK
  <1>2. path \in Inode /\ files'[path] = <<>> /\ \A i \in Inode : i # path => files'[i] = files[i]
    BY LogTypes DEF LTypeOK
  <1>3. /\ Delivered' = Delivered /\ Past' = Past
        /\ Places' /\ InOrderOnce' /\ Skipped' /\ WholeLines' /\ WantedOnly'
    BY <1>0, ReaderFrame
  <1>4. rd' = rd /\ st' = st
    BY <1>0 DEF readVars
  <1>5. LTypeOK'
    <2>1. <<>> \in Seq(Line \cup {NL})
      BY EmptySeq
    <2>2. files' \in [Inode -> Seq(Line \cup {NL})]
      BY <2>1 DEF LTypeOK
    <2> QED
      BY <1>0, <1>1, <2>2 DEF LTypeOK, readVars
  <1>6. PipeOrdered' /\ \A l \in Line : Pending(l) => Pending(l)'
    BY <1>0 DEF PipeOrdered, Pending
  <1>7. \A i \in Inode : \A l \in LinesOf(files'[i]) : l \in LinesOf(files[i]) /\ l \in Line
    BY <1>2, EmptyWritten, LogTypes, FileSeq
  <1>8. FilesOrdered'
    <2>1. ASSUME NEW i \in Inode
          PROVE  /\ Written(files'[i]) /\ (Torn(files'[i]) => i = sink')
                 /\ \A l \in LinesOf(files'[i]) : Pending(l)'
      BY <1>0, <1>2, <1>6, <1>7, EmptyWritten DEF FilesOrdered
    <2> QED
      BY <2>1, <1>7 DEF FilesOrdered
  <1>9. Handles'
    <2>1. \A i : Newest(i) => Newest(i)'
      BY <1>2 DEF Newest
    <2> QED
      BY <2>1, <1>0, <1>4 DEF Handles
  <1>10. Fresh'
    <2>1. st.last = path => Ahead(files'[st.last], st.offset) = {}
      BY <1>2 DEF Ahead
    <2>2. st.last # None /\ st.last # path => files'[st.last] = files[st.last]
      BY <1>2, LogTypes
    <2>3. \A l \in Past : Pending(l) => Pending(l)'
      BY <1>6, LogTypes
    <2> QED
      BY <1>3, <1>4, <1>7, <2>1, <2>2, <2>3 DEF Fresh
  <1>11. Unrotated' /\ TailOwed' /\ DueOwed'
    BY <1>1 DEF Unrotated, TailOwed, DueOwed, Undisturbed
  <1> QED
    BY <1>3, <1>5, <1>6, <1>8, <1>9, <1>10, <1>11

\* What a step of the reader, the watcher or the client leaves alone.
LEMMA FilesFrame ==
    ASSUME LInv, UNCHANGED <<procVars, fileVars>>
    PROVE  /\ UNCHANGED <<status, starts, launching, printed, pipe, files, path, sink, rotations>>
           /\ PipeOrdered' /\ FilesOrdered'
           /\ \A l : Pending(l)' <=> Pending(l)
           /\ \A i : Newest(i) => Newest(i)'
           /\ Undisturbed' <=> Undisturbed
  <1>1. UNCHANGED <<status, starts, launching, printed, pipe, files, path, sink, rotations>>
    BY DEF procVars, fileVars
  <1>2. PipeOrdered' /\ \A l : Pending(l)' <=> Pending(l)
    BY <1>1 DEF LInv, PipeOrdered, Pending
  <1>3. FilesOrdered'
    BY <1>1, <1>2 DEF LInv, FilesOrdered
  <1>4. (\A i : Newest(i) => Newest(i)') /\ (Undisturbed' <=> Undisturbed)
    BY <1>1 DEF Newest, Undisturbed
  <1> QED
    BY <1>1, <1>2, <1>3, <1>4

\* The reader goes on to another place without reading, or ends.
LEMMA MoveKeeps ==
    ASSUME LInv, UNCHANGED <<procVars, fileVars, req, st, out, ghost>>, LTypeOK', Places', DueOwed',
           rd = "done" => rd' = "done", rd' = "done" \/ (rd = "emit" <=> rd' = "emit"),
           Undisturbed /\ rd' = "await" => ~st.started
    PROVE  LInv'
  <1> USE DEF LInv
  <1>1. /\ UNCHANGED <<status, starts, launching, printed, pipe, files, path, sink, rotations>>
        /\ PipeOrdered' /\ FilesOrdered'
        /\ \A l : Pending(l)' <=> Pending(l)
        /\ \A i : Newest(i) => Newest(i)'
        /\ Undisturbed' <=> Undisturbed
    BY FilesFrame
  <1>2. Delivered' = Delivered /\ Past' = Past
    BY DEF Delivered, Past
  <1>3. Handles'
    BY <1>1 DEF Handles
  <1>4. InOrderOnce' /\ WholeLines' /\ Skipped' /\ WantedOnly'
    BY <1>2 DEF InOrderOnce, WholeLines, Skipped, WantedOnly, Wanted
  <1>5. Fresh'
    BY <1>1, <1>2 DEF Fresh
  <1>6. Unrotated'
    BY <1>1 DEF Unrotated
  <1>7. TailOwed'
    <2>1. \A S, f, off : Owed(S, f, off) => Owed(S, f, off)'
      BY <1>2 DEF Owed
    <2> QED
      BY <1>1, <1>2, <2>1 DEF TailOwed
  <1> QED
    BY <1>1, <1>3, <1>4, <1>5, <1>6, <1>7

\* The lines that are due stay due while the reader has not ended.
LEMMA DueStays ==
    ASSUME LInv, UNCHANGED <<procVars, fileVars, st, out, ghost>>,
           watch' = "fired" => watch = "fired", client' = "here" => client = "here",
           rd' = "done" => rd = "done" \/ ghost.due = {}, rd = "done" => rd' = "done"
    PROVE  DueOwed'
  <1>1. UNCHANGED files /\ (Undisturbed' <=> Undisturbed)
    BY FilesFrame DEF fileVars
  <1>2. Delivered' = Delivered
    BY DEF Delivered
  <1>3. \A S, f, off : Owed(S, f, off) => Owed(S, f, off)'
    BY <1>2 DEF Owed
  <1> QED
    BY <1>1, <1>2, <1>3 DEF LInv, DueOwed

\* The steps of the reader that read nothing.
LEMMA BeginKeeps == ASSUME LInv, Begin PROVE LInv'
  <1>1. UNCHANGED <<procVars, fileVars, req, st, canceled, client, out, ghost>> /\ rd = "begin"
    BY DEF Begin
  <1>2. rd' \in {"done", "check"} /\ watch' \in {"run", "off"} /\ (watch' = "run" => req.follow)
    BY DEF Begin
  <1>3. LTypeOK'
    BY <1>1, <1>2 DEF LInv, LTypeOK, procVars, fileVars
  <1>4. Places'
    BY <1>1, <1>2 DEF LInv, Places
  <1>5. DueOwed'
    BY <1>2 DEF DueOwed
  <1> QED
    BY <1>1, <1>2, <1>3, <1>4, <1>5, MoveKeeps

LEMMA PauseKeeps == ASSUME LInv, Check \/ Sleep PROVE LInv'
  <1>1. /\ UNCHANGED <<procVars, fileVars, req, st, canceled, watch, client, out, ghost>>
        /\ rd \in {"check", "sleep"} /\ rd' \in {"flush", "open", "check"}
    BY DEF Check, Sleep
  <1>2. LTypeOK'
    BY <1>1 DEF LInv, LTypeOK, procVars, fileVars
  <1>3. Places'
    BY <1>1 DEF LInv, Places
  <1>4. DueOwed'
    BY <1>1, DueStays
  <1> QED
    BY <1>1, <1>2, <1>3, <1>4, MoveKeeps

LEMMA AwaitKeeps == ASSUME LInv, Await PROVE LInv'
  <1>1. /\ UNCHANGED <<procVars, fileVars, req, st, canceled, watch, client, out, ghost>>
        /\ rd = "await" /\ rd' \in {"done", "check"}
    BY DEF Await
  <1>2. LTypeOK'
    BY <1>1 DEF LInv, LTypeOK, procVars, fileVars
  <1>3. Places'
    BY <1>1 DEF LInv, Places
  <1>4. DueOwed'
    <2>1. CASE Undisturbed
      <3>1. ghost.due = {}
        BY <2>1, <1>1 DEF LInv, Unrotated, Places
      <3> QED
        BY <3>1, <1>1, DueStays
    <2>2. CASE ~Undisturbed
      BY <2>2, <1>1, FilesFrame DEF DueOwed
    <2> QED
      BY <2>1, <2>2
  <1> QED
    BY <1>1, <1>2, <1>3, <1>4, MoveKeeps

\* A file that is missing when it is opened was never there, or was taken away.
LEMMA OpenMissingKeeps == ASSUME LInv, Open, path = None PROVE LInv'
  <1>1. /\ UNCHANGED <<procVars, fileVars, req, st, canceled, watch, client, out, ghost>>
        /\ rd = "open" /\ rd' = IF req.follow THEN "await" ELSE "done"
    BY DEF Open
  <1>2. LTypeOK'
    BY <1>1 DEF LInv, LTypeOK, procVars, fileVars
  <1>3. Places'
    BY <1>1 DEF LInv, Places
  <1>4. DueOwed'
    <2>1. rd' = "done" => ghost.due = {}
      BY <1>1 DEF LInv, Places
    <2> QED
      BY <2>1, <1>1, DueStays
  <1>5. Undisturbed => ~st.started
    BY DEF LInv, Unrotated, Places
  <1> QED
    BY <1>1, <1>2, <1>3, <1>4, <1>5, MoveKeeps

LEMMA EmitFailsKeeps == ASSUME LInv, Emit, client = "gone", rd' = "done", UNCHANGED <<st, out>> PROVE LInv'
  <1>1. UNCHANGED <<procVars, fileVars, req, canceled, watch, client, ghost>> /\ rd = "emit"
    BY DEF Emit
  <1>2. LTypeOK'
    BY <1>1 DEF LInv, LTypeOK, procVars, fileVars
  <1>3. Places'
    BY <1>1 DEF LInv, Places
  <1>4. DueOwed'
    BY <1>1 DEF DueOwed
  <1> QED
    BY <1>1, <1>2, <1>3, <1>4, MoveKeeps

LEMMA ClientGoneKeeps == ASSUME LInv, ClientGone PROVE LInv'
  <1>1. UNCHANGED <<procVars, fileVars, req, rd, st, watch, out, ghost>> /\ client' = "gone" /\ canceled' = TRUE
    BY DEF ClientGone
  <1>2. LTypeOK'
    BY <1>1 DEF LInv, LTypeOK, procVars, fileVars
  <1>3. Places'
    BY <1>1 DEF LInv, Places
  <1>4. DueOwed'
    BY <1>1 DEF DueOwed
  <1>5. Undisturbed /\ rd' = "await" => ~st.started
    BY <1>1 DEF LInv, Unrotated
  <1> QED
    BY <1>1, <1>2, <1>3, <1>4, <1>5, MoveKeeps

\* Two watchers' steps: the one that finds the follow over and the one that ends
\* it, which makes every line due that the next read decodes.
LEMMA WatcherTickKeeps == ASSUME LInv, WatcherTick PROVE LInv'
  <1> USE DEF LInv
  <1>1. UNCHANGED <<procVars, fileVars, req, rd, st, client, out>> /\ watch = "run"
    BY DEF WatcherTick
  <1>2. Undisturbed /\ rd' = "await" => ~st.started
    BY <1>1 DEF Unrotated
  <1>3. ghost.due = {} /\ req.follow /\ rd # "begin"
    BY <1>1 DEF Places
  <1>4. CASE ghost' = ghost /\ watch' \in {"exit", "fired"} /\ canceled' \in BOOLEAN
    <2>1. LTypeOK'
      BY <1>1, <1>4 DEF LTypeOK, procVars, fileVars
    <2>2. Places'
      BY <1>1, <1>3, <1>4 DEF Places
    <2>3. DueOwed'
      BY <1>1, <1>3, <1>4 DEF DueOwed, Owed
    <2> QED
      BY <1>1, <1>2, <1>4, <2>1, <2>2, <2>3, MoveKeeps
  <1>5. CASE /\ path # None /\ path = st.last /\ watch' = "fired" /\ canceled' = TRUE /\ rd # "done"
             /\ ghost' = LET f == files[path] IN
                         [ghost EXCEPT !.due =
                            Wanted({Decoded(f, st.offset, i) : i \in Ends(f, st.offset)})]
    <2> DEFINE f == files[st.last]
               D == {Decoded(f, st.offset, i) : i \in Ends(f, st.offset)}
    <2>1. /\ UNCHANGED <<status, starts, launching, printed, pipe, files, path, sink, rotations>>
          /\ PipeOrdered' /\ FilesOrdered'
          /\ \A l : Pending(l)' <=> Pending(l)
          /\ \A i : Newest(i) => Newest(i)'
          /\ Undisturbed' <=> Undisturbed
      BY <1>1, FilesFrame
    <2>2. Written(f) /\ st.offset \in Nat
      BY <1>5, LogTypes DEF FilesOrdered
    <2>3. D \in SUBSET Line
      BY <2>2, EndFacts
    <2>4. ghost' = [ghost EXCEPT !.due = Wanted(D)]
      BY <1>5
    <2> HIDE DEF D
    <2>5. /\ ghost'.due = Wanted(D) /\ ghost'.expect = ghost.expect /\ ghost'.skip = ghost.skip
          /\ ghost' \in [expect : SUBSET Line, skip : SUBSET Line, due : SUBSET Line]
      BY <2>3, <2>4 DEF LTypeOK, Wanted
    <2>6. LTypeOK'
      BY <1>1, <1>5, <2>1, <2>5 DEF LTypeOK
    <2>7. Delivered' = Delivered /\ Past' = Past
      BY <1>1, <2>5 DEF Delivered, Past
    <2>8. st.started
      BY <1>5 DEF Places
    <2>9. Handles' /\ Places'
      BY <1>1, <1>3, <1>5, <2>1, <2>8 DEF Handles, Places
    <2>10. Fresh' /\ InOrderOnce' /\ Skipped' /\ WholeLines'
      <3>1. Fresh'
        BY <1>1, <2>1, <2>7 DEF Fresh
      <3> QED
        BY <3>1, <1>1, <2>5, <2>7 DEF InOrderOnce, Skipped, WholeLines
    <2>11. Unrotated' /\ WantedOnly'
      BY <1>1, <2>1, <2>5 DEF Unrotated, WantedOnly, Wanted
    <2>12. \A S, g, off : Owed(S, g, off) => Owed(S, g, off)'
      BY <2>7 DEF Owed
    <2>13. TailOwed'
      BY <1>1, <2>1, <2>5, <2>7, <2>12 DEF TailOwed
    <2>14. Owed(Wanted(D), f, st.offset)
      BY DEF Owed, Wanted, D
    <2>15. DueOwed'
      BY <1>1, <1>5, <2>1, <2>5, <2>12, <2>14 DEF DueOwed
    <2> QED
      BY <2>1, <2>6, <2>9, <2>10, <2>11, <2>13, <2>15
  <1> QED
    BY <1>1, <1>4, <1>5 DEF WatcherTick, LTypeOK

\* A read of a file of which everything behind the offset is new.
LEMMA ReadFacts ==
    ASSUME LInv, NEW f, Written(f), NEW off \in Nat, Deliver(f, off), UNCHANGED <<req, ghost>>,
           \A l \in Past, p \in 1..Len(f) : off < p /\ f[p] # NL => l < f[p]
    PROVE  /\ out' \in Seq([line : Line, whole : BOOLEAN])
           /\ Delivered \subseteq Delivered'
           /\ InOrderOnce' /\ WholeLines' /\ Skipped'
           /\ \A l \in Past' : \/ l \in Past
                               \/ \E i \in Ends(f, off) : l = Decoded(f, off, i)
                               \/ ~req.follow
           /\ \A S : Owed(S, f, off) /\ Wanted(S) = S => S \subseteq Delivered'
  <1> USE DEF LInv
  <1>1. req \in Request /\ out \in Seq([line : Line, whole : BOOLEAN])
    BY DEF LTypeOK
  <1>2. /\ out' \in Seq([line : Line, whole : BOOLEAN])
        /\ Delivered \subseteq Delivered'
        /\ \A i \in Emitted(f, off) : Decoded(f, off, i) \in Delivered'
        /\ \A l \in Delivered' : \/ l \in Delivered
                                 \/ \E i \in Ends(f, off) : l = Decoded(f, off, i)
                                 \/ ~req.follow /\ Torn(f) /\ Len(f) > off /\ l = f[Len(f)]
        /\ WholeLines => WholeLines'
    BY <1>1, DeliverFacts
  <1>3. \A l \in Delivered, p \in 1..Len(f) : off < p /\ f[p] # NL => l < f[p]
    BY DEF Past
  <1>4. InOrderOnce'
    BY <1>1, <1>3, DeliverInOrder
  <1>5. \A l \in Past' : l \in Past \/ (\E i \in Ends(f, off) : l = Decoded(f, off, i)) \/ ~req.follow
    BY <1>2 DEF Past
  <1>6. Skipped'
    <2> SUFFICES ASSUME NEW l \in Delivered', l \in ghost.skip PROVE FALSE
      BY DEF Skipped
    <2>1. l \in Past /\ l \in Nat
      BY LogTypes DEF Past
    <2>2. l \notin Delivered
      BY DEF Skipped
    <2>3. ASSUME NEW i \in Ends(f, off), l = Decoded(f, off, i) PROVE FALSE
      <3>1. i - 1 \in 1..Len(f) /\ off < i - 1 /\ f[i - 1] # NL /\ l = f[i - 1]
        BY <2>3, EndFacts
      <3>2. l < f[i - 1]
        BY <2>1, <3>1
      <3> QED
        BY <2>1, <3>1, <3>2
    <2>4. ASSUME Torn(f), Len(f) > off, l = f[Len(f)] PROVE FALSE
      <3>1. Len(f) \in 1..Len(f) /\ f[Len(f)] # NL
        BY <2>4, FileSeq DEF Written
      <3>2. l < f[Len(f)]
        BY <2>1, <2>4, <3>1
      <3> QED
        BY <2>1, <2>4, <3>2
    <2> QED
      BY <1>2, <2>2, <2>3, <2>4
  <1>7. ASSUME NEW S, Owed(S, f, off), Wanted(S) = S, NEW l \in S PROVE l \in Delivered'
    <2>1. l \in Delivered \/ \E i \in Ends(f, off) : Decoded(f, off, i) = l
      BY <1>7 DEF Owed
    <2>2. l >= req.since /\ l <= req.until
      BY <1>7 DEF Wanted
    <2>3. ASSUME NEW i \in Ends(f, off), Decoded(f, off, i) = l PROVE l \in Delivered'
      BY <2>2, <2>3, <1>1, <1>2, WantedEmitted
    <2> QED
      BY <1>2, <2>1, <2>3
  <1> QED
    BY <1>2, <1>4, <1>5, <1>6, <1>7

\* No file outgrows the lines there are, and so does no offset.
LEMMA FileBound == ASSUME NEW f, Written(f) PROVE Len(f) \in 0..(3 * MaxLines)
  <1>1. f \in Seq(Line \cup {NL}) /\ MaxLines \in Nat
    BY LogAssumption DEF Written
  <1>2. Len(f) \in Nat /\ DOMAIN f = 1..Len(f) /\ \A p \in 1..Len(f) : f[p] \in Nat /\ (f[p] # NL => f[p] \in Line)
    BY <1>1, FileSeq
  <1> SUFFICES ASSUME Len(f) > 0 PROVE Len(f) <= 3 * MaxLines
    BY <1>1, <1>2
  <1>3. Len(f) \in 1..Len(f)
    BY <1>2
  <1>4. CASE f[Len(f)] = NL
    <2>1. Len(f) > 1 /\ f[Len(f) - 1] # NL /\ Len(f) <= 3 * f[Len(f) - 1]
      BY <1>2, <1>3, <1>4 DEF Written, LineEnds, Sized
    <2>2. Len(f) - 1 \in 1..Len(f)
      BY <1>2, <2>1
    <2>3. f[Len(f) - 1] \in Nat /\ f[Len(f) - 1] <= MaxLines
      BY <1>1, <1>2, <2>1, <2>2 DEF Line
    <2> QED
      BY <1>1, <1>2, <2>1, <2>3
  <1>5. CASE f[Len(f)] # NL
    <2>1. Len(f) < 3 * f[Len(f)]
      BY <1>2, <1>3, <1>5 DEF Written, Sized
    <2>2. f[Len(f)] \in Nat /\ f[Len(f)] <= MaxLines
      BY <1>1, <1>2, <1>3, <1>5 DEF Line
    <2> QED
      BY <1>1, <1>2, <2>1, <2>2
  <1> QED
    BY <1>4, <1>5

LEMMA OffsetBound ==
    ASSUME NEW f, Written(f), NEW off \in 0..(3 * MaxLines), req \in Request
    PROVE  NextOffset(f, off) \in 0..(3 * MaxLines)
  <1>1. off \in Nat /\ MaxLines \in Nat /\ 3 * MaxLines \in Nat
    BY LogAssumption
  <1>2. NextOffset(f, off) \in Nat /\ (NextOffset(f, off) <= Len(f) \/ NextOffset(f, off) = off)
    BY <1>1, OffsetLeft
  <1> QED
    BY <1>1, <1>2, FileBound

\* What a logReadState is made of.
LEMMA ReadState ==
    ASSUME NEW n \in 0..(3 * MaxLines), NEW i \in Inode
    PROVE  [started |-> TRUE, offset |-> n, last |-> i]
             \in [started : BOOLEAN, offset : 0..(3 * MaxLines), last : Inode \cup {None}]
  <1> DEFINE B == 0..(3 * MaxLines)
             I == Inode \cup {None}
  <1>1. n \in B /\ i \in I
    OBVIOUS
  <1> HIDE DEF B, I
  <1>2. [started |-> TRUE, offset |-> n, last |-> i] \in [started : BOOLEAN, offset : B, last : I]
    BY <1>1
  <1> QED
    BY <1>2 DEF B, I

\* emitLogLines on the file that was opened.
LEMMA EmitKeeps ==
    ASSUME LInv, rd = "emit", Deliver(files[st.last], st.offset),
           st' = [st EXCEPT !.offset = NextOffset(files[st.last], st.offset)],
           rd' = IF TooNew(files[st.last], st.offset) # {} \/ ~req.follow THEN "done" ELSE "sleep",
           UNCHANGED <<procVars, fileVars, req, canceled, watch, client, ghost>>
    PROVE  LInv'
  <1> USE DEF LInv
  <1> DEFINE f == files[st.last]
             off == st.offset
             n == NextOffset(f, off)
  <1>1. /\ UNCHANGED <<status, starts, launching, printed, pipe, files, path, sink, rotations>>
        /\ PipeOrdered' /\ FilesOrdered'
        /\ \A l : Pending(l)' <=> Pending(l)
        /\ \A i : Newest(i) => Newest(i)'
        /\ Undisturbed' <=> Undisturbed
    BY FilesFrame
  <1>2. st.started /\ st.last # None /\ st.last \in Inode /\ off \in Nat /\ off \in 0..(3 * MaxLines) /\ req \in Request
    BY LogTypes DEF Places, LTypeOK
  <1>3. /\ Written(f) /\ f \in Seq(Line \cup {NL}) /\ Len(f) \in Nat /\ DOMAIN f = 1..Len(f)
        /\ \A l : l \in LinesOf(f) <=> \E p \in 1..Len(f) : l = f[p] /\ f[p] # NL
    BY <1>2, LogTypes, FileSeq DEF FilesOrdered
  <1>4. \A l \in Past : \A p \in Ahead(f, off) : l < f[p]
    BY <1>2 DEF Fresh
  <1>5. \A l \in Past, p \in 1..Len(f) : off < p /\ f[p] # NL => l < f[p]
    BY <1>2, <1>3, <1>4 DEF Ahead
  <1>6. /\ out' \in Seq([line : Line, whole : BOOLEAN])
        /\ Delivered \subseteq Delivered'
        /\ InOrderOnce' /\ WholeLines' /\ Skipped'
        /\ \A l \in Past' : l \in Past \/ (\E i \in Ends(f, off) : l = Decoded(f, off, i)) \/ ~req.follow
        /\ \A S : Owed(S, f, off) /\ Wanted(S) = S => S \subseteq Delivered'
    BY <1>2, <1>3, <1>5, ReadFacts
  <1>7. n \in 0..(3 * MaxLines)
    BY <1>2, <1>3, OffsetBound
  <1>8. /\ n \in Nat /\ (n <= Len(f) \/ n = off)
        /\ req.follow /\ TooNew(f, off) = {} =>
             off <= n /\ \A i \in 1..Len(f) : f[i] = NL => i <= n \/ i <= off
    BY <1>2, <1>3, OffsetLeft
  <1> HIDE DEF n
  <1>9. st' = [started |-> TRUE, offset |-> n, last |-> st.last]
    BY <1>2 DEF LTypeOK, n
  <1>10. st'.started /\ st'.offset = n /\ st'.last = st.last
    BY <1>9
  <1>11. rd' \in {"done", "sleep"} /\ (rd' # "done" => req.follow /\ TooNew(f, off) = {})
    OBVIOUS
  <1>12. LTypeOK'
    <2>1. st' \in [started : BOOLEAN, offset : 0..(3 * MaxLines), last : Inode \cup {None}]
      BY <1>2, <1>7, <1>9, ReadState
    <2> QED
      BY <1>1, <1>6, <1>11, <2>1 DEF LTypeOK
  <1>13. Handles' /\ Places'
    BY <1>1, <1>2, <1>10, <1>11 DEF Handles, Places
  <1>14. ASSUME rd' # "done", NEW l \in Past'
         PROVE  /\ Pending(l)'
                /\ \A j \in Inode : j > st.last => \A m \in LinesOf(files[j]) : l < m
                /\ \A p \in Ahead(f, n) : l < f[p]
    <2>0. off <= n /\ \A i \in 1..Len(f) : f[i] = NL => i <= n \/ i <= off
      BY <1>8, <1>11, <1>14
    <2>1. CASE l \in Past
      <3>1. Ahead(f, n) \subseteq Ahead(f, off)
        BY <1>2, <1>3, <1>8, <2>0 DEF Ahead
      <3> QED
        BY <2>1, <3>1, <1>1, <1>2, <1>4 DEF Fresh
    <2>2. ASSUME NEW i \in Ends(f, off), l = Decoded(f, off, i)
          PROVE  /\ Pending(l)'
                 /\ \A j \in Inode : j > st.last => \A m \in LinesOf(files[j]) : l < m
                 /\ \A p \in Ahead(f, n) : l < f[p]
      <3>1. /\ i \in 1..Len(f) /\ i - 1 \in 1..Len(f) /\ off < i - 1 /\ f[i] = NL
            /\ f[i - 1] # NL /\ l = f[i - 1]
        BY <2>2, <1>2, <1>3, EndFacts
      <3>2. l \in LinesOf(f)
        BY <3>1, <1>3
      <3>3. Pending(l)' /\ \A j \in Inode : j > st.last => \A m \in LinesOf(files[j]) : l < m
        BY <3>2, <1>1, <1>2, LogTypes DEF FilesOrdered
      <3>4. ASSUME NEW p \in Ahead(f, n) PROVE l < f[p]
        <4>1. p \in 1..Len(f) /\ f[p] # NL /\ (p > n \/ Len(f) < n \/ p = Len(f))
          BY <1>3 DEF Ahead
        <4>2. i <= n
          BY <2>0, <3>1, <1>2
        <4>3. i < p
          <5>1. i # p
            BY <3>1, <4>1
          <5>2. i \in Nat /\ p \in Nat /\ n \in Nat /\ i <= Len(f) /\ off < i
            BY <3>1, <4>1, <1>2, <1>8
          <5> QED
            BY <5>1, <5>2, <4>1, <4>2, <1>2, <1>3, <1>8
        <4> QED
          BY <3>1, <4>1, <4>3, <1>3, LinesInOrder
      <3> QED
        BY <3>3, <3>4
    <2> QED
      BY <2>1, <2>2, <1>6, <1>11, <1>14
  <1>15. Fresh'
    BY <1>1, <1>10, <1>14 DEF Fresh
  <1>16. Unrotated'
    BY <1>1, <1>2, <1>3, <1>8, <1>10, <1>11 DEF Unrotated
  <1>17. WantedOnly'
    BY DEF WantedOnly, Wanted
  <1>18. TailOwed'
    <2>1. rotations = 0 => ghost.expect \subseteq Delivered'
      BY <1>6 DEF TailOwed, WantedOnly
    <2> QED
      BY <2>1, <1>1, <1>11 DEF TailOwed
  <1>19. DueOwed'
    <2>1. Undisturbed /\ watch = "fired" /\ client = "here" => ghost.due \subseteq Delivered'
      BY <1>2, <1>6 DEF DueOwed, WantedOnly
    <2> QED
      BY <2>1, <1>1 DEF DueOwed, Owed
  <1> QED
    BY <1>1, <1>6, <1>12, <1>13, <1>15, <1>16, <1>17, <1>18, <1>19

\* flush: the last read, of whatever the path names by now.
LEMMA FlushKeeps == ASSUME LInv, Flush PROVE LInv'
  <1> USE DEF LInv
  <1>0. /\ UNCHANGED <<procVars, fileVars, req, canceled, watch, client, ghost>>
        /\ rd = "flush" /\ rd' = "done"
    BY DEF Flush
  <1>1. /\ UNCHANGED <<status, starts, launching, printed, pipe, files, path, sink, rotations>>
        /\ PipeOrdered' /\ FilesOrdered'
        /\ \A l : Pending(l)' <=> Pending(l)
        /\ \A i : Newest(i) => Newest(i)'
        /\ Undisturbed' <=> Undisturbed
    BY <1>0, FilesFrame
  <1>2. CASE ~st.started \/ path = None
    <2>1. UNCHANGED <<st, out>>
      BY <1>2 DEF Flush
    <2>2. LTypeOK'
      BY <1>0, <1>1, <2>1 DEF LTypeOK
    <2>3. Places'
      BY <1>0, <2>1 DEF Places
    <2>4. DueOwed'
      <3>1. CASE Undisturbed
        <4>1. ghost.due = {}
          BY <1>2, <3>1 DEF Unrotated, Places
        <4> QED
          BY <4>1, <1>0, <2>1, DueStays
      <3>2. CASE ~Undisturbed
        BY <3>2, <1>1 DEF DueOwed
      <3> QED
        BY <3>1, <3>2
    <2> QED
      BY <1>0, <2>1, <2>2, <2>3, <2>4, MoveKeeps
  <1>3. CASE st.started /\ path # None
    <2> DEFINE f == files[path]
               off == IF Len(f) < st.offset THEN 0 ELSE st.offset
               n == NextOffset(f, off)
    <2>0. Deliver(f, off) /\ st' = [st EXCEPT !.offset = n]
      BY <1>3 DEF Flush
    <2>1. path \in Inode /\ st.last \in Inode /\ st.last <= path /\ req \in Request
      BY <1>3, LogTypes DEF Places, Handles, LTypeOK
    <2>2. /\ Written(f) /\ f \in Seq(Line \cup {NL}) /\ Len(f) \in Nat /\ DOMAIN f = 1..Len(f)
          /\ \A l : l \in LinesOf(f) <=> \E p \in 1..Len(f) : l = f[p] /\ f[p] # NL
      BY <2>1, LogTypes, FileSeq DEF FilesOrdered
    <2>3. off \in Nat /\ off \in 0..(3 * MaxLines) /\ st.offset \in Nat
      <3>1. st.offset \in Nat /\ st.offset \in 0..(3 * MaxLines)
        BY LogTypes DEF LTypeOK
      <3>2. 0 \in 0..(3 * MaxLines)
        BY LogTypes
      <3> QED
        BY <3>1, <3>2
    <2>4. ASSUME NEW l \in Past, NEW p \in 1..Len(f), off < p, f[p] # NL PROVE l < f[p]
      <3>1. CASE path # st.last
        <4>1. path > st.last
          BY <3>1, <2>1, LogTypes
        <4>2. f[p] \in LinesOf(f)
          BY <2>2, <2>4
        <4> QED
          BY <4>1, <4>2, <2>1, <1>0 DEF Fresh
      <3>2. CASE path = st.last
        <4>1. p \in Ahead(f, st.offset)
          BY <2>2, <2>3, <2>4 DEF Ahead
        <4> QED
          BY <3>2, <4>1, <1>0, <1>3 DEF Fresh
      <3> QED
        BY <3>1, <3>2
    <2>5. Undisturbed => path = st.last /\ off = st.offset
      BY <1>0, <1>3, <2>2, <2>3 DEF Unrotated, Undisturbed
    <2> HIDE DEF off
    <2>7. /\ out' \in Seq([line : Line, whole : BOOLEAN])
          /\ Delivered \subseteq Delivered'
          /\ InOrderOnce' /\ WholeLines' /\ Skipped'
          /\ \A S : Owed(S, f, off) /\ Wanted(S) = S => S \subseteq Delivered'
      BY <1>0, <2>0, <2>2, <2>3, <2>4, ReadFacts
    <2>8. n \in 0..(3 * MaxLines)
      BY <2>1, <2>2, <2>3, OffsetBound
    <2> HIDE DEF n
    <2>9. st' = [started |-> TRUE, offset |-> n, last |-> st.last]
      BY <1>3, <2>0 DEF LTypeOK
    <2>10. st'.started /\ st'.last = st.last
      BY <2>9
    <2>11. LTypeOK'
      <3>1. st' \in [started : BOOLEAN, offset : 0..(3 * MaxLines), last : Inode \cup {None}]
        BY <2>1, <2>8, <2>9, ReadState
      <3> QED
        BY <1>0, <1>1, <2>7, <3>1 DEF LTypeOK
    <2>12. Handles' /\ Places'
      BY <1>0, <1>1, <1>3, <2>10 DEF Handles, Places
    <2>13. Fresh' /\ TailOwed' /\ WantedOnly'
      BY <1>0 DEF Fresh, TailOwed, WantedOnly, Wanted
    <2>14. Unrotated'
      BY <1>0, <1>1, <1>3, <2>10 DEF Unrotated, Places
    <2>15. DueOwed'
      <3>1. Undisturbed /\ watch = "fired" /\ client = "here" => ghost.due \subseteq Delivered'
        BY <1>0, <1>3, <2>5, <2>7 DEF DueOwed, WantedOnly
      <3> QED
        BY <3>1, <1>0, <1>1 DEF DueOwed
    <2> QED
      BY <1>1, <2>7, <2>11, <2>12, <2>13, <2>14, <2>15
  <1> QED
    BY <1>2, <1>3 DEF LTypeOK

\* track on a later open: the same file from the offset, another or a shorter
\* one from its start.
LEMMA ReopenKeeps == ASSUME LInv, Open, path # None, st.started PROVE LInv'
  <1> USE DEF LInv
  <1> DEFINE f == files[path]
             n == Track(path)
  <1>0. /\ UNCHANGED <<procVars, fileVars, req, canceled, watch, client, out, ghost>>
        /\ rd = "open" /\ rd' = "emit" /\ st' = [started |-> TRUE, offset |-> n, last |-> path]
    BY DEF Open
  <1>1. /\ UNCHANGED <<status, starts, launching, printed, pipe, files, path, sink, rotations>>
        /\ PipeOrdered' /\ FilesOrdered'
        /\ \A l : Pending(l)' <=> Pending(l)
        /\ \A i : Newest(i) => Newest(i)'
        /\ Undisturbed' <=> Undisturbed
    BY <1>0, FilesFrame
  <1>2. path \in Inode /\ st.last \in Inode /\ st.last <= path /\ st.offset \in Nat /\ st.offset \in 0..(3 * MaxLines)
    BY LogTypes DEF Places, Handles, LTypeOK
  <1>3. /\ Len(f) \in Nat /\ DOMAIN f = 1..Len(f)
        /\ \A l : l \in LinesOf(f) <=> \E p \in 1..Len(f) : l = f[p] /\ f[p] # NL
    BY <1>2, LogTypes, FileSeq
  <1>4. n = IF st.last # path \/ Len(f) < st.offset THEN 0 ELSE st.offset
    BY DEF Track
  <1> HIDE DEF n
  <1>5. n \in Nat /\ n \in 0..(3 * MaxLines) /\ n <= Len(f)
    BY <1>2, <1>3, <1>4, LogTypes
  <1>6. st'.started /\ st'.offset = n /\ st'.last = path
    BY <1>0
  <1>7. LTypeOK'
    <2>1. st' \in [started : BOOLEAN, offset : 0..(3 * MaxLines), last : Inode \cup {None}]
      BY <1>0, <1>2, <1>5, ReadState
    <2> QED
      BY <1>0, <1>1, <2>1 DEF LTypeOK
  <1>8. Delivered' = Delivered /\ Past' = Past
    BY <1>0 DEF Delivered, Past
  <1>9. Handles' /\ Places'
    BY <1>0, <1>1, <1>2, <1>6, LogTypes DEF Handles, Places
  <1>10. InOrderOnce' /\ WholeLines' /\ Skipped' /\ WantedOnly'
    BY <1>0, <1>8 DEF InOrderOnce, WholeLines, Skipped, WantedOnly, Wanted
  <1>11. ASSUME NEW l \in Past
         PROVE  /\ Pending(l)
                /\ \A j \in Inode : j > path => \A m \in LinesOf(files[j]) : l < m
                /\ \A p \in Ahead(f, n) : l < f[p]
    <2>1. /\ Pending(l)
          /\ \A j \in Inode : j > st.last => \A m \in LinesOf(files[j]) : l < m
          /\ \A p \in Ahead(files[st.last], st.offset) : l < files[st.last][p]
      BY <1>0, <1>2, LogTypes DEF Fresh
    <2>2. \A j \in Inode : j > path => j > st.last
      BY <1>2, LogTypes
    <2>3. ASSUME NEW p \in Ahead(f, n) PROVE l < f[p]
      <3>1. p \in 1..Len(f) /\ f[p] # NL
        BY <1>3 DEF Ahead
      <3>2. CASE st.last # path
        <4>1. path > st.last
          BY <3>2, <1>2, LogTypes
        <4>2. f[p] \in LinesOf(f)
          BY <3>1, <1>3
        <4> QED
          BY <4>1, <4>2, <1>2, <2>1
      <3>3. CASE st.last = path
        <4>1. p \in Ahead(f, st.offset)
          BY <3>1, <3>3, <2>3, <1>2, <1>3, <1>4 DEF Ahead
        <4> QED
          BY <3>3, <4>1, <2>1
      <3> QED
        BY <3>2, <3>3
    <2> QED
      BY <2>1, <2>2, <2>3
  <1>12. Fresh'
    BY <1>1, <1>6, <1>8, <1>11 DEF Fresh
  <1>13. Unrotated'
    BY <1>0, <1>1, <1>5, <1>6 DEF Unrotated
  <1>14. TailOwed'
    BY <1>0, <1>1, <1>6, <1>8 DEF TailOwed, Owed
  <1>15. DueOwed'
    <2>1. Undisturbed => path = st.last /\ n = st.offset
      BY <1>0, <1>2, <1>3, <1>4 DEF Unrotated, Undisturbed
    <2>2. \A S, g, off : Owed(S, g, off) => Owed(S, g, off)'
      BY <1>8 DEF Owed
    <2> QED
      BY <2>1, <2>2, <1>0, <1>1, <1>6 DEF DueOwed
  <1> QED
    BY <1>1, <1>7, <1>9, <1>10, <1>12, <1>13, <1>14, <1>15

\* track on the first open: the tail is delivered from the start that
\* FindTailStart finds, and everything before it is older than what follows.
LEMMA FirstOpenKeeps == ASSUME LInv, Open, path # None, ~st.started PROVE LInv'
  <1> USE DEF LInv
  <1> DEFINE f == files[path]
             n == FindTailStart(f, req.tail)
             tail == {l \in Complete(f) : InTail(f, req.tail, l)}
             skip == Complete(f) \ tail
  <1>0. /\ UNCHANGED <<procVars, fileVars, req, canceled, watch, client, out>>
        /\ rd = "open" /\ rd' = "emit" /\ st' = [started |-> TRUE, offset |-> n, last |-> path]
        /\ ghost' = [ghost EXCEPT !.expect = Wanted(tail), !.skip = skip]
    BY DEF Open, Track, InTail
  <1>1. /\ UNCHANGED <<status, starts, launching, printed, pipe, files, path, sink, rotations>>
        /\ PipeOrdered' /\ FilesOrdered'
        /\ \A l : Pending(l)' <=> Pending(l)
        /\ \A i : Newest(i) => Newest(i)'
        /\ Undisturbed' <=> Undisturbed
    BY <1>0, FilesFrame
  <1>2. /\ path \in Inode /\ req.tail \in Nat /\ out = <<>>
        /\ ghost = [expect |-> {}, skip |-> {}, due |-> {}]
    BY LogTypes DEF Places
  <1>3. /\ Written(f) /\ Len(f) \in Nat /\ DOMAIN f = 1..Len(f)
        /\ \A l : l \in LinesOf(f) <=> \E p \in 1..Len(f) : l = f[p] /\ f[p] # NL
    BY <1>2, LogTypes, FileSeq DEF FilesOrdered
  <1>4. /\ n \in 0..Len(f)
        /\ \A l \in tail : \E i \in Ends(f, n) : Decoded(f, n, i) = l
        /\ \A l \in skip, p \in 1..Len(f) : n < p /\ f[p] # NL => l < f[p]
    <2>1. /\ n \in 0..Len(f)
          /\ \A l \in Complete(f) : InTail(f, req.tail, l) => \E i \in Ends(f, n) : Decoded(f, n, i) = l
          /\ \A l \in Complete(f), p \in 1..Len(f) :
                ~InTail(f, req.tail, l) /\ n < p /\ f[p] # NL => l < f[p]
      BY <1>2, <1>3, TailStart, Zenon
    <2> HIDE DEF f, n
    <2> QED
      BY <2>1
  <1>5. ASSUME NEW l \in Complete(f)
        PROVE  \E i \in 1..Len(f) : f[i] = NL /\ l = f[i - 1] /\ l \in Line /\ l \in LinesOf(f)
    <2>1. PICK i \in Newlines(f) : l = f[i - 1]
      BY DEF Complete, Newlines
    <2>2. i \in 1..Len(f) /\ f[i] = NL /\ i - 1 \in 1..Len(f) /\ f[i - 1] # NL /\ f[i - 1] \in Line
      BY <1>3, NewlineFacts
    <2> QED
      BY <2>1, <2>2, <1>3
  <1>6. n \in Nat /\ n <= Len(f) /\ n \in 0..(3 * MaxLines)
    BY <1>3, <1>4, FileBound, LogTypes
  <1> HIDE DEF n
  <1>7. /\ st'.started /\ st'.offset = n /\ st'.last = path
        /\ ghost' = [expect |-> Wanted(tail), skip |-> skip, due |-> {}]
    BY <1>0, <1>2
  <1>8. tail \in SUBSET Complete(f) /\ skip \in SUBSET Complete(f)
    OBVIOUS
  <1> HIDE DEF tail, skip
  <1>9. ghost'.expect = Wanted(tail) /\ ghost'.skip = skip /\ ghost'.due = {}
    BY <1>7
  <1>10. LTypeOK'
    <2>1. st' \in [started : BOOLEAN, offset : 0..(3 * MaxLines), last : Inode \cup {None}]
      BY <1>0, <1>2, <1>6, ReadState
    <2>2. Wanted(tail) \in SUBSET Line /\ skip \in SUBSET Line /\ {} \in SUBSET Line
      BY <1>5, <1>8 DEF Wanted
    <2>3. ghost' \in [expect : SUBSET Line, skip : SUBSET Line, due : SUBSET Line]
      BY <2>2, <1>7
    <2> QED
      BY <1>0, <1>1, <2>1, <2>3 DEF LTypeOK
  <1>11. Delivered = {} /\ Delivered' = {} /\ Past' = skip
    BY <1>0, <1>2, <1>9 DEF Delivered, Past
  <1>12. Handles' /\ Places'
    BY <1>0, <1>1, <1>2, <1>7, <1>9, LogTypes DEF Handles, Places
  <1>13. InOrderOnce' /\ WholeLines' /\ Skipped' /\ WantedOnly'
    BY <1>0, <1>9, <1>11 DEF InOrderOnce, WholeLines, Skipped, WantedOnly, Wanted
  <1>14. ASSUME NEW l \in skip
         PROVE  /\ Pending(l)
                /\ \A j \in Inode : j > path => \A m \in LinesOf(files[j]) : l < m
                /\ \A p \in Ahead(f, n) : l < f[p]
    <2>1. PICK i \in 1..Len(f) : f[i] = NL /\ l = f[i - 1] /\ l \in LinesOf(f)
      BY <1>5, <1>8
    <2>2. Pending(l) /\ \A j \in Inode : j > path => \A m \in LinesOf(files[j]) : l < m
      BY <2>1, <1>2, LogTypes DEF FilesOrdered
    <2>3. ASSUME NEW p \in Ahead(f, n) PROVE l < f[p]
      <3>1. p \in 1..Len(f) /\ f[p] # NL /\ (p > n \/ p = Len(f))
        BY <1>3, <1>6 DEF Ahead
      <3>2. CASE p > n
        BY <3>1, <3>2, <1>4, <1>6
      <3>3. CASE p = Len(f)
        <4>1. i # p
          BY <2>1, <3>1
        <4>2. i < p
          BY <4>1, <3>3, <1>3
        <4> QED
          BY <4>2, <2>1, <3>1, <1>3, LinesInOrder
      <3> QED
        BY <3>1, <3>2, <3>3
    <2> QED
      BY <2>2, <2>3
  <1>15. Fresh'
    BY <1>1, <1>7, <1>11, <1>14 DEF Fresh
  <1>16. Unrotated'
    BY <1>0, <1>1, <1>6, <1>7 DEF Unrotated
  <1>17. TailOwed' /\ DueOwed'
    <2>1. \A l \in Wanted(tail) : \E i \in Ends(f, n) : Decoded(f, n, i) = l
      BY <1>4 DEF Wanted
    <2> QED
      BY <2>1, <1>0, <1>1, <1>7, <1>9 DEF TailOwed, DueOwed, Owed
  <1> QED
    BY <1>1, <1>10, <1>12, <1>13, <1>15, <1>16, <1>17

\* Every step keeps the invariant.
LEMMA NextKeeps == LInv /\ [LNext]_lVars => LInv'
  <1> SUFFICES ASSUME LInv, [LNext]_lVars PROVE LInv'
    OBVIOUS
  <1>1. CASE OpenLogSink
    BY <1>1, OpenLogSinkKeeps
  <1>2. CASE StartTask
    BY <1>2, StartTaskKeeps
  <1>3. CASE RunTask \/ ProcessExits \/ RemoveContainer
    BY <1>3, StatusKeeps
  <1>4. CASE ProcessPrints
    BY <1>4, ProcessPrintsKeeps
  <1>5. CASE CloseLogSink \/ DiscardLogs
    BY <1>5, CloseKeeps
  <1>6. CASE Rotate
    <2>1. CASE UNCHANGED files
      BY <1>6, <2>1, CloseKeeps
    <2>2. CASE files' = [files EXCEPT ![path] = <<>>] /\ UNCHANGED path
      BY <1>6, <2>2, TruncateKeeps DEF Rotate
    <2> QED
      BY <1>6, <2>1, <2>2 DEF Rotate
  <1>7. CASE Copier
    BY <1>7, CopyLineKeeps, CopyRestKeeps DEF Copier
  <1>8. CASE Open
    <2>1. CASE path = None
      BY <1>8, <2>1, OpenMissingKeeps
    <2>2. CASE path # None /\ st.started
      BY <1>8, <2>2, ReopenKeeps
    <2>3. CASE path # None /\ ~st.started
      BY <1>8, <2>3, FirstOpenKeeps
    <2> QED
      BY <2>1, <2>2, <2>3
  <1>9. CASE Emit
    <2>1. CASE client = "gone" /\ rd' = "done" /\ UNCHANGED <<st, out>>
      BY <1>9, <2>1, EmitFailsKeeps
    <2>2. CASE /\ Deliver(files[st.last], st.offset)
               /\ st' = [st EXCEPT !.offset = NextOffset(files[st.last], st.offset)]
               /\ rd' = IF TooNew(files[st.last], st.offset) # {} \/ ~req.follow THEN "done" ELSE "sleep"
      <3>1. rd = "emit" /\ UNCHANGED <<procVars, fileVars, req, canceled, watch, client, ghost>>
        BY <1>9 DEF Emit
      <3> QED
        BY <2>2, <3>1, EmitKeeps
    <2> QED
      BY <1>9, <2>1, <2>2 DEF Emit
  <1>10. CASE Begin \/ Check \/ Sleep \/ Await \/ Flush
    BY <1>10, BeginKeeps, PauseKeeps, AwaitKeeps, FlushKeeps
  <1>11. CASE WatcherTick \/ ClientGone
    BY <1>11, WatcherTickKeeps, ClientGoneKeeps
  <1>12. CASE UNCHANGED lVars
    <2>1. UNCHANGED <<procVars, fileVars, readVars>>
      BY <1>12 DEF lVars, procVars, fileVars, readVars
    <2>2. UNCHANGED <<req, rd, st, canceled, watch, client, out, ghost>>
      BY <2>1 DEF readVars
    <2>3. LTypeOK' /\ Places' /\ DueOwed'
      BY <1>12, <2>1, <2>2, ReaderFrame, DueStays DEF LInv, LTypeOK, lVars
    <2> QED
      BY <2>1, <2>2, <2>3, MoveKeeps DEF LInv, Unrotated
  <1> QED
    BY <1>1, <1>2, <1>3, <1>4, <1>5, <1>6, <1>7, <1>8, <1>9, <1>10, <1>11, <1>12 DEF LNext, Reader

\* The inductive invariant holds in every state of every behaviour, whatever the
\* fairness.
LEMMA LogInvariant == LSpec => []LInv
  BY InitLInv, NextKeeps, PTL DEF LSpec

-----------------------------------------------------------------------------
(* What the reader promises.                                               *)

\* The state of the copier, the reader and the watcher keeps its type; above
\* all the offset of logReadState never passes what the log can hold, and no
\* delivered line is one the process did not print.
THEOREM LogTyped == LSpec => []LTypeOK
  <1>1. LInv => LTypeOK
    BY DEF LInv
  <1> QED
    BY <1>1, LogInvariant, PTL

\* A client of GET /containers/{id}/logs gets no line twice and none before an
\* earlier one, however the copier, the rotator, restarts and removals
\* interleave with the polls of ReadLogs (logs.go:223-236, 268).
THEOREM LinesDeliveredInOrder == LSpec => []InOrderOnce
  <1>1. LInv => InOrderOnce
    BY DEF LInv
  <1> QED
    BY <1>1, LogInvariant, PTL

\* A follow never delivers a part of a line that is still being written
\* (logs.go:277).
THEOREM FollowDeliversWholeLines == LSpec => []WholeLines
  <1>1. LInv => WholeLines
    BY DEF LInv
  <1> QED
    BY <1>1, LogInvariant, PTL

\* The first read of a log delivers the last complete lines the file had when
\* it was opened, as many as the request's tail asks for and the request's
\* interval admits, and no line before them is ever delivered (logs.go:107-144).
THEOREM TailDelivered == LSpec => []TailExact
  <1>1. LInv => TailExact
    BY DEF LInv, Skipped, TailOwed, TailExact
  <1> QED
    BY <1>1, LogInvariant, PTL

\* A follow that the watcher ended because the container stopped has delivered
\* every complete line that was in the file when the watcher noticed
\* (containers.go:474-477, logs.go:238-266).
THEOREM StopFlushesLog == LSpec => []FinalFlush
  <1>1. LInv => FinalFlush
    BY DEF LInv, DueOwed, Undisturbed, FinalFlush
  <1> QED
    BY <1>1, LogInvariant, PTL

=============================================================================
