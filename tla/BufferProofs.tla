---------------------------- MODULE BufferProofs ----------------------------
(***************************************************************************)
(* What the prover's buffers go through.  For any lengths the sections of  *)
(* a buffer are disjoint and inside of what was allocated; for every       *)
(* number of bytes and threads a copy writes every byte of the buffer      *)
(* once; and the passes of a transform of the domain its object was made   *)
(* for are exactly its layers, in as many steps as nphase, so that the     *)
(* two buffers change places until the rows are in dst_.                   *)
(***************************************************************************)
EXTENDS SectionLayout, ParallelCopy, NTT, TLAPS

\* The inductive invariant holds of a buffer no section of which is known.
LEMMA LayoutInvariantInit == LayoutInit => LayoutInv
<1> SUFFICES ASSUME LayoutInit PROVE LayoutInv
  OBVIOUS
<1>1. Len(lengths) = 0 /\ Len(ends) = 0 /\ Len(ptr) = 0
  BY DEF LayoutInit
<1> QED
  BY <1>1 DEF LayoutInit, LayoutInv

\* The map of the next buffer starts a layout anew.
LEMMA LayoutInvariantStart ==
  ASSUME NEW ls \in Seq(Nat), StartLayout(ls)
  PROVE  LayoutInv'
<1>1. /\ lengths' \in Seq(Nat) /\ Len(lengths') \in Nat
      /\ ends' = <<>> /\ ends' \in Seq(Nat) /\ Len(ends') = 0
      /\ ptr' = <<>> /\ ptr' \in Seq(Nat) /\ Len(ptr') = 0
      /\ total' = 0 /\ offset' = 0
  BY DEF StartLayout
<1> QED
  BY <1>1 DEF LayoutInv

\* A length is added.
LEMMA LayoutInvariantAdd == LayoutInv /\ AddLength => LayoutInv'
<1> SUFFICES ASSUME LayoutInv, AddLength PROVE LayoutInv'
  OBVIOUS
<1> DEFINE k == Len(ends) + 1
<1>1. k \in 1..Len(lengths) /\ lengths[k] \in Nat /\ ends \in Seq(Nat) /\ total \in Nat
  <2>1. lengths \in Seq(Nat) /\ ends \in Seq(Nat) /\ total \in Nat /\ Len(ends) < Len(lengths)
    BY DEF LayoutInv, AddLength
  <2> QED
    BY <2>1
<1>2. total' = total + lengths[k] /\ total' \in Nat
  BY <1>1 DEF AddLength
<1>3. ends' \in Seq(Nat) /\ Len(ends') = k /\ ends'[k] = total'
      /\ \A i \in 1..Len(ends) : ends'[i] = ends[i]
  <2>1. ends' = Append(ends, total')
    BY DEF AddLength
  <2> QED
    BY <1>1, <1>2, <2>1
<1>4. Len(ptr) = 0 /\ ptr = <<>>
  BY DEF LayoutInv, AddLength
<1>5. total = IF k = 1 THEN 0 ELSE ends[k - 1]
  BY <1>1 DEF LayoutInv
<1>6. \A i \in 1..k : ends'[i] = lengths[i] + IF i = 1 THEN 0 ELSE ends'[i - 1]
  <2> SUFFICES ASSUME NEW i \in 1..k
               PROVE  ends'[i] = lengths[i] + IF i = 1 THEN 0 ELSE ends'[i - 1]
    OBVIOUS
  <2>1. CASE i = k
    <3>1. k # 1 => k - 1 \in 1..Len(ends) /\ ends'[k - 1] = ends[k - 1]
      BY <1>1, <1>3
    <3>2. ends'[k] = lengths[k] + total
      BY <1>1, <1>2, <1>3
    <3> QED
      BY <1>5, <2>1, <3>1, <3>2
  <2>2. CASE i # k
    <3>1. i \in 1..Len(ends) /\ (i # 1 => i - 1 \in 1..Len(ends))
      BY <1>1, <2>2
    <3>2. ends[i] = lengths[i] + IF i = 1 THEN 0 ELSE ends[i - 1]
      BY <3>1 DEF LayoutInv
    <3>3. ends'[i] = ends[i] /\ (i # 1 => ends'[i - 1] = ends[i - 1])
      BY <1>3, <3>1
    <3> QED
      BY <3>2, <3>3
  <2> QED
    BY <2>1, <2>2
<1>7. \A i, j \in 1..k : i <= j => ends'[i] <= ends'[j]
  <2> SUFFICES ASSUME NEW i \in 1..k, NEW j \in 1..k, i <= j PROVE ends'[i] <= ends'[j]
    OBVIOUS
  <2>1. CASE j = k /\ i # k
    <3>1. i \in 1..Len(ends) /\ k - 1 \in 1..Len(ends) /\ k # 1
      BY <1>1, <2>1
    <3>2. ends[i] <= ends[k - 1]
      BY <3>1 DEF LayoutInv
    <3> QED
      BY <1>1, <1>2, <1>3, <1>5, <2>1, <3>1, <3>2
  <2>2. CASE j = k /\ i = k
    BY <1>2, <1>3, <2>2
  <2>3. CASE j # k
    <3>1. i \in 1..Len(ends) /\ j \in 1..Len(ends)
      BY <1>1, <2>3
    <3> QED
      BY <1>3, <3>1 DEF LayoutInv
  <2> QED
    BY <2>1, <2>2, <2>3
<1>8. ends' # <<>>
  BY <1>1, <1>3
<1>9. /\ lengths' = lengths /\ offset' = offset /\ ptr' = ptr /\ offset = 0
      /\ lengths \in Seq(Nat) /\ Len(lengths) \in Nat
  BY <1>4 DEF LayoutInv, AddLength
<1> QED
  BY <1>1, <1>2, <1>3, <1>4, <1>6, <1>7, <1>8, <1>9 DEF LayoutInv

\* A section is placed where the one before it ends.
LEMMA LayoutInvariantPlace == LayoutInv /\ PlaceSection => LayoutInv'
<1> SUFFICES ASSUME LayoutInv, PlaceSection PROVE LayoutInv'
  OBVIOUS
<1> DEFINE k == Len(ptr) + 1
<1>1. k \in 1..Len(lengths) /\ lengths[k] \in Nat /\ ptr \in Seq(Nat) /\ offset \in Nat
      /\ Len(ends) = Len(lengths) /\ ends[k] \in Nat
  BY DEF LayoutInv, PlaceSection
<1>2. offset = IF k = 1 THEN 0 ELSE ends[k - 1]
  BY <1>1 DEF LayoutInv
<1>3. offset + lengths[k] = ends[k]
  BY <1>1, <1>2 DEF LayoutInv
<1>4. offset' = ends[k]
  BY <1>1, <1>3 DEF PlaceSection, offsetBehind
<1>5. ptr' \in Seq(Nat) /\ Len(ptr') = k /\ ptr'[k] = offset
      /\ \A i \in 1..Len(ptr) : ptr'[i] = ptr[i]
  BY <1>1 DEF PlaceSection
<1>6. \A i \in 1..k : ptr'[i] + lengths[i] = ends[i]
  <2> SUFFICES ASSUME NEW i \in 1..k PROVE ptr'[i] + lengths[i] = ends[i]
    OBVIOUS
  <2>1. CASE i = k
    BY <1>3, <1>5, <2>1
  <2>2. CASE i # k
    <3>1. i \in 1..Len(ptr)
      BY <1>1, <2>2
    <3> QED
      BY <1>5, <3>1 DEF LayoutInv
  <2> QED
    BY <2>1, <2>2
<1>7. ptr' # <<>>
  BY <1>1, <1>5
<1>8. lengths' = lengths /\ ends' = ends /\ total' = total
  BY DEF PlaceSection
<1>9. offset' = IF ptr' = <<>> THEN 0 ELSE ends'[Len(ptr')]
  BY <1>4, <1>5, <1>7, <1>8
<1>10. \A i \in 1..Len(ptr') : ptr'[i] + lengths'[i] = ends'[i]
  BY <1>5, <1>6, <1>8
<1>11. ptr' \in Seq(Nat) /\ offset' \in Nat /\ Len(ptr') <= Len(lengths')
  BY <1>1, <1>4, <1>5, <1>8
<1> HIDE DEF k
<1> QED
  BY <1>1, <1>8, <1>9, <1>10, <1>11 DEF LayoutInv

-----------------------------------------------------------------------------
\* LayoutInv is an invariant of the two loops, for every map of sections.
THEOREM LayoutInvariant == LayoutSpec => []LayoutInv
<1>1. LayoutInv /\ [LayoutNext]_layoutVars => LayoutInv'
  <2> SUFFICES ASSUME LayoutInv, [LayoutNext]_layoutVars PROVE LayoutInv'
    OBVIOUS
  <2>1. CASE AddLength
    BY <2>1, LayoutInvariantAdd
  <2>2. CASE PlaceSection
    BY <2>2, LayoutInvariantPlace
  <2>3. ASSUME NEW ls \in Seq(Nat), StartLayout(ls) PROVE LayoutInv'
    BY <2>3, LayoutInvariantStart
  <2>4. CASE UNCHANGED layoutVars
    BY <2>4 DEF LayoutInv, layoutVars
  <2> QED
    BY <2>1, <2>2, <2>3, <2>4 DEF LayoutNext
<1> QED
  BY <1>1, LayoutInvariantInit, PTL DEF LayoutSpec

\* The sections of a buffer are in what was allocated for it and do not overlap:
\* each ends with the sum of the lengths up to its own, and these grow.
THEOREM Disjoint == LayoutSpec => []SectionsAreDisjoint
<1>1. ASSUME LayoutInv PROVE SectionsAreDisjoint
  <2> SUFFICES ASSUME NEW i \in 1..Len(ptr)
               PROVE  /\ ptr[i] + lengths[i] <= total
                      /\ \A j \in 1..Len(ptr) : i < j => ptr[i] + lengths[i] <= ptr[j]
    BY DEF SectionsAreDisjoint
  <2>1. /\ lengths \in Seq(Nat) /\ ends \in Seq(Nat) /\ ptr \in Seq(Nat)
        /\ Len(ends) = Len(lengths) /\ Len(ptr) <= Len(ends) /\ ends # <<>>
    BY <1>1 DEF LayoutInv
  <2>2. ASSUME NEW j \in 1..Len(ptr)
        PROVE  /\ j \in 1..Len(ends) /\ ptr[j] \in Nat /\ lengths[j] \in Nat /\ ends[j] \in Nat
               /\ ptr[j] + lengths[j] = ends[j]
    <3>1. j \in 1..Len(ends) /\ j \in 1..Len(lengths)
      BY <2>1
    <3>2. ptr[j] + lengths[j] = ends[j]
      BY <1>1 DEF LayoutInv
    <3>3. ptr[j] \in Nat /\ lengths[j] \in Nat /\ ends[j] \in Nat
      <4>1. \A q \in Seq(Nat) : \A l \in 1..Len(q) : q[l] \in Nat
        OBVIOUS
      <4> QED
        BY <2>1, <3>1, <4>1
    <3> QED
      BY <3>1, <3>2, <3>3
  <2>3. ends[i] <= total
    <3>1. i \in 1..Len(ends) /\ Len(ends) \in 1..Len(ends) /\ i <= Len(ends)
      BY <1>1, <2>1 DEF LayoutInv
    <3> QED
      BY <1>1, <2>1, <3>1 DEF LayoutInv
  <2>4. ASSUME NEW j \in 1..Len(ptr), i < j PROVE ends[i] <= ptr[j]
    <3>1. i \in 1..Len(ends) /\ j \in 1..Len(ends)
      BY <2>2
    <3>2. j - 1 \in 1..Len(ends) /\ j - 1 \in 1..Len(ptr) /\ i <= j - 1 /\ j # 1
      BY <2>1, <2>4, <3>1
    <3>3. ends[i] <= ends[j - 1]
      BY <1>1, <3>1, <3>2 DEF LayoutInv
    <3>4. ends[j] = lengths[j] + ends[j - 1]
      BY <1>1, <3>1, <3>2 DEF LayoutInv
    <3>5. ptr[j] \in Nat /\ lengths[j] \in Nat /\ ptr[j] + lengths[j] = ends[j] /\ ends[j - 1] \in Nat
      BY <2>2, <3>2
    <3>6. ptr[j] = ends[j - 1]
      BY <3>4, <3>5
    <3> QED
      BY <3>3, <3>6
  <2> QED
    BY <2>2, <2>3, <2>4
<1> QED
  BY <1>1, LayoutInvariant, PTL

-----------------------------------------------------------------------------
\* The integer quotient, as the provers use it.
LEMMA Quotient ==
  ASSUME NEW m \in Nat, NEW b \in Nat \ {0}
  PROVE  /\ m \div b \in Nat
         /\ (m \div b) * b <= m
         /\ m < (m \div b + 1) * b
<1>1. m = b * (m \div b) + (m % b) /\ m % b \in 0..(b - 1)
  OBVIOUS
<1> QED
  BY <1>1

\* Multiples of a share are ordered.
LEMMA Multiples ==
  ASSUME NEW i \in Nat, NEW j \in Nat, i <= j, NEW m \in Nat
  PROVE  i * m <= j * m
<1>1. (j - i) * m >= 0
  OBVIOUS
<1>2. (j - i) * m = j * m - i * m
  OBVIOUS
<1> QED
  BY <1>1, <1>2

\* A product is a natural number.
LEMMA Product ==
  ASSUME NEW i \in Nat, NEW m \in Nat
  PROVE  i * m \in Nat
<1>1. 0 * m <= i * m /\ i * m \in Int
  BY Multiples
<1> QED
  BY <1>1

\* What the quotient leaves is a natural number too.
LEMMA Residue ==
  ASSUME NEW m \in Nat, NEW b \in Nat \ {0}
  PROVE  \E q, r \in Nat : q = m \div b /\ r = m - q * b
<1>1. m \div b \in Nat /\ (m \div b) * b <= m
  BY Quotient
<1>2. (m \div b) * b \in Nat
  BY <1>1, Product
<1>3. m - (m \div b) * b \in Nat
  BY <1>1, <1>2
<1> QED
  BY <1>1, <1>3

-----------------------------------------------------------------------------
\* The shares are in the buffer, one behind the other.
LEMMA Shares ==
  ASSUME nBytes \in Nat, nThreads \in Nat \ {0}
  PROVE  /\ bytesThread \in Nat /\ residualBytes \in Nat
         /\ \A i \in Iterations : /\ offsetOf(i) \in Nat /\ sizeOf(i) \in Nat
                                  /\ offsetOf(i) + sizeOf(i) <= nBytes
         /\ \A i, j \in Iterations : i < j => offsetOf(i) + sizeOf(i) <= offsetOf(j)
<1>1. bytesThread \in Nat /\ bytesThread * nThreads \in Nat
      /\ bytesThread * nThreads <= nBytes
  BY Quotient DEF bytesThread
<1>2. residualBytes \in Nat
  BY <1>1 DEF residualBytes
<1>3. ASSUME NEW i \in Iterations
      PROVE  offsetOf(i) \in Nat /\ sizeOf(i) \in Nat
  BY <1>1, <1>2 DEF offsetOf, sizeOf, Iterations
<1>4. ASSUME NEW i \in Iterations, NEW j \in Nat, i < j, j <= nThreads,
             sizeOf(i) = bytesThread
      PROVE  offsetOf(i) + sizeOf(i) <= j * bytesThread
  <2>1. (i + 1) * bytesThread <= j * bytesThread
    BY <1>1, <1>4, Multiples DEF Iterations
  <2>2. offsetOf(i) + sizeOf(i) = (i + 1) * bytesThread
    BY <1>1, <1>4 DEF offsetOf, Iterations
  <2> QED
    BY <2>1, <2>2
<1>5. ASSUME NEW i \in Iterations
      PROVE  offsetOf(i) + sizeOf(i) <= nBytes
  <2>1. CASE i = nThreads - 1
    <3>1. offsetOf(i) + bytesThread = nThreads * bytesThread
      BY <1>1, <2>1 DEF offsetOf
    <3> QED
      BY <1>1, <1>2, <2>1, <3>1 DEF sizeOf, residualBytes, offsetOf
  <2>2. CASE i # nThreads - 1
    BY <1>1, <1>3, <1>4, <2>2 DEF sizeOf, Iterations
  <2> QED
    BY <2>1, <2>2
<1>6. ASSUME NEW i \in Iterations, NEW j \in Iterations, i < j
      PROVE  offsetOf(i) + sizeOf(i) <= offsetOf(j)
  BY <1>4, <1>6 DEF sizeOf, Iterations, offsetOf
<1> QED
  BY <1>1, <1>2, <1>3, <1>5, <1>6

\* Every byte of the buffer is in a share: its quotient's, or the last one's.
LEMMA Cover ==
  ASSUME nBytes \in Nat, nThreads \in Nat \ {0}, NEW b \in 0..(nBytes - 1)
  PROVE  \E i \in Iterations : offsetOf(i) <= b /\ b < offsetOf(i) + sizeOf(i)
<1>1. /\ bytesThread \in Nat /\ residualBytes \in Nat
      /\ residualBytes = nBytes - bytesThread * nThreads
  BY Shares DEF residualBytes
<1>2. DEFINE last == nThreads - 1
<1>3. last \in Iterations /\ offsetOf(last) + sizeOf(last) = nBytes
  <2>1. last * bytesThread + bytesThread = bytesThread * nThreads
    BY <1>1
  <2> QED
    BY <1>1, <2>1 DEF Iterations, offsetOf, sizeOf
<1>4. CASE offsetOf(last) <= b
  BY <1>3, <1>4
<1>5. CASE b < offsetOf(last)
  <2>1. bytesThread \in Nat \ {0}
    BY <1>1, <1>5 DEF offsetOf
  <2>2. DEFINE q == b \div bytesThread
  <2>3. q \in Nat /\ q * bytesThread <= b /\ b < (q + 1) * bytesThread
    BY <2>1, Quotient
  <2> HIDE DEF q
  <2>4. q < last
    <3>1. SUFFICES ASSUME last <= q PROVE FALSE
      BY <2>3
    <3>2. last * bytesThread <= q * bytesThread
      BY <1>1, <2>3, <3>1, Multiples
    <3> QED
      BY <1>1, <1>5, <2>3, <3>2 DEF offsetOf
  <2>5. q \in Iterations /\ sizeOf(q) = bytesThread
    BY <2>3, <2>4 DEF Iterations, sizeOf
  <2>6. offsetOf(q) <= b /\ b < offsetOf(q) + sizeOf(q)
    BY <1>1, <2>3, <2>5 DEF offsetOf
  <2> QED
    BY <2>5, <2>6
<1> QED
  BY <1>1, <1>4, <1>5 DEF offsetOf

-----------------------------------------------------------------------------
\* The inductive invariant holds at first.
LEMMA CopyInvariantInit == CopyInit => CopyInv
<1> SUFFICES ASSUME CopyInit PROVE CopyInv
  OBVIOUS
<1>1. Iterations = 0..0 /\ sizeOf(0) = 0 /\ offsetOf(0) = 0
  BY Quotient DEF CopyInit, Iterations, sizeOf, offsetOf, bytesThread, residualBytes
<1> QED
  BY <1>1 DEF CopyInit, CopyInv

\* A call starts with nothing copied.
LEMMA CopyInvariantStart ==
  ASSUME NEW bytes \in Nat, NEW asked \in Nat, StartCopy(bytes, asked)
  PROVE  CopyInv'
<1>1. nBytes' \in Nat /\ nThreads' \in Nat \ {0}
  BY DEF StartCopy
<1>2. Iterations' = 0..(nThreads' - 1)
  BY DEF Iterations
<1>3. \A i \in Iterations' : sizeOf(i)' \in Nat /\ offsetOf(i)' \in Nat
  <2>1. PICK q \in Nat, r \in Nat :
          q = nBytes' \div nThreads' /\ r = nBytes' - q * nThreads'
    BY <1>1, Residue
  <2>2. bytesThread' = q /\ residualBytes' = r
    BY <2>1 DEF bytesThread, residualBytes
  <2>3. ASSUME NEW i \in Iterations' PROVE sizeOf(i)' \in Nat /\ offsetOf(i)' \in Nat
    <3>1. i \in Nat
      BY <1>1, <1>2
    <3>2. i * q \in Nat
      BY <3>1, Product
    <3>3. q + r \in Nat
      OBVIOUS
    <3> QED
      BY <2>2, <3>2, <3>3 DEF sizeOf, offsetOf
  <2> QED
    BY <2>3
<1>4. at' \in [Iterations' -> Nat] /\ \A i \in Iterations' : at'[i] = 0
  BY <1>2 DEF StartCopy
<1>5. written' = {w \in Iterations' \X (0..(nBytes' - 1)) :
         offsetOf(w[1])' <= w[2] /\ w[2] < offsetOf(w[1])' + at'[w[1]]}
  <2>1. \A w \in Iterations' \X (0..(nBytes' - 1)) :
          ~(offsetOf(w[1])' <= w[2] /\ w[2] < offsetOf(w[1])' + at'[w[1]])
    BY <1>1, <1>3, <1>4
  <2> QED
    BY <2>1 DEF StartCopy
<1>6. \A i \in Iterations' : at'[i] <= sizeOf(i)'
  BY <1>3, <1>4
<1> QED
  BY <1>1, <1>4, <1>5, <1>6 DEF CopyInv

\* A byte more is copied where the iteration is, which is in the buffer.
LEMMA CopyInvariantStep == CopyInv /\ [CopyNext]_copyVars => CopyInv'
<1> SUFFICES ASSUME CopyInv, [CopyNext]_copyVars PROVE CopyInv'
  OBVIOUS
<1>1. nBytes \in Nat /\ nThreads \in Nat \ {0} /\ at \in [Iterations -> Nat]
  BY DEF CopyInv
<1>2. \A j \in Iterations : /\ offsetOf(j) \in Nat /\ sizeOf(j) \in Nat
                            /\ offsetOf(j) + sizeOf(j) <= nBytes
  BY <1>1, Shares
<1>3. ASSUME NEW i \in Iterations, CopyByte(i)
      PROVE  CopyInv'
  <2>1. nBytes' = nBytes /\ nThreads' = nThreads
    BY <1>3 DEF CopyByte
  <2>2. Iterations' = Iterations /\ \A j : sizeOf(j)' = sizeOf(j) /\ offsetOf(j)' = offsetOf(j)
    BY <2>1 DEF Iterations, sizeOf, offsetOf, bytesThread, residualBytes
  <2>3. DEFINE b == offsetOf(i) + at[i]
  <2>4. b \in 0..(nBytes - 1) /\ at[i] \in Nat /\ at[i] + 1 <= sizeOf(i)
    BY <1>1, <1>2, <1>3 DEF CopyByte
  <2>5. /\ at' \in [Iterations -> Nat] /\ at'[i] = at[i] + 1
        /\ \A j \in Iterations : j # i => at'[j] = at[j]
    BY <1>1, <1>3, <2>4 DEF CopyByte
  <2>6. written' = written \cup {<<i, b>>}
    BY <1>3 DEF CopyByte
  <2>7. written' = {w \in Iterations \X (0..(nBytes - 1)) :
                     offsetOf(w[1]) <= w[2] /\ w[2] < offsetOf(w[1]) + at'[w[1]]}
    <3>1. ASSUME NEW w \in Iterations \X (0..(nBytes - 1))
          PROVE  (w \in written \/ w = <<i, b>>) <=>
                   offsetOf(w[1]) <= w[2] /\ w[2] < offsetOf(w[1]) + at'[w[1]]
      <4>1. w = <<w[1], w[2]>> /\ w[1] \in Iterations /\ w[2] \in 0..(nBytes - 1)
        OBVIOUS
      <4>2. w \in written <=> offsetOf(w[1]) <= w[2] /\ w[2] < offsetOf(w[1]) + at[w[1]]
        BY DEF CopyInv
      <4>3. CASE w[1] = i
        BY <1>1, <1>2, <2>4, <2>5, <4>1, <4>2, <4>3
      <4>4. CASE w[1] # i
        BY <2>5, <4>1, <4>2, <4>4
      <4> QED
        BY <4>3, <4>4
    <3>2. written' \subseteq Iterations \X (0..(nBytes - 1))
      BY <2>4, <2>6 DEF CopyInv
    <3> QED
      BY <2>6, <3>1, <3>2
  <2>8. \A j \in Iterations : at'[j] <= sizeOf(j)
    BY <2>4, <2>5 DEF CopyInv
  <2> QED
    BY <1>1, <2>1, <2>2, <2>5, <2>7, <2>8 DEF CopyInv
<1>4. CASE UNCHANGED copyVars
  BY <1>4 DEF copyVars, CopyInv, Iterations, sizeOf, offsetOf, bytesThread, residualBytes
<1>5. ASSUME NEW bytes \in Nat, NEW asked \in Nat, StartCopy(bytes, asked)
      PROVE  CopyInv'
  BY <1>5, CopyInvariantStart
<1> QED
  BY <1>3, <1>4, <1>5 DEF CopyNext

\* CopyInv is an invariant of the loop.
THEOREM CopyInvariant == CopySpec => []CopyInv
<1> QED
  BY CopyInvariantInit, CopyInvariantStep, PTL DEF CopySpec

\* Each byte is copied once, by one iteration, for every size and number of
\* threads: the shares follow one another and cover the buffer.
THEOREM Copies == CopySpec => []CopiesEachByteOnce
<1>1. ASSUME CopyInv PROVE CopiesEachByteOnce
  <2>1. nBytes \in Nat /\ nThreads \in Nat \ {0} /\ at \in [Iterations -> Nat]
    BY <1>1 DEF CopyInv
  <2>2. \A w \in written :
          /\ w = <<w[1], w[2]>> /\ w[1] \in Iterations /\ w[2] \in 0..(nBytes - 1)
          /\ offsetOf(w[1]) <= w[2] /\ w[2] < offsetOf(w[1]) + at[w[1]]
          /\ at[w[1]] <= sizeOf(w[1])
    BY <1>1 DEF CopyInv
  <2>3. \A v, w \in written : v[2] = w[2] => v = w
    <3> SUFFICES ASSUME NEW v \in written, NEW w \in written, v[2] = w[2],
                        v[1] # w[1]
                 PROVE  FALSE
      BY <2>2
    <3>1. \A i, j \in Iterations : i < j => offsetOf(i) + sizeOf(i) <= offsetOf(j)
      BY <2>1, Shares
    <3>2. \A i \in Iterations : offsetOf(i) \in Nat /\ sizeOf(i) \in Nat
      BY <2>1, Shares
    <3>3. v[1] \in Int /\ w[1] \in Int
      BY <2>1, <2>2 DEF Iterations
    <3>4. v[1] < w[1] \/ w[1] < v[1]
      BY <3>3
    <3> QED
      BY <2>1, <2>2, <3>1, <3>2, <3>4
  <2>4. ASSUME Copied, NEW b \in 0..(nBytes - 1)
        PROVE  \E i \in Iterations : <<i, b>> \in written
    BY <1>1, <2>1, <2>4, Cover DEF Copied, CopyInv
  <2> QED
    BY <2>2, <2>3, <2>4 DEF CopiesEachByteOnce
<1> QED
  BY <1>1, CopyInvariant, PTL

-----------------------------------------------------------------------------
\* Before pass count, each of the passes before it has made its layers: one more
\* than the share of each, while there is a rest.
LayersBefore(c) == c * (domainPow \div nphase) + (IF c <= res THEN c ELSE res)

PassInv ==
  /\ count \in 1..(nphase + 1)
  /\ maxBatchPow = domainPow \div nphase + (IF count <= res THEN 1 ELSE 0)
  /\ s = 1 + LayersBefore(count - 1)
  /\ a = IF (nphase - (count - 1)) % 2 = 0 THEN "dst_" ELSE "aux"
  /\ pc = "batches" => s <= domainPow

OwnDomainInv ==
  /\ call \in Calls
  /\ call.maxPow = domainPow =>
       /\ pc # "copyNeeded"
       /\ domainPow > 0 /\ pc \in {"pass", "batches"} => PassInv

-----------------------------------------------------------------------------
\* The smaller of two numbers, and the larger.
LEMMA MinMax ==
  ASSUME NEW x \in Int, NEW y \in Int
  PROVE  /\ Min({x, y}) = IF x <= y THEN x ELSE y
         /\ Max({x, y}) = IF x >= y THEN x ELSE y
<1>1. Min({x, y}) = IF x <= y THEN x ELSE y
  <2> DEFINE m == IF x <= y THEN x ELSE y
  <2>1. m \in {x, y} /\ \A z \in {x, y} : m <= z
    OBVIOUS
  <2>2. \A v \in {x, y} : (\A z \in {x, y} : v <= z) => v = m
    OBVIOUS
  <2>3. Min({x, y}) \in {x, y} /\ \A z \in {x, y} : Min({x, y}) <= z
    BY <2>1 DEF Min
  <2> QED
    BY <2>2, <2>3
<1>2. Max({x, y}) = IF x >= y THEN x ELSE y
  <2> DEFINE m == IF x >= y THEN x ELSE y
  <2>1. m \in {x, y} /\ \A z \in {x, y} : m >= z
    OBVIOUS
  <2>2. \A v \in {x, y} : (\A z \in {x, y} : v >= z) => v = m
    OBVIOUS
  <2>3. Max({x, y}) \in {x, y} /\ \A z \in {x, y} : Max({x, y}) >= z
    BY <2>1 DEF Max
  <2> QED
    BY <2>2, <2>3
<1> QED
  BY <1>1, <1>2

\* There is a layer for each pass at least, and the layers of the passes are
\* those of the domain.
LEMMA Phases ==
  ASSUME call \in Calls, call.maxPow = domainPow, domainPow > 0
  PROVE  /\ domainPow \in Nat /\ objectPow = domainPow
         /\ nphase \in 1..domainPow
         /\ domainPow \div nphase \in Nat \ {0} /\ res \in 0..(nphase - 1)
         /\ domainPow = nphase * (domainPow \div nphase) + res
<1>1. domainPow \in Nat /\ call.nphase \in Nat
  BY NTTAssumption DEF CallType, domainPow
<1>2. objectPow = domainPow
  BY <1>1, MinMax DEF objectPow
<1>3. nphase \in 1..domainPow
  BY <1>1, MinMax DEF nphase
<1>4. /\ domainPow \div nphase \in Int /\ domainPow % nphase \in 0..(nphase - 1)
      /\ domainPow = nphase * (domainPow \div nphase) + (domainPow % nphase)
  BY <1>1, <1>3
<1>5. ASSUME domainPow \div nphase <= 0 PROVE FALSE
  <2>1. nphase * (domainPow \div nphase) <= nphase * 0
    BY <1>3, <1>4, <1>5
  <2>2. nphase * 0 = 0 /\ nphase * (domainPow \div nphase) \in Int
    BY <1>1, <1>3, <1>4
  <2>3. domainPow <= domainPow % nphase
    BY <1>1, <1>3, <1>4, <2>1, <2>2
  <2> QED
    BY <1>1, <1>3, <1>4, <2>3
<1> QED
  BY <1>1, <1>2, <1>3, <1>4, <1>5 DEF res

\* The layers before a pass are those of all passes only when it is behind the last.
LEMMA LayersLeft ==
  ASSUME call \in Calls, call.maxPow = domainPow, domainPow > 0, NEW c \in 0..nphase
  PROVE  /\ LayersBefore(c) \in Nat
         /\ 1 + LayersBefore(c) <= domainPow <=> c < nphase
         /\ LayersBefore(c + 1) =
              LayersBefore(c) + domainPow \div nphase + (IF c + 1 <= res THEN 1 ELSE 0)
<1> DEFINE q == domainPow \div nphase
<1>1. /\ domainPow \in Nat /\ nphase \in 1..domainPow /\ q \in Nat \ {0}
      /\ res \in 0..(nphase - 1) /\ domainPow = nphase * q + res
  BY Phases
<1>2. LayersBefore(c) = c * q + (IF c <= res THEN c ELSE res)
      /\ LayersBefore(c + 1) = (c + 1) * q + (IF c + 1 <= res THEN c + 1 ELSE res)
  BY DEF LayersBefore
<1> HIDE DEF q
<1>3. (c + 1) * q = c * q + q /\ c * q \in Nat
  BY <1>1
<1>4. CASE c = nphase
  <2>1. c * q = nphase * q
    BY <1>4
  <2>2. LayersBefore(c) = domainPow
    BY <1>1, <1>2, <1>3, <1>4, <2>1
  <2> QED
    BY <1>1, <1>2, <1>3, <1>4, <2>2 DEF q
<1>5. CASE c < nphase
  <2>1. (nphase - (c + 1)) * q >= 0 /\ (nphase - (c + 1)) * q = nphase * q - (c * q + q)
        /\ nphase * q \in Nat
    BY <1>1, <1>5
  <2>2. 1 + LayersBefore(c) <= domainPow
    BY <1>1, <1>2, <1>3, <2>1
  <2> QED
    BY <1>1, <1>2, <1>3, <1>5, <2>2 DEF q
<1> QED
  BY <1>1, <1>4, <1>5

-----------------------------------------------------------------------------
\* No step changes the call.
LEMMA SameCall ==
  ASSUME [Next]_vars
  PROVE  UNCHANGED <<call, domainPow, nphase, res>>
<1>1. call' = call
  BY DEF Next, vars, StartBlock, StartPass, Batch, EndPass, EndBlock, Ended
<1> QED
  BY <1>1 DEF domainPow, nphase, res, objectPow

\* A block starts in the buffer from which nphase passes lead to dst_, and every pass
\* goes one of them.
LEMMA Step == OwnDomainInv /\ [Next]_vars => OwnDomainInv'
<1> SUFFICES ASSUME OwnDomainInv, [Next]_vars, call.maxPow = domainPow
             PROVE  /\ pc' # "copyNeeded"
                    /\ domainPow > 0 /\ pc' \in {"pass", "batches"} => PassInv'
  BY SameCall DEF OwnDomainInv
<1>1. /\ call \in Calls /\ pc # "copyNeeded"
      /\ domainPow > 0 /\ pc \in {"pass", "batches"} => PassInv
  BY DEF OwnDomainInv
<1>2. UNCHANGED <<call, domainPow, nphase, res>>
  BY SameCall
<1>3. domainPow \in Nat
  BY <1>1, NTTAssumption DEF CallType, domainPow
<1>4. \A c : LayersBefore(c)' = LayersBefore(c)
  BY <1>2 DEF LayersBefore
<1>5. CASE StartBlock
  <2>1. pc' # "copyNeeded" /\ pc' # "batches"
    BY <1>5 DEF StartBlock
  <2>2. ASSUME domainPow > 0, pc' = "pass"
        PROVE  PassInv'
    <3>1. /\ nphase \in 1..domainPow /\ objectPow = domainPow /\ res \in 0..(nphase - 1)
          /\ domainPow \div nphase \in Nat
      BY <1>1, <2>2, Phases
    <3>2. /\ a' = IF nphase % 2 = 0 THEN "dst_" ELSE "aux"
          /\ s' = 1 /\ count' = 1
          /\ maxBatchPow' = objectPow \div nphase + (IF res > 0 THEN 1 ELSE 0)
      BY <1>5, <2>2 DEF StartBlock
    <3>3. LayersBefore(0) = 0
      BY <3>1 DEF LayersBefore
    <3>4. nphase - (1 - 1) = nphase /\ 1 - 1 = 0 /\ (1 <= res <=> res > 0) /\ 1 \in 1..(nphase + 1)
      BY <1>3, <3>1
    <3> QED
      BY <1>2, <1>4, <2>1, <3>1, <3>2, <3>3, <3>4 DEF PassInv
  <2> QED
    BY <2>1, <2>2
<1>6. CASE StartPass
  BY <1>1, <1>2, <1>4, <1>6 DEF StartPass, PassInv
<1>7. CASE \E b \in batches : Batch(b)
  BY <1>1, <1>2, <1>4, <1>7 DEF Batch, PassInv
<1>8. CASE EndPass
  <2>1. pc' = "pass" /\ pc = "batches" /\ a' = Other /\ count' = count + 1
        /\ s' = s + maxBatchPow
        /\ maxBatchPow' = IF res > 0 /\ count' = res + 1 /\ maxBatchPow > 1
                          THEN maxBatchPow - 1 ELSE maxBatchPow
    BY <1>8 DEF EndPass, fewerLayers
  <2>2. ASSUME domainPow > 0
        PROVE  PassInv'
    <3> DEFINE q == domainPow \div nphase
    <3>1. PassInv /\ s <= domainPow
      BY <1>1, <2>1, <2>2 DEF PassInv
    <3>2. /\ nphase \in 1..domainPow /\ q \in Nat \ {0} /\ res \in 0..(nphase - 1)
      BY <1>1, <2>2, Phases
    <3>3. count \in 1..nphase
      <4>1. count - 1 \in 0..nphase /\ count \in 1..(nphase + 1)
        BY <1>3, <3>1, <3>2 DEF PassInv
      <4>2. 1 + LayersBefore(count - 1) <= domainPow
        BY <3>1 DEF PassInv
      <4>3. count - 1 < nphase
        BY <1>1, <2>2, <4>1, <4>2, LayersLeft
      <4> QED
        BY <1>3, <3>2, <4>1, <4>3
    <3>4. maxBatchPow = q + (IF count <= res THEN 1 ELSE 0) /\ s = 1 + LayersBefore(count - 1)
      BY <3>1 DEF PassInv
    <3>5. /\ LayersBefore(count - 1) \in Nat
          /\ LayersBefore(count) = LayersBefore(count - 1) + q + (IF count <= res THEN 1 ELSE 0)
      <4>1. count - 1 \in 0..nphase /\ (count - 1) + 1 = count
        BY <1>3, <3>2, <3>3
      <4> QED
        BY <1>1, <2>2, <4>1, LayersLeft
    <3> HIDE DEF q
    <3>6. s' = 1 + LayersBefore(count)
      BY <2>1, <3>2, <3>3, <3>4, <3>5
    <3>7. maxBatchPow' = q + (IF count + 1 <= res THEN 1 ELSE 0)
      BY <2>1, <3>2, <3>3, <3>4
    <3>8. a' = IF (nphase - count) % 2 = 0 THEN "dst_" ELSE "aux"
      <4>1. a = IF (nphase - (count - 1)) % 2 = 0 THEN "dst_" ELSE "aux"
        BY <3>1 DEF PassInv
      <4>2. nphase - (count - 1) = (nphase - count) + 1 /\ nphase - count \in Int
        BY <1>3, <3>2, <3>3
      <4>3. ((nphase - count) + 1) % 2 = 0 <=> (nphase - count) % 2 # 0
        BY <4>2
      <4> QED
        BY <2>1, <4>1, <4>2, <4>3 DEF Other
    <3>9. count' \in 1..(nphase + 1) /\ count' - 1 = count
      BY <1>3, <2>1, <3>2, <3>3
    <3> QED
      BY <1>2, <1>4, <2>1, <3>6, <3>7, <3>8, <3>9 DEF PassInv, q
  <2> QED
    BY <1>3, <2>1, <2>2
<1>9. CASE EndBlock
  <2>1. pc = "pass" /\ s > domainPow
    BY <1>9 DEF EndBlock
  <2>2. ~(a # "dst_" /\ size > 1)
    <3>1. CASE domainPow = 0
      <4>1. size = 1
        BY <3>1 DEF size
      <4> QED
        BY <4>1
    <3>2. CASE domainPow > 0
      <4>1. PassInv
        BY <1>1, <2>1, <3>2
      <4>2. nphase \in 1..domainPow
        BY <1>1, <3>2, Phases
      <4>3. count - 1 \in 0..nphase /\ s = 1 + LayersBefore(count - 1)
        BY <1>3, <4>1, <4>2 DEF PassInv
      <4>4. ~(count - 1 < nphase)
        BY <1>1, <1>3, <2>1, <3>2, <4>3, LayersLeft
      <4>5. nphase - (count - 1) = 0
        BY <1>3, <4>2, <4>3, <4>4
      <4> QED
        BY <4>1, <4>5 DEF PassInv
    <3> QED
      BY <1>3, <3>1, <3>2
  <2>3. pc' = "block"
    BY <1>9, <2>2 DEF EndBlock
  <2> QED
    BY <2>3
<1>10. CASE UNCHANGED vars
  BY <1>1, <1>2, <1>4, <1>10 DEF vars, PassInv
<1> QED
  BY <1>5, <1>6, <1>7, <1>8, <1>9, <1>10 DEF Next, Ended

\* NTT and INTT of the domain of the object end in dst_, for every size, number of
\* phases and of blocks: the copy that the code says should never be needed is not.
THEOREM OwnDomain == Spec => []OwnDomainEndsInDst
<1>1. Init => OwnDomainInv
  BY DEF Init, OwnDomainInv
<1>2. OwnDomainInv => OwnDomainEndsInDst
  BY DEF OwnDomainInv, OwnDomainEndsInDst
<1> QED
  BY <1>1, <1>2, Step, PTL DEF Spec
=============================================================================
