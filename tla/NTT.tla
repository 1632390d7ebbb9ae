-------------------------------- MODULE NTT --------------------------------
(***************************************************************************)
(* NTT_AltBn128: the transform of the columns of a matrix, by blocks of    *)
(* columns.  A block is permuted in bit-reversed order and transformed in  *)
(* passes; the batches of a pass, in parallel, compute some layers of      *)
(* butterflies on rows of their own in one buffer and scatter them to the  *)
(* other one.  The number of passes decides which buffer holds the result. *)
(***************************************************************************)
EXTENDS PrimeField, FiniteSetsExt, Naturals

CONSTANT Calls   \* the calls considered, as records (see CallType)

(***************************************************************************)
(* A call of NTT or INTT by an object made for a maxDomainSize of          *)
(* 2^maxPow: the size is 2^domainPow, dst may be src; extension is the     *)
(* object's: only the first size/extension rows are read, the others are 0.*)
(***************************************************************************)
CallType == [maxPow : Nat, domainPow : Nat, nphase : Nat, nblock : Nat, ncols : Nat \ {0},
             inverse : BOOLEAN, inPlace : BOOLEAN, extension : Nat \ {0}]

ASSUME NTTAssumption ==
  \A c \in Calls : /\ c \in CallType
                   /\ c.domainPow <= c.maxPow
                   /\ c.extension <= 2 ^ c.domainPow
                   /\ c.extension > 1 => ~c.inverse
                   /\ (P - 1) % (2 ^ c.maxPow) = 0

VARIABLES
  call,
  src, dst,     \* the matrices of the call: [row -> [column -> element]]
  pc,
  ib,           \* the block of columns
  buffer,       \* the two buffers of a block: NTT_iters's dst_, and aux
  a,            \* the one that holds the current rows
  s, count,     \* the first layer of this pass, and the number of the pass
  maxBatchPow,  \* how many layers a pass has
  batches       \* the batches of this pass that are not computed yet

vars == <<call, src, dst, pc, ib, buffer, a, s, count, maxBatchPow, batches>>

Garbage == -1
domainPow == call.domainPow
size == 2 ^ domainPow
Rows == 0..(size - 1)

\* The columns of the call are shared among the blocks, the first ones having
\* one more.  ncols is the number of columns of this block.
nblock == Min({Max({call.nblock, 1}), call.ncols})
ncols_block == call.ncols \div nblock
ncols_res == call.ncols % nblock
ncols == IF ib < ncols_res THEN ncols_block + 1 ELSE ncols_block
offset_cols == ib * ncols_block + Min({ib, ncols_res})
Columns == 0..(ncols - 1)

\* The member s of the object.
objectPow == Max({call.maxPow, 1})
root(pow, idx) == power(rootOfUnity(2 ^ objectPow), idx * 2 ^ (objectPow - pow))

\* There are as many passes as layers at most.  (Faulty variant: or more.)
nphaseUnlimited == IF call.nphase < 1 \/ domainPow = 0 THEN 1 ELSE call.nphase
nphase == IF call.nphase < 1 \/ domainPow = 0 THEN 1 ELSE Min({call.nphase, domainPow})
res == objectPow % nphase

\* Row i of a block comes from the row whose bits are reversed.
BR(i) == SumFunction([bit \in 0..(domainPow - 1) |->
                        ((i \div 2 ^ bit) % 2) * 2 ^ (domainPow - 1 - bit)])
reversePermutation(matrix) ==
  [i \in Rows |-> [k \in Columns |->
     IF BR(i) < size \div call.extension THEN matrix[BR(i)][offset_cols + k] ELSE 0]]

-----------------------------------------------------------------------------
Other == IF a = "dst_" THEN "aux" ELSE "dst_"
sInc == IF s + maxBatchPow <= domainPow THEN maxBatchPow ELSE domainPow - s + 1
batchSize == 2 ^ sInc
nBatches == size \div batchSize

\* Layer si of batch b: the rows x are those of the batch, counted from 0, and
\* each is the sum or the difference of itself and its partner.  (Faulty
\* variant: the exponent of the root is the butterfly's number in the batch.)
exponentInBatch(b, si, i) == i % 2 ^ (s + si - 1)
exponent(b, si, i) ==
  LET j == b * (batchSize \div 2) + i
      columns == 2 ^ (domainPow - s)
  IN  ((j % columns) * 2 ^ (s - 1) + (j \div columns)) % 2 ^ (s + si - 1)
layer(b, si, rows) ==
  LET half == 2 ^ si
      first(x) == x - (IF x % (2 * half) < half THEN 0 ELSE half)
      butterfly(x) == (first(x) \div (2 * half)) * half + (x % half)
      w(x) == root(s + si, exponent(b, si, butterfly(x)))
  IN  [x \in DOMAIN rows |-> [k \in Columns |->
         LET t == mul(w(x), rows[first(x) + half][k])
             u == rows[first(x)][k]
         IN  IF x = first(x) THEN add(u, t) ELSE sub(u, t)]]
layers[n \in Nat, b \in Nat] ==
  IF n = 0 THEN [x \in 0..(batchSize - 1) |-> buffer[a][b * batchSize + x]]
  ELSE layer(b, n - 1, layers[n - 1, b])

\* The last pass of an inverse also divides by the size and reverses the rows.
LastOfInverse == call.inverse /\ s + maxBatchPow > domainPow
intt_idx(y) == IF y = 0 THEN 0 ELSE size - y
place(b, x) == LET y == x * nBatches + b IN IF LastOfInverse THEN intt_idx(y) ELSE y
scale(e) == IF LastOfInverse THEN mul(e, inv((2 ^ domainPow) % P)) ELSE e

-----------------------------------------------------------------------------
Init ==
  /\ call \in Calls
  /\ \E x \in Rows : src = [r \in Rows |-> [c \in 0..(call.ncols - 1) |->
                              IF r = (x + c) % size THEN c + 1 ELSE 0]]
  /\ dst = IF call.inPlace THEN src ELSE [r \in Rows |-> [c \in 0..(call.ncols - 1) |-> Garbage]]
  /\ pc = "block" /\ ib = 0
  /\ buffer = <<>> /\ a = "dst_"
  /\ s = 1 /\ count = 1 /\ maxBatchPow = 1 /\ batches = {}

\* NTT_iters begins: the permutation goes to the buffer from which nphase
\* passes lead to dst_.  dst_ is dst itself if there is one block.
StartBlock ==
  /\ pc = "block" /\ ib < nblock
  /\ LET inSitu == call.inPlace /\ nblock = 1 /\ nphase % 2 = 0
         untouched == IF nblock = 1 THEN dst ELSE [r \in Rows |-> [k \in Columns |-> Garbage]]
         permuted == reversePermutation(IF call.inPlace THEN dst ELSE src)
     IN  IF inSitu /\ call.extension > 1
         THEN pc' = "notImplemented" /\ UNCHANGED <<buffer, a>>
         ELSE /\ a' = IF nphase % 2 = 0 THEN "dst_" ELSE "aux"
              /\ buffer' = [name \in {"dst_", "aux"} |->
                              IF name = a' THEN permuted
                              ELSE IF name = "dst_" THEN untouched
                              ELSE [r \in Rows |-> [k \in Columns |-> Garbage]]]
              /\ pc' = "pass"
  /\ s' = 1 /\ count' = 1
  /\ maxBatchPow' = objectPow \div nphase + (IF res > 0 THEN 1 ELSE 0)
  /\ batches' = {}
  /\ UNCHANGED <<call, src, dst, ib>>

\* A pass begins: its batches are given to the threads.
StartPass ==
  /\ pc = "pass" /\ s <= domainPow
  /\ batches' = 0..(nBatches - 1)
  /\ pc' = "batches"
  /\ UNCHANGED <<call, src, dst, ib, buffer, a, s, count, maxBatchPow>>

\* One batch: its rows are transformed where they are, then scattered.
transformed(b) ==
  LET rows == layers[sInc, b]
      At(r) == {x \in 0..(batchSize - 1) : place(b, x) = r}
  IN  [buffer EXCEPT
        ![a] = [r \in Rows |-> IF r \div batchSize = b THEN rows[r % batchSize] ELSE @[r]],
        ![Other] = [r \in Rows |->
                      IF At(r) = {} THEN @[r]
                      ELSE LET x == CHOOSE x \in At(r) : TRUE
                           IN  [k \in Columns |-> scale(rows[x][k])]]]
Batch(b) ==
  /\ pc = "batches" /\ b \in batches
  /\ buffer' = transformed(b)
  /\ batches' = batches \ {b}
  /\ UNCHANGED <<call, src, dst, pc, ib, a, s, count, maxBatchPow>>

\* When all batches are computed the buffers change places.  The first res
\* passes have one layer more than the others.
fewerLayers == maxBatchPow' = IF res > 0 /\ count' = res + 1 /\ maxBatchPow > 1
                              THEN maxBatchPow - 1 ELSE maxBatchPow
EndPass ==
  /\ pc = "batches" /\ batches = {}
  /\ a' = Other
  /\ s' = s + maxBatchPow
  /\ count' = count + 1
  /\ fewerLayers
  /\ pc' = "pass"
  /\ UNCHANGED <<call, src, dst, ib, buffer, batches>>

\* The result is in dst_, or a copy is needed: asserted not to be, but for one
\* row, of which the copy takes as many bytes as it has elements.
EndBlock ==
  /\ pc = "pass" /\ s > domainPow
  /\ IF a # "dst_" /\ size > 1
     THEN pc' = "copyNeeded" /\ UNCHANGED <<dst, ib>>
     ELSE /\ LET copied(r, k) == IF a = "dst_" \/ buffer["aux"][r][k] = buffer["dst_"][r][k]
                                 THEN buffer["dst_"][r][k] ELSE Garbage
             IN  dst' = [r \in Rows |-> [c \in DOMAIN dst[r] |->
                           IF c - offset_cols \in Columns THEN copied(r, c - offset_cols)
                           ELSE dst[r][c]]]
          /\ pc' = "block" /\ ib' = ib + 1
  /\ UNCHANGED <<call, src, buffer, a, s, count, maxBatchPow, batches>>

Ended == /\ pc \in {"notImplemented", "copyNeeded"} \/ (pc = "block" /\ ib = nblock)
         /\ UNCHANGED vars

Next == StartBlock \/ StartPass \/ (\E b \in batches : Batch(b)) \/ EndPass \/ EndBlock \/ Ended
Spec == Init /\ [][Next]_vars

-----------------------------------------------------------------------------
Done == pc = "block" /\ ib = nblock

\* The discrete Fourier transform of a column, by its definition.
column(matrix, c) == [r \in Rows |-> matrix[r][c]]
DFT(v) == [r \in Rows |-> evaluate(v, power(rootOfUnity(size), r))]
padded(v) == [r \in Rows |-> IF r < size \div call.extension THEN v[r] ELSE 0]

\* Whatever the phases, the blocks and the order of the batches, the columns of
\* dst are the transforms of those of src, or the inverse ones; in place too.
Transforms ==
  Done /\ size > 1 =>
    \A c \in 0..(call.ncols - 1) :
      IF call.inverse THEN DFT(column(dst, c)) = column(src, c)
      ELSE column(dst, c) = DFT(padded(column(src, c)))

\* "should never need this copy..." (ntt_bn128.cpp:146): an object that transforms
\* the domain it was made for ends in dst_.  One made for a larger domain makes
\* another number of passes than nphase, and may not.
OwnDomainEndsInDst == call.maxPow = domainPow => pc # "copyNeeded"
=============================================================================
