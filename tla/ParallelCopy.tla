---------------------------- MODULE ParallelCopy ----------------------------
(***************************************************************************)
(* ThreadUtils::parcpy and parset: the loop every big buffer of the prover *)
(* is copied or cleared with, one after another.  Each of nThreads         *)
(* iterations, run in parallel, has a share of the bytes; the last one has *)
(* the residual bytes too.  ShPlonkProver::fastEvaluate shares its         *)
(* coefficients in the same way.                                           *)
(***************************************************************************)
EXTENDS Integers

VARIABLES nBytes, nThreads,
          at,       \* how many bytes of its share each iteration has copied
          written   \* <<i, b>>: iteration i has written byte b of dst

copyVars == <<nBytes, nThreads, at, written>>

Iterations == 0..(nThreads - 1)

bytesThread == nBytes \div nThreads
residualBytes == nBytes - bytesThread * nThreads

\* The bytes of iteration i.  (Faulty variant: the residual bytes are
\* forgotten.)
sizeWithoutResidual(i) == bytesThread
sizeOf(i) == IF i = nThreads - 1 THEN bytesThread + residualBytes ELSE bytesThread
offsetOf(i) == i * bytesThread

\* A call for a number of bytes; callers ask for omp_get_max_threads() / 2
\* threads, which may be none.
StartCopy(bytes, asked) ==
  /\ nBytes' = bytes
  /\ nThreads' = IF asked < 1 THEN 1 ELSE asked
  /\ at' = [i \in 0..(nThreads' - 1) |-> 0]
  /\ written' = {}

\* memcpy and memset work through their share byte by byte.
CopyByte(i) ==
  /\ at[i] < sizeOf(i)
  /\ at' = [at EXCEPT ![i] = @ + 1]
  /\ written' = written \cup {<<i, offsetOf(i) + at[i]>>}
  /\ UNCHANGED <<nBytes, nThreads>>

\* The loop ends when every iteration has.
Copied == \A i \in Iterations : at[i] = sizeOf(i)

CopyInit == nBytes = 0 /\ nThreads = 1 /\ at = [i \in 0..0 |-> 0] /\ written = {}
CopyNext == \/ \E i \in Iterations : CopyByte(i)
            \/ Copied /\ \E bytes, asked \in Nat : StartCopy(bytes, asked)
CopySpec == CopyInit /\ [][CopyNext]_copyVars

-----------------------------------------------------------------------------
\* Two iterations never write the same byte, none writes behind the buffer, and
\* the loop leaves no byte out, whatever the size and the number of threads:
\* parcpy is memcpy, and parset memset.
CopiesEachByteOnce ==
  /\ \A v, w \in written : v[2] = w[2] => v = w
  /\ \A w \in written : w[2] \in 0..(nBytes - 1)
  /\ Copied => \A b \in 0..(nBytes - 1) : \E i \in Iterations : <<i, b>> \in written

\* The inductive invariant: an iteration has written what it has passed of its
\* share, in the buffer.
CopyInv == /\ nBytes \in Nat /\ nThreads \in Nat \ {0}
           /\ at \in [Iterations -> Nat]
           /\ \A i \in Iterations : at[i] <= sizeOf(i)
           /\ written = {w \in Iterations \X (0..(nBytes - 1)) :
                           offsetOf(w[1]) <= w[2] /\ w[2] < offsetOf(w[1]) + at[w[1]]}
=============================================================================
