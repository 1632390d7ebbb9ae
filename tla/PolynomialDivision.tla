------------------------- MODULE PolynomialDivision -------------------------
(***************************************************************************)
(* The parallel divisions of Polynomial: divZh, by X^N - 1, which makes Q, *)
(* and divByZerofier, by X^n - beta, which makes W.  The coefficients, the *)
(* n first are multiplied by -1/beta; then each becomes the difference of  *)
(* the one n places below and itself, over beta.  The threads of a round   *)
(* share the places of a chunk of n.                                       *)
(***************************************************************************)
EXTENDS Integers

CONSTANTS
  P,          \* the coefficients are integers modulo the prime P
  Divisions,  \* the functions called: "divZh", "divByZerofier"
  Lengths,    \* how many coefficients a polynomial may have
  Divisors,   \* the n of X^n - beta
  MaxThreads  \* what omp_get_max_threads() may return

\* The powers of two that a number of threads is rounded down to.
PowersOfTwo == {1, 2, 4, 8, 16, 32, 64, 128, 256}

ASSUME DivisionAssumption ==
  /\ P \in Nat \ {0, 1} /\ Lengths \cup Divisors \subseteq Nat \ {0}
  /\ MaxThreads \subseteq 1..511
\* What makes the integers modulo P a field: P is prime.
ASSUME FieldAssumption ==
  \A a \in 1..(P - 1) : \E b \in 0..(P - 1) : (a * b) % P = 1

Fr == 0..(P - 1)
mul(a, b) == (a * b) % P
sub(a, b) == (a - b) % P
inv(a) == CHOOSE b \in Fr : mul(a, b) = 1

VARIABLES
  call,      \* the function, its n and beta, the length, and the threads of OpenMP
  original,  \* the coefficients it is called with
  coef,      \* Polynomial::coef
  degree,    \* Polynomial::degree when the function is called
  pc,
  round,     \* divZh: chunk i; divByZerofier: l
  at         \* the last element each thread of this round has computed

vars == <<call, original, coef, degree, pc, round, at>>

n == call.n
Zh == call.function = "divZh"
IsDegree(d) == /\ \A x \in DOMAIN original : x > d => original[x] = 0
               /\ d = 0 \/ original[d] # 0

-----------------------------------------------------------------------------
\* How the places are shared among the threads.
powerOfTwo(m) == CHOOSE t \in PowersOfTwo : t <= m /\ m < 2 * t
least(a, b) == IF a <= b THEN a ELSE b
nThreads == IF ~Zh THEN least(n, powerOfTwo(call.maxThreads))
            ELSE IF n < powerOfTwo(call.maxThreads) THEN 1
            ELSE powerOfTwo(call.maxThreads)
nElementsThread == n \div nThreads
nChunks == IF Zh THEN call.length \div n ELSE (degree + n) \div n
Rounds == IF Zh THEN nChunks - 1
          ELSE (n + nThreads * nElementsThread - 1) \div (nThreads * nElementsThread)
\* (Faulty variant: the last thread is one too many.)
ThreadsAndOneMore(r) == IF Zh THEN 0..nThreads
                        ELSE (r * nThreads)..least((r + 1) * nThreads, n)
ThreadsOf(r) == IF Zh THEN 0..(nThreads - 1)
                ELSE (r * nThreads)..(least((r + 1) * nThreads, n) - 1)

\* The elements of a thread in their order: element e is read at idx0(r, k, e), with
\* the one n above it, idx1, which is written.  divByZerofier breaks off a chunk at
\* the degree.
Elements == IF Zh THEN 1..nElementsThread ELSE 1..(nElementsThread * (nChunks - 1))
idx0(r, k, e) ==
  IF Zh THEN k * nElementsThread + (e - 1) + r * n
  ELSE k * nElementsThread + ((e - 1) % nElementsThread) + ((e - 1) \div nElementsThread) * n
idx1(r, k, e) == idx0(r, k, e) + n
Work(r, k) == {e \in Elements : Zh \/ idx1(r, k, e) <= degree}
Writes(r, k) == {idx1(r, k, e) : e \in Work(r, k)}
Reads(r, k) == {idx0(r, k, e) : e \in Work(r, k)} \cup Writes(r, k)

\* Where an element that is not zero shows that there is a remainder.  divZh
\* compares the number of the chunk to that of a place, in unsigned arithmetic.
\* (Faulty variant: the last place is not checked.)
IsCheckedButTheLast(x) == ~Zh /\ x > degree - n /\ x < degree
IsChecked(x) ==
  IF Zh THEN LET first == n * (call.extension - 1) - call.extension
             IN  first >= 0 /\ round > first
  ELSE x > degree - n

-----------------------------------------------------------------------------
Init ==
  /\ call \in [function : Divisions, n : Divisors, beta : Fr \ {0}, length : Lengths,
               maxThreads : MaxThreads, extension : UNION {1..l : l \in Lengths}]
  /\ call.length >= n
  /\ Zh => /\ call.beta = 1
           /\ call.length % n = 0   \* the domains are powers of two
           /\ n % nThreads = 0      \* an assertion
           /\ call.extension \in {1, call.length \div n}   \* in the test, and in stage 4
  /\ ~Zh => call.extension = 1
  /\ original \in [0..(call.length - 1) -> Fr]
  /\ coef = original
  /\ degree \in 0..(call.length - 1) /\ IsDegree(degree)
  /\ pc = "scale" /\ round = 0 /\ at = <<>>

Start(r) == [k \in ThreadsOf(r) |-> 0]

\* The first n coefficients become their products with -1/beta.
Scale ==
  /\ pc = "scale"
  /\ coef' = [x \in DOMAIN coef |-> IF x < n THEN mul(-inv(call.beta), coef[x]) ELSE coef[x]]
  /\ pc' = IF Rounds = 0 THEN "done" ELSE "divide"
  /\ at' = Start(0)
  /\ UNCHANGED <<call, original, degree, round>>

\* Thread k computes its next element; the exception ends the process.
Divide(k) ==
  /\ pc = "divide"
  /\ \E e \in Work(round, k) :
       /\ e > at[k] /\ \A d \in Work(round, k) : d > at[k] => e <= d
       /\ LET x0 == idx0(round, k, e)
              x1 == idx1(round, k, e)
              element == mul(inv(call.beta), sub(coef[x0], coef[x1]))
          IN  /\ coef' = [coef EXCEPT ![x1] = element]
              /\ pc' = IF IsChecked(x1) /\ element # 0 THEN "thrown" ELSE "divide"
       /\ at' = [at EXCEPT ![k] = e]
  /\ UNCHANGED <<call, original, degree, round>>

HasEnded(k) == \A e \in Work(round, k) : e <= at[k]
\* All the threads of a round end before those of the next one start.  (Faulty
\* variant: of divZh, one does not wait for the others.)
NextRoundNoWait ==
  /\ pc = "divide"
  /\ \E k \in ThreadsOf(round) : HasEnded(k)
  /\ round' = round + 1
  /\ pc' = IF round' = Rounds THEN "done" ELSE "divide"
  /\ at' = Start(round')
  /\ UNCHANGED <<call, original, coef, degree>>
NextRound ==
  /\ pc = "divide"
  /\ \A k \in ThreadsOf(round) : HasEnded(k)
  /\ round' = round + 1
  /\ pc' = IF round' = Rounds THEN "done" ELSE "divide"
  /\ at' = Start(round')
  /\ UNCHANGED <<call, original, coef, degree>>

Ended == pc \in {"done", "thrown"} /\ UNCHANGED vars

Next == Scale \/ (\E k \in DOMAIN at : Divide(k)) \/ NextRound \/ Ended
Spec == Init /\ [][Next]_vars

-----------------------------------------------------------------------------
at0(c, x) == IF x \in DOMAIN c THEN c[x] ELSE 0

\* The product of q and X^n - beta is the polynomial of the call.
IsQuotient(q) == \A x \in 0..(call.length - 1 + n) :
                   sub(at0(q, x - n), mul(call.beta, at0(q, x))) = at0(original, x)
Divisible == \E q \in [0..(degree - n) -> Fr] : IsQuotient(q)

\* The condition under which every round shares the n places of a chunk, and
\* no others: divZh asserts it, divByZerofier rounds up.
SharesThePlaces == n % nThreads = 0 \/ nElementsThread = 1

\* In no round does a thread write a coefficient that another reads or writes,
\* and no coefficient is written twice.
ThreadsAreDisjoint ==
  SharesThePlaces =>
    \A r, q \in 0..(Rounds - 1) : \A k \in ThreadsOf(r), l \in ThreadsOf(q) :
      /\ r = q /\ k # l => Writes(r, k) \cap Reads(q, l) = {}
      /\ <<r, k>> # <<q, l>> => Writes(r, k) \cap Writes(q, l) = {}

\* Whatever the order of the threads, a polynomial that is divisible is divided.
Divides == pc = "thrown" \/ (pc = "done" /\ ~IsQuotient(coef)) => ~Divisible
DividesInShares == SharesThePlaces => Divides

\* divByZerofier does not return the quotient of a polynomial that is not
\* divisible, if its degree is that of two chunks at least.
RemainderIsReported ==
  ~Zh /\ SharesThePlaces /\ degree >= 2 * n - 1 /\ pc = "done" => Divisible
=============================================================================
