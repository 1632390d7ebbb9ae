# The PIL-FFLONK prover in TLA+

This directory holds a TLA+ model of the C++ PIL-FFLONK prover of this repository: modules,
TLC configurations that check them on small instances, and TLAPS proofs of the results that
matter most for every value of the constants. `PROJECT.json` lists the same things for tools:
the components, the runs, which source lines each definition stands for, and the hazards that
the properties are there for.

- [The system](#the-system): its components, their state and operations, how they interact,
  what is hard about each, and what makes it correct
- [The modules](#the-modules) and how they correspond to the code
- [What is checked](#what-is-checked): runs, properties, bounds, fairness
- [What is proved](#what-is-proved)
- [Where the code does not do what it says](#where-the-code-does-not-do-what-it-says)
- [What is not modelled](#what-is-not-modelled), and [what could come next](#what-could-come-next)

To check a module: `tlc -config MCProver.cfg MCProver`; to prove one:
`tlapm PilFflonkProverProofs.tla`.

## The system

`pfProver` (src/main.cpp) makes one proof: it builds a `PilFflonkProver`, which loads a zkey and a
fflonkinfo, and calls one of the three `prove` functions. The class is a library class too
(`setConstantData` is there for a server that keeps one prover for many proofs), so what one
proof leaves in the object matters. `pfSetup` (src/main_setup.cpp) writes the zkey.

```
 zkin.json, verifier.dat, .exec              .commit
          |                                     |
   CircomPilFflonk::getCommittedPols        copyFile
     Circom_CalcWit -> threads of               |
     StarkVerifier, execFile                    |
          \-------------> cm1_n <---------------/
                            |
  PilFflonkProver::prove  stage0 1 2 3 4  <---- zkey, fflonkinfo, PTau
     |  transcript          |        \
     |                NTT_AltBn128   generated steps, calculateH1H2, calculateZ
     |                      |        Polynomial::divZh
     v                      v
  ShPlonkProver::commit  ->  open (R, W, Wp, batched inverse)  ->  proof.json
     |  a transcript of its own
     Polynomial::divByZerofier, fastEvaluate, ThreadUtils::parcpy
```

### Components

**Prover** (src/pilfflonk_prover.cpp). State: the zkey, the fflonkinfo, three buffers with named
sections (`ptrConstant`, `ptrCommitted`, `ptrShPlonk`), `challenges[0..4]`,
a transcript, `nonCommittedPols`, and the `ShPlonkProver`. Operations: `setConstantData`, three
`prove` variants that load a witness, and `prove()`, which runs stages 0 to 4, draws the seed of
xi, opens, and builds the JSON. Hard: stages 2 and 3 return early for circuits that lack their
polynomials, and everything is found by name in maps that no proof clears, so that a value used
too early, or never computed, is silently that of the previous proof. Correct when each challenge
depends on everything the prover has said before it in this proof, when no expression reads a
challenge that was not drawn, and when the JSON holds what the challenges were hashed from.

**Transcript** (src/pilfflonk_transcript.cpp). State: what was absorbed since the last `reset`.
Operations: `addScalar`, `addPolCommitment`, `reset`, `getChallenge` (a Keccak hash reduced to the
field). The prover and the ShPlonkProver have one each, and both reset it between challenges, so
that the link to the past is only the previous challenge that is absorbed again.

**ShPlonkProver** (src/shplonk.cpp). State: maps from names to polynomials, commitments,
evaluations and roots; the challenges xiSeed, alpha, y; the elements to invert. Operations:
`commit(stage)`, `open`, and their parts: opening points, roots, evaluations, R, W, ZTS2, L, Wp,
batched inverse, `toJson`. Hard: maps and vectors that outlive a proof; the degree bookkeeping of
polynomials interleaved into one f. Correct when the opening satisfies the verifier's equation.

**Lookups and grand products** (`calculateH1H2`, `calculateZ`, `batchInverse` in
src/pilfflonk_prover.cpp and the generated src/chelpers/*.cpp). State: rows of `tmpExp_n`, `cm2_n`
and `cm3_n`. Hard: the rows run in parallel and write into each other's cells; the order of a
multimap decides h1 and h2; the one check there is is compiled out. Correct when h1 and h2 are f
and t sorted along t, and the grand product returns to 1.

**Circom witness** (src/witness/). `loadJsonImpl` and `Circom_CalcWit` set the input signals, found
by hash in a table of the circuit file; the call that sets the last input runs the circuit.
`StarkVerifier_75_run` in the generated verifier.cpp sets the inputs of its subcomponents and
starts a thread for each parallel one (13 templates, 72 places), bounded with a counter
`numThread`, a mutex and a condition variable; it joins them at the end and releases their memory.
Hard: a thread is counted after it is started and may end before; the notification is sent after
the unlock; the probing of the table; inputs given twice or not at all. Correct when the counter
counts, nobody sleeps for ever, memory outlives its users, and a witness is only made from an
object that gives every input its values. `computeWitnessAndCmPols` then maps the signals to the
cells of `cm1_n` with an exec file, leaving alone the cells that no signal is mapped to.

**Polynomial** (src/polynomial/). A vector of coefficients and its degree. `divZh` and
`divByZerofier` divide in place with OpenMP threads; the rest is sequential or element-wise. Hard:
how places are shared among threads when their number does not divide, and unsigned arithmetic at
the ends. Correct when the threads of a round are disjoint, the result is the quotient, and a
remainder is reported.

**NTT** (src/ntt_bn128.cpp). Transform, inverse, low degree extension, for many columns at once, by
batches of passes that go back and forth between two buffers. Hard: which buffer holds the result,
in-place calls, column counts that the blocks do not divide. Correct when it is the discrete
Fourier transform.

**Parallel copy** (src/thread_utils.hpp). `parcpy` and `parset`: the loop that copies or clears every
big buffer. Hard: the residual bytes, and callers that ask for 0 threads.

**Zkey and setup** (src/zkey_pilfflonk.cpp, src/pilfflonk_setup.cpp). The binary file of the key,
written once by the setup and read by every prover. Hard: widths of offsets, and who owns the
memory that X2 points to; a writer, a reader and a layout that each compute the lengths of the sections
in their own way. Correct when the prover holds the setup's key, and keeps it.

**fflonkinfo, fflonk_shkey** (src/fflonk_info.cpp, src/fflonk_shkey.cpp): parsers of JSON.
**Logger, timers, utilities** (src/logger.cpp, src/zklog.cpp, src/timer.cpp, src/utils.cpp,
src/exit_process.cpp): output and files. **CPolynomial, Evaluations** (src/polynomial/): templates
that nothing uses. **External**: the finite field and curve arithmetic, multi-exponentiation,
Keccak and binary files of the ffiasm submodule, and OpenMP.

### Where it is hard

- *Order*: the Fiat-Shamir chain is only as good as the order of a dozen map lookups, over
  circuits that skip stages, and across proofs of one object.
- *Threads*: the generated witness code has its own thread pool; every loop over rows, bytes or
  coefficients is an OpenMP loop whose iterations must not meet.
- *Left-overs*: nothing is cleared between proofs but the transcript.
- *Ends*: unsigned arithmetic, shares that do not divide, the last slot of a table.
- *Failure*: an exception ends the process (`prove` catches it only to exit), an exception in an
  OpenMP region or an assertion aborts it. Nothing is persisted before the proof is complete, so
  there is no recovery to model; there are no messages, timeouts or retries.

## The modules

| module | models | state and actions |
|---|---|---|
| `FiatShamir` | what a non-interactive proof promises | `said`, `drawn`; `Start`, `Say`, `Draw` |
| `PilFflonkProver` | `prove()`, stage0..stage4, the transcript, `commit`, `open`, `toJson` | one variable per member that carries meaning; one action per stage part, named for the function |
| `ForkJoin` | what a component with parallel subcomponents promises | `Start`, `Finish`, `Join`, `Abort` |
| `CircomParallel` | the threads of verifier.cpp | one action per statement on shared state: start, lock, check, count, wait, join; read, write, notify, release |
| `CalcWit` | `loadJsonImpl`, `Circom_CalcWit` | the table, the object's keys and values, the inputs; one action per value set |
| `PolynomialDivision` | `divZh`, `divByZerofier` | coefficients, the round, what each thread has done; one action per element |
| `Lookup` | `calculateH1H2`, step3prev's rows, `calculateZ` | the columns; one action per write or read of a row |
| `BlindedQuotient` | `extend`, stage 4 | the columns, their coefficients, the extended rows, `q_2ns`; interpolate, blind a column, extend, constraints, divide |
| `PilFflonkZkey` | `PilFflonkSetup::generateZkey`, the writer and the reader of the zkey | the setup's key, the file as sections of items, what is loaded; one action per section or stage |
| `SectionLayout` | the two loops over a buffer's map in `setConstantData` | `lengths`, the sum, the places; one action per entry |
| `ParallelCopy` | `parcpy`, `parset` | which iteration wrote which byte; one action per byte |
| `ProverMemory` | `setConstantData`, the ways into `prove`, the accesses of stages 0 to 4 and `open` | the buffers, cell by cell; one action per stage. It composes the three before |
| `NTT` | `NTT`, `INTT`, `NTT_iters`, `reversePermutation` | the matrices, the two buffers, the pass; one action per batch |
| `ShPlonkOpening` | the algebra of `commit` and `open` | the maps of ShPlonkProver; one action per function of `open` |
| `PrimeField`, `Polynomials` | the field modulo a small prime; class `Polynomial` | operators |
| `MC...`, `...Proofs` | the instances that TLC checks; the theorems about a module and their proofs | |

`PilFflonkProver` is what the others serve: it takes their results as values with a *stamp*, the
number of the call of `prove()` that computed them. `PilFflonkProver` is checked and proved to
implement `FiatShamir`, `CircomParallel` to implement `ForkJoin`. `ProverMemory` runs setup, zkey file,
layout, copies and proofs one after the other, as one program of two processes that meet in the file.

**PilFflonkProver.** Field elements and points are abstracted to their provenance (which value,
which proof); a hash is its input. `transcript.items` is what was absorbed since the last reset and
`transcript.binds` is what that depends on through absorbed challenges. A set stands for the
sequence, because no order of absorption inside one challenge depends on anything. The circuit is a
record of what the control flow asks (`ConfType`): has it constants, committed polynomials,
lookups, permutations, connections, intermediate polynomials, a split quotient. A multi-statement
stage is split where it reads or writes a map that another step writes. `Exit` stands for every
exception, at each step that may throw. The model follows `publics_first` in its exchanged
arguments: an `imP` public is written at the index of its polynomial.

**CircomParallel.** `numThread--` is two actions, a read and a write, so that the mutex has work to
do; `wait` with its predicate is a loop that checks, releases and sleeps, and may wake spuriously.
`StarkVerifier_75_run` sets inputs in any order. The computation of a subcomponent is one action,
and a failed constraint aborts the process.

**CalcWit.** The hash is any function into a small set; the table is any that inserting the signals
with linear probing builds, in whatever order: each signal in one slot, and no free one from its own to that. What lies behind its end is read as a free slot or as rubbish.

**PolynomialDivision.** Integers modulo a small prime stand for the field. The number of threads is
the power of two that the code computes from `omp_get_max_threads()`; comparisons in `uint64_t` that
would wrap are written as what they then decide. `extension` is 1 or what the length is of n, as in the
repository's calls.

**Lookup.** Integers modulo a small prime. The multimaps are described by where they put a value:
`place(i)` is how many come before the value of row i of t, those of t and those of f looked up there; equal values
have no order among them that could be told apart. Each row of step3prev has three steps: the first value it
writes into its own cell, the value it writes into the next row's, and the products it computes from
them; rows run in any order.

**ParallelCopy.** `memcpy` and `memset` of a share are a byte at a time.

**BlindedQuotient.** The transforms are what `NTT` shows them to be. The random elements are chosen
from a set, the buffers start with left-overs, and the constraints are the five of the shipped circuit's
Fibonacci sequence, put together with powers of a.

**PilFflonkZkey.** The file is a function from sections to sequences of items, written and read in the
order of the code, with a number cut to the width it is written in. Constants are symbols, so that a
value read where another was written shows. The keys are those of small circuits.

**ProverMemory.** A cell holds who computed it for which proof, or a symbol of the setup. A stage is
the sequence of its accesses, a section and a set of places in it each, in the order of the code; a read
notes what it should have found. An access outside its section goes where it would go in memory.
Intermediate buffers on the heap (`Polynomial`'s own, the deque of h1 and h2) and `imP` publics are
left out.

**NTT.** A call is a record (the object's domain, the size, phases, blocks, columns, inverse, in place,
extension). A batch is one action: it transforms its own rows in the one buffer and scatters them
over the other, and batches run in any order. The two assertions of the code are states where the
transform stops.

**ShPlonkOpening.** `PilFflonkProver` has the order of the steps and what the challenges depend on;
here one proof is computed in a small field, with the challenges chosen from a set. A buffer of
coefficients is a matrix of rows and columns; a commitment is the polynomial it commits to, cut
to the lengths that the multi-exponentiation is given. The verifier is not in the repository: its
equation is a property. `Polynomials` has what the operations of `Polynomial` compute; how
`divByZerofier` shares its work is in `PolynomialDivision`, and the shares of `fastEvaluate`, which
only read, are in its definition.

In several modules a definition stands next to a *faulty variant*: the same definition with a
plausible mistake in it. No run uses one; `PROJECT.json` lists, for each property, the variant that
breaks it.

## What is checked

| run | question | instance and why it is enough |
|---|---|---|
| `prover` | do challenges bind this proof's values, and nothing else, whatever stages the circuit has? | seven f's, two of stages 1 and 3; both types of public; all 128 circuits; three proofs: the third starts from what two different calls have left |
| `prover_inv` | is the batched inverse of this proof? (no) | two proofs |
| `circom` | is any count or wakeup lost, are threads bounded, does the component end? | three subcomponents with two inputs, `maxThread` 1: one thread runs, one has started and is not counted, one waits to be started |
| `calcwit` | is a witness made only of a complete object? | three keys, one to three signals of one or two values, four slots, hashes of which two collide in the last slot and three in the one before it |
| `calcwit_lookup` | is a signal of the circuit always found? (no) | the same |
| `division` | are the threads disjoint, is the result the quotient, is a remainder reported? | six coefficients modulo 3, n from 1 to 4, 1, 2 or 4 threads: shares of one place, of several, and rounds that are not full |
| `division_threads` | the same, without the conditions (no) | the smallest call that shows it |
| `lookup` | are h1, h2 sorted along t, and does the grand product close? | three rows, tables and columns with repeated values, four pairs of challenges modulo 7 |
| `opening` | does the verifier's equation hold, is no honest proof refused, does no division leave its buffer? | four rows modulo 73; two keys, one as the shipped one and one with two and three opening points and two f's of one shape; one and three threads; inputs that span all coefficients (the equation is linear in them), twelve triples of challenges, alpha also 0 |
| `ntt` | is the result the discrete Fourier transform? | up to eight rows modulo 17, objects of up to sixteen, 0 to 4 phases, one or three columns in one or two blocks; sixteen rows with three phases in place; unit vectors (the transform is linear) |
| `quotient` | do blinded columns agree with the witness and hide it, and is the quotient that of the constraints? | four rows modulo 97, extended to 32; columns with one and with two opening points; two sequences and a wrong one; two blindings, left-overs, two challenges; every xi and y among the challenges that is no root of unity |
| `memory` | is every byte copied, does a section overlap another, is the loaded key the setup's, does a stage leave its section or use a left-over? | three circuits of two rows: all arguments; permutation and connection without constants; four polynomials in one f, whose powers of tau have more bytes than 32 bits (here 64 stand for 2^32) count; a shorter powers-of-tau file and one without X2; 1, 4 and 6 threads, halved as in the code (0, 2, 3 iterations); enough and too little reserved memory; exec files that map all cells, some, or another domain; two proofs |

**Prover.** `ChallengesBindTheProof`: a challenge drawn in this proof depends on exactly what the
prover said before its round, as it stands now; so nothing is omitted, nothing is added, and
nothing is recomputed later. `OnlyThisProofIsHashed`: none of it is a left-over.
`ChallengesAreDistinct`: no two challenges hash the same input. `ExpressionsUseFreshChallenges`: the
challenges that the expressions of a stage read are drawn, although a circuit may skip the stage
that draws them. `ReturnedProofIsBound`: the JSON holds what the last challenge binds, and Wp.
`FiatShamirSpec`: the refinement.

**Circom.** `NumThreadCounts` (numThread is -1 when a thread ends before it is counted; it is an
`int`), `BoundedThreads` (`maxThread + 1`, not `maxThread`), `WaitingHasAWaker`,
`ReleasedAfterTheThreads`, `ForkJoinSpec`, and `Ends`, the liveness of ForkJoin.

**CalcWit.** `RunsOnAllItsInputs`: the circuit runs in the call that sets the last of its inputs, once.
`InputsStayAsTheyRan` (an action property): no later call changes a value. `WitnessOfTheObject`: a witness is
made only of a circuit that ran, each of whose signals has its values from one key of the object.
`GoodObjectIsLoaded` (under the condition that no signal is pushed out of the table's last slot). `LoadInv` is
the invariant of the proofs.

**Division.** `ThreadsAreDisjoint`, `DividesInShares`, `RemainderIsReported`, each under the condition
the code needs: the threads divide n or have one place each, and the degree is that of two chunks.

**Lookup.** `SortedAlongTheTable`, `GrandProductCloses` (no denominator is zero).
**Quotient.** `ExtendsTheWitness`: on each row of the domain the extended columns are the witness, whatever
the random elements and the buffers' earlier contents. `HidesTheWitness`: for what a proof shows of a
column, its values at the opening points and at one more (which enters the evaluation at y), every other
witness has random elements with which its column shows the same, and keeps its own values in the domain. The
property computes these elements; the opening points must be different places outside of the domain. `QuotientOfTheConstraints`: for a witness of the circuit the prover does not refuse, and
the verifier's equation holds in every point of the field. The converse is not claimed: with these
four rows the bound of the degree check is above the dividend's degree, and a wrong witness is not refused.
**Memory.** `CopiesEachByteOnce` and `SectionsAreDisjoint` of the parts. `LoadedKeyIsTheSetups`: from its
loading to the end of the last proof the prover holds what the setup computed, and the coefficients of
stage 0 that are not stored are zero; the powers of tau only if their bytes fit in 32 bits
(src/pilfflonk_prover.cpp:205). `AccessesStayInside`: no stage leaves the section it works in, but for the
zeros of `computeW` that go on into Wp. `ReadsAreOfThisProof`: whatever a stage reads this proof wrote, in
each of the operations that share the scratch. `OnlyUnmappedCellsAreStale`: of the witness, only cells that
the exec file maps no signal to are left from an earlier proof (src/witness/main.pilfflonk.cpp:372).
**Opening.** `VerifierAccepts`: in every point, what a verifier computes from the commitments, the
evaluations and the challenges is (X - y) Wp; so the interleaving, the ids and lengths of polynomials, the
roots, the powers of alpha, the divisions and the threads of the evaluations agree.
`NeverRefusesItself`: none of the degree and divisibility checks stops an honest proof whose f's have
different roots (`RootsDiffer`). `DivisionsStayInside`: no division runs out of its buffer, with polynomials of the
degrees of the shipped key; with shorter ones it would. `InvertsTheDenominators`: "inv" is the inverse of the
Lagrange denominators by their definition. The others suppose that no divisor is zero
(`Generic`), which random challenges make all but certain.
**NTT.** `Transforms`: forth and back, in place, in blocks, extended. `OwnDomainEndsInDst`: the copy
that is asserted never to be needed is not, for an object of the call's own domain, as all of
the prover's and the setup's are; an object of a larger domain can run into the assertion.

**Fairness.** Only `circom` needs it. Weak fairness of the component's thread and of each
subcomponent's thread: the operating system runs what can run. Strong fairness of a subcomponent's
lock: a component that wakes up spuriously again and again takes the mutex each time, and a thread
that asks for it must be granted it in the end. Nothing forces a spurious wakeup or a failed
constraint. The code has no other loop that waits; the other modules are checked for safety, and
for deadlock (deadlock checking is on, a stuttering action stands for the end; but for `memory`, whose
program really ends).

**Bounds.** `MaxProofs` caps the calls of `prove()`; the rest are the sizes in the table above. Two proofs
are enough for left-overs: `prover` has a third, which starts from what two different calls left. `U32` is
the 2^32 of an `u_int32_t`, `sizeofFr` the bytes of an element: with 64 and 2 one circuit's powers of tau
exceed the width and the others' do not.

In `division` the threads are a power of two from 1 to 256 (`PowersOfTwo`): `MaxThreads`, of which the code
takes the largest power of two below, is at most 511.

Types: `TypeOK` is an invariant of its own in `prover` and `opening`, and part of the inductive invariant in
`circom` and `calcwit`. The other modules' columns are read by their properties entry by entry.

## What is proved

All proofs are checked by TLAPS from the named assumptions alone.

**`PilFflonkProverProofs`** for any names, stages and publics that satisfy `ConstantsAssumption`
(types, and that an `imP` public is public 0 of polynomial 0, as in the shipped fflonkinfo), any set
of circuits and any number of proofs: `TypeCorrect`, `Invariant`, `Binding`
(`ChallengesBindTheProof`), `Hashed` (`OnlyThisProofIsHashed`), `Returned` (`ReturnedProofIsBound`),
`FreshChallenges` (`ExpressionsUseFreshChallenges`), `Distinct` (`ChallengesAreDistinct`) and
`Refinement` (`FiatShamirSpec`): every property that the run checks.
The properties are not inductive: that a challenge binds what was said is kept only because
nothing said is recomputed, which follows from where `prove()` is. `IInv` adds `StampsInv` (no stamp
is from the future, and f's that the circuit lacks have none), `ProgressInv` (which values of this
proof exist at each label, by the rank of the label), `DrawnInv` (which challenges are drawn) and
`TranscriptInv` (what the transcript depends on). One lemma per conjunct goes through the actions;
`BeforeSteps`, `BeforeFrame`, `BeforeIsFresh` and `BeforeGrows` say how the set of what precedes
round r evolves, and carry `BindsStep` and `HashedStep`. The refinement shows each action to be a
`Start`, a `Say`, a `Draw` or a stutter. `Distinct` has an invariant of its own, `ChainInv`: a transcript
that is hashed holds the challenge before it in the chain, `Link`, and no other; the links of two drawn
challenges differ because a circuit that draws alpha draws gamma and delta too.

**`CircomProofs`**, first part, for any number of subcomponents, inputs and `maxThread` at least 1
(`ThreadsAssumption`): `TypeCorrect`, `Invariant`, `Counted` (`NumThreadCounts`), `Bounded`
(`BoundedThreads`), `Woken` (`WaitingHasAWaker`), `Released` (`ReleasedAfterTheThreads`), and
`Refinement` (`ForkJoinSpec`). `IInv` adds
`MutexInv` (who holds the mutex, and that the value a thread has read is still numThread's) and
`StartInv` (a thread is started exactly when its inputs are set; the joins are behind the ended
threads). That a waiting component has a waker follows from the count: it waits because
numThread is at least `maxThread`, so some other thread is alive.

**`BufferProofs`**, about the two parts of `ProverMemory` that run in its actions, and the transforms.
`CopyInvariant` and `Copies` (`CopiesEachByteOnce`) for any size and number of threads (`CopyAssumption`);
`LayoutInvariant` and `Disjoint` (`SectionsAreDisjoint`) for any number of sections of any lengths. The
lemmas of the copy are about the shares alone: they lie in the buffer, one behind the other, and cover
it. `LayoutInv` says what the two loops of `setConstantData` have in common: a section starts at the sum
of the lengths before it, which the first loop has added up.
Of `NTT`, for any size, number of phases, columns and blocks (`NTTAssumption`): `OwnDomain`
(`OwnDomainEndsInDst`). `LayersBefore` counts the layers that the passes before one have made; those of
all `nphase` passes are the object's, so the number of passes of a transform of the object's own domain has the parity from
which the first buffer was chosen.

**`CircomProofs`**, second part, for any keys, sizes, hashes and size of the table of `CalcWit`
(`CalcWitAssumption`: the object has finitely many keys): `LoadInvariant`, `Runs` (`RunsOnAllItsInputs`), `Stays` (`InputsStayAsTheyRan`) and
`Witness` (`WitnessOfTheObject`), `GoodObjects` (`GoodObjectIsLoaded`). The counter of the code counts what is left to set only because no
input is set twice: `LoadInv` says that the unset inputs of the circuit are as many as the counter (`LoadTypeOK`), that
the key being set has a signal of its size (`PlaceInv`), that
a signal has either no value, or all of one key, or is the one being set and has the values before
`i` (`SignalInv`), and that the circuit has run when none is left (`RunInv`). That the table has the signals
of the circuit is an assumption of none of the first four: a key that is not found, or found with another
size, stops the loading. `GoodObjects` adds `GoodObjectInv`: of an object with the circuit's signals, the keys
before the current one are set and the others are not, so that no assertion fails and nothing remains. It
rests on the search: a signal that linear probing put into the table is found, if the
last slot has pushed none to the table's start, which the code's probing would miss.

**`PolynomialDivisionProofs`** for any prime, coefficients, chunk and number of threads
(`DivisionAssumption`; `FieldAssumption`, that the integers modulo P have inverses): `Threading`
(`ThreadsAreDisjoint`), `Dividing`, `Division` (`DividesInShares`) and `Remainder` (`RemainderIsReported`).
If the threads divide n, there is one round, and a thread's places start where those of the one before
it end, in every chunk; if each has one place, a thread belongs to one round only, and its number is its
place. The written places of two threads are then different numbers, by the uniqueness of quotient and remainder.
`DivisionInv` builds on that: the places a thread has passed satisfy the equation of the
division, with the place n below them, which was passed before; the others hold the original. So a result that
nothing was thrown for is the quotient once the highest n coefficients are zero, which is what `divByZerofier`
checks in every chunk but the first. If there is a quotient, the computed coefficients are its own, by induction
from the lowest, and nothing is thrown. For `divZh` the proof has a case that does not arise: its check
(`IsChecked`) lets everything pass for both extensions it is called with, and its theorem says that the quotient is
computed, not that a remainder is seen.

**`PrimeFieldProofs`** are the lemmas about `PrimeField`, for any prime: the laws of addition and multiplication
modulo P, the inverse (from the primality alone: multiplication by a is injective on a finite set), cancellation,
and products and sums over finite index sets: they can be split, renamed by a bijection, and multiplied
term by term; powers, Fermat's theorem (`Fermat`, because multiplication permutes the elements), the number of roots
of a polynomial (`RootBound`); the generator `nqr` exists and is no square (`NqrPower`: X^h - 1 has at most h roots), so
`RootOfUnity` of order 2^n has that order (`RootOrder`), and a power of it is the root of a smaller one
(`RootTower`). The library's induction theorems take an operator, which the provers cannot instantiate: the
module states induction over sets of numbers instead (`Induction`, `Least`, `SetInduction`), proves it from the least
element of a finite set of numbers, and every use defines the set of numbers for which its claim holds.
`FoldIs` describes a fold by the function that CHOOSE picks in its definition.
On these laws rest the lemmas about `Polynomials`. Each says of an operation what the value of its result is in
every point: of a sum, a multiple and a product with X - v, of the quotients by X - v and by X^n - v, of which no
rest is reported when the polynomial is zero at v or at the n-th roots of v (`DivByXIs`, `ZerofierDivides`), of the interpolation of Lagrange (`Interpolates`: through every point, if the places differ), of the
product of the X - v of any places, and of polynomials whose coefficients are interleaved (`EvaluateInterleaved`).
So no proof about the opening or the blinding looks at a coefficient but to see that its degree is small.

**`LookupProofs`** for any prime, number of rows, values and challenges (`LookupAssumption`, `PrimeAssumption`), and
any order of the rows' threads: `Invariant` (`LookupInv`), `Sorting` (`SortedAlongTheTable`) and `GrandProduct`
(`GrandProductCloses`). `idx_t` sends each row of f to a row of t with its value. The sorted sequence is blocks, one
for each row of t: that row's value, and those of f that are looked up there. So there is a bijection p of the 2N slots
(`Order`): it sends slot 2i to a step inside a block, from the value of f's row i to itself, and slot 2i + 1 to
the step that leaves block i, from t's row i to the next. That is `Sorting`, by counting. The factors of the
numerators are then the factors of the denominators in another order, both products are equal
(`SameProducts`, a product renamed by p), and the accumulated ratio comes back to 1. `LookupInv` says what
each row has done, and that `tExp` is t whichever of the two rows that write it came first.

**`BlindedQuotientProofs`** for any prime, sizes, opening points, witnesses, random coefficients and left-overs
(`BlindedQuotientAssumption`: the field has the roots of unity, there is room for the random coefficients, and
constraints of degree three are within the key's degree, qDeg at least 2): `Invariant` (`IInv`), `Extends`
(`ExtendsTheWitness`), `Quotient` (`QuotientOfTheConstraints`) and `Hides` (`HidesTheWitness`). A polynomial's value is computed by one function
(`IsHorner`), so that an equation between values is an equation between coefficients: of a sum, a multiple, a shift,
and of the powers of an element, which is a geometric sum. Those of the powers of two different rows are orthogonal
(`Orthogonality`), which makes `INTT` the inverse of the evaluation at the powers of the root
(`InverseTransform`, by induction on the number of rows that may not be zero). A blinded
polynomial differs by a multiple of X^N - 1 (`EvaluateBlinded`). `ColumnsInv` says that the coefficients have the
witness's values in the domain from the interpolation on, whichever columns are blinded already, and that no blinding
makes them longer than N + maxPolsOpenings. From there the quotient follows in four steps. The values of the
constraints are those of one polynomial (`EquationIsPolynomial`: sums, products and dilations of polynomials are
polynomials, with so many coefficients), which is short enough that the extended domain determines it (`SameOnRoots`),
so that it is what the inverse transform of `q_2ns` gives. It is zero in the domain, in the first row, the
last and between (`EquationVanishes`). `divZh`, which looks for no rest, computes coefficients that satisfy the equation of the
division up to the N highest ones; those make a polynomial shorter than N + 1 that is zero in the N roots of unity,
so they are zero (`DividedWithoutRest`). And the quotient is N shorter than what was divided (`DividedDegree`),
so the prover's check of its degree passes. This is the completeness of the stages, not that a wrong witness is refused.

`Hides` interpolates: a column shows as many values as it has random coefficients, in places outside of the domain,
and there X^N - 1, by which the blinding is multiplied, is not zero. So for any other witness the differences, divided
by X^N - 1, are the values of one polynomial with that many coefficients, which are the random elements wanted.

**`ShPlonkOpeningProofs`** for any prime, key (any number of f's of any stages and shapes, `ShKeyAssumption`),
coefficients (`InputsAssumption`) and challenges: `Invariance` (`IInv`), `Types` (`TypeOK`), `Verified`
(`VerifierAccepts`), `NeverRefuses` (`NeverRefusesItself`) and `Inverts` (`InvertsTheDenominators`). `IInv` says,
for each step of `open` that is over, what it has put into the maps: the f's are the interleaved coefficients (`CommittedInv`), the roots and the evaluations are those of xiSeed (`RootsInv`,
`EvaluationsInv`), the R's interpolate the f's in the roots (`RInv`), W is in both maps (`WInv`), and Wp is the linearisation divided by X - y without a rest (`QuotientInv`), from which what is in the
maps at the end follows. The verifier knows the evaluations and not the f's. `RecoversR` shows that from them it
gets the prover's R: a root's nPols-th power is the opening point (`RootPower`), so the value of f in a root is the
sum of the evaluations times powers of the root (`CommittedAtRoot`), which are found by their names although these
are computed in another order (`EvaluationFound`). Its factors are quotients of products over all f's or all but one
(`FactorsOfAll`); the common divisor is cancelled. This is the completeness of the equation: when `open` ends, a verifier accepts.

That `open` refuses nothing has an invariant of its own, `HonestInv`, on top of `IInv`: a W that was accepted has at
most the largest degree of the f's, and the linearisation for any y is zero at y (`HonestW`). If the roots of an f
differ, they are all the nPols-th roots of its opening points, so the product of X - root is that of X^nPols - point
(`ZerofierOfRoots`); f - R is zero in each of them; a polynomial that is zero in the n-th roots of v is a multiple of
X^n - v, and its division finds no rest (`ZerofierDivides`); the quotient is zero in the roots of the other points, so that
one division after the other is whole (`DividesInTurn`, `DividesWhole`). The degrees follow: each quotient is as much shorter as
its f has roots, which is what the check of W's degree asks. At y the terms are the last quotients times the
zerofiers of all f's (`TermAtPlace`), so ZT(y) W cancels them, and the division by X - y finds no rest either.

`Inverts` is about the shortcut of `computeLi`: for an f of several polynomials the code does not multiply the
differences of a root s to all the others, but takes n s^(n - 1), the slope of X^n - v at s, times the difference
of the opening points' values. `RootFactors` shows that they agree without a derivative. Both (X^n - v) / (X - s) times
the other points' zerofiers (`QuotientOfPowers`) and the product of X - r over the other roots are monic of degree nK - 1;
away from s they agree, since times X - s both are the zerofier of all roots. So they agree in the nK - 1 other roots
and are the same polynomial (`SameMonic`), and its value at s is taken from either. `ComputeLiIs` adds
the code's powers of the n-th root, whose exponent is reduced modulo n, and `DenominatorsAre` the
shapes one by one. `InverseInv`, that "inv" is the inverse of what was multiplied, is inductive beside `IInv`; if the roots
of each f differ and y is none of them no factor is zero (`FactorsNotZero`), so the inverse is one.

*Only model-checked*: the liveness `Ends` (fairness is beyond the prover used); `Transforms` of `NTT`, which needs an
induction over the layers of butterflies in blocks of bit-reversed rows; `DivisionsStayInside`, which is not so for all inputs, since an L of degree 0 or 1, that of f's of such degrees or of
one that is zero, runs into the division that leaves its buffer; and of `ProverMemory` what its stages access and the loaded key, whose names are
made with `ToString` and whose maps are listed with `SetToSeq`, which the provers know nothing about.

## Where the code does not do what it says

Each is a run that TLC refutes; `PROJECT.json` quotes the sentence it disagrees with.

1. `prover_inv`: `evaluationCommitments["inv"]` of the second proof of a prover object is the
   inverse of the elements of both proofs (src/shplonk.cpp:472).
2. `division_threads`: `divByZerofier` runs past a chunk and divides coefficients twice when the
   number of threads does not divide n and a thread has two places or more
   (src/polynomial/polynomial.c.hpp:478).
3. `calcwit_lookup`: a signal that the last slot of the table pushed to its beginning is not found
   (src/witness/calcwit.pilfflonk.cpp:66). The shipped tables have no such signal.

More show in conditions that a property needs, or in a definition: `divByZerofier` does not report a remainder in its
first chunk (src/polynomial/polynomial.c.hpp:509, the degree in `RemainderIsReported`), and a
transform by an object made for a larger domain may end in the wrong buffer (src/ntt_bn128.cpp:142, the
domain in `OwnDomainEndsInDst`). `divZh` never reports a remainder (src/polynomial/polynomial.c.hpp:428
compares the number of a chunk with a number of coefficients, `IsChecked`); in a proof, the degree check of
stage 4 ("Q Polynomial is not well calculated") stops a remainder only when one of its coefficients lies above the
bound, and no remainder where the bound exceeds the dividend's degree, as in the `quotient` run. `computeChallengeXiSeed`
(src/shplonk.cpp:289) is called by nothing: `prove` draws xiSeed itself, and absorbs fewer commitments. The number of bytes of the powers of tau
is cut to 32 bits (`u32` in `StartPTau`). `parseShKey` requires fields (n8q, primeQ, n8r, primeR;
src/pilfflonk_setup.cpp:172-180) that the shipped shkey has not: the model takes the key as parsed.
The setup checks that the file holds one point of G2 and copies the second (src/pilfflonk_setup.cpp:82-87):
`LoadX2` does so.

## What is not modelled

- The arithmetic of the field and the curve, Keccak, multi-exponentiation and binary files: external.
- The values of verifier.cpp and of most generated steps: arithmetic without control. The part of the
  steps with an order, step3prev, is in `Lookup`; five constraints of step42ns are in `BlindedQuotient`;
  the columns that a step reads and writes are in `ProverMemory`. verifier.cpp is 201651 of the
  repository's 211045 lines: one template after the other assigns signals, sets the inputs of its
  subcomponents and starts their threads with the same few lines, which `CircomParallel` models once,
  at one of their places. So the modules stand for a small share of all lines, though for
  most of those in which something can be done in the wrong order.
- A split quotient: its random coefficients and their number (src/pilfflonk_prover.cpp:703 divides before it
  rounds). The shipped key has `maxQDegree` 0, which skips them; `MemoryAssumption` says so.
- The additions of the exec file and the values of the signals: `ProverMemory` has the cells that are mapped.
- The destructors (that of a loaded zkey deletes X2, which it does not own, src/zkey_pilfflonk.cpp:22), the memory that
  a proof allocates anew, and the uninitialised last byte of a random element (src/pilfflonk_prover.cpp:758).
- `readFCommitmentsSection` and the other readers that no program calls.
- The JSON parsers, logger, timers, file utilities, main: input and output without state of their
  own. The unused `CPolynomial`, `Evaluations`, `fflonk_shkey`.

The hazards of `PROJECT.json` that have a note and no property are in these parts.

## What could come next

The modules were written in this order: `FiatShamir` and `PilFflonkProver` with their proofs; `ForkJoin` and
`CircomParallel` with theirs; `CalcWit` and `PolynomialDivision`, with their proofs; `Lookup`; `ParallelCopy`;
`NTT`; `Polynomials` and `ShPlonkOpening`; `BlindedQuotient`; `SectionLayout`, `PilFflonkZkey` and `ProverMemory`; the
proofs of the lookup, the field, the memory, the quotient and the opening.

1. A theorem that the transforms compute what they should, for every size.
2. An abstract `Opening` that says only that the evaluations are those of the committed
   polynomials, which `ShPlonkOpening` implements.
3. The split quotient, in `BlindedQuotient` and `ProverMemory`.
