---------------------------- MODULE ProverMemory ----------------------------
(***************************************************************************)
(* The big buffers of the prover: setConstantData lays their sections out  *)
(* from what the zkey says (SectionLayout), fills them from the zkey       *)
(* (PilFflonkZkey) with parcpy (ParallelCopy), and every proof of the      *)
(* prover uses them again, without clearing them.  A cell holds who        *)
(* computed it, and for which proof; a stage of the proof is the           *)
(* sequence of its accesses to the sections.  Challenges, and what goes    *)
(* to the heap, are not here.                                              *)
(***************************************************************************)
EXTENDS PilFflonkZkey, SectionLayout, ParallelCopy

CONSTANTS
  MaxThreads,  \* what omp_get_max_threads() may be
  Reserved,    \* how many bytes of memory the caller may reserve, if any
  ExecFiles,   \* [nSMap, cells]: the cells <<row, column>> a signal is mapped to
  MaxProofs

VARIABLES bases,    \* of each buffer: the start and length of its sections
          memory,   \* of each buffer: the cells
          proof,    \* the number of the proof
          mapped,   \* the cells of cm1_n that this proof's caller provides
          seen,     \* history: what the last operation read, and should have
          outside   \* history: the accesses of the last operation that were
                    \* not in the section's length

proofVars == <<proof, mapped, seen, outside>>
memoryVars == <<bases, memory, proofVars>>
vars == <<pc, setupVars, loadVars, layoutVars, copyVars, memoryVars>>

-----------------------------------------------------------------------------
\* What setConstantData asks for, in the order of its maps.
N == 2^loaded.power
NCoefs == 2^(loaded.power + info.nBitsZK)
NExt == 2^(loaded.power + info.nBitsZK + extendBits(info.qDeg))
nPolsOf(sec) == info.section[sec]
fs == DOMAIN loaded.f
fName(i) == "f" \o ToString(i)
fSections == [n \in 1..EntriesOf(loaded.f) |-> fName(n - 1)]

Sections(buffer) ==
  CASE buffer = "constant" -> <<"PTau", "const_2ns", "const_coefs", "const_n", "x_2ns", "x_n">>
    [] buffer = "committed" -> <<"cm1_2ns", "cm1_coefs", "cm1_n", "cm2_2ns", "cm2_coefs", "cm2_n",
                                 "cm3_2ns", "cm3_coefs", "cm3_n", "publics", "q_2ns", "tmpExp_n">>
    [] buffer = "shplonk" -> <<"W", "Wp">> \o fSections \o <<"tmp">>

lengthW == Maximum({loaded.f[i].degree : i \in fs}) + 1
\* The scratch of the transforms and of the opening.  (Faulty variant: as wide
\* as the first stage.)
tmpLengthOfStage1(maxNPols) == NExt * nPolsOf("cm1_n")
tmpLength(maxNPols) == Maximum({NExt * maxNPols, lengthW})

mapBufferConstant ==
  [PTau |-> lengthW * 2,  \* a point is two elements
   const_n |-> N * info.nConstants, const_coefs |-> N * info.nConstants,
   const_2ns |-> NExt * info.nConstants, x_n |-> N, x_2ns |-> NExt]
mapBufferCommitted ==
  [cm1_n |-> N * nPolsOf("cm1_n"), cm1_2ns |-> NExt * nPolsOf("cm1_n"),
   cm1_coefs |-> NCoefs * nPolsOf("cm1_n"),
   cm2_n |-> N * nPolsOf("cm2_n"), cm2_2ns |-> NExt * nPolsOf("cm2_n"),
   cm2_coefs |-> NCoefs * nPolsOf("cm2_n"),
   cm3_n |-> N * nPolsOf("cm3_n"), cm3_2ns |-> NExt * nPolsOf("cm3_n"),
   cm3_coefs |-> NCoefs * nPolsOf("cm3_n"),
   tmpExp_n |-> N * nPolsOf("tmpExp_n"), q_2ns |-> NExt * info.qDim,
   publics |-> Len(info.publics)]
mapBufferShPlonk ==
  [sec \in Range(Sections("shplonk")) |->
     IF sec \in {"W", "Wp"} THEN lengthW
     ELSE IF sec = "tmp"
     THEN tmpLength(Maximum({nPolsOf("cm1_n"), nPolsOf("cm2_n"), nPolsOf("cm3_n")}))
     ELSE loaded.f[CHOOSE i \in fs : fName(i) = sec].degree + 1]
mapBuffer(buffer) ==
  CASE buffer = "constant" -> mapBufferConstant
    [] buffer = "committed" -> mapBufferCommitted
    [] buffer = "shplonk" -> mapBufferShPlonk
lengthBuffer(buffer) == FoldFunction(+, 0, mapBuffer(buffer))
lengthsOf(buffer) == [k \in DOMAIN Sections(buffer) |-> mapBuffer(buffer)[Sections(buffer)[k]]]

\* The chosen assumptions of the compiler that the buffers rest on: the
\* quotient is one polynomial, the random coefficients have room, and W's
\* zeros end in Wp (see computeW).
nRoots(f) == Len(f.pols) * Len(f.openingPoints)
nTotalRoots(key) == FoldFunction(+, 0, [i \in DOMAIN key.f |-> nRoots(key.f[i])])
maxDegreeW(key) == Maximum({key.f[i].degree + nTotalRoots(key) - nRoots(key.f[i]) : i \in DOMAIN key.f})
ASSUME MemoryAssumption ==
  /\ MaxThreads \subseteq Nat \ {0} /\ MaxProofs \in Nat
  /\ \A c \in Circuits :
       /\ c.shKey.maxQDegree = 0
       /\ maxDegreeW(c.shKey) <= 2 * Maximum({c.shKey.f[i].degree : i \in DOMAIN c.shKey.f}) + 1
       /\ \A i \in DOMAIN c.shKey.f :
            2^c.shKey.power + Len(c.shKey.f[i].openingPoints) + 1
              <= 2^(c.shKey.power + c.fflonkInfo.nBitsZK)

-----------------------------------------------------------------------------
\* setConstantData lays out one buffer after the other.
BufferAfter == "constant" :> "committed" @@ "committed" :> "shplonk"
StartConstantData ==
  /\ pc = "layout"
  /\ StartLayout(lengthsOf("constant"))
  /\ pc' = "constant"
  /\ UNCHANGED <<setupVars, loadVars, copyVars, memoryVars>>

LayOut ==
  /\ pc \in {"constant", "committed", "shplonk"}
  /\ AddLength \/ PlaceSection
  /\ UNCHANGED <<pc, setupVars, loadVars, copyVars, memoryVars>>

baseOf(buffer) ==
  [sec \in Range(Sections(buffer)) |->
     LET k == CHOOSE k \in DOMAIN Sections(buffer) : Sections(buffer)[k] = sec
     IN  [start |-> ptr[k], length |-> lengths[k]]]

\* The caller may bring the memory of the committed polynomials; too little of
\* it ends the program.
InsufficientMemory ==
  /\ pc = "committed" /\ Len(ends) = Len(lengths) /\ ptr = <<>>
  /\ \E reservedMemorySize \in Reserved : reservedMemorySize < total * sizeofFr
  /\ pc' = "error"
  /\ UNCHANGED <<setupVars, loadVars, layoutVars, copyVars, memoryVars>>

NextBuffer ==
  /\ pc \in DOMAIN BufferAfter /\ LaidOut
  /\ bases' = (pc :> baseOf(pc)) @@ bases
  /\ StartLayout(lengthsOf(BufferAfter[pc]))
  /\ pc' = BufferAfter[pc]
  /\ UNCHANGED <<setupVars, loadVars, copyVars, memory, proofVars>>

\* PTauBytes is an u_int32_t.
StartPTau ==
  /\ pc = "shplonk" /\ LaidOut
  /\ bases' = ("shplonk" :> baseOf("shplonk")) @@ bases
  /\ \E t \in MaxThreads : StartCopy(u32(mapBufferConstant.PTau * sizeofFr), t \div 2)
  /\ pc' = "ptauCopy"
  /\ UNCHANGED <<setupVars, loadVars, layoutVars, memory, proofVars>>

CopyPTau ==
  /\ pc = "ptauCopy"
  /\ \E i \in Iterations : CopyByte(i)
  /\ UNCHANGED <<pc, setupVars, loadVars, layoutVars, memoryVars>>

\* An element of section e whose bytes are all copied is there; new[] leaves the
\* rest as it is.
isCopied(e) == \A b \in (e * sizeofFr)..(e * sizeofFr + sizeofFr - 1) :
                 \E i \in Iterations : <<i, b>> \in written
PTauCopied ==
  /\ pc = "ptauCopy" /\ Copied
  /\ memory' = [buffer \in DOMAIN bases |->
       [a \in 0..(lengthBuffer(buffer) - 1) |->
          LET e == a - bases.constant.PTau.start
          IN  IF buffer = "constant" /\ e \in 0..(bases.constant.PTau.length - 1) /\ isCopied(e)
              THEN file.arrays.PTau[(e \div 2) + 1] ELSE Garbage]]
  /\ pc' = "constPols"
  /\ UNCHANGED <<setupVars, loadVars, layoutVars, copyVars, bases, proofVars>>

-----------------------------------------------------------------------------
\* The accesses to the sections.  What is written belongs to this proof.
Write(sec, elems, what) == [op |-> "write", sec |-> sec, elems |-> elems, value |-> <<what, proof>>]
Read(sec, elems, what) == [op |-> "read", sec |-> sec, elems |-> elems, value |-> <<what, proof>>]
Cells(rows, nPols) == 0..(rows * nPols - 1)
Column(n, nPols, id) == {i * nPols + id : i \in 0..(n - 1)}
bufferOf(sec) == CHOOSE buffer \in DOMAIN bases : sec \in DOMAIN bases[buffer]

\* One access: what it does to the cells, and what is known of it afterwards.
\* Outside of the buffer there is memory of others.
Access(done, a) ==
  LET buffer == bufferOf(a.sec)
      base == bases[buffer][a.sec]
      cells == {base.start + e : e \in a.elems} \cap DOMAIN done.memory[buffer]
  IN  [memory |-> IF a.op = "write"
                  THEN [done.memory EXCEPT ![buffer] = [c \in cells |-> a.value] @@ @]
                  ELSE done.memory,
       seen |-> IF a.op = "read"
                THEN done.seen \cup {<<a.value, done.memory[buffer][c]>> : c \in cells}
                ELSE done.seen,
       outside |-> done.outside \cup {<<a.sec, e>> : e \in {e \in a.elems : e >= base.length}}]
Perform(accesses) ==
  LET done == FoldLeft(Access, [memory |-> memory, seen |-> {}, outside |-> {}], accesses)
  IN  memory' = done.memory /\ seen' = done.seen /\ outside' = done.outside

\* The powers of tau that a multi-exponentiation of a polynomial uses.
multiExponentiation(degree) == [op |-> "use", sec |-> "PTau", elems |-> 0..(2 * degree + 1),
                                value |-> Garbage]
\* Polynomial::initialize clears the buffer.  (Faulty variant: it does not.)
notInitialized(sec, length) == <<>>
initialize(sec, length) == <<Write(sec, 0..(length - 1), sec)>>

-----------------------------------------------------------------------------
\* The rest of the zkey.  readBuffer copies as much as the section of the file has.
StoreIn(cells, sec, items) ==
  [c \in {bases[bufferOf(sec)][sec].start + e - 1 : e \in DOMAIN items} |->
     items[c - bases[bufferOf(sec)][sec].start + 1]] @@ cells
constPols == <<"const_n", "const_coefs", "const_2ns", "x_n", "x_2ns">>
ReadConstPols ==
  /\ pc = "constPols"
  /\ memory' = [memory EXCEPT !.constant =
       FoldLeft(LAMBDA cells, sec : StoreIn(cells, sec, file.arrays[sec]), @, constPols)]
  /\ pc' = "fCommitments" /\ cursor' = 2
  /\ UNCHANGED <<setupVars, loaded, layoutVars, copyVars, bases, proofVars>>

\* A commitment, and as many coefficients as the number of bytes in front of
\* them says.
LoadFCommitment ==
  /\ pc = "fCommitments"
  /\ LET s == file.fCommitments
     IN  IF EntriesOf(loaded.fCommitments) < s[1]
         THEN LET i == s[cursor]
                  kept == s[cursor + 2] \div sizeofFr
                  pol == SubSeq(s, cursor + 3, cursor + 2 + kept)
              IN  /\ loaded' = [loaded EXCEPT !.fCommitments =
                       (i :> [commit |-> s[cursor + 1], pol |-> pol]) @@ @]
                  /\ memory' = [memory EXCEPT !.shplonk = StoreIn(@, fName(i), pol)]
                  /\ cursor' = cursor + 3 + kept /\ UNCHANGED pc
         ELSE pc' = "idle" /\ UNCHANGED <<loaded, memory, cursor>>
  /\ UNCHANGED <<setupVars, layoutVars, copyVars, bases, proofVars>>

SetConstantData == StartConstantData \/ LayOut \/ InsufficientMemory \/ NextBuffer \/ StartPTau
                     \/ CopyPTau \/ PTauCopied \/ ReadConstPols \/ LoadFCommitment

-----------------------------------------------------------------------------
\* prove() takes the committed polynomials from a file, whole, or the cells a
\* signal is mapped to from the witness.
allCells == Cells(N, nPolsOf("cm1_n"))
WriteWitness(elems) ==
  Perform(<<[op |-> "write", sec |-> "cm1_n", elems |-> elems, value |-> <<"witness", proof + 1>>]>>)

CommittedFromFile ==
  /\ pc = "idle" /\ proof < MaxProofs
  /\ proof' = proof + 1 /\ mapped' = allCells
  /\ WriteWitness(allCells)
  /\ pc' = "stage0"
  /\ UNCHANGED <<setupVars, loadVars, layoutVars, copyVars, bases>>

\* (Faulty variant: the loop starts in the second row.)
mappedFromRow1(exec) == allCells \ (exec.unmapped \cup Cells(1, nPolsOf("cm1_n")))
mappedCells(exec) == allCells \ exec.unmapped
\* An exec file for another domain ends the program, before any cell is written.
CommittedFromExec ==
  /\ pc = "idle" /\ proof < MaxProofs
  /\ \E exec \in ExecFiles :
       IF exec.nSMap # N
       THEN pc' = "error" /\ UNCHANGED <<memory, proofVars>>
       ELSE /\ proof' = proof + 1 /\ mapped' = allCells \ exec.unmapped
            /\ WriteWitness(mappedCells(exec))
            /\ pc' = "stage0"
  /\ UNCHANGED <<setupVars, loadVars, layoutVars, copyVars, bases>>

-----------------------------------------------------------------------------
\* The sections of a stage, and who fills them.
sectionOf(stage, suffix) == "cm" \o ToString(stage) \o suffix
producerOf(sec) == IF sec = "cm1_n" THEN "witness" ELSE sec
ReadColumn(pol) == Read(pol[1], Column(N, nPolsOf(pol[1]), pol[2]), producerOf(pol[1]))
WriteColumn(pol) == Write(pol[1], Column(N, nPolsOf(pol[1]), pol[2]), pol[1])
\* A generated step, in all rows.
step(s) == SetToSeq({ReadColumn(pol) : pol \in s.reads})
             \o SetToSeq({WriteColumn(pol) : pol \in s.writes})
tmp(from, n, what) == Write("tmp", from..(from + n - 1), what)
tmpRead(from, n, what) == Read("tmp", from..(from + n - 1), what)

findNumberOpenings(name, stage) ==
  LET with == {i \in fs : loaded.f[i].stages[1].stage = stage /\ name \in ToSet(loaded.f[i].pols)}
  IN  IF with = {} THEN 0 ELSE Len(loaded.f[CHOOSE i \in with : TRUE].openingPoints) + 1

extend(stage) ==
  LET src == sectionOf(stage, "_n")
      dst == sectionOf(stage, "_2ns")
      coefs == sectionOf(stage, "_coefs")
      nPols == nPolsOf(src)
      openings(i) == findNumberOpenings(loaded.polsNamesStage[stage][i + 1], stage)
      blinded == UNION {UNION {{j * nPols + i, (j + N) * nPols + i} : j \in 0..(openings(i) - 1)} :
                          i \in 0..(nPols - 1)}
  IN  <<Write(coefs, Cells(NCoefs, nPols), coefs),
        Read(src, Cells(N, nPols), producerOf(src)), tmp(0, N * nPols, "INTT"),
        Write(coefs, Cells(N, nPols), coefs), Write(coefs, blinded, coefs),
        Write(dst, Cells(NExt, nPols), dst), Read(coefs, Cells(NCoefs, nPols), coefs),
        Write(dst, Cells(NCoefs, nPols), dst), tmp(0, NExt * nPols, "NTT"),
        Write(dst, Cells(NExt, nPols), dst)>>

\* The f's of a stage, from the coefficients of its polynomials.
commitOf(stage, i) ==
  LET f == loaded.f[i]
      src == IF stage = 4 THEN "q_2ns" ELSE sectionOf(stage, "_coefs")
      nPols == Len(f.pols)
      nPolsStage == Len(loaded.polsNamesStage[stage])
      pos(e, j) == IF stage = 4 THEN e
                   ELSE findPolId(loaded, stage, f.stages[1].pols[j + 1].name) + nPolsStage * e
      taken == {t \in (0..(f.degree - 1)) \X (0..(nPols - 1)) :
                  t[1] < StagePol(f, f.pols[t[2] + 1]).degree}
  IN  initialize(fName(i), f.degree + 1)
        \o <<Read(src, {pos(t[1], t[2]) : t \in taken}, src),
             Write(fName(i), {t[1] * nPols + t[2] : t \in taken}, fName(i)),
             Read(fName(i), 0..f.degree, fName(i)), multiExponentiation(f.degree)>>
commit(stage) == FlattenSeq([n \in DOMAIN fSections |->
  IF loaded.f[n - 1].stages[1].stage = stage THEN commitOf(stage, n - 1) ELSE <<>>])

\* A column of the witness is copied to the scratch; its inverses are computed
\* there, behind the products.
getPolynomial(pol, from) == <<ReadColumn(pol), tmp(from, N, "pol")>>
committedPol(id) == info.cm_n[id + 1]
calculateH1H2(h1, h2) ==
  <<tmpRead(0, 2 * N, "pol"),
    Write("cm2_n", Column(N, info.nCm2, h1[2]), "cm2_n"),
    Write("cm2_n", Column(N, info.nCm2, h2[2]), "cm2_n")>>
batchInverse(den) ==
  <<ReadColumn(den), tmp(N, N, "products"), tmpRead(N, N, "products"), tmp(0, N, "inverses")>>
calculateZ(num, den, z) ==
  batchInverse(den) \o <<ReadColumn(num), tmpRead(0, N, "inverses"), WriteColumn(z)>>

stage0 == FlattenSeq([i \in DOMAIN info.publics |->
  <<Read("cm1_n", {info.publics[i].idx * nPolsOf("cm1_n") + info.publics[i].polId}, "witness"),
    Write("publics", {i - 1}, "publics")>>])
stage1 == IF nPolsOf("cm1_n") = 0 THEN <<>> ELSE extend(1) \o commit(1)
stage2 ==
  IF nPolsOf("cm2_n") = 0 THEN <<>>
  ELSE step(circuit.steps.step2prev)
       \o FlattenSeq([i \in DOMAIN info.puCtx |->
            LET h1 == nPolsOf("cm1_n") + 2 * (i - 1)
            IN  getPolynomial(info.puCtx[i].f, 0) \o getPolynomial(info.puCtx[i].t, N)
                  \o calculateH1H2(committedPol(h1), committedPol(h1 + 1))])
       \o extend(2) \o commit(2)
stage3 ==
  LET args == info.puCtx \o info.peCtx \o info.ciCtx
      nCm3 == nPolsOf("cm1_n") + nPolsOf("cm2_n")
  IN  IF nPolsOf("cm3_n") = 0 THEN <<>>
      ELSE step(circuit.steps.step3prev)
           \o FlattenSeq([i \in DOMAIN args |->
                calculateZ(args[i].num, args[i].den, committedPol(nCm3 + i - 1))])
           \o step(circuit.steps.step3) \o extend(3) \o commit(3)
stage4 ==
  [stage \in 1..3 |-> Read(sectionOf(stage, "_2ns"),
                           Cells(NExt, nPolsOf(sectionOf(stage, "_n"))), sectionOf(stage, "_2ns"))]
    \o <<Read("publics", Cells(1, Len(info.publics)), "publics"),
         Write("q_2ns", 0..(NExt - 1), "q_2ns"), tmp(0, NExt, "INTT"),
         Write("q_2ns", 0..(NExt - 1), "q_2ns")>>
    \o commit(4)

-----------------------------------------------------------------------------
\* The opening.  f's of stage 0 are as long as what was kept of them.
lengthOf(i) == IF i \in DOMAIN loaded.fCommitments THEN Len(loaded.fCommitments[i].pol)
               ELSE loaded.f[i].degree + 1
committedF == {i \in fs : loaded.f[i].stages[1].stage # 0}
ReadF0(i) == IF i \in committedF THEN <<Read(fName(i), 0..(lengthOf(i) - 1), fName(i))>> ELSE <<>>
forEachF(accesses(_)) == FlattenSeq([n \in DOMAIN fSections |-> accesses(n - 1)])

calculateEvaluations(i) ==
  LET f == loaded.f[i]
      stage == f.stages[1].stage
      src == IF stage = 4 THEN "q_2ns" ELSE sectionOf(stage, "_coefs")
      nPols == IF stage = 4 THEN 1 ELSE Len(loaded.polsNamesStage[stage])
  IN  IF stage = 0 THEN <<>>
      ELSE [k \in DOMAIN f.pols |->
              Read(src, Column(StagePol(f, f.pols[k]).degree, nPols,
                               findPolId(loaded, stage, f.pols[k])), src)]

\* f is copied to the scratch and added to what is collected in a section.
collectIn(sec, i) ==
  initialize("tmp", lengthOf(i)) \o ReadF0(i)
    \o <<tmp(0, lengthOf(i), "tmp"), tmpRead(0, lengthOf(i), "tmp"),
         Read(sec, 0..(lengthOf(i) - 1), sec), Write(sec, 0..(lengthOf(i) - 1), sec)>>
degreeW == maxDegreeW(loaded) - nTotalRoots(loaded)
computeW ==
  initialize("W", maxDegreeW(loaded) + 1)
    \o forEachF(LAMBDA i : collectIn("W", i))
    \o <<Read("W", 0..degreeW, "W"), multiExponentiation(degreeW)>>
\* W is longer than Wp: their difference is computed on the heap.
computeWp ==
  initialize("Wp", lengthW)
    \o forEachF(LAMBDA i : collectIn("Wp", i))
    \o <<Read("W", 0..degreeW, "W"), Write("W", 0..degreeW, "W"),
         Read("Wp", 0..(lengthW - 1), "Wp"), multiExponentiation(lengthW - 2)>>
open == forEachF(calculateEvaluations) \o forEachF(ReadF0) \o computeW \o computeWp
          \o <<Read("publics", Cells(1, Len(info.publics)), "publics")>>

Stage(at0, accesses, then) ==
  /\ pc = at0
  /\ Perform(accesses)
  /\ pc' = then
  /\ UNCHANGED <<setupVars, loadVars, layoutVars, copyVars, bases, proof, mapped>>
Stage0 == Stage("stage0", stage0, "stage1")
Stage1 == Stage("stage1", stage1, "stage2")
Stage2 == Stage("stage2", stage2, "stage3")
Stage3 == Stage("stage3", stage3, "stage4")
Stage4 == Stage("stage4", stage4, "opening")
Open == Stage("opening", open, "idle")

Prove == CommittedFromFile \/ CommittedFromExec \/ Stage0 \/ Stage1 \/ Stage2 \/ Stage3 \/ Stage4
           \/ Open

Init ==
  /\ ZkeyInit /\ LayoutInit /\ CopyInit
  /\ bases = <<>> /\ memory = <<>>
  /\ proof = 0 /\ mapped = {} /\ seen = {} /\ outside = {}
Next ==
  \/ (Setup \/ LoadPilFflonkZkey) /\ UNCHANGED <<layoutVars, copyVars, memoryVars>>
  \/ SetConstantData
  \/ Prove
Spec == Init /\ [][Next]_vars

-----------------------------------------------------------------------------
\* From its loading on the prover has the setup's key: whatever the proofs
\* write into the buffers around it, the f's, names and omegas are those of the
\* setup, and so are the constants, their commitments with all the coefficients
\* that are not zero and, as long as their bytes fit in 32 bits, the powers of tau.
Holds(sec, items) ==
  \A e \in DOMAIN items : memory[bufferOf(sec)][bases[bufferOf(sec)][sec].start + e - 1] = items[e]
KeyIsLoaded == pc \in {"idle", "stage0", "stage1", "stage2", "stage3", "stage4", "opening"}
LoadedKeyIsTheSetups ==
  KeyIsLoaded =>
    /\ loaded = zkey
    /\ \A sec \in Range(constPols) : Holds(sec, arrays[sec])
    /\ \A i \in DOMAIN loaded.fCommitments :
         LET pol == Interleaved(zkey.f[i])
         IN  /\ Holds(fName(i), loaded.fCommitments[i].pol)
             /\ \A e \in DOMAIN pol : e > Len(loaded.fCommitments[i].pol) => pol[e] = Zero
    /\ mapBufferConstant.PTau * sizeofFr < U32 =>
         Holds("PTau", [e \in 1..(2 * Len(arrays.PTau)) |-> arrays.PTau[((e - 1) \div 2) + 1]])

\* No operation of a proof leaves the section it works in, with one exception:
\* the zeros computeW begins with go on behind W, and end in Wp, which is not in
\* use yet.
AccessesStayInside ==
  \A o \in outside :
    LET base == bases.shplonk
        a == base.W.start + o[2]
    IN  o[1] = "W" /\ base.Wp.start <= a /\ a < base.Wp.start + base.Wp.length

\* Nothing of an earlier proof, and nothing another operation left in the
\* scratch, is taken for what this proof computed (the cells of cm1_n are in
\* OnlyUnmappedCellsAreStale).
ReadsAreOfThisProof == \A s \in seen : s[1] = s[2] \/ s[1][1] = "witness"

\* While a proof is computed, a cell of cm1_n that is not this proof's is one no
\* signal is mapped to.
OnlyUnmappedCellsAreStale ==
  pc \in {"stage0", "stage1", "stage2", "stage3", "stage4", "opening"} =>
    \A e \in mapped : memory.committed[bases.committed.cm1_n.start + e] = <<"witness", proof>>
=============================================================================
