--------------------------- MODULE PilFflonkZkey ---------------------------
(***************************************************************************)
(* The setup and its file: PilFflonkSetup::generateZkey reads the key that *)
(* the compiler chose, the powers of tau and the constant polynomials,     *)
(* commits to the f's of stage 0 and writes the sections of the zkey; the  *)
(* prover, another program, reads them back.  Numbers are kept in 32 bits  *)
(* in the file.  A section is a sequence of what was written, one after    *)
(* another, and a reader goes on from where it is.                         *)
(***************************************************************************)
EXTENDS Integers, Sequences, SequencesExt

CONSTANTS
  Circuits,   \* [shKey, fflonkInfo, steps, zeros] records: what the setup and
              \* the prover are run with
  PTauFiles,  \* [points, g2 : Seq]: the powers of tau
  U32,        \* how many numbers u_int32_t has
  sizeofFr    \* sizeof(FrElement), and n8q

VARIABLES pc, circuit, ptau,
          zkey,     \* the key of the setup
          arrays,   \* its arrays: PTau, the constants and the domains
          file,     \* the sections of the zkey file, by number
          cursor,   \* where the reader of a section is
          loaded    \* the key of the prover

setupVars == <<circuit, ptau, zkey, arrays, file>>
loadVars == <<cursor, loaded>>

Zero == <<"zero", 0>>
Garbage == <<"garbage", 0>>
u32(n) == n % U32

ListsItsPols(f) ==
  /\ Len(f.stages[1].pols) = Len(f.pols)
  /\ ToSet(f.pols) = {f.stages[1].pols[j].name : j \in DOMAIN f.stages[1].pols}

\* What the compiler chooses: f's that are numbered from 0, with one stage each,
\* which lists the f's polynomials, in whatever order.
ASSUME ZkeyAssumption ==
  /\ U32 \in Nat \ {0} /\ sizeofFr \in Nat \ {0}
  /\ \A c \in Circuits : /\ DOMAIN c.shKey.f = 0..(Len(SetToSeq(DOMAIN c.shKey.f)) - 1)
                         /\ \A i \in DOMAIN c.shKey.f : /\ c.shKey.f[i].index = i
                                                        /\ Len(c.shKey.f[i].stages) = 1
                                                        /\ ListsItsPols(c.shKey.f[i])

info == circuit.fflonkInfo
domainSize == 2^zkey.power
\* ceil(log2(qDeg + 1))
extendBits(q) == CHOOSE b \in 0..q : 2^b >= q + 1 /\ \A d \in 0..(b - 1) : 2^d < q + 1
domainSizeExt == 2^(zkey.power + extendBits(info.qDeg) + info.nBitsZK)

Maximum(S) == CHOOSE x \in S : \A y \in S : y <= x
maxFiDegree == Maximum({zkey.f[i].degree : i \in DOMAIN zkey.f}) + 1

-----------------------------------------------------------------------------
ParseShKey ==
  /\ pc = "setup"
  /\ zkey' = circuit.shKey @@ [X2 |-> Garbage, fCommitments |-> <<>>]
  /\ pc' = "ptau"
  /\ UNCHANGED <<circuit, ptau, arrays, file, loadVars>>

\* A file that is too small ends the setup: nothing is written.
LoadPTau ==
  /\ pc = "ptau"
  /\ IF Len(ptau.points) < maxFiDegree
     THEN pc' = "error" /\ UNCHANGED arrays
     ELSE /\ arrays' = [arrays EXCEPT !.PTau = SubSeq(ptau.points, 1, maxFiDegree)]
          /\ pc' = "x2"
  /\ UNCHANGED <<circuit, ptau, zkey, file, loadVars>>

\* The size of one point is required, and the second one is copied.
LoadX2 ==
  /\ pc = "x2"
  /\ IF Len(ptau.g2) < 1
     THEN pc' = "error" /\ UNCHANGED zkey
     ELSE /\ zkey' = [zkey EXCEPT !.X2 = IF Len(ptau.g2) >= 2 THEN ptau.g2[2] ELSE Garbage]
          /\ pc' = "constants"
  /\ UNCHANGED <<circuit, ptau, arrays, file, loadVars>>

\* An array of n elements, of which each has its own value.
Array(name, n) == [e \in 1..n |-> <<name, e - 1>>]
\* The coefficients of the constants, of which some are zero.
Coefs(n) == [e \in 1..n |-> IF e - 1 \in circuit.zeros THEN Zero ELSE <<"coef", e - 1>>]
LoadConstants ==
  /\ pc = "constants"
  /\ LET n == info.nConstants * domainSize
     IN  arrays' = [arrays EXCEPT !.const_n = Array("eval", n), !.const_coefs = Coefs(n)]
  /\ pc' = IF info.nConstants > 0 THEN "commitments" ELSE "domains"
  /\ UNCHANGED <<circuit, ptau, zkey, file, loadVars>>

-----------------------------------------------------------------------------
findPolId(key, stage, name) ==
  (CHOOSE i \in DOMAIN key.polsNamesStage[stage] : key.polsNamesStage[stage][i] = name) - 1
StagePol(f, name) ==
  f.stages[1].pols[CHOOSE j \in DOMAIN f.stages[1].pols : f.stages[1].pols[j].name = name]

\* Coefficient i of the j-th polynomial is coefficient i * nPols + j of f.  polsIds
\* has the order of the stage, and lengths (here polsLengths) the one of the f.
polsIds(f, j) == findPolId(zkey, 0, f.stages[1].pols[j].name)
polsLengths(f, j) == StagePol(f, f.pols[j]).degree
Interleaved(f) ==
  LET nPols == Len(f.pols)
  IN  [e \in 1..(f.degree + 1) |->
         LET i == (e - 1) \div nPols
             j == ((e - 1) % nPols) + 1
         IN  IF i < f.degree /\ i < polsLengths(f, j)
             THEN arrays.const_coefs[polsIds(f, j) + info.nConstants * i + 1]
             ELSE Zero]
polDegree(pol) == Maximum({0} \cup {e - 1 : e \in {e \in DOMAIN pol : pol[e] # Zero}})

\* How many coefficients are kept.  (Faulty variant: all but the leading one.)
lenPolOfDegree(pol) == polDegree(pol)
lenPol(pol) == polDegree(pol) + 1

\* The f's of stage 0, by their number.  A commitment is made with the powers of
\* tau up to its degree.
ComputeFCommitments ==
  /\ pc = "commitments"
  /\ LET stage0 == {i \in DOMAIN zkey.f : zkey.f[i].stages[1].stage = 0}
     IN  zkey' = [zkey EXCEPT !.fCommitments =
           [i \in stage0 |-> LET pol == Interleaved(zkey.f[i])
                             IN  [commit |-> <<"commit", i>>,
                                  pol |-> SubSeq(pol, 1, lenPol(pol))]]]
  /\ pc' = "domains"
  /\ UNCHANGED <<circuit, ptau, arrays, file, loadVars>>

\* The constants on the extended domain, if there are any, and the two domains.
ExtendConstants ==
  /\ pc = "domains"
  /\ arrays' = [arrays EXCEPT !.const_2ns = Array("ext", info.nConstants * domainSizeExt),
                              !.x_n = Array("x_n", domainSize),
                              !.x_2ns = Array("x_2ns", domainSizeExt)]
  /\ pc' = "write"
  /\ UNCHANGED <<circuit, ptau, zkey, file, loadVars>>

-----------------------------------------------------------------------------
\* The writers of the sections.
Counted(s) == <<u32(Len(s))>> \o s
HeaderItems == <<u32(zkey.power), u32(zkey.powerW), u32(zkey.nPublics), u32(zkey.maxQDegree),
                 zkey.X2>>
StageItems(s) ==
  <<u32(s.stage), u32(Len(s.pols))>>
    \o FlattenSeq([k \in DOMAIN s.pols |-> <<s.pols[k].name, u32(s.pols[k].degree)>>])
FItems(f) ==
  <<u32(f.index), u32(f.degree)>>
    \o Counted([j \in DOMAIN f.openingPoints |-> u32(f.openingPoints[j])])
    \o Counted(f.pols)
    \o <<u32(Len(f.stages))>> \o FlattenSeq([j \in DOMAIN f.stages |-> StageItems(f.stages[j])])

\* The items of every key of a map, behind the number of keys.
MapItems(items) ==
  LET keys == SetToSeq(DOMAIN items)
  IN  <<u32(Len(keys))>> \o FlattenSeq([n \in DOMAIN keys |-> items[keys[n]]])
CommitmentItems(i) == LET c == zkey.fCommitments[i]
                      IN  <<i, c.commit, u32(Len(c.pol) * sizeofFr)>> \o c.pol
NamesItems(stage) == <<u32(stage)>> \o Counted(zkey.polsNamesStage[stage])
OmegaItems(name) == <<name, zkey.omegas[name]>>

\* The f's are written by number; a map's keys in an order that no reader
\* depends on.
WriteZkey ==
  /\ pc = "write"
  /\ file' = [header |-> HeaderItems,
              f |-> <<u32(Len(SetToSeq(DOMAIN zkey.f)))>>
                      \o FlattenSeq([n \in 1..Len(SetToSeq(DOMAIN zkey.f)) |-> FItems(zkey.f[n - 1])]),
              fCommitments |-> MapItems([i \in DOMAIN zkey.fCommitments |-> CommitmentItems(i)]),
              polsNamesStage |-> MapItems([stage \in DOMAIN zkey.polsNamesStage |-> NamesItems(stage)]),
              omegas |-> MapItems([name \in DOMAIN zkey.omegas |-> OmegaItems(name)]),
              arrays |-> arrays]
  /\ pc' = "open" /\ cursor' = 1
  /\ UNCHANGED <<circuit, ptau, zkey, arrays, loaded>>

-----------------------------------------------------------------------------
\* The readers.  A record that is read, and where the next one is.
ReadF(s, c) ==
  LET nOpenings == s[c + 2]
      nPols == s[c + 3 + nOpenings]
      nStages == s[c + 4 + nOpenings + nPols]
      stageAt[j \in 0..nStages] ==
        IF j = 0 THEN c + 5 + nOpenings + nPols
        ELSE stageAt[j - 1] + 2 + 2 * s[stageAt[j - 1] + 1]
      stage(d) == [stage |-> s[d],
                   pols |-> [k \in 1..s[d + 1] |-> [name |-> s[d + 2 * k],
                                                    degree |-> s[d + 1 + 2 * k]]]]
  IN  [f |-> [index |-> s[c], degree |-> s[c + 1],
              openingPoints |-> SubSeq(s, c + 3, c + 2 + nOpenings),
              pols |-> SubSeq(s, c + 4 + nOpenings, c + 3 + nOpenings + nPols),
              stages |-> [j \in 1..nStages |-> stage(stageAt[j - 1])]],
       next |-> stageAt[nStages]]

LoadHeader ==
  /\ pc = "open"
  /\ loaded' = [power |-> file.header[1], powerW |-> file.header[2],
                nPublics |-> file.header[3], maxQDegree |-> file.header[4],
                X2 |-> file.header[5], f |-> <<>>, polsNamesStage |-> <<>>, omegas |-> <<>>,
                fCommitments |-> <<>>]
  /\ pc' = "readF" /\ cursor' = 2
  /\ UNCHANGED setupVars

\* A section is read record by record, as many as its first number says.
EntriesOf(m) == Len(SetToSeq(DOMAIN m))
LoadF ==
  /\ pc = "readF"
  /\ IF EntriesOf(loaded.f) < file.f[1]
     THEN LET r == ReadF(file.f, cursor)
          IN  /\ loaded' = [loaded EXCEPT !.f = (r.f.index :> r.f) @@ @]
              /\ cursor' = r.next /\ UNCHANGED pc
     ELSE pc' = "readNames" /\ cursor' = 2 /\ UNCHANGED loaded
  /\ UNCHANGED setupVars

LoadPolsNamesStage ==
  /\ pc = "readNames"
  /\ LET s == file.polsNamesStage
     IN  IF EntriesOf(loaded.polsNamesStage) < s[1]
         THEN /\ loaded' = [loaded EXCEPT !.polsNamesStage =
                   (s[cursor] :> SubSeq(s, cursor + 2, cursor + 1 + s[cursor + 1])) @@ @]
              /\ cursor' = cursor + 2 + s[cursor + 1] /\ UNCHANGED pc
         ELSE pc' = "readOmegas" /\ cursor' = 2 /\ UNCHANGED loaded
  /\ UNCHANGED setupVars

LoadOmegas ==
  /\ pc = "readOmegas"
  /\ LET s == file.omegas
     IN  IF EntriesOf(loaded.omegas) < s[1]
         THEN /\ loaded' = [loaded EXCEPT !.omegas = (s[cursor] :> s[cursor + 1]) @@ @]
              /\ cursor' = cursor + 2 /\ UNCHANGED pc
         ELSE pc' = "layout" /\ cursor' = 2 /\ UNCHANGED loaded
  /\ UNCHANGED setupVars

Setup == ParseShKey \/ LoadPTau \/ LoadX2 \/ LoadConstants \/ ComputeFCommitments
           \/ ExtendConstants \/ WriteZkey
LoadPilFflonkZkey == LoadHeader \/ LoadF \/ LoadPolsNamesStage \/ LoadOmegas

ZkeyInit ==
  /\ pc = "setup" /\ circuit \in Circuits /\ ptau \in PTauFiles
  /\ zkey = <<>> /\ file = <<>> /\ cursor = 1 /\ loaded = <<>>
  /\ arrays = [PTau |-> <<>>, const_n |-> <<>>, const_coefs |-> <<>>, const_2ns |-> <<>>,
               x_n |-> <<>>, x_2ns |-> <<>>]
=============================================================================
