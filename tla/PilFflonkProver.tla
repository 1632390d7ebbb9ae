--------------------------- MODULE PilFflonkProver ---------------------------
(***************************************************************************)
(* PilFflonkProver::prove() and ShPlonkProver::open(): the life of one     *)
(* prover object over several proofs.                                      *)
(*                                                                         *)
(* A prover is built once (zkey and fflonkinfo are loaded, the constant    *)
(* polynomials are committed) and prove() is then called any number of     *)
(* times.  Field elements and curve points are abstracted to their         *)
(* provenance: which value it is and which call of prove() computed it     *)
(* (its stamp; 0 is the setup, Unset a map entry nobody wrote).  A         *)
(* transcript is what was absorbed since its last reset, a challenge is    *)
(* the transcript it was hashed from.  What persists in the object from    *)
(* one proof to the next persists here.                                    *)
(***************************************************************************)
EXTENDS Integers

CONSTANTS F,         \* the names of the committed polynomials f0, f1, ...
          StageOf,   \* the stage of each of them: zkey->f[i]->stages[0].stage
          Publics,   \* fflonkInfo->publics: [type, polId] of public 0, 1, ...
          Confs,     \* the circuits considered, as records (see ConfType)
          MaxProofs  \* bound: how many times prove() is called

(***************************************************************************)
(* What the control flow of the prover tests of a circuit: does it have    *)
(* constant polynomials, committed polynomials, plookups, permutations,    *)
(* connections, intermediate polynomials; is Q split (zkey->maxQDegree).   *)
(***************************************************************************)
ConfType == [consts: BOOLEAN, cm1: BOOLEAN, pu: BOOLEAN, pe: BOOLEAN,
             ci: BOOLEAN, im: BOOLEAN, split: BOOLEAN]

PubIds == DOMAIN Publics

\* The last conjunct is the shipped fflonkinfo's: an imP public is public 0,
\* of polynomial 0.
ASSUME ConstantsAssumption ==
  /\ StageOf \in [F -> 0..4]
  /\ "W" \notin F /\ "Wp" \notin F
  /\ Confs \subseteq ConfType
  /\ MaxProofs \in Nat
  /\ \A i \in PubIds : /\ Publics[i].type \in {"cmP", "imP"}
                       /\ Publics[i].type = "imP" => i = 0 /\ Publics[i].polId = 0

Chal  == {"alpha", "beta", "gamma", "delta", "a", "xiSeed", "shAlpha", "y"}
Unset == -1
Stamp == Unset..MaxProofs

VARIABLES
  conf,             \* the circuit: never changes
  pc,               \* where prove() is
  proof,            \* the number of the current (or last) call of prove()
  publics,          \* stamps of ptrCommitted["publics"]
  transcript,       \* PilFflonkProver::transcript
  challenges,       \* challenges[0..4], challengeXiSeed, challengeAlpha, challengeY
  commitments,      \* shPlonkProver->polynomialCommitments
  evaluations,      \* shPlonkProver->evaluationCommitments, without "inv"
  inverseElements,  \* stamps of the elements of shPlonkProver->inverseElements
  inv,              \* stamps of the elements evaluationCommitments["inv"] inverts
  nonCommittedPols, \* the f whose only polynomial "Q" is in nonCommittedPols
  result            \* the proof that the last call returned

vars == <<conf, pc, proof, publics, transcript, challenges, commitments,
          evaluations, inverseElements, inv, nonCommittedPols, result>>
shplonk == <<commitments, evaluations, inverseElements, inv>>

(***************************************************************************)
(* The circuit.  A section is empty exactly when its stage has no          *)
(* polynomials, and then no f belongs to that stage.                       *)
(***************************************************************************)
HasCm2 == conf.pu
HasCm3 == conf.pu \/ conf.pe \/ conf.ci \/ conf.im

\* The early return of stage2: the permutations need its challenges even when
\* it has no polynomial to commit (the faulty variant forgets them).
Stage2RunsForItsPolynomials == HasCm2
Stage2Runs == HasCm2 \/ conf.pe

Zf == {f \in F : \/ StageOf[f] = 0 /\ conf.consts
                 \/ StageOf[f] = 1 /\ conf.cm1
                 \/ StageOf[f] = 2 /\ HasCm2
                 \/ StageOf[f] = 3 /\ HasCm3
                 \/ StageOf[f] = 4}
OfStage(s) == {f \in Zf : StageOf[f] = s}

\* The f of the quotient when it is one polynomial, named "Q".
QPols == IF conf.split THEN {} ELSE OfStage(4)

\* The challenges the expressions evaluated in a stage refer to.
Uses(s) ==
  IF s = 2 THEN IF conf.pu THEN {"alpha", "beta"} ELSE {}
  ELSE (IF conf.pu THEN {"alpha", "beta", "gamma", "delta"} ELSE {})
         \cup (IF conf.pe THEN {"alpha", "beta", "delta"} ELSE {})
         \cup (IF conf.ci THEN {"gamma", "delta"} ELSE {})
         \cup (IF s = 4 THEN {"a"} ELSE {})

(***************************************************************************)
(* Values the prover absorbs, and the transcript that absorbs them.  The   *)
(* hash is collision free: a challenge is its input.  binds is everything  *)
(* the input depends on, through the challenges absorbed too.              *)
(***************************************************************************)
Pub(i) == <<"pub", i, publics[i]>>
Com(n) == <<"com", n, commitments[n]>>
Ev(f)  == <<"ev", f, evaluations[f]>>

reset == [items |-> {}, binds |-> {}]
add(t, A) == [items |-> t.items \cup A, binds |-> t.binds \cup A]
\* Faulty variant: the previous challenge is not absorbed.
addNothing(t, k, c) == t
addChallenge(t, k, c) == [items |-> t.items \cup {<<"chal", k, c.proof>>},
                          binds |-> t.binds \cup c.binds]
getChallenge(t) == [proof |-> proof, input |-> t.items, binds |-> t.binds]

NoChallenge == [proof |-> 0, input |-> {}, binds |-> {}]
Drawn(k) == proof > 0 /\ challenges[k].proof = proof

-----------------------------------------------------------------------------
\* The constructor and setConstantData: the constant polynomials are committed.
Init ==
  /\ conf \in Confs
  /\ pc = "idle"
  /\ proof = 0
  /\ publics = [i \in PubIds |-> Unset]
  /\ transcript = reset
  /\ challenges = [k \in Chal |-> NoChallenge]
  /\ commitments = [n \in F \cup {"W", "Wp"} |-> IF n \in OfStage(0) THEN 0 ELSE Unset]
  /\ evaluations = [f \in F |-> Unset]
  /\ inverseElements = {}
  /\ inv = {}
  /\ nonCommittedPols = {}
  /\ result = [parts |-> {}, inv |-> {}]

\* prove(): a new witness is loaded into cm1_n.  Everything else is as the
\* previous proof left it, but for the transcript.
Prove ==
  /\ pc = "idle" /\ proof < MaxProofs
  /\ pc' = "stage0"
  /\ proof' = proof + 1
  /\ nonCommittedPols' = nonCommittedPols \cup QPols
  /\ transcript' = reset
  /\ UNCHANGED <<conf, publics, challenges, shplonk, result>>

\* stage0: publics_first is called with the polynomial where it expects the
\* row and with the public where it expects the polynomial.
Stage0 ==
  /\ pc = "stage0"
  /\ LET written == {i \in PubIds : \/ Publics[i].type = "cmP"
                                    \/ /\ i = Publics[0].polId
                                       /\ Publics[0].type = "imP"}
     IN publics' = [i \in PubIds |-> IF i \in written THEN proof ELSE publics[i]]
  /\ transcript' = add(transcript,
                       (IF conf.consts THEN {Com(f) : f \in OfStage(0)} ELSE {})
                          \cup {Pub(i)' : i \in PubIds})
  /\ pc' = "stage1"
  /\ UNCHANGED <<conf, proof, challenges, shplonk, nonCommittedPols, result>>

\* shPlonkProver->commit(s): every f of stage s is computed and committed (the
\* faulty variant stores a commitment under a key that is no f's).
commitKey(s) ==
  commitments' = [n \in DOMAIN commitments \cup {"f"} |->
                    IF n \in OfStage(s) \/ n = "f" THEN proof ELSE commitments[n]]
commit(s) == commitments' = [n \in DOMAIN commitments |->
                               IF n \in OfStage(s) THEN proof ELSE commitments[n]]

\* Faulty variant: the commitments are absorbed before they are computed.
Stage1Early ==
  /\ pc = "stage1"
  /\ transcript' = add(transcript, {Com(f) : f \in OfStage(1)})
  /\ IF conf.cm1 THEN commit(1) ELSE UNCHANGED commitments
  /\ pc' = "stage2"
  /\ UNCHANGED <<conf, proof, publics, challenges, evaluations, inverseElements,
                 inv, nonCommittedPols, result>>
Stage1 ==
  /\ pc = "stage1"
  /\ IF conf.cm1 THEN commit(1) ELSE UNCHANGED commitments
  /\ transcript' = add(transcript, {Com(f)' : f \in OfStage(1)})
  /\ pc' = "stage2"
  /\ UNCHANGED <<conf, proof, publics, challenges, evaluations, inverseElements,
                 inv, nonCommittedPols, result>>

\* The two challenges of stages 2 and 3: the first is hashed from the
\* transcript, the second from the first, and the transcript goes on from it.
\* In the faulty variant the transcript is not reset in between.
sameChallenges(j, k) ==
  LET c == getChallenge(transcript)
  IN /\ challenges' = [challenges EXCEPT ![j] = c, ![k] = c]
     /\ transcript' = addChallenge(reset, k, c)
twoChallenges(j, k) ==
  LET cj == getChallenge(transcript)
      ck == getChallenge(addChallenge(reset, j, cj))
  IN /\ challenges' = [challenges EXCEPT ![j] = cj, ![k] = ck]
     /\ transcript' = addChallenge(reset, k, ck)

Stage2Challenges ==
  /\ pc = "stage2"
  /\ Stage2Runs
  /\ twoChallenges("alpha", "beta")
  /\ pc' = IF HasCm2 THEN "stage2pols" ELSE "stage3"
  /\ UNCHANGED <<conf, proof, publics, shplonk, nonCommittedPols, result>>

Stage2Skipped ==
  /\ pc = "stage2"
  /\ ~Stage2Runs
  /\ pc' = "stage3"
  /\ UNCHANGED <<conf, proof, publics, transcript, challenges, shplonk,
                 nonCommittedPols, result>>

\* What stages 2 and 3 end with: their polynomials are committed and absorbed.
commitAndAbsorb(s) ==
  /\ commit(s)
  /\ transcript' = add(transcript, {Com(f)' : f \in OfStage(s)})
  /\ UNCHANGED <<conf, proof, publics, challenges, evaluations, inverseElements,
                 inv, nonCommittedPols, result>>

Stage2Commit ==
  /\ pc = "stage2pols"
  /\ commitAndAbsorb(2)
  /\ pc' = "stage3"

Stage3Challenges ==
  /\ pc = "stage3"
  /\ HasCm3
  /\ twoChallenges("gamma", "delta")
  /\ pc' = "stage3pols"
  /\ UNCHANGED <<conf, proof, publics, shplonk, nonCommittedPols, result>>

Stage3Skipped ==
  /\ pc = "stage3"
  /\ ~HasCm3
  /\ pc' = "stage4"
  /\ UNCHANGED <<conf, proof, publics, transcript, challenges, shplonk,
                 nonCommittedPols, result>>

Stage3Commit ==
  /\ pc = "stage3pols"
  /\ commitAndAbsorb(3)
  /\ pc' = "stage4"

Stage4Challenge ==
  /\ pc = "stage4"
  /\ challenges' = [challenges EXCEPT !["a"] = getChallenge(transcript)]
  /\ pc' = "stage4pols"
  /\ UNCHANGED <<conf, proof, publics, transcript, shplonk, nonCommittedPols, result>>

Stage4Commit ==
  /\ pc = "stage4pols"
  /\ commit(4)
  /\ pc' = "xiSeed"
  /\ UNCHANGED <<conf, proof, publics, transcript, challenges, evaluations,
                 inverseElements, inv, nonCommittedPols, result>>

\* Faulty variant: the commitment to the quotient is not absorbed.
XiSeedWithoutQ ==
  /\ pc = "xiSeed"
  /\ transcript' = addChallenge(reset, "a", challenges["a"])
  /\ challenges' = [challenges EXCEPT !["xiSeed"] = getChallenge(transcript')]
  /\ pc' = "evaluations"
  /\ UNCHANGED <<conf, proof, publics, shplonk, nonCommittedPols, result>>
XiSeed ==
  /\ pc = "xiSeed"
  /\ transcript' = add(addChallenge(reset, "a", challenges["a"]),
                       {Com(f) : f \in OfStage(4)})
  /\ challenges' = [challenges EXCEPT !["xiSeed"] = getChallenge(transcript')]
  /\ pc' = "evaluations"
  /\ UNCHANGED <<conf, proof, publics, shplonk, nonCommittedPols, result>>

-----------------------------------------------------------------------------
\* open().  ShPlonkProver has a transcript of its own; each of its challenges
\* begins by resetting it, so nothing of it lasts from one step to the next.

CalculateEvaluations ==
  /\ pc = "evaluations"
  /\ evaluations' = [f \in F |-> IF f \in Zf THEN proof ELSE evaluations[f]]
  /\ pc' = "shAlpha"
  /\ UNCHANGED <<conf, proof, publics, transcript, challenges, commitments,
                 inverseElements, inv, nonCommittedPols, result>>

ComputeChallengeAlpha ==
  /\ pc = "shAlpha"
  /\ LET t == add(addChallenge(reset, "xiSeed", challenges["xiSeed"]),
                  {Ev(f) : f \in Zf \ nonCommittedPols})
     IN challenges' = [challenges EXCEPT !["shAlpha"] = getChallenge(t)]
  /\ pc' = "W"
  /\ UNCHANGED <<conf, proof, publics, transcript, shplonk, nonCommittedPols, result>>

\* computeR, computeW and the commitment to W.
ComputeW ==
  /\ pc = "W"
  /\ commitments' = [commitments EXCEPT !["W"] = proof]
  /\ pc' = "y"
  /\ UNCHANGED <<conf, proof, publics, transcript, challenges, evaluations,
                 inverseElements, inv, nonCommittedPols, result>>

ComputeChallengeY ==
  /\ pc = "y"
  /\ LET t == add(addChallenge(reset, "shAlpha", challenges["shAlpha"]), {Com("W")})
     IN challenges' = [challenges EXCEPT !["y"] = getChallenge(t)]
  /\ pc' = "Wp"
  /\ UNCHANGED <<conf, proof, publics, transcript, shplonk, nonCommittedPols, result>>

ComputeWp ==
  /\ pc = "Wp"
  /\ commitments' = [commitments EXCEPT !["Wp"] = proof]
  /\ pc' = "inverse"
  /\ UNCHANGED <<conf, proof, publics, transcript, challenges, evaluations,
                 inverseElements, inv, nonCommittedPols, result>>

\* The elements to invert are pushed onto a vector of the object, and "inv" is
\* the inverse of the product of the whole vector.
getMontgomeryBatchedInverse ==
  /\ pc = "inverse"
  /\ inverseElements' = inverseElements \cup {proof}
  /\ inv' = inverseElements'
  /\ pc' = "toJson"
  /\ UNCHANGED <<conf, proof, publics, transcript, challenges, commitments,
                 evaluations, nonCommittedPols, result>>

\* The evaluations of the JSON: toJson prints the whole map, prove() erases
\* that of "Q" (the faulty variant does not).
AllEvaluations == {f \in F : evaluations[f] # Unset}
JsonEvaluations == {f \in F : evaluations[f] # Unset} \ QPols

\* toJson prints every entry of both maps; prove() then adds the publics.
Return ==
  /\ pc = "toJson"
  /\ result' = [parts |-> {Com(n) : n \in {m \in DOMAIN commitments : commitments[m] # Unset}}
                    \cup {Ev(f) : f \in JsonEvaluations}
                    \cup {Pub(i) : i \in PubIds},
                inv |-> inv]
  /\ pc' = "idle"
  /\ UNCHANGED <<conf, proof, publics, transcript, challenges, shplonk, nonCommittedPols>>

\* An exception, or a witness that cannot be loaded, ends the process.
MayThrow == {"stage1", "stage2pols", "stage3pols", "stage4pols", "evaluations", "W", "Wp"}

Exit ==
  /\ pc \in MayThrow \/ (pc = "idle" /\ proof < MaxProofs)
  /\ pc' = "exited"
  /\ UNCHANGED <<conf, proof, publics, transcript, challenges, shplonk,
                 nonCommittedPols, result>>

\* The process ended, or its client asks for no other proof.
Stopped ==
  /\ pc = "exited" \/ (pc = "idle" /\ proof = MaxProofs)
  /\ UNCHANGED vars

Stages == \/ Stage0 \/ Stage1
          \/ Stage2Challenges \/ Stage2Skipped \/ Stage2Commit
          \/ Stage3Challenges \/ Stage3Skipped \/ Stage3Commit
          \/ Stage4Challenge \/ Stage4Commit \/ XiSeed

Open == \/ CalculateEvaluations \/ ComputeChallengeAlpha
        \/ ComputeW \/ ComputeChallengeY \/ ComputeWp
        \/ getMontgomeryBatchedInverse

Next == Prove \/ Stages \/ Open \/ Return \/ Exit \/ Stopped

Spec == Init /\ [][Next]_vars
-----------------------------------------------------------------------------
(***************************************************************************)
(* Properties.                                                             *)
(***************************************************************************)
Parts == {<<"pub", i, n>> : i \in PubIds, n \in Stamp}
    \cup {<<"com", f, n>> : f \in F \cup {"W", "Wp"}, n \in Stamp}
    \cup {<<"ev", f, n>> : f \in F, n \in Stamp}
Items == Parts \cup {<<"chal", k, n>> : k \in Chal, n \in Stamp}

Labels == {"idle", "stage0", "stage1", "stage2", "stage2pols", "stage3", "stage3pols",
           "stage4", "stage4pols", "xiSeed", "evaluations", "shAlpha", "W", "y", "Wp",
           "inverse", "toJson", "exited"}

\* Every variable has the type of the C++ member it stands for.
TypeOK ==
  /\ conf \in Confs
  /\ pc \in Labels
  /\ proof \in 0..MaxProofs
  /\ publics \in [PubIds -> Stamp]
  /\ transcript \in [items : SUBSET Items, binds : SUBSET Parts]
  /\ challenges \in [Chal -> [proof : 0..MaxProofs, input : SUBSET Items,
                              binds : SUBSET Parts]]
  /\ commitments \in [F \cup {"W", "Wp"} -> Stamp]
  /\ evaluations \in [F -> Stamp]
  /\ inverseElements \subseteq Stamp
  /\ inv \subseteq Stamp
  /\ nonCommittedPols \subseteq F
  /\ result \in [parts : SUBSET Parts, inv : SUBSET Stamp]

Round == [alpha |-> 2, beta |-> 2, gamma |-> 3, delta |-> 3, a |-> 4,
          xiSeed |-> 5, shAlpha |-> 6, y |-> 7]

\* What the prover says before round r: what the verifier of the returned
\* proof can hash too, as it stands now.
Before(r) ==
  {Pub(i) : i \in PubIds}
    \cup {Com(f) : f \in {g \in Zf : StageOf[g] < r}}
    \cup (IF r > 5 THEN {Ev(f) : f \in Zf \ QPols} ELSE {})
    \cup (IF r > 6 THEN {Com("W")} ELSE {})

\* Fiat-Shamir: a challenge of this proof depends on everything the prover
\* says before it and on nothing else, whichever stages the circuit lacks, and
\* what it depends on is never recomputed afterwards (stage0..4, open).
ChallengesBindTheProof ==
  \A k \in Chal : Drawn(k) => challenges[k].binds = Before(Round[k])

\* Nothing that an earlier proof left in the object, and no map entry that
\* nobody wrote, is hashed into a challenge of this proof: only values of this
\* proof and the commitments of the setup.
OnlyThisProofIsHashed ==
  \A k \in Chal : Drawn(k) => \A p \in challenges[k].binds :
     p[3] = IF p[1] = "com" /\ p[2] \in OfStage(0) THEN 0 ELSE proof

\* The challenges of a proof are hashes of different inputs, so no two of
\* them (alpha and beta, gamma and delta) can be forced to be equal.
ChallengesAreDistinct ==
  \A j, k \in Chal : j # k /\ Drawn(j) /\ Drawn(k)
                       => challenges[j].input # challenges[k].input

\* The expressions of a stage never read a challenge of an earlier proof, or
\* one never drawn, although stages 2 and 3 are skipped by some circuits and
\* their contexts use the challenges of both.
ExpressionsUseFreshChallenges ==
  /\ pc = "stage2pols" => \A k \in Uses(2) : Drawn(k)
  /\ pc = "stage3pols" => \A k \in Uses(3) : Drawn(k)
  /\ pc = "stage4pols" => \A k \in Uses(4) : Drawn(k)

\* The proof handed to the caller holds exactly what the last challenge binds,
\* and Wp: the verifier can recompute every challenge from it, and no value of
\* the maps' earlier contents is printed with it.
ReturnedProofIsBound ==
  pc = "idle" /\ proof > 0 =>
    result.parts = challenges["y"].binds \cup {<<"com", "Wp", proof>>}

\* setConstantData is "required once per prover" (pilfflonk_prover.hpp:105):
\* what prove() returns is of this call.  "inv" is not, from the second call
\* on: it inverts the elements of the earlier proofs too.
InverseIsOfThisProof ==
  pc = "idle" /\ proof > 0 => result.inv = {proof}

(***************************************************************************)
(* The inductive invariant behind these properties.  The labels of a       *)
(* proof in progress are ranked in the order they are passed through: the  *)
(* challenges of round r are drawn by the step that leaves rank 2(r - 1),  *)
(* the polynomials of stage s are committed by the one that leaves 2s - 1. *)
(***************************************************************************)
Rank == [stage0 |-> 0, stage1 |-> 1, stage2 |-> 2, stage2pols |-> 3, stage3 |-> 4,
         stage3pols |-> 5, stage4 |-> 6, stage4pols |-> 7, xiSeed |-> 8,
         evaluations |-> 9, shAlpha |-> 10, W |-> 11, y |-> 12, Wp |-> 13,
         inverse |-> 14, toJson |-> 15]
Running == pc \in DOMAIN Rank

\* No stamp is of a proof to come, the setup's commitments are never replaced,
\* and an f the circuit lacks has no commitment and no evaluation.
StampsInv ==
  /\ \A i \in PubIds : publics[i] <= proof
  /\ \A k \in Chal : challenges[k].proof <= proof
  /\ commitments["W"] <= proof /\ commitments["Wp"] <= proof
  /\ \A f \in F : commitments[f] <= proof /\ evaluations[f] <= proof
  /\ \A f \in OfStage(0) : commitments[f] = 0
  /\ \A f \in F \ Zf : commitments[f] = Unset /\ evaluations[f] = Unset
  /\ nonCommittedPols = IF proof > 0 THEN QPols ELSE {}
  /\ Running => proof > 0

\* Which values of this proof exist at each label.
ProgressInv ==
  Running =>
    /\ \A i \in PubIds : publics[i] = proof <=> Rank[pc] > 0
    /\ \A f \in Zf : StageOf[f] > 0 =>
         (commitments[f] = proof <=> Rank[pc] > 2 * StageOf[f] - 1)
    /\ \A f \in Zf : evaluations[f] = proof <=> Rank[pc] > 9
    /\ commitments["W"] = proof <=> Rank[pc] > 11
    /\ commitments["Wp"] = proof <=> Rank[pc] > 13

\* Which challenges of this proof are drawn at each label: none early, and
\* those that the next ones are hashed from.
DrawnInv ==
  Running =>
    /\ \A k \in Chal : Drawn(k) => Rank[pc] > 2 * (Round[k] - 1)
    /\ Rank[pc] > 2 /\ Stage2Runs => Drawn("alpha") /\ Drawn("beta")
    /\ Rank[pc] > 4 /\ HasCm3 => Drawn("gamma") /\ Drawn("delta")
    /\ Rank[pc] > 6 => Drawn("a")
    /\ Rank[pc] > 8 => Drawn("xiSeed")
    /\ Rank[pc] > 10 => Drawn("shAlpha")
    /\ Rank[pc] > 12 => Drawn("y")

\* What the prover's transcript depends on when it is hashed next.
TranscriptInv ==
  /\ pc = "stage0" => transcript.binds = {}
  /\ pc = "stage1" => transcript.binds = Before(1)
  /\ pc \in {"stage2", "stage2pols"} => transcript.binds = Before(2)
  /\ pc \in {"stage3", "stage3pols"} => transcript.binds = Before(3)
  /\ pc = "stage4" => transcript.binds = Before(4)

IInv == /\ StampsInv
        /\ ProgressInv
        /\ DrawnInv
        /\ TranscriptInv
        /\ ChallengesBindTheProof
        /\ OnlyThisProofIsHashed
        /\ ReturnedProofIsBound

(***************************************************************************)
(* The abstract specification.  This proof has said its publics, its       *)
(* commitments (those of the setup from stage 0 on) and its evaluations,   *)
(* but for those of "Q".                                                   *)
(***************************************************************************)
Said ==
  {<<"pub", i, proof>> : i \in {j \in PubIds : publics[j] = proof}}
    \cup {<<"com", n, proof>> : n \in {m \in DOMAIN commitments : commitments[m] = proof}}
    \cup {<<"com", f, 0>> : f \in OfStage(0)}
    \cup {<<"ev", f, proof>> : f \in {g \in F : evaluations[g] = proof} \ QPols}

SaidBar == IF proof = 0 \/ pc = "stage0" THEN {} ELSE Said
DrawnBar == [k \in Chal |-> IF Drawn(k) THEN {challenges[k].binds} ELSE {}]

Abstract == INSTANCE FiatShamir WITH
  Part <- Parts, Challenge <- Chal, said <- SaidBar, drawn <- DrawnBar

\* The prover is a Fiat-Shamir prover: every step says something, draws
\* challenges bound to everything said in this proof, or starts afresh.
FiatShamirSpec == Abstract!Spec
=============================================================================
