------------------------ MODULE PilFflonkProverProofs ------------------------
(***************************************************************************)
(* Theorems about PilFflonkProver, for every set of polynomials, publics   *)
(* and circuits and any number of proofs.                                  *)
(***************************************************************************)
EXTENDS PilFflonkProver, TLAPS

\* The stamps of a type-correct state are those its parts are made of.
LEMMA PartsInItems ==
  ASSUME TypeOK
  PROVE  /\ \A i \in PubIds : Pub(i) \in Parts
         /\ \A n \in F \cup {"W", "Wp"} : Com(n) \in Parts
         /\ \A f \in F : Ev(f) \in Parts
         /\ Parts \subseteq Items
BY DEF TypeOK, Pub, Com, Ev, Parts, Items

\* What a challenge is drawn from a transcript of the right type.
ChallengeType == [proof : 0..MaxProofs, input : SUBSET Items, binds : SUBSET Parts]
TranscriptType == [items : SUBSET Items, binds : SUBSET Parts]

\* A challenge hashed from a transcript is a challenge of the current proof.
LEMMA getChallengeType ==
  ASSUME TypeOK, NEW t \in TranscriptType
  PROVE  getChallenge(t) \in ChallengeType
BY DEF TypeOK, TranscriptType, ChallengeType, getChallenge

\* Absorbing a challenge gives a transcript.
LEMMA addChallengeType ==
  ASSUME NEW t \in TranscriptType, NEW k \in Chal, NEW c \in ChallengeType
  PROVE  addChallenge(t, k, c) \in TranscriptType
BY ConstantsAssumption
DEF TranscriptType, ChallengeType, addChallenge, Items, Stamp, Unset,
    ConstantsAssumption

\* Absorbing publics, commitments or evaluations gives a transcript.
LEMMA addType ==
  ASSUME NEW t \in TranscriptType, NEW A \in SUBSET Parts
  PROVE  add(t, A) \in TranscriptType
BY DEF TranscriptType, add, Items

\* The transcript after reset() is one.
LEMMA resetType == reset \in TranscriptType
BY DEF reset, TranscriptType

-----------------------------------------------------------------------------
\* Stamps of the setup and of the current proof.
LEMMA StampRange ==
  ASSUME TypeOK
  PROVE  /\ proof \in Stamp /\ 0 \in Stamp /\ Unset \in Stamp
         /\ 0 \in 0..MaxProofs
BY ConstantsAssumption DEF TypeOK, Stamp, Unset, ConstantsAssumption

\* shPlonkProver->commit stamps what it commits with the current proof.
LEMMA commitType ==
  ASSUME TypeOK, NEW s, commit(s)
  PROVE  commitments' \in [F \cup {"W", "Wp"} -> Stamp]
BY StampRange DEF TypeOK, commit

\* Drawing the two challenges of a stage keeps the types of both maps.
LEMMA twoChallengesType ==
  ASSUME TypeOK, NEW j \in Chal, NEW k \in Chal, twoChallenges(j, k)
  PROVE  /\ challenges' \in [Chal -> ChallengeType]
         /\ transcript' \in TranscriptType
<1> DEFINE cj == getChallenge(transcript)
           tk == addChallenge(reset, j, cj)
           ck == getChallenge(tk)
<1>1. challenges \in [Chal -> ChallengeType] /\ transcript \in TranscriptType
  BY DEF TypeOK, ChallengeType, TranscriptType
<1>2. cj \in ChallengeType
  BY <1>1, getChallengeType
<1>3. tk \in TranscriptType
  BY <1>2, addChallengeType, resetType
<1>4. ck \in ChallengeType
  BY <1>3, getChallengeType
<1>5. addChallenge(reset, k, ck) \in TranscriptType
  BY <1>4, addChallengeType, resetType
<1>6. /\ challenges' = [challenges EXCEPT ![j] = cj, ![k] = ck]
      /\ transcript' = addChallenge(reset, k, ck)
  BY DEF twoChallenges
<1> HIDE DEF cj, tk, ck
<1> QED
  BY <1>1, <1>2, <1>4, <1>5, <1>6

\* Type correctness: every variable keeps the type of its C++ member.
THEOREM TypeCorrect == Spec => []TypeOK
<1>1. Init => TypeOK
  <2> SUFFICES ASSUME Init PROVE TypeOK
    OBVIOUS
  <2>1. 0 \in Stamp /\ Unset \in Stamp /\ 0 \in 0..MaxProofs
    BY ConstantsAssumption DEF Stamp, Unset, ConstantsAssumption
  <2>2. NoChallenge \in ChallengeType
    BY <2>1 DEF NoChallenge, ChallengeType
  <2> QED
    BY <2>1, <2>2 DEF Init, TypeOK, Labels, reset, ChallengeType
<1>2. TypeOK /\ [Next]_vars => TypeOK'
  <2> SUFFICES ASSUME TypeOK, [Next]_vars PROVE TypeOK'
    OBVIOUS
  <2> USE DEF Labels, PubIds
  <2>0. /\ proof \in Stamp /\ 0 \in Stamp /\ Unset \in Stamp
        /\ transcript \in TranscriptType
        /\ challenges \in [Chal -> ChallengeType]
    BY StampRange DEF TypeOK, TranscriptType, ChallengeType
  <2>1. ASSUME Prove PROVE TypeOK'
    BY <2>1, ConstantsAssumption, resetType
       DEF Prove, TypeOK, shplonk, QPols, OfStage, Zf, TranscriptType, ConstantsAssumption
  <2>2. ASSUME Stage0 PROVE TypeOK'
    <3>1. publics' \in [PubIds -> Stamp]
      BY <2>2, <2>0 DEF Stage0, TypeOK
    <3> DEFINE A == (IF conf.consts THEN {Com(f) : f \in OfStage(0)} ELSE {})
                      \cup {Pub(i)' : i \in PubIds}
    <3>2. A \in SUBSET Parts
      BY <3>1, PartsInItems DEF OfStage, Zf, Pub, Parts
    <3>3. transcript' = add(transcript, A)
      BY <2>2 DEF Stage0
    <3> HIDE DEF A
    <3>4. transcript' \in TranscriptType
      BY <3>2, <3>3, <2>0, addType
    <3> QED
      BY <3>1, <3>4, <2>2 DEF Stage0, TypeOK, shplonk, TranscriptType
  <2>3. ASSUME NEW s, commit(s) PROVE \A n \in F \cup {"W", "Wp"} : Com(n)' \in Parts
    BY <2>3, commitType DEF Com, Parts
  <2>4. ASSUME Stage1 PROVE TypeOK'
    <3>1. commitments' \in [F \cup {"W", "Wp"} -> Stamp]
      BY <2>4, commitType DEF Stage1, TypeOK
    <3>2. {Com(f)' : f \in OfStage(1)} \in SUBSET Parts
      BY <3>1 DEF Com, Parts, OfStage, Zf
    <3>3. transcript' \in TranscriptType
      BY <3>2, <2>4, <2>0, addType DEF Stage1
    <3> QED
      BY <3>1, <3>3, <2>4 DEF Stage1, TypeOK, TranscriptType
  <2>5. ASSUME Stage2Challenges PROVE TypeOK'
    <3>1. challenges' \in [Chal -> ChallengeType] /\ transcript' \in TranscriptType
      BY <2>5, twoChallengesType DEF Stage2Challenges, Chal
    <3> QED
      BY <3>1, <2>5 DEF Stage2Challenges, TypeOK, shplonk, TranscriptType, ChallengeType
  <2>6. ASSUME Stage2Skipped PROVE TypeOK'
    BY <2>6 DEF Stage2Skipped, TypeOK, shplonk
  <2>7. ASSUME NEW s, commitAndAbsorb(s), pc' \in Labels PROVE TypeOK'
    <3>1. commitments' \in [F \cup {"W", "Wp"} -> Stamp]
      BY <2>7, commitType DEF commitAndAbsorb
    <3>2. {Com(f)' : f \in OfStage(s)} \in SUBSET Parts
      BY <3>1 DEF Com, Parts, OfStage, Zf
    <3>3. transcript' \in TranscriptType
      BY <3>2, <2>7, <2>0, addType DEF commitAndAbsorb
    <3> QED
      BY <3>1, <3>3, <2>7 DEF commitAndAbsorb, TypeOK, TranscriptType
  <2>8. ASSUME Stage2Commit \/ Stage3Commit PROVE TypeOK'
    BY <2>7, <2>8 DEF Stage2Commit, Stage3Commit
  <2>9. ASSUME Stage3Challenges PROVE TypeOK'
    <3>1. challenges' \in [Chal -> ChallengeType] /\ transcript' \in TranscriptType
      BY <2>9, twoChallengesType DEF Stage3Challenges, Chal
    <3> QED
      BY <3>1, <2>9 DEF Stage3Challenges, TypeOK, shplonk, TranscriptType, ChallengeType
  <2>10. ASSUME Stage3Skipped PROVE TypeOK'
    BY <2>10 DEF Stage3Skipped, TypeOK, shplonk
  <2>11. ASSUME NEW k \in Chal, NEW t \in TranscriptType,
                challenges' = [challenges EXCEPT ![k] = getChallenge(t)]
         PROVE  challenges' \in [Chal -> ChallengeType]
    BY <2>11, <2>0, getChallengeType
  <2>12. ASSUME Stage4Challenge PROVE TypeOK'
    <3>1. challenges' \in [Chal -> ChallengeType]
      BY <2>0, <2>11, <2>12 DEF Stage4Challenge, Chal
    <3> QED
      BY <3>1, <2>12 DEF Stage4Challenge, TypeOK, shplonk, ChallengeType
  <2>13. ASSUME Stage4Commit PROVE TypeOK'
    BY <2>13, commitType DEF Stage4Commit, TypeOK
  <2>14. ASSUME XiSeed PROVE TypeOK'
    <3>1. addChallenge(reset, "a", challenges["a"]) \in TranscriptType
      BY <2>0, addChallengeType, resetType DEF Chal
    <3>2. {Com(f) : f \in OfStage(4)} \in SUBSET Parts
      BY PartsInItems DEF OfStage, Zf
    <3>3. transcript' \in TranscriptType
      BY <3>1, <3>2, <2>14, addType DEF XiSeed
    <3>4. challenges' \in [Chal -> ChallengeType]
      BY <3>3, <2>11, <2>14 DEF XiSeed, Chal
    <3> QED
      BY <3>3, <3>4, <2>14 DEF XiSeed, TypeOK, shplonk, ChallengeType, TranscriptType
  <2>15. ASSUME CalculateEvaluations PROVE TypeOK'
    BY <2>15, <2>0 DEF CalculateEvaluations, TypeOK
  <2>16. ASSUME ComputeChallengeAlpha PROVE TypeOK'
    <3> DEFINE t == add(addChallenge(reset, "xiSeed", challenges["xiSeed"]),
                        {Ev(f) : f \in Zf \ nonCommittedPols})
    <3>1. addChallenge(reset, "xiSeed", challenges["xiSeed"]) \in TranscriptType
      BY <2>0, addChallengeType, resetType DEF Chal
    <3>2. {Ev(f) : f \in Zf \ nonCommittedPols} \in SUBSET Parts
      BY PartsInItems DEF Zf
    <3>3. t \in TranscriptType
      BY <3>1, <3>2, addType
    <3>4. challenges' = [challenges EXCEPT !["shAlpha"] = getChallenge(t)]
      BY <2>16 DEF ComputeChallengeAlpha
    <3> HIDE DEF t
    <3>5. challenges' \in [Chal -> ChallengeType]
      BY <3>3, <3>4, <2>11 DEF Chal
    <3>6. /\ pc' \in Labels
          /\ UNCHANGED <<conf, proof, publics, transcript, commitments, evaluations,
                        inverseElements, inv, nonCommittedPols, result>>
      BY <2>16 DEF ComputeChallengeAlpha, shplonk, Labels
    <3> QED
      BY <2>0, <3>5, <3>6 DEF TypeOK, ChallengeType
  <2>17. ASSUME ComputeW \/ ComputeWp PROVE TypeOK'
    <3>1. commitments' \in [F \cup {"W", "Wp"} -> Stamp]
      BY <2>17, <2>0 DEF ComputeW, ComputeWp, TypeOK
    <3>2. /\ pc' \in Labels
          /\ UNCHANGED <<conf, proof, publics, transcript, challenges, evaluations,
                        inverseElements, inv, nonCommittedPols, result>>
      BY <2>17 DEF ComputeW, ComputeWp, Labels
    <3> QED
      BY <2>0, <3>1, <3>2 DEF TypeOK
  <2>18. ASSUME ComputeChallengeY PROVE TypeOK'
    <3> DEFINE t == add(addChallenge(reset, "shAlpha", challenges["shAlpha"]), {Com("W")})
    <3>1. addChallenge(reset, "shAlpha", challenges["shAlpha"]) \in TranscriptType
      BY <2>0, addChallengeType, resetType DEF Chal
    <3>2. t \in TranscriptType
      BY <3>1, PartsInItems, addType
    <3>3. challenges' = [challenges EXCEPT !["y"] = getChallenge(t)]
      BY <2>18 DEF ComputeChallengeY
    <3> HIDE DEF t
    <3>4. challenges' \in [Chal -> ChallengeType]
      BY <3>2, <3>3, <2>11 DEF Chal
    <3> QED
      BY <3>4, <2>18 DEF ComputeChallengeY, TypeOK, shplonk, ChallengeType
  <2>19. ASSUME getMontgomeryBatchedInverse PROVE TypeOK'
    BY <2>19, <2>0 DEF getMontgomeryBatchedInverse, TypeOK
  <2>20. ASSUME Return PROVE TypeOK'
    <3>1. result'.parts \subseteq Parts /\ result'.inv \subseteq Stamp
          /\ result' = [parts |-> result'.parts, inv |-> result'.inv]
      BY <2>20, PartsInItems DEF Return, TypeOK, JsonEvaluations
    <3>2. result' \in [parts : SUBSET Parts, inv : SUBSET Stamp]
      BY <3>1
    <3> QED
      BY <3>2, <2>20 DEF Return, TypeOK, shplonk
  <2>21. ASSUME Exit PROVE TypeOK'
    BY <2>21 DEF Exit, TypeOK, shplonk
  <2>22. CASE UNCHANGED vars
    BY <2>22 DEF vars, TypeOK
  <2> QED
    BY <2>1, <2>2, <2>4, <2>5, <2>6, <2>8, <2>9, <2>10, <2>12, <2>13, <2>14, <2>15,
       <2>16, <2>17, <2>18, <2>19, <2>20, <2>21, <2>22
       DEF Next, Stages, Open, Stopped
<1> QED
  BY <1>1, <1>2, PTL DEF Spec

-----------------------------------------------------------------------------
(***************************************************************************)
(* The inductive invariant, one lemma per conjunct.                        *)
(***************************************************************************)
LEMMA Ranks ==
  /\ DOMAIN Rank = Labels \ {"idle", "exited"}
  /\ Rank["stage0"] = 0 /\ Rank["stage1"] = 1
  /\ Rank["stage2"] = 2 /\ Rank["stage2pols"] = 3
  /\ Rank["stage3"] = 4 /\ Rank["stage3pols"] = 5
  /\ Rank["stage4"] = 6 /\ Rank["stage4pols"] = 7
  /\ Rank["xiSeed"] = 8 /\ Rank["evaluations"] = 9 /\ Rank["shAlpha"] = 10
  /\ Rank["W"] = 11 /\ Rank["y"] = 12 /\ Rank["Wp"] = 13
  /\ Rank["inverse"] = 14 /\ Rank["toJson"] = 15
BY DEF Rank, Labels

\* The round of each challenge: alpha and beta of stage 2, up to y of open().
LEMMA Rounds ==
  /\ Round["alpha"] = 2 /\ Round["beta"] = 2
  /\ Round["gamma"] = 3 /\ Round["delta"] = 3
  /\ Round["a"] = 4 /\ Round["xiSeed"] = 5 /\ Round["shAlpha"] = 6 /\ Round["y"] = 7
  /\ \A k \in Chal : Round[k] \in {2, 3, 4, 5, 6, 7}
BY DEF Round, Chal

\* The circuit never changes.
LEMMA CircuitStep ==
  ASSUME [Next]_vars
  PROVE  /\ conf' = conf
         /\ (HasCm2' <=> HasCm2) /\ (HasCm3' <=> HasCm3) /\ (Stage2Runs' <=> Stage2Runs)
         /\ Zf' = Zf /\ QPols' = QPols
         /\ \A s : OfStage(s)' = OfStage(s)
<1>1. conf' = conf
  BY DEF Next, vars, Stages, Open, Prove, Stage0, Stage1, Stage2Challenges,
         Stage2Skipped, Stage2Commit, Stage3Challenges, Stage3Skipped, Stage3Commit,
         commitAndAbsorb, Stage4Challenge, Stage4Commit, XiSeed, CalculateEvaluations,
         ComputeChallengeAlpha, ComputeW, ComputeChallengeY, ComputeWp,
         getMontgomeryBatchedInverse, Return, Exit, Stopped
<1>2. (HasCm2' <=> HasCm2) /\ (HasCm3' <=> HasCm3) /\ (Stage2Runs' <=> Stage2Runs)
  BY <1>1 DEF HasCm2, HasCm3, Stage2Runs
<1>3. Zf' = Zf
  BY <1>1, <1>2 DEF Zf
<1>4. \A s : OfStage(s)' = OfStage(s)
  BY <1>3 DEF OfStage
<1> QED
  BY <1>1, <1>2, <1>3, <1>4 DEF QPols

\* An f of a stage exists only if the circuit has polynomials of that stage.
LEMMA StagesOfZf ==
  /\ Zf \subseteq F
  /\ \A f \in Zf : /\ StageOf[f] \in {0, 1, 2, 3, 4}
                   /\ StageOf[f] = 0 => conf.consts
                   /\ StageOf[f] = 1 => conf.cm1
                   /\ StageOf[f] = 2 => HasCm2
                   /\ StageOf[f] = 3 => HasCm3
BY ConstantsAssumption DEF Zf, ConstantsAssumption

\* Both challenges of a stage bind what the transcript holds, and so does the
\* transcript that goes on from the second.
LEMMA PairStep ==
  ASSUME TypeOK, NEW j \in Chal, NEW k \in Chal, j # k, twoChallenges(j, k)
  PROVE  /\ challenges'[j].proof = proof /\ challenges'[j].binds = transcript.binds
         /\ challenges'[k].proof = proof /\ challenges'[k].binds = transcript.binds
         /\ \A c \in Chal \ {j, k} : challenges'[c] = challenges[c]
         /\ transcript'.binds = transcript.binds
<1> DEFINE cj == getChallenge(transcript)
           tk == addChallenge(reset, j, cj)
           ck == getChallenge(tk)
           tr == addChallenge(reset, k, ck)
<1>1. cj.proof = proof /\ cj.binds = transcript.binds
  BY DEF getChallenge
<1>2. tk.binds = transcript.binds
  BY <1>1 DEF addChallenge, reset
<1>3. ck.proof = proof /\ ck.binds = transcript.binds
  BY <1>2 DEF getChallenge
<1>4. tr.binds = transcript.binds
  BY <1>3 DEF addChallenge, reset
<1>5. challenges' = [challenges EXCEPT ![j] = cj, ![k] = ck] /\ transcript' = tr
  BY DEF twoChallenges
<1> HIDE DEF cj, tk, ck, tr
<1> QED
  BY <1>1, <1>3, <1>4, <1>5 DEF TypeOK

\* A challenge drawn alone is of this proof and binds what was absorbed.
LEMMA SingleStep ==
  ASSUME TypeOK, NEW k \in Chal, NEW t,
         challenges' = [challenges EXCEPT ![k] = getChallenge(t)]
  PROVE  /\ challenges'[k].proof = proof /\ challenges'[k].binds = t.binds
         /\ \A c \in Chal \ {k} : challenges'[c] = challenges[c]
BY DEF getChallenge, TypeOK

\* Every step keeps the stamps in the past and the commitments of the setup.
LEMMA StampsStep ==
  ASSUME TypeOK, TypeOK', IInv, [Next]_vars
  PROVE  StampsInv'
<1> USE CircuitStep, StagesOfZf, Ranks, Rounds, ConstantsAssumption
    DEF shplonk, Stamp, Unset, ConstantsAssumption
<1>1. ASSUME Prove PROVE StampsInv'
  BY <1>1 DEF Prove, IInv, StampsInv, TypeOK, Running, Labels, QPols, OfStage
<1>2. ASSUME Stage0 PROVE StampsInv'
  BY <1>2 DEF Stage0, IInv, StampsInv, TypeOK, Running, Labels, QPols, OfStage
<1>3. ASSUME Stage1 PROVE StampsInv'
  BY <1>3 DEF Stage1, commit, IInv, StampsInv, TypeOK, Running, Labels, QPols, OfStage
<1>4. ASSUME Stage2Challenges PROVE StampsInv'
  <2>1. /\ challenges'["alpha"].proof = proof
        /\ challenges'["alpha"].binds = transcript.binds
        /\ challenges'["beta"].proof = proof
        /\ challenges'["beta"].binds = transcript.binds
        /\ \A c \in Chal \ {"alpha", "beta"} : challenges'[c] = challenges[c]
        /\ transcript'.binds = transcript.binds
    BY <1>4, PairStep DEF Stage2Challenges, Chal
  <2>2. /\ pc = "stage2" /\ Stage2Runs
        /\ pc' = IF HasCm2 THEN "stage2pols" ELSE "stage3"
        /\ UNCHANGED <<conf, proof, publics, shplonk, nonCommittedPols, result>>
    BY <1>4 DEF Stage2Challenges
  <2> QED
    BY <2>1, <2>2 DEF IInv, StampsInv, TypeOK, Running, Labels, QPols, OfStage, Chal
<1>5. ASSUME Stage2Skipped PROVE StampsInv'
  BY <1>5 DEF Stage2Skipped, IInv, StampsInv, TypeOK, Running, Labels, QPols, OfStage
<1>6. ASSUME Stage2Commit PROVE StampsInv'
  BY <1>6
  DEF Stage2Commit, commit, commitAndAbsorb, IInv, StampsInv, TypeOK, Running, Labels,
      QPols, OfStage
<1>7. ASSUME Stage3Challenges PROVE StampsInv'
  <2>1. /\ challenges'["gamma"].proof = proof
        /\ challenges'["gamma"].binds = transcript.binds
        /\ challenges'["delta"].proof = proof
        /\ challenges'["delta"].binds = transcript.binds
        /\ \A c \in Chal \ {"gamma", "delta"} : challenges'[c] = challenges[c]
        /\ transcript'.binds = transcript.binds
    BY <1>7, PairStep DEF Stage3Challenges, Chal
  <2>2. /\ pc = "stage3" /\ HasCm3
        /\ pc' = "stage3pols"
        /\ UNCHANGED <<conf, proof, publics, shplonk, nonCommittedPols, result>>
    BY <1>7 DEF Stage3Challenges
  <2> QED
    BY <2>1, <2>2 DEF IInv, StampsInv, TypeOK, Running, Labels, QPols, OfStage, Chal
<1>8. ASSUME Stage3Skipped PROVE StampsInv'
  BY <1>8 DEF Stage3Skipped, IInv, StampsInv, TypeOK, Running, Labels, QPols, OfStage
<1>9. ASSUME Stage3Commit PROVE StampsInv'
  BY <1>9
  DEF Stage3Commit, commit, commitAndAbsorb, IInv, StampsInv, TypeOK, Running, Labels,
      QPols, OfStage
<1>10. ASSUME Stage4Challenge PROVE StampsInv'
  BY <1>10
  DEF Stage4Challenge, getChallenge, IInv, StampsInv, TypeOK, Running, Labels, QPols,
      OfStage
<1>11. ASSUME Stage4Commit PROVE StampsInv'
  BY <1>11
  DEF Stage4Commit, commit, IInv, StampsInv, TypeOK, Running, Labels, QPols, OfStage
<1>12. ASSUME XiSeed PROVE StampsInv'
  BY <1>12
  DEF XiSeed, getChallenge, IInv, StampsInv, TypeOK, Running, Labels, QPols, OfStage
<1>13. ASSUME CalculateEvaluations PROVE StampsInv'
  BY <1>13
  DEF CalculateEvaluations, IInv, StampsInv, TypeOK, Running, Labels, QPols, OfStage
<1>14. ASSUME ComputeChallengeAlpha PROVE StampsInv'
  BY <1>14
  DEF ComputeChallengeAlpha, getChallenge, IInv, StampsInv, TypeOK, Running, Labels,
      QPols, OfStage
<1>15. ASSUME ComputeW PROVE StampsInv'
  BY <1>15 DEF ComputeW, IInv, StampsInv, TypeOK, Running, Labels, QPols, OfStage
<1>16. ASSUME ComputeChallengeY PROVE StampsInv'
  BY <1>16
  DEF ComputeChallengeY, getChallenge, IInv, StampsInv, TypeOK, Running, Labels, QPols,
      OfStage
<1>17. ASSUME ComputeWp PROVE StampsInv'
  BY <1>17 DEF ComputeWp, IInv, StampsInv, TypeOK, Running, Labels, QPols, OfStage
<1>18. ASSUME getMontgomeryBatchedInverse PROVE StampsInv'
  BY <1>18
  DEF getMontgomeryBatchedInverse, IInv, StampsInv, TypeOK, Running, Labels, QPols,
      OfStage
<1>19. ASSUME Return PROVE StampsInv'
  BY <1>19 DEF Return, IInv, StampsInv, TypeOK, Running, Labels, QPols, OfStage
<1>20. ASSUME Exit PROVE StampsInv'
  BY <1>20 DEF Exit, IInv, StampsInv, TypeOK, Running, Labels, QPols, OfStage
<1>21. CASE UNCHANGED vars
  BY <1>21 DEF vars, IInv, StampsInv, TypeOK, Running, Labels, QPols, OfStage
<1> QED
  BY <1>1, <1>2, <1>3, <1>4, <1>5, <1>6, <1>7, <1>8, <1>9, <1>10, <1>11, <1>12, <1>13,
     <1>14, <1>15, <1>16, <1>17, <1>18, <1>19, <1>20, <1>21
  DEF Next, Stages, Open, Stopped

\* Every step keeps each value of this proof existing from its own label on.
LEMMA ProgressStep ==
  ASSUME TypeOK, TypeOK', IInv, [Next]_vars
  PROVE  ProgressInv'
<1> USE CircuitStep, StagesOfZf, Ranks, Rounds, ConstantsAssumption
    DEF shplonk, Stamp, Unset, ConstantsAssumption
<1>1. ASSUME Prove PROVE ProgressInv'
  BY <1>1 DEF Prove, IInv, StampsInv, ProgressInv, TypeOK, Running, Labels, OfStage
<1>2. ASSUME Stage0 PROVE ProgressInv'
  BY <1>2 DEF Stage0, IInv, StampsInv, ProgressInv, TypeOK, Running, Labels, OfStage
<1>3. ASSUME Stage1 PROVE ProgressInv'
  <2>1. pc = "stage1" /\ pc' = "stage2" /\ UNCHANGED <<proof, publics, evaluations>>
    BY <1>3 DEF Stage1
  <2>2. \A n \in F \cup {"W", "Wp"} :
           commitments'[n] = IF n \in OfStage(1) THEN proof ELSE commitments[n]
    <3>1. CASE conf.cm1
      BY <3>1, <1>3 DEF Stage1, commit, TypeOK
    <3>2. CASE ~conf.cm1
      <4>1. OfStage(1) = {}
        BY <3>2 DEF OfStage
      <4>2. commitments' = commitments
        BY <3>2, <1>3 DEF Stage1
      <4> QED
        BY <4>1, <4>2
    <3> QED
      BY <3>1, <3>2
  <2> QED
    BY <2>1, <2>2 DEF IInv, StampsInv, ProgressInv, Running, Labels, TypeOK, OfStage
<1>4. ASSUME Stage2Challenges PROVE ProgressInv'
  <2>1. /\ challenges'["alpha"].proof = proof
        /\ challenges'["alpha"].binds = transcript.binds
        /\ challenges'["beta"].proof = proof
        /\ challenges'["beta"].binds = transcript.binds
        /\ \A c \in Chal \ {"alpha", "beta"} : challenges'[c] = challenges[c]
        /\ transcript'.binds = transcript.binds
    BY <1>4, PairStep DEF Stage2Challenges, Chal
  <2>2. /\ pc = "stage2" /\ Stage2Runs
        /\ pc' = IF HasCm2 THEN "stage2pols" ELSE "stage3"
        /\ UNCHANGED <<conf, proof, publics, shplonk, nonCommittedPols, result>>
    BY <1>4 DEF Stage2Challenges
  <2> QED
    BY <2>1, <2>2 DEF IInv, StampsInv, ProgressInv, TypeOK, Running, Labels, OfStage, Chal
<1>5. ASSUME Stage2Skipped PROVE ProgressInv'
  BY <1>5
  DEF Stage2Skipped, Stage2Runs, IInv, StampsInv, ProgressInv, TypeOK, Running, Labels,
      OfStage
<1>6. ASSUME Stage2Commit PROVE ProgressInv'
  BY <1>6
  DEF Stage2Commit, commit, commitAndAbsorb, IInv, StampsInv, ProgressInv, TypeOK,
      Running, Labels, OfStage
<1>7. ASSUME Stage3Challenges PROVE ProgressInv'
  <2>1. /\ challenges'["gamma"].proof = proof
        /\ challenges'["gamma"].binds = transcript.binds
        /\ challenges'["delta"].proof = proof
        /\ challenges'["delta"].binds = transcript.binds
        /\ \A c \in Chal \ {"gamma", "delta"} : challenges'[c] = challenges[c]
        /\ transcript'.binds = transcript.binds
    BY <1>7, PairStep DEF Stage3Challenges, Chal
  <2>2. /\ pc = "stage3" /\ HasCm3
        /\ pc' = "stage3pols"
        /\ UNCHANGED <<conf, proof, publics, shplonk, nonCommittedPols, result>>
    BY <1>7 DEF Stage3Challenges
  <2> QED
    BY <2>1, <2>2 DEF IInv, StampsInv, ProgressInv, TypeOK, Running, Labels, OfStage, Chal
<1>8. ASSUME Stage3Skipped PROVE ProgressInv'
  BY <1>8
  DEF Stage3Skipped, IInv, StampsInv, ProgressInv, TypeOK, Running, Labels, OfStage
<1>9. ASSUME Stage3Commit PROVE ProgressInv'
  BY <1>9
  DEF Stage3Commit, commit, commitAndAbsorb, IInv, StampsInv, ProgressInv, TypeOK,
      Running, Labels, OfStage
<1>10. ASSUME Stage4Challenge PROVE ProgressInv'
  BY <1>10
  DEF Stage4Challenge, getChallenge, IInv, StampsInv, ProgressInv, TypeOK, Running,
      Labels, OfStage
<1>11. ASSUME Stage4Commit PROVE ProgressInv'
  BY <1>11
  DEF Stage4Commit, commit, IInv, StampsInv, ProgressInv, TypeOK, Running, Labels,
      OfStage
<1>12. ASSUME XiSeed PROVE ProgressInv'
  BY <1>12
  DEF XiSeed, getChallenge, IInv, StampsInv, ProgressInv, TypeOK, Running, Labels,
      OfStage
<1>13. ASSUME CalculateEvaluations PROVE ProgressInv'
  BY <1>13
  DEF CalculateEvaluations, IInv, StampsInv, ProgressInv, TypeOK, Running, Labels,
      OfStage
<1>14. ASSUME ComputeChallengeAlpha PROVE ProgressInv'
  BY <1>14
  DEF ComputeChallengeAlpha, getChallenge, IInv, StampsInv, ProgressInv, TypeOK,
      Running, Labels, OfStage
<1>15. ASSUME ComputeW PROVE ProgressInv'
  BY <1>15 DEF ComputeW, IInv, StampsInv, ProgressInv, TypeOK, Running, Labels, OfStage
<1>16. ASSUME ComputeChallengeY PROVE ProgressInv'
  BY <1>16
  DEF ComputeChallengeY, getChallenge, IInv, StampsInv, ProgressInv, TypeOK, Running,
      Labels, OfStage
<1>17. ASSUME ComputeWp PROVE ProgressInv'
  BY <1>17 DEF ComputeWp, IInv, StampsInv, ProgressInv, TypeOK, Running, Labels, OfStage
<1>18. ASSUME getMontgomeryBatchedInverse PROVE ProgressInv'
  BY <1>18
  DEF getMontgomeryBatchedInverse, IInv, StampsInv, ProgressInv, TypeOK, Running,
      Labels, OfStage
<1>19. ASSUME Return PROVE ProgressInv'
  BY <1>19 DEF Return, IInv, StampsInv, ProgressInv, TypeOK, Running, Labels, OfStage
<1>20. ASSUME Exit PROVE ProgressInv'
  BY <1>20 DEF Exit, IInv, StampsInv, ProgressInv, TypeOK, Running, Labels, OfStage
<1>21. CASE UNCHANGED vars
  BY <1>21 DEF vars, IInv, StampsInv, ProgressInv, TypeOK, Running, Labels, OfStage
<1> QED
  BY <1>1, <1>2, <1>3, <1>4, <1>5, <1>6, <1>7, <1>8, <1>9, <1>10, <1>11, <1>12, <1>13,
     <1>14, <1>15, <1>16, <1>17, <1>18, <1>19, <1>20, <1>21
  DEF Next, Stages, Open, Stopped

\* Every step keeps each challenge drawn from its own label on, never before.
LEMMA DrawnStep ==
  ASSUME TypeOK, TypeOK', IInv, [Next]_vars
  PROVE  DrawnInv'
<1> USE CircuitStep, StagesOfZf, Ranks, Rounds, ConstantsAssumption
    DEF shplonk, Stamp, Unset, ConstantsAssumption
<1>1. ASSUME Prove PROVE DrawnInv'
  BY <1>1 DEF Prove, IInv, StampsInv, DrawnInv, TypeOK, Running, Labels, Drawn
<1>2. ASSUME Stage0 PROVE DrawnInv'
  <2>1. \A k \in Chal : Drawn(k)' <=> Drawn(k)
    BY <1>2 DEF Stage0, Drawn
  <2> QED
    BY <1>2, <2>1 DEF Stage0, IInv, DrawnInv, Running, Labels, TypeOK, Chal
<1>3. ASSUME Stage1 PROVE DrawnInv'
  <2>1. \A k \in Chal : Drawn(k)' <=> Drawn(k)
    BY <1>3 DEF Stage1, Drawn
  <2> QED
    BY <1>3, <2>1 DEF Stage1, IInv, DrawnInv, Running, Labels, TypeOK, Chal
<1>4. ASSUME Stage2Challenges PROVE DrawnInv'
  <2>1. /\ challenges'["alpha"].proof = proof
        /\ challenges'["alpha"].binds = transcript.binds
        /\ challenges'["beta"].proof = proof
        /\ challenges'["beta"].binds = transcript.binds
        /\ \A c \in Chal \ {"alpha", "beta"} : challenges'[c] = challenges[c]
        /\ transcript'.binds = transcript.binds
    BY <1>4, PairStep DEF Stage2Challenges, Chal
  <2>2. /\ pc = "stage2" /\ Stage2Runs
        /\ pc' = IF HasCm2 THEN "stage2pols" ELSE "stage3"
        /\ UNCHANGED <<conf, proof, publics, shplonk, nonCommittedPols, result>>
    BY <1>4 DEF Stage2Challenges
  <2> QED
    BY <2>1, <2>2 DEF IInv, StampsInv, DrawnInv, TypeOK, Running, Labels, Drawn, Chal
<1>5. ASSUME Stage2Skipped PROVE DrawnInv'
  <2>1. \A k \in Chal : Drawn(k)' <=> Drawn(k)
    BY <1>5 DEF Stage2Skipped, Drawn
  <2> QED
    BY <1>5, <2>1 DEF Stage2Skipped, IInv, DrawnInv, Running, Labels, TypeOK, Chal
<1>6. ASSUME Stage2Commit PROVE DrawnInv'
  <2>1. \A k \in Chal : Drawn(k)' <=> Drawn(k)
    BY <1>6 DEF Stage2Commit, Drawn, commitAndAbsorb
  <2> QED
    BY <1>6, <2>1 DEF Stage2Commit, IInv, DrawnInv, Running, Labels, TypeOK, Chal
<1>7. ASSUME Stage3Challenges PROVE DrawnInv'
  <2>1. /\ challenges'["gamma"].proof = proof
        /\ challenges'["gamma"].binds = transcript.binds
        /\ challenges'["delta"].proof = proof
        /\ challenges'["delta"].binds = transcript.binds
        /\ \A c \in Chal \ {"gamma", "delta"} : challenges'[c] = challenges[c]
        /\ transcript'.binds = transcript.binds
    BY <1>7, PairStep DEF Stage3Challenges, Chal
  <2>2. /\ pc = "stage3" /\ HasCm3
        /\ pc' = "stage3pols"
        /\ UNCHANGED <<conf, proof, publics, shplonk, nonCommittedPols, result>>
    BY <1>7 DEF Stage3Challenges
  <2> QED
    BY <2>1, <2>2 DEF IInv, StampsInv, DrawnInv, TypeOK, Running, Labels, Drawn, Chal
<1>8. ASSUME Stage3Skipped PROVE DrawnInv'
  <2>1. \A k \in Chal : Drawn(k)' <=> Drawn(k)
    BY <1>8 DEF Stage3Skipped, Drawn
  <2> QED
    BY <1>8, <2>1 DEF Stage3Skipped, IInv, DrawnInv, Running, Labels, TypeOK, Chal
<1>9. ASSUME Stage3Commit PROVE DrawnInv'
  <2>1. \A k \in Chal : Drawn(k)' <=> Drawn(k)
    BY <1>9 DEF Stage3Commit, Drawn, commitAndAbsorb
  <2> QED
    BY <1>9, <2>1 DEF Stage3Commit, IInv, DrawnInv, Running, Labels, TypeOK, Chal
<1>10. ASSUME Stage4Challenge PROVE DrawnInv'
  <2> DEFINE t == transcript
  <2>1. challenges' = [challenges EXCEPT !["a"] = getChallenge(t)]
    BY <1>10 DEF Stage4Challenge
  <2> HIDE DEF t
  <2>2. /\ challenges'["a"].proof = proof /\ challenges'["a"].binds = t.binds
        /\ \A c \in Chal \ {"a"} : challenges'[c] = challenges[c]
    BY <2>1, SingleStep DEF Chal
  <2> QED
    BY <1>10, <2>2
    DEF Stage4Challenge, IInv, StampsInv, DrawnInv, TypeOK, Running, Labels, Drawn, Chal
<1>11. ASSUME Stage4Commit PROVE DrawnInv'
  <2>1. \A k \in Chal : Drawn(k)' <=> Drawn(k)
    BY <1>11 DEF Stage4Commit, Drawn
  <2> QED
    BY <1>11, <2>1 DEF Stage4Commit, IInv, DrawnInv, Running, Labels, TypeOK, Chal
<1>12. ASSUME XiSeed PROVE DrawnInv'
  <2> DEFINE t == transcript'
  <2>1. challenges' = [challenges EXCEPT !["xiSeed"] = getChallenge(t)]
    BY <1>12 DEF XiSeed
  <2> HIDE DEF t
  <2>2. /\ challenges'["xiSeed"].proof = proof /\ challenges'["xiSeed"].binds = t.binds
        /\ \A c \in Chal \ {"xiSeed"} : challenges'[c] = challenges[c]
    BY <2>1, SingleStep DEF Chal
  <2> QED
    BY <1>12, <2>2
    DEF XiSeed, IInv, StampsInv, DrawnInv, TypeOK, Running, Labels, Drawn, Chal
<1>13. ASSUME CalculateEvaluations PROVE DrawnInv'
  <2>1. \A k \in Chal : Drawn(k)' <=> Drawn(k)
    BY <1>13 DEF CalculateEvaluations, Drawn
  <2> QED
    BY <1>13, <2>1 DEF CalculateEvaluations, IInv, DrawnInv, Running, Labels, TypeOK, Chal
<1>14. ASSUME ComputeChallengeAlpha PROVE DrawnInv'
  <2> DEFINE t == add(addChallenge(reset, "xiSeed", challenges["xiSeed"]),
                      {Ev(f) : f \in Zf \ nonCommittedPols})
  <2>1. challenges' = [challenges EXCEPT !["shAlpha"] = getChallenge(t)]
    BY <1>14 DEF ComputeChallengeAlpha
  <2> HIDE DEF t
  <2>2. /\ challenges'["shAlpha"].proof = proof /\ challenges'["shAlpha"].binds = t.binds
        /\ \A c \in Chal \ {"shAlpha"} : challenges'[c] = challenges[c]
    BY <2>1, SingleStep DEF Chal
  <2> QED
    BY <1>14, <2>2
    DEF ComputeChallengeAlpha, IInv, StampsInv, DrawnInv, TypeOK, Running, Labels,
        Drawn, Chal
<1>15. ASSUME ComputeW PROVE DrawnInv'
  <2>1. \A k \in Chal : Drawn(k)' <=> Drawn(k)
    BY <1>15 DEF ComputeW, Drawn
  <2> QED
    BY <1>15, <2>1 DEF ComputeW, IInv, DrawnInv, Running, Labels, TypeOK, Chal
<1>16. ASSUME ComputeChallengeY PROVE DrawnInv'
  <2> DEFINE t == add(addChallenge(reset, "shAlpha", challenges["shAlpha"]), {Com("W")})
  <2>1. challenges' = [challenges EXCEPT !["y"] = getChallenge(t)]
    BY <1>16 DEF ComputeChallengeY
  <2> HIDE DEF t
  <2>2. /\ challenges'["y"].proof = proof /\ challenges'["y"].binds = t.binds
        /\ \A c \in Chal \ {"y"} : challenges'[c] = challenges[c]
    BY <2>1, SingleStep DEF Chal
  <2> QED
    BY <1>16, <2>2
    DEF ComputeChallengeY, IInv, StampsInv, DrawnInv, TypeOK, Running, Labels, Drawn,
        Chal
<1>17. ASSUME ComputeWp PROVE DrawnInv'
  <2>1. \A k \in Chal : Drawn(k)' <=> Drawn(k)
    BY <1>17 DEF ComputeWp, Drawn
  <2> QED
    BY <1>17, <2>1 DEF ComputeWp, IInv, DrawnInv, Running, Labels, TypeOK, Chal
<1>18. ASSUME getMontgomeryBatchedInverse PROVE DrawnInv'
  <2>1. \A k \in Chal : Drawn(k)' <=> Drawn(k)
    BY <1>18 DEF getMontgomeryBatchedInverse, Drawn
  <2> QED
    BY <1>18, <2>1
    DEF getMontgomeryBatchedInverse, IInv, DrawnInv, Running, Labels, TypeOK, Chal
<1>19. ASSUME Return PROVE DrawnInv'
  <2>1. \A k \in Chal : Drawn(k)' <=> Drawn(k)
    BY <1>19 DEF Return, Drawn
  <2> QED
    BY <1>19, <2>1 DEF Return, IInv, DrawnInv, Running, Labels, TypeOK, Chal
<1>20. ASSUME Exit PROVE DrawnInv'
  <2>1. \A k \in Chal : Drawn(k)' <=> Drawn(k)
    BY <1>20 DEF Exit, Drawn
  <2> QED
    BY <1>20, <2>1 DEF Exit, IInv, DrawnInv, Running, Labels, TypeOK, Chal
<1>21. CASE UNCHANGED vars
  BY <1>21 DEF vars, IInv, StampsInv, DrawnInv, TypeOK, Running, Labels, Drawn
<1> QED
  BY <1>1, <1>2, <1>3, <1>4, <1>5, <1>6, <1>7, <1>8, <1>9, <1>10, <1>11, <1>12, <1>13,
     <1>14, <1>15, <1>16, <1>17, <1>18, <1>19, <1>20, <1>21
  DEF Next, Stages, Open, Stopped

\* What a prover says before round r, round by round.
LEMMA BeforeSteps ==
  /\ Before(1) = {Pub(i) : i \in PubIds} \cup {Com(f) : f \in OfStage(0)}
  /\ \A r \in {1, 2, 3, 4} : Before(r + 1) = Before(r) \cup {Com(f) : f \in OfStage(r)}
  /\ Before(6) = Before(5) \cup {Ev(f) : f \in Zf \ QPols}
  /\ Before(7) = Before(6) \cup {Com("W")}
<1> USE StagesOfZf
<1>1. Before(1) = {Pub(i) : i \in PubIds} \cup {Com(f) : f \in OfStage(0)}
  BY DEF Before, OfStage
<1>2. ASSUME NEW r \in {1, 2, 3, 4}
      PROVE  Before(r + 1) = Before(r) \cup {Com(f) : f \in OfStage(r)}
  BY DEF Before, OfStage
<1>3. Before(6) = Before(5) \cup {Ev(f) : f \in Zf \ QPols}
  BY DEF Before
<1>4. Before(7) = Before(6) \cup {Com("W")}
  BY DEF Before
<1> QED
  BY <1>1, <1>2, <1>3, <1>4

\* It does not change in a step that recomputes none of it.
LEMMA BeforeFrame ==
  ASSUME [Next]_vars, NEW r \in {1, 2, 3, 4, 5, 6, 7},
         publics' = publics,
         \A f \in Zf : StageOf[f] < r => commitments'[f] = commitments[f],
         r > 5 => \A f \in Zf : evaluations'[f] = evaluations[f],
         r > 6 => commitments'["W"] = commitments["W"]
  PROVE  Before(r)' = Before(r)
<1>1. Zf' = Zf /\ QPols' = QPols
  BY CircuitStep
<1>2. {Pub(i) : i \in PubIds}' = {Pub(i) : i \in PubIds}
  BY DEF Pub, PubIds
<1>3. {Com(f) : f \in {g \in Zf : StageOf[g] < r}}' = {Com(f) : f \in {g \in Zf : StageOf[g] < r}}
  BY <1>1 DEF Com
<1>4. r > 5 => {Ev(f) : f \in Zf \ QPols}' = {Ev(f) : f \in Zf \ QPols}
  BY <1>1 DEF Ev
<1>5. r > 6 => {Com("W")}' = {Com("W")}
  BY DEF Com
<1> QED
  BY <1>1, <1>2, <1>3, <1>4, <1>5 DEF Before

\* When round r is drawn, all of it is of this proof, but for the setup's.
LEMMA BeforeIsFresh ==
  ASSUME TypeOK, StampsInv, ProgressInv, Running,
         NEW r \in {2, 3, 4, 5, 6, 7}, Rank[pc] >= 2 * (r - 1),
         NEW p \in Before(r)
  PROVE  p[3] = IF p[1] = "com" /\ p[2] \in OfStage(0) THEN 0 ELSE proof
<1> USE Ranks, StagesOfZf
<1>0. Rank[pc] \in Nat /\ Rank[pc] >= 2
  BY DEF Running, Labels
<1>1. ASSUME NEW i \in PubIds, p = Pub(i) PROVE p[3] = proof /\ p[1] = "pub"
  BY <1>0, <1>1 DEF Pub, ProgressInv
<1>2. ASSUME NEW f \in Zf, StageOf[f] < r, p = Com(f)
      PROVE  p[3] = IF p[1] = "com" /\ p[2] \in OfStage(0) THEN 0 ELSE proof
  BY <1>0, <1>2 DEF Com, ProgressInv, StampsInv, OfStage
<1>3. ASSUME r > 5, NEW f \in Zf, p = Ev(f) PROVE p[3] = proof /\ p[1] = "ev"
  BY <1>0, <1>3 DEF Ev, ProgressInv
<1>4. ASSUME r > 6, p = Com("W") PROVE p[3] = proof /\ p[2] \notin OfStage(0)
  BY <1>0, <1>4, ConstantsAssumption DEF Com, ProgressInv, OfStage, ConstantsAssumption
<1> QED
  BY <1>1, <1>2, <1>3, <1>4 DEF Before

\* Committing the polynomials of stage r takes it from round r to round r + 1.
LEMMA BeforeGrows ==
  ASSUME [Next]_vars, NEW r \in {1, 2, 3, 4},
         publics' = publics,
         \A f \in Zf : StageOf[f] < r => commitments'[f] = commitments[f]
  PROVE  Before(r + 1)' = Before(r) \cup {Com(f)' : f \in OfStage(r)}
<1>1. Before(r + 1)' = Before(r)' \cup {Com(f)' : f \in OfStage(r)}
  <2>1. Zf' = Zf /\ QPols' = QPols
    BY CircuitStep
  <2> QED
    BY <2>1, StagesOfZf DEF Before, OfStage
<1>2. Before(r)' = Before(r)
  BY BeforeFrame
<1> QED
  BY <1>1, <1>2

\* What the transcript depends on is what the prover said before the round of
\* its label.
LEMMA TranscriptStep ==
  ASSUME TypeOK, TypeOK', IInv, [Next]_vars
  PROVE  TranscriptInv'
<1> USE CircuitStep, StagesOfZf
<1>0. ASSUME NEW t, NEW A PROVE add(t, A).binds = t.binds \cup A
  BY DEF add
<1>1. ASSUME Prove PROVE TranscriptInv'
  BY <1>1 DEF Prove, TranscriptInv, reset
<1>2. ASSUME Stage0 PROVE TranscriptInv'
  <2>1. /\ pc = "stage0" /\ pc' = "stage1" /\ UNCHANGED commitments
        /\ transcript'.binds = transcript.binds
             \cup ((IF conf.consts THEN {Com(f) : f \in OfStage(0)} ELSE {})
                      \cup {Pub(i)' : i \in PubIds})
    BY <1>0, <1>2 DEF Stage0, shplonk
  <2>2. transcript.binds = {}
    BY <2>1 DEF IInv, TranscriptInv
  <2>3. ~conf.consts => OfStage(0) = {}
    BY DEF OfStage
  <2>4. {Com(f) : f \in OfStage(0)} = {Com(f)' : f \in OfStage(0)}
    BY <2>1 DEF Com
  <2>5. Before(1)' = {Pub(i)' : i \in PubIds} \cup {Com(f)' : f \in OfStage(0)}
    <3>1. (Before(1) = {Pub(i) : i \in PubIds} \cup {Com(f) : f \in OfStage(0)})'
      BY BeforeSteps, PTL
    <3> QED
      BY <3>1 DEF PubIds
  <2>6. transcript'.binds = Before(1)'
    BY <2>1, <2>2, <2>3, <2>4, <2>5
  <2> QED
    BY <2>1, <2>6 DEF TranscriptInv
<1>3. ASSUME Stage1 PROVE TranscriptInv'
  <2>1. /\ pc = "stage1" /\ pc' = "stage2"
        /\ transcript'.binds = transcript.binds \cup {Com(f)' : f \in OfStage(1)}
    BY <1>0, <1>3 DEF Stage1
  <2>2. Before(1 + 1)' = Before(1) \cup {Com(f)' : f \in OfStage(1)}
    <3>1. \A f \in Zf : StageOf[f] < 1 => commitments'[f] = commitments[f]
      BY <1>3 DEF Stage1, commit, OfStage, TypeOK
    <3> QED
      BY <3>1, <1>3, BeforeGrows DEF Stage1
  <2>3. transcript.binds = Before(1)
    BY <2>1 DEF IInv, TranscriptInv
  <2> QED
    BY <2>1, <2>2, <2>3 DEF TranscriptInv
<1>4. ASSUME Stage2Challenges PROVE TranscriptInv'
  <2>1. pc = "stage2" /\ pc' = IF HasCm2 THEN "stage2pols" ELSE "stage3"
    BY <1>4 DEF Stage2Challenges
  <2>2. transcript'.binds = Before(2)
    BY <1>4, <2>1, PairStep DEF Stage2Challenges, IInv, TranscriptInv, Chal
  <2>3. Before(2)' = Before(2)
    BY <1>4, BeforeFrame DEF Stage2Challenges, shplonk
  <2>4. ~HasCm2 => Before(2 + 1)' = Before(2)
    <3>1. ~HasCm2 => OfStage(2) = {}
      BY DEF OfStage
    <3> QED
      BY <1>4, <3>1, BeforeGrows DEF Stage2Challenges, shplonk
  <2> QED
    BY <2>1, <2>2, <2>3, <2>4 DEF TranscriptInv
<1>5. ASSUME Stage2Skipped PROVE TranscriptInv'
  <2>1. pc = "stage2" /\ pc' = "stage3" /\ transcript'.binds = Before(2)
    BY <1>5 DEF Stage2Skipped, IInv, TranscriptInv
  <2>2. OfStage(2) = {}
    BY <1>5 DEF Stage2Skipped, Stage2Runs, OfStage
  <2>3. Before(2 + 1)' = Before(2)
    BY <1>5, <2>2, BeforeGrows DEF Stage2Skipped, shplonk
  <2> QED
    BY <2>1, <2>3 DEF TranscriptInv
<1>6. ASSUME NEW s \in {1, 2, 3, 4}, commitAndAbsorb(s), transcript.binds = Before(s)
      PROVE  transcript'.binds = Before(s + 1)'
  <2>1. transcript'.binds = transcript.binds \cup {Com(f)' : f \in OfStage(s)}
    BY <1>0, <1>6 DEF commitAndAbsorb
  <2>2. \A f \in Zf : StageOf[f] < s => commitments'[f] = commitments[f]
    BY <1>6 DEF commitAndAbsorb, commit, OfStage, TypeOK
  <2> QED
    BY <1>6, <2>1, <2>2, BeforeGrows DEF commitAndAbsorb
<1>7. ASSUME Stage2Commit PROVE TranscriptInv'
  BY <1>6, <1>7 DEF Stage2Commit, IInv, TranscriptInv
<1>8. ASSUME Stage3Challenges PROVE TranscriptInv'
  <2>1. pc = "stage3" /\ pc' = "stage3pols"
    BY <1>8 DEF Stage3Challenges
  <2>2. transcript'.binds = Before(3)
    BY <1>8, <2>1, PairStep DEF Stage3Challenges, IInv, TranscriptInv, Chal
  <2>3. Before(3)' = Before(3)
    BY <1>8, BeforeFrame DEF Stage3Challenges, shplonk
  <2> QED
    BY <2>1, <2>2, <2>3 DEF TranscriptInv
<1>9. ASSUME Stage3Skipped PROVE TranscriptInv'
  <2>1. pc = "stage3" /\ pc' = "stage4" /\ transcript'.binds = Before(3)
    BY <1>9 DEF Stage3Skipped, IInv, TranscriptInv
  <2>2. OfStage(3) = {}
    BY <1>9 DEF Stage3Skipped, OfStage
  <2>3. Before(3 + 1)' = Before(3)
    BY <1>9, <2>2, BeforeGrows DEF Stage3Skipped, shplonk
  <2> QED
    BY <2>1, <2>3 DEF TranscriptInv
<1>10. ASSUME Stage3Commit PROVE TranscriptInv'
  BY <1>6, <1>10 DEF Stage3Commit, IInv, TranscriptInv
<1>11. ASSUME \/ Stage4Challenge \/ Stage4Commit \/ XiSeed \/ Open \/ Return \/ Exit
       PROVE  TranscriptInv'
  BY <1>11 DEF Stage4Challenge, Stage4Commit, XiSeed, Open, CalculateEvaluations,
       ComputeChallengeAlpha, ComputeW, ComputeChallengeY, ComputeWp,
       getMontgomeryBatchedInverse, Return, Exit, TranscriptInv
<1>12. ASSUME UNCHANGED vars PROVE TranscriptInv'
  <2>1. \A r \in {1, 2, 3, 4} : Before(r)' = Before(r)
    BY <1>12, BeforeFrame DEF vars
  <2> QED
    BY <1>12, <2>1 DEF vars, IInv, TranscriptInv
<1> QED
  BY <1>1, <1>2, <1>3, <1>4, <1>5, <1>7, <1>8, <1>9, <1>10, <1>11, <1>12
     DEF Next, Stages, Stopped

\* A challenge drawn earlier in this proof still binds what it bound, in a step
\* that recomputes only what is said from its round on.
LEMMA StillBinds ==
  ASSUME IInv, [Next]_vars, NEW k \in Chal, Drawn(k),
         challenges'[k] = challenges[k],
         publics' = publics,
         \A f \in Zf : StageOf[f] < Round[k] => commitments'[f] = commitments[f],
         Round[k] > 5 => \A f \in Zf : evaluations'[f] = evaluations[f],
         Round[k] > 6 => commitments'["W"] = commitments["W"]
  PROVE  challenges'[k].binds = Before(Round[k])'
<1>1. Round[k] \in {1, 2, 3, 4, 5, 6, 7}
  BY Rounds
<1>2. Before(Round[k])' = Before(Round[k])
  BY <1>1, BeforeFrame
<1> QED
  BY <1>2 DEF IInv, ChallengesBindTheProof

\* What each challenge of the proof binds when it is drawn.
LEMMA BindsStep ==
  ASSUME TypeOK, TypeOK', IInv, [Next]_vars
  PROVE  ChallengesBindTheProof'
<1> USE CircuitStep, StagesOfZf, Ranks, Rounds DEF Labels
<1> SUFFICES ASSUME NEW k \in Chal, Drawn(k)'
             PROVE  challenges'[k].binds = Before(Round[k])'
  BY DEF ChallengesBindTheProof, Round
<1>1. ASSUME Prove PROVE FALSE
  BY <1>1 DEF Prove, Drawn, IInv, StampsInv, TypeOK
<1>2. ASSUME UNCHANGED <<proof, challenges>>
      PROVE  Drawn(k) /\ challenges'[k] = challenges[k]
  BY <1>2 DEF Drawn
<1>3. ASSUME Running, Drawn(k)
      PROVE  Rank[pc] > 2 * (Round[k] - 1)
  BY <1>3 DEF IInv, DrawnInv
<1>4. ASSUME Drawn(k), challenges'[k] = challenges[k],
             UNCHANGED <<publics, commitments, evaluations>>
      PROVE  challenges'[k].binds = Before(Round[k])'
  BY <1>4, StillBinds
<1>5. ASSUME Stage0 PROVE FALSE
  <2>1. Drawn(k) /\ pc = "stage0"
    BY <1>2, <1>5 DEF Stage0
  <2> QED
    BY <1>3, <2>1 DEF Running
<1>6. ASSUME Stage1 PROVE FALSE
  <2>1. Drawn(k) /\ pc = "stage1"
    BY <1>2, <1>6 DEF Stage1
  <2> QED
    BY <1>3, <2>1 DEF Running
<1>7. ASSUME NEW s \in {2, 3, 4}, commit(s), Running, Rank[pc] = 2 * s - 1,
             UNCHANGED <<proof, publics, challenges, evaluations>>
      PROVE  challenges'[k].binds = Before(Round[k])'
  <2>1. Drawn(k) /\ challenges'[k] = challenges[k]
    BY <1>2, <1>7
  <2>2. Round[k] <= s /\ Round[k] <= 5
    BY <1>3, <1>7, <2>1
  <2>3. \A f \in Zf : StageOf[f] < Round[k] => commitments'[f] = commitments[f]
    BY <1>7, <2>2 DEF commit, OfStage, TypeOK
  <2> QED
    BY <1>7, <2>1, <2>2, <2>3, StillBinds
<1>8. ASSUME Stage2Commit \/ Stage3Commit PROVE challenges'[k].binds = Before(Round[k])'
  <2>1. CASE Stage2Commit
    BY <1>7, <2>1 DEF Stage2Commit, commitAndAbsorb, Running
  <2>2. CASE Stage3Commit
    BY <1>7, <2>2 DEF Stage3Commit, commitAndAbsorb, Running
  <2> QED
    BY <1>8, <2>1, <2>2
<1>9. ASSUME Stage4Commit PROVE challenges'[k].binds = Before(Round[k])'
  BY <1>7, <1>9 DEF Stage4Commit, Running
<1>10. ASSUME Stage2Challenges PROVE challenges'[k].binds = Before(Round[k])'
  <2>1. /\ challenges'["alpha"].binds = transcript.binds
        /\ challenges'["beta"].binds = transcript.binds
        /\ \A c \in Chal \ {"alpha", "beta"} : challenges'[c] = challenges[c]
    BY <1>10, PairStep DEF Stage2Challenges, Chal
  <2>2. UNCHANGED <<proof, publics, commitments, evaluations>>
    BY <1>10 DEF Stage2Challenges, shplonk
  <2>3. CASE k \in {"alpha", "beta"}
    <3>1. Before(2)' = Before(2)
      BY <2>2, BeforeFrame
    <3>2. transcript.binds = Before(2)
      BY <1>10 DEF Stage2Challenges, IInv, TranscriptInv
    <3> QED
      BY <2>1, <2>3, <3>1, <3>2
  <2>4. CASE k \notin {"alpha", "beta"}
    BY <1>4, <2>1, <2>2, <2>4 DEF Drawn
  <2> QED
    BY <2>3, <2>4
<1>11. ASSUME Stage3Challenges PROVE challenges'[k].binds = Before(Round[k])'
  <2>1. /\ challenges'["gamma"].binds = transcript.binds
        /\ challenges'["delta"].binds = transcript.binds
        /\ \A c \in Chal \ {"gamma", "delta"} : challenges'[c] = challenges[c]
    BY <1>11, PairStep DEF Stage3Challenges, Chal
  <2>2. UNCHANGED <<proof, publics, commitments, evaluations>>
    BY <1>11 DEF Stage3Challenges, shplonk
  <2>3. CASE k \in {"gamma", "delta"}
    <3>1. Before(3)' = Before(3)
      BY <2>2, BeforeFrame
    <3>2. transcript.binds = Before(3)
      BY <1>11 DEF Stage3Challenges, IInv, TranscriptInv
    <3> QED
      BY <2>1, <2>3, <3>1, <3>2
  <2>4. CASE k \notin {"gamma", "delta"}
    BY <1>4, <2>1, <2>2, <2>4 DEF Drawn
  <2> QED
    BY <2>3, <2>4
<1>12. ASSUME NEW c \in Chal, NEW t, challenges' = [challenges EXCEPT ![c] = getChallenge(t)],
              UNCHANGED <<proof, publics, commitments, evaluations>>,
              t.binds = Before(Round[c])
       PROVE  challenges'[k].binds = Before(Round[k])'
  <2>1. Before(Round[c])' = Before(Round[c])
    <3>1. Round[c] \in {1, 2, 3, 4, 5, 6, 7}
      OBVIOUS
    <3> QED
      BY <1>12, <3>1, BeforeFrame
  <2>2. CASE k = c
    BY <1>12, <2>1, <2>2, SingleStep
  <2>3. CASE k # c
    <3>1. challenges'[k] = challenges[k]
      BY <1>12, <2>3, SingleStep
    <3> QED
      BY <1>4, <1>12, <3>1 DEF Drawn
  <2> QED
    BY <2>2, <2>3
<1>13. \A t, c, d, A : /\ addChallenge(reset, c, d).binds = d.binds
                       /\ add(t, A).binds = t.binds \cup A
  BY DEF addChallenge, add, reset
<1>14. ASSUME NEW c \in Chal, Drawn(c) PROVE challenges[c].binds = Before(Round[c])
  BY <1>14 DEF IInv, ChallengesBindTheProof
<1>15. ASSUME Stage4Challenge PROVE challenges'[k].binds = Before(Round[k])'
  <2>1. transcript.binds = Before(Round["a"])
    BY <1>15 DEF Stage4Challenge, IInv, TranscriptInv
  <2> QED
    BY <1>12, <1>15, <2>1 DEF Stage4Challenge, shplonk, Chal
<1>16. ASSUME XiSeed PROVE challenges'[k].binds = Before(Round[k])'
  <2>1. Drawn("a")
    BY <1>16 DEF XiSeed, IInv, DrawnInv, Running
  <2>2. challenges["a"].binds = Before(4)
    BY <1>14, <2>1 DEF Chal
  <2>3. transcript'.binds = Before(4) \cup {Com(f) : f \in OfStage(4)}
    BY <1>13, <1>16, <2>2 DEF XiSeed
  <2>4. transcript'.binds = Before(Round["xiSeed"])
    BY <2>3, BeforeSteps
  <2> QED
    BY <1>12, <1>16, <2>4 DEF XiSeed, shplonk, Chal
<1>17. ASSUME ComputeChallengeAlpha PROVE challenges'[k].binds = Before(Round[k])'
  <2> DEFINE t == add(addChallenge(reset, "xiSeed", challenges["xiSeed"]),
                      {Ev(f) : f \in Zf \ nonCommittedPols})
  <2>1. Drawn("xiSeed")
    BY <1>17 DEF ComputeChallengeAlpha, IInv, DrawnInv, Running
  <2>2. challenges["xiSeed"].binds = Before(5)
    BY <1>14, <2>1 DEF Chal
  <2>3. nonCommittedPols = QPols
    BY <2>1 DEF Drawn, IInv, StampsInv
  <2>4. t.binds = Before(Round["shAlpha"])
    <3>1. t.binds = Before(5) \cup {Ev(f) : f \in Zf \ nonCommittedPols}
      BY <2>2 DEF add, addChallenge, reset
    <3> QED
      BY <3>1, <2>3, BeforeSteps
  <2>5. challenges' = [challenges EXCEPT !["shAlpha"] = getChallenge(t)]
    BY <1>17 DEF ComputeChallengeAlpha
  <2> HIDE DEF t
  <2> QED
    BY <1>12, <1>17, <2>4, <2>5 DEF ComputeChallengeAlpha, shplonk, Chal
<1>18. ASSUME ComputeChallengeY PROVE challenges'[k].binds = Before(Round[k])'
  <2> DEFINE t == add(addChallenge(reset, "shAlpha", challenges["shAlpha"]), {Com("W")})
  <2>1. Drawn("shAlpha")
    BY <1>18 DEF ComputeChallengeY, IInv, DrawnInv, Running
  <2>2. challenges["shAlpha"].binds = Before(6)
    BY <1>14, <2>1 DEF Chal
  <2>3. t.binds = Before(Round["y"])
    <3>1. t.binds = Before(6) \cup {Com("W")}
      BY <2>2 DEF add, addChallenge, reset
    <3> QED
      BY <3>1, BeforeSteps
  <2>4. challenges' = [challenges EXCEPT !["y"] = getChallenge(t)]
    BY <1>18 DEF ComputeChallengeY
  <2> HIDE DEF t
  <2> QED
    BY <1>12, <1>18, <2>3, <2>4 DEF ComputeChallengeY, shplonk, Chal
<1>19. ASSUME CalculateEvaluations PROVE challenges'[k].binds = Before(Round[k])'
  <2>1. Drawn(k) /\ challenges'[k] = challenges[k] /\ UNCHANGED <<publics, commitments>>
    BY <1>2, <1>19 DEF CalculateEvaluations
  <2>2. Round[k] <= 5
    BY <1>3, <1>19, <2>1 DEF CalculateEvaluations, Running
  <2> QED
    BY <2>1, <2>2, StillBinds
<1>20. ASSUME ComputeW \/ ComputeWp PROVE challenges'[k].binds = Before(Round[k])'
  <2>1. Drawn(k) /\ challenges'[k] = challenges[k] /\ UNCHANGED <<publics, evaluations>>
    BY <1>2, <1>20 DEF ComputeW, ComputeWp
  <2>2. \A f \in Zf : commitments'[f] = commitments[f]
    BY <1>20, ConstantsAssumption DEF ComputeW, ComputeWp, ConstantsAssumption, TypeOK
  <2>3. Round[k] > 6 => commitments'["W"] = commitments["W"]
    <3>1. CASE ComputeW
      BY <1>3, <2>1, <3>1 DEF ComputeW, Running
    <3>2. CASE ComputeWp
      BY <3>2 DEF ComputeWp, TypeOK
    <3> QED
      BY <1>20, <3>1, <3>2
  <2> QED
    BY <2>1, <2>2, <2>3, StillBinds
<1>21. ASSUME \/ Stage2Skipped \/ Stage3Skipped \/ getMontgomeryBatchedInverse
              \/ Return \/ Exit \/ UNCHANGED vars
       PROVE  challenges'[k].binds = Before(Round[k])'
  <2>1. UNCHANGED <<proof, challenges, publics, commitments, evaluations>>
    BY <1>21 DEF Stage2Skipped, Stage3Skipped, getMontgomeryBatchedInverse, Return, Exit,
                 vars, shplonk
  <2> QED
    BY <1>2, <1>4, <2>1
<1> QED
  BY <1>1, <1>5, <1>6, <1>8, <1>9, <1>10, <1>11, <1>15, <1>16, <1>17, <1>18, <1>19,
     <1>20, <1>21 DEF Next, Stages, Open, Stopped

\* What a step draws is of this proof; what it does not draw is not touched.
LEMMA HashedStep ==
  ASSUME TypeOK, TypeOK', IInv, [Next]_vars, ChallengesBindTheProof'
  PROVE  OnlyThisProofIsHashed'
<1> USE CircuitStep, Ranks, Rounds DEF Labels
<1> SUFFICES ASSUME NEW k \in Chal, Drawn(k)', NEW p \in challenges'[k].binds
             PROVE  p[3] = IF p[1] = "com" /\ p[2] \in OfStage(0) THEN 0 ELSE proof'
  BY DEF OnlyThisProofIsHashed
<1>1. ASSUME Prove PROVE FALSE
  BY <1>1 DEF Prove, Drawn, IInv, StampsInv, TypeOK
<1>2. ASSUME proof' = proof, challenges'[k] = challenges[k]
      PROVE  p[3] = IF p[1] = "com" /\ p[2] \in OfStage(0) THEN 0 ELSE proof'
  BY <1>2 DEF Drawn, IInv, OnlyThisProofIsHashed
<1>3. ASSUME Running, Rank[pc] = 2 * (Round[k] - 1), p \in Before(Round[k]), proof' = proof
      PROVE  p[3] = IF p[1] = "com" /\ p[2] \in OfStage(0) THEN 0 ELSE proof'
  <2>1. Round[k] \in {2, 3, 4, 5, 6, 7} /\ Rank[pc] >= 2 * (Round[k] - 1)
    BY <1>3
  <2> QED
    BY <1>3, <2>1, BeforeIsFresh DEF IInv
<1>4. p \in Before(Round[k])'
  BY DEF ChallengesBindTheProof
<1>5. ASSUME UNCHANGED <<publics, commitments, evaluations>>
      PROVE  p \in Before(Round[k])
  <2>1. Round[k] \in {1, 2, 3, 4, 5, 6, 7}
    OBVIOUS
  <2>2. Before(Round[k])' = Before(Round[k])
    BY <1>5, <2>1, BeforeFrame
  <2> QED
    BY <1>4, <2>2
<1>6. ASSUME UNCHANGED <<proof, publics, commitments, evaluations>>, Running,
             challenges'[k] # challenges[k] => Rank[pc] = 2 * (Round[k] - 1)
      PROVE  p[3] = IF p[1] = "com" /\ p[2] \in OfStage(0) THEN 0 ELSE proof'
  BY <1>2, <1>3, <1>5, <1>6
<1>7. ASSUME Stage2Challenges \/ Stage3Challenges
      PROVE  p[3] = IF p[1] = "com" /\ p[2] \in OfStage(0) THEN 0 ELSE proof'
  <2>1. CASE Stage2Challenges
    <3>1. \A c \in Chal \ {"alpha", "beta"} : challenges'[c] = challenges[c]
      BY <2>1, PairStep DEF Stage2Challenges, Chal
    <3> QED
      BY <1>6, <2>1, <3>1 DEF Stage2Challenges, shplonk, Running
  <2>2. CASE Stage3Challenges
    <3>1. \A c \in Chal \ {"gamma", "delta"} : challenges'[c] = challenges[c]
      BY <2>2, PairStep DEF Stage3Challenges, Chal
    <3> QED
      BY <1>6, <2>2, <3>1 DEF Stage3Challenges, shplonk, Running
  <2> QED
    BY <1>7, <2>1, <2>2
<1>8. ASSUME Stage4Challenge \/ XiSeed \/ ComputeChallengeAlpha \/ ComputeChallengeY
      PROVE  p[3] = IF p[1] = "com" /\ p[2] \in OfStage(0) THEN 0 ELSE proof'
  <2>1. \A c \in Chal : \A t :
           challenges' = [challenges EXCEPT ![c] = t] /\ c # k => challenges'[k] = challenges[k]
    BY DEF TypeOK
  <2>2. CASE Stage4Challenge
    BY <1>6, <2>1, <2>2 DEF Stage4Challenge, shplonk, Running, Chal
  <2>3. CASE XiSeed
    BY <1>6, <2>1, <2>3 DEF XiSeed, shplonk, Running, Chal
  <2>4. CASE ComputeChallengeAlpha
    BY <1>6, <2>1, <2>4 DEF ComputeChallengeAlpha, shplonk, Running, Chal
  <2>5. CASE ComputeChallengeY
    BY <1>6, <2>1, <2>5 DEF ComputeChallengeY, shplonk, Running, Chal
  <2> QED
    BY <1>8, <2>2, <2>3, <2>4, <2>5
<1>9. ASSUME \/ Stage0 \/ Stage1 \/ Stage2Skipped \/ Stage2Commit \/ Stage3Skipped
             \/ Stage3Commit \/ Stage4Commit \/ CalculateEvaluations \/ ComputeW \/ ComputeWp
             \/ getMontgomeryBatchedInverse \/ Return \/ Exit \/ UNCHANGED vars
      PROVE  p[3] = IF p[1] = "com" /\ p[2] \in OfStage(0) THEN 0 ELSE proof'
  <2>1. UNCHANGED <<proof, challenges>>
    BY <1>9 DEF Stage0, Stage1, Stage2Skipped, Stage2Commit, Stage3Skipped, Stage3Commit,
       commitAndAbsorb, Stage4Commit, CalculateEvaluations, ComputeW, ComputeWp,
       getMontgomeryBatchedInverse, Return, Exit, vars
  <2> QED
    BY <1>2, <2>1
<1> QED
  BY <1>1, <1>7, <1>8, <1>9 DEF Next, Stages, Open, Stopped

\* What the JSON of a proof holds: every entry of both maps was written by this
\* proof or by the setup, and each is bound by the last challenge.
LEMMA ReturnedStep ==
  ASSUME TypeOK, TypeOK', IInv, [Next]_vars
  PROVE  ReturnedProofIsBound'
<1> USE StagesOfZf, Ranks, Rounds DEF Labels
<1>1. ASSUME Return PROVE ReturnedProofIsBound'
  <2>1. pc = "toJson" /\ Running /\ proof > 0
    BY <1>1 DEF Return, Running, IInv, StampsInv
  <2>2. challenges["y"].binds = Before(7)
    <3>1. Drawn("y")
      BY <2>1 DEF IInv, DrawnInv
    <3> QED
      BY <3>1 DEF IInv, ChallengesBindTheProof, Chal
  <2>3. \A f \in Zf : commitments[f] # Unset /\ evaluations[f] # Unset
    BY <2>1 DEF IInv, ProgressInv, StampsInv, TypeOK, OfStage, Unset
  <2>4. commitments["W"] # Unset /\ commitments["Wp"] = proof /\ proof # Unset
    BY <2>1 DEF IInv, ProgressInv, TypeOK, Unset
  <2>5. \A f \in F \ Zf : commitments[f] = Unset /\ evaluations[f] = Unset
    BY DEF IInv, StampsInv
  <2>6. {m \in DOMAIN commitments : commitments[m] # Unset} = Zf \cup {"W", "Wp"}
    BY <2>3, <2>4, <2>5 DEF TypeOK
  <2>7. JsonEvaluations = Zf \ QPols
    BY <2>3, <2>5 DEF JsonEvaluations
  <2>8. {Com(n) : n \in Zf \cup {"W", "Wp"}}
          = {Com(f) : f \in Zf} \cup {Com("W")} \cup {<<"com", "Wp", proof>>}
    BY <2>4 DEF Com
  <2>9. Before(7) = {Pub(i) : i \in PubIds} \cup {Com(f) : f \in Zf}
                      \cup {Ev(f) : f \in Zf \ QPols} \cup {Com("W")}
    <3>1. {g \in Zf : StageOf[g] < 7} = Zf
      OBVIOUS
    <3> QED
      BY <3>1 DEF Before
  <2>10. result'.parts = {Com(n) : n \in Zf \cup {"W", "Wp"}} \cup {Ev(f) : f \in Zf \ QPols}
                           \cup {Pub(i) : i \in PubIds}
    BY <1>1, <2>6, <2>7 DEF Return
  <2>11. UNCHANGED <<challenges, proof>>
    BY <1>1 DEF Return
  <2> QED
    BY <2>2, <2>8, <2>9, <2>10, <2>11 DEF ReturnedProofIsBound
<1>2. ASSUME Prove \/ Stages \/ Open \/ Exit PROVE pc' # "idle"
  BY <1>2 DEF Prove, Stages, Open, Exit, Stage0, Stage1, Stage2Challenges, Stage2Skipped,
     Stage2Commit, Stage3Challenges, Stage3Skipped, Stage3Commit, Stage4Challenge,
     Stage4Commit, XiSeed, CalculateEvaluations, ComputeChallengeAlpha, ComputeW,
     ComputeChallengeY, ComputeWp, getMontgomeryBatchedInverse
<1>3. ASSUME UNCHANGED vars PROVE ReturnedProofIsBound'
  BY <1>3 DEF vars, IInv, ReturnedProofIsBound
<1> QED
  BY <1>1, <1>2, <1>3 DEF Next, Stopped, ReturnedProofIsBound

\* The inductive invariant holds when setConstantData returns.
LEMMA InvariantInit == Init => IInv
<1> SUFFICES ASSUME Init PROVE IInv
  OBVIOUS
<1> USE ConstantsAssumption, Ranks DEF Init, ConstantsAssumption, Labels
<1>1. ~Running /\ \A k \in Chal : ~Drawn(k)
  BY DEF Running, Drawn
<1>2. StampsInv
  BY <1>1 DEF StampsInv, Unset, OfStage, Zf, NoChallenge
<1>3. ProgressInv /\ DrawnInv
  BY <1>1 DEF ProgressInv, DrawnInv
<1>4. TranscriptInv /\ ReturnedProofIsBound
  BY DEF TranscriptInv, ReturnedProofIsBound
<1>5. ChallengesBindTheProof /\ OnlyThisProofIsHashed
  BY <1>1 DEF ChallengesBindTheProof, OnlyThisProofIsHashed
<1> QED
  BY <1>2, <1>3, <1>4, <1>5 DEF IInv

\* The inductive invariant holds of every behaviour of the prover.
THEOREM Invariant == Spec => []IInv
<1>1. TypeOK /\ TypeOK' /\ IInv /\ [Next]_vars => IInv'
  <2> SUFFICES ASSUME TypeOK, TypeOK', IInv, [Next]_vars PROVE IInv'
    OBVIOUS
  <2>1. ChallengesBindTheProof'
    BY BindsStep
  <2>2. OnlyThisProofIsHashed'
    BY <2>1, HashedStep
  <2> QED
    BY <2>1, <2>2, StampsStep, ProgressStep, DrawnStep, TranscriptStep, ReturnedStep
       DEF IInv
<1> QED
  BY <1>1, InvariantInit, TypeCorrect, PTL DEF Spec

\* No expression reads a challenge of another proof.
THEOREM FreshChallenges == Spec => []ExpressionsUseFreshChallenges
<1>1. TypeOK /\ IInv => ExpressionsUseFreshChallenges
  <2> SUFFICES ASSUME TypeOK, IInv PROVE ExpressionsUseFreshChallenges
    OBVIOUS
  <2> USE Ranks DEF Labels, Running, IInv, DrawnInv
  <2>1. ASSUME pc = "stage2pols", NEW k \in Uses(2) PROVE Drawn(k)
    BY <2>1 DEF Uses, Stage2Runs, HasCm2
  <2>2. ASSUME pc = "stage3pols", NEW k \in Uses(3) PROVE Drawn(k)
    BY <2>2 DEF Uses, Stage2Runs, HasCm2, HasCm3
  <2>3. ASSUME pc = "stage4pols", NEW k \in Uses(4) PROVE Drawn(k)
    BY <2>3 DEF Uses, Stage2Runs, HasCm2, HasCm3
  <2> QED
    BY <2>1, <2>2, <2>3 DEF ExpressionsUseFreshChallenges
<1> QED
  BY <1>1, TypeCorrect, Invariant, PTL

-----------------------------------------------------------------------------
\* When round r is drawn, what the prover has said is what the round binds.
LEMMA SaidIsBefore ==
  ASSUME TypeOK, IInv, Running, NEW r \in {2, 3, 4, 5, 6, 7}, Rank[pc] = 2 * (r - 1)
  PROVE  SaidBar = Before(r)
<1> USE Ranks, StagesOfZf
<1>1. proof > 0 /\ pc # "stage0" /\ Rank[pc] > 0
  BY DEF IInv, StampsInv, Running, Labels
<1>2. \A i \in PubIds : publics[i] = proof
  BY <1>1 DEF IInv, ProgressInv
<1>3. \A f \in OfStage(0) : commitments[f] = 0
  BY DEF IInv, StampsInv
<1>4. \A f \in Zf : StageOf[f] > 0 => (commitments[f] = proof <=> StageOf[f] < r)
  BY DEF IInv, ProgressInv
<1>5. /\ \A f \in F \ Zf : commitments[f] # proof /\ evaluations[f] # proof
      /\ \A f \in Zf : StageOf[f] = 0 => commitments[f] # proof
  BY <1>1, <1>3 DEF IInv, StampsInv, Unset, TypeOK, OfStage
<1>6. \A f \in Zf : evaluations[f] = proof <=> r > 5
  BY DEF IInv, ProgressInv
<1>7. (commitments["W"] = proof <=> r > 6) /\ commitments["Wp"] # proof
  BY DEF IInv, ProgressInv
<1>8. {<<"pub", i, proof>> : i \in {j \in PubIds : publics[j] = proof}} = {Pub(i) : i \in PubIds}
  BY <1>2 DEF Pub
<1>9. {<<"com", n, proof>> : n \in {m \in DOMAIN commitments : commitments[m] = proof}}
         = {Com(f) : f \in {g \in Zf : StageOf[g] < r /\ StageOf[g] > 0}}
             \cup (IF r > 6 THEN {Com("W")} ELSE {})
  <2>1. {m \in DOMAIN commitments : commitments[m] = proof}
          = {g \in Zf : StageOf[g] < r /\ StageOf[g] > 0} \cup (IF r > 6 THEN {"W"} ELSE {})
    BY <1>4, <1>5, <1>7 DEF TypeOK
  <2>2. \A m \in DOMAIN commitments : commitments[m] = proof => <<"com", m, proof>> = Com(m)
    BY DEF Com
  <2> QED
    BY <2>1, <2>2
<1>10. {<<"com", f, 0>> : f \in OfStage(0)} = {Com(f) : f \in {g \in Zf : StageOf[g] = 0}}
  BY <1>3 DEF Com, OfStage
<1>11. {<<"ev", f, proof>> : f \in {g \in F : evaluations[g] = proof} \ QPols}
         = IF r > 5 THEN {Ev(f) : f \in Zf \ QPols} ELSE {}
  BY <1>5, <1>6 DEF Ev
<1>12. {g \in Zf : StageOf[g] < r} = {g \in Zf : StageOf[g] < r /\ StageOf[g] > 0}
                                       \cup {g \in Zf : StageOf[g] = 0}
  OBVIOUS
<1> QED
  BY <1>1, <1>8, <1>9, <1>10, <1>11, <1>12 DEF SaidBar, Said, Before

\* What the prover has said are publics, commitments and evaluations.
LEMMA SaidType == TypeOK => SaidBar \subseteq Parts
BY StampRange, StagesOfZf DEF SaidBar, Said, Parts, OfStage, TypeOK

\* A step that draws nothing and replaces nothing this proof has said adds to it.
LEMMA SayStep ==
  ASSUME TypeOK, TypeOK', IInv, [Next]_vars, UNCHANGED <<proof, challenges>>,
         proof > 0, pc' # "stage0",
         \A i \in PubIds : publics[i] = proof => publics'[i] = proof,
         \A n \in F \cup {"W", "Wp"} : commitments[n] = proof => commitments'[n] = proof,
         \A f \in F : evaluations[f] = proof => evaluations'[f] = proof
  PROVE  Abstract!Say
<1>1. Zf' = Zf /\ QPols' = QPols /\ OfStage(0)' = OfStage(0)
  BY CircuitStep
<1>2. Said \subseteq Said'
  BY <1>1 DEF Said, TypeOK, PubIds
<1>3. SaidBar \subseteq SaidBar'
  BY <1>2 DEF SaidBar
<1>4. SaidBar' \subseteq Parts
  <2>1. (TypeOK => SaidBar \subseteq Parts)'
    BY SaidType, PTL
  <2> QED
    BY <2>1
<1>5. DrawnBar' = DrawnBar
  BY DEF DrawnBar, Drawn
<1> QED
  BY <1>3, <1>4, <1>5 DEF Abstract!Say

\* A step that draws one or two challenges of the round, and nothing else.
LEMMA DrawStep ==
  ASSUME TypeOK, TypeOK', IInv, ChallengesBindTheProof', [Next]_vars, Running,
         UNCHANGED <<proof, publics, commitments, evaluations>>, pc' # "stage0",
         NEW K \in SUBSET Chal, NEW r \in {2, 3, 4, 5, 6, 7}, Rank[pc] = 2 * (r - 1),
         \A k \in K : Round[k] = r /\ challenges'[k].proof = proof,
         \A k \in Chal \ K : challenges'[k] = challenges[k]
  PROVE  Abstract!Draw
<1> USE Ranks, Rounds
<1>1. Zf' = Zf /\ QPols' = QPols /\ OfStage(0)' = OfStage(0)
  BY CircuitStep
<1>2. proof > 0 /\ pc # "stage0"
  BY DEF IInv, StampsInv, Running, Labels
<1>3. SaidBar' = SaidBar
  <2>1. Said' = Said
    BY <1>1 DEF Said
  <2> QED
    BY <1>2, <2>1 DEF SaidBar
<1>4. \A k \in K : ~Drawn(k)
  <2> SUFFICES ASSUME NEW k \in K, Drawn(k) PROVE FALSE
    OBVIOUS
  <2>1. Rank[pc] > 2 * (Round[k] - 1)
    BY DEF IInv, DrawnInv
  <2> QED
    BY <2>1
<1>5. \A k \in K : Drawn(k)' /\ challenges'[k].binds = SaidBar
  <2> SUFFICES ASSUME NEW k \in K PROVE Drawn(k)' /\ challenges'[k].binds = SaidBar
    OBVIOUS
  <2>1. Drawn(k)'
    BY <1>2 DEF Drawn
  <2>2. challenges'[k].binds = Before(r)'
    BY <2>1 DEF ChallengesBindTheProof
  <2>3. Before(r)' = Before(r)
    BY BeforeFrame
  <2>4. SaidBar = Before(r)
    BY SaidIsBefore
  <2> QED
    BY <2>1, <2>2, <2>3, <2>4
<1>6. \A k \in Chal \ K : (Drawn(k)' <=> Drawn(k)) /\ challenges'[k] = challenges[k]
  BY DEF Drawn
<1>7. DrawnBar' = [k \in Chal |-> IF k \in K THEN {SaidBar} ELSE DrawnBar[k]]
  BY <1>5, <1>6 DEF DrawnBar
<1>8. K \in SUBSET {k \in Chal : DrawnBar[k] = {}}
  BY <1>4 DEF DrawnBar
<1> QED
  BY <1>3, <1>7, <1>8 DEF Abstract!Draw

\* A prover that has not begun a proof has said and drawn nothing.
LEMMA AbstractInit == Init => Abstract!Init
<1> SUFFICES ASSUME Init PROVE Abstract!Init
  OBVIOUS
<1>1. SaidBar = {}
  BY DEF Init, SaidBar
<1>2. DrawnBar = [k \in Chal |-> {}]
  BY DEF Init, DrawnBar, Drawn
<1> QED
  BY <1>1, <1>2 DEF Abstract!Init

\* Every step of the prover is one of the abstract prover, or changes nothing of it.
LEMMA AbstractStep ==
  ASSUME TypeOK, TypeOK', IInv, IInv', [Next]_vars
  PROVE  [Abstract!Next]_<<SaidBar, DrawnBar>>
<1> USE CircuitStep, StagesOfZf, Ranks, Rounds, ConstantsAssumption
    DEF Labels, ConstantsAssumption
<1>0. /\ Abstract!Start => Abstract!Next
      /\ Abstract!Say => Abstract!Next
      /\ Abstract!Draw => Abstract!Next
  BY DEF Abstract!Next
<1>1. ASSUME Prove PROVE Abstract!Next
  <2>1. proof' = proof + 1 /\ pc' = "stage0" /\ challenges' = challenges
    BY <1>1 DEF Prove
  <2>2. SaidBar' = {}
    BY <2>1 DEF SaidBar
  <2>3. \A k \in Chal : ~Drawn(k)'
    BY <2>1 DEF Drawn, IInv, StampsInv, TypeOK
  <2>4. DrawnBar' = [k \in Chal |-> {}]
    BY <2>3 DEF DrawnBar
  <2> QED
    BY <1>0, <2>2, <2>4 DEF Abstract!Start
<1>2. ASSUME Running PROVE proof > 0
  BY <1>2 DEF IInv, StampsInv
<1>3. ASSUME Stage0 PROVE Abstract!Next
  <2>1. /\ UNCHANGED <<proof, challenges, commitments, evaluations>> /\ pc' = "stage1" /\ Running
        /\ \A i \in PubIds : publics[i] = proof => publics'[i] = proof
    BY <1>3 DEF Stage0, shplonk, Running, TypeOK
  <2> QED
    BY <1>0, <1>2, <2>1, SayStep
<1>4. ASSUME NEW s, commit(s), Running, pc' # "stage0",
             UNCHANGED <<proof, publics, challenges, evaluations>>
      PROVE  Abstract!Next
  <2>1. \A n \in F \cup {"W", "Wp"} : commitments[n] = proof => commitments'[n] = proof
    BY <1>4 DEF commit, TypeOK
  <2> QED
    BY <1>0, <1>2, <1>4, <2>1, SayStep
<1>5. ASSUME UNCHANGED <<proof, publics, challenges, commitments, evaluations>>,
             pc # "stage0", pc' # "stage0"
      PROVE  UNCHANGED <<SaidBar, DrawnBar>>
  <2>1. Said' = Said
    BY <1>5 DEF Said
  <2>2. DrawnBar' = DrawnBar
    BY <1>5 DEF DrawnBar, Drawn
  <2> QED
    BY <1>5, <2>1, <2>2 DEF SaidBar
<1>6. ASSUME Stage1 PROVE [Abstract!Next]_<<SaidBar, DrawnBar>>
  <2>1. /\ UNCHANGED <<proof, publics, challenges, evaluations>>
        /\ pc = "stage1" /\ pc' = "stage2" /\ Running
    BY <1>6 DEF Stage1, Running
  <2>2. CASE conf.cm1
    BY <1>4, <1>6, <2>1, <2>2 DEF Stage1
  <2>3. CASE ~conf.cm1
    BY <1>5, <1>6, <2>1, <2>3 DEF Stage1
  <2> QED
    BY <2>2, <2>3
<1>7. ASSUME Stage2Commit \/ Stage3Commit \/ Stage4Commit PROVE Abstract!Next
  BY <1>4, <1>7 DEF Stage2Commit, Stage3Commit, Stage4Commit, commitAndAbsorb, Running
<1>8. ASSUME Stage2Challenges PROVE Abstract!Next
  <2>1. /\ challenges'["alpha"].proof = proof /\ challenges'["beta"].proof = proof
        /\ \A k \in Chal \ {"alpha", "beta"} : challenges'[k] = challenges[k]
    BY <1>8, PairStep DEF Stage2Challenges, Chal
  <2>2. /\ UNCHANGED <<proof, publics, commitments, evaluations>>
        /\ Running /\ pc' # "stage0" /\ Rank[pc] = 2 * (2 - 1)
    BY <1>8 DEF Stage2Challenges, shplonk, Running
  <2>3. {"alpha", "beta"} \in SUBSET Chal /\ ChallengesBindTheProof'
    BY DEF Chal, IInv
  <2>4. \A k \in {"alpha", "beta"} : Round[k] = 2 /\ challenges'[k].proof = proof
    BY <2>1
  <2>5. Abstract!Draw
    BY <2>1, <2>2, <2>3, <2>4, DrawStep
  <2> QED
    BY <1>0, <2>5
<1>9. ASSUME Stage3Challenges PROVE Abstract!Next
  <2>1. /\ challenges'["gamma"].proof = proof /\ challenges'["delta"].proof = proof
        /\ \A k \in Chal \ {"gamma", "delta"} : challenges'[k] = challenges[k]
    BY <1>9, PairStep DEF Stage3Challenges, Chal
  <2>2. /\ UNCHANGED <<proof, publics, commitments, evaluations>>
        /\ Running /\ pc' # "stage0" /\ Rank[pc] = 2 * (3 - 1)
    BY <1>9 DEF Stage3Challenges, shplonk, Running
  <2>3. {"gamma", "delta"} \in SUBSET Chal /\ ChallengesBindTheProof'
    BY DEF Chal, IInv
  <2>4. \A k \in {"gamma", "delta"} : Round[k] = 3 /\ challenges'[k].proof = proof
    BY <2>1
  <2>5. Abstract!Draw
    BY <2>1, <2>2, <2>3, <2>4, DrawStep
  <2> QED
    BY <1>0, <2>5
<1>10. ASSUME NEW c \in Chal, NEW r \in {4, 5, 6, 7}, Round[c] = r,
              challenges'[c].proof = proof,
              \A k \in Chal \ {c} : challenges'[k] = challenges[k],
              UNCHANGED <<proof, publics, commitments, evaluations>>,
              Running, pc' # "stage0", Rank[pc] = 2 * (r - 1)
       PROVE  Abstract!Next
  <2> DEFINE K == {c}
  <2>1. K \in SUBSET Chal /\ ChallengesBindTheProof' /\ r \in {2, 3, 4, 5, 6, 7}
    BY DEF IInv
  <2>2. \A k \in K : Round[k] = r /\ challenges'[k].proof = proof
    BY <1>10
  <2>3. \A k \in Chal \ K : challenges'[k] = challenges[k]
    BY <1>10
  <2> HIDE DEF K
  <2>4. Abstract!Draw
    BY <1>10, <2>1, <2>2, <2>3, DrawStep
  <2> QED
    BY <1>0, <2>4
<1>11. ASSUME NEW c \in Chal, NEW t, challenges' = [challenges EXCEPT ![c] = getChallenge(t)]
       PROVE  /\ challenges'[c].proof = proof
              /\ \A k \in Chal \ {c} : challenges'[k] = challenges[k]
  BY <1>11, SingleStep
<1>12. ASSUME Stage4Challenge PROVE Abstract!Next
  <2>1. /\ challenges'["a"].proof = proof
        /\ \A k \in Chal \ {"a"} : challenges'[k] = challenges[k]
    BY <1>11, <1>12 DEF Stage4Challenge, Chal
  <2>2. /\ UNCHANGED <<proof, publics, commitments, evaluations>>
        /\ Running /\ pc' # "stage0" /\ Rank[pc] = 2 * (4 - 1)
    BY <1>12 DEF Stage4Challenge, shplonk, Running
  <2> QED
    BY <1>10, <2>1, <2>2 DEF Chal
<1>13. ASSUME XiSeed PROVE Abstract!Next
  <2>1. /\ challenges'["xiSeed"].proof = proof
        /\ \A k \in Chal \ {"xiSeed"} : challenges'[k] = challenges[k]
    BY <1>11, <1>13 DEF XiSeed, Chal
  <2>2. /\ UNCHANGED <<proof, publics, commitments, evaluations>>
        /\ Running /\ pc' # "stage0" /\ Rank[pc] = 2 * (5 - 1)
    BY <1>13 DEF XiSeed, shplonk, Running
  <2> QED
    BY <1>10, <2>1, <2>2 DEF Chal
<1>14. ASSUME ComputeChallengeAlpha PROVE Abstract!Next
  <2>1. /\ challenges'["shAlpha"].proof = proof
        /\ \A k \in Chal \ {"shAlpha"} : challenges'[k] = challenges[k]
    <3> DEFINE t == add(addChallenge(reset, "xiSeed", challenges["xiSeed"]),
                        {Ev(f) : f \in Zf \ nonCommittedPols})
    <3>1. challenges' = [challenges EXCEPT !["shAlpha"] = getChallenge(t)]
      BY <1>14 DEF ComputeChallengeAlpha
    <3> HIDE DEF t
    <3> QED
      BY <1>11, <3>1 DEF Chal
  <2>2. /\ UNCHANGED <<proof, publics, commitments, evaluations>>
        /\ Running /\ pc' # "stage0" /\ Rank[pc] = 2 * (6 - 1)
    BY <1>14 DEF ComputeChallengeAlpha, shplonk, Running
  <2> QED
    BY <1>10, <2>1, <2>2 DEF Chal
<1>15. ASSUME ComputeChallengeY PROVE Abstract!Next
  <2>1. /\ challenges'["y"].proof = proof
        /\ \A k \in Chal \ {"y"} : challenges'[k] = challenges[k]
    <3> DEFINE t == add(addChallenge(reset, "shAlpha", challenges["shAlpha"]), {Com("W")})
    <3>1. challenges' = [challenges EXCEPT !["y"] = getChallenge(t)]
      BY <1>15 DEF ComputeChallengeY
    <3> HIDE DEF t
    <3> QED
      BY <1>11, <3>1 DEF Chal
  <2>2. /\ UNCHANGED <<proof, publics, commitments, evaluations>>
        /\ Running /\ pc' # "stage0" /\ Rank[pc] = 2 * (7 - 1)
    BY <1>15 DEF ComputeChallengeY, shplonk, Running
  <2> QED
    BY <1>10, <2>1, <2>2 DEF Chal
<1>16. ASSUME CalculateEvaluations PROVE Abstract!Next
  <2>1. /\ UNCHANGED <<proof, publics, challenges, commitments>>
        /\ pc' = "shAlpha" /\ Running
        /\ \A f \in F : evaluations[f] = proof => evaluations'[f] = proof
    BY <1>16 DEF CalculateEvaluations, Running, TypeOK
  <2> QED
    BY <1>0, <1>2, <2>1, SayStep
<1>17. ASSUME ComputeW \/ ComputeWp PROVE Abstract!Next
  <2>1. /\ UNCHANGED <<proof, publics, challenges, evaluations>>
        /\ pc' # "stage0" /\ Running
        /\ \A n \in F \cup {"W", "Wp"} : commitments[n] = proof => commitments'[n] = proof
    BY <1>17 DEF ComputeW, ComputeWp, Running, TypeOK
  <2> QED
    BY <1>0, <1>2, <2>1, SayStep
<1>18. ASSUME \/ Stage2Skipped \/ Stage3Skipped \/ getMontgomeryBatchedInverse \/ Return \/ Exit
       PROVE  UNCHANGED <<SaidBar, DrawnBar>>
  <2>1. /\ UNCHANGED <<proof, publics, challenges, commitments, evaluations>>
        /\ pc # "stage0" /\ pc' # "stage0"
    BY <1>18 DEF Stage2Skipped, Stage3Skipped, getMontgomeryBatchedInverse, Return, Exit,
                 MayThrow, shplonk
  <2> QED
    BY <1>5, <2>1
<1>19. ASSUME UNCHANGED vars PROVE UNCHANGED <<SaidBar, DrawnBar>>
  <2>1. Said' = Said
    BY <1>19 DEF Said, vars
  <2> QED
    BY <1>19, <2>1 DEF vars, SaidBar, DrawnBar, Drawn
<1> QED
  BY <1>1, <1>3, <1>6, <1>7, <1>8, <1>9, <1>16, <1>17, <1>18, <1>19,
     <1>12, <1>13, <1>14, <1>15
     DEF Next, Stages, Open, Stopped

\* The prover implements FiatShamir.
THEOREM Refinement == Spec => FiatShamirSpec
<1>1. TypeOK /\ TypeOK' /\ IInv /\ IInv' /\ [Next]_vars => [Abstract!Next]_(Abstract!vars)
  BY AbstractStep DEF Abstract!vars
<1> QED
  BY <1>1, AbstractInit, TypeCorrect, Invariant, PTL
  DEF Spec, FiatShamirSpec, Abstract!Spec

\* Every challenge depends on exactly what the prover says before its round.
THEOREM Binding == Spec => []ChallengesBindTheProof
<1>1. IInv => ChallengesBindTheProof
  BY DEF IInv
<1> QED
  BY <1>1, Invariant, PTL

\* No challenge depends on what an earlier proof has left behind.
THEOREM Hashed == Spec => []OnlyThisProofIsHashed
<1>1. IInv => OnlyThisProofIsHashed
  BY DEF IInv
<1> QED
  BY <1>1, Invariant, PTL

\* What prove() returns is what the last challenge binds, and Wp.
THEOREM Returned == Spec => []ReturnedProofIsBound
<1>1. IInv => ReturnedProofIsBound
  BY DEF IInv
<1> QED
  BY <1>1, Invariant, PTL

-----------------------------------------------------------------------------
(***************************************************************************)
(* The challenges are distinct: each is hashed from a transcript that has  *)
(* absorbed the challenge before it in the chain and no other.             *)
(***************************************************************************)
\* The challenges that a set of items absorbed holds.
Absorbed(S) == {x[2] : x \in {i \in S : i[1] = "chal"}}

\* The challenge that each is hashed from: none for the first that is drawn.
Link == [alpha |-> {}, beta |-> {"alpha"},
         gamma |-> IF Stage2Runs THEN {"beta"} ELSE {}, delta |-> {"gamma"},
         a |-> IF HasCm3 THEN {"delta"} ELSE {},
         xiSeed |-> {"a"}, shAlpha |-> {"xiSeed"}, y |-> {"shAlpha"}]

ChainInv ==
  /\ pc \in {"stage0", "stage1", "stage2"} => Absorbed(transcript.items) = {}
  /\ pc = "stage2pols" => Stage2Runs /\ Absorbed(transcript.items) = {"beta"}
  /\ pc = "stage3" => Absorbed(transcript.items) = Link["gamma"]
  /\ pc = "stage3pols" => HasCm3 /\ Absorbed(transcript.items) = {"delta"}
  /\ pc = "stage4" => Absorbed(transcript.items) = Link["a"]
  /\ \A k \in Chal : Drawn(k) => /\ Absorbed(challenges[k].input) = Link[k]
                                 /\ k = "alpha" => Stage2Runs
                                 /\ k = "gamma" => HasCm3

\* Each link of the chain, by name.
LEMMA Links ==
  /\ Link["alpha"] = {} /\ Link["beta"] = {"alpha"} /\ Link["delta"] = {"gamma"}
  /\ Link["gamma"] = IF Stage2Runs THEN {"beta"} ELSE {}
  /\ Link["a"] = IF HasCm3 THEN {"delta"} ELSE {}
  /\ Link["xiSeed"] = {"a"} /\ Link["shAlpha"] = {"xiSeed"} /\ Link["y"] = {"shAlpha"}
  /\ Stage2Runs => HasCm3
BY DEF Link, Stage2Runs, HasCm2, HasCm3

\* Publics, commitments and evaluations are not challenges.
LEMMA AddAbsorbed ==
  ASSUME NEW t, NEW A \in SUBSET Parts
  PROVE  Absorbed(add(t, A).items) = Absorbed(t.items)
<1>1. \A p \in Parts : p[1] # "chal"
  BY DEF Parts
<1> QED
  BY <1>1 DEF Absorbed, add

\* After a reset the only challenge absorbed is the one that is added.
LEMMA ResetAbsorbed ==
  ASSUME NEW k, NEW c
  PROVE  /\ Absorbed(reset.items) = {}
         /\ Absorbed(addChallenge(reset, k, c).items) = {k}
<1> DEFINE item == <<"chal", k, c.proof>>
<1>1. reset.items = {} /\ addChallenge(reset, k, c).items = {item}
  BY DEF reset, addChallenge
<1>2. item[1] = "chal" /\ item[2] = k
  OBVIOUS
<1> HIDE DEF item
<1> QED
  BY <1>1, <1>2 DEF Absorbed

\* The publics, commitments and evaluations of the next state are parts.
LEMMA PartsNext ==
  ASSUME TypeOK'
  PROVE  /\ \A i \in PubIds : Pub(i)' \in Parts
         /\ \A n \in F \cup {"W", "Wp"} : Com(n)' \in Parts
BY DEF TypeOK, Pub, Com, Parts, PubIds

\* Of the two challenges of a stage, the first is hashed from the transcript as
\* it is, the second from the first.
LEMMA PairAbsorbed ==
  ASSUME TypeOK, NEW j \in Chal, NEW k \in Chal, j # k, twoChallenges(j, k)
  PROVE  /\ Absorbed(challenges'[j].input) = Absorbed(transcript.items)
         /\ Absorbed(challenges'[k].input) = {j}
         /\ Absorbed(transcript'.items) = {k}
         /\ \A c \in Chal \ {j, k} : challenges'[c] = challenges[c]
<1> DEFINE cj == getChallenge(transcript)
           tk == addChallenge(reset, j, cj)
           ck == getChallenge(tk)
           tr == addChallenge(reset, k, ck)
<1>1. cj.input = transcript.items /\ ck.input = tk.items
  BY DEF getChallenge
<1>2. Absorbed(tk.items) = {j} /\ Absorbed(tr.items) = {k}
  BY ResetAbsorbed
<1>3. challenges' = [challenges EXCEPT ![j] = cj, ![k] = ck] /\ transcript' = tr
  BY DEF twoChallenges
<1>4. challenges'[j] = cj /\ challenges'[k] = ck
  <2> HIDE DEF cj, tk, ck, tr
  <2> QED
    BY <1>3 DEF TypeOK
<1>5. \A c \in Chal \ {j, k} : challenges'[c] = challenges[c]
  <2> HIDE DEF cj, tk, ck, tr
  <2> QED
    BY <1>3 DEF TypeOK
<1> HIDE DEF cj, tk, ck, tr
<1> QED
  BY <1>1, <1>2, <1>3, <1>4, <1>5

\* Every step keeps the chain.
LEMMA ChainStep ==
  ASSUME TypeOK, TypeOK', IInv, ChainInv, [Next]_vars
  PROVE  ChainInv'
<1> USE CircuitStep, Links, Ranks
<1>0. Link' = Link
  BY DEF Link
<1>1. ASSUME Prove PROVE ChainInv'
  <2>1. \A k \in Chal : ~Drawn(k)'
    BY <1>1 DEF Prove, Drawn, IInv, StampsInv, TypeOK
  <2>2. Absorbed(transcript'.items) = {} /\ pc' = "stage0"
    BY <1>1, ResetAbsorbed DEF Prove
  <2> QED
    BY <2>1, <2>2 DEF ChainInv
<1>2. ASSUME UNCHANGED <<proof, challenges>>, Absorbed(transcript'.items) = Absorbed(transcript.items)
      PROVE  /\ \A k \in Chal : Drawn(k)' => /\ Absorbed(challenges'[k].input) = Link[k]
                                             /\ k = "alpha" => Stage2Runs
                                             /\ k = "gamma" => HasCm3
             /\ Absorbed(transcript'.items) = Absorbed(transcript.items)
  BY <1>2 DEF ChainInv, Drawn
<1>3. ASSUME Stage0 PROVE ChainInv'
  <2> DEFINE A == (IF conf.consts THEN {Com(f) : f \in OfStage(0)} ELSE {})
                    \cup {Pub(i)' : i \in PubIds}
  <2>1. A \in SUBSET Parts
    BY PartsInItems, PartsNext DEF OfStage, Zf
  <2>2. transcript' = add(transcript, A) /\ pc = "stage0" /\ pc' = "stage1"
        /\ UNCHANGED <<proof, challenges>>
    BY <1>3 DEF Stage0
  <2> HIDE DEF A
  <2>3. Absorbed(transcript'.items) = Absorbed(transcript.items)
    BY <2>1, <2>2, AddAbsorbed
  <2> QED
    BY <1>0, <1>2, <2>2, <2>3 DEF ChainInv
<1>4. ASSUME NEW s, transcript' = add(transcript, {Com(f)' : f \in OfStage(s)})
      PROVE  Absorbed(transcript'.items) = Absorbed(transcript.items)
  <2>1. {Com(f)' : f \in OfStage(s)} \in SUBSET Parts
    BY PartsNext DEF OfStage, Zf
  <2> QED
    BY <1>4, <2>1, AddAbsorbed
<1>5. ASSUME Stage1 PROVE ChainInv'
  BY <1>0, <1>2, <1>4, <1>5 DEF Stage1, ChainInv
<1>6. ASSUME Stage2Commit PROVE ChainInv'
  BY <1>0, <1>2, <1>4, <1>6 DEF Stage2Commit, commitAndAbsorb, ChainInv
<1>7. ASSUME Stage3Commit PROVE ChainInv'
  BY <1>0, <1>2, <1>4, <1>7 DEF Stage3Commit, commitAndAbsorb, ChainInv
<1>8. ASSUME Stage2Challenges PROVE ChainInv'
  <2>1. /\ pc = "stage2" /\ Stage2Runs /\ pc' = IF HasCm2 THEN "stage2pols" ELSE "stage3"
        /\ twoChallenges("alpha", "beta") /\ proof' = proof
    BY <1>8 DEF Stage2Challenges
  <2>2. /\ Absorbed(challenges'["alpha"].input) = {}
        /\ Absorbed(challenges'["beta"].input) = {"alpha"}
        /\ Absorbed(transcript'.items) = {"beta"}
        /\ \A c \in Chal \ {"alpha", "beta"} : challenges'[c] = challenges[c]
    BY <2>1, PairAbsorbed DEF ChainInv, Chal
  <2>3. ASSUME NEW k \in Chal, Drawn(k)'
        PROVE  /\ Absorbed(challenges'[k].input) = Link[k]
               /\ k = "alpha" => Stage2Runs
               /\ k = "gamma" => HasCm3
    <3>1. CASE k \in {"alpha", "beta"}
      BY <2>1, <2>2, <3>1
    <3>2. CASE k \notin {"alpha", "beta"}
      <4>1. challenges'[k] = challenges[k] /\ Drawn(k)
        BY <2>1, <2>2, <2>3, <3>2 DEF Drawn
      <4> QED
        BY <4>1 DEF ChainInv
    <3> QED
      BY <3>1, <3>2
  <2> QED
    BY <1>0, <2>1, <2>2, <2>3 DEF ChainInv
<1>9. ASSUME Stage3Challenges PROVE ChainInv'
  <2>1. /\ pc = "stage3" /\ HasCm3 /\ pc' = "stage3pols"
        /\ twoChallenges("gamma", "delta") /\ proof' = proof
    BY <1>9 DEF Stage3Challenges
  <2>2. /\ Absorbed(challenges'["gamma"].input) = Link["gamma"]
        /\ Absorbed(challenges'["delta"].input) = {"gamma"}
        /\ Absorbed(transcript'.items) = {"delta"}
        /\ \A c \in Chal \ {"gamma", "delta"} : challenges'[c] = challenges[c]
    BY <2>1, PairAbsorbed DEF ChainInv, Chal
  <2>3. ASSUME NEW k \in Chal, Drawn(k)'
        PROVE  /\ Absorbed(challenges'[k].input) = Link[k]
               /\ k = "alpha" => Stage2Runs
               /\ k = "gamma" => HasCm3
    <3>1. CASE k \in {"gamma", "delta"}
      BY <2>1, <2>2, <3>1
    <3>2. CASE k \notin {"gamma", "delta"}
      <4>1. challenges'[k] = challenges[k] /\ Drawn(k)
        BY <2>1, <2>2, <2>3, <3>2 DEF Drawn
      <4> QED
        BY <4>1 DEF ChainInv
    <3> QED
      BY <3>1, <3>2
  <2> QED
    BY <1>0, <2>1, <2>2, <2>3 DEF ChainInv
<1>10. ASSUME Stage2Skipped \/ Stage3Skipped PROVE ChainInv'
  BY <1>0, <1>2, <1>10 DEF Stage2Skipped, Stage3Skipped, ChainInv
<1>11. ASSUME NEW k \in Chal \ {"alpha", "gamma"}, NEW t,
              challenges' = [challenges EXCEPT ![k] = getChallenge(t)],
              Absorbed(t.items) = Link[k], proof' = proof,
              pc' \in {"stage4pols", "evaluations", "W", "Wp"}
       PROVE  ChainInv'
  <2>1. /\ challenges'[k].input = t.items
        /\ \A c \in Chal \ {k} : challenges'[c] = challenges[c]
    BY <1>11 DEF TypeOK, getChallenge
  <2>2. ASSUME NEW c \in Chal, Drawn(c)'
        PROVE  /\ Absorbed(challenges'[c].input) = Link[c]
               /\ c = "alpha" => Stage2Runs
               /\ c = "gamma" => HasCm3
    BY <1>11, <2>1, <2>2 DEF ChainInv, Drawn
  <2> QED
    BY <1>0, <1>11, <2>2 DEF ChainInv
<1>12. ASSUME NEW k \in Chal, NEW A \in SUBSET Parts, NEW t,
              t = add(addChallenge(reset, k, challenges[k]), A)
       PROVE  Absorbed(t.items) = {k}
  BY <1>12, AddAbsorbed, ResetAbsorbed
<1>13. ASSUME Stage4Challenge PROVE ChainInv'
  BY <1>11, <1>13 DEF Stage4Challenge, ChainInv, Chal
<1>14. ASSUME XiSeed PROVE ChainInv'
  <2>1. {Com(f) : f \in OfStage(4)} \in SUBSET Parts
    BY PartsInItems DEF OfStage, Zf
  <2>2. Absorbed(transcript'.items) = {"a"}
    BY <1>12, <1>14, <2>1 DEF XiSeed, Chal
  <2> QED
    BY <1>11, <1>14, <2>2 DEF XiSeed, Chal
<1>15. ASSUME ComputeChallengeAlpha PROVE ChainInv'
  <2> DEFINE t == add(addChallenge(reset, "xiSeed", challenges["xiSeed"]),
                      {Ev(f) : f \in Zf \ nonCommittedPols})
  <2>1. {Ev(f) : f \in Zf \ nonCommittedPols} \in SUBSET Parts
    BY PartsInItems DEF Zf
  <2>2. Absorbed(t.items) = {"xiSeed"}
    BY <1>12, <2>1 DEF Chal
  <2>3. /\ challenges' = [challenges EXCEPT !["shAlpha"] = getChallenge(t)]
        /\ proof' = proof /\ pc' = "W"
    BY <1>15 DEF ComputeChallengeAlpha
  <2> HIDE DEF t
  <2> QED
    BY <1>11, <2>2, <2>3 DEF Chal
<1>16. ASSUME ComputeChallengeY PROVE ChainInv'
  <2> DEFINE t == add(addChallenge(reset, "shAlpha", challenges["shAlpha"]), {Com("W")})
  <2>1. {Com("W")} \in SUBSET Parts
    BY PartsInItems
  <2>2. Absorbed(t.items) = {"shAlpha"}
    BY <1>12, <2>1 DEF Chal
  <2>3. /\ challenges' = [challenges EXCEPT !["y"] = getChallenge(t)]
        /\ proof' = proof /\ pc' = "Wp"
    BY <1>16 DEF ComputeChallengeY
  <2> HIDE DEF t
  <2> QED
    BY <1>11, <2>2, <2>3 DEF Chal
<1>17. ASSUME \/ Stage4Commit \/ CalculateEvaluations \/ ComputeW \/ ComputeWp
              \/ getMontgomeryBatchedInverse \/ Return \/ Exit \/ UNCHANGED vars
       PROVE  ChainInv'
  <2>1. /\ UNCHANGED <<proof, challenges, transcript>>
        /\ pc' = pc \/ pc' \in {"xiSeed", "shAlpha", "y", "inverse", "toJson", "idle", "exited"}
    BY <1>17 DEF Stage4Commit, CalculateEvaluations, ComputeW, ComputeWp,
       getMontgomeryBatchedInverse, Return, Exit, vars
  <2> QED
    BY <1>0, <1>2, <2>1 DEF ChainInv
<1> QED
  BY <1>1, <1>3, <1>5, <1>6, <1>7, <1>8, <1>9, <1>10, <1>13, <1>14, <1>15, <1>16, <1>17
  DEF Next, Stages, Open, Stopped

\* No two challenges of a proof are hashes of the same input.
THEOREM Distinct == Spec => []ChallengesAreDistinct
<1>1. Init => ChainInv
  <2> SUFFICES ASSUME Init PROVE ChainInv
    OBVIOUS
  <2>1. pc = "idle" /\ \A k \in Chal : ~Drawn(k)
    BY DEF Init, Drawn
  <2> QED
    BY <2>1 DEF ChainInv
<1>2. ChainInv => ChallengesAreDistinct
  <2> SUFFICES ASSUME ChainInv, NEW j \in Chal, NEW k \in Chal, j # k, Drawn(j), Drawn(k)
               PROVE  challenges[j].input # challenges[k].input
    BY DEF ChallengesAreDistinct
  <2>1. Absorbed(challenges[j].input) = Link[j] /\ Absorbed(challenges[k].input) = Link[k]
    BY DEF ChainInv
  <2>2. \A c \in {j, k} : (c = "alpha" => Stage2Runs) /\ (c = "gamma" => HasCm3)
    BY DEF ChainInv
  <2>3. Link[j] # Link[k]
    BY <2>2, Links DEF Chal
  <2> QED
    BY <2>1, <2>3
<1> QED
  BY <1>1, <1>2, ChainStep, TypeCorrect, Invariant, PTL DEF Spec
=============================================================================
