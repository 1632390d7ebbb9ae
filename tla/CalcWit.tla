------------------------------ MODULE CalcWit ------------------------------
(***************************************************************************)
(* How the inputs of the verifier circuit are loaded from a JSON object    *)
(* (loadJsonImpl and Circom_CalcWit): each key is looked up by its hash in *)
(* a table with linear probing, its values are set one by one, the circuit *)
(* runs in the call that sets the last input, and the witness is computed  *)
(* only if no input remains to be set.                                     *)
(***************************************************************************)
EXTENDS Integers, Sequences, FiniteSets

CONSTANTS
  Keys,          \* the keys of the JSON object, in the order of its iteration
  n,             \* get_size_of_input_hashmap()
  Hashes,        \* what fnv1a may return; 0 marks a free slot
  Sizes          \* numbers of values a signal and a key of the object may have

Key == {Keys[x] : x \in 1..Len(Keys)}
NoKey == "free"

ASSUME CalcWitAssumption ==
  /\ n \in Nat \ {0, 1} /\ Hashes \subseteq Nat \ {0} /\ Sizes \subseteq Nat \ {0}
  /\ Len(Keys) \in Nat /\ NoKey \notin Key
\* The keys of an object differ.
ASSUME KeysAssumption == \A x, y \in 1..Len(Keys) : Keys[x] = Keys[y] => x = y
Garbage == -1   \* a hash that is no key's

VARIABLES
  circuit,      \* signals, their size, InputHashMap, and the memory beyond it
  fnv1a,        \* the hash of each key
  j,            \* the JSON object: how many values each of its keys has
  pc,
  it, i,        \* loadJsonImpl is at value i of Keys[it]
  signalValues, \* the key each input's value is from; NoKey: not assigned yet
  inputSignalAssignedCounter,
  runs          \* how many times the circuit has run

loadVars == <<circuit, fnv1a, j, pc, it, i, signalValues, inputSignalAssignedCounter, runs>>

-----------------------------------------------------------------------------
\* The table as the circom compiler builds it, in whatever order: each signal in
\* one slot, and no free one from its own to that.
Tables(hash, signals) ==
  {map \in [0..(n - 1) -> signals \cup {NoKey}] :
     \A k \in signals : \E d \in 0..(n - 1) :
       /\ \A p \in 0..(n - 1) : map[p] = k <=> p = (hash[k] + d) % n
       /\ \A e \in 0..(d - 1) : map[(hash[k] + e) % n] # NoKey}

SlotHash(p) == IF p = n THEN circuit.beyond
               ELSE IF circuit.InputHashMap[p] = NoKey THEN 0
               ELSE fnv1a[circuit.InputHashMap[p]]

\* The slots the loop visits.  The first step from the home slot is not taken
\* modulo n: from the last slot it leads past the end of the table.
probe(h, d) == IF d = 1 THEN (h % n) + 1 ELSE ((h % n) + d) % n

\* The slot of hash h, as a set: {} when the assertions that it is found fail.
\* (Faulty variant: it looks no further than the home slot.)
homeSlotOnly(h) == {p \in {h % n} : SlotHash(p) = h}
getInputSignalHashPosition(h) ==
  {probe(h, d) : d \in {d \in 0..(n - 1) :
     /\ SlotHash(probe(h, d)) = h
     /\ \A e \in 0..(d - 1) : SlotHash(probe(h, e)) # h
     /\ \A e \in 1..(d - 1) : SlotHash(probe(h, e)) # 0}}

\* The keys of j are visited in the order of Keys: behind place m comes place m2.
Follows(m, m2) == /\ m2 \in (m + 1)..(Len(Keys) + 1)
                  /\ \A x \in (m + 1)..(m2 - 1) : Keys[x] \notin DOMAIN j
                  /\ m2 <= Len(Keys) => Keys[m2] \in DOMAIN j
Inputs == DOMAIN signalValues
Assigned(input) == signalValues[input] # NoKey

InputsOf(size) == UNION {{<<s, x>> : x \in 0..(size[s] - 1)} : s \in DOMAIN size}

LoadInit ==
  /\ \E signals \in SUBSET Key, hash \in [Key -> Hashes] :
       /\ Cardinality(signals) \in 1..(n - 1)
       /\ \A k, l \in signals : hash[k] = hash[l] => k = l
       /\ fnv1a = hash
       /\ \E size \in [signals -> Sizes], map \in Tables(hash, signals),
             beyond \in {0, Garbage} :
            /\ circuit = [size |-> size, InputHashMap |-> map, beyond |-> beyond]
            /\ signalValues = [input \in InputsOf(size) |-> NoKey]
  /\ j \in UNION {[K -> Sizes] : K \in SUBSET Key}
  /\ pc = "key" /\ i = 0
  /\ it \in 1..(Len(Keys) + 1) /\ Follows(0, it)
  /\ inputSignalAssignedCounter = Cardinality(Inputs)
  /\ runs = 0

-----------------------------------------------------------------------------
\* loadJsonImpl takes its next key: the number of its values must be the size
\* of its signal.
keyHash == fnv1a[Keys[it]]
LookUpKey ==
  /\ pc = "key" /\ it <= Len(Keys)
  /\ pc' = IF getInputSignalHashPosition(keyHash) = {} THEN "aborted"
           ELSE IF \E p \in getInputSignalHashPosition(keyHash) :
                     circuit.size[circuit.InputHashMap[p]] = j[Keys[it]]
           THEN "set" ELSE "thrown"
  /\ i' = 0
  /\ UNCHANGED <<circuit, fnv1a, j, it, signalValues, inputSignalAssignedCounter, runs>>

\* "No more signals to be assigned", "Signal assigned twice".  (Faulty variant:
\* a signal may be assigned again.)
MayOverwrite(input) == inputSignalAssignedCounter > 0
MayAssign(input) == inputSignalAssignedCounter > 0 /\ ~Assigned(input)

\* setInputSignal.  tryRunCircuit runs the circuit when no input is left.
\* (Faulty variant: when one is left.)
tryRunCircuitEarly == runs' = IF inputSignalAssignedCounter' <= 1 THEN runs + 1 ELSE runs
tryRunCircuit == runs' = IF inputSignalAssignedCounter' = 0 THEN runs + 1 ELSE runs

SetInputSignal ==
  /\ pc = "set" /\ i < j[Keys[it]]
  /\ \E p \in getInputSignalHashPosition(keyHash) :
       LET input == <<circuit.InputHashMap[p], i>>
       IN  /\ MayAssign(input)
           /\ signalValues' = [signalValues EXCEPT ![input] = Keys[it]]
  /\ inputSignalAssignedCounter' = inputSignalAssignedCounter - 1
  /\ tryRunCircuit
  /\ i' = i + 1
  /\ UNCHANGED <<circuit, fnv1a, j, pc, it>>

\* One of its assertions fails.
SetInputSignalAborts ==
  /\ pc = "set" /\ i < j[Keys[it]]
  /\ \E p \in getInputSignalHashPosition(keyHash) :
        ~MayAssign(<<circuit.InputHashMap[p], i>>)
  /\ pc' = "aborted"
  /\ UNCHANGED <<circuit, fnv1a, j, it, i, signalValues, inputSignalAssignedCounter, runs>>

NextKey ==
  /\ pc = "set" /\ i = j[Keys[it]]
  /\ pc' = "key"
  /\ \E m \in 1..(Len(Keys) + 1) : it' = m /\ Follows(it, m)
  /\ UNCHANGED <<circuit, fnv1a, j, i, signalValues, inputSignalAssignedCounter, runs>>

\* getCommittedPols goes on to the witness, or exits.  (Faulty variant: it does
\* not ask whether inputs remain to be set.)
GoOn == pc' = "witness"
CheckRemainingInputs ==
  pc' = IF inputSignalAssignedCounter # 0 THEN "exited" ELSE "witness"
Loaded ==
  /\ pc = "key" /\ it > Len(Keys)
  /\ CheckRemainingInputs
  /\ UNCHANGED <<circuit, fnv1a, j, it, i, signalValues, inputSignalAssignedCounter, runs>>

LoadEnded == pc \in {"witness", "aborted", "thrown", "exited"} /\ UNCHANGED loadVars

LoadNext == LookUpKey \/ SetInputSignal \/ SetInputSignalAborts \/ NextKey \/ Loaded \/ LoadEnded
LoadSpec == LoadInit /\ [][LoadNext]_loadVars

-----------------------------------------------------------------------------
LoadTypeOK ==
  /\ pc \in {"key", "set", "witness", "aborted", "thrown", "exited"}
  /\ it \in 1..(Len(Keys) + 1) /\ i \in Nat
  /\ signalValues \in [Inputs -> Key \cup {NoKey}]
  /\ inputSignalAssignedCounter = Cardinality({x \in Inputs : ~Assigned(x)})
  /\ runs \in {0, 1}

\* The circuit runs once, in the call that sets the last of its inputs, so it
\* never computes on one that is not set, and no value changes after it ran.
RunsOnAllItsInputs == runs = 1 <=> \A x \in Inputs : Assigned(x)
InputsStayAsTheyRan == [][runs = 1 => UNCHANGED <<signalValues, runs>>]_loadVars

\* The witness is of a circuit that ran, on the values that the object gives
\* under the names of its signals: all those of a signal come from one key, of
\* the same hash, and as many as the signal has.
WitnessOfTheObject ==
  pc = "witness" =>
    /\ runs = 1
    /\ \A x \in Inputs :
         /\ fnv1a[signalValues[x]] = fnv1a[x[1]]
         /\ signalValues[x] = signalValues[<<x[1], 0>>]
         /\ j[signalValues[x]] = circuit.size[x[1]]

\* The inductive invariant of CircomProofs.  What stays as it is at the start:
\* a table of signals whose hashes differ, and an object of known keys.
Signals == DOMAIN circuit.size
CircuitInv ==
  /\ circuit \in [size : [Signals -> Sizes], beyond : {0, Garbage},
                   InputHashMap : [0..(n - 1) -> Signals \cup {NoKey}]]
  /\ Signals \in SUBSET Key /\ Signals # {}
  /\ circuit.InputHashMap \in Tables(fnv1a, Signals)
  /\ fnv1a \in [Key -> Hashes]
  /\ \A k, l \in Signals : fnv1a[k] = fnv1a[l] => k = l
  /\ Inputs = InputsOf(circuit.size)
  /\ DOMAIN j \in SUBSET Key /\ j \in [DOMAIN j -> Sizes]

\* The place in j: a key whose values are being set has a signal of that size.
PlaceInv ==
  /\ it <= Len(Keys) => Keys[it] \in DOMAIN j
  /\ pc = "set" =>
       /\ it <= Len(Keys) /\ i <= j[Keys[it]]
       /\ \E p \in getInputSignalHashPosition(keyHash) :
            circuit.size[circuit.InputHashMap[p]] = j[Keys[it]]

\* A signal has no value or all of one key of j; or it is being set.
Source(s, k) == k \in DOMAIN j /\ fnv1a[k] = fnv1a[s] /\ j[k] = circuit.size[s]
HasBefore(s, x, k) == \A y \in 0..(circuit.size[s] - 1) :
                        signalValues[<<s, y>>] = IF y < x THEN k ELSE NoKey
IsBeingSet(s) == pc = "set" /\ i > 0 /\ fnv1a[Keys[it]] = fnv1a[s]
SignalInv ==
  pc \in {"key", "set", "witness"} =>
    \A s \in Signals :
      IF IsBeingSet(s) THEN Source(s, Keys[it]) /\ HasBefore(s, i, Keys[it])
      ELSE \/ HasBefore(s, 0, NoKey)
           \/ \E k \in Key : Source(s, k) /\ HasBefore(s, circuit.size[s], k)

RunInv ==
  /\ runs = IF inputSignalAssignedCounter = 0 THEN 1 ELSE 0
  /\ pc = "witness" => inputSignalAssignedCounter = 0

LoadInv == LoadTypeOK /\ CircuitInv /\ PlaceInv /\ SignalInv /\ RunInv

\* An object that has the signals of the circuit, with their sizes, is loaded.
GoodObject == j = circuit.size
IsLoaded == pc \notin {"aborted", "thrown", "exited"}

\* So says the code, unless a signal shares the last slot of the table.
LastSlotIsNotShared ==
  \A s \in DOMAIN circuit.size :
    fnv1a[s] % n = n - 1 => circuit.InputHashMap[n - 1] = s
GoodObjectIsLoaded == GoodObject /\ LastSlotIsNotShared => IsLoaded

\* "Signal not found", says the assertion that fails: but it is in the table.
\* The loop leaves the table at its end instead of going on at its start.
SignalOfTheCircuitIsFound == GoodObject => IsLoaded
=============================================================================
