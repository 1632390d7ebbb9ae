--------------------------- MODULE SectionLayout ---------------------------
(***************************************************************************)
(* PilFflonkProver::setConstantData gives each big buffer its sections: it *)
(* adds the lengths of the map's entries, allocates the sum, and goes      *)
(* through the map again to place them one after another.                  *)
(***************************************************************************)
EXTENDS Integers, Sequences

VARIABLES lengths,  \* of the sections, in the order of the map
          total,    \* lengthBuffer...
          ends,     \* history: total, behind each entry of the first loop
          offset,
          ptr       \* where each section starts, as far as they are placed

layoutVars == <<lengths, total, ends, offset, ptr>>

StartLayout(ls) ==
  /\ lengths' = ls
  /\ total' = 0 /\ ends' = <<>>
  /\ offset' = 0 /\ ptr' = <<>>

AddLength ==
  /\ Len(ends) < Len(lengths)
  /\ total' = total + lengths[Len(ends) + 1]
  /\ ends' = Append(ends, total')
  /\ UNCHANGED <<lengths, offset, ptr>>

\* Where the section behind the n-th starts.  (Faulty variant: an entry too far
\* back is added.)
offsetBehindThePrevious(n) == offset + (IF n = 1 THEN 0 ELSE lengths[n - 1])
offsetBehind(n) == offset + lengths[n]

PlaceSection ==
  /\ Len(ends) = Len(lengths) /\ Len(ptr) < Len(lengths)
  /\ ptr' = Append(ptr, offset)
  /\ offset' = offsetBehind(Len(ptr) + 1)
  /\ UNCHANGED <<lengths, total, ends>>

LaidOut == Len(ptr) = Len(lengths) /\ Len(ends) = Len(lengths)

LayoutInit == lengths = <<>> /\ total = 0 /\ ends = <<>> /\ offset = 0 /\ ptr = <<>>
LayoutNext == \/ AddLength \/ PlaceSection
              \/ LaidOut /\ \E ls \in Seq(Nat) : StartLayout(ls)
LayoutSpec == LayoutInit /\ [][LayoutNext]_layoutVars

-----------------------------------------------------------------------------
\* No two sections of a buffer overlap, and each is in what was allocated.
SectionsAreDisjoint ==
  \A i \in 1..Len(ptr) :
    /\ ptr[i] + lengths[i] <= total
    /\ \A j \in 1..Len(ptr) : i < j => ptr[i] + lengths[i] <= ptr[j]

\* The inductive invariant: the second loop passes the sums of the first one.
LayoutInv ==
  /\ lengths \in Seq(Nat) /\ ends \in Seq(Nat) /\ ptr \in Seq(Nat)
  /\ total \in Nat /\ offset \in Nat
  /\ Len(ends) <= Len(lengths) /\ Len(ptr) <= Len(lengths)
  /\ Len(ptr) > 0 => Len(ends) = Len(lengths)
  /\ total = IF ends = <<>> THEN 0 ELSE ends[Len(ends)]
  /\ offset = IF ptr = <<>> THEN 0 ELSE ends[Len(ptr)]
  /\ \A i \in 1..Len(ends) : ends[i] = lengths[i] + IF i = 1 THEN 0 ELSE ends[i - 1]
  /\ \A i, j \in 1..Len(ends) : i <= j => ends[i] <= ends[j]
  /\ \A i \in 1..Len(ptr) : ptr[i] + lengths[i] = ends[i]
=============================================================================
