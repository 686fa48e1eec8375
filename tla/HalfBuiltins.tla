--------------------------- MODULE HalfBuiltins ---------------------------
(***************************************************************************)
(* The OpenCL calls that move halves between memory and vectors of floats: *)
(* vload_half<n>, vloada_half<n>, vstore_half<n>, vstorea_half<n>, the     *)
(* __clspv_vloada_half<n> of clspv, and vload<n>, vstore<n> on half data.  *)
(* A half is the set of its bits that are one.  What the calls promise is  *)
(* OpenCL's: element i of a call is the half Stride * offset + i.          *)
(***************************************************************************)
EXTENDS Naturals

CONSTANTS Items,     \* the work-items that call the builtins
          NumWords,  \* the length of the buffer, in 32-bit words
          HalfBits,  \* the bits of a half: 16
          Data       \* the vectors of halves that may be stored

Bits == 0 .. HalfBits - 1
Halves == SUBSET Bits
Places == 0 .. 2 * NumWords - 1

ASSUME SizesAreNatural == NumWords \in Nat /\ HalfBits \in Nat
ASSUME DataAreVectors == Data \subseteq [0 .. 15 -> Halves]

\* A call: the family of the builtin, the digits that end its name (0 when
\* there are none), the "a" of vloada and vstorea, the operands.
NoCall == [store |-> FALSE]

Stride(c) == IF c.vec_size = 0 THEN 1
             ELSE IF c.vec_size = 3 /\ c.aligned THEN 4
             ELSE c.vec_size

Elements(c) == IF c.vec_size = 0 THEN {0} ELSE 0 .. c.vec_size - 1

Place(c, i) == Stride(c) * c.offset + i

Footprint(c) == {Place(c, i) : i \in Elements(c)}

\* Two calls race when one stores a half that the other uses.
Race(c, d) ==
  /\ c # NoCall /\ d # NoCall
  /\ c.store \/ d.store
  /\ Footprint(c) \cap Footprint(d) # {}
===========================================================================
