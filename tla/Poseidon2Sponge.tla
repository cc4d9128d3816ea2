--------------------------- MODULE Poseidon2Sponge ---------------------------
(***************************************************************************)
(* The sponge by which all notes, keys, leaves and tree nodes are hashed,  *)
(* as the circuits have it (frontend/poseidon2t4.go: absorb in place,      *)
(* permute when a block is full or the input ends) and as the provers have *)
(* it (prover/hash/poseidon2t4.go: a cache, permuted when the next element *)
(* finds it full and once when squeezed).  One of each is run here, on     *)
(* lists that may or may not be the same.                                  *)
(*                                                                         *)
(* The permutation and the field are constants; the two files spell out    *)
(* the same rounds, which test vectors compare.                            *)
(***************************************************************************)
EXTENDS Integers, Sequences

CONSTANTS
    Element,                (* What can be hashed.                         *)
    ZeroElement,
    Plus(_, _),             (* Sum of a lane and an element.               *)
    IV(_),                  (* IV(n) = n * 2^64.                           *)
    PermuteLane(_, _),      (* PermuteLane(s, k): lane k of the permuted s. *)
    MaxLength               (* Length of inputs (a bound).                 *)

ASSUME LengthAssumption == MaxLength \in Nat
ASSUME NoIV == IV(0) = ZeroElement
(* The field is far larger than any length times 2^64.                     *)
ASSUME LengthsTold == \A m, n \in 0..MaxLength : IV(m) = IV(n) => m = n

Rate == 3
Lane == 0..Rate             (* The last one is the capacity.               *)

VARIABLES
    circuitInput,
    inputs,                 (* Of the native sponge.                       *)
    absorbed,               (* Elements of either that were looked at.     *)
    circuit,                (* s0..s3 of the circuit.                      *)
    state, cache,           (* Of the native sponge, the cache up to its   *)
    squeezeMode,            (* size.                                       *)
    circuitPermuted,        (* History: the states that went through the   *)
    permuted                (* permutation, in the circuit and natively.   *)

spongeVars == <<circuitInput, inputs, absorbed, circuit, state, cache, squeezeMode,
                circuitPermuted, permuted>>

Permute(s) == [k \in Lane |-> PermuteLane(s, k)]

-----------------------------------------------------------------------------
(* The circuit.                                                            *)

InitialLanes(n) == [k \in Lane |-> IF k = Rate THEN IV(n) ELSE ZeroElement]

CircuitAbsorb(j) ==
    LET added == [circuit EXCEPT ![j % Rate] = Plus(@, circuitInput[j + 1])]
    IN  IF j % Rate = Rate - 1 \/ j = Len(circuitInput) - 1
        THEN /\ circuit' = Permute(added)
             /\ circuitPermuted' = Append(circuitPermuted, added)
        ELSE /\ circuit' = added
             /\ UNCHANGED circuitPermuted

(* No input: one permutation of nothing.                                   *)
CircuitResult ==
    LET nothing == [k \in Lane |-> ZeroElement]
    IN  IF circuitInput = <<>>
        THEN /\ circuit' = Permute(nothing)
             /\ circuitPermuted' = Append(circuitPermuted, nothing)
        ELSE UNCHANGED <<circuit, circuitPermuted>>

-----------------------------------------------------------------------------
(* The native sponge.                                                      *)

(* Mutant: the length is left out.                                         *)
SpongeOfAnyLength(n) == [k \in Lane |-> IF k = Rate THEN IV(0) ELSE ZeroElement]

newSponge(n) == [k \in Lane |-> IF k = Rate THEN IV(n) ELSE ZeroElement]

Added(s, elements) ==
    [k \in Lane |-> IF k < Len(elements) THEN Plus(s[k], elements[k + 1]) ELSE s[k]]

(* It leaves the cache empty, for its callers to fill.                     *)
performDuplex ==
    /\ state' = Permute(Added(state, cache))
    /\ permuted' = Append(permuted, Added(state, cache))

(* Mutant: the block is permuted as soon as it is full.                    *)
absorbAtOnce(input) ==
    /\ ~squeezeMode
    /\ IF Len(cache) = Rate - 1
       THEN /\ state' = Permute(Added(state, Append(cache, input)))
            /\ permuted' = Append(permuted, Added(state, Append(cache, input)))
            /\ cache' = <<>>
       ELSE /\ cache' = Append(cache, input)
            /\ UNCHANGED <<state, permuted>>

absorb(input) ==
    /\ ~squeezeMode
    /\ IF Len(cache) = Rate
       THEN performDuplex /\ cache' = <<input>>
       ELSE cache' = Append(cache, input) /\ UNCHANGED <<state, permuted>>

-----------------------------------------------------------------------------
Lists == UNION {[1..n -> Element] : n \in 0..MaxLength}

SpongeInit ==
    /\ circuitInput \in Lists
    /\ inputs \in Lists
    /\ absorbed = 0
    /\ circuit = InitialLanes(Len(circuitInput))
    /\ state = newSponge(Len(inputs))
    /\ cache = <<>>
    /\ squeezeMode = FALSE
    /\ circuitPermuted = <<>> /\ permuted = <<>>

Absorb ==
    /\ absorbed < Len(circuitInput) \/ absorbed < Len(inputs)
    /\ absorbed' = absorbed + 1
    /\ IF absorbed < Len(circuitInput)
       THEN CircuitAbsorb(absorbed)
       ELSE UNCHANGED <<circuit, circuitPermuted>>
    /\ IF absorbed < Len(inputs)
       THEN absorb(inputs[absorbed + 1])
       ELSE UNCHANGED <<state, cache, permuted>>
    /\ UNCHANGED <<circuitInput, inputs, squeezeMode>>

Squeeze ==
    /\ absorbed >= Len(circuitInput) /\ absorbed >= Len(inputs)
    /\ ~squeezeMode
    /\ performDuplex /\ cache' = <<>>
    /\ squeezeMode' = TRUE
    /\ CircuitResult
    /\ UNCHANGED <<circuitInput, inputs, absorbed>>

SpongeNext == Absorb \/ Squeeze

SpongeSpec == SpongeInit /\ [][SpongeNext]_spongeVars

-----------------------------------------------------------------------------
(* A proof and the program that makes its witnesses agree on every hash,   *)
(* although they permute at different times: at full blocks, at a last     *)
(* block that is exactly full, and for no input at all.                    *)
SpongesAgree == squeezeMode /\ circuitInput = inputs => circuit[0] = state[0]

(* What equal hashes of two lists hand to whoever looks for a weakness of  *)
(* the permutation: two of the states permuted on the way which agree      *)
(* afterwards in the lane that is squeezed or in the capacity, or one      *)
(* whose capacity becomes what a list of such a length starts with.        *)
Permuted == {circuitPermuted[i] : i \in 1..Len(circuitPermuted)} \cup
            {permuted[i] : i \in 1..Len(permuted)}

Collided ==
    \/ \E s, t \in Permuted : s # t /\ \E k \in {0, Rate} : PermuteLane(s, k) = PermuteLane(t, k)
    \/ \E s \in Permuted : PermuteLane(s, Rate) \in {IV(Len(circuitInput)), IV(Len(inputs))}

(* A hash stands for the list that was hashed, its length included, which  *)
(* is what the other modules take it for: the padding of the last block    *)
(* with zeros never makes two lists one, nor does the moment of a          *)
(* permutation.  Two lists have one hash only if the permutation itself    *)
(* collided while they were hashed.                                        *)
HashesDistinct == squeezeMode /\ circuitInput # inputs /\ circuit[0] = state[0] => Collided
=============================================================================
