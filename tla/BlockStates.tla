---------------------------- MODULE BlockStates ----------------------------
(***************************************************************************)
(* The block states (blocks/blocks.go): the list from which runtime IDs    *)
(* are counted, and the hash by which a state read from disk is found in   *)
(* it.  A value of a property is the sequence of the bytes it is hashed as. *)
(***************************************************************************)
EXTENDS Integers, Sequences

CONSTANT States  \* what init registers: [name, properties], the values in the order of their keys

\* HashProperties writes the values one after the other, without keys or lengths.
HashProperties(s) ==
  LET hashed[n \in 0 .. Len(s.properties)] ==
        IF n = 0 THEN <<>> ELSE hashed[n - 1] \o s.properties[n]
  IN  hashed[Len(s.properties)]

StateHash(s) == <<s.name, HashProperties(s)>>

RuntimeIds == 0 .. Len(States) - 1

RuntimeIDToState(id) == States[id + 1]

\* Found by the name, whatever the properties (slip).
NamedRuntimeID(s) == CHOOSE id \in RuntimeIds : RuntimeIDToState(id).name = s.name

\* Found in stateRuntimeIDs, by the hash alone.
StateToRuntimeID(s) == CHOOSE id \in RuntimeIds : StateHash(RuntimeIDToState(id)) = StateHash(s)

\* RegisterBlockState refuses a hash that it has, and init then panics.
ASSUME StatesAssumption ==
  /\ Len(States) \in Nat
  /\ \A i, j \in RuntimeIds :
       StateHash(RuntimeIDToState(i)) = StateHash(RuntimeIDToState(j)) => i = j
=============================================================================
