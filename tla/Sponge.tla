------------------------------- MODULE Sponge -------------------------------
(***************************************************************************)
(* The Keccak sponge of genlayer.py.keccak, with the permutation left      *)
(* abstract: the lanes are a history of the blocks mixed into them and of  *)
(* the permutations applied, equal for two runs only if the runs were.     *)
(***************************************************************************)
EXTENDS Integers, Sequences, SequencesExt

CONSTANTS Rate,         \* bitrate_bytes (136 for Keccak256)
          DigestSize    \* digest_size in bytes (32 for Keccak256)

Fresh == [lanes |-> <<>>, buffer |-> <<>>]     \* KeccakSponge.__init__

(* KeccakState.absorb xors a block into the lanes; keccak_f permutes them. *)
Mixed(lanes, block) == Append(lanes, block)
Permuted(lanes)     == Append(lanes, "keccak_f")

AbsorbBlock(sp, block) == [sp EXCEPT !.lanes = Permuted(Mixed(@, block))]

RECURSIVE DrainBuffer(_)
DrainBuffer(sp) ==
    IF Len(sp.buffer) < Rate THEN sp
    ELSE DrainBuffer([AbsorbBlock(sp, SubSeq(sp.buffer, 1, Rate))
                        EXCEPT !.buffer = SubSeq(sp.buffer, Rate + 1, Len(sp.buffer))])

Absorb(sp, s) == DrainBuffer([sp EXCEPT !.buffer = @ \o s])

\* Mutant: one byte of room is filled as if it were two
ShortPadding(used) ==
    LET zeros == [i \in 1..(Rate - used - 2) |-> 0]
    IN  IF Rate - used = 1 THEN <<128>> ELSE <<1>> \o zeros \o <<128>>

MultiratePadding(used) ==
    LET padlen == IF Rate - used = 0 THEN Rate ELSE Rate - used
        zeros  == [i \in 1..(padlen - 2) |-> 0]
    IN  IF padlen = 1 THEN <<129>> ELSE <<1>> \o zeros \o <<128>>

AbsorbFinal(sp) == [AbsorbBlock(sp, sp.buffer \o MultiratePadding(Len(sp.buffer)))
                      EXCEPT !.buffer = <<>>]

(* squeeze: squeeze_once until there are DigestSize bytes.  A squeezed     *)
(* byte is its place in the state it was read from.                        *)
RECURSIVE SqueezeFrom(_, _)
SqueezeFrom(lanes, z) ==
    IF z # <<>> /\ Len(z) >= DigestSize THEN SubSeq(z, 1, DigestSize)
    ELSE SqueezeFrom(Permuted(lanes), z \o [i \in 1..Rate |-> <<lanes, i>>])

(* digest works on a copy of the sponge.                                   *)
Digest(sp) == SqueezeFrom(AbsorbFinal(sp).lanes, <<>>)

(* The blocks a message is cut into by the definition of Keccak: pad10*1   *)
(* (in whole bytes) to a multiple of the rate.                             *)
PaddedBlocks(msg) ==
    LET n      == (Len(msg) \div Rate + 1) * Rate
        padded == [i \in 1..n |-> IF i <= Len(msg) THEN msg[i]
                                  ELSE (IF i = Len(msg) + 1 THEN 1 ELSE 0)
                                       + (IF i = n THEN 128 ELSE 0)]
    IN  [b \in 1..(n \div Rate) |-> SubSeq(padded, (b - 1) * Rate + 1, b * Rate)]

(* The digest that definition gives.                                       *)
KeccakOf(msg) ==
    LET blocks == PaddedBlocks(msg)
        lanes  == FlattenSeq([b \in 1..Len(blocks) |-> <<blocks[b], "keccak_f">>])
        From(k) == lanes \o [i \in 1..k |-> "keccak_f"]
    IN  [i \in 1..DigestSize |-> <<From((i - 1) \div Rate), ((i - 1) % Rate) + 1>>]
=============================================================================
