------------------------------- MODULE Runestone -------------------------------
(***************************************************************************)
(* The runestone of a withdrawal: a tag and the edicts, with the rune id as *)
(* a difference to the id before, every number as a varint.  The base of a  *)
(* digit (128 in the code) is a parameter; a byte is a digit with or        *)
(* without the continuation bit.                                            *)
(***************************************************************************)
EXTENDS Integers, Sequences, SequencesExt

CONSTANTS
  Digit,       \* values of a digit
  LengthByte   \* values of the byte with the length of the payload (256 in the code)

ASSUME RunestoneAssumption ==
  /\ Digit \in Nat /\ Digit > 1
  /\ LengthByte \in Nat /\ LengthByte > 0

(* The low digits first; all but the last carry the continuation bit.       *)
EncodeVarint(value) ==
  LET varint[n \in Nat] ==
        IF n < Digit THEN <<n>> ELSE <<(n % Digit) + Digit>> \o varint[n \div Digit]
  IN varint[value]

(* What is read at an offset, and the offset behind it.                     *)
DecodeVarint(bytes, offset) ==
  LET read[i \in Nat \ {0}] ==
        IF i > Len(bytes) THEN [value |-> 0, next |-> i]
        ELSE IF bytes[i] < Digit THEN [value |-> bytes[i], next |-> i + 1]
        ELSE [value |-> bytes[i] - Digit + Digit * read[i + 1].value, next |-> read[i + 1].next]
  IN read[offset]

EncodeEdict(edict, previous) ==
  EncodeVarint(edict.block - previous.block) \o EncodeVarint(edict.tx - previous.tx)
    \o EncodeVarint(edict.amount) \o EncodeVarint(edict.output)

Origin == [block |-> 0, tx |-> 0]

Payload(edicts) ==
  IF edicts = <<>> THEN <<>>
  ELSE EncodeVarint(0) \o
       FlattenSeq([i \in 1 .. Len(edicts) |->
                     EncodeEdict(edicts[i], IF i = 1 THEN Origin ELSE edicts[i - 1])])

(* The push of the payload says in one byte how long it is.                 *)
EncodeRunestone(edicts) ==
  LET payload == Payload(edicts)
  IN [length |-> Len(payload) % LengthByte, payload |-> payload]

(* The loop over the payload, up to the length that is said.                *)
DecodeRunestone(script) ==
  LET bytes == SubSeq(script.payload, 1, script.length)
      from[at \in [offset : Nat \ {0}, block : Nat, tx : Nat]] ==
        IF at.offset > Len(bytes) THEN <<>>
        ELSE LET b == DecodeVarint(bytes, at.offset)
                 t == DecodeVarint(bytes, b.next)
                 a == DecodeVarint(bytes, t.next)
                 o == DecodeVarint(bytes, a.next)
                 block == at.block + b.value
                 tx == at.tx + t.value
             IN <<[block |-> block, tx |-> tx, amount |-> a.value, output |-> o.value]>>
                \o from[[offset |-> o.next, block |-> block, tx |-> tx]]
      tag == DecodeVarint(bytes, 1)
  IN IF bytes = <<>> \/ tag.value # 0 THEN <<>>
     ELSE from[[offset |-> tag.next, block |-> 0, tx |-> 0]]
=============================================================================
