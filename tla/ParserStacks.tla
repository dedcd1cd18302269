----------------------------- MODULE ParserStacks ----------------------------
(***************************************************************************)
(* The stacks of flags in src/haisu/json.h, each of which tells an array   *)
(* (TRUE) from an object (FALSE) at every level of a document and packs    *)
(* the flags in its own way:                                               *)
(*   bitstack<N>         a bit of a word for each flag;                    *)
(*   bitstack<63>        a bit of its only word, the lowest of which       *)
(*                       stands for the empty stack;                       *)
(*   nibblestack<N>      half a byte for each flag;                        *)
(*   compressed_objstack a byte for each run of equal flags.               *)
(* A word is the set of its bits that are set, by number from 1.  Memory   *)
(* that nothing was written to is Junk.                                    *)
(*                                                                         *)
(* The program pushes no more flags than the stack has room for.           *)
(* nibblestack adds 256 to its size for every second flag, which only an   *)
(* 8-bit size_type takes for nothing: N / 2 < 255 is assumed.  With no run *)
(* yet, compressed_objstack reads the byte before its first one, the       *)
(* highest of size_: 0xff, a full run of objects to which none can be      *)
(* added, so that the program pushes an array first.                       *)
(***************************************************************************)
EXTENDS Integers, Sequences, SequencesExt

CONSTANTS WordBits, Words,  \* bits of a word; words of a bitstack
          RunMax,           \* the longest run that a byte can count: 0x7f
          NoMemory          \* memory nobody has written

VARIABLES
    kind,   \* which of the stacks the program has
    stack,  \* its memory
    flags   \* history: the flags pushed and not popped since

vars == <<kind, stack, flags>>

Kind == {"bits", "bits63", "nibbles", "runs"}

-----------------------------------------------------------------------------
(* bitstack<N>; no mask is 0                                               *)

bits_empty == [bits |-> [p \in 0 .. Words - 1 |-> NoMemory], mask |-> 0, pos |-> -1]

\* mask_ <<= 1
ShiftedLeft(mask) == IF mask \in 1 .. WordBits - 1 THEN mask + 1 ELSE 0

\* A false flag is not written: the bit keeps the flag it last had.
bits_push(s, f) ==
    LET m == ShiftedLeft(s.mask)
        t == IF m = 0
             THEN [mask |-> 1, pos |-> s.pos + 1,
                   bits |-> [s.bits EXCEPT ![s.pos + 1] = {}]]
             ELSE [s EXCEPT !.mask = m]
    IN  IF f THEN [t EXCEPT !.bits[t.pos] = @ \cup {t.mask}] ELSE t

bits_pop(s) == IF s.mask = 1 THEN [s EXCEPT !.mask = WordBits, !.pos = @ - 1]
               ELSE [s EXCEPT !.mask = @ - 1]

bits_top(s) == s.mask \in s.bits[s.pos]

-----------------------------------------------------------------------------
(* bitstack<63>                                                            *)

bits63_empty == [bits |-> {}, mask |-> 1]
bits63_push(s, f) ==
    LET m == ShiftedLeft(s.mask)
    IN  [mask |-> m, bits |-> IF f THEN s.bits \cup {m} ELSE s.bits \ {m}]
bits63_pop(s) == [s EXCEPT !.mask = @ - 1]
bits63_top(s) == s.mask \in s.bits

-----------------------------------------------------------------------------
(* nibblestack<N>: the mask is 0x0f or 0xf0, the size counts bytes, and a  *)
(* byte is its two nibbles, under the masks that select them.              *)

Low == 15
High == 240
Other(mask) == IF mask = Low THEN High ELSE Low

nibbles_empty ==
    [bytes |-> [i \in 0 .. Words * WordBits |-> [m \in {Low, High} |-> NoMemory]],
     mask |-> High, size |-> 0]
nibbles_push(s, f) ==
    LET n == (s.size + (IF s.mask = High THEN 1 ELSE 256)) % 256
        m == Other(s.mask)
    IN  [mask |-> m, size |-> n, bytes |-> [s.bytes EXCEPT ![n - 1][m] = f]]
nibbles_pop(s) ==
    [s EXCEPT !.size = (@ - (IF s.mask = Low THEN 1 ELSE 256)) % 256,
              !.mask = Other(@)]
nibbles_top(s) == s.bytes[s.size - 1][s.mask]

-----------------------------------------------------------------------------
(* compressed_objstack: a byte is the flag of its run and its length.      *)

runs_empty == [run |-> [i \in 0 .. Words * WordBits |-> NoMemory], size |-> -1]

runs_top(s) == s.size # -1 /\ s.run[s.size].array
Fits(s, f) == IF s.size = -1 THEN f
              ELSE s.run[s.size].array = f => s.run[s.size].length < RunMax

runs_push(s, f) ==
    IF runs_top(s) = f
    THEN [s EXCEPT !.run[s.size].length = @ + 1]
    ELSE [size |-> s.size + 1,
          run |-> [s.run EXCEPT ![s.size + 1] = [array |-> f, length |-> 1]]]
runs_pop(s) ==
    LET t == [s EXCEPT !.run[s.size].length = @ - 1]
    IN  IF t.run[t.size].length = 0 THEN [t EXCEPT !.size = @ - 1] ELSE t

-----------------------------------------------------------------------------
(* The program                                                             *)

Empty == CASE kind = "bits"    -> bits_empty
           [] kind = "bits63"  -> bits63_empty
           [] kind = "nibbles" -> nibbles_empty
           [] kind = "runs"    -> runs_empty

Init ==
    /\ kind \in Kind
    /\ stack = Empty
    /\ flags = <<>>

HasRoom(f) ==
    CASE kind = "bits"    -> Len(flags) < Words * WordBits
      [] kind = "bits63"  -> Len(flags) < WordBits - 1
      [] kind = "nibbles" -> Len(flags) < Words * WordBits
      [] kind = "runs"    -> Len(flags) < Words * WordBits /\ Fits(stack, f)

Push(f) ==
    /\ HasRoom(f)
    /\ stack' = CASE kind = "bits"    -> bits_push(stack, f)
                  [] kind = "bits63"  -> bits63_push(stack, f)
                  [] kind = "nibbles" -> nibbles_push(stack, f)
                  [] kind = "runs"    -> runs_push(stack, f)
    /\ flags' = Append(flags, f)
    /\ UNCHANGED kind

Pop ==
    /\ flags # <<>>
    /\ stack' = CASE kind = "bits"    -> bits_pop(stack)
                  [] kind = "bits63"  -> bits63_pop(stack)
                  [] kind = "nibbles" -> nibbles_pop(stack)
                  [] kind = "runs"    -> runs_pop(stack)
    /\ flags' = Front(flags)
    /\ UNCHANGED kind

Next == (\E f \in BOOLEAN : Push(f)) \/ Pop

Spec == Init /\ [][Next]_vars

-----------------------------------------------------------------------------
(* Properties                                                              *)

empty == CASE kind = "bits"    -> stack.pos < 0
           [] kind = "bits63"  -> stack.mask = 1
           [] kind = "nibbles" -> stack.size = 0
           [] kind = "runs"    -> stack.size = -1

top == CASE kind = "bits"    -> bits_top(stack)
         [] kind = "bits63"  -> bits63_top(stack)
         [] kind = "nibbles" -> nibbles_top(stack)
         [] kind = "runs"    -> runs_top(stack)

\* Every stack of flags is empty when all flags are popped, and has the last
\* one that is left at its top, in whatever order flags were pushed and
\* popped: a bitstack<N>, whose bits may keep an older TRUE, whenever the
\* flag is TRUE or the first one of its word.
TopIsLastFlag ==
    /\ empty = (flags = <<>>)
    /\ flags # <<>> =>
          \/ top = Last(flags)
          \/ kind = "bits" /\ stack.mask # 1 /\ ~Last(flags)
=============================================================================
