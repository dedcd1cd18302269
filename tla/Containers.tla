----------------------------- MODULE Containers ------------------------------
(***************************************************************************)
(* Containers that keep their contents in memory of their own: mono::hash, *)
(* zset and mono::string, which find them by searching it,                 *)
(* mono::overflow_stack and the stacks of flags of the parser, small_any   *)
(* and tree.  A program uses one of them.                                  *)
(***************************************************************************)
EXTENDS MonoHash, Sequences

CONSTANTS Word, OffSize,                       \* of zset
          StringN, Char, CopiesResize,         \* mono::string
          Stack, Capacity, Item, SizeMod, MaxItems,  \* mono::overflow_stack
          WordBits, Words, RunMax, NoMemory,   \* the stacks of flags
          Any, Resource, Null, Number, NoObject,  \* small_any
          TVal, Default, Junk, MaxDepth, MaxNodes  \* tree

ASSUME WordAssumption == Word \subseteq Seq(Nat \ {0})
ASSUME OffSizeAssumption == OffSize \in Nat \ {0}
ASSUME StringNAssumption == StringN \in 1 .. 127
ASSUME CharAssumption == Char \subseteq Nat \ {0}
ASSUME CopiesAssumption == CopiesResize \in BOOLEAN
ASSUME ItemAssumption == Item \subseteq 1 .. 255
ASSUME CapacityAssumption == Capacity \in [Stack -> Nat \ {0}]
ASSUME SizeAssumption == SizeMod \in Nat /\ MaxItems \in Nat /\ SizeMod > MaxItems
ASSUME WordsAssumption ==
    /\ WordBits \in Nat /\ Words \in Nat /\ RunMax \in Nat
    /\ WordBits > 1 /\ Words > 0 /\ Words * WordBits < 510 /\ RunMax > 0
ASSUME ObjectAssumption ==
    /\ {Null, Number, NoObject} \cap Resource = {}
    /\ Null # Number /\ Null # NoObject /\ Number # NoObject
ASSUME JunkAssumption == Junk \notin TVal \cup {Default}

VARIABLES
    program,  \* the container the program uses
    z_buf, z_size, z_words, z_answer, z_due,
    s_buf, s_text, s_answer, s_due,
    o_cells, o_size, o_overflow, o_pushed,
    f_kind, f_stack, f_flags,
    a_vtable, a_object, a_count, a_held, a_wild,
    t_val, t_leaves, t_paths

zset == <<z_buf, z_size, z_words, z_answer, z_due>>
string == <<s_buf, s_text, s_answer, s_due>>
stack == <<o_cells, o_size, o_overflow, o_pushed>>
flags == <<f_kind, f_stack, f_flags>>
any == <<a_vtable, a_object, a_count, a_held, a_wild>>
tree == <<t_val, t_leaves, t_paths>>
containersVars == <<program, vars, zset, string, stack, flags, any, tree>>

Z == INSTANCE Zset WITH
        buf <- z_buf, size <- z_size, words <- z_words,
        answer <- z_answer, due <- z_due
S == INSTANCE MonoString WITH
        N <- StringN, buf <- s_buf, text <- s_text,
        answer <- s_answer, due <- s_due
O == INSTANCE MonoStack WITH
        cells <- o_cells, size <- o_size, overflow <- o_overflow,
        pushed <- o_pushed
F == INSTANCE ParserStacks WITH
        kind <- f_kind, stack <- f_stack, flags <- f_flags
A == INSTANCE SmallAny WITH
        vtable <- a_vtable, object <- a_object, count <- a_count,
        held <- a_held, wild <- a_wild
T == INSTANCE Tree WITH
        TKey <- {1, 2}, val <- t_val, leaves <- t_leaves, paths <- t_paths

\* Where the program has no hash, it does not matter what its memory holds,
\* nor which stack of flags it does not have.
ContainersInit ==
    /\ program \in {"hash", "zset", "string", "stack", "flags", "any", "tree"}
    /\ Init /\ Z!Init /\ S!Init /\ O!Init /\ F!Init /\ A!Init /\ T!Init
    /\ program # "hash" => \A r, s \in Slot : second[r] = second[s]
    /\ program # "flags" => f_kind = "bits"

ContainersNext ==
    \/ /\ program = "hash" /\ Next
       /\ UNCHANGED <<program, zset, string, stack, flags, any, tree>>
    \/ /\ program = "zset" /\ Z!Next
       /\ UNCHANGED <<program, vars, string, stack, flags, any, tree>>
    \/ /\ program = "string" /\ S!Next
       /\ UNCHANGED <<program, vars, zset, stack, flags, any, tree>>
    \/ /\ program = "stack" /\ O!Next
       /\ UNCHANGED <<program, vars, zset, string, flags, any, tree>>
    \/ /\ program = "flags" /\ F!Next
       /\ UNCHANGED <<program, vars, zset, string, stack, any, tree>>
    \/ /\ program = "any" /\ A!Next
       /\ UNCHANGED <<program, vars, zset, string, stack, flags, tree>>
    \/ /\ program = "tree" /\ T!Next
       /\ UNCHANGED <<program, vars, zset, string, stack, flags, any>>

ContainersSpec == ContainersInit /\ [][ContainersNext]_containersVars

-----------------------------------------------------------------------------
(* Properties                                                              *)

\* A zset has its strings in order, each where the table of offsets says,
\* however insertions and erasures have moved them, and its searches find
\* exactly the words that are there.
ZsetIsSorted == Z!StringsAreWords /\ Z!SearchesFindWords

\* A mono::string holds the characters of the string, its size and a NUL,
\* wherever the end has moved, and its searches answer as for that string.
StringIsText == S!StringIsText

\* A mono::string that has been copied from another one compares equal to it.
CopyIsEqual == S!CopyIsEqual

\* A stack has the items that were pushed on it and not popped, as many as it
\* has room for, and counts those it has none for, whatever is appended to it
\* and from which other stack; its comparisons by memcmp() are those of the
\* items.  A stack of flags has the last flag at its top, but for a
\* FALSE of a bitstack, not the first flag of its word, which may still be
\* the TRUE that was popped there.
StacksAgree == O!StackIsPrefix /\ O!StacksAreOrdered /\ F!TopIsLastFlag

\* Copied, moved and swapped, a small_any gives the object it should have,
\* and each object is destroyed once.
AnyOwnsObject == A!AnyOwnsObject

\* Whatever is assigned, erased and moved, a tree has the paths it should.
TreeIsPaths == T!TreeIsPaths

-----------------------------------------------------------------------------
(* Values for the model checker.  Three keys collide at the end of the     *)
(* table, so that searches wrap around; key 1 has a slot that is the last  *)
(* one of the other searches.  The words are one another's prefixes, one   *)
(* is empty, and they differ in length.  There are two stacks of two items *)
(* and one of a single item.                                               *)

SomeCapacities == <<2, 2, 1>>
HashColliding == [k \in Key |-> IF k = 1 THEN 1 ELSE 5]
SomeWords == {<<>>, <<1>>, <<1, 1>>, <<1, 2>>, <<2>>, <<2, 1, 2>>}
==============================================================================
