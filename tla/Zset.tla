-------------------------------- MODULE Zset ---------------------------------
(***************************************************************************)
(* haisu::zset (src/haisu/zset.h): a sorted set of strings in one buffer,  *)
(* a zbuf (src/haisu/zbuf.h).  The buffer begins with a table of offsets,  *)
(* one for each string; the strings follow, each with its NUL.  Every      *)
(* insertion and erasure moves the strings behind it, and the table moves  *)
(* them all.                                                               *)
(*                                                                         *)
(* A byte is a number; an offset is a number in the first of the bytes it  *)
(* takes.  The words are the strings of the program, as sequences of bytes *)
(* without the NUL.                                                        *)
(***************************************************************************)
EXTENDS Integers, Sequences, SequencesExt, FiniteSetsExt

CONSTANTS Word,
          OffSize  \* sizeof(off_t)

VARIABLES
    buf,     \* _buf
    size,    \* _size
    words,   \* history: the words that were inserted and not erased since
    answer,  \* what the last query returned
    due      \* history: what it should return

vars == <<buf, size, words, answer, due>>

npos == -1

\* strcmp(s, t) < 0
Less(s, t) ==
    \/ IsStrictPrefix(s, t)
    \/ \E i \in DOMAIN s \cap DOMAIN t :
          s[i] < t[i] /\ SubSeq(s, 1, i - 1) = SubSeq(t, 1, i - 1)

Init ==
    /\ buf = <<>>
    /\ size = 0
    /\ words = {}
    /\ answer = npos
    /\ due = npos

-----------------------------------------------------------------------------
(* zbuf; indexes and offsets count from 0                                  *)

Bytes(w) == Append(w, 0)
OffBytes(off) == <<off>> \o [i \in 1 .. OffSize - 1 |-> 0]

inserted(b, at, bytes) == SubSeq(b, 1, at) \o bytes \o SubSeq(b, at + 1, Len(b))
erased(b, at, n) == SubSeq(b, 1, at) \o SubSeq(b, at + n + 1, Len(b))

\* at<off_t>(i), and the change of it by d for all i in I.
off_at(b, i) == b[i * OffSize + 1]
shifted(b, I, d) ==
    LET cells == {i * OffSize + 1 : i \in I}
    IN  [p \in DOMAIN b |-> IF p \in cells THEN b[p] + d ELSE b[p]]

\* The string that begins at an offset.
string_at(b, off) ==
    LET nul == Min({p \in off + 1 .. Len(b) : b[p] = 0})
    IN  SubSeq(b, off + 1, nul - 1)

-----------------------------------------------------------------------------
(* The searches                                                            *)

at(i) == string_at(buf, off_at(buf, i))

\* std::lower_bound: the first string not below w, or the end.
lower_bound(w) == Min({size} \cup {i \in 0 .. size - 1 : ~Less(at(i), w)})

\* algo::binary_search
find_pos(w) ==
    LET search[head \in 0 .. size, tail \in -1 .. size - 1] ==
            LET mid == (head + tail) \div 2
            IN  IF head > tail THEN npos
                ELSE IF Less(at(mid), w) THEN search[mid + 1, tail]
                ELSE IF Less(w, at(mid)) THEN search[head, mid - 1]
                ELSE mid
    IN  search[0, size - 1]

-----------------------------------------------------------------------------
(* The operations                                                          *)

Nothing == answer' = npos /\ due' = npos

\* The new string goes behind all others, its offset behind all offsets.
Appended(w) ==
    inserted(shifted(buf, 0 .. size - 1, OffSize), size * OffSize,
             OffBytes(Len(buf) + OffSize)) \o Bytes(w)

\* The new string goes in front of string i.
InsertedBefore(w, i) ==
    LET off == off_at(buf, i)
        b1 == inserted(buf, off, Bytes(w))
        b2 == shifted(b1, 0 .. i - 1, OffSize)
        b3 == shifted(b2, i .. size - 1, Len(Bytes(w)) + OffSize)
    IN  inserted(b3, i * OffSize, OffBytes(off + OffSize))

\* Mutant: a word that is there is inserted again.
insert_twice(w) ==
    LET i == lower_bound(w) IN
    /\ buf' = IF i = size THEN Appended(w) ELSE InsertedBefore(w, i)
    /\ size' = size + 1
    /\ words' = words \cup {w}
    /\ Nothing

insert(w) ==
    LET i == lower_bound(w) IN
    /\ IF i = size THEN buf' = Appended(w) /\ size' = size + 1
       ELSE IF at(i) = w THEN UNCHANGED <<buf, size>>
       ELSE buf' = InsertedBefore(w, i) /\ size' = size + 1
    /\ words' = words \cup {w}
    /\ Nothing

Without(i) ==
    LET b1 == erased(buf, off_at(buf, i), Len(Bytes(at(i))))
        diff == off_at(b1, i + 1) - off_at(b1, i) + OffSize
        b2 == IF i + 1 < size THEN shifted(b1, i + 1 .. size - 1, -diff) ELSE b1
        b3 == shifted(b2, 0 .. i - 1, -OffSize)
    IN  erased(b3, i * OffSize, OffSize)

erase(w) ==
    /\ IF find_pos(w) = npos THEN UNCHANGED <<buf, size>>
       ELSE buf' = Without(find_pos(w)) /\ size' = size - 1
    /\ words' = words \ {w}
    /\ Nothing

clear ==
    /\ buf' = <<>>
    /\ size' = 0
    /\ words' = {}
    /\ Nothing

\* find(), and count(), which tells only whether there is a position: the
\* position is the number of smaller words.
find(w) ==
    /\ answer' = find_pos(w)
    /\ due' = IF w \in words THEN Cardinality({u \in words : Less(u, w)}) ELSE npos
    /\ UNCHANGED <<buf, size, words>>

Next ==
    \/ \E w \in Word : insert(w) \/ erase(w) \/ find(w)
    \/ clear

Spec == Init /\ [][Next]_vars

-----------------------------------------------------------------------------
(* Properties                                                              *)

\* The strings are the words, in order, and fill the buffer behind the table
\* without a gap; the table knows where each begins.
StringsAreWords ==
    /\ {at(i) : i \in 0 .. size - 1} = words
    /\ \A i \in 1 .. size - 1 : Less(at(i - 1), at(i))
    /\ \A i \in 0 .. size :
          (IF i = size THEN Len(buf) ELSE off_at(buf, i)) =
          (IF i = 0 THEN size * OffSize
           ELSE off_at(buf, i - 1) + Len(Bytes(at(i - 1))))

\* A search finds a word exactly if it is there.
SearchesFindWords == answer = due
==============================================================================
