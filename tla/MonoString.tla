----------------------------- MODULE MonoString ------------------------------
(***************************************************************************)
(* haisu::mono::string<N> (src/haisu/mono_string.h): a string of at most N *)
(* characters in an array of N + 1, whose last byte holds the room that is *)
(* left, and is so the NUL of a string of N characters.                    *)
(*                                                                         *)
(* A program asks as the string's assertions and std::string have it; it   *)
(* resizes downwards, since resize() brings nothing into the characters it *)
(* adds.                                                                   *)
(***************************************************************************)
EXTENDS Integers, Sequences, SequencesExt, FiniteSetsExt

CONSTANTS N,
          Char,         \* the characters, without NUL
          CopiesResize  \* copies are made of strings of any size, not only the same

VARIABLES
    buf,     \* _buf
    text,    \* history: the string as std::string has it
    answer,  \* what the last query returned
    due      \* history: what it should return, or Copied after a copy

vars == <<buf, text, answer, due>>

npos == -1
Copied == -2
size == N - buf[N]

\* The strings that fit, and those that are passed as short arguments.
Text == SeqOf(Char, N)
Arg == SeqOf(Char, 2)

-----------------------------------------------------------------------------
(* The array                                                               *)

\* memcpy or memset of the characters of s, and memmove of n characters.
put(b, to, s) ==
    [i \in 0 .. N |-> IF i \in to .. to + Len(s) - 1 THEN s[i - to + 1] ELSE b[i]]
moved(b, to, from, n) ==
    [i \in 0 .. N |-> IF i \in to .. to + n - 1 THEN b[i - to + from] ELSE b[i]]

\* Mutant: the NUL is not written.
resized_unterminated(b, count) == [b EXCEPT ![N] = N - count]

\* resize(count)
resized(b, count) == [b EXCEPT ![N] = N - count, ![count] = 0]

\* A string that has been cleared, in memory that was zero before.
Cleared(b) == [b EXCEPT ![0] = 0, ![N] = N]
Zeros == [i \in 0 .. N |-> 0]

\* The first n characters from position p; c_str() up to its NUL, or the whole
\* array if there is none.
CharsAt(p, n) == [i \in 1 .. n |-> buf[p + i - 1]]
CString ==
    LET nuls == {i \in 0 .. N : buf[i] = 0}
    IN  CharsAt(0, IF nuls = {} THEN N + 1 ELSE Min(nuls))

Init ==
    /\ buf = Cleared(Zeros)
    /\ text = <<>>
    /\ answer = npos
    /\ due = npos

-----------------------------------------------------------------------------
(* Changes                                                                 *)

Becomes(b, t) == buf' = b /\ text' = t /\ answer' = npos /\ due' = npos

assign(s) == Becomes(resized(put(buf, 0, s), Len(s)), s)

\* assign(const string&), of a string that was assigned s: the first N bytes.
copy(s) ==
    /\ CopiesResize \/ Len(s) = size
    /\ buf' = [resized(put(Zeros, 0, s), Len(s)) EXCEPT ![N] = buf[N]]
    /\ text' = s
    /\ answer' = 0
    /\ due' = Copied

clear == Becomes(Cleared(buf), <<>>)

resize(n) == n <= size /\ Becomes(resized(buf, n), SubSeq(text, 1, n))
pop_back == size > 0 /\ resize(size - 1)

\* Writes through at(), operator[], front() and back().
write(i, c) == i < size /\ Becomes([buf EXCEPT ![i] = c], [text EXCEPT ![i + 1] = c])

append(s) ==
    /\ size + Len(s) <= N
    /\ Becomes(resized(put(buf, size, s), size + Len(s)), text \o s)

\* count may be more than there is.
erase(index, count) ==
    LET n == Min({count, size - index}) IN
    /\ index <= size
    /\ Becomes(resized(moved(buf, index, index + n, size - (index + n)), size - n),
               SubSeq(text, 1, index) \o SubSeq(text, index + n + 1, size))

insert(index, s) ==
    /\ index <= size
    /\ size + Len(s) <= N
    /\ Becomes(resized(put(moved(buf, index + Len(s), index, size - index), index, s),
                       size + Len(s)),
               SubSeq(text, 1, index) \o s \o SubSeq(text, index + 1, size))

\* The assertion lets a replacement only lengthen the string.
replace(pos, count, s) ==
    /\ pos + count <= size
    /\ Len(s) >= count
    /\ size - count + Len(s) <= N
    /\ Becomes(resized(put(moved(buf, pos + Len(s), pos + count, size - pos - count), pos, s),
                       size + Len(s) - count),
               SubSeq(text, 1, pos) \o s \o SubSeq(text, pos + count + 1, size))

-----------------------------------------------------------------------------
(* Queries                                                                 *)

Matches(t, i, s) ==
    i + Len(s) <= Len(t) /\ SubSeq(t, i + 1, i + Len(s)) = s
FirstOf(S) == IF S = {} THEN npos ELSE Min(S)
LastOf(S) == IF S = {} THEN npos ELSE Max(S)

Asked(is, ought) == answer' = is /\ due' = ought /\ UNCHANGED <<buf, text>>

\* find(): strstr() from pos.
find(s, pos) ==
    /\ pos <= size
    /\ Asked(FirstOf({i \in pos .. Len(CString) : Matches(CString, i, s)}),
             FirstOf({i \in pos .. Len(text) : Matches(text, i, s)}))

\* algo::memrmem(): from one place with the first character to the one before,
\* but a place directly before is passed over.
memrmem(h, s) ==
    LET search[end \in -1 .. Len(h)] ==
            LET place == LastOf({i \in 0 .. end - 1 : h[i + 1] = s[1]})
            IN  IF place = npos THEN npos
                ELSE IF Matches(h, place, s) THEN place
                ELSE search[place - 1]
    IN  IF Len(s) > Len(h) THEN npos ELSE search[Len(h) - Len(s) + 1]

\* rfind(), of strings that do not begin with two equal characters, where
\* memrmem() passes over nothing.
rfind(s, pos) ==
    /\ s # <<>>
    /\ Len(s) > 1 => s[1] # s[2]
    /\ LET end == Min({IF pos < size THEN pos + Len(s) ELSE pos, size})
       IN  Asked(memrmem(CharsAt(0, end), s),
                 LastOf({i \in 0 .. pos : Matches(text, i, s)}))

\* find_first_of(), and with the other characters find_first_not_of(), walk
\* to the NUL; find_last_of() and find_last_not_of() walk down from size - 1.
find_first_of(C, pos) ==
    /\ pos <= size
    /\ Asked(FirstOf({i \in pos .. Len(CString) - 1 : buf[i] \in C}),
             FirstOf({i \in pos .. Len(text) - 1 : text[i + 1] \in C}))

find_last_of(C, pos) ==
    Asked(IF size = 0 THEN npos
          ELSE LastOf({i \in 0 .. Min({pos, size - 1}) : buf[i] \in C}),
          LastOf({i \in 0 .. Min({pos, Len(text) - 1}) : text[i + 1] \in C}))

Next ==
    \/ \E s \in Text : assign(s) \/ copy(s)
    \/ \E s \in Arg : append(s)
    \/ \E n \in 0 .. N : resize(n)
    \/ \E i \in 0 .. N, c \in Char : write(i, c)
    \/ clear \/ pop_back
    \/ \E i, n \in 0 .. N : erase(i, n)
    \/ \E i \in 0 .. N, s \in Arg : insert(i, s) \/ find(s, i) \/ rfind(s, i)
    \/ \E i, n \in 0 .. N, s \in Arg : replace(i, n, s)
    \/ \E C \in SUBSET Char, i \in 0 .. N : find_first_of(C, i) \/ find_last_of(C, i)

Spec == Init /\ [][Next]_vars

-----------------------------------------------------------------------------
(* Properties                                                              *)

\* The array holds the characters of the string, its size and a NUL, wherever
\* the end has moved; a search answers what it answers for that string.
StringIsText ==
    /\ size \in 0 .. N
    /\ CharsAt(0, size) = text
    /\ CString = text
    /\ due # Copied => answer = due

\* A string that has been copied from another one compares equal to it.
CopyIsEqual == due = Copied => CString = text
==============================================================================
