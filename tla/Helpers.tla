------------------------------ MODULE Helpers -------------------------------
(***************************************************************************)
(* The helpers mem_zero (osdpslave.cpp), split and join (split.h), loop by *)
(* loop.  Memory and strings are sequences of bytes.                       *)
(***************************************************************************)
EXTENDS Integers, Sequences, SequencesExt, FiniteSetsExt

AllZero(bytes) == \A i \in DOMAIN bytes : bytes[i] = 0

\* The bytes up to the next multiple of 8, and the 32-bit words after them.
Leading(address, size) == Min({size, (8 - (address % 8)) % 8})

Words(size) == size \div 4

WordIsZero_LowByte(word) == word[1] = 0

WordIsZero(word) == AllZero(word)

\* mem_zero(p, size) for the bytes mem at the address p: leading bytes, words,
\* trailing bytes.
mem_zero(address, mem) ==
  LET lead  == Leading(address, Len(mem))
      words == Words(Len(mem) - lead)
      tail  == lead + 4 * words
  IN  /\ AllZero(SubSeq(mem, 1, lead))
      /\ \A w \in 0 .. words - 1 :
           WordIsZero(SubSeq(mem, lead + 4 * w + 1, lead + 4 * w + 4))
      /\ AllZero(SubSeq(mem, tail + 1, Len(mem)))

-----------------------------------------------------------------------------
(* split and join *)

\* str.find(sep, pos), or the end of str.  Positions start at 1.
Find(str, sep, pos) ==
  Min({i \in pos .. Len(str) : str[i] = sep} \cup {Len(str) + 1})

More_Always(state, str, count) == state.pos <= Len(str)

\* The condition of split's loop.
More(state, str, count) ==
  (count = 0 \/ Len(state.parts) < count) /\ state.pos <= Len(str)

\* One turn of it.
NextPart(state, str, sep) ==
  LET end == Find(str, sep, state.pos)
  IN  [parts |-> Append(state.parts, SubSeq(str, state.pos, end - 1)),
       pos   |-> end + 1]

\* The loop ends after one turn per byte at the latest; then what count left over.
split(str, sep, count) ==
  LET turns == FoldLeft(LAMBDA state, i :
                          IF More(state, str, count) THEN NextPart(state, str, sep)
                                                     ELSE state,
                        [parts |-> << >>, pos |-> 1], str)
  IN  IF turns.pos <= Len(str)
      THEN Append(turns.parts, SubSeq(str, turns.pos, Len(str))) ELSE turns.parts

join(parts, sep) ==
  FoldLeftDomain(LAMBDA str, i : str \o (IF i = 1 THEN << >> ELSE <<sep>>) \o parts[i],
                 << >>, parts)
=============================================================================
