------------------------------ MODULE AtfWords ------------------------------
(***************************************************************************)
(* What ATF does to the words of a command line: splitting, paths, values  *)
(* and maps (atf-c/detail/text.c, dynstr.c, fs.c, map.c and the C++ that   *)
(* wraps them).                                                            *)
(*                                                                         *)
(* A word is a sequence of tokens: a character the code looks for ("/",    *)
(* "=", ":", "-") or a run of characters it does not tell apart ("prog").  *)
(* A map is the sequence of its entries <<key, value>>, as map.c keeps it. *)
(***************************************************************************)
EXTENDS Naturals, Sequences, SequencesExt

Empty == <<>>

-----------------------------------------------------------------------------
(* Words *)

Places(w, c) == {i \in DOMAIN w : w[i] = c}

\* strchr: where c first is in w, 0 when it is not.
FindCh(w, c) == IF Places(w, c) = {} THEN 0 ELSE Min(Places(w, c))

\* atf_dynstr_rfind_ch.
RFindCh(w, c) == IF Places(w, c) = {} THEN 0 ELSE Max(Places(w, c))

Before(w, i) == SubSeq(w, 1, i - 1)
After(w, i) == SubSeq(w, i + 1, Len(w))

\* A token of the words so far, the last of which is not done: c ends it,
\* unless nothing of it came yet.
PutToken(c, words, t) ==
    IF t # c THEN Front(words) \o <<Append(Last(words), t)>>
    ELSE IF Last(words) = Empty THEN words
    ELSE Append(words, Empty)

\* The words of w that the character c separates; none of them is empty.
Split(w, c) ==
    LET words == FoldLeft(LAMBDA ws, t : PutToken(c, ws, t), <<Empty>>, w)
    IN  IF Last(words) = Empty THEN Front(words) ELSE words

Invalid == <<"invalid">>

\* atf_text_to_bool: yes, true, no and false in any case, nothing else.
ToBool(w) ==
    CASE w \in {<<"yes">>, <<"true">>} -> <<"true">>
      [] w \in {<<"no">>, <<"false">>} -> <<"false">>
      [] OTHER -> Invalid

\* atf_text_to_long: digits, and neither LONG_MIN nor LONG_MAX, which is how
\* strtol answers what is out of range.
ToLong(w) == IF w \in {<<"7">>} THEN w ELSE Invalid

-----------------------------------------------------------------------------
(* Paths *)

Join(p, leaf) == IF p = Empty THEN leaf ELSE p \o <<"/">> \o leaf

\* normalize: no slash at the end and no two in a row.
Normalize(w) ==
    (IF w[1] = "/" THEN <<"/">> ELSE Empty) \o FoldLeft(Join, Empty, Split(w, "/"))

BranchPath(p) ==
    LET endpos == RFindCh(p, "/")
    IN  CASE endpos = 0 -> <<".">>
          [] endpos = 1 -> <<"/">>
          [] OTHER -> Before(p, endpos)

LeafName(p) == After(p, RFindCh(p, "/"))

\* Appending to the root leaves its slash and adds one.
AppendTo(p, w) ==
    LET aux == Normalize(w)
    IN  p \o (IF aux[1] = "/" THEN Empty ELSE <<"/">>) \o aux

ToAbsolute(cwd, p) == AppendTo(Normalize(cwd), p)

\* The C++ class parses again what the C function returned.
CxxBranchPath(p) == Normalize(BranchPath(p))
CxxToAbsolute(cwd, p) == Normalize(ToAbsolute(cwd, p))

-----------------------------------------------------------------------------
(* Maps *)

\* atf_map_find: the first entry of the key, 0 when there is none.
Find(m, key) ==
    LET is == {i \in DOMAIN m : m[i][1] = key} IN IF is = {} THEN 0 ELSE Min(is)

Has(m, key) == Find(m, key) # 0
Value(m, key) == m[Find(m, key)][2]

\* Mutant: a key that is there keeps its value.
InsertFirst(m, key, value) ==
    IF Has(m, key) THEN m ELSE Append(m, <<key, value>>)

\* atf_map_insert: at the end, or in the place of the key's old value.
Insert(m, key, value) ==
    IF Has(m, key) THEN [m EXCEPT ![Find(m, key)] = <<key, value>>]
    ELSE Append(m, <<key, value>>)

\* The entries of a sequence, one after the other.
InsertEntry(m, kv) == Insert(m, kv[1], kv[2])
InsertAll(m, kvs) == FoldLeft(InsertEntry, m, kvs)

\* atf_map_to_charpp, and back: keys and values in turn.
ToCharpp(m) == [i \in 1..(2 * Len(m)) |-> m[(i + 1) \div 2][IF i % 2 = 1 THEN 1 ELSE 2]]

InitCharpp(array) ==
    InsertAll(Empty, [i \in 1..(Len(array) \div 2) |-> <<array[2 * i - 1], array[2 * i]>>])
=============================================================================
