----------------------------- MODULE HttpRequest -----------------------------
(***************************************************************************)
(* HttpData::ParseRequest, on a request of characters: the request line in *)
(* one piece, the headers one at a time.  Positions count from 0 and are   *)
(* size_t; npos is the largest, and what is added to it wraps around.  A   *)
(* blank is "SP".                                                          *)
(*                                                                         *)
(* An operator that stands directly before the one it varies (Unmoved      *)
(* before Behind) is a slip the properties must notice, used by no action. *)
(***************************************************************************)
EXTENDS Integers, Sequences, FiniteSetsExt

\* Values of size_t.  The code has 2^64; any number larger than the length
\* of every request gives the same results.
CONSTANT SizeT

ASSUME SizeTAssumption == SizeT \in Nat /\ SizeT > 1

npos == SizeT - 1

-----------------------------------------------------------------------------
(* std::string                                                             *)

\* The character at the size is a NUL.
At(s, p) == IF p < Len(s) THEN s[p + 1] ELSE "NUL"

Find(s, ch, from) ==
  LET hits == {p \in from..Len(s) - 1 : At(s, p) = ch} IN
    IF hits = {} THEN npos ELSE Min(hits)

\* substr throws out_of_range if p is behind the size.
Substr(s, p, n) == SubSeq(s, p + 1, Min({p + n, Len(s)}))

Plus(p, n) == (p + n) % SizeT
Minus(p, q) == (p - q) % SizeT

-----------------------------------------------------------------------------
(* The request line.                                                       *)

Index == <<"index.html">>

\* Without a '?' everything is kept, and also if it comes first.
CutQuery(file) ==
  LET q == Find(file, "?", 0) IN IF q > 0 THEN Substr(file, 0, q) ELSE file

\* back() of an empty string is undefined: it is read as "/", or as something
\* else.
AddIndex(file) ==
  IF file = <<>> THEN {file, file \o Index}
  ELSE IF file[Len(file)] = "/" THEN {file \o Index} ELSE {file}

HasFile(front, tail) == Minus(tail, front) > 1
FileText(line, front, tail) == Substr(line, front + 1, Minus(tail, front) - 1)

RequestLine(text) == Substr(text, 0, Find(text, "CR", 0))

\* What is left for the headers.  Without a "\r" that is all but the first
\* character, since the test of pos_line < 0 is never true.
KeepLine(text) == text
BehindLine(text) ==
  LET p == Plus(Find(text, "CR", 0), 2) IN
    IF Len(text) > p THEN Substr(text, p, Len(text)) ELSE <<>>

\* The places in the request line that the code looks for.  The branch for
\* pos_file_front < 0 is never taken either.
Method(line) == Find(line, "SP", 0)
FileFront(line, method) == Find(line, "/", method)
FileTail(line, front) == Find(line, "SP", front)
VersionText(line, tail) == Substr(line, Plus(Find(line, "/", tail), 1), 3)

-----------------------------------------------------------------------------
(* One turn of the loop over the headers, from position pos of str.        *)

HeadersEnd(str, pos) ==
  \/ pos >= Len(str)
  \/ At(str, pos) = "CR" /\ At(str, pos + 1) = "LF"

Colon(str, pos) == Find(str, ":", pos)

\* while (str[i + 1] == ' ') i++: the colon, or the last blank behind it.
\* From npos this looks at the first characters of str.
ValueFrom(str, i) ==
  Minus(Min({p \in Plus(i, 1)..Len(str) : At(str, p) # "SP"}), 1)
ValueTo(str, from) == Find(str, "CR", from)

Key(str, pos, colon) == Substr(str, pos, Minus(colon, pos))
Value(str, from, to) == Substr(str, from, Minus(to, from))

\* _headers[key] = value
Assigned(map, key, value) ==
  [k \in DOMAIN map \cup {key} |-> IF k = key THEN value ELSE map[k]]

\* pos = i + 2, which is 1 if the last "\r" is missing: the loop then never
\* gets any further.
Unmoved(pos, to) == pos
OneMore(pos, to) == Plus(to, 3)
Behind(pos, to) == Plus(to, 2)
=============================================================================
