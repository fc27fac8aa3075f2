------------------------------- MODULE Config -------------------------------
(***************************************************************************)
(* c_conf.cpp and server_string.cpp: what CConfig::Load makes of a line of *)
(* the configuration file, and what GetString and GetInt find later.       *)
(*                                                                         *)
(* A file is a sequence of tokens: punctuation and white space by the      *)
(* character ("SP" is a blank), words in one piece, each with a width in   *)
(* characters.                                                             *)
(*                                                                         *)
(* An operator that stands directly before the one it varies (KeepBlanks   *)
(* before Store) is a slip the properties must notice, used by no action.  *)
(***************************************************************************)
EXTENDS Naturals, Sequences, FiniteSets, FiniteSetsExt

CONSTANTS
  Width,        \* characters of each token
  LowerCase,    \* the tokens in upper case, and what they are in lower case
  NumberOf,     \* the numbers some tokens are
  LineSize,     \* what fgets is told: 500
  NameSize,     \* sizeof itemName: 50
  ContentSize   \* sizeof itemContent: 100

Chars(s) ==
  LET upTo[n \in 0..Len(s)] == IF n = 0 THEN 0 ELSE upTo[n - 1] + Width[s[n]]
  IN upTo[Len(s)]

-----------------------------------------------------------------------------
(* Reading a line.                                                         *)

\* fgets: up to a line feed, and never more than LineSize - 1 characters; the
\* rest of a longer line is read as the next one.
Fgets(s) ==
  SubSeq(s, 1, Max({n \in 1..Len(s) :
                      /\ Chars(SubSeq(s, 1, n)) < LineSize
                      /\ \A i \in 1..n - 1 : s[i] # "LF"}))

\* Rtrim and Ltrim, and the loop at lblprocstring.
TrimRight(s, blanks) ==
  SubSeq(s, 1, Max({0} \cup {i \in 1..Len(s) : s[i] \notin blanks}))
TrimLeft(s, blanks) ==
  SubSeq(s, Min({Len(s) + 1} \cup {i \in 1..Len(s) : s[i] \notin blanks}), Len(s))
Trim(s) == TrimLeft(TrimRight(s, {"SP"}), {"SP"})

Stripped(line) == TrimRight(line, {"LF", "CR", "SP"})

\* The lines that Load passes over: comments, blank and indented lines,
\* sections, and lines that set nothing.
Ignored(line) ==
  \/ Head(line) \in {";", "SP", "#", "TAB", "LF"}
  \/ Stripped(line) = <<>>
  \/ Head(line) = "["
  \/ \A i \in 1..Len(Stripped(line)) : Stripped(line)[i] # "="

-----------------------------------------------------------------------------
(* The item a line makes.                                                  *)

Equals(line) == Min({i \in 1..Len(line) : line[i] = "="})
NameOf(line) == SubSeq(line, 1, Equals(line) - 1)
ContentOf(line) == SubSeq(line, Equals(line) + 1, Len(line))

\* strcpy writes behind the item, or strncpy does.
Overruns(line) ==
  \/ Chars(ContentOf(line)) >= ContentSize
  \/ Chars(NameOf(line)) > NameSize + ContentSize

\* A name that fills its field is not terminated there and runs on into the
\* content, once that is trimmed.  A word the field's end cuts in two leaves
\* one that nobody looks for.
CutWord == <<"cut">>
Unterminated(line) ==
  LET name == NameOf(line)
      fit == {n \in 1..Len(name) : Chars(SubSeq(name, 1, n)) <= NameSize}
      field == SubSeq(name, 1, Cardinality(fit))
  IN  (IF Chars(field) = NameSize THEN field ELSE field \o CutWord)
        \o TrimLeft(ContentOf(line), {"SP"})
KeepBlanks(line) ==
  [itemName |-> NameOf(line), itemContent |-> ContentOf(line)]
Store(line) ==
  [itemName |-> Trim(IF Chars(NameOf(line)) >= NameSize THEN Unterminated(line)
                     ELSE NameOf(line)),
   itemContent |-> Trim(ContentOf(line))]

-----------------------------------------------------------------------------
(* Lookups.                                                                *)

Lower(s) ==
  [i \in 1..Len(s) |->
     IF s[i] \in DOMAIN LowerCase THEN LowerCase[s[i]] ELSE s[i]]
Matches(items, name) ==
  {k \in 1..Len(items) : Lower(items[k].itemName) = Lower(name)}

\* nullptr
Null == <<"nullptr">>
GetString(items, name) ==
  IF Matches(items, name) = {} THEN Null
  ELSE items[Min(Matches(items, name))].itemContent

\* atoi takes what does not begin with a number for 0.
Atoi(s) ==
  IF s # <<>> /\ Head(s) \in DOMAIN NumberOf THEN NumberOf[Head(s)] ELSE 0
GetInt(items, name, def) ==
  IF Matches(items, name) = {} THEN def
  ELSE Atoi(items[Min(Matches(items, name))].itemContent)
=============================================================================
