------------------------------ MODULE Directory ------------------------------
(***************************************************************************)
(* The directory commands of interpreter.c: my_ls with its comparison of   *)
(* names, my_mkdir, my_touch and my_cd, on the files and directories below *)
(* the directory in which the shell was started.  my_touch and my_cd are   *)
(* given alphanumeric words: "we're told we can assume this", say the      *)
(* assertions of interpreter.c:612 and 621, which NDEBUG (line 8) leaves   *)
(* out of the program, so that nothing there enforces it.                  *)
(*                                                                         *)
(* A name is the sequence of its characters, a path that of its names.     *)
(* The operating system (mkdir, fopen, chdir, scandir, qsort) is external. *)
(***************************************************************************)
EXTENDS Integers, FiniteSets, SequencesExt

CONSTANTS
  Words,       \* the words that may be given as a name
  NULL,        \* what my_mkdir finds under a $ word that is not a variable
  MaxEntries,  \* bound on the files and directories
  MaxDepth     \* bound on the length of a path

\* The character that begins the name of a variable.
Dollar == 36

ASSUME DirectoryAssumption ==
  /\ Words \subseteq Seq(1 .. 127) \ {<<>>}
  /\ \A w \in Words : Head(w) # Dollar
  /\ NULL \notin Words
  /\ MaxEntries \in Nat /\ MaxDepth \in Nat

VARIABLES
  tree,     \* tree[p]: what the path p is, "file" or "directory"
  cwd,      \* the path of the working directory
  listing,  \* the names that the last command printed, if it was my_ls
  running   \* FALSE when the shell has crashed

directoryVars == <<tree, cwd, listing, running>>
-----------------------------------------------------------------------------
Zero == 48
LowerA == 97
Dot == <<46>>
DotDot == <<46, 46>>

IsDigit(c) == c \in Zero .. Zero + 9
IsUpper(c) == c \in 65 .. 90
IsLetter(c) == IsUpper(c) \/ c \in LowerA .. LowerA + 25
ToLower(c) == IF IsUpper(c) THEN c + 32 ELSE c

\* The character of a name at place i; a zero ends it.
CharAt(s, i) == IF i <= Len(s) THEN s[i] ELSE 0

\* A broken LsCompareChar: letters by their codes, so all capitals first.
CompareCodes(a, b) ==
  IF IsDigit(a) /\ ~IsDigit(b) THEN -1 ELSE a - b

\* ls_compare_char: negative if a comes first, positive if b does.
LsCompareChar(a, b) ==
  CASE IsDigit(a) -> IF IsDigit(b) THEN a - b ELSE -1
    [] ~IsDigit(a) /\ ToLower(a) = ToLower(b) -> a - b
    [] OTHER -> ToLower(a) - ToLower(b)

\* ls_compare_str: at the first place where the names differ, or a ends.
LsCompare(a, b) ==
  LET Decides(i) == i = Len(a) + 1 \/ LsCompareChar(a[i], CharAt(b, i)) # 0
      i == CHOOSE i \in 1 .. Len(a) + 1 : Decides(i) /\ \A j \in 1 .. i - 1 : ~Decides(j)
  IN  LsCompareChar(CharAt(a, i), CharAt(b, i))

\* qsort merges runs: of two neighbours in its result, the first was not found
\* greater than the second.
Sorts(s, names) ==
  /\ ToSet(s) = names
  /\ \A i \in 1 .. Len(s) - 1 : LsCompare(s[i], s[i + 1]) <= 0

\* A broken str_isalphanum, which looks at the first character only.
BeginsAlphanum(s) == IsDigit(s[1]) \/ IsLetter(s[1])

IsAlphanum(s) == \A i \in DOMAIN s : IsDigit(s[i]) \/ IsLetter(s[i])

At(name) == Append(cwd, name)
IsDirectory(p) == p = <<>> \/ (p \in DOMAIN tree /\ tree[p] = "directory")
Children == {p[Len(p)] : p \in {q \in DOMAIN tree : Front(q) = cwd}}

HasRoom == Cardinality(DOMAIN tree) < MaxEntries /\ Len(cwd) < MaxDepth
Create(p, kind) == tree' = [q \in DOMAIN tree \cup {p} |-> IF q = p THEN kind ELSE tree[q]]
-----------------------------------------------------------------------------
\* The directory of the start, without what it holds.
DirectoryInit == tree = <<>> /\ cwd = <<>> /\ listing = <<>> /\ running = TRUE

\* ls: scandir has no filter, so . and .. are listed too.
Ls ==
  /\ running
  /\ LET names == Children \cup {Dot, DotDot}
     IN  \E s \in SetToSeqs(names) : Sorts(s, names) /\ listing' = s
  /\ UNCHANGED <<tree, cwd, running>>

\* my_mkdir of a word, or of the value of a $ word.
MyMkdir(name) ==
  /\ running
  /\ IF name # NULL /\ IsAlphanum(name) /\ At(name) \notin DOMAIN tree
     THEN HasRoom /\ Create(At(name), "directory")
     ELSE UNCHANGED tree
  /\ listing' = <<>>
  /\ UNCHANGED <<cwd, running>>

\* touch of an alphanumeric word, as it assumes: fopen in mode "a" cannot open a
\* directory, and then fclose is called with the null pointer.
Touch(name) ==
  /\ running /\ IsAlphanum(name)
  /\ IF IsDirectory(At(name)) THEN running' = FALSE /\ UNCHANGED tree
     ELSE /\ IF At(name) \in DOMAIN tree THEN UNCHANGED tree
             ELSE HasRoom /\ Create(At(name), "file")
          /\ UNCHANGED running
  /\ listing' = <<>>
  /\ UNCHANGED cwd

\* cd to an alphanumeric word, as it assumes: chdir, or the message of badcommandCd.
Cd(name) ==
  /\ running /\ IsAlphanum(name)
  /\ cwd' = IF IsDirectory(At(name)) THEN At(name) ELSE cwd
  /\ listing' = <<>>
  /\ UNCHANGED <<tree, running>>

DirectoryNext == Ls \/ \E name \in Words : MyMkdir(name) \/ Touch(name) \/ Cd(name)

DirectorySpec == DirectoryInit /\ [][DirectoryNext]_directoryVars
-----------------------------------------------------------------------------
\* Everything lies in a directory, the shell is in one, and what it has made has
\* an alphanumeric name: my_mkdir sees to it also when it takes the name from a
\* variable, while my_touch and my_cd rely on their users.
TreeWellFormed ==
  /\ \A p \in DOMAIN tree :
       /\ tree[p] \in {"file", "directory"}
       /\ IsDirectory(Front(p))
       /\ \A c \in ToSet(p[Len(p)]) : IsDigit(c) \/ IsLetter(c)
  /\ IsDirectory(cwd)

\* The order of names, character by character: a name before those it begins, then
\* a dot, digits, letters; a capital just before its small letter.
CharKey(c) ==
  CASE IsDigit(c) -> 200 + c
    [] IsLetter(c) -> 2 * (ToLower(c) + 200) - (IF IsUpper(c) THEN 1 ELSE 0)
    [] OTHER -> c

Precedes(a, b) ==
  \E i \in 1 .. Len(a) + 1 :
    /\ \A j \in 1 .. i - 1 : a[j] = CharAt(b, j)
    /\ CharKey(CharAt(a, i)) < CharKey(CharAt(b, i))

\* my_ls prints every name once, in order: the comparison it hands to qsort
\* must be one of the orders of names that qsort can sort by.
ListingInOrder ==
  \A i, j \in DOMAIN listing : i < j => Precedes(listing[i], listing[j])
=============================================================================
