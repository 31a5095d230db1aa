----------------------------- MODULE SampleFile -----------------------------
(***************************************************************************)
(* The sample file of the NNR tool (.ntfx): what OnButtonMakeNtf writes    *)
(* from a folder, and what LoadTrainData makes of a file's bytes.          *)
(*                                                                         *)
(* A folder has a directory per class, a directory has files, and of a     *)
(* file only its size matters (an empty one stands for one that cannot be  *)
(* read, too).  The bytes are a sequence of items: a number of two bytes,  *)
(* the data of a sample, a path, or a class name.  The counts are written  *)
(* last, and the reader takes them from there before it walks the samples  *)
(* by them.                                                                *)
(***************************************************************************)
EXTENDS Integers, Sequences, SequencesExt, FiniteSetsExt

CONSTANTS
  TwoBytes,   \* 65536
  MaxGroup, MaxClass, MaxInput  \* MAX_GROUP, MAX_CLASS, MAX_INPUT_NODE

ASSUME SampleAssumption ==
  /\ TwoBytes \in Nat /\ {MaxGroup, MaxClass, MaxInput} \subseteq 1..(TwoBytes - 1)

Item(kind, value) == [kind |-> kind, value |-> value]

\* WriteNumber2Bytes.
Number(n) == Item("number", <<n % TwoBytes>>)

\* LoadFileData reads a file of the expected size only.
Loads(size, expected) == size = expected /\ size # 0

\* The files of a class before the first that does not load, `groups` at most.
Usable(files, groups, expected) ==
  Min({i \in 1..Len(files) : ~Loads(files[i], expected)} \cup {groups + 1, Len(files) + 1}) - 1

\* Faulty variant: the last file fills up.
FilledLast(g, n) == IF g <= n THEN g ELSE n

\* The file that stands for the group `g` (from 1) of a class of `n` files:
\* those missing are filled up from the first on.
Filled(g, n) == IF g <= n THEN g ELSE ((g - 1 - n) % n) + 1

\* WriteSubPathClassToSample for the class `c` of the folder.
Samples(folder, c, groups, expected) ==
  LET n == Usable(folder.classes[c], groups, expected)
      Group(g) == LET sample == <<folder.name, c, Filled(g, n)>>
                  IN  <<Number(g), Number(expected), Item("data", sample), Item("path", sample)>>
  IN  IF n = 0 THEN <<>> ELSE FlattenSeq([g \in 1..groups |-> Group(g)])

\* The class at which OnButtonMakeNtf gives up, 0 if it does not.
FailsAt(folder, groups, expected) ==
  LET failing == {c \in 1..Len(folder.classes) :
                    Usable(folder.classes[c], groups, expected) = 0}
  IN  IF failing = {} THEN 0 ELSE Min(failing)

\* Faulty variant: the failing class is neither numbered nor counted.
NamedBefore(folder, groups, expected) ==
  IF FailsAt(folder, groups, expected) = 0 THEN Len(folder.classes)
  ELSE FailsAt(folder, groups, expected) - 1

\* The classes it numbers and names, the failing one among them.
Named(folder, groups, expected) ==
  IF FailsAt(folder, groups, expected) = 0 THEN Len(folder.classes)
  ELSE FailsAt(folder, groups, expected)

ClassNames(folder, groups, expected) ==
  [c \in 1..Named(folder, groups, expected) |-> <<folder.name, c>>]

\* OnButtonMakeNtf: the bytes it writes.  After a failure the names and the
\* counts are written all the same.
MakeNtf(folder, groups, expected) ==
  LET count == Named(folder, groups, expected)
      names == ClassNames(folder, groups, expected)
  IN  <<Item("path", <<folder.name>>)>>
      \o FlattenSeq([c \in 1..count |->
           <<Number(c)>> \o Samples(folder, c, groups, expected)])
      \o [c \in 1..count |-> Item("name", names[c])]
      \o <<Number(count), Number(groups), Number(expected)>>

------------------------------------------------------------------------------
(* LoadTrainData.                                                          *)

\* Faulty variant: both bytes are shifted.
NumberAtShifted(bytes, p) ==
  IF p <= Len(bytes) /\ bytes[p].kind = "number" THEN 2 * bytes[p].value[1] ELSE TwoBytes

\* Two bytes that belong to a path or a name, read as a number, are never the
\* number expected there, which is 1: the first byte is a character.
NumberAt(bytes, p) ==
  IF p <= Len(bytes) /\ bytes[p].kind = "number" THEN bytes[p].value[1] ELSE TwoBytes

Counts(bytes) ==
  LET n == Len(bytes)
  IN  [classes |-> NumberAt(bytes, n - 2), groups |-> NumberAt(bytes, n - 1),
       input |-> NumberAt(bytes, n)]

InRange(counts) ==
  counts.groups <= MaxGroup /\ counts.classes <= MaxClass /\ counts.input <= MaxInput

\* Where the walk over the samples, after the folder's path, finds the class
\* `c` and its group `g`.
ClassAt(c, counts) == 2 + (c - 1) * (1 + 4 * counts.groups)
GroupAt(c, g, counts) == ClassAt(c, counts) + 1 + 4 * (g - 1)

\* Every number that the walk reads is the one it expects.
Matches(bytes, counts) ==
  \A c \in 1..counts.classes :
    /\ NumberAt(bytes, ClassAt(c, counts)) = c
    /\ \A g \in 1..counts.groups :
         LET p == GroupAt(c, g, counts)
         IN  NumberAt(bytes, p) = g /\ NumberAt(bytes, p + 1) = counts.input

\* The loaded samples, by group and class, and the class names after them.
SamplesOf(bytes, counts) ==
  [g \in 1..counts.groups |->
     [c \in 1..counts.classes |-> bytes[GroupAt(c, g, counts) + 2].value]]

NamesOf(bytes, counts) ==
  [c \in 1..counts.classes |-> bytes[ClassAt(counts.classes + 1, counts) + c - 1].value]

Loadable(bytes) == InRange(Counts(bytes)) /\ Matches(bytes, Counts(bytes))
=============================================================================
