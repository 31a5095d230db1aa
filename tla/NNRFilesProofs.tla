--------------------------- MODULE NNRFilesProofs ---------------------------
(***************************************************************************)
(* What comes back from the files of the NNR tool, for folders, counts and *)
(* networks of any size.                                                   *)
(*                                                                         *)
(* First what the folds and recursive functions of the formats give for    *)
(* every input, each by the least number for which it would not; then the  *)
(* sample files (SampleInv: the file on disk and the one the samples are   *)
(* from were made from a folder), and last the weight files (WeightInv:    *)
(* the text is that of a network, in the sizes it was saved by).           *)
(***************************************************************************)
EXTENDS NNRFiles, SequenceTheorems, FiniteSetTheorems, WellFoundedInduction, TLAPS

------------------------------------------------------------------------------
(* Numbers and sequences.                                                  *)

LEMMA LeastNumber ==
  ASSUME NEW T \in SUBSET Nat, T # {}
  PROVE  \E x \in T : \A y \in T : x <= y
<1>1. PICK x \in T : \A y \in T : <<y, x>> \notin OpToRel(<, Nat)
  BY NatLessThanWellFounded, WFMin
<1>2. \A y \in T : ~(y < x)
  BY <1>1 DEF OpToRel
<1> QED BY <1>2

\* The argument of an induction up to a bound: what holds of 0 or 1 and of the
\* successor is stated without an operator parameter, as a set that has them.
LEMMA UpTo ==
  ASSUME NEW m \in Nat, NEW n \in Nat, NEW G,
         m \in G, \A i \in m..(n - 1) : i \in G => i + 1 \in G
  PROVE  m..n \subseteq G
<1> DEFINE B == (m..n) \ G
<1> SUFFICES ASSUME B # {} PROVE FALSE
  OBVIOUS
<1> B \in SUBSET Nat
  OBVIOUS
<1>1. PICK x \in B : \A y \in B : x <= y
  <2> HIDE DEF B
  <2> QED BY LeastNumber
<1>2. x - 1 \in m..(n - 1) /\ x - 1 \in G
  BY <1>1
<1>3. (x - 1) + 1 \in G
  BY <1>2
<1> QED BY <1>1, <1>3

LEMMA MinIs ==
  ASSUME NEW T \in SUBSET Int, NEW x \in T, \A y \in T : x <= y
  PROVE  Min(T) = x
<1>1. \A z \in T : (\A y \in T : z <= y) => z = x
  OBVIOUS
<1> QED BY <1>1 DEF Min

LEMMA Products ==
  ASSUME NEW a \in Nat, NEW b \in Nat, NEW k \in Nat
  PROVE  /\ a * k \in Nat
         /\ (a + 1) * k = a * k + k
         /\ a <= b => a * k <= b * k
<1>1. a * k \in Nat /\ (a + 1) * k = a * k + k
  OBVIOUS
<1>2. ASSUME a <= b PROVE a * k <= b * k
  <2>1. b - a \in Nat
    BY <1>2
  <2>2. (b - a) * k \in Nat
    BY <2>1
  <2>3. b * k = a * k + (b - a) * k
    OBVIOUS
  <2> QED BY <2>2, <2>3
<1> QED BY <1>1, <1>2

\* The recursion in FlattenSeq has a solution.
Flattens(seqs, n, f) ==
  f = [i \in 1..n |-> IF i = 1 THEN seqs[i] ELSE f[i - 1] \o seqs[i]]

LEMMA FlattenExists ==
  ASSUME NEW seqs, NEW n \in Nat
  PROVE  \E f : Flattens(seqs, n, f)
<1> DEFINE G == {i \in Nat : \E f : Flattens(seqs, i, f)}
<1>1. 0 \in G
  <2>1. Flattens(seqs, 0, [i \in 1..0 |-> IF i = 1 THEN seqs[i] ELSE {}])
    BY DEF Flattens
  <2> QED BY <2>1
<1>2. ASSUME NEW i \in 0..(n - 1), i \in G PROVE i + 1 \in G
  <2>1. PICK f : Flattens(seqs, i, f)
    BY <1>2
  <2> DEFINE g == [a \in 1..(i + 1) |-> IF a = 1 THEN seqs[a] ELSE f[a - 1] \o seqs[a]]
  <2>2. \A a \in 1..i : f[a] = IF a = 1 THEN seqs[a] ELSE f[a - 1] \o seqs[a]
    BY <2>1 DEF Flattens
  <2>3. \A a \in 1..i : a \in 1..(i + 1) /\ g[a] = f[a]
    BY <2>2
  <2>4. \A a \in 1..(i + 1) : a # 1 => a - 1 \in 1..i
    OBVIOUS
  <2>5. \A a \in 1..(i + 1) : g[a] = IF a = 1 THEN seqs[a] ELSE g[a - 1] \o seqs[a]
    BY <2>3, <2>4
  <2>6. Flattens(seqs, i + 1, g)
    BY <2>5 DEF Flattens
  <2> QED BY <2>6
<1>3. 0..n \subseteq G
  <2> HIDE DEF G
  <2> QED BY <1>1, <1>2, UpTo
<1> QED BY <1>3

LEMMA FlattenIs ==
  ASSUME NEW seqs, Len(seqs) \in Nat \ {0}
  PROVE  \E f : Flattens(seqs, Len(seqs), f) /\ FlattenSeq(seqs) = f[Len(seqs)]
<1> DEFINE c == CHOOSE g : Flattens(seqs, Len(seqs), g)
<1>1. Flattens(seqs, Len(seqs), c)
  BY FlattenExists
<1>2. FlattenSeq(seqs) = c[Len(seqs)]
  BY DEF FlattenSeq, Flattens
<1> QED BY <1>1, <1>2


Appended(u, s, t) ==
  /\ Len(s) \in Nat
  /\ Len(t) \in Nat
  /\ Len(u) = Len(s) + Len(t)
  /\ \A p \in 1..Len(s) : p \in 1..Len(u) /\ u[p] = s[p]
  /\ \A p \in 1..Len(t) : Len(s) + p \in 1..Len(u) /\ u[Len(s) + p] = t[p]

LEMMA Joined ==
  ASSUME NEW S, NEW s \in Seq(S), NEW t \in Seq(S)
  PROVE  s \o t \in Seq(S) /\ Appended(s \o t, s, t)
<1> DEFINE u == s \o t
<1>1. Len(s) \in Nat /\ Len(t) \in Nat
  BY LenProperties
<1>2. /\ u \in Seq(S) /\ Len(u) = Len(s) + Len(t)
      /\ \A i \in 1 .. Len(s) + Len(t) : u[i] = IF i <= Len(s) THEN s[i] ELSE t[i - Len(s)]
  BY ConcatProperties, Zenon
<1> HIDE DEF u
<1>3. \A p \in 1..Len(s) : p \in 1..Len(u) /\ u[p] = s[p]
  BY <1>1, <1>2
<1>4. \A p \in 1..Len(t) : Len(s) + p \in 1..Len(u) /\ u[Len(s) + p] = t[p]
  <2> TAKE p \in 1..Len(t)
  <2>1. Len(s) + p \in 1..Len(u) /\ ~(Len(s) + p <= Len(s)) /\ (Len(s) + p) - Len(s) = p
    BY <1>1, <1>2
  <2> QED BY <2>1, <1>2
<1> QED BY <1>1, <1>2, <1>3, <1>4 DEF u, Appended

LEMMA FlattenSteps ==
  ASSUME NEW S, NEW seqs \in Seq(Seq(S)), NEW f, Flattens(seqs, Len(seqs), f),
         NEW i \in 1..Len(seqs)
  PROVE  /\ seqs[i] \in Seq(S)
         /\ i = 1 => f[i] = seqs[i]
         /\ i # 1 => f[i] = f[i - 1] \o seqs[i]
<1>1. f[i] = IF i = 1 THEN seqs[i] ELSE f[i - 1] \o seqs[i]
  BY DEF Flattens
<1>2. seqs[i] \in Seq(S)
  BY ElementOfSeq
<1> QED BY <1>1, <1>2

LEMMA FlattenOne ==
  ASSUME NEW S, NEW seqs \in Seq(Seq(S)), NEW f, Flattens(seqs, Len(seqs), f), Len(seqs) # 0
  PROVE  /\ Len(seqs) \in Nat \ {0}
         /\ seqs[1] \in Seq(S)
         /\ f[1] = seqs[1]
<1>1. Len(seqs) \in Nat
  BY LenProperties
<1>2. 1 \in 1..Len(seqs)
  BY <1>1
<1>3. seqs[1] \in Seq(S)
  BY <1>2, FlattenSteps
<1>5. f[1] = seqs[1]
  BY <1>2 DEF Flattens
<1>4. Len(seqs) \in Nat \ {0}
  BY <1>1
<1> QED BY <1>3, <1>4, <1>5, Zenon

LEMMA FlattenNext ==
  ASSUME NEW S, NEW seqs \in Seq(Seq(S)), NEW f, Flattens(seqs, Len(seqs), f),
         NEW i \in 1..(Len(seqs) - 1), f[i] \in Seq(S)
  PROVE  f[i + 1] \in Seq(S) /\ Appended(f[i + 1], f[i], seqs[i + 1])
<1>1. Len(seqs) \in Nat
  BY LenProperties
<1>2. i + 1 \in 1..Len(seqs) /\ i + 1 # 1 /\ (i + 1) - 1 = i
  BY <1>1
<1>3. seqs[i + 1] \in Seq(S) /\ f[i + 1] = f[i] \o seqs[i + 1]
  <2> DEFINE j == i + 1
  <2>1. j \in 1..Len(seqs) /\ j # 1 /\ j - 1 = i
    BY <1>2
  <2> HIDE DEF j
  <2>2. seqs[j] \in Seq(S) /\ f[j] = f[j - 1] \o seqs[j]
    BY <2>1, FlattenSteps
  <2> QED BY <2>1, <2>2 DEF j
<1> QED BY <1>3, Joined

\* Every item of a flattened sequence is one of its parts'.
LEMMA FlattenItems ==
  ASSUME NEW S, NEW seqs \in Seq(Seq(S))
  PROVE  FlattenSeq(seqs) \in Seq(S)
<1> DEFINE n == Len(seqs)
<1>1. CASE n = 0
  <2>1. FlattenSeq(seqs) = <<>>
    <3>1. seqs = <<>>
      BY <1>1, EmptySeq
    <3> QED BY <3>1 DEF FlattenSeq
  <2> QED BY <2>1
<1>2. CASE n # 0
  <2>0. n \in Nat \ {0}
    BY <1>2, LenProperties
  <2>1. PICK f : Flattens(seqs, n, f) /\ FlattenSeq(seqs) = f[n]
    BY <2>0, FlattenIs
  <2> DEFINE G == {i \in Nat : f[i] \in Seq(S)}
  <2>2. 1 \in G
    BY <1>2, <2>1, FlattenOne
  <2>3. ASSUME NEW i \in 1..(n - 1), i \in G PROVE i + 1 \in G
    <3>1. f[i + 1] \in Seq(S)
      BY <2>1, <2>3, FlattenNext
    <3> QED BY <3>1
  <2>4. 1..n \subseteq G
    <3> HIDE DEF G
    <3> QED BY <2>0, <2>2, <2>3, UpTo
  <2> QED BY <2>0, <2>1, <2>4
<1> QED BY <1>1, <1>2

\* Where the items are if all parts but the last are of one length.
Blocks(u, seqs, k) ==
  /\ Len(u) = (Len(seqs) - 1) * k + Len(seqs[Len(seqs)])
  /\ \A i \in 1..Len(seqs) : \A j \in 1..Len(seqs[i]) :
       (i - 1) * k + j \in 1..Len(u) /\ u[(i - 1) * k + j] = seqs[i][j]

LEMMA FlattenBlocks ==
  ASSUME NEW S, NEW seqs \in Seq(Seq(S)), Len(seqs) # 0, NEW k \in Nat,
         \A i \in 1..(Len(seqs) - 1) : Len(seqs[i]) = k
  PROVE  FlattenSeq(seqs) \in Seq(S) /\ Blocks(FlattenSeq(seqs), seqs, k)
<1> DEFINE n == Len(seqs)
<1>0. n \in Nat \ {0}
  BY LenProperties
<1>1. PICK f : Flattens(seqs, n, f) /\ FlattenSeq(seqs) = f[n]
  BY <1>0, FlattenIs
<1> DEFINE Placed(i) ==
             \A a \in 1..i : \A j \in 1..Len(seqs[a]) :
               /\ (a - 1) * k + j \in 1..Len(f[i])
               /\ f[i][(a - 1) * k + j] = seqs[a][j]
<1> DEFINE Whole(i) == /\ f[i] \in Seq(S)
                       /\ Len(f[i]) = (i - 1) * k + Len(seqs[i])
<1> DEFINE G == {i \in Nat : Whole(i) /\ Placed(i)}
<1>2. 1 \in G
  <2>1. f[1] = seqs[1] /\ f[1] \in Seq(S)
    BY <1>1, FlattenOne
  <2>2. Len(f[1]) \in Nat /\ (1 - 1) * k = 0
    BY <2>1
  <2>3. Whole(1)
    BY <2>1, <2>2
  <2>4. Placed(1)
    <3> SUFFICES ASSUME NEW a \in 1..1, NEW j \in 1..Len(seqs[a])
                 PROVE  (a - 1) * k + j \in 1..Len(f[1]) /\ f[1][(a - 1) * k + j] = seqs[a][j]
      OBVIOUS
    <3>1. a = 1
      OBVIOUS
    <3>2. (a - 1) * k + j = j
      BY <3>1
    <3> QED BY <3>1, <3>2, <2>1
  <2> QED BY <2>3, <2>4
<1>3. ASSUME NEW i \in 1..(n - 1), i \in G PROVE i + 1 \in G
  <2>1. /\ f[i] \in Seq(S) /\ Len(f[i]) = (i - 1) * k + Len(seqs[i])
        /\ Placed(i)
    BY <1>3
  <2>0. f[i] \in Seq(S)
    BY <2>1
  <2>2. f[i + 1] \in Seq(S) /\ Appended(f[i + 1], f[i], seqs[i + 1])
    BY <1>1, <2>0, FlattenNext
  <2>3. Len(f[i]) = i * k
    <3>1. Len(seqs[i]) = k
      OBVIOUS
    <3>2. i - 1 \in Nat /\ (i - 1) + 1 = i
      OBVIOUS
    <3>3. (i - 1) * k + k = i * k
      BY <3>2, Products
    <3> QED BY <2>1, <3>1, <3>3
  <2>4. (i + 1) - 1 = i /\ i + 1 \in Nat
    OBVIOUS
  <2>5. Whole(i + 1)
    BY <2>2, <2>3, <2>4 DEF Appended
  <2>6. ASSUME NEW a \in 1..(i + 1), NEW j \in 1..Len(seqs[a])
        PROVE  /\ (a - 1) * k + j \in 1..Len(f[i + 1])
               /\ f[i + 1][(a - 1) * k + j] = seqs[a][j]
    <3>1. CASE a \in 1..i
      <4>1. (a - 1) * k + j \in 1..Len(f[i]) /\ f[i][(a - 1) * k + j] = seqs[a][j]
        BY <2>1, <3>1
      <4> QED BY <4>1, <2>2 DEF Appended
    <3>2. CASE a = i + 1
      <4>1. (a - 1) * k = Len(f[i])
        BY <2>3, <2>4, <3>2
      <4> QED BY <4>1, <2>2, <3>2 DEF Appended
    <3>3. a \in 1..i \/ a = i + 1
      OBVIOUS
    <3> QED BY <3>1, <3>2, <3>3
  <2>7. Placed(i + 1)
    BY <2>6
  <2> QED BY <2>4, <2>5, <2>7
<1>4. 1..n \subseteq G
  <2> HIDE DEF G
  <2> QED BY <1>0, <1>2, <1>3, UpTo
<1>5. n \in G
  <2> HIDE DEF G
  <2>1. n \in 1..n
    BY <1>0
  <2> QED BY <2>1, <1>4
<1> QED BY <1>1, <1>5 DEF Blocks

LEMMA SequenceMade ==
  ASSUME NEW S, NEW n \in Nat, NEW s \in [1..n -> S]
  PROVE  s \in Seq(S) /\ Len(s) = n
OBVIOUS

------------------------------------------------------------------------------
(* The sample file.                                                        *)

\* The files that are used are the first ones, as many as there are groups for,
\* and end before one that does not load.
LEMMA UsableIs ==
  ASSUME NEW files, Len(files) \in Nat, NEW groups \in Nat, NEW expected
  PROVE  /\ Usable(files, groups, expected) \in 0..groups
         /\ Usable(files, groups, expected) <= Len(files)
         /\ \A i \in 1..Usable(files, groups, expected) : Loads(files[i], expected)
         /\ Usable(files, groups, expected) < groups /\ Usable(files, groups, expected) < Len(files)
              => ~Loads(files[Usable(files, groups, expected) + 1], expected)
<1> DEFINE T == {i \in 1..Len(files) : ~Loads(files[i], expected)} \cup {groups + 1, Len(files) + 1}
<1>1. T \in SUBSET Nat /\ T # {}
  OBVIOUS
<1>2. PICK x \in T : \A y \in T : x <= y
  <2> HIDE DEF T
  <2> QED BY <1>1, LeastNumber
<1>3. Usable(files, groups, expected) = x - 1
  <2>1. Min(T) = x
    <3>1. T \in SUBSET Int
      BY <1>1
    <3> HIDE DEF T
    <3> QED BY <3>1, <1>2, MinIs
  <2> QED BY <2>1 DEF Usable
<1>4. x \in 1..(groups + 1) /\ x <= Len(files) + 1
  BY <1>2
<1>5. \A i \in 1..(x - 1) : Loads(files[i], expected)
  BY <1>2, <1>4
<1>6. x - 1 < groups /\ x - 1 < Len(files) => ~Loads(files[(x - 1) + 1], expected)
  BY <1>2, <1>4
<1> HIDE DEF T
<1> QED BY <1>3, <1>4, <1>5, <1>6

\* What a sample file of a folder of this name may hold.
ItemKinds == {"number", "data", "path", "name"}
ItemValues(name) == {<<n>> : n \in Nat} \cup {<<name>>} \cup {<<name, c>> : c \in Nat}
                    \cup {<<name, c, i>> : c \in Nat, i \in Nat}
Items(name) == {Item(kind, value) : kind \in ItemKinds, value \in ItemValues(name)}

LEMMA NumberIsItem ==
  ASSUME NEW name, NEW n \in Nat
  PROVE  Number(n) \in Items(name)
<1>1. n % TwoBytes \in Nat
  BY SampleAssumption
<1> QED BY <1>1 DEF Number, Items, ItemKinds, ItemValues

\* A class that does not fail has all its groups, each with four items.
SamplesMade(s, name, c, groups, expected, n) ==
  /\ Len(s) = 4 * groups
  /\ \A g \in 1..groups :
       /\ s[4 * (g - 1) + 1] = Number(g) /\ s[4 * (g - 1) + 2] = Number(expected)
       /\ s[4 * (g - 1) + 3] = Item("data", <<name, c, Filled(g, n)>>)

LEMMA FilledIs ==
  ASSUME NEW n \in Nat \ {0}, NEW g \in Nat \ {0}
  PROVE  Filled(g, n) \in 1..n
BY DEF Filled

LEMMA SamplesIs ==
  ASSUME NEW f, NEW c \in Nat, Len(f.classes[c]) \in Nat,
         NEW groups \in Nat \ {0}, NEW expected \in Nat
  PROVE  LET s == Samples(f, c, groups, expected)
             n == Usable(f.classes[c], groups, expected)
         IN  /\ s \in Seq(Items(f.name))
             /\ n = 0 => Len(s) = 0
             /\ n # 0 => SamplesMade(s, f.name, c, groups, expected, n)
<1> DEFINE s == Samples(f, c, groups, expected)
           n == Usable(f.classes[c], groups, expected)
           sample(g) == <<f.name, c, Filled(g, n)>>
           part(g) == <<Number(g), Number(expected), Item("data", sample(g)), Item("path", sample(g))>>
           parts == [g \in 1..groups |-> part(g)]
<1>1. n \in 0..groups
  BY UsableIs
<1>2. CASE n = 0
  BY <1>2 DEF Samples
<1>3. CASE n # 0
  <2>1. s = FlattenSeq(parts)
    BY <1>3 DEF Samples
  <2>2. \A g \in 1..groups : part(g) \in Seq(Items(f.name)) /\ Len(part(g)) = 4
    <3> TAKE g \in 1..groups
    <3>1. sample(g) \in ItemValues(f.name)
      <4>1. Filled(g, n) \in Nat
        <5> HIDE DEF n
        <5>1. n \in Nat \ {0} /\ g \in Nat \ {0}
          BY <1>1, <1>3
        <5>2. Filled(g, n) \in 1..n
          BY <5>1, FilledIs
        <5> QED BY <5>1, <5>2
      <4> QED BY <4>1 DEF ItemValues
    <3>2. Item("data", sample(g)) \in Items(f.name) /\ Item("path", sample(g)) \in Items(f.name)
      <4> HIDE DEF sample
      <4> QED BY <3>1 DEF Items, ItemKinds
    <3>3. Number(g) \in Items(f.name) /\ Number(expected) \in Items(f.name)
      BY NumberIsItem
    <3> HIDE DEF sample
    <3> QED BY <3>2, <3>3
  <2> HIDE DEF part
  <2>3. parts \in Seq(Seq(Items(f.name))) /\ Len(parts) = groups
    <3>1. parts \in [1..groups -> Seq(Items(f.name))]
      BY <2>2
    <3> HIDE DEF parts
    <3> QED BY <3>1, SequenceMade
  <2>4. \A g \in 1..groups : parts[g] = part(g)
    OBVIOUS
  <2> HIDE DEF parts
  <2>5. s \in Seq(Items(f.name)) /\ Blocks(s, parts, 4)
    <3>1. \A i \in 1..(Len(parts) - 1) : Len(parts[i]) = 4
      BY <2>2, <2>3, <2>4
    <3> QED BY <2>1, <2>3, <3>1, FlattenBlocks
  <2>6. Len(s) = 4 * groups
    <3>1. Len(parts[groups]) = 4
      BY <2>2, <2>4
    <3> QED BY <3>1, <2>3, <2>5 DEF Blocks
  <2>7. ASSUME NEW g \in 1..groups
        PROVE /\ s[4 * (g - 1) + 1] = Number(g) /\ s[4 * (g - 1) + 2] = Number(expected)
              /\ s[4 * (g - 1) + 3] = Item("data", <<f.name, c, Filled(g, n)>>)
    <3>1. \A j \in 1..4 : s[(g - 1) * 4 + j] = parts[g][j]
      <4>1. Len(parts[g]) = 4 /\ g \in 1..Len(parts)
        BY <2>2, <2>3, <2>4
      <4> QED BY <4>1, <2>5 DEF Blocks
    <3>2. parts[g] = part(g) /\ (g - 1) * 4 = 4 * (g - 1)
      BY <2>4
    <3>3. part(g)[1] = Number(g) /\ part(g)[2] = Number(expected) /\ part(g)[3] = Item("data", <<f.name, c, Filled(g, n)>>)
      BY DEF part
    <3> QED BY <3>1, <3>2, <3>3
  <2>8. SamplesMade(s, f.name, c, groups, expected, n)
    BY <2>6, <2>7 DEF SamplesMade
  <2> QED BY <2>5, <2>8, <1>3
<1> QED BY <1>2, <1>3

\* What OnButtonMakeNtf numbers: all classes, or those up to the first that fails.
NamedAs(f, groups, expected, count, fails) ==
  /\ count \in 0..Len(f.classes)
  /\ fails => count # 0 /\ Usable(f.classes[count], groups, expected) = 0
  /\ ~fails => count = Len(f.classes)
  /\ \A c \in 1..count : c < count \/ ~fails => Usable(f.classes[c], groups, expected) # 0

LEMMA NamedIs ==
  ASSUME NEW f, Len(f.classes) \in Nat, NEW groups, NEW expected
  PROVE  NamedAs(f, groups, expected, Named(f, groups, expected), FailsAt(f, groups, expected) # 0)
<1> DEFINE T == {c \in 1..Len(f.classes) : Usable(f.classes[c], groups, expected) = 0}
<1>1. CASE T = {}
  <2>1. FailsAt(f, groups, expected) = 0
    BY <1>1 DEF FailsAt
  <2> QED BY <2>1, <1>1 DEF Named, NamedAs
<1>2. CASE T # {}
  <2>1. T \in SUBSET Nat /\ T \in SUBSET Int
    OBVIOUS
  <2>2. PICK x \in T : \A y \in T : x <= y
    <3> HIDE DEF T
    <3> QED BY <1>2, <2>1, LeastNumber
  <2>3. Min(T) = x
    <3> HIDE DEF T
    <3> QED BY <2>1, <2>2, MinIs
  <2>4. FailsAt(f, groups, expected) = x
    BY <1>2, <2>3 DEF FailsAt
  <2>5. x \in 1..Len(f.classes) /\ Usable(f.classes[x], groups, expected) = 0
    BY <2>2
  <2>6. \A c \in 1..x : c < x => Usable(f.classes[c], groups, expected) # 0
    BY <2>2, <2>5
  <2> HIDE DEF T
  <2> QED BY <2>4, <2>5, <2>6 DEF Named, NamedAs
<1> QED BY <1>1, <1>2

\* The items of a class: its number, and the samples if it does not fail.
ClassPart(f, c, groups, expected) == <<Number(c)>> \o Samples(f, c, groups, expected)

ClassPartMade(s, name, c, groups, expected, n) ==
  /\ Len(s) = 1 + 4 * groups
  /\ \A g \in 1..groups :
       /\ s[1 + 4 * (g - 1) + 1] = Number(g) /\ s[1 + 4 * (g - 1) + 2] = Number(expected)
       /\ s[1 + 4 * (g - 1) + 3] = Item("data", <<name, c, Filled(g, n)>>)

LEMMA ClassPartIs ==
  ASSUME NEW f, NEW c \in Nat, Len(f.classes[c]) \in Nat,
         NEW groups \in Nat \ {0}, NEW expected \in Nat
  PROVE  LET s == ClassPart(f, c, groups, expected)
             n == Usable(f.classes[c], groups, expected)
         IN  /\ s \in Seq(Items(f.name)) /\ s[1] = Number(c) /\ Len(s) \in Nat \ {0}
             /\ n = 0 => Len(s) = 1
             /\ n # 0 => ClassPartMade(s, f.name, c, groups, expected, n)
<1> DEFINE a == <<Number(c)>>
           t == Samples(f, c, groups, expected)
           s == ClassPart(f, c, groups, expected)
           n == Usable(f.classes[c], groups, expected)
<1>1. a \in Seq(Items(f.name)) /\ Len(a) = 1 /\ a[1] = Number(c)
  BY NumberIsItem
<1>2. /\ t \in Seq(Items(f.name))
      /\ n = 0 => Len(t) = 0
      /\ n # 0 => SamplesMade(t, f.name, c, groups, expected, n)
  BY SamplesIs
<1>3. s \in Seq(Items(f.name)) /\ Appended(s, a, t)
  <2> HIDE DEF a, t
  <2> QED BY <1>1, <1>2, Joined DEF ClassPart, a, t
<1> HIDE DEF a, t, s, n
<1>4. 1 \in 1..Len(a) /\ s[1] = Number(c) /\ Len(s) \in Nat \ {0}
  BY <1>1, <1>3 DEF Appended
<1>5. n = 0 => Len(s) = 1
  BY <1>1, <1>2, <1>3 DEF Appended
<1>6. n # 0 => ClassPartMade(s, f.name, c, groups, expected, n)
  <2> SUFFICES ASSUME n # 0 PROVE ClassPartMade(s, f.name, c, groups, expected, n)
    OBVIOUS
  <2>1. SamplesMade(t, f.name, c, groups, expected, n)
    BY <1>2
  <2>2. Len(s) = 1 + 4 * groups
    BY <2>1, <1>1, <1>3 DEF Appended, SamplesMade
  <2>3. ASSUME NEW g \in 1..groups, NEW j \in 1..3
        PROVE  s[1 + 4 * (g - 1) + j] = t[4 * (g - 1) + j]
    <3>1. 4 * (g - 1) + j \in 1..Len(t)
      BY <2>1 DEF SamplesMade
    <3>2. 1 + (4 * (g - 1) + j) = 1 + 4 * (g - 1) + j
      OBVIOUS
    <3> QED BY <3>1, <3>2, <1>1, <1>3 DEF Appended
  <2> QED BY <2>1, <2>2, <2>3 DEF SamplesMade, ClassPartMade
<1> QED BY <1>3, <1>4, <1>5, <1>6 DEF s, n

\* What the reader finds where it looks, in a file made from `f`.
NtfMade(b, f, groups, expected) ==
  LET count == Named(f, groups, expected)
      fails == FailsAt(f, groups, expected) # 0
      usable(c) == Usable(f.classes[c], groups, expected)
      at(c) == 2 + (c - 1) * (1 + 4 * groups)
  IN  /\ Len(b) \in Nat /\ Len(b) >= 4
      /\ b[Len(b) - 2] = Number(count) /\ b[Len(b) - 1] = Number(groups)
      /\ b[Len(b)] = Number(expected)
      /\ \A c \in 1..count :
           /\ at(c) \in 1..Len(b) /\ b[at(c)] = Number(c)
           /\ usable(c) # 0 =>
                \A g \in 1..groups :
                  LET p == at(c) + 1 + 4 * (g - 1)
                  IN  /\ p \in Nat \ {0} /\ p + 2 <= Len(b)
                      /\ b[p] = Number(g) /\ b[p + 1] = Number(expected)
                      /\ b[p + 2] = Item("data", <<f.name, c, Filled(g, usable(c))>>)
           /\ usable(c) = 0 => at(c) + 1 \in 1..Len(b) /\ b[at(c) + 1].kind = "name"
      /\ ~fails => \A c \in 1..count : b[at(count + 1) + c - 1] = Item("name", <<f.name, c>>)

LEMMA MakeNtfIs ==
  ASSUME NEW f, Len(f.classes) \in Nat, \A c \in 1..Len(f.classes) : Len(f.classes[c]) \in Nat,
         NEW groups \in Nat \ {0}, NEW expected \in Nat
  PROVE  NtfMade(MakeNtf(f, groups, expected), f, groups, expected)
<1> DEFINE count == Named(f, groups, expected)
           fails == FailsAt(f, groups, expected) # 0
           usable(c) == Usable(f.classes[c], groups, expected)
           k == 1 + 4 * groups
           path == <<Item("path", <<f.name>>)>>
           parts == [c \in 1..count |-> ClassPart(f, c, groups, expected)]
           flat == FlattenSeq(parts)
           named == [c \in 1..count |-> Item("name", <<f.name, c>>)]
           three == <<Number(count), Number(groups), Number(expected)>>
           front == path \o flat
           most == front \o named
           b == MakeNtf(f, groups, expected)
           S == Items(f.name)
<1>1. /\ count \in 0..Len(f.classes)
      /\ fails => count # 0 /\ usable(count) = 0
      /\ ~fails => count = Len(f.classes)
      /\ \A c \in 1..count : c < count \/ ~fails => usable(c) # 0
  BY NamedIs DEF NamedAs
<1>2. b = most \o three
  BY DEF MakeNtf, ClassNames, ClassPart
<1> HIDE DEF count, fails, b
<1>3. k \in Nat \ {0}
  OBVIOUS
<1>4. path \in Seq(S) /\ Len(path) = 1
  <2>1. Item("path", <<f.name>>) \in S
    BY DEF Items, ItemKinds, ItemValues
  <2> QED BY <2>1
<1>5. three \in Seq(S) /\ Len(three) = 3
  <2>1. Number(count) \in S /\ Number(groups) \in S /\ Number(expected) \in S
    BY <1>1, NumberIsItem
  <2> HIDE DEF S
  <2> QED BY <2>1
<1>6. named \in Seq(S) /\ Len(named) = count
  <2>1. \A c \in 1..count : Item("name", <<f.name, c>>) \in S
    <3> TAKE c \in 1..count
    <3>1. <<f.name, c>> \in ItemValues(f.name)
      BY <1>1 DEF ItemValues
    <3> QED BY <3>1 DEF Items, ItemKinds
  <2>2. named \in [1..count -> S]
    BY <2>1
  <2> HIDE DEF named, S
  <2> QED BY <2>2, <1>1, SequenceMade
<1>7. \A c \in 1..count :
        /\ parts[c] \in Seq(S) /\ parts[c][1] = Number(c) /\ Len(parts[c]) \in Nat \ {0}
        /\ usable(c) = 0 => Len(parts[c]) = 1
        /\ usable(c) # 0 => ClassPartMade(parts[c], f.name, c, groups, expected, usable(c))
  <2> TAKE c \in 1..count
  <2>1. c \in Nat /\ Len(f.classes[c]) \in Nat /\ parts[c] = ClassPart(f, c, groups, expected)
    BY <1>1
  <2> QED BY <2>1, ClassPartIs
<1>8. parts \in Seq(Seq(S)) /\ Len(parts) = count
  <2>1. parts \in [1..count -> Seq(S)]
    BY <1>7
  <2> HIDE DEF parts, S
  <2> QED BY <2>1, <1>1, SequenceMade
<1> HIDE DEF parts, named, three, path, S, k
<1>9. flat \in Seq(S)
  BY <1>8, FlattenItems
<1>10. ASSUME NEW c \in 1..count PROVE usable(c) # 0 => Len(parts[c]) = k
  BY <1>7 DEF ClassPartMade, k
<1>11. count # 0 => Blocks(flat, parts, k)
  <2> SUFFICES ASSUME count # 0 PROVE Blocks(flat, parts, k)
    OBVIOUS
  <2>1. \A i \in 1..(Len(parts) - 1) : Len(parts[i]) = k
    BY <1>1, <1>8, <1>10
  <2> QED BY <2>1, <1>3, <1>8, FlattenBlocks
<1> HIDE DEF flat
<1>12. front \in Seq(S) /\ Appended(front, path, flat)
  BY <1>4, <1>9, Joined
<1> HIDE DEF front
<1>13. most \in Seq(S) /\ Appended(most, front, named)
  BY <1>6, <1>12, Joined
<1> HIDE DEF most
<1>14. b \in Seq(S) /\ Appended(b, most, three)
  BY <1>2, <1>5, <1>13, Joined
<1>15. /\ Len(flat) \in Nat /\ Len(front) = 1 + Len(flat) /\ Len(most) = 1 + Len(flat) + count
       /\ Len(b) = 4 + Len(flat) + count
       /\ \A q \in 1..Len(flat) : b[1 + q] = flat[q]
       /\ \A q \in 1..count : b[1 + Len(flat) + q] = named[q]
       /\ \A q \in 1..3 : b[1 + Len(flat) + count + q] = three[q]
  <2>1. Len(flat) \in Nat /\ Len(front) = 1 + Len(flat) /\ \A q \in 1..Len(flat) : front[1 + q] = flat[q]
    BY <1>4, <1>12 DEF Appended
  <2>2. /\ Len(most) = 1 + Len(flat) + count
        /\ \A q \in 1..Len(flat) : most[1 + q] = flat[q]
        /\ \A q \in 1..count : most[1 + Len(flat) + q] = named[q]
    BY <2>1, <1>1, <1>6, <1>13 DEF Appended
  <2>3. /\ Len(b) = 4 + Len(flat) + count
        /\ \A q \in 1..Len(most) : b[q] = most[q]
        /\ \A q \in 1..3 : b[Len(most) + q] = three[q]
    BY <2>1, <2>2, <1>1, <1>5, <1>14 DEF Appended
  <2>4. \A q \in 1..Len(flat) : 1 + q \in 1..Len(most)
    BY <2>1, <2>2, <1>1
  <2>5. \A q \in 1..count : 1 + Len(flat) + q \in 1..Len(most)
    BY <2>1, <2>2, <1>1
  <2> QED BY <2>1, <2>2, <2>3, <2>4, <2>5
<1>16. /\ b[Len(b) - 2] = Number(count) /\ b[Len(b) - 1] = Number(groups)
       /\ b[Len(b)] = Number(expected)
  <2>1. three[1] = Number(count) /\ three[2] = Number(groups) /\ three[3] = Number(expected)
    BY DEF three
  <2> QED BY <2>1, <1>1, <1>15
<1>17. ASSUME NEW c \in 1..count
       PROVE  /\ (c - 1) * k \in Nat
              /\ \A j \in 1..Len(parts[c]) : /\ (c - 1) * k + j \in 1..Len(flat)
                                            /\ b[1 + ((c - 1) * k + j)] = parts[c][j]
  <2>1. (c - 1) * k \in Nat
    BY <1>1, <1>3, Products
  <2>2. ASSUME NEW j \in 1..Len(parts[c])
        PROVE  (c - 1) * k + j \in 1..Len(flat) /\ flat[(c - 1) * k + j] = parts[c][j]
    BY <1>1, <1>8, <1>11 DEF Blocks
  <2> DEFINE o == (c - 1) * k
  <2>3. \A j \in 1..Len(parts[c]) : o + j \in 1..Len(flat) /\ flat[o + j] = parts[c][j]
    BY <2>2
  <2> HIDE DEF o
  <2>4. \A j \in 1..Len(parts[c]) : b[1 + (o + j)] = parts[c][j]
    BY <2>3, <1>15
  <2> QED BY <2>1, <2>3, <2>4 DEF o
<1>18. ASSUME NEW c \in 1..count
       PROVE  /\ 2 + (c - 1) * k \in 1..Len(b) /\ b[2 + (c - 1) * k] = Number(c)
              /\ usable(c) # 0 =>
                   \A g \in 1..groups :
                     LET p == 2 + (c - 1) * k + 1 + 4 * (g - 1)
                     IN  /\ p \in Nat \ {0} /\ p + 2 <= Len(b)
                         /\ b[p] = Number(g) /\ b[p + 1] = Number(expected)
                         /\ b[p + 2] = Item("data", <<f.name, c, Filled(g, usable(c))>>)
              /\ usable(c) = 0 => 2 + (c - 1) * k + 1 \in 1..Len(b) /\ b[2 + (c - 1) * k + 1].kind = "name"
  <2> DEFINE o == (c - 1) * k
  <2>1. o \in Nat /\ \A j \in 1..Len(parts[c]) : o + j \in 1..Len(flat) /\ b[1 + (o + j)] = parts[c][j]
    BY <1>17
  <2>2. usable(c) = 0 => Len(flat) = o + 1
    <3> SUFFICES ASSUME usable(c) = 0 PROVE Len(flat) = o + 1
      OBVIOUS
    <3>1. c = count /\ count # 0
      BY <1>1
    <3>2. Len(parts[c]) = 1
      BY <1>7
    <3> QED BY <3>1, <3>2, <1>8, <1>11 DEF Blocks
  <2> HIDE DEF o
  <2>3. 2 + o \in 1..Len(b) /\ b[2 + o] = Number(c)
    <3>1. 1 \in 1..Len(parts[c]) /\ parts[c][1] = Number(c)
      BY <1>7
    <3>2. o + 1 \in 1..Len(flat) /\ b[1 + (o + 1)] = Number(c)
      BY <3>1, <2>1
    <3>3. 1 + (o + 1) = 2 + o
      BY <2>1
    <3> QED BY <3>2, <3>3, <1>1, <1>15, <2>1
  <2>4. ASSUME usable(c) # 0, NEW g \in 1..groups, NEW j \in 0..2
        PROVE  /\ 2 + o + 1 + 4 * (g - 1) + j \in 1..Len(b)
               /\ b[2 + o + 1 + 4 * (g - 1) + j] = parts[c][1 + 4 * (g - 1) + (j + 1)]
    <3> DEFINE q == 1 + 4 * (g - 1) + (j + 1)
    <3>1. q \in 1..Len(parts[c])
      <4>1. Len(parts[c]) = 1 + 4 * groups
        BY <2>4, <1>7 DEF ClassPartMade
      <4> QED BY <4>1
    <3>2. o + q \in 1..Len(flat) /\ b[1 + (o + q)] = parts[c][q]
      BY <3>1, <2>1
    <3>3. 1 + (o + q) = 2 + o + 1 + 4 * (g - 1) + j
      BY <2>1
    <3>4. 1 + (o + q) \in 1..Len(b)
      BY <3>2, <1>1, <1>15, <2>1
    <3>5. b[2 + o + 1 + 4 * (g - 1) + j] = parts[c][q]
      <4> HIDE DEF q
      <4> QED BY <3>2, <3>3
    <3>6. 2 + o + 1 + 4 * (g - 1) + j \in 1..Len(b)
      <4> HIDE DEF q
      <4> QED BY <3>3, <3>4
    <3> QED BY <3>5, <3>6
  <2>5. ASSUME usable(c) # 0, NEW g \in 1..groups
        PROVE  LET p == 2 + o + 1 + 4 * (g - 1)
               IN  /\ p \in Nat \ {0} /\ p + 2 <= Len(b)
                   /\ b[p] = Number(g) /\ b[p + 1] = Number(expected)
                   /\ b[p + 2] = Item("data", <<f.name, c, Filled(g, usable(c))>>)
    <3> DEFINE p == 2 + o + 1 + 4 * (g - 1)
    <3>1. p \in Nat \ {0}
      BY <2>1
    <3>2. p + 0 = p
      BY <3>1
    <3> HIDE DEF p
    <3>3. b[p] = parts[c][1 + 4 * (g - 1) + 1]
      BY <2>4, <2>5, <3>2, 0 \in 0..2, 0 + 1 = 1 DEF p
    <3>4. b[p + 1] = parts[c][1 + 4 * (g - 1) + 2]
      BY <2>4, <2>5, 1 \in 0..2, 1 + 1 = 2 DEF p
    <3>5. p + 2 \in 1..Len(b) /\ b[p + 2] = parts[c][1 + 4 * (g - 1) + 3]
      BY <2>4, <2>5, 2 \in 0..2, 2 + 1 = 3 DEF p
    <3>6. ClassPartMade(parts[c], f.name, c, groups, expected, usable(c))
      BY <2>5, <1>7
    <3>7. p + 2 <= Len(b)
      BY <3>5
    <3>8. /\ b[p] = Number(g) /\ b[p + 1] = Number(expected)
          /\ b[p + 2] = Item("data", <<f.name, c, Filled(g, usable(c))>>)
      BY <3>3, <3>4, <3>5, <3>6 DEF ClassPartMade
    <3> QED BY <3>1, <3>7, <3>8 DEF p
  <2>6. usable(c) = 0 => 2 + o + 1 \in 1..Len(b) /\ b[2 + o + 1].kind = "name"
    <3> SUFFICES ASSUME usable(c) = 0 PROVE 2 + o + 1 \in 1..Len(b) /\ b[2 + o + 1].kind = "name"
      OBVIOUS
    <3>1. 1 + Len(flat) + 1 = 2 + o + 1
      BY <2>1, <2>2
    <3>2. 1 \in 1..count
      BY <1>1
    <3>3. b[2 + o + 1] = named[1]
      BY <3>1, <3>2, <1>15
    <3>4. named[1] = Item("name", <<f.name, 1>>)
      BY <3>2 DEF named
    <3>5. 2 + o + 1 \in 1..Len(b)
      BY <1>1, <1>15, <2>1, <2>2
    <3> QED BY <3>3, <3>4, <3>5 DEF Item
  <2> QED BY <2>3, <2>5, <2>6 DEF o
<1>19. ~fails => \A c \in 1..count : b[2 + ((count + 1) - 1) * k + c - 1] = Item("name", <<f.name, c>>)
  <2> SUFFICES ASSUME ~fails, NEW c \in 1..count
               PROVE  b[2 + ((count + 1) - 1) * k + c - 1] = Item("name", <<f.name, c>>)
    OBVIOUS
  <2>1. Len(flat) = count * k
    <3>1. count \in 1..count /\ Len(parts[count]) = k
      BY <1>1, <1>10
    <3>2. Len(flat) = (count - 1) * k + k
      BY <3>1, <1>8, <1>11 DEF Blocks
    <3>3. count - 1 \in Nat /\ (count - 1) + 1 = count
      BY <1>1
    <3>4. (count - 1) * k + k = count * k
      BY <3>3, <1>3, Products
    <3> QED BY <3>2, <3>4
  <2>2. (count + 1) - 1 = count
    BY <1>1
  <2>3. 2 + ((count + 1) - 1) * k + c - 1 = 1 + Len(flat) + c
    BY <2>1, <2>2, <1>15
  <2>4. named[c] = Item("name", <<f.name, c>>)
    BY DEF named
  <2> QED BY <2>3, <2>4, <1>15
<1>20. Len(b) \in Nat /\ Len(b) >= 4
  BY <1>1, <1>15
<1> QED BY <1>16, <1>18, <1>19, <1>20 DEF NtfMade, b, count, fails, k

LEMMA NumberAtIs ==
  ASSUME NEW b, Len(b) \in Nat, NEW n \in 0..(TwoBytes - 1), NEW p \in 1..Len(b), b[p] = Number(n)
  PROVE  NumberAt(b, p) = n
<1>1. n % TwoBytes = n
  BY SampleAssumption
<1>2. b[p].kind = "number" /\ b[p].value[1] = n
  BY <1>1 DEF Number, Item
<1> QED BY <1>2 DEF NumberAt

AllFolders == Folders \cup {WeightPlace}

LEMMA FolderIs ==
  ASSUME NEW f \in AllFolders
  PROVE  /\ f.classes \in Seq(Seq(0..(TwoBytes - 1)))
         /\ Len(f.classes) \in 0..MaxClass
         /\ \A c \in 1..Len(f.classes) :
              f.classes[c] \in Seq(0..(TwoBytes - 1)) /\ Len(f.classes[c]) \in 0..(TwoBytes - 1)
<1>1. /\ f.classes \in Seq(Seq(0..(TwoBytes - 1))) /\ Len(f.classes) <= MaxClass
      /\ \A c \in 1..Len(f.classes) : Len(f.classes[c]) < TwoBytes
  BY FoldersAssumption DEF AllFolders
<1>2. Len(f.classes) \in 0..MaxClass
  BY <1>1, SampleAssumption, LenProperties
<1>3. \A c \in 1..Len(f.classes) : f.classes[c] \in Seq(0..(TwoBytes - 1))
  BY <1>1, ElementOfSeq
<1>4. \A c \in 1..Len(f.classes) : Len(f.classes[c]) \in Nat
  BY <1>3, LenProperties
<1> QED BY <1>1, <1>2, <1>3, <1>4, SampleAssumption

\* A file that OnButtonMakeNtf has made from one of the folders.
NtfOf(f, g, e) ==
  [bytes |-> MakeNtf(f, g, e), failed |-> FailsAt(f, g, e) # 0,
   folder |-> f, groups |-> g, expected |-> e]
IsNtf(n) ==
  \E f \in AllFolders, g \in 1..(TwoBytes - 1), e \in 0..(TwoBytes - 1) : n = NtfOf(f, g, e)

LEMMA NtfIs ==
  ASSUME NEW n, IsNtf(n)
  PROVE  /\ n.folder \in AllFolders
         /\ n.groups \in 1..(TwoBytes - 1) /\ n.expected \in 0..(TwoBytes - 1)
         /\ n.failed = (FailsAt(n.folder, n.groups, n.expected) # 0)
         /\ NtfMade(n.bytes, n.folder, n.groups, n.expected)
<1>1. PICK f \in AllFolders, g \in 1..(TwoBytes - 1), e \in 0..(TwoBytes - 1) : n = NtfOf(f, g, e)
  BY DEF IsNtf
<1>2. /\ n.folder = f /\ n.groups = g /\ n.expected = e /\ n.bytes = MakeNtf(f, g, e)
      /\ n.failed = (FailsAt(f, g, e) # 0)
  BY <1>1 DEF NtfOf
<1>3. g \in Nat \ {0} /\ e \in Nat
  BY SampleAssumption
<1>4. Len(f.classes) \in Nat /\ \A c \in 1..Len(f.classes) : Len(f.classes[c]) \in Nat
  BY FolderIs, SampleAssumption
<1>5. NtfMade(n.bytes, f, g, e)
  BY <1>2, <1>3, <1>4, MakeNtfIs
<1> QED BY <1>2, <1>5

LEMMA CountsOfNtf ==
  ASSUME NEW n, IsNtf(n)
  PROVE  Counts(n.bytes) = [classes |-> Named(n.folder, n.groups, n.expected),
                            groups |-> n.groups, input |-> n.expected]
<1>1. /\ n.folder \in AllFolders
      /\ n.groups \in 1..(TwoBytes - 1) /\ n.expected \in 0..(TwoBytes - 1)
      /\ NtfMade(n.bytes, n.folder, n.groups, n.expected)
  BY NtfIs
<1> DEFINE count == Named(n.folder, n.groups, n.expected)
           b == n.bytes
<1>2. Len(n.folder.classes) \in 0..MaxClass
  BY <1>1, FolderIs
<1>3. count \in 0..(TwoBytes - 1)
  <2>1. count \in 0..Len(n.folder.classes)
    BY <1>2, NamedIs, SampleAssumption DEF NamedAs
  <2> QED BY <2>1, <1>2, SampleAssumption
<1>4. /\ Len(b) \in Nat /\ Len(b) >= 4
      /\ b[Len(b) - 2] = Number(count) /\ b[Len(b) - 1] = Number(n.groups)
      /\ b[Len(b)] = Number(n.expected)
  BY <1>1 DEF NtfMade
<1> HIDE DEF count, b
<1>5. NumberAt(b, Len(b) - 2) = count
  BY <1>3, <1>4, NumberAtIs
<1>6. NumberAt(b, Len(b) - 1) = n.groups
  BY <1>1, <1>4, NumberAtIs
<1>7. NumberAt(b, Len(b)) = n.expected
  BY <1>1, <1>4, NumberAtIs
<1> QED BY <1>5, <1>6, <1>7 DEF Counts, count, b

\* A file whose making has failed is refused: where the reader expects the
\* first group of the failing class there is the first class name.
LEMMA FailedIsRefused ==
  ASSUME NEW n, IsNtf(n), n.failed
  PROVE  ~Loadable(n.bytes)
<1> DEFINE c == Counts(n.bytes)
           count == Named(n.folder, n.groups, n.expected)
           p == GroupAt(count, 1, c)
<1>1. /\ n.folder \in AllFolders
      /\ n.groups \in 1..(TwoBytes - 1) /\ n.expected \in 0..(TwoBytes - 1)
      /\ n.failed = (FailsAt(n.folder, n.groups, n.expected) # 0)
      /\ NtfMade(n.bytes, n.folder, n.groups, n.expected)
  BY NtfIs
<1>2. c.classes = count /\ c.groups = n.groups
  <2>1. c = [classes |-> count, groups |-> n.groups, input |-> n.expected]
    BY CountsOfNtf
  <2> HIDE DEF c, count
  <2> QED BY <2>1
<1>3. count \in Nat \ {0} /\ Usable(n.folder.classes[count], n.groups, n.expected) = 0
  <2>1. Len(n.folder.classes) \in Nat
    BY <1>1, FolderIs, SampleAssumption
  <2>2. NamedAs(n.folder, n.groups, n.expected, count, TRUE)
    BY <2>1, <1>1, NamedIs
  <2> HIDE DEF count
  <2> QED BY <2>1, <2>2 DEF NamedAs
<1>4. p = 2 + (count - 1) * (1 + 4 * n.groups) + 1
  BY <1>2, <1>3, <1>1 DEF GroupAt, ClassAt
<1>5. n.bytes[p].kind = "name"
  <2>1. \A i \in 1..count :
          Usable(n.folder.classes[i], n.groups, n.expected) = 0 =>
            n.bytes[2 + (i - 1) * (1 + 4 * n.groups) + 1].kind = "name"
    BY <1>1 DEF NtfMade
  <2> HIDE DEF count, p
  <2>2. count \in 1..count
    BY <1>3
  <2> QED BY <2>1, <2>2, <1>3, <1>4
<1>6. NumberAt(n.bytes, p) # 1
  BY <1>5, SampleAssumption DEF NumberAt
<1>7. count \in 1..c.classes /\ 1 \in 1..c.groups
  BY <1>1, <1>2, <1>3
<1> HIDE DEF c, count
<1>8. ~Matches(n.bytes, c)
  BY <1>6, <1>7 DEF Matches
<1> QED BY <1>8 DEF Loadable, c

LEMMA FinishedMatches ==
  ASSUME NEW n, IsNtf(n), ~n.failed
  PROVE  /\ Named(n.folder, n.groups, n.expected) = Len(n.folder.classes)
         /\ Matches(n.bytes, Counts(n.bytes))
<1> DEFINE k == Counts(n.bytes)
           count == Named(n.folder, n.groups, n.expected)
<1>1. /\ n.folder \in AllFolders
      /\ n.groups \in 1..(TwoBytes - 1) /\ n.expected \in 0..(TwoBytes - 1)
      /\ n.failed = (FailsAt(n.folder, n.groups, n.expected) # 0)
      /\ NtfMade(n.bytes, n.folder, n.groups, n.expected)
  BY NtfIs
<1>2. k.classes = count /\ k.groups = n.groups /\ k.input = n.expected
  <2>1. k = [classes |-> count, groups |-> n.groups, input |-> n.expected]
    BY CountsOfNtf
  <2> HIDE DEF k, count
  <2> QED BY <2>1
<1>3. /\ count = Len(n.folder.classes) /\ count \in 0..(TwoBytes - 1)
      /\ \A c \in 1..count : Usable(n.folder.classes[c], n.groups, n.expected) # 0
  <2>1. Len(n.folder.classes) \in 0..MaxClass
    BY <1>1, FolderIs
  <2>2. Len(n.folder.classes) \in Nat /\ Len(n.folder.classes) \in 0..(TwoBytes - 1)
    BY <2>1, SampleAssumption
  <2>3. NamedAs(n.folder, n.groups, n.expected, count, FALSE)
    BY <2>2, <1>1, NamedIs
  <2> HIDE DEF count
  <2> QED BY <2>2, <2>3 DEF NamedAs
<1> HIDE DEF k
<1>4. ASSUME NEW c \in 1..k.classes
      PROVE  /\ NumberAt(n.bytes, ClassAt(c, k)) = c
             /\ \A g \in 1..k.groups :
                  LET p == GroupAt(c, g, k)
                  IN  NumberAt(n.bytes, p) = g /\ NumberAt(n.bytes, p + 1) = k.input
  <2>1. c \in 1..count /\ c \in 0..(TwoBytes - 1)
    <3> HIDE DEF count
    <3> QED BY <1>2, <1>3, SampleAssumption
  <2>2. Len(n.bytes) \in Nat
    BY <1>1 DEF NtfMade
  <2>3. ClassAt(c, k) \in 1..Len(n.bytes) /\ n.bytes[ClassAt(c, k)] = Number(c)
    BY <2>1, <1>1, <1>2 DEF NtfMade, ClassAt
  <2>4. NumberAt(n.bytes, ClassAt(c, k)) = c
    BY <2>1, <2>2, <2>3, NumberAtIs
  <2>5. ASSUME NEW g \in 1..k.groups
        PROVE  NumberAt(n.bytes, GroupAt(c, g, k)) = g /\ NumberAt(n.bytes, GroupAt(c, g, k) + 1) = k.input
    <3> DEFINE p == GroupAt(c, g, k)
    <3>1. g \in 1..n.groups /\ g \in 0..(TwoBytes - 1)
      BY <1>1, <1>2, SampleAssumption
    <3>2. /\ p \in Nat \ {0} /\ p + 2 <= Len(n.bytes)
          /\ n.bytes[p] = Number(g) /\ n.bytes[p + 1] = Number(n.expected)
      <4>1. p = (2 + (c - 1) * (1 + 4 * n.groups)) + 1 + 4 * (g - 1)
        BY <1>2 DEF GroupAt, ClassAt
      <4>2. Usable(n.folder.classes[c], n.groups, n.expected) # 0
        BY <2>1, <1>3
      <4> HIDE DEF p
      <4> QED BY <4>1, <4>2, <2>1, <3>1, <1>1 DEF NtfMade
    <3> HIDE DEF p
    <3>3. p \in 1..Len(n.bytes) /\ p + 1 \in 1..Len(n.bytes)
      BY <3>2, <2>2
    <3>4. NumberAt(n.bytes, p) = g
      BY <3>1, <3>2, <3>3, <2>2, NumberAtIs
    <3>5. NumberAt(n.bytes, p + 1) = n.expected
      BY <3>2, <3>3, <2>2, <1>1, NumberAtIs
    <3> QED BY <3>4, <3>5, <1>2 DEF p
  <2> QED BY <2>4, <2>5
<1>5. Matches(n.bytes, k)
  BY <1>4 DEF Matches
<1> QED BY <1>3, <1>5 DEF k

LEMMA LoadableIs ==
  ASSUME NEW n, IsNtf(n)
  PROVE  Loadable(n.bytes) <=> /\ ~n.failed
                               /\ n.groups <= MaxGroup /\ n.expected <= MaxInput
<1>1. /\ n.folder \in AllFolders
      /\ n.groups \in 1..(TwoBytes - 1) /\ n.expected \in 0..(TwoBytes - 1)
  BY NtfIs
<1>2. n.failed => ~Loadable(n.bytes)
  BY FailedIsRefused
<1>3. ASSUME ~n.failed
      PROVE  Loadable(n.bytes) <=> n.groups <= MaxGroup /\ n.expected <= MaxInput
  <2>1. /\ Named(n.folder, n.groups, n.expected) = Len(n.folder.classes)
        /\ Matches(n.bytes, Counts(n.bytes))
    BY <1>3, FinishedMatches
  <2>2. Counts(n.bytes) = [classes |-> Len(n.folder.classes), groups |-> n.groups, input |-> n.expected]
    BY <2>1, CountsOfNtf
  <2>3. Len(n.folder.classes) <= MaxClass
    BY <1>1, FolderIs, SampleAssumption
  <2>4. InRange(Counts(n.bytes)) <=> n.groups <= MaxGroup /\ n.expected <= MaxInput
    BY <2>2, <2>3 DEF InRange
  <2> QED BY <2>1, <2>4 DEF Loadable
<1>4. n.failed \in BOOLEAN
  BY NtfIs
<1> QED BY <1>2, <1>3, <1>4

\* What LoadTrainData takes from a file it does not refuse.
LEMMA LoadedSamples ==
  ASSUME NEW n, IsNtf(n), Loadable(n.bytes)
  PROVE  LET k == Counts(n.bytes)
             data_ == SamplesOf(n.bytes, k)
         IN  /\ k = [classes |-> Len(n.folder.classes), groups |-> n.groups, input |-> n.expected]
             /\ \A c \in 1..Len(n.folder.classes) :
                  LET m == Usable(n.folder.classes[c], n.groups, n.expected)
                  IN  /\ m # 0
                      /\ \A g \in 1..n.groups :
                           data_[g][c] = <<n.folder.name, c, Filled(g, m)>>
             /\ \A c \in 1..Len(n.folder.classes) : NamesOf(n.bytes, k)[c] = <<n.folder.name, c>>
<1> DEFINE k == Counts(n.bytes)
           data_ == SamplesOf(n.bytes, k)
           count == Len(n.folder.classes)
<1>1. /\ n.folder \in AllFolders
      /\ n.groups \in 1..(TwoBytes - 1) /\ n.expected \in 0..(TwoBytes - 1)
      /\ n.failed = (FailsAt(n.folder, n.groups, n.expected) # 0)
      /\ NtfMade(n.bytes, n.folder, n.groups, n.expected)
  BY NtfIs
<1>2. ~n.failed
  BY LoadableIs
<1>3. Named(n.folder, n.groups, n.expected) = count
  BY <1>2, FinishedMatches
<1>4. k = [classes |-> count, groups |-> n.groups, input |-> n.expected]
  BY <1>3, CountsOfNtf
<1>5. \A c \in 1..count : Usable(n.folder.classes[c], n.groups, n.expected) # 0
  <2>1. Len(n.folder.classes) \in Nat
    BY <1>1, FolderIs, SampleAssumption
  <2>2. NamedAs(n.folder, n.groups, n.expected, count, FALSE)
    BY <2>1, <1>1, <1>2, <1>3, NamedIs
  <2> QED BY <2>2 DEF NamedAs
<1>6. ASSUME NEW c \in 1..count, NEW g \in 1..n.groups
      PROVE  data_[g][c] = <<n.folder.name, c, Filled(g, Usable(n.folder.classes[c], n.groups, n.expected))>>
  <2> DEFINE p == 2 + (c - 1) * (1 + 4 * n.groups) + 1 + 4 * (g - 1)
  <2>1. n.bytes[p + 2] = Item("data", <<n.folder.name, c, Filled(g, Usable(n.folder.classes[c], n.groups, n.expected))>>)
    <3>1. c \in 1..Named(n.folder, n.groups, n.expected)
      BY <1>3
    <3> QED BY <3>1, <1>1, <1>5 DEF NtfMade
  <2>2. GroupAt(c, g, k) = p
    BY <1>4 DEF GroupAt, ClassAt
  <2> HIDE DEF p
  <2>3. data_[g][c] = n.bytes[GroupAt(c, g, k) + 2].value
    BY <1>4 DEF SamplesOf
  <2> QED BY <2>1, <2>2, <2>3 DEF Item
<1>7. ASSUME NEW c \in 1..count
      PROVE  NamesOf(n.bytes, k)[c] = <<n.folder.name, c>>
  <2>1. n.bytes[2 + ((count + 1) - 1) * (1 + 4 * n.groups) + c - 1] = Item("name", <<n.folder.name, c>>)
    <3>1. FailsAt(n.folder, n.groups, n.expected) = 0
      BY <1>1, <1>2
    <3> QED BY <3>1, <1>1, <1>3 DEF NtfMade
  <2>2. ClassAt(k.classes + 1, k) = 2 + ((count + 1) - 1) * (1 + 4 * n.groups)
    BY <1>4 DEF ClassAt
  <2>3. NamesOf(n.bytes, k)[c] = n.bytes[ClassAt(k.classes + 1, k) + c - 1].value
    BY <1>4 DEF NamesOf
  <2> QED BY <2>1, <2>2, <2>3 DEF Item
<1> HIDE DEF k, data_
<1> QED BY <1>4, <1>5, <1>6, <1>7 DEF k, data_

------------------------------------------------------------------------------
(* How the files of a class are spread over the groups.                    *)

LEMMA Remainder ==
  ASSUME NEW n \in Nat \ {0}, NEW q \in Nat, NEW r \in 0..(n - 1)
  PROVE  (q * n + r) % n = r
OBVIOUS

LEMMA Division ==
  ASSUME NEW n \in Nat \ {0}, NEW a \in Nat
  PROVE  \E q \in Nat : \E r \in 0..(n - 1) : a = q * n + r
<1> DEFINE q == a \div n
           r == a % n
<1>1. q \in Nat /\ r \in 0..(n - 1) /\ a = q * n + r
  BY SMT
<1> QED BY <1>1

\* The groups that a file stands for are the n-th, counted from its own on.
LEMMA FilledMeans ==
  ASSUME NEW n \in Nat \ {0}, NEW g \in Nat \ {0}, NEW i \in 1..n
  PROVE  Filled(g, n) = i <=> \E q \in Nat : g = q * n + i
<1>1. PICK q \in Nat, r \in 0..(n - 1) : g - 1 = q * n + r
  <2>1. g - 1 \in Nat
    OBVIOUS
  <2> QED BY <2>1, Division
<1>2. Filled(g, n) = r + 1
  <2>1. CASE q = 0
    BY <2>1, <1>1 DEF Filled
  <2>2. CASE q # 0
    <3>1. q - 1 \in Nat /\ q * n = (q - 1) * n + n
      BY <2>2
    <3>2. (q - 1) * n \in Nat
      BY <3>1
    <3>3. g - 1 - n = (q - 1) * n + r
      BY <3>1, <3>2, <1>1
    <3>4. g > n
      BY <3>1, <3>2, <1>1
    <3>5. (g - 1 - n) % n = r
      BY <3>1, <3>3, Remainder
    <3> QED BY <3>4, <3>5 DEF Filled
  <2> QED BY <2>1, <2>2
<1>3. g = q * n + (r + 1)
  <2>1. q * n \in Nat
    OBVIOUS
  <2> QED BY <2>1, <1>1
<1>4. ASSUME NEW p \in Nat, g = p * n + i PROVE r + 1 = i
  <2>1. p * n \in Nat /\ q * n \in Nat
    OBVIOUS
  <2>2. g - 1 = p * n + (i - 1) /\ i - 1 \in 0..(n - 1)
    BY <1>4, <2>1
  <2>3. (p * n + (i - 1)) % n = i - 1 /\ (q * n + r) % n = r
    BY <2>2, <1>1, Remainder
  <2>4. g - 1 = q * n + r
    BY <1>1
  <2>5. i - 1 = r
    BY <2>2, <2>3, <2>4
  <2> QED BY <2>5
<1> QED BY <1>2, <1>3, <1>4

FilledBy(G, n, i) == {g \in 1..G : Filled(g, n) = i}

LEMMA FilledByFinite ==
  ASSUME NEW G \in Nat, NEW n, NEW i
  PROVE  IsFiniteSet(FilledBy(G, n, i)) /\ Cardinality(FilledBy(G, n, i)) \in Nat
<1>1. IsFiniteSet(1..G)
  BY FS_Interval
<1>2. FilledBy(G, n, i) \in SUBSET (1..G)
  BY DEF FilledBy
<1> QED BY <1>1, <1>2, FS_Subset, FS_CardinalityType

LEMMA NoMoreOfLater ==
  ASSUME NEW G \in Nat, NEW n \in Nat \ {0}, NEW i \in 1..n, NEW j \in 1..n, i < j
  PROVE  Cardinality(FilledBy(G, n, j)) <= Cardinality(FilledBy(G, n, i))
<1> DEFINE before == [g \in FilledBy(G, n, j) |-> g - (j - i)]
<1>1. ASSUME NEW g \in FilledBy(G, n, j)
      PROVE  g \in Nat /\ g - (j - i) \in FilledBy(G, n, i)
  <2>1. g \in Nat \ {0} /\ Filled(g, n) = j
    BY DEF FilledBy
  <2>2. PICK q \in Nat : g = q * n + j
    BY <2>1, FilledMeans
  <2>3. q * n \in Nat
    OBVIOUS
  <2>4. g - (j - i) = q * n + i /\ g - (j - i) \in Nat \ {0} /\ g - (j - i) \in 1..G
    <3>1. g \in 1..G
      BY DEF FilledBy
    <3> QED BY <2>2, <2>3, <3>1
  <2>5. Filled(g - (j - i), n) = i
    <3> DEFINE h == g - (j - i)
    <3>1. h \in Nat \ {0} /\ \E p \in Nat : h = p * n + i
      BY <2>4
    <3> HIDE DEF h
    <3>2. Filled(h, n) = i
      BY <3>1, FilledMeans
    <3> QED BY <3>2 DEF h
  <2> QED BY <2>1, <2>4, <2>5 DEF FilledBy
<1>2. before \in Injection(FilledBy(G, n, j), FilledBy(G, n, i))
  <2>1. before \in [FilledBy(G, n, j) -> FilledBy(G, n, i)]
    BY <1>1
  <2>2. \A a, b \in FilledBy(G, n, j) : before[a] = before[b] => a = b
    BY <1>1
  <2> HIDE DEF before
  <2> QED BY <2>1, <2>2 DEF Injection, IsInjective
<1> HIDE DEF before
<1> QED BY <1>2, FilledByFinite, FS_Injection

LEMMA AtMostOneMore ==
  ASSUME NEW G \in Nat, NEW n \in Nat \ {0}, NEW i \in 1..n, NEW j \in 1..n, i < j
  PROVE  Cardinality(FilledBy(G, n, i)) - 1 <= Cardinality(FilledBy(G, n, j))
<1> DEFINE rest == FilledBy(G, n, i) \ {i}
           before == [g \in rest |-> g - (n - (j - i))]
<1>1. ASSUME NEW g \in rest
      PROVE  g \in Nat /\ g - (n - (j - i)) \in FilledBy(G, n, j)
  <2>1. g \in Nat \ {0} /\ Filled(g, n) = i /\ g # i
    BY DEF FilledBy
  <2>2. PICK q \in Nat : g = q * n + i
    BY <2>1, FilledMeans
  <2>3. q # 0
    BY <2>1, <2>2
  <2>4. q - 1 \in Nat /\ (q - 1) * n \in Nat /\ q * n = (q - 1) * n + n
    <3>1. q - 1 \in Nat
      BY <2>3
    <3> QED BY <3>1
  <2>5. /\ g - (n - (j - i)) = (q - 1) * n + j /\ g - (n - (j - i)) \in Nat \ {0}
        /\ g - (n - (j - i)) \in 1..G
    <3>1. g \in 1..G
      BY DEF FilledBy
    <3> QED BY <2>2, <2>4, <3>1
  <2>6. Filled(g - (n - (j - i)), n) = j
    <3> DEFINE h == g - (n - (j - i))
    <3>1. h \in Nat \ {0} /\ \E p \in Nat : h = p * n + j
      BY <2>4, <2>5
    <3> HIDE DEF h
    <3>2. Filled(h, n) = j
      BY <3>1, FilledMeans
    <3> QED BY <3>2 DEF h
  <2> QED BY <2>1, <2>5, <2>6 DEF FilledBy
<1>2. before \in Injection(rest, FilledBy(G, n, j))
  <2>1. before \in [rest -> FilledBy(G, n, j)]
    BY <1>1
  <2>2. \A a, b \in rest : before[a] = before[b] => a = b
    BY <1>1
  <2> HIDE DEF before, rest
  <2> QED BY <2>1, <2>2 DEF Injection, IsInjective
<1>3. Cardinality(rest) <= Cardinality(FilledBy(G, n, j))
  <2> HIDE DEF before, rest
  <2> QED BY <1>2, FilledByFinite, FS_Injection
<1>4. Cardinality(rest) \in Nat /\ Cardinality(FilledBy(G, n, i)) - 1 <= Cardinality(rest)
  <2> DEFINE S == FilledBy(G, n, i)
  <2>1. IsFiniteSet(S) /\ Cardinality(S) \in Nat
    BY FilledByFinite
  <2> HIDE DEF S
  <2>2. /\ IsFiniteSet(S \ {i})
        /\ Cardinality(S \ {i}) = IF i \in S THEN Cardinality(S) - 1 ELSE Cardinality(S)
    BY <2>1, FS_RemoveElement
  <2>3. Cardinality(S \ {i}) \in Nat
    BY <2>2, FS_CardinalityType
  <2> QED BY <2>1, <2>2, <2>3 DEF S
<1> HIDE DEF rest
<1> QED BY <1>3, <1>4, FilledByFinite

LEMMA UsedEquallyOften ==
  ASSUME NEW G \in Nat, NEW n \in Nat \ {0}, NEW i \in 1..n, NEW j \in 1..n
  PROVE  Cardinality(FilledBy(G, n, i)) - Cardinality(FilledBy(G, n, j)) \in -1..1
<1>1. Cardinality(FilledBy(G, n, i)) \in Nat /\ Cardinality(FilledBy(G, n, j)) \in Nat
  BY FilledByFinite
<1>2. CASE i = j
  BY <1>1, <1>2
<1>3. CASE i < j
  BY <1>1, <1>3, NoMoreOfLater, AtMostOneMore
<1>4. CASE j < i
  BY <1>1, <1>4, NoMoreOfLater, AtMostOneMore
<1> QED BY <1>2, <1>3, <1>4

------------------------------------------------------------------------------
(* The samples.                                                            *)

LoadedFrom(n) ==
  /\ IsNtf(n) /\ Loadable(n.bytes)
  /\ counts = Counts(n.bytes) /\ data = SamplesOf(n.bytes, counts)

SampleInv ==
  /\ folder \in AllFolders /\ registry.folder \in AllFolders
  /\ selGroups \in 0..(TwoBytes - 1) /\ inputNode \in 0..(TwoBytes - 1)
  /\ ntf # None => IsNtf(ntf)
  /\ source # None => LoadedFrom(source)

LEMMA MaxIs ==
  ASSUME NEW n \in Nat, NEW T \in SUBSET (0..n), T # {}
  PROVE  Max(T) \in 0..n
<1> DEFINE U == {n - x : x \in T}
<1>0. \A x \in T : x \in 0..n /\ n - x \in Nat /\ n - x \in U
  OBVIOUS
<1>1. U \in SUBSET Nat /\ U # {}
  <2>1. \A u \in U : u \in Nat
    BY <1>0
  <2> QED BY <2>1, <1>0
<1>2. PICK u \in U : \A y \in U : u <= y
  <2> HIDE DEF U
  <2> QED BY <1>1, LeastNumber
<1>3. PICK x \in T : u = n - x
  BY <1>2
<1>4. \A y \in T : x >= y
  <2> TAKE y \in T
  <2>1. n - y \in U
    BY <1>0
  <2> HIDE DEF U
  <2>2. u <= n - y
    BY <2>1, <1>2
  <2> QED BY <2>2, <1>0, <1>3
<1> QED BY <1>4 DEF Max

LEMMA FindFits ==
  ASSUME NEW f \in AllFolders
  PROVE  /\ Max({0} \cup {Len(f.classes[c]) : c \in 1..Len(f.classes)}) \in 0..(TwoBytes - 1)
         /\ FlattenSeq(f.classes) # <<>> => Last(FlattenSeq(f.classes)) \in 0..(TwoBytes - 1)
<1>1. TwoBytes - 1 \in Nat
  BY SampleAssumption
<1>2. Max({0} \cup {Len(f.classes[c]) : c \in 1..Len(f.classes)}) \in 0..(TwoBytes - 1)
  <2> DEFINE T == {0} \cup {Len(f.classes[c]) : c \in 1..Len(f.classes)}
  <2>1. T \in SUBSET (0..(TwoBytes - 1)) /\ T # {}
    <3>1. \A c \in 1..Len(f.classes) : Len(f.classes[c]) \in 0..(TwoBytes - 1)
      BY FolderIs
    <3>2. 0 \in 0..(TwoBytes - 1)
      BY <1>1
    <3>3. \A x \in T : x \in 0..(TwoBytes - 1)
      BY <3>1, <3>2
    <3>4. 0 \in T
      OBVIOUS
    <3> HIDE DEF T
    <3> QED BY <3>3, <3>4
  <2>2. Max(T) \in 0..(TwoBytes - 1)
    <3> HIDE DEF T
    <3> QED BY <1>1, <2>1, MaxIs
  <2> QED BY <2>2
<1>3. ASSUME FlattenSeq(f.classes) # <<>>
      PROVE  Last(FlattenSeq(f.classes)) \in 0..(TwoBytes - 1)
  <2> DEFINE s == FlattenSeq(f.classes)
  <2>1. f.classes \in Seq(Seq(0..(TwoBytes - 1)))
    BY FolderIs
  <2>2. s \in Seq(0..(TwoBytes - 1))
    BY <2>1, FlattenItems
  <2> HIDE DEF s
  <2>3. Len(s) \in 1..Len(s)
    BY <2>2, <1>3, EmptySeq DEF s
  <2>4. s[Len(s)] \in 0..(TwoBytes - 1)
    BY <2>2, <2>3, ElementOfSeq
  <2> QED BY <2>4 DEF Last, s
<1> QED BY <1>2, <1>3

LEMMA SampleInvInit == Init => SampleInv
<1> SUFFICES ASSUME Init PROVE SampleInv
  OBVIOUS
<1>1. folder \in AllFolders /\ registry.folder \in AllFolders
  BY DEF Init, AllFolders
<1>2. 0 \in 0..(TwoBytes - 1)
  BY SampleAssumption
<1> QED BY <1>1, <1>2 DEF Init, SampleInv

LEMMA SampleInvStep == SampleInv /\ [Next]_vars => SampleInv'
<1> SUFFICES ASSUME SampleInv, [Next]_vars PROVE SampleInv'
  OBVIOUS
<1>1. /\ folder \in AllFolders /\ registry.folder \in AllFolders
      /\ selGroups \in 0..(TwoBytes - 1) /\ inputNode \in 0..(TwoBytes - 1)
      /\ ntf # None => IsNtf(ntf)
      /\ source # None => LoadedFrom(source)
  BY DEF SampleInv
<1>2. UNCHANGED samples => (source # None => LoadedFrom(source))'
  BY <1>1 DEF samples, LoadedFrom
<1>3. 0 \in 0..(TwoBytes - 1)
  BY SampleAssumption
<1>4. CASE Restart
  BY <1>1, <1>3, <1>4 DEF Restart, SampleInv
<1>5. CASE OnButtonPathSelect
  BY <1>1, <1>2, <1>5 DEF OnButtonPathSelect, Register, SampleInv, found, AllFolders
<1>6. CASE OnBnClickedButtonFind
  <2>1. selGroups' \in 0..(TwoBytes - 1) /\ inputNode' \in 0..(TwoBytes - 1)
    <3>1. selGroups' \in 0..(TwoBytes - 1)
      BY <1>1, <1>6, FindFits DEF OnBnClickedButtonFind
    <3>2. inputNode' = IF FlattenSeq(folder.classes) = <<>> THEN inputNode
                       ELSE Last(FlattenSeq(folder.classes))
      BY <1>6 DEF OnBnClickedButtonFind
    <3> QED BY <1>1, <3>1, <3>2, FindFits
  <2> QED BY <1>1, <1>2, <1>6, <2>1 DEF OnBnClickedButtonFind, SampleInv
<1>7. CASE OnButtonMakeNtf
  <2>1. ntf' = NtfOf(folder, selGroups, inputNode) /\ selGroups > 0
    BY <1>7 DEF OnButtonMakeNtf, NtfOf
  <2>2. selGroups \in 1..(TwoBytes - 1)
    BY <1>1, <2>1, SampleAssumption
  <2>3. IsNtf(ntf')
    BY <1>1, <2>1, <2>2 DEF IsNtf
  <2>4. UNCHANGED <<counts, data, source, folder, registry, selGroups, inputNode>>
    BY <1>7 DEF OnButtonMakeNtf, found
  <2>5. (source # None => LoadedFrom(source))'
    BY <1>1, <2>4 DEF LoadedFrom
  <2> QED BY <1>1, <2>3, <2>4, <2>5 DEF SampleInv
<1>8. CASE LoadTrainData
  <2>1. /\ ntf # None /\ counts' = Counts(ntf.bytes) /\ folder' = ntf.folder
        /\ UNCHANGED <<registry, selGroups, inputNode, ntf>>
    BY <1>8 DEF LoadTrainData, found
  <2>2. IsNtf(ntf) /\ ntf.folder \in AllFolders
    BY <1>1, <2>1, NtfIs
  <2>3. (source # None => LoadedFrom(source))'
    <3>1. CASE Loadable(ntf.bytes)
      <4>1. source' = ntf /\ data' = SamplesOf(ntf.bytes, counts')
        BY <1>8, <3>1 DEF LoadTrainData
      <4> QED BY <4>1, <3>1, <2>1, <2>2 DEF LoadedFrom
    <3>2. CASE ~Loadable(ntf.bytes)
      BY <1>8, <3>2 DEF LoadTrainData
    <3> QED BY <3>1, <3>2
  <2> QED BY <1>1, <2>1, <2>2, <2>3 DEF SampleInv
<1>9. CASE OnRadio
  BY <1>1, <1>2, <1>9 DEF OnRadio, SampleInv, found
<1>10. CASE InitNNR
  BY <1>1, <1>2, <1>10 DEF InitNNR, Register, SampleInv, found
<1>11. CASE OnButtonWeightsave
  BY <1>1, <1>2, <1>11 DEF OnButtonWeightsave, SampleInv, found
<1>12. CASE OnButtonWeighthoad
  <2>1. folder' = folder \/ folder' = WeightPlace
    BY <1>12 DEF OnButtonWeighthoad
  <2>2. UNCHANGED <<registry, selGroups, inputNode, ntf, samples>>
    BY <1>12 DEF OnButtonWeighthoad, found
  <2> QED BY <1>1, <1>2, <2>1, <2>2 DEF SampleInv, AllFolders
<1>13. CASE UNCHANGED vars
  BY <1>1, <1>2, <1>13 DEF vars, SampleInv, found
<1> QED BY <1>4, <1>5, <1>6, <1>7, <1>8, <1>9, <1>10, <1>11, <1>12, <1>13 DEF Next

LEMMA CarefulIsNext == CarefulNext => Next
BY DEF CarefulNext, Next

\* What a careful user does is what any user may do.
THEOREM CarefulUserRefines == CarefulSpec => Spec
<1>1. [CarefulNext]_vars => [Next]_vars
  BY CarefulIsNext
<1> QED BY <1>1, PTL DEF CarefulSpec, Spec

LEMMA SampleInvHolds == Spec => []SampleInv
BY SampleInvInit, SampleInvStep, PTL DEF Spec

\* A sample file is loaded exactly if its making was reported as finished and
\* it keeps within the reader's limits (LoadTrainData, OnButtonMakeNtf).
THEOREM LoadsIffFinishedHolds == Spec => []LoadsIffFinished
<1>1. SampleInv => LoadsIffFinished
  BY LoadableIs DEF SampleInv, LoadsIffFinished
<1> QED BY <1>1, SampleInvHolds, PTL

LEMMA TakenIs ==
  ASSUME NEW n, IsNtf(n), NEW c \in 1..Len(n.folder.classes),
         Usable(n.folder.classes[c], n.groups, n.expected) # 0
  PROVE  {i \in Taken(n, c) : i <= n.groups} = 1..Usable(n.folder.classes[c], n.groups, n.expected)
<1> DEFINE files == n.folder.classes[c]
           u == Usable(files, n.groups, n.expected)
<1>1. n.folder \in AllFolders /\ n.groups \in 1..(TwoBytes - 1)
  BY NtfIs
<1>2. Len(files) \in Nat /\ n.groups \in Nat
  <2>1. Len(files) \in 0..(TwoBytes - 1)
    BY <1>1, FolderIs
  <2> HIDE DEF files
  <2> QED BY <2>1, <1>1
<1>3. /\ u \in 1..n.groups /\ u <= Len(files)
      /\ \A i \in 1..u : Loads(files[i], n.expected)
      /\ u < n.groups /\ u < Len(files) => ~Loads(files[u + 1], n.expected)
  BY <1>2, UsableIs
<1> HIDE DEF u
<1>4. n.expected # 0 /\ \A i \in 1..u : files[i] = n.expected
  BY <1>3 DEF Loads
<1>5. \A i \in 1..u : i \in Taken(n, c) /\ i <= n.groups
  BY <1>2, <1>3, <1>4 DEF Taken
<1>6. ASSUME NEW i \in Taken(n, c), i <= n.groups, i \notin 1..u PROVE FALSE
  <2>1. i \in 1..Len(files) /\ \A k \in 1..i : files[k] = n.expected
    BY DEF Taken
  <2>2. u < i /\ u + 1 \in 1..i
    BY <1>2, <1>3, <1>6, <2>1
  <2>3. files[u + 1] = n.expected
    BY <2>1, <2>2
  <2>4. u < n.groups /\ u < Len(files)
    BY <1>2, <1>3, <1>6, <2>1, <2>2
  <2> QED BY <1>3, <1>4, <2>3, <2>4 DEF Loads
<1> HIDE DEF files
<1>7. {i \in Taken(n, c) : i <= n.groups} = 1..u
  BY <1>5, <1>6
<1> QED BY <1>7 DEF u, files

LEMMA LoadedAreTheFolders == SampleInv => SamplesAreTheFolders
<1> SUFFICES ASSUME SampleInv, source # None
             PROVE  /\ counts = [classes |-> Len(source.folder.classes), groups |-> source.groups,
                                 input |-> source.expected]
                    /\ \A c \in 1..counts.classes :
                         LET uses(i) == Cardinality({g \in 1..counts.groups :
                                                       data[g][c] = <<source.folder.name, c, i>>})
                             taken == {i \in Taken(source, c) : i <= counts.groups}
                         IN  /\ \A g \in 1..counts.groups :
                                  \E i \in taken : data[g][c] = <<source.folder.name, c, i>>
                             /\ \A i, j \in taken : uses(i) - uses(j) \in -1..1
  BY DEF SamplesAreTheFolders
<1> DEFINE G == counts.groups
           m(c) == Usable(source.folder.classes[c], source.groups, source.expected)
<1>1. /\ IsNtf(source) /\ Loadable(source.bytes)
      /\ counts = Counts(source.bytes) /\ data = SamplesOf(source.bytes, counts)
  BY DEF SampleInv, LoadedFrom
<1>2. counts = [classes |-> Len(source.folder.classes), groups |-> source.groups,
                input |-> source.expected]
  BY <1>1, LoadedSamples
<1>3. \A c \in 1..counts.classes :
        m(c) # 0 /\ \A g \in 1..G : data[g][c] = <<source.folder.name, c, Filled(g, m(c))>>
  <2>1. \A c \in 1..Len(source.folder.classes) :
          /\ m(c) # 0
          /\ \A g \in 1..source.groups :
               SamplesOf(source.bytes, Counts(source.bytes))[g][c]
                 = <<source.folder.name, c, Filled(g, m(c))>>
    BY <1>1, LoadedSamples
  <2>2. counts.classes = Len(source.folder.classes) /\ counts.groups = source.groups
    BY <1>2
  <2>3. SamplesOf(source.bytes, Counts(source.bytes)) = data
    BY <1>1
  <2> QED BY <2>1, <2>2, <2>3
<1>4. /\ G \in Nat \ {0} /\ G = source.groups /\ source.folder \in AllFolders
      /\ counts.classes = Len(source.folder.classes)
  BY <1>1, <1>2, NtfIs, SampleAssumption
<1>5. ASSUME NEW c \in 1..counts.classes
      PROVE  LET uses(i) == Cardinality({g \in 1..G : data[g][c] = <<source.folder.name, c, i>>})
                 taken == {i \in Taken(source, c) : i <= G}
             IN  /\ \A g \in 1..G : \E i \in taken : data[g][c] = <<source.folder.name, c, i>>
                 /\ \A i, j \in taken : uses(i) - uses(j) \in -1..1
  <2> DEFINE uses(i) == Cardinality({g \in 1..G : data[g][c] = <<source.folder.name, c, i>>})
             taken == {i \in Taken(source, c) : i <= G}
             u == m(c)
  <2>1. taken = 1..u
    <3>1. {i \in Taken(source, c) : i <= source.groups} = 1..u
      BY <1>1, <1>3, <1>4, TakenIs
    <3>2. {i \in Taken(source, c) : i <= source.groups} = taken
      BY <1>4
    <3> QED BY <3>1, <3>2
  <2>2. u \in Nat \ {0}
    <3>1. Len(source.folder.classes[c]) \in Nat
      BY <1>4, FolderIs, SampleAssumption
    <3>2. u \in 0..G
      BY <1>4, <3>1, UsableIs
    <3> HIDE DEF u
    <3> QED BY <1>3, <1>4, <3>2 DEF u
  <2>3. \A g \in 1..G : data[g][c] = <<source.folder.name, c, Filled(g, u)>>
    BY <1>3
  <2> HIDE DEF u, taken, G
  <2>4. \A g \in 1..G : Filled(g, u) \in taken
    <3> TAKE g \in 1..G
    <3>1. g \in Nat \ {0}
      BY <1>4
    <3>2. Filled(g, u) \in 1..u
      BY <3>1, <2>2, FilledIs
    <3> QED BY <3>2, <2>1
  <2>5. \A g \in 1..G : \E i \in taken : data[g][c] = <<source.folder.name, c, i>>
    BY <2>3, <2>4
  <2>6. ASSUME NEW i \in taken PROVE uses(i) = Cardinality(FilledBy(G, u, i))
    <3>1. {g \in 1..G : data[g][c] = <<source.folder.name, c, i>>} = FilledBy(G, u, i)
      BY <2>3 DEF FilledBy
    <3> QED BY <3>1
  <2> HIDE DEF uses
  <2>7. \A i, j \in taken : uses(i) - uses(j) \in -1..1
    BY <2>1, <2>2, <2>6, <1>4, UsedEquallyOften
  <2> QED BY <2>5, <2>7 DEF uses, taken
<1> QED BY <1>2, <1>5

\* The samples that are loaded are those of the folder the file was made from,
\* class by class; where files are missing, those that are there stand in
\* equally often, up to one (WriteSubPathClassToSample, LoadTrainData).
THEOREM SamplesAreTheFoldersHolds == Spec => []SamplesAreTheFolders
BY LoadedAreTheFolders, SampleInvHolds, PTL

LEMMA SamplesLoaded == SampleInv /\ source # None => data # <<>>
<1> SUFFICES ASSUME SampleInv, source # None, data = <<>> PROVE FALSE
  OBVIOUS
<1>1. /\ IsNtf(source) /\ Loadable(source.bytes)
      /\ counts = Counts(source.bytes) /\ data = SamplesOf(source.bytes, counts)
  BY DEF SampleInv, LoadedFrom
<1>2. counts.groups = source.groups /\ source.groups \in 1..(TwoBytes - 1)
  <2>1. counts = [classes |-> Len(source.folder.classes), groups |-> source.groups,
                  input |-> source.expected]
    BY <1>1, LoadedSamples
  <2> QED BY <2>1, <1>1, NtfIs
<1>3. 1 \in DOMAIN SamplesOf(source.bytes, counts)
  BY <1>2, SampleAssumption DEF SamplesOf
<1>4. DOMAIN data = {}
  OBVIOUS
<1> QED BY <1>1, <1>3, <1>4

LEMMA NamesStep == SampleInv /\ NamesOfSamples /\ [CarefulNext]_vars => NamesOfSamples'
<1> SUFFICES ASSUME SampleInv, NamesOfSamples, [CarefulNext]_vars PROVE NamesOfSamples'
  OBVIOUS
<1>1. CASE UNCHANGED <<source, counts, names>>
  BY <1>1 DEF NamesOfSamples
<1>2. CASE source' = None
  BY <1>2 DEF NamesOfSamples
<1>3. CASE data = <<>> /\ OnButtonMakeNtf
  <2>1. source' = None
    BY <1>3, SamplesLoaded DEF OnButtonMakeNtf
  <2> QED BY <1>2, <2>1
<1>4. CASE LoadTrainData
  <2>1. CASE ~Loadable(ntf.bytes)
    BY <1>2, <1>4, <2>1 DEF LoadTrainData
  <2>2. CASE Loadable(ntf.bytes)
    <3> DEFINE k == Counts(ntf.bytes)
    <3>1. IsNtf(ntf)
      BY <1>4 DEF LoadTrainData, SampleInv
    <3>2. /\ k = [classes |-> Len(ntf.folder.classes), groups |-> ntf.groups, input |-> ntf.expected]
          /\ \A c \in 1..Len(ntf.folder.classes) : NamesOf(ntf.bytes, k)[c] = <<ntf.folder.name, c>>
      BY <2>2, <3>1, LoadedSamples
    <3>3. Len(ntf.folder.classes) \in Nat /\ Len(ntf.folder.classes) <= MaxClass /\ MaxClass \in Nat
      BY <3>1, NtfIs, FolderIs, SampleAssumption
    <3>4. /\ counts' = k /\ source' = ntf
          /\ names' = [i \in 1..MaxClass |->
                         IF i <= k.classes THEN NamesOf(ntf.bytes, k)[i] ELSE names[i]]
      BY <1>4, <2>2 DEF LoadTrainData
    <3> HIDE DEF k
    <3>5. ASSUME NEW c \in 1..k.classes PROVE names'[c] = <<ntf.folder.name, c>>
      <4>1. k.classes = Len(ntf.folder.classes)
        BY <3>2
      <4>2. c \in 1..MaxClass /\ c <= k.classes
        BY <4>1, <3>3
      <4>3. names'[c] = NamesOf(ntf.bytes, k)[c]
        BY <4>2, <3>4
      <4>4. NamesOf(ntf.bytes, k)[c] = <<ntf.folder.name, c>>
        BY <4>1, <3>2
      <4> QED BY <4>3, <4>4
    <3> QED BY <3>4, <3>5 DEF NamesOfSamples
  <2> QED BY <2>1, <2>2
<1>5. CASE Restart
  BY <1>2, <1>5 DEF Restart
<1>6. CASE OnButtonPathSelect
  BY <1>1, <1>6 DEF OnButtonPathSelect, samples
<1>7. CASE OnBnClickedButtonFind
  BY <1>1, <1>7 DEF OnBnClickedButtonFind, samples
<1>8. CASE OnRadio
  BY <1>1, <1>8 DEF OnRadio, samples
<1>9. CASE InitNNR
  BY <1>1, <1>9 DEF InitNNR, samples
<1>10. CASE OnButtonWeightsave
  BY <1>1, <1>10 DEF OnButtonWeightsave, samples
<1>11. CASE OnButtonWeighthoad
  <2>1. UNCHANGED samples
    BY <1>11 DEF OnButtonWeighthoad
  <2> QED BY <1>1, <2>1 DEF samples
<1>12. CASE UNCHANGED vars
  BY <1>1, <1>12 DEF vars, samples
<1> QED BY <1>3, <1>4, <1>5, <1>6, <1>7, <1>8, <1>9, <1>10, <1>11, <1>12 DEF CarefulNext

\* The class names are those of the samples, whichever session has made the
\* file, as long as folders are dealt with before samples are loaded
\* (LoadTrainData reads them back; OnButtonMakeNtf overwrites them).
THEOREM NamesOfSamplesHolds == CarefulSpec => []NamesOfSamples
<1>1. Init => NamesOfSamples
  BY DEF Init, NamesOfSamples
<1>2. CarefulSpec => []SampleInv
  BY CarefulUserRefines, SampleInvHolds, PTL
<1> QED BY <1>1, <1>2, NamesStep, PTL DEF CarefulSpec

------------------------------------------------------------------------------
(* The weight file: what is written.                                       *)

LEMMA JoinedAny ==
  ASSUME NEW S, NEW T, NEW s \in Seq(S), NEW t \in Seq(T)
  PROVE  s \o t \in Seq(S \cup T) /\ Appended(s \o t, s, t)
<1>1. s \in Seq(S \cup T) /\ t \in Seq(S \cup T)
  BY SeqMonotonic
<1> QED BY <1>1, Joined

\* The rows of an array, as Array writes them.
ElementOf(m, rows, last, i, j) ==
  IF i = rows /\ j = last + 1 THEN <<Text(Printed(m[i][j]))>>
  ELSE <<Text(Printed(m[i][j])), Sign("comma")>>
RowOf(m, rows, cols, last, i) ==
  FlattenSeq([j \in 1..(cols + 1) |-> ElementOf(m, rows, last, i, j)]) \o <<Line>>
RowItems(m, rows, cols) ==
  {Text(Printed(m[i][j])) : i \in 1..rows, j \in 1..(cols + 1)} \cup {Sign("comma"), Line}

LEMMA RowItemsAre ==
  ASSUME NEW m, NEW rows, NEW cols, NEW x \in RowItems(m, rows, cols)
  PROVE  x.kind \in {"number", "comma", "line"}
BY DEF RowItems, Text, Sign, Line

ElementMade(e, m, rows, cols, last, i, j) ==
  /\ e \in Seq(RowItems(m, rows, cols))
  /\ e[1] = Text(Printed(m[i][j]))
  /\ i = rows /\ j = last + 1 => Len(e) = 1
  /\ ~(i = rows /\ j = last + 1) => Len(e) = 2 /\ e[2] = Sign("comma")

LEMMA ElementIs ==
  ASSUME NEW m, NEW rows \in Nat, NEW cols \in Nat, NEW last,
         NEW i \in 1..rows, NEW j \in 1..(cols + 1)
  PROVE  ElementMade(ElementOf(m, rows, last, i, j), m, rows, cols, last, i, j)
<1>1. Text(Printed(m[i][j])) \in RowItems(m, rows, cols) /\ Sign("comma") \in RowItems(m, rows, cols)
  BY DEF RowItems
<1> HIDE DEF Text, Sign
<1>2. CASE i = rows /\ j = last + 1
  <2>1. ElementOf(m, rows, last, i, j) = <<Text(Printed(m[i][j]))>>
    BY <1>2 DEF ElementOf
  <2> QED BY <2>1, <1>1, <1>2 DEF ElementMade
<1>3. CASE ~(i = rows /\ j = last + 1)
  <2>1. ElementOf(m, rows, last, i, j) = <<Text(Printed(m[i][j])), Sign("comma")>>
    BY <1>3 DEF ElementOf
  <2> QED BY <2>1, <1>1, <1>3 DEF ElementMade
<1> QED BY <1>2, <1>3

LEMMA RowIsSequence ==
  ASSUME NEW m, NEW rows \in Nat, NEW cols \in Nat, NEW last, NEW i \in 1..rows
  PROVE  RowOf(m, rows, cols, last, i) \in Seq(RowItems(m, rows, cols))
<1> DEFINE S == RowItems(m, rows, cols)
           parts == [j \in 1..(cols + 1) |-> ElementOf(m, rows, last, i, j)]
<1>1. parts \in [1..(cols + 1) -> Seq(S)]
  BY ElementIs DEF ElementMade
<1>2. parts \in Seq(Seq(S))
  <2> HIDE DEF parts, S
  <2> QED BY <1>1, SequenceMade
<1>3. FlattenSeq(parts) \in Seq(S)
  <2> HIDE DEF parts, S
  <2> QED BY <1>2, FlattenItems
<1>4. <<Line>> \in Seq(S)
  <2>1. Line \in S
    BY DEF RowItems
  <2> HIDE DEF S
  <2> QED BY <2>1
<1> HIDE DEF S
<1>5. FlattenSeq(parts) \o <<Line>> \in Seq(S)
  <2> HIDE DEF parts
  <2> QED BY <1>3, <1>4, Joined
<1> QED BY <1>5 DEF RowOf, S

\* Where a row has its elements, if the comma is left out after the last one.
RowMade(r, m, rows, cols, i) ==
  /\ Len(r) = IF i = rows THEN 2 * (cols + 1) ELSE 2 * (cols + 1) + 1
  /\ r[Len(r)] = Line
  /\ \A j \in 1..(cols + 1) :
       /\ r[2 * j - 1] = Text(Printed(m[i][j]))
       /\ ~(i = rows /\ j = cols + 1) => r[2 * j] = Sign("comma")

LEMMA RowIs ==
  ASSUME NEW m, NEW rows \in Nat, NEW cols \in Nat, NEW i \in 1..rows
  PROVE  RowMade(RowOf(m, rows, cols, cols, i), m, rows, cols, i)
<1> DEFINE S == RowItems(m, rows, cols)
           parts == [j \in 1..(cols + 1) |-> ElementOf(m, rows, cols, i, j)]
           s == FlattenSeq(parts)
           end == <<Line>>
           r == RowOf(m, rows, cols, cols, i)
<1>1. \A j \in 1..(cols + 1) :
        /\ parts[j] \in Seq(S)
        /\ parts[j][1] = Text(Printed(m[i][j]))
        /\ i = rows /\ j = cols + 1 => Len(parts[j]) = 1
        /\ ~(i = rows /\ j = cols + 1) => Len(parts[j]) = 2 /\ parts[j][2] = Sign("comma")
  <2> TAKE j \in 1..(cols + 1)
  <2>1. parts[j] = ElementOf(m, rows, cols, i, j)
    OBVIOUS
  <2>2. ElementMade(parts[j], m, rows, cols, cols, i, j)
    BY <2>1, ElementIs
  <2> QED BY <2>2 DEF ElementMade
<1>2. parts \in Seq(Seq(S)) /\ Len(parts) = cols + 1
  <2>1. parts \in [1..(cols + 1) -> Seq(S)]
    BY <1>1
  <2> HIDE DEF parts, S
  <2> QED BY <2>1, SequenceMade
<1>3. r = s \o end
  BY DEF RowOf
<1>4. end \in Seq(S) /\ Len(end) = 1 /\ end[1] = Line
  <2>1. Line \in S
    BY DEF RowItems
  <2> HIDE DEF S
  <2> QED BY <2>1
<1> HIDE DEF S, parts, end, r
<1>5. s \in Seq(S) /\ Blocks(s, parts, 2)
  <2>1. \A j \in 1..(Len(parts) - 1) : Len(parts[j]) = 2
    BY <1>1, <1>2
  <2>2. Len(parts) # 0
    BY <1>2
  <2> QED BY <2>1, <2>2, <1>2, FlattenBlocks
<1> HIDE DEF s
<1>6. r \in Seq(S) /\ Appended(r, s, end)
  BY <1>3, <1>4, <1>5, Joined
<1>7. Len(s) = IF i = rows THEN 2 * cols + 1 ELSE 2 * cols + 2
  <2>1. Len(s) = (Len(parts) - 1) * 2 + Len(parts[cols + 1])
    BY <1>2, <1>5 DEF Blocks
  <2>2. Len(parts[cols + 1]) = IF i = rows THEN 1 ELSE 2
    <3>1. cols + 1 \in 1..(cols + 1)
      OBVIOUS
    <3> QED BY <3>1, <1>1
  <2> QED BY <2>1, <2>2, <1>2
<1>8. Len(r) = IF i = rows THEN 2 * (cols + 1) ELSE 2 * (cols + 1) + 1
  BY <1>4, <1>6, <1>7 DEF Appended
<1>9. r[Len(r)] = Line
  <2>1. 1 \in 1..Len(end) /\ Len(r) = Len(s) + 1
    BY <1>4, <1>6 DEF Appended
  <2> QED BY <2>1, <1>4, <1>6 DEF Appended
<1>10. ASSUME NEW j \in 1..(cols + 1), NEW e \in 1..Len(parts[j])
       PROVE  r[(j - 1) * 2 + e] = parts[j][e]
  <2>1. (j - 1) * 2 + e \in 1..Len(s) /\ s[(j - 1) * 2 + e] = parts[j][e]
    BY <1>2, <1>5 DEF Blocks
  <2> QED BY <2>1, <1>6 DEF Appended
<1>11. ASSUME NEW j \in 1..(cols + 1)
       PROVE  /\ r[2 * j - 1] = Text(Printed(m[i][j]))
              /\ ~(i = rows /\ j = cols + 1) => r[2 * j] = Sign("comma")
  <2>1. (j - 1) * 2 + 1 = 2 * j - 1 /\ (j - 1) * 2 + 2 = 2 * j
    OBVIOUS
  <2>2. 1 \in 1..Len(parts[j])
    BY <1>1
  <2>3. r[2 * j - 1] = Text(Printed(m[i][j]))
    BY <2>1, <2>2, <1>1, <1>10
  <2>4. ASSUME ~(i = rows /\ j = cols + 1) PROVE r[2 * j] = Sign("comma")
    <3>1. 2 \in 1..Len(parts[j]) /\ parts[j][2] = Sign("comma")
      BY <2>4, <1>1
    <3> QED BY <3>1, <2>1, <1>10
  <2> QED BY <2>3, <2>4
<1> QED BY <1>8, <1>9, <1>11 DEF RowMade, r

\* An array is its declaration, elements, and what ends it.
ArrayItems(name, m, rows, cols) ==
  RowItems(m, rows, cols) \cup {Declaration(name, rows, cols), Sign("close"), Sign("semicolon")}

Framed(a, name, rows, cols) ==
  /\ Len(a) \in Nat /\ Len(a) >= 4
  /\ a[1] = Declaration(name, rows, cols)
  /\ \A p \in 2..(Len(a) - 3) : a[p].kind \in {"number", "comma", "line"}
  /\ a[Len(a) - 2] = Sign("close") /\ a[Len(a) - 1] = Sign("semicolon") /\ a[Len(a)] = Line

\* Where it has its elements.
Placed(a, m, rows, cols) ==
  LET wide == 2 * (cols + 1) + 1
  IN  /\ Len(a) = rows * wide + 3
      /\ \A i \in 1..rows : \A j \in 1..(cols + 1) :
           /\ a[1 + (i - 1) * wide + (2 * j - 1)] = Text(Printed(m[i][j]))
           /\ ~(i = rows /\ j = cols + 1) => a[1 + (i - 1) * wide + 2 * j] = Sign("comma")
      /\ \A i \in 1..rows : a[IF i = rows THEN rows * wide ELSE 1 + i * wide] = Line

LEMMA ArrayIs ==
  ASSUME NEW name, NEW m, NEW rows \in Nat, NEW cols \in Nat, NEW last
  PROVE  LET a == Array(name, m, rows, cols, last)
         IN  /\ a \in Seq(ArrayItems(name, m, rows, cols))
             /\ Framed(a, name, rows, cols)
             /\ rows = 0 => Len(a) = 4
             /\ rows # 0 /\ last = cols => Placed(a, m, rows, cols)
<1> DEFINE S == RowItems(m, rows, cols)
           T == ArrayItems(name, m, rows, cols)
           parts == [i \in 1..rows |-> RowOf(m, rows, cols, last, i)]
           head == <<Declaration(name, rows, cols)>>
           body == FlattenSeq(parts)
           tail == <<Sign("close"), Sign("semicolon"), Line>>
           most == head \o body
           a == Array(name, m, rows, cols, last)
<1>1. a = most \o tail
  BY DEF Array, RowOf, ElementOf
<1>2. \A i \in 1..rows : parts[i] \in Seq(S)
  BY RowIsSequence
<1>3. parts \in Seq(Seq(S)) /\ Len(parts) = rows
  <2>1. parts \in [1..rows -> Seq(S)]
    BY <1>2
  <2> HIDE DEF parts, S
  <2> QED BY <2>1, SequenceMade
<1>4. last = cols => \A i \in 1..rows : RowMade(parts[i], m, rows, cols, i)
  BY RowIs
<1> HIDE DEF parts, a
<1>5. /\ head \in Seq(T) /\ Len(head) = 1 /\ head[1] = Declaration(name, rows, cols)
      /\ tail \in Seq(T) /\ Len(tail) = 3
      /\ tail[1] = Sign("close") /\ tail[2] = Sign("semicolon") /\ tail[3] = Line
  <2>1. /\ Declaration(name, rows, cols) \in T
        /\ Sign("close") \in T /\ Sign("semicolon") \in T /\ Line \in T
    BY DEF ArrayItems, RowItems
  <2> HIDE DEF T
  <2> QED BY <2>1
<1> HIDE DEF head, tail
<1>6. body \in Seq(S)
  <2> HIDE DEF S
  <2> QED BY <1>3, FlattenItems
<1>7. body \in Seq(T)
  <2>1. S \subseteq T
    BY DEF ArrayItems
  <2> HIDE DEF S, T, body
  <2> QED BY <2>1, <1>6, SeqMonotonic
<1>8. \A p \in 1..Len(body) : body[p].kind \in {"number", "comma", "line"}
  <2> TAKE p \in 1..Len(body)
  <2>1. body[p] \in S
    <3> HIDE DEF S, body
    <3> QED BY <1>6, ElementOfSeq
  <2> HIDE DEF body
  <2> QED BY <2>1, RowItemsAre
<1> HIDE DEF body, T
<1>9. most \in Seq(T) /\ Appended(most, head, body)
  BY <1>5, <1>7, Joined
<1> HIDE DEF most
<1>10. a \in Seq(T) /\ Appended(a, most, tail)
  BY <1>1, <1>5, <1>9, Joined
<1>11. /\ Len(body) \in Nat /\ Len(a) = Len(body) + 4
       /\ a[1] = Declaration(name, rows, cols)
       /\ \A p \in 1..Len(body) : a[1 + p] = body[p]
       /\ a[Len(body) + 2] = Sign("close") /\ a[Len(body) + 3] = Sign("semicolon")
       /\ a[Len(body) + 4] = Line
  <2>1. /\ Len(body) \in Nat /\ Len(most) = 1 + Len(body)
        /\ most[1] = Declaration(name, rows, cols)
        /\ \A p \in 1..Len(body) : 1 + p \in 1..Len(most) /\ most[1 + p] = body[p]
    <3>1. 1 \in 1..Len(head)
      BY <1>5
    <3> QED BY <3>1, <1>5, <1>9 DEF Appended
  <2>2. /\ Len(a) = Len(most) + 3
        /\ \A p \in 1..Len(most) : a[p] = most[p]
        /\ \A p \in 1..3 : a[Len(most) + p] = tail[p]
    BY <1>5, <1>10 DEF Appended
  <2>3. 1 \in 1..Len(most)
    BY <2>1
  <2>4. a[Len(body) + 2] = tail[1] /\ a[Len(body) + 3] = tail[2] /\ a[Len(body) + 4] = tail[3]
    <3>1. Len(most) + 1 = Len(body) + 2 /\ Len(most) + 2 = Len(body) + 3 /\ Len(most) + 3 = Len(body) + 4
      BY <2>1
    <3> QED BY <3>1, <2>2
  <2> QED BY <2>1, <2>2, <2>3, <2>4, <1>5
<1>12. Framed(a, name, rows, cols)
  <2>1. Len(a) \in Nat /\ Len(a) >= 4
    BY <1>11
  <2>2. \A p \in 2..(Len(a) - 3) : a[p].kind \in {"number", "comma", "line"}
    <3> TAKE p \in 2..(Len(a) - 3)
    <3>1. p - 1 \in 1..Len(body) /\ 1 + (p - 1) = p
      BY <1>11
    <3>2. a[p] = body[p - 1]
      BY <3>1, <1>11
    <3> QED BY <3>1, <3>2, <1>8
  <2>3. Len(a) - 2 = Len(body) + 2 /\ Len(a) - 1 = Len(body) + 3
    BY <1>11
  <2> QED BY <2>1, <2>2, <2>3, <1>11 DEF Framed
<1>13. rows = 0 => Len(a) = 4
  <2> SUFFICES ASSUME rows = 0 PROVE Len(body) = 0
    BY <1>11
  <2>1. parts = <<>>
    BY <1>3, EmptySeq
  <2>2. body = <<>>
    BY <2>1 DEF body, FlattenSeq
  <2> QED BY <2>2
<1>14. ASSUME rows # 0, last = cols PROVE Placed(a, m, rows, cols)
  <2> DEFINE wide == 2 * (cols + 1) + 1
  <2>1. \A i \in 1..rows : RowMade(parts[i], m, rows, cols, i)
    BY <1>4, <1>14
  <2>2. /\ \A i \in 1..rows : i # rows => Len(parts[i]) = wide
        /\ Len(parts[rows]) = wide - 1
    <3>1. rows \in 1..rows
      BY <1>14
    <3> QED BY <3>1, <2>1 DEF RowMade
  <2>3. wide \in Nat
    OBVIOUS
  <2> HIDE DEF wide
  <2>4. Blocks(body, parts, wide)
    <3>1. \A i \in 1..(Len(parts) - 1) : Len(parts[i]) = wide
      BY <2>2, <1>3
    <3>2. Len(parts) # 0
      BY <1>3, <1>14
    <3> HIDE DEF S
    <3> QED BY <3>1, <3>2, <2>3, <1>3, FlattenBlocks DEF body
  <2>5. Len(body) = rows * wide - 1
    <3>1. Len(body) = (rows - 1) * wide + (wide - 1)
      BY <2>2, <2>4, <1>3 DEF Blocks
    <3>2. rows - 1 \in Nat /\ (rows - 1) + 1 = rows
      BY <1>14
    <3>3. (rows - 1) * wide \in Nat /\ rows * wide = (rows - 1) * wide + wide
      BY <3>2, <2>3, Products
    <3> QED BY <3>1, <3>3, <2>3
  <2>6. rows * wide \in Nat
    BY <2>3, Products
  <2>7. Len(a) = rows * wide + 3
    BY <2>5, <2>6, <1>11
  <2>8. ASSUME NEW i \in 1..rows, NEW e \in 1..Len(parts[i])
        PROVE  a[1 + (i - 1) * wide + e] = parts[i][e]
    <3>1. (i - 1) * wide + e \in 1..Len(body) /\ body[(i - 1) * wide + e] = parts[i][e]
      BY <2>4, <1>3 DEF Blocks
    <3>2. (i - 1) * wide \in Nat
      BY <2>3, Products
    <3>3. 1 + ((i - 1) * wide + e) = 1 + (i - 1) * wide + e
      BY <3>2
    <3> QED BY <3>1, <3>3, <1>11
  <2>9. ASSUME NEW i \in 1..rows, NEW j \in 1..(cols + 1)
        PROVE  /\ a[1 + (i - 1) * wide + (2 * j - 1)] = Text(Printed(m[i][j]))
               /\ ~(i = rows /\ j = cols + 1) => a[1 + (i - 1) * wide + 2 * j] = Sign("comma")
    <3>1. 2 * j - 1 \in 1..Len(parts[i])
      BY <2>1 DEF RowMade
    <3>2. 2 * j \in 1..Len(parts[i])
      BY <2>1 DEF RowMade
    <3>3. /\ parts[i][2 * j - 1] = Text(Printed(m[i][j]))
          /\ ~(i = rows /\ j = cols + 1) => parts[i][2 * j] = Sign("comma")
      BY <2>1 DEF RowMade
    <3> QED BY <3>1, <3>2, <3>3, <2>8
  <2>10. ASSUME NEW i \in 1..rows
         PROVE  a[IF i = rows THEN rows * wide ELSE 1 + i * wide] = Line
    <3>1. Len(parts[i]) \in 1..Len(parts[i]) /\ parts[i][Len(parts[i])] = Line
      BY <2>1 DEF RowMade
    <3>2. a[1 + (i - 1) * wide + Len(parts[i])] = Line
      BY <3>1, <2>8
    <3>3. i - 1 \in Nat /\ (i - 1) + 1 = i
      OBVIOUS
    <3>4. (i - 1) * wide \in Nat /\ i * wide = (i - 1) * wide + wide
      BY <3>3, <2>3, Products
    <3>5. CASE i = rows
      <4>1. 1 + (i - 1) * wide + Len(parts[i]) = rows * wide
        BY <3>4, <3>5, <2>2, <2>3
      <4> QED BY <4>1, <3>2, <3>5
    <3>6. CASE i # rows
      <4>1. Len(parts[i]) = wide
        BY <2>2, <3>6
      <4>2. 1 + (i - 1) * wide + Len(parts[i]) = 1 + i * wide
        BY <4>1, <3>4, <2>3
      <4> QED BY <4>2, <3>2, <3>6
    <3> QED BY <3>5, <3>6
  <2> QED BY <2>7, <2>9, <2>10 DEF Placed, wide
<1> QED BY <1>10, <1>12, <1>13, <1>14 DEF a, T

------------------------------------------------------------------------------
(* The weight file: what is read.                                          *)

LEMMA NextOfIs ==
  ASSUME NEW text, Len(text) \in Nat, NEW p \in Nat, NEW kinds
  PROVE  LET q == NextOf(text, p, kinds)
         IN  q # 0 => /\ q \in p..Len(text) /\ text[q].kind \in kinds
                      /\ \A r \in p..(q - 1) : text[r].kind \notin kinds
<1> DEFINE at == {q \in p..Len(text) : text[q].kind \in kinds}
<1> SUFFICES ASSUME NextOf(text, p, kinds) # 0
             PROVE  LET q == NextOf(text, p, kinds)
                    IN  /\ q \in p..Len(text) /\ text[q].kind \in kinds
                        /\ \A r \in p..(q - 1) : text[r].kind \notin kinds
  OBVIOUS
<1>1. at # {} /\ NextOf(text, p, kinds) = Min(at)
  BY DEF NextOf
<1>2. at \in SUBSET Nat /\ at \in SUBSET Int
  OBVIOUS
<1>3. PICK x \in at : \A y \in at : x <= y
  <2> HIDE DEF at
  <2> QED BY <1>1, <1>2, LeastNumber
<1>4. NextOf(text, p, kinds) = x
  <2> HIDE DEF at
  <2> QED BY <1>1, <1>2, <1>3, MinIs
<1>5. x \in p..Len(text) /\ text[x].kind \in kinds
  BY <1>3
<1>6. \A r \in p..(x - 1) : text[r].kind \notin kinds
  BY <1>3, <1>5
<1> QED BY <1>4, <1>5, <1>6

LEMMA NextOfFirst ==
  ASSUME NEW text, Len(text) \in Nat, NEW p \in Nat, NEW kinds, NEW q \in p..Len(text),
         text[q].kind \in kinds, \A r \in p..(q - 1) : text[r].kind \notin kinds
  PROVE  NextOf(text, p, kinds) = q
<1> DEFINE at == {r \in p..Len(text) : text[r].kind \in kinds}
<1>1. q \in at /\ \A y \in at : q <= y
  OBVIOUS
<1>2. at \in SUBSET Int /\ at # {}
  BY <1>1
<1>3. Min(at) = q
  <2> HIDE DEF at
  <2> QED BY <1>1, <1>2, MinIs
<1> QED BY <1>2, <1>3 DEF NextOf

LEMMA ValueOfIs ==
  ASSUME NEW text, NEW p \in Nat, NEW q \in Nat, NEW i \in p..(q - 1),
         text[i].kind = "number", \A r \in p..(i - 1) : text[r].kind = "line"
  PROVE  ValueOf(text, p, q) = text[i].value[1]
<1> DEFINE begins == {r \in p..(q - 1) : text[r].kind # "line"}
<1>1. i \in begins /\ \A y \in begins : i <= y
  OBVIOUS
<1>2. begins \in SUBSET Int /\ begins # {}
  BY <1>1
<1>3. Min(begins) = i
  <2> HIDE DEF begins
  <2> QED BY <1>1, <1>2, MinIs
<1> QED BY <1>2, <1>3 DEF ValueOf

\* The recursion in Ends has a solution.
EndsSolves(text, d, n, f) ==
  f = [k \in 0..n |-> IF k = 0 THEN d
                      ELSE LET last == f[k - 1]
                           IN  IF last = 0 THEN 0 ELSE NextOf(text, last + 1, {"comma", "close"})]

LEMMA EndsExists ==
  ASSUME NEW text, NEW d, NEW n \in Nat
  PROVE  \E f : EndsSolves(text, d, n, f)
<1> DEFINE G == {k \in Nat : \E f : EndsSolves(text, d, k, f)}
           Next_(last) == IF last = 0 THEN 0 ELSE NextOf(text, last + 1, {"comma", "close"})
<1>1. 0 \in G
  <2> DEFINE f == [k \in 0..0 |-> IF k = 0 THEN d ELSE Next_({})]
  <2>1. f = [k \in 0..0 |-> IF k = 0 THEN d ELSE Next_(f[k - 1])]
    <3> HIDE DEF Next_
    <3> QED OBVIOUS
  <2>2. EndsSolves(text, d, 0, f)
    BY <2>1 DEF EndsSolves
  <2> QED BY <2>2
<1>2. ASSUME NEW i \in 0..(n - 1), i \in G PROVE i + 1 \in G
  <2>1. PICK f : EndsSolves(text, d, i, f)
    BY <1>2
  <2> DEFINE g == [k \in 0..(i + 1) |-> IF k = 0 THEN d ELSE Next_(f[k - 1])]
  <2>2. \A k \in 0..i : f[k] = IF k = 0 THEN d ELSE Next_(f[k - 1])
    BY <2>1 DEF EndsSolves
  <2> HIDE DEF Next_
  <2>3. \A k \in 0..i : k \in 0..(i + 1) /\ g[k] = f[k]
    BY <2>2
  <2>4. \A k \in 0..(i + 1) : k # 0 => k - 1 \in 0..i
    OBVIOUS
  <2>5. \A k \in 0..(i + 1) : g[k] = IF k = 0 THEN d ELSE Next_(g[k - 1])
    BY <2>3, <2>4
  <2>6. g = [k \in 0..(i + 1) |-> IF k = 0 THEN d ELSE Next_(g[k - 1])]
    BY <2>5
  <2>7. EndsSolves(text, d, i + 1, g)
    <3> HIDE DEF g
    <3> QED BY <2>6 DEF EndsSolves, Next_
  <2> QED BY <2>7
<1>3. 0..n \subseteq G
  <2> HIDE DEF G
  <2> QED BY <1>1, <1>2, UpTo
<1> QED BY <1>3

LEMMA EndsIs ==
  ASSUME NEW text, NEW d, NEW n \in Nat
  PROVE  LET end == Ends(text, d, n)
         IN  /\ end[0] = d
             /\ \A k \in 1..n : /\ k - 1 \in 0..(n - 1)
                                /\ end[k] = IF end[k - 1] = 0 THEN 0
                                            ELSE NextOf(text, end[k - 1] + 1, {"comma", "close"})
<1> DEFINE c == CHOOSE g : EndsSolves(text, d, n, g)
<1>1. EndsSolves(text, d, n, c)
  BY EndsExists
<1>2. Ends(text, d, n) = c
  BY DEF Ends, EndsSolves
<1> HIDE DEF c
<1>3. c[0] = d
  BY <1>1 DEF EndsSolves
<1>4. \A k \in 1..n : c[k] = IF c[k - 1] = 0 THEN 0 ELSE NextOf(text, c[k - 1] + 1, {"comma", "close"})
  BY <1>1 DEF EndsSolves
<1> QED BY <1>2, <1>3, <1>4

LEMMA EndsGrow ==
  ASSUME NEW text, Len(text) \in Nat, NEW d \in Nat, NEW n \in Nat,
         NEW k \in 0..n, Ends(text, d, n)[k] # 0
  PROVE  Ends(text, d, n)[k] \in Nat /\ Ends(text, d, n)[k] >= d
<1> DEFINE end == Ends(text, d, n)
           G == {i \in Nat : i <= n /\ end[i] # 0 => end[i] \in Nat /\ end[i] >= d}
<1>1. end[0] = d /\ \A i \in 1..n : end[i] = IF end[i - 1] = 0 THEN 0
                                              ELSE NextOf(text, end[i - 1] + 1, {"comma", "close"})
  BY EndsIs
<1> HIDE DEF end
<1>2. 0 \in G
  BY <1>1
<1>3. ASSUME NEW i \in 0..(n - 1), i \in G PROVE i + 1 \in G
  <2> SUFFICES ASSUME end[i + 1] # 0 PROVE end[i + 1] \in Nat /\ end[i + 1] >= d
    OBVIOUS
  <2>1. i + 1 \in 1..n /\ (i + 1) - 1 = i
    OBVIOUS
  <2>2. end[i] # 0 /\ end[i + 1] = NextOf(text, end[i] + 1, {"comma", "close"})
    BY <1>1, <2>1
  <2>3. end[i] \in Nat /\ end[i] >= d
    BY <1>3, <2>2
  <2>4. end[i + 1] \in (end[i] + 1)..Len(text)
    BY <2>2, <2>3, NextOfIs
  <2> QED BY <2>3, <2>4
<1>4. 0..n \subseteq G
  <2> HIDE DEF G
  <2> QED BY <1>2, <1>3, UpTo
<1> QED BY <1>4 DEF end

\* An array that is loaded has ended before a semicolon; its elements are by
\* row and column.
Shaped(m, rows, cols) ==
  \E f : m = [i \in 1..rows |-> [j \in 1..(cols + 1) |-> f[i][j]]]
EndedAfter(r, text, p) ==
  \E e \in Nat : /\ p <= e /\ e < Len(text) /\ text[e + 1].kind = "semicolon"
                 /\ r.next = e + 2

LEMMA LoadArrayIs ==
  ASSUME NEW text, Len(text) \in Nat, NEW d \in Nat, NEW rows \in Nat, NEW cols \in Nat,
         LoadArray(text, d, rows, cols).ok
  PROVE  /\ EndedAfter(LoadArray(text, d, rows, cols), text, d)
         /\ Shaped(LoadArray(text, d, rows, cols).m, rows, cols)
<1> DEFINE count == rows * (cols + 1)
           ends == Ends(text, d, count)
           e == ends[count]
           Element(k) == ValueOf(text, ends[k - 1] + 1, ends[k])
           m == [i \in 1..rows |-> [j \in 1..(cols + 1) |-> Element((i - 1) * (cols + 1) + j)]]
<1>1. Complete(text, e) /\ LoadArray(text, d, rows, cols) = [ok |-> TRUE, next |-> e + 2, m |-> m]
  BY DEF LoadArray, NoArray
<1>2. count \in Nat
  BY Products
<1>3. e # 0 /\ e < Len(text) /\ text[e + 1].kind = "semicolon"
  BY <1>1 DEF Complete
<1>4. e \in Nat /\ e >= d
  <2>1. count \in 0..count
    BY <1>2
  <2> HIDE DEF count
  <2> QED BY <1>2, <1>3, <2>1, EndsGrow
<1>5. EndedAfter(LoadArray(text, d, rows, cols), text, d)
  <2> HIDE DEF e, m
  <2> QED BY <1>1, <1>3, <1>4 DEF EndedAfter
<1>6. Shaped(m, rows, cols)
  <2> HIDE DEF Element
  <2> DEFINE f == [a \in 1..rows |-> [b \in 1..(cols + 1) |-> Element((a - 1) * (cols + 1) + b)]]
  <2>1. m = [i \in 1..rows |-> [j \in 1..(cols + 1) |-> f[i][j]]]
    OBVIOUS
  <2> HIDE DEF f, m
  <2> QED BY <2>1 DEF Shaped
<1> HIDE DEF m, e
<1> QED BY <1>1, <1>5, <1>6

LEMMA NextArrayIs ==
  ASSUME NEW text, Len(text) \in Nat, NEW p \in Nat, NEW name, NEW rows \in Nat, NEW cols \in Nat,
         NextArray(text, p, name, rows, cols).ok
  PROVE  /\ p # 0
         /\ EndedAfter(NextArray(text, p, name, rows, cols), text, p)
         /\ Shaped(NextArray(text, p, name, rows, cols).m, rows, cols)
<1> DEFINE d == NextOf(text, p, {"array"})
<1>1. /\ p # 0 /\ d # 0
      /\ NextArray(text, p, name, rows, cols) = LoadArray(text, d, rows, cols)
  BY DEF NextArray, NoArray
<1>2. d \in Nat /\ d >= p
  BY <1>1, NextOfIs
<1> HIDE DEF d
<1>3. /\ EndedAfter(LoadArray(text, d, rows, cols), text, d)
      /\ Shaped(LoadArray(text, d, rows, cols).m, rows, cols)
  BY <1>1, <1>2, LoadArrayIs
<1>4. EndedAfter(LoadArray(text, d, rows, cols), text, p)
  BY <1>2, <1>3 DEF EndedAfter
<1> QED BY <1>1, <1>3, <1>4

\* Three lines and a declaration come before what a loader reads.
LEMMA HeaderIs ==
  ASSUME NEW text, Len(text) \in Nat, NEW input, NEW class, NEW activation
  PROVE  LET l1 == NextOf(text, 1, {"line"})
             l2 == IF l1 = 0 THEN 0 ELSE NextOf(text, l1 + 1, {"line"})
             l3 == IF l2 = 0 THEN 0 ELSE NextOf(text, l2 + 1, {"line"})
             d == IF l3 = 0 THEN 0 ELSE NextOf(text, l3 + 1, {"array"})
         IN  d # 0 => /\ l1 \in 1..Len(text) /\ text[l1].kind = "line"
                      /\ l2 \in (l1 + 1)..Len(text) /\ text[l2].kind = "line"
                      /\ l3 \in (l2 + 1)..Len(text) /\ text[l3].kind = "line"
                      /\ d \in (l3 + 1)..Len(text) /\ text[d].kind = "array"
<1> DEFINE l1 == NextOf(text, 1, {"line"})
           l2 == IF l1 = 0 THEN 0 ELSE NextOf(text, l1 + 1, {"line"})
           l3 == IF l2 = 0 THEN 0 ELSE NextOf(text, l2 + 1, {"line"})
           d == IF l3 = 0 THEN 0 ELSE NextOf(text, l3 + 1, {"array"})
<1> SUFFICES ASSUME d # 0
             PROVE  /\ l1 \in 1..Len(text) /\ text[l1].kind = "line"
                    /\ l2 \in (l1 + 1)..Len(text) /\ text[l2].kind = "line"
                    /\ l3 \in (l2 + 1)..Len(text) /\ text[l3].kind = "line"
                    /\ d \in (l3 + 1)..Len(text) /\ text[d].kind = "array"
  OBVIOUS
<1>0. l1 # 0 /\ l2 # 0 /\ l3 # 0 /\ d # 0
  OBVIOUS
<1>1. l1 \in 1..Len(text) /\ text[l1].kind = "line"
  BY <1>0, NextOfIs
<1>2. l2 = NextOf(text, l1 + 1, {"line"})
  BY <1>0
<1> HIDE DEF l1, l2
<1>3. l2 \in (l1 + 1)..Len(text) /\ text[l2].kind = "line"
  BY <1>0, <1>1, <1>2, NextOfIs
<1>4. l3 = NextOf(text, l2 + 1, {"line"})
  BY <1>0
<1> HIDE DEF l3
<1>5. l3 \in (l2 + 1)..Len(text) /\ text[l3].kind = "line"
  BY <1>0, <1>1, <1>3, <1>4, NextOfIs
<1>6. d = NextOf(text, l3 + 1, {"array"})
  BY <1>0
<1> HIDE DEF d
<1>7. d \in (l3 + 1)..Len(text) /\ text[d].kind = "array"
  <2>1. l3 + 1 \in Nat
    BY <1>1, <1>3, <1>5
  <2>2. NextOf(text, l3 + 1, {"array"}) # 0
    BY <1>0, <1>6
  <2>3. d \in (l3 + 1)..Len(text) /\ text[d].kind \in {"array"}
    BY <1>6, <2>1, <2>2, NextOfIs
  <2> QED BY <2>3
<1> QED BY <1>1, <1>3, <1>5, <1>7

LEMMA EmptyArrayFails ==
  ASSUME NEW text, NEW d, NEW cols \in Nat,
         d < Len(text) => text[d + 1].kind # "semicolon"
  PROVE  ~LoadArray(text, d, 0, cols).ok
<1>1. 0 * (cols + 1) = 0
  OBVIOUS
<1>2. Ends(text, d, 0)[0] = d
  BY EndsIs
<1>3. ~Complete(text, Ends(text, d, 0)[0])
  BY <1>2 DEF Complete
<1> QED BY <1>1, <1>3 DEF LoadArray, NoArray

\* A text that can only be read as one hidden layer: no declaration names the
\* first of two, and none is followed by the semicolon that ends an array.
OneText(text) ==
  /\ Len(text) \in Nat
  /\ \A p \in 1..Len(text) : text[p].kind = "array" =>
       /\ text[p].value[1] # "FirstHiddenWeight" /\ text[p].value[2] \in Nat
       /\ p < Len(text) => text[p + 1].kind # "semicolon"

LEMMA NotEmpty ==
  ASSUME NEW text, OneText(text), NEW p \in Nat \ {0}, NEW name, NEW rows \in Nat, NEW cols \in Nat,
         NextArray(text, p, name, rows, cols).ok
  PROVE  rows # 0
<1> SUFFICES ASSUME rows = 0 PROVE FALSE
  OBVIOUS
<1> DEFINE d == NextOf(text, p, {"array"})
<1>1. /\ d # 0
      /\ NextArray(text, p, name, rows, cols) = LoadArray(text, d, rows, cols)
  BY DEF NextArray, NoArray
<1>2. Len(text) \in Nat
  BY DEF OneText
<1>3. d \in p..Len(text) /\ text[d].kind = "array"
  <2>1. d \in p..Len(text) /\ text[d].kind \in {"array"}
    BY <1>1, <1>2, NextOfIs
  <2> QED BY <2>1
<1> HIDE DEF d
<1>4. d \in 1..Len(text)
  BY <1>2, <1>3
<1>5. d < Len(text) => text[d + 1].kind # "semicolon"
  BY <1>3, <1>4 DEF OneText
<1>6. LoadArray(text, d, 0, cols).ok
  BY <1>1
<1> QED BY <1>5, <1>6, EmptyArrayFails

\* What such a text is read as, complete or not.
ReadAsOne(r, text, input, class) ==
  /\ r.kind \in {"one", "failed"} /\ r.first \in Nat /\ r.second = 0
  /\ r.kind = "one" =>
       /\ r.first # 0 /\ class # 0
       /\ \E h, o : r.w = <<h, o>> /\ Shaped(h, r.first, input) /\ Shaped(o, class, r.first)
       /\ \E p, q \in 1..Len(text) : /\ p < q
                                     /\ text[p].kind = "semicolon" /\ text[q].kind = "semicolon"

LEMMA LoadOneIs ==
  ASSUME NEW text, OneText(text), NEW d \in 1..Len(text), text[d].kind = "array",
         NEW input \in Nat, NEW class \in Nat, NEW opts
  PROVE  ReadAsOne(LoadOneHiddenWeight(text, d, input, class, opts), text, input, class)
<1> DEFINE first == text[d].value[2]
           hidden_ == IF first <= MaxHidden
                      THEN NextArray(text, d, "HiddenWeight", first, input) ELSE NoArray
           output == NextArray(text, hidden_.next, "OutputWeight", class, first)
           r == LoadOneHiddenWeight(text, d, input, class, opts)
<1> SUFFICES ReadAsOne(r, text, input, class)
  OBVIOUS
<1>1. Len(text) \in Nat /\ first \in Nat
  BY DEF OneText
<1>2. r = IF hidden_.ok /\ output.ok
          THEN Loaded("one", opts, first, 0, <<hidden_.m, output.m>>)
          ELSE Loaded("failed", opts, first, 0, <<>>)
  BY DEF LoadOneHiddenWeight
<1>3. CASE ~(hidden_.ok /\ output.ok)
  <2> HIDE DEF hidden_, output, first, r
  <2> QED BY <1>1, <1>2, <1>3 DEF Loaded, ReadAsOne
<1>4. CASE hidden_.ok /\ output.ok
  <2>1. hidden_ = NextArray(text, d, "HiddenWeight", first, input)
    BY <1>4 DEF NoArray
  <2> HIDE DEF first, hidden_
  <2>2. d \in Nat \ {0}
    BY <1>1
  <2>3. /\ EndedAfter(hidden_, text, d) /\ Shaped(hidden_.m, first, input)
        /\ first # 0
    BY <1>1, <1>4, <2>1, <2>2, NextArrayIs, NotEmpty
  <2>4. PICK e \in Nat : /\ d <= e /\ e < Len(text) /\ text[e + 1].kind = "semicolon"
                         /\ hidden_.next = e + 2
    BY <2>3 DEF EndedAfter
  <2>5. hidden_.next \in Nat \ {0}
    BY <2>4
  <2>6. /\ EndedAfter(output, text, hidden_.next) /\ Shaped(output.m, class, first)
        /\ class # 0
    BY <1>1, <1>4, <2>5, NextArrayIs, NotEmpty
  <2> HIDE DEF output
  <2>7. PICK x \in Nat : /\ hidden_.next <= x /\ x < Len(text) /\ text[x + 1].kind = "semicolon"
                         /\ output.next = x + 2
    BY <2>6 DEF EndedAfter
  <2>8. e + 1 \in 1..Len(text) /\ x + 1 \in 1..Len(text) /\ e + 1 < x + 1
    BY <1>1, <2>4, <2>7
  <2>9. \E p, q \in 1..Len(text) : /\ p < q
                                  /\ text[p].kind = "semicolon" /\ text[q].kind = "semicolon"
    BY <2>4, <2>7, <2>8
  <2> HIDE DEF r
  <2>10. /\ r.kind = "one" /\ r.first = first /\ r.second = 0
         /\ r.w = <<hidden_.m, output.m>>
    BY <1>2, <1>4 DEF Loaded
  <2> QED BY <1>1, <2>3, <2>6, <2>9, <2>10 DEF ReadAsOne
<1> QED BY <1>3, <1>4

LEMMA ReadOne ==
  ASSUME NEW text, OneText(text), NEW input \in Nat, NEW class \in Nat, NEW activation
  PROVE  ReadAsOne(WeightLoad(text, input, class, activation), text, input, class)
<1> DEFINE l1 == NextOf(text, 1, {"line"})
           l2 == IF l1 = 0 THEN 0 ELSE NextOf(text, l1 + 1, {"line"})
           l3 == IF l2 = 0 THEN 0 ELSE NextOf(text, l2 + 1, {"line"})
           d == IF l3 = 0 THEN 0 ELSE NextOf(text, l3 + 1, {"array"})
           options_ == <<IF l1 = 0 THEN 0 ELSE ValueOf(text, 1, l1),
                         IF l2 = 0 THEN 0 ELSE ValueOf(text, l1 + 1, l2),
                         IF l3 = 0 THEN activation ELSE ValueOf(text, l2 + 1, l3)>>
           name == IF d = 0 THEN "none" ELSE text[d].value[1]
           r == WeightLoad(text, input, class, activation)
<1>1. r = CASE name = "HiddenWeight" -> LoadOneHiddenWeight(text, d, input, class, options_)
            [] name = "FirstHiddenWeight" -> LoadTwoHiddenWeight(text, d, input, class, options_)
            [] OTHER -> Loaded("failed", options_, 0, 0, <<>>)
  BY DEF WeightLoad
<1>2. Len(text) \in Nat
  BY DEF OneText
<1>3. d # 0 => d \in 1..Len(text) /\ text[d].kind = "array"
  BY <1>2, HeaderIs
<1> HIDE DEF d, options_, r
<1>4. name # "FirstHiddenWeight"
  BY <1>3 DEF OneText
<1>5. CASE name = "HiddenWeight"
  <2>1. d # 0 /\ r = LoadOneHiddenWeight(text, d, input, class, options_)
    BY <1>1, <1>5
  <2> QED BY <2>1, <1>3, LoadOneIs DEF r
<1>6. CASE name # "HiddenWeight"
  <2>1. r = Loaded("failed", options_, 0, 0, <<>>)
    BY <1>1, <1>4, <1>6
  <2>2. r.kind = "failed" /\ r.first = 0 /\ r.second = 0
    BY <2>1 DEF Loaded
  <2> QED BY <2>2 DEF ReadAsOne, r
<1> QED BY <1>5, <1>6

\* A text with a header of two lines: the first line it has after them is that
\* of an array, and the declaration which is looked for from there is another's.
TwoText(text) ==
  /\ Len(text) \in Nat
  /\ \A p \in 1..Len(text) : p \in {1, 3} => text[p].kind # "line"
  /\ \A p \in 6..Len(text) : text[p].kind = "array" =>
       text[p].value[1] \notin {"HiddenWeight", "FirstHiddenWeight"}

LEMMA ReadTwo ==
  ASSUME NEW text, TwoText(text), NEW input, NEW class, NEW activation
  PROVE  LET r == WeightLoad(text, input, class, activation)
         IN  r.kind = "failed" /\ r.first = 0 /\ r.second = 0
<1> DEFINE l1 == NextOf(text, 1, {"line"})
           l2 == IF l1 = 0 THEN 0 ELSE NextOf(text, l1 + 1, {"line"})
           l3 == IF l2 = 0 THEN 0 ELSE NextOf(text, l2 + 1, {"line"})
           d == IF l3 = 0 THEN 0 ELSE NextOf(text, l3 + 1, {"array"})
           options_ == <<IF l1 = 0 THEN 0 ELSE ValueOf(text, 1, l1),
                         IF l2 = 0 THEN 0 ELSE ValueOf(text, l1 + 1, l2),
                         IF l3 = 0 THEN activation ELSE ValueOf(text, l2 + 1, l3)>>
           name == IF d = 0 THEN "none" ELSE text[d].value[1]
           r == WeightLoad(text, input, class, activation)
<1>1. r = CASE name = "HiddenWeight" -> LoadOneHiddenWeight(text, d, input, class, options_)
            [] name = "FirstHiddenWeight" -> LoadTwoHiddenWeight(text, d, input, class, options_)
            [] OTHER -> Loaded("failed", options_, 0, 0, <<>>)
  BY DEF WeightLoad
<1>2. Len(text) \in Nat
  BY DEF TwoText
<1>3. d # 0 => /\ l1 \in 1..Len(text) /\ text[l1].kind = "line"
               /\ l2 \in (l1 + 1)..Len(text) /\ text[l2].kind = "line"
               /\ l3 \in (l2 + 1)..Len(text)
               /\ d \in (l3 + 1)..Len(text) /\ text[d].kind = "array"
  BY <1>2, HeaderIs
<1> HIDE DEF l1, l2, l3, d, options_, r
<1>4. ASSUME d # 0 PROVE d \in 6..Len(text)
  <2>1. l1 # 1
    BY <1>2, <1>3, <1>4 DEF TwoText
  <2>2. l2 # 3
    BY <1>2, <1>3, <1>4 DEF TwoText
  <2> QED BY <1>2, <1>3, <1>4, <2>1, <2>2
<1>5. name \notin {"HiddenWeight", "FirstHiddenWeight"}
  BY <1>3, <1>4 DEF TwoText
<1>6. r = Loaded("failed", options_, 0, 0, <<>>)
  BY <1>1, <1>5
<1>7. r.kind = "failed" /\ r.first = 0 /\ r.second = 0
  BY <1>6 DEF Loaded
<1> QED BY <1>7 DEF r

------------------------------------------------------------------------------
(* The weight file: what was written, read.                                *)

LEMMA FramedKinds ==
  ASSUME NEW a, NEW name, NEW rows, NEW cols, Framed(a, name, rows, cols), NEW p \in 1..Len(a)
  PROVE  /\ a[p].kind = "array" => /\ p = 1 /\ 2 \in 1..Len(a) /\ a[2].kind # "semicolon"
                                  /\ a[p].value = <<name, rows, cols>>
         /\ a[p].kind = "semicolon" => p = Len(a) - 1
<1>1. /\ Len(a) \in Nat /\ Len(a) >= 4
      /\ a[1] = Declaration(name, rows, cols)
      /\ \A q \in 2..(Len(a) - 3) : a[q].kind \in {"number", "comma", "line"}
      /\ a[Len(a) - 2] = Sign("close") /\ a[Len(a) - 1] = Sign("semicolon") /\ a[Len(a)] = Line
  BY DEF Framed
<1>2. a[1].kind = "array" /\ a[1].value = <<name, rows, cols>>
  BY <1>1 DEF Declaration
<1>3. /\ a[Len(a) - 2].kind = "close" /\ a[Len(a) - 1].kind = "semicolon"
      /\ a[Len(a)].kind = "line"
  BY <1>1 DEF Sign, Line
<1>4. 2 \in 1..Len(a) /\ a[2].kind # "semicolon"
  <2>1. CASE Len(a) = 4
    BY <2>1, <1>3
  <2>2. CASE Len(a) # 4
    <3> DEFINE n == Len(a)
    <3>1. n \in Nat /\ n >= 4 /\ n # 4
      BY <2>2, <1>1
    <3>2. 2 \in 2..(n - 3)
      <4> HIDE DEF n
      <4> QED BY <3>1
    <3> QED BY <3>1, <3>2, <1>1
  <2> QED BY <2>1, <2>2, <1>1
<1>5. \/ p = 1 \/ p \in 2..(Len(a) - 3)
      \/ p = Len(a) - 2 \/ p = Len(a) - 1 \/ p = Len(a)
  BY <1>1
<1>6. CASE p = 1
  BY <1>6, <1>2, <1>4
<1>7. CASE p \in 2..(Len(a) - 3)
  BY <1>7, <1>1
<1>8. CASE p \in {Len(a) - 2, Len(a) - 1, Len(a)}
  BY <1>8, <1>3
<1> QED BY <1>5, <1>6, <1>7, <1>8

\* One text behind another, as \o leaves it.
Behind(t, o, a) == \A p \in 1..Len(a) : o + p \in 1..Len(t) /\ t[o + p] = a[p]

SaveSizes == [input : Nat, class : Nat, first : Nat, second : Nat]

OneHeader(opts) ==
  <<Text(Printed(opts[1])), Line, Text(Printed(opts[2])), Line, Text(opts[3]), Line>>
HiddenArray(w, s) == Array("HiddenWeight", w[1], s.first, s.input, s.input)
OutputArray(w, s) == Array("OutputWeight", w[2], s.class, s.first, s.first)

OneMade(t, w, s, opts) ==
  LET n1 == Len(HiddenArray(w, s))
      n2 == Len(OutputArray(w, s))
  IN  /\ n1 \in Nat /\ n2 \in Nat /\ Len(t) = 6 + n1 + n2
      /\ \A p \in 1..6 : t[p] = OneHeader(opts)[p]
      /\ Behind(t, 6, HiddenArray(w, s))
      /\ Behind(t, 6 + n1, OutputArray(w, s))

LEMMA SaveOneIs ==
  ASSUME NEW w, NEW s \in SaveSizes, NEW opts
  PROVE  /\ \E S : SaveOne(w, s, opts) \in Seq(S)
         /\ OneMade(SaveOne(w, s, opts), w, s, opts)
<1> DEFINE h == OneHeader(opts)
           a == HiddenArray(w, s)
           b == OutputArray(w, s)
           H == {h[p] : p \in 1..6}
           A == ArrayItems("HiddenWeight", w[1], s.first, s.input)
           B == ArrayItems("OutputWeight", w[2], s.class, s.first)
           ha == h \o a
           t == SaveOne(w, s, opts)
<1>1. s.first \in Nat /\ s.input \in Nat /\ s.class \in Nat
  BY DEF SaveSizes
<1>2. t = ha \o b
  BY DEF SaveOne, OneHeader, HiddenArray, OutputArray
<1>3. h \in Seq(H) /\ Len(h) = 6
  <2>1. h \in [1..6 -> H]
    BY DEF OneHeader
  <2> HIDE DEF h, H
  <2> QED BY <2>1, SequenceMade
<1>4. a \in Seq(A) /\ b \in Seq(B)
  BY <1>1, ArrayIs DEF HiddenArray, OutputArray
<1> HIDE DEF h, a, b, H, A, B, t
<1>5. ha \in Seq(H \cup A) /\ Appended(ha, h, a)
  BY <1>3, <1>4, JoinedAny
<1> HIDE DEF ha
<1>6. t \in Seq((H \cup A) \cup B) /\ Appended(t, ha, b)
  BY <1>2, <1>4, <1>5, JoinedAny
<1>7. /\ Len(a) \in Nat /\ Len(b) \in Nat /\ Len(ha) = 6 + Len(a) /\ Len(t) = 6 + Len(a) + Len(b)
  BY <1>3, <1>5, <1>6 DEF Appended
<1>8. \A p \in 1..Len(ha) : p \in 1..Len(t) /\ t[p] = ha[p]
  BY <1>6 DEF Appended
<1>9. \A p \in 1..6 : t[p] = h[p]
  BY <1>3, <1>5, <1>8 DEF Appended
<1>10. Behind(t, 6, a)
  BY <1>3, <1>5, <1>8 DEF Appended, Behind
<1>11. Behind(t, 6 + Len(a), b)
  BY <1>6, <1>7 DEF Appended, Behind
<1> QED BY <1>6, <1>7, <1>9, <1>10, <1>11 DEF OneMade, a, b, h, t

\* Where a text of one hidden layer has its declarations and semicolons.
OneKind(t, w, s, p) ==
  LET n1 == Len(HiddenArray(w, s))
  IN  /\ t[p].kind = "array" => /\ p = 7 \/ p = 7 + n1
                                /\ p + 1 \in 1..Len(t) /\ t[p + 1].kind # "semicolon"
                                /\ p = 7 => t[p].value = <<"HiddenWeight", s.first, s.input>>
                                /\ p # 7 => t[p].value = <<"OutputWeight", s.class, s.first>>
      /\ t[p].kind = "semicolon" => p = 5 + n1 \/ p = Len(t) - 1

LEMMA OneKinds ==
  ASSUME NEW t, NEW w, NEW s \in SaveSizes, NEW opts, OneMade(t, w, s, opts), NEW p \in 1..Len(t)
  PROVE  OneKind(t, w, s, p)
<1> DEFINE a == HiddenArray(w, s)
           b == OutputArray(w, s)
<1>1. s.first \in Nat /\ s.input \in Nat /\ s.class \in Nat
  BY DEF SaveSizes
<1>2. Framed(a, "HiddenWeight", s.first, s.input) /\ Framed(b, "OutputWeight", s.class, s.first)
  BY <1>1, ArrayIs DEF HiddenArray, OutputArray
<1> HIDE DEF a, b
<1>3. /\ Len(a) \in Nat /\ Len(b) \in Nat /\ Len(t) = 6 + Len(a) + Len(b)
      /\ \A q \in 1..6 : t[q] = OneHeader(opts)[q]
      /\ Behind(t, 6, a) /\ Behind(t, 6 + Len(a), b)
  BY DEF OneMade, a, b
<1>4. Len(a) >= 4
  BY <1>2 DEF Framed
<1>5. CASE p \in 1..6
  <2>1. t[p].kind \in {"number", "line"}
    BY <1>3, <1>5 DEF OneHeader, Text, Line, Sign
  <2> QED BY <2>1 DEF OneKind
<1>6. CASE p - 6 \in 1..Len(a)
  <2> DEFINE q == p - 6
  <2>1. t[p] = a[q]
    <3>1. 6 + q = p
      OBVIOUS
    <3> QED BY <3>1, <1>3, <1>6 DEF Behind
  <2>2. /\ a[q].kind = "array" => /\ q = 1 /\ 2 \in 1..Len(a) /\ a[2].kind # "semicolon"
                                  /\ a[q].value = <<"HiddenWeight", s.first, s.input>>
        /\ a[q].kind = "semicolon" => q = Len(a) - 1
    BY <1>2, <1>6, FramedKinds
  <2>3. ASSUME a[q].kind = "array"
        PROVE  /\ p = 7 /\ p + 1 \in 1..Len(t) /\ t[p + 1].kind # "semicolon"
               /\ t[p].value = <<"HiddenWeight", s.first, s.input>>
    <3>1. p = 7 /\ 6 + 2 = p + 1
      BY <2>2, <2>3
    <3>2. 6 + 2 \in 1..Len(t) /\ t[6 + 2] = a[2]
      BY <2>2, <2>3, <1>3 DEF Behind
    <3> QED BY <3>1, <3>2, <2>1, <2>2, <2>3
  <2>4. a[q].kind = "semicolon" => p = 5 + Len(a)
    BY <2>2, <1>3
  <2> QED BY <2>1, <2>3, <2>4 DEF OneKind, a
<1>7. CASE p - 6 - Len(a) \in 1..Len(b)
  <2> DEFINE q == p - 6 - Len(a)
  <2>1. t[p] = b[q]
    <3>1. 6 + Len(a) + q = p
      BY <1>3
    <3> QED BY <3>1, <1>3, <1>7 DEF Behind
  <2>2. /\ b[q].kind = "array" => /\ q = 1 /\ 2 \in 1..Len(b) /\ b[2].kind # "semicolon"
                                  /\ b[q].value = <<"OutputWeight", s.class, s.first>>
        /\ b[q].kind = "semicolon" => q = Len(b) - 1
    BY <1>2, <1>7, FramedKinds
  <2>3. ASSUME b[q].kind = "array"
        PROVE  /\ p = 7 + Len(a) /\ p # 7 /\ p + 1 \in 1..Len(t) /\ t[p + 1].kind # "semicolon"
               /\ t[p].value = <<"OutputWeight", s.class, s.first>>
    <3>1. p = 7 + Len(a) /\ 6 + Len(a) + 2 = p + 1 /\ p # 7
      BY <2>2, <2>3, <1>3, <1>4
    <3>2. 6 + Len(a) + 2 \in 1..Len(t) /\ t[6 + Len(a) + 2] = b[2]
      BY <2>2, <2>3, <1>3 DEF Behind
    <3> QED BY <3>1, <3>2, <2>1, <2>2, <2>3
  <2>4. b[q].kind = "semicolon" => p = Len(t) - 1
    BY <2>2, <1>3
  <2> QED BY <2>1, <2>3, <2>4 DEF OneKind, a
<1> QED BY <1>3, <1>5, <1>6, <1>7

LEMMA PrefixIs ==
  ASSUME NEW S, NEW t \in Seq(S), NEW n \in 0..Len(t)
  PROVE  /\ Len(SubSeq(t, 1, n)) = n
         /\ \A p \in 1..n : p \in 1..Len(t) /\ SubSeq(t, 1, n)[p] = t[p]
<1>1. Len(t) \in Nat
  BY LenProperties
<1>2. \A p \in 1..n : p \in 1..Len(t)
  BY <1>1
<1>3. \A p \in 1..n : t[p] \in S
  BY <1>2, ElementOfSeq
<1>4. /\ Len(SubSeq(t, 1, n)) = IF 1 <= n THEN n - 1 + 1 ELSE 0
      /\ \A p \in 1..(n - 1 + 1) : SubSeq(t, 1, n)[p] = t[1 + p - 1]
  BY <1>3, SubSeqProperties
<1> QED BY <1>1, <1>2, <1>4

\* A text of one hidden layer that ends early has no second semicolon.
LEMMA OnePrefix ==
  ASSUME NEW w, NEW s \in SaveSizes, NEW opts, NEW n \in 0..Len(SaveOne(w, s, opts))
  PROVE  LET t == SaveOne(w, s, opts)
             x == SubSeq(t, 1, n)
         IN  /\ OneText(x)
             /\ n <= Len(t) - 2 =>
                  \A p, q \in 1..Len(x) :
                    x[p].kind = "semicolon" /\ x[q].kind = "semicolon" => p = q
<1> DEFINE t == SaveOne(w, s, opts)
           x == SubSeq(t, 1, n)
<1>1. (\E S : t \in Seq(S)) /\ OneMade(t, w, s, opts)
  BY SaveOneIs
<1>2. PICK S : t \in Seq(S)
  BY <1>1
<1> HIDE DEF t
<1>3. Len(x) = n /\ \A p \in 1..n : p \in 1..Len(t) /\ x[p] = t[p]
  BY <1>2, PrefixIs DEF t
<1>4. Len(t) \in Nat /\ n \in Nat
  BY <1>2, LenProperties DEF t
<1> HIDE DEF x
<1>5. s.first \in Nat /\ s.class \in Nat
  BY DEF SaveSizes
<1>6. ASSUME NEW p \in 1..Len(x), x[p].kind = "array"
      PROVE  /\ x[p].value[1] # "FirstHiddenWeight" /\ x[p].value[2] \in Nat
             /\ p < Len(x) => x[p + 1].kind # "semicolon"
  <2>1. p \in 1..Len(t) /\ t[p] = x[p] /\ t[p].kind = "array"
    BY <1>3, <1>6
  <2>2. /\ t[p + 1].kind # "semicolon"
        /\ \/ t[p].value = <<"HiddenWeight", s.first, s.input>>
           \/ t[p].value = <<"OutputWeight", s.class, s.first>>
    <3>1. OneKind(t, w, s, p)
      BY <2>1, <1>1, OneKinds
    <3> QED BY <3>1, <2>1 DEF OneKind
  <2>3. p < Len(x) => x[p + 1] = t[p + 1]
    BY <1>3, <1>4
  <2> QED BY <2>1, <2>2, <2>3, <1>5
<1>7. OneText(x)
  BY <1>3, <1>4, <1>6 DEF OneText
<1>8. ASSUME n <= Len(t) - 2, NEW p \in 1..Len(x), NEW q \in 1..Len(x),
             x[p].kind = "semicolon", x[q].kind = "semicolon"
      PROVE  p = q
  <2>1. /\ p \in 1..Len(t) /\ t[p].kind = "semicolon"
        /\ q \in 1..Len(t) /\ t[q].kind = "semicolon"
    BY <1>3, <1>8
  <2>2. p # Len(t) - 1 /\ q # Len(t) - 1
    BY <1>3, <1>4, <1>8
  <2>3. p = 5 + Len(HiddenArray(w, s)) /\ q = 5 + Len(HiddenArray(w, s))
    <3>1. OneKind(t, w, s, p) /\ OneKind(t, w, s, q)
      BY <2>1, <1>1, OneKinds
    <3> QED BY <3>1, <2>1, <2>2 DEF OneKind
  <2> QED BY <2>3
<1> QED BY <1>7, <1>8 DEF t, x

TwoHeader(opts) == <<Text(Printed(opts[1])), Line, Text(Printed(opts[2])), Line>>
FirstArray(w, s) == Array("FirstHiddenWeight", w[1], s.first, s.input, s.class)
SecondArray(w, s) == Array("SecondHiddenWeight", w[2], s.second, s.first, s.first)
LastArray(w, s) == Array("OutputWeight", w[3], s.class, s.second, s.second)

TwoMade(t, w, s, opts) ==
  LET n1 == Len(FirstArray(w, s))
      n2 == Len(SecondArray(w, s))
      n3 == Len(LastArray(w, s))
  IN  /\ n1 \in Nat /\ n2 \in Nat /\ n3 \in Nat /\ Len(t) = 4 + n1 + n2 + n3
      /\ \A p \in 1..4 : t[p] = TwoHeader(opts)[p]
      /\ Behind(t, 4, FirstArray(w, s))
      /\ Behind(t, 4 + n1, SecondArray(w, s))
      /\ Behind(t, 4 + n1 + n2, LastArray(w, s))

LEMMA SaveTwoIs ==
  ASSUME NEW w, NEW s \in SaveSizes, NEW opts
  PROVE  /\ \E S : SaveTwo(w, s, opts) \in Seq(S)
         /\ TwoMade(SaveTwo(w, s, opts), w, s, opts)
<1> DEFINE h == TwoHeader(opts)
           a == FirstArray(w, s)
           b == SecondArray(w, s)
           c == LastArray(w, s)
           H == {h[p] : p \in 1..4}
           A == ArrayItems("FirstHiddenWeight", w[1], s.first, s.input)
           B == ArrayItems("SecondHiddenWeight", w[2], s.second, s.first)
           C == ArrayItems("OutputWeight", w[3], s.class, s.second)
           ha == h \o a
           hab == ha \o b
           t == SaveTwo(w, s, opts)
<1>1. s.first \in Nat /\ s.second \in Nat /\ s.input \in Nat /\ s.class \in Nat
  BY DEF SaveSizes
<1>2. t = hab \o c
  BY DEF SaveTwo, TwoHeader, FirstArray, SecondArray, LastArray
<1>3. h \in Seq(H) /\ Len(h) = 4
  <2>1. h \in [1..4 -> H]
    BY DEF TwoHeader
  <2> HIDE DEF h, H
  <2> QED BY <2>1, SequenceMade
<1>4. a \in Seq(A) /\ b \in Seq(B) /\ c \in Seq(C)
  BY <1>1, ArrayIs DEF FirstArray, SecondArray, LastArray
<1> HIDE DEF h, a, b, c, H, A, B, C, t
<1>5. ha \in Seq(H \cup A) /\ Appended(ha, h, a)
  BY <1>3, <1>4, JoinedAny
<1> HIDE DEF ha
<1>6. hab \in Seq((H \cup A) \cup B) /\ Appended(hab, ha, b)
  BY <1>4, <1>5, JoinedAny
<1> HIDE DEF hab
<1>7. t \in Seq(((H \cup A) \cup B) \cup C) /\ Appended(t, hab, c)
  BY <1>2, <1>4, <1>6, JoinedAny
<1>8. /\ Len(a) \in Nat /\ Len(b) \in Nat /\ Len(c) \in Nat
      /\ Len(ha) = 4 + Len(a) /\ Len(hab) = 4 + Len(a) + Len(b)
      /\ Len(t) = 4 + Len(a) + Len(b) + Len(c)
  BY <1>3, <1>5, <1>6, <1>7 DEF Appended
<1>9. /\ \A p \in 1..Len(ha) : p \in 1..Len(hab) /\ hab[p] = ha[p]
      /\ \A p \in 1..Len(hab) : p \in 1..Len(t) /\ t[p] = hab[p]
  BY <1>6, <1>7 DEF Appended
<1>10. \A p \in 1..4 : t[p] = h[p]
  BY <1>3, <1>5, <1>9 DEF Appended
<1>11. Behind(t, 4, a)
  BY <1>3, <1>5, <1>9 DEF Appended, Behind
<1>12. Behind(t, 4 + Len(a), b)
  BY <1>6, <1>8, <1>9 DEF Appended, Behind
<1>13. Behind(t, 4 + Len(a) + Len(b), c)
  BY <1>7, <1>8 DEF Appended, Behind
<1> QED BY <1>7, <1>8, <1>10, <1>11, <1>12, <1>13 DEF TwoMade, a, b, c, h, t

LEMMA TwoKinds ==
  ASSUME NEW t, NEW w, NEW s \in SaveSizes, NEW opts, TwoMade(t, w, s, opts), NEW p \in 1..Len(t)
  PROVE  /\ p \in {1, 3} => t[p].kind # "line"
         /\ p >= 6 /\ t[p].kind = "array" => t[p].value[1] \notin {"HiddenWeight", "FirstHiddenWeight"}
<1> DEFINE a == FirstArray(w, s)
           b == SecondArray(w, s)
           c == LastArray(w, s)
<1>1. s.first \in Nat /\ s.second \in Nat /\ s.input \in Nat /\ s.class \in Nat
  BY DEF SaveSizes
<1>2. /\ Framed(a, "FirstHiddenWeight", s.first, s.input)
      /\ Framed(b, "SecondHiddenWeight", s.second, s.first)
      /\ Framed(c, "OutputWeight", s.class, s.second)
  BY <1>1, ArrayIs DEF FirstArray, SecondArray, LastArray
<1> HIDE DEF a, b, c
<1>3. /\ Len(a) \in Nat /\ Len(b) \in Nat /\ Len(c) \in Nat
      /\ Len(t) = 4 + Len(a) + Len(b) + Len(c)
      /\ \A q \in 1..4 : t[q] = TwoHeader(opts)[q]
      /\ Behind(t, 4, a) /\ Behind(t, 4 + Len(a), b) /\ Behind(t, 4 + Len(a) + Len(b), c)
  BY DEF TwoMade, a, b, c
<1>4. CASE p \in 1..4
  <2>1. p \in {1, 3} => t[p].kind = "number"
    BY <1>3, <1>4 DEF TwoHeader, Text
  <2> QED BY <2>1, <1>4
<1>5. CASE p - 4 \in 1..Len(a)
  <2> DEFINE q == p - 4
  <2>1. t[p] = a[q]
    <3>1. 4 + q = p
      OBVIOUS
    <3> QED BY <3>1, <1>3, <1>5 DEF Behind
  <2>2. a[q].kind = "array" => q = 1
    BY <1>2, <1>5, FramedKinds
  <2> QED BY <2>1, <2>2, <1>5
<1>6. CASE p - 4 - Len(a) \in 1..Len(b)
  <2> DEFINE q == p - 4 - Len(a)
  <2>1. t[p] = b[q]
    <3>1. 4 + Len(a) + q = p
      BY <1>3
    <3> QED BY <3>1, <1>3, <1>6 DEF Behind
  <2>2. b[q].kind = "array" => b[q].value = <<"SecondHiddenWeight", s.second, s.first>>
    BY <1>2, <1>6, FramedKinds
  <2>3. p \notin {1, 3}
    BY <1>3, <1>6
  <2> QED BY <2>1, <2>2, <2>3
<1>7. CASE p - 4 - Len(a) - Len(b) \in 1..Len(c)
  <2> DEFINE q == p - 4 - Len(a) - Len(b)
  <2>1. t[p] = c[q]
    <3>1. 4 + Len(a) + Len(b) + q = p
      BY <1>3
    <3> QED BY <3>1, <1>3, <1>7 DEF Behind
  <2>2. c[q].kind = "array" => c[q].value = <<"OutputWeight", s.class, s.second>>
    BY <1>2, <1>7, FramedKinds
  <2>3. p \notin {1, 3}
    BY <1>3, <1>7
  <2> QED BY <2>1, <2>2, <2>3
<1> QED BY <1>3, <1>4, <1>5, <1>6, <1>7

LEMMA TwoPrefix ==
  ASSUME NEW w, NEW s \in SaveSizes, NEW opts, NEW n \in 0..Len(SaveTwo(w, s, opts))
  PROVE  TwoText(SubSeq(SaveTwo(w, s, opts), 1, n))
<1> DEFINE t == SaveTwo(w, s, opts)
           x == SubSeq(t, 1, n)
<1>1. (\E S : t \in Seq(S)) /\ TwoMade(t, w, s, opts)
  BY SaveTwoIs
<1>2. PICK S : t \in Seq(S)
  BY <1>1
<1> HIDE DEF t
<1>3. Len(x) = n /\ \A p \in 1..n : p \in 1..Len(t) /\ x[p] = t[p]
  BY <1>2, PrefixIs DEF t
<1>4. n \in Nat
  BY <1>2, LenProperties DEF t
<1> HIDE DEF x
<1>5. ASSUME NEW p \in 1..Len(x)
      PROVE  /\ p \in {1, 3} => x[p].kind # "line"
             /\ p >= 6 /\ x[p].kind = "array" => x[p].value[1] \notin {"HiddenWeight", "FirstHiddenWeight"}
  <2>1. p \in 1..Len(t) /\ t[p] = x[p]
    BY <1>3
  <2> QED BY <2>1, <1>1, TwoKinds
<1>6. \A p \in 6..Len(x) : p \in 1..Len(x) /\ p >= 6
  BY <1>3, <1>4
<1>7. TwoText(x)
  BY <1>3, <1>4, <1>5, <1>6 DEF TwoText
<1> QED BY <1>7 DEF t, x

\* Where a text has an array's elements, its ends of lines, and its end, if the
\* declaration is at `d`.
Lies(t, d, m, rows, cols) ==
  LET wide == 2 * (cols + 1) + 1
  IN  /\ d + rows * wide + 1 <= Len(t)
      /\ \A i \in 1..rows : \A j \in 1..(cols + 1) :
           /\ t[d + (i - 1) * wide + (2 * j - 1)] = Text(Printed(m[i][j]))
           /\ ~(i = rows /\ j = cols + 1) => t[d + (i - 1) * wide + 2 * j] = Sign("comma")
      /\ \A i \in 1..rows : t[IF i = rows THEN d + rows * wide - 1 ELSE d + i * wide] = Line
      /\ t[d + rows * wide] = Sign("close") /\ t[d + rows * wide + 1] = Sign("semicolon")

LEMMA LiesIs ==
  ASSUME NEW t, Len(t) \in Nat, NEW o \in Nat, NEW name, NEW m, NEW rows \in Nat \ {0}, NEW cols \in Nat,
         Behind(t, o, Array(name, m, rows, cols, cols))
  PROVE  Lies(t, o + 1, m, rows, cols)
<1> DEFINE a == Array(name, m, rows, cols, cols)
           wide == 2 * (cols + 1) + 1
<1>1. Framed(a, name, rows, cols) /\ Placed(a, m, rows, cols)
  BY ArrayIs
<1>2. \A p \in 1..Len(a) : o + p \in 1..Len(t) /\ t[o + p] = a[p]
  BY DEF Behind
<1> HIDE DEF a
<1>3. wide \in Nat \ {0} /\ wide = 2 * cols + 3
  OBVIOUS
<1> HIDE DEF wide
<1>4. rows * wide \in Nat /\ Len(a) = rows * wide + 3
  BY <1>1, <1>3, Products DEF Placed, wide
<1>5. /\ t[(o + 1) + rows * wide] = Sign("close") /\ t[(o + 1) + rows * wide + 1] = Sign("semicolon")
      /\ (o + 1) + rows * wide + 1 <= Len(t)
  <2>1. /\ rows * wide + 1 \in 1..Len(a) /\ rows * wide + 1 = Len(a) - 2
        /\ rows * wide + 2 \in 1..Len(a) /\ rows * wide + 2 = Len(a) - 1
    BY <1>4
  <2>2. /\ o + (rows * wide + 1) = (o + 1) + rows * wide
        /\ o + (rows * wide + 2) = (o + 1) + rows * wide + 1
    BY <1>4
  <2>3. /\ t[o + (rows * wide + 1)] = a[Len(a) - 2] /\ t[o + (rows * wide + 2)] = a[Len(a) - 1]
        /\ o + (rows * wide + 2) \in 1..Len(t)
    BY <2>1, <1>2
  <2> QED BY <2>2, <2>3, <1>1 DEF Framed
<1>6. ASSUME NEW i \in 1..rows
      PROVE  /\ (i - 1) * wide \in Nat /\ i * wide = (i - 1) * wide + wide
             /\ (i - 1) * wide + wide <= rows * wide
             /\ i # rows => i * wide + wide <= rows * wide
  <2>1. i - 1 \in Nat /\ (i - 1) + 1 = i /\ i \in Nat /\ i <= rows
    OBVIOUS
  <2>2. (i - 1) * wide \in Nat /\ i * wide = (i - 1) * wide + wide /\ i * wide <= rows * wide
    BY <2>1, <1>3, Products
  <2>3. i # rows => i * wide + wide <= rows * wide
    <3> SUFFICES ASSUME i # rows PROVE i * wide + wide <= rows * wide
      OBVIOUS
    <3>1. i + 1 \in Nat /\ i + 1 <= rows
      OBVIOUS
    <3>2. (i + 1) * wide = i * wide + wide /\ (i + 1) * wide <= rows * wide
      BY <2>1, <3>1, <1>3, Products
    <3> QED BY <3>2
  <2> QED BY <2>2, <2>3
<1>7. ASSUME NEW i \in 1..rows, NEW j \in 1..(cols + 1)
      PROVE  /\ t[(o + 1) + (i - 1) * wide + (2 * j - 1)] = Text(Printed(m[i][j]))
             /\ ~(i = rows /\ j = cols + 1) => t[(o + 1) + (i - 1) * wide + 2 * j] = Sign("comma")
  <2> DEFINE u == (i - 1) * wide
  <2>1. u \in Nat /\ u + wide <= rows * wide
    BY <1>6
  <2>2. /\ a[1 + u + (2 * j - 1)] = Text(Printed(m[i][j]))
        /\ ~(i = rows /\ j = cols + 1) => a[1 + u + 2 * j] = Sign("comma")
    BY <1>1 DEF Placed, wide
  <2> HIDE DEF u
  <2>3. 1 + u + (2 * j - 1) \in 1..Len(a) /\ 1 + u + 2 * j \in 1..Len(a)
    BY <2>1, <1>3, <1>4
  <2>4. /\ o + (1 + u + (2 * j - 1)) = (o + 1) + u + (2 * j - 1)
        /\ o + (1 + u + 2 * j) = (o + 1) + u + 2 * j
    BY <2>1
  <2>5. /\ t[o + (1 + u + (2 * j - 1))] = a[1 + u + (2 * j - 1)]
        /\ t[o + (1 + u + 2 * j)] = a[1 + u + 2 * j]
    BY <2>3, <1>2
  <2> QED BY <2>2, <2>4, <2>5 DEF u
<1>8. ASSUME NEW i \in 1..rows
      PROVE  t[IF i = rows THEN (o + 1) + rows * wide - 1 ELSE (o + 1) + i * wide] = Line
  <2>1. a[IF i = rows THEN rows * wide ELSE 1 + i * wide] = Line
    BY <1>1 DEF Placed, wide
  <2>2. CASE i = rows
    <3>1. rows * wide \in 1..Len(a)
      BY <1>3, <1>4, <1>6
    <3>2. o + rows * wide = (o + 1) + rows * wide - 1
      BY <1>4
    <3>3. t[o + rows * wide] = a[rows * wide]
      BY <3>1, <1>2
    <3> QED BY <3>2, <3>3, <2>1, <2>2
  <2>3. CASE i # rows
    <3>1. 1 + i * wide \in 1..Len(a) /\ i * wide \in Nat
      BY <1>3, <1>4, <1>6, <2>3
    <3>2. o + (1 + i * wide) = (o + 1) + i * wide
      BY <3>1
    <3>3. t[o + (1 + i * wide)] = a[1 + i * wide]
      BY <3>1, <1>2
    <3> QED BY <3>2, <3>3, <2>1, <2>3
  <2> QED BY <2>2, <2>3
<1> QED BY <1>5, <1>7, <1>8 DEF Lies, wide

\* Where the element before that of row `i` and column `j` ends, and where it ends.
StartOf(d, cols, i, j) ==
  LET wide == 2 * (cols + 1) + 1
  IN  IF j # 1 THEN d + (i - 1) * wide + 2 * (j - 1)
      ELSE IF i = 1 THEN d ELSE d + (i - 2) * wide + 2 * (cols + 1)
EndOf(d, rows, cols, i, j) ==
  LET wide == 2 * (cols + 1) + 1
  IN  IF i = rows /\ j = cols + 1 THEN d + rows * wide ELSE d + (i - 1) * wide + 2 * j

LEMMA ElementReads ==
  ASSUME NEW t, Len(t) \in Nat, NEW d \in Nat \ {0}, NEW m, NEW rows \in Nat \ {0}, NEW cols \in Nat,
         Lies(t, d, m, rows, cols), NEW i \in 1..rows, NEW j \in 1..(cols + 1)
  PROVE  LET b == StartOf(d, cols, i, j)
             e == EndOf(d, rows, cols, i, j)
         IN  /\ b \in Nat \ {0} /\ e \in Nat \ {0}
             /\ NextOf(t, b + 1, {"comma", "close"}) = e
             /\ ValueOf(t, b + 1, e) = Printed(m[i][j])
<1> DEFINE wide == 2 * (cols + 1) + 1
           u == (i - 1) * wide
           v == rows * wide
           n == d + u + (2 * j - 1)
           b == StartOf(d, cols, i, j)
           e == EndOf(d, rows, cols, i, j)
<1>1. wide \in Nat /\ wide = 2 * cols + 3
  OBVIOUS
<1> HIDE DEF wide
<1>2. /\ u \in Nat /\ i * wide = u + wide /\ u + wide <= v /\ v \in Nat
      /\ i = rows => v = u + wide
  <2>1. i - 1 \in Nat /\ (i - 1) + 1 = i /\ i \in Nat /\ i <= rows /\ rows \in Nat
    OBVIOUS
  <2> QED BY <2>1, <1>1, Products
<1>3. /\ t[n] = Text(Printed(m[i][j]))
      /\ ~(i = rows /\ j = cols + 1) => t[d + u + 2 * j] = Sign("comma")
      /\ t[d + v - 1] = Line
      /\ t[d + v] = Sign("close") /\ d + v + 1 <= Len(t)
  <2>1. /\ t[d + u + (2 * j - 1)] = Text(Printed(m[i][j]))
        /\ ~(i = rows /\ j = cols + 1) => t[d + u + 2 * j] = Sign("comma")
    BY DEF Lies, wide
  <2>2. rows \in 1..rows
    OBVIOUS
  <2>3. /\ t[IF rows = rows THEN d + v - 1 ELSE d + rows * wide] = Line
        /\ t[d + v] = Sign("close") /\ d + v + 1 <= Len(t)
    BY <2>2 DEF Lies, wide
  <2> QED BY <2>1, <2>3
<1> HIDE DEF v
<1>4. t[n].kind = "number" /\ t[n].value[1] = Printed(m[i][j])
  BY <1>3 DEF Text
<1>5. n \in Nat /\ b \in Nat \ {0}
       /\ \/ b + 1 = n
          \/ b + 1 = n - 1 /\ t[b + 1].kind = "line"
  <2>0. n \in Nat
    BY <1>2
  <2>1. CASE j # 1
    <3>1. b = d + u + 2 * (j - 1)
      BY <2>1 DEF StartOf, wide
    <3> QED BY <3>1, <2>0, <2>1, <1>2
  <2>2. CASE j = 1 /\ i = 1
    <3>1. b = d /\ u = 0
      BY <2>2, <1>1 DEF StartOf
    <3> QED BY <3>1, <2>0, <2>2
  <2>3. CASE j = 1 /\ i # 1
    <3> DEFINE w == (i - 2) * wide
    <3>1. b = d + w + 2 * (cols + 1)
      BY <2>3 DEF StartOf, wide
    <3>2. i - 2 \in Nat /\ (i - 2) + 1 = i - 1
      BY <2>3
    <3>3. w \in Nat /\ u = w + wide
      BY <3>2, <1>1, Products
    <3>4. t[d + (i - 1) * wide] = Line
      <4>1. i - 1 \in 1..rows /\ i - 1 # rows
        BY <2>3
      <4>2. t[IF i - 1 = rows THEN d + rows * wide - 1 ELSE d + (i - 1) * wide] = Line
        BY <4>1 DEF Lies, wide
      <4> QED BY <4>1, <4>2
    <3>5. d + (i - 1) * wide = b + 1
      BY <3>1, <3>3, <1>1
    <3>6. t[b + 1].kind = "line"
      BY <3>4, <3>5 DEF Line, Sign
    <3>7. b + 1 = n - 1 /\ b \in Nat \ {0}
      BY <3>1, <3>3, <1>1, <2>3
    <3> QED BY <3>6, <3>7, <2>0
  <2> QED BY <2>1, <2>2, <2>3
<1>6. /\ e \in Nat \ {0} /\ e <= Len(t) /\ t[e].kind \in {"comma", "close"}
      /\ \/ e = n + 1
         \/ e = n + 2 /\ t[n + 1].kind = "line"
  <2>1. CASE i = rows /\ j = cols + 1
    <3>1. e = d + v
      BY <2>1 DEF EndOf, wide, v
    <3>2. e = n + 2
      BY <3>1, <2>1, <1>1, <1>2
    <3>3. t[n + 1].kind = "line"
      <4>1. n + 1 = d + v - 1
        <5>1. n \in Nat
          BY <1>5
        <5> HIDE DEF n, e
        <5> QED BY <5>1, <3>1, <3>2, <1>2
      <4> QED BY <4>1, <1>3 DEF Line, Sign
    <3>4. t[e].kind = "close"
      BY <3>1, <1>3 DEF Sign
    <3>5. e \in Nat \ {0} /\ e <= Len(t)
      BY <3>1, <1>2, <1>3
    <3> QED BY <3>2, <3>3, <3>4, <3>5
  <2>2. CASE ~(i = rows /\ j = cols + 1)
    <3>1. e = d + u + 2 * j
      BY <2>2 DEF EndOf, wide
    <3>2. e = n + 1 /\ e \in Nat \ {0}
      BY <3>1, <1>2
    <3>3. t[e].kind = "comma"
      BY <3>1, <2>2, <1>3 DEF Sign
    <3>4. e <= Len(t)
      BY <3>1, <1>1, <1>2, <1>3
    <3> QED BY <3>2, <3>3, <3>4
  <2> QED BY <2>1, <2>2
<1> HIDE DEF n, b, e, u
<1>7. NextOf(t, b + 1, {"comma", "close"}) = e
  <2>1. e \in (b + 1)..Len(t) /\ b + 1 \in Nat
    BY <1>5, <1>6
  <2>2. \A r \in (b + 1)..(e - 1) : t[r].kind \notin {"comma", "close"}
    <3> TAKE r \in (b + 1)..(e - 1)
    <3>1. r = b + 1 \/ r = n \/ r = n + 1
      BY <1>5, <1>6
    <3>2. r = n => t[r].kind = "number"
      BY <1>4
    <3>3. r # n => t[r].kind = "line"
      BY <3>1, <1>5, <1>6
    <3> QED BY <3>2, <3>3
  <2> QED BY <2>1, <2>2, <1>6, NextOfFirst
<1>8. ValueOf(t, b + 1, e) = Printed(m[i][j])
  <2>1. b + 1 \in Nat /\ e \in Nat /\ n \in (b + 1)..(e - 1)
    BY <1>5, <1>6
  <2>2. \A r \in (b + 1)..(n - 1) : t[r].kind = "line"
    BY <1>5
  <2>3. ValueOf(t, b + 1, e) = t[n].value[1]
    BY <2>1, <2>2, <1>4, ValueOfIs
  <2> QED BY <2>3, <1>4
<1> QED BY <1>5, <1>6, <1>7, <1>8 DEF b, e

\* The elements are numbered by row and column.
LEMMA IndexIs ==
  ASSUME NEW rows \in Nat \ {0}, NEW cols \in Nat, NEW i \in 1..rows, NEW j \in 1..(cols + 1)
  PROVE  /\ rows * (cols + 1) \in Nat
         /\ (i - 1) * (cols + 1) + j \in 1..(rows * (cols + 1))
         /\ (rows - 1) * (cols + 1) + (cols + 1) = rows * (cols + 1)
<1> DEFINE c == cols + 1
<1>1. c \in Nat \ {0} /\ i - 1 \in Nat /\ i \in Nat /\ (i - 1) + 1 = i /\ i <= rows /\ rows \in Nat
       /\ rows - 1 \in Nat /\ (rows - 1) + 1 = rows
  OBVIOUS
<1>2. j \in 1..c
  OBVIOUS
<1> HIDE DEF c
<1>3. (i - 1) * c \in Nat /\ i * c = (i - 1) * c + c /\ i * c <= rows * c /\ rows * c \in Nat
       /\ rows * c = (rows - 1) * c + c
  BY <1>1, Products
<1>4. (i - 1) * c + j \in 1..(rows * c)
  BY <1>1, <1>2, <1>3
<1> QED BY <1>3, <1>4 DEF c

LEMMA EndsAre ==
  ASSUME NEW t, Len(t) \in Nat, NEW d \in Nat \ {0}, NEW m, NEW rows \in Nat \ {0}, NEW cols \in Nat,
         Lies(t, d, m, rows, cols)
  PROVE  \A i \in 1..rows : \A j \in 1..(cols + 1) :
           LET end == Ends(t, d, rows * (cols + 1))
               k == (i - 1) * (cols + 1) + j
           IN  end[k - 1] = StartOf(d, cols, i, j) /\ end[k] = EndOf(d, rows, cols, i, j)
<1> DEFINE c == cols + 1
           count == rows * c
           end == Ends(t, d, count)
           Index(i, j) == (i - 1) * c + j
           Ended(k) == \A i \in 1..rows : \A j \in 1..c :
                         k = Index(i, j) => end[k] = EndOf(d, rows, cols, i, j)
           G == {k \in Nat : Ended(k)}
<1>1. c \in Nat \ {0} /\ count \in Nat
  BY Products
<1>2. end[0] = d /\ \A k \in 1..count : end[k] = IF end[k - 1] = 0 THEN 0
                                                  ELSE NextOf(t, end[k - 1] + 1, {"comma", "close"})
  BY <1>1, EndsIs
<1> HIDE DEF end
<1>3. ASSUME NEW i \in 1..rows, NEW j \in 1..c PROVE Index(i, j) \in 1..count
  BY IndexIs
<1>4. ASSUME NEW k \in Nat, Ended(k), NEW i \in 1..rows, NEW j \in 1..c, k + 1 = Index(i, j)
      PROVE  end[k] = StartOf(d, cols, i, j)
  <2>1. CASE j # 1
    <3>1. j - 1 \in 1..c /\ j - 1 # c
      BY <2>1, <1>1
    <3>2. (i - 1) * c \in Nat
      BY <1>1, Products
    <3>3. k = Index(i, j - 1)
      BY <3>2, <1>1, <1>4
    <3>4. end[k] = EndOf(d, rows, cols, i, j - 1)
      BY <3>1, <3>3, <1>4
    <3> QED BY <3>1, <3>4, <2>1 DEF StartOf, EndOf
  <2>2. CASE j = 1 /\ i = 1
    <3>1. k = 0
      BY <2>2, <1>1, <1>4
    <3> QED BY <3>1, <2>2, <1>2 DEF StartOf
  <2>3. CASE j = 1 /\ i # 1
    <3>1. i - 1 \in 1..rows /\ i - 1 # rows /\ c \in 1..c /\ (i - 1) - 1 = i - 2
      BY <2>3, <1>1
    <3>2. i - 2 \in Nat /\ (i - 2) + 1 = i - 1
      BY <2>3
    <3>3. (i - 2) * c \in Nat /\ (i - 1) * c = (i - 2) * c + c
      BY <3>2, <1>1, Products
    <3>4. k = Index(i - 1, c)
      BY <3>1, <3>3, <2>3, <1>1, <1>4
    <3>5. end[k] = EndOf(d, rows, cols, i - 1, c)
      BY <3>1, <3>4, <1>4
    <3> QED BY <3>1, <3>5, <2>3 DEF StartOf, EndOf
  <2> QED BY <2>1, <2>2, <2>3
<1>5. 0 \in G
  <2>1. \A i \in 1..rows : \A j \in 1..c : Index(i, j) # 0
    BY <1>1, <1>3
  <2> QED BY <2>1
<1>6. ASSUME NEW k \in 0..(count - 1), k \in G PROVE k + 1 \in G
  <2>1. k + 1 \in 1..count /\ (k + 1) - 1 = k
    BY <1>1
  <2>2. ASSUME NEW i \in 1..rows, NEW j \in 1..c, k + 1 = Index(i, j)
        PROVE  end[k + 1] = EndOf(d, rows, cols, i, j)
    <3>1. end[k] = StartOf(d, cols, i, j)
      BY <1>4, <1>6, <2>2
    <3>2. /\ StartOf(d, cols, i, j) \in Nat \ {0}
          /\ NextOf(t, StartOf(d, cols, i, j) + 1, {"comma", "close"}) = EndOf(d, rows, cols, i, j)
      BY ElementReads
    <3>3. end[k + 1] = IF end[k] = 0 THEN 0 ELSE NextOf(t, end[k] + 1, {"comma", "close"})
      BY <2>1, <1>2
    <3> QED BY <3>1, <3>2, <3>3
  <2>3. Ended(k + 1)
    BY <2>2
  <2> QED BY <2>3
<1>7. 0..count \subseteq G
  <2> HIDE DEF G
  <2> QED BY <1>1, <1>5, <1>6, UpTo
<1>8. ASSUME NEW i \in 1..rows, NEW j \in 1..c
      PROVE  end[Index(i, j) - 1] = StartOf(d, cols, i, j) /\ end[Index(i, j)] = EndOf(d, rows, cols, i, j)
  <2> DEFINE k == Index(i, j)
  <2>1. k \in 1..count
    BY <1>3
  <2> HIDE DEF Index
  <2>2. k - 1 \in 0..count /\ k \in 0..count /\ (k - 1) + 1 = k /\ k - 1 \in Nat
    BY <2>1, <1>1
  <2>3. Ended(k - 1) /\ Ended(k)
    BY <2>2, <1>7
  <2>4. end[k] = EndOf(d, rows, cols, i, j)
    BY <2>3
  <2>5. end[k - 1] = StartOf(d, cols, i, j)
    BY <2>2, <2>3, <1>4
  <2> QED BY <2>4, <2>5
<1> QED BY <1>8 DEF end


\* The elements that an array read at `d` takes, row by row.
Rounded(m, rows, cols) == [i \in 1..rows |-> [j \in 1..(cols + 1) |-> Printed(m[i][j])]]

LEMMA LoadArrayReads ==
  ASSUME NEW t, Len(t) \in Nat, NEW d \in Nat \ {0}, NEW m, NEW rows \in Nat \ {0}, NEW cols \in Nat,
         Lies(t, d, m, rows, cols)
  PROVE  LoadArray(t, d, rows, cols)
           = [ok |-> TRUE, next |-> d + rows * (2 * (cols + 1) + 1) + 2, m |-> Rounded(m, rows, cols)]
<1> DEFINE c == cols + 1
           wide == 2 * (cols + 1) + 1
           count == rows * c
           end == Ends(t, d, count)
           Element(k) == ValueOf(t, end[k - 1] + 1, end[k])
           read == [i \in 1..rows |-> [j \in 1..c |-> Element((i - 1) * c + j)]]
<1>1. rows \in 1..rows /\ c \in 1..c
  OBVIOUS
<1>2. \A i \in 1..rows : \A j \in 1..c :
        end[(i - 1) * c + j - 1] = StartOf(d, cols, i, j)
        /\ end[(i - 1) * c + j] = EndOf(d, rows, cols, i, j)
  BY EndsAre
<1> HIDE DEF end
<1>3. end[count] = d + rows * wide
  <2>1. (rows - 1) * c + c = count
    BY <1>1, IndexIs
  <2>2. end[(rows - 1) * c + c] = EndOf(d, rows, cols, rows, c)
    BY <1>1, <1>2
  <2> QED BY <2>1, <2>2 DEF EndOf
<1>4. ASSUME NEW i \in 1..rows, NEW j \in 1..c
      PROVE  Element((i - 1) * c + j) = Printed(m[i][j])
  <2>1. end[(i - 1) * c + j - 1] = StartOf(d, cols, i, j)
        /\ end[(i - 1) * c + j] = EndOf(d, rows, cols, i, j)
    BY <1>2
  <2>2. ValueOf(t, StartOf(d, cols, i, j) + 1, EndOf(d, rows, cols, i, j)) = Printed(m[i][j])
    BY ElementReads
  <2> QED BY <2>1, <2>2
<1> HIDE DEF Element
<1>5. read = Rounded(m, rows, cols)
  BY <1>4 DEF Rounded
<1>6. Complete(t, end[count])
  <2> DEFINE v == rows * wide
  <2>1. v \in Nat
    BY Products
  <2>2. t[d + v + 1] = Sign("semicolon") /\ d + v + 1 <= Len(t)
    BY DEF Lies
  <2>3. end[count] = d + v
    BY <1>3
  <2> HIDE DEF v
  <2> QED BY <2>1, <2>2, <2>3 DEF Complete, Sign
<1>7. LoadArray(t, d, rows, cols) = [ok |-> TRUE, next |-> end[count] + 2, m |-> read]
  BY <1>6 DEF LoadArray, end, Element
<1> HIDE DEF wide, count, read
<1> QED BY <1>3, <1>5, <1>7 DEF wide


LEMMA HeaderReads ==
  ASSUME NEW t, NEW w, NEW s \in SaveSizes, NEW opts, OneMade(t, w, s, opts)
  PROVE  /\ Len(t) \in Nat
         /\ NextOf(t, 1, {"line"}) = 2 /\ NextOf(t, 3, {"line"}) = 4 /\ NextOf(t, 5, {"line"}) = 6
         /\ ValueOf(t, 1, 2) = Printed(opts[1]) /\ ValueOf(t, 3, 4) = Printed(opts[2])
         /\ ValueOf(t, 5, 6) = opts[3]
<1>1. Len(t) \in Nat /\ Len(t) >= 6
  BY DEF OneMade
<1>2. /\ t[1] = Text(Printed(opts[1])) /\ t[2] = Line
      /\ t[3] = Text(Printed(opts[2])) /\ t[4] = Line
      /\ t[5] = Text(opts[3]) /\ t[6] = Line
  <2>1. \A p \in 1..6 : t[p] = OneHeader(opts)[p]
    BY DEF OneMade
  <2>2. 1 \in 1..6 /\ 2 \in 1..6 /\ 3 \in 1..6 /\ 4 \in 1..6 /\ 5 \in 1..6 /\ 6 \in 1..6
    OBVIOUS
  <2>3. /\ OneHeader(opts)[1] = Text(Printed(opts[1])) /\ OneHeader(opts)[2] = Line
        /\ OneHeader(opts)[3] = Text(Printed(opts[2])) /\ OneHeader(opts)[4] = Line
        /\ OneHeader(opts)[5] = Text(opts[3]) /\ OneHeader(opts)[6] = Line
    BY DEF OneHeader
  <2> QED BY <2>1, <2>2, <2>3
<1>3. /\ t[1].kind = "number" /\ t[1].value[1] = Printed(opts[1])
      /\ t[3].kind = "number" /\ t[3].value[1] = Printed(opts[2])
      /\ t[5].kind = "number" /\ t[5].value[1] = opts[3]
      /\ t[2].kind = "line" /\ t[4].kind = "line" /\ t[6].kind = "line"
  BY <1>2 DEF Text, Line, Sign
<1>4. ASSUME NEW p \in {1, 3, 5}
      PROVE  NextOf(t, p, {"line"}) = p + 1 /\ ValueOf(t, p, p + 1) = t[p].value[1]
  <2>1. p \in Nat /\ p + 1 \in Nat /\ p + 1 \in p..Len(t) /\ p \in p..((p + 1) - 1)
    BY <1>1
  <2>2. t[p].kind = "number" /\ t[p + 1].kind = "line"
    BY <1>3
  <2>3. \A r \in p..((p + 1) - 1) : t[r].kind \notin {"line"}
    BY <2>2
  <2>4. \A r \in p..(p - 1) : t[r].kind = "line"
    OBVIOUS
  <2>5. t[p + 1].kind \in {"line"}
    BY <2>2
  <2>6. NextOf(t, p, {"line"}) = p + 1
    BY <1>1, <2>1, <2>3, <2>5, NextOfFirst
  <2> QED BY <2>1, <2>2, <2>4, <2>6, ValueOfIs
<1>5. /\ NextOf(t, 1, {"line"}) = 1 + 1 /\ NextOf(t, 3, {"line"}) = 3 + 1 /\ NextOf(t, 5, {"line"}) = 5 + 1
      /\ ValueOf(t, 1, 1 + 1) = t[1].value[1] /\ ValueOf(t, 3, 3 + 1) = t[3].value[1]
      /\ ValueOf(t, 5, 5 + 1) = t[5].value[1]
  BY <1>4
<1>6. 1 + 1 = 2 /\ 3 + 1 = 4 /\ 5 + 1 = 6
  OBVIOUS
<1> QED BY <1>1, <1>3, <1>5, <1>6

LEMMA WholeOne ==
  ASSUME NEW w, NEW s \in SaveSizes, NEW opts
  PROVE  OneText(SaveOne(w, s, opts))
<1> DEFINE t == SaveOne(w, s, opts)
<1>1. OneMade(t, w, s, opts)
  BY SaveOneIs
<1> HIDE DEF t
<1>2. Len(t) \in Nat
  BY <1>1 DEF OneMade
<1>3. ASSUME NEW p \in 1..Len(t), t[p].kind = "array"
      PROVE  /\ t[p].value[1] # "FirstHiddenWeight" /\ t[p].value[2] \in Nat
             /\ t[p + 1].kind # "semicolon"
  <2>1. /\ t[p + 1].kind # "semicolon"
        /\ \/ t[p].value = <<"HiddenWeight", s.first, s.input>>
           \/ t[p].value = <<"OutputWeight", s.class, s.first>>
    <3>1. OneKind(t, w, s, p)
      BY <1>1, OneKinds
    <3> QED BY <3>1, <1>3 DEF OneKind
  <2>2. s.first \in Nat /\ s.class \in Nat
    BY DEF SaveSizes
  <2> QED BY <2>1, <2>2
<1> QED BY <1>2, <1>3 DEF OneText, t


\* The next array is the one behind `o`.
ReadsNext(t, p, o, name, m, rows, cols) ==
  LET n == Len(Array(name, m, rows, cols, cols))
  IN  /\ n \in Nat /\ NextOf(t, p, {"array"}) = o + 1
      /\ NextArray(t, p, name, rows, cols)
           = [ok |-> TRUE, next |-> o + n, m |-> Rounded(m, rows, cols)]

\* It is if nothing but the end of a line is before it.
LEMMA NextArrayReads ==
  ASSUME NEW t, Len(t) \in Nat, NEW o \in Nat, NEW p \in Nat \ {0},
         \/ p = o + 1
         \/ p = o /\ t[p].kind = "line",
         NEW name, NEW m, NEW rows \in Nat \ {0}, NEW cols \in Nat,
         Behind(t, o, Array(name, m, rows, cols, cols))
  PROVE  ReadsNext(t, p, o, name, m, rows, cols)
<1> DEFINE a == Array(name, m, rows, cols, cols)
           wide == 2 * (cols + 1) + 1
           d == o + 1
<1>1. Framed(a, name, rows, cols) /\ Placed(a, m, rows, cols)
  BY ArrayIs
<1>2. Lies(t, d, m, rows, cols)
  BY LiesIs
<1>3. LoadArray(t, d, rows, cols)
        = [ok |-> TRUE, next |-> d + rows * wide + 2, m |-> Rounded(m, rows, cols)]
  <2>1. d \in Nat \ {0}
    OBVIOUS
  <2> HIDE DEF d
  <2> QED BY <1>2, <2>1, LoadArrayReads
<1>4. Len(a) = rows * wide + 3 /\ rows * wide \in Nat
  BY <1>1, Products DEF Placed
<1>5. d + rows * wide + 2 = o + Len(a)
  <2> HIDE DEF a, wide
  <2>1. ASSUME NEW v, v = rows * wide PROVE v \in Nat => d + v + 2 = o + (v + 3)
    OBVIOUS
  <2> QED BY <1>4, <2>1
<1>6. d \in 1..Len(t) /\ t[d] = Declaration(name, rows, cols)
  <2>1. 1 \in 1..Len(a) /\ a[1] = Declaration(name, rows, cols)
    BY <1>1 DEF Framed
  <2> HIDE DEF a
  <2>2. o + 1 \in 1..Len(t) /\ t[o + 1] = a[1]
    BY <2>1 DEF Behind, a
  <2> QED BY <2>1, <2>2
<1>7. t[d].kind = "array" /\ t[d].value = <<name, rows, cols>>
  BY <1>6 DEF Declaration
<1>8. NextOf(t, p, {"array"}) = d
  <2>1. p \in Nat /\ d \in p..Len(t) /\ t[d].kind \in {"array"}
    BY <1>6, <1>7
  <2>2. \A r \in p..(d - 1) : t[r].kind \notin {"array"}
    OBVIOUS
  <2> QED BY <2>1, <2>2, NextOfFirst
<1>9. NextArray(t, p, name, rows, cols) = LoadArray(t, d, rows, cols)
  BY <1>7, <1>8 DEF NextArray
<1> HIDE DEF wide
<1> QED BY <1>1, <1>3, <1>5, <1>8, <1>9 DEF Framed, ReadsNext

\* What WeightLoad makes of a file of one hidden layer, read by its sizes.
LEMMA SavedOneLoads ==
  ASSUME NEW w, NEW s \in SaveSizes, s.first # 0, NEW opts, NEW activation
  PROVE  LET r == WeightLoad(SaveOne(w, s, opts), s.input, s.class, activation)
         IN  IF s.first <= MaxHidden /\ s.class # 0
             THEN r = Loaded("one", <<Printed(opts[1]), Printed(opts[2]), opts[3]>>, s.first, 0,
                             <<Rounded(w[1], s.first, s.input), Rounded(w[2], s.class, s.first)>>)
             ELSE r.kind = "failed"
<1> DEFINE t == SaveOne(w, s, opts)
           n1 == Len(HiddenArray(w, s))
           r == WeightLoad(t, s.input, s.class, activation)
           h == Rounded(w[1], s.first, s.input)
           o == Rounded(w[2], s.class, s.first)
           read == <<Printed(opts[1]), Printed(opts[2]), opts[3]>>
<1>1. OneMade(t, w, s, opts) /\ OneText(t)
  BY SaveOneIs, WholeOne
<1>2. s.first \in Nat \ {0} /\ s.input \in Nat /\ s.class \in Nat
  BY DEF SaveSizes
<1> HIDE DEF t
<1>3. /\ Len(t) \in Nat
      /\ NextOf(t, 1, {"line"}) = 2 /\ NextOf(t, 3, {"line"}) = 4 /\ NextOf(t, 5, {"line"}) = 6
      /\ ValueOf(t, 1, 2) = Printed(opts[1]) /\ ValueOf(t, 3, 4) = Printed(opts[2])
      /\ ValueOf(t, 5, 6) = opts[3]
  BY <1>1, HeaderReads
<1>4. /\ NextOf(t, 7, {"array"}) = 7
      /\ NextArray(t, 7, "HiddenWeight", s.first, s.input) = [ok |-> TRUE, next |-> 6 + n1, m |-> h]
      /\ n1 \in Nat
  <2>1. Behind(t, 6, Array("HiddenWeight", w[1], s.first, s.input, s.input))
    BY <1>1 DEF OneMade, HiddenArray
  <2>2. 7 \in Nat \ {0} /\ 6 \in Nat /\ 6 + 1 = 7
    OBVIOUS
  <2>3. ReadsNext(t, 7, 6, "HiddenWeight", w[1], s.first, s.input)
    BY <2>1, <2>2, <1>2, <1>3, NextArrayReads
  <2> QED BY <2>2, <2>3 DEF HiddenArray, ReadsNext
<1>5. t[7].value = <<"HiddenWeight", s.first, s.input>>
  <2>1. Framed(HiddenArray(w, s), "HiddenWeight", s.first, s.input)
    BY <1>2, ArrayIs DEF HiddenArray
  <2>2. 1 \in 1..n1 /\ HiddenArray(w, s)[1] = Declaration("HiddenWeight", s.first, s.input)
    BY <2>1 DEF Framed
  <2>3. t[6 + 1] = HiddenArray(w, s)[1]
    BY <2>2, <1>1 DEF OneMade, Behind
  <2> QED BY <2>2, <2>3 DEF Declaration
<1>6. r = LoadOneHiddenWeight(t, 7, s.input, s.class, read)
  <2>1. 2 # 0 /\ 4 # 0 /\ 6 # 0 /\ 7 # 0 /\ 2 + 1 = 3 /\ 4 + 1 = 5 /\ 6 + 1 = 7
    OBVIOUS
  <2>2. t[7].value[1] = "HiddenWeight"
    BY <1>5
  <2> HIDE DEF read
  <2> QED BY <2>1, <2>2, <1>3, <1>4 DEF WeightLoad, read
<1>7. CASE s.class = 0
  <2>1. ReadAsOne(r, t, s.input, s.class)
    BY <1>1, <1>2, ReadOne
  <2> HIDE DEF r
  <2>2. r.kind = "failed"
    BY <2>1, <1>7 DEF ReadAsOne
  <2> QED BY <2>2, <1>7 DEF r, t
<1>8. CASE s.first > MaxHidden
  <2>1. r = Loaded("failed", read, s.first, 0, <<>>)
    BY <1>2, <1>5, <1>6, <1>8, HiddenAssumption DEF LoadOneHiddenWeight, NoArray
  <2>2. r.kind = "failed"
    BY <2>1 DEF Loaded
  <2>3. ~(s.first <= MaxHidden)
    BY <1>2, <1>8, HiddenAssumption
  <2> QED BY <2>2, <2>3 DEF t
<1>9. CASE s.first <= MaxHidden /\ s.class # 0
  <2>1. NextArray(t, 6 + n1, "OutputWeight", s.class, s.first).ok
        /\ NextArray(t, 6 + n1, "OutputWeight", s.class, s.first).m = o
    <3>1. Behind(t, 6 + n1, Array("OutputWeight", w[2], s.class, s.first, s.first))
      BY <1>1 DEF OneMade, OutputArray
    <3>2. 6 + n1 \in Nat \ {0}
      BY <1>4
    <3>3. t[6 + n1].kind = "line"
      <4>1. Framed(HiddenArray(w, s), "HiddenWeight", s.first, s.input)
        BY <1>2, ArrayIs DEF HiddenArray
      <4>2. n1 \in 1..n1 /\ HiddenArray(w, s)[n1] = Line
        BY <4>1 DEF Framed
      <4>3. t[6 + n1] = HiddenArray(w, s)[n1]
        BY <4>2, <1>1 DEF OneMade, Behind
      <4> QED BY <4>2, <4>3 DEF Line, Sign
    <3>4. s.class \in Nat \ {0} /\ s.first \in Nat
      BY <1>2, <1>9
    <3> DEFINE q == 6 + n1
               a == NextArray(t, q, "OutputWeight", s.class, s.first)
    <3>5. \E e : a = [ok |-> TRUE, next |-> e, m |-> o]
      <4> HIDE DEF n1, q, o
      <4>1. Behind(t, q, Array("OutputWeight", w[2], s.class, s.first, s.first))
            /\ q \in Nat \ {0} /\ t[q].kind = "line"
        BY <3>1, <3>2, <3>3 DEF q
      <4>2. a = [ok |-> TRUE, next |-> q + Len(Array("OutputWeight", w[2], s.class, s.first, s.first)), m |-> o]
        <5>1. ReadsNext(t, q, q, "OutputWeight", w[2], s.class, s.first)
          BY <4>1, <3>4, <1>3, NextArrayReads
        <5> QED BY <5>1 DEF ReadsNext, o
      <4> QED BY <4>2
    <3> QED BY <3>5
  <2>2. r = Loaded("one", read, s.first, 0, <<h, o>>)
    <3> HIDE DEF r, h, o, n1, read
    <3> QED BY <2>1, <1>2, <1>4, <1>5, <1>6, <1>9 DEF LoadOneHiddenWeight
  <2> QED BY <2>2, <1>9 DEF t
<1> QED BY <1>2, <1>7, <1>8, <1>9, HiddenAssumption


LEMMA WholeTwo ==
  ASSUME NEW w, NEW s \in SaveSizes, NEW opts
  PROVE  TwoText(SaveTwo(w, s, opts))
<1> DEFINE t == SaveTwo(w, s, opts)
<1>1. TwoMade(t, w, s, opts)
  BY SaveTwoIs
<1> HIDE DEF t
<1>2. Len(t) \in Nat
  BY <1>1 DEF TwoMade
<1>3. \A p \in 1..Len(t) : p \in {1, 3} => t[p].kind # "line"
  BY <1>1, TwoKinds
<1>4. \A p \in 6..Len(t) : t[p].kind = "array" =>
        t[p].value[1] \notin {"HiddenWeight", "FirstHiddenWeight"}
  <2> TAKE p \in 6..Len(t)
  <2>1. p \in 1..Len(t) /\ p >= 6
    BY <1>2
  <2> QED BY <2>1, <1>1, TwoKinds
<1> QED BY <1>2, <1>3, <1>4 DEF TwoText, t

------------------------------------------------------------------------------
(* The weights.                                                            *)

\* A network that InitNNR, training or a load leaves.
IsNetwork(n) ==
  /\ n = [kind |-> n.kind, sizes |-> n.sizes, w |-> n.w]
  /\ n.kind \in {"one", "two"} /\ n.sizes \in SaveSizes
  /\ n.kind = "one" =>
       /\ n.sizes.first # 0
       /\ \E h, o : /\ n.w = <<h, o>>
                    /\ Shaped(h, n.sizes.first, n.sizes.input)
                    /\ Shaped(o, n.sizes.class, n.sizes.first)

\* A weight file that OnButtonWeightsave leaves.
IsWtf(f) ==
  /\ IsNetwork(f.net) /\ f.sizes \in SaveSizes
  /\ f.text = IF f.net.kind = "one" THEN SaveOne(f.net.w, f.sizes, f.options)
              ELSE SaveTwo(f.net.w, f.sizes, f.options)

WeightInv ==
  /\ counts.classes \in Nat /\ counts.input \in Nat
  /\ hidden.first \in Nat /\ hidden.second \in Nat /\ registry.first \in Nat
  /\ net # None => IsNetwork(net)
  /\ wtf # None => IsWtf(wtf)

LEMMA TrainedIs ==
  ASSUME NEW kind \in {"one", "two"}, NEW s \in SaveSizes, kind = "one" => s.first # 0, NEW detail
  PROVE  IsNetwork([kind |-> kind, sizes |-> s, w |-> Trained(kind, s, detail)])
<1> DEFINE n == [kind |-> kind, sizes |-> s, w |-> Trained(kind, s, detail)]
<1>1. n.kind = kind /\ n.sizes = s /\ n.w = Trained(kind, s, detail)
      /\ n = [kind |-> n.kind, sizes |-> n.sizes, w |-> n.w]
  OBVIOUS
<1>2. ASSUME kind = "one"
      PROVE  \E h, o : /\ Trained(kind, s, detail) = <<h, o>>
                       /\ Shaped(h, s.first, s.input) /\ Shaped(o, s.class, s.first)
  <2> DEFINE F(l, rows, cols) == [i \in 1..rows |-> [j \in 1..(cols + 1) |->
                                  1000 * l + 100 * i + 10 * j + detail]]
             h == F(1, s.first, s.input)
             o == F(2, s.class, s.first)
             dims == <<<<s.first, s.input>>, <<s.class, s.first>>>>
  <2>1. Layers(kind, s) = dims
    BY <1>2 DEF Layers
  <2>2. Len(dims) = 2 /\ dims[1][1] = s.first /\ dims[1][2] = s.input
        /\ dims[2][1] = s.class /\ dims[2][2] = s.first
    OBVIOUS
  <2>3. Trained(kind, s, detail)
          = [l \in 1..2 |-> F(l, dims[l][1], dims[l][2])]
    BY <2>1, <2>2 DEF Trained
  <2>4. Shaped(h, s.first, s.input) /\ Shaped(o, s.class, s.first)
    <3>1. ASSUME NEW l, NEW rows, NEW cols PROVE Shaped(F(l, rows, cols), rows, cols)
      <4> DEFINE g == F(l, rows, cols)
      <4>1. g = [i \in 1..rows |-> [j \in 1..(cols + 1) |-> g[i][j]]]
        OBVIOUS
      <4> SUFFICES Shaped(g, rows, cols)
        OBVIOUS
      <4> HIDE DEF g
      <4> QED BY <4>1 DEF Shaped
    <3> HIDE DEF F
    <3> QED BY <3>1
  <2> HIDE DEF F, dims
  <2>5. [l \in 1..2 |-> F(l, dims[l][1], dims[l][2])] = <<h, o>>
    BY <2>2
  <2> HIDE DEF h, o
  <2> QED BY <2>3, <2>4, <2>5
<1> HIDE DEF n
<1> QED BY <1>1, <1>2 DEF IsNetwork, n

\* What a load makes of any file that was saved.
LEMMA SavedIsRead ==
  ASSUME NEW f, IsWtf(f), NEW input \in Nat, NEW class \in Nat, NEW activation
  PROVE  LET r == WeightLoad(f.text, input, class, activation)
             sizes == [input |-> input, class |-> class, first |-> r.first, second |-> r.second]
         IN  /\ r.first \in Nat /\ r.second \in Nat
             /\ r.kind # "failed" => IsNetwork([kind |-> r.kind, sizes |-> sizes, w |-> r.w])
<1> DEFINE r == WeightLoad(f.text, input, class, activation)
           sizes == [input |-> input, class |-> class, first |-> r.first, second |-> r.second]
           n == [kind |-> r.kind, sizes |-> sizes, w |-> r.w]
<1>1. IsNetwork(f.net) /\ f.sizes \in SaveSizes /\ f.net.kind \in {"one", "two"}
  BY DEF IsWtf, IsNetwork
<1>2. CASE f.net.kind = "one"
  <2>1. OneText(f.text)
    BY <1>1, <1>2, WholeOne DEF IsWtf
  <2>2. ReadAsOne(r, f.text, input, class)
    BY <2>1, ReadOne
  <2> HIDE DEF r
  <2>3. r.kind \in {"one", "failed"} /\ r.first \in Nat /\ r.second \in Nat
    BY <2>2 DEF ReadAsOne
  <2>4. ASSUME r.kind # "failed" PROVE IsNetwork(n)
    <3>1. r.kind = "one" /\ r.first # 0
          /\ \E h, o : r.w = <<h, o>> /\ Shaped(h, r.first, input) /\ Shaped(o, class, r.first)
      BY <2>2, <2>4 DEF ReadAsOne
    <3>2. n.kind = "one" /\ n.sizes = sizes /\ n.w = r.w
          /\ n = [kind |-> n.kind, sizes |-> n.sizes, w |-> n.w]
      BY <3>1
    <3>3. sizes \in SaveSizes /\ sizes.first = r.first /\ sizes.input = input /\ sizes.class = class
      BY <2>3 DEF SaveSizes
    <3> HIDE DEF n, sizes
    <3> QED BY <3>1, <3>2, <3>3 DEF IsNetwork
  <2> QED BY <2>3, <2>4 DEF r
<1>3. CASE f.net.kind = "two"
  <2>1. TwoText(f.text)
    BY <1>1, <1>3, WholeTwo DEF IsWtf
  <2>2. r.kind = "failed" /\ r.first = 0 /\ r.second = 0
    BY <2>1, ReadTwo
  <2> HIDE DEF r
  <2>3. r.kind = "failed" /\ r.first \in Nat /\ r.second \in Nat
    BY <2>2
  <2> QED BY <2>3 DEF r
<1> QED BY <1>1, <1>2, <1>3


LEMMA WeightInvInit == Init => WeightInv
BY DEF Init, WeightInv, NoCounts

LEMMA WeightInvStep == SampleInv /\ WeightInv /\ [Next]_vars => WeightInv'
<1> SUFFICES ASSUME SampleInv, WeightInv, [Next]_vars PROVE WeightInv'
  OBVIOUS
<1>1. /\ counts.classes \in Nat /\ counts.input \in Nat
      /\ hidden.first \in Nat /\ hidden.second \in Nat /\ registry.first \in Nat
      /\ net # None => IsNetwork(net)
      /\ wtf # None => IsWtf(wtf)
  BY DEF WeightInv
<1>2. \A h : h.first \in Nat /\ h.second \in Nat => SizesWith(h) \in SaveSizes
  BY <1>1 DEF SizesWith, SaveSizes
<1>3. CASE Restart
  BY <1>1, <1>3 DEF Restart, WeightInv, NoCounts
<1>4. CASE OnButtonPathSelect
  BY <1>1, <1>4 DEF OnButtonPathSelect, Register, WeightInv, samples, weights
<1>5. CASE OnBnClickedButtonFind
  BY <1>1, <1>5 DEF OnBnClickedButtonFind, WeightInv, samples, weights
<1>6. CASE OnButtonMakeNtf
  BY <1>1, <1>6 DEF OnButtonMakeNtf, WeightInv, weights
<1>7. CASE LoadTrainData
  <2>1. ntf # None /\ counts' = Counts(ntf.bytes) /\ UNCHANGED <<registry, options, hidden, net, flag, wtf>>
    BY <1>7 DEF LoadTrainData, weights
  <2>2. IsNtf(ntf)
    BY <2>1 DEF SampleInv
  <2>3. counts'.classes = Named(ntf.folder, ntf.groups, ntf.expected) /\ counts'.input = ntf.expected
    <3>1. Counts(ntf.bytes) = [classes |-> Named(ntf.folder, ntf.groups, ntf.expected),
                               groups |-> ntf.groups, input |-> ntf.expected]
      BY <2>2, CountsOfNtf
    <3> QED BY <2>1, <3>1
  <2>4. /\ ntf.folder \in AllFolders /\ ntf.groups \in 1..(TwoBytes - 1)
        /\ ntf.expected \in 0..(TwoBytes - 1)
    BY <2>2, NtfIs
  <2>5. Named(ntf.folder, ntf.groups, ntf.expected) \in Nat
    BY <2>4, NamedIs, FolderIs DEF NamedAs
  <2> QED BY <1>1, <2>1, <2>3, <2>4, <2>5 DEF WeightInv
<1>8. CASE OnRadio
  BY <1>1, <1>8 DEF OnRadio, WeightInv, samples
<1>9. CASE InitNNR
  <2>1. /\ hidden' \in HiddenCounts \cup {hidden}
        /\ registry' = [folder |-> folder', first |-> hidden'.first]
        /\ UNCHANGED <<counts, wtf>>
    BY <1>9 DEF InitNNR, Register, samples
  <2>2. hidden'.first \in Nat /\ hidden'.second \in Nat
    BY <2>1, <1>1, InputsAssumption
  <2>3. PICK kind \in {"one", "two"}, detail \in Details :
          IF flag
          THEN /\ net # None /\ net.kind = kind
               /\ net' = [net EXCEPT !.w = Trained(kind, net.sizes, detail)]
          ELSE /\ hidden'.first # 0
               /\ net' = [kind |-> kind, sizes |-> SizesWith(hidden'),
                          w |-> Trained(kind, SizesWith(hidden'), detail)]
    BY <1>9 DEF InitNNR
  <2>4. IsNetwork(net')
    <3>1. CASE flag
      <4>1. IsNetwork(net) /\ net.kind = kind
        BY <3>1, <2>3, <1>1
      <4>2. /\ net = [kind |-> kind, sizes |-> net.sizes, w |-> net.w] /\ net.sizes \in SaveSizes
            /\ kind = "one" => net.sizes.first # 0
        BY <4>1 DEF IsNetwork
      <4>3. net' = [kind |-> kind, sizes |-> net.sizes, w |-> Trained(kind, net.sizes, detail)]
        BY <4>2, <3>1, <2>3
      <4> QED BY <4>2, <4>3, TrainedIs
    <3>2. CASE ~flag
      <4>1. SizesWith(hidden') \in SaveSizes
        <5>1. SizesWith(hidden') = [input |-> counts.input, class |-> counts.classes,
                                    first |-> hidden'.first, second |-> hidden'.second]
          BY DEF SizesWith
        <5> QED BY <5>1, <2>2, <1>1 DEF SaveSizes
      <4>2. SizesWith(hidden').first # 0
        BY <3>2, <2>3 DEF SizesWith
      <4>3. net' = [kind |-> kind, sizes |-> SizesWith(hidden'),
                    w |-> Trained(kind, SizesWith(hidden'), detail)]
        BY <3>2, <2>3
      <4> QED BY <4>1, <4>2, <4>3, TrainedIs
    <3> QED BY <3>1, <3>2
  <2> QED BY <1>1, <2>1, <2>2, <2>4 DEF WeightInv
<1>10. CASE OnButtonWeightsave
  <2>1. /\ net # None
        /\ wtf' = [text |-> IF net.kind = "one" THEN SaveOne(net.w, Sizes, options)
                            ELSE SaveTwo(net.w, Sizes, options),
                   net |-> net, sizes |-> Sizes, options |-> options]
        /\ UNCHANGED <<counts, registry, hidden, net>>
    BY <1>10 DEF OnButtonWeightsave, samples
  <2>2. Sizes \in SaveSizes
    BY <1>1, <1>2 DEF Sizes
  <2>3. IsWtf(wtf')
    BY <1>1, <2>1, <2>2 DEF IsWtf
  <2> QED BY <1>1, <2>1, <2>3 DEF WeightInv
<1>11. CASE OnButtonWeighthoad
  <2>1. UNCHANGED <<counts, registry, wtf>>
    BY <1>11 DEF OnButtonWeighthoad, samples
  <2>2. PICK r : /\ hidden' = [first |-> r.first, second |-> r.second]
                 /\ net' = IF r.kind = "failed" THEN None
                           ELSE [kind |-> r.kind, sizes |-> SizesWith(hidden'), w |-> r.w]
                 /\ \/ r = Loaded("failed", <<0, 0, options[3]>>, 0, 0, <<>>)
                    \/ wtf # None /\ r = WeightLoad(wtf.text, counts.input, counts.classes, options[3])
    BY <1>11 DEF OnButtonWeighthoad
  <2>3. SizesWith(hidden') = [input |-> counts.input, class |-> counts.classes,
                              first |-> r.first, second |-> r.second]
    BY <2>1, <2>2 DEF SizesWith
  <2>4. /\ r.first \in Nat /\ r.second \in Nat
        /\ net' # None => IsNetwork(net')
    <3>1. CASE r = Loaded("failed", <<0, 0, options[3]>>, 0, 0, <<>>)
      BY <3>1, <2>2 DEF Loaded
    <3>2. CASE wtf # None /\ r = WeightLoad(wtf.text, counts.input, counts.classes, options[3])
      <4>1. IsWtf(wtf)
        BY <3>2, <1>1
      <4>2. /\ r.first \in Nat /\ r.second \in Nat
            /\ r.kind # "failed" =>
                 IsNetwork([kind |-> r.kind, sizes |-> SizesWith(hidden'), w |-> r.w])
        BY <4>1, <3>2, <2>3, <1>1, SavedIsRead
      <4> QED BY <4>2, <2>2
    <3> QED BY <3>1, <3>2, <2>2
  <2> QED BY <1>1, <2>1, <2>2, <2>4 DEF WeightInv
<1>12. CASE UNCHANGED vars
  BY <1>1, <1>12 DEF vars, WeightInv, samples, weights
<1> QED BY <1>3, <1>4, <1>5, <1>6, <1>7, <1>8, <1>9, <1>10, <1>11, <1>12 DEF Next

LEMMA WeightInvHolds == Spec => []WeightInv
<1>1. SampleInv /\ WeightInv /\ [Next]_vars => WeightInv'
  BY WeightInvStep
<1> QED BY <1>1, WeightInvInit, SampleInvHolds, PTL DEF Spec


LEMMA RoundedIs ==
  ASSUME NEW h, NEW o, NEW first \in Nat, NEW input \in Nat, NEW class \in Nat,
         Shaped(h, first, input), Shaped(o, class, first)
  PROVE  RoundedWeights(<<h, o>>) = <<Rounded(h, first, input), Rounded(o, class, first)>>
<1> DEFINE Of(m) == [i \in DOMAIN m |-> [j \in DOMAIN m[i] |-> Printed(m[i][j])]]
<1>1. ASSUME NEW m, NEW rows \in Nat, NEW cols \in Nat, Shaped(m, rows, cols)
      PROVE  Of(m) = Rounded(m, rows, cols)
  <2>1. PICK f : m = [i \in 1..rows |-> [j \in 1..(cols + 1) |-> f[i][j]]]
    BY <1>1 DEF Shaped
  <2>2. DOMAIN m = 1..rows /\ \A i \in 1..rows : DOMAIN m[i] = 1..(cols + 1)
    BY <2>1
  <2> QED BY <2>2 DEF Rounded
<1>2. Of(h) = Rounded(h, first, input) /\ Of(o) = Rounded(o, class, first)
  <2> HIDE DEF Of
  <2> QED BY <1>1
<1>3. RoundedWeights(<<h, o>>) = [l \in 1..2 |-> Of(<<h, o>>[l])]
  <2>1. DOMAIN <<h, o>> = 1..2
    OBVIOUS
  <2> QED BY <2>1 DEF RoundedWeights
<1> HIDE DEF Of
<1>4. [l \in 1..2 |-> Of(<<h, o>>[l])] = <<Of(h), Of(o)>>
  OBVIOUS
<1> QED BY <1>2, <1>3, <1>4

\* The weights of one hidden layer come back from a file saved by their sizes,
\* every one in its place and as %f has printed it, with the hidden count and
\* the options, and what the reader does not allow is refused
\* (OneHiddenWeightSave, WeightLoad, LoadOneHiddenWeight).
THEOREM OneHiddenRestoredHolds == Spec => []OneHiddenRestored
<1>1. WeightInv => OneHiddenRestored
  <2> SUFFICES ASSUME WeightInv, Faithful, wtf.net.kind = "one"
               PROVE  LET r == WeightLoad(wtf.text, wtf.sizes.input, wtf.sizes.class, 0)
                      IN  IF wtf.sizes.first <= MaxHidden /\ wtf.sizes.class # 0
                          THEN /\ r.kind = "one" /\ r.first = wtf.sizes.first
                               /\ r.w = RoundedWeights(wtf.net.w)
                               /\ r.options = <<Printed(wtf.options[1]), Printed(wtf.options[2]), wtf.options[3]>>
                          ELSE r.kind = "failed"
    BY DEF OneHiddenRestored
  <2> DEFINE s == wtf.sizes
             w == wtf.net.w
             r == WeightLoad(wtf.text, s.input, s.class, 0)
             read == <<Printed(wtf.options[1]), Printed(wtf.options[2]), wtf.options[3]>>
  <2>1. IsWtf(wtf) /\ s = wtf.net.sizes
    BY DEF WeightInv, Faithful
  <2>2. s \in SaveSizes /\ wtf.text = SaveOne(w, s, wtf.options) /\ IsNetwork(wtf.net)
    BY <2>1 DEF IsWtf
  <2>3. s.first # 0 /\ \E h, o : w = <<h, o>> /\ Shaped(h, s.first, s.input) /\ Shaped(o, s.class, s.first)
    BY <2>1, <2>2 DEF IsNetwork
  <2>4. s.first \in Nat /\ s.input \in Nat /\ s.class \in Nat
    BY <2>2 DEF SaveSizes
  <2>5. PICK h, o : w = <<h, o>> /\ Shaped(h, s.first, s.input) /\ Shaped(o, s.class, s.first)
    BY <2>3
  <2>6. RoundedWeights(w) = <<Rounded(w[1], s.first, s.input), Rounded(w[2], s.class, s.first)>>
    BY <2>4, <2>5, RoundedIs
  <2> HIDE DEF s, w
  <2>7. IF s.first <= MaxHidden /\ s.class # 0
        THEN r = Loaded("one", read, s.first, 0,
                        <<Rounded(w[1], s.first, s.input), Rounded(w[2], s.class, s.first)>>)
        ELSE r.kind = "failed"
    BY <2>2, <2>3, SavedOneLoads
  <2> HIDE DEF r, read
  <2>8. IF s.first <= MaxHidden /\ s.class # 0
        THEN r.kind = "one" /\ r.first = s.first /\ r.w = RoundedWeights(w) /\ r.options = read
        ELSE r.kind = "failed"
    BY <2>6, <2>7 DEF Loaded
  <2> QED BY <2>8 DEF r, read, s, w
<1> QED BY <1>1, WeightInvHolds, PTL

LEMMA PrefixIsRefused ==
  ASSUME NEW f, IsWtf(f), NEW n \in 0..(Len(f.text) - 2)
  PROVE  WeightLoad(SubSeq(f.text, 1, n), f.sizes.input, f.sizes.class, 0).kind = "failed"
<1> DEFINE x == SubSeq(f.text, 1, n)
           r == WeightLoad(x, f.sizes.input, f.sizes.class, 0)
<1>1. /\ f.sizes \in SaveSizes /\ f.net.kind \in {"one", "two"}
      /\ f.sizes.input \in Nat /\ f.sizes.class \in Nat
  BY DEF IsWtf, IsNetwork, SaveSizes
<1>2. CASE f.net.kind = "one"
  <2>1. f.text = SaveOne(f.net.w, f.sizes, f.options)
    BY <1>2 DEF IsWtf
  <2>2. Len(f.text) \in Nat
    BY <2>1, <1>1, SaveOneIs DEF OneMade
  <2>3. n \in 0..Len(f.text) /\ n <= Len(f.text) - 2
    BY <2>2
  <2>4. /\ OneText(x)
        /\ \A p, q \in 1..Len(x) : x[p].kind = "semicolon" /\ x[q].kind = "semicolon" => p = q
    BY <2>1, <2>3, <1>1, OnePrefix
  <2> HIDE DEF x
  <2>5. ReadAsOne(r, x, f.sizes.input, f.sizes.class)
    BY <2>4, <1>1, ReadOne
  <2> HIDE DEF r
  <2>6. r.kind = "failed"
    BY <2>4, <2>5 DEF ReadAsOne
  <2> QED BY <2>6 DEF r, x
<1>3. CASE f.net.kind = "two"
  <2>1. f.text = SaveTwo(f.net.w, f.sizes, f.options)
    BY <1>3 DEF IsWtf
  <2>2. Len(f.text) \in Nat
    BY <2>1, <1>1, SaveTwoIs DEF TwoMade
  <2>3. n \in 0..Len(f.text)
    BY <2>2
  <2>4. TwoText(x)
    BY <2>1, <2>3, <1>1, TwoPrefix
  <2> HIDE DEF x
  <2>5. r.kind = "failed"
    BY <2>4, ReadTwo
  <2> QED BY <2>5 DEF x
<1> QED BY <1>1, <1>2, <1>3

\* A weight file that ends early, up to its last two items, is refused by the
\* checks of nCount_Tile and of the semicolon in the loaders.
THEOREM TruncatedRefusedHolds == Spec => []TruncatedRefused
<1>1. WeightInv => TruncatedRefused
  BY PrefixIsRefused DEF WeightInv, TruncatedRefused
<1> QED BY <1>1, WeightInvHolds, PTL

\* Weights of two hidden layers are lost: whatever the sizes they were saved by
\* and are read by, WeightLoad takes the declaration of the first layer for
\* the third line of the header, and refuses the file.
TwoHiddenRefused ==
  (wtf # None /\ wtf.net.kind = "two") =>
    \A input, class \in Nat : \A activation :
      WeightLoad(wtf.text, input, class, activation).kind = "failed"

\* This is how SavedWeightsReload fails: for two hidden layers nothing that can
\* be saved reloads (TwoHiddenWeightSave, WeightLoad).
THEOREM TwoHiddenNeverReloads == Spec => []TwoHiddenRefused
<1>1. WeightInv => TwoHiddenRefused
  <2> SUFFICES ASSUME WeightInv, wtf # None, wtf.net.kind = "two",
                      NEW input \in Nat, NEW class \in Nat, NEW activation
               PROVE  WeightLoad(wtf.text, input, class, activation).kind = "failed"
    BY DEF TwoHiddenRefused
  <2>1. IsWtf(wtf)
    BY DEF WeightInv
  <2>2. wtf.sizes \in SaveSizes /\ wtf.text = SaveTwo(wtf.net.w, wtf.sizes, wtf.options)
    BY <2>1 DEF IsWtf
  <2>3. TwoText(wtf.text)
    BY <2>2, WholeTwo
  <2> QED BY <2>3, ReadTwo
<1> QED BY <1>1, WeightInvHolds, PTL
=============================================================================
