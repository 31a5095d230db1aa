----------------------------- MODULE WeightFile -----------------------------
(***************************************************************************)
(* The weight file of the NNR tool (.wtf): what OneHiddenWeightSave and    *)
(* TwoHiddenWeightSave write, and what WeightLoad and the two loaders it   *)
(* hands over to read.                                                     *)
(*                                                                         *)
(* The file is C source text: a header of one number per line, then an     *)
(* array per layer.  Its characters are grouped to items: a printed        *)
(* number, the end of a line, a declaration up to its opening brace, and   *)
(* the signs between and after the elements.  The readers look for the     *)
(* next newline, the next `c`, and the next comma or closing brace.        *)
(* Weights are counted in tenths of the last decimal that %f prints.       *)
(***************************************************************************)
EXTENDS Integers, Sequences, SequencesExt, FiniteSetsExt

CONSTANT MaxHidden  \* the bound of 200 hidden nodes

ASSUME HiddenAssumption == MaxHidden \in Nat \ {0}

Sign(kind) == [kind |-> kind, value |-> <<>>]
Text(n) == [kind |-> "number", value |-> <<n>>]
Declaration(name, rows, cols) == [kind |-> "array", value |-> <<name, rows, cols>>]
Line == Sign("line")

\* %f keeps six decimals.
Printed(w) == 10 * ((w + 5) \div 10)

\* One array: `cols` inputs and the bias in each row.  The comma after the
\* element `last` (from 0) of the last row is left out.
Array(name, m, rows, cols, last) ==
  LET Element(i, j) == IF i = rows /\ j = last + 1 THEN <<Text(Printed(m[i][j]))>>
                       ELSE <<Text(Printed(m[i][j])), Sign("comma")>>
      Row(i) == FlattenSeq([j \in 1..(cols + 1) |-> Element(i, j)]) \o <<Line>>
  IN  <<Declaration(name, rows, cols)>> \o FlattenSeq([i \in 1..rows |-> Row(i)])
      \o <<Sign("close"), Sign("semicolon"), Line>>

\* A network: the sizes of its layers, and for each layer its weights by node
\* and input.  The sizes a file is written and read by are those of the edit
\* boxes, `s`.  `options` are m_Edit_ETA, m_Edit_Momentum, m_SelectActivation.

\* OneHiddenWeightSave.
SaveOne(w, s, options) ==
  <<Text(Printed(options[1])), Line, Text(Printed(options[2])), Line, Text(options[3]), Line>>
  \o Array("HiddenWeight", w[1], s.first, s.input, s.input)
  \o Array("OutputWeight", w[2], s.class, s.first, s.first)

\* TwoHiddenWeightSave: no activation in the header, and the comma of the
\* first layer is left out by the number of classes.
SaveTwo(w, s, options) ==
  <<Text(Printed(options[1])), Line, Text(Printed(options[2])), Line>>
  \o Array("FirstHiddenWeight", w[1], s.first, s.input, s.class)
  \o Array("SecondHiddenWeight", w[2], s.second, s.first, s.first)
  \o Array("OutputWeight", w[3], s.class, s.second, s.second)

------------------------------------------------------------------------------
(* Reading.                                                                *)

\* The first position from `p` on of an item of one of the kinds, or 0.
NextOf(text, p, kinds) ==
  LET at == {q \in p..Len(text) : text[q].kind \in kinds}
  IN  IF at = {} THEN 0 ELSE Min(at)

\* atof and atoi of the characters from p to q - 1: the number they begin
\* with, after white space, or zero.
ValueOf(text, p, q) ==
  LET begins == {i \in p..(q - 1) : text[i].kind # "line"}
  IN  IF begins # {} /\ text[Min(begins)].kind = "number" THEN text[Min(begins)].value[1] ELSE 0

\* Faulty variant: a closing brace does not end an element.
EndsAtComma(text, d, count) ==
  LET end[k \in 0..count] ==
        IF k = 0 THEN d
        ELSE LET last == end[k - 1]
             IN  IF last = 0 THEN 0 ELSE NextOf(text, last + 1, {"comma"})
  IN  end

\* Where the first `count` elements of the array declared at `d` end: each at
\* the next comma or closing brace, after the array if need be; 0 if there is
\* none.
Ends(text, d, count) ==
  LET end[k \in 0..count] ==
        IF k = 0 THEN d
        ELSE LET last == end[k - 1]
             IN  IF last = 0 THEN 0 ELSE NextOf(text, last + 1, {"comma", "close"})
  IN  end

\* Faulty variant: what follows is not looked at.
CompleteAnyEnd(text, end) == end # 0

\* The last element ends, and a semicolon follows; else a failed load is
\* reported.
Complete(text, end) ==
  end # 0 /\ end < Len(text) /\ text[end + 1].kind = "semicolon"

NoArray == [ok |-> FALSE, next |-> 0, m |-> <<>>]

\* The elements read for the sizes `rows` and `cols`.
LoadArray(text, d, rows, cols) ==
  LET count == rows * (cols + 1)
      ends == Ends(text, d, count)
      Element(k) == ValueOf(text, ends[k - 1] + 1, ends[k])
  IN  IF Complete(text, ends[count])
      THEN [ok |-> TRUE, next |-> ends[count] + 2,
            m |-> [i \in 1..rows |-> [j \in 1..(cols + 1) |->
                     Element((i - 1) * (cols + 1) + j)]]]
      ELSE NoArray

\* The next array from `p` on, if it is the one expected, with these sizes.
NextArray(text, p, name, rows, cols) ==
  LET d == NextOf(text, p, {"array"})
  IN  IF p = 0 \/ d = 0 THEN NoArray
      ELSE IF text[d].value = <<name, rows, cols>> THEN LoadArray(text, d, rows, cols)
      ELSE NoArray

\* What a load leaves: the header's options, the hidden counts it has put into
\* the boxes, and, if it completes, the layers it builds a network with.
Loaded(kind, options, first, second, w) ==
  [kind |-> kind, options |-> options, first |-> first, second |-> second, w |-> w]

\* LoadOneHiddenWeight, from the declaration at `d` on.
LoadOneHiddenWeight(text, d, input, class, options) ==
  LET first == text[d].value[2]
      hidden == IF first <= MaxHidden
                THEN NextArray(text, d, "HiddenWeight", first, input) ELSE NoArray
      output == NextArray(text, hidden.next, "OutputWeight", class, first)
  IN  IF hidden.ok /\ output.ok
      THEN Loaded("one", options, first, 0, <<hidden.m, output.m>>)
      ELSE Loaded("failed", options, first, 0, <<>>)

\* LoadTwoHiddenWeight.  The second hidden count is the one the file declares.
LoadTwoHiddenWeight(text, d, input, class, options) ==
  LET first == text[d].value[2]
      hidden == IF first <= MaxHidden
                THEN NextArray(text, d, "FirstHiddenWeight", first, input) ELSE NoArray
      e == IF hidden.ok THEN NextOf(text, hidden.next, {"array"}) ELSE 0
      second == IF e # 0 /\ text[e].value[1] = "SecondHiddenWeight" THEN text[e].value[2] ELSE 0
      middle == IF second \in 1..MaxHidden
                THEN NextArray(text, e, "SecondHiddenWeight", second, first) ELSE NoArray
      output == NextArray(text, middle.next, "OutputWeight", class, second)
  IN  IF hidden.ok /\ middle.ok /\ output.ok
      THEN Loaded("two", options, first, second, <<hidden.m, middle.m, output.m>>)
      ELSE Loaded("failed", options, first, second, <<>>)

\* WeightLoad: three lines of header, whatever they hold, and the name in the
\* declaration that comes next tells which loader goes on.  OnButtonWeighthoad
\* has reset the first two options; the third, `activation`, was kept.
WeightLoad(text, input, class, activation) ==
  LET l1 == NextOf(text, 1, {"line"})
      l2 == IF l1 = 0 THEN 0 ELSE NextOf(text, l1 + 1, {"line"})
      l3 == IF l2 = 0 THEN 0 ELSE NextOf(text, l2 + 1, {"line"})
      d == IF l3 = 0 THEN 0 ELSE NextOf(text, l3 + 1, {"array"})
      options == <<IF l1 = 0 THEN 0 ELSE ValueOf(text, 1, l1),
                   IF l2 = 0 THEN 0 ELSE ValueOf(text, l1 + 1, l2),
                   IF l3 = 0 THEN activation ELSE ValueOf(text, l2 + 1, l3)>>
      name == IF d = 0 THEN "none" ELSE text[d].value[1]
  IN  CASE name = "HiddenWeight" -> LoadOneHiddenWeight(text, d, input, class, options)
        [] name = "FirstHiddenWeight" -> LoadTwoHiddenWeight(text, d, input, class, options)
        [] OTHER -> Loaded("failed", options, 0, 0, <<>>)
=============================================================================
