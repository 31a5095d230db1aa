# NoteBuilder in TLA+

NoteBuilder is a set of Windows (MFC) tools around banknote and number-plate
images: the frame program NoteBuilderFrame (project STCurrencyStudio), which shows
images, takes debug dumps from other programs and looks for number plates; NNR-150,
which trains neural networks for recognising digits; and two small tools, gcodesum
and makeline. This directory holds TLA+ models of the parts that keep state or
decide something, the TLC runs that check them, and proofs checked by TLAPS.

`tlc -config X.cfg M` checks a run, `tlapm M.tla` a proof; PROJECT.json lists the
runs, what each definition models, line by line, and the theorems.

## Inventory

### Debug dump channel (`WinDebug.cpp`, `MainFrm.cpp` OnOcr)

*State*: a named pipe; a ring of 16 pointers and lengths (`DebugIPCPtr`,
`DebugIPCLen`) with `DebugIPCHead` and `DebugIPCTail`; heap blocks; commands posted
to the frame's window.
*Operations*: the worker thread `WinDebugWait` takes one client after the other,
copies its dump into a block, puts the block into the ring, posts `ID_DEBUG_IPC` and
answers. The GUI thread's `OnOcr` drains the ring with `GetDebugIPCPtr` and frees
every block.
*Hard*: two threads share the ring without a lock; the result of PostMessage is
ignored; the head is advanced without comparing it with the tail; the window may be
closed at any time; a client may come early, late, or never write.
*Correct means*: no dump lost, mixed up, leaked or freed twice; no wake-up missed;
each dump handled and each client answered.

### Training session (`NNRView.cpp`)

*State*: `m_ActiveFlag`, `m_WeightLoadFlag`, `m_SelectLayer`, two network pointers,
the samples with their sizes, the edit boxes and the members behind them,
`m_GroupNum`, two timers, two buttons.
*Operations*: Run, Stop, load samples, load and save weights, convert to iq, the edit
boxes, and `OnTimer`, which trains one epoch (one hidden layer) or one sample group
(two).
*Hard*: every message box and file dialog runs the message loop, so a live timer
re-enters `OnTimer` in the middle of another handler, even of itself; flags, timers
and buttons are reset on many different paths.
*Correct means*: one training at a time, Stop stops, networks are neither leaked nor
used when absent, the sizes in use are those of the samples, and the flags say what
their comments say.

### Networks (`NeuralOneHidden.cpp`, `NeuralTwoHidden.cpp`)

*State*: weights, a ring of the last weight changes (momentum), the largest error.
*Operations*: create, load, train on a group of samples, destroy.
*Hard*: the order of one layer is drawn by rejection; the ring's index and its reset; the
errors are summed in members that edit boxes are read back into.
*Correct means*: every sample is used once in an epoch, the ring holds the last changes,
a report is of the epoch it is made for.

### Sample and weight files (`NNRView.cpp`)

*State*: a sample file made from a folder of classes, a weight file that is C source
text, the registry, and in memory the counts, the samples and the class names.
*Operations*: select a folder, find, make and load samples, save and load weights,
restart.
*Hard*: writers and readers agree by position only; a file given up half way has the same
end as a complete one; missing samples are filled up; counts of one folder meet the files
of another.
*Correct means*: what was written can be read, is the same, and a part of it is refused.

### Plate detection (`CarNumDetect.cpp`)

`GetNumberArea` blurs and edge-detects an image with one parameter after the other;
`LabelEdges` labels the edges by a flood fill and `RearrangeBlob` measures them;
`GetPlateRectFromEdges` picks four digits; the HDS variant looks for a box of lines
and falls back on the digits.
*State*: `m_EdgeTable`, `tmp_blob`, `found_arr`, `sv_found_arr`, all kept from one call
to the next.
*Hard*: the nested searches with results carried outwards in one variable, limits of
tables, results that are stale or -1 when a caller reads them.
*Correct means*: a line is one connected piece and its box bounds it, the tables never
overflow, every plate that passes the conditions is found, and a caller that is told of
success can use the result.

### Tests over a tree (`ICUMANView.cpp`)

*State*: the folders with images and result files, the detector's image, two counters.
*Operations*: test a file, test every file below a folder, change options.
*Hard*: the results are written into the folder being walked, so a result file is an
input of the run that writes it and of every later one; a file that is no image leaves
the detector the image before.
*Correct means*: every image is tested once and as itself, the totals are those of the
lines, and earlier results are kept.

### Everything else

The image view also keeps the selected image and draws. The panes (files, output,
properties, scrolling) are widgets. `Setting.cpp` and the registry code read and write
single values. `CCodeParser` and `CTokenizer` are compiled but used only by files that
are not. The ST150*, Currency*, OCR*, Region*, MakeRefData* and Recognize* files are no
longer in the project. libjpeg, libtiff, jsoncpp, IQmath and OpenCV are third-party.
gcodesum measures the extents of a G-code file; makeline adds noise to an image.

### How they interact

The frame starts the dump worker, which talks to the GUI thread through the ring and
posted commands only. The view owns the plate detector, calls it and reads its tables
directly. The training view owns both networks and drives them from a timer; the
weight files it writes are read back by itself and compiled into other programs. The
two programs share nothing but files.

PROJECT.json lists the 40 hazards of this code, at their lines, and the properties
that watch them. Where a property leaves a hazard out, or a part of it, the note of the
hazard says which; a hazard left out as a whole has no property.

## Modules

| Module | Models |
|---|---|
| `DebugMailbox` | abstract: a FIFO mailbox that is void once it has been overfilled |
| `DebugIPC` | the dump channel: pipe, worker, ring, commands, OnOcr, closing the frame |
| `NNRTraining` | the training session: handlers, timers, dialogs, flags, networks, sizes |
| `NeuralEpoch` | the inside of a timer tick, for one and for two hidden layers |
| `SampleFile`, `WeightFile` | the two file formats: what is written, and what is read from it |
| `NNRFiles` | the sessions that make, load and save those files |
| `Raster` | pixels, neighbours, connected pieces |
| `Labelling` | abstract: the pieces of an image numbered one by one, in reading order |
| `EdgeLabel` | `LabelEdges`, `recurSearch`, `AdjustBlob`, `RearrangeBlob` |
| `QuadSearch` | `get_check_cond`, the four nested loops, for any check |
| `PlateSearch` | the candidates, the real conditions, the choice; extends `QuadSearch` |
| `BoxLines` | the lines of a piece: `find_blob_hori_line`, `find_blob_vert_line`, merging |
| `PlateRetry` | `GetNumberArea`'s rounds, `FindLinesByEdge_HDS`, the callers that read the tables |
| `TestTree` | tests of single files and over a tree of folders |
| `PlateProofs` | the proofs about `QuadSearch`, `PlateSearch` and `PlateRetry` |
| `NNRFilesProofs` | the proofs about `NNRFiles` and the two file formats |
| `*Proofs` | the proofs about `DebugIPC`, `NNRTraining`, `NeuralEpoch`, `EdgeLabel`, `BoxLines` and `TestTree` |
| `MC*` | the values the runs give the constants |

`DebugIPC` and `EdgeLabel` have an abstract specification of their own (`DebugMailbox`,
`Labelling`) and are shown to implement it; `PlateSearch` is shown to implement
`QuadSearch`. `NNRFiles` uses both file formats. `PlateRetry` and `TestTree` take the
detector as a choice of what each setting or image shows, which is what the modules below
them decide.

Some modules hold operators marked *faulty variant*: the code with a plausible slip.
No specification uses them; PROJECT.json's "mutants" puts them in the place of the
right ones to show that each property would notice.

### DebugIPC

Each load or store of a shared variable is one step: `StorePtr`, `StoreLen`,
`AdvanceHead`, `Post` of the worker against `CheckEmpty`, `LoadPtr`, `LoadLen`,
`AdvanceTail` of the GUI thread. A dump is the number of its block; a length is
represented by the block it belongs to, so that a wrong pairing shows. `freed`,
`misused`, `put`, `got` and `wrapped` are history. `ConnectNamedPipe` ends the worker
for an invalid handle and for a client that came before it. `PostMessage` may refuse any
command: the queue of the GUI thread is full when there are enough messages of any kind in
it. `heard` is what had been put when it last accepted one. Closing the frame ends the
program; the worker is not told and may take a few more steps.

Assumptions: stores of one thread become visible in program order (the build targets
x86, and we assume that the compiler keeps the order); one frame, hence one worker
(`OnFileNewFrame`, which would start a second, is in no menu). A ring that overflows
loses its contents, a limit of the design: the safety properties are stated until
then. A dump whose command was refused waits for the next command that is accepted, and
for ever if there is none: `NoLostWakeup` and `EveryDumpHandled` say that this is all that
can happen to it. `EveryClientAnswered` is about every client but one that comes before
the first `ConnectNamedPipe`.

### NNRTraining

One thread, but not one handler after the other: `dialog` is the stack of handlers
waiting for a dialog to be closed, and `Tick` is possible at every depth. Each part of
a handler between two waits is one action (`OnButtonWeighthoad`, then one of
`WeightsNotLoaded`, `WeightsRead`, `WeightsLoaded`). Errors and weights are abstracted
to the outcomes of the comparisons; classes and input nodes are one size, `shape`.
`crashed` is an access through a null pointer or past an array. Of the learning rate and
the momentum only the preset and loaded values occur.

`Spec` lets the user do anything. The history variable `conduct` remembers how: *careful*
as long as the user has not typed over the sizes, has run only with samples that fit the
network, has saved a network that exists and has waited after Stop; *limit* when, besides,
the average limit was passed with two hidden layers, where the program reads the other
network and may die whatever the user does; *any* otherwise. `NoCrash` and
`SizesMatchSamples` speak of a careful user, the others of every one.

### NeuralEpoch

The handlers that touch the sums are one action each; a tick is several: `OnTimer`, then
for every group `Train(n)` for each number `n` that `rand()` returns (or `TrainNext`, with
two hidden layers, in order), then `EvaluateOne` or `EvaluateTwo`, then `ReportOne` or
`ReportTwo`. With two hidden layers a tick is one group, and other handlers run between
the ticks of an epoch. Weights are not computed: a row of the momentum ring is known by
the call and the class it is from and how often it was multiplied by `m_ALPHA`; an error
is any member of `Errors`; the sum of the errors is the set of the calls in it. `seen` and
`carried` are history. The user does not change the number of layers under a network, and
what the limit does with two layers is left out here; both are in `NNRTraining`.

### SampleFile, WeightFile, NNRFiles

The bytes of a file are sequences of items (a number of two bytes, the data of a sample, a
declaration up to its brace, a comma) so that a reader that is one field off reads what
the code would read. Loops over counts are loops over the counts *read*. `Printed` is
what `%f` leaves of a weight. An array is read element by element, each up to the next
comma or brace (`Ends`), after the array if need be, and then a semicolon has to follow
(`Complete`). `NNRFiles` has one action per handler, `Restart` keeps nothing but the files
and the registry. Its runs use `CarefulSpec`: folders are handled only while no samples are
loaded, because `OnButtonMakeNtf` writes the class names of its folder over those of the
samples. Accesses past an array are `NNRTraining`'s subject. No class has more files, and no
file more bytes, than a number of two bytes can count (`FoldersAssumption`; the writer's
comment gives the limit, 65535).

### Labelling and EdgeLabel

`EdgeLabel` is one call of `LabelEdges`: `cursor` scans, `stack` is the recursion with one
frame per pixel and the direction it searches next (the first frame's eight directions are
in another order than the others', as in the code), `table` the boxes; then the boxes are
measured, trimmed and merged one after the other. `width`, `height` and `cx` are set where
the code sets them, so that a stale one stays stale. `Labelling` has one step: number the
whole piece of the first pixel that has no number. Every other step of `EdgeLabel`
stutters.

### QuadSearch and PlateSearch

`QuadSearch` keeps the loops as the code has them: one action per loop head, success,
failure and loop exit, and `found_count` as the one variable that carries a result
outwards, also when the inner loop was empty and the value is an older one. `check` is
an arbitrary function, so what is proved here holds for the real conditions and any
other. `PlateSearch` gives it the conditions 3 to 6 with integer pixels; float limits
are exact fractions, on the side of the boundary to which the code's arithmetic
rounds. The scan for candidates stops at MAX_EDGE_CANDIDATE (`Kept`). `qsort` is not
stable, so `Sorted` is a set of orders.

### BoxLines

One behaviour follows the four sides of one piece and then merges its lines. The two
functions of the code differ in their axes and in four places; the module has one set of
actions over "along" and "across" and names the places where they differ. `saved` and
`cur` are the table `line_sx` ... `sv_lines_count` below and at `sv_lines`; what a line
given up leaves in `cur` stays there, as in the code. Beyond the last column the code
reads the first pixels of the next row (`Reads`), beyond the last row any value.

`Thin` names the lines for which `ThinLineWhole` promises that they are found whole: one
pixel at each position of the side, straight or slanted one way, somewhere in the half of
the box that is searched, and away from the places the code mistakes for no end or reads
wrongly.

### PlateRetry

One action per round of `GetNumberArea` (`TryDigits`, `TryLines`, `TryHDS`, by plate
type) and per part of `FindLinesByEdge_HDS` (`FindBox`, at most three times, then
`FindNumbers`). Each labels the image anew, so `labelled` (`m_EdgeTable`), `found_arr` and
`box` are represented by the setting (blur and thresholds) whose labelling they refer to;
whether `found_arr` may be used is then whether it equals `labelled`. What a setting shows in an
image is chosen per image: the digits stand for `PlateSearch` finding a plate, the box
for `FindLinesByEdge_HDS_sub`. The detector outlives the calls with all its tables;
`Old` is what an earlier call, or no call at all, has left in them. `TestFile` may meet
a file that cannot be read, in which case the earlier image is looked at once more.

`NumbersCurrent` makes one exception: a selection tested under plate type 4 is handed to
`ProcessOneNote_HDS`, which takes the success of a box without digits for one of digits
and indexes `m_EdgeTable` with -1 (`ICUMANView.cpp:1832`, `CarNumDetect.cpp:988`).

The result of a call of plate type 4 is told three times, by the value returned, the box and `found_arr`;
`SuccessLeavesResult` says that they agree.

### TestTree

`stack` holds the folders the walk has open with the entries still to come. `FindFirstFile`
gives no order, so `Walk` takes any; a result file made before the walk opens its folder is
one of the entries. A result file has lines (`of`, `ok`) and, when finished, a line of
totals. Between two runs single files are tested, options changed and result files
deleted. The folder called `Fail` is not entered from above, but a test may begin in it.

## Runs

| Run | Question | Answer |
|---|---|---|
| `debug_ipc` | Do the ring, the wake-ups and the blocks survive every interleaving? | yes, until the ring overflows; a refused command delays its dump to the next accepted one |
| `nnr_training` | One training, no leaked network, Stop works, whatever the user does; can a careful user make the program access what is not there? | yes; no |
| `nnr_sample_number` | Does `m_GroupNum` number a sample? | no: the wrong timer is killed at the limit |
| `neural_epoch` | Is every class trained once, does the ring hold the last changes, is a report of its epoch, does a tick end? | yes, unless an older report was read back |
| `nnr_files` | Is what is loaded what was saved, and only that? | yes, for samples and one hidden layer |
| `nnr_two_hidden` | Can saved weights be loaded again? | no: not with two hidden layers |
| `edge_label` | Are lines the connected pieces, and do boxes bound them? | yes; merging loses no pixel |
| `plate_search` | Is the search right, and what does it promise? | list in order, nothing lost by pruning on true blame; all plates of equal digits found |
| `box_lines` | Are lines followed as drawn, within the tables? | yes, with the exceptions named |
| `plate_retry` | Do the results agree with each other, and are tables read those of the last labelling? | yes, with the exception named |
| `plate_numbers` | Are digits at hand a success? | no: an assignment in a condition drops them |
| `test_tree` | Is every image tested once, as itself, and are results kept? | yes |

The three violated properties are documented in PROJECT.json as findings, each with the
line it contradicts.

### Bounds

- `DebugIPC`: a ring of 4 slots instead of 16, at most 2 commands in the queue, 7
  dumps. The indices wrap round, the ring can be full and can overflow, any command can be
  refused.
- `NNRTraining`: files of up to 2 groups and of shapes 1 and 2 are accepted, and files
  announce up to one more of each, so that files over the limits, sizes that disagree,
  and epochs of more than one group all occur. The depth of `dialog` needs no bound: no
  sequence of re-entries makes it grow for ever.
- `NeuralEpoch`: 2 classes, 2 groups, errors 0 to 2, 3 reports; `rand()` returns 0, 1 or
  2, so that classes are not equally likely and a draw is rejected; a ring of 3 rows,
  which wraps in the second epoch.
- `NNRFiles`: six folders (classes of unequal length, one class only, a class without a
  file of the expected size at the end or the beginning, an unreadable file among
  others, no class at all); numbers of two bytes wrap at 8, limits are 4 groups and 2 of the rest, one
  less than some input has.
- `EdgeLabel`: 1338 images of 8 by 7 pixels: all of up to eight pixels drawn from five
  patterns a row, and bars on feet that are trimmed and merged; a table of 3 lines, which
  runs full.
- `PlateSearch`: six candidates (two more than a plate has, so that every loop is left
  early and late), lists of two instead of ten, heights from 32 to 56. The tables of
  blobs hold digits that lean, overlap, are as wide, narrow, high or low as the limits
  allow, and one pixel more; one table of wide digits makes the last condition decide,
  one has a blob more than the scan keeps.
- `BoxLines`: images of 10 by 10 pixels with pieces of three strokes on a base in five
  positions, thin lines, and a dot; tables of 2 entries instead of 50, so that the limit
  is met, and lines of 3 pixels instead of 8 are long.
- `PlateRetry`: two thresholds instead of up to ten, all four blurs. Up to two of six
  settings show digits and up to one of five a box; the six are the first and last of the
  loops, one between, and those `FindLinesByEdge_HDS` adds. Two settings are needed for
  `FirstSettingWins`.
- `TestTree`: a chain of three folders, the middle one called `Fail`, two images (which
  are interchangeable), two result files at a time; counters start at 0 or 1.

The proofs remove the bounds of all of these but for the liveness properties. Every safety
property that a passing run checks is also proved.

Deadlock is checked in `nnr_files`, `nnr_two_hidden`, `neural_epoch`, `plate_retry`,
`plate_numbers` and `test_tree`, where a further step is always possible. In the others
the system may really stop: the call returns (`edge_label`, `box_lines`), the
search ends (`plate_search`), the window is closed (`debug_ipc`), the
program has died (the runs of `NNRTraining`).

### Fairness

- `DebugIPC`: `WF(frame /\ Worker)`, `WF(Dispatch)`, `WF(OnOcr)`. Windows schedules a thread
  that can run, and the message loop takes a posted command. Once the frame is closed the
  process ends, and the worker with it at any of its steps: nothing is assumed of it then.
  No client is assumed to come, to write or to go.
- `NNRTraining`: `WF(Tick)`. WM_TIMER of a live timer is delivered whenever a message
  loop runs, in a dialog as well. No user is assumed to do anything.
- `NeuralEpoch`: weak fairness of the steps of a tick, which nothing interrupts, and
  `SF(Train(n))` for every `n`: `rand()` returns every number again and again. Without
  it the draw by rejection need not end. No timer is assumed to fire.
- The others have no liveness properties: their loops are bounded `for` loops.

## Proofs

All are for every value of the constants, from the assumptions named in the modules, such
as a ring of more than one slot, a list of at least one row, at least one class, and for
`TestTree` that folders, images and result files are different things and no folder is
below itself.

**DebugIPC.** `TypeOK` is inductive by itself: the indices stay in the ring. For the rest
it is not enough: that the worker does not overwrite a slot in use follows from how the
indices relate to the number of dumps put and taken. `IInv` therefore adds that each index
is its counter modulo `Size` (`IndexInv`, which survives an overflow) and, until the
overflow, that at most `Size - 1` dumps are unread, which slots hold them, what the two
threads have in their hands, and which blocks are freed (`SafeInv`). Two numbers less than
`Size` apart have different residues, so the slot being written is not one being read.
From `IInv` follow `RingSafe`, `PairsMatch`, `HeapSafe` and `NothingLeaks`. For
`WakeupKept` it is invariant that after an accepted command something is still to come as
long as dumps from before it are left: a command in the queue, or a drain, which ends only
when the indices meet (`WakeInv`); a refused command needs no assumption. Before an overflow
indices that meet mean that no dump is unread, by `IInv`. `Refinement` shows that
putting and taking are the mailbox's steps and that all other steps stutter.

**NNRTraining.** The state invariants are not inductive because a handler that waits in a
dialog goes on from an older state. The stack may have any depth; what counts is which
dialogs are shown somewhere in it. `SessionInv` says which of them exclude a timer,
`NetworkInv` that no network is there while weights are loaded, nor before the flag is
set, and `CareInv` what a careful user keeps: the sizes are those of the samples, a timer
has samples and a network of their shape, what a dialog offers to save is there. From them follow `OneTrainingAtATime`, `NoNetworkLost`, `CareIsEnough` and
`SizesStay`.

**NeuralEpoch.** While a group is trained every row of the ring has the age it has between
the groups and one more for every class taken, but for the row at the point (`RowsInv`);
the order is a set of as many classes as it is long (`Counted`), and for two layers the
numbers from 0 (`InTurn`). `SumsInv` says which calls are in the sum while nothing was
carried in: the last ones, as many as the epoch has groups behind it (`Past`). That an
epoch of two layers begins with its first group, whatever happened before, is in `Stages`.

**EdgeLabel.** The invariant of the recursive search (`LinesInv`): a neighbour of a
numbered pixel has its number, or a frame of the stack for that pixel has still to search
it (`Explored`); every numbered pixel is joined to the first of its line (`Reached`). So the
number stays inside one piece, and when the stack is empty it covers the piece. From this
follow `LabelsCorrect` (wherever the full table cuts the scan off) and, with the scan's order,
that `EdgeLabel` implements `Labelling`. `BoxesAreTight` and `PixelsStayCovered` follow the
boxes through search, trimming and merging.

**QuadSearch and PlateSearch.** The search is right if we know what `found_count` can be
where it is tested: `LoopInv` gives its one possible value at each loop head and the few
at each exit, which is where a value left from an earlier round would show. `Passed` is the
set of candidates the loops will not visit any more. The invariant says that all listed
candidates are passed (hence the order) and, if failures blame only what is at fault
(`PruneSound`), that a passed success is listed. `PlateSearchIsSearch` carries this over to
the real conditions, and `SameWidthLosesNothing` shows that among blobs of equal width they
satisfy `PruneSound`.

**BoxLines.** `LinesInv`: the entry being written has one place on the piece for every
position since its start, a step back is only taken where it cannot tear the line, saved
lines are whole, and an entry whose end is an older line's has one pixel. From it follow
`TablesNeverOverrun` and `LinesFollowed`, for pieces and images of any size. `ThinInv` adds
what is known of a thin line: the outer loop has not passed its first start; while it is
followed nothing is saved, the position is its pixel and the count of the steps against its
way is 0; and the sides that are done have theirs. As there is one pixel to go on with, one
branch of the inner loop at most is met, and with that count at 0 it is one that extends the
line; at the end the entry is the only candidate. It uses that `None`, a side without a
line, is no table entry (`NoneAssumption`).

**NNRFiles.** The files are nested sequences put together with the folds of the community
modules, and readers are recursive functions over them; what they compute for every input
is reached without an induction theorem, by taking the least number for which it would
fail (`UpTo`). `SampleInv` says that a sample file is what `OnButtonMakeNtf` has made of
some folder with some counts, and that samples are those of such a file. The walk of the
loader finds every number where it looks in a complete file; in one that was given up it
finds the first class name where it looks for the first group of the failing class
(`LoadsIffFinished`). A group missing in a class is filled with the one found the number
of files before, so that group and file agree modulo that number, and two files stand in
equally often, up to one (`SamplesAreTheFolders`). `WeightInv` says the same of a weight
file: its text is that of a network's layers in the sizes it was saved by. A printed array
has one comma or brace to an element, so that element `k` ends at the `k`-th, the
semicolon follows the last and the next array comes after it (`OneHiddenRestored`); where
the text is cut off, an element does not end or the semicolon is not there
(`TruncatedRefused`). With two hidden layers the declaration of the first is read as the
third line of the header, so `WeightLoad` meets the second declaration where it looks for
a first: `TwoHiddenNeverReloads`, which says why `nnr_two_hidden` fails.
`CarefulUserRefines` carries what is proved of `Spec` over to the runs' `CarefulSpec`, the
one in which `NamesOfSamples` is proved.

**PlateRetry**, for any images and any non-empty table of thresholds. The properties speak
of the end of a call; what makes them inductive is what is known at each round. `DigitsInv`
says that no setting before the current one, in the order of the two loops, shows digits;
`BoxInv` says the same of boxes, that from the second round on the two settings added by
`FindLinesByEdge_HDS` are known to show neither, and which attempt the box comes from;
`FoundInv` that `found_arr` is -1, or of the current labelling and a success, so that the
value returned, the box and `found_arr` agree (`SuccessMeans`); `CallInv` ties the caller to
the plate type, without which the exception of `NumbersCurrent` could not be stated.

**TestTree.** `CountInv` ties the counters to the lines written so far. For the walk:
the open folders are different and none of them is among, or below, the entries to come
(`Place`), which holds because a folder has one parent and none is below itself; the lines
written are those of the files walked (`Recorded`). All four properties follow, for every
tree and any number of runs.

Model-checked only: liveness (`EveryDumpHandled`, `EveryClientAnswered`,
`StopTakesEffect`, `TickEnds`), which is out of the provers' reach, and the three violated
properties.

## What the models showed

Besides the three findings, the code does the following, which the modules follow and
some properties name as exceptions:

- A dump whose command is refused is left in the ring until a later command is accepted
  (`WinDebug.cpp:71`).
- A client that opens the pipe before the worker waits for one ends the worker
  (`WinDebug.cpp:58`); a second frame would start a second worker on the same ring
  (`NoteBuilderFrame.cpp:216`).
- After one-layer convergence `m_ActiveFlag` stays set: nothing runs, and every button but
  Stop refuses because "it is running" (`NNRView.cpp:314`). After two-layer convergence Run
  stays disabled for the rest of the session (`:429`). A handler that reads the boxes
  between two ticks of a two-layer epoch replaces the partial sum of errors by the average
  of the epoch before (`:399`, `:2148`).
- `m_WeightLoadFlag` is set after a load that was cancelled or failed, when the networks are
  already destroyed (`NNRView.cpp:787`), and when weights are saved that do not exist (`:810`);
  `m_foundFiles` is never reset (`:2319`); more than 200 hidden nodes are saved and cannot
  be loaded (`:1074`).
- Counts and sizes of 65536 and more wrap in the two bytes they are written in
  (`NNRView.cpp:1940`), and the reader compares what is left of them with its limits: of one
  class with 65538 files it would load two samples. `LoadsIffFinished` holds because
  `FoldersAssumption` leaves them out. Weights saved for samples of no class are refused:
  `OneHiddenRestored` excepts them.
- `DestructionNetwork` resets one pointer twice and another never
  (`NeuralOneHidden.cpp:435`).
- A failed check blames a pair measured against the widest of the four, so that plates of
  mixed widths are lost (`CarNumDetect.cpp:600`); heights are compared without the
  absolute value (`:490`).
- The comments at `CarNumDetect.cpp:945` and `:955` want one search for lines; the `break`
  beside them leaves the loop over the thresholds, and the next blur is tried.
- In the followers of lines a line given up leaves its end in the entry of the next
  (`CarNumDetect.cpp:2235`, after the comment "start again from the current point"); a step
  back goes on from the line's first row (`:2145`), where the comment wants it to go on
  connected (`:2122`); row and column 0 are taken for "no end" (`:2269`); a guard is always
  true (`:2429`).
- A second run over a tree counts the result file of the first as one more image.

## Not modelled, and what is left

- `FindLinesByEdge_HDS_sub` after the lines (`CarNumDetect.cpp:3025-3267`): pairing lines
  to boxes and choosing one. Each candidate is compared with the one chosen so far only,
  with a tolerance of 5 pixels (`:3229`), so the choice can drift along a chain of boxes
  and end with one that is both higher and less straight than another. It and
  `FindLinesByEdge` (`:1715-1821`) are the next to model; `PlateRetry` takes their
  results as a choice. `PlateCandidateBox` has 500 entries and no check.
- Plate type 2 and `FillAndDetect`, with recognisers of their own.
- gcodesum's extents and the scroll helper: small, sequential, without state that outlives
  a call. (The G-code parser reads a negative number as 0, loses the last number of a line
  and tests `x_max` with y, `ChildView.cpp:155-235`; nothing says what it should accept.)
- Pixel and floating-point arithmetic (filters, Canny, Hough, perspective, the sums of
  backpropagation), drawing, the wizard-generated shells and panes. They decide nothing
  that another part waits for.
- The files that are no longer in the projects, and third-party code (libjpeg, libtiff,
  jsoncpp, IQmath, OpenCV). These are most of the lines of the repository: the project's
  own compiled code is a small part of them, and the modules cover the parts of it that
  keep state or decide something. So the lines modelled will stay a small share of the
  whole.
