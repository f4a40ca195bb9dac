# Verification of colorist

colorist converts images between ICC profiles: it reads an image and a profile,
crops, resizes, grades and converts the pixels on several threads, and writes image
and profile out again. This directory holds TLA+ models of its core (`lib/src`), the
TLC configurations that check them on small instances, and theorems checked by TLAPS
that hold for every instance. `PROJECT.json` maps each definition to the lines it
models.

The program's own code is some 15 thousand lines; the other half million under `src/`
is vendored in `ext/` (codecs, LittleCMS, zlib) and appears here only as what it may
answer. Of the program's own lines about half are floating-point arithmetic, printing
and codec glue, which are listed under "Not modelled".

Paths below are relative to `src/lib/src/` unless they start with `docs/`, `lib/` or `bin/`.

## 1. Inventory

| Part | State | Operations | Hard behaviour | What makes it correct |
|---|---|---|---|---|
| Tasks, `task.c` | a `clTask` and its native thread | create, join, destroy, thread start and exit | a thread outlives its task; join twice; creation fails unnoticed | every thread is joined before its task is freed |
| Auto-grading, `pixelmath_grade.c` | loop indices, `tasks[]`, `infos[]`, best gamma so far | find luminance; search 61 gammas on batches of threads | threads read and write reused slots; results in any order; ties; NaN error terms; last, short batch | the same answer as trying the gammas one by one |
| Transforms, `transform.c` | caches per CMM, luminance fields shared by both, slices and tasks of a run | create, prepare, run, ask for the scale, destroy | threads write one buffer without a lock; remainder of the division; caches filled lazily, in any order | each pixel is converted once, into a place of its own, after preparation, with the luminances and curves of the two profiles |
| Profiles, `profile.c` | LittleCMS handle, packed bytes, MD5, CMM choice, description | parse, create, clone, set tags, reload, match, query, write | four representations of one thing; a reload fails half way; unqueried results | bytes, signature and CMM choice describe the handle; no change is lost |
| Images, `image.c`, `image_draw.c` | three lazily converted pixel buffers, size, depth, profile | prepare read and write, crop, rotate, mirror, resize, convert, clear, draw, blend | stale buffers; roundings that add up; index arithmetic of images that are not square | every buffer shows, in place, what was last written |
| `convert`, `context_convert.c`, `context_rw.c` | images, profiles, decisions about the destination | one command with some fifteen stages | a failure between any two stages; images and profiles changing owners; options merged in several places | frees everything once, exit code tells the truth, output is what was asked |
| Command line and format tables, `context.c`, `context_formats.c` | parameters | parse, validate, best depth, default quality | options that exclude each other, sentinel values | documented meaning of every combination |
| Readers and writers, `format_*.c` | a file and a profile inside | decode, encode with a third-party codec | error paths, `longjmp`; a JPEG file has the profile in pieces, which other programs shuffle | the profile read is the one written; failure is reported, nothing leaks |
| `identify`, `generate`, `modify`, `highlight`, `report` | one image or profile each | one command each | error paths, exit codes | as for `convert` |
| Statistics, diff, debug dump | counters | loops over pixels | counters that must add up | every pixel counted once |
| Image strings, `image_string.c` | list of tokens, images of stripes | parse, draw colors, ranges, HALDs and charts, turn, stack | repeat counts, ranges, turns; failure at any word | the picture its words describe (`docs/Usage.md`, with the exceptions under Findings); everything freed |
| Resize, HALD lookup, scaling, `pixelmath_*.c`, `colorConvert` | none | floating-point arithmetic | precision | numeric, outside of a model checker |
| Raw buffers, memory, logging, versions | none | wrappers of libc and zlib | - | - |
| `colorist-hdrconv`, `bin/colorist-hdrconv/main.cpp` | a directory watch, a buffer of notifications, the last file, the clipboard | wait for notifications, wait for the saver, convert, copy | several notifications at once; files half written; waits that time out; the queue overflows | what is converted is whole, and every screenshot is converted |
| Other programs, `bin/` | none | parse arguments, call one command | - | - |
| LittleCMS, codecs, zlib, cJSON (`ext/`) | - | - | - | third party; their behaviour is taken from how they are called |

How the parts interact: a program fills a `clContext` and calls one command. The
command calls readers, which make a `clImage` with a `clProfile` of its own (a clone
of what is passed in). Grading and `clImageConvert` make a `clTransform` from two
profiles and run it on `clTask`s, which share the pixel buffers and nothing else.
There are no locks; the only synchronization is thread creation and join. Nothing
is persistent but the output file.

## 2. Modules

| Module | Models | Notes |
|---|---|---|
| `Task` | `task.c` | a slot per task, shared by the two users below |
| `GammaErrors` | the error term of each gamma | data: numbers, or NaN for all when the image is black |
| `GammaScan` | (specification) the gammas tried one by one | what the threaded search must implement |
| `ColorGrade` | `clPixelMathColorGrade` | extends `Task` and `GammaErrors`; refines `GammaScan` |
| `TransformRun` | `clTransformRun` | extends `Task` |
| `TransformPrepare` | `clTransformPrepare`, what `colorConvert` reads of it | one transform after the other, any order of calls |
| `Profile` | `profile.c` | any number of profiles, any order of calls |
| `Image` | `image.c` | one image, any order of calls |
| `ImageString` | `image_string.c`, `clPixelMathHaldCLUTLookup` | one image string from start to image |
| `FormatJPG` | `format_jpg.c` | a profile written, the file edited, the profile read |
| `Convert` | `context_convert.c`, `context_rw.c`, `validateArgs` | one command from start to exit code |
| `HdrConv` | `bin/colorist-hdrconv/main.cpp` | the watcher, those who save files, the system's queue |
| `MC*` | - | instances for TLC |
| `*_proofs` | - | theorems |

### Task, ColorGrade, TransformRun

`task[s]` is the `clTask` in slot `s` (none, live, joined) and `thread[s]` its thread
(none, created, running, exited). `clTaskJoin` waits until the thread has exited;
`clTaskDestroy` joins unless that was done. `TaskSpec` is this protocol as a
specification of its own; both users are shown to implement it, so no step of theirs
frees a task under its thread.

In `ColorGrade` the main thread is the loop of lines 188 to 228: `SpawnTask` fills a
slot, `JoinTask` waits for the next slot of the batch, `FoldTask` compares its error
term. A worker takes two steps, `ReadInfo` (it reads the gamma of its slot) and
`WriteErrorTerm`, so that a slot refilled too early would be seen. Error terms are
small numbers or NaN: only comparisons matter.

In `TransformRun` positions are counted in floats, as in the code, and `writes` holds
every float written with the pixel and the channel it came from. A worker converts one
pixel per step. `pixelCount` 0 is included: there is no task then, `clTransformRun`
divides by their number, and the model ends in `"crashed"`. That preparation comes first
is the action `Prepare`; what it does is the next module's.

### TransformPrepare

A `clTransform` serves two color management modules, colorist's own (CCMM) and
LittleCMS. Each has a ready flag, and filling either recomputes the luminance fields,
which both share. `ccmmAllowed` is a public field of the context and may change between
two calls. The specification is `PrepareSpec` (`PrepareInit`, `PrepareNext`), so that one
module can prove about this one and `TransformRun`. `clProfileQuery` may fail before it filled in anything, or before the
luminance; the caller does not look, so `QueryOf` has the outcomes with `Garbage`. A run
is abstracted to the factor it applies to luminance, a fraction, and to the curves it
decodes and encodes with: `Factor` follows `colorConvert` through decoding, scaling,
tonemapping and encoding, each of which may hold a part of the factor. Matrices, white
points and the tone curve are left out.

### Profile

`profile[p]` is the C struct: `handle` (what the tags say), `raw` (packed bytes or
empty), `signature` and `ccmm`. Bytes are a content plus the program that laid them
out, because LittleCMS does not reproduce the layout of others. `Reloaded` is
`clProfileReload`: packing may fail, and then only `raw` is empty. `wanted` records
history for the properties. The `description` field, which is only printed, is left out.

### Image

`image.pixels[f]` is the buffer of format `f`. `PreparedRead` and `PreparedWrite` are
`clImagePrepareReadPixels` and `clImagePrepareWritePixels`. Geometry is modelled on
indices, as the loops compute them; `shown`, what a client wrote where, is turned,
mirrored and cut on coordinates, independently. A pixel has one channel. A float is a
whole number of `1/One`, `One` being a common multiple of all levels. Converting a
negative float to an unsigned integer is undefined in C: the model takes either
result that builds give. `clImageBlendPixel` is modelled for opaque colors.

### ImageString

`clImageParseStripe` one word per step (`Parse`), `interpretTokens` in one, then the
stacking and clean up of `clImageParseString`. Which ranges are refused is taken from the
code (`finishRange`, `Wrong`), since documentation and code disagree about them. A string comes as stripes of words; the
spelling of a word is abstracted, its defects are words of their own (`bad`, `junk`,
`unreadable` for a response file). `allocated` counts tokens and images. The reference
is `Pictures`, written from the words alone: `Entries` are the words that are no repeats,
each with how often it stands, `DescribedColors` the colors they stand for; it says which
color stands in which column, what square a HALD is, what a turn does to coordinates. `NoImage` is the null pointer. `HaldCLUTLookup` is exact on half
cells of the cube: weights are fractions, `over` their denominator. Alpha is left out, a
CIE chart is one color, and the levels of HALDs are exact (`IsWord`). Numbers are not
bounded: the code keeps them in an `int`.

### FormatJPG

A byte of the profile is its own position, so that a profile is right when byte `i` is
`i`. The writer makes one marker per step; `Edit` replaces the markers by any sequence
of them and of foreign ones; the reader makes the three passes of `read_icc_profile`,
one marker per step, and then the image. `setjmp` is taken back from the pixels:
`image` is not volatile there, so it may have the value it had at `setjmp`.

### HdrConv

The watcher is the loop of `wmain`, one action per call to the system. `buffer` keeps
what earlier batches left in it, since the loop walks over its end; `pos` is `pinfo`.
`saver`, `written` and `sessions` are the program that saves each file, which may keep it
open, write in several sessions, or be `careful` and close it only when it is whole.
Writes may be told at any moment or not, closes are told, `QueueMax` notifications are
kept and an overflow is told as an empty batch. `HandleHeld` is the sharing mode of
`CreateFileW`. The conversion is one read and one write; the rest of it is `Convert`.
The records of a batch are taken to be of one length, so that a place in the buffer is
the number of a record: `Stride` is how many records too far the pointer goes.

### Convert

One action per stage, `pc` naming the next one; `FAIL` is the macro of that name. The
heap gives each image and profile its state (none, live, freed), owner and content;
`heap.corrupt` becomes true when something is freed twice, used after it was freed or
built over. `request` is the command line, `params` what `validateArgs` leaves of it.
Readers, writers and file operations succeed or fail as they like. `Formats` are classes
of writers, by how they fail: with a report; with success and an empty file (`"avif"`, for
AVIF, BMP, TIFF and WebP) or a garbage one (JPEG XR), which is `Pretended`; or by ending
the process (`"exited"`, the error handler of the JPEG library). Closing a file may lose its
end, which nobody notices: a `"partial"` file and success. An uninitialized
`ImageInfo` (the result of `clProfileQuery` is not looked at) is any member of
`Garbage`. Using a null pointer, in the places where the code can, ends in `"crashed"`.

`ExitCodeTells` says of every error that it is in the exit code, unless it is one of
`Unreported`, each of which is tied to a format and to what it leaves of the file: an error
at another stage, or an image format whose file is missing, is not excused. `FileAsAsked`
compares the profile written with what `docs/Usage.md` says of the options (`AskedCurve`,
`AskedLuminance`); of the one combination where the code does something else, `-a` with
`-l unspecified` (`Overruled`), it states what the code does. For `-l` and `-g` the
command line has no value apart that means "not given" (`-l source` is the default), so
`-a -l source` is read as `-a` alone. The order of the operations is the code's
(`ExpectedOps`).

Left out: the bit depth, `-n`, the size arithmetic of `--resize`. `--hald` and
`--composite` are commented out in the source. `"fixed"` tonemapping stands for on, off
and for 32 bit output, which all skip the choice of the tonemapper.

## 3. Runs

| Run | Shows | Bounds |
|---|---|---|
| `color_grade` | the search finds the first best gamma and the answer is it (`MinIsBest`, `Answered`), is a sequential scan (`ScanImplemented`), owns its threads (`NoOrphanThread`, `TaskSpec`) and returns (`Terminates`) | 5 gammas, 1 to 3 threads: full, short and single batches; 3 error values: ties before and after the minimum; NaN |
| `transform_run` | no two threads write the same float nor outside (`NoRace`), every pixel is converted (`Converted`), tasks are used properly, the call returns | 0 to 7 pixels, 1 to 3 threads, 3 or 4 channels on each side: no pixel, fewer than threads, even and uneven slices |
| `transform_prepare` | a run scales by the luminances of the two profiles and `clTransformGetLuminanceScale` answers the same (`ScaleAsAnswered`); their curves are used (`CurvesApplied`); luminance is tonemapped as asked (`TonemapAsAsked`); no LittleCMS object leaks (`NoLeak`) | 9 profiles and XYZ, with and without a luminance, two with equal peaks of which one has it in the curve, HLG, PQ, complex, not RGB, not understood |
| `transform_hlg` | HLG profiles with a luminance: violates `HLGLuminanceKnown` | same |
| `profile` | bytes, signature and CMM choice describe the handle (`DerivedFromHandle`), no change is lost by a reload (`ChangesSurvive`), a match of packed profiles is exact (`MatchIsExactWhenPacked`) | 2 profiles (enough to clone and match), a friendly and another curve, one text, one luminance |
| `image` | every buffer shows what was written, within half a level of U8 and half of one of U16, however often it is converted (`Faithful`); 8 bit content is exact (`EightBitExact`); turns and mirrorings compose (`TurnsCompose`) | 3x2 and 1x2 pixels; integer buffers of 2 and 4 bits; depths below, between and beyond them; every rectangle that starts inside or just outside |
| `image_string` | every string gives the picture its words describe, or none (`ImageAsDescribed`); tokens and stripes are freed however it fails (`NoLeak`); looking a color up in a generated HALD leaves grid points in place and others in their cell (`HaldInterpolates`) | stripes of up to 4 common words (a range, a repeat, a turn, dimensions) or 2 of all; up to 3 stripes; levels 0 to 3 and 0 to 6; a HALD of 4x4x4 colors (8x8 pixels), one of a single color, and one that is refused |
| `format_jpg` | a profile found is the one written (`FoundIsWritten`), and it is found when no marker is missing (`CompleteIsFound`); the reader keeps only its image (`OnlyImageKept`) | markers of 2 bytes numbered to 3; profiles of 0 to 5 markers, the last full or not, so also more than can be numbered; edited files of up to 4 markers |
| `convert` | nothing is freed twice or used after (`MemorySafe`), nothing is left (`NoLeak`), the exit code tells every error but the four of `Unreported` (`ExitCodeTells`), crashes are the known ones (`CrashesKnown`), the file is what was asked for, but for `Overruled` (`FileAsAsked`) | all command lines with at most 3 options away from the defaults; 5 kinds of profile in any file |
| `convert_crash` | an error that is a crash: violates `ErrorsAreReported` | same |
| `hdr_conv` | a screenshot saved in one go is not converted half written (`NeverPartial`), skipping the last file loses nothing (`SkipIsSafe`), a screenshot saved alone is converted (`AloneConverted`) | 2 files of 2 writes, 2 sessions in all, 2 tries, 3 notifications |
| `hdr_conv_lost` | of several notifications at once one is looked at: violates `AllConverted` | same, with 6 notifications, so that none is lost by overflow |

Each `TypeOK` says the types of a module's variables and what they bound: indices of
arrays, rounds of a loop.

Why the bounds are enough: batches and slices depend on divisions with remainder, and
each instance has quotients of 0, 1 and more, with and without one. The image sizes are
not square in either direction. 2, 4 bits and a depth of 3 have the same relation as 8,
16 and 10: levels that are multiples of each other and levels that are not. Three
options are enough for the interactions between `-a`, `-g` and `-l`, the deepest in
`convert`; `profile` and `convert` have no counters. A transform has two ready flags and
no more history than that; its luminances are compared, multiplied and divided only,
and the proofs are for all of them. Two screenshots are one that is converted and one
that arrives meanwhile; two writes are half a file and a whole one; a batch of three
holds all kinds of neighbours.

`convert` and `convert_crash` do not check deadlock, because the command ends. Nor do
`hdr_conv` and `hdr_conv_lost`: the watcher waits when the bound on sessions is reached
and no notification is left.

### Findings

With a run of their own:

- `context_rw.c:80`: `--forcelum` crashes on an input that cannot be decoded.
- `transform.c:273`: an HLG profile that has a luminance is converted with the logarithm of 0.
- `bin/colorist-hdrconv/main.cpp:390`: all but the first of the notifications that come together are lost.

Others are named where a property of a passing run has to except them, or can be seen in
the model:

- an override profile leaks when the input cannot be read (`Convert.NoLeak`);
- `Unreported` in `ExitCodeTells`, errors that end with exit code 0: an AVIF, WebP, TIFF or
  BMP writer that gives up with `writeResult` still true, and leaves an empty file
  (`format_avif.c:286`, reached by a `--codec` that only decodes; `format_webp.c:120`, `152`,
  `161`; `format_tiff.c:497`; `format_bmp.c:429`, `445`); a JPEG XR writer that does, and
  leaves garbage (`format_jxr.c:274` to `307`); an ICC dump whose file cannot be opened
  (`profile.c:301`); a file whose end is lost by `fclose` (`raw.c:221`, `profile.c:316`);
- primaries on a line crash the command (`CrashesKnown`);
- `Overruled` in `FileAsAsked`: with `-a -l unspecified` a luminance is graded and written all
  the same, `-g source` gets the graded gamma, and `-g pq` or `hlg` a plain gamma of 1
  (`context_convert.c:268`), while `docs/Usage.md:29` and `:30` say that these options force a
  value or specify none, and the comment at `context_convert.c:149` that they "can still
  force values";
- `context.c:1113`: `-a -g 2.4` turns autograding off, while `docs/Usage.md:105` asks for `-l`
  as well; `docs/Usage.md:56` has `--resize` as of the "dst image", the code resizes the
  source before it grades and converts (`ExpectedOps`);
- `Wrong` in `ImageAsDescribed`: a range between colors of different depths is refused
  without a count (`image_string.c:386`), although `docs/Usage.md:434` has one as an example,
  and with a count one of float colors is drawn, which "can't be used in a gradient"
  (`docs/Usage.md:445`); the examples at `image_string.c:45` say that ranges run from top to
  bottom, code and `docs/Usage.md:401` that they run from left to right;
- a transform that went from LittleCMS to the CCMM and back may scale no longer (`Switched`);
- a JPEG reader leaks the bytes of a profile that cannot be parsed, and may leak the image
  whose rows fail (`OnlyImageKept`); a profile of more than 255 pieces is written with
  numbers that start over (`FoundIsWritten`);
- `profile.c:323`: reloading a profile nobody changed changes its bytes (comment at `profile.c:130`);
- `image.c:161`: the U16 buffer of a new 10 or 12 bit image holds 65535, up to 64 times white;
- `hald(1)` divides 0 by 0 (`HaldPixel`); colors are "evenly distributed" only when their
  number divides the width, the last one takes the rest (`ColorIndex`).

## 4. Fairness

`color_grade` and `transform_run` check liveness under `FairSpec`: weak fairness
of the main thread and of each worker. The operating system runs every thread that can
run, and each step stays enabled until it is taken: a join once the thread has exited, a
worker's step always. `pthread_create` is taken to succeed; `task.c:146` does not look.

`hdr_conv` and `hdr_conv_lost` assume weak fairness of the watcher, which is a process
that is not stopped, and of each saver's writes and closes: whoever saves a screenshot
gets it done. Nothing is assumed of new savings, removals and the other programs that
use the clipboard.

## 5. Proofs

All proofs are of safety, for every value of the constants that the named `ASSUME`s
allow: any number of threads, pixels, gammas, profiles, markers, files.

| Module | Theorems | Argument |
|---|---|---|
| `ColorGrade_proofs` | `ScanFindsBest`, `TypeCorrect`, `ThreadsAreOwned`, `InfosAreNotReused`, `Refinement`, `BestOfFolded`, `AnswerIsRight` | of the scan, that the minimum is the first best of the gammas below `next`, and that NaN is all or nothing (`ErrorDichotomy`). Of the threaded search `IInv` adds to the types which slots are live at which point of the loops (`SlotInv`), that slot `s` of a batch holds the gamma `BatchFirst + s` and, once its thread has exited, the error term of that gamma (`InfoInv`), and the loop ranges. Then each `FoldTask` is a `Try` of the scan, everything else stutters, and `ScanFindsBest` carries over |
| `Transform_proofs` | `TypeCorrect`, `ThreadsDoNotRace`, `WholeImageConverted`, `TaskProtocol` of `TransformRun`; `ScaleIsAsAnswered`, `CurvesAreApplied`, `TonemapIsAsAsked`, `NothingLeaks` of `TransformPrepare` | of a run: slices are disjoint and cover the pixels (`SlicesDisjoint`, `SlicesCover`), from `k * (n \div k) <= n`; `IInv` adds that live slots hold their slices and that a thread that has exited has written its own. Of preparation: the shared fields follow from the two profiles whichever module filled them in (`FieldsInv`); which was first decides whether the scaling is on (`ReadyInv`); then `FactorsEqual` is the algebra of the two ways through `colorConvert`, for all luminances and scales |
| `Profile_proofs` | `TypeCorrect`, `RawIsNeverStale`, `NoChangeIsLost`, `PackedMatchesAreExact` | a record is `Coherent` (raw, when there is one, describes the handle, and so do signature and ccmm); parsing makes, packing uses and reloading keeps that, whether it fails or not |
| `Image_proofs` | `TypeCorrect`, `BuffersAreFaithful`, `EightBitContentSurvives`, `TurnsAndMirroringsCompose` | `Faithful` alone is not inductive: a buffer made of one that is half a level off could be a whole level off. `IInv` says which chain a buffer can have come from: a float is the value written or a U16 level within half a U16 step of it, a U16 level is within half a step, a U8 level is the rounding of such a float or, alone, exact. The lemmas on rounding say that a coarser level rounds back to itself (`RoundsBack`), those on coordinates that `x + y * width` is one to one and onto; with them each of the loops moves places the way the picture is turned, mirrored or cut (`RotatedMoves`, `MirroredMoves`, `CroppedMoves`) |
| `ImageString_proofs` | `ImageIsDescribed`, `EverythingIsFreed`, `HaldLookupsInterpolate` | of the image, that the tokens of the words parsed so far stand for their entries, one for one (`AllStand`, kept by `OneMoreStands` and `RepeatStands`), so that a pixel gets from the tokens the color its column has among the colors described (`ColorGot`, `ColumnsPortrayed`), sizes and turns are those said last or summed (`NumbersSaid`, `TurnsAs`), and a stripe gives the image of its picture or is refused (`StripeInterpreted`); `StackedShows` puts them together, and `DescInv` says at every stage which stripes are done and how far the current one is parsed. Of memory, that what is allocated at each stage is the length of the lists, and the image that is returned is no longer in them (`LeakInv`). For lookups: weights are natural numbers, not all 0 (`WeightsAre`), so a sum over the corners lies between its least and its greatest level (`MeanWithin`), and at a point of the grid one corner has all the weight (`AtGridPoint`); this is `LookupInterpolates`, for any identity HALD. `HaldImageIsHald` and `HaldInv` show that the image of a one-word string is one |
| `FormatJPG_proofs` | `TypeCorrect`, `FoundProfileIsWritten`, `CompleteProfileIsFound`, `ReaderKeepsImageOnly` | every marker that holds a piece of the profile is `PieceAt` its number (`FileInv`), each pass of the reader knows what it saw (`ScanInv`), where pieces start (`SumInv`) and which bytes are in (`FillInv`); `PiecesHoldAll` and `ByteHolds` say that numbers 1 to `Pieces` hold every byte once. When more pieces were written than a byte counts, the marker that is numbered 0 or repeated is noticed (`OverflowIsNoticed`), unless the file was edited |
| `HdrConv_proofs` | `TypeCorrect`, `NeverConvertedPartially`, `SkippingIsSafe` | of a file saved in one go by a careful saver, closed means whole; `LoopInv` carries that from the open that succeeded to the end of the conversion, because a saver that opens the file again does not save it in one go; `DoneInv` says that what is remembered or copied was converted |
| `Convert_proofs` | `HeapIsSafe`, `EverythingIsFreed`, `ExitCodeIsRight`, `CrashesAreKnown`, `FileIsAsAsked` | which pointers are set at which stage, and to what (`PointerInv`); what is alive is what they point to, each image with a profile of its own (`HeapInv`, along lemmas of what making and destroying do to a heap); the file and the exit code of each stage, by the class of the format (`ExitInv`); what `validateArgs` leaves of a request (`RequestInv`: grading leaves gamma or luminance open); what was done to the image so far (`OpsInv`), and how the source's description becomes that of the destination (`ContentInv`), where `GradeContent` compares the options as the code applies them with what they ask for |

The strengthened invariants are needed because the properties speak of the end (a profile
found, a run done) and the reasons are facts of earlier passes that are in no property.

`ImageString` is recursive over the words: sums, entries, pictures, color indices. The
induction theorems of the library take an operator and cannot be used. `Induction` is
stated of a set of natural numbers instead and follows from their being well-ordered
(`NatLessThanWellFounded`, `WFMin`); with it each recursive function is first shown to exist
(`SumsExist`, `FoldExists`, `PicturesExist`), then to satisfy its equation, then to have the
property wanted.

The assumptions on constants are `ASSUME`s that TLC evaluates in each run. Of
`MaxChannelAssumption` (`2^bits - 1` is positive and grows with the bits) the provers know
too little of powers to see it. `InputsAssumption` says that strings are
sequences of sequences of words, what cannot be read being alone in its stripe, and that
the levels of their HALDs are exact, `One` being a multiple of `n - 1`; with other levels the
division of the model would round where the code computes with floats. `NullAssumption`
says that the null pointer is neither a number nor a token.

Only model-checked: the liveness properties `Terminates`, `Returns` and `AloneConverted`
(temporal reasoning with fairness and `ENABLED` is beyond the prover), and the violated
properties.

## 6. Not modelled

- The readers and writers of AVIF, BMP, JP2, JXR, PNG, TIFF, WebP: each hands one buffer to
  a codec and back. How a writer fails, as far as the exit code and the file can tell, is in
  `Convert` (`Pretended`, `Write`). The reader of JXR releases neither its decoder nor the
  bytes of the profile; the writer of AVIF frees a buffer it has not initialized when the
  profile cannot be packed (`format_avif.c:204` jumps over line 278), which LittleCMS is
  taken never to do in `Convert`.
- `identify`, `generate`, `modify`, `highlight`, `report` and the programs `colorist`,
  `colorist-benchmark` and `colorist-yuv`: straight-line code over the parts above.
  `bin/colorist/main.c` calls functions such as `clFormatDetect` that are commented out in
  `context.c` at this commit. What `generate` draws is `ImageString`.
- `clImageApplyHALD` is not called (loading of `--hald` is commented out in
  `context_convert.c:85`); its lookup is modelled all the same.
- `colorist-hdrconv`: the wording of the clipboard's HTML, the names of files. An image
  that does not get to the clipboard is reported as copied: `Copy` has the outcomes, no
  property speaks of the report.
- `clFormatBestDepth` and the default quality of formats: tables.
- Diff, statistics, drawing, debug dumps: loops over pixels that keep counters.
- Codecs, LittleCMS, zlib: third party.
- Color math (transfer functions, matrices, the peak search of `clTransformCalcMaxY`, tone
  curves, resize filters): floating point without control to check.
- Out of memory: `clAllocate` does not return then.
- Int overflow of rectangles near `INT_MAX`: the rectangles enumerated are small.

## 7. Plan

1. `Commands`: exit codes and ownership of `modify`, `identify` and `highlight`, sharing
   the heap of `Convert`, when the program links again.
