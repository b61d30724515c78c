---------------------------- MODULE CommandLine ----------------------------
(***************************************************************************)
(* The command line tool (lzma_go/main.go) once its flags are accepted.    *)
(* Three goroutines stand in a chain: the feeder copies the input file     *)
(* into a pipe, the codec (the encoder of WriterSession or the decoder of  *)
(* ReaderSession, here by what they promise) reads that pipe and writes a  *)
(* second one, and main copies that into the output file, removes the      *)
(* input file and returns. log.Fatal in any of them ends the process at    *)
(* once and runs no deferred call.                                         *)
(*                                                                         *)
(* Data is counted in pieces: Size of them uncompressed; compressed, a     *)
(* header, a piece for each of those, and what the last flush of the       *)
(* encoder emits.                                                          *)
(***************************************************************************)
EXTENDS Integers

CONSTANTS Size,      \* bound: pieces of data
          Extra,     \* bound: pieces behind the end of a compressed stream, and that
                     \* a damaged one decodes to beyond Size
          LinkSize,  \* the size that Lstat gives of a symbolic link
          Kinds      \* the kinds of input file considered

ASSUME CommandLineAssumption ==
  /\ {Size, Extra, LinkSize} \subseteq Nat /\ Size > 0 /\ Extra > 0
  /\ Kinds \subseteq {"regular", "symlink", "intact", "trailing", "damaged", "cut"}

VARIABLES args,      \* the flags: decompress, keep, and stdout (with stdin or not)
          file,      \* the input file: its kind and length, and if it is present
          out,       \* the output file: if it exists, and pieces in it
          feeder,    \* where the feeder is: "open", "copy", "wait", "done"
          fed,       \* pieces it has read from the file
          declared,  \* the size it gives to NewWriterSizeLevel
          first,     \* pipe into the codec: pieces left of the write in progress,
                     \* how the write end was closed, and if the read end was
          codec,     \* pieces read and written, and if the codec has returned
          second,    \* pipe out of the codec
          main,      \* where main is: "create", "copy", "remove", "return", "end"
          exit       \* the exit status, Running as long as there is none

toolVars == <<args, file, out, feeder, fed, declared, first, codec, second, main, exit>>

Running == -1
Unknown == -1   \* the size, when it is not known in advance
Stream == Size + 2

Least(a, b) == IF a < b THEN a ELSE b

\* The files of a kind: a stream that was cut has lost its end, one that is damaged
\* may hold anything.
FileLengths(kind) == CASE kind \in {"regular", "symlink"} -> {Size}
                       [] kind = "intact" -> {Stream}
                       [] kind = "trailing" -> {Stream + Extra}
                       [] kind = "cut" -> 0..(Stream - 1)
                       [] kind = "damaged" -> 0..(Stream + Extra)

OpenPipe == [left |-> 0, end |-> "open", closed |-> FALSE]

ToolInit ==
  /\ args \in [decompress : BOOLEAN, keep : BOOLEAN, stdout : BOOLEAN, stdin : BOOLEAN]
  /\ args.stdout => ~args.keep
  /\ args.stdin => args.stdout
  /\ \E kind \in Kinds, n \in 0..(Stream + Extra) :
       /\ args.decompress <=> kind \notin {"regular", "symlink"}
       /\ args.stdin => kind # "symlink"
       /\ n \in FileLengths(kind)
       /\ file = [kind |-> kind, len |-> n, present |-> TRUE]
  /\ out = [exists |-> FALSE, n |-> 0]
  /\ feeder = "open" /\ fed = 0 /\ declared = Unknown
  /\ first = OpenPipe /\ second = OpenPipe
  /\ codec = [got |-> 0, made |-> 0, done |-> FALSE]
  /\ main = "create" /\ exit = Running

\* log.Fatal.
Fatal == exit' = 1 /\ UNCHANGED <<args, file, out, feeder, fed, declared, first, codec,
                                  second, main>>
-----------------------------------------------------------------------------
(* The feeder. A write to a pipe is in progress as long as pieces of it    *)
(* are left, and its goroutine waits.                                      *)

\* Lstat, not Stat: of a symbolic link it is the link's own size.
Open ==
  /\ feeder = "open"
  /\ feeder' = "copy"
  /\ declared' = CASE args.decompress \/ args.stdin -> Unknown
                   [] file.kind = "symlink" -> LinkSize
                   [] OTHER -> file.len
  /\ UNCHANGED <<args, file, out, fed, first, codec, second, main, exit>>

OpenFails == feeder = "open" /\ ~args.stdin /\ Fatal

\* A turn of io.Copy.
FeedSome ==
  /\ feeder = "copy" /\ first.left = 0 /\ fed < file.len
  /\ \E n \in 1..(file.len - fed) :
       first' = [first EXCEPT !.left = n] /\ fed' = fed + n
  /\ UNCHANGED <<args, file, out, feeder, declared, codec, second, main, exit>>

\* Mutant: the goroutine returns on an error, and so runs its deferred calls.
ReadFailsReturns ==
  /\ feeder = "copy" /\ first.left = 0
  /\ feeder' = "wait" /\ first' = [first EXCEPT !.end = "eof"]
  /\ UNCHANGED <<args, file, out, fed, declared, codec, second, main, exit>>

\* The file cannot be read.
ReadFails == feeder = "copy" /\ first.left = 0 /\ Fatal

\* The pipe is closed under the write: by main, when it returns.
FeedFails == feeder = "copy" /\ first.left > 0 /\ first.closed /\ Fatal

\* io.Copy returns nil. The first deferred call closes the codec's input: in
\* compression z.Close, which then waits for the encoder to return.
FeedEnds ==
  /\ feeder = "copy" /\ first.left = 0 /\ fed = file.len
  /\ first' = [first EXCEPT !.end = "eof"]
  /\ feeder' = IF args.decompress THEN "done" ELSE "wait"
  /\ UNCHANGED <<args, file, out, fed, declared, codec, second, main, exit>>

\* Mutant: nothing closes the pipe that main reads from.
FeederLeaves ==
  /\ feeder = "wait" /\ codec.done
  /\ feeder' = "done"
  /\ UNCHANGED <<args, file, out, fed, declared, first, codec, second, main, exit>>

\* z.Close has returned; inFile.Close and pw.Close follow.
FeederClosesPipe ==
  /\ feeder = "wait" /\ codec.done
  /\ second' = [second EXCEPT !.end = "eof"]
  /\ feeder' = "done"
  /\ UNCHANGED <<args, file, out, fed, declared, first, codec, main, exit>>

Feeder == \/ Open \/ OpenFails \/ FeedSome \/ ReadFails \/ FeedFails
          \/ FeedEnds \/ FeederClosesPipe
-----------------------------------------------------------------------------
(* The codec. It does not go on while a write of its own is in progress.   *)

\* Mutant: the decoder is through with less than the encoder's flush has emitted.
NeedsInputShort == codec.got < Stream - 1

\* The decoder reads on until it has the last piece of the stream: the range
\* decoder needs all of what flush emits, and never more. In damaged code there is
\* no telling.
NeedsInput == file.kind = "damaged" \/ codec.got < Stream

CodecReads ==
  /\ ~codec.done /\ second.left = 0 /\ first.left > 0
  /\ IF args.decompress THEN NeedsInput ELSE codec.made > 0
  /\ \E n \in 1..first.left :
       /\ first' = [first EXCEPT !.left = @ - n]
       /\ codec' = [codec EXCEPT !.got = @ + n]
  /\ UNCHANGED <<args, file, out, feeder, fed, declared, second, main, exit>>

\* All the input there is has been read.
InputEnds == first.left = 0 /\ first.end = "eof"

\* What can be written at most: the encoder writes the header before it reads,
\* and the last piece when it has seen the end; the decoder has nothing to
\* write for the header. Damaged code decodes to whatever it may.
Producible ==
  CASE ~args.decompress       -> codec.got + (IF InputEnds THEN 2 ELSE 1)
    [] file.kind = "damaged"  -> IF codec.got > 1 THEN Size + Extra ELSE 0
    [] OTHER                  -> Least(codec.got - 1, Size)

CodecWrites ==
  /\ ~codec.done /\ second.left = 0
  /\ \E n \in 1..(Producible - codec.made) :
       /\ second' = [second EXCEPT !.left = n]
       /\ codec' = [codec EXCEPT !.made = @ + n]
  /\ UNCHANGED <<args, file, out, feeder, fed, declared, first, main, exit>>

CodecReturns(end) ==
  /\ ~codec.done /\ second.left = 0
  /\ codec' = [codec EXCEPT !.done = TRUE]
  /\ second' = [second EXCEPT !.end = end]
  /\ UNCHANGED <<args, file, out, feeder, fed, declared, first, main, exit>>

\* The encoder leaves the pipe open: it belongs to the feeder.
EncoderEnds == /\ ~args.decompress /\ InputEnds /\ codec.made = Producible
               /\ CodecReturns("open")

\* The size is reached or the end marker found: in damaged code anywhere behind the
\* header, whatever it has been decoded to. Nothing is checked.
DecoderEnds == /\ args.decompress
               /\ \/ ~NeedsInput /\ codec.made = Producible
                  \/ file.kind = "damaged" /\ codec.got > 0
               /\ CodecReturns("eof")

\* The input ends inside the stream, or a damaged one goes on beyond its end: io.EOF,
\* but io.ErrUnexpectedEOF within the header. What was decoded and not yet written
\* is lost.
DecoderStarves == /\ args.decompress /\ InputEnds /\ NeedsInput
                  /\ \/ CodecReturns("eof")
                     \/ codec.got = 0 /\ CodecReturns("error")

\* Damage that the decoder notices.
DecoderFails == /\ args.decompress /\ file.kind = "damaged" /\ codec.got > 0
                /\ CodecReturns("error")

Codec == CodecReads \/ CodecWrites \/ EncoderEnds \/ DecoderEnds \/ DecoderStarves \/ DecoderFails
-----------------------------------------------------------------------------
(* main, after it has started the others. *)

Create ==
  /\ main = "create" /\ main' = "copy"
  /\ out' = [out EXCEPT !.exists = ~args.stdout]
  /\ UNCHANGED <<args, file, feeder, fed, declared, first, codec, second, exit>>

CreateFails == main = "create" /\ ~args.stdout /\ Fatal

CopyOut ==
  /\ main = "copy" /\ second.left > 0
  /\ \E n \in 1..second.left :
       /\ second' = [second EXCEPT !.left = @ - n]
       /\ out' = [out EXCEPT !.n = @ + n]
  /\ UNCHANGED <<args, file, feeder, fed, declared, first, codec, main, exit>>

\* The output file takes no more.
CopyFails == main = "copy" /\ second.left > 0 /\ Fatal

\* io.Copy returns nil at EOF, else the decoder's error.
CopyEnds ==
  /\ main = "copy" /\ second.left = 0
  /\ \/ /\ second.end = "eof"
        /\ main' = IF args.stdout \/ args.keep THEN "return" ELSE "remove"
        /\ UNCHANGED <<args, file, out, feeder, fed, declared, first, codec, second, exit>>
     \/ second.end = "error" /\ Fatal

Remove ==
  /\ main = "remove" /\ main' = "return"
  /\ file' = [file EXCEPT !.present = FALSE]
  /\ UNCHANGED <<args, out, feeder, fed, declared, first, codec, second, exit>>

RemoveFails == main = "remove" /\ Fatal

\* The deferred calls: in compression pr.Close closes the second pipe; in
\* decompression z.Close does and pr.Close closes the first. (When the codec
\* has returned, as it has here, the second is of no interest to anybody.)
MainReturns ==
  /\ main = "return" /\ main' = "end"
  /\ IF args.decompress
     THEN first' = [first EXCEPT !.closed = TRUE] /\ second' = [second EXCEPT !.closed = TRUE]
     ELSE second' = [second EXCEPT !.closed = TRUE] /\ UNCHANGED first
  /\ UNCHANGED <<args, file, out, feeder, fed, declared, codec, exit>>

Exit ==
  /\ main = "end" /\ exit' = 0
  /\ UNCHANGED <<args, file, out, feeder, fed, declared, first, codec, second, main>>

Main == \/ Create \/ CreateFails \/ CopyOut \/ CopyFails \/ CopyEnds
        \/ Remove \/ RemoveFails \/ MainReturns \/ Exit
-----------------------------------------------------------------------------
ToolNext == exit = Running /\ (Feeder \/ Codec \/ Main)

ToolSpec == ToolInit /\ [][ToolNext]_toolVars

\* No goroutine waits forever for its turn; a read of a file returns.
FairToolSpec == /\ ToolSpec
                /\ WF_toolVars(exit = Running /\ Feeder)
                /\ WF_toolVars(exit = Running /\ Codec)
                /\ WF_toolVars(exit = Running /\ Main)
-----------------------------------------------------------------------------
\* The output is what the input file stands for: all of its data, or all of a
\* stream from which a decoder restores it.
Whole == IF args.decompress THEN out.n = Size
         ELSE out.n = Stream /\ declared \in {Unknown, Size}

\* The streams of which the decoder need not notice that they are not as they were
\* written.
Spoilt == {"cut", "damaged"}

\* The input file is gone only when the codec has come to an end that it takes for a
\* success and all that it made is in the output file: whatever fails on the way, in
\* whichever goroutine, main does not take for the end. And that is the whole of it,
\* but for a stream that is cut or damaged, of which the decoder may say nothing.
RemovedOnlyIfWhole ==
  ~file.present => /\ out.exists /\ second.end = "eof" /\ out.n = codec.made
                   /\ file.kind \notin Spoilt => Whole

\* When main closes the pipe that the decoder read from, the feeder is done with
\* its last write: the decoder has taken every byte of the stream, though nothing
\* but the stream tells it where that ends. A write still in progress would fail,
\* and the process would end with status 1 or 0, whichever goroutine came first,
\* after it had removed its input. (That is what does happen when there is
\* something behind the end of the stream, or what is damaged ends early.)
NothingLeftInPipe ==
  first.closed /\ file.kind \notin {"trailing", "damaged"} => first.left = 0

\* The tool ends, whatever the file: no goroutine is waited for that waits itself.
Exits == <>(exit # Running)

\* The size in the header is the size of the data ("size is the actual size of
\* uncompressed data that's going to be written").
HeaderTellsSize == fed = file.len /\ ~args.decompress => declared \in {Unknown, fed}
=============================================================================
