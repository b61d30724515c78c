--------------------------- MODULE ReaderSession ---------------------------
(***************************************************************************)
(* NewReader (lzma_decoder.go): a goroutine runs decoder(r, pw) and closes *)
(* the write end of an io.Pipe with the error it ends with; the caller     *)
(* holds the read end.                                                     *)
(*                                                                         *)
(* Bytes are counted, not carried: OutWindow shows that what is flushed is *)
(* what was decoded, in order. What r can give by now is in `source',      *)
(* which others change (Pipeline): code for so many bytes, which may stop  *)
(* short of the end of the stream, and may be damaged. Nothing checks it:  *)
(* damaged code decodes to other packets, any of which may be wrong, be an *)
(* end marker, or go on beyond the end of r. The pipe is io.Pipe: no       *)
(* buffer, a Write waits until Reads have taken all its bytes or an end is *)
(* closed.                                                                 *)
(***************************************************************************)
EXTENDS Integers

CONSTANTS Total,      \* bytes that the whole stream decodes to
          WinSize,    \* winSize of the output window, by the header that was written
          MaxCopy,    \* bound: bytes of one packet (273 in the code)
          MaxRead,    \* bound: bytes the caller asks for in one Read
          MaxDamaged, \* bound: bytes that damaged code decodes to
          Sizes,      \* bound: sizes and windows that a damaged header asks for
          Windows

ASSUME ReaderAssumption == /\ Total \in Nat
                           /\ WinSize \in Nat \ {0}
                           /\ MaxCopy \in Nat \ {0} /\ MaxRead \in Nat \ {0}
                           /\ MaxDamaged \in Nat
                           /\ Sizes \subseteq Nat /\ Windows \subseteq Nat \ {0}

VARIABLES source,     \* r: how many bytes the code it has given stands for, and its
                      \* end: "open", "whole", or the error behind what is there;
                      \* and if it is damaged
          dpc,        \* where the goroutine is
          sized,      \* the header was written with the size; otherwise an end
                      \* marker ends the stream
          unpackSize, \* the size the decoder finds in the header
          winSize,    \* and the window it makes by it
          nowPos,     \* bytes decoded
          todo,       \* bytes of the packet being stored in the window
          unflushed,  \* bytes in the window that are not written out
          writing,    \* bytes of the pw.Write in progress not yet taken
          err,        \* what decoder returns, once it does
          cut,        \* r ended before the stream did
          werr,       \* the error the write end was closed with, or none
          rerr,       \* the error the read end was closed with, or none
          delivered,  \* bytes the caller has received
          result      \* the first error of a Read, or none

readerVars == <<dpc, sized, unpackSize, winSize, nowPos, todo, unflushed, writing, err,
                cut, werr, rerr, delivered, result>>

none == "nil"
Nothing == -1           \* bytes in r when not even the header is there
NoSize == -1            \* any negative size: only a marker ends the stream

ReaderInit ==
  /\ source = [n |-> Nothing, end |-> "open", damaged |-> FALSE]
  /\ dpc = "header" /\ sized \in BOOLEAN
  /\ unpackSize = (IF sized THEN Total ELSE NoSize) /\ winSize = WinSize
  /\ nowPos = 0 /\ todo = 0 /\ unflushed = 0 /\ writing = 0
  /\ err = none /\ cut = FALSE
  /\ werr = none /\ rerr = none
  /\ delivered = 0 /\ result = none

\* throw(e), caught by handlePanics, or a plain return of e.
Return(e) == dpc' = "return" /\ err' = e

Others == <<source, rerr, delivered, result>>
Header == <<sized, unpackSize, winSize>>
Window == <<nowPos, todo, unflushed, writing>>

\* r has an end that is not the stream's: its own error, or EOF; that it is
\* EOF is noted.
SourceFails == /\ source.end \in {"EOF", "read error"}
               /\ cut' = (source.end = "EOF")

\* io.ReadFull: EOF in the middle of what it reads becomes ErrUnexpectedEOF.
ReadFullFails ==
  /\ SourceFails
  /\ \E e \in {source.end} \cup IF source.end = "EOF" THEN {"ErrUnexpectedEOF"} ELSE {} :
       Return(e)

\* The thirteen bytes of the header, and decodeProps, which may accept a damaged
\* one, with another size and another dictionary in it.
ReadHeader ==
  /\ dpc = "header"
  /\ \/ /\ source.n >= 0 /\ dpc' = "init" /\ UNCHANGED <<err, cut>>
        /\ \/ UNCHANGED Header
           \/ /\ source.damaged /\ UNCHANGED sized
              /\ unpackSize' \in {NoSize} \cup Sizes /\ winSize' \in Windows
     \/ /\ source.n >= 0 /\ source.damaged /\ Return("headerError")
        /\ UNCHANGED <<cut, Header>>
     \/ source.n = Nothing /\ ReadFullFails /\ UNCHANGED Header
  /\ UNCHANGED <<Window, werr, Others>>

\* newRangeDecoder: the five bytes that the range coder starts with.
ReadInit ==
  /\ dpc = "init"
  /\ \/ /\ source.n > 0 \/ source.end = "whole"
        /\ dpc' = "decode" /\ UNCHANGED <<err, cut>>
     \/ source.n = 0 /\ ReadFullFails
  /\ UNCHANGED <<Header, Window, werr, Others>>

More == unpackSize >= 0 => nowPos < unpackSize

\* The bytes that r's code decodes to: of damaged code, any number.
Decodable == IF source.damaged THEN MaxDamaged ELSE source.n

\* One turn of doDecode's loop, up to what it stores in the window: the packet
\* is decoded, or is found wrong, or r ends (ReadByte: EOF) or fails inside it. A
\* whole r does not end inside a packet, unless it is damaged.
ReadPacket ==
  /\ dpc = "decode" /\ todo = 0 /\ More
  /\ \/ /\ \E n \in 1..MaxCopy : nowPos + n <= Decodable /\ todo' = n
        /\ UNCHANGED <<dpc, err, cut>>
     \/ source.damaged /\ Return("streamError") /\ UNCHANGED <<todo, cut>>
     \/ /\ source.damaged \/ source.n < nowPos + MaxCopy
        /\ Return(source.end) /\ SourceFails /\ UNCHANGED todo
     \/ /\ source.damaged /\ source.end = "whole"
        /\ Return("EOF") /\ UNCHANGED <<todo, cut>>
  /\ UNCHANGED <<Header, nowPos, unflushed, writing, werr, Others>>

\* Mutant: the window is written one byte too late.
StoreByteLate ==
  /\ dpc = "decode" /\ todo > 0
  /\ nowPos' = nowPos + 1 /\ todo' = todo - 1
  /\ unflushed' = unflushed + 1
  /\ IF unflushed' > winSize
     THEN dpc' = "write" /\ writing' = unflushed'
     ELSE UNCHANGED <<dpc, writing>>
  /\ UNCHANGED <<Header, err, cut, werr, Others>>

\* putByte, or one byte of copyBlock: a full window is written to the pipe.
StoreByte ==
  /\ dpc = "decode" /\ todo > 0
  /\ nowPos' = nowPos + 1 /\ todo' = todo - 1
  /\ unflushed' = unflushed + 1
  /\ IF unflushed' >= winSize
     THEN dpc' = "write" /\ writing' = unflushed'
     ELSE UNCHANGED <<dpc, writing>>
  /\ UNCHANGED <<Header, err, cut, werr, Others>>

\* The next packet is an end marker: at the end of a stream without a size, and
\* anywhere in damaged code.
EndMarker == \/ source.damaged
             \/ ~sized /\ source.end = "whole" /\ nowPos = source.n

AtEnd == dpc = "decode" /\ todo = 0 /\ (More => EndMarker)

\* Mutant: doDecode returns without the last flush.
EndWithoutFlush ==
  /\ AtEnd
  /\ Return(none)
  /\ UNCHANGED <<Header, Window, cut, werr, Others>>

\* The size is reached or the end marker decoded: the last flush.
EndOfStream ==
  /\ AtEnd
  /\ IF unflushed = 0
     THEN Return(none) /\ UNCHANGED writing
     ELSE dpc' = "lastWrite" /\ writing' = unflushed /\ UNCHANGED err
  /\ UNCHANGED <<Header, nowPos, todo, unflushed, cut, werr, Others>>

InWrite == dpc \in {"write", "lastWrite"}

\* Mutant: pw.Write sees a closed read end only before its first byte is taken.
PipeFailsOnEntry ==
  /\ InWrite /\ rerr # none /\ writing = unflushed
  /\ Return(rerr) /\ writing' = 0
  /\ UNCHANGED <<Header, nowPos, todo, unflushed, cut, werr, Others>>

\* pw.Write when the caller has closed the read end: flush throws its error.
PipeFails ==
  /\ InWrite /\ rerr # none
  /\ Return(rerr) /\ writing' = 0
  /\ UNCHANGED <<Header, nowPos, todo, unflushed, cut, werr, Others>>

\* Mutant: the goroutine ends without closing the pipe when all went well.
CloseOnlyOnError ==
  /\ dpc = "return"
  /\ dpc' = "ended" /\ werr' = err
  /\ UNCHANGED <<Header, Window, err, cut, Others>>

\* pw.CloseWithError(err): nil is stored as EOF.
CloseWriteEnd ==
  /\ dpc = "return"
  /\ dpc' = "ended"
  /\ werr' = IF err = none THEN "EOF" ELSE err
  /\ UNCHANGED <<Header, Window, err, cut, Others>>

Decoder == \/ ReadHeader \/ ReadInit \/ ReadPacket \/ StoreByte
           \/ EndOfStream \/ PipeFails \/ CloseWriteEnd
-----------------------------------------------------------------------------
(***************************************************************************)
(* The caller, who reads until an error and may close at any moment.       *)
(***************************************************************************)
\* A Read that meets a Write takes some of its bytes; the Write that has none
\* left returns, and flush with it.
Read ==
  /\ InWrite /\ rerr = none /\ result = none
  /\ \E n \in 1..MaxRead :
       LET taken == IF n < writing THEN n ELSE writing
       IN  /\ delivered' = delivered + taken
           /\ writing' = writing - taken
  /\ IF writing' > 0
     THEN UNCHANGED <<dpc, unflushed, err>>
     ELSE /\ unflushed' = 0
          /\ IF dpc = "write" THEN dpc' = "decode" /\ UNCHANGED err
                             ELSE Return(none)
  /\ UNCHANGED <<source, Header, nowPos, todo, cut, werr, rerr, result>>

\* A Read of a pipe that is closed at either end.
ReadClosed ==
  /\ result = none /\ (werr # none \/ rerr # none)
  /\ result' = IF rerr = none THEN werr ELSE "ErrClosedPipe"
  /\ UNCHANGED <<source, dpc, Header, Window, err, cut, werr, rerr, delivered>>

CloseReader ==
  /\ rerr = none
  /\ rerr' = "ErrClosedPipe"
  /\ UNCHANGED <<source, dpc, Header, Window, err, cut, werr, delivered, result>>

ReaderNext == Decoder \/ Read \/ ReadClosed \/ CloseReader
=============================================================================
