--------------------------- MODULE PipelineProofs ---------------------------
(***************************************************************************)
(* Proofs about the chains of goroutines: the two sessions and the         *)
(* pipeline they form, for every amount of data and every size of the      *)
(* windows, writes, reads and packets, and then the command line tool,     *)
(* which is a specification of its own (ToolSpec).                         *)
(*                                                                         *)
(* The invariant of the writer counts its bytes (Accounted) and says when  *)
(* the encoder may take the input for ended (EndSeen) and the stream for   *)
(* complete (Sealing). That of the reader counts what is decoded (Counted) *)
(* and says what it means that the decoder has come to an end (AtItsEnd,   *)
(* when the code is as it was sent) and of which kind (Closing). Between the two, r never has more than w   *)
(* got (Between).                                                          *)
(***************************************************************************)
EXTENDS Pipeline, CommandLine, TLAPS

(***************************************************************************)
(* The writer's side.                                                      *)
(***************************************************************************)
Amounts ==
  /\ offered \in Nat /\ written \in Nat
  /\ ahead \in Nat /\ looked \in Nat /\ buffered \in Nat
  /\ coded \in Nat \cup {NoHeader}

Phases ==
  /\ caller \in {"open", "writing", "closing", "closed"}
  /\ pc \in {"header", "fill", "code", "return", "token", "ended"}
  /\ pipe \in {"open", "eof", "broken"}
  /\ callerErr \in BOOLEAN /\ inputEnd \in BOOLEAN
  /\ sealed \in BOOLEAN /\ failed \in BOOLEAN /\ token \in BOOLEAN

WriterTypes == Amounts /\ Phases

\* Every byte taken from the caller is ahead of the encoder, looked at or coded.
Accounted ==
  /\ pc = "header" => coded = NoHeader /\ ~failed
  /\ pc \in {"fill", "code"} => coded # NoHeader
  /\ coded = NoHeader =>
       written = 0 /\ ahead = 0 /\ looked = 0 /\ buffered = 0 /\ ~inputEnd
  /\ coded # NoHeader => written = coded + looked + ahead /\ buffered <= coded

Closed == caller \in {"closing", "closed"}

\* The caller's Close is what makes the end of the input; a Write and a Close
\* exclude each other.
CallerWaits == /\ caller = "writing" <=> offered > 0
               /\ pipe = "eof" => Closed
               /\ inputEnd => Closed

\* As long as the end of the input has not been seen there are bytes that the
\* encoder holds back.
EndSeen == /\ pc = "fill" => ~inputEnd
           /\ pc = "code" => inputEnd \/ ahead >= KeepAfter
           /\ coded > 0 /\ ~inputEnd => looked + ahead > 0

\* The encoder returns with an error or when w has the whole stream, and the
\* token follows.
Sealing ==
  /\ sealed => /\ inputEnd /\ ahead = 0 /\ looked = 0 /\ buffered = 0
               /\ coded # NoHeader
               /\ pc \in {"return", "token", "ended"}
  /\ pc \in {"return", "token", "ended"} /\ ~failed => sealed
  /\ token \/ caller = "closed" => pc = "ended"

\* w never takes back what it has.
Grows == /\ Sent <= Sent'
         /\ coded # NoHeader => coded' # NoHeader
         /\ sealed => sealed' /\ coded' = coded

WriterInv == WriterTypes /\ Accounted /\ CallerWaits /\ EndSeen /\ Sealing
-----------------------------------------------------------------------------
(***************************************************************************)
(* The reader's side.                                                      *)
(***************************************************************************)
Errors == {"headerError", "streamError", "EOF", "ErrUnexpectedEOF", "read error",
           "ErrClosedPipe"}

SourceType ==
  source \in [n : Nat \cup {Nothing}, end : {"open", "whole", "EOF", "read error"},
             damaged : BOOLEAN]

Counts == /\ nowPos \in Nat /\ todo \in Nat /\ unflushed \in Nat
          /\ writing \in Nat /\ delivered \in Nat
          /\ winSize \in Nat \ {0} /\ unpackSize \in Nat \cup {NoSize}

Ends ==
  /\ dpc \in {"header", "init", "decode", "write", "lastWrite", "return", "ended"}
  /\ err \in Errors \cup {none} /\ werr \in Errors \cup {none}
  /\ rerr \in {none, "ErrClosedPipe"} /\ result \in Errors \cup {none}
  /\ sized \in BOOLEAN /\ cut \in BOOLEAN

ReaderTypes == SourceType /\ Counts /\ Ends

\* What is decoded is delivered, or in the window, or in the Write in progress.
Counted ==
  /\ dpc \in {"header", "init"} => unflushed = 0
  /\ dpc \in {"header", "init", "decode"} =>
       delivered + unflushed = nowPos /\ unflushed < winSize /\ writing = 0
  /\ InWrite => delivered + writing = nowPos /\ writing > 0
  /\ dpc \in {"return", "ended"} /\ rerr = none =>
       delivered + unflushed = nowPos /\ unflushed < winSize

\* The decoder has decoded all that the header or the end marker tells it to.
Done == /\ source.n > 0 \/ source.end = "whole"
        /\ sized => nowPos >= Total
        /\ ~sized => source.end = "whole" /\ nowPos = source.n

\* As long as nothing is damaged, the decoder has the header that was sent, behind it
\* there is code, and a decoder that returns nil has come to the end of it and has
\* delivered everything.
AtItsEnd ==
  ~source.damaged =>
    /\ unpackSize = (IF sized THEN Total ELSE NoSize)
    /\ dpc \in {"decode", "write", "lastWrite"} => source.n > 0 \/ source.end = "whole"
    /\ source.n = Nothing => nowPos + todo = 0
    /\ source.n # Nothing => nowPos + todo <= source.n
    /\ dpc = "lastWrite" => Done
    /\ dpc \in {"return", "ended"} /\ err = none => Done /\ delivered = nowPos

\* How the decoder's end becomes the caller's.
Closing ==
  /\ err = "EOF" => cut \/ source.damaged
  /\ dpc \notin {"return", "ended"} => err = none
  /\ dpc # "ended" => werr = none
  /\ dpc = "ended" /\ err = none => werr = "EOF"
  /\ dpc = "ended" /\ err # none => werr = err
  /\ result # none /\ rerr = none => dpc = "ended"
  /\ result = "EOF" => dpc = "ended" /\ werr = "EOF"

ReaderInv == ReaderTypes /\ Counted /\ AtItsEnd /\ Closing
-----------------------------------------------------------------------------
\* r has only what w has got, and its end only when w has the stream's. A size is
\* not exceeded.
Between ==
  /\ source.n # Nothing => coded # NoHeader /\ source.n <= Sent
  /\ source.end = "whole" => sealed /\ source.n = coded
  /\ sized => written + offered <= Total

IInv == WriterInv /\ ReaderInv /\ Between
-----------------------------------------------------------------------------
LEMMA WriterInitOk == WriterInit => WriterInv
<1> SUFFICES ASSUME WriterInit PROVE WriterInv
  OBVIOUS
<1>1. Amounts
  BY DEF WriterInit, Amounts, NoHeader
<1>2. Phases
  BY DEF WriterInit, Phases
<1>3. Accounted
  BY DEF WriterInit, Accounted, NoHeader
<1>4. CallerWaits /\ EndSeen /\ Sealing
  BY DEF WriterInit, CallerWaits, Closed, EndSeen, Sealing, NoHeader
<1> QED
  BY <1>1, <1>2, <1>3, <1>4 DEF WriterInv, WriterTypes

\* A step of the encoder or its caller; w never takes back what it has.
LEMMA WriterStep ==
  ASSUME WriterInv, WriterNext
  PROVE  WriterInv' /\ Grows
<1> USE SessionAssumption DEF Caller, NoHeader
<1>0. Amounts /\ Phases /\ Accounted /\ CallerWaits /\ EndSeen /\ Sealing
  BY DEF WriterInv, WriterTypes
<1>1. CASE WriteHeader
  <2>1. Amounts'
    BY <1>0, <1>1 DEF WriteHeader, Fail, Amounts, Accounted
  <2>2. Phases'
    BY <1>0, <1>1 DEF WriteHeader, Fail, Phases
  <2>3. Accounted'
    BY <1>0, <1>1 DEF WriteHeader, Fail, Amounts, Phases, Accounted
  <2>4. CallerWaits'
    BY <1>0, <1>1 DEF WriteHeader, Fail, Amounts, Phases, CallerWaits, Closed
  <2>5. EndSeen'
    BY <1>0, <1>1 DEF WriteHeader, Fail, Amounts, Phases, Accounted, EndSeen
  <2>6. Sealing'
    BY <1>0, <1>1 DEF WriteHeader, Fail, Amounts, Phases, Accounted, EndSeen, Sealing
  <2>7. Grows
    BY <1>0, <1>1
       DEF WriteHeader, Fail, Amounts, Phases, Accounted, Sealing, Grows, Sent
  <2> QED
    BY <2>1, <2>2, <2>3, <2>4, <2>5, <2>6, <2>7 DEF WriterInv, WriterTypes
<1>2. CASE TakeInput
  <2>1. Amounts'
    BY <1>0, <1>2 DEF TakeInput, Amounts, Accounted
  <2>2. Phases'
    BY <1>0, <1>2 DEF TakeInput, Phases
  <2>3. Accounted'
    BY <1>0, <1>2 DEF TakeInput, Amounts, Phases, Accounted
  <2>4. CallerWaits'
    BY <1>0, <1>2 DEF TakeInput, Amounts, Phases, CallerWaits, Closed
  <2>5. EndSeen'
    BY <1>0, <1>2 DEF TakeInput, Amounts, Phases, Accounted, EndSeen
  <2>6. Sealing'
    BY <1>0, <1>2 DEF TakeInput, Amounts, Phases, Accounted, EndSeen, Sealing
  <2>7. Grows
    BY <1>0, <1>2 DEF TakeInput, Amounts, Phases, Accounted, Sealing, Grows, Sent
  <2> QED
    BY <2>1, <2>2, <2>3, <2>4, <2>5, <2>6, <2>7 DEF WriterInv, WriterTypes
<1>3. CASE EndInput
  <2>1. Amounts'
    BY <1>0, <1>3 DEF EndInput, Amounts, Accounted
  <2>2. Phases'
    BY <1>0, <1>3 DEF EndInput, Phases
  <2>3. Accounted'
    BY <1>0, <1>3 DEF EndInput, Amounts, Phases, Accounted
  <2>4. CallerWaits'
    BY <1>0, <1>3 DEF EndInput, Amounts, Phases, CallerWaits, Closed
  <2>5. EndSeen'
    BY <1>0, <1>3 DEF EndInput, Amounts, Phases, Accounted, EndSeen
  <2>6. Sealing'
    BY <1>0, <1>3 DEF EndInput, Amounts, Phases, Accounted, EndSeen, Sealing
  <2>7. Grows
    BY <1>0, <1>3 DEF EndInput, Amounts, Phases, Accounted, Sealing, Grows, Sent
  <2> QED
    BY <2>1, <2>2, <2>3, <2>4, <2>5, <2>6, <2>7 DEF WriterInv, WriterTypes
<1>4. CASE WindowFull
  <2>1. Amounts'
    BY <1>0, <1>4 DEF WindowFull, Amounts, Accounted
  <2>2. Phases'
    BY <1>0, <1>4 DEF WindowFull, Phases
  <2>3. Accounted'
    BY <1>0, <1>4 DEF WindowFull, Amounts, Phases, Accounted
  <2>4. CallerWaits'
    BY <1>0, <1>4 DEF WindowFull, Amounts, Phases, CallerWaits, Closed
  <2>5. EndSeen'
    BY <1>0, <1>4 DEF WindowFull, Amounts, Phases, Accounted, EndSeen
  <2>6. Sealing'
    BY <1>0, <1>4 DEF WindowFull, Amounts, Phases, Accounted, EndSeen, Sealing
  <2>7. Grows
    BY <1>0, <1>4 DEF WindowFull, Amounts, Phases, Accounted, Sealing, Grows, Sent
  <2> QED
    BY <2>1, <2>2, <2>3, <2>4, <2>5, <2>6, <2>7 DEF WriterInv, WriterTypes
<1>5. CASE Look
  <2>1. Amounts'
    BY <1>0, <1>5 DEF Look, Amounts, Accounted
  <2>2. Phases'
    BY <1>0, <1>5 DEF Look, Phases
  <2>3. Accounted'
    BY <1>0, <1>5 DEF Look, Amounts, Phases, Accounted
  <2>4. CallerWaits'
    BY <1>0, <1>5 DEF Look, Amounts, Phases, CallerWaits, Closed
  <2>5. EndSeen'
    BY <1>0, <1>5 DEF Look, Amounts, Phases, Accounted, EndSeen
  <2>6. Sealing'
    BY <1>0, <1>5 DEF Look, Amounts, Phases, Accounted, EndSeen, Sealing
  <2>7. Grows
    BY <1>0, <1>5 DEF Look, Amounts, Phases, Accounted, Sealing, Grows, Sent
  <2> QED
    BY <2>1, <2>2, <2>3, <2>4, <2>5, <2>6, <2>7 DEF WriterInv, WriterTypes
<1>6. CASE CodePacket
  <2>1. Amounts'
    BY <1>0, <1>6 DEF CodePacket, Fail, Amounts, Accounted
  <2>2. Phases'
    BY <1>0, <1>6 DEF CodePacket, Fail, Phases
  <2>3. Accounted'
    BY <1>0, <1>6 DEF CodePacket, Fail, Amounts, Phases, Accounted
  <2>4. CallerWaits'
    BY <1>0, <1>6 DEF CodePacket, Fail, Amounts, Phases, CallerWaits, Closed
  <2>5. EndSeen'
    BY <1>0, <1>6 DEF CodePacket, Fail, Amounts, Phases, Accounted, EndSeen
  <2>6. Sealing'
    BY <1>0, <1>6 DEF CodePacket, Fail, Amounts, Phases, Accounted, EndSeen, Sealing
  <2>7. Grows
    <3>1. PICK n \in 1..MaxPacket : coded' = coded + n /\ buffered' \in 0..(buffered + n)
      BY <1>6 DEF CodePacket
    <3>2. pc = "code" /\ UNCHANGED sealed
      BY <1>6 DEF CodePacket
    <3>3. coded \in Nat /\ buffered \in Nat
      BY <1>0, <3>2 DEF Amounts, Accounted
    <3>4. n \in Nat /\ buffered' \in Int
      BY <3>1, <3>3
    <3>5. coded' = coded + n /\ coded' \in Nat /\ buffered' <= buffered + n
      BY <3>1, <3>3, <3>4
    <3>6. PICK b \in Int : buffered' = b
      BY <3>4
    <3>7. Sent <= Sent'
      BY <3>3, <3>4, <3>5, <3>6 DEF Sent
    <3> QED
      BY <1>0, <3>2, <3>5, <3>7 DEF Sealing, Grows
  <2> QED
    BY <2>1, <2>2, <2>3, <2>4, <2>5, <2>6, <2>7 DEF WriterInv, WriterTypes
<1>7. CASE Finish
  <2>1. Amounts'
    BY <1>0, <1>7 DEF Finish, Fail, Amounts, Accounted
  <2>2. Phases'
    BY <1>0, <1>7 DEF Finish, Fail, Phases
  <2>3. Accounted'
    BY <1>0, <1>7 DEF Finish, Fail, Amounts, Phases, Accounted
  <2>4. CallerWaits'
    BY <1>0, <1>7 DEF Finish, Fail, Amounts, Phases, CallerWaits, Closed
  <2>5. EndSeen'
    BY <1>0, <1>7 DEF Finish, Fail, Amounts, Phases, Accounted, EndSeen
  <2>6. Sealing'
    BY <1>0, <1>7 DEF Finish, Fail, Amounts, Phases, Accounted, EndSeen, Sealing
  <2>7. Grows
    BY <1>0, <1>7 DEF Finish, Fail, Amounts, Phases, Accounted, Sealing, Grows, Sent
  <2> QED
    BY <2>1, <2>2, <2>3, <2>4, <2>5, <2>6, <2>7 DEF WriterInv, WriterTypes
<1>8. CASE BreakPipe
  <2>1. Amounts'
    BY <1>0, <1>8 DEF BreakPipe, Amounts, Accounted
  <2>2. Phases'
    BY <1>0, <1>8 DEF BreakPipe, Phases
  <2>3. Accounted'
    BY <1>0, <1>8 DEF BreakPipe, Amounts, Phases, Accounted
  <2>4. CallerWaits'
    BY <1>0, <1>8 DEF BreakPipe, Amounts, Phases, CallerWaits, Closed
  <2>5. EndSeen'
    BY <1>0, <1>8 DEF BreakPipe, Amounts, Phases, Accounted, EndSeen
  <2>6. Sealing'
    BY <1>0, <1>8 DEF BreakPipe, Amounts, Phases, Accounted, EndSeen, Sealing
  <2>7. Grows
    BY <1>0, <1>8 DEF BreakPipe, Amounts, Phases, Accounted, Sealing, Grows, Sent
  <2> QED
    BY <2>1, <2>2, <2>3, <2>4, <2>5, <2>6, <2>7 DEF WriterInv, WriterTypes
<1>9. CASE SendToken
  <2>1. Amounts'
    BY <1>0, <1>9 DEF SendToken, Amounts, Accounted
  <2>2. Phases'
    BY <1>0, <1>9 DEF SendToken, Phases
  <2>3. Accounted'
    BY <1>0, <1>9 DEF SendToken, Amounts, Phases, Accounted
  <2>4. CallerWaits'
    BY <1>0, <1>9 DEF SendToken, Amounts, Phases, CallerWaits, Closed
  <2>5. EndSeen'
    BY <1>0, <1>9 DEF SendToken, Amounts, Phases, Accounted, EndSeen
  <2>6. Sealing'
    BY <1>0, <1>9 DEF SendToken, Amounts, Phases, Accounted, EndSeen, Sealing
  <2>7. Grows
    BY <1>0, <1>9 DEF SendToken, Amounts, Phases, Accounted, Sealing, Grows, Sent
  <2> QED
    BY <2>1, <2>2, <2>3, <2>4, <2>5, <2>6, <2>7 DEF WriterInv, WriterTypes
<1>10. CASE StartWrite
  <2>1. Amounts'
    BY <1>0, <1>10 DEF StartWrite, Goroutine, Amounts, Accounted
  <2>2. Phases'
    BY <1>0, <1>10 DEF StartWrite, Goroutine, Phases
  <2>3. Accounted'
    BY <1>0, <1>10 DEF StartWrite, Goroutine, Amounts, Phases, Accounted
  <2>4. CallerWaits'
    BY <1>0, <1>10 DEF StartWrite, Goroutine, Amounts, Phases, CallerWaits, Closed
  <2>5. EndSeen'
    BY <1>0, <1>10 DEF StartWrite, Goroutine, Amounts, Phases, Accounted, EndSeen
  <2>6. Sealing'
    BY <1>0, <1>10
       DEF StartWrite, Goroutine, Amounts, Phases, Accounted, EndSeen, Sealing
  <2>7. Grows
    BY <1>0, <1>10
       DEF StartWrite, Goroutine, Amounts, Phases, Accounted, Sealing, Grows, Sent
  <2> QED
    BY <2>1, <2>2, <2>3, <2>4, <2>5, <2>6, <2>7 DEF WriterInv, WriterTypes
<1>11. CASE WriteFails
  <2>1. Amounts'
    BY <1>0, <1>11 DEF WriteFails, Goroutine, Amounts, Accounted
  <2>2. Phases'
    BY <1>0, <1>11 DEF WriteFails, Goroutine, Phases
  <2>3. Accounted'
    BY <1>0, <1>11 DEF WriteFails, Goroutine, Amounts, Phases, Accounted
  <2>4. CallerWaits'
    BY <1>0, <1>11 DEF WriteFails, Goroutine, Amounts, Phases, CallerWaits, Closed
  <2>5. EndSeen'
    BY <1>0, <1>11 DEF WriteFails, Goroutine, Amounts, Phases, Accounted, EndSeen
  <2>6. Sealing'
    BY <1>0, <1>11
       DEF WriteFails, Goroutine, Amounts, Phases, Accounted, EndSeen, Sealing
  <2>7. Grows
    BY <1>0, <1>11
       DEF WriteFails, Goroutine, Amounts, Phases, Accounted, Sealing, Grows, Sent
  <2> QED
    BY <2>1, <2>2, <2>3, <2>4, <2>5, <2>6, <2>7 DEF WriterInv, WriterTypes
<1>12. CASE Close
  <2>1. Amounts'
    BY <1>0, <1>12 DEF Close, Goroutine, Amounts, Accounted
  <2>2. Phases'
    BY <1>0, <1>12 DEF Close, Goroutine, Phases
  <2>3. Accounted'
    BY <1>0, <1>12 DEF Close, Goroutine, Amounts, Phases, Accounted
  <2>4. CallerWaits'
    BY <1>0, <1>12 DEF Close, Goroutine, Amounts, Phases, CallerWaits, Closed
  <2>5. EndSeen'
    BY <1>0, <1>12 DEF Close, Goroutine, Amounts, Phases, Accounted, EndSeen
  <2>6. Sealing'
    BY <1>0, <1>12 DEF Close, Goroutine, Amounts, Phases, Accounted, EndSeen, Sealing
  <2>7. Grows
    BY <1>0, <1>12
       DEF Close, Goroutine, Amounts, Phases, Accounted, Sealing, Grows, Sent
  <2> QED
    BY <2>1, <2>2, <2>3, <2>4, <2>5, <2>6, <2>7 DEF WriterInv, WriterTypes
<1>13. CASE CloseReturns
  <2>1. Amounts'
    BY <1>0, <1>13 DEF CloseReturns, Goroutine, Amounts, Accounted
  <2>2. Phases'
    BY <1>0, <1>13 DEF CloseReturns, Goroutine, Phases
  <2>3. Accounted'
    BY <1>0, <1>13 DEF CloseReturns, Goroutine, Amounts, Phases, Accounted
  <2>4. CallerWaits'
    BY <1>0, <1>13 DEF CloseReturns, Goroutine, Amounts, Phases, CallerWaits, Closed
  <2>5. EndSeen'
    BY <1>0, <1>13 DEF CloseReturns, Goroutine, Amounts, Phases, Accounted, EndSeen
  <2>6. Sealing'
    BY <1>0, <1>13
       DEF CloseReturns, Goroutine, Amounts, Phases, Accounted, EndSeen, Sealing
  <2>7. Grows
    BY <1>0, <1>13
       DEF CloseReturns, Goroutine, Amounts, Phases, Accounted, Sealing, Grows, Sent
  <2> QED
    BY <2>1, <2>2, <2>3, <2>4, <2>5, <2>6, <2>7 DEF WriterInv, WriterTypes
<1> QED
  BY <1>1, <1>2, <1>3, <1>4, <1>5, <1>6, <1>7, <1>8, <1>9, <1>10, <1>11, <1>12, <1>13
     DEF WriterNext, Encoder

LEMMA ReaderInitOk == ReaderInit => ReaderInv
<1> SUFFICES ASSUME ReaderInit PROVE ReaderInv
  OBVIOUS
<1>1. SourceType /\ Counts
  BY ReaderAssumption DEF ReaderInit, SourceType, Counts, Nothing, NoSize
<1>2. Ends
  BY DEF ReaderInit, Ends, Errors, none
<1>3. Counted
  BY ReaderAssumption DEF ReaderInit, Counted, InWrite
<1>4. AtItsEnd /\ Closing
  BY DEF ReaderInit, AtItsEnd, Done, Closing, Nothing, none
<1> QED
  BY <1>1, <1>2, <1>3, <1>4 DEF ReaderInv, ReaderTypes

\* A step of the decoder or its caller.
LEMMA ReaderStep ==
  ASSUME ReaderInv, ReaderNext
  PROVE  ReaderInv' /\ source' = source /\ sized' = sized
<1> USE ReaderAssumption DEF Others, Header, Window, Nothing, NoSize, none
<1>0. SourceType /\ Counts /\ Ends /\ Counted /\ AtItsEnd /\ Closing
  BY DEF ReaderInv, ReaderTypes
<1>n. source.n \in Nat \cup {Nothing} /\ source.end # none
  BY <1>0 DEF SourceType
<1>1. CASE ReadHeader
  <2>1. source' = source /\ sized' = sized
    BY <1>0, <1>1 DEF ReadHeader, ReadFullFails, SourceFails, Return
  <2>2. Counts'
    BY <1>0, <1>1 DEF ReadHeader, ReadFullFails, SourceFails, Return, Counts, Counted
  <2>3. Ends'
    <3>1. err' \in Errors \cup {none} /\ cut' \in BOOLEAN /\ dpc' \in {"init", "return"}
      BY ZenonT(40), <1>0, <1>1 DEF ReadHeader, ReadFullFails, SourceFails, Return, Ends, Errors
    <3> QED
      BY <1>0, <1>1, <3>1 DEF ReadHeader, Ends
  <2>4. Counted'
    <3>1. /\ dpc = "header" /\ dpc' \in {"init", "return"}
          /\ UNCHANGED <<nowPos, unflushed, writing, delivered>>
      BY <1>0, <1>1 DEF ReadHeader, ReadFullFails, SourceFails, Return
    <3>2. unflushed = 0 /\ delivered + unflushed = nowPos /\ writing = 0
      BY <1>0, <3>1 DEF Counted
    <3>3. winSize' > 0
      BY <2>2 DEF Counts
    <3> QED
      BY <3>1, <3>2, <3>3 DEF Counted, InWrite
  <2>5. AtItsEnd'
    BY <1>0, <1>n, <2>1, <1>1
       DEF ReadHeader, ReadFullFails, SourceFails, Return, Counts, Ends, Counted,
           AtItsEnd, Done, Closing, InWrite
  <2>6. Closing'
    BY <1>0, <1>n, <2>1, <1>1
       DEF ReadHeader, ReadFullFails, SourceFails, Return, Ends, Closing
  <2> QED
    BY <1>0, <2>1, <2>2, <2>3, <2>4, <2>5, <2>6 DEF ReaderInv, ReaderTypes, SourceType
<1>2. CASE ReadInit
  <2>1. source' = source /\ sized' = sized
    BY <1>0, <1>2 DEF ReadInit, ReadFullFails, SourceFails, Return
  <2>2. Counts'
    BY <1>0, <1>2 DEF ReadInit, ReadFullFails, SourceFails, Return, Counts, Counted
  <2>3. Ends'
    <3>1. err' \in Errors \cup {none} /\ cut' \in BOOLEAN /\ dpc' \in {"decode", "return"}
      BY ZenonT(40), <1>0, <1>2 DEF ReadInit, ReadFullFails, SourceFails, Return, Ends, Errors
    <3> QED
      BY <1>0, <1>2, <3>1 DEF ReadInit, Ends
  <2>4. Counted'
    BY <1>0, <1>2
       DEF ReadInit, ReadFullFails, SourceFails, Return, Counts, Ends, Counted,
           InWrite
  <2>5. AtItsEnd'
    <3>1. /\ dpc = "init" /\ err = none
          /\ UNCHANGED <<sized, unpackSize, nowPos, todo, delivered>>
          /\ \/ dpc' = "decode" /\ (source.n > 0 \/ source.end = "whole")
             \/ dpc' = "return" /\ err' # none
      BY <1>0, <1>n, <1>2 DEF ReadInit, ReadFullFails, SourceFails, Return, Closing
    <3> QED
      BY <1>0, <1>n, <2>1, <3>1 DEF AtItsEnd
  <2>6. Closing'
    BY <1>0, <1>n, <2>1, <1>2
       DEF ReadInit, ReadFullFails, SourceFails, Return, Ends, Closing
  <2> QED
    BY <1>0, <2>1, <2>2, <2>3, <2>4, <2>5, <2>6 DEF ReaderInv, ReaderTypes, SourceType
<1>3. CASE ReadPacket
  <2>1. source' = source /\ sized' = sized
    BY <1>0, <1>3 DEF ReadPacket, More, SourceFails, Return
  <2>2. Counts'
    <3>1. todo' \in Nat
      BY <1>0, <1>3 DEF ReadPacket, Counts
    <3> QED
      BY <1>0, <1>3, <3>1 DEF ReadPacket, Counts
  <2>3. Ends'
    BY ZenonT(40), <1>0, <1>3 DEF ReadPacket, More, SourceFails, Return, Ends, Errors
  <2>4. Counted'
    BY <1>0, <1>3
       DEF ReadPacket, More, SourceFails, Return, Counts, Ends, Counted, InWrite
  <2>5. AtItsEnd'
    <3>0. /\ dpc = "decode" /\ err = none
          /\ UNCHANGED <<sized, unpackSize, winSize, nowPos, delivered>>
      BY <1>0, <1>3 DEF ReadPacket, Closing
    <3>1. CASE /\ \E n \in 1..MaxCopy : nowPos + n <= Decodable /\ todo' = n
               /\ UNCHANGED <<dpc, err, cut>>
      BY <1>0, <1>n, <2>1, <3>0, <3>1 DEF Decodable, Counts, AtItsEnd, Done
    <3>2. CASE dpc' = "return" /\ err' # none /\ UNCHANGED todo
      BY <1>0, <1>n, <2>1, <3>0, <3>2 DEF Counts, AtItsEnd, Done
    <3>3. \/ /\ \E n \in 1..MaxCopy : nowPos + n <= Decodable /\ todo' = n
             /\ UNCHANGED <<dpc, err, cut>>
          \/ dpc' = "return" /\ UNCHANGED todo
             /\ err' \in {"streamError", source.end, "EOF"}
      BY <1>3 DEF ReadPacket, Return
    <3> QED
      BY <1>n, <3>1, <3>2, <3>3
  <2>6. Closing'
    BY <1>0, <1>n, <2>1, <1>3 DEF ReadPacket, More, SourceFails, Return, Ends, Closing
  <2> QED
    BY <1>0, <2>1, <2>2, <2>3, <2>4, <2>5, <2>6 DEF ReaderInv, ReaderTypes, SourceType
<1>4. CASE StoreByte
  <2>1. source' = source /\ sized' = sized
    BY <1>0, <1>4 DEF StoreByte
  <2>2. Counts'
    BY <1>0, <1>4 DEF StoreByte, Counts, Counted
  <2>3. Ends'
    BY ZenonT(40), <1>0, <1>4 DEF StoreByte, Ends, Errors
  <2>4. Counted'
    BY <1>0, <1>4 DEF StoreByte, Counts, Ends, Counted, InWrite
  <2>5. AtItsEnd'
    BY <1>0, <1>n, <2>1, <1>4
       DEF StoreByte, Counts, Ends, Counted, AtItsEnd, Done, Closing, InWrite
  <2>6. Closing'
    BY <1>0, <1>n, <2>1, <1>4 DEF StoreByte, Ends, Closing
  <2> QED
    BY <1>0, <2>1, <2>2, <2>3, <2>4, <2>5, <2>6 DEF ReaderInv, ReaderTypes, SourceType
<1>5. CASE EndOfStream
  <2>1. source' = source /\ sized' = sized
    BY <1>0, <1>5 DEF EndOfStream, AtEnd, Return
  <2>2. Counts'
    BY <1>0, <1>5 DEF EndOfStream, AtEnd, Return, Counts, Counted
  <2>3. Ends'
    BY ZenonT(40), <1>0, <1>5 DEF EndOfStream, AtEnd, Return, Ends, Errors
  <2>4. Counted'
    BY <1>0, <1>5 DEF EndOfStream, AtEnd, Return, Counts, Ends, Counted, InWrite
  <2>5. AtItsEnd'
    <3>1. ~source.damaged => Done
      BY <1>0, <1>n, <1>5 DEF EndOfStream, AtEnd, More, EndMarker, Counts, Ends, AtItsEnd, Done
    <3>2. /\ dpc = "decode" /\ todo = 0 /\ delivered + unflushed = nowPos
          /\ UNCHANGED <<sized, unpackSize, nowPos, todo, delivered>>
          /\ dpc' \in {"return", "lastWrite"}
          /\ dpc' = "return" => unflushed = 0
      BY <1>0, <1>5 DEF EndOfStream, AtEnd, Return, Counted
    <3>3. Done' = Done /\ (dpc' = "return" => delivered' = nowPos')
      BY <1>0, <2>1, <3>2 DEF Done, Counts
    <3> QED
      BY <1>0, <1>n, <2>1, <3>1, <3>2, <3>3 DEF AtItsEnd
  <2>6. Closing'
    BY <1>0, <1>n, <2>1, <1>5 DEF EndOfStream, AtEnd, Return, Ends, Closing
  <2> QED
    BY <1>0, <2>1, <2>2, <2>3, <2>4, <2>5, <2>6 DEF ReaderInv, ReaderTypes, SourceType
<1>6. CASE PipeFails
  <2>1. source' = source /\ sized' = sized
    BY <1>0, <1>6 DEF PipeFails, InWrite, Return
  <2>2. Counts'
    BY <1>0, <1>6 DEF PipeFails, InWrite, Return, Counts, Counted
  <2>3. Ends'
    BY <1>0, <1>6 DEF PipeFails, InWrite, Return, Ends, Errors
  <2>4. Counted'
    BY <1>0, <1>6 DEF PipeFails, InWrite, Return, Counts, Ends, Counted
  <2>5. AtItsEnd'
    BY <1>0, <1>n, <2>1, <1>6
       DEF PipeFails, InWrite, Return, Counts, Ends, Counted, AtItsEnd, Done, Closing
  <2>6. Closing'
    BY <1>0, <1>n, <2>1, <1>6 DEF PipeFails, InWrite, Return, Ends, Closing
  <2> QED
    BY <1>0, <2>1, <2>2, <2>3, <2>4, <2>5, <2>6 DEF ReaderInv, ReaderTypes, SourceType
<1>7. CASE CloseWriteEnd
  <2>1. source' = source /\ sized' = sized
    BY <1>0, <1>7 DEF CloseWriteEnd
  <2>2. Counts'
    BY <1>0, <1>7 DEF CloseWriteEnd, Counts, Counted
  <2>3. Ends'
    BY <1>0, <1>7 DEF CloseWriteEnd, Ends, Errors
  <2>4. Counted'
    BY <1>0, <1>7 DEF CloseWriteEnd, Counts, Ends, Counted, InWrite
  <2>5. AtItsEnd'
    BY <1>0, <1>n, <2>1, <1>7
       DEF CloseWriteEnd, Counts, Ends, Counted, AtItsEnd, Done, Closing, InWrite
  <2>6. Closing'
    BY <1>0, <1>n, <2>1, <1>7 DEF CloseWriteEnd, Ends, Closing
  <2> QED
    BY <1>0, <2>1, <2>2, <2>3, <2>4, <2>5, <2>6 DEF ReaderInv, ReaderTypes, SourceType
<1>8. CASE Read
  <2>1. source' = source /\ sized' = sized
    BY <1>0, <1>8 DEF Read, InWrite, Return
  <2>2. Counts'
    BY <1>0, <1>8 DEF Read, InWrite, Return, Counts, Counted
  <2>3. Ends'
    BY <1>0, <1>8 DEF Read, InWrite, Return, Ends, Errors
  <2>4. Counted'
    BY <1>0, <1>8 DEF Read, InWrite, Return, Counts, Ends, Counted
  <2>5. AtItsEnd'
    BY <1>0, <1>n, <2>1, <1>8
       DEF Read, InWrite, Return, Counts, Ends, Counted, AtItsEnd, Done, Closing
  <2>6. Closing'
    BY <1>0, <1>n, <2>1, <1>8 DEF Read, InWrite, Return, Ends, Closing
  <2> QED
    BY <1>0, <2>1, <2>2, <2>3, <2>4, <2>5, <2>6 DEF ReaderInv, ReaderTypes, SourceType
<1>9. CASE ReadClosed
  <2>1. source' = source /\ sized' = sized
    BY <1>0, <1>9 DEF ReadClosed
  <2>2. Counts'
    BY <1>0, <1>9 DEF ReadClosed, Counts, Counted
  <2>3. Ends'
    BY ZenonT(40), <1>0, <1>9 DEF ReadClosed, Ends, Errors
  <2>4. Counted'
    BY <1>0, <1>9 DEF ReadClosed, Counts, Ends, Counted, InWrite
  <2>5. AtItsEnd'
    BY <1>0, <1>n, <2>1, <1>9
       DEF ReadClosed, Counts, Ends, Counted, AtItsEnd, Done, Closing, InWrite
  <2>6. Closing'
    BY <1>0, <1>n, <2>1, <1>9 DEF ReadClosed, Ends, Closing
  <2> QED
    BY <1>0, <2>1, <2>2, <2>3, <2>4, <2>5, <2>6 DEF ReaderInv, ReaderTypes, SourceType
<1>10. CASE CloseReader
  <2>1. source' = source /\ sized' = sized
    BY <1>0, <1>10 DEF CloseReader
  <2>2. Counts'
    BY <1>0, <1>10 DEF CloseReader, Counts, Counted
  <2>3. Ends'
    <3>1. rerr' \in {none, "ErrClosedPipe"}
      BY <1>10 DEF CloseReader
    <3> QED
      BY <1>0, <1>10, <3>1 DEF CloseReader, Ends
  <2>4. Counted'
    BY <1>0, <1>10 DEF CloseReader, Counts, Ends, Counted, InWrite
  <2>5. AtItsEnd'
    BY <1>0, <1>n, <2>1, <1>10
       DEF CloseReader, Counts, Ends, Counted, AtItsEnd, Done, Closing, InWrite
  <2>6. Closing'
    BY <1>0, <1>n, <2>1, <1>10 DEF CloseReader, Ends, Closing
  <2> QED
    BY <1>0, <2>1, <2>2, <2>3, <2>4, <2>5, <2>6 DEF ReaderInv, ReaderTypes, SourceType
<1> QED
  BY <1>1, <1>2, <1>3, <1>4, <1>5, <1>6, <1>7, <1>8, <1>9, <1>10 DEF ReaderNext, Decoder
-----------------------------------------------------------------------------
(***************************************************************************)
(* The two and what is between them.                                       *)
(***************************************************************************)
\* What a step of the writer's side adds to what is written or being written, a
\* caller who starts a Write adds.
LEMMA WriterOffers ==
  ASSUME WriterInv, WriterNext
  PROVE  \/ written' + offered' <= written + offered
         \/ caller = "open" /\ caller' = "writing" /\ written' = written
<1>0. Amounts /\ CallerWaits
  BY DEF WriterInv, WriterTypes
<1>1. CASE TakeInput
  <2>1. PICK n \in Int : offered' = offered - n /\ written' = written + n
    BY <1>0, <1>1, SessionAssumption DEF TakeInput, Amounts
  <2> QED
    BY <1>0, <2>1 DEF Amounts
<1>2. CASE StartWrite
  BY <1>2 DEF StartWrite
<1>3. CASE WriteFails
  BY <1>0, <1>3 DEF WriteFails, Amounts
<1>4. CASE UNCHANGED <<written, offered>>
  BY <1>0, <1>4 DEF Amounts
<1> QED
  BY <1>1, <1>2, <1>3, <1>4
     DEF WriterNext, Encoder, Caller, WriteHeader, EndInput, WindowFull, Look, CodePacket,
         Finish, BreakPipe, SendToken, Close, CloseReturns

\* More code in r, or its end, disturbs nothing that the reader's side knows.
LEMMA SourceGrows ==
  ASSUME ReaderInv, UNCHANGED readerVars, source.end = "open",
         SourceType', source'.n >= source.n, source.damaged => source'.damaged
  PROVE  ReaderInv'
<1>0. SourceType /\ Counts /\ Ends /\ Counted /\ AtItsEnd /\ Closing
  BY DEF ReaderInv, ReaderTypes
<1>1. Counts'
  BY <1>0 DEF readerVars, Counts
<1>e. Ends'
  BY <1>0 DEF readerVars, Ends
<1>2. Counted' /\ Closing'
  BY <1>0 DEF readerVars, Counted, InWrite, Closing
<1>3. source.n \in Nat \cup {Nothing} /\ source'.n \in Nat \cup {Nothing}
  BY <1>0 DEF SourceType
<1>4. Done => Done'
  BY <1>3 DEF readerVars, Done, Nothing
<1>5. AtItsEnd'
  BY <1>0, <1>3, <1>4 DEF readerVars, Counts, AtItsEnd, Nothing
<1> QED
  BY <1>1, <1>e, <1>2, <1>5 DEF ReaderInv, ReaderTypes

LEMMA ReaderStays ==
  ASSUME ReaderInv, UNCHANGED <<readerVars, source>>
  PROVE  ReaderInv'
<1>0. SourceType /\ Counts /\ Ends /\ Counted /\ AtItsEnd /\ Closing
  BY DEF ReaderInv, ReaderTypes
<1>1. SourceType' /\ Counts'
  BY <1>0 DEF readerVars, SourceType, Counts
<1>2. Ends'
  BY <1>0 DEF readerVars, Ends
<1>3. Counted' /\ AtItsEnd' /\ Closing'
  BY <1>0 DEF readerVars, Counted, InWrite, AtItsEnd, Done, Closing
<1> QED
  BY <1>1, <1>2, <1>3 DEF ReaderInv, ReaderTypes

LEMMA InitOk == Init => IInv
<1> SUFFICES ASSUME Init PROVE IInv
  OBVIOUS
<1>1. WriterInv /\ ReaderInv
  BY WriterInitOk, ReaderInitOk DEF Init
<1>2. Between
  BY ReaderAssumption DEF Init, WriterInit, ReaderInit, Between, Nothing
<1> QED
  BY <1>1, <1>2 DEF IInv

LEMMA WritingOk ==
  ASSUME IInv, Writing
  PROVE  IInv'
<1>0. WriterInv /\ ReaderInv /\ Between /\ WriterNext
  BY DEF IInv, Writing
<1>1. WriterInv' /\ Grows
  BY <1>0, WriterStep
<1>2. ReaderInv'
  BY <1>0, ReaderStays DEF Writing
<1>a. Amounts /\ Amounts'
  BY <1>0, <1>1 DEF WriterInv, WriterTypes
<1>3. /\ CallerWaits
      /\ source.n \in Nat \cup {Nothing} /\ sized \in BOOLEAN
  BY <1>0, <1>1 DEF WriterInv, WriterTypes, ReaderInv, ReaderTypes, SourceType, Ends
<1>4. source' = source /\ sized' = sized
  BY DEF Writing, readerVars
<1>5. source.n # Nothing => coded' # NoHeader /\ source.n <= Sent'
  <2>1. Sent \in Int /\ Sent' \in Int
    BY <1>a DEF Amounts, Sent, NoHeader
  <2> QED
    BY <1>0, <1>1, <1>3, <2>1 DEF Between, Grows, Nothing
<1>6. source.end = "whole" => sealed' /\ source.n = coded'
  BY <1>0, <1>1 DEF Between, Grows
<1>7. sized => written' + offered' <= Total
  <2>1. CASE written' + offered' <= written + offered
    <3>1. sized => written + offered <= Total
      BY <1>0 DEF Between
    <3>2. PICK w \in Nat, o \in Nat : written' = w /\ offered' = o
      BY <1>a DEF Amounts
    <3>3. written + offered <= Total => written' + offered' <= Total
      BY <1>a, <2>1, <3>2, ReaderAssumption DEF Amounts
    <3> QED
      BY <3>1, <3>3
  <2>2. CASE caller = "open" /\ caller' = "writing" /\ written' = written
    BY <1>3, <2>2 DEF Writing, Declared
  <2> QED
    BY <1>0, <2>1, <2>2, WriterOffers
<1> QED
  BY <1>1, <1>2, <1>4, <1>5, <1>6, <1>7 DEF IInv, Between

LEMMA ReadingOk ==
  ASSUME IInv, Reading
  PROVE  IInv'
<1>1. ReaderInv' /\ source' = source /\ sized' = sized
  BY ReaderStep DEF IInv, Reading
<1>2. WriterInv'
  BY DEF IInv, Reading, writerVars, WriterInv, WriterTypes, Amounts, Phases, Accounted,
         CallerWaits, Closed, EndSeen, Sealing
<1>3. Between'
  BY <1>1 DEF IInv, Reading, writerVars, Between, Sent
<1> QED
  BY <1>1, <1>2, <1>3 DEF IInv

\* What happens between w and r.
LEMMA BetweenOk ==
  ASSUME IInv, Deliver \/ DeliverEnd \/ DeliverStump \/ Damage \/ Break
  PROVE  IInv'
<1>0. WriterInv /\ ReaderInv /\ Between
  BY DEF IInv
<1>1. UNCHANGED <<writerVars, readerVars>> /\ source.end = "open"
  BY DEF Deliver, DeliverEnd, DeliverStump, Damage, Break, Pass
<1>2. SourceType /\ source.n \in Nat \cup {Nothing}
  BY <1>0 DEF ReaderInv, ReaderTypes, SourceType
<1>3. Amounts /\ Accounted /\ Sealing /\ Sent \in Int
  BY <1>0 DEF WriterInv, WriterTypes, Amounts, Sent, NoHeader
<1>4. WriterInv'
  BY <1>0, <1>1
     DEF writerVars, WriterInv, WriterTypes, Amounts, Phases, Accounted, CallerWaits, Closed,
         EndSeen, Sealing
<1>5. /\ SourceType' /\ source'.n >= source.n /\ Between'
      /\ source.damaged => source'.damaged
  <2>0. Sent' = Sent /\ coded' = coded /\ sealed' = sealed /\ sized' = sized
        /\ written' + offered' = written + offered
    BY <1>1 DEF writerVars, readerVars, Sent
  <2>1. CASE Deliver
    <3>1. PICK n \in (source.n + 1)..Sent : source' = [source EXCEPT !.n = n]
      BY <2>1 DEF Deliver
    <3>2. n \in Nat /\ n > source.n /\ n <= Sent
      BY <1>2, <1>3, <3>1 DEF Nothing
    <3>3. /\ SourceType' /\ source'.n = n /\ source'.end = "open"
          /\ source'.damaged = source.damaged
      BY <1>1, <1>2, <3>1, <3>2 DEF SourceType
    <3>4. coded # NoHeader
      BY <1>3, <3>2 DEF Accounted, Sent, NoHeader
    <3> QED
      BY <1>0, <1>2, <2>0, <3>2, <3>3, <3>4 DEF Between, Nothing
  <2>2. CASE DeliverEnd
    <3>1. /\ SourceType' /\ source'.n = source.n /\ source'.end = "whole"
          /\ source'.damaged = source.damaged
      BY <1>2, <2>2 DEF DeliverEnd, SourceType
    <3>2. sealed /\ source.n = coded
      BY <1>3, <2>2 DEF DeliverEnd, Sealing, Sent, Amounts, NoHeader
    <3> QED
      BY <1>0, <1>2, <2>0, <3>1, <3>2 DEF Between, Nothing
  <2>3. CASE DeliverStump \/ Break
    <3>1. /\ SourceType' /\ source'.n = source.n /\ source'.end \in {"EOF", "read error"}
          /\ source'.damaged = source.damaged
      BY <1>2, <2>3 DEF DeliverStump, Break, SourceType
    <3>2. source'.end # "whole"
      BY <3>1
    <3>3. source'.n # Nothing => coded' # NoHeader /\ source'.n <= Sent'
      BY <1>0, <2>0, <3>1 DEF Between
    <3>4. sized' => written' + offered' <= Total
      BY <1>0, <2>0 DEF Between
    <3>5. PICK m \in Int : source.n = m
      BY <1>2 DEF Nothing
    <3>6. source'.n = m
      BY <3>1, <3>5
    <3>7. source'.n >= source.n
      BY <3>5, <3>6
    <3> QED
      BY <3>1, <3>2, <3>3, <3>4, <3>7 DEF Between
  <2>4. CASE Damage
    <3>1. /\ SourceType' /\ source'.n = source.n /\ source'.end = source.end
          /\ source'.damaged
      BY <1>2, <2>4 DEF Damage, SourceType
    <3>2. PICK m \in Int : source.n = m
      BY <1>2 DEF Nothing
    <3>3. source'.n >= source.n
      BY <3>1, <3>2
    <3>4. Between'
      BY <1>0, <2>0, <3>1 DEF Between
    <3> QED
      BY <3>1, <3>3, <3>4
  <2> QED
    BY <2>1, <2>2, <2>3, <2>4
<1>6. ReaderInv'
  BY <1>0, <1>1, <1>5, SourceGrows
<1> QED
  BY <1>4, <1>5, <1>6 DEF IInv

\* Every step keeps the invariant.
LEMMA StepOk ==
  ASSUME IInv, [Next]_vars
  PROVE  IInv'
<1>1. CASE UNCHANGED vars
  <2>1. WriterInv'
    BY <1>1
       DEF IInv, vars, writerVars, WriterInv, WriterTypes, Amounts, Phases,
           Accounted,
                CallerWaits, Closed, EndSeen, Sealing
  <2>2. ReaderInv'
    BY <1>1, ReaderStays DEF IInv, vars
  <2>3. Between'
    BY <1>1 DEF IInv, vars, writerVars, readerVars, Between, Sent
  <2> QED
    BY <2>1, <2>2, <2>3 DEF IInv
<1> QED
  BY <1>1, WritingOk, ReadingOk, BetweenOk DEF Next
-----------------------------------------------------------------------------
\* The bytes of a pair of sessions are accounted for in every state they reach.
THEOREM Invariance == Spec => []IInv
<1>1. Init => IInv
  BY InitOk
<1>2. IInv /\ [Next]_vars => IInv'
  BY StepOk
<1> QED
  BY <1>1, <1>2, PTL DEF Spec

\* SealedAtEnd: the encoder ends the stream only after the caller's Close, and with
\* all of the caller's bytes in it: no pause of the caller, no short read of the
\* pipe is taken for the end of the input.
THEOREM Seals == Spec => []SealedAtEnd
<1>1. IInv => SealedAtEnd
  BY DEF IInv, WriterInv, WriterTypes, Amounts, Accounted, CallerWaits, Closed, Sealing,
         SealedAtEnd
<1> QED
  BY <1>1, Invariance, PTL

\* CloseMeansWritten: a Close that returns behind an encoder without an error has the
\* whole stream in w.
THEOREM CloseWrites == Spec => []CloseMeansWritten
<1>1. IInv => CloseMeansWritten
  BY DEF IInv, WriterInv, WriterTypes, Amounts, Accounted, Sealing, CloseMeansWritten
<1> QED
  BY <1>1, Invariance, PTL

\* QuietAfterClose: once Close has returned, the goroutine has ended and w gets
\* nothing any more.
THEOREM Quiet == Spec => QuietAfterClose
<1>1. IInv /\ [Next]_vars => [caller = "closed" => UNCHANGED <<coded, buffered, sealed>>]_writerVars
  <2> SUFFICES ASSUME IInv, [Next]_vars, caller = "closed"
               PROVE  UNCHANGED <<coded, buffered, sealed>>
    OBVIOUS
  <2>1. pc = "ended"
    BY DEF IInv, WriterInv, Sealing
  <2>2. CASE UNCHANGED writerVars
    BY <2>2 DEF writerVars
  <2>3. CASE Writing
    BY <2>1, <2>3
       DEF Writing, WriterNext, Encoder, WriteHeader, TakeInput, EndInput, WindowFull, Look,
           CodePacket, Finish, BreakPipe, SendToken, StartWrite, WriteFails, Close,
           CloseReturns, Goroutine
  <2> QED
    BY <2>2, <2>3
       DEF Next, vars, Reading, Deliver, DeliverEnd, DeliverStump, Damage, Break, Pass
<1> QED
  BY <1>1, Invariance, PTL DEF Spec, QuietAfterClose

\* LosesLessThanAWindow: a caller who reads until it gets an error has all that was
\* decoded but less than a window, whatever the error.
THEOREM LosesLittle == Spec => []LosesLessThanAWindow
<1>1. IInv => LosesLessThanAWindow
  BY ReaderAssumption
     DEF IInv, ReaderInv, ReaderTypes, Counts, Counted, Closing, LosesLessThanAWindow
<1> QED
  BY <1>1, Invariance, PTL

\* EofIsTheEnd: when the reading caller gets EOF, r did not end early and nothing was
\* damaged on the way, it has received exactly what was written, and the writer has
\* been closed.
THEOREM EofEnds == Spec => []EofIsTheEnd
<1>1. IInv => EofIsTheEnd
  <2> SUFFICES ASSUME IInv, result = "EOF", ~cut, ~source.damaged
               PROVE  delivered = written /\ caller # "open"
    BY DEF EofIsTheEnd
  <2>0. /\ Amounts /\ Accounted /\ CallerWaits /\ EndSeen /\ Sealing
        /\ SourceType /\ Counts /\ Ends /\ AtItsEnd /\ Closing /\ Between
    BY DEF IInv, WriterInv, WriterTypes, ReaderInv, ReaderTypes
  <2>1. dpc = "ended" /\ err = none
    BY <2>0 DEF Closing
  <2>2. Done /\ delivered = nowPos
    BY <2>0, <2>1 DEF AtItsEnd
  <2>3. source.n \in Nat \cup {Nothing} /\ sized \in BOOLEAN
    BY <2>0 DEF SourceType, Ends
  <2>4. CASE source.end = "whole"
    <3>1. /\ sealed /\ source.n = coded /\ inputEnd /\ coded # NoHeader
          /\ looked = 0 /\ ahead = 0
      BY <2>0, <2>4 DEF Between, Sealing
    <3>2. written = source.n /\ nowPos <= source.n
      BY <2>0, <2>3, <3>1 DEF Amounts, Accounted, AtItsEnd, Counts, Nothing, NoHeader
    <3>3. nowPos = source.n
      <4>1. CASE sized
        <5>1. nowPos >= Total /\ written + offered <= Total
          BY <2>0, <2>2, <4>1 DEF Between, Done
        <5> QED
          BY <2>0, <3>2, <5>1, ReaderAssumption DEF Amounts, Counts
      <4>2. CASE ~sized
        BY <2>2, <4>2 DEF Done
      <4> QED
        BY <4>1, <4>2
    <3> QED
      BY <2>0, <2>2, <3>1, <3>2, <3>3 DEF CallerWaits, Closed
  <2>5. CASE source.end # "whole"
    <3>1. sized /\ nowPos >= Total /\ source.n > 0
      BY <2>2, <2>5 DEF Done
    <3>2. nowPos <= source.n /\ source.n <= coded - buffered
      BY <2>0, <2>3, <3>1 DEF AtItsEnd, Between, Counts, Sent, Nothing
    <3>0. coded # NoHeader /\ written + offered <= Total
      BY <2>0, <3>1 DEF Between, Nothing
    <3>3. coded \in Nat /\ written = coded + looked + ahead
      BY <2>0, <3>0 DEF Amounts, Accounted
    <3>5. written <= nowPos
      BY <2>0, <3>0, <3>1, ReaderAssumption DEF Amounts, Counts
    <3>4. coded > 0 /\ looked + ahead = 0 /\ written = nowPos
      BY <2>0, <2>3, <3>1, <3>2, <3>3, <3>5 DEF Amounts, Counts, Nothing
    <3> QED
      BY <2>0, <2>2, <3>4 DEF EndSeen, CallerWaits, Closed
  <2> QED
    BY <2>4, <2>5
<1> QED
  BY <1>1, Invariance, PTL

-----------------------------------------------------------------------------
(***************************************************************************)
(* The command line tool, for every amount of data: the input is removed   *)
(* only for a whole output, no write is left in the pipe that main closes, *)
(* and the header tells the size of a regular file.                        *)
(*                                                                         *)
(* RemovedOnlyIfWhole speaks of the input file and the output file, with   *)
(* three goroutines between them, and is not inductive. What it rests on   *)
(* is that no piece is lost or made up on the way (Conserved), and what it *)
(* means that a pipe has been closed: of the first one, that the feeder    *)
(* has read the whole file (FirstClosed), of the second one, that the      *)
(* codec has made all there is to make of it (SecondClosed), which is what *)
(* main goes by (Removing).                                                *)
(***************************************************************************)
Types ==
  /\ args \in [decompress : BOOLEAN, keep : BOOLEAN, stdout : BOOLEAN, stdin : BOOLEAN]
  /\ file \in [kind : Kinds, len : Nat, present : BOOLEAN]
  /\ out \in [exists : BOOLEAN, n : Nat]
  /\ feeder \in {"open", "copy", "wait", "done"}
  /\ fed \in Nat /\ declared \in Nat \cup {Unknown}
  /\ first \in [left : Nat, end : {"open", "eof"}, closed : BOOLEAN]
  /\ codec \in [got : Nat, made : Nat, done : BOOLEAN]
  /\ second \in [left : Nat, end : {"open", "eof", "error"}, closed : BOOLEAN]
  /\ main \in {"create", "copy", "remove", "return", "end"}

\* The input file is of its kind and length as it was at the start.
FileOfKind == /\ args.decompress <=> file.kind \notin {"regular", "symlink"}
              /\ file.len \in FileLengths(file.kind)

\* Every piece of the file that was read is in the first pipe or in the codec,
\* every piece the codec made in the second or in the output.
Conserved == /\ fed = codec.got + first.left /\ fed <= file.len
             /\ codec.made = out.n + second.left

\* Lstat comes before the first piece.
Declares ==
  /\ feeder = "open" => fed = 0 /\ declared = Unknown
  /\ ~args.decompress /\ file.kind # "symlink" => declared \in {Unknown, Size}

\* The feeder closes the pipe behind the last piece, when it is taken; only in
\* compression does it wait for the codec then.
FirstClosed == /\ feeder = "wait" => ~args.decompress
               /\ first.end = "eof" => /\ feeder \in {"wait", "done"}
                                       /\ fed = file.len /\ first.left = 0

\* Of what it has read the codec makes no more than there is in it.
Makes ==
  IF args.decompress
  THEN codec.made <= Size + (IF file.kind = "damaged" THEN Extra ELSE 0)
  ELSE codec.made <= codec.got + (IF first.end = "eof" THEN 2 ELSE 1)

\* The second pipe has its end when the codec has returned, having made of the
\* file all that can be made of it; a stream that was cut may end sooner, one that
\* is damaged anywhere.
SecondClosed ==
  /\ codec.done => second.left = 0
  /\ codec.done /\ ~args.decompress => first.end = "eof" /\ codec.made = Stream
  /\ second.end = "eof" =>
       /\ codec.done
       /\ args.decompress => \/ codec.got >= Stream /\ codec.made = Size
                             \/ file.kind = "cut" /\ first.end = "eof"
                             \/ file.kind = "damaged"

\* main goes on to the removal of the input, and to its end, only when it has
\* read the second pipe to its end.
Removing ==
  /\ main \in {"remove", "return", "end"} => second.end = "eof"
  /\ main = "remove" => ~args.stdout
  /\ ~file.present => ~args.stdout /\ main \in {"return", "end"}
  /\ ~args.stdout /\ main # "create" => out.exists
  /\ first.closed => args.decompress /\ main = "end"

ToolInv == /\ Types /\ FileOfKind /\ Conserved /\ Declares
        /\ FirstClosed /\ Makes /\ SecondClosed /\ Removing
-----------------------------------------------------------------------------

LEMMA ToolInitOk == ToolInit => ToolInv
<1> SUFFICES ASSUME ToolInit PROVE ToolInv
  OBVIOUS
<1> USE CommandLineAssumption DEF Running, Unknown, Stream
<1>1. PICK kind \in Kinds, n \in 0..(Stream + Extra) :
        /\ args.decompress <=> kind \notin {"regular", "symlink"}
        /\ n \in FileLengths(kind)
        /\ file = [kind |-> kind, len |-> n, present |-> TRUE]
  BY DEF ToolInit
<1>2. Types
  BY <1>1 DEF ToolInit, Types, OpenPipe
<1>3. FileOfKind
  BY <1>1 DEF FileOfKind
<1>4. Conserved /\ Declares /\ FirstClosed /\ Makes /\ SecondClosed /\ Removing
  BY <1>1
     DEF ToolInit, Conserved, Declares, FirstClosed, Makes, SecondClosed, Removing,
         OpenPipe
<1> QED
  BY <1>2, <1>3, <1>4 DEF ToolInv

LEMMA FeederStep ==
  ASSUME ToolInv, Feeder
  PROVE  ToolInv'
<1> USE CommandLineAssumption
    DEF ToolInv, Types, FileOfKind, Conserved, Declares, FirstClosed, Makes, SecondClosed,
        Removing, Running, Unknown, Stream
<1>1. CASE Open
  BY <1>1 DEF Open, FileLengths
<1>2. CASE OpenFails \/ ReadFails \/ FeedFails
  BY SMTT(30), <1>2 DEF OpenFails, ReadFails, FeedFails, Fatal
<1>3. CASE FeedSome
  <2>1. PICK n \in 1..(file.len - fed) :
          first' = [first EXCEPT !.left = n] /\ fed' = fed + n
    BY <1>3 DEF FeedSome
  <2>2. /\ n \in Nat /\ fed + n <= file.len /\ first.left = 0 /\ feeder = "copy"
        /\ UNCHANGED <<args, file, out, feeder, declared, codec, second, main>>
    BY <1>3 DEF FeedSome
  <2>3. /\ first'.left = n /\ first'.end = first.end /\ first'.closed = first.closed
        /\ Types'
    BY <2>1, <2>2
  <2> QED
    BY <2>1, <2>2, <2>3
<1>4. CASE FeedEnds
  BY <1>4 DEF FeedEnds
<1>5. CASE FeederClosesPipe
  <2>1. /\ feeder = "wait" /\ codec.done /\ feeder' = "done"
        /\ second'.left = second.left /\ second'.end = "eof"
        /\ UNCHANGED <<args, file, out, fed, declared, first, codec, main>>
        /\ Types'
    BY <1>5 DEF FeederClosesPipe
  <2>2. ~args.decompress
    BY <2>1
  <2> QED
    BY <2>1, <2>2
<1> QED
  BY <1>1, <1>2, <1>3, <1>4, <1>5 DEF Feeder

LEMMA CodecStep ==
  ASSUME ToolInv, Codec
  PROVE  ToolInv'
<1> USE CommandLineAssumption
    DEF ToolInv, Types, FileOfKind, Conserved, Declares, FirstClosed, Makes, SecondClosed,
        Removing, Running, Unknown, Stream
<1>1. CASE CodecReads
  <2>1. PICK n \in 1..first.left : /\ first' = [first EXCEPT !.left = @ - n]
                                  /\ codec' = [codec EXCEPT !.got = @ + n]
    BY <1>1 DEF CodecReads
  <2>2. /\ n \in Nat /\ n <= first.left /\ first.left > 0 /\ ~codec.done
        /\ UNCHANGED <<args, file, out, feeder, fed, declared, second, main>>
    BY <1>1 DEF CodecReads
  <2>3. /\ first'.left = first.left - n /\ first'.end = first.end
        /\ first'.closed = first.closed
        /\ codec'.got = codec.got + n /\ codec'.made = codec.made
        /\ codec'.done = codec.done
        /\ Types'
    BY <2>1, <2>2
  <2> QED
    BY <2>2, <2>3
<1>2. CASE CodecWrites
  <2>1. PICK n \in 1..(Producible - codec.made) :
          /\ second' = [second EXCEPT !.left = n]
          /\ codec' = [codec EXCEPT !.made = @ + n]
    BY <1>2 DEF CodecWrites
  <2>2. Producible \in Int
    BY DEF Producible, Least
  <2>3. /\ n \in Nat /\ codec.made + n <= Producible /\ ~codec.done /\ second.left = 0
        /\ UNCHANGED <<args, file, out, feeder, fed, declared, first, main>>
    BY <1>2, <2>2 DEF CodecWrites
  <2>4. /\ second'.left = n /\ second'.end = second.end
        /\ codec'.got = codec.got /\ codec'.made = codec.made + n
        /\ codec'.done = codec.done
        /\ Types'
    BY <2>1, <2>3
  <2>5. Makes'
    BY <2>3, <2>4 DEF Producible, Least, InputEnds
  <2> QED
    BY <2>3, <2>4, <2>5
<1>3. CASE EncoderEnds
  <2>1. /\ first.end = "eof" /\ codec.made = codec.got + 2 /\ ~args.decompress
        /\ codec.got = Size
    BY <1>3 DEF EncoderEnds, Producible, InputEnds, FileLengths
  <2> QED
    BY ZenonT(40), <1>3, <2>1 DEF EncoderEnds, CodecReturns
<1>4. CASE DecoderEnds
  <2>1. args.decompress /\ CodecReturns("eof")
    BY <1>4 DEF DecoderEnds
  <2>2. (codec.got >= Stream /\ codec.made = Size) \/ file.kind = "damaged"
    BY <1>4 DEF DecoderEnds, NeedsInput, Producible, Least
  <2>3. /\ second'.left = 0 /\ second.left = 0 /\ second'.end = "eof"
        /\ codec'.got = codec.got /\ codec'.made = codec.made /\ codec'.done
        /\ UNCHANGED <<args, file, out, feeder, fed, declared, first, main>>
        /\ Types'
    BY <2>1 DEF CodecReturns
  <2> QED
    BY <2>1, <2>2, <2>3
<1>5. CASE DecoderStarves
  <2>1. PICK end \in {"eof", "error"} : CodecReturns(end)
    BY <1>5 DEF DecoderStarves
  <2>2. /\ args.decompress /\ first.end = "eof" /\ first.left = 0
        /\ file.kind \in {"cut", "damaged"}
    BY <1>5 DEF DecoderStarves, NeedsInput, InputEnds, FileLengths
  <2>3. /\ ~codec.done
        /\ second'.left = 0 /\ second.left = 0 /\ second'.end = end
        /\ codec'.got = codec.got /\ codec'.made = codec.made /\ codec'.done
        /\ UNCHANGED <<args, file, out, feeder, fed, declared, first, main>>
        /\ Types'
    BY ZenonT(40), <2>1 DEF CodecReturns
  <2> QED
    BY <2>1, <2>2, <2>3
<1>6. CASE DecoderFails
  BY ZenonT(40), <1>6 DEF DecoderFails, CodecReturns
<1> QED
  BY <1>1, <1>2, <1>3, <1>4, <1>5, <1>6 DEF Codec

LEMMA MainStep ==
  ASSUME ToolInv, Main
  PROVE  ToolInv'
<1> USE CommandLineAssumption
    DEF ToolInv, Types, FileOfKind, Conserved, Declares, FirstClosed, Makes, SecondClosed,
        Removing, Running, Unknown, Stream
<1>1. CASE Create
  BY <1>1 DEF Create
<1>2. CASE CreateFails \/ CopyFails \/ RemoveFails
  BY <1>2 DEF CreateFails, CopyFails, RemoveFails, Fatal
<1>3. CASE CopyOut
  <2>1. PICK n \in 1..second.left : /\ second' = [second EXCEPT !.left = @ - n]
                                   /\ out' = [out EXCEPT !.n = @ + n]
    BY <1>3 DEF CopyOut
  <2>2. /\ n \in Nat /\ n <= second.left
        /\ UNCHANGED <<args, file, feeder, fed, declared, first, codec, main>>
    BY <1>3 DEF CopyOut
  <2>3. /\ second'.left = second.left - n /\ second'.end = second.end
        /\ out'.n = out.n + n /\ out'.exists = out.exists
        /\ Types'
    BY <2>1, <2>2
  <2> QED
    BY <2>2, <2>3
<1>4. CASE CopyEnds
  <2>1. /\ main = "copy"
        /\ \/ UNCHANGED main
           \/ main' \in {"remove", "return"} /\ second.end = "eof"
        /\ main' = "remove" => ~args.stdout
        /\ UNCHANGED <<args, file, out, feeder, fed, declared, first, codec, second>>
    BY <1>4 DEF CopyEnds, Fatal
  <2> QED
    BY <2>1
<1>5. CASE Remove
  BY ZenonT(40), <1>5 DEF Remove
<1>6. CASE MainReturns
  <2>1. /\ main = "return" /\ main' = "end"
        /\ first'.left = first.left /\ first'.end = first.end
        /\ first'.closed => first.closed \/ args.decompress
        /\ second'.left = second.left /\ second'.end = second.end
        /\ UNCHANGED <<args, file, out, feeder, fed, declared, codec>>
    BY <1>6 DEF MainReturns
  <2>2. /\ first' = first \/ first' = [first EXCEPT !.closed = TRUE]
        /\ second' = [second EXCEPT !.closed = TRUE]
    BY <1>6 DEF MainReturns
  <2>3. first' \in [left : Nat, end : {"open", "eof"}, closed : BOOLEAN]
    BY ZenonT(40), <2>2
  <2>4. second' \in [left : Nat, end : {"open", "eof", "error"}, closed : BOOLEAN]
    BY <2>2
  <2> QED
    BY <2>1, <2>3, <2>4
<1>7. CASE Exit
  BY <1>7 DEF Exit
<1> QED
  BY <1>1, <1>2, <1>3, <1>4, <1>5, <1>6, <1>7 DEF Main

\* Every state of a run of the tool meets the invariant.
THEOREM ToolInvariance == ToolSpec => []ToolInv
<1>1. ToolInit => ToolInv
  BY ToolInitOk
<1>2. ToolInv /\ [ToolNext]_toolVars => ToolInv'
  <2> SUFFICES ASSUME ToolInv, [ToolNext]_toolVars PROVE ToolInv'
    OBVIOUS
  <2>1. CASE ToolNext
    BY <2>1, FeederStep, CodecStep, MainStep DEF ToolNext
  <2>2. CASE UNCHANGED toolVars
    BY <2>2 DEF toolVars, ToolInv, Types, FileOfKind, Conserved, Declares, FirstClosed, Makes,
                SecondClosed, Removing
  <2> QED
    BY <2>1, <2>2
<1> QED
  BY <1>1, <1>2, PTL DEF ToolSpec

\* The input file is gone only when the codec has ended without an error and all it
\* made is in the output, whatever has failed in any of the goroutines; and that is
\* the whole, unless the input is a stream that was cut or damaged. Links are left
\* out: their size is declared wrongly (HeaderTellsSize).
THEOREM InputIsSafe ==
  ASSUME "symlink" \notin Kinds PROVE ToolSpec => []RemovedOnlyIfWhole
<1>1. ToolInv => RemovedOnlyIfWhole
  BY CommandLineAssumption
     DEF ToolInv, Types, FileOfKind, Conserved, Declares, FirstClosed, SecondClosed, Removing,
         RemovedOnlyIfWhole, Spoilt, Whole, FileLengths, Stream
<1> QED
  BY <1>1, ToolInvariance, PTL

\* No write is left in the pipe that main closes on its way out, unless the file
\* goes on behind the end of the stream or is damaged.
THEOREM NoWriteBroken == ToolSpec => []NothingLeftInPipe
<1>1. ToolInv => NothingLeftInPipe
  BY CommandLineAssumption
     DEF ToolInv, Types, FileOfKind, Conserved, FirstClosed, SecondClosed, Removing,
         NothingLeftInPipe, FileLengths, Stream
<1> QED
  BY <1>1, ToolInvariance, PTL

\* But for links, the size in the header is the size of the data.
THEOREM RegularSize ==
  ASSUME "symlink" \notin Kinds PROVE ToolSpec => []HeaderTellsSize
<1>1. ToolInv => HeaderTellsSize
  BY CommandLineAssumption
     DEF ToolInv, Types, FileOfKind, Declares, HeaderTellsSize, FileLengths
<1> QED
  BY <1>1, ToolInvariance, PTL
=============================================================================
