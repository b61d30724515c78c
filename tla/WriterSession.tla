--------------------------- MODULE WriterSession ---------------------------
(***************************************************************************)
(* NewWriterSizeLevel and syncPipe (lzma_encoder.go): a goroutine runs     *)
(* encoder(pr, w, ...) on what the caller writes into a pipe; Close closes *)
(* the pipe and waits for a token that the goroutine sends when it is done *)
(* with w.                                                                 *)
(*                                                                         *)
(* Bytes are counted. The encoder looks ahead: its input window is filled  *)
(* until it is full or the input ends, the parser moves over the bytes of  *)
(* the window before it codes them, and whenever fewer than KeepAfter are  *)
(* left before it the window is filled again. What is coded goes to w      *)
(* through a bufio.Writer, at moments of the buffer's choosing.            *)
(***************************************************************************)
EXTENDS Integers

CONSTANTS MaxInput,   \* bound: bytes the caller has to write
          MaxWrite,   \* bound: bytes of one Write
          Capacity,   \* bytes ahead of pos when lzInWindow is full
          KeepAfter,  \* keepSizeAfter: bytes ahead below which it reads on
          MaxPacket   \* bound: bytes one packet codes (273 in the code)

ASSUME SessionAssumption ==
  /\ MaxInput \in Nat /\ MaxWrite \in Nat \ {0}
  /\ MaxPacket \in Nat \ {0}
  /\ KeepAfter \in Nat \ {0}
  /\ Capacity \in Nat /\ KeepAfter < Capacity

VARIABLES caller,     \* "open", "writing", "closing", "closed"
          offered,    \* bytes of the Write in progress not yet taken
          written,    \* bytes of the Writes that returned without error, and
                      \* of the one in progress those taken
          callerErr,  \* the caller has got an error from Write or Close
          pc,         \* where the goroutine is
          ahead,      \* getNumAvailableBytes: read, and ahead of pos
          looked,     \* additionalOffset: behind pos, and not coded
          inputEnd,   \* streamEnd
          coded,      \* bytes coded; NoHeader before w has the header
          buffered,   \* bytes coded whose code w may not have received
          sealed,     \* w has the last byte of the stream
          failed,     \* the encoder ends with an error
          pipe,       \* "open"; "eof": closed by the caller; "broken": by encoder
          token       \* the token is in closeChan

writerVars == <<caller, offered, written, callerErr, pc, ahead, looked, inputEnd, coded,
                buffered, sealed, failed, pipe, token>>

NoHeader == -1

WriterInit ==
  /\ caller = "open" /\ offered = 0 /\ written = 0 /\ callerErr = FALSE
  /\ pc = "header" /\ ahead = 0 /\ looked = 0 /\ inputEnd = FALSE
  /\ coded = NoHeader /\ buffered = 0 /\ sealed = FALSE /\ failed = FALSE
  /\ pipe = "open" /\ token = FALSE

Caller == <<caller, offered, written, callerErr>>
Fail == failed' = TRUE /\ pc' = "return"

\* Level and size are checked; then the header goes to w, before the bufio.Writer
\* exists, and the input window is allocated.
WriteHeader ==
  /\ pc = "header"
  /\ \/ pc' = "fill" /\ coded' = 0 /\ UNCHANGED failed
     \/ Fail /\ UNCHANGED coded
  /\ UNCHANGED <<Caller, ahead, looked, inputEnd, buffered, sealed, pipe, token>>

\* readBlock reads the pipe until the window is full: some of a Write's bytes,
\* which returns when the last is taken,
TakeInput ==
  /\ pc = "fill" /\ offered > 0 /\ ahead < Capacity
  /\ LET n == IF offered < Capacity - ahead THEN offered ELSE Capacity - ahead
     IN  /\ ahead' = ahead + n /\ offered' = offered - n
         /\ written' = written + n
  /\ caller' = IF offered' = 0 THEN "open" ELSE caller
  /\ UNCHANGED <<callerErr, pc, looked, inputEnd, coded, buffered, sealed, failed, pipe,
                 token>>

\* or the end of the input.
EndInput ==
  /\ pc = "fill" /\ pipe = "eof" /\ ahead < Capacity
  /\ inputEnd' = TRUE /\ pc' = "code"
  /\ UNCHANGED <<Caller, ahead, looked, coded, buffered, sealed, failed, pipe, token>>

WindowFull ==
  /\ pc = "fill" /\ ahead = Capacity
  /\ pc' = "code"
  /\ UNCHANGED <<Caller, ahead, looked, inputEnd, coded, buffered, sealed, failed, pipe,
                 token>>

\* Mutant: the parser does not read on.
LookNoRefill ==
  /\ pc = "code" /\ ahead > 0
  /\ ahead' = ahead - 1 /\ looked' = looked + 1
  /\ UNCHANGED <<Caller, pc, inputEnd, coded, buffered, sealed, failed, pipe, token>>

\* The parser moves on by one byte; movePos reads on when too little is left.
Look ==
  /\ pc = "code" /\ ahead > 0
  /\ ahead' = ahead - 1 /\ looked' = looked + 1
  /\ pc' = IF ~inputEnd /\ ahead' < KeepAfter THEN "fill" ELSE "code"
  /\ UNCHANGED <<Caller, inputEnd, coded, buffered, sealed, failed, pipe, token>>

\* One packet of the bytes looked at: its code goes to the bufio.Writer, which
\* may write to w some of what it holds, or fail after that.
CodePacket ==
  /\ pc = "code"
  /\ \E n \in 1..MaxPacket :
       /\ n <= looked
       /\ looked' = looked - n /\ coded' = coded + n
       /\ buffered' \in 0..(buffered + n)
       /\ UNCHANGED <<pc, failed>> \/ Fail
  /\ UNCHANGED <<Caller, ahead, inputEnd, sealed, pipe, token>>

\* Mutant: the encoder ends without flushing the bufio.Writer.
FinishUnflushed ==
  /\ pc = "code" /\ ahead = 0 /\ looked = 0
  /\ pc' = "return" /\ sealed' = TRUE
  /\ UNCHANGED <<Caller, ahead, looked, inputEnd, coded, buffered, failed, pipe, token>>

\* getNumAvailableBytes is 0: the end marker, the last bytes of the range coder
\* and bufio's Flush.
Finish ==
  /\ pc = "code" /\ ahead = 0 /\ looked = 0
  /\ \/ sealed' = TRUE /\ buffered' = 0 /\ pc' = "return" /\ UNCHANGED failed
     \/ Fail /\ buffered' \in 0..buffered /\ UNCHANGED sealed
  /\ UNCHANGED <<Caller, ahead, looked, inputEnd, coded, pipe, token>>

\* Mutant: the token is sent only when the encoder ended without an error.
SendTokenOnSuccess ==
  /\ pc = "token" /\ ~failed
  /\ token' = TRUE /\ pc' = "ended"
  /\ UNCHANGED <<Caller, ahead, looked, inputEnd, coded, buffered, sealed, failed, pipe>>

\* syncPipeReader.CloseWithError: first the pipe, which fails a Write that is
\* waiting in it,
BreakPipe ==
  /\ pc = "return"
  /\ pc' = "token" /\ pipe' = "broken"
  /\ UNCHANGED <<Caller, ahead, looked, inputEnd, coded, buffered, sealed, failed, token>>

\* then the token.
SendToken ==
  /\ pc = "token"
  /\ token' = TRUE /\ pc' = "ended"
  /\ UNCHANGED <<Caller, ahead, looked, inputEnd, coded, buffered, sealed, failed, pipe>>

Encoder == \/ WriteHeader \/ TakeInput \/ EndInput \/ WindowFull \/ Look
           \/ CodePacket \/ Finish \/ BreakPipe \/ SendToken
-----------------------------------------------------------------------------
Goroutine == <<pc, ahead, looked, inputEnd, coded, buffered, sealed, failed>>

StartWrite ==
  /\ caller = "open" /\ pipe # "eof"
  /\ \E n \in 1..MaxWrite : written + n <= MaxInput /\ offered' = n
  /\ caller' = "writing"
  /\ UNCHANGED <<written, callerErr, Goroutine, pipe, token>>

\* A Write into a pipe whose read end is closed.
WriteFails ==
  /\ caller = "writing" /\ pipe = "broken"
  /\ caller' = "open" /\ offered' = 0 /\ callerErr' = TRUE
  /\ UNCHANGED <<written, Goroutine, pipe, token>>

\* syncPipeWriter.Close: PipeWriter.Close, which never fails,
Close ==
  /\ caller = "open"
  /\ caller' = "closing"
  /\ pipe' = IF pipe = "open" THEN "eof" ELSE pipe
  /\ UNCHANGED <<offered, written, callerErr, Goroutine, token>>

\* Mutant: Close does not wait for the token.
ReturnAtOnce ==
  /\ caller = "closing"
  /\ caller' = "closed"
  /\ UNCHANGED <<offered, written, callerErr, Goroutine, pipe, token>>

\* then <-closeChan. Close returns what PipeWriter.Close did: nil.
CloseReturns ==
  /\ caller = "closing" /\ token
  /\ caller' = "closed" /\ token' = FALSE
  /\ UNCHANGED <<offered, written, callerErr, Goroutine, pipe>>

WriterNext == Encoder \/ StartWrite \/ WriteFails \/ Close \/ CloseReturns

-----------------------------------------------------------------------------
\* The stream is ended only when the caller has closed and everything it wrote
\* has been coded: the encoder never takes a pause of the caller for the end.
SealedAtEnd == sealed => coded = written /\ caller \in {"closing", "closed"}

\* When Close returns, either the encoder failed or the whole stream is in w,
\* nothing of it left in a buffer.
CloseMeansWritten ==
  caller = "closed" /\ ~failed => sealed /\ buffered = 0 /\ coded = written

\* After Close the encoder does not touch w any more.
QuietAfterClose == [][caller = "closed" => UNCHANGED <<coded, buffered, sealed>>]_writerVars

\* A Write or a Close the caller is in returns.
CallsReturn == (caller \in {"writing", "closing"}) ~> (caller \in {"open", "closed"})
=============================================================================
