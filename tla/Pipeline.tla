------------------------------ MODULE Pipeline ------------------------------
(***************************************************************************)
(* A Writer and a Reader joined: what the caller of the one writes is      *)
(* compressed into w by a goroutine (WriterSession), gets from there to r  *)
(* some time later, and is decompressed by another goroutine for the       *)
(* caller of the other (ReaderSession). w may fail at any write; between w *)
(* and r code may be held up, damaged (with or without the decoder         *)
(* noticing), or lost from any point on; r may fail; and the reading       *)
(* caller may close at any moment.                                         *)
(***************************************************************************)
EXTENDS WriterSession, ReaderSession

VARIABLE broken     \* what is between w and r has stopped passing code on

vars == <<writerVars, readerVars, source, broken>>

Init == WriterInit /\ ReaderInit /\ broken = FALSE

\* A caller that declares a size writes no more than that, and that much before
\* it closes, or as long as it can.
Declared ==
  sized /\ caller = "open" => /\ caller' = "writing" => written + offered' <= Total
                              /\ caller' = "closing" => written = Total \/ callerErr

Writing == WriterNext /\ Declared /\ UNCHANGED <<readerVars, source, broken>>

Reading == ReaderNext /\ UNCHANGED <<writerVars, broken>>

\* What w has got: the header, and code for so many bytes.
Sent == coded - buffered

Pass == source.end = "open" /\ ~broken /\ UNCHANGED <<writerVars, readerVars, broken>>

\* Some of it gets to r;
Deliver == /\ Pass
           /\ \E n \in (source.n + 1)..Sent : source' = [source EXCEPT !.n = n]

\* all of it, with the end of the stream;
DeliverEnd == /\ Pass /\ sealed /\ source.n = Sent
              /\ source' = [source EXCEPT !.end = "whole"]

\* or what there is when the writing caller has closed w behind a failed encoder.
DeliverStump == /\ Pass /\ caller = "closed" /\ ~sealed /\ source.n = Sent
                /\ source' = [source EXCEPT !.end = "EOF"]

\* Some of what is on its way gets changed.
Damage == /\ source.end = "open" /\ ~source.damaged
          /\ source' = [source EXCEPT !.damaged = TRUE]
          /\ UNCHANGED <<writerVars, readerVars, broken>>

\* The rest is lost on the way, or cannot be read.
Break == /\ source.end = "open" /\ broken' = TRUE
         /\ \E e \in {"EOF", "read error"} : source' = [source EXCEPT !.end = e]
         /\ UNCHANGED <<writerVars, readerVars>>

Next == Writing \/ Reading \/ Deliver \/ DeliverEnd \/ DeliverStump \/ Damage \/ Break

OnWriterSide(A) == A /\ UNCHANGED <<readerVars, source, broken>>
OnReaderSide(A) == A /\ UNCHANGED <<writerVars, broken>>

\* A goroutine runs whenever it can, w answers every write, and what w has got
\* reaches r. A call that can return does, and the reading caller reads on until
\* it has an error; nobody makes the writing caller write or close.
Spec == /\ Init /\ [][Next]_vars
        /\ WF_vars(OnWriterSide(Encoder))
        /\ WF_vars(OnWriterSide(WriteFails \/ CloseReturns))
        /\ WF_vars(Deliver \/ DeliverEnd \/ DeliverStump)
        /\ WF_vars(OnReaderSide(Decoder)) /\ WF_vars(OnReaderSide(Read \/ ReadClosed))
-----------------------------------------------------------------------------
\* A clean EOF on the one side means that all that was written on the other has
\* been read, unless r itself ended early or its code is not what the encoder made:
\* neither is always noticed.
EofIsTheEnd ==
  result = "EOF" /\ ~cut /\ ~source.damaged => delivered = written /\ caller # "open"

\* A caller who reads to the end and gets an error has everything decoded
\* before it except less than one window: flush runs only when the window is
\* full, and not at all on the way out of a throw.
LosesLessThanAWindow ==
  result # none /\ rerr = none => nowPos - delivered < winSize

\* A reading caller who closes lets the goroutine go, even out of a Write that
\* no one will read, once r has come to an end: Close does not interrupt a read
\* of r.
CloseFreesGoroutine == (rerr # none /\ source.end # "open") ~> (dpc = "ended")

\* Once the writing caller has closed, the reading one gets to an end, whatever
\* has become of the encoder and of the code on its way.
ReadingEnds == (caller = "closed") ~> (result # none)

\* Of what is lost without a failure between them, one of the two callers is told:
\* an error of the encoder is returned, and EOF is the end of the data.
LossIsReported ==
  result = "EOF" /\ rerr = none /\ ~broken /\ ~source.damaged =>
    delivered = written \/ callerErr
=============================================================================
