---------------------------- MODULE PacketCodec ----------------------------
(***************************************************************************)
(* The packets of an LZMA stream: encoder.codeOneBlock with writeEndMarker *)
(* (lzma_encoder.go) against decoder.doDecode (lzma_decoder.go).           *)
(*                                                                         *)
(* A packet is a few symbols, each coded in a context: an array of         *)
(* probabilities and an index into it, chosen from what has been coded so  *)
(* far. The stream does not name the contexts, each side computes its own; *)
(* a symbol is decoded as it was encoded only if both computed the same    *)
(* one (RangeCoder), and any value may come out otherwise. So both sides   *)
(* must keep the same state, repeat distances and last byte, through two   *)
(* pieces of code that look nothing alike.                                 *)
(*                                                                         *)
(* What getOptimum chooses is any packet that describes the input          *)
(* (LzParse; Optimum shows that it chooses no other). What becomes of the  *)
(* stream between Writer and Reader is Damage.                             *)
(***************************************************************************)
EXTENDS LzParse

CONSTANTS PosStates,    \* 1 << posStateBits
          LitPosStates, \* 1 << litPosStateBits
          LenStates,    \* kNumLenToPosStates
          Inputs,       \* bound: what is encoded is one of these
          MaxOut,       \* bound: bytes decoded from a damaged stream
          MaxDist,      \* bound: the distances a damaged stream holds
          MaxAhead      \* bound: packets the encoder is ahead of the decoder

ASSUME PacketAssumption ==
  /\ {PosStates, LitPosStates, LenStates, MaxAhead} \subseteq Nat \ {0}
  /\ {MaxOut, MaxDist} \subseteq Nat
  /\ \A s \in Inputs : s \in Seq(Byte) /\ Len(s) <= MaxInput

VARIABLES channel,  \* the packets encoded and not yet decoded
          lost,     \* the stream has been damaged
          dec,      \* of doDecode: state, reps (rep0..rep3), prev, pos
          decoded,  \* what doDecode has put into the window
          phase     \* of the decoder: "run", "done" or "thrown"

decVars == <<dec, decoded, phase>>
vars == <<encVars, channel, lost, decVars>>

Bit == {0, 1}
EndDistance == -1       \* int32(0xFFFFFFFF)

\* Contexts. Literal's holds all of prevByte where the code takes its leading
\* bits, and the byte matched against, where the code takes its bits one by one.
PosState(p) == p % PosStates
LenToPosState(n) == IF n - MinLen < LenStates THEN n - MinLen ELSE LenStates - 1
IsMatch(s, p)  == <<"isMatch", s, PosState(p)>>
IsRep(s)       == <<"isRep", s>>
IsRepG(i, s)   == <<"isRepG", i, s>>
Rep0Long(s, p) == <<"isRep0Long", s, PosState(p)>>
LenAt(p)       == <<"len", PosState(p)>>
RepLenAt(p)    == <<"repLen", PosState(p)>>
DistanceAt(n)  == <<"distance", LenToPosState(n)>>
Plain(p, prev)          == <<"literal", p % LitPosStates, prev>>
Matched(p, prev, match) == <<"matched", p % LitPosStates, prev, match>>

Coded(at, sym) == [at |-> at, sym |-> sym]

Init == /\ input \in Inputs /\ ParseInit
        /\ dec = Start
        /\ lost = FALSE
        /\ channel = << >> /\ decoded = << >>
        /\ phase = "run"
-----------------------------------------------------------------------------
(* The encoder: the packets of LzParse, symbol by symbol. *)

Coding == ~lost /\ Len(channel) < MaxAhead

Send(packet) == /\ channel' = Append(channel, packet)
                /\ UNCHANGED <<lost, decVars>>

CodeLiteral ==
  /\ Coding /\ Literal
  /\ LET byte  == input[enc.pos + 1]
         match == input[enc.pos - enc.reps[0]]
     IN  Send(<<Coded(IsMatch(enc.state, enc.pos), 0),
                Coded(IF IsCharState(enc.state)
                      THEN Plain(enc.pos, enc.prev)
                      ELSE Matched(enc.pos, enc.prev, match), byte)>>)

CodeShortRep ==
  /\ Coding /\ ShortRep
  /\ LET s == enc.state
     IN  Send(<<Coded(IsMatch(s, enc.pos), 1), Coded(IsRep(s), 1),
                Coded(IsRepG(0, s), 0), Coded(Rep0Long(s, enc.pos), 0)>>)

\* Which distance is repeated.
RepChoice(k, s, p) ==
  IF k = 0 THEN <<Coded(IsRepG(0, s), 0), Coded(Rep0Long(s, p), 1)>>
  ELSE IF k = 1 THEN <<Coded(IsRepG(0, s), 1), Coded(IsRepG(1, s), 0)>>
  ELSE <<Coded(IsRepG(0, s), 1), Coded(IsRepG(1, s), 1), Coded(IsRepG(2, s), k - 2)>>

CodeRep(k, n) ==
  /\ Coding /\ Rep(k, n)
  /\ LET s == enc.state
     IN  Send(<<Coded(IsMatch(s, enc.pos), 1), Coded(IsRep(s), 1)>>
              \o RepChoice(k, s, enc.pos)
              \o <<Coded(RepLenAt(enc.pos), n)>>)

MatchPacket(s, p, n, d) ==
  <<Coded(IsMatch(s, p), 1), Coded(IsRep(s), 0),
    Coded(LenAt(p), n), Coded(DistanceAt(n), d)>>

CodeMatch(d, n) ==
  /\ Coding /\ Match(d, n)
  /\ Send(MatchPacket(enc.state, enc.pos, n, d))

\* Mutant: flush leaves the marker out.
FlushWithoutMarker ==
  /\ Coding /\ Flush
  /\ UNCHANGED <<channel, lost, decVars>>

\* flush: with an unknown size a match of distance 0xFFFFFFFF marks the end.
FlushStream ==
  /\ Coding /\ Flush
  /\ \/ /\ size = -1
        /\ Send(MatchPacket(enc.state, enc.pos, MinLen, EndDistance))
     \/ /\ size # -1
        /\ UNCHANGED <<channel, lost, decVars>>
-----------------------------------------------------------------------------
(* The stream between them. *)

\* From here on the bytes are not those that were encoded.
Damage ==
  /\ ~lost /\ phase = "run"
  /\ lost' = TRUE /\ channel' = << >>
  /\ UNCHANGED <<encVars, decVars>>
-----------------------------------------------------------------------------
(* The decoder. *)

\* Symbol i of the packet as the decoder reads it in context `at': as it was
\* encoded if that context was the encoder's, any of `alphabet' if not.
Read(i, at, alphabet) ==
  IF ~lost /\ i <= Len(Head(channel)) /\ Head(channel)[i].at = at
  THEN {Head(channel)[i].sym}
  ELSE alphabet

\* The condition of doDecode's loop.
MoreToDecode == size < 0 \/ dec.pos < size

Decoding == /\ phase = "run" /\ MoreToDecode
            /\ IF lost THEN Len(decoded) < MaxOut ELSE channel # << >>
            /\ channel' = IF lost THEN channel ELSE Tail(channel)

\* The stream with n bytes repeated from d + 1 back, by copyBlock.
Copied(d, n) == decoded \o [i \in 1..n |-> decoded[Len(decoded) - d + ((i - 1) % (d + 1))]]

\* Mutant: the byte a literal is matched against is one too far back.
LiteralContextOffByOne ==
  IF IsCharState(dec.state) THEN Plain(dec.pos, dec.prev)
  ELSE Matched(dec.pos, dec.prev, decoded[IF dec.reps[0] + 1 < dec.pos
                                          THEN dec.pos - dec.reps[0] - 1 ELSE 1])

LiteralContext ==
  IF IsCharState(dec.state) THEN Plain(dec.pos, dec.prev)
  ELSE Matched(dec.pos, dec.prev, decoded[dec.pos - dec.reps[0]])

DecodeLiteral ==
  /\ Decoding
  /\ 0 \in Read(1, IsMatch(dec.state, dec.pos), Bit)
  /\ \E b \in Read(2, LiteralContext, Byte) :
       /\ decoded' = Append(decoded, b)
       /\ dec' = [dec EXCEPT !.state = AfterLiteral(@), !.prev = b, !.pos = @ + 1]
  /\ UNCHANGED <<encVars, lost, phase>>

\* Mutant: the distance is not compared with the dictionary.
CopyOrThrowNoDict(state, reps, n) ==
  \/ /\ reps[0] >= dec.pos
     /\ phase' = "thrown"
     /\ dec' = [dec EXCEPT !.state = state, !.reps = reps]
     /\ UNCHANGED decoded
  \/ /\ reps[0] < dec.pos
     /\ decoded' = Copied(reps[0], n)
     /\ dec' = [state |-> state, reps |-> reps,
                prev |-> decoded'[Len(decoded')], pos |-> dec.pos + n]
     /\ UNCHANGED phase

\* The end of the loop's body for every packet but a literal.
CopyOrThrow(state, reps, n) ==
  \/ /\ reps[0] >= dec.pos \/ reps[0] >= DictSize
     /\ phase' = "thrown"
     /\ dec' = [dec EXCEPT !.state = state, !.reps = reps]
     /\ UNCHANGED decoded
  \/ /\ reps[0] < dec.pos /\ reps[0] < DictSize
     /\ decoded' = Copied(reps[0], n)
     /\ dec' = [state |-> state, reps |-> reps,
                prev |-> decoded'[Len(decoded')], pos |-> dec.pos + n]
     /\ UNCHANGED phase

ReadsRep == /\ Decoding
            /\ 1 \in Read(1, IsMatch(dec.state, dec.pos), Bit)
            /\ 1 \in Read(2, IsRep(dec.state), Bit)

DecodeShortRep ==
  /\ ReadsRep
  /\ 0 \in Read(3, IsRepG(0, dec.state), Bit)
  /\ 0 \in Read(4, Rep0Long(dec.state, dec.pos), Bit)
  /\ CopyOrThrow(AfterShortRep(dec.state), dec.reps, 1)
  /\ UNCHANGED <<encVars, lost>>

\* Mutant: rep3 is forgotten where rep2 becomes rep3.
RepsAfterKeeping(k) ==
  LET r == dec.reps
  IN  CASE k = 0 -> r
        [] k = 1 -> [r EXCEPT ![0] = r[1], ![1] = r[0]]
        [] OTHER -> [r EXCEPT ![0] = r[k], ![1] = r[0], ![2] = r[1]]

\* rep0..rep3 after the assignments on the way to distance k.
RepsAfter(k) ==
  LET r == dec.reps
  IN  CASE k = 0 -> r
        [] k = 1 -> [r EXCEPT ![0] = r[1], ![1] = r[0]]
        [] k = 2 -> [r EXCEPT ![0] = r[2], ![1] = r[0], ![2] = r[1]]
        [] k = 3 -> [r EXCEPT ![0] = r[3], ![1] = r[0], ![2] = r[1], ![3] = r[2]]

\* Which distance the decoder reads, and at which symbol the length follows.
ReadsChoice(k) ==
  LET s == dec.state
  IN  \/ /\ k = 0 /\ 0 \in Read(3, IsRepG(0, s), Bit)
         /\ 1 \in Read(4, Rep0Long(s, dec.pos), Bit)
      \/ /\ k = 1 /\ 1 \in Read(3, IsRepG(0, s), Bit)
         /\ 0 \in Read(4, IsRepG(1, s), Bit)
      \/ /\ k \in {2, 3} /\ 1 \in Read(3, IsRepG(0, s), Bit)
         /\ 1 \in Read(4, IsRepG(1, s), Bit)
         /\ k - 2 \in Read(5, IsRepG(2, s), Bit)

DecodeRep(k) ==
  /\ ReadsRep /\ ReadsChoice(k)
  /\ \E n \in Read(IF k < 2 THEN 5 ELSE 6, RepLenAt(dec.pos), Lengths) :
       CopyOrThrow(AfterRep(dec.state), RepsAfter(k), n)
  /\ UNCHANGED <<encVars, lost>>

\* A distance of -1 is the end of the stream; one that is negative as an int32
\* (-2 stands for them) is an error; the others are checked like a repeat's.
DecodeMatch ==
  /\ Decoding
  /\ 1 \in Read(1, IsMatch(dec.state, dec.pos), Bit)
  /\ 0 \in Read(2, IsRep(dec.state), Bit)
  /\ \E n \in Read(3, LenAt(dec.pos), Lengths) :
       \E d \in Read(4, DistanceAt(n), -2..MaxDist) :
         LET reps == Pushed(dec.reps, d)
         IN  \/ /\ d < 0
                /\ phase' = IF d = EndDistance THEN "done" ELSE "thrown"
                /\ dec' = [dec EXCEPT !.state = AfterMatch(@), !.reps = reps]
                /\ UNCHANGED decoded
             \/ /\ d >= 0
                /\ CopyOrThrow(AfterMatch(dec.state), reps, n)
  /\ UNCHANGED <<encVars, lost>>

\* The number of bytes the header gave has been decoded.
FinishAtSize ==
  /\ phase = "run" /\ ~MoreToDecode
  /\ phase' = "done"
  /\ UNCHANGED <<encVars, channel, lost, dec, decoded>>

\* A damaged stream ends in the middle of a packet.
StreamEnds ==
  /\ phase = "run" /\ lost /\ MoreToDecode
  /\ phase' = "thrown"
  /\ UNCHANGED <<encVars, channel, lost, dec, decoded>>
-----------------------------------------------------------------------------
Encode == \/ CodeLiteral \/ CodeShortRep
          \/ \E k \in Reps, n \in Lengths : CodeRep(k, n)
          \/ \E d \in Distances, n \in Lengths : CodeMatch(d, n)
          \/ FlushStream

Decode == \/ DecodeLiteral \/ DecodeShortRep
          \/ \E k \in Reps : DecodeRep(k)
          \/ DecodeMatch \/ FinishAtSize

Next == Encode \/ Damage \/ Decode \/ StreamEnds

Spec == Init /\ [][Next]_vars

\* Both sides are loops that run until they end; the decoder is woken by the
\* packets it waits for. Nothing need be damaged.
FairSpec == Spec /\ WF_vars(Encode) /\ WF_vars(Decode)
-----------------------------------------------------------------------------
\* Whenever the decoder has caught up, its state, repeat distances, last byte
\* and position are the encoder's: the context of the next symbol is the same.
Lockstep ==
  ~lost /\ channel = << >> /\ phase = "run" => enc = dec

\* What is decoded from an intact stream is the input, no more of it than has
\* been encoded, and all of it when the decoder ends, whether it ended at the
\* size in the header or at the marker. It refuses no packet: every distance it
\* is sent is within what it has decoded and within its dictionary.
DecodesInput ==
  ~lost => /\ IsPrefix(decoded, input)
           /\ Len(decoded) <= enc.pos
           /\ phase = "done" => decoded = input /\ channel = << >>
           /\ phase # "thrown"

\* Whatever the stream holds, no distance that doDecode keeps reaches before the
\* first byte or out of the dictionary: neither a copy nor the byte a literal is
\* matched against is read from where nothing was written.
RepsStayInside ==
  phase = "run" => \A i \in Reps :
                     \/ dec.reps[i] = 0
                     \/ dec.reps[i] \in 1..(dec.pos - 1) /\ dec.reps[i] < DictSize

\* An intact stream is decoded to its end: the decoder neither waits for a
\* packet that does not come nor stops early.
Delivered == <>(lost \/ phase = "done")
=============================================================================
