------------------------------- MODULE Header -------------------------------
(***************************************************************************)
(* The thirteen bytes before the compressed data: checkValues and what     *)
(* encoder writes (lzma_encoder.go) against decodeProps and what decoder   *)
(* makes of it (lzma_decoder.go). The header may also be one that this     *)
(* encoder did not write.                                                  *)
(*                                                                         *)
(* The numbers are narrower than in the code: DictBytes for the four of    *)
(* the dictionary size, SizeBytes for the eight of the uncompressed size,  *)
(* which is signed.                                                        *)
(***************************************************************************)
EXTENDS Integers, Sequences

Byte == 0..255

CONSTANTS DictBytes, SizeBytes,
          Levels,       \* the compression levels that a caller may ask for
          DictLogs,     \* dictSize of a compressionLevel, before the shift
          LegalLogs,    \* 12..29, those checkValues accepts
          Props,        \* its litContextBits, litPosStateBits and posStateBits
          Sizes,        \* sizes that a caller declares
          ForeignDicts, ForeignSizes  \* byte strings of headers from elsewhere

\* v >> 8i, an arithmetic shift.
Shifted(v, i) == LET q[k \in 0..i] == IF k = 0 THEN v ELSE q[k - 1] \div 256
                 IN  q[i]

\* The bytes of v, least significant first, as byte(v >> 8i) gives them.
Little(v, n) == [i \in 1..n |-> Shifted(v, i - 1) % 256]

\* The bytes s put below the number top.
Joined(top, s) == LET j[i \in 0..Len(s)] ==
                        IF i = 0 THEN top ELSE j[i - 1] * 256 + s[Len(s) + 1 - i]
                  IN  j[Len(s)]

Number(s) == Joined(0, s)

\* Mutant: the size is read as an unsigned number.
Unsigned(s) == Number(s)

\* An int64 from its bytes: the last shift reaches the sign.
Signed(s) == Joined(IF s[Len(s)] < 128 THEN 0 ELSE -1, s)

ASSUME HeaderAssumption ==
  /\ {DictBytes, SizeBytes} \subseteq Nat \ {0}
  /\ Levels \subseteq Int /\ Sizes \subseteq Int
  \* A legal dictionary fits in its bytes, any size that can be declared in its.
  /\ {2^k : k \in LegalLogs} \subseteq {d \in Nat \ {0} : Shifted(d, DictBytes) = 0}
  /\ \A z \in Sizes : Shifted(z, SizeBytes - 1) \in -128..127
  /\ Props \subseteq [lc : Nat, lp : Nat, pb : Nat]
  /\ \A d \in ForeignDicts : d \in Seq(Byte) /\ Len(d) = DictBytes
  /\ \A s \in ForeignSizes : s \in Seq(Byte) /\ Len(s) = SizeBytes

VARIABLES ask,     \* the caller's level, size and the level's parameters
          bytes,   \* the header in the stream
          prop,    \* what the decoder has of it: props, dictSize, unpackSize
          step     \* "asked", "refused", "written", "headerError" or "read"

headerVars == <<ask, bytes, prop, step>>

Nothing == [lc |-> 0, lp |-> 0, pb |-> 0, dict |-> 0, size |-> 0]

NoAsk == [level |-> 0, size |-> 0, props |-> CHOOSE p \in Props : TRUE, dictLog |-> 0]

\* A caller of Writer asks for a level and a size; or the header comes from
\* elsewhere, with any first byte.
HeaderInit ==
  /\ prop = Nothing
  /\ \/ /\ ask \in [level : Levels \ {0}, size : Sizes, props : Props, dictLog : DictLogs]
        /\ bytes = << >> /\ step = "asked"
     \/ /\ ask = NoAsk /\ step = "written"
        /\ \E b \in Byte, d \in ForeignDicts, s \in ForeignSizes : bytes = <<b>> \o d \o s

LegalProps(p) == p.lc <= 8 /\ p.lp <= 4 /\ p.pb <= 4

\* The arguments that encoder and checkValues let through.
Legal(a) == /\ a.level \in 1..9
            /\ a.dictLog \in LegalLogs /\ LegalProps(a.props)
            /\ a.size >= -1

Write ==
  /\ step = "asked" /\ Legal(ask)
  /\ bytes' = <<((ask.props.pb * 5 + ask.props.lp) * 9 + ask.props.lc) % 256>>
              \o Little(2^ask.dictLog, DictBytes) \o Little(ask.size, SizeBytes)
  /\ step' = "written"
  /\ UNCHANGED <<ask, prop>>

\* An argumentValueError: returned before a byte is written.
Refuse == /\ step = "asked" /\ ~Legal(ask)
          /\ step' = "refused"
          /\ UNCHANGED <<ask, bytes, prop>>

\* Mutant: only the number is compared, and it may be 225.
AcceptsByteAtMost(d) == d <= 225

\* decodeProps's two tests, of the byte and of what it stands for.
AcceptsByte(d) == /\ d <= 225
                  /\ d % 9 <= 8 /\ (d \div 9) % 5 <= 4 /\ (d \div 9) \div 5 <= 4

Read ==
  /\ step = "written"
  /\ LET d == bytes[1]
     IN  IF AcceptsByte(d)
         THEN /\ prop' = [lc |-> d % 9, lp |-> (d \div 9) % 5, pb |-> (d \div 9) \div 5,
                          dict |-> Number(SubSeq(bytes, 2, DictBytes + 1)),
                          size |-> Signed(SubSeq(bytes, DictBytes + 2, Len(bytes)))]
              /\ step' = "read"
         ELSE step' = "headerError" /\ UNCHANGED prop
  /\ UNCHANGED <<ask, bytes>>

HeaderNext == Write \/ Refuse \/ Read

\* dictSizeCheck: the distances that doDecode lets through.
DictSizeCheck == IF prop.dict > 1 THEN prop.dict ELSE 1
-----------------------------------------------------------------------------
\* What the decoder reads is what the encoder was asked for, an unknown size (-1)
\* and a size of 0 included; its dictionary is the encoder's.
HeaderRoundTrip ==
  step \in {"read", "headerError"} /\ ask.level # 0 =>
    /\ step = "read"
    /\ [lc |-> prop.lc, lp |-> prop.lp, pb |-> prop.pb] = ask.props
    /\ DictSizeCheck = 2^ask.dictLog /\ prop.size = ask.size

\* The first bytes accepted are exactly those of legal properties, though the
\* test of the byte itself lets 225 through: they index the decoder's tables.
AcceptsExactlyLegal ==
  /\ step = "read" => LegalProps(prop)
  /\ step = "headerError" =>
       ~\E lc \in 0..8, lp \in 0..4, pb \in 0..4 : bytes[1] = (pb * 5 + lp) * 9 + lc
=============================================================================
