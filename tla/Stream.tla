------------------------------- MODULE Stream -------------------------------
(***************************************************************************)
(* The bytes of a stream from their first to a symbol: the header (Header) *)
(* and behind it one symbol (SymbolCoding), with its price (SymbolPrices). *)
(* The literal coders of both sides (litCoder, lzma_lit_coder.go) are made *)
(* from the header: the encoder's from the level, the decoder's from what  *)
(* it has read of it.                                                      *)
(***************************************************************************)
EXTENDS Header, SymbolPrices

CONSTANTS FollowedBy,  \* bound: the header behind which symbols are considered
          Positions, PrevBytes  \* bound: where and after which bytes literals are

ASSUME StreamAssumption == /\ FollowedBy.level # 0 /\ Legal(FollowedBy)
                           /\ Positions \subseteq Nat /\ PrevBytes \subseteq Byte

vars == <<headerVars, symbolVars>>

NoSymbol == [kind |-> "none"]

Init == /\ HeaderInit
        /\ job = NoSymbol /\ tape = << >>
        /\ reader = [tape |-> << >>, ok |-> TRUE, val |-> 0]
        /\ stage = "header"

AnyHeader == HeaderNext /\ UNCHANGED symbolVars

\* Nothing else of a symbol's way depends on the header.
FirstSymbol == /\ step = "read" /\ ask = FollowedBy /\ stage = "header"
               /\ job' \in Jobs /\ stage' = "new"
               /\ UNCHANGED <<headerVars, tape, reader>>

AnySymbol == SymbolNext /\ UNCHANGED headerVars

Next == AnyHeader \/ FirstSymbol \/ AnySymbol

Spec == Init /\ [][Next]_vars
-----------------------------------------------------------------------------
\* newLitCoder: how many sub-coders it makes.
SubCoders(p) == 2^(p.lc + p.lp)

\* Mutant: the position is shifted by its own number of bits.
SubCoderShiftedByPos(p, pos, prev) == (pos % 2^p.lp) * 2^p.lp + (prev \div 2^(8 - p.lc))

\* getSubCoder: by the last bits of the position and the first of the last byte.
SubCoder(p, pos, prev) == (pos % 2^p.lp) * 2^p.lc + (prev \div 2^(8 - p.lc))

\* Behind every header that the decoder accepts, its own encoder's or another,
\* each literal has a sub-coder, and it is the one that the encoder took.
LiteralsHaveCoders ==
  step = "read" =>
    \A pos \in Positions, prev \in PrevBytes :
      /\ SubCoder(prop, pos, prev) \in 0..(SubCoders(prop) - 1)
      /\ ask.level # 0 => SubCoder(prop, pos, prev) = SubCoder(ask.props, pos, prev)
=============================================================================
