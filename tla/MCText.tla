-------------------------------- MODULE MCText --------------------------------
(***************************************************************************)
(* From the output of a command to the screen, stage by stage: the buffer, *)
(* the style an escape sequence makes, its pair of colors, how much of a   *)
(* line is drawn; and how a script's strings come to be output.  Each      *)
(* stage takes whatever the one before may give, so that they have nothing *)
(* more in common, and a behaviour is one of one stage.                    *)
(***************************************************************************)
EXTENDS Buffer, TLC

CONSTANTS Params, CodeRange, MaxCodes, Colors, Chars, BoxWidths, MaxChars, Units, MaxUnits

VARIABLES
  part,
  term, old, newFg, newBg, codes, sc, termPc,
  pairs, colors, asked,
  boxWidth, maxWidth, bytes, width, drawPc, columns, n, odd, spansAfter, cut,
  cesu8, hs, utf8, read, written, past

termVars == <<term, old, newFg, newBg, codes, sc, termPc>>
colorVars == <<pairs, colors, asked>>
drawVars == <<boxWidth, maxWidth, bytes, width, drawPc, columns, n, odd, spansAfter, cut>>
cesuVars == <<cesu8, hs, utf8, read, written, past>>

T == INSTANCE TermStyle WITH style <- term, pc <- termPc
P == INSTANCE ColorPair
D == INSTANCE DrawLine WITH pc <- drawPc, SizeRange <- CodeRange
C == INSTANCE Cesu8

ASSUME StagesAssumption == T!ConstantsOK /\ P!ConstantsOK /\ D!ConstantsOK /\ C!ConstantsOK

(* Five bytes hold two lines and a piece of one; four with a newline hold  *)
(* three highlights, of which one may be empty.                            *)
OtherStyles == Permutations(Styles \ {Default})
LongHasTwo == Len(highlights) <= 2 \/ len <= 4

(* An annotation's offsets reach to the end of four bytes; OffsetRange is  *)
(* there, so that lines past what 32 bits hold occur as well.  Annotations *)
(* and highlights do not meet: those come with plain text.                 *)
SomeAnnotations == [start : 0..3, end : 1..4, type : {"a", "b"}]
AnnotatedIsPlain == annotations # <<>> => highlights = <<>> /\ pc = "idle" /\ len <= 4

(* Sequences of up to four codes, so that a color with its two arguments   *)
(* is followed by another: a reset, an attribute on and off, a color, the  *)
(* extended colors and their 5, a number that is 1 as a uint16_t, and one  *)
(* that is -1 as a color.                                                  *)
SomeParams == {0, 22, 31, 38, 48, 5, 65537, 131071}

(* Four only from the default style, three from any.                       *)
LongFromDefault == Len(codes) <= 3 \/ old = T!Plain

(* The default color, the first and the last of the eight basic ones, and  *)
(* one of the others.  Numbers from -9 to 63 occur, and several of them    *)
(* for more than one style: 8 * 1 - 1 for (9, -1) is 8 * 0 + 7.            *)
SomeColors == {-1, 0, 7, 9}

(* A letter, a tab, an accented letter, a Chinese one, and an accent of    *)
(* its own that takes no column, in boxes too narrow for a tab and wide    *)
(* enough, and in one of a pane so narrow that its width is negative.      *)
Char(b, w) == [bytes |-> b, width |-> w]
SomeChars == {Char(1, 1), Char(1, 8), Char(2, 1), Char(3, 2), Char(2, 0)}
SomeWidths == {-2, 0, 1, 2, 3, 9}

(* Characters of one to four bytes and the first and last of the high and  *)
(* of the low surrogates; each of them may be the last, cut short.         *)
SomeUnits == {97, 233, 8364, 128512, 55296, 56319, 56320, 57343}

Bounded == AnnotatedIsPlain /\ LongHasTwo /\ LongFromDefault

Parts == {"buffer", "style", "color", "draw", "string"}

(* Whatever an idle stage starts from makes no difference.                 *)
MCInit ==
  /\ part \in Parts
  /\ Init /\ T!Init /\ P!Init /\ D!Init /\ C!Init
  /\ part # "draw" => boxWidth = CHOOSE w \in BoxWidths : TRUE

MCNext ==
  /\ UNCHANGED part
  /\ \/ part = "buffer" /\ Next /\ UNCHANGED <<termVars, colorVars, drawVars, cesuVars>>
     \/ part = "style" /\ T!Next /\ UNCHANGED <<vars, colorVars, drawVars, cesuVars>>
     \/ part = "color" /\ P!Next /\ UNCHANGED <<vars, termVars, drawVars, cesuVars>>
     \/ part = "draw" /\ D!Next /\ UNCHANGED <<vars, termVars, colorVars, cesuVars>>
     \/ part = "string" /\ C!Next /\ UNCHANGED <<vars, termVars, colorVars, drawVars>>

MCSpec == MCInit /\ [][MCNext]_<<part, vars, termVars, colorVars, drawVars, cesuVars>>

(* Properties of the other stages, whose modules state them.               *)
LastCommandDecides == T!LastCommandDecides
BasicColorsAreShown == P!BasicColorsAreShown
StaysInBox == D!StaysInBox
WellFormedIsConverted == C!WellFormedIsConverted
FitsAllocation == C!FitsAllocation
=============================================================================
