------------------------------- MODULE Buffer -------------------------------
(***************************************************************************)
(* buffer.c and annotations.c: what a pager knows of its command's output. *)
(* Tokens append to a memory stream, to the ends of lines and to a list of *)
(* highlights; annotators add annotations; get_render_lines cuts a range   *)
(* of lines into spans of one style each.                                  *)
(*                                                                         *)
(* A byte of the stream is kept as what the rest of the program must tell  *)
(* about it: whether it is a newline and the style in force when it came.  *)
(***************************************************************************)
EXTENDS Integers, Sequences

CONSTANTS
  Styles, Default,   \* terminal styles; the one that highlights nothing
  Texts,             \* lengths of content tokens (0: it began with a zero byte)
  SizeMax,           \* SIZE_MAX, the end of an open highlight
  Annotations,       \* annotations an annotator may send
  OffsetRange,       \* what a uint32_t holds is below this
  MaxLen, MaxHighlights, MaxAnnotations,   \* bounds
  MaxRows            \* bound: rows of the box

ASSUME ConstantsAssumption ==
  /\ Default \in Styles
  /\ MaxLen \in Nat /\ SizeMax \in Nat /\ MaxLen < SizeMax
  /\ MaxHighlights \in Nat /\ MaxAnnotations \in Nat /\ MaxRows \in Nat
  /\ Texts \subseteq Nat
  /\ OffsetRange \in Nat /\ \A a \in Annotations : a.start \in Nat /\ a.end \in Nat

VARIABLES
  stream,                   \* the memory stream
  lineEnds,                 \* line_ends->offsets
  highlights, highlighting, \* the list and its flag
  annotations,              \* annotations->items
  style,                    \* history: style of the last token
  pc,                       \* in get_render_lines: the loop on lines, or out of it
  start, num,               \* its arguments, num as cut
  offset, highlight,        \* start_offset; index of the highlight, 0 is NULL
  spans, lines              \* the RenderLine in progress, the finished ones

heldVars == <<stream, lineEnds, highlights, highlighting, annotations, style>>
renderVars == <<pc, start, num, offset, highlight, spans, lines>>
vars == <<heldVars, renderVars>>

Init ==
  /\ stream = <<>> /\ lineEnds = <<>>
  /\ highlights = <<>> /\ highlighting = FALSE
  /\ annotations = <<>> /\ style = Default
  /\ pc = "idle" /\ start = 0 /\ num = 0 /\ offset = 0 /\ highlight = 0
  /\ spans = <<>> /\ lines = <<>>

len == Len(stream)
FirstOf(S) == IF S = {} THEN 0 ELSE CHOOSE k \in S : \A j \in S : k <= j
-----------------------------------------------------------------------------
(* buffer_handle_token.                                                    *)
Put(n, newline) == stream' = stream \o [i \in 1..n |-> [newline |-> newline, style |-> style]]

HandleContent(n) ==
  /\ pc = "idle" /\ len + n <= MaxLen
  /\ Put(n, FALSE)
  /\ UNCHANGED <<lineEnds, highlights, highlighting, annotations, style, renderVars>>

HandleNewline ==
  /\ pc = "idle" /\ len < MaxLen
  /\ Put(1, TRUE)
  /\ lineEnds' = Append(lineEnds, Len(stream'))
  /\ UNCHANGED <<highlights, highlighting, annotations, style, renderVars>>

(* highlights_end, where a highlight is open.                              *)
Ended == IF highlighting THEN [highlights EXCEPT ![Len(highlights)].end = len] ELSE highlights
Opened(ts) == Append(Ended, [ts |-> ts, start |-> len, end |-> SizeMax])

(* Wrong on purpose: the default style does not end a highlight.           *)
HandleTermStyleOpen(ts) ==
  /\ pc = "idle" /\ Len(highlights) < MaxHighlights
  /\ highlights' = IF ts = Default THEN highlights ELSE Opened(ts)
  /\ highlighting' = (highlighting \/ ts # Default)
  /\ style' = ts
  /\ UNCHANGED <<stream, lineEnds, annotations, renderVars>>

HandleTermStyle(ts) ==
  /\ pc = "idle" /\ Len(highlights) < MaxHighlights
  /\ highlights' = IF ts = Default THEN Ended ELSE Opened(ts)
  /\ highlighting' = (ts # Default)
  /\ style' = ts
  /\ UNCHANGED <<stream, lineEnds, annotations, renderVars>>

AddAnnotation(a) ==
  /\ pc = "idle" /\ Len(annotations) < MaxAnnotations
  /\ annotations' = Append(annotations, a)
  /\ UNCHANGED <<stream, lineEnds, highlights, highlighting, style, renderVars>>
-----------------------------------------------------------------------------
(* Lines are counted from 0, as in the program.                            *)
LineStart(line) == IF line > 0 THEN lineEnds[line] ELSE 0
LineEnd(line) == lineEnds[line + 1]

HighlightForRegion(from, to) ==
  LET k == FirstOf({j \in DOMAIN highlights :
                      highlights[j].start >= to \/ highlights[j].end > from})
  IN  IF k # 0 /\ highlights[k].start < to THEN k ELSE 0

(* get_render_lines(b, s, n): a slice that starts after the last newline   *)
(* is empty, one that reaches further is cut.                              *)
GetRenderLines(s, n) ==
  /\ pc = "idle"
  /\ start' = s
  /\ lines' = <<>> /\ spans' = <<>>
  /\ IF s >= Len(lineEnds)
     THEN pc' = "returned" /\ num' = 0 /\ UNCHANGED <<offset, highlight>>
     ELSE /\ pc' = "lines"
          /\ num' = IF s + n > Len(lineEnds) THEN Len(lineEnds) - s ELSE n
          /\ offset' = LineStart(s)
          /\ highlight' = HighlightForRegion(LineStart(s), LineEnd(s + num' - 1))
  /\ UNCHANGED heldVars

NextOffset == LineEnd(start + Len(lines))
Hit == highlight # 0 /\ highlights[highlight].start <= offset

(* Where the span that starts at offset ends.                              *)
SpanEndUncut ==              \* wrong on purpose: a highlight ahead is ignored
  IF Hit /\ NextOffset > highlights[highlight].end
  THEN highlights[highlight].end ELSE NextOffset
SpanEnd ==
  IF Hit THEN IF NextOffset > highlights[highlight].end
              THEN highlights[highlight].end ELSE NextOffset
  ELSE IF highlight # 0 /\ NextOffset > highlights[highlight].start
       THEN highlights[highlight].start ELSE NextOffset

AddSpan ==
  /\ pc = "lines" /\ Len(lines) < num /\ offset < NextOffset
  /\ spans' = Append(spans, [from |-> offset, to |-> SpanEnd,
                             ts |-> IF Hit THEN highlights[highlight].ts ELSE Default])
  /\ offset' = SpanEnd
  /\ highlight' = IF highlight = 0 THEN 0
                  ELSE FirstOf({j \in highlight..Len(highlights) : highlights[j].end > offset'})
  /\ UNCHANGED <<heldVars, pc, start, num, lines>>

AddLine ==
  /\ pc = "lines" /\ Len(lines) < num /\ offset >= NextOffset
  /\ lines' = Append(lines, spans)
  /\ spans' = <<>>
  /\ UNCHANGED <<heldVars, pc, start, num, offset, highlight>>

ReturnLines ==
  /\ pc = "lines" /\ Len(lines) = num
  /\ pc' = "returned"
  /\ UNCHANGED <<heldVars, start, num, offset, highlight, spans, lines>>

(* render_pager draws the lines and frees them.                            *)
FreeRenderLines ==
  /\ pc = "returned"
  /\ pc' = "idle" /\ start' = 0 /\ num' = 0 /\ offset' = 0 /\ highlight' = 0
  /\ spans' = <<>> /\ lines' = <<>>
  /\ UNCHANGED heldVars

Render == AddSpan \/ AddLine \/ ReturnLines \/ FreeRenderLines
-----------------------------------------------------------------------------
Next ==
  \/ \E n \in Texts : HandleContent(n)
  \/ HandleNewline
  \/ \E ts \in Styles : HandleTermStyle(ts)
  \/ \E a \in Annotations : AddAnnotation(a)
  \/ \E s \in 0..Len(lineEnds), n \in 1..MaxRows : GetRenderLines(s, n)
  \/ Render

Spec == Init /\ [][Next]_vars

-----------------------------------------------------------------------------
(* buffer_annotation_at_line.  The line after the last newline passes the  *)
(* check, and its end is what the array holds past its last element.       *)
AnnotationAtLineTouching(type, line, beyond) ==   \* wrong on purpose: >= for >
  LET to == (IF line < Len(lineEnds) THEN LineEnd(line) ELSE beyond) % OffsetRange
  IN  IF line > Len(lineEnds) THEN 0
      ELSE FirstOf({k \in DOMAIN annotations :
             /\ annotations[k].start < to
             /\ annotations[k].end >= LineStart(line) % OffsetRange
             /\ annotations[k].type = type})

AnnotationAtLine(type, line, beyond) ==
  LET to == (IF line < Len(lineEnds) THEN LineEnd(line) ELSE beyond) % OffsetRange
  IN  IF line > Len(lineEnds) THEN 0
      ELSE FirstOf({k \in DOMAIN annotations :
             /\ annotations[k].start < to
             /\ annotations[k].end > LineStart(line) % OffsetRange
             /\ annotations[k].type = type})
-----------------------------------------------------------------------------
Span == [from : 0..MaxLen, to : 0..MaxLen, ts : Styles]

(* Types.  An offset is in the stream, but for the end of the open highlight. *)
TypeOK ==
  /\ stream \in Seq([newline : BOOLEAN, style : Styles]) /\ len <= MaxLen
  /\ lineEnds \in Seq(0..MaxLen)
  /\ highlights \in Seq([ts : Styles \ {Default}, start : 0..MaxLen, end : 0..MaxLen \cup {SizeMax}])
  /\ highlighting \in BOOLEAN
  /\ annotations \in Seq(Annotations)
  /\ style \in Styles
  /\ pc \in {"idle", "lines", "returned"}
  /\ start \in 0..MaxLen /\ num \in 0..MaxLen /\ offset \in 0..MaxLen
  /\ highlight \in 0..Len(highlights)
  /\ spans \in Seq(Span) /\ lines \in Seq(Seq(Span))

(* A byte is in a highlight exactly if it came while a style other than    *)
(* the default was in force, in only one, and in one of that style: also   *)
(* after styles that applied to no byte, and after a reset without a style. *)
InHighlight(i, k) == highlights[k].start < i /\ i <= highlights[k].end

HighlightsAreStyles ==
  /\ \A i \in DOMAIN stream, k \in DOMAIN highlights :
       InHighlight(i, k) => highlights[k].ts = stream[i].style
  /\ \A i \in DOMAIN stream : stream[i].style # Default =>
       \E k \in DOMAIN highlights : InHighlight(i, k)
  /\ \A j, k \in DOMAIN highlights : j < k => highlights[j].end <= highlights[k].start

(* Spans that follow each other from one offset to another, none empty,    *)
(* each in the style of every one of its bytes.                            *)
Shows(line, from, to) ==
  /\ line = <<>> => from = to
  /\ line # <<>> => line[1].from = from /\ line[Len(line)].to = to
  /\ \A k \in DOMAIN line :
       /\ line[k].from < line[k].to
       /\ k > 1 => line[k-1].to = line[k].from
       /\ \A i \in line[k].from + 1 .. line[k].to : stream[i].style = line[k].ts

(* The ends of lines are the places of the newlines, in order, and         *)
(* get_render_lines returns the lines asked for that have ended, each from *)
(* its first byte to its newline in the styles in which the bytes came:    *)
(* line by line nothing of the output is left out or shown twice.          *)
SliceShowsLines ==
  /\ \A k \in DOMAIN lineEnds : lineEnds[k] \in DOMAIN stream /\ stream[lineEnds[k]].newline
  /\ \A i \in DOMAIN stream : stream[i].newline => \E k \in DOMAIN lineEnds : lineEnds[k] = i
  /\ \A j, k \in DOMAIN lineEnds : j < k => lineEnds[j] < lineEnds[k]
  /\ pc = "returned" =>
       /\ num # 0 => start + num <= Len(lineEnds)
       /\ Len(lines) = num
       /\ \A k \in DOMAIN lines : Shows(lines[k], LineStart(start+k-1), LineEnd(start+k-1))

(* For a line that has ended the annotation found is the first of those of *)
(* the type that share a byte with it, or that hold no byte and lie inside *)
(* it, away from both its ends; whatever lies past the array, as long as   *)
(* the stream is not longer than an annotation's offsets can be.  (Of the  *)
(* line that has not ended nothing like it can be said.)                   *)
HasByteIn(a, line) == \E i \in LineStart(line) + 1 .. LineEnd(line) : a.start < i /\ i <= a.end
IsInside(a, line) == a.end <= a.start /\ LineStart(line) < a.end /\ a.start < LineEnd(line)

AnnotationsFoundByByte ==
  \A line \in 0..Len(lineEnds)-1, beyond \in {0, SizeMax}, type \in {a.type : a \in Annotations} :
    LineEnd(line) < OffsetRange =>
      AnnotationAtLine(type, line, beyond) =
      FirstOf({k \in DOMAIN annotations :
                 /\ annotations[k].type = type
                 /\ HasByteIn(annotations[k], line) \/ IsInside(annotations[k], line)})
=============================================================================
