--------------------------- MODULE EmbeddedScripts ---------------------------
(***************************************************************************)
(* Files that are not a script but contain scripts: html and vue files,    *)
(* and svelte components (packages/instrumenter: parsers/html-parser.ts,   *)
(* parsers/svelte-parser.ts, util/position-converter.ts, the printers, and *)
(* transformers/svelte-transformer.ts); and the removal of type checks     *)
(* from files of every kind (disable-type-checks.ts).                      *)
(*                                                                         *)
(* A text is a sequence of characters: "x" any, "n" a line feed, "r" a     *)
(* carriage return, "#" the shebang at the start of a script, "*" a block  *)
(* comment, "@" a comment with a `@ts-' directive.  Offsets count from 0.  *)
(***************************************************************************)
EXTENDS Integers, Sequences, SequencesExt

CONSTANT MaxPieces     \* pieces of a file

VARIABLES format,      \* "html", "svelte" or "script"
          pieces,      \* the file: markup, scripts and expressions in their order
          scripts,     \* what the parser found: ranges in the text, and where they start
          output       \* the printed file

vars == <<format, pieces, scripts, output>>

Nothing == <<"nothing">>
NotParsed == <<[of |-> -1]>>

PlainTexts  == {<<>>, <<"x">>, <<"n", "x">>, <<"x", "r">>, <<"r", "n">>}
ScriptTexts == PlainTexts \cup {<<"@", "x">>, <<"*", "x">>, <<"#", "n", "x">>, <<"#">>}

(* A script tag has a language that is parsed, or not: it has a src, or     *)
(* another type (html only).                                                *)
Langs == {"parsed", "other"}

Wrapped(kind, text) ==
  CASE kind = "markup" -> text
    [] kind = "expression" -> <<"{">> \o text \o <<"}">>
    [] OTHER -> <<"<">> \o text \o <<">">>

Written(ps) == FlattenSeq([i \in DOMAIN ps |-> Wrapped(ps[i].kind, ps[i].text)])

(* Offset of the content of piece i.                                        *)
StartOf(ps, i) == Len(Written(SubSeq(ps, 1, i - 1))) + 1

Substring(text, start, end) == SubSeq(text, start + 1, IF end < Len(text) THEN end ELSE Len(text))

-------------------------------------------------------------------------------
(* PositionConverter *)

(* Every line feed, and every carriage return that no line feed follows,    *)
(* starts a line after it.                                                  *)
LineStarts(text) ==
  LET breaks == {i \in DOMAIN text : text[i] = "n" \/ (text[i] = "r" /\ ~(i < Len(text) /\ text[i + 1] = "n"))}
  IN  <<0>> \o SetToSortSeq(breaks, <)

(* The index of the value, or the complement of where it would be.          *)
BinarySearch(array, value, from, upto) ==
  LET search[low \in from..(upto + 1), high \in (from - 1)..upto] ==
        LET middle == low + (high - low) \div 2
        IN  IF low > high THEN -low - 1
            ELSE IF array[middle + 1] < value THEN search[middle + 1, high]
            ELSE IF array[middle + 1] > value THEN search[low, middle - 1]
            ELSE middle
  IN  search[from, upto]

PositionFromOffset(text, offset) ==
  LET starts == LineStarts(text)
      found  == BinarySearch(starts, offset, 0, Len(starts) - 1)
      line   == IF found < 0 THEN (-found - 1) - 1 ELSE found
  IN  [line |-> line, column |-> offset - starts[line + 1]]

(* Mutant.toApiMutant: the position in a script (its lines count from 1)    *)
(* and the offset of the script make a position in the file.                *)
ToPosition(source, offset) ==
  [line |-> source.line + offset.line - 1,
   column |-> source.column + IF source.line = 1 THEN offset.column ELSE 0]

-------------------------------------------------------------------------------
(* Parsing *)

(* html-parser: getScriptType, the scripts in the order of the document.    *)
HasScript(piece) == piece.kind \in {"script", "module"} /\ piece.lang = "parsed"

(* The offset that the html parser gives a script: the line of the end of   *)
(* its start tag, and the offset in the text as the column.                 *)
HtmlScripts(ps) ==
  LET found == SelectSeq([i \in DOMAIN ps |-> i], LAMBDA i : HasScript(ps[i]))
      text  == Written(ps)
  IN  [k \in DOMAIN found |->
         LET start == StartOf(ps, found[k])
         IN  [start |-> start, end |-> start + Len(ps[found[k]].text), isExpression |-> FALSE, of |-> found[k],
              offset |-> [line |-> PositionFromOffset(text, start).line, column |-> start]]]

(* svelte-parser: replaceScripts.  A script becomes a name that svelte can  *)
(* parse; the text of an expression is never such a name here.              *)
Placeholder(i) == <<"script", ToString(i)>>
ReplaceScripts(ps) ==
  [i \in DOMAIN ps |-> IF ps[i].kind \in {"script", "module"} THEN [ps[i] EXCEPT !.text = Placeholder(i)] ELSE ps[i]]

(* Where svelte finds the scripts and expressions of the replaced text.     *)
TemplateRanges(replaced) ==
  LET found == SelectSeq([i \in DOMAIN replaced |-> i], LAMBDA i : replaced[i].kind # "markup")
  IN  [k \in DOMAIN found |-> [start |-> StartOf(replaced, found[k]),
                               end |-> StartOf(replaced, found[k]) + Len(replaced[found[k]].text),
                               isExpression |-> replaced[found[k]].kind = "expression", of |-> found[k]]]

(* A mutant: a range is moved by what the script before it saved, only. *)
RemapByPreviousScript(code, ranges, ps) ==
  LET Actual(r) == {i \in DOMAIN ps : ps[i].kind # "expression" /\ Placeholder(i) = Substring(code, r.start, r.end)}
      Size(r)   == IF Actual(r) = {} THEN r.end - r.start ELSE Len(ps[CHOOSE i \in Actual(r) : TRUE].text)
      Before(k) == IF k = 1 THEN 0 ELSE Size(ranges[k - 1]) - (ranges[k - 1].end - ranges[k - 1].start)
  IN  [k \in DOMAIN ranges |-> [ranges[k] EXCEPT !.start = @ + Before(k), !.end = ranges[k].start + Before(k) + Size(ranges[k])]]

(* remapScriptLocations: back to the ranges in the original text.  Scripts  *)
(* move what comes after them by the length that the name saved.            *)
RemapScriptLocations(code, ranges, ps) ==
  LET Actual(r) == {i \in DOMAIN ps : ps[i].kind # "expression" /\ Placeholder(i) = Substring(code, r.start, r.end)}
      Size(r)   == IF Actual(r) = {} THEN r.end - r.start ELSE Len(ps[CHOOSE i \in Actual(r) : TRUE].text)
      offset[k \in 0..Len(ranges)] ==
        IF k = 0 THEN 0 ELSE offset[k - 1] + Size(ranges[k]) - (ranges[k].end - ranges[k].start)
  IN  [k \in DOMAIN ranges |-> [ranges[k] EXCEPT !.start = @ + offset[k - 1],
                                                 !.end = ranges[k].start + offset[k - 1] + Size(ranges[k])]]

SvelteScripts(ps) ==
  LET replaced == ReplaceScripts(ps)
      ranges   == RemapScriptLocations(Written(replaced), TemplateRanges(replaced), ps)
  IN  [k \in DOMAIN ranges |-> [start |-> ranges[k].start, end |-> ranges[k].end, isExpression |-> ranges[k].isExpression,
                                of |-> ranges[k].of, offset |-> PositionFromOffset(Written(ps), ranges[k].start)]]

-------------------------------------------------------------------------------
(* Transforming and printing *)

(* What is printed of the script of a piece, and of the header alone.       *)
Printed(i) == <<"code of", ToString(i)>>
Header == 0

(* printers/html and printers/svelte: the text between the scripts, and the *)
(* code of every script on lines of its own; an expression stays in line.   *)
PrintFile(text, found) ==
  LET Code(s) == IF s.isExpression THEN Printed(s.of) ELSE <<"n">> \o Printed(s.of) \o <<"n">>
      out[k \in 0..Len(found)] ==
        IF k = 0 THEN <<>>
        ELSE out[k - 1] \o Substring(text, IF k = 1 THEN 0 ELSE found[k - 1].end, found[k].start) \o Code(found[k])
  IN  out[Len(found)] \o Substring(text, IF found = <<>> THEN 0 ELSE found[Len(found)].end, Len(text))

(* svelte-transformer: a component with mutants needs a module script to    *)
(* hold the header; one that has none gets it in front, which moves all     *)
(* other scripts.                                                           *)
ModuleScript == <<"<", ">", "n">>
NeedsModuleScript(ps, mutated) == format = "svelte" /\ mutated /\ \A i \in DOMAIN ps : ps[i].kind # "module"

Transformed(found, add) ==
  IF ~add THEN found
  ELSE <<[start |-> 1, end |-> 1, isExpression |-> FALSE, of |-> Header, offset |-> [line |-> 0, column |-> 0]]>> \o
       [k \in DOMAIN found |-> [found[k] EXCEPT !.start = @ + Len(ModuleScript), !.end = @ + Len(ModuleScript)]]

-------------------------------------------------------------------------------
(* disable-type-checks.ts *)

RemoveTSDirectives(text) == SelectSeq(text, LAMBDA c : c # "@")

NoCheck == <<"// @ts-nocheck", "n">>

PrefixWithNoCheck(text) ==
  IF text # <<>> /\ text[1] = "#"
  THEN LET lines == {i \in DOMAIN text : text[i] = "n"}
           first == CHOOSE i \in lines : \A j \in lines : i <= j
       IN  IF lines = {} THEN text ELSE SubSeq(text, 1, first) \o NoCheck \o SubSeq(text, first + 1, Len(text))
  ELSE IF text # <<>> /\ text[1] = "*" THEN <<"*", "n">> \o NoCheck \o Tail(text)
  ELSE NoCheck \o text

(* A script without a directive is not parsed.                              *)
DisableTypeChecksInScript(text) ==
  IF \A i \in DOMAIN text : text[i] # "@" THEN PrefixWithNoCheck(text) ELSE PrefixWithNoCheck(RemoveTSDirectives(text))

(* In html and svelte files every script is treated, as in PrintFile.       *)
DisableTypeChecks(ps, found) ==
  LET text == Written(ps)
      Code(s) == <<"n">> \o PrefixWithNoCheck(RemoveTSDirectives(ps[s.of].text)) \o <<"n">>
      out[k \in 0..Len(found)] ==
        IF k = 0 THEN <<>>
        ELSE out[k - 1] \o Substring(text, IF k = 1 THEN 0 ELSE found[k - 1].end, found[k].start) \o Code(found[k])
  IN  IF format = "script" THEN DisableTypeChecksInScript(ps[1].text)
      ELSE out[Len(found)] \o Substring(text, IF found = <<>> THEN 0 ELSE found[Len(found)].end, Len(text))

-------------------------------------------------------------------------------
Init == format \in {"html", "svelte", "script"} /\ pieces = <<>> /\ scripts = NotParsed /\ output = Nothing

Kinds == CASE format = "html" -> {"markup", "script"}
           [] format = "svelte" -> {"markup", "script", "module", "expression"}
           [] format = "script" -> {"script"}

(* The file grows; svelte allows one module script.                         *)
Write ==
  /\ scripts = NotParsed /\ Len(pieces) < (IF format = "script" THEN 1 ELSE MaxPieces)
  /\ \E kind \in Kinds : \E text \in IF kind \in {"markup", "expression"} THEN PlainTexts ELSE ScriptTexts :
     \E lang \in IF kind = "script" /\ format = "html" THEN Langs ELSE {"parsed"} :
       /\ kind = "module" => \A i \in DOMAIN pieces : pieces[i].kind # "module"
       /\ pieces' = Append(pieces, [kind |-> kind, lang |-> lang, text |-> text])
  /\ UNCHANGED <<format, scripts, output>>

Parse ==
  /\ scripts = NotParsed /\ pieces # <<>>
  /\ scripts' = CASE format = "html" -> HtmlScripts(pieces)
                  [] format = "svelte" -> SvelteScripts(pieces)
                  [] OTHER -> <<>>
  /\ UNCHANGED <<format, pieces, output>>

(* The scripts are transformed, with or without mutants in them, and the    *)
(* file is printed.                                                         *)
Instrument ==
  /\ scripts # NotParsed /\ output = Nothing /\ format # "script"
  /\ \E mutated \in BOOLEAN :
       LET add == NeedsModuleScript(pieces, mutated)
       IN  /\ scripts' = Transformed(scripts, add)
           /\ output' = PrintFile(IF add THEN ModuleScript \o Written(pieces) ELSE Written(pieces), scripts')
  /\ UNCHANGED <<format, pieces>>

(* The type checks of the file are disabled instead.                        *)
Disable ==
  /\ scripts # NotParsed /\ output = Nothing
  /\ output' = DisableTypeChecks(pieces, scripts)
  /\ UNCHANGED <<format, pieces, scripts>>

Next == Write \/ Parse \/ Instrument \/ Disable

Spec == Init /\ [][Next]_vars

-------------------------------------------------------------------------------
Parsed == scripts # NotParsed /\ output = Nothing /\ format # "script"

(* The range of a script is that of its content in the original text, and   *)
(* no script is missed.                                                     *)
RangesAreRight ==
  Parsed =>
    /\ \A k \in DOMAIN scripts :
         /\ scripts[k].end \in scripts[k].start..Len(Written(pieces))
         /\ Substring(Written(pieces), scripts[k].start, scripts[k].end) = pieces[scripts[k].of].text
    /\ {scripts[k].of : k \in DOMAIN scripts} =
         {i \in DOMAIN pieces : pieces[i].kind # "markup" /\ (format = "html" => HasScript(pieces[i]))}

(* The position of a character: its line counts the breaks before it.       *)
TruePosition(text, offset) ==
  LET ends == {i \in 1..offset : text[i] = "n" \/ (text[i] = "r" /\ ~(i < Len(text) /\ text[i + 1] = "n"))}
  IN  [line |-> Cardinality(ends), column |-> offset - IF ends = {} THEN 0 ELSE CHOOSE i \in ends : \A j \in ends : j <= i]

(* The position of a mutant is its position in the file; of a mutant in an  *)
(* html file, only the line is (see HtmlColumnsAreRight).                   *)
MutantsAreWhereTheyAre ==
  Parsed => \A k \in DOMAIN scripts :
    LET s == scripts[k]
        text == pieces[s.of].text
    IN  \A at \in 0..Len(text) :
          LET local == TruePosition(text, at)
              api   == ToPosition([line |-> local.line + 1, column |-> local.column], s.offset)
              real  == TruePosition(Written(pieces), s.start + at)
          IN  api.line = real.line /\ (format = "svelte" => api.column = real.column)

(* The columns of mutants in html files: wrong on the first line of a       *)
(* script that does not start on the first line of the file.                *)
HtmlColumnsAreRight ==
  Parsed /\ format = "html" => \A k \in DOMAIN scripts :
    scripts[k].offset = TruePosition(Written(pieces), scripts[k].start)

(* The printed file is the original one with the code of each script in its *)
(* place, and a module script in front when the header needs one.           *)
ScriptsStayInPlace ==
  (output # Nothing /\ format # "script" /\ \E i \in DOMAIN output : output[i] = "code of") =>
    LET Replaced(i) == IF pieces[i].kind = "expression" THEN Printed(i)
                       ELSE IF \E k \in DOMAIN scripts : scripts[k].of = i THEN <<"n">> \o Printed(i) \o <<"n">>
                       ELSE pieces[i].text
        new == Written([i \in DOMAIN pieces |-> [pieces[i] EXCEPT !.text = Replaced(i)]])
    IN  output \in {new, <<"<", "n">> \o Printed(Header) \o <<"n", ">", "n">> \o new}

(* Without its type checks a file has no directive left that is known, every *)
(* script starts with the comment that disables them -- after a shebang and *)
(* the first comment -- and nothing else is lost.                           *)
TypeChecksAreDisabled ==
  (output # Nothing /\ ~\E i \in DOMAIN output : output[i] = "code of") =>
    LET strip(text) == SelectSeq(text, LAMBDA c : c \notin {"n", "@", "// @ts-nocheck"})
        text == IF format = "script" THEN pieces[1].text ELSE Written(pieces)
    IN  /\ \A i \in DOMAIN output : output[i] # "@" \/ format = "html"
        /\ strip(output) = strip(text)
        /\ format = "script" =>
             \/ \E i \in DOMAIN output : output[i] = "// @ts-nocheck" /\ \A j \in 1..i : output[j] # "x"
             \/ output = <<"#">>
================================================================================
