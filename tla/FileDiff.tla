------------------------------- MODULE FileDiff -------------------------------
(***************************************************************************)
(* How incremental-differ.ts carries the locations of mutants and tests    *)
(* over from an old version of a file to the current one: performFileDiff  *)
(* walks over the changes that diff-match-patch found, drops the items     *)
(* whose code changed and moves the others; closeLocations first gives     *)
(* every test an end.  A text is a sequence of "c" and "nl" (a line        *)
(* break), a position a record of line and column, a change a kind and a   *)
(* text.  The diff library itself is outside: any script is an input.      *)
(***************************************************************************)
EXTENDS Integers, Sequences, FiniteSets, SequencesExt

CONSTANTS MaxText,      \* bound: characters of the old text
          MaxAdded,     \* bound: characters that one change adds
          MaxChanges    \* bound: changes between two versions

VARIABLES
  oldText,   \* the old version of the file, as far as it has not been consumed
  item,      \* one mutant or test: the characters from + 1 to upto of the old text
  newText,   \* the current version of the file, as far as it has been compared
  places,    \* ghost: where each consumed character is in the new text, or 0
  script,    \* the changes so far
  state,     \* toDo, done and currentPosition of performFileDiff
  tests      \* the start positions of the tests of one file, and what closeLocations returns

fileVars == <<oldText, item, newText, places, script, state, tests>>

Pos(line, column) == [line |-> line, column |-> column]

Gte(a, b) == a.line > b.line \/ (a.line = b.line /\ a.column >= b.column)

(* calculateOffset: what a text adds to the position (0, 0). *)
NextPosition(p, ch) == IF ch = "nl" THEN Pos(p.line + 1, 0) ELSE Pos(p.line, p.column + 1)

CalculateOffset(text) == FoldLeft(NextPosition, Pos(0, 0), text)

PositionMove(p, diff) ==
  Pos(p.line + diff.line, IF diff.line = 0 THEN p.column + diff.column ELSE diff.column)

Negate(p) == Pos(-p.line, -p.column)

(* locationAdd: currentLine says that the item starts on the line of the change. *)
LocationAdd(loc, diff, currentLine) ==
  [start |-> Pos(loc.start.line + diff.line,
                 loc.start.column + IF currentLine THEN diff.column ELSE 0),
   end   |-> Pos(loc.end.line + diff.line,
                 loc.end.column + IF diff.line = 0 /\ currentLine THEN diff.column ELSE 0)]

(***************************************************************************)
(* One step of the loop per change: `toDo' and `done' map items to their   *)
(* locations, `at' is currentPosition.                                     *)
(***************************************************************************)
Without(locations, dropped) == [i \in DOMAIN locations \ dropped |-> locations[i]]

Moved(s, diff) ==
  [i \in DOMAIN s.toDo |-> LocationAdd(s.toDo[i], diff, s.at.line = s.toDo[i].start.line)]

\* Mutant of AfterAdded: currentPosition stays where it is.
AfterAddedStays(s, offset) ==
  LET hit == {i \in DOMAIN s.toDo : Gte(s.at, s.toDo[i].start) /\ Gte(s.toDo[i].end, s.at)}
  IN  [s EXCEPT !.toDo = Without(Moved(s, offset), hit)]

AfterAdded(s, offset) ==
  LET hit == {i \in DOMAIN s.toDo : Gte(s.at, s.toDo[i].start) /\ Gte(s.toDo[i].end, s.at)}
  IN  [s EXCEPT !.toDo = Without(Moved(s, offset), hit),
                !.at   = PositionMove(s.at, offset)]

AfterRemoved(s, offset) ==
  LET hit == {i \in DOMAIN s.toDo : Gte(PositionMove(s.at, offset), s.toDo[i].start)}
  IN  [s EXCEPT !.toDo = Without(Moved(s, Negate(offset)), hit)]

AfterEqual(s, offset) ==
  LET at   == PositionMove(s.at, offset)
      over == {i \in DOMAIN s.toDo : Gte(at, s.toDo[i].end)}
  IN  [toDo |-> Without(s.toDo, over), at |-> at,
       done |-> [i \in DOMAIN s.done \cup over |-> IF i \in over THEN s.toDo[i] ELSE s.done[i]]]

AfterChange(s, change) ==
  LET offset == CalculateOffset(change.text)
  IN  CASE DOMAIN s.toDo = {} -> s   \* the loop ends
        [] DOMAIN s.toDo # {} /\ change.kind = "added"   -> AfterAdded(s, offset)
        [] DOMAIN s.toDo # {} /\ change.kind = "removed" -> AfterRemoved(s, offset)
        [] DOMAIN s.toDo # {} /\ change.kind = "equal"   -> AfterEqual(s, offset)

(***************************************************************************)
(* closeLocations: a test ends where the next one starts.  `starts' are    *)
(* the start positions of the tests of a file in the order of the report;  *)
(* FarAway stands for line Infinity.                                       *)
(***************************************************************************)
FarAway == Pos(99, 0)

\* Mutant of UniqueStartPositions: a shared position is listed twice.
AllStartPositions(sorted) == sorted

AddPosition(acc, p) == IF acc # << >> /\ Last(acc) = p THEN acc ELSE Append(acc, p)

UniqueStartPositions(sorted) == FoldLeft(AddPosition, << >>, sorted)

(* The sort is stable: the tests of one line stay in order. *)
SortedByLine(starts) ==
  LET before(i) == {j \in DOMAIN starts :
                      starts[j].line < starts[i].line \/ (starts[j].line = starts[i].line /\ j < i)}
  IN  [n \in DOMAIN starts |-> starts[CHOOSE i \in DOMAIN starts : Cardinality(before(i)) = n - 1]]

CloseNext(unique, acc, p) ==
  LET next == IF acc.index <= Len(unique) /\ unique[acc.index] = p THEN acc.index + 1 ELSE acc.index
  IN  [index |-> next,
       closed |-> Append(acc.closed, [start |-> p, end |-> IF next <= Len(unique) THEN unique[next] ELSE FarAway])]

CloseLocations(starts) ==
  LET sorted == SortedByLine(starts)
      unique == UniqueStartPositions(sorted)
  IN  FoldLeft(LAMBDA acc, p : CloseNext(unique, acc, p), [index |-> 1, closed |-> << >>], sorted).closed

--------------------------------------------------------------------------------
(***************************************************************************)
(* The walk.  The texts are chosen first, then one change after the other, *)
(* as diff_main lists them: no two of a kind in a row, what is removed     *)
(* before what is added.                                                   *)
(***************************************************************************)
Texts(n) == BoundedSeq({"c", "nl"}, n) \ {<< >>}

LocationIn(text, from, upto) ==
  [start |-> CalculateOffset(SubSeq(text, 1, from)), end |-> CalculateOffset(SubSeq(text, 1, upto))]

Init ==
  /\ oldText = << >> /\ item = << >> /\ newText = << >> /\ places = << >> /\ script = << >>
  /\ state = [toDo |-> << >>, done |-> << >>, at |-> Pos(0, 0)]
  /\ tests = << >>

(* The items get the locations of the report, and the walk begins. *)
Begin ==
  /\ item = << >> /\ tests = << >>
  /\ \E text \in Texts(MaxText) : \E from \in 0..(Len(text) - 1) : \E upto \in (from + 1)..Len(text) :
       /\ oldText' = text
       /\ item' = [from |-> from, upto |-> upto, text |-> text]
       /\ state' = [state EXCEPT !.toDo = [i \in {"item"} |-> LocationIn(text, from, upto)]]
  /\ UNCHANGED <<newText, places, script, tests>>

MayFollow(kind) ==
  /\ item # << >> /\ Len(script) < MaxChanges
  /\ script # << >> => Last(script).kind # kind /\ ~(Last(script).kind = "added" /\ kind = "removed")

Change(kind, text) ==
  /\ MayFollow(kind)
  /\ script' = Append(script, [kind |-> kind, text |-> text])
  /\ newText' = IF kind = "removed" THEN newText ELSE newText \o text
  /\ state' = AfterChange(state, [kind |-> kind, text |-> text])
  /\ UNCHANGED <<item, tests>>

Consume(kind, n) ==
  /\ Change(kind, SubSeq(oldText, 1, n))
  /\ oldText' = SubSeq(oldText, n + 1, Len(oldText))
  /\ places' = places \o [k \in 1..n |-> IF kind = "equal" THEN Len(newText) + k ELSE 0]

Added   == \E text \in Texts(MaxAdded) : Change("added", text) /\ UNCHANGED <<oldText, places>>
Removed == \E n \in 1..Len(oldText) : Consume("removed", n)
Equal   == \E n \in 1..Len(oldText) : Consume("equal", n)

(* Tests of one line are in order in the report, the lines need not be. *)
TestPositions == {Pos(l, c) : l \in 0..2, c \in 0..1}

Close ==
  /\ item = << >> /\ tests = << >>
  /\ \E starts \in BoundedSeq(TestPositions, 3) :
       /\ \A i, j \in 1..Len(starts) :
            i < j /\ starts[i].line = starts[j].line => Gte(starts[j], starts[i])
       /\ tests' = [starts |-> starts, closed |-> CloseLocations(starts)]
  /\ UNCHANGED <<oldText, item, newText, places, script, state>>

Next == Begin \/ Added \/ Removed \/ Equal \/ Close

Spec == Init /\ [][Next]_fileVars
--------------------------------------------------------------------------------
(***************************************************************************)
(* The reference: the characters themselves.                               *)
(***************************************************************************)
Walked == item # << >> /\ oldText = << >>

Kept == DOMAIN state.toDo \cup DOMAIN state.done

NewLocation == IF "item" \in DOMAIN state.toDo THEN state.toDo["item"] ELSE state.done["item"]

(* No character of the item went away, and none came in between. *)
Untouched ==
  LET first == item.from + 1
  IN  \A n \in first..item.upto : places[n] # 0 /\ places[n] = places[first] + n - first

(* Where the characters of an untouched item are in the new text. *)
TrueLocation ==
  LET skip == places[item.from + 1] - 1
  IN  LocationIn(newText, skip, skip + item.upto - item.from)

(* Every change adds or removes whole lines, ... *)
WholeLines ==
  \A k \in 1..Len(script) :
    script[k].kind # "equal" =>
      /\ k = 1 \/ Last(script[k - 1].text) = "nl"
      /\ k = Len(script) \/ Last(script[k].text) = "nl"

(* ... or all are within a line, and so is the item. *)
WithinLines ==
  /\ \A k \in 1..Len(script) : script[k].kind # "equal" => "nl" \notin ToSet(script[k].text)
  /\ \A n \in (item.from + 1)..item.upto : item.text[n] # "nl"

(***************************************************************************)
(* An item whose code was changed is never kept: its old verdict would be  *)
(* reported for code that nobody tested.                                   *)
(***************************************************************************)
KeptIsUntouched == Walked /\ Kept # {} => Untouched

(***************************************************************************)
(* When whole lines come and go, or text within the lines of a one-line    *)
(* item, a kept item is untouched and has the location of its code in the  *)
(* new text: its identifying key is that of the same code.                 *)
(***************************************************************************)
KeptFollowsItsCode ==
  Walked /\ Kept # {} /\ (WholeLines \/ WithinLines) => Untouched /\ NewLocation = TrueLocation
(***************************************************************************)
(* A test without an end reaches to the start of the next one, also when   *)
(* tests share a position (it.each) or come in another order: a change     *)
(* anywhere in a test file belongs to the test in front of it.             *)
(***************************************************************************)
TestsReachTheNext ==
  tests # << >> =>
    /\ Len(tests.closed) = Len(tests.starts)
    /\ ToSet(tests.starts) = {loc.start : loc \in ToSet(tests.closed)}
    /\ \A loc \in ToSet(tests.closed) :
         LET later == {p \in ToSet(tests.starts) : ~Gte(loc.start, p)}
         IN  loc.end = IF later = {} THEN FarAway ELSE CHOOSE p \in later : \A q \in later : Gte(q, p)
================================================================================
