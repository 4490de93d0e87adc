---------------------------- MODULE ProjectReader ----------------------------
(***************************************************************************)
(* Which files are read and which parts of them are mutated                *)
(* (project-reader.ts).  First a path is looked up: its ignore rules       *)
(* decide for each directory on the way and for the file.  Then the        *)
(* patterns of the `mutate' option are applied to the file, one after the  *)
(* other.  Globs are outside: a rule or pattern is known by what it        *)
(* matches, a mutation range by its name.                                  *)
(***************************************************************************)
EXTENDS Naturals, Sequences, SequencesExt

CONSTANTS Ranges,        \* mutation ranges ("src/app.js:1-11")
          Depth,         \* number of names on the path: directories and the file
          MaxPatterns    \* bound: rules and patterns

VARIABLES
  rules,      \* the ignore rules so far: [negate, matches], what they match on the path
  included,   \* for each name on the path: did the rules include it
  patterns,   \* the mutate patterns so far that match the file: [negated, range]
  mutate      \* FileDescription.mutate: {"false"}, {"true"} or the ranges

readerVars == <<rules, included, patterns, mutate>>

TypeOK ==
  /\ included \in [1..Depth -> BOOLEAN]
  /\ mutate \in {{"false"}, {"true"}} \cup ((SUBSET Ranges) \ {{}})

Init ==
  /\ rules = << >> /\ included = [n \in 1..Depth |-> TRUE]
  /\ patterns = << >> /\ mutate = {"false"}

\* Mutant of IgnoreRule: a negated rule does not bring a file back.
IgnoreRuleForGood ==
  /\ patterns = << >> /\ Len(rules) < MaxPatterns
  /\ \E negate \in BOOLEAN : \E matches \in SUBSET (1..Depth) :
       /\ rules' = Append(rules, [negate |-> negate, matches |-> matches])
       /\ included' = [n \in 1..Depth |-> included[n] /\ (n \in matches => negate)]
  /\ UNCHANGED <<patterns, mutate>>

(* A rule that would change nothing is not asked whether it matches.        *)
IgnoreRule ==
  /\ patterns = << >> /\ Len(rules) < MaxPatterns
  /\ \E negate \in BOOLEAN : \E matches \in SUBSET (1..Depth) :
       /\ rules' = Append(rules, [negate |-> negate, matches |-> matches])
       /\ included' = [n \in 1..Depth |-> IF negate # included[n] /\ n \in matches THEN negate ELSE included[n]]
  /\ UNCHANGED <<patterns, mutate>>

(* crawlDir does not descend into a directory that is left out.             *)
IsInputFile == \A n \in 1..Depth : included[n]

\* Mutant of MergeFileDescriptions: the last pattern decides.
MergeLastOnly(first, second) == first

\* Mutant of MergeFileDescriptions: whatever is given is merged.
MergeEverything(first, second) == first \cup second

(* mergeFileDescriptions: `first' is of the pattern, `second' what was.     *)
MergeFileDescriptions(first, second) ==
  CASE first \subseteq Ranges /\ second \subseteq Ranges -> second \cup first
    [] second = {"false"} -> first
    [] OTHER -> {"false"}

MutatePattern ==
  /\ IsInputFile /\ Len(patterns) < MaxPatterns
  /\ \E range \in {{"true"}} \cup {{r} : r \in Ranges} :
       /\ patterns' = Append(patterns, [negated |-> FALSE, range |-> range])
       /\ mutate' = MergeFileDescriptions(range, mutate)
  /\ UNCHANGED <<rules, included>>

(* "!pattern", also with a range, takes the whole file out.                 *)
NegatedPattern ==
  /\ IsInputFile /\ Len(patterns) < MaxPatterns
  /\ \E range \in {{"true"}} \cup {{r} : r \in Ranges} :
       patterns' = Append(patterns, [negated |-> TRUE, range |-> range])
  /\ mutate' = {"false"}
  /\ UNCHANGED <<rules, included>>

Next == IgnoreRule \/ MutatePattern \/ NegatedPattern

Spec == Init /\ [][Next]_readerVars
--------------------------------------------------------------------------------
(***************************************************************************)
(* The last rule that matches a name decides, as in .gitignore, and a file *)
(* in a directory that is left out cannot be had back.                     *)
(***************************************************************************)
LastRuleWins ==
  \A n \in 1..Depth :
    LET last == SelectLastInSeq(rules, LAMBDA r : n \in r.matches)
    IN  included[n] = (last = 0 \/ rules[last].negate)

(* The patterns after the last one that takes the file out.                 *)
Selecting ==
  SubSeq(patterns, SelectLastInSeq(patterns, LAMBDA p : p.negated) + 1, Len(patterns))

(***************************************************************************)
(* A file that is selected with ranges only, or once as a whole, is        *)
(* mutated in exactly what was selected after the last exclusion.          *)
(***************************************************************************)
MutatesTheSelection ==
  LET selected == {Selecting[i].range : i \in 1..Len(Selecting)}
  IN  Len(Selecting) <= 1 \/ {"true"} \notin selected =>
        mutate = IF selected = {} THEN {"false"} ELSE UNION selected

(***************************************************************************)
(* A file that a pattern selects and no later one excludes is mutated.     *)
(***************************************************************************)
SelectedIsMutated == Selecting # << >> => mutate # {"false"}
================================================================================
