----------------------------- MODULE Instrumenter -----------------------------
(***************************************************************************)
(* The walk over the syntax tree of one file that finds its mutants and    *)
(* places them (packages/instrumenter: transformers/, mutant-placers/,     *)
(* mutant.ts).  On the way down the directives in comments, the ignorer    *)
(* plugins and the excluded mutations decide which mutants are ignored;    *)
(* the others are registered, as a copy of the tree with the mutation in   *)
(* it, with the nearest node that can hold a switch.  On the way up a node *)
(* with registered mutants becomes that switch.                            *)
(*                                                                         *)
(* The tree is made up while it is walked: Enter chooses the next node.    *)
(* A position is a line; `study' bounds what is chosen (ShapesHere etc.).  *)
(***************************************************************************)
EXTENDS Integers, Sequences, SequencesExt

CONSTANTS Groups,       \* names of mutators
          MaxShaped,    \* nodes of a tree for "placement", the program included
          MaxJudged,    \* nodes of a tree for "status", the program included
          MaxLine,      \* lines of the file
          MaxSpecial    \* directives and ignored nodes of a tree

VARIABLES study,      \* what this tree is made for: "placement" or "status"
          wanted,     \* mutateDescription: "all", "nothing" or a range of lines
          excluded,   \* the mutators outside the run level
          tree,       \* the nodes in the order of entering
          open,       \* the nodes that are entered and not yet left
          ignoreRules, \* the chain of ignore rules, newest first
          ignoring,   \* the node an ignorer asked to ignore, 0: none
          mutants,    \* the collected mutants, a mutant's id is its index
          placements, \* placementMap: what is registered with a node
          placed      \* the nodes that have become a switch

vars == <<study, wanted, excluded, tree, open, ignoreRules, ignoring, mutants, placements, placed>>

LineRanges == {r \in (1..MaxLine) \X (1..MaxLine) : r[1] <= r[2]}

NoDirective == [type |-> "none", scope |-> "all", name |-> "all"]
Directives  == [type : {"disable", "restore"}, scope : {"all", "next-line"}, name : {"all"} \cup Groups]

(* What a node can be: its sort, and the place it has in its parent. *)
Shapes == {<<"statement", "child">>, <<"switchCase", "child">>, <<"expression", "child">>,
           <<"expression", "key">>, <<"expression", "quasi">>, <<"chain", "child">>,
           <<"chain", "link">>, <<"type", "child">>}

(* The program itself, which nothing is mutated in or placed on. *)
Root == [parent |-> 0, sort |-> "program", role |-> "child", from |-> 1, to |-> MaxLine,
         leads |-> NoDirective, ignored |-> FALSE, yields |-> <<>>]

Node(n) == tree[n]
Top == Last(open)

(* path.find and its like look at these: the node and all that is around it. *)
SelfAndAncestors(n) == {n} \cup {open[i] : i \in DOMAIN open}

-------------------------------------------------------------------------------
(* Directives: DirectiveBookkeeper *)

(* IgnoreRule.matches: line 0 stands for a rule without a line.             *)
Matches(rule, group, line) ==
  /\ rule.line \in {0, line}
  /\ rule.name \in {"all", group}

(* The rule that decides is the first of the chain that matches.            *)
DirectiveReason(chain, group, line) ==
  LET matching == {i \in DOMAIN chain : Matches(chain[i], group, line)}
      first == CHOOSE i \in matching : \A j \in matching : i <= j
  IN  IF matching # {} /\ chain[first].type = "disable" THEN "directive" ELSE "none"

(* A mutant: a new directive comes after the older ones. *)
ProcessDirectivesOldestFirst(chain, node) ==
  IF node.leads.type = "none" THEN chain
  ELSE chain \o <<[type |-> node.leads.type, name |-> node.leads.name,
                   line |-> IF node.leads.scope = "next-line" THEN node.from ELSE 0]>>

(* The directive in the comments before a node becomes the newest rule; one *)
(* for the next line gets the line that the node starts at.                 *)
ProcessStrykerDirectives(chain, node) ==
  IF node.leads.type = "none" THEN chain
  ELSE <<[type |-> node.leads.type, name |-> node.leads.name,
          line |-> IF node.leads.scope = "next-line" THEN node.from ELSE 0]>> \o chain

-------------------------------------------------------------------------------
(* Which nodes are walked, and which are mutated *)

LocationIncluded(range, node) == range[1] <= node.from /\ range[2] >= node.to
LocationOverlaps(range, node) == range[1] <= node.to /\ range[2] >= node.from

ShouldSkip(node) ==
  \/ node.sort = "type"         \* types, imports and decorators
  \/ wanted = "nothing"
  \/ wanted \in LineRanges /\ ~LocationOverlaps(wanted, node)

ShouldMutate(node) == wanted = "all" \/ (wanted \in LineRanges /\ LocationIncluded(wanted, node))

(* The key of a property, the template of a tagged template and the inner   *)
(* links of a chain of calls and members cannot be replaced by a switch.    *)
IsValidExpression(node) == node.role \notin {"key", "quasi", "link"}

CanPlace(node) ==
  \/ node.sort \in {"statement", "switchCase"}
  \/ node.sort \in {"expression", "chain"} /\ IsValidExpression(node)

-------------------------------------------------------------------------------
(* Collecting the mutants of a node *)

(* The first reason counts: a directive, the run level, an ignorer.         *)
IgnoreReason(chain, node, group, ignorer) ==
  LET directive == DirectiveReason(chain, group, node.from)
  IN  IF directive # "none" THEN directive
      ELSE IF group \in excluded THEN "excluded"
      ELSE IF ignorer # 0 THEN "ignorer" ELSE "none"

Collected(chain, n, node, ignorer) ==
  [i \in DOMAIN node.yields |->
     [node |-> n, group |-> node.yields[i], line |-> node.from,
      reason |-> IgnoreReason(chain, node, node.yields[i], ignorer)]]

(* registerInPlacementMap: the nearest placement node gets a copy of what   *)
(* it is now -- the switches below it included -- with the mutation in it.  *)
Register(map, n, ids) ==
  LET around  == SelfAndAncestors(n) \cap DOMAIN map
      nearest == CHOOSE a \in around : \A b \in around : b <= a
  IN  IF ids = <<>> THEN map
      ELSE [map EXCEPT ![nearest] =
              @ \o [i \in DOMAIN ids |-> [mutant |-> ids[i], replaces |-> n, switches |-> placed]]]

AddToPlacementMapIfPossible(map, n, node) ==
  IF CanPlace(node) THEN (n :> <<>>) @@ map ELSE map

(* IgnorerBookkeeper.enterNode and leaveNode.  A node that has become a     *)
(* switch is another node than the one that was entered.                    *)
EnterNode(n, node) == IF ignoring = 0 /\ node.ignored THEN n ELSE ignoring
LeaveNode(n, same) == IF ignoring = n /\ same THEN 0 ELSE ignoring

-------------------------------------------------------------------------------
One == CHOOSE g \in Groups : TRUE

Init ==
  /\ study \in {"placement", "status"}
  /\ IF study = "placement" THEN wanted = "all" /\ excluded = {}
     ELSE /\ wanted \in {"all", "nothing"} \cup LineRanges
          /\ excluded \in {{}, {One}} /\ (excluded # {} => wanted = "all")
  /\ tree = <<Root>> /\ open = <<1>>
  /\ ignoreRules = <<>> /\ ignoring = 0 /\ mutants = <<>>
  /\ placements = <<>> /\ placed = {}

Specials == Cardinality({n \in DOMAIN tree : tree[n].ignored})
            + Cardinality({n \in DOMAIN tree : tree[n].leads # NoDirective})

(* A node that may come next.  Trees for "placement" vary in shape, trees   *)
(* for "status" in lines, directives and ignorers.                          *)
ShapesHere ==
  IF Top = 1 THEN {<<"statement", "child">>}
  ELSE IF study = "status" THEN {<<"statement", "child">>, <<"expression", "key">>}
  ELSE {s \in Shapes : s[2] = "link" => Node(Top).sort = "chain"}

LinesHere ==
  LET before == {tree[n].to : n \in {m \in DOMAIN tree : tree[m].parent = Top}} \cup {Node(Top).from}
  IN  IF study = "placement" THEN {<<1, MaxLine>>}
      ELSE {r \in LineRanges : r[2] <= Node(Top).to /\ \A line \in before : line <= r[1]}

FeaturesHere ==
  IF study = "placement" \/ Specials = MaxSpecial THEN {<<NoDirective, FALSE>>}
  ELSE {<<NoDirective, FALSE>>, <<NoDirective, TRUE>>} \cup (Directives \X {FALSE})

YieldsHere == IF study = "placement" THEN {<<>>, <<One>>} ELSE {SetToSeq(Groups)}

(* A node is entered: its directives, whether it is skipped, ignorers,      *)
(* the placement map, then its mutants.                                     *)
Enter ==
  /\ Len(tree) < (IF study = "placement" THEN MaxShaped ELSE MaxJudged) /\ open # <<>>
  /\ \E shape \in ShapesHere, lines \in LinesHere, feature \in FeaturesHere, yields \in YieldsHere :
       LET n     == Len(tree) + 1
           node  == [parent |-> Top, sort |-> shape[1], role |-> shape[2], from |-> lines[1], to |-> lines[2],
                     leads |-> feature[1], ignored |-> feature[2], yields |-> yields]
           chain == ProcessStrykerDirectives(ignoreRules, node)
           found == Collected(chain, n, node, EnterNode(n, node))
           ids   == SelectSeq([i \in DOMAIN found |-> Len(mutants) + i],
                              LAMBDA id : found[id - Len(mutants)].reason = "none")
           map   == AddToPlacementMapIfPossible(placements, n, node)
       IN  /\ tree' = Append(tree, node)
           /\ ignoreRules' = chain
           /\ IF ShouldSkip(node) THEN UNCHANGED <<open, ignoring, mutants, placements>>
              ELSE /\ open' = Append(open, n)
                   /\ ignoring' = EnterNode(n, node)
                   /\ IF ShouldMutate(node)
                      THEN mutants' = mutants \o found /\ placements' = Register(map, n, ids)
                      ELSE mutants' = mutants /\ placements' = map
  /\ UNCHANGED <<study, wanted, excluded, placed>>

(* A node is left: what is registered with it is placed, and an ignorer     *)
(* that asked to ignore this node has no say any more.                      *)
Leave ==
  /\ open # <<>>
  /\ LET switch == Top \in DOMAIN placements /\ placements[Top] # <<>>
     IN  /\ placed' = IF switch THEN placed \cup {Top} ELSE placed
         /\ ignoring' = LeaveNode(Top, ~switch)
  /\ open' = Front(open)
  /\ UNCHANGED <<study, wanted, excluded, tree, ignoreRules, mutants, placements>>

Next == Enter \/ Leave

Spec == Init /\ [][Next]_vars

Done == open = <<>>

-------------------------------------------------------------------------------
(* What the instrumented program does *)

Children(n) == {c \in DOMAIN tree : tree[c].parent = n}

(* The nodes that run, and the replacements that run instead of a node,     *)
(* below node `top' of a tree with the switches `on' and `mutant' in place  *)
(* of node `replaced', when mutant `active' is the active one (0: none).    *)
Runs(top, on, replaced, mutant, active) ==
  LET runs[n \in DOMAIN tree, switches \in SUBSET DOMAIN tree, gone \in 0..Len(tree), by \in 0..Len(mutants)] ==
        LET chosen == {i \in DOMAIN placements[n] : placements[n][i].mutant = active}
            branch == placements[n][CHOOSE i \in chosen : TRUE]
        IN  IF n = gone THEN {<<"mutant", by>>}
            ELSE IF n \in switches /\ chosen # {}
            THEN runs[n, branch.switches \ {n}, branch.replaces, branch.mutant]
            ELSE {<<"node", n>>} \cup UNION {runs[c, switches, gone, by] : c \in Children(n)}
  IN  runs[top, on, replaced, mutant]

(* A node and everything around it. *)
Around(n) == LET around[m \in DOMAIN tree] ==
                   {m} \cup IF tree[m].parent = 0 THEN {} ELSE around[tree[m].parent]
             IN  around[n]

-------------------------------------------------------------------------------
(* Every node that is being walked is in the tree, and what is registered   *)
(* is a mutant that is not ignored.                                         *)
TypeOK ==
  /\ \A i \in DOMAIN open : open[i] \in DOMAIN tree
  /\ ignoring \in {0} \cup {open[i] : i \in DOMAIN open}
  /\ placed \subseteq DOMAIN placements /\ DOMAIN placements \subseteq DOMAIN tree
  /\ \A n \in DOMAIN placements : \A i \in DOMAIN placements[n] :
       mutants[placements[n][i].mutant].reason = "none"

(* Without an active mutant the instrumented file runs the original nodes;  *)
(* with one, its replacement runs instead of the node it was made for, and  *)
(* the rest of the file is as it was.  An ignored mutant changes nothing.   *)
SwitchingSelectsOne ==
  Done =>
    LET original == {<<"node", n>> : n \in DOMAIN tree}
        Mutated(id) == {<<"mutant", id>>} \cup
                       {<<"node", n>> : n \in {m \in DOMAIN tree : mutants[id].node \notin Around(m)}}
    IN  /\ Runs(1, placed, 0, 0, 0) = original
        /\ \A id \in DOMAIN mutants :
             Runs(1, placed, 0, 0, id) = IF mutants[id].reason = "none" THEN Mutated(id) ELSE original

(* Of the directives that are read before a mutant and apply to its mutator *)
(* and line, the last one decides whether the mutant is ignored.            *)
LastDirectiveDecides ==
  \A id \in DOMAIN mutants :
    LET m  == mutants[id]
        about == {n \in 1..m.node : /\ tree[n].leads # NoDirective
                                    /\ tree[n].leads.name \in {"all", m.group}
                                    /\ tree[n].leads.scope = "all" \/ tree[n].from = m.line}
    IN  (m.reason = "directive") = (about # {} /\ tree[CHOOSE n \in about : \A k \in about : k <= n].leads.type = "disable")

(* An ignorer's message holds for the node it was given for and everything  *)
(* in it, and for nothing else, whatever became of the nodes on the way.    *)
IgnorersCoverTheirNode ==
  \A id \in DOMAIN mutants :
    mutants[id].reason \in {"none", "ignorer"} =>
      (mutants[id].reason = "ignorer") = (\E n \in Around(mutants[id].node) : tree[n].ignored)

(* Nothing outside the lines that were asked for is mutated.                *)
MutantsAreWanted ==
  \A id \in DOMAIN mutants :
    LET n == tree[mutants[id].node]
    IN  wanted # "nothing" /\ (wanted \in LineRanges => n.from >= wanted[1] /\ n.to <= wanted[2])
================================================================================
