---------------------------- MODULE MutationLevels ----------------------------
(***************************************************************************)
(* Which mutation operators take part in a run: the mutation levels that   *)
(* Stryker ships (mutation-level/default-mutation-levels.ts), and the run  *)
(* level that the babel transformer makes of the options includedMutations *)
(* and excludedMutations (createRunLevel and updateRunLevel).  An entry of *)
(* these lists is a level, a mutator ("group") or a single operator.       *)
(*                                                                         *)
(* The specification fills the two options one entry at a time, and picks  *)
(* the nodes that are mutated.                                             *)
(***************************************************************************)
EXTENDS Mutators, SequencesExt

CONSTANT MaxEntries   \* entries of both options together

VARIABLES includedMutations, excludedMutations,  \* NotSet, or a sequence of entries
          node                                   \* the node that is looked at

vars == <<includedMutations, excludedMutations, node>>

NotSet == <<"not set">>

(* allMutators; their order does not matter, since no two mutators share an *)
(* operator (LevelsAreMadeOfOperators).                                     *)
AllMutators ==
  {"ArithmeticOperator", "ArrayDeclaration", "ArrowFunction", "BlockStatement", "BooleanLiteral",
   "ConditionalExpression", "EqualityOperator", "LogicalOperator", "MethodExpression", "ObjectLiteral",
   "StringLiteral", "UnaryOperator", "UpdateOperator", "Regex", "OptionalChaining", "AssignmentOperator"}

Yield(mutator, n) ==
  CASE mutator = "ArithmeticOperator" -> ArithmeticOperator(n) [] mutator = "ArrayDeclaration" -> ArrayDeclaration(n)
    [] mutator = "ArrowFunction" -> ArrowFunction(n) [] mutator = "BlockStatement" -> BlockStatement(n)
    [] mutator = "BooleanLiteral" -> BooleanLiteral(n) [] mutator = "ConditionalExpression" -> ConditionalExpression(n)
    [] mutator = "EqualityOperator" -> EqualityOperator(n) [] mutator = "LogicalOperator" -> LogicalOperator(n)
    [] mutator = "MethodExpression" -> MethodExpression(n) [] mutator = "ObjectLiteral" -> ObjectLiteral(n)
    [] mutator = "StringLiteral" -> StringLiteral(n) [] mutator = "UnaryOperator" -> UnaryOperator(n)
    [] mutator = "UpdateOperator" -> UpdateOperator(n) [] mutator = "Regex" -> Regex(n)
    [] mutator = "OptionalChaining" -> OptionalChaining(n) [] mutator = "AssignmentOperator" -> AssignmentOperator(n)

(* The nodes that the mutators tell apart.                                  *)
A(types, operators, withins, fulls, texts, optionals) ==
  [type : types, operator : operators, within : withins, full : fulls, text : texts, optional : optionals]

Withins == {"test of while", "test of do", "test of for", "test of if", "operand of ||", "operand of &&", "other"}

NodeSets ==
  << A({"BinaryExpression"}, DOMAIN ArithmeticTable \cup DOMAIN EqualityTable \cup {"in"}, Withins, {TRUE}, BOOLEAN, {FALSE}),
     A({"LogicalExpression"}, DOMAIN LogicalTable, Withins, {TRUE}, {FALSE}, {FALSE}),
     A({"UnaryExpression"}, {"+", "-", "~", "!", "typeof"}, Withins, {TRUE}, {FALSE}, {FALSE}),
     A({"UpdateExpression"}, {"++", "--"}, {"other"}, BOOLEAN, {FALSE}, {FALSE}),
     A({"AssignmentExpression"}, DOMAIN AssignmentTable \cup {"="}, {"other"}, {TRUE}, BOOLEAN, {FALSE}),
     A({"BooleanLiteral"}, {"true", "false"}, Withins, {TRUE}, {FALSE}, {FALSE}),
     A({"StringLiteral"}, {""}, {"import or export", "key", "first argument of new RegExp", "other"}, BOOLEAN, BOOLEAN, {FALSE}),
     A({"ArrayExpression", "ArrowFunctionExpression", "BlockStatement", "ObjectExpression", "TemplateLiteral",
        "ForStatement", "SwitchCase", "RegExpLiteral"}, {""},
       {"constructor of a subclass with properties", "other"}, BOOLEAN, {FALSE}, {FALSE}),
     A({"CallExpression", "NewExpression"}, {"Array", "f"}, {"other"}, BOOLEAN, {FALSE}, {FALSE}),
     A({"CallExpression"}, {"f"}, {"other"}, {TRUE}, {FALSE}, {TRUE}),
     A({"MethodCall"}, DOMAIN MethodTable \cup {"f"}, {"other"}, {TRUE}, {FALSE}, BOOLEAN),
     A({"OptionalMemberExpression"}, {"computed", "named"}, {"other"}, {TRUE}, {FALSE}, BOOLEAN) >>

Nodes == UNION Range(NodeSets)

Second(table) == {row[2] : row \in Range(table)}

(* NodeMutator.operators: the operators that a mutator declares.            *)
Operators(mutator) ==
  CASE mutator = "ArithmeticOperator" -> Second(ArithmeticTable)
    [] mutator = "ArrayDeclaration" -> {"ArrayLiteralItemsFill", "ArrayConstructorItemsFill", "ArrayLiteralItemsRemoval",
                                        "ArrayConstructorItemsRemoval"}
    [] mutator = "ArrowFunction" -> {"ArrowFunctionRemoval"}
    [] mutator = "BlockStatement" -> {"BlockStatementRemoval"}
    [] mutator = "BooleanLiteral" -> {"TrueLiteralNegation", "FalseLiteralNegation", "LogicalNotRemoval"}
    [] mutator = "ConditionalExpression" ->
         {"BooleanExpressionToFalseReplacement", "BooleanExpressionToTrueReplacement", "SwitchStatementBodyRemoval",
          "DoWhileLoopConditionToFalseReplacement", "ForLoopConditionToFalseReplacement",
          "WhileLoopConditionToFalseReplacement", "IfConditionToFalseReplacement", "IfConditionToTrueReplacement"}
    [] mutator = "EqualityOperator" -> UNION {{row[2] : row \in Range(EqualityTable[o])} : o \in DOMAIN EqualityTable}
    [] mutator = "LogicalOperator" -> Second(LogicalTable)
    [] mutator = "MethodExpression" -> Second(MethodTable)
    [] mutator = "ObjectLiteral" -> {"ObjectLiteralPropertiesRemoval"}
    [] mutator = "StringLiteral" -> {"EmptyStringLiteralToFilledReplacement", "FilledStringLiteralToEmptyReplacement",
                                     "FilledInterpolatedStringToEmptyReplacement", "EmptyInterpolatedStringToFilledReplacement"}
    [] mutator = "UnaryOperator" -> Second(UnaryTable) \cup {"UnaryBitwiseNotRemoval"}
    [] mutator = "UpdateOperator" -> {"PostfixIncrementOperatorNegation", "PostfixDecrementOperatorNegation",
                                      "PrefixIncrementOperatorNegation", "PrefixDecrementOperatorNegation"}
    [] mutator = "Regex" -> {"RegexRemoval"}
    [] mutator = "OptionalChaining" -> {"OptionalCallExpressionOptionalRemoval", "OptionalMemberExpressionOptionalRemoval",
                                        "OptionalComputedMemberExpressionOptionalRemoval"}
    [] mutator = "AssignmentOperator" -> Second(AssignmentTable)

Everything == UNION {Operators(m) : m \in AllMutators}

-------------------------------------------------------------------------------
(* default-mutation-levels.ts.  A level has operators per mutator.          *)

Level1 ==
  [UpdateOperator |-> <<"PrefixDecrementOperatorNegation">>,
   EqualityOperator |-> <<"LessThanEqualOperatorNegation", "LessThanEqualOperatorBoundary", "EqualityOperatorNegation",
                          "InequalityOperatorNegation", "GreaterThanEqualOperatorNegation">>,
   ArrayDeclaration |-> <<"ArrayConstructorItemsRemoval">>,
   ConditionalExpression |-> <<"BooleanExpressionToFalseReplacement", "BooleanExpressionToTrueReplacement">>,
   UnaryOperator |-> <<"UnaryPlusOperatorNegation">>,
   AssignmentOperator |-> <<"NullishCoalescingAssignmentToLogicalAndReplacement">>,
   ArithmeticOperator |-> <<"DivisionOperatorNegation", "RemainderOperatorToMultiplicationReplacement", "MultiplicationOperatorNegation">>,
   OptionalChaining |-> <<"OptionalCallExpressionOptionalRemoval", "OptionalMemberExpressionOptionalRemoval">>]

(* A level has what the level below it has, except for the mutators it      *)
(* names itself.                                                           *)
Level2 ==
  [UpdateOperator |-> Level1.UpdateOperator \o <<"PostfixIncrementOperatorNegation">>,
   EqualityOperator |-> Level1.EqualityOperator \o <<"LessThanOperatorNegation", "GreaterThanEqualOperatorBoundary",
                                                     "StrictInequalityOperatorNegation", "GreaterThanOperatorBoundary">>,
   ConditionalExpression |-> Level1.ConditionalExpression \o <<"SwitchStatementBodyRemoval">>,
   ArithmeticOperator |-> Level1.ArithmeticOperator \o <<"AdditionOperatorNegation", "SubtractionOperatorNegation">>,
   StringLiteral |-> <<"EmptyStringLiteralToFilledReplacement", "EmptyInterpolatedStringToFilledReplacement">>,
   Regex |-> <<"RegexRemoval">>,
   BooleanLiteral |-> <<"TrueLiteralNegation">>] @@ Level1

Level3 ==
  [EqualityOperator |-> Level2.EqualityOperator \o <<"LessThanOperatorBoundary", "GreaterThanOperatorNegation">>,
   ArrayDeclaration |-> Level2.ArrayDeclaration \o <<"ArrayLiteralItemsRemoval", "ArrayLiteralItemsFill">>,
   UnaryOperator |-> Level2.UnaryOperator \o <<"UnaryMinOperatorNegation">>,
   BooleanLiteral |-> Level2.BooleanLiteral \o <<"FalseLiteralNegation", "LogicalNotRemoval">>] @@ Level2

DefaultMutationLevels == "@Level1" :> Level1 @@ "@Level2" :> Level2 @@ "@Level3" :> Level3

(* The operators of a level, all of them. *)
LevelOperators(level) == UNION {Range(level[m]) : m \in DOMAIN level}

-------------------------------------------------------------------------------
(* The run level: the operators that are not ignored, or "everything" *)

(* Two operators whose name contains the name of another one: what the      *)
(* string method `includes' finds when it is asked of a name.               *)
Containing == {<<"StrictEqualityOperatorNegation", "EqualityOperatorNegation">>,
               <<"StrictInequalityOperatorNegation", "InequalityOperatorNegation">>}

(* updateFunc takes the first operator of what it is given: to add it, or   *)
(* to remove every name that is part of its name.                           *)
Including(run, calls) == run \cup {Head(operators) : operators \in calls}
Excluding(run, calls) ==
  {o \in run : \A operators \in calls : o # Head(operators) /\ <<Head(operators), o>> \notin Containing}

(* The operators an entry stands for, in the calls of updateFunc it leads   *)
(* to: a level is one call for each of its mutators, a group is one call    *)
(* for each operator.                                                       *)
CallsOf(entry) ==
  IF entry \in DOMAIN DefaultMutationLevels
  THEN {DefaultMutationLevels[entry][m] : m \in DOMAIN DefaultMutationLevels[entry]}
  ELSE LET group == {m \in AllMutators : entry = "@" \o m}
       IN  {<<o>> : o \in UNION {Operators(m) : m \in group}} \cup
           {<<o>> : o \in {entry} \cap Everything}

UpdateRunLevel(run, entries, include) ==
  IF entries = NotSet THEN run
  ELSE FoldLeft(LAMBDA level, entry : IF include THEN Including(level, CallsOf(entry)) ELSE Excluding(level, CallsOf(entry)),
                run, entries)

(* A mutant: what is excluded is taken away before the rest is included. *)
CreateRunLevelExcludesFirst(included, excluded) ==
  IF included \in {NotSet, <<>>} /\ excluded = NotSet THEN Everything
  ELSE LET start == IF included \in {NotSet, <<>>} THEN Everything ELSE {}
       IN  UpdateRunLevel(UpdateRunLevel(start, excluded, FALSE), included, TRUE)

CreateRunLevel(included, excluded) ==
  IF included \in {NotSet, <<>>} /\ excluded = NotSet THEN Everything
  ELSE LET start == IF included \in {NotSet, <<>>} THEN Everything ELSE {}
       IN  UpdateRunLevel(UpdateRunLevel(start, included, TRUE), excluded, FALSE)

RunLevel == CreateRunLevel(includedMutations, excludedMutations)

Entries == DOMAIN DefaultMutationLevels \cup {"@" \o m : m \in AllMutators} \cup Everything

Size(entries) == IF entries = NotSet THEN 0 ELSE Len(entries)
With(entries, entry) == IF entries = NotSet THEN <<entry>> ELSE Append(entries, entry)

FirstNode == CHOOSE n \in NodeSets[1] : TRUE

Init == includedMutations \in {NotSet, <<>>} /\ excludedMutations = NotSet /\ node = FirstNode

(* One more entry in the configuration, before the walk.                    *)
Configure ==
  /\ node = FirstNode
  /\ Size(includedMutations) + Size(excludedMutations) < MaxEntries
  /\ \E entry \in Entries :
       \/ includedMutations' = With(includedMutations, entry) /\ UNCHANGED excludedMutations
       \/ excludedMutations' = With(excludedMutations, entry) /\ UNCHANGED includedMutations
  /\ UNCHANGED node

(* The walk arrives at a node.  What a mutator makes of it does not         *)
(* depend on the options, so that nodes are looked at without any.          *)
Visit ==
  /\ includedMutations = NotSet /\ excludedMutations = NotSet /\ node = FirstNode
  /\ node' \in Nodes
  /\ UNCHANGED <<includedMutations, excludedMutations>>

Next == Configure \/ Visit

Spec == Init /\ [][Next]_vars

-------------------------------------------------------------------------------
ListOf(entries) == IF entries = NotSet THEN {} ELSE Range(entries)

(* The operators that the entries of a list name, in the documentation's    *)
(* words: those of a whole level, of a whole group, or the operator itself. *)
Named(entries) == UNION {UNION {Range(call) : call \in CallsOf(e)} : e \in ListOf(entries)}

IsLevel(entry) == entry \in DOMAIN DefaultMutationLevels

(* The levels only name operators that exist, with the mutator that has     *)
(* them; every level has the operators of the level below it; and a single  *)
(* operator can be looked up, since it belongs to one mutator.              *)
LevelsAreMadeOfOperators ==
  /\ \A l \in DOMAIN DefaultMutationLevels : \A m \in DOMAIN DefaultMutationLevels[l] :
       Range(DefaultMutationLevels[l][m]) \subseteq Operators(m)
  /\ LevelOperators(Level1) \subseteq LevelOperators(Level2)
  /\ LevelOperators(Level2) \subseteq LevelOperators(Level3)
  /\ \A m, n \in AllMutators : m # n => Operators(m) \cap Operators(n) = {}

(* A group or operator that is excluded does not run, included or not; one  *)
(* that is included runs unless it is excluded; and with a list of what is  *)
(* included, nothing runs that is not in it.                                *)
RunLevelIsAsAsked ==
  LET plain(entries) == SelectSeq(entries, LAMBDA e : ~IsLevel(e))
      run == RunLevel
      asked == Named(includedMutations)
      refused == Named(excludedMutations)
      near == {pair[2] : pair \in {q \in Containing : q[1] \in refused}}
  IN  /\ run \cap (IF excludedMutations = NotSet THEN {} ELSE Named(plain(excludedMutations))) = {}
      /\ (IF includedMutations = NotSet THEN {} ELSE Named(plain(includedMutations))) \ (refused \cup near) \subseteq run
      /\ IF ListOf(includedMutations) # {} THEN run \subseteq asked ELSE Everything \ (refused \cup near) \subseteq run

(* A mutant is made by an operator of its mutator, it is not the node it is *)
(* made from, and a mutator does not make the same mutant twice of a node.   A condition that is a boolean already *)
(* is the exception: it is replaced by what it is.                          *)
MutantsAreDifferent ==
  \A m \in AllMutators : \A p \in Yield(m, node) :
    /\ p[2] \in Operators(m)
    /\ p[1] # node \/ (m = "ConditionalExpression" /\ node.type = "BooleanLiteral")
    /\ \A q \in Yield(m, node) : p[1] = q[1] => p = q

(* An included level means all of its operators (docs/mutation-levels.md,   *)
(* docs/configuration.md).                                                  *)
IncludedLevelIsWhole ==
  \A e \in ListOf(includedMutations) :
    IsLevel(e) /\ excludedMutations = NotSet => Named(<<e>>) \subseteq RunLevel

(* Excluding one operator leaves the others: refuted for the two operators  *)
(* in Containing.                                                           *)
ExclusionIsExact ==
  includedMutations = NotSet /\ excludedMutations # NotSet => Everything \ Named(excludedMutations) \subseteq RunLevel
================================================================================
