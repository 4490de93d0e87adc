------------------------------- MODULE Mutators -------------------------------
(***************************************************************************)
(* What each mutator makes of a node (packages/instrumenter/src/mutators). *)
(* A mutator is a set of operators; it yields pairs of a replacement and   *)
(* the operator that made it.  A node is a record: its `type'; its         *)
(* `operator', or the name of the method that is called; what it is in its *)
(* parent (`within'); whether there is anything in it (`full'), whether    *)
(* an operand is a string (`text'), and whether it is written with `?.'    *)
(* (`optional').  A replacement is the node that comes in its place.       *)
(***************************************************************************)
EXTENDS Naturals, Sequences, FiniteSets, TLC

To(replacement, operator) == <<replacement, operator>>

(* A boolean in the place of the node, and the operand of the node.         *)
Boolean(value, node) ==
  [node EXCEPT !.type = "BooleanLiteral", !.operator = value, !.full = TRUE, !.text = FALSE, !.optional = FALSE]
Operand(node) == [node EXCEPT !.type = "operand", !.operator = ""]

(* A table of a mutator: from the operator of a node to its replacement.    *)
ByTable(table, node) ==
  IF node.operator \in DOMAIN table
  THEN {To([node EXCEPT !.operator = table[node.operator][1]], table[node.operator][2])} ELSE {}

ArithmeticTable ==
     "+" :> <<"-", "AdditionOperatorNegation">>
  @@ "-" :> <<"+", "SubtractionOperatorNegation">>
  @@ "*" :> <<"/", "MultiplicationOperatorNegation">>
  @@ "/" :> <<"*", "DivisionOperatorNegation">>
  @@ "%" :> <<"*", "RemainderOperatorToMultiplicationReplacement">>

ArithmeticOperator(node) ==
  IF node.type = "BinaryExpression" /\ ~node.text THEN ByTable(ArithmeticTable, node) ELSE {}

(* `new Array(...)' and `Array(...)' are calls of "Array".                  *)
ArrayDeclaration(node) ==
  CASE node.type = "ArrayExpression" /\ node.full -> {To([node EXCEPT !.full = FALSE], "ArrayLiteralItemsRemoval")}
    [] node.type = "ArrayExpression" /\ ~node.full -> {To([node EXCEPT !.full = TRUE], "ArrayLiteralItemsFill")}
    [] node.type \in {"CallExpression", "NewExpression"} /\ node.operator = "Array" /\ node.full ->
         {To([node EXCEPT !.full = FALSE], "ArrayConstructorItemsRemoval")}
    [] node.type \in {"CallExpression", "NewExpression"} /\ node.operator = "Array" /\ ~node.full ->
         {To([node EXCEPT !.full = TRUE], "ArrayConstructorItemsFill")}
    [] OTHER -> {}

(* `full': the body is neither a block nor `undefined'.                     *)
ArrowFunction(node) ==
  IF node.type = "ArrowFunctionExpression" /\ node.full
  THEN {To([node EXCEPT !.full = FALSE], "ArrowFunctionRemoval")} ELSE {}

(* The body of a constructor that must call super() first is left alone.    *)
BlockStatement(node) ==
  IF node.type = "BlockStatement" /\ node.full /\ node.within # "constructor of a subclass with properties"
  THEN {To([node EXCEPT !.full = FALSE], "BlockStatementRemoval")} ELSE {}

BooleanLiteral(node) ==
  CASE node.type = "BooleanLiteral" /\ node.operator = "true" -> {To(Boolean("false", node), "TrueLiteralNegation")}
    [] node.type = "BooleanLiteral" /\ node.operator = "false" -> {To(Boolean("true", node), "FalseLiteralNegation")}
    [] node.type = "UnaryExpression" /\ node.operator = "!" -> {To(Operand(node), "LogicalNotRemoval")}
    [] OTHER -> {}

IsBooleanExpression(node) ==
  /\ node.type \in {"BinaryExpression", "LogicalExpression"}
  /\ node.operator \in {"!=", "!==", "&&", "<", "<=", "==", "===", ">", ">=", "||"}

(* `within' an IfStatement is what path.parentPath.node.test says; the code *)
(* looks at the place first, and for a loop or an `if' at nothing else.     *)
ConditionalExpression(node) ==
  CASE node.within = "test of while" -> {To(Boolean("false", node), "WhileLoopConditionToFalseReplacement")}
    [] node.within = "test of do" -> {To(Boolean("false", node), "DoWhileLoopConditionToFalseReplacement")}
    [] node.within = "test of for" -> {To(Boolean("false", node), "ForLoopConditionToFalseReplacement")}
    [] node.within = "test of if" -> {To(Boolean("true", node), "IfConditionToTrueReplacement"),
                                      To(Boolean("false", node), "IfConditionToFalseReplacement")}
    [] OTHER ->
       IF IsBooleanExpression(node)
       THEN (IF node.within # "operand of ||" THEN {To(Boolean("true", node), "BooleanExpressionToTrueReplacement")} ELSE {}) \cup
            (IF node.within # "operand of &&" THEN {To(Boolean("false", node), "BooleanExpressionToFalseReplacement")} ELSE {})
       ELSE IF node.type = "ForStatement" /\ ~node.full
       THEN {To([node EXCEPT !.full = TRUE], "ForLoopConditionToFalseReplacement")}
       ELSE IF node.type = "SwitchCase" /\ node.full
       THEN {To([node EXCEPT !.full = FALSE], "SwitchStatementBodyRemoval")} ELSE {}

EqualityTable ==
  [o \in {"<", "<=", ">", ">=", "==", "!=", "===", "!=="} |->
    CASE o = "<"  -> <<<<"<=", "LessThanOperatorBoundary">>, <<">=", "LessThanOperatorNegation">>>>
      [] o = "<=" -> <<<<"<", "LessThanEqualOperatorBoundary">>, <<">", "LessThanEqualOperatorNegation">>>>
      [] o = ">"  -> <<<<">=", "GreaterThanOperatorBoundary">>, <<"<=", "GreaterThanOperatorNegation">>>>
      [] o = ">=" -> <<<<">", "GreaterThanEqualOperatorBoundary">>, <<"<", "GreaterThanEqualOperatorNegation">>>>
      [] o = "==" -> <<<<"!=", "EqualityOperatorNegation">>>>
      [] o = "!=" -> <<<<"==", "InequalityOperatorNegation">>>>
      [] o = "===" -> <<<<"!==", "StrictEqualityOperatorNegation">>>>
      [] o = "!==" -> <<<<"===", "StrictInequalityOperatorNegation">>>>]

EqualityOperator(node) ==
  IF node.type = "BinaryExpression" /\ node.operator \in DOMAIN EqualityTable
  THEN LET row == EqualityTable[node.operator]
       IN  {To([node EXCEPT !.operator = row[i][1]], row[i][2]) : i \in DOMAIN row} ELSE {}

LogicalTable ==
     "&&" :> <<"||", "LogicalAndOperatorToLogicalOrReplacement">>
  @@ "||" :> <<"&&", "LogicalOrOperatorToLogicalAndReplacement">>
  @@ "??" :> <<"&&", "NullishCoalescingOperatorToLogicalAndReplacement">>

LogicalOperator(node) == IF node.type = "LogicalExpression" THEN ByTable(LogicalTable, node) ELSE {}

(* A method without a counterpart is replaced by the object it is called on.*)
MethodTable ==
     "charAt" :> <<"", "CharAtMethodCallRemoval">> @@ "filter" :> <<"", "FilterMethodCallRemoval">>
  @@ "reverse" :> <<"", "ReverseMethodCallRemoval">> @@ "slice" :> <<"", "SliceMethodCallRemoval">>
  @@ "sort" :> <<"", "SortMethodCallRemoval">> @@ "substr" :> <<"", "SubstrMethodCallRemoval">>
  @@ "substring" :> <<"", "SubstringMethodCallRemoval">> @@ "trim" :> <<"", "TrimMethodCallRemoval">>
  @@ "endsWith" :> <<"startsWith", "EndsWithMethodCallNegation">>
  @@ "startsWith" :> <<"endsWith", "StartsWithMethodCallNegation">>
  @@ "every" :> <<"some", "EveryMethodCallToSomeReplacement">>
  @@ "some" :> <<"every", "SomeMethodCallToEveryReplacement">>
  @@ "toLocaleLowerCase" :> <<"toLocaleUpperCase", "ToLocaleLowerCaseMethodCallNegation">>
  @@ "toLocaleUpperCase" :> <<"toLocaleLowerCase", "ToLocaleUpperCaseMethodCallNegation">>
  @@ "toLowerCase" :> <<"toUpperCase", "ToLowerCaseMethodCallNegation">>
  @@ "toUpperCase" :> <<"toLowerCase", "ToUpperCaseMethodCallNegation">>
  @@ "trimEnd" :> <<"trimStart", "TrimEndMethodCallNegation">>
  @@ "trimStart" :> <<"trimEnd", "TrimStartMethodCallNegation">>
  @@ "min" :> <<"max", "MinMethodCallNegation">> @@ "max" :> <<"min", "MaxMethodCallNegation">>

(* The call of a member by its name.                                        *)
MethodExpression(node) ==
  IF node.type # "MethodCall" \/ node.operator \notin DOMAIN MethodTable THEN {}
  ELSE IF MethodTable[node.operator][1] = "" THEN {To(Operand(node), MethodTable[node.operator][2])}
  ELSE ByTable(MethodTable, node)

ObjectLiteral(node) ==
  IF node.type = "ObjectExpression" /\ node.full
  THEN {To([node EXCEPT !.full = FALSE], "ObjectLiteralPropertiesRemoval")} ELSE {}

(* Strings that are syntax rather than values are left alone.               *)
IsValidParent(node) ==
  node.within \notin {"import or export", "JSX attribute", "statement", "type", "key", "call of require or Symbol"}

StringLiteral(node) ==
  CASE node.type = "TemplateLiteral" /\ node.full -> {To([node EXCEPT !.full = FALSE], "FilledInterpolatedStringToEmptyReplacement")}
    [] node.type = "TemplateLiteral" /\ ~node.full -> {To([node EXCEPT !.full = TRUE], "EmptyInterpolatedStringToFilledReplacement")}
    [] node.type = "StringLiteral" /\ IsValidParent(node) /\ node.full -> {To([node EXCEPT !.full = FALSE], "FilledStringLiteralToEmptyReplacement")}
    [] node.type = "StringLiteral" /\ IsValidParent(node) /\ ~node.full -> {To([node EXCEPT !.full = TRUE], "EmptyStringLiteralToFilledReplacement")}
    [] OTHER -> {}

UnaryTable == "+" :> <<"-", "UnaryPlusOperatorNegation">> @@ "-" :> <<"+", "UnaryMinOperatorNegation">>

UnaryOperator(node) ==
  IF node.type # "UnaryExpression" THEN {}
  ELSE IF node.operator = "~" THEN {To(Operand(node), "UnaryBitwiseNotRemoval")} ELSE ByTable(UnaryTable, node)

(* `full': the operator comes before its operand.                           *)
UpdateOperator(node) ==
  IF node.type # "UpdateExpression" THEN {}
  ELSE {To([node EXCEPT !.operator = IF @ = "++" THEN "--" ELSE "++"],
           CASE node.operator = "++" /\ node.full -> "PrefixIncrementOperatorNegation"
             [] node.operator = "++" /\ ~node.full -> "PostfixIncrementOperatorNegation"
             [] node.operator # "++" /\ node.full -> "PrefixDecrementOperatorNegation"
             [] OTHER -> "PostfixDecrementOperatorNegation")}

(* The patterns weapon-regex makes of an expression, one here; an empty     *)
(* pattern, or one it cannot parse (`text'), gives none.                    *)
MutatePattern(node) == IF node.full /\ ~node.text THEN {To([node EXCEPT !.operator = "another pattern"], "RegexRemoval")} ELSE {}

Regex(node) ==
  IF \/ node.type = "RegExpLiteral"
     \/ node.type = "StringLiteral" /\ node.within = "first argument of new RegExp"
  THEN MutatePattern(node) ELSE {}

OptionalChaining(node) ==
  IF ~node.optional THEN {}
  ELSE CASE node.type = "OptionalMemberExpression" ->
              {To([node EXCEPT !.optional = FALSE],
                  IF node.operator = "computed" THEN "OptionalComputedMemberExpressionOptionalRemoval"
                  ELSE "OptionalMemberExpressionOptionalRemoval")}
         [] node.type \in {"CallExpression", "MethodCall"} -> {To([node EXCEPT !.optional = FALSE], "OptionalCallExpressionOptionalRemoval")}
         [] OTHER -> {}

AssignmentTable ==
     "+=" :> <<"-=", "AdditionAssignmentNegation">> @@ "-=" :> <<"+=", "SubtractionAssignmentNegation">>
  @@ "*=" :> <<"/=", "MultiplicationAssignmentNegation">> @@ "/=" :> <<"*=", "DivisionAssignmentNegation">>
  @@ "%=" :> <<"*=", "RemainderAssignmentToMultiplicationReplacement">>
  @@ "<<=" :> <<">>=", "LeftShiftAssignmentNegation">> @@ ">>=" :> <<"<<=", "RightShiftAssignmentNegation">>
  @@ "&=" :> <<"|=", "BitwiseAndAssignmentToBitwiseOrReplacement">>
  @@ "|=" :> <<"&=", "BitwiseOrAssignmentToBitwiseAndReplacement">>
  @@ "&&=" :> <<"||=", "LogicalAndAssignmentToLogicalOrReplacement">>
  @@ "||=" :> <<"&&=", "LogicalOrAssignmentToLogicalAndReplacement">>
  @@ "??=" :> <<"&&=", "NullishCoalescingAssignmentToLogicalAndReplacement">>

(* `text': the value is a string, which only logical assignment allows.     *)
AssignmentOperator(node) ==
  IF node.type = "AssignmentExpression" /\ (node.text => node.operator \in {"&&=", "||=", "??="})
  THEN ByTable(AssignmentTable, node) ELSE {}
================================================================================
