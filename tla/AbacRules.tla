------------------------------ MODULE AbacRules ------------------------------
(***************************************************************************)
(* The rules of ABAC policies (core/internal/authz/abac_validator.go): the *)
(* list of constant truths and the recursive descent that decide whether   *)
(* AddABACPolicy stores a rule, the grammar in the comment of              *)
(* validateABACRule, and the one the descent really reads, both as         *)
(* derivation relations.                                                   *)
(*                                                                         *)
(* A rule is a sequence of tokens.  "id" is any identifier or unknown      *)
(* character that is no keyword, "lit" a string, number or Boolean other   *)
(* than 1 and true, "op" one of the operators != and in.                   *)
(***************************************************************************)
EXTENDS Integers, Sequences

CONSTANTS
    Chunks,      \* what an administrator may type next: sequences of tokens
    MaxChunks    \* bound on the pieces of a rule

RuleTokens == {"r", "sub", "obj", "Attrs", "ID", "Owner", "Name", "Roles", "id", ".", "(", ")", "[",
           "]", "comma", "op", "==", "lit", "1", "true"}

ASSUME RulesAssumption == MaxChunks \in Nat /\ Chunks \subseteq Seq(RuleTokens)

VARIABLES
    draft,    \* the rule being typed
    pieces,   \* how many chunks it has
    usual,    \* its blanks are those isConstantTruth knows
    verdict   \* "none" while it is, then "stored" in the ABAC enforcer or "refused"

ruleVars == <<draft, pieces, usual, verdict>>

idents == {"r", "sub", "obj", "Attrs", "ID", "Owner", "Name", "Roles", "id"}
allowedFields == {"ID", "Owner", "Name", "Roles"}
Operators == {"==", "op"}
Literals == {"1", "true", "lit"}

RulesInit == draft = <<>> /\ pieces = 0 /\ usual = TRUE /\ verdict = "none"

-----------------------------------------------------------------------------
(* The parser                                                              *)

Err == 0
Eof == "eof"

\* The token at position i: cur, after i - 1 calls of advance.
Cur(rule, i) == IF i \in DOMAIN rule THEN rule[i] ELSE Eof

\* expect: the position after the token.
expect(rule, i, kinds) == IF i # Err /\ Cur(rule, i) \in kinds THEN i + 1 ELSE Err

\* r.sub or r.obj, whatever the rule is for, and a field.
parseAttr(rule, i) ==
    LET target == expect(rule, expect(rule, expect(rule, i, {"r"}), {"."}), {"sub", "obj"})
        dot == expect(rule, target, {"."})
    IN IF dot # Err /\ Cur(rule, dot) = "Attrs"
       THEN expect(rule, expect(rule, dot + 1, {"."}), idents)
       ELSE expect(rule, dot, allowedFields)

\* parsePrimary, parseExpr and parseArray with the rest of an array: the
\* position after what they read from position i, or Err.  at[k] has what they
\* answer at a later position.
parsePrimary(rule, at, i) ==
    LET cur == Cur(rule, i)
    IN CASE cur = "r" -> parseAttr(rule, i)
         [] cur \in Literals -> i + 1
         [] cur = "[" -> at[i + 1]["array"]
         [] cur = "(" -> expect(rule, at[i + 1]["expr"], {")"})
         [] OTHER -> Err

parseExpr(rule, at, i) ==
    IF Cur(rule, i) = "(" THEN expect(rule, at[i + 1]["expr"], {")"})
    ELSE at[expect(rule, parsePrimary(rule, at, i), Operators)]["primary"]

parseArray(rule, at, i) ==
    IF Cur(rule, i) = "]" THEN i + 1 ELSE at[parsePrimary(rule, at, i)]["more"]

parseMore(rule, at, i) ==
    IF Cur(rule, i) = "]" THEN i + 1
    ELSE at[at[expect(rule, i, {"comma"})]["primary"]]["more"]

Procedures == {"expr", "primary", "array", "more"}

Answer(rule, at, i, proc) ==
    CASE i = Err -> Err
      [] i # Err /\ proc = "expr" -> parseExpr(rule, at, i)
      [] i # Err /\ proc = "primary" -> parsePrimary(rule, at, i)
      [] i # Err /\ proc = "array" -> parseArray(rule, at, i)
      [] i # Err /\ proc = "more" -> parseMore(rule, at, i)

parse(rule) ==
    LET at[i \in 0..Len(rule) + 1] == [proc \in Procedures |-> Answer(rule, at, i, proc)]
    IN  at

\* The list of texts that are refused, where letter case does not count but
\* every blank does: 1  ==  1, with two blanks, is not on it.
isConstantTruth(rule, usualBlanks, prefix) ==
    /\ usualBlanks
    /\ rule \in {<<"true">>, <<"1", "==", "1">>, <<"r", ".", prefix, "==", "r", ".", prefix>>}

\* Seeded fault: what follows the expression is not looked at.
validateABACRuleAnyTail(rule, usualBlanks, prefix) ==
    \/ rule = <<>>
    \/ ~isConstantTruth(rule, usualBlanks, prefix) /\ parse(rule)[1]["expr"] # Err

\* An empty rule is accepted.
validateABACRule(rule, usualBlanks, prefix) ==
    \/ rule = <<>>
    \/ ~isConstantTruth(rule, usualBlanks, prefix) /\ parse(rule)[1]["expr"] = Len(rule) + 1

-----------------------------------------------------------------------------
(* The policy store                                                        *)

Type ==
    /\ verdict = "none" /\ pieces < MaxChunks
    /\ \E chunk \in Chunks : draft' = draft \o chunk
    /\ pieces' = pieces + 1
    /\ usual' \in BOOLEAN
    /\ UNCHANGED verdict

\* As the rule about the subject or the one about the object; one that is
\* refused never reaches the enforcer.
AddABACPolicy ==
    /\ verdict = "none"
    /\ \E prefix \in {"sub", "obj"} :
         verdict' = IF validateABACRule(draft, usual, prefix) THEN "stored" ELSE "refused"
    /\ UNCHANGED <<draft, pieces, usual>>

\* RemoveABACPolicy, or the administrator starts again.
RemoveABACPolicy ==
    /\ verdict # "none"
    /\ draft' = <<>> /\ pieces' = 0 /\ usual' = TRUE /\ verdict' = "none"

RulesNext == Type \/ AddABACPolicy \/ RemoveABACPolicy

RulesSpec == RulesInit /\ [][RulesNext]_ruleVars

-----------------------------------------------------------------------------
(* Properties                                                              *)

\* The grammar over the tokens i..j-1, given by d what it says of shorter
\* pieces: which of them an operand, an expression or the list inside brackets
\* may stand for, however they are split.  The comment has
\*     expr    := primary ("==" | "!=" | "in") primary
\*     primary := attr | literal | array | "(" expr ")"
\*     array   := "[" literal { "," literal } "]"
\* and the parser differs: a parenthesis that opens an expression encloses all
\* of it, and an array holds any operands or none.
InParens(rule, d, i, j) ==
    /\ j - i >= 2 /\ rule[i] = "(" /\ rule[j - 1] = ")"
    /\ d[<<i + 1, j - 1>>]["expr"]

Operand(rule, by, d, i, j) ==
    \/ j = i + 1 /\ rule[i] \in Literals
    \/ InParens(rule, d, i, j)
    \/ /\ j = i + 5 /\ rule[i] = "r" /\ rule[i + 1] = "." /\ rule[i + 3] = "."
       /\ rule[i + 2] \in {"sub", "obj"} /\ rule[i + 4] \in allowedFields
    \/ /\ j = i + 7 /\ rule[i] = "r" /\ rule[i + 1] = "." /\ rule[i + 3] = "."
       /\ rule[i + 2] \in {"sub", "obj"} /\ rule[i + 4] = "Attrs"
       /\ rule[i + 5] = "." /\ rule[i + 6] \in idents
    \/ /\ j - i >= 2 /\ rule[i] = "[" /\ rule[j - 1] = "]"
       /\ (by = "parser" /\ j = i + 2) \/ d[<<i + 1, j - 1>>]["list"]

Expression(rule, by, d, i, j) ==
    \/ by = "parser" /\ InParens(rule, d, i, j)
    \/ \E k \in i + 1 .. j - 2 :
          rule[k] \in Operators /\ (by = "parser" => rule[i] # "(")
          /\ d[<<i, k>>]["operand"] /\ d[<<k + 1, j>>]["operand"]

List(rule, by, d, i, j) ==
    \/ Operand(rule, by, d, i, j) /\ (by = "parser" \/ rule[i] \in Literals)
    \/ \E k \in i + 1 .. j - 2 :
          rule[k] = "comma" /\ (by = "parser" \/ rule[i] \in Literals)
          /\ d[<<i, k>>]["operand"] /\ d[<<k + 1, j>>]["list"]

Symbols == {"expr", "operand", "list"}

Derived(rule, by, d, span, what) ==
    CASE what = "expr" -> Expression(rule, by, d, span[1], span[2])
      [] what = "operand" -> Operand(rule, by, d, span[1], span[2])
      [] what = "list" -> List(rule, by, d, span[1], span[2])

Derives(rule, by) ==
    LET d[span \in (1..Len(rule) + 1) \X (1..Len(rule) + 1)] ==
            [what \in Symbols |-> Derived(rule, by, d, span, what)]
    IN  d

Documented(rule) == Derives(rule, "comment")[<<1, Len(rule) + 1>>]["expr"]
Readable(rule) == Derives(rule, "parser")[<<1, Len(rule) + 1>>]["expr"]

\* Nothing in the rule is read otherwise than the comment says: no parenthesis
\* where an expression begins, and in brackets, or after a comma, a literal.
Plain(rule) ==
    \A i \in DOMAIN rule :
        /\ rule[i] = "(" => i # 1 /\ rule[i - 1] # "("
        /\ rule[i] \in {"[", "comma"} => i + 1 \in DOMAIN rule /\ rule[i + 1] \in Literals

\* What the enforcer holds is empty or readable as a whole: one comparison, and
\* one more in each pair of parentheses, of attributes the request has, with no
\* Boolean combinator and nothing after it; and it is none of the listed constant
\* truths.  Nothing else is refused.  A rule that is plain is stored exactly when
\* it is a rule of the documented grammar and not on the list.
StoredAsDocumented ==
    verdict # "none" =>
        LET listed == usual /\ draft = <<"1", "==", "1">>
        IN  /\ (verdict = "stored") <=> (draft = <<>> \/ (Readable(draft) /\ ~listed))
            /\ Plain(draft) => ((verdict = "stored") <=> (draft = <<>> \/ (Documented(draft) /\ ~listed)))
=============================================================================
