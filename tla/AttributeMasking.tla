-------------------------- MODULE AttributeMasking --------------------------
(***************************************************************************)
(* Data masking: loadConfigFromJson, which reads the masking file by       *)
(* searching its text, and applyMasking, which masks the fields of a       *)
(* document by the rules read.                                             *)
(*                                                                         *)
(* A file is the sequence of its collections with their rules; the text    *)
(* searched is the order in which keys, names, paths, types and roles      *)
(* occur in it, with the members of a rule in the order path, type, roles. *)
(* A value is a sequence of classes of characters.                         *)
(***************************************************************************)
EXTENDS Naturals, Sequences, SequencesExt, FiniteSets, FiniteSetsExt

CONSTANTS
  Names,        \* collection names
  RuleChoices,  \* rules: path and type, which are not empty, and roles
  KeptDigits,   \* digits that phone and creditCard masks keep (4 in the code)
  MaxLength,    \* bound: characters of a value
  MaxConfigs    \* bound: configurations read from a file of two collections

VARIABLES
  file,         \* the masking file
  cursor,       \* the collection of the file that is parsed next
  configs       \* CollectionMaskingConfigs read so far

maskVars == <<file, cursor, configs>>

RuleLists == BoundedSeq(RuleChoices, 2)
Collections ==
  [name : Names, hasRules : {TRUE}, rules : RuleLists]
    \cup [name : Names, hasRules : {FALSE}, rules : {<<>>}]
Files == [1..2 -> Collections]

Init ==
  /\ file \in Files
  /\ cursor = 1 /\ configs = <<>>

(***************************************************************************)
(* loadConfigFromJson.                                                     *)
(***************************************************************************)

(* "type" is searched for in the whole rule: a path of that name is taken  *)
(* for the key, and the string after it, the key, for the type.            *)
RuleRead(rule) == IF rule.path = "type" THEN [rule EXCEPT !.type = "type"] ELSE rule

RulesRead(rules) == [n \in DOMAIN rules |-> RuleRead(rules[n])]

(* Mutated: "rules" is searched for from the start of the file. *)
RulesFromStart(i) ==
  LET with == {k \in 1..Len(file) : i > 0 /\ file[k].hasRules} IN
  IF with = {} THEN <<>> ELSE RulesRead(file[Min(with)].rules)

(* "rules" is searched for from collection i on. *)
RulesFound(i) ==
  LET with == {k \in i..Len(file) : file[k].hasRules} IN
  IF with = {} THEN <<>> ELSE RulesRead(file[Min(with)].rules)

(* The strings of a rule, keys and values. *)
Strings(rule) ==
  {"path", rule.path, "type", rule.type}
    \cup (IF rule.roles = {} THEN {} ELSE {"roles"} \cup rule.roles)

(* Where string s occurs: <<k, 0>> as the name of collection k, <<k, 1>> as *)
(* the key "rules" in it, or <<k, r + 1>> in its rule r; places are         *)
(* compared as numbers.                                                     *)
Places(s) ==
  {<<k, 0>> : k \in {k \in 1..Len(file) : file[k].name = s}} \cup
  {<<k, 1>> : k \in {k \in 1..Len(file) : file[k].hasRules /\ s = "rules"}} \cup
  {p \in (1..Len(file)) \X (2..3) :
     p[2] - 1 <= Len(file[p[1]].rules) /\ s \in Strings(file[p[1]].rules[p[2] - 1])}

FirstPlace(s) ==
  CHOOSE p \in Places(s) : \A q \in Places(s) : p[1] < q[1] \/ (p[1] = q[1] /\ p[2] <= q[2])

(* Parsing goes on behind the object that starts after the first place of  *)
(* the collection's name; behind a rule there is no collection to parse.   *)
Resume(i) ==
  LET p == FirstPlace(file[i].name) IN
  CASE p[2] = 0 -> p[1] + 1
    [] p[2] \in 1..Len(file[p[1]].rules) -> Len(file) + 1
    [] OTHER -> p[1] + 2

ParseCollection ==
  /\ cursor <= Len(file) /\ Len(configs) < MaxConfigs
  /\ configs' = Append(configs, [name |-> file[cursor].name, rules |-> RulesFound(cursor)])
  /\ cursor' = Resume(cursor)
  /\ UNCHANGED file

Next == ParseCollection

Spec == Init /\ [][Next]_maskVars

(***************************************************************************)
(* The masks.                                                              *)
(***************************************************************************)

Classes == {"digit", "separator", "space", "other", "x"}

XifyFront(value) == [i \in DOMAIN value |-> IF value[i] = "space" THEN "space" ELSE "x"]

Digits(value) == {i \in DOMAIN value : value[i] = "digit"}

(* All digits but the last ones. *)
DigitsToMask(value) ==
  {i \in Digits(value) : Cardinality({j \in Digits(value) : j > i}) >= KeptDigits}

CreditCard(value) == [i \in DOMAIN value |-> IF i \in DigitsToMask(value) THEN "x" ELSE value[i]]

Phone(value) ==
  [i \in DOMAIN value |->
     IF i \in DigitsToMask(value) \/ value[i] \in {"other", "x"} THEN "x" ELSE value[i]]

(* A type that is not registered masks nothing. *)
Mask(type, value) ==
  CASE type = "xifyFront" -> XifyFront(value)
    [] type = "creditCard" -> CreditCard(value)
    [] type = "phone" -> Phone(value)
    [] OTHER -> value

AppliesToRole(rule, role) == rule.roles = {} \/ role \in rule.roles

Applies(rule, role, path) == AppliesToRole(rule, role) /\ rule.path = path

(* The rules in their order. *)
MaskedBy(rules, role, path, value) ==
  LET masked[n \in 0..Len(rules)] ==
        IF n = 0 THEN value
        ELSE IF Applies(rules[n], role, path) THEN Mask(rules[n].type, masked[n - 1])
        ELSE masked[n - 1]
  IN  masked[Len(rules)]

(* All configurations of the collection. *)
ApplyMasking(collection, role, path, value) ==
  LET masked[n \in 0..Len(configs)] ==
        IF n = 0 THEN value
        ELSE IF configs[n].name = collection THEN MaskedBy(configs[n].rules, role, path, masked[n - 1])
        ELSE masked[n - 1]
  IN  masked[Len(configs)]

-----------------------------------------------------------------------------
(* No collection's name occurs before it, as a name, a key or in a rule,   *)
(* every collection has rules, and no path is "type": other files are not  *)
(* read as they stand.                                                     *)
ReadableFile ==
  \A i \in DOMAIN file :
    /\ FirstPlace(file[i].name) = <<i, 0>> /\ file[i].hasRules
    /\ \A n \in DOMAIN file[i].rules : file[i].rules[n].path # "type"

Registered == {"xifyFront", "creditCard", "phone"}
Values == BoundedSeq({"digit", "separator", "other"}, MaxLength)

(* What the file asks to be masked is masked when it is read: of a field   *)
(* with a rule for the role, of a registered type, at most the last digits *)
(* are left, in any order of rules; and fields without a rule are as they  *)
(* were.                                                                   *)
MaskedAsDeclared ==
  cursor > Len(file) /\ ReadableFile =>
    \A i \in DOMAIN file, role \in {"viewer", "admin"}, path \in {r.path : r \in RuleChoices},
       value \in Values :
      LET rules == {r \in Range(file[i].rules) :
                      Applies(r, role, path) /\ r.type \in Registered}
          masked == ApplyMasking(file[i].name, role, path, value)
      IN  /\ rules # {} =>
               Digits(masked) \subseteq Digits(value) \ DigitsToMask(value)
          /\ rules = {} => masked = value
=============================================================================
