------------------------ MODULE MCEnterpriseServices ------------------------
(***************************************************************************)
(* The services on small instances.                                        *)
(***************************************************************************)
EXTENDS EnterpriseServices

(* Three documents in two segments, by turns. *)
MCDocs == 1..3
MCSegmentOf == [d \in 1..3 |-> d % 2]

(* Registered and unregistered types, a rule for one role, paths and roles *)
(* that are names of collections, and a path that is a key of the rules.   *)
MCNames == {"users", "cards"}
MCRuleChoices ==
  {[path |-> "phone", type |-> "phone", roles |-> {}],
   [path |-> "phone", type |-> "creditCard", roles |-> {"viewer"}],
   [path |-> "cards", type |-> "xifyFront", roles |-> {}],
   [path |-> "type", type |-> "xifyFront", roles |-> {}],
   [path |-> "cards", type |-> "xifyfront", roles |-> {"users"}]}

(* Keys with and without ':', and attribute values that may contain one.   *)
MCGraphCollections == {"users", "cities"}
MCGraphKeys == {<<"a">>, <<"a", "x">>, <<"b", "x">>}
MCAttributes == {<<"">>, <<"a">>, <<"b">>, <<"a", "x">>}
MCHash == [p \in {"a", "b", ""} |-> IF p = "a" THEN 1 ELSE 0]
=============================================================================
