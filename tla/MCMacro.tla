------------------------------ MODULE MCMacro ------------------------------
(* Instances of ServiceMacro for TLC: the modules that users write. *)
EXTENDS ServiceMacro

MCUpperOf == [ch \in Lower |-> IF ch = "a" THEN "A" ELSE "B"]
MCOwnFns == {<<"b", "a">>}
MCArcFns == {<<"b", "b">>}

\* Identifiers of up to n of these characters; "_" alone is none.
MCIdents(n) ==
  {s \in UNION {[1 .. l -> {"a", "b", "A", "1", "_"}] : l \in 1 .. n} :
     s[1] # "1" /\ s # <<"_">>}

MCArg(kind, name) == [kind |-> kind, name |-> name]
MCSelf == <<MCArg("ref", <<"self">>)>>
MCMethod(ident, argseq) == [ident |-> ident, args |-> argseq]
MCTrait(ident, methodseq) == [attr |-> "timeout_s", ident |-> ident, methods |-> methodseq]

\* Traits of two methods of any names; of three methods of short ones; of a raw
\* name; traits named like what is generated; two traits in one module.
MCNames ==
  {<<MCTrait(<<"A">>, <<MCMethod(x, MCSelf), MCMethod(y, MCSelf)>>)>> :
     x \in MCIdents(3), y \in MCIdents(2) \cup {<<"a", "_", "b">>}}
  \cup {<<MCTrait(<<"A">>, <<MCMethod(x, MCSelf), MCMethod(<<"a">>, MCSelf)>>)>> :
     x \in MCIdents(4) \cup {<<"r#", "a">>}}
  \cup {<<MCTrait(name, <<MCMethod(x, MCSelf)>>)>> :
     name \in {<<"A", "Request">>, <<"A", "Client">>, <<"Response">>}, x \in MCIdents(2)}
  \cup {<<MCTrait(<<"A">>, <<MCMethod(x, MCSelf)>>), MCTrait(<<"B">>, <<MCMethod(y, MCSelf)>>)>> :
     x \in MCIdents(2), y \in MCIdents(2)}

\* Argument lists of up to n arguments of every kind; two fields share a name.
MCArgs(n) ==
  {[j \in DOMAIN kinds |-> MCArg(kinds[j], IF j < 3 THEN <<"x">> ELSE <<"y">>)] :
     kinds \in UNION {[1 .. l -> ArgKind] : l \in 0 .. n}}

\* A trait of one method with up to three arguments, or of two with up to two
\* each, and every outcome of reading the attribute.
MCSignatures ==
  {<<MCTrait(<<"A">>, <<MCMethod(<<"a">>, x)>>)>> : x \in MCArgs(3)}
  \cup {<<MCTrait(<<"A">>, <<MCMethod(<<"a">>, x), MCMethod(<<"b">>, y)>>)>> :
     x \in MCArgs(2), y \in MCArgs(2)}
  \cup {<<[attr |-> attr, ident |-> <<"A">>, methods |-> <<MCMethod(<<"a">>, MCSelf)>>]>> :
     attr \in {"missing", "unreadable"}}

MCSources == MCNames \cup MCSignatures
=============================================================================
