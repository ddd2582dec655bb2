----------------------------- MODULE MacroNames -----------------------------
(***************************************************************************)
(* The names that the service macro of zrpc-derive/src/lib.rs makes up,    *)
(* and the items its expansion declares under them.                        *)
(*                                                                         *)
(* A name is a sequence of characters; "Request", "Server" and the other   *)
(* suffixes that format_ident! appends count as one character each, and so *)
(* does the r# of a raw identifier.                                        *)
(***************************************************************************)
EXTENDS Integers, SequencesExt

CONSTANTS
  Lower,    \* the letters of method names,
  UpperOf,  \* their upper case,
  Digit,    \* and the digits
  OwnFns,   \* functions of every generated client: builder, find_server, ...
  ArcFns    \* methods that an Arc has itself, such as clone

Upper == {UpperOf[ch] : ch \in Lower}

\* What else is a character: the marks of an identifier, and the suffixes.
Mark == {"_", "r#", "R#"}
Suffix == {"Request", "Response", "Server", "Client", "Builder"}

ASSUME NamesAssumption ==
  /\ UpperOf \in [Lower -> Upper]
  /\ \A ch, di \in Lower : UpperOf[ch] = UpperOf[di] => ch = di
  /\ Lower \cap Upper = {} /\ Digit \cap (Lower \cup Upper) = {}
  /\ (Lower \cup Upper \cup Digit) \cap (Mark \cup Suffix) = {}

\* The names that users write.
Ident == Seq(Lower \cup Upper \cup Digit \cup Mark \cup Suffix) \ {<<>>}

ToUpper(ch) == IF ch \in Lower THEN UpperOf[ch] ELSE IF ch = "r#" THEN "R#" ELSE ch

ToLower(ch) == IF ch \in Upper THEN CHOOSE lo \in Lower : UpperOf[lo] = ch ELSE ch

\* A conversion that only removes the underscores after the first word.
CamelStep_FirstWord(acc, ch) ==
  IF ch = "_" THEN acc
  ELSE [camel |-> Append(acc.camel, IF acc.start THEN ToUpper(ch) ELSE ToLower(ch)),
        start |-> FALSE]

\* The loop body: start is last_char_was_underscore.
CamelStep(acc, ch) ==
  IF ch = "_" THEN [camel |-> acc.camel, start |-> TRUE]
  ELSE [camel |-> Append(acc.camel, IF acc.start THEN ToUpper(ch) ELSE ToLower(ch)),
        start |-> FALSE]

\* The loop, after each number of characters.
CamelAfter(ident) ==
  LET after[n \in 0 .. Len(ident)] ==
        IF n = 0 THEN [camel |-> <<>>, start |-> TRUE] ELSE CamelStep(after[n - 1], ident[n])
  IN  after

SnakeToCamel(ident) == CamelAfter(ident)[Len(ident)].camel

RequestIdent(ident) == Append(SnakeToCamel(ident), "Request")
ResponseIdent(ident) == Append(SnakeToCamel(ident), "Response")

\* format_ident! panics on a text that is no identifier.
Formats(name) == Head(name) \notin Digit \cup {"R#"}

-----------------------------------------------------------------------------
(* The expansion of a trait.  Its methods have an ident and args, the typed *)
(* arguments that became the fields of the request.  An item is declared in *)
(* a scope, under a name, by a part of the expansion; trait t of the module *)
(* and method i number them.                                                *)

Item(scope, name, part) == [scope |-> scope, name |-> name, part |-> part]
ModuleItem(t, i, name, kind) == Item(<<"module">>, name, <<t, i, kind>>)

TraitService(t, trait) ==
  {ModuleItem(t, 0, trait.ident, "trait")}
  \cup {Item(<<"trait", t>>, trait.methods[i].ident, <<t, i, "fn">>) : i \in DOMAIN trait.methods}

StructServer(t, trait) == {ModuleItem(t, 0, Append(trait.ident, "Server"), "server")}

DeriveRequests(t, trait) ==
  UNION {LET m == trait.methods[i]
         IN  {ModuleItem(t, i, RequestIdent(m.ident), "request")}
             \cup {Item(<<"fields", t, i>>, m.args[k].name, <<t, i, k>>) : k \in DOMAIN m.args}
         : i \in DOMAIN trait.methods}

DeriveResponses(t, trait) ==
  {ModuleItem(t, i, ResponseIdent(trait.methods[i].ident), "response") : i \in DOMAIN trait.methods}

ImplClient(t, trait) ==
  {ModuleItem(t, 0, Append(trait.ident, "Client"), "client"),
   ModuleItem(t, 0, trait.ident \o <<"Client", "Builder">>, "builder")}
  \cup {Item(<<"client", t>>, name, <<t, 0, "own">>) : name \in OwnFns}
  \cup {Item(<<"client", t>>, trait.methods[i].ident, <<t, i, "fn">>) : i \in DOMAIN trait.methods}

\* ServiceGenerator::to_tokens.
Items(t, trait) ==
  TraitService(t, trait) \cup StructServer(t, trait) \cup DeriveRequests(t, trait)
  \cup DeriveResponses(t, trait) \cup ImplClient(t, trait)

\* Generated arms that match on the name of the request type.
Arms_Camel(trait) ==
  [i \in DOMAIN trait.methods |->
     LET ident == trait.methods[i].ident
     IN  [pattern |-> SnakeToCamel(ident), decodes |-> RequestIdent(ident), calls |-> ident]]

\* The arms of the generated Service::call: each decodes the request type it
\* names and calls self.inner.<method>.
Arms(trait) ==
  [i \in DOMAIN trait.methods |->
     LET ident == trait.methods[i].ident
     IN  [pattern |-> ident, decodes |-> RequestIdent(ident), calls |-> ident]]

\* What the generated client method sends: the method string and the request.
Sends(trait, i) ==
  LET ident == trait.methods[i].ident IN [method |-> ident, request |-> RequestIdent(ident)]

\* Every name that is made up can be made up.
AllFormat(trait) == \A i \in DOMAIN trait.methods : Formats(RequestIdent(trait.methods[i].ident))

\* The expansions of traits side by side.
Expansion(traits) == UNION {Items(t, traits[t]) : t \in DOMAIN traits}

DeclaredOnce(items) == \A x, y \in items : x.scope = y.scope /\ x.name = y.name => x = y

\* The compiler accepts the expansion of these traits, side by side in one
\* module: names are declared once, fields are not "mut", the Response::new of
\* derive_responses means the one of zrpc, and self.inner.<method>, on an Arc,
\* means the method of the user's type.
Compiles(traits) ==
  /\ DeclaredOnce(Expansion(traits))
  /\ ~ \E x \in Expansion(traits) : x.scope = <<"module">> /\ x.name = <<"Response">>
  /\ \A t \in DOMAIN traits : \A m \in Range(traits[t].methods) :
       /\ m.ident \notin ArcFns
       /\ \A k \in DOMAIN m.args : m.args[k].kind = "ident"

\* A name as rustc's lint wants it: lower case words, joined by single
\* underscores, of which each starts with a letter.
Conventional(ident) ==
  /\ ident # <<>>
  /\ Range(ident) \subseteq Lower \cup Digit \cup {"_"}
  /\ ident[1] \in Lower
  /\ \A n \in DOMAIN ident : ident[n] = "_" => n < Len(ident) /\ ident[n + 1] \in Lower
=============================================================================
