---------------------------- MODULE ServiceMacro ----------------------------
(***************************************************************************)
(* The service macro of zrpc-derive at work on the traits of a module, one *)
(* after the other: Service::parse and RPCMethod::parse read the trait,    *)
(* then the attribute's arguments are read, then the expansion is put      *)
(* together (MacroNames).                                                  *)
(*                                                                         *)
(* Arguments of a method are of these kinds: "ident" (x: T), "mutident"    *)
(* (mut x: T, which syn also calls Pat::Ident), "pattern" (any other typed *)
(* one), and the receivers "ref" (&self), "refmut" (&mut self), "value"    *)
(* (self) and "typed" (self: T).                                           *)
(***************************************************************************)
EXTENDS MacroNames

CONSTANT Sources  \* what users write: sequences of [attr, ident, methods]

Receivers == {"ref", "refmut", "value", "typed"}
ArgKind == {"ident", "mutident", "pattern"} \cup Receivers

ASSUME SourcesAssumption ==
  \A src \in Sources :
    /\ DOMAIN src = 1 .. Len(src) /\ Len(src) \in Nat
    /\ \A t \in DOMAIN src :
         /\ src[t].attr \in {"timeout_s", "missing", "unreadable"}
         /\ src[t].ident \in Ident
         /\ DOMAIN src[t].methods = 1 .. Len(src[t].methods) /\ Len(src[t].methods) \in Nat
         /\ \A i \in DOMAIN src[t].methods : src[t].methods[i].ident \in Ident
         /\ \A i \in DOMAIN src[t].methods :
              LET args == src[t].methods[i].args
              IN  /\ DOMAIN args = 1 .. Len(args) /\ Len(args) \in Nat
                  /\ \A k \in DOMAIN args : args[k].kind \in ArgKind

VARIABLES
  source,    \* the module as it is written
  stage,     \* how far the macro is with the current trait
  t, i, k,   \* the current trait, method and argument
  recv,      \* RPCMethod::parse: recv, "none" before one was seen
  args,      \* the arguments captured
  errors,    \* where it has an error to report; 0 is a missing receiver
  methods,   \* Service::parse: the methods parsed
  expanded   \* the traits that have been expanded

macroVars == <<source, stage, t, i, k, recv, args, errors, methods, expanded>>

Init ==
  /\ source \in Sources
  /\ stage = "trait"
  /\ t = 1 /\ i = 0 /\ k = 0
  /\ recv = "none" /\ args = <<>> /\ errors = {} /\ methods = <<>> /\ expanded = <<>>

Method == source[t].methods[i]
Arg == Method.args[k]

-----------------------------------------------------------------------------
(* Service::parse and RPCMethod::parse.                                    *)

\* A RPCMethod::parse that keeps the arguments of the previous method.
StartMethod_KeepArgs ==
  /\ stage = "trait"
  /\ t <= Len(source)
  /\ i < Len(source[t].methods)
  /\ stage' = "args"
  /\ i' = i + 1
  /\ k' = 1
  /\ recv' = "none"
  /\ UNCHANGED <<source, t, args, errors, methods, expanded>>

StartMethod ==
  /\ stage = "trait"
  /\ t <= Len(source)
  /\ i < Len(source[t].methods)
  /\ stage' = "args"
  /\ i' = i + 1
  /\ k' = 1
  /\ recv' = "none" /\ args' = <<>> /\ errors' = {}
  /\ UNCHANGED <<source, t, methods, expanded>>

InArgs == stage = "args" /\ k <= Len(Method.args)

TypedArg ==
  /\ InArgs
  /\ Arg.kind \in {"ident", "mutident"}
  /\ args' = Append(args, Arg)
  /\ k' = k + 1
  /\ UNCHANGED <<source, stage, t, i, recv, errors, methods, expanded>>

\* An extend_errors! that forgets what was reported before.
PatternArg_LastOnly ==
  /\ InArgs
  /\ Arg.kind = "pattern"
  /\ errors' = {k}
  /\ k' = k + 1
  /\ UNCHANGED <<source, stage, t, i, recv, args, methods, expanded>>

PatternArg ==
  /\ InArgs
  /\ Arg.kind = "pattern"
  /\ errors' = errors \cup {k}
  /\ k' = k + 1
  /\ UNCHANGED <<source, stage, t, i, recv, args, methods, expanded>>

\* Of several receivers the last one stays.
ReceiverArg ==
  /\ InArgs
  /\ Arg.kind \in Receivers
  /\ errors' = IF Arg.kind \in {"ref", "refmut"} THEN errors ELSE errors \cup {k}
  /\ recv' = Arg.kind
  /\ k' = k + 1
  /\ UNCHANGED <<source, stage, t, i, args, methods, expanded>>

\* A method that may do without a receiver.
MethodErrors_NoReceiver == errors

MethodErrors == IF recv = "none" THEN errors \cup {0} ELSE errors

\* "errors?": the first method with errors ends the macro.
RejectMethod ==
  /\ stage = "args" /\ k > Len(Method.args)
  /\ MethodErrors # {}
  /\ stage' = "rejected"
  /\ errors' = MethodErrors
  /\ UNCHANGED <<source, t, i, k, recv, args, methods, expanded>>

AcceptMethod ==
  /\ stage = "args" /\ k > Len(Method.args)
  /\ MethodErrors = {}
  /\ stage' = "trait"
  /\ methods' = Append(methods, [ident |-> Method.ident, args |-> args])
  /\ UNCHANGED <<source, t, i, k, recv, args, errors, expanded>>

-----------------------------------------------------------------------------
(* fn service, once the trait is parsed.                                   *)

TraitParsed == stage = "trait" /\ t <= Len(source) /\ i = Len(source[t].methods)

\* NestedMeta::parse_meta_list fails: expect() panics.
AttributePanics ==
  /\ TraitParsed
  /\ source[t].attr = "unreadable"
  /\ stage' = "panicked"
  /\ UNCHANGED <<source, t, i, k, recv, args, errors, methods, expanded>>

\* ServiceMacroArgs::from_list fails: its errors are the expansion.
AttributeRejected ==
  /\ TraitParsed
  /\ source[t].attr = "missing"
  /\ stage' = "rejected"
  /\ UNCHANGED <<source, t, i, k, recv, args, errors, methods, expanded>>

Parsed == [ident |-> source[t].ident, methods |-> methods]

\* A format_ident! of the generator panics.
NamePanics ==
  /\ TraitParsed
  /\ source[t].attr = "timeout_s"
  /\ ~AllFormat(Parsed)
  /\ stage' = "panicked"
  /\ UNCHANGED <<source, t, i, k, recv, args, errors, methods, expanded>>

\* ServiceGenerator{..}.into_token_stream(); the next trait is a macro call of
\* its own.
Generate ==
  /\ TraitParsed
  /\ source[t].attr = "timeout_s"
  /\ AllFormat(Parsed)
  /\ expanded' = Append(expanded, Parsed)
  /\ t' = t + 1
  /\ i' = 0 /\ methods' = <<>>
  /\ UNCHANGED <<source, stage, k, recv, args, errors>>

Next ==
  \/ StartMethod
  \/ TypedArg
  \/ PatternArg
  \/ ReceiverArg
  \/ RejectMethod
  \/ AcceptMethod
  \/ AttributePanics
  \/ AttributeRejected
  \/ NamePanics
  \/ Generate

Spec == Init /\ [][Next]_macroVars

-----------------------------------------------------------------------------
\* What is wrong with a method, as far as its arguments before n go.
Offending(method, n) ==
  {j \in DOMAIN method.args : j < n /\ method.args[j].kind \in {"pattern", "value", "typed"}}

HasReceiver(method) == \E j \in DOMAIN method.args : method.args[j].kind \in Receivers

Wellformed(method) == Offending(method, Len(method.args) + 1) = {} /\ HasReceiver(method)

\* Every mistake of a method is reported at once: when the macro gives up on a
\* method, it names each offending argument and a missing receiver.
AllReported ==
  stage = "rejected" /\ i > 0 /\ ~Wellformed(Method) =>
    errors = Offending(Method, Len(Method.args) + 1)
             \cup (IF HasReceiver(Method) THEN {} ELSE {0})

\* Only traits of wellformed methods are expanded, and a macro that reports
\* errors has found one: in a method, or in the attribute.
AcceptedIsWellformed ==
  /\ \A s \in DOMAIN expanded : \A j \in DOMAIN source[s].methods : Wellformed(source[s].methods[j])
  /\ stage = "rejected" => source[t].attr = "missing" \/ ~Wellformed(Method)

\* Fields are what is given at these positions, in that order.
Selects(fields, given, positions) ==
  \E at \in [DOMAIN fields -> positions] :
    /\ \A m, n \in DOMAIN fields : m < n => at[m] < at[n]
    /\ \A p \in positions : \E n \in DOMAIN fields : at[n] = p
    /\ \A n \in DOMAIN fields : fields[n] = given[at[n]]

TypedArgs(method) == {j \in DOMAIN method.args : method.args[j].kind \notin Receivers}

\* Of a method the name is kept, and the fields of its request are its typed
\* arguments.
TakenOver(method, given) ==
  method.ident = given.ident /\ Selects(method.args, given.args, TypedArgs(given))

\* The expansion of each trait has its name and its methods in their order, and
\* the fields of a request are the typed arguments of its method, in theirs.
ExpandedAsWritten ==
  \A s \in DOMAIN expanded :
    /\ expanded[s].ident = source[s].ident
    /\ Len(expanded[s].methods) = Len(source[s].methods)
    /\ \A j \in DOMAIN expanded[s].methods :
         TakenOver(expanded[s].methods[j], source[s].methods[j])

\* A method that follows the rules: its name is conventional and not taken, and
\* its arguments have names of their own.
MethodFollows(method) ==
  /\ Conventional(method.ident)
  /\ method.ident \notin OwnFns \cup ArcFns
  /\ \A j \in DOMAIN method.args : method.args[j].kind # "mutident"
  /\ \A j, l \in DOMAIN method.args : method.args[j].name = method.args[l].name => j = l

\* A module that follows them: one trait, whose name does not end like that of a
\* message, of methods that follow the rules and have different names.
FollowsRules ==
  /\ Len(source) = 1
  /\ Last(source[1].ident) \notin {"Request", "Response"}
  /\ \A j \in DOMAIN source[1].methods : MethodFollows(source[1].methods[j])
  /\ \A j, l \in DOMAIN source[1].methods :
       source[1].methods[j].ident = source[1].methods[l].ident => j = l

\* Done with the whole module.
Finished == t > Len(source)

\* The expansion of a trait that follows the rules compiles, whatever its
\* methods are called: no two of them end up with one request type, and no
\* format_ident! panics.
RulesSuffice ==
  FollowsRules =>
    /\ Finished => Compiles(expanded)
    /\ stage = "panicked" => source[t].attr = "unreadable"

\* Whenever the expansion compiles, a call of a generated client reaches, among
\* the arms of Service::call, the one that decodes the type the client encoded
\* and runs the method the user called.
DispatchRight ==
  Finished /\ Compiles(expanded) =>
    \A s \in DOMAIN expanded : \A j \in DOMAIN expanded[s].methods :
      LET sent == Sends(expanded[s], j)
          n == SelectInSeq(Arms(expanded[s]), LAMBDA arm : arm.pattern = sent.method)
      IN  /\ n > 0
          /\ Arms(expanded[s])[n].decodes = sent.request
          /\ Arms(expanded[s])[n].calls = expanded[s].methods[j].ident
=============================================================================
