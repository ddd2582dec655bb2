---------------------------- MODULE MacroProofs ----------------------------
(***************************************************************************)
(* Theorems about ServiceMacro, for traits of any number of methods with   *)
(* any names and any number of arguments: what the macro reports, what it  *)
(* accepts, what it expands, that calls of the expansion reach their       *)
(* methods, and that the expansion of a trait that follows the rules       *)
(* compiles.                                                               *)
(***************************************************************************)
EXTENDS ServiceMacro, TLAPS, SequenceTheorems, WellFoundedInduction

MethodsUpTo(s, n) == \A j \in 1 .. n : Wellformed(source[s].methods[j])

\* The errors and the receiver are those of the arguments read so far.
ReadSoFar ==
  /\ i \in 1 .. Len(source[t].methods)
  /\ k \in 1 .. Len(Method.args) + 1
  /\ errors = Offending(Method, k)
  /\ recv # "none" <=> \E j \in 1 .. k - 1 : Method.args[j].kind \in Receivers
  /\ MethodsUpTo(t, i - 1)

Given == source \in Sources

\* Where the macro is.
Positions ==
  /\ t \in Nat \ {0} /\ t - 1 <= Len(source)
  /\ i \in Nat
  /\ stage \in {"trait", "args", "rejected", "panicked"}
  /\ stage # "trait" => t <= Len(source)
  /\ Len(expanded) = t - 1 /\ DOMAIN expanded = 1 .. t - 1

\* The methods and the traits that it is done with are wellformed.
MethodsRead ==
  stage = "trait" /\ t <= Len(source) => i <= Len(source[t].methods) /\ MethodsUpTo(t, i)
TraitsRead == \A s \in 1 .. t - 1 : MethodsUpTo(s, Len(source[s].methods))

RejectedFor == stage = "rejected" => source[t].attr = "missing" \/ ~Wellformed(Method)

MacroInv ==
  /\ Given
  /\ Positions
  /\ MethodsRead
  /\ stage = "args" => ReadSoFar
  /\ TraitsRead
  /\ AllReported
  /\ RejectedFor

\* What SourcesAssumption says of the trait and the method at hand.
LEMMA SourceShape ==
  ASSUME Given, NEW s \in 1 .. Len(source)
  PROVE  /\ Len(source) \in Nat /\ DOMAIN source = 1 .. Len(source)
         /\ Len(source[s].methods) \in Nat
         /\ DOMAIN source[s].methods = 1 .. Len(source[s].methods)
         /\ \A j \in 1 .. Len(source[s].methods) :
              /\ Len(source[s].methods[j].args) \in Nat
              /\ DOMAIN source[s].methods[j].args = 1 .. Len(source[s].methods[j].args)
              /\ \A n \in 1 .. Len(source[s].methods[j].args) :
                   source[s].methods[j].args[n].kind \in ArgKind
  BY SourcesAssumption DEF Given

\* The number of traits is a number.
LEMMA SourceLength == ASSUME Given PROVE Len(source) \in Nat /\ DOMAIN source = 1 .. Len(source)
  BY SourcesAssumption DEF Given

LEMMA MacroInit == Init => MacroInv
<1> SUFFICES ASSUME Init PROVE MacroInv
  OBVIOUS
<1>1. Given
  BY DEF Init, Given
<1>2. Len(source) \in Nat
  BY <1>1, SourceLength
<1>3. t <= Len(source) => Len(source[t].methods) \in Nat
  BY <1>1, <1>2, SourceShape DEF Init
<1>4. Positions
  BY <1>2 DEF Init, Positions
<1>5. MethodsRead /\ TraitsRead
  BY <1>3 DEF Init, MethodsRead, TraitsRead, MethodsUpTo
<1> QED BY <1>1, <1>4, <1>5 DEF Init, MacroInv, AllReported, RejectedFor

\* One more argument read: the errors and the receiver follow.
LEMMA ArgumentRead ==
  ASSUME MacroInv, InArgs, stage' = stage, source' = source, t' = t, i' = i, k' = k + 1,
         methods' = methods, expanded' = expanded,
         errors' = IF Arg.kind \in {"pattern", "value", "typed"} THEN errors \cup {k} ELSE errors,
         recv' = IF Arg.kind \in Receivers THEN Arg.kind ELSE recv
  PROVE  MacroInv'
<1>1. Given /\ stage = "args" /\ t \in 1 .. Len(source) /\ ReadSoFar
  BY SourceLength DEF MacroInv, InArgs, Positions
<1>2. /\ Len(Method.args) \in Nat
      /\ DOMAIN Method.args = 1 .. Len(Method.args)
  BY <1>1, SourceShape DEF Method, ReadSoFar
<1>3. Method' = Method /\ k \in 1 .. Len(Method.args)
  BY <1>1, <1>2 DEF Method, InArgs, ReadSoFar
<1>4. Offending(Method, k + 1) =
        IF Arg.kind \in {"pattern", "value", "typed"} THEN Offending(Method, k) \cup {k}
        ELSE Offending(Method, k)
  BY <1>2, <1>3 DEF Offending, Arg
<1>5. errors' = Offending(Method, k')
  BY <1>1, <1>4 DEF ReadSoFar
<1>6. (\E j \in 1 .. k' - 1 : Method.args[j].kind \in Receivers)
      <=> Arg.kind \in Receivers \/ \E j \in 1 .. k - 1 : Method.args[j].kind \in Receivers
  BY <1>3, <1>2 DEF Arg
<1>7. recv' # "none" <=> \E j \in 1 .. k' - 1 : Method.args[j].kind \in Receivers
  BY <1>1, <1>6 DEF ReadSoFar, Receivers
<1>8. k' \in 1 .. Len(Method.args) + 1
  BY <1>2, <1>3
<1>9. ReadSoFar'
  BY <1>1, <1>3, <1>5, <1>7, <1>8 DEF ReadSoFar, MethodsUpTo, Offending, Wellformed, HasReceiver
<1>10. Given' /\ Positions' /\ TraitsRead'
  BY DEF MacroInv, Given, Positions, TraitsRead, MethodsUpTo, Wellformed, Offending, HasReceiver
<1> QED BY <1>1, <1>9, <1>10 DEF MacroInv, MethodsRead, AllReported, RejectedFor

\* At the end of a method MethodErrors is empty exactly if it is wellformed.
LEMMA MethodRead ==
  ASSUME MacroInv, stage = "args", k > Len(Method.args)
  PROVE  /\ MethodErrors = Offending(Method, Len(Method.args) + 1)
                           \cup (IF HasReceiver(Method) THEN {} ELSE {0})
         /\ MethodErrors = {} <=> Wellformed(Method)
<1>1. Given /\ t \in 1 .. Len(source) /\ ReadSoFar
  BY SourceLength DEF MacroInv, Positions
<1>2. Len(Method.args) \in Nat /\ DOMAIN Method.args = 1 .. Len(Method.args)
  BY <1>1, SourceShape DEF Method, ReadSoFar
<1>3. k = Len(Method.args) + 1
  BY <1>1, <1>2 DEF ReadSoFar
<1>4. recv # "none" <=> HasReceiver(Method)
  BY <1>1, <1>2, <1>3 DEF ReadSoFar, HasReceiver
<1>5. errors = Offending(Method, Len(Method.args) + 1)
  BY <1>1, <1>3 DEF ReadSoFar
<1> QED BY <1>4, <1>5 DEF MethodErrors, Wellformed

\* What steps that stay within a trait leave alone.
LEMMA SameTrait ==
  ASSUME MacroInv, UNCHANGED <<source, t, expanded>>
  PROVE  Given' /\ TraitsRead' /\ Len(expanded)' = t' - 1 /\ DOMAIN expanded' = 1 .. t' - 1
BY DEF MacroInv, Given, Positions, TraitsRead, MethodsUpTo, Wellformed, Offending, HasReceiver

\* The macro ends over an attribute or a name, or with nothing to do.
LEMMA SameMethods ==
  ASSUME MacroInv, UNCHANGED <<source, t, i, k, recv, errors, expanded>>,
         \/ stage' = stage
         \/ stage = "trait" /\ t <= Len(source) /\ stage' = "panicked"
         \/ /\ stage = "trait" /\ t <= Len(source) /\ stage' = "rejected"
            /\ i = Len(source[t].methods) /\ source[t].attr = "missing"
  PROVE  MacroInv'
<1>1. Method' = Method
  BY DEF Method
<1>2. Positions' /\ MethodsRead'
  BY DEF MacroInv, Positions, MethodsRead, MethodsUpTo, Wellformed, Offending, HasReceiver
<1>3. stage' = "args" => ReadSoFar'
  BY <1>1 DEF MacroInv, ReadSoFar, MethodsUpTo, Wellformed, Offending, HasReceiver
<1>4. stage' = "rejected" /\ stage = "trait" /\ i > 0 => Wellformed(Method)
  <2>1. stage' = "rejected" /\ stage = "trait" /\ i > 0 => i \in 1 .. i /\ MethodsUpTo(t, i)
    BY DEF MacroInv, Positions, MethodsRead
  <2> QED BY <2>1 DEF MethodsUpTo, Method
<1>5. AllReported' /\ RejectedFor'
  BY <1>1, <1>4 DEF MacroInv, AllReported, RejectedFor, Wellformed, Offending, HasReceiver
<1> QED BY <1>2, <1>3, <1>5, SameTrait DEF MacroInv

\* Every step of the macro keeps the invariant.
LEMMA MacroStep == MacroInv /\ [Next]_macroVars => MacroInv'
<1> SUFFICES ASSUME MacroInv, [Next]_macroVars PROVE MacroInv'
  OBVIOUS
<1> USE DEF Positions
<1>a. Given /\ Len(source) \in Nat
  BY SourceLength DEF MacroInv
<1>1. CASE StartMethod
  <2>1. t \in 1 .. Len(source) /\ Len(source[t].methods) \in Nat
    BY <1>a, <1>1, SourceShape DEF StartMethod, MacroInv
  <2>2. i' \in 1 .. Len(source[t].methods) /\ i' = i + 1 /\ MethodsUpTo(t, i)
    BY <1>1, <2>1 DEF StartMethod, MacroInv, MethodsRead
  <2>3. /\ Method' = source[t].methods[i'] /\ Len(Method'.args) \in Nat
        /\ DOMAIN Method'.args = 1 .. Len(Method'.args)
    BY <1>a, <1>1, <2>1, <2>2, SourceShape DEF StartMethod, Method
  <2>4. /\ k' = 1 /\ recv' = "none" /\ errors' = {} /\ stage' = "args"
        /\ UNCHANGED <<source, t, expanded>>
    BY <1>1 DEF StartMethod
  <2>5. errors' = Offending(Method, k)'
    BY <2>3, <2>4 DEF Offending
  <2>6. MethodsUpTo(t, i - 1)'
    <3>1. 1 .. i' - 1 = 1 .. i
      BY <2>2 DEF MacroInv
    <3> QED BY <2>2, <2>4, <3>1 DEF MethodsUpTo, Wellformed, Offending, HasReceiver
  <2>7. ReadSoFar'
    <3>1. \A n \in Nat : 1 \in 1 .. n + 1
      OBVIOUS
    <3>2. k' \in 1 .. Len(Method'.args) + 1
      BY <2>3, <2>4, <3>1, Zenon
    <3>3. 1 .. k' - 1 = {}
      BY <2>4
    <3> QED BY <2>2, <2>4, <2>5, <2>6, <3>2, <3>3 DEF ReadSoFar
  <2>8. AllReported' /\ RejectedFor' /\ MethodsRead'
    BY <2>4 DEF AllReported, RejectedFor, MethodsRead
  <2>9. Positions'
    BY <2>1, <2>2, <2>4, SameTrait DEF MacroInv
  <2> QED BY <2>4, <2>7, <2>8, <2>9, SameTrait DEF MacroInv
<1>2. CASE TypedArg
  BY <1>2, ArgumentRead DEF TypedArg, InArgs, Receivers
<1>3. CASE PatternArg
  BY <1>3, ArgumentRead DEF PatternArg, InArgs, Receivers
<1>4. CASE ReceiverArg
  BY <1>4, ArgumentRead DEF ReceiverArg, InArgs, Receivers
<1>5. CASE RejectMethod
  <2>1. /\ Method' = Method /\ ~Wellformed(Method)
        /\ errors' = Offending(Method, Len(Method.args) + 1)
                     \cup (IF HasReceiver(Method) THEN {} ELSE {0})
    BY <1>5, MethodRead DEF RejectMethod, Method
  <2>2. stage' = "rejected" /\ UNCHANGED <<source, t, i, expanded>>
    BY <1>5 DEF RejectMethod
  <2>3. AllReported' /\ RejectedFor' /\ MethodsRead'
    BY <2>1, <2>2 DEF AllReported, RejectedFor, MethodsRead, Wellformed, Offending, HasReceiver
  <2>4. Positions'
    BY <1>5, <2>2 DEF MacroInv, RejectMethod
  <2> QED BY <2>2, <2>3, <2>4, SameTrait DEF MacroInv
<1>6. CASE AcceptMethod
  <2>1. Wellformed(Method) /\ ReadSoFar /\ t \in 1 .. Len(source)
    BY <1>a, <1>6, MethodRead DEF AcceptMethod, MacroInv
  <2>2. Len(source[t].methods) \in Nat
    BY <1>a, <2>1, SourceShape
  <2>3. MethodsUpTo(t, i) /\ i <= Len(source[t].methods)
    BY <2>1, <2>2 DEF MethodsUpTo, Method, ReadSoFar
  <2>4. stage' = "trait" /\ UNCHANGED <<source, t, i, expanded>>
    BY <1>6 DEF AcceptMethod
  <2>5. AllReported' /\ RejectedFor' /\ MethodsRead'
    BY <2>3, <2>4 DEF AllReported, RejectedFor, MethodsRead, MethodsUpTo, Wellformed, Offending,
                      HasReceiver
  <2>6. Positions'
    BY <2>4 DEF MacroInv
  <2> QED BY <2>4, <2>5, <2>6, SameTrait DEF MacroInv
<1>7. CASE AttributePanics
  BY <1>7, SameMethods DEF AttributePanics, TraitParsed
<1>8. CASE AttributeRejected
  BY <1>8, SameMethods DEF AttributeRejected, TraitParsed
<1>9. CASE NamePanics
  BY <1>9, SameMethods DEF NamePanics, TraitParsed
<1>10. CASE Generate
  <2>1. t' = t + 1 /\ t \in 1 .. Len(source) /\ MethodsUpTo(t, Len(source[t].methods))
    BY <1>a, <1>10 DEF Generate, TraitParsed, MacroInv, MethodsRead
  <2>2. stage = "trait" /\ i' = 0 /\ UNCHANGED <<source, stage>>
    BY <1>10 DEF Generate, TraitParsed
  <2>3. \A s \in 1 .. t' - 1 : MethodsUpTo(s, Len(source[s].methods))
    BY <2>1 DEF MacroInv, TraitsRead
  <2>4. TraitsRead'
    BY <2>2, <2>3 DEF TraitsRead, MethodsUpTo, Wellformed, Offending, HasReceiver
  <2>5. Positions'
    BY <1>a, <1>10, <2>1, <2>2 DEF Generate, MacroInv
  <2>6. t' <= Len(source) => Len(source[t'].methods) \in Nat
    BY <1>a, <2>1, SourceShape
  <2>7. MethodsRead' /\ AllReported' /\ RejectedFor' /\ Given'
    BY <1>a, <2>2, <2>6 DEF MethodsRead, MethodsUpTo, AllReported, RejectedFor, Given
  <2> QED BY <2>2, <2>4, <2>5, <2>7 DEF MacroInv
<1>11. CASE UNCHANGED macroVars
  BY <1>11, SameMethods DEF macroVars
<1> QED
  BY <1>1, <1>2, <1>3, <1>4, <1>5, <1>6, <1>7, <1>8, <1>9, <1>10, <1>11 DEF Next

LEMMA MacroInvariance == Spec => []MacroInv
  BY MacroInit, MacroStep, PTL DEF Spec

\* When the macro gives up on a method, it has named each argument that is not
\* allowed and, if so, that there is no receiver: errors never replace errors.
THEOREM ReportedCorrect == Spec => []AllReported
  <1>1. MacroInv => AllReported
    BY DEF MacroInv
  <1> QED
    BY <1>1, MacroInvariance, PTL

\* The macro expands only traits whose methods are all wellformed, and reports
\* errors only for a method that is not, or for its attribute.
THEOREM AcceptedCorrect == Spec => []AcceptedIsWellformed
  <1>1. MacroInv => AcceptedIsWellformed
    <2> SUFFICES ASSUME MacroInv PROVE AcceptedIsWellformed
      OBVIOUS
    <2>1. \A s \in DOMAIN expanded :
            s \in 1 .. Len(source) /\ MethodsUpTo(s, Len(source[s].methods))
      BY SourceLength DEF MacroInv, Positions, TraitsRead
    <2> QED
      BY <2>1, SourceShape DEF MacroInv, RejectedFor, AcceptedIsWellformed, MethodsUpTo
  <1> QED
    BY <1>1, MacroInvariance, PTL

-----------------------------------------------------------------------------
(* Induction, as a fact about sets of numbers: what holds of 0, and of n + 1 *)
(* if of n, holds of every number, since there is no least one for which it *)
(* does not.                                                               *)

LEMMA LeastNat ==
  ASSUME NEW T, T \subseteq Nat, T # {}
  PROVE  \E n \in T : \A m \in T : n <= m
<1>1. \E n \in T : \A m \in T : <<m, n>> \notin OpToRel(<, Nat)
  BY NatLessThanWellFounded, WFMin, Zenon
<1>2. ASSUME NEW n \in T, NEW m \in T, <<m, n>> \notin OpToRel(<, Nat)
      PROVE  n <= m
  <2>1. <<m, n>> \in Nat \X Nat
    OBVIOUS
  <2>2. ~ (<<m, n>>[1] < <<m, n>>[2])
    BY <1>2, <2>1, Zenon DEF OpToRel
  <2> QED BY <2>2
<1> QED BY <1>1, <1>2, Zenon

LEMMA AllNat ==
  ASSUME NEW T, 0 \in T, \A n \in Nat : n \in T => n + 1 \in T
  PROVE  Nat \subseteq T
<1> SUFFICES ASSUME Nat \ T # {} PROVE FALSE
  OBVIOUS
<1>1. PICK n \in Nat \ T : \A m \in Nat \ T : n <= m
  BY LeastNat
<1>2. n - 1 \in Nat /\ ~ (n <= n - 1)
  OBVIOUS
<1>3. n - 1 \in T
  BY <1>1, <1>2
<1> QED BY <1>2, <1>3

-----------------------------------------------------------------------------
(* snake_to_camel on conventional names.                                   *)

Start == [camel |-> <<>>, start |-> TRUE]

\* f is the loop on ident, for its first n characters.
Loops(f, ident, n) ==
  f = [m \in 0 .. n |-> IF m = 0 THEN Start ELSE CamelStep(f[m - 1], ident[m])]

LEMMA LoopExists == ASSUME NEW ident PROVE \A n \in Nat : \E f : Loops(f, ident, n)
<1> DEFINE T == {n \in Nat : \E f : Loops(f, ident, n)}
<1>1. 0 \in T
  <2>1. Loops([m \in 0 .. 0 |-> Start], ident, 0)
    BY DEF Loops
  <2> QED BY <2>1
<1>2. ASSUME NEW n \in Nat, n \in T PROVE n + 1 \in T
  <2>1. PICK f : Loops(f, ident, n)
    BY <1>2
  <2> DEFINE next == CamelStep(f[n], ident[n + 1])
             g == [m \in 0 .. n + 1 |-> IF m = n + 1 THEN next ELSE f[m]]
  <2> HIDE DEF next
  <2>2. ASSUME NEW m \in 0 .. n + 1
        PROVE  g[m] = IF m = 0 THEN Start ELSE CamelStep(g[m - 1], ident[m])
    <3>1. CASE m = n + 1
      <4>1. g[m] = next /\ m - 1 = n /\ g[n] = f[n]
        BY <3>1
      <4> QED BY <3>1, <4>1 DEF next
    <3>2. CASE m # n + 1 /\ m # 0
      <4>1. m \in 0 .. n /\ m - 1 \in 0 .. n /\ m - 1 # n + 1
        BY <3>2
      <4> QED BY <2>1, <3>2, <4>1 DEF Loops
    <3>3. CASE m = 0
      BY <2>1, <3>3 DEF Loops
    <3> QED BY <3>1, <3>2, <3>3
  <2>3. g = [m \in 0 .. n + 1 |-> g[m]]
    OBVIOUS
  <2> HIDE DEF g
  <2>4. Loops(g, ident, n + 1)
    BY <2>2, <2>3, Zenon DEF Loops
  <2> QED BY <2>4
<1> HIDE DEF T
<1>3. Nat \subseteq T
  BY <1>1, <1>2, AllNat
<1> QED BY <1>3 DEF T

LEMMA LoopRuns ==
  ASSUME NEW ident, Len(ident) \in Nat
  PROVE  Loops(CamelAfter(ident), ident, Len(ident))
<1>1. PICK f : Loops(f, ident, Len(ident))
  BY LoopExists
<1> QED BY <1>1 DEF CamelAfter, Loops, Start

LEMMA LoopSteps ==
  ASSUME NEW ident, Len(ident) \in Nat, NEW f, f = CamelAfter(ident)
  PROVE  /\ f[0] = Start
         /\ \A n \in 0 .. Len(ident) - 1 : f[n + 1] = CamelStep(f[n], ident[n + 1])
<1>1. Loops(f, ident, Len(ident))
  BY LoopRuns
<1>2. f[0] = Start
  BY <1>1 DEF Loops
<1>3. ASSUME NEW n \in 0 .. Len(ident) - 1 PROVE f[n + 1] = CamelStep(f[n], ident[n + 1])
  <2>1. n + 1 \in 0 .. Len(ident) /\ n + 1 # 0 /\ (n + 1) - 1 = n
    OBVIOUS
  <2>2. f[n + 1] = CamelStep(f[(n + 1) - 1], ident[n + 1])
    BY <1>1, <2>1 DEF Loops
  <2> QED BY <2>1, <2>2
<1> QED BY <1>2, <1>3

\* The characters of conventional names, and of what becomes of them.
Written == Lower \cup Digit \cup {"_"}
Camelled == Lower \cup Upper \cup Digit
Loop == [camel : Seq(Camelled), start : BOOLEAN]

\* What the loop makes of a character that is no underscore.
Emits(start, ch) == IF start /\ ch \in Lower THEN UpperOf[ch] ELSE ch

LEMMA EmitsCamelled ==
  ASSUME NEW start, NEW ch \in Lower \cup Digit
  PROVE  Emits(start, ch) \in Camelled
BY NamesAssumption DEF Emits, Camelled, Upper

LEMMA StepEmits ==
  ASSUME NEW acc \in Loop, NEW ch \in Written
  PROVE  CamelStep(acc, ch) =
           IF ch = "_" THEN [camel |-> acc.camel, start |-> TRUE]
           ELSE [camel |-> Append(acc.camel, Emits(acc.start, ch)), start |-> FALSE]
<1>1. CASE ch = "_"
  BY <1>1 DEF CamelStep
<1>2. CASE ch # "_"
  <2>1. ch \in Lower \cup Digit /\ ch # "r#" /\ ch \notin Upper
    BY <1>2, NamesAssumption DEF Written, Mark
  <2>2. ToLower(ch) = ch /\ ToUpper(ch) = Emits(TRUE, ch)
    BY <2>1 DEF ToLower, ToUpper, Emits
  <2>3. acc.start \in BOOLEAN
    BY DEF Loop
  <2>4. (IF acc.start THEN ToUpper(ch) ELSE ToLower(ch)) = Emits(acc.start, ch)
    BY <2>2, <2>3 DEF Emits
  <2> QED BY <1>2, <2>4 DEF CamelStep
<1> QED BY <1>1, <1>2

LEMMA StepType ==
  ASSUME NEW acc \in Loop, NEW ch \in Written
  PROVE  CamelStep(acc, ch) \in Loop
<1>1. acc.camel \in Seq(Camelled)
  BY DEF Loop
<1>2. CASE ch = "_"
  <2>1. CamelStep(acc, ch) = [camel |-> acc.camel, start |-> TRUE]
    BY <1>2, StepEmits
  <2> QED BY <1>1, <2>1 DEF Loop
<1>3. CASE ch # "_"
  <2>1. Emits(acc.start, ch) \in Camelled
    BY <1>3, EmitsCamelled DEF Written
  <2>2. Append(acc.camel, Emits(acc.start, ch)) \in Seq(Camelled)
    BY <1>1, <2>1, AppendProperties
  <2>3. CamelStep(acc, ch) = [camel |-> Append(acc.camel, Emits(acc.start, ch)), start |-> FALSE]
    BY <1>3, StepEmits
  <2> QED BY <2>2, <2>3 DEF Loop
<1> QED BY <1>2, <1>3

LEMMA ConventionalShape ==
  ASSUME NEW ident \in Ident, Conventional(ident)
  PROVE  /\ Len(ident) \in Nat \ {0} /\ DOMAIN ident = 1 .. Len(ident)
         /\ ident[1] \in Lower
         /\ \A n \in 1 .. Len(ident) :
              /\ ident[n] \in Written
              /\ ident[n] = "_" => n + 1 \in 1 .. Len(ident) /\ ident[n + 1] \in Lower
<1>1. Len(ident) \in Nat /\ DOMAIN ident = 1 .. Len(ident) /\ ident # <<>>
  BY LenProperties DEF Ident
<1>2. Len(ident) # 0
  BY <1>1, EmptySeq DEF Ident
<1>3. \A n \in 1 .. Len(ident) : ident[n] \in Range(ident)
  BY <1>1 DEF Range
<1>4. \A n \in 1 .. Len(ident) : ident[n] \in Written
  BY <1>3 DEF Conventional, Written
<1>5. \A n \in 1 .. Len(ident) :
        ident[n] = "_" => n < Len(ident) /\ ident[n + 1] \in Lower
  BY <1>1 DEF Conventional
<1>6. \A n \in 1 .. Len(ident) : n < Len(ident) => n + 1 \in 1 .. Len(ident)
  BY <1>1
<1>7. ident[1] \in Lower
  BY DEF Conventional
<1> QED BY <1>1, <1>2, <1>4, <1>5, <1>6, <1>7

LEMMA LoopType ==
  ASSUME NEW ident \in Ident, Conventional(ident), NEW f, f = CamelAfter(ident)
  PROVE  \A n \in 0 .. Len(ident) : f[n] \in Loop
<1> DEFINE T == {n \in Nat : n <= Len(ident) => f[n] \in Loop}
<1>a. /\ Len(ident) \in Nat
      /\ \A n \in 1 .. Len(ident) : ident[n] \in Written
  BY ConventionalShape
<1>b. /\ f[0] = Start
      /\ \A n \in 0 .. Len(ident) - 1 : f[n + 1] = CamelStep(f[n], ident[n + 1])
  BY <1>a, LoopSteps
<1>1. 0 \in T
  <2>1. <<>> \in Seq(Camelled)
    BY EmptySeq
  <2>2. Start \in Loop
    BY <2>1 DEF Start, Loop
  <2> QED BY <1>b, <2>2
<1>2. ASSUME NEW n \in Nat, n \in T PROVE n + 1 \in T
  <2> SUFFICES ASSUME n + 1 <= Len(ident) PROVE f[n + 1] \in Loop
    OBVIOUS
  <2>1. n \in 0 .. Len(ident) - 1 /\ n + 1 \in 1 .. Len(ident) /\ n <= Len(ident)
    BY <1>a
  <2>2. f[n + 1] = CamelStep(f[n], ident[n + 1])
    BY <1>b, <2>1
  <2>3. f[n] \in Loop /\ ident[n + 1] \in Written
    BY <1>2, <1>a, <2>1
  <2> QED BY <2>2, <2>3, StepType
<1> HIDE DEF T
<1>3. Nat \subseteq T
  BY <1>1, <1>2, AllNat
<1> QED BY <1>3, <1>a DEF T

\* What the loop adds for a character of ident.
Adds(f, ident, n) ==
  /\ ident[n + 1] = "_" => f[n + 1].camel = f[n].camel
  /\ ident[n + 1] # "_" =>
       /\ Emits(f[n].start, ident[n + 1]) \in Camelled
       /\ f[n + 1].camel = Append(f[n].camel, Emits(f[n].start, ident[n + 1]))

\* The loop, character by character.
Runs(f, ident) ==
  /\ f[0] = Start
  /\ \A n \in 0 .. Len(ident) : f[n].camel \in Seq(Camelled)
  /\ \A n \in 0 .. Len(ident) : f[n].start <=> n = 0 \/ ident[n] = "_"
  /\ \A n \in 0 .. Len(ident) - 1 : f[n + 1] = CamelStep(f[n], ident[n + 1])

LEMMA LoopFacts ==
  ASSUME NEW ident \in Ident, Conventional(ident), NEW f, f = CamelAfter(ident)
  PROVE  /\ Len(ident) \in Nat /\ f[0] = Start
         /\ \A n \in 0 .. Len(ident) : f[n].camel \in Seq(Camelled)
         /\ \A n \in 0 .. Len(ident) - 1 : Adds(f, ident, n)
         /\ Runs(f, ident)
<1>1. Len(ident) \in Nat /\ \A n \in 1 .. Len(ident) : ident[n] \in Written
  BY ConventionalShape
<1>2. /\ f[0] = Start
      /\ \A n \in 0 .. Len(ident) - 1 : f[n + 1] = CamelStep(f[n], ident[n + 1])
  BY <1>1, LoopSteps
<1>3. \A n \in 0 .. Len(ident) : f[n] \in Loop
  BY LoopType
<1>4. ASSUME NEW n \in 0 .. Len(ident) - 1
      PROVE  /\ f[n + 1].start <=> ident[n + 1] = "_"
             /\ Adds(f, ident, n)
  <2>1. n \in 0 .. Len(ident) /\ n + 1 \in 1 .. Len(ident)
    BY <1>1
  <2>2. f[n] \in Loop /\ ident[n + 1] \in Written
    BY <1>1, <1>3, <2>1
  <2>3. f[n + 1] = IF ident[n + 1] = "_" THEN [camel |-> f[n].camel, start |-> TRUE]
                   ELSE [camel |-> Append(f[n].camel, Emits(f[n].start, ident[n + 1])),
                         start |-> FALSE]
    BY <1>2, <2>2, StepEmits
  <2>4. ident[n + 1] # "_" => Emits(f[n].start, ident[n + 1]) \in Camelled
    BY <2>2, EmitsCamelled DEF Written
  <2>5. CASE ident[n + 1] = "_"
    <3>1. f[n + 1] = [camel |-> f[n].camel, start |-> TRUE]
      BY <2>3, <2>5
    <3>2. f[n + 1].camel = f[n].camel
      BY <3>1
    <3>3. f[n + 1].start
      BY <3>1
    <3> QED BY <2>5, <3>2, <3>3, Zenon DEF Adds
  <2>6. CASE ident[n + 1] # "_"
    <3>1. f[n + 1] = [camel |-> Append(f[n].camel, Emits(f[n].start, ident[n + 1])),
                      start |-> FALSE]
      BY <2>3, <2>6
    <3>2. f[n + 1].camel = Append(f[n].camel, Emits(f[n].start, ident[n + 1]))
      BY <3>1
    <3>3. ~ f[n + 1].start
      BY <3>1
    <3> QED BY <2>4, <2>6, <3>2, <3>3, Zenon DEF Adds
  <2> QED BY <2>5, <2>6
<1>5. ASSUME NEW n \in 0 .. Len(ident)
      PROVE  f[n].camel \in Seq(Camelled) /\ (f[n].start <=> n = 0 \/ ident[n] = "_")
  <2>1. f[n].camel \in Seq(Camelled)
    BY <1>3 DEF Loop
  <2>2. CASE n = 0
    BY <1>2, <2>1, <2>2 DEF Start
  <2>3. CASE n # 0
    <3>1. n - 1 \in 0 .. Len(ident) - 1 /\ (n - 1) + 1 = n
      BY <1>1, <2>3
    <3>2. f[(n - 1) + 1].start <=> ident[(n - 1) + 1] = "_"
      BY <1>4, <3>1
    <3> QED BY <2>1, <2>3, <3>1, <3>2
  <2> QED BY <2>2, <2>3
<1>6. Runs(f, ident)
  BY <1>2, <1>5, Zenon DEF Runs
<1> QED BY <1>1, <1>2, <1>4, <1>5, <1>6

\* What the loop has written stays.
Extends(longer, shorter) ==
  Len(shorter) <= Len(longer) /\ \A p \in 1 .. Len(shorter) : longer[p] = shorter[p]

LEMMA AppendExtends ==
  ASSUME NEW S, NEW seq \in Seq(S), NEW e \in S
  PROVE  /\ Extends(Append(seq, e), seq)
         /\ Len(Append(seq, e)) = Len(seq) + 1 /\ Append(seq, e)[Len(seq) + 1] = e
<1>1. Len(seq) \in Nat
  BY LenProperties
<1>2. /\ Len(Append(seq, e)) = Len(seq) + 1
      /\ \A p \in 1 .. Len(seq) : Append(seq, e)[p] = seq[p]
      /\ Append(seq, e)[Len(seq) + 1] = e
  BY AppendProperties
<1> QED BY <1>1, <1>2 DEF Extends

LEMMA ExtendsFurther ==
  ASSUME NEW S, NEW x \in Seq(S), NEW y \in Seq(S), NEW z \in Seq(S),
         Extends(y, x), Extends(z, y)
  PROVE  Extends(z, x)
<1>1. Len(x) \in Nat /\ Len(y) \in Nat /\ Len(z) \in Nat
  BY LenProperties
<1> QED BY <1>1 DEF Extends

LEMMA LoopExtends ==
  ASSUME NEW ident \in Ident, Conventional(ident), NEW f, f = CamelAfter(ident),
         NEW n \in 0 .. Len(ident)
  PROVE  Extends(f[Len(ident)].camel, f[n].camel)
<1> DEFINE T == {d \in Nat : n + d <= Len(ident) => Extends(f[n + d].camel, f[n].camel)}
<1>1. /\ Len(ident) \in Nat /\ \A m \in 0 .. Len(ident) : f[m].camel \in Seq(Camelled)
      /\ \A m \in 0 .. Len(ident) - 1 : Adds(f, ident, m)
  BY LoopFacts
<1>2. 0 \in T
  <2>1. Len(f[n].camel) \in Nat /\ n + 0 = n
    BY <1>1, LenProperties
  <2> QED BY <2>1 DEF Extends
<1>3. ASSUME NEW d \in Nat, d \in T PROVE d + 1 \in T
  <2> SUFFICES ASSUME n + (d + 1) <= Len(ident)
               PROVE  Extends(f[n + (d + 1)].camel, f[n].camel)
    OBVIOUS
  <2> DEFINE m == n + d
  <2>1. m \in 0 .. Len(ident) - 1 /\ m \in 0 .. Len(ident) /\ m + 1 \in 0 .. Len(ident)
        /\ n + (d + 1) = m + 1
    BY <1>1
  <2>2. Extends(f[m].camel, f[n].camel)
    BY <1>1, <1>3, <2>1
  <2> HIDE DEF m
  <2>3. Extends(f[m + 1].camel, f[m].camel)
    <3>1. Adds(f, ident, m)
      BY <1>1, <2>1
    <3>2. f[m].camel \in Seq(Camelled) /\ Len(f[m].camel) \in Nat
      BY <1>1, <2>1, LenProperties
    <3>3. CASE ident[m + 1] = "_"
      <4>1. f[m + 1].camel = f[m].camel
        BY <3>1, <3>3, Zenon DEF Adds
      <4> QED BY <3>2, <4>1 DEF Extends
    <3>4. CASE ident[m + 1] # "_"
      <4>1. PICK e \in Camelled : f[m + 1].camel = Append(f[m].camel, e)
        BY <3>1, <3>4, Zenon DEF Adds
      <4>2. Extends(Append(f[m].camel, e), f[m].camel)
        BY <3>2, AppendExtends
      <4> QED BY <4>1, <4>2
    <3> QED BY <3>3, <3>4
  <2>4. f[m + 1].camel \in Seq(Camelled) /\ f[m].camel \in Seq(Camelled)
        /\ f[n].camel \in Seq(Camelled)
    BY <1>1, <2>1
  <2>5. Extends(f[m + 1].camel, f[n].camel)
    BY <2>2, <2>3, <2>4, ExtendsFurther
  <2> QED BY <2>1, <2>5
<1> HIDE DEF T
<1>4. Nat \subseteq T
  BY <1>2, <1>3, AllNat
<1>5. Len(ident) - n \in T /\ n + (Len(ident) - n) = Len(ident)
  BY <1>1, <1>4
<1>6. n + (Len(ident) - n) <= Len(ident)
  BY <1>1
<1> QED BY <1>5, <1>6 DEF T

\* The next character that the loop writes, after n characters of ident.
Upcoming(ident, start, n) ==
  IF ident[n + 1] = "_" THEN UpperOf[ident[n + 2]] ELSE Emits(start, ident[n + 1])

\* It is still there when the loop ends.
LEMMA CamelNext ==
  ASSUME NEW ident \in Ident, Conventional(ident), NEW f, f = CamelAfter(ident),
         NEW n \in 0 .. Len(ident) - 1,
         NEW final, final = SnakeToCamel(ident),
         NEW place, place = Len(f[n].camel) + 1
  PROVE  place \in 1 .. Len(final) /\ final[place] = Upcoming(ident, f[n].start, n)
<1>1. /\ Len(ident) \in Nat /\ \A m \in 0 .. Len(ident) : f[m].camel \in Seq(Camelled)
      /\ \A m \in 0 .. Len(ident) - 1 : Adds(f, ident, m)
  BY LoopFacts
<1>2. final = f[Len(ident)].camel
  BY DEF SnakeToCamel
<1>3. \A m \in 0 .. Len(ident) : Extends(final, f[m].camel)
  BY <1>2, LoopExtends
<1>a. place \in Nat \ {0}
  <2>1. f[n].camel \in Seq(Camelled)
    BY <1>1
  <2> QED BY <2>1, LenProperties
<1>4. ASSUME NEW m \in 0 .. Len(ident) - 1, ident[m + 1] # "_", Len(f[m].camel) + 1 = place
      PROVE  place \in 1 .. Len(final) /\ final[place] = Emits(f[m].start, ident[m + 1])
  <2>1. PICK e \in Camelled :
          e = Emits(f[m].start, ident[m + 1]) /\ f[m + 1].camel = Append(f[m].camel, e)
    <3>1. Adds(f, ident, m)
      BY <1>1
    <3> QED BY <1>4, <3>1, Zenon DEF Adds
  <2>2. f[m].camel \in Seq(Camelled) /\ m + 1 \in 0 .. Len(ident)
    BY <1>1
  <2>3. Len(f[m + 1].camel) = place /\ f[m + 1].camel[place] = e
    <3>1. /\ Len(Append(f[m].camel, e)) = Len(f[m].camel) + 1
          /\ Append(f[m].camel, e)[Len(f[m].camel) + 1] = e
      BY <2>2, AppendExtends
    <3> QED BY <1>4, <2>1, <3>1
  <2>4. Extends(final, f[m + 1].camel) /\ final \in Seq(Camelled)
    BY <1>1, <1>2, <1>3, <2>2
  <2>5. Len(final) \in Nat /\ Len(f[m].camel) \in Nat
    BY <2>2, <2>4, LenProperties
  <2>6. place \in 1 .. Len(final) /\ final[place] = e
    <3>1. place \in 1 .. place
      BY <1>a
    <3>2. /\ Len(f[m + 1].camel) <= Len(final)
          /\ \A p \in 1 .. Len(f[m + 1].camel) : final[p] = f[m + 1].camel[p]
      BY <2>4 DEF Extends
    <3>3. final[place] = e
      BY <2>3, <3>1, <3>2, Zenon
    <3>4. place \in 1 .. Len(final)
      BY <1>a, <2>3, <2>5, <3>2
    <3> QED BY <3>3, <3>4
  <2> QED BY <2>1, <2>6, Zenon
<1>5. CASE ident[n + 1] # "_"
  BY <1>4, <1>5, Zenon DEF Upcoming
<1>6. CASE ident[n + 1] = "_"
  <2>1. /\ n + 1 \in 1 .. Len(ident) /\ n + 2 \in 1 .. Len(ident)
        /\ ident[n + 2] \in Lower /\ n + 1 \in 0 .. Len(ident) - 1 /\ n + 1 \in 0 .. Len(ident)
    <3>1. n + 1 \in 1 .. Len(ident) /\ n + 1 + 1 = n + 2
      BY <1>1
    <3>2. n + 1 + 1 \in 1 .. Len(ident) /\ ident[n + 1 + 1] \in Lower
      BY <1>6, <3>1, ConventionalShape
    <3> QED BY <1>1, <3>1, <3>2
  <2>2. f[n + 1].camel = f[n].camel
    <3>1. Adds(f, ident, n)
      BY <1>1
    <3> QED BY <1>6, <3>1, Zenon DEF Adds
  <2>3. f[n + 1].start
    BY <1>6, <2>1, LoopFacts, Zenon DEF Runs
  <2>4. ident[n + 2] # "_" /\ n + 1 + 1 = n + 2
    <3>1. n + 1 + 1 = n + 2
      BY <1>1
    <3> QED BY <2>1, <3>1, NamesAssumption DEF Mark
  <2>5. Len(f[n + 1].camel) + 1 = place
    BY <2>2
  <2>6. place \in 1 .. Len(final) /\ final[place] = Emits(f[n + 1].start, ident[n + 1 + 1])
    BY <1>4, <2>1, <2>4, <2>5
  <2>7. Emits(f[n + 1].start, ident[n + 2]) = UpperOf[ident[n + 2]]
    BY <2>1, <2>3, Zenon DEF Emits
  <2> QED BY <1>6, <2>4, <2>6, <2>7 DEF Upcoming
<1> QED BY <1>5, <1>6

\* It tells which character of ident comes next.
Tells(ident, start, n) ==
  \/ start /\ ident[n + 1] \in Lower /\ Upcoming(ident, start, n) = UpperOf[ident[n + 1]]
  \/ ~start /\ ident[n + 1] = "_" /\ Upcoming(ident, start, n) \in Upper
  \/ /\ ~start /\ ident[n + 1] \in Lower \cup Digit
     /\ Upcoming(ident, start, n) = ident[n + 1]

LEMMA UpcomingTells ==
  ASSUME NEW ident \in Ident, Conventional(ident), NEW n \in 0 .. Len(ident) - 1
  PROVE  \A start : (start <=> n = 0 \/ ident[n] = "_") => Tells(ident, start, n)
<1>a. Len(ident) \in Nat
  BY ConventionalShape
<1>b. ident[1] \in Lower
  BY ConventionalShape
<1>c. \A m \in 1 .. Len(ident) : ident[m] \in Written
  BY ConventionalShape
<1>d. \A m \in 1 .. Len(ident) : ident[m] = "_" => ident[m + 1] \in Lower
  BY ConventionalShape
<1>2. n + 1 \in 1 .. Len(ident) /\ n + 1 + 1 = n + 2
  BY <1>a
<1>3. "_" \notin Lower
  BY NamesAssumption DEF Mark
<1>4. (n = 0 \/ ident[n] = "_") => ident[n + 1] \in Lower
  <2>1. CASE n = 0
    BY <1>b, <2>1
  <2>2. CASE n # 0
    <3>1. n \in 1 .. Len(ident)
      BY <1>a, <2>2
    <3> QED BY <1>d, <2>2, <3>1, Zenon
  <2> QED BY <2>1, <2>2
<1>5. ident[n + 1] = "_" => UpperOf[ident[n + 2]] \in Upper
  <2> SUFFICES ASSUME ident[n + 1] = "_" PROVE UpperOf[ident[n + 2]] \in Upper
    OBVIOUS
  <2>1. ident[n + 1 + 1] \in Lower
    BY <1>d, <1>2, Zenon
  <2> QED BY <1>2, <2>1 DEF Upper
<1>6. ident[n + 1] # "_" => ident[n + 1] \in Lower \cup Digit
  BY <1>c, <1>2 DEF Written
<1> SUFFICES ASSUME NEW start, start <=> n = 0 \/ ident[n] = "_" PROVE Tells(ident, start, n)
  BY Zenon
<1>7. CASE start
  <2>1. ident[n + 1] \in Lower
    BY <1>4, <1>7, Zenon
  <2> QED BY <1>3, <1>7, <2>1, Zenon DEF Tells, Upcoming, Emits
<1>8. CASE ~start /\ ident[n + 1] = "_"
  BY <1>5, <1>8, Zenon DEF Tells, Upcoming
<1>9. CASE ~start /\ ident[n + 1] # "_"
  BY <1>6, <1>9, Zenon DEF Tells, Upcoming, Emits
<1> QED BY <1>7, <1>8, <1>9, Zenon

\* Names with one camel form agree as far as the first one goes.
LEMMA CamelAgrees ==
  ASSUME NEW a \in Ident, Conventional(a), NEW b \in Ident, Conventional(b),
         SnakeToCamel(a) = SnakeToCamel(b)
  PROVE  Len(a) <= Len(b) /\ \A p \in 1 .. Len(a) : a[p] = b[p]
<1>1. PICK f, g, final :
        f = CamelAfter(a) /\ g = CamelAfter(b) /\ final = SnakeToCamel(a) /\ final = SnakeToCamel(b)
  OBVIOUS
<1>n. Len(a) \in Nat /\ Len(b) \in Nat
  BY ConventionalShape
<1>f. Runs(f, a)
  BY <1>1, LoopFacts
<1>g. Runs(g, b)
  BY <1>1, LoopFacts
<1> DEFINE Agree(n) == n <= Len(b) /\ f[n] = g[n] /\ \A p \in 1 .. n : a[p] = b[p]
           T == {n \in Nat : n <= Len(a) => Agree(n)}
<1>4. 0 \in T
  <2>1. f[0] = g[0]
    BY <1>f, <1>g, Zenon DEF Runs
  <2> QED BY <1>n, <2>1
<1>5. ASSUME NEW n \in Nat, n \in T PROVE n + 1 \in T
  <2> SUFFICES ASSUME n + 1 <= Len(a) PROVE Agree(n + 1)
    OBVIOUS
  <2>1. n \in 0 .. Len(a) - 1 /\ n \in 0 .. Len(a) /\ n <= Len(a)
    BY <1>n
  <2>2. Agree(n)
    BY <1>5, <2>1
  <2>a. n <= Len(b)
    BY <2>2
  <2>b. f[n] = g[n]
    BY <2>2
  <2>c. \A p \in 1 .. n : a[p] = b[p]
    BY <2>2
  <2>3. PICK place : place = Len(f[n].camel) + 1
    OBVIOUS
  <2> HIDE DEF Agree, T
  <2>4. place \in 1 .. Len(final) /\ final[place] = Upcoming(a, f[n].start, n)
    BY <1>1, <2>1, <2>3, CamelNext
  <2>5. n \in 0 .. Len(b) - 1
    <3> SUFFICES ASSUME n = Len(b) PROVE FALSE
      BY <1>n, <2>a
    <3>1. final = f[n].camel
      BY <1>1, <2>b DEF SnakeToCamel
    <3>2. Len(final) \in Nat
      <4>1. f[n].camel \in Seq(Camelled)
        BY <1>f, <2>1, Zenon DEF Runs
      <4> QED BY <3>1, <4>1, LenProperties
    <3>3. place = Len(final) + 1 /\ place \in 1 .. Len(final)
      BY <2>3, <2>4, <3>1
    <3> QED BY <3>2, <3>3
  <2>6. final[place] = Upcoming(b, f[n].start, n)
    <3>1. place = Len(g[n].camel) + 1
      BY <2>3, <2>b
    <3>2. final[place] = Upcoming(b, g[n].start, n)
      BY <1>1, <2>5, <3>1, CamelNext
    <3> QED BY <2>b, <3>2, Zenon
  <2>7. PICK start : start = f[n].start
    OBVIOUS
  <2>8. /\ start <=> n = 0 \/ a[n] = "_"
        /\ start <=> n = 0 \/ b[n] = "_"
    <3>1. n \in 0 .. Len(b)
      BY <1>n, <2>5
    <3> QED BY <1>f, <1>g, <2>1, <2>b, <2>7, <3>1, Zenon DEF Runs
  <2>9. PICK u : u = Upcoming(a, start, n) /\ u = Upcoming(b, start, n)
    BY <2>4, <2>6, <2>7, Zenon
  <2>10. a[n + 1] = b[n + 1]
    <3>2. Tells(a, start, n)
      BY <2>1, <2>8, UpcomingTells, Zenon
    <3>3. Tells(b, start, n)
      BY <2>5, <2>8, UpcomingTells, Zenon
    <3>4. u \in Upper => u \notin Lower \cup Digit
      BY NamesAssumption
    <3>5. \A ch, di \in Lower : UpperOf[ch] = UpperOf[di] => ch = di
      BY NamesAssumption
    <3> QED BY <2>9, <3>2, <3>3, <3>4, <3>5, Zenon DEF Tells
  <2>11. f[n + 1] = g[n + 1]
    <3>1. f[n + 1] = CamelStep(f[n], a[n + 1])
      BY <1>f, <2>1, Zenon DEF Runs
    <3>2. g[n + 1] = CamelStep(g[n], b[n + 1])
      BY <1>g, <2>5, Zenon DEF Runs
    <3> QED BY <2>b, <2>10, <3>1, <3>2, Zenon
  <2>12. \A p \in 1 .. n + 1 : a[p] = b[p]
    <3>1. \A p \in 1 .. n + 1 : p \in 1 .. n \/ p = n + 1
      OBVIOUS
    <3> QED BY <2>c, <2>10, <3>1, Zenon
  <2>13. n + 1 <= Len(b)
    BY <1>n, <2>5
  <2> QED BY <2>11, <2>12, <2>13 DEF Agree
<1> HIDE DEF T
<1>6. Nat \subseteq T
  BY <1>4, <1>5, AllNat
<1>7. Agree(Len(a))
  BY <1>n, <1>6 DEF T
<1> QED BY <1>7

\* snake_to_camel is injective on conventional names of any length: the names of
\* two methods that follow the rules lead to two request types.
THEOREM CamelInjective ==
  ASSUME NEW a \in Ident, Conventional(a), NEW b \in Ident, Conventional(b),
         SnakeToCamel(a) = SnakeToCamel(b)
  PROVE  a = b
<1>1. Len(a) \in Nat /\ Len(b) \in Nat
  BY ConventionalShape
<1>2. Len(a) <= Len(b) /\ \A p \in 1 .. Len(a) : a[p] = b[p]
  BY CamelAgrees
<1>3. Len(b) <= Len(a)
  BY CamelAgrees
<1>4. Len(a) = Len(b)
  BY <1>1, <1>2, <1>3
<1> QED BY <1>2, <1>4, SeqEqual DEF Ident

\* The camel form of a conventional name begins with a capital.
LEMMA CamelBegins ==
  ASSUME NEW ident \in Ident, Conventional(ident)
  PROVE  /\ SnakeToCamel(ident) \in Seq(Camelled)
         /\ Len(SnakeToCamel(ident)) \in Nat \ {0}
         /\ SnakeToCamel(ident)[1] \in Upper
<1>1. PICK f, final : f = CamelAfter(ident) /\ final = SnakeToCamel(ident)
  OBVIOUS
<1>2. Len(ident) \in Nat \ {0} /\ ident[1] \in Lower
  BY ConventionalShape
<1>3. f[0] = Start /\ \A n \in 0 .. Len(ident) : f[n].camel \in Seq(Camelled)
  BY <1>1, LoopFacts
<1>s. f[0].start
  BY <1>3 DEF Start
<1>m. 0 \in 0 .. Len(ident) /\ Len(ident) \in 0 .. Len(ident)
  BY <1>2
<1>4. final \in Seq(Camelled)
  BY <1>1, <1>3, <1>m DEF SnakeToCamel
<1>5. 1 = Len(f[0].camel) + 1
  BY <1>3 DEF Start
<1>6. 0 \in 0 .. Len(ident) - 1
  BY <1>2
<1>7. 1 \in 1 .. Len(final) /\ final[1] = Upcoming(ident, f[0].start, 0)
  BY <1>1, <1>5, <1>6, CamelNext
<1>8. "_" \notin Lower
  BY NamesAssumption DEF Mark
<1>a. 0 + 1 = 1
  OBVIOUS
<1>9. Upcoming(ident, f[0].start, 0) = UpperOf[ident[1]]
  BY <1>2, <1>s, <1>8, <1>a, Zenon DEF Upcoming, Emits
<1>10. Len(final) \in Nat
  BY <1>4, LenProperties
<1> QED BY <1>1, <1>2, <1>4, <1>7, <1>9, <1>10 DEF Upper


-----------------------------------------------------------------------------
(* What was written and what is expanded.                                  *)

\* A sequence of whatever it lists.
Listed(list) == list \in Seq(Range(list))

\* The typed arguments of a method before its n-th argument.
Named(method, n) ==
  {j \in DOMAIN method.args : j < n /\ method.args[j].kind \in {"ident", "mutident"}}

MethodWritten(method, given) == Listed(method.args) /\ TakenOver(method, given)

TraitWritten(trait, given) ==
  /\ trait.ident = given.ident
  /\ Listed(trait.methods) /\ Len(trait.methods) = Len(given.methods)
  /\ \A j \in 1 .. Len(trait.methods) : MethodWritten(trait.methods[j], given.methods[j])

ArgsWritten == Listed(args) /\ Selects(args, Method.args, Named(Method, k))
MethodsWritten ==
  /\ Listed(methods)
  /\ \A j \in 1 .. Len(methods) : MethodWritten(methods[j], source[t].methods[j])
TraitsWritten ==
  /\ Listed(expanded)
  /\ \A s \in 1 .. t - 1 : TraitWritten(expanded[s], source[s])

WrittenInv ==
  /\ stage = "trait" => Len(methods) = i
  /\ stage = "args" => Len(methods) = i - 1 /\ ArgsWritten
  /\ MethodsWritten
  /\ TraitsWritten

LEMMA ListedSeq ==
  ASSUME NEW S, NEW list \in Seq(S)
  PROVE  Listed(list)
<1>1. Len(list) \in Nat /\ DOMAIN list = 1 .. Len(list)
  BY LenProperties
<1>2. \A n \in 1 .. Len(list) : list[n] \in Range(list)
  BY <1>1 DEF Range
<1>3. list = [n \in 1 .. Len(list) |-> list[n]]
  BY <1>1, LenProperties
<1> QED BY <1>1, <1>2, <1>3, SeqDef DEF Listed

LEMMA ListedLength ==
  ASSUME NEW list, Listed(list)
  PROVE  Len(list) \in Nat /\ DOMAIN list = 1 .. Len(list)
BY LenProperties DEF Listed

LEMMA ListedEmpty == Listed(<<>>) /\ Len(<<>>) = 0 /\ DOMAIN <<>> = {}
<1>1. <<>> \in Seq({}) /\ Len(<<>>) = 0
  BY EmptySeq
<1>2. Listed(<<>>)
  BY <1>1, ListedSeq
<1>3. DOMAIN <<>> = 1 .. 0
  BY <1>1, LenProperties
<1>4. 1 .. 0 = {}
  OBVIOUS
<1> QED BY <1>1, <1>2, <1>3, <1>4, Zenon

LEMMA ListedAppend ==
  ASSUME NEW list, Listed(list), NEW e
  PROVE  /\ Listed(Append(list, e))
         /\ Len(Append(list, e)) = Len(list) + 1
         /\ \A n \in 1 .. Len(list) : Append(list, e)[n] = list[n]
         /\ Append(list, e)[Len(list) + 1] = e
<1> DEFINE S == Range(list) \cup {e}
<1>1. list \in Seq(S)
  <2>1. /\ Len(list) \in Nat /\ DOMAIN list = 1 .. Len(list)
        /\ list = [n \in 1 .. Len(list) |-> list[n]]
    BY LenProperties DEF Listed
  <2>2. \A n \in 1 .. Len(list) : list[n] \in S
    BY <2>1 DEF Range
  <2> QED BY <2>1, <2>2, SeqDef
<1>2. e \in S
  OBVIOUS
<1> HIDE DEF S
<1>3. Append(list, e) \in Seq(S)
  BY <1>1, <1>2, AppendProperties
<1>4. /\ Len(Append(list, e)) = Len(list) + 1
      /\ \A n \in 1 .. Len(list) : Append(list, e)[n] = list[n]
      /\ Append(list, e)[Len(list) + 1] = e
  BY <1>1, <1>2, AppendProperties
<1> QED BY <1>3, <1>4, ListedSeq

\* One more field, for the next position.
LEMMA SelectsAppend ==
  ASSUME NEW fields, Listed(fields), NEW given, NEW P, P \subseteq Nat,
         Selects(fields, given, P), NEW n \in Nat, \A p \in P : p < n
  PROVE  Selects(Append(fields, given[n]), given, P \cup {n})
<1>1. PICK at \in [DOMAIN fields -> P] :
        /\ \A l, m \in DOMAIN fields : l < m => at[l] < at[m]
        /\ \A p \in P : \E m \in DOMAIN fields : at[m] = p
        /\ \A m \in DOMAIN fields : fields[m] = given[at[m]]
  BY DEF Selects
<1>2. PICK len \in Nat : len = Len(fields) /\ DOMAIN fields = 1 .. len
  BY ListedLength
<1>3. PICK longer : longer = Append(fields, given[n])
  OBVIOUS
<1>4. /\ DOMAIN longer = 1 .. len + 1
      /\ \A m \in 1 .. len : longer[m] = fields[m]
      /\ longer[len + 1] = given[n]
  <2>1. Listed(longer) /\ Len(longer) = len + 1
    BY <1>2, <1>3, ListedAppend
  <2>2. DOMAIN longer = 1 .. len + 1
    BY <2>1, ListedLength
  <2> QED BY <1>2, <1>3, <2>2, ListedAppend
<1> DEFINE next == [m \in 1 .. len + 1 |-> IF m = len + 1 THEN n ELSE at[m]]
<1>5. \A m \in 1 .. len : m \in 1 .. len + 1 /\ m # len + 1
  OBVIOUS
<1>6. next[len + 1] = n /\ \A m \in 1 .. len : next[m] = at[m]
  BY <1>5
<1>7. next \in [DOMAIN longer -> P \cup {n}]
  <2>1. \A m \in 1 .. len + 1 : m # len + 1 => m \in 1 .. len
    OBVIOUS
  <2> QED BY <1>1, <1>2, <1>4, <2>1
<1>8. \A l, m \in DOMAIN longer : l < m => next[l] < next[m]
  <2> SUFFICES ASSUME NEW l \in 1 .. len + 1, NEW m \in 1 .. len + 1, l < m
               PROVE  next[l] < next[m]
    BY <1>4
  <2>1. l \in 1 .. len
    OBVIOUS
  <2>2. next[l] = at[l] /\ at[l] \in P
    BY <1>1, <1>2, <1>6, <2>1
  <2>3. CASE m = len + 1
    BY <1>6, <2>2, <2>3
  <2>4. CASE m # len + 1
    <3>1. m \in 1 .. len
      BY <2>4
    <3>2. next[m] = at[m] /\ at[l] < at[m]
      BY <1>1, <1>2, <1>6, <2>1, <3>1
    <3> QED BY <2>2, <3>2
  <2> QED BY <2>3, <2>4
<1>9. \A p \in P \cup {n} : \E m \in DOMAIN longer : next[m] = p
  <2>1. len + 1 \in DOMAIN longer
    BY <1>4
  <2>2. \A m \in 1 .. len : m \in DOMAIN longer
    BY <1>4
  <2> HIDE DEF next
  <2> QED BY <1>1, <1>2, <1>6, <2>1, <2>2, Zenon
<1>10. \A m \in DOMAIN longer : longer[m] = given[next[m]]
  <2> SUFFICES ASSUME NEW m \in 1 .. len + 1 PROVE longer[m] = given[next[m]]
    BY <1>4
  <2>1. CASE m = len + 1
    BY <1>4, <1>6, <2>1
  <2>2. CASE m # len + 1
    <3>1. m \in 1 .. len
      BY <2>2
    <3> QED BY <1>1, <1>2, <1>4, <1>6, <3>1
  <2> QED BY <2>1, <2>2
<1> HIDE DEF next
<1> QED BY <1>3, <1>7, <1>8, <1>9, <1>10 DEF Selects


LEMMA WrittenInit == Init => WrittenInv
<1> SUFFICES ASSUME Init PROVE WrittenInv
  OBVIOUS
<1>1. /\ methods = <<>> /\ expanded = <<>> /\ stage = "trait" /\ i = 0
      /\ 1 .. t - 1 = {}
  BY DEF Init
<1>2. Len(methods) = 0 /\ Listed(methods) /\ Listed(expanded) /\ 1 .. Len(methods) = {}
  BY <1>1, ListedEmpty
<1> QED BY <1>1, <1>2 DEF WrittenInv, MethodsWritten, TraitsWritten

\* The arguments of the method at hand.
LEMMA MethodShape ==
  ASSUME MacroInv, stage = "args"
  PROVE  /\ t \in 1 .. Len(source) /\ i \in 1 .. Len(source[t].methods) /\ k \in Nat \ {0}
         /\ Len(Method.args) \in Nat /\ DOMAIN Method.args = 1 .. Len(Method.args)
         /\ \A n \in 1 .. Len(Method.args) : Method.args[n].kind \in ArgKind
<1>1. Given /\ t \in 1 .. Len(source) /\ ReadSoFar
  BY SourceLength DEF MacroInv, Positions
<1>2. i \in 1 .. Len(source[t].methods)
  BY <1>1 DEF ReadSoFar
<1>3. /\ Len(Method.args) \in Nat /\ DOMAIN Method.args = 1 .. Len(Method.args)
      /\ \A n \in 1 .. Len(Method.args) : Method.args[n].kind \in ArgKind
  BY <1>1, <1>2, SourceShape DEF Method
<1>4. k \in Nat \ {0}
  BY <1>1, <1>3 DEF ReadSoFar
<1> QED BY <1>1, <1>2, <1>3, <1>4

\* An argument that is no field leaves the fields as they are.
LEMMA NotNamed ==
  ASSUME MacroInv, InArgs, Arg.kind \notin {"ident", "mutident"}
  PROVE  Named(Method, k + 1) = Named(Method, k)
<1>1. DOMAIN Method.args \subseteq Nat /\ k \in Nat
  BY MethodShape DEF InArgs
<1>2. ASSUME NEW j \in DOMAIN Method.args, j < k + 1, Method.args[j].kind \in {"ident", "mutident"}
      PROVE  j < k
  <2>1. j # k
    BY <1>2 DEF Arg
  <2> QED BY <1>1, <1>2, <2>1
<1>3. \A j \in DOMAIN Method.args : j < k => j < k + 1
  BY <1>1
<1> QED BY <1>2, <1>3, Zenon DEF Named

\* One that is adds its position.
LEMMA IsNamed ==
  ASSUME MacroInv, InArgs, Arg.kind \in {"ident", "mutident"}
  PROVE  /\ Named(Method, k + 1) = Named(Method, k) \cup {k}
         /\ Named(Method, k) \subseteq Nat /\ k \in Nat
         /\ \A p \in Named(Method, k) : p < k
<1>1. DOMAIN Method.args = 1 .. Len(Method.args) /\ k \in Nat \ {0} /\ Len(Method.args) \in Nat
  BY MethodShape DEF InArgs
<1>2. k \in DOMAIN Method.args /\ Method.args[k].kind \in {"ident", "mutident"}
  BY <1>1 DEF InArgs, Arg
<1>3. \A j \in DOMAIN Method.args : (j < k + 1) <=> (j < k \/ j = k)
  BY <1>1
<1>4. Named(Method, k + 1) = Named(Method, k) \cup {k}
  BY <1>2, <1>3, Zenon DEF Named
<1>5. DOMAIN Method.args \subseteq Nat
  BY <1>1
<1> QED BY <1>1, <1>4, <1>5 DEF Named

\* At the end of a wellformed method the fields are its typed arguments.
LEMMA AllNamed ==
  ASSUME MacroInv, stage = "args", k > Len(Method.args), Wellformed(Method)
  PROVE  Named(Method, k) = TypedArgs(Method)
<1>1. /\ DOMAIN Method.args = 1 .. Len(Method.args) /\ k \in Nat /\ Len(Method.args) \in Nat
      /\ \A n \in 1 .. Len(Method.args) : Method.args[n].kind \in ArgKind
  BY MethodShape
<1>2. \A j \in DOMAIN Method.args : j < k /\ j < Len(Method.args) + 1
  BY <1>1
<1>3. \A j \in DOMAIN Method.args : Method.args[j].kind # "pattern"
  BY <1>2 DEF Wellformed, Offending
<1>4. \A j \in DOMAIN Method.args :
        Method.args[j].kind \in {"ident", "mutident"} <=> Method.args[j].kind \notin Receivers
  BY <1>1, <1>3 DEF ArgKind, Receivers
<1> QED BY <1>2, <1>4, Zenon DEF Named, TypedArgs

\* What is done stays as it is while a trait is read.
LEMMA SameWritten ==
  ASSUME WrittenInv, UNCHANGED <<source, t, methods, expanded>>
  PROVE  MethodsWritten' /\ TraitsWritten'
BY DEF WrittenInv, MethodsWritten, TraitsWritten

LEMMA WrittenStep == MacroInv /\ WrittenInv /\ [Next]_macroVars => WrittenInv'
<1> SUFFICES ASSUME MacroInv, WrittenInv, [Next]_macroVars PROVE WrittenInv'
  OBVIOUS
<1>1. CASE StartMethod
  <2>1. /\ UNCHANGED <<source, t, methods, expanded>> /\ stage' = "args" /\ i' = i + 1 /\ k' = 1
        /\ args' = <<>> /\ stage = "trait"
    BY <1>1 DEF StartMethod
  <2>2. Len(methods') = i' - 1
    BY <2>1 DEF WrittenInv, MacroInv, Positions
  <2>3. i' \in 1 .. Len(source[t].methods) /\ t \in 1 .. Len(source)
    <3>1. Len(source) \in Nat /\ Given
      BY SourceLength DEF MacroInv
    <3>2. t \in 1 .. Len(source)
      BY <1>1, <3>1 DEF StartMethod, MacroInv, Positions
    <3>3. Len(source[t].methods) \in Nat
      BY <3>1, <3>2, SourceShape
    <3> QED BY <1>1, <2>1, <3>2, <3>3 DEF StartMethod, MacroInv, Positions
  <2>4. DOMAIN Method'.args = 1 .. Len(Method'.args)
    BY <2>1, <2>3, SourceShape DEF Method, MacroInv
  <2>5. Named(Method', k') = {}
    <3>1. \A j \in DOMAIN Method'.args : ~ (j < k')
      BY <2>1, <2>4
    <3> QED BY <3>1, Zenon DEF Named
  <2>6. Selects(args', Method'.args, Named(Method', k'))
    <3>1. DOMAIN args' = {}
      BY <2>1, ListedEmpty
    <3> DEFINE none == [m \in DOMAIN args' |-> m]
    <3>2. none \in [DOMAIN args' -> {}]
      BY <3>1
    <3> HIDE DEF none
    <3> QED BY <2>5, <3>1, <3>2, Zenon DEF Selects
  <2>7. ArgsWritten'
    BY <2>1, <2>6, ListedEmpty DEF ArgsWritten
  <2> QED BY <2>1, <2>2, <2>7, SameWritten DEF WrittenInv
<1>2. CASE TypedArg
  <2>1. /\ UNCHANGED <<source, stage, t, i, methods, expanded>> /\ InArgs /\ k' = k + 1
        /\ args' = Append(args, Method.args[k]) /\ Arg.kind \in {"ident", "mutident"}
        /\ stage = "args"
    BY <1>2 DEF TypedArg, InArgs, Arg
  <2>2. Listed(args) /\ Selects(args, Method.args, Named(Method, k)) /\ Len(methods) = i - 1
    BY <2>1 DEF WrittenInv, ArgsWritten
  <2>3. Listed(args')
    BY <2>1, <2>2, ListedAppend
  <2>4. Selects(args', Method.args, Named(Method, k'))
    <3>1. /\ Named(Method, k') = Named(Method, k) \cup {k}
          /\ Named(Method, k) \subseteq Nat /\ k \in Nat /\ \A p \in Named(Method, k) : p < k
      BY <2>1, IsNamed
    <3>2. Selects(Append(args, Method.args[k]), Method.args, Named(Method, k) \cup {k})
      BY <2>2, <3>1, SelectsAppend, Zenon
    <3> QED BY <2>1, <3>1, <3>2, Zenon
  <2>5. Method' = Method
    BY <2>1 DEF Method
  <2>6. ArgsWritten'
    BY <2>3, <2>4, <2>5 DEF ArgsWritten
  <2> QED BY <2>1, <2>2, <2>6, SameWritten DEF WrittenInv
<1>3. CASE PatternArg \/ ReceiverArg
  <2>1. /\ UNCHANGED <<source, stage, t, i, args, methods, expanded>> /\ InArgs /\ k' = k + 1
        /\ Arg.kind \notin {"ident", "mutident"} /\ stage = "args"
    BY <1>3 DEF PatternArg, ReceiverArg, InArgs, Receivers
  <2>2. Method' = Method /\ Named(Method, k') = Named(Method, k)
    BY <2>1, NotNamed DEF Method
  <2>3. ArgsWritten'
    BY <2>1, <2>2 DEF WrittenInv, ArgsWritten
  <2> QED BY <2>1, <2>3, SameWritten DEF WrittenInv
<1>4. CASE AcceptMethod
  <2>1. /\ UNCHANGED <<source, t, i, expanded>> /\ stage = "args" /\ stage' = "trait"
        /\ k > Len(Method.args) /\ MethodErrors = {}
        /\ methods' = Append(methods, [ident |-> Method.ident, args |-> args])
    BY <1>4 DEF AcceptMethod
  <2>2. Named(Method, k) = TypedArgs(Method)
    BY <2>1, MethodRead, AllNamed
  <2>3. PICK made : made = [ident |-> Method.ident, args |-> args]
    OBVIOUS
  <2>4. MethodWritten(made, Method)
    BY <2>1, <2>2, <2>3 DEF WrittenInv, ArgsWritten, MethodWritten, TakenOver
  <2>5. Listed(methods) /\ Len(methods) = i - 1 /\ i \in Nat
    BY <2>1 DEF WrittenInv, MethodsWritten, MacroInv, Positions
  <2>6. /\ Listed(methods') /\ Len(methods') = i
        /\ \A n \in 1 .. i - 1 : methods'[n] = methods[n]
        /\ methods'[i] = made
    BY <2>1, <2>3, <2>5, ListedAppend
  <2>7. \A n \in 1 .. i : n \in 1 .. i - 1 \/ n = i
    BY <2>5
  <2>8. \A n \in 1 .. i - 1 : MethodWritten(methods[n], source[t].methods[n])
    BY <2>5 DEF WrittenInv, MethodsWritten
  <2>9. \A n \in 1 .. i : MethodWritten(methods'[n], source[t].methods[n])
    BY <2>4, <2>6, <2>7, <2>8, Zenon DEF Method
  <2>10. MethodsWritten'
    BY <2>1, <2>6, <2>9 DEF MethodsWritten
  <2>11. TraitsWritten'
    BY <2>1 DEF WrittenInv, TraitsWritten
  <2> QED BY <2>1, <2>6, <2>10, <2>11 DEF WrittenInv
<1>5. CASE RejectMethod \/ AttributePanics \/ AttributeRejected \/ NamePanics
  <2>1. UNCHANGED <<source, t, methods, expanded>> /\ stage' \in {"rejected", "panicked"}
    BY <1>5 DEF RejectMethod, AttributePanics, AttributeRejected, NamePanics
  <2> QED BY <2>1, SameWritten DEF WrittenInv
<1>6. CASE Generate
  <2>1. /\ UNCHANGED source /\ t' = t + 1 /\ i' = 0 /\ methods' = <<>> /\ stage' = "trait"
        /\ expanded' = Append(expanded, Parsed) /\ stage = "trait" /\ t <= Len(source)
        /\ i = Len(source[t].methods)
    BY <1>6 DEF Generate, TraitParsed
  <2>2. MethodsWritten' /\ Len(methods') = 0
    BY <2>1, ListedEmpty DEF MethodsWritten
  <2>3. Listed(expanded) /\ Len(expanded) = t - 1 /\ t \in Nat
    BY DEF WrittenInv, TraitsWritten, MacroInv, Positions
  <2>4. /\ Listed(expanded') /\ expanded'[t] = Parsed
        /\ \A s \in 1 .. t - 1 : expanded'[s] = expanded[s]
    BY <2>1, <2>3, ListedAppend
  <2>5. TraitWritten(Parsed, source[t])
    BY <2>1 DEF TraitWritten, Parsed, WrittenInv, MethodsWritten
  <2>6. \A s \in 1 .. t : s \in 1 .. t - 1 \/ s = t
    BY <2>3
  <2>7. \A s \in 1 .. t - 1 : TraitWritten(expanded[s], source[s])
    BY DEF WrittenInv, TraitsWritten
  <2>8. \A s \in 1 .. t : TraitWritten(expanded'[s], source[s])
    BY <2>4, <2>5, <2>6, <2>7, Zenon
  <2>9. t' - 1 = t
    BY <2>1, <2>3
  <2>10. TraitsWritten'
    BY <2>1, <2>4, <2>8, <2>9 DEF TraitsWritten
  <2> QED BY <2>1, <2>2, <2>10 DEF WrittenInv
<1>7. CASE UNCHANGED macroVars
  <2>1. UNCHANGED <<source, stage, t, i, k, args, methods, expanded>>
    BY <1>7 DEF macroVars
  <2>2. ArgsWritten => ArgsWritten'
    BY <2>1 DEF ArgsWritten, Method
  <2> QED BY <2>1, <2>2, SameWritten DEF WrittenInv
<1> QED BY <1>1, <1>2, <1>3, <1>4, <1>5, <1>6, <1>7 DEF Next

LEMMA WrittenInvariance == Spec => [](MacroInv /\ WrittenInv)
  BY MacroInit, MacroStep, WrittenInit, WrittenStep, PTL DEF Spec

\* Each trait is expanded as it is written: under its name, with its methods in
\* their order, and with one request field per typed argument, in order.
THEOREM ExpandedCorrect == Spec => []ExpandedAsWritten
<1>1. MacroInv /\ WrittenInv => ExpandedAsWritten
  <2> SUFFICES ASSUME MacroInv, WrittenInv, NEW s \in DOMAIN expanded
               PROVE  /\ expanded[s].ident = source[s].ident
                      /\ Len(expanded[s].methods) = Len(source[s].methods)
                      /\ \A j \in DOMAIN expanded[s].methods :
                           TakenOver(expanded[s].methods[j], source[s].methods[j])
    BY DEF ExpandedAsWritten
  <2>1. TraitWritten(expanded[s], source[s])
    BY DEF MacroInv, Positions, WrittenInv, TraitsWritten
  <2>2. DOMAIN expanded[s].methods = 1 .. Len(expanded[s].methods)
    BY <2>1, ListedLength DEF TraitWritten
  <2> QED BY <2>1, <2>2 DEF TraitWritten, MethodWritten
<1> QED BY <1>1, WrittenInvariance, PTL


-----------------------------------------------------------------------------
(* Calls reach their methods.                                              *)

\* What a trait of the module declares is declared in the expansion.
LEMMA Declared ==
  ASSUME NEW traits, NEW s \in DOMAIN traits, NEW x, x \in Items(s, traits[s])
  PROVE  x \in Expansion(traits)
BY DEF Expansion

\* If the expansion compiles, the methods of a trait have different names.
LEMMA MethodsDiffer ==
  ASSUME NEW traits, DeclaredOnce(Expansion(traits)), NEW s \in DOMAIN traits,
         NEW j \in DOMAIN traits[s].methods, NEW n \in DOMAIN traits[s].methods,
         traits[s].methods[j].ident = traits[s].methods[n].ident
  PROVE  j = n
<1>1. PICK x, y :
        /\ x = Item(<<"trait", s>>, traits[s].methods[j].ident, <<s, j, "fn">>)
        /\ y = Item(<<"trait", s>>, traits[s].methods[n].ident, <<s, n, "fn">>)
  OBVIOUS
<1>2. x \in TraitService(s, traits[s]) /\ y \in TraitService(s, traits[s])
  BY <1>1 DEF TraitService
<1>3. x \in Expansion(traits) /\ y \in Expansion(traits)
  BY <1>2, Declared DEF Items
<1>4. x.scope = y.scope /\ x.name = y.name
  BY <1>1 DEF Item
<1>5. x = y
  BY <1>3, <1>4, Zenon DEF DeclaredOnce
<1>6. <<s, j, "fn">> = <<s, n, "fn">>
  BY <1>1, <1>5 DEF Item
<1> QED BY <1>6

\* There is an arm for every method, in their order.
LEMMA ArmsShape ==
  ASSUME NEW trait, Listed(trait.methods)
  PROVE  /\ Len(Arms(trait)) = Len(trait.methods)
         /\ \A n \in 1 .. Len(trait.methods) :
              /\ Arms(trait)[n].pattern = trait.methods[n].ident
              /\ Arms(trait)[n].decodes = RequestIdent(trait.methods[n].ident)
              /\ Arms(trait)[n].calls = trait.methods[n].ident
<1>1. PICK len \in Nat : len = Len(trait.methods) /\ DOMAIN trait.methods = 1 .. len
  BY ListedLength
<1>2. PICK arms : arms = Arms(trait)
  OBVIOUS
<1>3. arms = [n \in 1 .. len |->
                [pattern |-> trait.methods[n].ident,
                 decodes |-> RequestIdent(trait.methods[n].ident),
                 calls |-> trait.methods[n].ident]]
  BY <1>1, <1>2 DEF Arms
<1>4. \A n \in 1 .. len :
        /\ arms[n].pattern = trait.methods[n].ident
        /\ arms[n].decodes = RequestIdent(trait.methods[n].ident)
        /\ arms[n].calls = trait.methods[n].ident
  BY <1>3
<1>5. Len(arms) = len
  <2> DEFINE S == {arms[n] : n \in 1 .. len}
  <2>1. arms \in [1 .. len -> S]
    BY <1>3
  <2> HIDE DEF S
  <2>2. arms \in Seq(S)
    BY <2>1, SeqDef
  <2>3. DOMAIN arms = 1 .. len /\ DOMAIN arms = 1 .. Len(arms) /\ Len(arms) \in Nat
    BY <2>1, <2>2, LenProperties
  <2> QED BY <2>3
<1> QED BY <1>1, <1>2, <1>4, <1>5

\* Whenever the expansion compiles, a call of the generated client reaches the
\* arm of Service::call that decodes the type the client encoded and runs the
\* method the user called.
THEOREM DispatchCorrect == Spec => []DispatchRight
<1>1. MacroInv /\ WrittenInv => DispatchRight
  <2> SUFFICES ASSUME MacroInv, WrittenInv, Compiles(expanded), NEW s \in DOMAIN expanded,
                      NEW j \in DOMAIN expanded[s].methods
               PROVE  LET sent == Sends(expanded[s], j)
                          n == SelectInSeq(Arms(expanded[s]),
                                           LAMBDA arm : arm.pattern = sent.method)
                      IN  /\ n > 0
                          /\ Arms(expanded[s])[n].decodes = sent.request
                          /\ Arms(expanded[s])[n].calls = expanded[s].methods[j].ident
    BY DEF DispatchRight
  <2>1. Listed(expanded[s].methods)
    BY DEF MacroInv, Positions, WrittenInv, TraitsWritten, TraitWritten
  <2>2. PICK arms, ident, len :
          arms = Arms(expanded[s]) /\ ident = expanded[s].methods[j].ident
          /\ len = Len(expanded[s].methods)
    OBVIOUS
  <2>3. len \in Nat /\ DOMAIN expanded[s].methods = 1 .. len /\ j \in 1 .. len
    BY <2>1, <2>2, ListedLength
  <2>4. /\ Len(arms) = len
        /\ \A n \in 1 .. len : arms[n].pattern = expanded[s].methods[n].ident
        /\ arms[j].decodes = RequestIdent(ident) /\ arms[j].calls = ident
    BY <2>1, <2>2, <2>3, ArmsShape
  <2>5. \A n \in 1 .. len : arms[n].pattern = ident <=> n = j
    <3>1. \A n \in 1 .. len : expanded[s].methods[n].ident = ident => n = j
      BY <2>2, <2>3, MethodsDiffer DEF Compiles
    <3> QED BY <2>2, <2>3, <2>4, <3>1
  <2>6. {n \in 1 .. Len(arms) : arms[n].pattern = ident} = {j}
    BY <2>3, <2>4, <2>5
  <2>7. Min({j}) = j
    <3>1. j <= j
      BY <2>3
    <3> QED BY <3>1 DEF Min
  <2>8. SelectInSeq(arms, LAMBDA arm : arm.pattern = ident) = j
    BY <2>6, <2>7 DEF SelectInSeq
  <2>9. Sends(expanded[s], j) = [method |-> ident, request |-> RequestIdent(ident)]
    BY <2>2 DEF Sends
  <2>10. j > 0
    BY <2>3
  <2> QED BY <2>2, <2>4, <2>8, <2>9, <2>10
<1> QED BY <1>1, WrittenInvariance, PTL


-----------------------------------------------------------------------------
(* The rules suffice.                                                      *)

NameChar == Lower \cup Upper \cup Digit \cup Mark \cup Suffix

\* What the expansion of a trait that follows the rules is put together from.
TidyMethod(method) ==
  /\ method.ident \in Ident /\ Conventional(method.ident)
  /\ method.ident \notin OwnFns /\ method.ident \notin ArcFns
  /\ \A n \in DOMAIN method.args : method.args[n].kind = "ident"
  /\ \A n, l \in DOMAIN method.args : method.args[n].name = method.args[l].name => n = l

Tidy(trait) ==
  /\ trait.ident \in Ident
  /\ Last(trait.ident) \notin {"Request", "Response"}
  /\ \A j \in DOMAIN trait.methods : TidyMethod(trait.methods[j])
  /\ \A j, l \in DOMAIN trait.methods : trait.methods[j].ident = trait.methods[l].ident => j = l

\* A camel form is a name, and no empty one.
LEMMA CamelIsName ==
  ASSUME NEW ident \in Ident, Conventional(ident)
  PROVE  SnakeToCamel(ident) \in Seq(NameChar) /\ SnakeToCamel(ident) # <<>>
<1>1. SnakeToCamel(ident) \in Seq(Camelled) /\ Len(SnakeToCamel(ident)) \in Nat \ {0}
  BY CamelBegins
<1>2. Camelled \subseteq NameChar
  BY DEF Camelled, NameChar
<1>3. SnakeToCamel(ident) \in Seq(NameChar)
  BY <1>1, <1>2, SeqMonotonic
<1>4. Len(<<>>) = 0
  BY EmptySeq
<1> QED BY <1>1, <1>3, <1>4

\* Names that are made up of conventional names are identifiers.
LEMMA ConventionalFormats ==
  ASSUME NEW ident \in Ident, Conventional(ident)
  PROVE  Formats(RequestIdent(ident))
<1>1. PICK camel : camel = SnakeToCamel(ident)
  OBVIOUS
<1>2. camel \in Seq(NameChar) /\ camel # <<>>
  BY <1>1, CamelIsName
<1>3. Head(Append(camel, "Request")) = Head(camel)
  BY <1>2, HeadTailAppend
<1>4. Head(camel) = camel[1]
  BY <1>2
<1>5. camel[1] \in Upper
  BY <1>1, CamelBegins
<1>6. camel[1] \notin Digit /\ camel[1] # "R#"
  BY <1>5, NamesAssumption DEF Mark
<1> QED BY <1>1, <1>3, <1>4, <1>6, Zenon DEF Formats, RequestIdent

\* An item of the module that is named base plus a suffix.
Made(x, trait, n, base, suffix, kind) ==
  /\ x = ModuleItem(1, n, Append(base, suffix), kind)
  /\ \/ n = 0 /\ base = trait.ident /\ suffix = "Server" /\ kind = "server"
     \/ n = 0 /\ base = trait.ident /\ suffix = "Client" /\ kind = "client"
     \/ n = 0 /\ base = Append(trait.ident, "Client") /\ suffix = "Builder" /\ kind = "builder"
     \/ /\ n \in DOMAIN trait.methods /\ base = SnakeToCamel(trait.methods[n].ident)
        /\ suffix = "Request" /\ kind = "request"
     \/ /\ n \in DOMAIN trait.methods /\ base = SnakeToCamel(trait.methods[n].ident)
        /\ suffix = "Response" /\ kind = "response"

IsMade(x, trait) == \E n, base, suffix, kind : Made(x, trait, n, base, suffix, kind)

\* The items of the other scopes.
IsFn(x, trait) ==
  \E n \in DOMAIN trait.methods : x = Item(<<"trait", 1>>, trait.methods[n].ident, <<1, n, "fn">>)
IsField(x, trait) ==
  \E n \in DOMAIN trait.methods : \E l \in DOMAIN trait.methods[n].args :
    x = Item(<<"fields", 1, n>>, trait.methods[n].args[l].name, <<1, n, l>>)
IsOwn(x) == \E name \in OwnFns : x = Item(<<"client", 1>>, name, <<1, 0, "own">>)
IsCall(x, trait) ==
  \E n \in DOMAIN trait.methods : x = Item(<<"client", 1>>, trait.methods[n].ident, <<1, n, "fn">>)

\* There are no others.
LEMMA ItemKinds ==
  ASSUME NEW trait, NEW x \in Items(1, trait), trait.ident \in Ident
  PROVE  \/ x = ModuleItem(1, 0, trait.ident, "trait") \/ IsMade(x, trait)
         \/ IsFn(x, trait) \/ IsField(x, trait) \/ IsOwn(x) \/ IsCall(x, trait)
<1>1. CASE x \in TraitService(1, trait)
  BY <1>1, Zenon DEF TraitService, IsFn
<1>2. CASE x \in StructServer(1, trait)
  BY <1>2, Zenon DEF StructServer, IsMade, Made
<1>3. CASE x \in DeriveRequests(1, trait)
  <2>1. PICK n \in DOMAIN trait.methods :
          \/ x = ModuleItem(1, n, RequestIdent(trait.methods[n].ident), "request")
          \/ \E l \in DOMAIN trait.methods[n].args :
               x = Item(<<"fields", 1, n>>, trait.methods[n].args[l].name, <<1, n, l>>)
    BY <1>3, Zenon DEF DeriveRequests
  <2> QED BY <2>1, Zenon DEF IsMade, Made, IsField, RequestIdent
<1>4. CASE x \in DeriveResponses(1, trait)
  BY <1>4, Zenon DEF DeriveResponses, IsMade, Made, ResponseIdent
<1>5. CASE x \in ImplClient(1, trait)
  <2>1. trait.ident \o <<"Client", "Builder">> = Append(Append(trait.ident, "Client"), "Builder")
    <3>1. trait.ident \in Seq(NameChar) /\ "Client" \in NameChar /\ "Builder" \in NameChar
      BY DEF Ident, NameChar, Suffix
    <3>2. Append(trait.ident, "Client") = trait.ident \o <<"Client">>
          /\ Append(trait.ident, "Client") \in Seq(NameChar)
      BY <3>1, AppendIsConcat, AppendProperties
    <3>3. Append(Append(trait.ident, "Client"), "Builder")
          = (trait.ident \o <<"Client">>) \o <<"Builder">>
      BY <3>1, <3>2, AppendIsConcat
    <3>4. <<"Client">> \in Seq(NameChar) /\ <<"Builder">> \in Seq(NameChar)
      BY <3>1
    <3>5. (trait.ident \o <<"Client">>) \o <<"Builder">>
          = trait.ident \o (<<"Client">> \o <<"Builder">>)
      BY <3>1, <3>4, ConcatAssociative
    <3>6. <<"Client">> \o <<"Builder">> = <<"Client", "Builder">>
      <4>1. PICK one, two, both : one = <<"Client">> /\ two = <<"Builder">> /\ both = one \o two
        OBVIOUS
      <4>2. /\ one \in Seq(NameChar) /\ two \in Seq(NameChar) /\ Len(one) = 1 /\ Len(two) = 1
            /\ one[1] = "Client" /\ two[1] = "Builder"
        BY <3>4, <4>1
      <4>3. /\ Len(both) = 2 /\ both \in Seq(NameChar)
            /\ both[1] = "Client" /\ both[2] = "Builder"
        BY <4>1, <4>2, ConcatProperties
      <4>4. <<"Client", "Builder">> \in Seq(NameChar)
        BY <3>1
      <4>5. both = <<"Client", "Builder">>
        BY <4>3, <4>4, SeqEqual
      <4> QED BY <4>1, <4>5
    <3> QED BY <3>3, <3>5, <3>6
  <2> QED BY <1>5, <2>1, Zenon DEF ImplClient, IsMade, Made, IsOwn, IsCall
<1> QED BY <1>1, <1>2, <1>3, <1>4, <1>5 DEF Items

\* The parts of a name that was made up.
LEMMA MadeParts ==
  ASSUME NEW trait, Tidy(trait), NEW x, NEW n, NEW base, NEW suffix, NEW kind,
         Made(x, trait, n, base, suffix, kind)
  PROVE  /\ base \in Seq(NameChar) /\ base # <<>> /\ suffix \in NameChar
         /\ x.scope = <<"module">> /\ x.name = Append(base, suffix)
         /\ x = ModuleItem(1, n, Append(base, suffix), kind)
<1>1. suffix \in NameChar
  BY DEF Made, NameChar, Suffix
<1>2. x.scope = <<"module">> /\ x.name = Append(base, suffix)
      /\ x = ModuleItem(1, n, Append(base, suffix), kind)
  BY DEF Made, ModuleItem, Item
<1>3. trait.ident \in Seq(NameChar) /\ trait.ident # <<>> /\ "Client" \in NameChar
  BY DEF Tidy, Ident, NameChar, Suffix
<1>4. Append(trait.ident, "Client") \in Seq(NameChar) /\ Append(trait.ident, "Client") # <<>>
  BY <1>3, AppendProperties
<1>5. \A m \in DOMAIN trait.methods :
        /\ SnakeToCamel(trait.methods[m].ident) \in Seq(NameChar)
        /\ SnakeToCamel(trait.methods[m].ident) # <<>>
  BY CamelIsName DEF Tidy, TidyMethod
<1>6. base \in Seq(NameChar) /\ base # <<>>
  BY <1>3, <1>4, <1>5, Zenon DEF Made
<1> QED BY <1>1, <1>2, <1>6

\* Two names that are made up differ.
LEMMA MadeOnce ==
  ASSUME NEW trait, Tidy(trait), NEW x, IsMade(x, trait), NEW y, IsMade(y, trait), x.name = y.name
  PROVE  x = y
<1>1. PICK n, base, suffix, kind : Made(x, trait, n, base, suffix, kind)
  BY Zenon DEF IsMade
<1>2. PICK m, stem, ending, sort : Made(y, trait, m, stem, ending, sort)
  BY Zenon DEF IsMade
<1>3. base = stem /\ suffix = ending
  <2>1. /\ base \in Seq(NameChar) /\ suffix \in NameChar /\ x.name = Append(base, suffix)
        /\ stem \in Seq(NameChar) /\ ending \in NameChar /\ y.name = Append(stem, ending)
    BY <1>1, <1>2, MadeParts
  <2>2. Append(base, suffix) = Append(stem, ending)
    BY <2>1
  <2>3. /\ base \in Seq(NameChar) /\ suffix \in NameChar
        /\ stem \in Seq(NameChar) /\ ending \in NameChar
    BY <2>1
  <2>4. Append(base, suffix) = Append(stem, ending) <=> base = stem /\ suffix = ending
    BY <2>3, AppendInjective
  <2> QED BY <2>2, <2>4
<1>4. kind = sort
  BY <1>1, <1>2, <1>3 DEF Made
<1>5. n = m
  <2>1. CASE suffix \in {"Request", "Response"}
    <3>1. /\ n \in DOMAIN trait.methods /\ base = SnakeToCamel(trait.methods[n].ident)
          /\ m \in DOMAIN trait.methods /\ stem = SnakeToCamel(trait.methods[m].ident)
      BY <1>1, <1>2, <1>3, <2>1 DEF Made
    <3>2. trait.methods[n].ident = trait.methods[m].ident
      BY <1>3, <3>1, CamelInjective DEF Tidy, TidyMethod
    <3> QED BY <3>1, <3>2, Zenon DEF Tidy
  <2>2. CASE suffix \notin {"Request", "Response"}
    BY <1>1, <1>2, <1>3, <2>2 DEF Made
  <2> QED BY <2>1, <2>2
<1> QED BY <1>1, <1>2, <1>3, <1>4, <1>5, Zenon DEF Made

\* None of them is the name of the trait, or Response.
LEMMA MadeNew ==
  ASSUME NEW trait, Tidy(trait), NEW x, IsMade(x, trait)
  PROVE  x.name # trait.ident /\ x.name # <<"Response">>
<1>1. PICK n, base, suffix, kind : Made(x, trait, n, base, suffix, kind)
  BY Zenon DEF IsMade
<1>2. /\ base \in Seq(NameChar) /\ base # <<>> /\ suffix \in NameChar
      /\ x.name = Append(base, suffix)
  BY <1>1, MadeParts
<1>3. /\ Len(x.name) = Len(base) + 1 /\ Len(base) \in Nat \ {0}
      /\ x.name[Len(base) + 1] = suffix
  BY <1>2, AppendProperties, EmptySeq
<1>4. Last(x.name) = suffix
  BY <1>3 DEF Last
<1>5. Len(<<"Response">>) = 1
  OBVIOUS
<1>6. CASE suffix \in {"Request", "Response"}
  BY <1>3, <1>4, <1>5, <1>6 DEF Tidy
<1>7. CASE suffix \notin {"Request", "Response"}
  <2>1. trait.ident \in Seq(NameChar) /\ "Client" \in NameChar
    BY DEF Tidy, Ident, NameChar, Suffix
  <2>2. Len(trait.ident) \in Nat /\ Len(Append(trait.ident, "Client")) = Len(trait.ident) + 1
    BY <2>1, AppendProperties, LenProperties
  <2>3. base = trait.ident \/ base = Append(trait.ident, "Client")
    BY <1>1, <1>7 DEF Made
  <2>4. Len(base) >= Len(trait.ident)
    BY <2>2, <2>3
  <2> QED BY <1>3, <1>5, <2>2, <2>4
<1> QED BY <1>6, <1>7


\* Where the items of an expansion are declared.
LEMMA Scopes ==
  ASSUME NEW trait, Tidy(trait), NEW x
  PROVE  /\ x = ModuleItem(1, 0, trait.ident, "trait") => x.scope[1] = "module"
         /\ IsMade(x, trait) => x.scope[1] = "module"
         /\ IsFn(x, trait) => x.scope[1] = "trait"
         /\ IsField(x, trait) => x.scope[1] = "fields"
         /\ IsOwn(x) => x.scope[1] = "client"
         /\ IsCall(x, trait) => x.scope[1] = "client"
<1>1. x = ModuleItem(1, 0, trait.ident, "trait") => x.scope[1] = "module"
  BY DEF ModuleItem, Item
<1>2. IsMade(x, trait) => x.scope[1] = "module"
  BY DEF IsMade, Made, ModuleItem, Item
<1>3. IsFn(x, trait) => x.scope[1] = "trait"
  BY DEF IsFn, Item
<1>4. IsField(x, trait) => x.scope[1] = "fields"
  BY DEF IsField, Item
<1>5. IsOwn(x) => x.scope[1] = "client"
  BY DEF IsOwn, Item
<1>6. IsCall(x, trait) => x.scope[1] = "client"
  BY DEF IsCall, Item
<1> QED BY <1>1, <1>2, <1>3, <1>4, <1>5, <1>6

\* Nothing is declared twice: in the module, in the trait, among the fields of a
\* request and in the client.
LEMMA TidyOnce ==
  ASSUME NEW trait, Tidy(trait), NEW x \in Items(1, trait), NEW y \in Items(1, trait),
         x.scope = y.scope, x.name = y.name
  PROVE  x = y
<1> DEFINE IsTrait(z) == z = ModuleItem(1, 0, trait.ident, "trait")
<1>1. /\ IsTrait(x) \/ IsMade(x, trait) \/ IsFn(x, trait) \/ IsField(x, trait)
         \/ IsOwn(x) \/ IsCall(x, trait)
      /\ IsTrait(y) \/ IsMade(y, trait) \/ IsFn(y, trait) \/ IsField(y, trait)
         \/ IsOwn(y) \/ IsCall(y, trait)
  BY ItemKinds DEF Tidy
<1>2. \A z : IsTrait(z) => z.name = trait.ident
  BY DEF ModuleItem, Item
<1>3. CASE x.scope[1] = "module"
  <2>1. (IsTrait(x) \/ IsMade(x, trait)) /\ (IsTrait(y) \/ IsMade(y, trait))
    <3>1. ~ IsFn(x, trait) /\ ~ IsField(x, trait) /\ ~ IsOwn(x) /\ ~ IsCall(x, trait)
      BY <1>3, Scopes
    <3>2. ~ IsFn(y, trait) /\ ~ IsField(y, trait) /\ ~ IsOwn(y) /\ ~ IsCall(y, trait)
      BY <1>3, Scopes
    <3> QED BY <1>1, <3>1, <3>2, Zenon
  <2> QED BY <1>2, <2>1, MadeOnce, MadeNew, Zenon
<1>4. CASE x.scope[1] = "trait"
  <2>1. IsFn(x, trait) /\ IsFn(y, trait)
    <3>1. /\ ~ IsTrait(x) /\ ~ IsMade(x, trait) /\ ~ IsField(x, trait)
          /\ ~ IsOwn(x) /\ ~ IsCall(x, trait)
      BY <1>4, Scopes
    <3>2. /\ ~ IsTrait(y) /\ ~ IsMade(y, trait) /\ ~ IsField(y, trait)
          /\ ~ IsOwn(y) /\ ~ IsCall(y, trait)
      BY <1>4, Scopes
    <3> QED BY <1>1, <3>1, <3>2, Zenon
  <2>2. PICK n \in DOMAIN trait.methods :
          x = Item(<<"trait", 1>>, trait.methods[n].ident, <<1, n, "fn">>)
    BY <2>1, Zenon DEF IsFn
  <2>3. PICK m \in DOMAIN trait.methods :
          y = Item(<<"trait", 1>>, trait.methods[m].ident, <<1, m, "fn">>)
    BY <2>1, Zenon DEF IsFn
  <2>4. trait.methods[n].ident = trait.methods[m].ident
    BY <2>2, <2>3 DEF Item
  <2>5. n = m
    BY <2>4, Zenon DEF Tidy
  <2> QED BY <2>2, <2>3, <2>5
<1>5. CASE x.scope[1] = "fields"
  <2>1. IsField(x, trait) /\ IsField(y, trait)
    <3>1. ~ IsTrait(x) /\ ~ IsMade(x, trait) /\ ~ IsFn(x, trait) /\ ~ IsOwn(x) /\ ~ IsCall(x, trait)
      BY <1>5, Scopes
    <3>2. ~ IsTrait(y) /\ ~ IsMade(y, trait) /\ ~ IsFn(y, trait) /\ ~ IsOwn(y) /\ ~ IsCall(y, trait)
      BY <1>5, Scopes
    <3> QED BY <1>1, <3>1, <3>2, Zenon
  <2>a. PICK n \in DOMAIN trait.methods : \E l \in DOMAIN trait.methods[n].args :
          x = Item(<<"fields", 1, n>>, trait.methods[n].args[l].name, <<1, n, l>>)
    BY <2>1, Zenon DEF IsField
  <2>2. PICK l \in DOMAIN trait.methods[n].args :
          x = Item(<<"fields", 1, n>>, trait.methods[n].args[l].name, <<1, n, l>>)
    BY <2>a, Zenon
  <2>b. PICK m \in DOMAIN trait.methods : \E p \in DOMAIN trait.methods[m].args :
          y = Item(<<"fields", 1, m>>, trait.methods[m].args[p].name, <<1, m, p>>)
    BY <2>1, Zenon DEF IsField
  <2>3. PICK p \in DOMAIN trait.methods[m].args :
          y = Item(<<"fields", 1, m>>, trait.methods[m].args[p].name, <<1, m, p>>)
    BY <2>b, Zenon
  <2>4. /\ <<"fields", 1, n>> = <<"fields", 1, m>>
        /\ trait.methods[n].args[l].name = trait.methods[m].args[p].name
    BY <2>2, <2>3 DEF Item
  <2>5. n = m
    BY <2>4
  <2>6. l = p
    BY <2>4, <2>5, Zenon DEF Tidy, TidyMethod
  <2> QED BY <2>2, <2>3, <2>5, <2>6
<1>6. CASE x.scope[1] = "client"
  <2>1. (IsOwn(x) \/ IsCall(x, trait)) /\ (IsOwn(y) \/ IsCall(y, trait))
    <3>1. ~ IsTrait(x) /\ ~ IsMade(x, trait) /\ ~ IsFn(x, trait) /\ ~ IsField(x, trait)
      BY <1>6, Scopes
    <3>2. ~ IsTrait(y) /\ ~ IsMade(y, trait) /\ ~ IsFn(y, trait) /\ ~ IsField(y, trait)
      BY <1>6, Scopes
    <3> QED BY <1>1, <3>1, <3>2, Zenon
  <2>2. \A z : IsOwn(z) => z.name \in OwnFns /\ z = Item(<<"client", 1>>, z.name, <<1, 0, "own">>)
    BY DEF IsOwn, Item
  <2>3. \A z : IsCall(z, trait) =>
          \E n \in DOMAIN trait.methods :
            /\ z.name = trait.methods[n].ident
            /\ z = Item(<<"client", 1>>, trait.methods[n].ident, <<1, n, "fn">>)
    BY DEF IsCall, Item
  <2>4. \A n \in DOMAIN trait.methods : trait.methods[n].ident \notin OwnFns
    BY DEF Tidy, TidyMethod
  <2>5. CASE IsOwn(x) /\ IsOwn(y)
    BY <2>2, <2>5
  <2>6. CASE IsCall(x, trait) /\ IsCall(y, trait)
    <3>1. PICK n \in DOMAIN trait.methods :
            /\ x.name = trait.methods[n].ident
            /\ x = Item(<<"client", 1>>, trait.methods[n].ident, <<1, n, "fn">>)
      BY <2>3, <2>6, Zenon
    <3>2. PICK m \in DOMAIN trait.methods :
            /\ y.name = trait.methods[m].ident
            /\ y = Item(<<"client", 1>>, trait.methods[m].ident, <<1, m, "fn">>)
      BY <2>3, <2>6, Zenon
    <3>3. n = m
      BY <3>1, <3>2, Zenon DEF Tidy
    <3> QED BY <3>1, <3>2, <3>3
  <2> QED BY <2>1, <2>2, <2>3, <2>4, <2>5, <2>6, Zenon
<1>7. x.scope[1] \in {"module", "trait", "fields", "client"}
  BY <1>1, Scopes
<1> QED BY <1>3, <1>4, <1>5, <1>6, <1>7

LEMMA TidyCompiles ==
  ASSUME NEW traits, DOMAIN traits = {1}, Tidy(traits[1])
  PROVE  Compiles(traits)
<1>1. Expansion(traits) = Items(1, traits[1])
  BY DEF Expansion
<1>2. DeclaredOnce(Expansion(traits))
  <2> SUFFICES ASSUME NEW x \in Items(1, traits[1]), NEW y \in Items(1, traits[1]),
                      x.scope = y.scope, x.name = y.name
               PROVE  x = y
    BY <1>1, Zenon DEF DeclaredOnce
  <2> QED BY TidyOnce
<1>3. ASSUME NEW x \in Items(1, traits[1]), x.scope = <<"module">>
      PROVE  x.name # <<"Response">>
  <2>1. x.scope[1] = "module"
    BY <1>3
  <2>2. x = ModuleItem(1, 0, traits[1].ident, "trait") \/ IsMade(x, traits[1])
    <3>1. ~ IsFn(x, traits[1]) /\ ~ IsField(x, traits[1]) /\ ~ IsOwn(x) /\ ~ IsCall(x, traits[1])
      BY <2>1, Scopes
    <3> QED BY <3>1, ItemKinds DEF Tidy
  <2>3. ASSUME x = ModuleItem(1, 0, traits[1].ident, "trait") PROVE x.name # <<"Response">>
    <3>1. x.name = traits[1].ident
      BY <2>3 DEF ModuleItem, Item
    <3>2. Last(<<"Response">>) = "Response"
      BY DEF Last
    <3> QED BY <3>1, <3>2 DEF Tidy
  <2> QED BY <2>2, <2>3, MadeNew
<1>4. \A t_1 \in DOMAIN traits : \A m \in Range(traits[t_1].methods) :
        /\ m.ident \notin ArcFns
        /\ \A n \in DOMAIN m.args : m.args[n].kind = "ident"
  BY DEF Tidy, TidyMethod, Range
<1> QED BY <1>1, <1>2, <1>3, <1>4 DEF Compiles

\* Fields that are selected by different names have different names.
LEMMA SelectedTidy ==
  ASSUME NEW method, NEW given, MethodWritten(method, given), MethodFollows(given),
         given.ident \in Ident, Wellformed(given),
         Len(given.args) \in Nat, DOMAIN given.args = 1 .. Len(given.args),
         \A n \in DOMAIN given.args : given.args[n].kind \in ArgKind
  PROVE  TidyMethod(method)
<1>1. method.ident \in Ident /\ Conventional(method.ident)
      /\ method.ident \notin OwnFns /\ method.ident \notin ArcFns
  BY DEF MethodWritten, TakenOver, MethodFollows
<1>2. PICK at \in [DOMAIN method.args -> TypedArgs(given)] :
        /\ \A m, n \in DOMAIN method.args : m < n => at[m] < at[n]
        /\ \A n \in DOMAIN method.args : method.args[n] = given.args[at[n]]
  BY Zenon DEF MethodWritten, TakenOver, Selects
<1>3. TypedArgs(given) \subseteq DOMAIN given.args
  BY DEF TypedArgs
<1>4. ASSUME NEW n \in DOMAIN method.args PROVE method.args[n].kind = "ident"
  <2>1. PICK j \in TypedArgs(given) : j = at[n] /\ method.args[n] = given.args[j]
    BY <1>2
  <2>2. j \in DOMAIN given.args /\ given.args[j].kind \in ArgKind \ Receivers
    BY DEF TypedArgs
  <2>3. given.args[j].kind # "mutident"
    BY <2>2 DEF MethodFollows
  <2>4. given.args[j].kind # "pattern"
    <3>1. j < Len(given.args) + 1
      BY <2>2
    <3> QED BY <2>2, <3>1 DEF Wellformed, Offending
  <2>5. given.args[j].kind = "ident"
    BY <2>2, <2>3, <2>4 DEF ArgKind
  <2> QED BY <2>1, <2>5
<1>5. ASSUME NEW n \in DOMAIN method.args, NEW l \in DOMAIN method.args,
             method.args[n].name = method.args[l].name
      PROVE  n = l
  <2>1. at[n] \in DOMAIN given.args /\ at[l] \in DOMAIN given.args
    BY <1>2, <1>3
  <2>2. given.args[at[n]].name = given.args[at[l]].name
    BY <1>2, <1>5
  <2>3. at[n] = at[l]
    BY <2>1, <2>2, Zenon DEF MethodFollows
  <2>4. DOMAIN method.args \subseteq Nat
    BY ListedLength DEF MethodWritten
  <2>5. at[n] \in Nat
    BY <2>1
  <2>6. ~ (n < l) /\ ~ (l < n)
    BY <1>2, <2>3, <2>5
  <2> QED BY <2>4, <2>6
<1> QED BY <1>1, <1>4, <1>5 DEF TidyMethod

\* The names in a source, and the arguments of its wellformed methods.
LEMMA SourceIdents ==
  ASSUME Given, NEW s \in 1 .. Len(source)
  PROVE  /\ source[s].ident \in Ident
         /\ \A j \in 1 .. Len(source[s].methods) : source[s].methods[j].ident \in Ident
<1>1. DOMAIN source = 1 .. Len(source)
  BY SourceLength
<1>2. source[s].ident \in Ident
  BY <1>1, SourcesAssumption, Zenon DEF Given
<1>3. DOMAIN source[s].methods = 1 .. Len(source[s].methods)
  BY SourceShape
<1>4. \A j \in DOMAIN source[s].methods : source[s].methods[j].ident \in Ident
  BY <1>1, SourcesAssumption, Zenon DEF Given
<1> QED BY <1>2, <1>3, <1>4

\* A trait that follows the rules is expanded tidily.
LEMMA ExpandedTidy ==
  ASSUME MacroInv, WrittenInv, FollowsRules, Finished
  PROVE  DOMAIN expanded = {1} /\ Tidy(expanded[1])
<1>1. Given /\ Len(source) = 1 /\ 1 \in 1 .. Len(source)
  BY DEF MacroInv, FollowsRules
<1>2. t = 2
  BY <1>1 DEF Finished, MacroInv, Positions
<1>3. DOMAIN expanded = {1}
  BY <1>2 DEF MacroInv, Positions
<1>4. 1 \in 1 .. t - 1
  BY <1>2
<1>5. TraitWritten(expanded[1], source[1])
  BY <1>4 DEF WrittenInv, TraitsWritten
<1>6. MethodsUpTo(1, Len(source[1].methods))
  BY <1>4 DEF MacroInv, TraitsRead
<1>7. PICK trait, given : trait = expanded[1] /\ given = source[1]
  OBVIOUS
<1>8. /\ Listed(trait.methods) /\ Len(trait.methods) = Len(given.methods)
      /\ trait.ident = given.ident
      /\ \A j \in 1 .. Len(trait.methods) : MethodWritten(trait.methods[j], given.methods[j])
  BY <1>5, <1>7, Zenon DEF TraitWritten
<1>9. /\ DOMAIN trait.methods = 1 .. Len(given.methods)
      /\ DOMAIN given.methods = 1 .. Len(given.methods)
  BY <1>1, <1>7, <1>8, ListedLength, SourceShape
<1>10. trait.ident \in Ident /\ Last(trait.ident) \notin {"Request", "Response"}
  BY <1>1, <1>7, <1>8, SourceIdents DEF FollowsRules
<1>11. ASSUME NEW j \in DOMAIN trait.methods PROVE TidyMethod(trait.methods[j])
  <2>1. j \in 1 .. Len(given.methods) /\ j \in DOMAIN given.methods
    BY <1>9
  <2>2. MethodWritten(trait.methods[j], given.methods[j]) /\ MethodFollows(given.methods[j])
    BY <1>7, <1>8, <2>1 DEF FollowsRules
  <2>3. given.methods[j].ident \in Ident /\ Wellformed(given.methods[j])
    BY <1>1, <1>6, <1>7, <2>1, SourceIdents DEF MethodsUpTo
  <2>4. /\ Len(given.methods[j].args) \in Nat
        /\ DOMAIN given.methods[j].args = 1 .. Len(given.methods[j].args)
        /\ \A n \in DOMAIN given.methods[j].args : given.methods[j].args[n].kind \in ArgKind
    BY <1>1, <1>7, <2>1, SourceShape
  <2> QED BY <2>2, <2>3, <2>4, SelectedTidy
<1>12. ASSUME NEW j \in DOMAIN trait.methods, NEW l \in DOMAIN trait.methods,
              trait.methods[j].ident = trait.methods[l].ident
       PROVE  j = l
  <2>1. given.methods[j].ident = given.methods[l].ident
    BY <1>8, <1>9, <1>12 DEF MethodWritten, TakenOver
  <2> QED BY <1>7, <1>9, <2>1 DEF FollowsRules
<1>13. Tidy(trait)
  BY <1>10, <1>11, <1>12, Zenon DEF Tidy
<1> QED BY <1>3, <1>7, <1>13

\* Of a trait that follows the rules only the attribute can be the end.
PanicInv == FollowsRules /\ stage = "panicked" => source[t].attr = "unreadable"

LEMMA PanicInit == Init => PanicInv
  BY DEF Init, PanicInv

LEMMA PanicStep == MacroInv /\ WrittenInv /\ PanicInv /\ [Next]_macroVars => PanicInv'
<1> SUFFICES ASSUME MacroInv, WrittenInv, PanicInv, [Next]_macroVars PROVE PanicInv'
  OBVIOUS
<1>1. FollowsRules' <=> FollowsRules
  <2>1. source' = source
    BY DEF Next, StartMethod, TypedArg, PatternArg, ReceiverArg, RejectMethod, AcceptMethod,
           AttributePanics, AttributeRejected, NamePanics, Generate, macroVars
  <2> QED BY <2>1 DEF FollowsRules, MethodFollows, Conventional
<1>2. ASSUME NamePanics, FollowsRules PROVE FALSE
  <2>1. /\ stage = "trait" /\ t <= Len(source) /\ i = Len(source[t].methods)
        /\ ~AllFormat(Parsed)
    BY <1>2 DEF NamePanics, TraitParsed
  <2>2. t = 1 /\ Given /\ 1 \in 1 .. Len(source)
    BY <1>2, <2>1 DEF FollowsRules, MacroInv, Positions
  <2>3. Listed(methods) /\ Len(methods) = Len(source[1].methods)
    BY <2>1, <2>2 DEF WrittenInv, MethodsWritten
  <2>4. DOMAIN methods = 1 .. Len(source[1].methods)
        /\ DOMAIN source[1].methods = 1 .. Len(source[1].methods)
    BY <2>2, <2>3, ListedLength, SourceShape
  <2>5. ASSUME NEW j \in DOMAIN methods PROVE Formats(RequestIdent(methods[j].ident))
    <3>1. methods[j].ident = source[1].methods[j].ident
      BY <2>2, <2>3, <2>4 DEF WrittenInv, MethodsWritten, MethodWritten, TakenOver
    <3>2. Conventional(source[1].methods[j].ident) /\ source[1].methods[j].ident \in Ident
      BY <1>2, <2>2, <2>4, SourceIdents DEF FollowsRules, MethodFollows
    <3> QED BY <3>1, <3>2, ConventionalFormats
  <2> QED BY <2>1, <2>5 DEF AllFormat, Parsed
<1>3. CASE AttributePanics
  BY <1>3 DEF AttributePanics, PanicInv
<1>4. CASE NamePanics
  BY <1>1, <1>2, <1>4 DEF PanicInv
<1>5. CASE UNCHANGED macroVars
  BY <1>1, <1>5 DEF PanicInv, macroVars
<1>6. CASE StartMethod \/ TypedArg \/ PatternArg \/ ReceiverArg \/ RejectMethod \/ AcceptMethod
           \/ AttributeRejected \/ Generate
  <2>1. stage' # "panicked"
    BY <1>6 DEF StartMethod, TypedArg, PatternArg, ReceiverArg, InArgs, RejectMethod, AcceptMethod,
                AttributeRejected, Generate, TraitParsed
  <2> QED BY <2>1 DEF PanicInv
<1> QED BY <1>3, <1>4, <1>5, <1>6 DEF Next

\* The expansion of a trait that follows the rules compiles, whatever its
\* methods are called and however many there are, and no name that the macro
\* makes up for it panics.
THEOREM RulesCorrect == Spec => []RulesSuffice
<1>1. MacroInv /\ WrittenInv /\ PanicInv => RulesSuffice
  BY ExpandedTidy, TidyCompiles DEF RulesSuffice, PanicInv
<1>2. Spec => [](MacroInv /\ WrittenInv /\ PanicInv)
  BY MacroInit, MacroStep, WrittenInit, WrittenStep, PanicInit, PanicStep, PTL DEF Spec
<1> QED BY <1>1, <1>2, PTL
=============================================================================
