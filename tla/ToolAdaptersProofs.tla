------------------------- MODULE ToolAdaptersProofs -------------------------
(***************************************************************************)
(* What every framework adapter keeps to, for every list of tools, every   *)
(* mode, a local and a remote guard, and any number of installs and calls: *)
(* the verdicts of its guards, what they make of the arguments, and that a *)
(* tool is guarded once.                                                   *)
(*                                                                         *)
(* The invariant has two halves.  CallInv says of a call what its layers   *)
(* let through so far; InstallInv says of the layers around each door what *)
(* the installs that came this far have done to them.  An install's step   *)
(* is first brought into one form, WrapStep, that all frameworks share.    *)
(***************************************************************************)
EXTENDS ToolAdapters, SequenceTheorems, TLAPS

Guards == {"wrapper", "async_wrapper", "guarded_run_json", "guarded_invoke",
           "guarded", "guard_pretooluse"}
LayerNames == Guards \cup {"observer"}

\* The verdict of one layer.
Verdict == [layer : LayerNames, decision : Decisions]

CallTypeOK ==
    call \in [at : {"idle", "layers", "streaming", "ran", "stopped", "failed"}
                       \cup Stopping,
              tool : Nat, todo : Seq(LayerNames), judged : Seq(Verdict),
              args : {"asked", "rewritten", "stripped"},
              raised : BOOLEAN, stop : BOOLEAN, ran : BOOLEAN]

InstallTypeOK ==
    /\ install \in [next : 0 .. Len(config.tools) + 1, begun : Nat,
                    ended : Nat, raised : Nat]
    /\ install.begun = 0 => install.next = 0 /\ install.ended = 0

\* Observers are around streams, and nothing else is.
LayersTypeOK ==
    /\ layers \in [Tools -> [Doors -> Seq(LayerNames)]]
    /\ \A t \in Tools : \A d \in Doors :
           layers[t][d] \in Seq(IF d = "stream" THEN {"observer"} ELSE Guards)

TypeOK ==
    /\ config \in Configs
    /\ session \in {"none", "open", "ended"}
    /\ patched \in SUBSET Tools /\ registry \in SUBSET Tools
    /\ present \in SUBSET Tools /\ hooked \in BOOLEAN
    /\ LayersTypeOK /\ InstallTypeOK /\ CallTypeOK

-----------------------------------------------------------------------------
(* What is known of a call.                                                *)

\* What a verdict has the layer do that does not stop the call.
Passes(v) == Lets(v.layer, v.decision) \ Stopping

\* A call that is under way, or over with the tool run.
Passing == call.at \in {"layers", "streaming", "ran"}

\* Only observers are on the way of a stream, and they let the arguments be.
Streams ==
    /\ call.at = "layers" =>
           /\ call.todo \in Seq(Guards)
           /\ \A i \in DOMAIN call.judged : call.judged[i].layer # "observer"
    /\ call.at = "streaming" =>
           /\ \A i \in DOMAIN call.judged : call.judged[i].layer = "observer"
           /\ call.args = "asked"
    /\ call.at = "ran" /\ call.args # "asked" =>
           \A i \in DOMAIN call.judged : call.judged[i].layer # "observer"

\* Every verdict so far was one to go on with.
AllPassed ==
    Passing => \A i \in DOMAIN call.judged :
                   \/ call.judged[i].layer = "observer"
                   \/ Passes(call.judged[i]) # {}

\* What has stopped a call is its last verdict.
LastStopped ==
    call.at \in Stopping =>
        /\ call.judged # <<>>
        /\ LET last == call.judged[Len(call.judged)] IN
           last.layer \in Guards /\ call.at \in Lets(last.layer, last.decision)

\* The arguments are what some verdict made of them, or no verdict touched them.
ArgumentsNoted ==
    Passing =>
        /\ call.args = "stripped" =>
               \E i \in DOMAIN call.judged :
                   /\ call.judged[i].layer # "observer"
                   /\ "stripped" \in Passes(call.judged[i])
        /\ call.args = "asked" =>
               \A i \in DOMAIN call.judged :
                   \/ call.judged[i].layer = "observer"
                   \/ "asked" \in Passes(call.judged[i])

CallInv == Streams /\ AllPassed /\ LastStopped /\ ArgumentsNoted

-----------------------------------------------------------------------------
(* What is known of the layers.                                            *)

\* The doors behind which the function of a tool is.
LastDoors(shape) == {way[Len(way)] : way \in Ways(shape)}
Covered(t) == \A d \in LastDoors(Shape(t)) : Guarded(t, d)

\* The tools whose callables an install does not guard.
Exempt(t) == \/ config.framework = "openai" /\ Has(t, "slot")
             \/ config.framework = "autogenHook"

\* The first install has not come to the tool.
Fresh(t) == \/ install.begun = 0
            \/ install.begun = 1 /\ install.next # 0 /\ t >= install.next

\* An install has been past the tool without an exception.
Done(t) == install.ended > 0 \/ install.next > t

\* No door has two guards, but for a hook and a stream.
OnceEach ==
    \A t \in Tools : \A d \in Doors \ {"hook", "stream"} : Len(layers[t][d]) <= 1

\* What one install leaves of the tools that another one would wrap again.
FirstInstall ==
    \A t \in Tools :
        Shape(t) \in Rewrapped =>
            /\ Fresh(t) => \A d \in Doors : ~Guarded(t, d)
            /\ install.begun <= 1 =>
                   /\ ~Guarded(t, "invoke")
                   /\ Len(layers[t]["hook"]) <= 1 /\ Len(layers[t]["stream"]) <= 1

\* __agentguard_patched__ and run_json.
Patching ==
    \A t \in Tools :
        /\ t \in patched => Covered(t)
        /\ t \notin patched => ~Guarded(t, "run_json")
        /\ Shape(t) = "FunctionTool" =>
               /\ Guarded(t, "run_json") => install.raised > 0
               /\ t \notin patched /\ Guarded(t, "func") => install.raised > 0

DoneIsCovered == \A t \in Tools : Done(t) => Covered(t) \/ Exempt(t)

\* A tool that the framework does not know yet has no guard.
AbsentIsBare ==
    \A t \in Tools \ present : Shape(t) = "added" /\ ~Guarded(t, "slot")

InstallInv == OnceEach /\ FirstInstall /\ Patching /\ DoneIsCovered /\ AbsentIsBare

IInv == TypeOK /\ CallInv /\ InstallInv

-----------------------------------------------------------------------------
(* The configuration, the shapes of its tools and the doors of a shape.    *)

\* What the constants allow a configuration to be (AdapterAssumption).
LEMMA ConfigFacts ==
    ASSUME config \in Configs
    PROVE  /\ config.framework \in Frameworks
           /\ config.remote \in BOOLEAN
           /\ config.mode \in {"enforce", "monitor", "dry_run"}
           /\ config.tools \in Seq(UNION {ShapesOf[f] : f \in Frameworks})
           /\ Len(config.tools) \in Nat
           /\ Tools = 1 .. Len(config.tools)
           /\ \A t \in Tools : /\ Shape(t) \in ShapesOf[config.framework]
                               /\ Shape(t) \in DOMAIN DoorsOf
                               /\ t \in Nat \ {0}
                               /\ t <= Len(config.tools)
<1>1. /\ config \in ConfigSpace
      /\ \A i \in DOMAIN config.tools : config.tools[i] \in ShapesOf[config.framework]
  BY AdapterAssumption
<1>2. /\ config.framework \in Frameworks
      /\ config.remote \in BOOLEAN
      /\ config.mode \in {"enforce", "monitor", "dry_run"}
      /\ config.tools \in Seq(UNION {ShapesOf[f] : f \in Frameworks})
  BY <1>1 DEF ConfigSpace
<1>3. Len(config.tools) \in Nat /\ DOMAIN config.tools = 1 .. Len(config.tools)
  BY <1>2
<1>4. \A t \in Tools : Shape(t) \in ShapesOf[config.framework]
  BY <1>1 DEF Tools, Shape
<1>5. \A f \in Frameworks : ShapesOf[f] \subseteq DOMAIN DoorsOf
  BY DEF Frameworks, ShapesOf, DoorsOf
<1> QED
  BY <1>2, <1>3, <1>4, <1>5 DEF Tools

\* The doors of every shape are doors, and its function is behind them.
LEMMA ShapeFacts ==
    /\ \A shape \in DOMAIN DoorsOf : DoorsOf[shape] \subseteq Doors
    /\ LastDoors("FunctionTool") = {"func"}
    /\ LastDoors("StructuredTool") = {"func"}
    /\ LastDoors("AsyncTool") = {"func", "coroutine"}
    /\ \A shape \in DOMAIN DoorsOf \ {"FunctionTool", "StructuredTool", "AsyncTool"} :
           /\ LastDoors(shape) = DoorsOf[shape]
           /\ Ways(shape) = {<<door>> : door \in DoorsOf[shape]}
<1>1. \A shape \in DOMAIN DoorsOf : DoorsOf[shape] \subseteq Doors
  BY DEF DoorsOf, Doors
<1>2. LastDoors("FunctionTool") = {"func"}
  <2>1. Ways("FunctionTool") = {<<"run_json", "func">>}
    BY DEF Ways
  <2>2. LastDoors("FunctionTool") = {<<"run_json", "func">>[Len(<<"run_json", "func">>)]}
    BY <2>1 DEF LastDoors
  <2>3. Len(<<"run_json", "func">>) = 2 /\ <<"run_json", "func">>[2] = "func"
    OBVIOUS
  <2> QED
    BY <2>2, <2>3
<1>3. LastDoors("StructuredTool") = {"func"}
  <2>1. Ways("StructuredTool") = {<<"invoke", "func">>}
    BY DEF Ways
  <2>2. LastDoors("StructuredTool") = {<<"invoke", "func">>[Len(<<"invoke", "func">>)]}
    BY <2>1 DEF LastDoors
  <2>3. Len(<<"invoke", "func">>) = 2 /\ <<"invoke", "func">>[2] = "func"
    OBVIOUS
  <2> QED
    BY <2>2, <2>3
<1>4. LastDoors("AsyncTool") = {"func", "coroutine"}
  <2>1. Ways("AsyncTool") = {<<"invoke", "func">>, <<"coroutine">>}
    BY DEF Ways
  <2>2. LastDoors("AsyncTool") =
            {<<"invoke", "func">>[Len(<<"invoke", "func">>)], <<"coroutine">>[Len(<<"coroutine">>)]}
    BY <2>1 DEF LastDoors
  <2>3. Len(<<"invoke", "func">>) = 2 /\ <<"invoke", "func">>[2] = "func"
    OBVIOUS
  <2>4. Len(<<"coroutine">>) = 1 /\ <<"coroutine">>[1] = "coroutine"
    OBVIOUS
  <2> QED
    BY <2>2, <2>3, <2>4
<1>5. ASSUME NEW shape \in DOMAIN DoorsOf \ {"FunctionTool", "StructuredTool", "AsyncTool"}
      PROVE  /\ LastDoors(shape) = DoorsOf[shape]
             /\ Ways(shape) = {<<door>> : door \in DoorsOf[shape]}
  <2>1. Ways(shape) = {<<door>> : door \in DoorsOf[shape]}
    BY <1>5 DEF Ways, DoorsOf
  <2>2. LastDoors(shape) = {<<door>>[Len(<<door>>)] : door \in DoorsOf[shape]}
    BY <2>1 DEF LastDoors
  <2>3. \A door \in DoorsOf[shape] : <<door>>[Len(<<door>>)] = door
    OBVIOUS
  <2> HIDE DEF LastDoors
  <2> QED
    BY <2>1, <2>2, <2>3
<1> QED
  BY <1>1, <1>2, <1>3, <1>4, <1>5

-----------------------------------------------------------------------------
(* The step of an install, in one form for all frameworks.                 *)

\* The layer that an install puts around a door.
LayerOf(t, door) ==
    [func |-> Wrapper(t), slot |-> Wrapper(t), coroutine |-> "async_wrapper",
     invoke |-> "wrapper", run_json |-> "guarded_run_json",
     on_invoke_tool |-> "guarded_invoke", handler |-> "guarded",
     hook |-> "guard_pretooluse", stream |-> "observer"][door]

\* One more layer around each door in W, and none around the others.
WrapDoors(t, W) ==
    layers' = [layers EXCEPT ![t] =
                  [d \in Doors |-> IF d \in W THEN <<LayerOf(t, d)>> \o layers[t][d]
                                              ELSE layers[t][d]]]

\* The doors W of tool t are wrapped, and the registration of t, if there is
\* one, has succeeded or not (ok).
WrapStep(t, W, ok) ==
    /\ WrapDoors(t, W)
    /\ Advance(ok)
    /\ registry' \in SUBSET Tools
    /\ patched' \in {patched, patched \cup {t}}
    /\ \A d \in W \ {"hook", "stream"} : ~Guarded(t, d)
    /\ ok => \/ Exempt(t)
             \/ \A d \in LastDoors(Shape(t)) : d \in W \/ Guarded(t, d)
    /\ "invoke" \in W /\ Shape(t) \in Rewrapped => Guarded(t, "func")
    /\ t \in patched' /\ t \notin patched =>
           \A d \in LastDoors(Shape(t)) : d \in W \/ Guarded(t, d)
    /\ "run_json" \in W =>
           /\ t \in patched' /\ t \notin patched
           /\ Shape(t) = "FunctionTool" => Guarded(t, "func")
    /\ Shape(t) = "FunctionTool" /\ "func" \in W /\ t \notin patched' => ~ok

\* What an install puts around a door belongs there.
LEMMA LayerOfType ==
    ASSUME NEW t, NEW door \in Doors
    PROVE  /\ LayerOf(t, door) \in IF door = "stream" THEN {"observer"} ELSE Guards
           /\ LayerOf(t, door) \in LayerNames
BY DEF LayerOf, Doors, Wrapper, Guards, LayerNames

\* What a wrapping does to the layers of a door: their type stays, there is one
\* more around the doors in W, and the others stay as they are.
LEMMA WrapDoorsFacts ==
    ASSUME config \in Configs, LayersTypeOK, NEW t \in Tools,
           NEW W \in SUBSET Doors, WrapDoors(t, W), config' = config
    PROVE  /\ LayersTypeOK'
           /\ \A s \in Tools : s # t => layers'[s] = layers[s]
           /\ \A d \in Doors \ W : layers'[t][d] = layers[t][d]
           /\ \A d \in W : /\ layers'[t][d] # <<>>
                           /\ Len(layers'[t][d]) = Len(layers[t][d]) + 1
           /\ \A s \in Tools : \A d \in Doors :
                  Len(layers[s][d]) \in Nat /\ Len(layers'[s][d]) \in Nat
<1> DEFINE K(d) == IF d = "stream" THEN {"observer"} ELSE Guards
           L(d) == LayerOf(t, d)
<1>1. Tools' = Tools
  BY DEF Tools
<1>2. layers \in [Tools -> [Doors -> Seq(LayerNames)]]
  BY DEF LayersTypeOK
<1>3. \A s \in Tools : \A d \in Doors : layers[s][d] \in Seq(K(d)) /\ layers[s][d] \in Seq(LayerNames)
  BY <1>2 DEF LayersTypeOK
<1>4. \A d \in Doors : L(d) \in K(d) /\ L(d) \in LayerNames
  BY LayerOfType
<1>5. \A d \in W : layers'[t][d] = <<L(d)>> \o layers[t][d]
  BY <1>2 DEF WrapDoors
<1>6. \A d \in Doors \ W : layers'[t][d] = layers[t][d]
  BY <1>2 DEF WrapDoors
<1>7. \A s \in Tools : s # t => layers'[s] = layers[s]
  BY <1>2 DEF WrapDoors
<1>8. DOMAIN layers' = Tools /\ layers' = [s \in Tools |-> layers'[s]]
      /\ layers'[t] = [d \in Doors |-> layers'[t][d]]
  BY <1>2 DEF WrapDoors
<1> HIDE DEF K, L
<1>9. ASSUME NEW d \in W
      PROVE  /\ layers'[t][d] \in Seq(K(d)) /\ layers'[t][d] \in Seq(LayerNames)
             /\ layers'[t][d] # <<>>
             /\ Len(layers'[t][d]) = Len(layers[t][d]) + 1
  <2>1. d \in Doors
    OBVIOUS
  <2>2. <<L(d)>> \in Seq(K(d)) /\ <<L(d)>> \in Seq(LayerNames) /\ Len(<<L(d)>>) = 1
    BY <1>4, <2>1
  <2>3. layers[t][d] \in Seq(K(d)) /\ layers[t][d] \in Seq(LayerNames)
    BY <1>3, <2>1
  <2>4. Len(layers[t][d]) \in Nat
    BY <2>3
  <2>5. Len(layers'[t][d]) = Len(layers[t][d]) + 1
    <3>1. Len(<<L(d)>> \o layers[t][d]) = Len(<<L(d)>>) + Len(layers[t][d])
      BY <2>2, <2>3, ConcatProperties
    <3>2. Len(layers'[t][d]) = 1 + Len(layers[t][d])
      BY <3>1, <1>5, <2>2
    <3> QED
      BY <3>2, <2>4
  <2>6. layers'[t][d] \in Seq(K(d)) /\ layers'[t][d] \in Seq(LayerNames)
    BY <1>5, <2>2, <2>3, ConcatProperties
  <2> QED
    BY <2>4, <2>5, <2>6, EmptySeq
<1>10. \A s \in Tools : \A d \in Doors :
           layers'[s][d] \in Seq(K(d)) /\ layers'[s][d] \in Seq(LayerNames)
  <2> TAKE s \in Tools
  <2> TAKE d \in Doors
  <2>1. CASE s = t /\ d \in W
    BY <2>1, <1>9
  <2>2. CASE s = t /\ d \notin W
    BY <2>2, <1>6, <1>3
  <2>3. CASE s # t
    BY <2>3, <1>7, <1>3
  <2> QED
    BY <2>1, <2>2, <2>3
<1>11. layers' \in [Tools -> [Doors -> Seq(LayerNames)]]
  <2>1. ASSUME NEW s \in Tools
        PROVE  layers'[s] \in [Doors -> Seq(LayerNames)]
    <3>1. CASE s = t
      BY <3>1, <1>8, <1>10
    <3>2. CASE s # t
      BY <3>2, <1>7, <1>2
    <3> QED
      BY <3>1, <3>2
  <2> QED
    BY <2>1, <1>8
<1>12. LayersTypeOK'
  BY <1>1, <1>10, <1>11 DEF LayersTypeOK, K
<1>13. \A s \in Tools : \A d \in Doors :
           Len(layers[s][d]) \in Nat /\ Len(layers'[s][d]) \in Nat
  BY <1>3, <1>10
<1> QED
  BY <1>6, <1>7, <1>9, <1>12, <1>13

\* Around, for a door and its layer, and for no door at all.
LEMMA OneDoor ==
    ASSUME LayersTypeOK, NEW t \in Tools, NEW door \in Doors,
           layers' = Around(layers, t, door, LayerOf(t, door))
    PROVE  WrapDoors(t, {door})
<1>1. layers[t] \in [Doors -> Seq(LayerNames)]
  BY DEF LayersTypeOK
<1>2. [layers[t] EXCEPT ![door] = <<LayerOf(t, door)>> \o @] =
          [d \in Doors |-> IF d \in {door} THEN <<LayerOf(t, d)>> \o layers[t][d]
                                           ELSE layers[t][d]]
  BY <1>1
<1>3. layers' = [layers EXCEPT ![t] =
                    [layers[t] EXCEPT ![door] = <<LayerOf(t, door)>> \o @]]
  BY DEF Around
<1> QED
  BY <1>2, <1>3 DEF WrapDoors

\* Where no layer changes, no door is wrapped.
LEMMA NoDoor ==
    ASSUME LayersTypeOK, NEW t \in Tools, layers' = layers
    PROVE  WrapDoors(t, {})
<1>1. layers \in [Tools -> [Doors -> Seq(LayerNames)]]
  BY DEF LayersTypeOK
<1>2. layers[t] = [d \in Doors |-> layers[t][d]]
  BY <1>1
<1>3. layers = [layers EXCEPT ![t] = layers[t]]
  BY <1>1
<1> QED
  BY <1>2, <1>3 DEF WrapDoors

\* _patch_tools_list and _patch_run_json.
LEMMA AutogenStep ==
    ASSUME TypeOK, InstallInv, NEW t \in Tools, config.framework = "autogen",
           PatchAutogen(t)
    PROVE  \E W \in SUBSET Doors : \E ok \in BOOLEAN : WrapStep(t, W, ok)
<1> USE DEF TypeOK
<1>1. /\ Shape(t) \in {"FunctionTool", "BaseTool", "callable", "coroutine"}
      /\ Shape(t) \in DOMAIN DoorsOf
  <2>1. Shape(t) \in ShapesOf["autogen"] /\ Shape(t) \in DOMAIN DoorsOf
    BY ConfigFacts
  <2> QED
    BY <2>1 DEF ShapesOf
<1>2. /\ Shape(t) = "FunctionTool" => LastDoors(Shape(t)) = {"func"}
      /\ Shape(t) = "BaseTool" => LastDoors(Shape(t)) = {"run_json"}
      /\ Shape(t) \in {"callable", "coroutine"} => LastDoors(Shape(t)) = {"slot"}
  BY <1>1, ShapeFacts DEF DoorsOf
<1>3. /\ Has(t, "func") <=> Shape(t) = "FunctionTool"
      /\ Has(t, "run_json") <=> Shape(t) \in {"FunctionTool", "BaseTool"}
      /\ Has(t, "slot") <=> Shape(t) \in {"callable", "coroutine"}
  BY <1>1 DEF Has, DoorsOf
<1>4. Shape(t) \in Rewrapped => FALSE
  BY <1>1 DEF Rewrapped
<1>5. Registers(t) \in BOOLEAN
  BY DEF Registers
<1>6. {"func"} \in SUBSET Doors /\ {"run_json"} \in SUBSET Doors /\ {"slot"} \in SUBSET Doors
  BY DEF Doors
<1>7. t \in patched => Covered(t)
  BY DEF InstallInv, Patching
<1>8. t \notin patched => ~Guarded(t, "run_json")
  BY DEF InstallInv, Patching
<1>9. CASE t \in patched /\ Skip
  <2>1. WrapDoors(t, {})
    BY <1>9, NoDoor DEF Skip
  <2>2. WrapStep(t, {}, TRUE)
    BY <2>1, <1>7, <1>9 DEF WrapStep, Skip, Covered
  <2> QED
    BY <2>2
<1>10. CASE /\ t \notin patched /\ Has(t, "func") /\ ~Guarded(t, "func")
            /\ Wrap(t, "func", Wrapper(t))
            /\ patched' = IF Registers(t) THEN patched \cup {t} ELSE patched
  <2>1. WrapDoors(t, {"func"})
    BY <1>10, <1>6, OneDoor DEF Wrap, LayerOf
  <2>2. WrapStep(t, {"func"}, Registers(t))
    BY <2>1, <1>2, <1>3, <1>5, <1>10 DEF WrapStep, Wrap
  <2> QED
    BY <2>2, <1>5, <1>6
<1>11. CASE /\ t \notin patched /\ Has(t, "run_json")
            /\ Has(t, "func") => Guarded(t, "func")
            /\ Wrap(t, "run_json", "guarded_run_json")
            /\ patched' = patched \cup {t}
  <2>1. WrapDoors(t, {"run_json"})
    BY <1>11, <1>6, OneDoor DEF Wrap, LayerOf
  <2>2. WrapStep(t, {"run_json"}, Registers(t))
    BY <2>1, <1>2, <1>3, <1>4, <1>5, <1>8, <1>11 DEF WrapStep, Wrap
  <2> QED
    BY <2>2, <1>5, <1>6
<1>12. CASE t \notin patched /\ Has(t, "slot") /\ Guarded(t, "slot") /\ Skip
  <2>1. WrapDoors(t, {})
    BY <1>12, NoDoor DEF Skip
  <2>2. WrapStep(t, {}, TRUE)
    BY <2>1, <1>2, <1>3, <1>12 DEF WrapStep, Skip
  <2> QED
    BY <2>2
<1>13. CASE /\ t \notin patched /\ Has(t, "slot") /\ ~Guarded(t, "slot")
            /\ Wrap(t, "slot", Wrapper(t)) /\ UNCHANGED patched
  <2>1. WrapDoors(t, {"slot"})
    BY <1>13, <1>6, OneDoor DEF Wrap, LayerOf
  <2>2. WrapStep(t, {"slot"}, Registers(t))
    BY <2>1, <1>2, <1>3, <1>4, <1>5, <1>13 DEF WrapStep, Wrap
  <2> QED
    BY <2>2, <1>5, <1>6
<1> QED
  BY <1>9, <1>10, <1>11, <1>12, <1>13 DEF PatchAutogen

\* Around, for the two functions of an asynchronous LangChain tool.
LEMMA TwoDoors ==
    ASSUME LayersTypeOK, NEW t \in Tools, Wrapper(t) = "wrapper",
           layers' = Around(Around(layers, t, "func", "wrapper"),
                            t, "coroutine", "async_wrapper")
    PROVE  WrapDoors(t, {"func", "coroutine"})
<1>1. /\ layers \in [Tools -> [Doors -> Seq(LayerNames)]]
      /\ layers[t] \in [Doors -> Seq(LayerNames)]
  BY DEF LayersTypeOK
<1>2. "func" \in Doors /\ "coroutine" \in Doors
  BY DEF Doors
<1>3. LayerOf(t, "func") = "wrapper" /\ LayerOf(t, "coroutine") = "async_wrapper"
  BY DEF LayerOf
<1> DEFINE one == [layers[t] EXCEPT !["func"] = <<"wrapper">> \o @]
           both == [one EXCEPT !["coroutine"] = <<"async_wrapper">> \o @]
<1>4. Around(layers, t, "func", "wrapper") = [layers EXCEPT ![t] = one]
  BY DEF Around
<1>5. layers' = [[layers EXCEPT ![t] = one] EXCEPT ![t] = both]
  <2>1. [layers EXCEPT ![t] = one][t] = one
    BY <1>1
  <2> QED
    BY <1>4, <2>1 DEF Around
<1>6. both = [d \in Doors |-> IF d \in {"func", "coroutine"}
                              THEN <<LayerOf(t, d)>> \o layers[t][d]
                              ELSE layers[t][d]]
  BY <1>1, <1>2, <1>3
<1> HIDE DEF one, both
<1>7. layers' = [layers EXCEPT ![t] = both]
  BY <1>1, <1>5
<1> QED
  BY <1>6, <1>7 DEF WrapDoors

\* _patch_tool of LangChain.
LEMMA LangChainStep ==
    ASSUME TypeOK, InstallInv, NEW t \in Tools, config.framework = "langchain",
           PatchLangChain(t)
    PROVE  \E W \in SUBSET Doors : \E ok \in BOOLEAN : WrapStep(t, W, ok)
<1> USE DEF TypeOK
<1>1. /\ Shape(t) \in {"StructuredTool", "AsyncTool", "DuckTool"}
      /\ Shape(t) \in DOMAIN DoorsOf
  <2>1. Shape(t) \in ShapesOf["langchain"] /\ Shape(t) \in DOMAIN DoorsOf
    BY ConfigFacts
  <2> QED
    BY <2>1 DEF ShapesOf
<1>2. /\ Shape(t) = "StructuredTool" => LastDoors(Shape(t)) = {"func"}
      /\ Shape(t) = "AsyncTool" => LastDoors(Shape(t)) = {"func", "coroutine"}
      /\ Shape(t) = "DuckTool" => LastDoors(Shape(t)) = {"invoke"}
  BY <1>1, ShapeFacts DEF DoorsOf
<1>3. /\ Has(t, "func") <=> Shape(t) \in {"StructuredTool", "AsyncTool"}
      /\ Has(t, "coroutine") <=> Shape(t) = "AsyncTool"
  BY <1>1 DEF Has, DoorsOf
<1>4. Wrapper(t) = "wrapper"
  BY <1>1 DEF Wrapper
<1>5. Registers(t) \in BOOLEAN
  BY DEF Registers
<1>6. /\ {"func"} \in SUBSET Doors /\ {"coroutine"} \in SUBSET Doors
      /\ {"invoke"} \in SUBSET Doors /\ {"func", "coroutine"} \in SUBSET Doors
  BY DEF Doors
<1> DEFINE sync == Has(t, "func") /\ ~Guarded(t, "func")
           async == Has(t, "coroutine") /\ ~Guarded(t, "coroutine")
<1>7. CASE /\ sync \/ async
           /\ layers' = IF async /\ (sync => Registers(t))
                        THEN Around(IF sync THEN Around(layers, t, "func", "wrapper")
                                    ELSE layers, t, "coroutine", "async_wrapper")
                        ELSE IF sync THEN Around(layers, t, "func", "wrapper") ELSE layers
           /\ registry' = registry \cup {t}
           /\ Advance(Registers(t))
           /\ UNCHANGED patched
  <2>1. CASE sync /\ async /\ Registers(t)
    <3>1. WrapDoors(t, {"func", "coroutine"})
      BY <1>4, <1>7, <2>1, TwoDoors
    <3>2. \A d \in LastDoors(Shape(t)) : d \in {"func", "coroutine"}
      BY <1>1, <1>2, <1>3, <2>1
    <3>3. \A d \in {"func", "coroutine"} \ {"hook", "stream"} : ~Guarded(t, d)
      BY <2>1
    <3>4. registry' \in SUBSET Tools /\ patched' = patched
      BY <1>7
    <3>5. Advance(Registers(t)) /\ Shape(t) # "FunctionTool"
      BY <1>1, <1>7
    <3>6. WrapStep(t, {"func", "coroutine"}, Registers(t))
      BY <3>1, <3>2, <3>3, <3>4, <3>5, Zenon DEF WrapStep
    <3> QED
      BY <3>6, <1>5, <1>6
  <2>2. CASE sync /\ ~(async /\ Registers(t))
    <3>1. layers' = Around(layers, t, "func", LayerOf(t, "func"))
      BY <1>4, <1>7, <2>2 DEF LayerOf
    <3>2. WrapDoors(t, {"func"})
      BY <3>1, <1>6, OneDoor
    <3>3. Registers(t) => \A d \in LastDoors(Shape(t)) : d \in {"func"} \/ Guarded(t, d)
      BY <1>1, <1>2, <1>3, <2>2
    <3>4. WrapStep(t, {"func"}, Registers(t))
      BY <3>2, <3>3, <1>1, <1>5, <1>7, <2>2 DEF WrapStep
    <3> QED
      BY <3>4, <1>5, <1>6
  <2>3. CASE ~sync /\ async
    <3>1. layers' = Around(layers, t, "coroutine", LayerOf(t, "coroutine"))
      BY <1>7, <2>3 DEF LayerOf
    <3>2. WrapDoors(t, {"coroutine"})
      BY <3>1, <1>6, OneDoor
    <3>3. \A d \in LastDoors(Shape(t)) : d \in {"coroutine"} \/ Guarded(t, d)
      BY <1>1, <1>2, <1>3, <2>3
    <3>4. WrapStep(t, {"coroutine"}, Registers(t))
      BY <3>2, <3>3, <1>1, <1>5, <1>7, <2>3 DEF WrapStep
    <3> QED
      BY <3>4, <1>5, <1>6
  <2> QED
    BY <1>5, <1>7, <2>1, <2>2, <2>3
<1>8. CASE ~sync /\ ~async /\ Guarded(t, "invoke") /\ Skip
  <2>1. WrapDoors(t, {})
    BY <1>8, NoDoor DEF Skip
  <2>2. \A d \in LastDoors(Shape(t)) : Guarded(t, d)
    BY <1>1, <1>2, <1>3, <1>8
  <2>3. WrapStep(t, {}, TRUE)
    BY <2>1, <2>2, <1>8 DEF WrapStep, Skip
  <2> QED
    BY <2>3
<1>9. CASE /\ ~sync /\ ~async /\ ~Guarded(t, "invoke")
           /\ Wrap(t, "invoke", "wrapper") /\ UNCHANGED patched
  <2>1. WrapDoors(t, {"invoke"})
    BY <1>9, <1>6, OneDoor DEF Wrap, LayerOf
  <2>2. \A d \in LastDoors(Shape(t)) : d \in {"invoke"} \/ Guarded(t, d)
    BY <1>1, <1>2, <1>3, <1>9
  <2>3. Shape(t) \in Rewrapped => Guarded(t, "func")
    BY <1>1, <1>3, <1>9 DEF Rewrapped
  <2>4. WrapStep(t, {"invoke"}, Registers(t))
    BY <2>1, <2>2, <2>3, <1>1, <1>5, <1>9 DEF WrapStep, Wrap
  <2> QED
    BY <2>4, <1>5, <1>6
<1> QED
  BY <1>7, <1>8, <1>9 DEF PatchLangChain

\* The frameworks whose tools have one door, which is wrapped where it is bare:
\* the step of the install, for the door of the tool.
LEMMA SingleDoorStep ==
    ASSUME TypeOK, NEW t \in Tools, NEW door \in Doors,
           LastDoors(Shape(t)) = {door}, door \notin {"invoke", "run_json"},
           Shape(t) # "FunctionTool",
           IF Guarded(t, door) THEN Skip
           ELSE Wrap(t, door, LayerOf(t, door)) /\ UNCHANGED patched
    PROVE  \E W \in SUBSET Doors : \E ok \in BOOLEAN : WrapStep(t, W, ok)
<1> USE DEF TypeOK
<1>1. CASE Guarded(t, door) /\ Skip
  <2>1. WrapDoors(t, {})
    BY <1>1, NoDoor DEF Skip
  <2>2. WrapStep(t, {}, TRUE)
    BY <2>1, <1>1 DEF WrapStep, Skip
  <2> QED
    BY <2>2
<1>2. CASE ~Guarded(t, door) /\ Wrap(t, door, LayerOf(t, door)) /\ UNCHANGED patched
  <2>1. WrapDoors(t, {door})
    BY <1>2, OneDoor DEF Wrap
  <2>2. Registers(t) \in BOOLEAN
    BY DEF Registers
  <2>3. WrapStep(t, {door}, Registers(t))
    BY <2>1, <2>2, <1>2 DEF WrapStep, Wrap
  <2> QED
    BY <2>2, <2>3
<1> QED
  BY <1>1, <1>2

\* OpenAIAgentsAdapter.install on a list.
LEMMA OpenAIStep ==
    ASSUME TypeOK, NEW t \in Tools, config.framework = "openai", PatchOpenAI(t)
    PROVE  \E W \in SUBSET Doors : \E ok \in BOOLEAN : WrapStep(t, W, ok)
<1> USE DEF TypeOK
<1>1. /\ Shape(t) \in {"InvokeTool", "callable", "coroutine"}
      /\ Shape(t) \in DOMAIN DoorsOf
  <2>1. Shape(t) \in ShapesOf["openai"] /\ Shape(t) \in DOMAIN DoorsOf
    BY ConfigFacts
  <2> QED
    BY <2>1 DEF ShapesOf
<1>2. /\ Has(t, "on_invoke_tool") => LastDoors(Shape(t)) = {"on_invoke_tool"}
      /\ Shape(t) # "FunctionTool"
  BY <1>1, ShapeFacts DEF DoorsOf, Has
<1>3. "on_invoke_tool" \in Doors /\ LayerOf(t, "on_invoke_tool") = "guarded_invoke"
  BY DEF Doors, LayerOf
<1>4. CASE /\ Has(t, "on_invoke_tool")
           /\ IF Guarded(t, "on_invoke_tool") THEN Skip
              ELSE Wrap(t, "on_invoke_tool", "guarded_invoke") /\ UNCHANGED patched
  BY <1>2, <1>3, <1>4, SingleDoorStep
<1>5. CASE /\ Has(t, "slot") /\ registry' = registry \cup {t}
           /\ Advance(Registers(t)) /\ UNCHANGED <<layers, patched>>
  <2>1. WrapDoors(t, {})
    BY <1>5, NoDoor
  <2>2. Registers(t) \in BOOLEAN
    BY DEF Registers
  <2>3. WrapStep(t, {}, Registers(t))
    BY <2>1, <1>5 DEF WrapStep, Exempt
  <2> QED
    BY <2>2, <2>3
<1> QED
  BY <1>4, <1>5 DEF PatchOpenAI

\* The dict registries.
LEMMA MappingStep ==
    ASSUME TypeOK, NEW t \in Tools, config.framework = "mapping", PatchMapping(t)
    PROVE  \E W \in SUBSET Doors : \E ok \in BOOLEAN : WrapStep(t, W, ok)
<1>1. Shape(t) \in {"callable", "coroutine"} /\ Shape(t) \in DOMAIN DoorsOf
  <2>1. Shape(t) \in ShapesOf["mapping"] /\ Shape(t) \in DOMAIN DoorsOf
    BY ConfigFacts DEF TypeOK
  <2> QED
    BY <2>1 DEF ShapesOf
<1>2. LastDoors(Shape(t)) = {"slot"} /\ Shape(t) # "FunctionTool"
  BY <1>1, ShapeFacts DEF DoorsOf
<1>3. "slot" \in Doors /\ LayerOf(t, "slot") = Wrapper(t)
  BY DEF Doors, LayerOf
<1> QED
  BY <1>2, <1>3, SingleDoorStep DEF PatchMapping

\* _patch_mcp_tool and _inject_pretooluse_hook.
LEMMA ClaudeStep ==
    ASSUME TypeOK, NEW t \in Tools, config.framework = "claude",
           PatchMcp(t) \/ InjectHook(t)
    PROVE  \E W \in SUBSET Doors : \E ok \in BOOLEAN : WrapStep(t, W, ok)
<1> USE DEF TypeOK
<1>1. Shape(t) \in {"McpTool", "Builtin"} /\ Shape(t) \in DOMAIN DoorsOf
  <2>1. Shape(t) \in ShapesOf["claude"] /\ Shape(t) \in DOMAIN DoorsOf
    BY ConfigFacts
  <2> QED
    BY <2>1 DEF ShapesOf
<1>2. /\ Has(t, "handler") => LastDoors(Shape(t)) = {"handler"}
      /\ Has(t, "hook") => LastDoors(Shape(t)) = {"hook"}
      /\ Shape(t) # "FunctionTool"
  BY <1>1, ShapeFacts DEF DoorsOf, Has
<1>3. /\ "handler" \in Doors /\ LayerOf(t, "handler") = "guarded"
      /\ "hook" \in Doors /\ LayerOf(t, "hook") = "guard_pretooluse"
  BY DEF Doors, LayerOf
<1>4. CASE PatchMcp(t)
  BY <1>2, <1>3, <1>4, SingleDoorStep DEF PatchMcp
<1>5. CASE InjectHook(t)
  <2>1. WrapDoors(t, {"hook"})
    BY <1>3, <1>5, OneDoor DEF InjectHook
  <2>2. WrapStep(t, {"hook"}, TRUE)
    BY <2>1, <1>2, <1>5 DEF WrapStep, InjectHook
  <2> QED
    BY <2>2, <1>3
<1> QED
  BY <1>4, <1>5

\* DifyAdapter._wrap_app.
LEMMA DifyStep ==
    ASSUME TypeOK, NEW t \in Tools, config.framework = "dify", PatchDify(t)
    PROVE  \E W \in SUBSET Doors : \E ok \in BOOLEAN : WrapStep(t, W, ok)
<1> USE DEF TypeOK
<1>1. Shape(t) = "App" /\ Shape(t) \in DOMAIN DoorsOf
  <2>1. Shape(t) \in ShapesOf["dify"] /\ Shape(t) \in DOMAIN DoorsOf
    BY ConfigFacts
  <2> QED
    BY <2>1 DEF ShapesOf
<1>2. LastDoors(Shape(t)) = {"stream"}
  BY <1>1, ShapeFacts DEF DoorsOf
<1>3. "stream" \in Doors /\ LayerOf(t, "stream") = "observer"
  BY DEF Doors, LayerOf
<1>4. WrapDoors(t, {"stream"})
  BY <1>3, OneDoor DEF PatchDify
<1>5. WrapStep(t, {"stream"}, TRUE)
  BY <1>1, <1>2, <1>4 DEF WrapStep, PatchDify
<1> QED
  BY <1>3, <1>5

\* Whatever the framework, PatchNext wraps some doors of the next tool.
LEMMA PatchNextIsWrapStep ==
    ASSUME TypeOK, InstallInv, PatchNext
    PROVE  \E W \in SUBSET Doors : \E ok \in BOOLEAN : WrapStep(install.next, W, ok)
<1> DEFINE t == install.next
<1>1. t \in Tools
  BY DEF PatchNext
<1> HIDE DEF t
<1>2. CASE config.framework = "autogen" /\ PatchAutogen(t)
  BY <1>1, <1>2, AutogenStep DEF t
<1>3. CASE config.framework = "langchain" /\ PatchLangChain(t)
  BY <1>1, <1>3, LangChainStep DEF t
<1>4. CASE config.framework = "openai" /\ PatchOpenAI(t)
  BY <1>1, <1>4, OpenAIStep DEF t
<1>5. CASE config.framework = "mapping" /\ PatchMapping(t)
  BY <1>1, <1>5, MappingStep DEF t
<1>6. CASE config.framework = "claude" /\ (PatchMcp(t) \/ InjectHook(t))
  BY <1>1, <1>6, ClaudeStep DEF t
<1>7. CASE config.framework = "dify" /\ PatchDify(t)
  BY <1>1, <1>7, DifyStep DEF t
<1> QED
  BY <1>2, <1>3, <1>4, <1>5, <1>6, <1>7 DEF PatchNext, t

-----------------------------------------------------------------------------
(* The steps of the installs.                                              *)

\* What becomes of the record of an install.
LEMMA AdvanceFacts ==
    ASSUME config \in Configs, InstallTypeOK, config' = config,
           install.next \in Tools, NEW ok \in BOOLEAN, Advance(ok)
    PROVE  /\ InstallTypeOK'
           /\ install'.begun = install.begun /\ install'.ended = install.ended
           /\ install.begun \in Nat \ {0}
           /\ ok => install'.next = install.next + 1 /\ install'.raised = install.raised
           /\ ~ok => install'.next = 0 /\ install'.raised = install.raised + 1
<1> DEFINE n == Len(config.tools)
<1>1. n \in Nat /\ install.next \in 1 .. n
  BY ConfigFacts
<1>2. install \in [next : 0 .. n + 1, begun : Nat, ended : Nat, raised : Nat]
  BY DEF InstallTypeOK
<1> HIDE DEF n
<1>3. install.begun # 0
  BY <1>1 DEF InstallTypeOK
<1>4. CASE ok
  <2>1. install' = [install EXCEPT !.next = install.next + 1]
    BY <1>4 DEF Advance
  <2>2. install.next + 1 \in 0 .. n + 1
    BY <1>1
  <2>3. install' \in [next : 0 .. n + 1, begun : Nat, ended : Nat, raised : Nat]
    BY <2>1, <2>2, <1>2
  <2> QED
    BY <2>1, <2>3, <1>2, <1>3, <1>4 DEF InstallTypeOK, n
<1>5. CASE ~ok
  <2>1. install' = [install EXCEPT !.next = 0, !.raised = install.raised + 1]
    BY <1>5 DEF Advance
  <2>2. 0 \in 0 .. n + 1 /\ install.raised + 1 \in Nat
    BY <1>1, <1>2
  <2>3. install' \in [next : 0 .. n + 1, begun : Nat, ended : Nat, raised : Nat]
    BY <2>1, <2>2, <1>2
  <2> QED
    BY <2>1, <2>3, <1>2, <1>3, <1>5 DEF InstallTypeOK, n
<1> QED
  BY <1>4, <1>5

\* Wrapping the next tool: PatchNext keeps the invariant of the layers.
LEMMA PatchNextKeeps ==
    ASSUME TypeOK, InstallInv, PatchNext
    PROVE  TypeOK' /\ InstallInv'
<1>0. PICK t \in Tools : t = install.next
  BY DEF PatchNext
<1>1. /\ t \in Tools /\ config' = config /\ present' = present /\ call' = call
      /\ session' = session /\ hooked' = hooked
  BY DEF PatchNext
<1>2. PICK W \in SUBSET Doors, ok \in BOOLEAN : WrapStep(t, W, ok)
  BY <1>0, PatchNextIsWrapStep
<1>3. /\ LayersTypeOK'
      /\ \A s \in Tools : s # t => layers'[s] = layers[s]
      /\ \A d \in Doors \ W : layers'[t][d] = layers[t][d]
      /\ \A d \in W : /\ layers'[t][d] # <<>>
                      /\ Len(layers'[t][d]) = Len(layers[t][d]) + 1
      /\ \A s \in Tools : \A d \in Doors :
             Len(layers[s][d]) \in Nat /\ Len(layers'[s][d]) \in Nat
  BY <1>1, <1>2, WrapDoorsFacts DEF WrapStep, TypeOK
<1>4. /\ InstallTypeOK'
      /\ install'.begun = install.begun /\ install'.ended = install.ended
      /\ install.begun \in Nat \ {0}
      /\ ok => install'.next = t + 1 /\ install'.raised = install.raised
      /\ ~ok => install'.next = 0 /\ install'.raised = install.raised + 1
  BY <1>0, <1>1, <1>2, AdvanceFacts DEF WrapStep, TypeOK
<1>5. Tools' = Tools /\ \A s : Shape(s)' = Shape(s)
  BY <1>1 DEF Tools, Shape
<1>6. \A s \in Tools : \A d \in Doors :
          /\ Guarded(s, d) => Guarded(s, d)'
          /\ Guarded(s, d)' => Guarded(s, d) \/ (s = t /\ d \in W)
          /\ d \in W => Guarded(t, d)'
  BY <1>3 DEF Guarded
<1>7. \A s \in Tools : LastDoors(Shape(s)) \in SUBSET Doors
  <2>1. \A s \in Tools : Shape(s) \in DOMAIN DoorsOf
    BY ConfigFacts DEF TypeOK
  <2> QED
    BY <2>1, ShapeFacts DEF Doors
<1>8. ASSUME NEW s \in Tools, Covered(s)
      PROVE  Covered(s)'
  BY <1>5, <1>6, <1>7, <1>8 DEF Covered
<1>9. ASSUME \A d \in LastDoors(Shape(t)) : d \in W \/ Guarded(t, d)
      PROVE  Covered(t)'
  BY <1>1, <1>5, <1>6, <1>7, <1>9 DEF Covered
<1>10. \A s \in Tools : Exempt(s)' <=> Exempt(s)
  BY <1>1, <1>5 DEF Exempt, Has
<1>11. TypeOK'
  <2>1. registry' \in SUBSET Tools /\ patched' \in SUBSET Tools
    BY <1>1, <1>2 DEF WrapStep, TypeOK
  <2>2. CallTypeOK'
    BY <1>1 DEF TypeOK, CallTypeOK
  <2> QED
    BY <1>1, <1>3, <1>4, <1>5, <2>1, <2>2 DEF TypeOK
<1>12. OnceEach'
  <2> SUFFICES ASSUME NEW s \in Tools, NEW d \in Doors \ {"hook", "stream"}
               PROVE  Len(layers'[s][d]) <= 1
    BY <1>5 DEF OnceEach
  <2>1. Len(layers[s][d]) <= 1
    BY DEF InstallInv, OnceEach
  <2>2. CASE s = t /\ d \in W
    <3>1. layers[t][d] = <<>>
      BY <1>2, <2>2 DEF WrapStep, Guarded
    <3>2. Len(layers'[t][d]) = Len(<<>>) + 1
      BY <1>3, <2>2, <3>1
    <3>3. Len(layers'[t][d]) <= 1
      BY <3>2
    <3> QED
      BY <3>3, <2>2
  <2>3. CASE ~(s = t /\ d \in W)
    <3>1. layers'[s][d] = layers[s][d]
      BY <1>3, <2>3
    <3> QED
      BY <3>1, <2>1
  <2> QED
    BY <2>2, <2>3
<1>13. FirstInstall'
  <2> SUFFICES ASSUME NEW s \in Tools, Shape(s) \in Rewrapped
               PROVE  /\ Fresh(s)' => \A d \in Doors : ~Guarded(s, d)'
                      /\ install'.begun <= 1 =>
                             /\ ~Guarded(s, "invoke")'
                             /\ Len(layers'[s]["hook"]) <= 1
                             /\ Len(layers'[s]["stream"]) <= 1
    BY <1>5 DEF FirstInstall
  <2>0. t \in Nat \ {0} /\ s \in Nat /\ "invoke" \in Doors /\ "hook" \in Doors
        /\ "stream" \in Doors
    BY <1>1, ConfigFacts DEF TypeOK, Doors
  <2>1. /\ Fresh(s) => \A d \in Doors : ~Guarded(s, d)
        /\ install.begun <= 1 => /\ ~Guarded(s, "invoke")
                                 /\ Len(layers[s]["hook"]) <= 1
                                 /\ Len(layers[s]["stream"]) <= 1
    BY DEF InstallInv, FirstInstall
  <2>2. CASE s # t
    <3>1. Fresh(s)' => Fresh(s)
      BY <1>0, <1>4, <2>0 DEF Fresh
    <3>2. layers'[s] = layers[s]
      BY <1>3, <2>2
    <3> QED
      BY <1>4, <2>1, <3>1, <3>2 DEF Guarded
  <2>3. CASE s = t
    <3>1. ~Fresh(s)'
      BY <1>4, <2>0, <2>3 DEF Fresh
    <3>2. ASSUME install'.begun <= 1
          PROVE  /\ ~Guarded(s, "invoke")'
                 /\ Len(layers'[s]["hook"]) <= 1
                 /\ Len(layers'[s]["stream"]) <= 1
      <4>1. Fresh(t)
        BY <1>0, <1>4, <2>0, <3>2 DEF Fresh
      <4>2. \A d \in Doors : layers[t][d] = <<>>
        BY <4>1, <2>1, <2>3 DEF Guarded
      <4>3. "invoke" \notin W
        BY <1>2, <2>1, <2>3, <4>1, <4>2 DEF WrapStep, Guarded, Doors
      <4>4. ~Guarded(s, "invoke")'
        BY <1>3, <2>0, <2>3, <4>2, <4>3 DEF Guarded
      <4>5. ASSUME NEW d \in Doors PROVE Len(layers'[t][d]) <= 1
        <5>1. CASE d \in W
          <6>1. Len(layers'[t][d]) = Len(<<>>) + 1
            BY <1>3, <4>2, <5>1
          <6> QED
            BY <6>1
        <5>2. CASE d \notin W
          <6>1. layers'[t][d] = <<>>
            BY <1>3, <4>2, <5>2
          <6> QED
            BY <6>1
        <5> QED
          BY <5>1, <5>2
      <4> QED
        BY <2>0, <2>3, <4>4, <4>5
    <3> QED
      BY <3>1, <3>2
  <2> QED
    BY <2>2, <2>3
<1>14. Patching'
  <2> SUFFICES ASSUME NEW s \in Tools
               PROVE  /\ s \in patched' => Covered(s)'
                      /\ s \notin patched' => ~Guarded(s, "run_json")'
                      /\ Shape(s) = "FunctionTool" =>
                             /\ Guarded(s, "run_json")' => install'.raised > 0
                             /\ s \notin patched' /\ Guarded(s, "func")' =>
                                    install'.raised > 0
    BY <1>5 DEF Patching
  <2>1. /\ s \in patched => Covered(s)
        /\ s \notin patched => ~Guarded(s, "run_json")
        /\ Shape(s) = "FunctionTool" =>
               /\ Guarded(s, "run_json") => install.raised > 0
               /\ s \notin patched /\ Guarded(s, "func") => install.raised > 0
    BY DEF InstallInv, Patching
  <2>2. "run_json" \in Doors /\ "func" \in Doors
    BY DEF Doors
  <2>3. /\ install.raised \in Nat /\ install'.raised \in Nat
        /\ install'.raised >= install.raised
        /\ ~ok => install'.raised > 0
    BY <1>4 DEF TypeOK, InstallTypeOK
  <2>4. install.raised > 0 => install'.raised > 0
    BY <2>3
  <2>5. s \in patched' => Covered(s)'
    <3>1. CASE s \in patched
      BY <1>8, <2>1, <3>1
    <3>2. CASE s \notin patched /\ s \in patched'
      <4>1. s = t
        BY <1>2, <3>2 DEF WrapStep
      <4>2. \A d \in LastDoors(Shape(t)) : d \in W \/ Guarded(t, d)
        BY <1>2, <3>2, <4>1 DEF WrapStep
      <4> QED
        BY <1>9, <4>1, <4>2
    <3> QED
      BY <3>1, <3>2
  <2>6. s \notin patched' => ~Guarded(s, "run_json")'
    <3>1. s \notin patched' => s \notin patched
      BY <1>2 DEF WrapStep
    <3>2. s = t /\ s \notin patched' => "run_json" \notin W
      BY <1>2 DEF WrapStep
    <3> QED
      BY <3>1, <3>2, <1>6, <2>1, <2>2
  <2>7. ASSUME Shape(s) = "FunctionTool", Guarded(s, "run_json")'
        PROVE  install'.raised > 0
    <3>1. CASE Guarded(s, "run_json")
      BY <2>1, <2>4, <2>7, <3>1
    <3>2. CASE ~Guarded(s, "run_json")
      <4>1. s = t /\ "run_json" \in W
        BY <1>6, <2>2, <2>7, <3>2
      <4>2. t \notin patched /\ Guarded(t, "func")
        BY <1>2, <2>7, <4>1 DEF WrapStep
      <4> QED
        BY <2>1, <2>4, <2>7, <4>1, <4>2
    <3> QED
      BY <3>1, <3>2
  <2>8. ASSUME Shape(s) = "FunctionTool", s \notin patched', Guarded(s, "func")'
        PROVE  install'.raised > 0
    <3>0. s \notin patched
      BY <1>2, <2>8 DEF WrapStep
    <3>1. CASE Guarded(s, "func")
      BY <2>1, <2>4, <2>8, <3>0, <3>1
    <3>2. CASE ~Guarded(s, "func")
      <4>1. s = t /\ "func" \in W
        BY <1>6, <2>2, <2>8, <3>2
      <4>2. ~ok
        BY <1>2, <2>8, <4>1 DEF WrapStep
      <4> QED
        BY <2>3, <4>2
    <3> QED
      BY <3>1, <3>2
  <2> QED
    BY <2>5, <2>6, <2>7, <2>8
<1>15. DoneIsCovered'
  <2> SUFFICES ASSUME NEW s \in Tools, Done(s)'
               PROVE  Covered(s)' \/ Exempt(s)
    BY <1>5, <1>10 DEF DoneIsCovered
  <2>0. t \in Nat \ {0} /\ s \in Nat
    BY <1>1, ConfigFacts DEF TypeOK
  <2>1. CASE Done(s)
    BY <1>8, <2>1 DEF InstallInv, DoneIsCovered
  <2>2. CASE ~Done(s)
    <3>1. ok /\ t + 1 > s /\ ~(t > s)
      BY <1>0, <1>4, <2>0, <2>2 DEF Done
    <3>2. s = t
      BY <2>0, <3>1
    <3> QED
      BY <1>2, <1>9, <3>1, <3>2 DEF WrapStep
  <2> QED
    BY <2>1, <2>2
<1>16. AbsentIsBare'
  <2> SUFFICES ASSUME NEW s \in Tools \ present
               PROVE  Shape(s) = "added" /\ ~Guarded(s, "slot")'
    BY <1>1, <1>5 DEF AbsentIsBare
  <2>1. Shape(s) = "added" /\ ~Guarded(s, "slot")
    BY DEF InstallInv, AbsentIsBare
  <2>2. s # t
    <3>1. Shape(s) \in ShapesOf[config.framework] /\ config.framework \in Frameworks
      BY ConfigFacts DEF TypeOK
    <3>2. config.framework = "autogenHook"
      BY <2>1, <3>1 DEF ShapesOf, Frameworks
    <3> QED
      BY <1>0, <3>2 DEF PatchNext
  <2> QED
    BY <1>6, <2>1, <2>2 DEF Doors
<1> QED
  BY <1>11, <1>12, <1>13, <1>14, <1>15, <1>16 DEF InstallInv

\* An install begins, and ends; no layer changes.
LEMMA AttachKeeps ==
    ASSUME TypeOK, InstallInv, Attach \/ PatchRegister \/ Attached
    PROVE  TypeOK' /\ InstallInv'
<1> DEFINE n == Len(config.tools)
<1>1. UNCHANGED <<config, session, layers, patched, registry, present, call>>
  BY DEF Attach, PatchRegister, Attached, wrapping
<1>2. hooked' \in BOOLEAN
  BY DEF Attach, PatchRegister, Attached, wrapping, TypeOK
<1>3. /\ install \in [next : 0 .. n + 1, begun : Nat, ended : Nat, raised : Nat]
      /\ install.begun = 0 => install.next = 0 /\ install.ended = 0
      /\ n \in Nat /\ Tools = 1 .. n
      /\ \A s \in Tools : s \in Nat \ {0} /\ s <= n
  BY ConfigFacts DEF TypeOK, InstallTypeOK
<1>4. Tools' = Tools /\ \A s : Shape(s)' = Shape(s)
  BY <1>1 DEF Tools, Shape
<1>5. \A s, d : Guarded(s, d)' <=> Guarded(s, d)
  BY <1>1 DEF Guarded
<1>6. \A s : (Covered(s)' <=> Covered(s)) /\ (Exempt(s)' <=> Exempt(s))
  BY <1>1, <1>4, <1>5 DEF Covered, Exempt, Has
<1> HIDE DEF n
<1>7. /\ InstallTypeOK' /\ install'.raised = install.raised
      /\ \A s \in Tools : Fresh(s)' => Fresh(s)
      /\ \A s \in Tools : Done(s)' => Done(s) \/ Exempt(s)
      /\ install'.begun <= 1 => install.begun <= 1
  <2>1. CASE Attach
    <3>1. install' = [install EXCEPT !.next = 1, !.begun = install.begun + 1]
          /\ install.next = 0
      BY <2>1 DEF Attach
    <3>2. /\ install' \in [next : 0 .. n + 1, begun : Nat, ended : Nat, raised : Nat]
          /\ install'.begun # 0
      <4>1. /\ 0 \in 0 .. n + 1 /\ 1 \in 0 .. n + 1
            /\ install.begun + 1 \in Nat \ {0} /\ install.ended + 1 \in Nat
            /\ install.begun \in Nat
        BY <1>3
      <4> QED
        BY <4>1, <1>3, <3>1
    <3>3. InstallTypeOK'
      BY <1>1, <3>2 DEF InstallTypeOK, n
    <3>4. \A s \in Tools : (Fresh(s)' => Fresh(s)) /\ (Done(s)' => Done(s))
      BY <1>3, <3>1 DEF Fresh, Done
    <3> QED
      BY <1>3, <3>1, <3>3, <3>4
  <2>2. CASE PatchRegister \/ Attached
    <3>1. /\ install' = [install EXCEPT !.next = 0, !.ended = install.ended + 1]
          /\ install.next # 0
      BY <2>2 DEF PatchRegister, Attached
    <3>2. /\ install' \in [next : 0 .. n + 1, begun : Nat, ended : Nat, raised : Nat]
          /\ install'.begun # 0
      <4>1. /\ 0 \in 0 .. n + 1 /\ 1 \in 0 .. n + 1
            /\ install.begun + 1 \in Nat \ {0} /\ install.ended + 1 \in Nat
            /\ install.begun \in Nat
        BY <1>3
      <4> QED
        BY <4>1, <1>3, <3>1
    <3>3. InstallTypeOK'
      BY <1>1, <3>2 DEF InstallTypeOK, n
    <3>4. \A s \in Tools : Done(s) \/ Exempt(s)
      <4>1. CASE PatchRegister
        BY <4>1 DEF PatchRegister, Exempt
      <4>2. CASE Attached
        <5>1. install.next = n + 1
          BY <1>3, <3>1, <4>2 DEF Attached
        <5> QED
          BY <1>3, <5>1 DEF Done
      <4> QED
        BY <2>2, <4>1, <4>2
    <3>5. \A s \in Tools : ~Fresh(s)'
      BY <1>3, <3>1 DEF Fresh
    <3> QED
      BY <1>3, <3>1, <3>3, <3>4, <3>5
  <2> QED
    BY <2>1, <2>2
<1>8. LayersTypeOK' /\ CallTypeOK'
  BY <1>1, <1>4 DEF TypeOK, LayersTypeOK, CallTypeOK
<1>9. TypeOK'
  BY <1>1, <1>2, <1>4, <1>7, <1>8 DEF TypeOK
<1>10. OnceEach' /\ AbsentIsBare'
  BY <1>1, <1>4, <1>5 DEF InstallInv, OnceEach, AbsentIsBare
<1>11. FirstInstall'
  BY <1>1, <1>4, <1>5, <1>7 DEF InstallInv, FirstInstall
<1>12. Patching'
  BY <1>1, <1>4, <1>5, <1>6, <1>7 DEF InstallInv, Patching
<1>13. DoneIsCovered'
  BY <1>4, <1>6, <1>7 DEF InstallInv, DoneIsCovered
<1> QED
  BY <1>9, <1>10, <1>11, <1>12, <1>13 DEF InstallInv

\* A function is added: to a tool that the framework did not know.
LEMMA AddFunctionKeeps ==
    ASSUME TypeOK, InstallInv, NEW t \in Tools, AddFunction(t)
    PROVE  TypeOK' /\ InstallInv'
<1>1. /\ UNCHANGED <<config, session, patched, hooked, install, call>>
      /\ t \notin present
      /\ present' \in {present, present \cup {t}}
      /\ registry' \in {registry, registry \cup {t}}
  BY DEF AddFunction
<1>2. /\ Shape(t) = "added" /\ ~Guarded(t, "slot")
  BY <1>1 DEF InstallInv, AbsentIsBare
<1>3. config.framework = "autogenHook"
  <2>1. Shape(t) \in ShapesOf[config.framework] /\ config.framework \in Frameworks
    BY ConfigFacts DEF TypeOK
  <2> QED
    BY <1>2, <2>1 DEF ShapesOf, Frameworks
<1>4. PICK W \in {{}, {"slot"}} : WrapDoors(t, W) /\ (W = {"slot"} => t \in present')
  <2>1. CASE layers' = layers
    <3>1. WrapDoors(t, {})
      BY <2>1, NoDoor DEF TypeOK
    <3> QED
      BY <3>1
  <2>2. CASE layers' = Around(layers, t, "slot", "wrapper") /\ t \in present'
    <3>1. "slot" \in Doors /\ LayerOf(t, "slot") = "wrapper"
      BY <1>2 DEF LayerOf, Wrapper, Doors
    <3>2. WrapDoors(t, {"slot"})
      BY <2>2, <3>1, OneDoor DEF TypeOK
    <3> QED
      BY <2>2, <3>2
  <2> QED
    BY <2>1, <2>2 DEF AddFunction
<1>5. W \in SUBSET Doors
  BY <1>4 DEF Doors
<1>6. /\ LayersTypeOK'
      /\ \A s \in Tools : s # t => layers'[s] = layers[s]
      /\ \A d \in Doors \ W : layers'[t][d] = layers[t][d]
      /\ \A d \in W : /\ layers'[t][d] # <<>>
                      /\ Len(layers'[t][d]) = Len(layers[t][d]) + 1
  BY <1>1, <1>4, <1>5, WrapDoorsFacts DEF TypeOK
<1>7. Tools' = Tools /\ \A s : Shape(s)' = Shape(s)
  BY <1>1 DEF Tools, Shape
<1>8. \A s \in Tools : \A d \in Doors :
          /\ Guarded(s, d) => Guarded(s, d)'
          /\ Guarded(s, d)' => Guarded(s, d) \/ (s = t /\ d = "slot")
  BY <1>4, <1>6 DEF Guarded
<1>9. \A s \in Tools : Covered(s) => Covered(s)'
  <2>1. \A s \in Tools : LastDoors(Shape(s)) \in SUBSET Doors
    <3>1. \A s \in Tools : Shape(s) \in DOMAIN DoorsOf
      BY ConfigFacts DEF TypeOK
    <3> QED
      BY <3>1, ShapeFacts DEF Doors
  <2> QED
    BY <1>7, <1>8, <2>1 DEF Covered
<1>10. TypeOK'
  <2>1. CallTypeOK' /\ InstallTypeOK'
    BY <1>1 DEF TypeOK, CallTypeOK, InstallTypeOK
  <2> QED
    BY <1>1, <1>6, <1>7, <2>1 DEF TypeOK
<1>11. OnceEach'
  <2> SUFFICES ASSUME NEW s \in Tools, NEW d \in Doors \ {"hook", "stream"}
               PROVE  Len(layers'[s][d]) <= 1
    BY <1>7 DEF OnceEach
  <2>1. Len(layers[s][d]) <= 1
    BY DEF InstallInv, OnceEach
  <2>2. CASE s = t /\ d \in W
    <3>1. layers[t][d] = <<>>
      BY <1>2, <1>4, <2>2 DEF Guarded
    <3>2. Len(layers'[t][d]) = Len(<<>>) + 1
      BY <1>6, <2>2, <3>1
    <3>3. Len(layers'[t][d]) <= 1
      BY <3>2
    <3> QED
      BY <3>3, <2>2
  <2>3. CASE ~(s = t /\ d \in W)
    <3>1. layers'[s][d] = layers[s][d]
      BY <1>6, <2>3
    <3> QED
      BY <3>1, <2>1
  <2> QED
    BY <2>2, <2>3
<1>12. FirstInstall'
  <2> SUFFICES ASSUME NEW s \in Tools, Shape(s) \in Rewrapped
               PROVE  /\ Fresh(s) => \A d \in Doors : ~Guarded(s, d)'
                      /\ install.begun <= 1 =>
                             /\ ~Guarded(s, "invoke")'
                             /\ Len(layers'[s]["hook"]) <= 1
                             /\ Len(layers'[s]["stream"]) <= 1
    BY <1>1, <1>7 DEF FirstInstall, Fresh
  <2>1. s # t
    BY <1>2 DEF Rewrapped
  <2>2. layers'[s] = layers[s]
    BY <1>6, <2>1
  <2> QED
    BY <2>2 DEF InstallInv, FirstInstall, Guarded
<1>13. Patching'
  <2>1. "run_json" \in Doors /\ "func" \in Doors
    BY DEF Doors
  <2> QED
    BY <1>1, <1>7, <1>8, <1>9, <2>1 DEF InstallInv, Patching
<1>14. DoneIsCovered'
  BY <1>1, <1>3 DEF DoneIsCovered, Exempt
<1>15. AbsentIsBare'
  BY <1>1, <1>4, <1>7, <1>8, <1>6 DEF InstallInv, AbsentIsBare, Guarded, Doors
<1> QED
  BY <1>10, <1>11, <1>12, <1>13, <1>14, <1>15 DEF InstallInv

-----------------------------------------------------------------------------
(* The steps of a call.                                                    *)

\* What may become of a call at a guard.
Effects == {"asked", "rewritten", "stripped"} \cup Stopping

\* Every guard makes one of these of every decision.
LEMMA LetsType ==
    ASSUME config \in Configs, NEW layer \in Guards, NEW d \in Decisions
    PROVE  Lets(layer, d) \in SUBSET Effects
<1>1. config.remote \in BOOLEAN /\ config.mode \in {"enforce", "monitor", "dry_run"}
  BY ConfigFacts
<1>2. /\ d.action \in {"ALLOW", "LLM_CHECK", "DENY", "HUMAN_CHECK", "DEGRADE"}
  BY DEF Decisions
<1>3. /\ Rewritten(d) \in {"asked", "rewritten"} /\ Collected(d) \in {"asked", "stripped"}
      /\ Limits(d) \in SUBSET {"refused"}
  BY DEF Rewritten, Collected, Limits
<1>4. SeenMode \in {"enforce", "monitor", "dry_run"}
  BY <1>1 DEF SeenMode
<1>5. Enforcer(d) \in SUBSET Effects
  BY <1>1, <1>2, <1>3 DEF Enforcer, Effects, Stopping
<1>6. RemoteCall(d) \in SUBSET Effects
  BY <1>1, <1>2, <1>3 DEF RemoteCall, Effects, Stopping
<1>7. AsyncWrapper(d) \in SUBSET Effects
  BY <1>4, <1>2, <1>3 DEF AsyncWrapper, Effects, Stopping
<1>8. GuardedRunJson(d) \in SUBSET Effects
  BY <1>2, <1>3 DEF GuardedRunJson, Effects, Stopping
<1>9. GuardedInvoke(d) \in SUBSET Effects
  <2>1. Lenient \in BOOLEAN
    BY <1>4 DEF Lenient
  <2> QED
    BY <1>2, <1>3, <2>1 DEF GuardedInvoke, Effects, Stopping
<1>10. McpGuarded(d) \in SUBSET Effects
  BY <1>2, <1>3 DEF McpGuarded, Effects, Stopping
<1>11. GuardPreToolUse(d) \in SUBSET Effects
  BY <1>2, <1>3 DEF GuardPreToolUse, Effects, Stopping
<1> QED
  BY <1>1, <1>5, <1>6, <1>7, <1>8, <1>9, <1>10, <1>11 DEF Lets, Guards

\* On the way of an app are observers, on every other way guards.
LEMMA OnWayType ==
    ASSUME config \in Configs, LayersTypeOK, NEW t \in Tools, NEW way \in Ways(Shape(t))
    PROVE  OnWay(t, way) \in Seq(IF Shape(t) = "App" THEN {"observer"} ELSE Guards)
<1>1. Shape(t) \in DOMAIN DoorsOf
  BY ConfigFacts
<1>2. /\ \A d \in Doors : layers[t][d] \in Seq(IF d = "stream" THEN {"observer"} ELSE Guards)
      /\ "func" \in Doors /\ "run_json" \in Doors /\ "invoke" \in Doors
      /\ "coroutine" \in Doors
  BY DEF LayersTypeOK, Doors
<1>3. CASE Shape(t) \in {"FunctionTool", "StructuredTool", "AsyncTool"}
  <2>1. way \in {<<"run_json", "func">>, <<"invoke", "func">>, <<"coroutine">>}
    BY <1>3 DEF Ways
  <2>2. layers[t]["func"] \in Seq(Guards)
    BY <1>2
  <2>3. CASE way = <<"run_json", "func">>
    <3>1. way[1] = "run_json" /\ way[2] = "func" /\ Len(way) = 2
      BY <2>3
    <3>2. OnWay(t, way) = layers[t]["run_json"] \o layers[t]["func"]
      BY <3>1 DEF OnWay
    <3>3. layers[t]["run_json"] \in Seq(Guards)
      BY <1>2
    <3> QED
      BY <1>3, <2>2, <3>2, <3>3, ConcatProperties
  <2>4. CASE way = <<"invoke", "func">>
    <3>1. way[1] = "invoke" /\ way[2] = "func" /\ Len(way) = 2
      BY <2>4
    <3>2. OnWay(t, way) = layers[t]["invoke"] \o layers[t]["func"]
      BY <3>1 DEF OnWay
    <3>3. layers[t]["invoke"] \in Seq(Guards)
      BY <1>2
    <3> QED
      BY <1>3, <2>2, <3>2, <3>3, ConcatProperties
  <2>5. CASE way = <<"coroutine">>
    <3>1. way[1] = "coroutine" /\ Len(way) # 2
      BY <2>5
    <3>2. layers[t]["coroutine"] \in Seq(Guards)
      BY <1>2
    <3>3. OnWay(t, way) = layers[t]["coroutine"]
      BY <3>1, <3>2, ConcatEmptySeq DEF OnWay
    <3> QED
      BY <1>3, <3>2, <3>3
  <2> QED
    BY <2>1, <2>3, <2>4, <2>5
<1>4. CASE Shape(t) \notin {"FunctionTool", "StructuredTool", "AsyncTool"}
  <2>1. PICK door \in DoorsOf[Shape(t)] : way = <<door>>
    BY <1>1, <1>4, ShapeFacts
  <2>2. way[1] = door /\ Len(way) # 2
    BY <2>1
  <2>3. door \in Doors /\ (door = "stream" <=> Shape(t) = "App")
    BY <1>1, <1>4 DEF DoorsOf, Doors
  <2>4. layers[t][door] \in Seq(IF Shape(t) = "App" THEN {"observer"} ELSE Guards)
    BY <1>2, <2>3
  <2>5. OnWay(t, way) = layers[t][door]
    BY <2>2, <2>4, ConcatEmptySeq DEF OnWay
  <2> QED
    BY <2>4, <2>5
<1> QED
  BY <1>3, <1>4

\* A call that has just begun has nothing to explain.
LEMMA CallBegins ==
    ASSUME config \in Configs, LayersTypeOK, NEW t \in Tools, Call(t)
    PROVE  CallTypeOK' /\ CallInv'
<1>1. PICK way \in Ways(Shape(t)) :
          call' = [Idle EXCEPT !.at = IF Shape(t) = "App" THEN "streaming" ELSE "layers",
                               !.tool = t, !.todo = OnWay(t, way)]
  BY DEF Call
<1>2. OnWay(t, way) \in Seq(IF Shape(t) = "App" THEN {"observer"} ELSE Guards)
  BY OnWayType
<1>3. OnWay(t, way) \in Seq(LayerNames)
  <2>1. {"observer"} \subseteq LayerNames /\ Guards \subseteq LayerNames
    BY DEF LayerNames
  <2> QED
    BY <1>2, <2>1
<1>4. t \in Nat
  BY ConfigFacts
<1>5. /\ call'.at = IF Shape(t) = "App" THEN "streaming" ELSE "layers"
      /\ call'.todo = OnWay(t, way) /\ call'.judged = <<>> /\ call'.args = "asked"
  BY <1>1 DEF Idle
<1>6. CallTypeOK'
  <2>1. <<>> \in Seq(Verdict)
    OBVIOUS
  <2> QED
    BY <1>1, <1>3, <1>4, <2>1 DEF CallTypeOK, Idle
<1>7. DOMAIN call'.judged = {}
  BY <1>5
<1>8. Streams' /\ AllPassed' /\ LastStopped' /\ ArgumentsNoted'
  BY <1>2, <1>5, <1>7 DEF Streams, AllPassed, LastStopped, ArgumentsNoted, Stopping
<1> QED
  BY <1>6, <1>8 DEF CallInv

\* A guard has judged: one more verdict, which lets the call go on or stops it.
LEMMA JudgeKeeps ==
    ASSUME config \in Configs, CallTypeOK, CallInv, Judge
    PROVE  CallTypeOK' /\ CallInv'
<1>0. config' = config
  BY DEF Judge
<1>1. /\ call.at = "layers" /\ call.todo # <<>>
      /\ call.todo \in Seq(Guards) /\ call.todo \in Seq(LayerNames)
      /\ call.judged \in Seq(Verdict)
      /\ call.args \in {"asked", "rewritten", "stripped"}
  BY DEF Judge, CallInv, Streams, CallTypeOK
<1>2. PICK layer \in Guards :
          /\ layer = Head(call.todo)
          /\ layer \in LayerNames /\ Tail(call.todo) \in Seq(Guards)
          /\ Tail(call.todo) \in Seq(LayerNames)
  BY <1>1, HeadTailProperties
<1>2a. PICK d \in Decisions : \E effect \in Lets(layer, d) :
          call' = [call EXCEPT
                      !.judged = Append(@, [layer |-> layer, decision |-> d]),
                      !.todo = Tail(@),
                      !.at = IF effect \in Stopping THEN effect ELSE @,
                      !.args = IF effect \in Stopping \cup {"asked"} THEN @ ELSE effect]
  BY <1>2 DEF Judge
<1>3. PICK effect \in Lets(layer, d) :
          call' = [call EXCEPT
                      !.judged = Append(@, [layer |-> layer, decision |-> d]),
                      !.todo = Tail(@),
                      !.at = IF effect \in Stopping THEN effect ELSE @,
                      !.args = IF effect \in Stopping \cup {"asked"} THEN @ ELSE effect]
  BY <1>2a
<1>4. effect \in Effects
  BY <1>2, LetsType
<1> DEFINE v == [layer |-> layer, decision |-> d]
<1>5. v \in Verdict /\ v.layer = layer /\ v.decision = d
  BY <1>2 DEF Verdict
<1>6. effect \notin Stopping => effect \in Passes(v)
  BY <1>5 DEF Passes
<1>7. v.layer # "observer" /\ v.layer \in Guards
  BY <1>2, <1>5 DEF Guards
<1>8. /\ call'.judged = Append(call.judged, v)
      /\ call'.todo = Tail(call.todo)
      /\ call'.at = IF effect \in Stopping THEN effect ELSE "layers"
      /\ call'.args = IF effect \in Stopping \cup {"asked"} THEN call.args ELSE effect
  BY <1>1, <1>3 DEF CallTypeOK
<1>9. CallTypeOK'
  <2>1. Append(call.judged, v) \in Seq(Verdict)
    BY <1>1, <1>5
  <2>2. call'.at \in {"layers"} \cup Stopping
    BY <1>8
  <2>3. call'.args \in {"asked", "rewritten", "stripped"}
    BY <1>1, <1>4, <1>8 DEF Effects
  <2> HIDE DEF v
  <2> QED
    BY <1>2, <1>3, <1>8, <2>1, <2>2, <2>3 DEF CallTypeOK
<1> HIDE DEF v
<1>10. /\ Len(call.judged) \in Nat
       /\ DOMAIN call.judged = 1 .. Len(call.judged)
       /\ Len(call'.judged) = Len(call.judged) + 1
       /\ DOMAIN call'.judged = 1 .. (Len(call.judged) + 1)
       /\ call'.judged[Len(call.judged) + 1] = v
       /\ \A i \in DOMAIN call.judged : call'.judged[i] = call.judged[i]
  BY <1>1, <1>5, <1>8, AppendProperties
<1>11. \A i \in DOMAIN call'.judged :
           \/ i \in DOMAIN call.judged /\ call'.judged[i] = call.judged[i]
           \/ call'.judged[i] = v
  BY <1>10
<1>12. \A i \in DOMAIN call.judged : i \in DOMAIN call'.judged
  BY <1>10
<1>13. \A u : Passes(u)' = Passes(u)
  BY <1>0 DEF Passes, Lets, Enforcer, RemoteCall, AsyncWrapper, GuardedRunJson,
              GuardedInvoke, McpGuarded, GuardPreToolUse, Lenient, SeenMode
<1>14. /\ \A i \in DOMAIN call.judged : call.judged[i].layer # "observer"
       /\ \A i \in DOMAIN call.judged : Passes(call.judged[i]) # {}
       /\ call.args = "stripped" => \E i \in DOMAIN call.judged :
                                        "stripped" \in Passes(call.judged[i])
       /\ call.args = "asked" => \A i \in DOMAIN call.judged :
                                     "asked" \in Passes(call.judged[i])
  BY <1>1 DEF CallInv, Streams, AllPassed, ArgumentsNoted, Passing
<1>15. CASE effect \in Stopping
  <2>1. call'.at \in Stopping
    BY <1>8, <1>15
  <2>2. call'.judged # <<>>
    BY <1>10
  <2>3. LastStopped'
    <3>1. Lets(layer, d)' = Lets(layer, d)
      BY <1>0 DEF Lets, Enforcer, RemoteCall, AsyncWrapper, GuardedRunJson,
                  GuardedInvoke, McpGuarded, GuardPreToolUse, Lenient, SeenMode
    <3>2. call'.judged[Len(call'.judged)] = v
      BY <1>10
    <3>3. call'.at = effect
      BY <1>8, <1>15
    <3> QED
      BY <1>5, <1>7, <2>2, <3>1, <3>2, <3>3 DEF LastStopped
  <2>4. Streams' /\ AllPassed' /\ ArgumentsNoted'
    BY <2>1 DEF Streams, AllPassed, ArgumentsNoted, Passing, Stopping
  <2> QED
    BY <1>9, <2>3, <2>4 DEF CallInv
<1>16. CASE effect \notin Stopping
  <2>1. call'.at = "layers"
    BY <1>8, <1>16
  <2>2. Streams'
    BY <1>2, <1>7, <1>8, <1>11, <1>14, <2>1 DEF Streams
  <2>3. AllPassed'
    BY <1>6, <1>11, <1>13, <1>14, <1>16 DEF AllPassed
  <2>4. LastStopped'
    BY <2>1 DEF LastStopped, Stopping
  <2>5. ArgumentsNoted'
    <3>1. CASE effect = "asked"
      <4>1. call'.args = call.args /\ "asked" \in Passes(v)
        BY <1>6, <1>8, <1>16, <3>1
      <4>2. call'.args = "stripped" => \E i \in DOMAIN call'.judged :
                /\ call'.judged[i].layer # "observer"
                /\ "stripped" \in Passes(call'.judged[i])
        BY <1>10, <1>12, <1>14, <4>1
      <4>3. call'.args = "asked" => \A i \in DOMAIN call'.judged :
                "asked" \in Passes(call'.judged[i])
        BY <1>11, <1>14, <4>1
      <4> QED
        BY <1>13, <4>2, <4>3 DEF ArgumentsNoted
    <3>2. CASE effect # "asked"
      <4>1. call'.args = effect /\ effect \in Passes(v)
        BY <1>6, <1>8, <1>16, <3>2
      <4>2. Len(call.judged) + 1 \in DOMAIN call'.judged
        BY <1>10
      <4>3. call'.args = "stripped" => \E i \in DOMAIN call'.judged :
                /\ call'.judged[i].layer # "observer"
                /\ "stripped" \in Passes(call'.judged[i])
        BY <1>7, <1>10, <4>1, <4>2
      <4> QED
        BY <1>13, <3>2, <4>1, <4>3 DEF ArgumentsNoted
    <3> QED
      BY <3>1, <3>2
  <2> QED
    BY <1>9, <2>2, <2>3, <2>4, <2>5 DEF CallInv
<1> QED
  BY <1>15, <1>16

\* The verdicts mean the same as long as the guard is the same.
LEMMA LetsSame ==
    ASSUME config' = config
    PROVE  \A layer, d : Lets(layer, d)' = Lets(layer, d)
BY DEF Lets, Enforcer, RemoteCall, AsyncWrapper, GuardedRunJson,
       GuardedInvoke, McpGuarded, GuardPreToolUse, Lenient, SeenMode

\* An exception in a guard leaves the verdicts as they are, and Run follows only
\* verdicts to go on with.
LEMMA JudgeRaisesAndRunKeep ==
    ASSUME config \in Configs, CallTypeOK, CallInv, JudgeRaises \/ Run
    PROVE  CallTypeOK' /\ CallInv'
<1>1. /\ call.at = "layers" /\ config' = config
      /\ call.todo \in Seq(Guards) /\ call.todo \in Seq(LayerNames)
  BY DEF JudgeRaises, Run, CallInv, Streams, CallTypeOK
<1>2. \A u : Passes(u)' = Passes(u)
  BY <1>1, LetsSame DEF Passes
<1>3. /\ call'.judged = call.judged /\ call'.args = call.args
      /\ call'.at \in {"layers", "failed", "ran"}
      /\ call'.at = "layers" => call'.todo = Tail(call.todo) /\ call.todo # <<>>
      /\ CallTypeOK'
  <2>1. CASE JudgeRaises
    <3>1. Tail(call.todo) \in Seq(LayerNames)
      BY <1>1, <2>1, HeadTailProperties DEF JudgeRaises
    <3>2. call.todo # <<>>
      BY <2>1 DEF JudgeRaises
    <3>3. \/ call' = [call EXCEPT !.raised = TRUE, !.todo = Tail(@)]
          \/ call' = [call EXCEPT !.raised = TRUE, !.at = "failed"]
      BY <2>1 DEF JudgeRaises
    <3> QED
      BY <1>1, <3>1, <3>2, <3>3 DEF CallTypeOK
  <2>2. CASE Run
    BY <1>1, <2>2 DEF CallTypeOK, Run
  <2> QED
    BY <2>1, <2>2
<1>4. call'.at = "layers" => call'.todo \in Seq(Guards)
  BY <1>1, <1>3, HeadTailProperties
<1>5. Streams'
  BY <1>1, <1>3, <1>4 DEF CallInv, Streams
<1>6. AllPassed'
  BY <1>1, <1>2, <1>3 DEF CallInv, AllPassed, Passing
<1>7. ArgumentsNoted'
  BY <1>1, <1>2, <1>3 DEF CallInv, ArgumentsNoted, Passing
<1>8. LastStopped'
  BY <1>3 DEF LastStopped, Stopping
<1> QED
  BY <1>3, <1>5, <1>6, <1>7, <1>8 DEF CallInv

\* A stream is observed, and its tool runs, whatever is observed.
LEMMA StreamKeeps ==
    ASSUME config \in Configs, CallTypeOK, CallInv,
           RunRemotely \/ Observe \/ Stop \/ StreamEnds
    PROVE  CallTypeOK' /\ CallInv'
<1>1. call.at = "streaming" /\ config' = config
  BY DEF RunRemotely, Observe, Stop, StreamEnds
<1>2. /\ \A i \in DOMAIN call.judged : call.judged[i].layer = "observer"
      /\ call.args = "asked" /\ call.judged \in Seq(Verdict) /\ call.todo \in Seq(LayerNames)
  BY <1>1 DEF CallInv, Streams, CallTypeOK
<1>3. CASE RunRemotely \/ Stop \/ StreamEnds
  <2>1. /\ CallTypeOK'
        /\ call'.judged = call.judged /\ call'.args = call.args
        /\ call'.at \in {"streaming", "ran", "stopped"}
    BY <1>1, <1>3 DEF CallTypeOK, RunRemotely, Stop, StreamEnds
  <2>2. Streams' /\ AllPassed' /\ LastStopped' /\ ArgumentsNoted'
    BY <1>2, <2>1 DEF Streams, AllPassed, LastStopped, ArgumentsNoted, Stopping
  <2> QED
    BY <2>1, <2>2 DEF CallInv
<1>4. CASE Observe
  <2>1. call.todo # <<>>
    BY <1>4 DEF Observe
  <2>2. Tail(call.todo) \in Seq(LayerNames)
    BY <1>2, <2>1, HeadTailProperties
  <2>3. CASE call' = [call EXCEPT !.raised = TRUE, !.todo = Tail(@)]
    <3>1. /\ CallTypeOK'
          /\ call'.judged = call.judged /\ call'.args = call.args
          /\ call'.at = "streaming"
      BY <1>1, <2>2, <2>3 DEF CallTypeOK
    <3>2. Streams' /\ AllPassed' /\ LastStopped' /\ ArgumentsNoted'
      BY <1>2, <3>1 DEF Streams, AllPassed, LastStopped, ArgumentsNoted, Stopping
    <3> QED
      BY <3>1, <3>2 DEF CallInv
  <2>4. CASE \E d \in Decisions, able \in BOOLEAN :
                 call' = [call EXCEPT
                             !.todo = Tail(@),
                             !.judged = Append(@, [layer |-> "observer",
                                                   decision |-> d]),
                             !.stop = \/ @
                                      \/ /\ d.action \in {"DENY", "HUMAN_CHECK"}
                                         /\ config.mode = "enforce" /\ able]
    <3>1. PICK d \in Decisions, stop \in BOOLEAN :
              call' = [call EXCEPT
                          !.todo = Tail(@),
                          !.judged = Append(@, [layer |-> "observer", decision |-> d]),
                          !.stop = stop]
      <4>1. call.stop \in BOOLEAN
        BY DEF CallTypeOK
      <4> QED
        BY <2>4, <4>1
    <3> DEFINE v == [layer |-> "observer", decision |-> d]
    <3>2. v \in Verdict /\ v.layer = "observer"
      BY DEF Verdict, LayerNames
    <3>3. /\ call'.judged = Append(call.judged, v) /\ call'.args = "asked"
          /\ call'.at = "streaming"
      BY <1>1, <1>2, <3>1 DEF CallTypeOK
    <3> HIDE DEF v
    <3>4. Append(call.judged, v) \in Seq(Verdict)
      BY <1>2, <3>2
    <3>5. CallTypeOK'
      BY <1>1, <1>2, <2>2, <3>1, <3>3, <3>4 DEF CallTypeOK, v
    <3>6. \A i \in DOMAIN call'.judged : call'.judged[i].layer = "observer"
      <4>1. /\ Len(call.judged) \in Nat
            /\ DOMAIN call'.judged = 1 .. (Len(call.judged) + 1)
            /\ DOMAIN call.judged = 1 .. Len(call.judged)
            /\ call'.judged[Len(call.judged) + 1] = v
            /\ \A i \in 1 .. Len(call.judged) : call'.judged[i] = call.judged[i]
        BY <1>2, <3>2, <3>3, AppendProperties
      <4>2. \A i \in DOMAIN call'.judged :
                \/ i \in DOMAIN call.judged /\ call'.judged[i] = call.judged[i]
                \/ call'.judged[i] = v
        BY <4>1
      <4> QED
        BY <1>2, <3>2, <4>2
    <3>7. Streams' /\ AllPassed' /\ LastStopped' /\ ArgumentsNoted'
      BY <3>3, <3>6 DEF Streams, AllPassed, LastStopped, ArgumentsNoted, Stopping
    <3> QED
      BY <3>5, <3>7 DEF CallInv
  <2> QED
    BY <1>4, <2>3, <2>4 DEF Observe
<1> QED
  BY <1>3, <1>4

\* Between calls there is nothing to explain.
LEMMA IdleIsFine ==
    ASSUME call = Idle
    PROVE  CallTypeOK /\ CallInv
<1>1. <<>> \in Seq(LayerNames) /\ <<>> \in Seq(Verdict)
  OBVIOUS
<1>2. CallTypeOK
  BY <1>1 DEF CallTypeOK, Idle
<1>3. call.at = "idle" /\ call.args = "asked"
  BY DEF Idle
<1> QED
  BY <1>2, <1>3 DEF CallInv, Streams, AllPassed, LastStopped, ArgumentsNoted, Passing, Stopping

\* Over makes the call idle again.
LEMMA OverKeeps ==
    ASSUME Over
    PROVE  CallTypeOK' /\ CallInv'
BY DEF Over, CallTypeOK, CallInv, Streams, AllPassed, LastStopped,
                  ArgumentsNoted, Passing, Stopping, Idle

-----------------------------------------------------------------------------
(* The invariant.                                                          *)

\* Before any install nothing is guarded.
LEMMA InitEstablishes ==
    ASSUME Init
    PROVE  IInv
<1>1. config \in Configs
  BY DEF Init
<1>2. /\ layers = [t \in Tools |-> [door \in Doors |-> <<>>]]
      /\ patched = {} /\ registry = {} /\ hooked = FALSE /\ session = "none"
      /\ present = {t \in Tools : Shape(t) # "added"}
      /\ install = [next |-> 0, begun |-> 0, ended |-> 0, raised |-> 0]
      /\ call = Idle
  BY DEF Init
<1>3. /\ \A t \in Tools : t \in Nat \ {0}
      /\ Len(config.tools) \in Nat
  BY <1>1, ConfigFacts
<1>4. \A t \in Tools : \A d \in Doors : layers[t][d] = <<>> /\ ~Guarded(t, d)
  BY <1>2 DEF Guarded
<1>5. LayersTypeOK
  <2>1. <<>> \in Seq(LayerNames)
        /\ \A d \in Doors : <<>> \in Seq(IF d = "stream" THEN {"observer"} ELSE Guards)
    OBVIOUS
  <2> QED
    BY <1>2, <1>4, <2>1 DEF LayersTypeOK
<1>6. InstallTypeOK
  BY <1>2, <1>3 DEF InstallTypeOK
<1>7. CallTypeOK /\ CallInv
  BY <1>2, IdleIsFine
<1>8. TypeOK
  BY <1>1, <1>2, <1>5, <1>6, <1>7 DEF TypeOK
<1>9. /\ "hook" \in Doors /\ "stream" \in Doors /\ "invoke" \in Doors
      /\ "run_json" \in Doors /\ "func" \in Doors /\ "slot" \in Doors
  BY DEF Doors
<1>10. Len(<<>>) <= 1
  OBVIOUS
<1>11. OnceEach /\ FirstInstall
  BY <1>4, <1>9, <1>10 DEF OnceEach, FirstInstall
<1>12. Patching /\ AbsentIsBare
  BY <1>2, <1>4, <1>9 DEF Patching, AbsentIsBare
<1>13. DoneIsCovered
  BY <1>2, <1>3 DEF DoneIsCovered, Done
<1> QED
  BY <1>7, <1>8, <1>11, <1>12, <1>13 DEF IInv, InstallInv

\* Steps that leave the installs and their layers alone keep what is known of
\* them.
LEMMA LayersKept ==
    ASSUME InstallInv, TypeOK,
           UNCHANGED <<config, layers, patched, registry, hooked, present, install>>,
           session' \in {"none", "open", "ended"}, CallTypeOK'
    PROVE  TypeOK' /\ InstallInv'
<1>1. TypeOK'
  <2>1. LayersTypeOK'
    BY DEF TypeOK, LayersTypeOK, Tools
  <2>2. InstallTypeOK'
    BY DEF TypeOK, InstallTypeOK
  <2> QED
    BY <2>1, <2>2 DEF TypeOK, Tools
<1>2. InstallInv'
  BY DEF InstallInv, OnceEach, FirstInstall, Patching, DoneIsCovered, AbsentIsBare,
         Tools, Shape, Guarded, Covered, Exempt, Has, Fresh, Done
<1> QED
  BY <1>1, <1>2

\* Steps that leave the call alone keep what is known of it.
LEMMA CallKept ==
    ASSUME CallTypeOK, CallInv, call' = call, config' = config
    PROVE  CallTypeOK' /\ CallInv'
<1>1. \A u : Passes(u)' = Passes(u)
  BY LetsSame DEF Passes
<1>2. \A layer, d : Lets(layer, d)' = Lets(layer, d)
  BY LetsSame
<1>3. CallTypeOK'
  BY DEF CallTypeOK
<1>4. Streams'
  BY DEF CallInv, Streams
<1>5. AllPassed'
  BY <1>1 DEF CallInv, AllPassed, Passing
<1>6. LastStopped'
  BY <1>2 DEF CallInv, LastStopped
<1>7. ArgumentsNoted'
  BY <1>1 DEF CallInv, ArgumentsNoted, Passing
<1> QED
  BY <1>3, <1>4, <1>5, <1>6, <1>7 DEF CallInv

\* Every step keeps the invariant.
LEMMA NextKeeps ==
    ASSUME IInv, [Next]_vars
    PROVE  IInv'
<1>0. TypeOK /\ CallInv /\ InstallInv
  BY DEF IInv
<1>1. config \in Configs /\ LayersTypeOK /\ CallTypeOK
  BY <1>0 DEF TypeOK
<1>2. CASE Start \/ End
  <2>1. /\ UNCHANGED <<config, layers, patched, registry, hooked, present, install, call>>
        /\ session' \in {"none", "open", "ended"}
    BY <1>2 DEF Start, End, wrapping
  <2> QED
    BY <1>0, <1>1, <2>1, CallKept, LayersKept DEF IInv
<1>3. CASE Attach \/ PatchRegister \/ Attached
  <2>1. UNCHANGED <<config, call>>
    BY <1>3 DEF Attach, PatchRegister, Attached
  <2> QED
    BY <1>0, <1>1, <1>3, <2>1, AttachKeeps, CallKept DEF IInv
<1>4. CASE PatchNext
  <2>1. UNCHANGED <<config, call>>
    BY <1>4 DEF PatchNext
  <2> QED
    BY <1>0, <1>1, <1>4, <2>1, PatchNextKeeps, CallKept DEF IInv
<1>5. ASSUME NEW t \in Tools, AddFunction(t) PROVE IInv'
  <2>1. UNCHANGED <<config, call>>
    BY <1>5 DEF AddFunction
  <2> QED
    BY <1>0, <1>1, <1>5, <2>1, AddFunctionKeeps, CallKept DEF IInv
<1>6. ASSUME NEW t \in Tools, Call(t) PROVE IInv'
  <2>1. CallTypeOK' /\ CallInv'
    BY <1>1, <1>6, CallBegins
  <2>2. UNCHANGED <<config, session, layers, patched, registry, hooked, present, install>>
    BY <1>6 DEF Call, wrapping
  <2> QED
    BY <1>0, <2>1, <2>2, LayersKept DEF IInv, TypeOK
<1>7. CASE Judge \/ JudgeRaises \/ Run \/ RunRemotely \/ Observe \/ Stop \/ StreamEnds \/ Over
  <2>1. CallTypeOK' /\ CallInv'
    BY <1>0, <1>1, <1>7, JudgeKeeps, JudgeRaisesAndRunKeep, StreamKeeps, OverKeeps
  <2>2. UNCHANGED <<config, session, layers, patched, registry, hooked, present, install>>
    BY <1>7 DEF Judge, JudgeRaises, Run, RunRemotely, Observe, Stop, StreamEnds, Over, wrapping
  <2> QED
    BY <1>0, <2>1, <2>2, LayersKept DEF IInv, TypeOK
<1>8. CASE UNCHANGED vars
  <2>1. UNCHANGED <<config, session, layers, patched, registry, hooked, present, install, call>>
    BY <1>8 DEF vars
  <2> QED
    BY <1>0, <1>1, <2>1, CallKept, LayersKept DEF IInv, TypeOK
<1> QED
  BY <1>2, <1>3, <1>4, <1>5, <1>6, <1>7, <1>8 DEF Next

\* What every reachable state of the adapters is like.
LEMMA Invariance == Spec => []IInv
<1>1. Init => IInv
  BY InitEstablishes
<1>2. IInv /\ [Next]_vars => IInv'
  BY NextKeeps
<1> QED
  BY <1>1, <1>2, PTL DEF Spec

\* Type correctness: tools have guards of known kinds around known doors, a
\* call has a place, the layers before it and the verdicts behind it.
THEOREM TypeCorrect == Spec => []TypeOK
<1>1. IInv => TypeOK
  BY DEF IInv
<1> QED
  BY <1>1, Invariance, PTL

-----------------------------------------------------------------------------
(* What the guards keep to.                                                *)

\* In enforce mode, what each guard lets pass of each decision: never a DENY, a
\* review only where it is left to somebody else, and masked arguments masked.
LEMMA EnforceVerdicts ==
    ASSUME config \in Configs, config.mode = "enforce",
           NEW layer \in Guards, NEW d \in Decisions
    PROVE  /\ Lets(layer, d) \ Stopping # {} => d.action # "DENY"
           /\ \A review \in DOMAIN Unreviewed :
                  Lets(layer, d) \ Stopping # {} /\ d.action = review =>
                      layer \in Unreviewed[review] \cup Elsewhere
           /\ "stripped" \in Lets(layer, d) => layer \in {"guarded", "guard_pretooluse"}
           /\ "asked" \in Lets(layer, d) /\ d.obliges = "mask" =>
                  \/ layer = "guarded_run_json"
                  \/ layer = "wrapper" /\ config.remote /\ d.action = "ALLOW"
                  \/ layer = "wrapper" /\ ~config.remote /\ d.action # "ALLOW"
                  \/ layer = "guard_pretooluse" /\ d.action = "LLM_CHECK"
<1>1. config.remote \in BOOLEAN /\ SeenMode = "enforce" /\ ~Lenient
  BY ConfigFacts DEF SeenMode, Lenient
<1>2. /\ d.action \in {"ALLOW", "LLM_CHECK", "DENY", "HUMAN_CHECK", "DEGRADE"}
      /\ d.obliges = "mask" => d.action \in {"ALLOW", "LLM_CHECK", "DEGRADE"}
  BY DEF Decisions
<1>3. /\ DOMAIN Unreviewed = {"LLM_CHECK", "HUMAN_CHECK"}
      /\ Unreviewed["LLM_CHECK"] = {"async_wrapper", "guarded_run_json", "guarded_invoke"}
      /\ Unreviewed["HUMAN_CHECK"] = {}
  BY DEF Unreviewed
<1>4. /\ Rewritten(d) \in {"asked", "rewritten"} /\ Collected(d) \in {"asked", "stripped"}
      /\ d.obliges = "mask" => Rewritten(d) = "rewritten" /\ Collected(d) = "stripped"
      /\ Limits(d) \in SUBSET {"refused"}
  BY DEF Rewritten, Collected, Limits
<1>5. CASE layer = "wrapper" /\ ~config.remote
  <2>1. Lets(layer, d) = Enforcer(d) /\ layer \in Elsewhere
    BY <1>5 DEF Lets, Elsewhere
  <2>2. /\ d.action = "ALLOW" => Enforcer(d) = {Rewritten(d)} \cup Limits(d)
        /\ d.action = "DENY" => Enforcer(d) = {"refused"}
        /\ "stripped" \notin Enforcer(d)
    BY <1>2, <1>4 DEF Enforcer
  <2> QED
    BY <1>2, <1>4, <1>5, <2>1, <2>2 DEF Stopping
<1>6. CASE layer = "wrapper" /\ config.remote
  <2>1. Lets(layer, d) = RemoteCall(d)
    BY <1>6 DEF Lets
  <2>2. /\ d.action \in {"LLM_CHECK", "HUMAN_CHECK"} => RemoteCall(d) = {"pending"}
        /\ d.action = "DENY" => RemoteCall(d) = {"refused"}
        /\ d.action = "DEGRADE" => RemoteCall(d) = {Rewritten(d)}
        /\ d.action = "ALLOW" => RemoteCall(d) = {"asked"}
    BY DEF RemoteCall
  <2> QED
    BY <1>2, <1>3, <1>4, <1>6, <2>1, <2>2 DEF Stopping
<1>7. CASE layer = "async_wrapper"
  <2>1. Lets(layer, d) = AsyncWrapper(d)
    BY <1>7 DEF Lets
  <2>2. /\ d.action = "DENY" => AsyncWrapper(d) = {"refused"}
        /\ d.action = "HUMAN_CHECK" => AsyncWrapper(d) = {"pending"}
        /\ d.action \notin {"DENY", "HUMAN_CHECK"} =>
               AsyncWrapper(d) = {Rewritten(d)} \cup Limits(d)
    BY <1>1 DEF AsyncWrapper
  <2> QED
    BY <1>2, <1>3, <1>4, <1>7, <2>1, <2>2 DEF Stopping
<1>8. CASE layer = "guarded_run_json"
  <2>1. Lets(layer, d) = GuardedRunJson(d)
    BY <1>8 DEF Lets
  <2>2. /\ d.action = "DENY" => GuardedRunJson(d) = {"refused"}
        /\ d.action = "HUMAN_CHECK" => GuardedRunJson(d) = {"pending"}
        /\ "stripped" \notin GuardedRunJson(d)
    BY <1>1 DEF GuardedRunJson
  <2> QED
    BY <1>2, <1>3, <1>4, <1>8, <2>1, <2>2 DEF Stopping
<1>9. CASE layer = "guarded_invoke"
  <2>1. Lets(layer, d) = GuardedInvoke(d)
    BY <1>9 DEF Lets
  <2>2. /\ d.action = "DENY" => GuardedInvoke(d) = {"refused"}
        /\ d.action = "HUMAN_CHECK" => GuardedInvoke(d) = {"pending"}
        /\ d.action \notin {"DENY", "HUMAN_CHECK"} => GuardedInvoke(d) = {Rewritten(d)}
    BY <1>1 DEF GuardedInvoke
  <2> QED
    BY <1>2, <1>3, <1>4, <1>9, <2>1, <2>2 DEF Stopping
<1>10. CASE layer = "guarded"
  <2>1. Lets(layer, d) = McpGuarded(d)
    BY <1>10 DEF Lets
  <2>2. /\ d.action = "DENY" => McpGuarded(d) = {"refused"}
        /\ d.action \in {"HUMAN_CHECK", "LLM_CHECK"} => McpGuarded(d) = {"pending"}
        /\ d.action \notin {"DENY", "HUMAN_CHECK", "LLM_CHECK"} =>
               McpGuarded(d) = {Collected(d)}
    BY DEF McpGuarded
  <2> QED
    BY <1>2, <1>3, <1>4, <1>10, <2>1, <2>2 DEF Stopping
<1>11. CASE layer = "guard_pretooluse"
  <2>1. Lets(layer, d) = GuardPreToolUse(d) /\ layer \in Elsewhere
    BY <1>11 DEF Lets, Elsewhere
  <2>2. /\ d.action = "DENY" => GuardPreToolUse(d) = {"refused"}
        /\ d.action \in {"HUMAN_CHECK", "LLM_CHECK"} =>
               GuardPreToolUse(d) = {"pending", "asked"}
        /\ d.action \notin {"DENY", "HUMAN_CHECK", "LLM_CHECK"} =>
               GuardPreToolUse(d) = {Collected(d)}
    BY DEF GuardPreToolUse
  <2> QED
    BY <1>2, <1>3, <1>4, <1>11, <2>1, <2>2 DEF Stopping
<1> QED
  BY <1>1, <1>5, <1>6, <1>7, <1>8, <1>9, <1>10, <1>11 DEF Guards

\* In monitor mode, which guards stop a call, and for which decision.
LEMMA MonitorVerdicts ==
    ASSUME config \in Configs, config.mode = "monitor",
           NEW layer \in Guards, NEW d \in Decisions,
           NEW stopped \in {"refused", "pending"}, stopped \in Lets(layer, d)
    PROVE  \/ layer \in {"guarded", "guard_pretooluse"}
           \/ ~config.remote /\ layer # "wrapper"
           \/ layer = "wrapper" /\ d.action = "LLM_CHECK"
<1>1. config.remote \in BOOLEAN
  BY ConfigFacts
<1>2. CASE layer = "wrapper" /\ ~config.remote
  BY <1>2 DEF Lets, Enforcer
<1>3. CASE layer = "wrapper" /\ config.remote
  <2>1. d.action # "LLM_CHECK" => RemoteCall(d) = {"asked"}
    BY DEF RemoteCall
  <2> QED
    BY <1>3, <2>1 DEF Lets
<1>4. CASE layer \in {"async_wrapper", "guarded_run_json", "guarded_invoke"} /\ config.remote
  <2>1. SeenMode = "monitor" /\ Lenient
    BY <1>4 DEF SeenMode, Lenient
  <2>2. GuardedRunJson(d) = {"asked"} /\ GuardedInvoke(d) = {"asked"}
    BY <2>1 DEF GuardedRunJson, GuardedInvoke
  <2> QED
    BY <1>4, <2>1, <2>2 DEF Lets, AsyncWrapper, Rewritten
<1> QED
  BY <1>1, <1>2, <1>3, <1>4 DEF Guards

\* What was known of a call's verdicts says what its tool ran after.
LEMMA CallInvExplains ==
    ASSUME IInv
    PROVE  VerdictsHold /\ MonitorOnlyWatches /\ ArgumentsExplained
<1>1. config \in Configs /\ call.judged \in Seq(Verdict)
  BY DEF IInv, TypeOK, CallTypeOK
<1>2. \A i \in DOMAIN call.judged :
          /\ call.judged[i] \in Verdict
          /\ call.judged[i].layer \in LayerNames
          /\ call.judged[i].decision \in Decisions
  <2>1. \A i \in DOMAIN call.judged : call.judged[i] \in Verdict
    BY <1>1
  <2> QED
    BY <2>1 DEF Verdict
<1>3. VerdictsHold
  <2> SUFFICES ASSUME config.mode = "enforce", Ran, NEW i \in DOMAIN call.judged
               PROVE  /\ call.judged[i].decision.action = "DENY" =>
                             call.judged[i].layer = "observer"
                      /\ \A review \in DOMAIN Unreviewed :
                             call.judged[i].decision.action = review =>
                                 call.judged[i].layer \in Unreviewed[review] \cup Elsewhere
    BY DEF VerdictsHold, Judged
  <2>1. \/ call.judged[i].layer = "observer"
        \/ Lets(call.judged[i].layer, call.judged[i].decision) \ Stopping # {}
    BY DEF IInv, CallInv, AllPassed, Passing, Ran, Passes
  <2>2. CASE call.judged[i].layer = "observer"
    BY <2>2 DEF Elsewhere
  <2>3. CASE call.judged[i].layer # "observer"
    BY <1>1, <1>2, <2>1, <2>3, EnforceVerdicts DEF LayerNames
  <2> QED
    BY <2>2, <2>3
<1>4. MonitorOnlyWatches
  <2> SUFFICES ASSUME config.mode = "monitor", call.at \in {"refused", "pending"}
               PROVE  LET last == call.judged[Len(call.judged)] IN
                      \/ last.layer \in {"guarded", "guard_pretooluse"}
                      \/ ~config.remote /\ last.layer # "wrapper"
                      \/ last.layer = "wrapper" /\ last.decision.action = "LLM_CHECK"
    BY DEF MonitorOnlyWatches
  <2> DEFINE last == call.judged[Len(call.judged)]
  <2>1. call.judged # <<>> /\ last.layer \in Guards
        /\ call.at \in Lets(last.layer, last.decision)
    BY DEF IInv, CallInv, LastStopped, Stopping
  <2>2. Len(call.judged) \in DOMAIN call.judged
    BY <1>1, <2>1
  <2>3. last.decision \in Decisions
    BY <1>2, <2>2
  <2> QED
    BY <1>1, <2>1, <2>3, MonitorVerdicts
<1>5. ArgumentsExplained
  <2> SUFFICES ASSUME config.mode = "enforce", Ran
               PROVE  /\ call.args = "stripped" =>
                             \E i \in DOMAIN call.judged :
                                 call.judged[i].layer \in {"guarded", "guard_pretooluse"}
                      /\ call.args = "asked" =>
                             \A i \in DOMAIN call.judged :
                                 LET layer == call.judged[i].layer
                                     d == call.judged[i].decision
                                 IN  d.obliges = "mask" =>
                                         \/ layer \in {"guarded_run_json", "observer"}
                                         \/ layer = "wrapper" /\ config.remote
                                             /\ d.action = "ALLOW"
                                         \/ layer = "wrapper" /\ ~config.remote
                                             /\ d.action # "ALLOW"
                                         \/ layer = "guard_pretooluse"
                                             /\ d.action = "LLM_CHECK"
    BY DEF ArgumentsExplained
  <2>1. Passing
    BY DEF Passing, Ran
  <2>2. ASSUME call.args = "stripped"
        PROVE  \E i \in DOMAIN call.judged :
                   call.judged[i].layer \in {"guarded", "guard_pretooluse"}
    <3>1. PICK i \in DOMAIN call.judged :
              /\ call.judged[i].layer # "observer"
              /\ "stripped" \in Lets(call.judged[i].layer, call.judged[i].decision)
      BY <2>1, <2>2 DEF IInv, CallInv, ArgumentsNoted, Passes
    <3>2. call.judged[i].layer \in Guards
      BY <1>2, <3>1 DEF LayerNames
    <3> QED
      BY <1>1, <1>2, <3>1, <3>2, EnforceVerdicts
  <2>3. ASSUME call.args = "asked", NEW i \in DOMAIN call.judged,
               call.judged[i].layer # "observer"
        PROVE  "asked" \in Lets(call.judged[i].layer, call.judged[i].decision)
    BY <2>1, <2>3 DEF IInv, CallInv, ArgumentsNoted, Passes
  <2>4. \A i \in DOMAIN call.judged :
            call.judged[i].layer # "observer" => call.judged[i].layer \in Guards
    BY <1>2 DEF LayerNames
  <2> QED
    BY <1>1, <1>2, <2>2, <2>3, <2>4, EnforceVerdicts
<1> QED
  BY <1>3, <1>4, <1>5

\* In every mode, and however installs and calls interleave: a call that a
\* guard has seen denied does not run its tool, and a review is left out only
\* where the adapter leaves it to somebody else (VerdictsHold).
THEOREM VerdictsAreKept == Spec => []VerdictsHold
<1>1. IInv => VerdictsHold
  BY CallInvExplains
<1> QED
  BY <1>1, Invariance, PTL

\* A guard in monitor mode stops a call only where the adapter does not look at
\* the mode (MonitorOnlyWatches).
THEOREM MonitorStopsNothing == Spec => []MonitorOnlyWatches
<1>1. IInv => MonitorOnlyWatches
  BY CallInvExplains
<1> QED
  BY <1>1, Invariance, PTL

\* A tool runs with the arguments that the obligations of its verdicts left
\* (ArgumentsExplained).
THEOREM ArgumentsAreExplained == Spec => []ArgumentsExplained
<1>1. IInv => ArgumentsExplained
  BY CallInvExplains
<1> QED
  BY <1>1, Invariance, PTL

\* The guards around two doors.
LEMMA Sums ==
    ASSUME NEW a \in Nat, NEW b \in Nat
    PROVE  (b # 0 => a + b # 0) /\ (b <= 1 /\ a + b > 1 => a # 0)
OBVIOUS

\* How many guards are on a way, from those around its doors.
LEMMA WaysCounted ==
    ASSUME TypeOK, NEW t \in Tools, NEW way \in Ways(Shape(t))
    PROVE  /\ Covered(t) => Len(OnWay(t, way)) # 0
           /\ Shape(t) = "FunctionTool" =>
                  Len(OnWay(t, way)) = Len(layers[t]["run_json"]) + Len(layers[t]["func"])
           /\ Shape(t) \in {"StructuredTool", "AsyncTool"} =>
                  \/ Len(OnWay(t, way)) = Len(layers[t]["invoke"]) + Len(layers[t]["func"])
                  \/ Len(OnWay(t, way)) = Len(layers[t]["coroutine"])
           /\ Shape(t) \notin {"FunctionTool", "StructuredTool", "AsyncTool"} =>
                  \E d \in DoorsOf[Shape(t)] : Len(OnWay(t, way)) = Len(layers[t][d])
           /\ \A d \in Doors : Len(layers[t][d]) \in Nat
<1>1. Shape(t) \in DOMAIN DoorsOf
  BY ConfigFacts DEF TypeOK
<1>2. \A d \in Doors : /\ layers[t][d] \in Seq(LayerNames)
                       /\ Len(layers[t][d]) \in Nat
                       /\ Guarded(t, d) => Len(layers[t][d]) # 0
  <2>1. \A d \in Doors : layers[t][d] \in Seq(LayerNames)
    BY DEF TypeOK, LayersTypeOK
  <2> QED
    BY <2>1, EmptySeq DEF Guarded
<1>3. "func" \in Doors /\ "run_json" \in Doors /\ "invoke" \in Doors /\ "coroutine" \in Doors
  BY DEF Doors
<1>4. ASSUME NEW d \in Doors, way = <<d>>
      PROVE  Len(OnWay(t, way)) = Len(layers[t][d])
  <2>1. way[1] = d /\ Len(way) # 2
    BY <1>4
  <2> QED
    BY <1>2, <2>1, ConcatEmptySeq DEF OnWay
<1>5. ASSUME NEW d \in Doors, NEW e \in Doors, way = <<d, e>>
      PROVE  Len(OnWay(t, way)) = Len(layers[t][d]) + Len(layers[t][e])
  <2>1. way[1] = d /\ way[2] = e /\ Len(way) = 2
    BY <1>5
  <2>2. OnWay(t, way) = layers[t][d] \o layers[t][e]
    BY <2>1 DEF OnWay
  <2> QED
    BY <1>2, <2>2, ConcatProperties
<1>6. CASE Shape(t) = "FunctionTool"
  <2>1. way = <<"run_json", "func">>
    BY <1>6 DEF Ways
  <2>2. Len(OnWay(t, way)) = Len(layers[t]["run_json"]) + Len(layers[t]["func"])
    BY <1>3, <1>5, <2>1
  <2>3. Covered(t) => Len(layers[t]["func"]) # 0
    BY <1>2, <1>3, <1>6, ShapeFacts DEF Covered
  <2>4. Covered(t) => Len(OnWay(t, way)) # 0
    <3>1. Len(layers[t]["run_json"]) \in Nat /\ Len(layers[t]["func"]) \in Nat
      BY <1>2, <1>3
    <3>2. Len(layers[t]["func"]) # 0 => Len(OnWay(t, way)) # 0
      BY <2>2, <3>1, Sums
    <3> QED
      BY <2>3, <3>2
  <2> QED
    BY <1>2, <1>6, <2>2, <2>4
<1>7. CASE Shape(t) \in {"StructuredTool", "AsyncTool"}
  <2>1. \/ way = <<"invoke", "func">>
        \/ way = <<"coroutine">> /\ Shape(t) = "AsyncTool"
    BY <1>7 DEF Ways
  <2>2. /\ Covered(t) => Len(layers[t]["func"]) # 0
        /\ Covered(t) /\ Shape(t) = "AsyncTool" => Len(layers[t]["coroutine"]) # 0
    BY <1>2, <1>3, <1>7, ShapeFacts DEF Covered
  <2>3. CASE way = <<"invoke", "func">>
    <3>1. Len(OnWay(t, way)) = Len(layers[t]["invoke"]) + Len(layers[t]["func"])
      BY <1>3, <1>5, <2>3
    <3>2. Covered(t) => Len(OnWay(t, way)) # 0
      <4>1. Len(layers[t]["invoke"]) \in Nat /\ Len(layers[t]["func"]) \in Nat
        BY <1>2, <1>3
      <4>2. Len(layers[t]["func"]) # 0 => Len(OnWay(t, way)) # 0
        BY <3>1, <4>1, Sums
      <4> QED
        BY <2>2, <4>2
    <3> QED
      BY <1>2, <1>7, <3>1, <3>2
  <2>4. CASE way = <<"coroutine">> /\ Shape(t) = "AsyncTool"
    <3>1. Len(OnWay(t, way)) = Len(layers[t]["coroutine"])
      BY <1>3, <1>4, <2>4
    <3> QED
      BY <1>2, <1>7, <2>2, <2>4, <3>1
  <2> QED
    BY <2>1, <2>3, <2>4
<1>8. CASE Shape(t) \notin {"FunctionTool", "StructuredTool", "AsyncTool"}
  <2>1. PICK d \in DoorsOf[Shape(t)] : way = <<d>>
    BY <1>1, <1>8, ShapeFacts
  <2>2. d \in Doors /\ d \in LastDoors(Shape(t))
    BY <1>1, <1>8, ShapeFacts
  <2>3. Len(OnWay(t, way)) = Len(layers[t][d])
    BY <1>4, <2>1, <2>2
  <2>4. Covered(t) => Len(layers[t][d]) # 0
    BY <1>2, <2>2 DEF Covered
  <2> QED
    BY <1>2, <1>8, <2>3, <2>4
<1> QED
  BY <1>6, <1>7, <1>8

\* What was known of the layers counts the guards on every way.
LEMMA InstallInvCounts ==
    ASSUME IInv
    PROVE  GuardedOnce
<1> SUFFICES ASSUME install.ended > 0, install.next = 0,
                    NEW t \in present, NEW way \in Ways(Shape(t))
             PROVE  /\ Len(OnWay(t, way)) = 0 =>
                           \/ config.framework = "openai" /\ Has(t, "slot")
                           \/ config.framework = "autogenHook"
                    /\ Len(OnWay(t, way)) > 1 =>
                           \/ Shape(t) \in Rewrapped /\ install.begun > 1
                           \/ Shape(t) = "FunctionTool" /\ install.raised > 0
  BY DEF GuardedOnce
<1>1. TypeOK /\ InstallInv /\ t \in Tools /\ config \in Configs
  BY DEF IInv, TypeOK
<1>2. Covered(t) \/ Exempt(t)
  BY <1>1 DEF InstallInv, DoneIsCovered, Done
<1>3. Len(OnWay(t, way)) = 0 => Exempt(t)
  BY <1>1, <1>2, WaysCounted
<1>4. Shape(t) \in DOMAIN DoorsOf
  BY <1>1, ConfigFacts
<1>5. /\ \A d \in Doors : Len(layers[t][d]) \in Nat
      /\ \A d \in Doors \ {"hook", "stream"} : Len(layers[t][d]) <= 1
      /\ install.begun \in Nat
      /\ Len(<<>>) = 0
  BY <1>1, WaysCounted DEF InstallInv, OnceEach, TypeOK, InstallTypeOK
<1>6. /\ "func" \in Doors \ {"hook", "stream"} /\ "coroutine" \in Doors \ {"hook", "stream"}
      /\ "run_json" \in Doors /\ "invoke" \in Doors /\ "hook" \in Doors /\ "stream" \in Doors
  BY DEF Doors
<1>7. ASSUME Len(OnWay(t, way)) > 1
      PROVE  \/ Shape(t) \in Rewrapped /\ install.begun > 1
             \/ Shape(t) = "FunctionTool" /\ install.raised > 0
  <2>1. CASE Shape(t) = "FunctionTool"
    <3>1. Len(OnWay(t, way)) = Len(layers[t]["run_json"]) + Len(layers[t]["func"])
      BY <1>1, <2>1, WaysCounted
    <3>2. Len(layers[t]["run_json"]) # 0
      <4>1. /\ Len(layers[t]["run_json"]) \in Nat /\ Len(layers[t]["func"]) \in Nat
            /\ Len(layers[t]["func"]) <= 1
        BY <1>5, <1>6
      <4> QED
        BY <1>7, <3>1, <4>1, Sums
    <3>3. Guarded(t, "run_json")
      BY <1>5, <3>2 DEF Guarded
    <3> QED
      BY <1>1, <2>1, <3>3 DEF InstallInv, Patching
  <2>2. CASE Shape(t) \in {"StructuredTool", "AsyncTool"}
    <3>1. \/ Len(OnWay(t, way)) = Len(layers[t]["invoke"]) + Len(layers[t]["func"])
          \/ Len(OnWay(t, way)) = Len(layers[t]["coroutine"])
      BY <1>1, <2>2, WaysCounted
    <3>2. Len(layers[t]["invoke"]) # 0
      <4>1. /\ Len(layers[t]["invoke"]) \in Nat /\ Len(layers[t]["func"]) \in Nat
            /\ Len(layers[t]["func"]) <= 1
            /\ Len(layers[t]["coroutine"]) \in Nat /\ Len(layers[t]["coroutine"]) <= 1
        BY <1>5, <1>6
      <4>2. ~(Len(layers[t]["coroutine"]) > 1)
        BY <4>1
      <4>3. Len(OnWay(t, way)) = Len(layers[t]["invoke"]) + Len(layers[t]["func"])
        BY <1>7, <3>1, <4>2
      <4> QED
        BY <1>7, <4>1, <4>3, Sums
    <3>3. Guarded(t, "invoke") /\ Shape(t) \in Rewrapped
      BY <1>5, <2>2, <3>2 DEF Guarded, Rewrapped
    <3>4. ~(install.begun <= 1)
      BY <1>1, <3>3 DEF InstallInv, FirstInstall
    <3> QED
      BY <1>5, <3>3, <3>4
  <2>3. CASE Shape(t) \notin {"FunctionTool", "StructuredTool", "AsyncTool"}
    <3>1. PICK d \in DoorsOf[Shape(t)] : Len(OnWay(t, way)) = Len(layers[t][d])
      BY <1>1, <2>3, WaysCounted
    <3>2. d \in Doors
      BY <1>4, ShapeFacts
    <3>3. d \in {"hook", "stream"}
      BY <1>5, <1>7, <3>1, <3>2
    <3>4. Shape(t) \in Rewrapped
      BY <1>4, <3>3 DEF DoorsOf, Rewrapped
    <3>5. ~(install.begun <= 1)
      <4>1. install.begun <= 1 =>
                Len(layers[t]["hook"]) <= 1 /\ Len(layers[t]["stream"]) <= 1
        BY <1>1, <3>4 DEF InstallInv, FirstInstall
      <4> QED
        BY <1>5, <1>6, <1>7, <3>1, <3>3, <4>1
    <3> QED
      BY <1>5, <3>4, <3>5
  <2> QED
    BY <2>1, <2>2, <2>3
<1> QED
  BY <1>3, <1>7 DEF Exempt

\* Once an install has returned, every way to every tool the framework knows is
\* guarded, and once only, whatever installs failed before or follow, with the
\* exceptions that GuardedOnce names.
THEOREM ToolsAreGuardedOnce == Spec => []GuardedOnce
<1>1. IInv => GuardedOnce
  BY InstallInvCounts
<1> QED
  BY <1>1, Invariance, PTL

=============================================================================
