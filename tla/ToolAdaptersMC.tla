--------------------------- MODULE ToolAdaptersMC ---------------------------
(***************************************************************************)
(* Every framework with tools of each shape it has, under a local and a    *)
(* remote guard, in every mode, installed up to three times.               *)
(***************************************************************************)
EXTENDS ToolAdapters

MCTools ==
    [autogen |-> <<"FunctionTool", "BaseTool", "callable", "coroutine">>,
     autogenHook |-> <<"callable", "added">>,
     langchain |-> <<"StructuredTool", "AsyncTool", "DuckTool">>,
     openai |-> <<"InvokeTool", "callable">>,
     mapping |-> <<"callable", "coroutine">>,
     claude |-> <<"McpTool", "McpTool", "Builtin">>,
     dify |-> <<"App">>]

MCConfigs ==
    {[framework |-> f, tools |-> MCTools[f], remote |-> r, mode |-> m] :
         f \in Frameworks, r \in BOOLEAN, m \in {"enforce", "monitor", "dry_run"}}

=============================================================================
