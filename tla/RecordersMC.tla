---------------------------- MODULE RecordersMC ----------------------------
(***************************************************************************)
(* Two threads of one agent, in one session or in two, one with two calls. *)
(* The first call reads a document, the second derives from it, and the    *)
(* call of the other thread reads the same document under another label.   *)
(***************************************************************************)
EXTENDS Recorders

CONSTANTS t1, t2, document, internal, private

MCMaxCalls == (t1 :> 2) @@ (t2 :> 1)
MCOneCall == (t1 :> 1) @@ (t2 :> 1)
MCFailing == {<<t1, 1>>}
MCTask == {<<t1, 1>>, <<t1, 2>>, <<t2, 1>>}
MCSessionOf == [c \in MCTask |-> "session"]
MCOwnSession == [c \in MCTask |-> c[1]]
MCBucketOf == [c \in MCTask |-> "agent:tool"]
MCRefs ==
    [c \in MCTask |->
        CASE c = <<t1, 1>> -> {[node |-> document, label |-> internal, parent |-> NoCall]}
          [] c = <<t1, 2>> -> {[node |-> document, label |-> private, parent |-> <<t2, 1>>]}
          [] c = <<t2, 1>> -> {[node |-> document, label |-> private, parent |-> NoCall]}]

=============================================================================
