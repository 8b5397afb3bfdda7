----------------------------- MODULE GraphWriter -----------------------------
(***************************************************************************)
(* graph/builder.py and storage/graph_store.py: the queue of events, the   *)
(* worker thread that writes them, the execution graph and the list of     *)
(* previous tools that come of it.                                         *)
(*                                                                         *)
(* An item of the queue is a call with its kind, "attempt" or "result", or *)
(* the sentinel of close.  Of the graph only what exists_path follows is   *)
(* kept: the edges from a call to the resources it read and to the calls   *)
(* it derives from, and the labels of resources.                           *)
(***************************************************************************)
EXTENDS Integers, SequencesExt

CONSTANTS
    Call,           \* the calls
    SessionOf,      \* the session of a call
    Refs,           \* the provenance of a call: resource, label, call it derives from
    NoCall,         \* stands for no parent call
    QueueSize,      \* maxsize of the queue
    RecentCap,      \* RECENT_TOOLS_CAP
    Failing         \* the calls whose writes may find a store that raises

ASSUME GraphAssumption ==
    QueueSize \in Nat /\ RecentCap \in Nat \ {0} /\ NoCall \notin Call

VARIABLES
    queue,          \* what waits, in order
    unfinished,     \* the queue's count of items put and not yet task_done
    worker,         \* "waiting", "writing", "pushing" or "returned"
    held,           \* the item the worker holds
    edges,          \* edges of the graph: pairs of a call and what it comes from
    labelsOf,       \* the labels of the resources
    recent,         \* previous tools of each session, the newest first
    lost            \* items dropped or not fully written: a history variable

graphVars == <<queue, unfinished, worker, held, edges, labelsOf, recent, lost>>

Sentinel == <<NoCall, "close">>
Resources == {ref.node : ref \in UNION {Refs[c] : c \in Call}}
Sessions == {SessionOf[c] : c \in Call}

GraphInit ==
    /\ queue = <<>> /\ unfinished = 0
    /\ worker = "waiting" /\ held = Sentinel
    /\ edges = {} /\ labelsOf = [r \in Resources |-> {}]
    /\ recent = [s \in Sessions |-> <<>>] /\ lost = {}

\* submit: what finds the queue full is dropped, and nobody is told.
GraphSubmit(item) ==
    /\ IF Len(queue) < QueueSize
       THEN queue' = Append(queue, item) /\ unfinished' = unfinished + 1 /\ UNCHANGED lost
       ELSE lost' = lost \cup {item} /\ UNCHANGED <<queue, unfinished>>
    /\ UNCHANGED <<worker, held, edges, labelsOf, recent>>

\* close puts the sentinel behind what waits; the put blocks on a full queue.
PutSentinel ==
    /\ Len(queue) < QueueSize
    /\ queue' = Append(queue, Sentinel) /\ unfinished' = unfinished + 1
    /\ UNCHANGED <<worker, held, edges, labelsOf, recent, lost>>

\* Mutant: the item is done as soon as it is taken.
Take_Done ==
    /\ worker = "waiting" /\ queue # <<>> /\ Head(queue) # Sentinel
    /\ held' = Head(queue) /\ queue' = Tail(queue) /\ worker' = "writing"
    /\ unfinished' = unfinished - 1
    /\ UNCHANGED <<edges, labelsOf, recent, lost>>

\* _run takes an item; the sentinel ends the thread for good.
Take ==
    /\ worker = "waiting" /\ queue # <<>>
    /\ held' = Head(queue) /\ queue' = Tail(queue)
    /\ IF Head(queue) = Sentinel
       THEN worker' = "returned" /\ unfinished' = unfinished - 1
       ELSE worker' = "writing" /\ UNCHANGED unfinished
    /\ UNCHANGED <<edges, labelsOf, recent, lost>>

\* upsert_node adds to the labels of a resource.
Merged(refs) ==
    [r \in Resources |-> labelsOf[r] \cup {ref.label : ref \in {x \in refs : x.node = r}}]

\* _write_tool_call, up to the resources it reads from.
WriteCall ==
    /\ worker = "writing" /\ held[2] = "attempt"
    /\ LET refs == Refs[held[1]] IN
         /\ labelsOf' = Merged(refs)
         /\ edges' = edges \cup {<<held[1], ref.node>> : ref \in refs}
                           \cup {<<held[1], ref.parent>> : ref \in
                                    {x \in refs : x.parent # NoCall}}
    /\ worker' = "pushing"
    /\ UNCHANGED <<queue, unfinished, held, recent, lost>>

\* Mutant: the call goes to the other end of the list.
PushRecent_Last ==
    /\ worker = "pushing"
    /\ LET s == SessionOf[held[1]] IN recent' = [recent EXCEPT ![s] = Append(@, held[1])]
    /\ worker' = "waiting" /\ unfinished' = unfinished - 1
    /\ UNCHANGED <<queue, held, edges, labelsOf, lost>>

\* lpush_capped, which takes the oldest out of a full list, and task_done.
PushRecent ==
    /\ worker = "pushing"
    /\ recent' = [recent EXCEPT ![SessionOf[held[1]]] =
                     <<held[1]>> \o (IF Len(@) < RecentCap THEN @ ELSE Front(@))]
    /\ worker' = "waiting" /\ unfinished' = unfinished - 1
    /\ UNCHANGED <<queue, held, edges, labelsOf, lost>>

\* A result makes a node that no path goes through.
WriteResult ==
    /\ worker = "writing" /\ held[2] = "result"
    /\ worker' = "waiting" /\ unfinished' = unfinished - 1
    /\ UNCHANGED <<queue, held, edges, labelsOf, recent, lost>>

\* A store raises: _run swallows it and is done with the item.
WriteFails ==
    /\ held[1] \in Failing /\ worker \in {"writing", "pushing"}
    /\ worker' = "waiting" /\ unfinished' = unfinished - 1 /\ lost' = lost \cup {held}
    /\ UNCHANGED <<queue, held, edges, labelsOf, recent>>

\* InMemoryStateCache.clear, as far as it is written here.
ClearRecent ==
    /\ recent' = [s \in Sessions |-> <<>>]
    /\ UNCHANGED <<queue, unfinished, worker, held, edges, labelsOf, lost>>

WorkerStep == Take \/ WriteCall \/ PushRecent \/ WriteResult \/ WriteFails

\* exists_path_to_sink: what can be reached from a call in at most so many hops,
\* as far as it is a resource that carries the label.
ExistsPath(call, label, hops) ==
    LET Upstream(nodes) == {e[2] : e \in {x \in edges : x[1] \in nodes}}
        within[k \in 0 .. hops] ==
            IF k = 0 THEN {call} ELSE within[k - 1] \cup Upstream(within[k - 1])
    IN \E r \in within[hops] \cap Resources : label \in labelsOf[r]

=============================================================================
