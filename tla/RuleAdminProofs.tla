--------------------------- MODULE RuleAdminProofs ---------------------------
(***************************************************************************)
(* What holds of the rule sources, packs, store and views for every set of *)
(* agents, packs, texts and clients: types, and the four properties that   *)
(* RuleAdmin states, each from an inductive invariant of its own.          *)
(***************************************************************************)
EXTENDS RuleAdmin, SequenceTheorems, WellFoundedInduction, TLAPS

Block == Id \cup {Bad} \cup (UNION {ToSet(text) : text \in FileText \cup PushText \cup AskedTexts})
            \cup (UNION {ToSet(ConfigText[p]) : p \in DOMAIN ConfigText})
Text == Seq(Block)
Rule == [id : Block, from : Text]
Pack == [rules : Seq(Rule), source : Text, label : BOOLEAN]
Stored == [text : Text, inline : BOOLEAN]
Thread == [at : {"idle", "ensure", "bind", "replace", "store", "config", "sync"},
           op : {"none", "create", "delete", "put", "config", "drop", "bind"},
           agent : Agent, pack : PackIds, id : Block, text : Text,
           left : SUBSET DOMAIN AskedText]

\* What reload_rules may be given, and how far it is.
Source == [files : BOOLEAN, text : Text]
Reloader == {"loop", "watcher"}
Progress == [at : {"no", "given", "read", "installed"}, source : Source, text : Text, mtime : Nat]

\* The type invariant.
TypeOK ==
    /\ files \in [text : FileText, mtime : Nat]
    /\ userSource \in Source
    /\ packs \in [DOMAIN packs -> Pack] /\ DOMAIN packs \subseteq PackIds
    /\ bound \subseteq Agent \X PackIds
    /\ views \in [Agent -> [known : BOOLEAN, ids : SUBSET Block]]
    /\ look \in [on : BOOLEAN, agent : Agent, ids : SUBSET Block, late : BOOLEAN]
    /\ watcher \in [at : {"off", "idle", "changed"}, seen : Nat, told : BOOLEAN]
    /\ reload \in [Reloader -> Progress]
    /\ pc \in [Client -> Thread]
    /\ stored \in [DOMAIN stored -> Stored] /\ DOMAIN stored \subseteq PackIds
    /\ used \in [requests : Nat, edits : Nat, calls : Nat, boots : Nat]
    /\ touched \subseteq PackIds /\ overlapped \subseteq Client /\ adrift \subseteq PackIds
    /\ raced \subseteq Agent /\ unsynced \in BOOLEAN /\ missed \in BOOLEAN

-----------------------------------------------------------------------------
(* The inductive invariants.                                               *)

\* Who has read the files as they are now and has still to install them.
Newest(r) ==
    /\ reload[r].at = "read" /\ reload[r].source.files
    /\ reload[r].mtime = files.mtime

\* What was read is not newer than the files, nor older than what the watcher had
\* seen when it is the watcher that read it.
ReadInv ==
    /\ watcher.seen <= files.mtime
    /\ reload["watcher"].at # "no" => watcher.at = "changed"
    /\ reload["watcher"].at = "read" => watcher.seen <= reload["watcher"].mtime
    /\ \A r \in Reloader : reload[r].at = "read" =>
          /\ reload[r].mtime <= files.mtime
          /\ Newest(r) => reload[r].text = files.text

\* A default pack of which FilesFollowed speaks.
FromFiles ==
    /\ userSource.files /\ Compiles(files.text) /\ ~missed
    /\ Default \in DOMAIN packs /\ packs[Default].label /\ Default \notin touched

\* Who has still to make it say what the files say: the watcher, which has to look,
\* to read or to install, or a request that has read.
Coming ==
    \/ watcher.at # "off" /\ watcher.seen # files.mtime
    \/ watcher.at = "changed" /\ (reload["watcher"].at \in {"no", "given"} \/ Newest("watcher"))
    \/ Newest("loop")

FilesInv == ReadInv /\ (FromFiles => packs[Default].rules = Compile(files.text) \/ Coming)

\* A request that has changed rules, or will, and then tells the policy actor.
Owes(c) ==
    \/ pc[c].at \in {"replace", "store", "sync"}
    \/ pc[c].at = "config" /\ pc[c].left # DOMAIN AskedText
    \/ pc[c].at = "bind" /\ pc[c].pack \in DOMAIN packs

\* Why the policy actor may not know of the newest rules.
Owed ==
    \/ unsynced \/ \E c \in Client : Owes(c)
    \/ \E r \in Reloader : reload[r].at = "installed"

\* A view that is kept, and one that is built, is what the rules say, or there is
\* a reason; and a pack of a config that is being stored is no longer to be put.
ViewsKept ==
    \A a \in Agent : views[a].known /\ views[a].ids # Effective(a) => a \in raced \/ Owed
LookKept == look.on /\ look.ids # Effective(look.agent) => look.late \/ Owed
ConfigBegan ==
    \A c \in Client : pc[c].at = "store" /\ pc[c].op = "config" => pc[c].left # DOMAIN AskedText
ViewsInv == ViewsKept /\ LookKept /\ ConfigBegan

\* Who was overlapped has still something to do with the pack.
OverlappedAtWork == \A c \in overlapped : pc[c].at \in {"bind", "replace", "store"}

\* What a client has still to store is what the pack is by now, or will be
\* replaced; and it is something that compiles.
Making(p) ==
    \E d \in Client : /\ pc[d].pack = p
                      /\ \/ pc[d].at = "replace"
                         \/ pc[d].at = "bind" /\ p \in DOMAIN packs
Storing(p) == \E c \in Client \ overlapped : pc[c].pack = p /\ pc[c].at = "store"
Follows(p) ==
    IF p \in DOMAIN packs
    THEN p \in DOMAIN stored /\ Compile(stored[p].text) = packs[p].rules
    ELSE p \notin DOMAIN stored
StorableText ==
    \A c \in Client :
        /\ pc[c].at = "store" =>
              (pc[c].op \in {"put", "config"} /\ Compiles(pc[c].text)) \/ pc[c].op = "drop"
        /\ pc[c].at = "config" => pc[c].op = "config"
StoredCompiles == \A p \in DOMAIN stored \ DOMAIN ConfigText : Compiles(stored[p].text)
Matches(c, p) ==
    IF pc[c].op = "drop" THEN p \notin DOMAIN packs \/ Making(p)
    ELSE p \in DOMAIN packs /\ packs[p].rules = Compile(pc[c].text)
StoringMatches ==
    \A p \in PackIds : \A c \in Client \ overlapped :
        pc[c].at = "store" /\ pc[c].pack = p => Matches(c, p)
FollowsOrWill == \A p \in Named \ adrift : Follows(p) \/ Making(p) \/ Storing(p)
WorkInv == OverlappedAtWork /\ StorableText /\ StoredCompiles
StoreInv == WorkInv /\ (Persistent => StoringMatches /\ FollowsOrWill)

\* A rule's id is among those of the text it came in; a pack that was not changed
\* rule by rule says what its text says; and a request that will replace a pack
\* that nobody changed since has read all its rules, but for the one it deletes.
NamedIn(pack) == \A r \in ToSet(pack.rules) : r.id \in ToSet(r.from)
SaysItsText(pack) == pack.source # <<>> => pack.rules = Compile(pack.source)
RulesNamed == \A p \in DOMAIN packs : NamedIn(packs[p])
SourceKept == \A p \in DOMAIN packs \ touched : SaysItsText(packs[p])
HasRead(c) ==
    \/ c \in overlapped \/ pc[c].at \notin {"bind", "replace"} \/ pc[c].pack \in touched
    \/ Ids(packs, pc[c].pack) \subseteq
          ToSet(pc[c].text) \cup IF pc[c].op = "delete" THEN {pc[c].id} ELSE {}
ReadAll == \A c \in Client : HasRead(c)
RulesInv == RulesNamed /\ SourceKept /\ ReadAll


-----------------------------------------------------------------------------
(* Sequences.                                                              *)

\* The function by which FlattenSeq recurs.
Flattened(f, s, n) == f = [i \in 1..n |-> IF i = 1 THEN s[i] ELSE f[i-1] \o s[i]]

\* The smallest element of a set of naturals.
LEMMA Smallest ==
    ASSUME NEW S \in SUBSET Nat, S # {}
    PROVE  \E n \in S : \A m \in S : n <= m
<1>1. PICK n \in S : \A m \in S : ~(<<m, n>> \in OpToRel(<, Nat))
    BY NatLessThanWellFounded, WFMin
<1>2. ASSUME NEW m \in S, m < n PROVE FALSE
    <2>1. <<m, n>> \in OpToRel(<, Nat)
        BY <1>2 DEF OpToRel
    <2>. QED
        BY <1>1, <2>1
<1>. QED
    BY <1>2

\* Flattening is defined: the recursion has a solution.
LEMMA FlattenedExists ==
    ASSUME NEW S, NEW s \in Seq(Seq(S)), NEW n \in 0..Len(s)
    PROVE  \E f : Flattened(f, s, n)
<1>. DEFINE Wrong == {k \in 0..Len(s) : ~\E f : Flattened(f, s, k)}
<1>. SUFFICES ASSUME Wrong # {} PROVE FALSE
    OBVIOUS
<1>0. Len(s) \in Nat /\ Wrong \in SUBSET Nat
    BY LenProperties
<1>1. PICK k \in Wrong : \A m \in Wrong : k <= m
    BY <1>0, Smallest
<1>2. k \in 0..Len(s) /\ k \in Nat /\ ~\E f : Flattened(f, s, k)
    BY <1>0
<1>3. CASE k = 0
    <2>. DEFINE f == [i \in 1..0 |-> s[i]]
    <2>1. f = [i \in 1..0 |-> IF i = 1 THEN s[i] ELSE f[i-1] \o s[i]]
        OBVIOUS
    <2>. QED
        BY <1>2, <1>3, <2>1 DEF Flattened
<1>4. CASE k # 0
    <2>1. k - 1 \in 0..Len(s) /\ ~(k <= k - 1)
        BY <1>0, <1>2, <1>4
    <2>2. k - 1 \notin Wrong
        BY <1>1, <2>1
    <2>3. PICK g : Flattened(g, s, k - 1)
        BY <2>1, <2>2
    <2>. DEFINE f == [i \in 1..k |-> IF i = k THEN IF k = 1 THEN s[k] ELSE g[k-1] \o s[k] ELSE g[i]]
    <2>4. ASSUME NEW i \in 1..k PROVE f[i] = IF i = 1 THEN s[i] ELSE f[i-1] \o s[i]
        <3>1. CASE i = k
            BY <1>2, <1>4, <3>1
        <3>2. CASE i # k
            <4>1. i \in 1..(k-1) /\ f[i] = g[i]
                BY <1>2, <3>2
            <4>2. g[i] = IF i = 1 THEN s[i] ELSE g[i-1] \o s[i]
                BY <2>3, <4>1 DEF Flattened
            <4>3. i # 1 => i - 1 \in 1..k /\ i - 1 # k
                BY <1>2, <4>1
            <4>4. i # 1 => f[i-1] = g[i-1]
                BY <4>3
            <4>. HIDE DEF f
            <4>. QED
                BY <4>1, <4>2, <4>4
        <3>. QED
            BY <3>1, <3>2
    <2>5. f = [i \in 1..k |-> f[i]]
        OBVIOUS
    <2>6. Flattened(f, s, k)
        <3>. HIDE DEF f
        <3>. QED
            BY <2>4, <2>5 DEF Flattened
    <2>. QED
        BY <1>2, <2>6
<1>. QED
    BY <1>3, <1>4

\* The elements of two sequences joined.
LEMMA ElementsOfJoined ==
    ASSUME NEW S, NEW s \in Seq(S), NEW t \in Seq(S)
    PROVE  s \o t \in Seq(S) /\ ToSet(s \o t) = ToSet(s) \cup ToSet(t)
<1>1. /\ s \o t \in Seq(S) /\ Len(s \o t) = Len(s) + Len(t)
      /\ \A i \in 1 .. Len(s) + Len(t) :
            (s \o t)[i] = IF i <= Len(s) THEN s[i] ELSE t[i - Len(s)]
    BY ConcatProperties
<1>2. /\ Len(s) \in Nat /\ Len(t) \in Nat /\ DOMAIN s = 1..Len(s) /\ DOMAIN t = 1..Len(t)
      /\ DOMAIN (s \o t) = 1 .. Len(s) + Len(t)
    BY <1>1, LenProperties
<1>3. ASSUME NEW x \in ToSet(s \o t) PROVE x \in ToSet(s) \cup ToSet(t)
    <2>1. PICK i \in 1 .. Len(s) + Len(t) : x = (s \o t)[i]
        BY <1>2 DEF ToSet
    <2>2. CASE i <= Len(s)
        BY <1>1, <1>2, <2>1, <2>2 DEF ToSet
    <2>3. CASE ~(i <= Len(s))
        <3>1. i - Len(s) \in 1..Len(t) /\ x = t[i - Len(s)]
            BY <1>1, <1>2, <2>1, <2>3
        <3>. QED
            BY <1>2, <3>1 DEF ToSet
    <2>. QED
        BY <2>2, <2>3
<1>4. ASSUME NEW x \in ToSet(s) PROVE x \in ToSet(s \o t)
    <2>1. PICK i \in 1..Len(s) : x = s[i]
        BY <1>2 DEF ToSet
    <2>2. i \in 1 .. Len(s) + Len(t) /\ (s \o t)[i] = x
        BY <1>1, <1>2, <2>1
    <2>. QED
        BY <1>2, <2>2 DEF ToSet
<1>5. ASSUME NEW x \in ToSet(t) PROVE x \in ToSet(s \o t)
    <2>1. PICK i \in 1..Len(t) : x = t[i]
        BY <1>2 DEF ToSet
    <2>2. i + Len(s) \in 1 .. Len(s) + Len(t) /\ ~(i + Len(s) <= Len(s)) /\ i + Len(s) - Len(s) = i
        BY <1>2, <2>1
    <2>3. (s \o t)[i + Len(s)] = x
        BY <1>1, <2>1, <2>2
    <2>. QED
        BY <1>2, <2>2, <2>3 DEF ToSet
<1>. QED
    BY <1>1, <1>3, <1>4, <1>5

\* What flattening computes: the elements of the parts.
LEMMA FlattenKeeps ==
    ASSUME NEW S, NEW s \in Seq(Seq(S))
    PROVE  /\ FlattenSeq(s) \in Seq(S)
           /\ ToSet(FlattenSeq(s)) = UNION {ToSet(s[i]) : i \in 1..Len(s)}
<1>0. Len(s) \in Nat /\ \A i \in 1..Len(s) : s[i] \in Seq(S)
    BY LenProperties, ElementOfSeq
<1>1. CASE Len(s) = 0
    BY <1>1, EmptySeq DEF FlattenSeq, ToSet
<1>2. CASE Len(s) # 0
    <2>1. PICK g : Flattened(g, s, Len(s))
        BY <1>0, FlattenedExists
    <2>2. \E h : Flattened(h, s, Len(s)) /\ FlattenSeq(s) = h[Len(s)]
        BY <1>2, <2>1 DEF FlattenSeq, Flattened
    <2>3. PICK h : Flattened(h, s, Len(s)) /\ FlattenSeq(s) = h[Len(s)]
        BY <2>2
    <2>. DEFINE Wrong == {k \in 1..Len(s) :
                            ~(/\ h[k] \in Seq(S)
                              /\ ToSet(h[k]) = UNION {ToSet(s[i]) : i \in 1..k})}
    <2>4. ASSUME Wrong # {} PROVE FALSE
        <3>4. PICK k \in Wrong : \A m \in Wrong : k <= m
            <4>1. Wrong \in SUBSET Nat
                BY <1>0
            <4>. HIDE DEF Wrong
            <4>. QED
                BY <2>4, <4>1, Smallest
        <3>5. k \in 1..Len(s) /\ h[k] = IF k = 1 THEN s[k] ELSE h[k-1] \o s[k]
            BY <2>3 DEF Flattened
        <3>6. CASE k = 1
            BY <1>0, <3>5, <3>6
        <3>7. CASE k # 1
            <4>1. k - 1 \in 1..Len(s) /\ ~(k <= k - 1) /\ 1..k = (1..(k-1)) \cup {k}
                BY <1>0, <3>5, <3>7
            <4>2. h[k-1] \in Seq(S) /\ ToSet(h[k-1]) = UNION {ToSet(s[i]) : i \in 1..(k-1)}
                BY <3>4, <4>1
            <4>3. s[k] \in Seq(S) /\ h[k] = h[k-1] \o s[k]
                BY <1>0, <3>5, <3>7
            <4>4. h[k] \in Seq(S) /\ ToSet(h[k]) = ToSet(h[k-1]) \cup ToSet(s[k])
                BY <4>2, <4>3, ElementsOfJoined
            <4>. QED
                BY <3>4, <4>1, <4>2, <4>4
        <3>. QED
            BY <3>6, <3>7
    <2>5. Len(s) \in 1..Len(s)
        BY <1>0, <1>2
    <2>. QED
        BY <2>3, <2>4, <2>5
<1>. QED
    BY <1>1, <1>2

\* The elements of a sequence, and of one with another element.
LEMMA ElementsTyped ==
    ASSUME NEW S, NEW s \in Seq(S)
    PROVE  ToSet(s) \subseteq S
    BY ElementOfSeq, LenProperties DEF ToSet

\* Append adds its element and nothing else.
LEMMA ElementsOfAppended ==
    ASSUME NEW S, NEW s \in Seq(S), NEW x \in S
    PROVE  Append(s, x) \in Seq(S) /\ ToSet(Append(s, x)) = ToSet(s) \cup {x}
<1>1. <<x>> \in Seq(S) /\ ToSet(<<x>>) = {x}
    BY DEF ToSet
<1>2. Append(s, x) = s \o <<x>>
    BY AppendIsConcat
<1>3. s \o <<x>> \in Seq(S) /\ ToSet(s \o <<x>>) = ToSet(s) \cup ToSet(<<x>>)
    BY <1>1, ElementsOfJoined, SMTT(30), ZenonT(30)
<1>. QED
    BY <1>1, <1>2, <1>3

\* Without keeps what is not to be left out.
LEMMA WithoutFacts ==
    ASSUME NEW S, NEW s \in Seq(S), NEW out
    PROVE  Without(s, out) \in Seq(S) /\ ToSet(Without(s, out)) = ToSet(s) \ out
<1>. DEFINE parts == [i \in DOMAIN s |-> IF s[i] \in out THEN <<>> ELSE <<s[i]>>]
<1>1. Len(s) \in Nat /\ DOMAIN s = 1..Len(s) /\ \A i \in DOMAIN s : s[i] \in S
    BY ElementOfSeq, LenProperties
<1>2. \A i \in DOMAIN s : parts[i] \in Seq(S)
    BY <1>1
<1>3. parts \in Seq(Seq(S)) /\ Len(parts) = Len(s)
    <2>1. parts = [i \in 1..Len(s) |-> parts[i]]
        BY <1>1
    <2>2. \A i \in 1..Len(s) : parts[i] \in Seq(S)
        BY <1>1, <1>2
    <2>. HIDE DEF parts
    <2>3. [i \in 1..Len(s) |-> parts[i]] \in Seq(Seq(S)) /\ Len([i \in 1..Len(s) |-> parts[i]]) = Len(s)
        BY <1>1, <2>2, IsASeq
    <2>. QED
        BY <2>1, <2>3
<1>4. \A i \in DOMAIN s : ToSet(parts[i]) = IF s[i] \in out THEN {} ELSE {s[i]}
    BY DEF ToSet
<1>5. UNION {ToSet(parts[i]) : i \in 1..Len(parts)} = ToSet(s) \ out
    <2>. HIDE DEF parts
    <2>1. UNION {ToSet(parts[i]) : i \in 1..Len(parts)} = UNION {ToSet(parts[i]) : i \in DOMAIN s}
        BY <1>1, <1>3
    <2>2. ASSUME NEW x \in UNION {ToSet(parts[i]) : i \in DOMAIN s} PROVE x \in ToSet(s) \ out
        BY <1>4 DEF ToSet
    <2>3. ASSUME NEW x \in ToSet(s) \ out PROVE x \in UNION {ToSet(parts[i]) : i \in DOMAIN s}
        <3>1. PICK i \in DOMAIN s : x = s[i]
            BY DEF ToSet
        <3>2. x \in ToSet(parts[i])
            BY <1>4, <3>1
        <3>. QED
            BY <3>2
    <2>. QED
        BY <2>1, <2>2, <2>3
<1>6. Without(s, out) = FlattenSeq(parts)
    BY DEF Without
<1>. QED
    <2>. HIDE DEF parts
    <2>. QED
        BY <1>3, <1>5, <1>6, FlattenKeeps

-----------------------------------------------------------------------------
(* Texts, rules and packs.                                                 *)

\* The texts that sources give are texts.
LEMMA Texts ==
    ASSUME AdminAssumption
    PROVE  /\ FileText \subseteq Text /\ PushText \subseteq Text /\ AskedTexts \subseteq Text
           /\ \A p \in DOMAIN ConfigText : ConfigText[p] \in Text
           /\ <<>> \in Text /\ <<Bad>> \in Text
           /\ Id \subseteq Block /\ Bad \in Block
           /\ Agent # {} /\ (CHOOSE a \in Agent : TRUE) \in Agent
<1>1. ASSUME NEW S, S \subseteq Block, NEW text \in Seq(S) PROVE text \in Text
    BY <1>1 DEF Text
<1>2. \A text \in FileText \cup PushText \cup AskedTexts : ToSet(text) \subseteq Block
    BY DEF Block
<1>3. ASSUME NEW p \in DOMAIN ConfigText PROVE ToSet(ConfigText[p]) \subseteq Block
    <2>1. ToSet(ConfigText[p]) \in {ToSet(ConfigText[q]) : q \in DOMAIN ConfigText}
        OBVIOUS
    <2>2. ToSet(ConfigText[p]) \subseteq UNION {ToSet(ConfigText[q]) : q \in DOMAIN ConfigText}
        BY <2>1, Zenon
    <2>3. UNION {ToSet(ConfigText[q]) : q \in DOMAIN ConfigText} \subseteq Block
        BY Zenon DEF Block
    <2>. QED
        BY <2>2, <2>3, Zenon
<1>4. FileText \subseteq Text /\ PushText \subseteq Text /\ AskedTexts \subseteq Text
    BY <1>1, <1>2 DEF AdminAssumption
<1>5. \A p \in DOMAIN ConfigText : ConfigText[p] \in Text
    BY <1>1, <1>3 DEF AdminAssumption
<1>6. Id \subseteq Block /\ Bad \in Block
    BY DEF Block
<1>7. <<>> \in Text /\ <<Bad>> \in Text
    BY <1>6 DEF Text
<1>8. Agent # {} /\ (CHOOSE a \in Agent : TRUE) \in Agent
    BY DEF AdminAssumption
<1>. QED
    BY <1>4, <1>5, <1>6, <1>7, <1>8

\* The rules of a text.
LEMMA CompileFacts ==
    ASSUME NEW text \in Text
    PROVE  /\ Compile(text) \in Seq(Rule)
           /\ {r.id : r \in ToSet(Compile(text))} = ToSet(text)
           /\ \A r \in ToSet(Compile(text)) : r.from = text /\ r.id \in ToSet(text)
<1>1. Len(text) \in Nat /\ DOMAIN text = 1..Len(text) /\ \A i \in DOMAIN text : text[i] \in Block
    BY ElementOfSeq, LenProperties DEF Text
<1>2. \A i \in DOMAIN text : [id |-> text[i], from |-> text] \in Rule
    BY <1>1 DEF Rule
<1>3. Compile(text) \in Seq(Rule)
    BY <1>1, <1>2, IsASeq DEF Compile
<1>4. ToSet(Compile(text)) = {[id |-> text[i], from |-> text] : i \in DOMAIN text}
    BY <1>1 DEF Compile, ToSet
<1>5. {r.id : r \in ToSet(Compile(text))} = {text[i] : i \in DOMAIN text}
    <2>1. ASSUME NEW r \in ToSet(Compile(text)) PROVE r.id \in {text[i] : i \in DOMAIN text}
        BY <1>4
    <2>2. ASSUME NEW i \in DOMAIN text
          PROVE  \E r \in ToSet(Compile(text)) : r.id = text[i]
        <3>1. [id |-> text[i], from |-> text] \in ToSet(Compile(text))
            BY <1>4
        <3>. QED
            BY <3>1
    <2>. QED
        BY <2>1, <2>2
<1>6. \A r \in ToSet(Compile(text)) : r.from = text /\ r.id \in {text[i] : i \in DOMAIN text}
    BY <1>4
<1>7. ToSet(text) = {text[i] : i \in DOMAIN text}
    BY DEF ToSet
<1>. QED
    BY <1>3, <1>5, <1>6, <1>7

\* A pack made of a text.
LEMMA PackFacts ==
    ASSUME NEW text \in Text
    PROVE  /\ Inline(text) \in Pack /\ Labelled(text) \in Pack
           /\ IdsOf(Inline(text)) = ToSet(text) /\ IdsOf(Labelled(text)) = ToSet(text)
           /\ Inline(text).rules = Compile(text) /\ Labelled(text).rules = Compile(text)
           /\ Inline(text).source = text /\ ~Inline(text).label
           /\ Labelled(text).source = <<>> /\ Labelled(text).label
<1>1. Compile(text) \in Seq(Rule) /\ {r.id : r \in ToSet(Compile(text))} = ToSet(text) /\ <<>> \in Text
    BY CompileFacts DEF Text
<1>. QED
    BY <1>1 DEF Inline, Labelled, Pack, IdsOf

\* The blocks of a pack: those of its text, or of the texts of its rules.
LEMMA BlocksFacts ==
    ASSUME NEW pack \in Pack
    PROVE  /\ Blocks(pack) \in Text /\ ToSet(Blocks(pack)) \subseteq Block
           /\ pack.source # <<>> => Blocks(pack) = pack.source
           /\ pack.source = <<>> =>
                \A r \in ToSet(pack.rules) : ToSet(r.from) \subseteq ToSet(Blocks(pack))
           /\ IdsOf(pack) \subseteq Block
<1>1. /\ Len(pack.rules) \in Nat /\ DOMAIN pack.rules = 1..Len(pack.rules)
      /\ \A i \in DOMAIN pack.rules : pack.rules[i] \in Rule
      /\ pack.source \in Text
    BY ElementOfSeq, LenProperties DEF Pack
<1>2. IdsOf(pack) \subseteq Block
    BY <1>1 DEF IdsOf, ToSet, Rule
<1>3. CASE pack.source # <<>>
    BY <1>1, <1>2, <1>3, ElementsTyped DEF Blocks, Text
<1>4. CASE pack.source = <<>>
    <2>. DEFINE parts == [i \in DOMAIN pack.rules |->
                            IF \E j \in 1 .. i-1 : pack.rules[j].from = pack.rules[i].from
                            THEN <<>> ELSE pack.rules[i].from]
    <2>1. Blocks(pack) = FlattenSeq(parts)
        BY <1>4 DEF Blocks
    <2>2. \A i \in DOMAIN pack.rules : pack.rules[i].from \in Seq(Block)
        BY <1>1 DEF Rule, Text
    <2>3. \A i \in DOMAIN pack.rules : parts[i] \in Seq(Block)
        BY <2>2
    <2>4. parts \in Seq(Seq(Block)) /\ Len(parts) = Len(pack.rules)
        <3>1. parts = [i \in 1..Len(pack.rules) |-> parts[i]]
            BY <1>1
        <3>2. \A i \in 1..Len(pack.rules) : parts[i] \in Seq(Block)
            BY <1>1, <2>3
        <3>. HIDE DEF parts
        <3>3. /\ [i \in 1..Len(pack.rules) |-> parts[i]] \in Seq(Seq(Block))
              /\ Len([i \in 1..Len(pack.rules) |-> parts[i]]) = Len(pack.rules)
            BY <1>1, <3>2, IsASeq
        <3>. QED
            BY <3>1, <3>3
    <2>5. Blocks(pack) \in Text /\ ToSet(Blocks(pack)) = UNION {ToSet(parts[i]) : i \in 1..Len(pack.rules)}
        <3>. HIDE DEF parts
        <3>. QED
            BY <2>1, <2>4, FlattenKeeps DEF Text
    <2>6. ASSUME NEW i \in 1..Len(pack.rules)
          PROVE  \E k \in 1..Len(pack.rules) : parts[k] = pack.rules[i].from
        <3>. DEFINE Same == {j \in 1..Len(pack.rules) : pack.rules[j].from = pack.rules[i].from}
        <3>1. Same \in SUBSET Nat /\ Same # {}
            BY <1>1
        <3>2. PICK k \in Same : \A m \in Same : k <= m
            <4>. HIDE DEF Same
            <4>. QED
                BY <3>1, Smallest
        <3>3. k \in 1..Len(pack.rules) /\ pack.rules[k].from = pack.rules[i].from
            OBVIOUS
        <3>4. ~\E j \in 1 .. k-1 : pack.rules[j].from = pack.rules[k].from
            <4>. SUFFICES ASSUME NEW j \in 1 .. k-1, pack.rules[j].from = pack.rules[k].from
                          PROVE  FALSE
                OBVIOUS
            <4>1. j \in Same /\ ~(k <= j)
                BY <1>1, <3>3
            <4>. QED
                BY <3>2, <4>1
        <3>5. parts[k] = pack.rules[k].from
            BY <1>1, <3>3, <3>4
        <3>. QED
            BY <3>3, <3>5
    <2>7. ASSUME NEW r \in ToSet(pack.rules) PROVE ToSet(r.from) \subseteq ToSet(Blocks(pack))
        <3>1. PICK i \in 1..Len(pack.rules) : r = pack.rules[i]
            BY <1>1, <2>7 DEF ToSet
        <3>. HIDE DEF parts
        <3>. QED
            BY <2>5, <2>6, <3>1
    <2>8. ToSet(Blocks(pack)) \subseteq Block
        BY <2>5, ElementsTyped DEF Text
    <2>. QED
        BY <1>2, <1>4, <2>5, <2>7, <2>8
<1>. QED
    BY <1>3, <1>4

\* What a pack map has after one pack was put or taken out.
LEMMA MapFacts ==
    ASSUME NEW pk, NEW p, NEW pack
    PROVE  /\ DOMAIN With(pk, p, pack) = DOMAIN pk \cup {p}
           /\ With(pk, p, pack)[p] = pack
           /\ \A q \in DOMAIN pk : q # p => With(pk, p, pack)[q] = pk[q]
           /\ DOMAIN Less(pk, p) = DOMAIN pk \ {p}
           /\ \A q \in DOMAIN pk \ {p} : Less(pk, p)[q] = pk[q]
    BY DEF With, Less

\* Such a map keeps its type.
LEMMA MapTypes ==
    ASSUME NEW S, NEW pk, pk \in [DOMAIN pk -> S], NEW p, NEW pack
    PROVE  /\ pack \in S => With(pk, p, pack) \in [DOMAIN With(pk, p, pack) -> S]
           /\ Less(pk, p) \in [DOMAIN Less(pk, p) -> S]
    BY DEF With, Less

\* One map over another.
LEMMA OverFacts ==
    ASSUME NEW f, NEW g
    PROVE  /\ DOMAIN Over(f, g) = DOMAIN f \cup DOMAIN g
           /\ \A x \in DOMAIN f : Over(f, g)[x] = f[x]
           /\ \A x \in DOMAIN g \ DOMAIN f : Over(f, g)[x] = g[x]
    BY DEF Over

\* It keeps the type of both.
LEMMA OverTyped ==
    ASSUME NEW S, NEW f, f \in [DOMAIN f -> S], NEW g, g \in [DOMAIN g -> S]
    PROVE  Over(f, g) \in [DOMAIN f \cup DOMAIN g -> S]
    BY DEF Over

-----------------------------------------------------------------------------
(* Where a request is, after one step.                                     *)

\* The thread of a client without a request.
LEMMA IdleFacts ==
    ASSUME AdminAssumption
    PROVE  /\ Idle \in Thread /\ Idle.at = "idle" /\ Idle.op = "none"
           /\ Idle.pack = Default /\ Idle.text = <<>> /\ Idle.left = {}
<1>1. (CHOOSE a \in Agent : TRUE) \in Agent /\ Bad \in Block /\ <<>> \in Text /\ Default \in PackIds
    BY Texts DEF PackIds
<1>. QED
    BY <1>1 DEF Idle, Thread

\* Going on changes the place alone.
LEMMA GoesFacts ==
    ASSUME pc \in [Client -> Thread], NEW c \in Client,
           NEW at \in {"idle", "ensure", "bind", "replace", "store", "config", "sync"},
           Goes(c, at)
    PROVE  /\ pc' \in [Client -> Thread]
           /\ pc'[c].at = at /\ pc'[c].op = pc[c].op /\ pc'[c].agent = pc[c].agent
           /\ pc'[c].pack = pc[c].pack /\ pc'[c].id = pc[c].id /\ pc'[c].text = pc[c].text
           /\ pc'[c].left = pc[c].left
           /\ \A d \in Client : d # c => pc'[d] = pc[d]
    BY DEF Goes, Thread

\* A request that ends.
LEMMA EndsFacts ==
    ASSUME AdminAssumption, pc \in [Client -> Thread], NEW c \in Client,
           pc' = [pc EXCEPT ![c] = Idle]
    PROVE  /\ pc' \in [Client -> Thread]
           /\ pc'[c] = Idle
           /\ \A d \in Client : d # c => pc'[d] = pc[d]
    BY IdleFacts

\* A request that has only to tell the actors.
LEMMA TellsFacts ==
    ASSUME AdminAssumption, pc \in [Client -> Thread], NEW c \in Client,
           pc' = [pc EXCEPT ![c] = [Idle EXCEPT !.at = "sync", !.op = "bind"]]
    PROVE  /\ pc' \in [Client -> Thread]
           /\ pc'[c].at = "sync" /\ pc'[c].pack = Default
           /\ \A d \in Client : d # c => pc'[d] = pc[d]
<1>1. Idle \in Thread /\ Idle.pack = Default
    BY IdleFacts
<1>2. [Idle EXCEPT !.at = "sync", !.op = "bind"] \in Thread
    BY <1>1 DEF Thread
<1>3. [Idle EXCEPT !.at = "sync", !.op = "bind"].at = "sync" /\ [Idle EXCEPT !.at = "sync", !.op = "bind"].pack = Default
    BY <1>1 DEF Thread
<1>. QED
    BY <1>2, <1>3

\* A request that puts or takes out a whole pack.
LEMMA PuttingFacts ==
    ASSUME AdminAssumption, pc \in [Client -> Thread], NEW c \in Client,
           NEW op \in {"put", "drop"}, NEW p \in PackIds, NEW text \in Text,
           Putting(c, op, p, text)
    PROVE  /\ pc' \in [Client -> Thread]
           /\ pc'[c].at = IF Persistent THEN "store" ELSE "sync"
           /\ pc'[c].op = op /\ pc'[c].pack = p /\ pc'[c].text = text
           /\ \A d \in Client : d # c => pc'[d] = pc[d]
<1>1. Idle \in Thread
    BY IdleFacts
<1>2. PICK at \in {"store", "sync"} :
        /\ at = IF Persistent THEN "store" ELSE "sync"
        /\ pc' = [pc EXCEPT ![c] = [Idle EXCEPT !.at = at, !.op = op, !.pack = p, !.text = text]]
    BY DEF Putting
<1>3. /\ [Idle EXCEPT !.at = at, !.op = op, !.pack = p, !.text = text] \in Thread
      /\ [Idle EXCEPT !.at = at, !.op = op, !.pack = p, !.text = text].at = at
      /\ [Idle EXCEPT !.at = at, !.op = op, !.pack = p, !.text = text].op = op
      /\ [Idle EXCEPT !.at = at, !.op = op, !.pack = p, !.text = text].pack = p
      /\ [Idle EXCEPT !.at = at, !.op = op, !.pack = p, !.text = text].text = text
    BY <1>1 DEF Thread
<1>. QED
    BY <1>2, <1>3

\* A request to apply a pack config.
LEMMA ConfigBegun ==
    ASSUME AdminAssumption, pc \in [Client -> Thread], NEW c \in Client,
           pc' = [pc EXCEPT ![c] = [Idle EXCEPT !.at = "config", !.op = "config",
                                               !.left = DOMAIN AskedText]]
    PROVE  /\ pc' \in [Client -> Thread]
           /\ pc'[c].at = "config" /\ pc'[c].op = "config" /\ pc'[c].pack = Default
           /\ pc'[c].left = DOMAIN AskedText
           /\ \A d \in Client : d # c => pc'[d] = pc[d]
<1>1. Idle \in Thread /\ Idle.pack = Default
    BY IdleFacts
<1>2. /\ [Idle EXCEPT !.at = "config", !.op = "config", !.left = DOMAIN AskedText] \in Thread
      /\ [Idle EXCEPT !.at = "config", !.op = "config", !.left = DOMAIN AskedText].at = "config"
      /\ [Idle EXCEPT !.at = "config", !.op = "config", !.left = DOMAIN AskedText].op = "config"
      /\ [Idle EXCEPT !.at = "config", !.op = "config", !.left = DOMAIN AskedText].pack = Default
      /\ [Idle EXCEPT !.at = "config", !.op = "config", !.left = DOMAIN AskedText].left = DOMAIN AskedText
    BY <1>1 DEF Thread
<1>. QED
    BY <1>1, <1>2

\* A pack of it that is put.
LEMMA ConfigPut ==
    ASSUME AdminAssumption, pc \in [Client -> Thread], NEW c \in Client,
           NEW p \in DOMAIN AskedText, NEW text \in AskedText[p], ConfigPack(c, p, text)
    PROVE  /\ p \in PackIds /\ p # Default /\ text \in Text /\ Compiles(text) /\ Labelled(text) \in Pack
           /\ packs' = With(packs, p, Labelled(text)) /\ touched' = touched \ {p}
           /\ pc' \in [Client -> Thread]
           /\ pc[c].at = "config" /\ pc'[c].at = IF Persistent THEN "store" ELSE "config"
           /\ pc'[c].op = pc[c].op /\ pc'[c].pack = p /\ pc'[c].text = text
           /\ pc'[c].left = pc[c].left \ {p} /\ p \in pc[c].left
           /\ pc[c].left \subseteq DOMAIN AskedText /\ pc'[c].left # DOMAIN AskedText
           /\ \A d \in Client : d # c => pc'[d] = pc[d]
<1>1. p \in PackIds /\ p # Default /\ text \in Text /\ Compiles(text)
    BY Texts DEF PackIds, AdminAssumption, AskedTexts, ConfigPack
<1>2. PICK at \in {"store", "config"} : at = IF Persistent THEN "store" ELSE "config"
    OBVIOUS
<1>3. pc[c] \in Thread /\ pc[c].left \subseteq DOMAIN AskedText
    BY DEF Thread
<1>4. PICK r : r = [pc[c] EXCEPT !.at = at, !.pack = p, !.text = text, !.left = pc[c].left \ {p}]
    OBVIOUS
<1>5. /\ r \in Thread /\ r.at = at /\ r.op = pc[c].op /\ r.pack = p /\ r.text = text
      /\ r.left = pc[c].left \ {p}
    BY <1>1, <1>3, <1>4 DEF Thread
<1>6. /\ pc' \in [Client -> Thread] /\ pc'[c] = r
      /\ \A d \in Client : d # c => pc'[d] = pc[d]
    <2>1. pc' = [pc EXCEPT ![c] = r]
        BY <1>2, <1>4 DEF ConfigPack
    <2>. QED
        BY <1>5, <2>1
<1>7. /\ pc[c].at = "config" /\ p \in pc[c].left
      /\ packs' = With(packs, p, Labelled(text)) /\ touched' = touched \ {p}
    BY DEF ConfigPack
<1>8. Labelled(text) \in Pack
    BY <1>1, PackFacts
<1>. QED
    BY <1>1, <1>2, <1>3, <1>5, <1>6, <1>7, <1>8

\* What create_agent_rule and delete_agent_rule begin with.
LEMMA BeginsFacts ==
    ASSUME pc \in [Client -> Thread], NEW c \in Client, NEW r \in Thread,
           pc' = [pc EXCEPT ![c] = r]
    PROVE  /\ pc' \in [Client -> Thread] /\ pc'[c] = r
           /\ \A d \in Client : d # c => pc'[d] = pc[d]
    OBVIOUS

\* The ids of the packs, and of what applies to an agent.
LEMMA IdsTyped ==
    ASSUME TypeOK
    PROVE  /\ \A p \in DOMAIN packs : IdsOf(packs[p]) \subseteq Block
           /\ \A a \in Agent : Effective(a) \subseteq Block /\ PacksFor(a) \subseteq DOMAIN packs
<1>1. \A p \in DOMAIN packs : packs[p] \in Pack
    BY DEF TypeOK
<1>2. \A p \in DOMAIN packs : IdsOf(packs[p]) \subseteq Block
    BY <1>1, BlocksFacts
<1>3. ASSUME NEW a \in Agent PROVE Effective(a) \subseteq Block /\ PacksFor(a) \subseteq DOMAIN packs
    <2>1. PacksFor(a) \subseteq DOMAIN packs
        BY DEF PacksFor
    <2>. QED
        BY <1>2, <2>1 DEF Effective
<1>. QED
    BY <1>2, <1>3

\* What the files, or the text pushed, read as.
LEMMA TextOfTyped ==
    ASSUME AdminAssumption, TypeOK, NEW source \in Source
    PROVE  TextOf(source) \in Text
<1>1. files.text \in FileText
    BY DEF TypeOK
<1>. QED
    BY <1>1, Texts DEF TextOf, Source

\* How far a reload gets in each of its steps.
LEMMA ReloadFacts ==
    ASSUME AdminAssumption, TypeOK, NEW r \in Reloader
    PROVE  /\ reload[r] \in Progress /\ NoReload \in Progress /\ NoReload.at = "no"
           /\ \A source \in Source : Reloading(r, source) =>
                /\ reload' \in [Reloader -> Progress]
                /\ reload'[r].at = "given" /\ reload'[r].source = source
                /\ \A q \in Reloader : q # r => reload'[q] = reload[q]
           /\ Read(r) =>
                /\ reload' \in [Reloader -> Progress]
                /\ reload'[r].at = "read" /\ reload'[r].source = reload[r].source
                /\ reload'[r].text = TextOf(reload[r].source) /\ reload'[r].mtime = files.mtime
                /\ \A q \in Reloader : q # r => reload'[q] = reload[q]
           /\ Install(r) =>
                /\ reload' \in [Reloader -> Progress] /\ reload'[r].at = "installed"
                /\ \A q \in Reloader : q # r => reload'[q] = reload[q]
           /\ Ended(r) =>
                /\ reload' \in [Reloader -> Progress] /\ reload'[r].at = "no"
                /\ \A q \in Reloader : q # r => reload'[q] = reload[q]
<1>1. reload[r] \in Progress /\ reload \in [Reloader -> Progress] /\ files.mtime \in Nat
    BY DEF TypeOK
<1>2. NoReload \in Progress /\ NoReload.at = "no"
    <2>1. [files |-> TRUE, text |-> <<>>] \in Source /\ <<>> \in Text
        BY Texts DEF Source
    <2>. QED
        BY <2>1 DEF NoReload, Progress
<1>3. ASSUME NEW source \in Source, Reloading(r, source)
      PROVE  /\ reload' \in [Reloader -> Progress]
             /\ reload'[r].at = "given" /\ reload'[r].source = source
             /\ \A q \in Reloader : q # r => reload'[q] = reload[q]
    <2>1. PICK g : g = [NoReload EXCEPT !.at = "given", !.source = source]
        OBVIOUS
    <2>2. g \in Progress /\ g.at = "given" /\ g.source = source
        BY <1>2, <2>1 DEF Progress
    <2>3. reload' = [reload EXCEPT ![r] = g]
        BY <1>3, <2>1 DEF Reloading
    <2>. QED
        BY <1>1, <2>2, <2>3
<1>4. ASSUME Read(r)
      PROVE  /\ reload' \in [Reloader -> Progress]
             /\ reload'[r].at = "read" /\ reload'[r].source = reload[r].source
             /\ reload'[r].text = TextOf(reload[r].source) /\ reload'[r].mtime = files.mtime
             /\ \A q \in Reloader : q # r => reload'[q] = reload[q]
    <2>1. TextOf(reload[r].source) \in Text
        BY <1>1, TextOfTyped DEF Progress
    <2>2. PICK g : g = [reload[r] EXCEPT !.at = "read", !.text = TextOf(reload[r].source),
                                        !.mtime = files.mtime]
        OBVIOUS
    <2>3. /\ g \in Progress /\ g.at = "read" /\ g.source = reload[r].source
          /\ g.text = TextOf(reload[r].source) /\ g.mtime = files.mtime
        BY <1>1, <2>1, <2>2 DEF Progress
    <2>4. reload' = [reload EXCEPT ![r] = g]
        BY <1>1, <1>4, <2>2 DEF Read
    <2>. QED
        BY <1>1, <2>3, <2>4
<1>5. ASSUME Install(r)
      PROVE  /\ reload' \in [Reloader -> Progress] /\ reload'[r].at = "installed"
             /\ \A q \in Reloader : q # r => reload'[q] = reload[q]
    BY <1>1, <1>5 DEF Install, Progress
<1>6. ASSUME Ended(r)
      PROVE  /\ reload' \in [Reloader -> Progress] /\ reload'[r].at = "no"
             /\ \A q \in Reloader : q # r => reload'[q] = reload[q]
    BY <1>1, <1>2, <1>6 DEF Ended
<1>. QED
    BY <1>1, <1>2, <1>3, <1>4, <1>5, <1>6

\* What the server has when it comes up, and stores.
LEMMA StartFacts ==
    ASSUME AdminAssumption, files.text \in Text, Compiles(files.text)
    PROVE  /\ AtStart \in [DOMAIN AtStart -> Pack]
           /\ DOMAIN AtStart = DOMAIN ConfigText \cup {Default} /\ DOMAIN AtStart \subseteq PackIds
           /\ AtStart[Default] = Labelled(files.text)
           /\ StoredAtStart \in [DOMAIN StoredAtStart -> Stored]
           /\ DOMAIN StoredAtStart \subseteq DOMAIN AtStart
           /\ \A p \in DOMAIN StoredAtStart \ DOMAIN ConfigText : Compiles(StoredAtStart[p].text)
<1>1. /\ \A p \in DOMAIN ConfigText : Labelled(ConfigText[p]) \in Pack
      /\ Labelled(files.text) \in Pack /\ <<Bad>> \in Text
    BY Texts, PackFacts
<1>2. /\ AtStart \in [DOMAIN AtStart -> Pack]
      /\ DOMAIN AtStart = DOMAIN ConfigText \cup {Default} /\ DOMAIN AtStart \subseteq PackIds
      /\ AtStart[Default] = Labelled(files.text)
    BY <1>1 DEF AtStart, PackIds
<1>3. /\ DOMAIN StoredAtStart \subseteq DOMAIN AtStart
      /\ \A p \in DOMAIN StoredAtStart :
            StoredAtStart[p] = Row(IF p = Default THEN files.text ELSE <<Bad>>, FALSE)
    BY DEF StoredAtStart
<1>4. \A p \in DOMAIN StoredAtStart : StoredAtStart[p] \in Stored
    <2>1. ASSUME NEW text \in Text PROVE Row(text, FALSE) \in Stored
        BY DEF Row, Stored
    <2>. QED
        BY <1>1, <1>3, <2>1
<1>5. StoredAtStart \in [DOMAIN StoredAtStart -> Stored]
    <2>1. StoredAtStart = [p \in DOMAIN StoredAtStart |-> StoredAtStart[p]]
        BY DEF StoredAtStart
    <2>. QED
        BY <1>4, <2>1
<1>6. \A p \in DOMAIN StoredAtStart \ DOMAIN ConfigText : Compiles(StoredAtStart[p].text)
    <2>1. ASSUME NEW p \in DOMAIN StoredAtStart \ DOMAIN ConfigText PROVE Compiles(StoredAtStart[p].text)
        <3>1. p = Default
            BY <1>2, <1>3
        <3>. QED
            BY <1>3, <3>1 DEF Row
    <2>. QED
        BY <2>1
<1>. QED
    BY <1>2, <1>3, <1>5, <1>6

\* What it loads from the store.
LEMMA RestoredFacts ==
    ASSUME TypeOK
    PROVE  /\ Restored(stored) \in [DOMAIN Restored(stored) -> Pack]
           /\ DOMAIN Restored(stored) =
                {p \in DOMAIN stored \ DOMAIN StoredAtStart : Compiles(stored[p].text)}
           /\ DOMAIN Restored(stored) \subseteq PackIds
           /\ \A p \in DOMAIN Restored(stored) :
                Restored(stored)[p] \in {Inline(stored[p].text), Labelled(stored[p].text)}
<1>1. \A p \in DOMAIN stored : stored[p].text \in Text /\ p \in PackIds
    BY DEF TypeOK, Stored
<1>2. /\ DOMAIN Restored(stored) =
           {p \in DOMAIN stored \ DOMAIN StoredAtStart : Compiles(stored[p].text)}
      /\ \A p \in DOMAIN Restored(stored) :
            Restored(stored)[p] \in {Inline(stored[p].text), Labelled(stored[p].text)}
    BY DEF Restored
<1>3. \A p \in DOMAIN Restored(stored) : Restored(stored)[p] \in Pack
    BY <1>1, <1>2, PackFacts
<1>4. Restored(stored) = [p \in DOMAIN Restored(stored) |-> Restored(stored)[p]]
    BY DEF Restored
<1>5. Restored(stored) \in [DOMAIN Restored(stored) -> Pack]
    BY <1>3, <1>4
<1>. QED
    BY <1>1, <1>2, <1>5

\* What a start makes of both.
LEMMA BootFacts ==
    ASSUME AdminAssumption, TypeOK, Booted(stored, bound)
    PROVE  \E restored :
              /\ restored = IF Persistent THEN Restored(stored) ELSE <<>>
              /\ restored \in [DOMAIN restored -> Pack] /\ DOMAIN restored \subseteq PackIds
              /\ DOMAIN packs' = DOMAIN restored \cup DOMAIN AtStart
              /\ \A p \in DOMAIN restored : packs'[p] = restored[p]
              /\ \A p \in DOMAIN AtStart \ DOMAIN restored : packs'[p] = AtStart[p]
              /\ packs' \in [DOMAIN packs' -> Pack]
              /\ missed' = (Default \in DOMAIN restored) /\ Compiles(files.text) /\ files.text \in Text
<1>1. files.text \in Text /\ Compiles(files.text)
    BY Texts DEF TypeOK, Booted
<1>2. PICK restored : restored = IF Persistent THEN Restored(stored) ELSE <<>>
    OBVIOUS
<1>3. restored \in [DOMAIN restored -> Pack] /\ DOMAIN restored \subseteq PackIds
    <2>1. CASE Persistent
        BY <1>2, <2>1, RestoredFacts
    <2>2. CASE ~Persistent
        BY <1>2, <2>2
    <2>. QED
        BY <2>1, <2>2
<1>4. packs' = Over(restored, AtStart) /\ missed' = (Default \in DOMAIN restored)
    BY <1>2 DEF Booted
<1>5. Over(restored, AtStart) \in [DOMAIN restored \cup DOMAIN AtStart -> Pack]
    BY <1>1, <1>3, StartFacts, OverTyped
<1>6. /\ DOMAIN packs' = DOMAIN restored \cup DOMAIN AtStart
      /\ \A p \in DOMAIN restored : packs'[p] = restored[p]
      /\ \A p \in DOMAIN AtStart \ DOMAIN restored : packs'[p] = AtStart[p]
    BY <1>4 DEF Over
<1>. QED
    BY <1>1, <1>2, <1>3, <1>4, <1>5, <1>6

\* So does a start on what is stored.
LEMMA BootedTyped ==
    ASSUME AdminAssumption, TypeOK, Booted(stored, bound)
    PROVE  /\ packs' \in [DOMAIN packs' -> Pack] /\ DOMAIN packs' \subseteq PackIds
           /\ stored' \in [DOMAIN stored' -> Stored] /\ DOMAIN stored' \subseteq PackIds
           /\ bound' \subseteq Agent \X PackIds /\ adrift' \subseteq PackIds
           /\ missed' \in BOOLEAN
<1>1. /\ AtStart \in [DOMAIN AtStart -> Pack] /\ DOMAIN AtStart \subseteq PackIds
      /\ StoredAtStart \in [DOMAIN StoredAtStart -> Stored] /\ DOMAIN StoredAtStart \subseteq DOMAIN AtStart
    BY Texts, StartFacts DEF TypeOK, Booted
<1>2. packs' \in [DOMAIN packs' -> Pack] /\ DOMAIN packs' \subseteq PackIds
    BY <1>1, BootFacts
<1>5. missed' \in BOOLEAN
    BY DEF Booted
<1>3. stored' \in [DOMAIN stored' -> Stored] /\ DOMAIN stored' \subseteq PackIds
    <2>1. stored' = IF Persistent THEN Over(StoredAtStart, stored) ELSE stored
        BY DEF Booted
    <2>2. stored \in [DOMAIN stored -> Stored] /\ DOMAIN stored \subseteq PackIds
        BY DEF TypeOK
    <2>3. Over(StoredAtStart, stored) \in [DOMAIN StoredAtStart \cup DOMAIN stored -> Stored]
        BY <1>1, <2>2, OverTyped
    <2>. QED
        BY <1>1, <2>1, <2>2, <2>3
<1>4. bound' \subseteq Agent \X PackIds /\ adrift' \subseteq PackIds
    BY DEF Booted, AdminAssumption, TypeOK, PackIds
<1>. QED
    BY <1>2, <1>3, <1>4, <1>5

-----------------------------------------------------------------------------
(* Types.                                                                  *)

\* What it is given.
LEMMA SourcesTyped ==
    ASSUME AdminAssumption, TypeOK
    PROVE  userSource \in Source /\ Sources \subseteq Source
<1>1. userSource \in Source /\ [files |-> TRUE, text |-> <<>>] \in Source
    BY Texts DEF TypeOK, Source
<1>2. \A text \in PushText \cup {<<Bad>>} : [files |-> FALSE, text |-> text] \in Source
    BY Texts DEF Source
<1>. QED
    BY <1>1, <1>2 DEF Sources

\* A pack more keeps the types of the packs.
LEMMA PutTyped ==
    ASSUME TypeOK, NEW p \in PackIds, NEW pack \in Pack, packs' = With(packs, p, pack)
    PROVE  packs' \in [DOMAIN packs' -> Pack] /\ DOMAIN packs' \subseteq PackIds
<1>1. packs \in [DOMAIN packs -> Pack] /\ DOMAIN packs \subseteq PackIds
    BY DEF TypeOK
<1>2. With(packs, p, pack) \in [DOMAIN With(packs, p, pack) -> Pack]
    BY <1>1, MapTypes
<1>3. DOMAIN With(packs, p, pack) \subseteq PackIds
    BY <1>1 DEF With
<1>. QED
    BY <1>2, <1>3

\* So does a pack less.
LEMMA TakenTyped ==
    ASSUME TypeOK, NEW p, packs' = Less(packs, p)
    PROVE  packs' \in [DOMAIN packs' -> Pack] /\ DOMAIN packs' \subseteq PackIds
    BY DEF TypeOK, Less

\* And so does what Store does.
LEMMA StoredTyped ==
    ASSUME TypeOK, NEW p \in PackIds, NEW row \in Stored,
           stored' \in {stored, Less(stored, p), With(stored, p, row)}
    PROVE  stored' \in [DOMAIN stored' -> Stored] /\ DOMAIN stored' \subseteq PackIds
<1>1. stored \in [DOMAIN stored -> Stored] /\ DOMAIN stored \subseteq PackIds
    BY DEF TypeOK
<1>2. CASE stored' = With(stored, p, row)
    BY <1>1, <1>2 DEF With
<1>3. CASE stored' = Less(stored, p)
    BY <1>1, <1>3 DEF Less
<1>. QED
    BY <1>1, <1>2, <1>3

\* The counts of requests and of the rest stay counts.
LEMMA RequestTyped ==
    ASSUME TypeOK, used' = [used EXCEPT !.requests = @ + 1]
    PROVE  used' \in [requests : Nat, edits : Nat, calls : Nat, boots : Nat]
    BY DEF TypeOK

\* So at the start of a request.
LEMMA BeginsTyped ==
    ASSUME TypeOK, NEW c, Begins(c)
    PROVE  used' \in [requests : Nat, edits : Nat, calls : Nat, boots : Nat]
    BY RequestTyped DEF Begins

\* And so with what happens besides requests.
LEMMA SpentTyped ==
    ASSUME TypeOK, NEW on \in {"edits", "calls", "boots"}, Spent(on)
    PROVE  used' \in [requests : Nat, edits : Nat, calls : Nat, boots : Nat]
<1>1. used' = [used EXCEPT ![on] = @ + 1]
    BY DEF Spent
<1>. QED
    BY <1>1 DEF TypeOK

\* The server starts with these types.
LEMMA TypeInit ==
    ASSUME AdminAssumption, Init
    PROVE  TypeOK
<1>1. files.text \in Text /\ Compiles(files.text) /\ files \in [text : FileText, mtime : Nat]
    BY Texts DEF Init
<1>2. /\ packs \in [DOMAIN packs -> Pack] /\ DOMAIN packs \subseteq PackIds
      /\ StoredAtStart \in [DOMAIN StoredAtStart -> Stored] /\ DOMAIN StoredAtStart \subseteq PackIds
    BY <1>1, StartFacts DEF Init
<1>3. stored \in [DOMAIN stored -> Stored] /\ DOMAIN stored \subseteq PackIds
    BY <1>2 DEF Init
<1>4. pc \in [Client -> Thread]
    BY IdleFacts DEF Init
<1>5. userSource \in Source /\ reload \in [Reloader -> Progress]
    BY Texts DEF Init, Source, Reloader, Progress, NoReload
<1>6. /\ look \in [on : BOOLEAN, agent : Agent, ids : SUBSET Block, late : BOOLEAN]
      /\ views \in [Agent -> [known : BOOLEAN, ids : SUBSET Block]]
    BY Texts DEF Init, NoLook, Unasked
<1>7. /\ bound \subseteq Agent \X PackIds /\ DOMAIN ConfigText \subseteq PackIds
      /\ used \in [requests : Nat, edits : Nat, calls : Nat, boots : Nat]
      /\ watcher \in [at : {"off", "idle", "changed"}, seen : Nat, told : BOOLEAN]
    BY DEF Init, AdminAssumption, PackIds
<1>. QED
    BY <1>1, <1>2, <1>3, <1>4, <1>5, <1>6, <1>7 DEF Init, TypeOK

\* Views that are forgotten keep their types, and so does the one being built.
LEMMA ForgetTyped ==
    ASSUME TypeOK, Forget
    PROVE  /\ views' \in [Agent -> [known : BOOLEAN, ids : SUBSET Block]]
           /\ look' \in [on : BOOLEAN, agent : Agent, ids : SUBSET Block, late : BOOLEAN]
           /\ unsynced' \in BOOLEAN /\ raced' \subseteq Agent
    BY DEF TypeOK, Forget, Unasked

\* Each step keeps the types.
LEMMA TypeStep ==
    ASSUME AdminAssumption, TypeOK, [Next]_vars
    PROVE  TypeOK'
<1>1. ASSUME NEW text \in FileText, EditFiles(text) PROVE TypeOK'
    <2>1. used' \in [requests : Nat, edits : Nat, calls : Nat, boots : Nat]
        BY <1>1, SpentTyped DEF EditFiles
    <2>2. files' \in [text : FileText, mtime : Nat] /\ missed' \in BOOLEAN
        BY <1>1 DEF TypeOK, EditFiles
    <2>. QED
        BY <1>1, <2>1, <2>2 DEF TypeOK, EditFiles, actor
<1>2. ASSUME NEW told \in {FALSE, Async}, StartWatch(told) PROVE TypeOK'
    <2>1. told \in BOOLEAN
        BY <1>2 DEF AdminAssumption
    <2>2. watcher' \in [at : {"off", "idle", "changed"}, seen : Nat, told : BOOLEAN]
        BY <1>2, <2>1 DEF TypeOK, StartWatch
    <2>. QED
        BY <1>2, <2>2 DEF TypeOK, StartWatch, actor
<1>3. ASSUME StopWatch PROVE TypeOK'
    BY <1>3 DEF TypeOK, StopWatch, actor
<1>4. ASSUME Poll PROVE TypeOK'
    BY <1>4 DEF TypeOK, Poll, actor
<1>5. ASSUME WatcherReload PROVE TypeOK'
    <2>1. "watcher" \in Reloader /\ userSource \in Source
        BY DEF TypeOK, Reloader
    <2>2. reload' \in [Reloader -> Progress]
        BY <1>5, <2>1, ReloadFacts DEF WatcherReload
    <2>. QED
        BY <1>5, <2>2 DEF TypeOK, WatcherReload, actor
<1>6. ASSUME NEW c \in Client, NEW a \in Agent, NEW id \in Id, Create(c, a, id) PROVE TypeOK'
    <2>. DEFINE r == [at |-> "ensure", op |-> "create", agent |-> a, pack |-> AgentPack[a],
                      id |-> id, text |-> <<>>, left |-> {}]
    <2>0. used' \in [requests : Nat, edits : Nat, calls : Nat, boots : Nat]
        BY <1>6, BeginsTyped DEF Create
    <2>1. r \in Thread
        BY Texts DEF Thread, PackIds
    <2>2. pc' = [pc EXCEPT ![c] = r]
        BY <1>6 DEF Create
    <2>. HIDE DEF r
    <2>3. pc' \in [Client -> Thread]
        BY <2>1, <2>2 DEF TypeOK
    <2>. QED
        BY <1>6, <2>0, <2>3 DEF TypeOK, Create, sources, actor, store
<1>7. ASSUME NEW c \in Client, NEW a \in Agent, NEW id \in Id, Delete(c, a, id) PROVE TypeOK'
    <2>0. used' \in [requests : Nat, edits : Nat, calls : Nat, boots : Nat]
        BY <1>7, BeginsTyped DEF Delete
    <2>1. PICK p \in PacksFor(a) :
            pc' = [pc EXCEPT ![c] = [at |-> "replace", op |-> "delete", agent |-> a, pack |-> p,
                      id |-> id, text |-> Without(Blocks(packs[p]), {id}), left |-> {}]]
        BY <1>7 DEF Delete
    <2>2. p \in PackIds /\ packs[p] \in Pack
        BY IdsTyped DEF TypeOK
    <2>3. Without(Blocks(packs[p]), {id}) \in Text
        BY <2>2, BlocksFacts, WithoutFacts DEF Text
    <2>4. [at |-> "replace", op |-> "delete", agent |-> a, pack |-> p,
           id |-> id, text |-> Without(Blocks(packs[p]), {id}), left |-> {}] \in Thread
        BY <2>2, <2>3, Texts DEF Thread
    <2>5. pc' \in [Client -> Thread]
        BY <2>1, <2>4 DEF TypeOK
    <2>. QED
        BY <1>7, <2>0, <2>5 DEF TypeOK, Delete, sources, actor, store
<1>8. ASSUME NEW c \in Client, NEW p \in Named, NEW text \in PushText, PutPack(c, p, text) PROVE TypeOK'
    <2>0. used' \in [requests : Nat, edits : Nat, calls : Nat, boots : Nat]
        BY <1>8, BeginsTyped DEF PutPack
    <2>1. p \in PackIds /\ text \in Text
        BY Texts DEF PackIds, TypeOK
    <2>2. pc' \in [Client -> Thread]
        BY <1>8, <2>1, PuttingFacts DEF PutPack, TypeOK
    <2>3. Inline(text) \in Pack /\ packs' = With(packs, p, Inline(text))
        BY <1>8, <2>1, PackFacts DEF PutPack
    <2>4. packs' \in [DOMAIN packs' -> Pack] /\ DOMAIN packs' \subseteq PackIds
        BY <2>1, <2>3, PutTyped
    <2>. QED
        BY <1>8, <2>0, <2>2, <2>4 DEF TypeOK, PutPack, Overtaken, sources, actor, store
<1>9. ASSUME NEW c \in Client, PutConfig(c) PROVE TypeOK'
    <2>0. used' \in [requests : Nat, edits : Nat, calls : Nat, boots : Nat]
        BY <1>9, BeginsTyped DEF PutConfig
    <2>1. pc' \in [Client -> Thread]
        BY <1>9, ConfigBegun DEF PutConfig, TypeOK
    <2>. QED
        BY <1>9, <2>0, <2>1 DEF TypeOK, PutConfig, sources, actor, store
<1>10. ASSUME NEW c \in Client, NEW p \in DOMAIN packs \ {Default}, DropPack(c, p) PROVE TypeOK'
    <2>0. used' \in [requests : Nat, edits : Nat, calls : Nat, boots : Nat]
        BY <1>10, BeginsTyped DEF DropPack
    <2>1. p \in PackIds /\ <<>> \in Text
        BY Texts DEF TypeOK
    <2>2. pc' \in [Client -> Thread]
        BY <1>10, <2>1, PuttingFacts DEF DropPack, TypeOK
    <2>4. packs' \in [DOMAIN packs' -> Pack] /\ DOMAIN packs' \subseteq PackIds
        BY <1>10, TakenTyped DEF DropPack
    <2>. QED
        BY <1>10, <2>0, <2>2, <2>4 DEF TypeOK, DropPack, Overtaken, sources, actor, store
<1>11. ASSUME NEW source \in Source, Reload(source) PROVE TypeOK'
    <2>0. used' \in [requests : Nat, edits : Nat, calls : Nat, boots : Nat]
        BY <1>11, RequestTyped DEF Reload
    <2>1. reload' \in [Reloader -> Progress]
        BY <1>11, ReloadFacts DEF Reload, Reloader
    <2>. QED
        BY <1>11, <2>0, <2>1 DEF TypeOK, Reload, actor
<1>12. ASSUME NEW c \in Client, NEW a \in Agent, NEW p \in Named, BindAgent(c, a, p) PROVE TypeOK'
    <2>0. used' \in [requests : Nat, edits : Nat, calls : Nat, boots : Nat]
        BY <1>12, BeginsTyped DEF BindAgent
    <2>1. pc' \in [Client -> Thread]
        BY <1>12, TellsFacts DEF BindAgent, TypeOK
    <2>2. bound' \subseteq Agent \X PackIds
        BY <1>12 DEF BindAgent, TypeOK, PackIds
    <2>. QED
        BY <1>12, <2>0, <2>1, <2>2 DEF TypeOK, BindAgent, sources, actor, store
<1>13. ASSUME NEW c \in Client, NEW a \in Agent, NEW p \in Named, UnbindAgent(c, a, p) PROVE TypeOK'
    <2>0. used' \in [requests : Nat, edits : Nat, calls : Nat, boots : Nat]
        BY <1>13, BeginsTyped DEF UnbindAgent
    <2>1. pc' \in [Client -> Thread]
        BY <1>13, TellsFacts DEF UnbindAgent, TypeOK
    <2>2. bound' \subseteq Agent \X PackIds
        BY <1>13 DEF UnbindAgent, TypeOK, PackIds
    <2>. QED
        BY <1>13, <2>0, <2>1, <2>2 DEF TypeOK, UnbindAgent, sources, actor, store
<1>14. ASSUME NEW c \in Client, Ensure(c) PROVE TypeOK'
    <2>1. PICK p, pack :
            /\ p = pc[c].pack /\ pack = IF p \in DOMAIN packs THEN packs[p] ELSE Inline(<<>>)
            /\ packs' = With(packs, p, pack)
            /\ pc' = [pc EXCEPT ![c].at = "bind", ![c].text = Append(Blocks(pack), pc[c].id)]
        BY <1>14 DEF Ensure
    <2>2. p \in PackIds /\ pack \in Pack /\ pc[c].id \in Block
        BY <2>1, Texts, PackFacts DEF TypeOK, Thread
    <2>3. packs' \in [DOMAIN packs' -> Pack] /\ DOMAIN packs' \subseteq PackIds
        BY <2>1, <2>2, PutTyped
    <2>4. Append(Blocks(pack), pc[c].id) \in Text
        BY <2>2, BlocksFacts, ElementsOfAppended DEF Text
    <2>5. pc' \in [Client -> Thread]
        <3>1. pc[c] \in Thread /\ pc' = [pc EXCEPT ![c] = [pc[c] EXCEPT !.at = "bind",
                                                       !.text = Append(Blocks(pack), pc[c].id)]]
            BY <2>1 DEF TypeOK
        <3>2. [pc[c] EXCEPT !.at = "bind", !.text = Append(Blocks(pack), pc[c].id)] \in Thread
            BY <2>4, <3>1 DEF Thread
        <3>. QED
            BY <3>1, <3>2 DEF TypeOK
    <2>. QED
        BY <1>14, <2>3, <2>5 DEF TypeOK, Ensure, sources, actor, store
<1>15. ASSUME NEW c \in Client, BindOwn(c) PROVE TypeOK'
    <2>1. CASE pc[c].pack \in DOMAIN packs
        <3>1. pc' \in [Client -> Thread]
            BY <1>15, <2>1, GoesFacts DEF BindOwn, TypeOK
        <3>2. pc[c].agent \in Agent /\ pc[c].pack \in PackIds
            BY DEF TypeOK, Thread
        <3>. QED
            BY <1>15, <2>1, <3>1, <3>2 DEF TypeOK, BindOwn, sources, actor, store
    <2>2. CASE pc[c].pack \notin DOMAIN packs
        <3>1. pc' \in [Client -> Thread]
            BY <1>15, <2>2, EndsFacts DEF BindOwn, TypeOK
        <3>. QED
            BY <1>15, <2>2, <3>1 DEF TypeOK, BindOwn, sources, actor, store
    <2>. QED
        BY <2>1, <2>2
<1>16. ASSUME NEW c \in Client, Replace(c) PROVE TypeOK'
    <2>1. pc' \in [Client -> Thread]
        BY <1>16, GoesFacts DEF Replace, TypeOK
    <2>2. pc[c].pack \in PackIds /\ Inline(pc[c].text) \in Pack
        BY PackFacts DEF TypeOK, Thread
    <2>3. packs' = With(packs, pc[c].pack, Inline(pc[c].text))
        BY <1>16 DEF Replace
    <2>4. packs' \in [DOMAIN packs' -> Pack] /\ DOMAIN packs' \subseteq PackIds
        BY <2>2, <2>3, PutTyped
    <2>. QED
        BY <1>16, <2>1, <2>2, <2>4 DEF TypeOK, Replace, Overtaken, sources, actor
<1>17. ASSUME NEW c \in Client, NEW done \in BOOLEAN, Store(c, done) PROVE TypeOK'
    <2>1. pc' \in [Client -> Thread]
        BY <1>17, GoesFacts DEF Store, TypeOK
    <2>2. pc[c].pack \in PackIds /\ pc[c].text \in Text
        BY DEF TypeOK, Thread
    <2>3. PICK row \in Stored : stored' \in {stored, Less(stored, pc[c].pack), With(stored, pc[c].pack, row)}
        <3>1. Row(pc[c].text, pc[c].op = "put") \in Stored
            BY <2>2 DEF Row, Stored
        <3>. QED
            BY <1>17, <3>1 DEF Store
    <2>4. stored' \in [DOMAIN stored' -> Stored] /\ DOMAIN stored' \subseteq PackIds
        BY <2>2, <2>3, StoredTyped
    <2>. QED
        BY <1>17, <2>1, <2>2, <2>4 DEF TypeOK, Store, sources, actor
<1>18. ASSUME NEW c \in Client, BindConfig(c) PROVE TypeOK'
    <2>1. pc' \in [Client -> Thread]
        BY <1>18, GoesFacts DEF BindConfig, TypeOK
    <2>2. bound' \subseteq Agent \X PackIds
        BY <1>18 DEF BindConfig, TypeOK, AdminAssumption
    <2>. QED
        BY <1>18, <2>1, <2>2 DEF TypeOK, BindConfig, sources, actor, store
<1>19. ASSUME NEW c \in Client, Sync(c) PROVE TypeOK'
    <2>1. pc' \in [Client -> Thread]
        BY <1>19, EndsFacts DEF Sync, TypeOK
    <2>2. Forget
        BY <1>19 DEF Sync
    <2>. QED
        BY <1>19, <2>1, <2>2, ForgetTyped DEF TypeOK, Sync, sources, store
<1>20. ASSUME NEW p \in DOMAIN packs, NEW id \in Id, AddRule(p, id) PROVE TypeOK'
    <2>0. used' \in [requests : Nat, edits : Nat, calls : Nat, boots : Nat]
        BY <1>20, SpentTyped DEF AddRule, Calls
    <2>1. packs[p] \in Pack /\ packs[p].rules \in Seq(Rule) /\ p \in PackIds
        BY DEF TypeOK, Pack
    <2>2. [id |-> id, from |-> <<id>>] \in Rule
        BY Texts DEF Rule, Text
    <2>3. PICK rules \in Seq(Rule) : packs' = [packs EXCEPT ![p].rules = rules]
        <3>1. Append(Without(packs[p].rules, Defining(id, packs[p].rules)), [id |-> id, from |-> <<id>>]) \in Seq(Rule)
            BY <2>1, <2>2, WithoutFacts, ElementsOfAppended
        <3>. QED
            BY <1>20, <3>1 DEF AddRule
    <2>4. packs' \in [DOMAIN packs' -> Pack] /\ DOMAIN packs' = DOMAIN packs
        BY <2>1, <2>3 DEF TypeOK, Pack
    <2>. QED
        BY <1>20, <2>0, <2>1, <2>4 DEF TypeOK, AddRule, Overtaken, sources, actor
<1>21. ASSUME NEW p \in DOMAIN packs, NEW id \in Id, RemoveRule(p, id) PROVE TypeOK'
    <2>0. used' \in [requests : Nat, edits : Nat, calls : Nat, boots : Nat]
        BY <1>21, SpentTyped DEF RemoveRule, Calls
    <2>1. packs[p] \in Pack /\ packs[p].rules \in Seq(Rule) /\ p \in PackIds
        BY DEF TypeOK, Pack
    <2>2. [id |-> id, from |-> <<id>>] \in Rule
        BY Texts DEF Rule, Text
    <2>3. PICK rules \in Seq(Rule) : packs' = [packs EXCEPT ![p].rules = rules]
        <3>1. Without(packs[p].rules, Defining(id, packs[p].rules)) \in Seq(Rule)
            BY <2>1, <2>2, WithoutFacts, ElementsOfAppended
        <3>. QED
            BY <1>21, <3>1 DEF RemoveRule
    <2>4. packs' \in [DOMAIN packs' -> Pack] /\ DOMAIN packs' = DOMAIN packs
        BY <2>1, <2>3 DEF TypeOK, Pack
    <2>. QED
        BY <1>21, <2>0, <2>1, <2>4 DEF TypeOK, RemoveRule, Overtaken, sources, actor
<1>22. ASSUME NEW a \in Agent, BuildView(a) PROVE TypeOK'
    <2>1. Effective(a) \subseteq Block
        BY IdsTyped
    <2>2. look' \in [on : BOOLEAN, agent : Agent, ids : SUBSET Block, late : BOOLEAN]
        BY <1>22, <2>1 DEF BuildView
    <2>. QED
        BY <1>22, <2>2 DEF TypeOK, BuildView, sources, store
<1>23. ASSUME Restart PROVE TypeOK'
    <2>0. used' \in [requests : Nat, edits : Nat, calls : Nat, boots : Nat]
        BY <1>23, SpentTyped DEF Restart
    <2>1. Booted(stored, bound)
        BY <1>23 DEF Restart
    <2>2. /\ packs' \in [DOMAIN packs' -> Pack] /\ DOMAIN packs' \subseteq PackIds
          /\ stored' \in [DOMAIN stored' -> Stored] /\ DOMAIN stored' \subseteq PackIds
          /\ bound' \subseteq Agent \X PackIds /\ adrift' \subseteq PackIds /\ missed' \in BOOLEAN
        BY <2>1, BootedTyped
    <2>3. pc' \in [Client -> Thread] /\ userSource' \in Source
        BY <1>23, IdleFacts, Texts DEF Restart, Source
    <2>4. /\ views' \in [Agent -> [known : BOOLEAN, ids : SUBSET Block]]
          /\ look' \in [on : BOOLEAN, agent : Agent, ids : SUBSET Block, late : BOOLEAN]
        BY <1>23, Texts DEF Restart, Unasked, NoLook
    <2>5. reload' \in [Reloader -> Progress]
        BY <1>23, Texts DEF Restart, Reloader, Progress, Source, NoReload
    <2>. QED
        BY <1>23, <2>0, <2>2, <2>3, <2>4, <2>5 DEF TypeOK, Restart
<1>24. CASE UNCHANGED vars
    BY <1>24 DEF TypeOK, vars
<1>25. Sources \subseteq Source
    BY SourcesTyped
<1>26. ASSUME NEW c \in Client, NEW p \in DOMAIN AskedText, NEW text \in AskedText[p],
              ConfigPack(c, p, text) PROVE TypeOK'
    <2>1. /\ pc' \in [Client -> Thread] /\ packs' = With(packs, p, Labelled(text))
          /\ p \in PackIds /\ Labelled(text) \in Pack
        BY <1>26, ConfigPut DEF TypeOK
    <2>2. packs' \in [DOMAIN packs' -> Pack] /\ DOMAIN packs' \subseteq PackIds
        BY <2>1, PutTyped
    <2>. QED
        BY <1>26, <2>1, <2>2 DEF TypeOK, ConfigPack, Overtaken, sources, actor, store
<1>27. ASSUME NEW c \in Client, NEW p, NEW text, ConfigRefused(c, p, text) PROVE TypeOK'
    <2>1. pc' \in [Client -> Thread]
        BY <1>27, EndsFacts DEF ConfigRefused, TypeOK
    <2>2. unsynced' \in BOOLEAN
        BY <1>27 DEF ConfigRefused, TypeOK
    <2>. QED
        BY <1>27, <2>1, <2>2 DEF TypeOK, ConfigRefused, sources, actor, store
<1>28. ASSUME NEW r \in Reloader, Read(r) PROVE TypeOK'
    <2>1. reload' \in [Reloader -> Progress] /\ reload[r].source \in Source
        BY <1>28, ReloadFacts DEF Progress
    <2>. QED
        BY <1>28, <2>1 DEF TypeOK, Read, actor
<1>29. ASSUME NEW r \in Reloader, Install(r) PROVE TypeOK'
    <2>1. reload' \in [Reloader -> Progress] /\ reload[r].text \in Text /\ Default \in PackIds
        BY <1>29, ReloadFacts DEF Progress, PackIds
    <2>2. PICK pack \in Pack : packs' = With(packs, Default, pack)
        BY <1>29, <2>1, PackFacts DEF Install
    <2>3. packs' \in [DOMAIN packs' -> Pack] /\ DOMAIN packs' \subseteq PackIds
        BY <2>1, <2>2, PutTyped
    <2>4. missed' \in BOOLEAN /\ touched' \subseteq PackIds /\ overlapped' \subseteq Client
        BY <1>29 DEF Install, TypeOK, Overtaken
    <2>. QED
        BY <1>29, <2>1, <2>3, <2>4 DEF TypeOK, Install, actor
<1>30. ASSUME NEW r \in Reloader, Installed(r) PROVE TypeOK'
    <2>1. Ended(r)
        BY <1>30 DEF Installed
    <2>2. /\ reload' \in [Reloader -> Progress]
          /\ watcher' \in [at : {"off", "idle", "changed"}, seen : Nat, told : BOOLEAN]
        BY <2>1, ReloadFacts DEF Ended, TypeOK
    <2>3. CASE Forget
        BY <1>30, <2>2, <2>3, ForgetTyped DEF TypeOK, Installed
    <2>4. CASE ~Forget
        BY <1>30, <2>2, <2>4 DEF TypeOK, Installed, actor
    <2>. QED
        BY <2>3, <2>4
<1>31. ASSUME NEW r \in Reloader, Refuse(r) PROVE TypeOK'
    <2>1. Ended(r)
        BY <1>31 DEF Refuse
    <2>2. /\ reload' \in [Reloader -> Progress]
          /\ watcher' \in [at : {"off", "idle", "changed"}, seen : Nat, told : BOOLEAN]
        BY <2>1, ReloadFacts DEF Ended, TypeOK
    <2>. QED
        BY <1>31, <2>2 DEF TypeOK, Refuse, actor
<1>32. ASSUME NEW c \in Client, NEW done \in SUBSET AskedBound, BindingRaises(c, done) PROVE TypeOK'
    <2>1. pc' \in [Client -> Thread]
        BY <1>32, EndsFacts DEF BindingRaises, TypeOK
    <2>2. bound' \subseteq Agent \X PackIds /\ unsynced' \in BOOLEAN
        BY <1>32 DEF BindingRaises, TypeOK, AdminAssumption
    <2>. QED
        BY <1>32, <2>1, <2>2 DEF TypeOK, BindingRaises, sources, actor, store
<1>33. ASSUME KeepView PROVE TypeOK'
    <2>1. /\ look.agent \in Agent /\ look.ids \subseteq Block
          /\ look' \in [on : BOOLEAN, agent : Agent, ids : SUBSET Block, late : BOOLEAN]
        BY <1>33, Texts DEF TypeOK, KeepView, NoLook
    <2>2. views' \in [Agent -> [known : BOOLEAN, ids : SUBSET Block]] /\ raced' \subseteq Agent
        BY <1>33, <2>1 DEF TypeOK, KeepView
    <2>. QED
        BY <1>33, <2>1, <2>2 DEF TypeOK, KeepView, sources, store
<1>. QED
    BY <1>1, <1>2, <1>3, <1>4, <1>5, <1>6, <1>7, <1>8, <1>9, <1>10, <1>11, <1>12, <1>13, <1>14,
       <1>15, <1>16, <1>17, <1>18, <1>19, <1>20, <1>21, <1>22, <1>23, <1>24, <1>25, <1>26, <1>27,
       <1>28, <1>29, <1>30, <1>31, <1>32, <1>33 DEF Next, Request, Watching, Reloader

\* The types of the files, packs, bindings, views, requests and stored packs, for
\* every set of agents, packs, texts and clients.
THEOREM TypeCorrect == Spec => []TypeOK
<1>1. Init => TypeOK
    BY AdminAssumption, TypeInit
<1>2. TypeOK /\ [Next]_vars => TypeOK'
    BY AdminAssumption, TypeStep
<1>. QED
    BY <1>1, <1>2, PTL DEF Spec

-----------------------------------------------------------------------------
(* The files and the default pack.                                         *)

\* The default pack is no other than it was, or does not count.
DefaultKept ==
    Default \in DOMAIN packs' /\ packs'[Default].label /\ Default \notin touched' =>
        /\ Default \in DOMAIN packs /\ packs[Default].label /\ Default \notin touched
        /\ packs'[Default].rules = packs[Default].rules

\* Then, and with files, watcher and reloads as they were, what was so is so.
LEMMA FilesSame ==
    ASSUME FilesInv, UNCHANGED sources, DefaultKept
    PROVE  FilesInv'
    BY DEF FilesInv, ReadInv, FromFiles, Coming, Newest, sources, DefaultKept

\* The server starts with the default pack that the files say, or that it loads.
LEMMA BootedDefault ==
    ASSUME AdminAssumption, TypeOK, Booted(stored, bound), ~missed'
    PROVE  packs'[Default].rules = Compile(files.text)
<1>1. PICK restored : /\ \A p \in DOMAIN AtStart \ DOMAIN restored : packs'[p] = AtStart[p]
                      /\ missed' = (Default \in DOMAIN restored)
                      /\ Compiles(files.text) /\ files.text \in Text
    BY BootFacts
<1>2. Default \in DOMAIN AtStart /\ AtStart[Default] = Labelled(files.text)
    BY <1>1, StartFacts
<1>3. packs'[Default] = Labelled(files.text)
    BY <1>1, <1>2
<1>. QED
    BY <1>1, <1>3, PackFacts

\* The server starts on what the files say ...
LEMMA FilesInit ==
    ASSUME AdminAssumption, Init
    PROVE  FilesInv
<1>1. files.text \in Text /\ Compiles(files.text) /\ files.mtime = 0 /\ watcher.seen = 0
    BY Texts DEF Init
<1>2. packs[Default] = Labelled(files.text)
    BY <1>1, StartFacts DEF Init
<1>3. packs[Default].rules = Compile(files.text)
    BY <1>1, <1>2, PackFacts
<1>4. \A r \in Reloader : reload[r].at = "no"
    BY DEF Init, Reloader, NoReload
<1>. QED
    BY <1>1, <1>3, <1>4 DEF FilesInv, ReadInv, Reloader

\* ... and each step keeps to it.
LEMMA FilesStep ==
    ASSUME AdminAssumption, TypeOK, FilesInv, [Next]_vars
    PROVE  FilesInv'
<1>0. "loop" \in Reloader /\ "watcher" \in Reloader /\ watcher.seen \in Nat /\ files.mtime \in Nat
    BY DEF TypeOK, Reloader
<1>1. ASSUME NEW text \in FileText, EditFiles(text) PROVE FilesInv'
    <2>1. /\ UNCHANGED <<packs, touched, userSource, watcher, reload>>
          /\ files'.mtime = files.mtime + 1 /\ missed' = (missed \/ watcher.at = "off")
        BY <1>1 DEF EditFiles
    <2>2. files.mtime < files'.mtime /\ watcher'.seen < files'.mtime /\ watcher'.seen # files'.mtime
        BY <1>0, <2>1 DEF FilesInv, ReadInv
    <2>3. \A r \in Reloader : reload'[r].at = "read" => /\ reload'[r].mtime < files'.mtime
                                                      /\ ~Newest(r)'
        BY <1>0, <2>1, <2>2, ReloadFacts DEF FilesInv, ReadInv, Newest, Progress
    <2>4. ReadInv'
        <3>1. \A r \in Reloader : reload[r] \in Progress
            BY ReloadFacts
        <3>. QED
            BY <1>0, <2>1, <2>2, <2>3, <3>1 DEF FilesInv, ReadInv, Progress
    <2>5. FromFiles' => Coming'
        BY <1>0, <2>1, <2>2 DEF FromFiles, Coming
    <2>. QED
        BY <2>4, <2>5 DEF FilesInv
<1>2. ASSUME NEW told \in {FALSE, Async}, StartWatch(told) PROVE FilesInv'
    <2>1. /\ UNCHANGED <<packs, touched, userSource, files, reload, missed>>
          /\ watcher'.at = "idle" /\ watcher'.seen = files.mtime
          /\ watcher.at = "off" /\ reload["loop"].at = "no"
        BY <1>2 DEF StartWatch, LoopFree
    <2>2. ReadInv' /\ reload["watcher"].at = "no"
        BY <1>0, <2>1 DEF FilesInv, ReadInv, Newest, Reloader
    <2>3. ~Coming
        BY <2>1 DEF Coming, Newest
    <2>. QED
        BY <2>1, <2>2, <2>3 DEF FilesInv, FromFiles
<1>3. ASSUME StopWatch PROVE FilesInv'
    <2>1. /\ UNCHANGED <<packs, touched, userSource, files, reload>>
          /\ watcher'.seen = watcher.seen /\ missed' = (missed \/ files.mtime # watcher.seen)
          /\ watcher.at = "idle" /\ reload["loop"].at = "no"
        BY <1>3 DEF StopWatch, LoopFree, TypeOK
    <2>2. ReadInv' /\ reload["watcher"].at = "no"
        BY <1>0, <2>1 DEF FilesInv, ReadInv, Newest, Reloader
    <2>3. Coming => watcher.seen # files.mtime
        BY <2>1 DEF Coming, Newest
    <2>. QED
        BY <2>1, <2>2, <2>3 DEF FilesInv, FromFiles
<1>4. ASSUME Poll PROVE FilesInv'
    <2>1. /\ UNCHANGED <<files, reload>>
          /\ watcher'.at = "changed" /\ watcher'.seen = files.mtime /\ watcher.at = "idle"
        BY <1>4 DEF Poll, TypeOK
    <2>2. ReadInv' /\ reload["watcher"].at = "no"
        BY <1>0, <2>1 DEF FilesInv, ReadInv, Newest, Reloader
    <2>. QED
        BY <2>1, <2>2 DEF FilesInv, Coming
<1>5. ASSUME WatcherReload PROVE FilesInv'
    <2>1. /\ UNCHANGED <<files, watcher>> /\ watcher.at = "changed"
          /\ Reloading("watcher", userSource) /\ userSource \in Source
        BY <1>5 DEF WatcherReload, TypeOK
    <2>2. reload'["watcher"].at = "given" /\ reload'["loop"] = reload["loop"]
        BY <1>0, <2>1, ReloadFacts
    <2>3. ReadInv'
        BY <2>1, <2>2 DEF FilesInv, ReadInv, Newest, Reloader
    <2>. QED
        BY <2>1, <2>2, <2>3 DEF FilesInv, Coming
<1>6. ASSUME NEW c \in Client, NEW a \in Agent, NEW id \in Id, Create(c, a, id) PROVE FilesInv'
    <2>1. UNCHANGED sources
        BY <1>6 DEF Create, sources, store
    <2>2. DefaultKept
        BY <1>6 DEF Create, DefaultKept
    <2>. QED
        BY <2>1, <2>2, FilesSame
<1>7. ASSUME NEW c \in Client, NEW a \in Agent, NEW id \in Id, Delete(c, a, id) PROVE FilesInv'
    <2>1. UNCHANGED sources
        BY <1>7 DEF Delete, sources, store
    <2>2. DefaultKept
        BY <1>7 DEF Delete, DefaultKept
    <2>. QED
        BY <2>1, <2>2, FilesSame
<1>8. ASSUME NEW c \in Client, NEW p \in Named, NEW text \in PushText, PutPack(c, p, text) PROVE FilesInv'
    <2>1. UNCHANGED sources
        BY <1>8 DEF PutPack, sources, store
    <2>2. DefaultKept
        <3>1. p # Default
            BY <1>8 DEF AdminAssumption
        <3>2. packs' = With(packs, p, Inline(text)) /\ touched' = touched \ {p}
            BY <1>8 DEF PutPack
        <3>. QED
            BY <3>1, <3>2 DEF DefaultKept, With, Less
    <2>. QED
        BY <2>1, <2>2, FilesSame
<1>9. ASSUME NEW c \in Client, PutConfig(c) PROVE FilesInv'
    <2>1. UNCHANGED sources
        BY <1>9 DEF PutConfig
    <2>2. DefaultKept
        BY <1>9 DEF PutConfig, DefaultKept
    <2>. QED
        BY <2>1, <2>2, FilesSame
<1>10. ASSUME NEW c \in Client, NEW p \in DOMAIN packs \ {Default}, DropPack(c, p) PROVE FilesInv'
    <2>1. UNCHANGED sources
        BY <1>10 DEF DropPack, sources, store
    <2>2. DefaultKept
        <3>1. p # Default
            BY <1>10 DEF AdminAssumption
        <3>2. packs' = Less(packs, p) /\ touched' = touched \ {p}
            BY <1>10 DEF DropPack
        <3>. QED
            BY <3>1, <3>2 DEF DefaultKept, With, Less
    <2>. QED
        BY <2>1, <2>2, FilesSame
<1>11. ASSUME NEW source \in Source, Reload(source) PROVE FilesInv'
    <2>1. /\ UNCHANGED <<files, watcher, packs, touched, userSource, missed>>
          /\ Reloading("loop", source) /\ reload["loop"].at = "no"
        BY <1>11 DEF Reload, LoopFree
    <2>2. reload'["loop"].at = "given" /\ reload'["watcher"] = reload["watcher"]
        BY <1>0, <2>1, ReloadFacts
    <2>3. ReadInv'
        BY <2>1, <2>2 DEF FilesInv, ReadInv, Newest, Reloader
    <2>. QED
        BY <2>1, <2>2, <2>3 DEF FilesInv, FromFiles, Coming, Newest
<1>12. ASSUME NEW c \in Client, NEW a \in Agent, NEW p \in Named, BindAgent(c, a, p) PROVE FilesInv'
    <2>1. UNCHANGED sources
        BY <1>12 DEF BindAgent, sources, store
    <2>2. DefaultKept
        BY <1>12 DEF BindAgent, DefaultKept
    <2>. QED
        BY <2>1, <2>2, FilesSame
<1>13. ASSUME NEW c \in Client, NEW a \in Agent, NEW p \in Named, UnbindAgent(c, a, p) PROVE FilesInv'
    <2>1. UNCHANGED sources
        BY <1>13 DEF UnbindAgent, sources, store
    <2>2. DefaultKept
        BY <1>13 DEF UnbindAgent, DefaultKept
    <2>. QED
        BY <2>1, <2>2, FilesSame
<1>14. ASSUME NEW c \in Client, Ensure(c) PROVE FilesInv'
    <2>1. UNCHANGED sources
        BY <1>14 DEF Ensure, sources, store
    <2>2. DefaultKept
        <3>1. PICK p, pack : /\ packs' = With(packs, p, pack)
                             /\ pack = IF p \in DOMAIN packs THEN packs[p] ELSE Inline(<<>>)
            BY <1>14 DEF Ensure
        <3>2. touched' = touched
            BY <1>14 DEF Ensure
        <3>3. ~Inline(<<>>).label
            BY DEF Inline
        <3>. QED
            BY <3>1, <3>2, <3>3 DEF DefaultKept, With
    <2>. QED
        BY <2>1, <2>2, FilesSame
<1>15. ASSUME NEW c \in Client, BindOwn(c) PROVE FilesInv'
    <2>1. UNCHANGED sources
        BY <1>15 DEF BindOwn, sources, store
    <2>2. DefaultKept
        BY <1>15 DEF BindOwn, DefaultKept
    <2>. QED
        BY <2>1, <2>2, FilesSame
<1>16. ASSUME NEW c \in Client, Replace(c) PROVE FilesInv'
    <2>1. UNCHANGED sources
        BY <1>16 DEF Replace, sources, store
    <2>2. DefaultKept
        <3>1. packs' = With(packs, pc[c].pack, Inline(pc[c].text)) /\ touched' = touched \ {pc[c].pack}
            BY <1>16 DEF Replace
        <3>2. ~Inline(pc[c].text).label
            BY DEF Inline
        <3>. QED
            BY <3>1, <3>2 DEF DefaultKept, With
    <2>. QED
        BY <2>1, <2>2, FilesSame
<1>17. ASSUME NEW c \in Client, NEW done \in BOOLEAN, Store(c, done) PROVE FilesInv'
    <2>1. UNCHANGED sources
        BY <1>17 DEF Store, sources, store
    <2>2. DefaultKept
        BY <1>17 DEF Store, DefaultKept
    <2>. QED
        BY <2>1, <2>2, FilesSame
<1>18. ASSUME NEW c \in Client, BindConfig(c) PROVE FilesInv'
    <2>1. UNCHANGED sources
        BY <1>18 DEF BindConfig, sources, store
    <2>2. DefaultKept
        BY <1>18 DEF BindConfig, DefaultKept
    <2>. QED
        BY <2>1, <2>2, FilesSame
<1>19. ASSUME NEW c \in Client, Sync(c) PROVE FilesInv'
    <2>1. UNCHANGED sources
        BY <1>19 DEF Sync, sources, store
    <2>2. DefaultKept
        BY <1>19 DEF Sync, DefaultKept
    <2>. QED
        BY <2>1, <2>2, FilesSame
<1>20. ASSUME NEW p \in DOMAIN packs, NEW id \in Id, AddRule(p, id) PROVE FilesInv'
    <2>1. UNCHANGED sources
        BY <1>20 DEF AddRule, sources, store
    <2>2. DefaultKept
        <3>1. PICK rules : packs' = [packs EXCEPT ![p].rules = rules]
            BY <1>20 DEF AddRule
        <3>2. touched' = touched \cup {p}
            BY <1>20 DEF AddRule
        <3>. QED
            BY <3>1, <3>2 DEF DefaultKept
    <2>. QED
        BY <2>1, <2>2, FilesSame
<1>21. ASSUME NEW p \in DOMAIN packs, NEW id \in Id, RemoveRule(p, id) PROVE FilesInv'
    <2>1. UNCHANGED sources
        BY <1>21 DEF RemoveRule, sources, store
    <2>2. DefaultKept
        <3>1. PICK rules : packs' = [packs EXCEPT ![p].rules = rules]
            BY <1>21 DEF RemoveRule
        <3>2. touched' = touched \cup {p}
            BY <1>21 DEF RemoveRule
        <3>. QED
            BY <3>1, <3>2 DEF DefaultKept
    <2>. QED
        BY <2>1, <2>2, FilesSame
<1>22. ASSUME NEW a \in Agent, BuildView(a) PROVE FilesInv'
    <2>1. UNCHANGED sources
        BY <1>22 DEF BuildView
    <2>2. DefaultKept
        BY <1>22 DEF BuildView, DefaultKept
    <2>. QED
        BY <2>1, <2>2, FilesSame
<1>23. ASSUME Restart PROVE FilesInv'
    <2>1. /\ files' = files /\ watcher'.seen = 0 /\ Booted(stored, bound)
          /\ \A r \in Reloader : reload'[r].at = "no"
        BY <1>23 DEF Restart, Reloader, NoReload
    <2>2. ~missed' => packs'[Default].rules = Compile(files.text)
        BY <2>1, BootedDefault
    <2>. QED
        BY <1>0, <2>1, <2>2 DEF FilesInv, ReadInv, FromFiles, Reloader
<1>24. CASE UNCHANGED vars
    <2>1. UNCHANGED sources /\ DefaultKept
        BY <1>24 DEF vars, sources, DefaultKept
    <2>. QED
        BY <2>1, FilesSame
<1>25. Sources \subseteq Source
    BY SourcesTyped
<1>26. ASSUME NEW c \in Client, NEW p \in DOMAIN AskedText, NEW text \in AskedText[p],
              ConfigPack(c, p, text) PROVE FilesInv'
    <2>1. UNCHANGED sources
        BY <1>26 DEF ConfigPack
    <2>2. p # Default /\ packs' = With(packs, p, Labelled(text)) /\ touched' = touched \ {p}
        BY <1>26, ConfigPut DEF TypeOK
    <2>3. DefaultKept
        BY <2>2 DEF DefaultKept, With
    <2>. QED
        BY <2>1, <2>3, FilesSame
<1>27. ASSUME NEW c \in Client, NEW p, NEW text, ConfigRefused(c, p, text) PROVE FilesInv'
    <2>1. UNCHANGED sources
        BY <1>27 DEF ConfigRefused
    <2>2. DefaultKept
        BY <1>27 DEF ConfigRefused, DefaultKept
    <2>. QED
        BY <2>1, <2>2, FilesSame
<1>28. ASSUME NEW r \in Reloader, Read(r) PROVE FilesInv'
    <2>1. /\ UNCHANGED <<files, watcher>> /\ userSource' = reload[r].source
          /\ reload[r].at = "given" /\ reload[r].source.files \in BOOLEAN
        BY <1>28, ReloadFacts DEF Read, Progress, Source
    <2>2. /\ reload'[r].at = "read" /\ reload'[r].source = reload[r].source
          /\ reload'[r].text = TextOf(reload[r].source) /\ reload'[r].mtime = files.mtime
          /\ \A q \in Reloader : q # r => reload'[q] = reload[q]
        BY <1>28, ReloadFacts
    <2>3. ReadInv'
        BY <1>0, <2>1, <2>2 DEF FilesInv, ReadInv, Newest, TextOf
    <2>4. FromFiles' => Newest(r)'
        BY <2>1, <2>2 DEF FromFiles, Newest
    <2>5. r = "watcher" => watcher'.at = "changed"
        BY <2>1 DEF FilesInv, ReadInv
    <2>. QED
        BY <2>3, <2>4, <2>5 DEF FilesInv, Coming, Reloader
<1>29. ASSUME NEW r \in Reloader, Install(r) PROVE FilesInv'
    <2>1. /\ UNCHANGED <<files, watcher, userSource>>
          /\ reload[r].at = "read" /\ reload[r].text \in Text /\ reload[r].mtime \in Nat
          /\ reload[r].source.files \in BOOLEAN
          /\ packs' = With(packs, Default, IF reload[r].source.files THEN Labelled(reload[r].text)
                                           ELSE Inline(reload[r].text))
          /\ missed' = IF ~reload[r].source.files THEN missed
                       ELSE reload[r].mtime # files.mtime /\ (missed \/ r = "loop")
        BY <1>29, ReloadFacts DEF Install, Progress, Source
    <2>2. reload'[r].at = "installed" /\ \A q \in Reloader : q # r => reload'[q] = reload[q]
        BY <1>29, ReloadFacts
    <2>3. ReadInv'
        BY <1>0, <2>1, <2>2 DEF FilesInv, ReadInv, Newest
    <2>4. CASE ~reload[r].source.files
        <3>1. ~packs'[Default].label
            BY <2>1, <2>4 DEF With, Inline
        <3>. QED
            BY <2>3, <3>1 DEF FilesInv, FromFiles
    <2>5. CASE Newest(r)
        <3>1. reload[r].text = files.text
            BY <2>1, <2>5 DEF FilesInv, ReadInv
        <3>2. packs'[Default] = Labelled(files.text) /\ files.text \in Text
            BY <2>1, <2>5, <3>1 DEF With, Newest
        <3>3. packs'[Default].rules = Compile(files'.text)
            BY <2>1, <3>2, PackFacts
        <3>. QED
            BY <2>3, <3>3 DEF FilesInv
    <2>6. CASE reload[r].source.files /\ ~Newest(r)
        <3>1. reload[r].mtime # files.mtime /\ missed' = (missed \/ r = "loop")
            BY <2>1, <2>6 DEF Newest
        <3>2. r = "watcher" => watcher.seen # files.mtime /\ watcher.at = "changed"
            BY <1>0, <2>1, <3>1 DEF FilesInv, ReadInv
        <3>3. FromFiles' => Coming'
            BY <2>1, <3>1, <3>2 DEF FromFiles, Coming, Reloader
        <3>. QED
            BY <2>3, <3>3 DEF FilesInv
    <2>. QED
        BY <2>4, <2>5, <2>6
<1>34. ASSUME NEW r \in Reloader, Ended(r), UNCHANGED <<files, userSource, packs, touched, missed>>,
              ~Newest(r) \/ ~FromFiles, reload[r].at \notin {"no", "given"}
       PROVE  FilesInv'
    <2>1. /\ reload'[r].at = "no"
          /\ \A q \in Reloader : q # r => reload'[q] = reload[q]
        BY <1>34, ReloadFacts
    <2>2. /\ watcher'.seen = watcher.seen
          /\ watcher'.at = IF r = "watcher" THEN "idle" ELSE watcher.at
        BY <1>34 DEF Ended, TypeOK
    <2>3. ReadInv'
        BY <1>34, <2>1, <2>2 DEF FilesInv, ReadInv, Newest, Reloader
    <2>4. FromFiles' /\ Coming => Coming'
        BY <1>34, <2>1, <2>2 DEF FromFiles, Coming, Newest, Reloader
    <2>5. FromFiles' => FromFiles
        BY <1>34 DEF FromFiles
    <2>. QED
        BY <1>34, <2>3, <2>4, <2>5 DEF FilesInv
<1>30. ASSUME NEW r \in Reloader, Installed(r) PROVE FilesInv'
    <2>1. /\ Ended(r) /\ UNCHANGED <<files, userSource, packs, touched, missed>>
          /\ reload[r].at = "installed"
        BY <1>30 DEF Installed
    <2>. QED
        BY <1>34, <2>1 DEF Newest
<1>31. ASSUME NEW r \in Reloader, Refuse(r) PROVE FilesInv'
    <2>1. /\ Ended(r) /\ UNCHANGED <<files, userSource, packs, touched, missed>>
          /\ reload[r].at = "read" /\ ~Compiles(reload[r].text)
        BY <1>31 DEF Refuse
    <2>2. ~Newest(r) \/ ~FromFiles
        BY <2>1 DEF FilesInv, ReadInv, FromFiles
    <2>. QED
        BY <1>34, <2>1, <2>2
<1>32. ASSUME NEW c \in Client, NEW done, BindingRaises(c, done) PROVE FilesInv'
    <2>1. UNCHANGED sources
        BY <1>32 DEF BindingRaises
    <2>2. DefaultKept
        BY <1>32 DEF BindingRaises, DefaultKept
    <2>. QED
        BY <2>1, <2>2, FilesSame
<1>33. ASSUME KeepView PROVE FilesInv'
    <2>1. UNCHANGED sources
        BY <1>33 DEF KeepView
    <2>2. DefaultKept
        BY <1>33 DEF KeepView, DefaultKept
    <2>. QED
        BY <2>1, <2>2, FilesSame
<1>. QED
    BY <1>1, <1>2, <1>3, <1>4, <1>5, <1>6, <1>7, <1>8, <1>9, <1>10, <1>11, <1>12, <1>13, <1>14,
       <1>15, <1>16, <1>17, <1>18, <1>19, <1>20, <1>21, <1>22, <1>23, <1>24, <1>25, <1>26, <1>27,
       <1>28, <1>29, <1>30, <1>31, <1>32, <1>33 DEF Next, Request, Watching, Reloader

\* Once the watcher has dealt with the newest files, the default pack is what
\* they say, however reads, edits and installs of its reloads and those of requests
\* meet, but for what FilesFollowed excepts: what a request read too early, what a
\* start took from the database, and changes through the API or the Guard.
THEOREM FilesAreFollowed == Spec => []FilesFollowed
<1>1. Init => TypeOK /\ FilesInv
    BY AdminAssumption, TypeInit, FilesInit
<1>2. TypeOK /\ FilesInv /\ [Next]_vars => (TypeOK /\ FilesInv)'
    BY AdminAssumption, TypeStep, FilesStep
<1>3. TypeOK /\ FilesInv => FilesFollowed
    BY DEF FilesInv, FromFiles, Coming, Newest, FilesFollowed
<1>. QED
    BY <1>1, <1>2, <1>3, PTL DEF Spec

-----------------------------------------------------------------------------
(* The policy actor's views.                                               *)

\* What is left of a config, where other requests go on.
LEMMA BeganSame ==
    ASSUME ViewsInv
    PROVE  /\ pc' = pc => ConfigBegan'
           /\ \A c \in Client :
                 /\ \A d \in Client : d # c => pc'[d] = pc[d]
                 /\ pc'[c].at = "store" /\ pc'[c].op = "config" => pc'[c].left # DOMAIN AskedText
                 => ConfigBegan'
    BY DEF ViewsInv, ConfigBegan

\* Where the rules and views stay what they were, who owed still owes.
LEMMA ViewsSame ==
    ASSUME ViewsInv, UNCHANGED <<packs, bound, views, look, raced>>, unsynced => unsynced',
           \A d \in Client : pc'[d] = pc[d] \/ ~Owes(d),
           pc' = pc \/ ConfigBegan',
           \A r \in Reloader : reload[r].at = "installed" => reload'[r].at = "installed"
    PROVE  ViewsInv'
<1>1. \A a \in Agent : Effective(a)' = Effective(a)
    BY DEF Effective, PacksFor
<1>2. \A d \in Client : Owes(d) => Owes(d)'
    BY DEF Owes
<1>3. Owed => Owed'
    BY <1>2 DEF Owed
<1>4. Effective(look.agent)' = Effective(look.agent)
    BY DEF Effective, PacksFor
<1>5. ConfigBegan'
    BY BeganSame
<1>. QED
    BY <1>1, <1>3, <1>4, <1>5 DEF ViewsInv, ViewsKept, LookKept

\* Where somebody owes, nothing is left to show.
LEMMA ViewsOwed ==
    ASSUME ConfigBegan',
           \/ unsynced'
           \/ \E c \in Client : Owes(c)'
           \/ \E r \in Reloader : reload'[r].at = "installed"
    PROVE  ViewsInv'
    BY DEF ViewsInv, ViewsKept, LookKept, Owed

\* Nor is anything where the views were just forgotten.
LEMMA ViewsForgotten ==
    ASSUME TypeOK, ConfigBegan', Forget
    PROVE  ViewsInv'
    BY DEF TypeOK, Forget, ViewsInv, ViewsKept, LookKept, Unasked

\* The server starts without views ...
LEMMA ViewsInit ==
    ASSUME AdminAssumption, Init
    PROVE  ViewsInv
    BY IdleFacts DEF Init, ViewsInv, ViewsKept, LookKept, ConfigBegan, Unasked, NoLook

\* ... and each step leaves them explained.
LEMMA ViewsStep ==
    ASSUME AdminAssumption, TypeOK, ViewsInv, [Next]_vars
    PROVE  ViewsInv'
<1>1. ASSUME NEW text \in FileText, EditFiles(text) PROVE ViewsInv'
    <2>1. UNCHANGED <<packs, bound, views, look, raced, unsynced, pc, reload>>
        BY <1>1 DEF EditFiles, actor
    <2>. QED
        BY <2>1, ViewsSame
<1>2. ASSUME NEW told \in {FALSE, Async}, StartWatch(told) PROVE ViewsInv'
    <2>1. UNCHANGED <<packs, bound, views, look, raced, unsynced, pc, reload>>
        BY <1>2 DEF StartWatch, actor
    <2>. QED
        BY <2>1, ViewsSame
<1>3. ASSUME StopWatch PROVE ViewsInv'
    <2>1. UNCHANGED <<packs, bound, views, look, raced, unsynced, pc, reload>>
        BY <1>3 DEF StopWatch, actor
    <2>. QED
        BY <2>1, ViewsSame
<1>4. ASSUME Poll PROVE ViewsInv'
    <2>1. UNCHANGED <<packs, bound, views, look, raced, unsynced, pc, reload>>
        BY <1>4 DEF Poll, actor
    <2>. QED
        BY <2>1, ViewsSame
<1>5. ASSUME WatcherReload PROVE ViewsInv'
    <2>1. /\ UNCHANGED <<packs, bound, views, look, raced, unsynced, pc>>
          /\ reload["watcher"].at = "no" /\ Reloading("watcher", userSource)
        BY <1>5 DEF WatcherReload, actor
    <2>2. \A r \in Reloader : reload[r].at = "installed" => reload'[r].at = "installed"
        BY <2>1, ReloadFacts DEF TypeOK, Reloader
    <2>. QED
        BY <2>1, <2>2, ViewsSame
<1>6. ASSUME NEW c \in Client, NEW a \in Agent, NEW id \in Id, Create(c, a, id) PROVE ViewsInv'
    <2>1. UNCHANGED <<packs, bound, views, look, raced, unsynced, reload>>
        BY <1>6 DEF Create, actor, sources
    <2>2. pc[c].at = "idle" /\ pc'[c].at = "ensure" /\ \A d \in Client : d # c => pc'[d] = pc[d]
        BY <1>6 DEF Create, Begins, TypeOK
    <2>3. ConfigBegan'
        BY <2>2, BeganSame
    <2>. QED
        BY <2>1, <2>2, <2>3, ViewsSame DEF Owes
<1>7. ASSUME NEW c \in Client, NEW a \in Agent, NEW id \in Id, Delete(c, a, id) PROVE ViewsInv'
    <2>1. pc'[c].at = "replace" /\ \A d \in Client : d # c => pc'[d] = pc[d]
        BY <1>7 DEF Delete, TypeOK
    <2>2. ConfigBegan'
        BY <2>1, BeganSame
    <2>. QED
        BY <2>1, <2>2, ViewsOwed DEF Owes
<1>8. ASSUME NEW c \in Client, NEW p \in Named, NEW text \in PushText, PutPack(c, p, text) PROVE ViewsInv'
    <2>1. p \in PackIds /\ text \in Text /\ Putting(c, "put", p, text)
        BY <1>8, Texts DEF PutPack, PackIds, TypeOK
    <2>2. /\ pc'[c].at \in {"store", "sync"} /\ pc'[c].op = "put"
          /\ \A d \in Client : d # c => pc'[d] = pc[d]
        BY <2>1, PuttingFacts DEF TypeOK
    <2>3. ConfigBegan'
        BY <2>2, BeganSame
    <2>. QED
        BY <2>2, <2>3, ViewsOwed DEF Owes
<1>9. ASSUME NEW c \in Client, PutConfig(c) PROVE ViewsInv'
    <2>1. UNCHANGED <<packs, bound, views, look, raced, unsynced, reload>>
        BY <1>9 DEF PutConfig, actor, sources
    <2>2. pc[c].at = "idle" /\ pc'[c].at = "config" /\ \A d \in Client : d # c => pc'[d] = pc[d]
        BY <1>9, ConfigBegun DEF PutConfig, Begins, TypeOK
    <2>3. ConfigBegan'
        BY <2>2, BeganSame
    <2>. QED
        BY <2>1, <2>2, <2>3, ViewsSame DEF Owes
<1>10. ASSUME NEW c \in Client, NEW p \in DOMAIN packs \ {Default}, DropPack(c, p) PROVE ViewsInv'
    <2>1. p \in PackIds /\ <<>> \in Text /\ Putting(c, "drop", p, <<>>)
        BY <1>10, Texts DEF DropPack, PackIds, TypeOK
    <2>2. /\ pc'[c].at \in {"store", "sync"} /\ pc'[c].op = "drop"
          /\ \A d \in Client : d # c => pc'[d] = pc[d]
        BY <2>1, PuttingFacts DEF TypeOK
    <2>3. ConfigBegan'
        BY <2>2, BeganSame
    <2>. QED
        BY <2>2, <2>3, ViewsOwed DEF Owes
<1>11. ASSUME NEW source \in Source, Reload(source) PROVE ViewsInv'
    <2>1. /\ UNCHANGED <<packs, bound, views, look, raced, unsynced, pc>>
          /\ reload["loop"].at = "no" /\ Reloading("loop", source)
        BY <1>11 DEF Reload, LoopFree, actor
    <2>2. \A r \in Reloader : reload[r].at = "installed" => reload'[r].at = "installed"
        BY <2>1, ReloadFacts DEF Reloader
    <2>. QED
        BY <2>1, <2>2, ViewsSame
<1>12. ASSUME NEW c \in Client, NEW a \in Agent, NEW p \in Named, BindAgent(c, a, p) PROVE ViewsInv'
    <2>1. pc'[c].at = "sync" /\ \A d \in Client : d # c => pc'[d] = pc[d]
        BY <1>12, TellsFacts DEF BindAgent, TypeOK
    <2>2. ConfigBegan'
        BY <2>1, BeganSame
    <2>. QED
        BY <2>1, <2>2, ViewsOwed DEF Owes
<1>13. ASSUME NEW c \in Client, NEW a \in Agent, NEW p \in Named, UnbindAgent(c, a, p) PROVE ViewsInv'
    <2>1. pc'[c].at = "sync" /\ \A d \in Client : d # c => pc'[d] = pc[d]
        BY <1>13, TellsFacts DEF UnbindAgent, TypeOK
    <2>2. ConfigBegan'
        BY <2>1, BeganSame
    <2>. QED
        BY <2>1, <2>2, ViewsOwed DEF Owes
<1>14. ASSUME NEW c \in Client, Ensure(c) PROVE ViewsInv'
    <2>1. /\ pc'[c].at = "bind" /\ pc'[c].pack = pc[c].pack
          /\ \A d \in Client : d # c => pc'[d] = pc[d]
        BY <1>14 DEF Ensure, TypeOK, Thread
    <2>2. pc[c].pack \in DOMAIN packs'
        BY <1>14 DEF Ensure, With
    <2>3. ConfigBegan'
        BY <2>1, BeganSame
    <2>. QED
        BY <2>1, <2>2, <2>3, ViewsOwed DEF Owes
<1>15. ASSUME NEW c \in Client, BindOwn(c) PROVE ViewsInv'
    <2>1. CASE pc[c].pack \in DOMAIN packs
        <3>1. pc'[c].at = "replace" /\ \A d \in Client : d # c => pc'[d] = pc[d]
            BY <1>15, <2>1, GoesFacts DEF BindOwn, TypeOK
        <3>2. ConfigBegan'
            BY <3>1, BeganSame
        <3>. QED
            BY <3>1, <3>2, ViewsOwed DEF Owes
    <2>2. CASE pc[c].pack \notin DOMAIN packs
        <3>1. UNCHANGED <<packs, bound, views, look, raced, unsynced, reload>>
            BY <1>15, <2>2 DEF BindOwn, actor, sources
        <3>2. pc'[c].at = "idle" /\ \A d \in Client : d # c => pc'[d] = pc[d]
            BY <1>15, <2>2, EndsFacts, IdleFacts DEF BindOwn, TypeOK
        <3>3. ConfigBegan'
            BY <3>2, BeganSame
        <3>4. ~Owes(c)
            BY <1>15, <2>2 DEF BindOwn, Owes
        <3>. QED
            BY <3>1, <3>2, <3>3, <3>4, ViewsSame
    <2>. QED
        BY <2>1, <2>2
<1>16. ASSUME NEW c \in Client, Replace(c) PROVE ViewsInv'
    <2>1. pc'[c].at = "sync" /\ \A d \in Client : d # c => pc'[d] = pc[d]
        BY <1>16, GoesFacts DEF Replace, TypeOK
    <2>2. ConfigBegan'
        BY <2>1, BeganSame
    <2>. QED
        BY <2>1, <2>2, ViewsOwed DEF Owes
<1>17. ASSUME NEW c \in Client, NEW done \in BOOLEAN, Store(c, done) PROVE ViewsInv'
    <2>1. /\ pc[c].at = "store"
          /\ pc'[c].at = IF pc[c].op = "config" THEN "config" ELSE "sync"
          /\ pc'[c].left = pc[c].left /\ \A d \in Client : d # c => pc'[d] = pc[d]
        BY <1>17, GoesFacts DEF Store, TypeOK
    <2>2. ConfigBegan'
        BY <2>1, BeganSame
    <2>3. Owes(c)'
        BY <2>1 DEF Owes, ViewsInv, ConfigBegan
    <2>. QED
        BY <2>2, <2>3, ViewsOwed
<1>18. ASSUME NEW c \in Client, BindConfig(c) PROVE ViewsInv'
    <2>1. pc'[c].at = "sync" /\ \A d \in Client : d # c => pc'[d] = pc[d]
        BY <1>18, GoesFacts DEF BindConfig, TypeOK
    <2>2. ConfigBegan'
        BY <2>1, BeganSame
    <2>. QED
        BY <2>1, <2>2, ViewsOwed DEF Owes
<1>19. ASSUME NEW c \in Client, Sync(c) PROVE ViewsInv'
    <2>1. Forget /\ pc'[c].at = "idle" /\ \A d \in Client : d # c => pc'[d] = pc[d]
        BY <1>19, EndsFacts, IdleFacts DEF Sync, TypeOK
    <2>2. ConfigBegan'
        BY <2>1, BeganSame
    <2>. QED
        BY <2>1, <2>2, ViewsForgotten
<1>20. ASSUME NEW p \in DOMAIN packs, NEW id \in Id, AddRule(p, id) PROVE ViewsInv'
    <2>1. unsynced' /\ pc' = pc
        BY <1>20 DEF AddRule
    <2>. QED
        BY <2>1, BeganSame, ViewsOwed
<1>21. ASSUME NEW p \in DOMAIN packs, NEW id \in Id, RemoveRule(p, id) PROVE ViewsInv'
    <2>1. unsynced' /\ pc' = pc
        BY <1>21 DEF RemoveRule
    <2>. QED
        BY <2>1, BeganSame, ViewsOwed
<1>22. ASSUME NEW a \in Agent, BuildView(a) PROVE ViewsInv'
    <2>1. /\ UNCHANGED <<packs, bound, views, raced, unsynced, pc, reload>>
          /\ look'.ids = Effective(a) /\ look'.agent = a
        BY <1>22 DEF BuildView, sources
    <2>2. \A b \in Agent : Effective(b)' = Effective(b)
        BY <2>1 DEF Effective, PacksFor
    <2>3. Effective(look.agent)' = look'.ids
        BY <2>1 DEF Effective, PacksFor
    <2>4. Owed => Owed'
        BY <2>1 DEF Owed, Owes
    <2>5. ConfigBegan'
        BY <2>1, BeganSame
    <2>. QED
        BY <2>1, <2>2, <2>3, <2>4, <2>5 DEF ViewsInv, ViewsKept, LookKept
<1>23. ASSUME Restart PROVE ViewsInv'
    <2>1. /\ views' = [a \in Agent |-> Unasked] /\ ~look'.on
          /\ \A c \in Client : pc'[c].at = "idle"
        BY <1>23, IdleFacts DEF Restart, NoLook
    <2>. QED
        BY <2>1 DEF ViewsInv, ViewsKept, LookKept, ConfigBegan, Unasked
<1>24. CASE UNCHANGED vars
    <2>1. UNCHANGED <<packs, bound, views, look, raced, unsynced, pc, reload>>
        BY <1>24 DEF vars
    <2>. QED
        BY <2>1, ViewsSame
<1>25. Sources \subseteq Source
    BY SourcesTyped
<1>26. ASSUME NEW c \in Client, NEW p \in DOMAIN AskedText, NEW text \in AskedText[p],
              ConfigPack(c, p, text) PROVE ViewsInv'
    <2>1. /\ pc'[c].at \in {"store", "config"} /\ pc'[c].left # DOMAIN AskedText
          /\ \A d \in Client : d # c => pc'[d] = pc[d]
        BY <1>26, ConfigPut DEF TypeOK
    <2>2. ConfigBegan'
        BY <2>1, BeganSame
    <2>. QED
        BY <2>1, <2>2, ViewsOwed DEF Owes
<1>27. ASSUME NEW c \in Client, NEW p, NEW text, ConfigRefused(c, p, text) PROVE ViewsInv'
    <2>1. pc'[c].at = "idle" /\ \A d \in Client : d # c => pc'[d] = pc[d]
        BY <1>27, EndsFacts, IdleFacts DEF ConfigRefused, TypeOK
    <2>2. ConfigBegan'
        BY <2>1, BeganSame
    <2>3. CASE unsynced'
        BY <2>2, <2>3, ViewsOwed
    <2>4. CASE ~unsynced'
        <3>1. /\ UNCHANGED <<packs, bound, views, look, raced, reload>> /\ ~unsynced
              /\ pc[c].at = "config" /\ pc[c].left = DOMAIN AskedText
            BY <1>27, <2>4 DEF ConfigRefused, actor, sources
        <3>2. ~Owes(c)
            BY <3>1 DEF Owes
        <3>. QED
            BY <2>1, <2>2, <3>1, <3>2, ViewsSame
    <2>. QED
        BY <2>3, <2>4
<1>28. ASSUME NEW r \in Reloader, Read(r) PROVE ViewsInv'
    <2>1. UNCHANGED <<packs, bound, views, look, raced, unsynced, pc>> /\ reload[r].at = "given"
        BY <1>28 DEF Read, actor
    <2>2. \A q \in Reloader : reload[q].at = "installed" => reload'[q].at = "installed"
        BY <1>28, <2>1, ReloadFacts
    <2>. QED
        BY <2>1, <2>2, ViewsSame
<1>29. ASSUME NEW r \in Reloader, Install(r) PROVE ViewsInv'
    <2>1. reload'[r].at = "installed" /\ pc' = pc
        BY <1>29, ReloadFacts DEF Install
    <2>. QED
        BY <2>1, BeganSame, ViewsOwed
<1>30. ASSUME NEW r \in Reloader, Installed(r) PROVE ViewsInv'
    <2>1. pc' = pc /\ (Forget \/ unsynced')
        BY <1>30 DEF Installed
    <2>. QED
        BY <2>1, BeganSame, ViewsOwed, ViewsForgotten
<1>31. ASSUME NEW r \in Reloader, Refuse(r) PROVE ViewsInv'
    <2>1. /\ UNCHANGED <<packs, bound, views, look, raced, unsynced, pc>>
          /\ reload[r].at = "read" /\ Ended(r)
        BY <1>31 DEF Refuse, actor
    <2>2. \A q \in Reloader : reload[q].at = "installed" => reload'[q].at = "installed"
        BY <2>1, ReloadFacts
    <2>. QED
        BY <2>1, <2>2, ViewsSame
<1>32. ASSUME NEW c \in Client, NEW done, BindingRaises(c, done) PROVE ViewsInv'
    <2>1. unsynced' /\ pc'[c].at = "idle" /\ \A d \in Client : d # c => pc'[d] = pc[d]
        BY <1>32, EndsFacts, IdleFacts DEF BindingRaises, TypeOK
    <2>2. ConfigBegan'
        BY <2>1, BeganSame
    <2>. QED
        BY <2>1, <2>2, ViewsOwed
<1>33. ASSUME KeepView PROVE ViewsInv'
    <2>1. /\ UNCHANGED <<packs, bound, unsynced, pc, reload>> /\ look.on /\ ~look'.on
          /\ views' = [views EXCEPT ![look.agent] = [known |-> TRUE, ids |-> look.ids]]
          /\ raced' = IF look.late THEN raced \cup {look.agent} ELSE raced
        BY <1>33 DEF KeepView, sources, NoLook
    <2>2. \A b \in Agent : Effective(b)' = Effective(b)
        BY <2>1 DEF Effective, PacksFor
    <2>3. Owed => Owed'
        BY <2>1 DEF Owed, Owes
    <2>4. ConfigBegan'
        BY <2>1, BeganSame
    <2>5. ASSUME NEW b \in Agent, views'[b].known, views'[b].ids # Effective(b)' PROVE b \in raced' \/ Owed'
        <3>1. CASE b = look.agent
            <4>1. look.ids # Effective(look.agent)
                BY <2>1, <2>2, <2>5, <3>1 DEF TypeOK
            <4>. QED
                BY <2>1, <2>3, <3>1, <4>1 DEF ViewsInv, LookKept
        <3>2. CASE b # look.agent
            <4>1. views'[b] = views[b]
                BY <2>1, <3>2 DEF TypeOK
            <4>. QED
                BY <2>1, <2>2, <2>3, <2>5, <4>1 DEF ViewsInv, ViewsKept
        <3>. QED
            BY <3>1, <3>2
    <2>. QED
        BY <2>1, <2>4, <2>5 DEF ViewsInv, ViewsKept, LookKept
<1>. QED
    BY <1>1, <1>2, <1>3, <1>4, <1>5, <1>6, <1>7, <1>8, <1>9, <1>10, <1>11, <1>12, <1>13, <1>14,
       <1>15, <1>16, <1>17, <1>18, <1>19, <1>20, <1>21, <1>22, <1>23, <1>24, <1>25, <1>26, <1>27,
       <1>28, <1>29, <1>30, <1>31, <1>32, <1>33 DEF Next, Request, Watching, Reloader

\* The policy actor judges by rules that an agent no longer has only while a
\* request or a reload has still to tell it, after a change that nobody tells it
\* of, or by a view it was building while views were forgotten.
THEOREM ViewsAreExplained == Spec => []ActorViewsExplained
<1>1. Init => TypeOK /\ ViewsInv
    BY AdminAssumption, TypeInit, ViewsInit
<1>2. TypeOK /\ ViewsInv /\ [Next]_vars => (TypeOK /\ ViewsInv)'
    BY AdminAssumption, TypeStep, ViewsStep
<1>3. TypeOK /\ ViewsInv => ActorViewsExplained
    BY DEF ViewsInv, ViewsKept, ActorViewsExplained, Owed, Owes, Reloader
<1>. QED
    BY <1>1, <1>2, <1>3, PTL DEF Spec

-----------------------------------------------------------------------------
(* The store.                                                              *)

\* Who is at what, and what there is to store, stays right where the clients that
\* go on are not, or rightly, overlapped, and may store what they go on to store.
LEMMA AtWorkSame ==
    ASSUME WorkInv,
           overlapped' \subseteq overlapped \cup {d \in Client : pc[d].at \in {"bind", "replace", "store"}},
           overlapped \subseteq Client,
           \A d \in Client :
              \/ pc'[d] = pc[d]
              \/ /\ d \in overlapped' => pc'[d].at \in {"bind", "replace", "store"}
                 /\ pc'[d].at = "store" =>
                      \/ pc'[d].op \in {"put", "config"} /\ Compiles(pc'[d].text)
                      \/ pc'[d].op = "drop"
                 /\ pc'[d].at = "config" => pc'[d].op = "config"
    PROVE  OverlappedAtWork' /\ StorableText'
<1>1. OverlappedAtWork'
    BY DEF WorkInv, OverlappedAtWork
<1>2. StorableText'
    BY DEF WorkInv, StorableText, Compiles
<1>. QED
    BY <1>1, <1>2

\* The same, where nothing is stored.
LEMMA WorkSame ==
    ASSUME TypeOK, WorkInv, stored' = stored,
           overlapped' \subseteq overlapped \cup {d \in Client : pc[d].at \in {"bind", "replace", "store"}},
           \A d \in Client :
              \/ pc'[d] = pc[d]
              \/ /\ d \in overlapped' => pc'[d].at \in {"bind", "replace", "store"}
                 /\ pc'[d].at = "store" =>
                      \/ pc'[d].op \in {"put", "config"} /\ Compiles(pc'[d].text)
                      \/ pc'[d].op = "drop"
                 /\ pc'[d].at = "config" => pc'[d].op = "config"
    PROVE  WorkInv'
<1>1. OverlappedAtWork' /\ StorableText'
    BY AtWorkSame DEF TypeOK
<1>2. StoredCompiles'
    BY DEF WorkInv, StoredCompiles, Compiles
<1>. QED
    BY <1>1, <1>2 DEF WorkInv

\* A start leaves in the store what compiles, and loads it.
LEMMA BootedStored ==
    ASSUME AdminAssumption, TypeOK, StoredCompiles, Booted(stored, bound)
    PROVE  /\ StoredCompiles'
           /\ Persistent =>
                \A p \in Named \ DOMAIN ConfigText :
                    /\ p \in DOMAIN packs' <=> p \in DOMAIN stored'
                    /\ p \in DOMAIN packs' => packs'[p].rules = Compile(stored'[p].text)
<1>1. PICK restored :
        /\ restored = IF Persistent THEN Restored(stored) ELSE <<>>
        /\ DOMAIN packs' = DOMAIN restored \cup DOMAIN AtStart
        /\ \A p \in DOMAIN restored : packs'[p] = restored[p]
        /\ Compiles(files.text) /\ files.text \in Text
    BY BootFacts
<1>2. /\ DOMAIN AtStart = DOMAIN ConfigText \cup {Default}
      /\ DOMAIN StoredAtStart \subseteq DOMAIN AtStart
      /\ \A p \in DOMAIN StoredAtStart \ DOMAIN ConfigText : Compiles(StoredAtStart[p].text)
    BY <1>1, StartFacts
<1>3. \A p \in DOMAIN stored \ DOMAIN ConfigText : Compiles(stored[p].text)
    BY DEF StoredCompiles
<1>4. stored' = IF Persistent THEN Over(StoredAtStart, stored) ELSE stored
    BY DEF Booted
<1>5. /\ DOMAIN Over(StoredAtStart, stored) = DOMAIN StoredAtStart \cup DOMAIN stored
      /\ \A p \in DOMAIN StoredAtStart : Over(StoredAtStart, stored)[p] = StoredAtStart[p]
      /\ \A p \in DOMAIN stored \ DOMAIN StoredAtStart : Over(StoredAtStart, stored)[p] = stored[p]
    BY OverFacts, ZenonT(30)
<1>6. StoredCompiles'
    <2>1. CASE Persistent
        BY <1>2, <1>3, <1>4, <1>5, <2>1 DEF StoredCompiles, Compiles
    <2>2. CASE ~Persistent
        BY <1>3, <1>4, <2>2 DEF StoredCompiles, Compiles
    <2>. QED
        BY <2>1, <2>2
<1>7. ASSUME Persistent, NEW p \in Named \ DOMAIN ConfigText
      PROVE  /\ p \in DOMAIN packs' <=> p \in DOMAIN stored'
             /\ p \in DOMAIN packs' => packs'[p].rules = Compile(stored'[p].text)
    <2>1. p \notin DOMAIN AtStart /\ p \notin DOMAIN StoredAtStart /\ restored = Restored(stored)
        BY <1>1, <1>2, <1>7 DEF AdminAssumption
    <2>2. /\ p \in DOMAIN restored <=> p \in DOMAIN stored
          /\ p \in DOMAIN restored =>
                restored[p] \in {Inline(stored[p].text), Labelled(stored[p].text)}
        BY <1>3, <2>1, RestoredFacts
    <2>3. /\ p \in DOMAIN packs' <=> p \in DOMAIN restored
          /\ p \in DOMAIN restored => packs'[p] = restored[p]
        BY <1>1, <2>1
    <2>4. /\ p \in DOMAIN stored' <=> p \in DOMAIN stored
          /\ p \in DOMAIN stored => stored'[p] = stored[p]
        BY <1>4, <1>5, <1>7, <2>1
    <2>. QED
        BY <2>2, <2>3, <2>4 DEF Inline, Labelled
<1>. QED
    BY <1>6, <1>7

\* Each step leaves it so.
LEMMA WorkStep ==
    ASSUME AdminAssumption, TypeOK, WorkInv, [Next]_vars
    PROVE  WorkInv'
<1>1. ASSUME NEW text \in FileText, EditFiles(text) PROVE WorkInv'
    <2>1. UNCHANGED <<pc, overlapped, stored>>
        BY <1>1 DEF EditFiles, store
    <2>. QED
        BY <2>1, WorkSame
<1>2. ASSUME NEW told \in {FALSE, Async}, StartWatch(told) PROVE WorkInv'
    <2>1. UNCHANGED <<pc, overlapped, stored>>
        BY <1>2 DEF StartWatch, store
    <2>. QED
        BY <2>1, WorkSame
<1>3. ASSUME StopWatch PROVE WorkInv'
    <2>1. UNCHANGED <<pc, overlapped, stored>>
        BY <1>3 DEF StopWatch, store
    <2>. QED
        BY <2>1, WorkSame
<1>4. ASSUME Poll PROVE WorkInv'
    <2>1. UNCHANGED <<pc, overlapped, stored>>
        BY <1>4 DEF Poll, store
    <2>. QED
        BY <2>1, WorkSame
<1>5. ASSUME WatcherReload PROVE WorkInv'
    <2>1. UNCHANGED <<pc, overlapped, stored>>
        BY <1>5 DEF WatcherReload, store
    <2>. QED
        BY <2>1, WorkSame
<1>6. ASSUME NEW c \in Client, NEW a \in Agent, NEW id \in Id, Create(c, a, id) PROVE WorkInv'
    <2>1. pc[c].at = "idle" /\ UNCHANGED <<overlapped, stored>>
        BY <1>6 DEF Create, Begins, store
    <2>2. pc'[c].at = "ensure" /\ \A d \in Client : d # c => pc'[d] = pc[d]
        BY <1>6 DEF Create, TypeOK
    <2>3. c \notin overlapped
        BY <2>1 DEF WorkInv, OverlappedAtWork
    <2>. QED
        BY <2>1, <2>2, <2>3, WorkSame
<1>7. ASSUME NEW c \in Client, NEW a \in Agent, NEW id \in Id, Delete(c, a, id) PROVE WorkInv'
    <2>1. pc[c].at = "idle" /\ UNCHANGED <<overlapped, stored>>
        BY <1>7 DEF Delete, Begins, store
    <2>2. pc'[c].at = "replace" /\ \A d \in Client : d # c => pc'[d] = pc[d]
        BY <1>7 DEF Delete, TypeOK
    <2>3. c \notin overlapped
        BY <2>1 DEF WorkInv, OverlappedAtWork
    <2>. QED
        BY <2>1, <2>2, <2>3, WorkSame
<1>8. ASSUME NEW c \in Client, NEW p \in Named, NEW text \in PushText, PutPack(c, p, text) PROVE WorkInv'
    <2>1. p \in PackIds /\ text \in Text /\ Putting(c, "put", p, text)
        BY <1>8, Texts DEF PutPack, PackIds, TypeOK
    <2>2. /\ pc'[c].at \in {"store", "sync"}
          /\ pc'[c].op = "put" /\ pc'[c].pack = p /\ pc'[c].text = text
          /\ \A d \in Client : d # c => pc'[d] = pc[d]
        BY <2>1, PuttingFacts DEF TypeOK
    <2>3. pc[c].at = "idle" /\ overlapped' = overlapped \cup Overtaken(p) /\ stored' = stored
        BY <1>8 DEF PutPack, Begins, store
    <2>4. c \notin overlapped'
        BY <2>3 DEF WorkInv, OverlappedAtWork, Overtaken
    <2>5. Compiles(pc'[c].text)
        BY <1>8, <2>2 DEF PutPack
    <2>. QED
        BY <2>2, <2>3, <2>4, <2>5, WorkSame DEF Overtaken
<1>9. ASSUME NEW c \in Client, PutConfig(c) PROVE WorkInv'
    <2>1. pc[c].at = "idle" /\ UNCHANGED <<overlapped, stored>>
        BY <1>9 DEF PutConfig, Begins, store
    <2>2. pc'[c].at = "config" /\ pc'[c].op = "config" /\ \A d \in Client : d # c => pc'[d] = pc[d]
        BY <1>9, ConfigBegun DEF PutConfig, TypeOK
    <2>3. c \notin overlapped
        BY <2>1 DEF WorkInv, OverlappedAtWork
    <2>. QED
        BY <2>1, <2>2, <2>3, WorkSame
<1>10. ASSUME NEW c \in Client, NEW p \in DOMAIN packs \ {Default}, DropPack(c, p) PROVE WorkInv'
    <2>1. p \in PackIds /\ <<>> \in Text /\ Putting(c, "drop", p, <<>>)
        BY <1>10, Texts DEF DropPack, PackIds, TypeOK
    <2>2. /\ pc'[c].at \in {"store", "sync"}
          /\ pc'[c].op = "drop" /\ pc'[c].pack = p /\ pc'[c].text = <<>>
          /\ \A d \in Client : d # c => pc'[d] = pc[d]
        BY <2>1, PuttingFacts DEF TypeOK
    <2>3. pc[c].at = "idle" /\ overlapped' = overlapped \cup Overtaken(p) /\ stored' = stored
        BY <1>10 DEF DropPack, Begins, store
    <2>4. c \notin overlapped'
        BY <2>3 DEF WorkInv, OverlappedAtWork, Overtaken
    <2>5. TRUE
        BY <1>10, <2>2 DEF DropPack
    <2>. QED
        BY <2>2, <2>3, <2>4, <2>5, WorkSame DEF Overtaken
<1>11. ASSUME NEW source \in Source, Reload(source) PROVE WorkInv'
    <2>1. UNCHANGED <<pc, overlapped, stored>>
        BY <1>11 DEF Reload, store
    <2>. QED
        BY <2>1, WorkSame
<1>12. ASSUME NEW c \in Client, NEW a \in Agent, NEW p \in Named, BindAgent(c, a, p) PROVE WorkInv'
    <2>1. pc[c].at = "idle" /\ UNCHANGED <<overlapped, stored>>
        BY <1>12 DEF BindAgent, Begins, store
    <2>2. pc'[c].at = "sync" /\ \A d \in Client : d # c => pc'[d] = pc[d]
        BY <1>12, TellsFacts DEF BindAgent, TypeOK
    <2>3. c \notin overlapped
        BY <2>1 DEF WorkInv, OverlappedAtWork
    <2>. QED
        BY <2>1, <2>2, <2>3, WorkSame
<1>13. ASSUME NEW c \in Client, NEW a \in Agent, NEW p \in Named, UnbindAgent(c, a, p) PROVE WorkInv'
    <2>1. pc[c].at = "idle" /\ UNCHANGED <<overlapped, stored>>
        BY <1>13 DEF UnbindAgent, Begins, store
    <2>2. pc'[c].at = "sync" /\ \A d \in Client : d # c => pc'[d] = pc[d]
        BY <1>13, TellsFacts DEF UnbindAgent, TypeOK
    <2>3. c \notin overlapped
        BY <2>1 DEF WorkInv, OverlappedAtWork
    <2>. QED
        BY <2>1, <2>2, <2>3, WorkSame
<1>14. ASSUME NEW c \in Client, Ensure(c) PROVE WorkInv'
    <2>1. pc'[c].at = "bind" /\ \A d \in Client : d # c => pc'[d] = pc[d]
        BY <1>14 DEF Ensure, TypeOK, Thread
    <2>2. UNCHANGED <<overlapped, stored>>
        BY <1>14 DEF Ensure, store
    <2>. QED
        BY <2>1, <2>2, WorkSame
<1>15. ASSUME NEW c \in Client, BindOwn(c) PROVE WorkInv'
    <2>1. CASE pc[c].pack \in DOMAIN packs
        <3>1. pc'[c].at = "replace" /\ \A d \in Client : d # c => pc'[d] = pc[d]
            BY <1>15, <2>1, GoesFacts DEF BindOwn, TypeOK
        <3>2. UNCHANGED <<overlapped, stored>>
            BY <1>15, <2>1 DEF BindOwn, store
        <3>. QED
            BY <3>1, <3>2, WorkSame
    <2>2. CASE pc[c].pack \notin DOMAIN packs
        <3>1. pc'[c].at = "idle" /\ \A d \in Client : d # c => pc'[d] = pc[d]
            BY <1>15, <2>2, EndsFacts, IdleFacts DEF BindOwn, TypeOK
        <3>2. overlapped' = overlapped \ {c} /\ stored' = stored
            BY <1>15, <2>2 DEF BindOwn, store
        <3>. QED
            BY <3>1, <3>2, WorkSame
    <2>. QED
        BY <2>1, <2>2
<1>16. ASSUME NEW c \in Client, Replace(c) PROVE WorkInv'
    <2>1. pc'[c].at = "sync" /\ \A d \in Client : d # c => pc'[d] = pc[d]
        BY <1>16, GoesFacts DEF Replace, TypeOK
    <2>2. overlapped' = (overlapped \cup Overtaken(pc[c].pack)) \ {c} /\ stored' = stored
        BY <1>16 DEF Replace
    <2>. QED
        BY <2>1, <2>2, WorkSame DEF Overtaken
<1>17. ASSUME NEW c \in Client, NEW done \in BOOLEAN, Store(c, done) PROVE WorkInv'
    <2>1. /\ pc'[c].at = IF pc[c].op = "config" THEN "config" ELSE "sync"
          /\ pc'[c].op = pc[c].op /\ \A d \in Client : d # c => pc'[d] = pc[d]
        BY <1>17, GoesFacts DEF Store, TypeOK
    <2>2. overlapped' = overlapped \ {c}
        BY <1>17 DEF Store
    <2>3. OverlappedAtWork' /\ StorableText'
        BY <2>1, <2>2, AtWorkSame DEF TypeOK
    <2>4. PICK p : p = pc[c].pack
        OBVIOUS
    <2>5. stored' = IF ~done THEN stored ELSE IF pc[c].op = "drop" THEN Less(stored, p)
                    ELSE With(stored, p, Row(pc[c].text, pc[c].op = "put"))
        BY <1>17, <2>4 DEF Store
    <2>6. pc[c].op = "drop" \/ Compiles(pc[c].text)
        BY <1>17, <2>4 DEF Store, WorkInv, StorableText
    <2>7. StoredCompiles'
        <3>1. \A q \in DOMAIN stored \ DOMAIN ConfigText : Compiles(stored[q].text)
            BY DEF WorkInv, StoredCompiles
        <3>2. CASE stored' = stored
            BY <3>1, <3>2 DEF StoredCompiles, Compiles
        <3>3. CASE stored' = Less(stored, p)
            BY <3>1, <3>3 DEF StoredCompiles, Compiles, Less
        <3>4. CASE stored' = With(stored, p, Row(pc[c].text, pc[c].op = "put")) /\ pc[c].op # "drop"
            BY <2>6, <3>1, <3>4 DEF StoredCompiles, Compiles, With, Row
        <3>. QED
            BY <2>5, <3>2, <3>3, <3>4
    <2>. QED
        BY <2>3, <2>7 DEF WorkInv
<1>18. ASSUME NEW c \in Client, BindConfig(c) PROVE WorkInv'
    <2>1. pc'[c].at = "sync" /\ \A d \in Client : d # c => pc'[d] = pc[d]
        BY <1>18, GoesFacts DEF BindConfig, TypeOK
    <2>2. UNCHANGED <<overlapped, stored>> /\ c \notin overlapped
        BY <1>18 DEF BindConfig, store, WorkInv, OverlappedAtWork
    <2>. QED
        BY <2>1, <2>2, WorkSame
<1>19. ASSUME NEW c \in Client, Sync(c) PROVE WorkInv'
    <2>1. pc'[c].at = "idle" /\ \A d \in Client : d # c => pc'[d] = pc[d]
        BY <1>19, EndsFacts, IdleFacts DEF Sync, TypeOK
    <2>2. UNCHANGED <<overlapped, stored>> /\ c \notin overlapped
        BY <1>19 DEF Sync, store, WorkInv, OverlappedAtWork
    <2>. QED
        BY <2>1, <2>2, WorkSame
<1>20. ASSUME NEW p \in DOMAIN packs, NEW id \in Id, AddRule(p, id) PROVE WorkInv'
    <2>1. UNCHANGED <<pc, stored>> /\ overlapped' = overlapped \cup Overtaken(p)
        BY <1>20 DEF AddRule
    <2>. QED
        BY <2>1, WorkSame DEF Overtaken
<1>21. ASSUME NEW p \in DOMAIN packs, NEW id \in Id, RemoveRule(p, id) PROVE WorkInv'
    <2>1. UNCHANGED <<pc, stored>> /\ overlapped' = overlapped \cup Overtaken(p)
        BY <1>21 DEF RemoveRule
    <2>. QED
        BY <2>1, WorkSame DEF Overtaken
<1>22. ASSUME NEW a \in Agent, BuildView(a) PROVE WorkInv'
    <2>1. UNCHANGED <<pc, overlapped, stored>>
        BY <1>22 DEF BuildView, store
    <2>. QED
        BY <2>1, WorkSame
<1>23. ASSUME Restart PROVE WorkInv'
    <2>1. overlapped' = {} /\ \A d \in Client : pc'[d].at = "idle"
        BY <1>23, IdleFacts DEF Restart
    <2>2. StoredCompiles'
        BY <1>23, BootedStored DEF Restart, WorkInv
    <2>. QED
        BY <2>1, <2>2 DEF WorkInv, OverlappedAtWork, StorableText
<1>24. CASE UNCHANGED vars
    <2>1. UNCHANGED <<pc, overlapped, stored>>
        BY <1>24 DEF vars
    <2>. QED
        BY <2>1, WorkSame
<1>25. Sources \subseteq Source
    BY SourcesTyped
<1>26. ASSUME NEW c \in Client, NEW p \in DOMAIN AskedText, NEW text \in AskedText[p],
              ConfigPack(c, p, text) PROVE WorkInv'
    <2>1. /\ pc[c].at = "config" /\ pc'[c].op = pc[c].op
          /\ pc'[c].text = text /\ Compiles(text) /\ \A d \in Client : d # c => pc'[d] = pc[d]
        BY <1>26, ConfigPut DEF TypeOK
    <2>2. overlapped' = overlapped \cup Overtaken(p) /\ stored' = stored
        BY <1>26 DEF ConfigPack, store
    <2>3. c \notin overlapped' /\ pc[c].op = "config"
        BY <2>1, <2>2 DEF WorkInv, OverlappedAtWork, StorableText, Overtaken
    <2>. QED
        BY <2>1, <2>2, <2>3, WorkSame DEF Overtaken
<1>27. ASSUME NEW c \in Client, NEW p, NEW text, ConfigRefused(c, p, text) PROVE WorkInv'
    <2>1. pc'[c].at = "idle" /\ \A d \in Client : d # c => pc'[d] = pc[d]
        BY <1>27, EndsFacts, IdleFacts DEF ConfigRefused, TypeOK
    <2>2. UNCHANGED <<overlapped, stored>> /\ c \notin overlapped
        BY <1>27 DEF ConfigRefused, store, WorkInv, OverlappedAtWork
    <2>. QED
        BY <2>1, <2>2, WorkSame
<1>28. ASSUME NEW r \in Reloader, Read(r) PROVE WorkInv'
    <2>1. UNCHANGED <<pc, overlapped, stored>>
        BY <1>28 DEF Read, store
    <2>. QED
        BY <2>1, WorkSame
<1>29. ASSUME NEW r \in Reloader, Install(r) PROVE WorkInv'
    <2>1. UNCHANGED <<pc, stored>> /\ overlapped' = overlapped \cup Overtaken(Default)
        BY <1>29 DEF Install
    <2>. QED
        BY <2>1, WorkSame DEF Overtaken
<1>30. ASSUME NEW r \in Reloader, Installed(r) PROVE WorkInv'
    <2>1. UNCHANGED <<pc, overlapped, stored>>
        BY <1>30 DEF Installed, store
    <2>. QED
        BY <2>1, WorkSame
<1>31. ASSUME NEW r \in Reloader, Refuse(r) PROVE WorkInv'
    <2>1. UNCHANGED <<pc, overlapped, stored>>
        BY <1>31 DEF Refuse, store
    <2>. QED
        BY <2>1, WorkSame
<1>32. ASSUME NEW c \in Client, NEW done, BindingRaises(c, done) PROVE WorkInv'
    <2>1. pc'[c].at = "idle" /\ \A d \in Client : d # c => pc'[d] = pc[d]
        BY <1>32, EndsFacts, IdleFacts DEF BindingRaises, TypeOK
    <2>2. UNCHANGED <<overlapped, stored>> /\ c \notin overlapped
        BY <1>32 DEF BindingRaises, store, WorkInv, OverlappedAtWork
    <2>. QED
        BY <2>1, <2>2, WorkSame
<1>33. ASSUME KeepView PROVE WorkInv'
    <2>1. UNCHANGED <<pc, overlapped, stored>>
        BY <1>33 DEF KeepView, store
    <2>. QED
        BY <2>1, WorkSame
<1>. QED
    BY <1>1, <1>2, <1>3, <1>4, <1>5, <1>6, <1>7, <1>8, <1>9, <1>10, <1>11, <1>12, <1>13, <1>14,
       <1>15, <1>16, <1>17, <1>18, <1>19, <1>20, <1>21, <1>22, <1>23, <1>24, <1>25, <1>26, <1>27,
       <1>28, <1>29, <1>30, <1>31, <1>32, <1>33 DEF Next, Request, Watching, Reloader

\* A pack that the router has, or has not, as before.
SameAt(p) ==
    /\ p \in DOMAIN packs' <=> p \in DOMAIN packs
    /\ p \in DOMAIN packs => packs'[p].rules = packs[p].rules

\* Where packs and store stay, only who stores and who makes may not be lost.
LEMMA FollowsSame ==
    ASSUME StoringMatches, FollowsOrWill, UNCHANGED <<stored, adrift>>, \A q : SameAt(q),
           \A d \in Client :
              \/ pc'[d] = pc[d] /\ (d \in overlapped' <=> d \in overlapped)
              \/ /\ pc[d].at # "store" /\ pc'[d].at # "store"
                 /\ (pc[d].at = "replace" \/ (pc[d].at = "bind" /\ pc[d].pack \in DOMAIN packs)) =>
                       pc'[d].at = "replace" /\ pc'[d].pack = pc[d].pack
    PROVE  StoringMatches' /\ FollowsOrWill'
<1>1. ASSUME NEW q, Making(q) PROVE Making(q)'
    <2>1. PICK d \in Client : /\ pc[d].pack = q
                             /\ \/ pc[d].at = "replace"
                                \/ pc[d].at = "bind" /\ q \in DOMAIN packs
        BY <1>1 DEF Making
    <2>2. CASE pc'[d] = pc[d]
        BY <2>1, <2>2 DEF Making, SameAt
    <2>3. CASE pc'[d].at = "replace" /\ pc'[d].pack = pc[d].pack
        BY <2>1, <2>3 DEF Making
    <2>. QED
        BY <2>1, <2>2, <2>3
<1>2. ASSUME NEW q, Storing(q) PROVE Storing(q)'
    BY <1>2 DEF Storing
<1>3. ASSUME NEW q, Follows(q) PROVE Follows(q)'
    BY <1>3 DEF Follows, SameAt
<1>4. FollowsOrWill'
    BY <1>1, <1>2, <1>3 DEF FollowsOrWill
<1>5. ASSUME NEW q \in PackIds, NEW d \in Client, d \notin overlapped',
             pc'[d].at = "store", pc'[d].pack = q
      PROVE  Matches(d, q)'
    <2>1. pc'[d] = pc[d] /\ d \notin overlapped
        BY <1>5
    <2>2. Matches(d, q)
        BY <1>5, <2>1 DEF StoringMatches
    <2>. QED
        BY <1>1, <2>1, <2>2 DEF SameAt, Matches
<1>. QED
    BY <1>4, <1>5 DEF StoringMatches

\* Those with a pack to store that another changed are overlapped, and no others;
\* those who go on were at that pack, or had begun nothing.
OvertakenBy(p) ==
    /\ overlapped' \subseteq overlapped \cup {d \in Client : pc[d].pack = p}
    /\ \A d \in Client :
          \/ /\ pc'[d] = pc[d] /\ (d \in overlapped => d \in overlapped')
             /\ pc[d].pack = p /\ pc[d].at = "store" => d \in overlapped'
          \/ pc[d].at \in {"idle", "config"}
          \/ pc[d].pack = p /\ pc[d].at = "replace" /\ pc'[d].at # "store"

\* Where one pack changes, whoever changes it stores it, or it is adrift.
LEMMA PackChanged ==
    ASSUME StoringMatches, FollowsOrWill, stored' = stored, NEW p,
           \A q : q # p => SameAt(q),
           OvertakenBy(p),
           adrift' = adrift \/ adrift' = adrift \cup {p},
           p \in adrift' \/ p \notin Named \/ Storing(p)',
           \A d \in Client : pc'[d].at = "store" /\ pc'[d] # pc[d] =>
               /\ pc'[d].pack = p
               /\ IF pc'[d].op = "drop" THEN p \notin DOMAIN packs'
                  ELSE p \in DOMAIN packs' /\ packs'[p].rules = Compile(pc'[d].text)
    PROVE  StoringMatches' /\ FollowsOrWill'
<1>1. ASSUME NEW q, q # p, Making(q) PROVE Making(q)'
    <2>1. PICK d \in Client : /\ pc[d].pack = q
                             /\ \/ pc[d].at = "replace"
                                \/ pc[d].at = "bind" /\ q \in DOMAIN packs
        BY <1>1 DEF Making
    <2>2. pc'[d] = pc[d]
        BY <1>1, <2>1 DEF OvertakenBy
    <2>. QED
        BY <1>1, <2>1, <2>2 DEF Making, SameAt
<1>2. ASSUME NEW q, q # p, Storing(q) PROVE Storing(q)'
    <2>1. PICK d \in Client \ overlapped : pc[d].pack = q /\ pc[d].at = "store"
        BY <1>2 DEF Storing
    <2>2. pc'[d] = pc[d] /\ d \notin overlapped'
        BY <1>2, <2>1 DEF OvertakenBy
    <2>. QED
        BY <2>1, <2>2 DEF Storing
<1>3. ASSUME NEW q, q # p, Follows(q) PROVE Follows(q)'
    BY <1>3 DEF Follows, SameAt
<1>4. FollowsOrWill'
    BY <1>1, <1>2, <1>3 DEF FollowsOrWill
<1>5. ASSUME NEW q \in PackIds, NEW d \in Client, d \notin overlapped',
             pc'[d].at = "store", pc'[d].pack = q
      PROVE  Matches(d, q)'
    <2>1. CASE pc'[d] # pc[d]
        BY <1>5, <2>1 DEF Matches
    <2>2. CASE pc'[d] = pc[d]
        <3>1. d \notin overlapped /\ pc[d].pack # p
            BY <1>5, <2>2 DEF OvertakenBy
        <3>2. Matches(d, q)
            BY <1>5, <2>2, <3>1 DEF StoringMatches
        <3>. QED
            BY <1>1, <1>5, <2>2, <3>1, <3>2 DEF SameAt, Matches
    <2>. QED
        BY <2>1, <2>2
<1>. QED
    BY <1>4, <1>5 DEF StoringMatches

\* With a database, each step leaves a pack followed, or somebody who will see to
\* it, or it is adrift.
LEMMA FollowsStep ==
    ASSUME AdminAssumption, TypeOK, WorkInv, Persistent, StoringMatches, FollowsOrWill,
           [Next]_vars
    PROVE  StoringMatches' /\ FollowsOrWill'
<1>1. ASSUME NEW text \in FileText, EditFiles(text) PROVE StoringMatches' /\ FollowsOrWill'
    <2>1. UNCHANGED <<packs, pc, overlapped, stored, adrift>>
        BY <1>1 DEF EditFiles, store
    <2>. QED
        BY <2>1, FollowsSame DEF SameAt
<1>2. ASSUME NEW told \in {FALSE, Async}, StartWatch(told) PROVE StoringMatches' /\ FollowsOrWill'
    <2>1. UNCHANGED <<packs, pc, overlapped, stored, adrift>>
        BY <1>2 DEF StartWatch, store
    <2>. QED
        BY <2>1, FollowsSame DEF SameAt
<1>3. ASSUME StopWatch PROVE StoringMatches' /\ FollowsOrWill'
    <2>1. UNCHANGED <<packs, pc, overlapped, stored, adrift>>
        BY <1>3 DEF StopWatch, store
    <2>. QED
        BY <2>1, FollowsSame DEF SameAt
<1>4. ASSUME Poll PROVE StoringMatches' /\ FollowsOrWill'
    <2>1. UNCHANGED <<packs, pc, overlapped, stored, adrift>>
        BY <1>4 DEF Poll, store
    <2>. QED
        BY <2>1, FollowsSame DEF SameAt
<1>5. ASSUME WatcherReload PROVE StoringMatches' /\ FollowsOrWill'
    <2>1. UNCHANGED <<packs, pc, overlapped, stored, adrift>>
        BY <1>5 DEF WatcherReload, store
    <2>. QED
        BY <2>1, FollowsSame DEF SameAt
<1>6. ASSUME NEW c \in Client, NEW a \in Agent, NEW id \in Id, Create(c, a, id) PROVE StoringMatches' /\ FollowsOrWill'
    <2>1. pc[c].at = "idle" /\ pc'[c].at = "ensure" /\ \A d \in Client : d # c => pc'[d] = pc[d]
        BY <1>6 DEF Create, Begins, TypeOK
    <2>2. UNCHANGED <<packs, overlapped, stored, adrift>>
        BY <1>6 DEF Create, store
    <2>. QED
        BY <2>1, <2>2, FollowsSame DEF SameAt
<1>7. ASSUME NEW c \in Client, NEW a \in Agent, NEW id \in Id, Delete(c, a, id) PROVE StoringMatches' /\ FollowsOrWill'
    <2>1. pc[c].at = "idle" /\ pc'[c].at = "replace" /\ \A d \in Client : d # c => pc'[d] = pc[d]
        BY <1>7 DEF Delete, Begins, TypeOK
    <2>2. UNCHANGED <<packs, overlapped, stored, adrift>>
        BY <1>7 DEF Delete, store
    <2>. QED
        BY <2>1, <2>2, FollowsSame DEF SameAt
<1>8. ASSUME NEW c \in Client, NEW p \in Named, NEW text \in PushText, PutPack(c, p, text) PROVE StoringMatches' /\ FollowsOrWill'
    <2>1. p \in PackIds /\ text \in Text /\ Putting(c, "put", p, text)
        BY <1>8, Texts DEF PutPack, PackIds, TypeOK
    <2>2. /\ pc'[c].at = "store" /\ pc'[c].op = "put" /\ pc'[c].pack = p /\ pc'[c].text = text
          /\ \A d \in Client : d # c => pc'[d] = pc[d]
        BY <2>1, PuttingFacts DEF TypeOK
    <2>3. /\ pc[c].at = "idle" /\ overlapped' = overlapped \cup Overtaken(p)
          /\ UNCHANGED <<stored, adrift>> /\ packs' = With(packs, p, Inline(text))
        BY <1>8 DEF PutPack, Begins, store
    <2>4. c \notin overlapped'
        BY <2>3 DEF WorkInv, OverlappedAtWork, Overtaken
    <2>5. p \in DOMAIN packs' /\ packs'[p].rules = Compile(text) /\ \A q : q # p => SameAt(q)
        BY <2>3 DEF With, Less, Inline, Labelled, SameAt
    <2>6. Storing(p)'
        BY <2>2, <2>4 DEF Storing
    <2>7. OvertakenBy(p)
        BY <2>2, <2>3, <2>4 DEF OvertakenBy, Overtaken
    <2>. QED
        BY <2>2, <2>3, <2>5, <2>6, <2>7, PackChanged
<1>9. ASSUME NEW c \in Client, PutConfig(c) PROVE StoringMatches' /\ FollowsOrWill'
    <2>1. pc[c].at = "idle" /\ pc'[c].at = "config" /\ \A d \in Client : d # c => pc'[d] = pc[d]
        BY <1>9, ConfigBegun DEF PutConfig, Begins, TypeOK
    <2>2. UNCHANGED <<packs, overlapped, stored, adrift>>
        BY <1>9 DEF PutConfig, store
    <2>. QED
        BY <2>1, <2>2, FollowsSame DEF SameAt
<1>10. ASSUME NEW c \in Client, NEW p \in DOMAIN packs \ {Default}, DropPack(c, p) PROVE StoringMatches' /\ FollowsOrWill'
    <2>1. p \in PackIds /\ <<>> \in Text /\ Putting(c, "drop", p, <<>>)
        BY <1>10, Texts DEF DropPack, PackIds, TypeOK
    <2>2. /\ pc'[c].at = "store" /\ pc'[c].op = "drop" /\ pc'[c].pack = p /\ pc'[c].text = <<>>
          /\ \A d \in Client : d # c => pc'[d] = pc[d]
        BY <2>1, PuttingFacts DEF TypeOK
    <2>3. /\ pc[c].at = "idle" /\ overlapped' = overlapped \cup Overtaken(p)
          /\ UNCHANGED <<stored, adrift>> /\ packs' = Less(packs, p)
        BY <1>10 DEF DropPack, Begins, store
    <2>4. c \notin overlapped'
        BY <2>3 DEF WorkInv, OverlappedAtWork, Overtaken
    <2>5. p \notin DOMAIN packs' /\ \A q : q # p => SameAt(q)
        BY <2>3 DEF With, Less, Inline, Labelled, SameAt
    <2>6. Storing(p)'
        BY <2>2, <2>4 DEF Storing
    <2>7. OvertakenBy(p)
        BY <2>2, <2>3, <2>4 DEF OvertakenBy, Overtaken
    <2>. QED
        BY <2>2, <2>3, <2>5, <2>6, <2>7, PackChanged
<1>11. ASSUME NEW source \in Source, Reload(source) PROVE StoringMatches' /\ FollowsOrWill'
    <2>1. UNCHANGED <<packs, pc, overlapped, stored, adrift>>
        BY <1>11 DEF Reload, store
    <2>. QED
        BY <2>1, FollowsSame DEF SameAt
<1>12. ASSUME NEW c \in Client, NEW a \in Agent, NEW p \in Named, BindAgent(c, a, p) PROVE StoringMatches' /\ FollowsOrWill'
    <2>1. pc[c].at = "idle" /\ pc'[c].at = "sync" /\ \A d \in Client : d # c => pc'[d] = pc[d]
        BY <1>12, TellsFacts DEF BindAgent, Begins, TypeOK
    <2>2. UNCHANGED <<packs, overlapped, stored, adrift>>
        BY <1>12 DEF BindAgent, store
    <2>. QED
        BY <2>1, <2>2, FollowsSame DEF SameAt
<1>13. ASSUME NEW c \in Client, NEW a \in Agent, NEW p \in Named, UnbindAgent(c, a, p) PROVE StoringMatches' /\ FollowsOrWill'
    <2>1. pc[c].at = "idle" /\ pc'[c].at = "sync" /\ \A d \in Client : d # c => pc'[d] = pc[d]
        BY <1>13, TellsFacts DEF UnbindAgent, Begins, TypeOK
    <2>2. UNCHANGED <<packs, overlapped, stored, adrift>>
        BY <1>13 DEF UnbindAgent, store
    <2>. QED
        BY <2>1, <2>2, FollowsSame DEF SameAt
<1>14. ASSUME NEW c \in Client, Ensure(c) PROVE StoringMatches' /\ FollowsOrWill'
    <2>1. /\ pc[c].at = "ensure" /\ pc'[c].at = "bind" /\ pc'[c].pack = pc[c].pack
          /\ \A d \in Client : d # c => pc'[d] = pc[d]
        BY <1>14 DEF Ensure, TypeOK, Thread
    <2>2. UNCHANGED <<overlapped, stored, adrift>>
        BY <1>14 DEF Ensure, store
    <2>3. PICK p : p = pc[c].pack
        OBVIOUS
    <2>4. packs' = With(packs, p, IF p \in DOMAIN packs THEN packs[p] ELSE Inline(<<>>))
        BY <1>14, <2>3 DEF Ensure
    <2>5. CASE p \in DOMAIN packs
        <3>1. \A q : SameAt(q)
            BY <2>4, <2>5 DEF SameAt, With
        <3>. QED
            BY <2>1, <2>2, <3>1, FollowsSame
    <2>6. CASE p \notin DOMAIN packs
        <3>1. p \in DOMAIN packs' /\ \A q : q # p => SameAt(q)
            BY <2>4 DEF SameAt, With
        <3>2. Making(p)'
            BY <2>1, <2>3, <3>1 DEF Making
        <3>3. ASSUME NEW q, q # p, Making(q) PROVE Making(q)'
            <4>1. PICK d \in Client : /\ pc[d].pack = q
                                     /\ \/ pc[d].at = "replace"
                                        \/ pc[d].at = "bind" /\ q \in DOMAIN packs
                BY <3>3 DEF Making
            <4>2. pc'[d] = pc[d]
                BY <2>1, <4>1
            <4>. QED
                BY <3>1, <3>3, <4>1, <4>2 DEF Making, SameAt
        <3>4. StoringMatches'
            <4>. SUFFICES ASSUME NEW q \in PackIds, NEW d \in Client, d \notin overlapped,
                                 pc'[d].at = "store", pc'[d].pack = q
                          PROVE  Matches(d, q)'
                BY <2>2 DEF StoringMatches
            <4>1. pc'[d] = pc[d]
                BY <2>1
            <4>2. Matches(d, q)
                BY <4>1 DEF StoringMatches
            <4>. QED
                BY <2>6, <3>1, <3>2, <3>3, <4>1, <4>2 DEF SameAt, Matches
        <3>5. FollowsOrWill'
            <4>. SUFFICES ASSUME NEW q \in Named \ adrift
                          PROVE  Follows(q)' \/ Making(q)' \/ Storing(q)'
                BY <2>2 DEF FollowsOrWill
            <4>1. CASE q = p
                BY <3>2, <4>1
            <4>2. CASE q # p
                <5>1. Follows(q) \/ Making(q) \/ Storing(q)
                    BY DEF FollowsOrWill
                <5>2. Follows(q) => Follows(q)'
                    BY <2>2, <3>1, <4>2 DEF Follows, SameAt
                <5>3. Storing(q) => Storing(q)'
                    BY <2>1, <2>2 DEF Storing
                <5>. QED
                    BY <3>3, <4>2, <5>1, <5>2, <5>3
            <4>. QED
                BY <4>1, <4>2
        <3>. QED
            BY <3>4, <3>5
    <2>. QED
        BY <2>5, <2>6
<1>15. ASSUME NEW c \in Client, BindOwn(c) PROVE StoringMatches' /\ FollowsOrWill'
    <2>1. CASE pc[c].pack \in DOMAIN packs
        <3>1. /\ pc[c].at = "bind" /\ pc'[c].at = "replace" /\ pc'[c].pack = pc[c].pack
              /\ \A d \in Client : d # c => pc'[d] = pc[d]
            BY <1>15, <2>1, GoesFacts DEF BindOwn, TypeOK
        <3>2. UNCHANGED <<packs, overlapped, stored, adrift>>
            BY <1>15, <2>1 DEF BindOwn, store
        <3>. QED
            BY <3>1, <3>2, FollowsSame DEF SameAt
    <2>2. CASE pc[c].pack \notin DOMAIN packs
        <3>1. /\ pc[c].at = "bind" /\ pc'[c].at = "idle"
              /\ \A d \in Client : d # c => pc'[d] = pc[d]
            BY <1>15, <2>2, EndsFacts, IdleFacts DEF BindOwn, TypeOK
        <3>2. overlapped' = overlapped \ {c} /\ UNCHANGED <<packs, stored, adrift>>
            BY <1>15, <2>2 DEF BindOwn, store
        <3>. QED
            BY <2>2, <3>1, <3>2, FollowsSame DEF SameAt
    <2>. QED
        BY <2>1, <2>2
<1>16. ASSUME NEW c \in Client, Replace(c) PROVE StoringMatches' /\ FollowsOrWill'
    <2>1. pc[c].at = "replace" /\ pc'[c].at = "sync" /\ \A d \in Client : d # c => pc'[d] = pc[d]
        BY <1>16, GoesFacts DEF Replace, TypeOK
    <2>2. PICK p : p = pc[c].pack
        OBVIOUS
    <2>3. /\ overlapped' = (overlapped \cup Overtaken(p)) \ {c} /\ stored' = stored
          /\ adrift' = adrift \cup {p} /\ packs' = With(packs, p, Inline(pc[c].text))
        BY <1>16, <2>2 DEF Replace
    <2>4. \A q : q # p => SameAt(q)
        BY <2>3 DEF With, SameAt
    <2>5. OvertakenBy(p)
        BY <2>1, <2>2, <2>3 DEF OvertakenBy, Overtaken
    <2>. QED
        BY <2>1, <2>3, <2>4, <2>5, PackChanged
<1>17. ASSUME NEW c \in Client, NEW done \in BOOLEAN, Store(c, done) PROVE StoringMatches' /\ FollowsOrWill'
    <2>1. /\ pc[c].at = "store" /\ pc'[c].at \in {"config", "sync"}
          /\ \A d \in Client : d # c => pc'[d] = pc[d]
        BY <1>17, GoesFacts DEF Store, TypeOK
    <2>2. PICK p : p = pc[c].pack
        OBVIOUS
    <2>3. /\ packs' = packs /\ overlapped' = overlapped \ {c}
          /\ stored' = IF ~done THEN stored ELSE IF pc[c].op = "drop" THEN Less(stored, p)
                       ELSE With(stored, p, Row(pc[c].text, pc[c].op = "put"))
          /\ adrift' = IF done /\ c \notin overlapped THEN adrift \ {p} ELSE adrift \cup {p}
        BY <1>17, <2>2 DEF Store
    <2>4. ASSUME NEW q PROVE Making(q) => Making(q)'
        BY <2>1, <2>3 DEF Making
    <2>5. StoringMatches'
        <3>. SUFFICES ASSUME NEW q \in PackIds, NEW d \in Client, d \notin overlapped',
                             pc'[d].at = "store", pc'[d].pack = q
                      PROVE  Matches(d, q)'
            BY DEF StoringMatches
        <3>1. d # c /\ pc'[d] = pc[d] /\ d \notin overlapped
            BY <2>1, <2>3
        <3>2. Matches(d, q)
            BY <3>1 DEF StoringMatches
        <3>. QED
            BY <2>3, <2>4, <3>1, <3>2 DEF Matches
    <2>6. FollowsOrWill'
        <3>. SUFFICES ASSUME NEW q \in Named \ adrift' PROVE Follows(q)' \/ Making(q)' \/ Storing(q)'
            BY DEF FollowsOrWill
        <3>1. CASE q = p
            <4>1. done /\ c \notin overlapped
                BY <2>3, <3>1
            <4>2. IF pc[c].op = "drop" THEN p \notin DOMAIN packs \/ Making(p)
                  ELSE p \in DOMAIN packs /\ packs[p].rules = Compile(pc[c].text)
                BY <2>1, <2>2, <4>1 DEF StoringMatches, Matches, TypeOK, Thread
            <4>3. CASE pc[c].op = "drop"
                BY <2>3, <2>4, <3>1, <4>1, <4>2, <4>3 DEF Follows, Less
            <4>4. CASE pc[c].op # "drop"
                BY <2>3, <3>1, <4>1, <4>2, <4>4 DEF Follows, With, Row
            <4>. QED
                BY <4>3, <4>4
        <3>2. CASE q # p
            <4>1. Follows(q) \/ Making(q) \/ Storing(q)
                BY <2>3, <3>2 DEF FollowsOrWill
            <4>2. Follows(q) => Follows(q)'
                BY <2>3, <3>2 DEF Follows, With, Less
            <4>3. Storing(q) => Storing(q)'
                BY <2>1, <2>2, <2>3, <3>2 DEF Storing
            <4>. QED
                BY <2>4, <4>1, <4>2, <4>3
        <3>. QED
            BY <3>1, <3>2
    <2>. QED
        BY <2>5, <2>6
<1>18. ASSUME NEW c \in Client, BindConfig(c) PROVE StoringMatches' /\ FollowsOrWill'
    <2>1. pc[c].at = "config" /\ pc'[c].at = "sync" /\ \A d \in Client : d # c => pc'[d] = pc[d]
        BY <1>18, GoesFacts DEF BindConfig, Begins, TypeOK
    <2>2. UNCHANGED <<packs, overlapped, stored, adrift>>
        BY <1>18 DEF BindConfig, store
    <2>. QED
        BY <2>1, <2>2, FollowsSame DEF SameAt
<1>19. ASSUME NEW c \in Client, Sync(c) PROVE StoringMatches' /\ FollowsOrWill'
    <2>1. pc[c].at = "sync" /\ pc'[c].at = "idle" /\ \A d \in Client : d # c => pc'[d] = pc[d]
        BY <1>19, EndsFacts, IdleFacts DEF Sync, Begins, TypeOK
    <2>2. UNCHANGED <<packs, overlapped, stored, adrift>>
        BY <1>19 DEF Sync, store
    <2>. QED
        BY <2>1, <2>2, FollowsSame DEF SameAt
<1>20. ASSUME NEW p \in DOMAIN packs, NEW id \in Id, AddRule(p, id) PROVE StoringMatches' /\ FollowsOrWill'
    <2>1. PICK rules : packs' = [packs EXCEPT ![p].rules = rules]
        BY <1>20 DEF AddRule
    <2>2. /\ UNCHANGED <<pc, stored>> /\ overlapped' = overlapped \cup Overtaken(p)
          /\ adrift' = adrift \cup {p}
        BY <1>20 DEF AddRule
    <2>3. \A q : q # p => SameAt(q)
        BY <2>1 DEF SameAt
    <2>4. OvertakenBy(p)
        BY <2>2 DEF OvertakenBy, Overtaken
    <2>. QED
        BY <2>2, <2>3, <2>4, PackChanged
<1>21. ASSUME NEW p \in DOMAIN packs, NEW id \in Id, RemoveRule(p, id) PROVE StoringMatches' /\ FollowsOrWill'
    <2>1. PICK rules : packs' = [packs EXCEPT ![p].rules = rules]
        BY <1>21 DEF RemoveRule
    <2>2. /\ UNCHANGED <<pc, stored>> /\ overlapped' = overlapped \cup Overtaken(p)
          /\ adrift' = adrift \cup {p}
        BY <1>21 DEF RemoveRule
    <2>3. \A q : q # p => SameAt(q)
        BY <2>1 DEF SameAt
    <2>4. OvertakenBy(p)
        BY <2>2 DEF OvertakenBy, Overtaken
    <2>. QED
        BY <2>2, <2>3, <2>4, PackChanged
<1>22. ASSUME NEW a \in Agent, BuildView(a) PROVE StoringMatches' /\ FollowsOrWill'
    <2>1. UNCHANGED <<packs, pc, overlapped, stored, adrift>>
        BY <1>22 DEF BuildView, store
    <2>. QED
        BY <2>1, FollowsSame DEF SameAt
<1>23. ASSUME Restart PROVE StoringMatches' /\ FollowsOrWill'
    <2>1. Booted(stored, bound) /\ adrift' = DOMAIN ConfigText
        BY <1>23 DEF Restart, Booted
    <2>2. \A p \in Named \ DOMAIN ConfigText :
             /\ p \in DOMAIN packs' <=> p \in DOMAIN stored'
             /\ p \in DOMAIN packs' => packs'[p].rules = Compile(stored'[p].text)
        BY <2>1, BootedStored DEF WorkInv
    <2>3. FollowsOrWill'
        BY <2>1, <2>2 DEF FollowsOrWill, Follows
    <2>4. \A d \in Client : pc'[d].at = "idle"
        BY <1>23, IdleFacts DEF Restart
    <2>. QED
        BY <2>3, <2>4 DEF StoringMatches
<1>24. CASE UNCHANGED vars
    <2>1. UNCHANGED <<packs, pc, overlapped, stored, adrift>>
        BY <1>24 DEF vars
    <2>. QED
        BY <2>1, FollowsSame DEF SameAt
<1>25. Sources \subseteq Source
    BY SourcesTyped
<1>26. ASSUME NEW c \in Client, NEW p \in DOMAIN AskedText, NEW text \in AskedText[p],
              ConfigPack(c, p, text) PROVE StoringMatches' /\ FollowsOrWill'
    <2>1. /\ pc[c].at = "config" /\ pc'[c].at = "store" /\ pc'[c].op = pc[c].op /\ pc'[c].pack = p
          /\ pc'[c].text = text /\ \A d \in Client : d # c => pc'[d] = pc[d]
          /\ packs' = With(packs, p, Labelled(text))
        BY <1>26, ConfigPut DEF TypeOK
    <2>2. overlapped' = overlapped \cup Overtaken(p) /\ UNCHANGED <<stored, adrift>>
        BY <1>26 DEF ConfigPack, store
    <2>3. c \notin overlapped' /\ pc'[c].op = "config"
        BY <2>1, <2>2 DEF WorkInv, OverlappedAtWork, StorableText, Overtaken
    <2>4. p \in DOMAIN packs' /\ packs'[p].rules = Compile(text) /\ \A q : q # p => SameAt(q)
        BY <2>1 DEF With, Labelled, SameAt
    <2>5. Storing(p)'
        BY <2>1, <2>3 DEF Storing
    <2>6. OvertakenBy(p)
        BY <2>1, <2>2 DEF OvertakenBy, Overtaken
    <2>. QED
        BY <2>1, <2>2, <2>3, <2>4, <2>5, <2>6, PackChanged
<1>27. ASSUME NEW c \in Client, NEW p, NEW text, ConfigRefused(c, p, text) PROVE StoringMatches' /\ FollowsOrWill'
    <2>1. pc[c].at = "config" /\ pc'[c].at = "idle" /\ \A d \in Client : d # c => pc'[d] = pc[d]
        BY <1>27, EndsFacts, IdleFacts DEF ConfigRefused, TypeOK
    <2>2. UNCHANGED <<packs, overlapped, stored, adrift>>
        BY <1>27 DEF ConfigRefused, store
    <2>. QED
        BY <2>1, <2>2, FollowsSame DEF SameAt
<1>28. ASSUME NEW r \in Reloader, Read(r) PROVE StoringMatches' /\ FollowsOrWill'
    <2>1. UNCHANGED <<packs, pc, overlapped, stored, adrift>>
        BY <1>28 DEF Read, store
    <2>. QED
        BY <2>1, FollowsSame DEF SameAt
<1>29. ASSUME NEW r \in Reloader, Install(r) PROVE StoringMatches' /\ FollowsOrWill'
    <2>1. /\ UNCHANGED <<pc, stored, adrift>> /\ Default \notin Named
          /\ overlapped' = overlapped \cup Overtaken(Default)
        BY <1>29 DEF Install, AdminAssumption
    <2>2. \A q : q # Default => SameAt(q)
        BY <1>29 DEF Install, SameAt, With
    <2>3. OvertakenBy(Default)
        BY <2>1 DEF OvertakenBy, Overtaken
    <2>. QED
        BY <2>1, <2>2, <2>3, PackChanged
<1>30. ASSUME NEW r \in Reloader, Installed(r) PROVE StoringMatches' /\ FollowsOrWill'
    <2>1. UNCHANGED <<packs, pc, overlapped, stored, adrift>>
        BY <1>30 DEF Installed, store
    <2>. QED
        BY <2>1, FollowsSame DEF SameAt
<1>31. ASSUME NEW r \in Reloader, Refuse(r) PROVE StoringMatches' /\ FollowsOrWill'
    <2>1. UNCHANGED <<packs, pc, overlapped, stored, adrift>>
        BY <1>31 DEF Refuse, store
    <2>. QED
        BY <2>1, FollowsSame DEF SameAt
<1>32. ASSUME NEW c \in Client, NEW done, BindingRaises(c, done) PROVE StoringMatches' /\ FollowsOrWill'
    <2>1. pc[c].at = "config" /\ pc'[c].at = "idle" /\ \A d \in Client : d # c => pc'[d] = pc[d]
        BY <1>32, EndsFacts, IdleFacts DEF BindingRaises, TypeOK
    <2>2. UNCHANGED <<packs, overlapped, stored, adrift>>
        BY <1>32 DEF BindingRaises, store
    <2>. QED
        BY <2>1, <2>2, FollowsSame DEF SameAt
<1>33. ASSUME KeepView PROVE StoringMatches' /\ FollowsOrWill'
    <2>1. UNCHANGED <<packs, pc, overlapped, stored, adrift>>
        BY <1>33 DEF KeepView, store
    <2>. QED
        BY <2>1, FollowsSame DEF SameAt
<1>. QED
    BY <1>1, <1>2, <1>3, <1>4, <1>5, <1>6, <1>7, <1>8, <1>9, <1>10, <1>11, <1>12, <1>13, <1>14,
       <1>15, <1>16, <1>17, <1>18, <1>19, <1>20, <1>21, <1>22, <1>23, <1>24, <1>25, <1>26, <1>27,
       <1>28, <1>29, <1>30, <1>31, <1>32, <1>33 DEF Next, Request, Watching, Reloader

\* At the start only packs of the config, and the default one, are in the database.
LEMMA StoreInit ==
    ASSUME AdminAssumption, Init
    PROVE  StoreInv
<1>1. \A c \in Client : pc[c].at = "idle"
    BY IdleFacts DEF Init
<1>2. files.text \in Text /\ Compiles(files.text)
    BY Texts DEF Init
<1>3. /\ DOMAIN AtStart = DOMAIN ConfigText \cup {Default}
      /\ DOMAIN StoredAtStart \subseteq DOMAIN AtStart
      /\ \A p \in DOMAIN StoredAtStart \ DOMAIN ConfigText : Compiles(StoredAtStart[p].text)
    BY <1>2, StartFacts
<1>4. /\ packs = AtStart /\ overlapped = {} /\ adrift = DOMAIN ConfigText
      /\ stored = IF Persistent THEN StoredAtStart ELSE <<>>
    BY DEF Init
<1>5. StoredCompiles
    <2>1. CASE Persistent
        BY <1>3, <1>4, <2>1 DEF StoredCompiles
    <2>2. CASE ~Persistent
        BY <1>4, <2>2 DEF StoredCompiles
    <2>. QED
        BY <2>1, <2>2
<1>6. WorkInv /\ StoringMatches
    BY <1>1, <1>4, <1>5 DEF WorkInv, OverlappedAtWork, StorableText, StoringMatches
<1>7. Persistent => FollowsOrWill
    BY <1>3, <1>4 DEF FollowsOrWill, Follows, AdminAssumption
<1>. QED
    BY <1>6, <1>7 DEF StoreInv

\* When no request is on its way the database has each pack that is not adrift as
\* the router has it, whichever requests met before, and across restarts.
THEOREM StoreIsFollowed == Spec => []StoreFollows
<1>. DEFINE Inv == TypeOK /\ StoreInv
<1>1. Init => Inv
    BY AdminAssumption, TypeInit, StoreInit
<1>2. Inv /\ [Next]_vars => Inv'
    <2>. SUFFICES ASSUME Inv, [Next]_vars PROVE Inv'
        OBVIOUS
    <2>1. TypeOK' /\ WorkInv'
        BY AdminAssumption, TypeStep, WorkStep DEF StoreInv
    <2>2. Persistent => StoringMatches' /\ FollowsOrWill'
        BY AdminAssumption, FollowsStep DEF StoreInv
    <2>. QED
        BY <2>1, <2>2 DEF StoreInv
<1>3. Inv => StoreFollows
    BY DEF StoreInv, FollowsOrWill, Follows, Making, Storing, StoreFollows, Quiet
<1>. QED
    <2>. HIDE DEF Inv
    <2>. QED
        BY <1>1, <1>2, <1>3, PTL DEF Spec

-----------------------------------------------------------------------------
(* What becomes of a rule.                                                 *)

\* A pack made of a text says it.
LEMMA MadeOfText ==
    ASSUME NEW text \in Text, NEW pack \in {Inline(text), Labelled(text)}
    PROVE  NamedIn(pack) /\ SaysItsText(pack)
<1>1. pack.rules = Compile(text) /\ (pack.source # <<>> => pack.source = text)
    BY PackFacts
<1>2. \A r \in ToSet(Compile(text)) : r.from = text /\ r.id \in ToSet(text)
    BY CompileFacts
<1>. QED
    BY <1>1, <1>2 DEF NamedIn, SaysItsText

\* Of a pack that says its text, the blocks have all the ids.
LEMMA ReadsEverything ==
    ASSUME NEW pack \in Pack, NamedIn(pack), SaysItsText(pack)
    PROVE  IdsOf(pack) \subseteq ToSet(Blocks(pack))
<1>1. CASE pack.source # <<>>
    <2>1. pack.source \in Text /\ pack.rules = Compile(pack.source)
        BY <1>1 DEF Pack, SaysItsText
    <2>2. IdsOf(pack) = ToSet(pack.source)
        BY <2>1, CompileFacts DEF IdsOf
    <2>. QED
        BY <1>1, <2>2, BlocksFacts
<1>2. CASE pack.source = <<>>
    BY <1>2, BlocksFacts DEF NamedIn, IdsOf
<1>. QED
    BY <1>1, <1>2

\* So do the packs of the config and the files.
LEMMA StartMade ==
    ASSUME AdminAssumption, files.text \in Text
    PROVE  \A p \in DOMAIN AtStart : NamedIn(AtStart[p]) /\ SaysItsText(AtStart[p])
<1>1. ASSUME NEW p \in DOMAIN AtStart PROVE NamedIn(AtStart[p]) /\ SaysItsText(AtStart[p])
    <2>1. p \in DOMAIN ConfigText \cup {Default}
        BY DEF AtStart
    <2>2. PICK text : text = IF p = Default THEN files.text ELSE ConfigText[p]
        OBVIOUS
    <2>3. text \in Text
        BY <2>1, <2>2, Texts
    <2>4. AtStart[p] = Labelled(text)
        BY <2>1, <2>2 DEF AtStart
    <2>. QED
        BY <2>3, <2>4, MadeOfText
<1>. QED
    BY <1>1

\* And all that the server starts with.
LEMMA BootedMade ==
    ASSUME AdminAssumption, TypeOK, Booted(stored, bound)
    PROVE  \A p \in DOMAIN packs' : NamedIn(packs'[p]) /\ SaysItsText(packs'[p])
<1>1. PICK restored :
        /\ restored = IF Persistent THEN Restored(stored) ELSE <<>>
        /\ DOMAIN packs' = DOMAIN restored \cup DOMAIN AtStart
        /\ \A p \in DOMAIN restored : packs'[p] = restored[p]
        /\ \A p \in DOMAIN AtStart \ DOMAIN restored : packs'[p] = AtStart[p]
        /\ files.text \in Text
    BY BootFacts
<1>2. \A p \in DOMAIN AtStart : NamedIn(AtStart[p]) /\ SaysItsText(AtStart[p])
    BY <1>1, StartMade
<1>3. ASSUME NEW p \in DOMAIN restored PROVE NamedIn(restored[p]) /\ SaysItsText(restored[p])
    <2>1. Persistent
        BY <1>1
    <2>2. restored = Restored(stored)
        BY <1>1, <2>1
    <2>3. p \in DOMAIN stored /\ restored[p] \in {Inline(stored[p].text), Labelled(stored[p].text)}
        BY <2>2, RestoredFacts
    <2>4. PICK text \in Text : text = stored[p].text
        BY <2>3 DEF TypeOK, Stored
    <2>. QED
        BY <2>3, <2>4, MadeOfText
<1>4. ASSUME NEW p \in DOMAIN packs' PROVE NamedIn(packs'[p]) /\ SaysItsText(packs'[p])
    <2>1. CASE p \in DOMAIN restored
        BY <1>1, <1>3, <2>1
    <2>2. CASE p \notin DOMAIN restored
        BY <1>1, <1>2, <2>2
    <2>. QED
        BY <2>1, <2>2
<1>. QED
    BY <1>4

\* Where the packs stay, only what a client has read may be wrong.
LEMMA PacksSame ==
    ASSUME RulesInv, UNCHANGED <<packs, touched>>,
           \A d \in Client :
              \/ pc'[d] = pc[d] /\ (d \in overlapped => d \in overlapped')
              \/ HasRead(d)'
    PROVE  RulesInv' /\ RulesKept
<1>1. RulesNamed' /\ SourceKept'
    BY DEF RulesInv, RulesNamed, SourceKept, NamedIn, SaysItsText, Compile
<1>2. ReadAll'
    BY DEF RulesInv, ReadAll, HasRead, Ids
<1>3. RulesKept
    BY DEF RulesKept
<1>. QED
    BY <1>1, <1>2, <1>3 DEF RulesInv

\* A pack that is as it was, or gone.
EntrySame(p) ==
    /\ p \in DOMAIN packs' <=> p \in DOMAIN packs
    /\ p \in DOMAIN packs => packs'[p] = packs[p]
    /\ p \in touched' <=> p \in touched

\* A client that stays where it is and is overlapped if it has read the pack.
OvertakenAt(d, p) ==
    /\ pc'[d] = pc[d] /\ (d \in overlapped => d \in overlapped')
    /\ pc[d].pack = p /\ pc[d].at \in {"bind", "replace"} => d \in overlapped'

\* Where one pack changes, it is that pack which has to be right, whoever else
\* has read it is overlapped, and what it loses has to be excused.
LEMMA PackReplaced ==
    ASSUME RulesInv, NEW p,
           \A q : q # p => EntrySame(q),
           p \in DOMAIN packs' =>
              NamedIn(packs'[p]) /\ (p \in touched' \/ SaysItsText(packs'[p])),
           \A d \in Client :
              \/ OvertakenAt(d, p)
              \/ HasRead(d)'
              \/ /\ pc'[d] = pc[d] /\ overlapped' = overlapped
                 /\ Ids(packs', p) = Ids(packs, p) /\ touched' = touched,
           \/ \A a \in Agent : AgentPack[a] # p
           \/ \A id \in Ids(packs, p) \ Ids(packs', p) : Excused(p, id)
    PROVE  RulesInv' /\ RulesKept
<1>1. RulesNamed'
    BY DEF RulesInv, RulesNamed, NamedIn, EntrySame
<1>2. SourceKept'
    BY DEF RulesInv, SourceKept, SaysItsText, EntrySame, Compile
<1>3. \A q : q # p => Ids(packs', q) = Ids(packs, q)
    BY DEF Ids, EntrySame
<1>4. ASSUME NEW d \in Client PROVE HasRead(d)'
    <2>1. HasRead(d)
        BY DEF RulesInv, ReadAll
    <2>2. PICK q : q = pc[d].pack
        OBVIOUS
    <2>3. CASE q = p
        <3>1. CASE OvertakenAt(d, p)
            BY <2>2, <2>3, <3>1 DEF HasRead, OvertakenAt
        <3>2. CASE /\ pc'[d] = pc[d] /\ overlapped' = overlapped
                   /\ Ids(packs', p) = Ids(packs, p) /\ touched' = touched
            BY <2>1, <2>2, <2>3, <3>2 DEF HasRead
        <3>. QED
            BY <3>1, <3>2
    <2>4. CASE q # p
        BY <1>3, <2>1, <2>2, <2>4 DEF HasRead, OvertakenAt, EntrySame
    <2>. QED
        BY <2>3, <2>4
<1>5. RulesKept
    BY <1>3 DEF RulesKept
<1>. QED
    BY <1>1, <1>2, <1>4, <1>5 DEF RulesInv, ReadAll

\* At the start all packs say their texts, and nobody has read one.
LEMMA RulesInit ==
    ASSUME AdminAssumption, Init
    PROVE  RulesInv
<1>1. \A c \in Client : pc[c].at = "idle"
    BY IdleFacts DEF Init
<1>2. \A p \in DOMAIN packs : NamedIn(packs[p]) /\ SaysItsText(packs[p])
    <2>1. files.text \in Text
        BY Texts DEF Init
    <2>2. packs = AtStart
        BY DEF Init
    <2>. QED
        BY <2>1, <2>2, StartMade
<1>. QED
    BY <1>1, <1>2 DEF RulesInv, RulesNamed, SourceKept, ReadAll, HasRead

\* Each step keeps to that, and to the rules that nobody meant to go.
LEMMA RulesStep ==
    ASSUME AdminAssumption, TypeOK, WorkInv, RulesInv, [Next]_vars
    PROVE  RulesInv' /\ RulesKept
<1>1. ASSUME NEW text \in FileText, EditFiles(text) PROVE RulesInv' /\ RulesKept
    <2>1. UNCHANGED <<packs, pc, touched, overlapped>>
        BY <1>1 DEF EditFiles
    <2>. QED
        BY <2>1, PacksSame
<1>2. ASSUME NEW told \in {FALSE, Async}, StartWatch(told) PROVE RulesInv' /\ RulesKept
    <2>1. UNCHANGED <<packs, pc, touched, overlapped>>
        BY <1>2 DEF StartWatch
    <2>. QED
        BY <2>1, PacksSame
<1>3. ASSUME StopWatch PROVE RulesInv' /\ RulesKept
    <2>1. UNCHANGED <<packs, pc, touched, overlapped>>
        BY <1>3 DEF StopWatch
    <2>. QED
        BY <2>1, PacksSame
<1>4. ASSUME Poll PROVE RulesInv' /\ RulesKept
    <2>1. UNCHANGED <<packs, pc, touched, overlapped>>
        BY <1>4 DEF Poll
    <2>. QED
        BY <2>1, PacksSame
<1>5. ASSUME WatcherReload PROVE RulesInv' /\ RulesKept
    <2>1. UNCHANGED <<packs, pc, touched, overlapped>>
        BY <1>5 DEF WatcherReload
    <2>. QED
        BY <2>1, PacksSame
<1>6. ASSUME NEW c \in Client, NEW a \in Agent, NEW id \in Id, Create(c, a, id) PROVE RulesInv' /\ RulesKept
    <2>1. UNCHANGED <<packs, touched, overlapped>>
        BY <1>6 DEF Create
    <2>2. pc'[c].at = "ensure" /\ \A d \in Client : d # c => pc'[d] = pc[d]
        BY <1>6 DEF Create, TypeOK
    <2>3. HasRead(c)'
        BY <2>2 DEF HasRead
    <2>. QED
        BY <2>1, <2>2, <2>3, PacksSame
<1>7. ASSUME NEW c \in Client, NEW a \in Agent, NEW id \in Id, Delete(c, a, id) PROVE RulesInv' /\ RulesKept
    <2>1. UNCHANGED <<packs, touched, overlapped>>
        BY <1>7 DEF Delete
    <2>2. PICK p \in PacksFor(a) :
            pc' = [pc EXCEPT ![c] = [at |-> "replace", op |-> "delete", agent |-> a, pack |-> p,
                      id |-> id, text |-> Without(Blocks(packs[p]), {id}), left |-> {}]]
        BY <1>7 DEF Delete
    <2>3. /\ pc'[c].pack = p /\ pc'[c].op = "delete" /\ pc'[c].id = id
          /\ pc'[c].text = Without(Blocks(packs[p]), {id})
          /\ \A d \in Client : d # c => pc'[d] = pc[d]
        BY <2>2 DEF TypeOK
    <2>4. p \in DOMAIN packs /\ packs[p] \in Pack
        BY IdsTyped DEF TypeOK
    <2>5. ToSet(Without(Blocks(packs[p]), {id})) = ToSet(Blocks(packs[p])) \ {id}
        BY <2>4, BlocksFacts, WithoutFacts DEF Text
    <2>6. p \in touched \/ IdsOf(packs[p]) \subseteq ToSet(Blocks(packs[p]))
        BY <2>4, ReadsEverything DEF RulesInv, RulesNamed, SourceKept
    <2>7. HasRead(c)'
        BY <2>1, <2>3, <2>4, <2>5, <2>6 DEF HasRead, Ids
    <2>. QED
        BY <2>1, <2>3, <2>7, PacksSame
<1>8. ASSUME NEW c \in Client, NEW p \in Named, NEW text \in PushText, PutPack(c, p, text) PROVE RulesInv' /\ RulesKept
    <2>1. p \in PackIds /\ text \in Text /\ Putting(c, "put", p, text)
        BY <1>8, Texts DEF PutPack, PackIds, TypeOK
    <2>2. /\ pc'[c].at \in {"store", "sync"} /\ pc'[c].op = "put" /\ pc'[c].pack = p
          /\ \A d \in Client : d # c => pc'[d] = pc[d]
        BY <2>1, PuttingFacts DEF TypeOK
    <2>3. /\ pc[c].at = "idle" /\ overlapped' = overlapped \cup Overtaken(p)
          /\ packs' = With(packs, p, Inline(text)) /\ touched' = touched \ {p}
        BY <1>8 DEF PutPack, Begins
    <2>4. HasRead(c)' /\ \A d \in Client : d # c => OvertakenAt(d, p)
        BY <2>2, <2>3 DEF HasRead, OvertakenAt, Overtaken
    <2>5. NamedIn(packs'[p]) /\ SaysItsText(packs'[p]) /\ \A q : q # p => EntrySame(q)
        <3>1. NamedIn(Inline(text)) /\ SaysItsText(Inline(text))
            BY <2>1, MadeOfText
        <3>. QED
            BY <2>3, <3>1 DEF With, EntrySame
    <2>6. \A id : Excused(p, id)
        BY <2>2, <2>3 DEF Excused
    <2>. QED
        BY <2>4, <2>5, <2>6, PackReplaced
<1>9. ASSUME NEW c \in Client, PutConfig(c) PROVE RulesInv' /\ RulesKept
    <2>1. UNCHANGED <<packs, touched, overlapped>>
        BY <1>9 DEF PutConfig
    <2>2. pc'[c].at = "config" /\ \A d \in Client : d # c => pc'[d] = pc[d]
        BY <1>9, ConfigBegun DEF PutConfig, TypeOK
    <2>3. HasRead(c)'
        BY <2>2 DEF HasRead
    <2>. QED
        BY <2>1, <2>2, <2>3, PacksSame
<1>10. ASSUME NEW c \in Client, NEW p \in DOMAIN packs \ {Default}, DropPack(c, p) PROVE RulesInv' /\ RulesKept
    <2>1. p \in PackIds /\ <<>> \in Text /\ Putting(c, "drop", p, <<>>)
        BY <1>10, Texts DEF DropPack, PackIds, TypeOK
    <2>2. /\ pc'[c].at \in {"store", "sync"} /\ pc'[c].op = "drop" /\ pc'[c].pack = p
          /\ \A d \in Client : d # c => pc'[d] = pc[d]
        BY <2>1, PuttingFacts DEF TypeOK
    <2>3. /\ pc[c].at = "idle" /\ overlapped' = overlapped \cup Overtaken(p)
          /\ packs' = Less(packs, p) /\ touched' = touched \ {p}
        BY <1>10 DEF DropPack, Begins
    <2>4. HasRead(c)' /\ \A d \in Client : d # c => OvertakenAt(d, p)
        BY <2>2, <2>3 DEF HasRead, OvertakenAt, Overtaken
    <2>5. p \notin DOMAIN packs' /\ \A q : q # p => EntrySame(q)
        BY <2>3 DEF Less, EntrySame
    <2>6. \A id : Excused(p, id)
        BY <2>2, <2>3 DEF Excused
    <2>. QED
        BY <2>4, <2>5, <2>6, PackReplaced
<1>11. ASSUME NEW source \in Source, Reload(source) PROVE RulesInv' /\ RulesKept
    <2>1. UNCHANGED <<packs, pc, touched, overlapped>>
        BY <1>11 DEF Reload
    <2>. QED
        BY <2>1, PacksSame
<1>12. ASSUME NEW c \in Client, NEW a \in Agent, NEW p \in Named, BindAgent(c, a, p) PROVE RulesInv' /\ RulesKept
    <2>1. UNCHANGED <<packs, touched, overlapped>>
        BY <1>12 DEF BindAgent
    <2>2. pc'[c].at = "sync" /\ \A d \in Client : d # c => pc'[d] = pc[d]
        BY <1>12, TellsFacts DEF BindAgent, TypeOK
    <2>3. HasRead(c)'
        BY <2>2 DEF HasRead
    <2>. QED
        BY <2>1, <2>2, <2>3, PacksSame
<1>13. ASSUME NEW c \in Client, NEW a \in Agent, NEW p \in Named, UnbindAgent(c, a, p) PROVE RulesInv' /\ RulesKept
    <2>1. UNCHANGED <<packs, touched, overlapped>>
        BY <1>13 DEF UnbindAgent
    <2>2. pc'[c].at = "sync" /\ \A d \in Client : d # c => pc'[d] = pc[d]
        BY <1>13, TellsFacts DEF UnbindAgent, TypeOK
    <2>3. HasRead(c)'
        BY <2>2 DEF HasRead
    <2>. QED
        BY <2>1, <2>2, <2>3, PacksSame
<1>14. ASSUME NEW c \in Client, Ensure(c) PROVE RulesInv' /\ RulesKept
    <2>1. PICK p, pack :
            /\ p = pc[c].pack /\ pack = IF p \in DOMAIN packs THEN packs[p] ELSE Inline(<<>>)
            /\ packs' = With(packs, p, pack)
            /\ pc' = [pc EXCEPT ![c].at = "bind", ![c].text = Append(Blocks(pack), pc[c].id)]
        BY <1>14 DEF Ensure
    <2>2. UNCHANGED <<touched, overlapped>>
        BY <1>14 DEF Ensure
    <2>3. pc[c].id \in Block /\ pack \in Pack /\ <<>> \in Text
        BY <2>1, Texts, PackFacts DEF TypeOK, Thread
    <2>4. /\ NamedIn(pack) /\ (p \in touched \/ SaysItsText(pack))
          /\ IdsOf(pack) = Ids(packs, p)
        <3>1. CASE p \in DOMAIN packs
            BY <2>1, <3>1 DEF RulesInv, RulesNamed, SourceKept, Ids
        <3>2. CASE p \notin DOMAIN packs
            <4>1. pack = Inline(<<>>) /\ Ids(packs, p) = {}
                BY <2>1, <3>2 DEF Ids
            <4>2. NamedIn(pack) /\ SaysItsText(pack) /\ IdsOf(pack) = ToSet(<<>>)
                BY <2>3, <4>1, MadeOfText, PackFacts
            <4>3. ToSet(<<>>) = {}
                BY DEF ToSet
            <4>. QED
                BY <4>1, <4>2, <4>3
        <3>. QED
            BY <3>1, <3>2
    <2>5. /\ p \in DOMAIN packs' /\ packs'[p] = pack /\ Ids(packs', p) = Ids(packs, p)
          /\ \A q : q # p => EntrySame(q)
        BY <2>1, <2>2, <2>4 DEF With, Ids, EntrySame
    <2>6. /\ pc'[c].pack = p /\ pc'[c].text = Append(Blocks(pack), pc[c].id)
          /\ \A d \in Client : d # c => pc'[d] = pc[d]
        BY <2>1 DEF TypeOK, Thread
    <2>7. ToSet(Append(Blocks(pack), pc[c].id)) = ToSet(Blocks(pack)) \cup {pc[c].id}
        BY <2>3, BlocksFacts, ElementsOfAppended DEF Text
    <2>8. p \in touched \/ IdsOf(pack) \subseteq ToSet(Blocks(pack))
        BY <2>3, <2>4, ReadsEverything
    <2>9. HasRead(c)'
        BY <2>2, <2>4, <2>5, <2>6, <2>7, <2>8 DEF HasRead
    <2>. QED
        BY <2>2, <2>4, <2>5, <2>6, <2>9, PackReplaced
<1>15. ASSUME NEW c \in Client, BindOwn(c) PROVE RulesInv' /\ RulesKept
    <2>0. HasRead(c) /\ UNCHANGED <<packs, touched>>
        BY <1>15 DEF BindOwn, RulesInv, ReadAll
    <2>1. CASE pc[c].pack \in DOMAIN packs
        <3>1. /\ pc[c].at = "bind" /\ pc'[c].at = "replace" /\ pc'[c].pack = pc[c].pack
              /\ pc'[c].text = pc[c].text /\ pc'[c].op = pc[c].op /\ pc'[c].id = pc[c].id
              /\ \A d \in Client : d # c => pc'[d] = pc[d]
            BY <1>15, <2>1, GoesFacts DEF BindOwn, TypeOK
        <3>2. overlapped' = overlapped
            BY <1>15, <2>1 DEF BindOwn
        <3>3. HasRead(c)'
            BY <2>0, <3>1, <3>2 DEF HasRead
        <3>. QED
            BY <2>0, <3>1, <3>2, <3>3, PacksSame
    <2>2. CASE pc[c].pack \notin DOMAIN packs
        <3>1. /\ pc'[c].at = "idle"
              /\ \A d \in Client : d # c => pc'[d] = pc[d]
            BY <1>15, <2>2, EndsFacts, IdleFacts DEF BindOwn, TypeOK
        <3>2. overlapped' = overlapped \ {c}
            BY <1>15, <2>2 DEF BindOwn
        <3>3. HasRead(c)'
            BY <3>1 DEF HasRead
        <3>. QED
            BY <2>0, <3>1, <3>2, <3>3, PacksSame
    <2>. QED
        BY <2>1, <2>2
<1>16. ASSUME NEW c \in Client, Replace(c) PROVE RulesInv' /\ RulesKept
    <2>1. PICK p : p = pc[c].pack
        OBVIOUS
    <2>2. /\ pc[c].at = "replace" /\ pc'[c].at = "sync" /\ pc[c].text \in Text
          /\ \A d \in Client : d # c => pc'[d] = pc[d]
        BY <1>16, GoesFacts DEF Replace, TypeOK, Thread
    <2>3. /\ overlapped' = (overlapped \cup Overtaken(p)) \ {c}
          /\ packs' = With(packs, p, Inline(pc[c].text)) /\ touched' = touched \ {p}
        BY <1>16, <2>1 DEF Replace
    <2>4. HasRead(c)' /\ \A d \in Client : d # c => OvertakenAt(d, p)
        BY <2>2, <2>3 DEF HasRead, OvertakenAt, Overtaken
    <2>5. NamedIn(packs'[p]) /\ SaysItsText(packs'[p]) /\ \A q : q # p => EntrySame(q)
        <3>1. NamedIn(Inline(pc[c].text)) /\ SaysItsText(Inline(pc[c].text))
            BY <2>2, MadeOfText
        <3>. QED
            BY <2>3, <3>1 DEF With, EntrySame
    <2>6. Ids(packs', p) = ToSet(pc[c].text)
        BY <2>2, <2>3, PackFacts DEF Ids, With
    <2>7. ASSUME NEW id \in Ids(packs, p) \ Ids(packs', p) PROVE Excused(p, id)
        <3>1. HasRead(c)
            BY DEF RulesInv, ReadAll
        <3>2. \/ c \in overlapped \/ p \in touched
              \/ pc[c].op = "delete" /\ pc[c].id = id
            BY <2>1, <2>2, <2>6, <2>7, <3>1 DEF HasRead
        <3>. QED
            BY <2>1, <2>2, <3>2 DEF Excused
    <2>. QED
        BY <2>4, <2>5, <2>7, PackReplaced
<1>17. ASSUME NEW c \in Client, NEW done \in BOOLEAN, Store(c, done) PROVE RulesInv' /\ RulesKept
    <2>1. UNCHANGED <<packs, touched>> /\ overlapped' = overlapped \ {c}
        BY <1>17 DEF Store
    <2>2. pc'[c].at \in {"config", "sync"} /\ \A d \in Client : d # c => pc'[d] = pc[d]
        BY <1>17, GoesFacts DEF Store, TypeOK
    <2>3. HasRead(c)'
        BY <2>2 DEF HasRead
    <2>. QED
        BY <2>1, <2>2, <2>3, PacksSame
<1>18. ASSUME NEW c \in Client, BindConfig(c) PROVE RulesInv' /\ RulesKept
    <2>1. UNCHANGED <<packs, touched, overlapped>>
        BY <1>18 DEF BindConfig
    <2>2. pc'[c].at = "sync" /\ \A d \in Client : d # c => pc'[d] = pc[d]
        BY <1>18, GoesFacts DEF BindConfig, TypeOK
    <2>3. HasRead(c)'
        BY <2>2 DEF HasRead
    <2>. QED
        BY <2>1, <2>2, <2>3, PacksSame
<1>19. ASSUME NEW c \in Client, Sync(c) PROVE RulesInv' /\ RulesKept
    <2>1. UNCHANGED <<packs, touched, overlapped>>
        BY <1>19 DEF Sync
    <2>2. pc'[c].at = "idle" /\ \A d \in Client : d # c => pc'[d] = pc[d]
        BY <1>19, EndsFacts, IdleFacts DEF Sync, TypeOK
    <2>3. HasRead(c)'
        BY <2>2 DEF HasRead
    <2>. QED
        BY <2>1, <2>2, <2>3, PacksSame
<1>20. ASSUME NEW p \in DOMAIN packs, NEW id \in Id, AddRule(p, id) PROVE RulesInv' /\ RulesKept
    <2>0. packs[p] \in Pack /\ packs[p].rules \in Seq(Rule) /\ NamedIn(packs[p])
        BY DEF TypeOK, Pack, RulesInv, RulesNamed
    <2>1. PICK rules : /\ packs' = [packs EXCEPT ![p].rules = rules]
                       /\ \A r \in ToSet(rules) : r.id \in ToSet(r.from)
        <3>1. packs' = [packs EXCEPT ![p].rules = Append(Without(packs[p].rules,
                           Defining(id, packs[p].rules)), [id |-> id, from |-> <<id>>])]
            BY <1>20 DEF AddRule
        <3>2. [id |-> id, from |-> <<id>>] \in Rule /\ id \in ToSet(<<id>>)
            BY Texts DEF Rule, Text, ToSet
        <3>3. PICK rest \in Seq(Rule) : /\ rest = Without(packs[p].rules, Defining(id, packs[p].rules))
                                       /\ ToSet(rest) \subseteq ToSet(packs[p].rules)
            BY <2>0, WithoutFacts
        <3>4. ToSet(Append(rest, [id |-> id, from |-> <<id>>])) = ToSet(rest) \cup {[id |-> id, from |-> <<id>>]}
            BY <3>2, <3>3, ElementsOfAppended
        <3>5. PICK rules : /\ packs' = [packs EXCEPT ![p].rules = rules]
                           /\ ToSet(rules) \subseteq ToSet(packs[p].rules) \cup {[id |-> id, from |-> <<id>>]}
            BY <3>1, <3>3, <3>4
        <3>6. \A r \in ToSet(rules) : r.id \in ToSet(r.from)
            BY <2>0, <3>2, <3>5 DEF NamedIn
        <3>. QED
            BY <3>5, <3>6
    <2>2. /\ pc' = pc /\ overlapped' = overlapped \cup Overtaken(p)
          /\ touched' = touched \cup {p}
        BY <1>20 DEF AddRule
    <2>3. \A q : q # p => EntrySame(q)
        BY <2>1, <2>2 DEF EntrySame
    <2>4. NamedIn(packs'[p])
        BY <2>0, <2>1 DEF NamedIn, Pack
    <2>5. \A d \in Client : OvertakenAt(d, p)
        BY <2>2 DEF OvertakenAt, Overtaken
    <2>6. \A i : Excused(p, i)
        BY <2>2 DEF Excused
    <2>. QED
        BY <2>2, <2>3, <2>4, <2>5, <2>6, PackReplaced
<1>21. ASSUME NEW p \in DOMAIN packs, NEW id \in Id, RemoveRule(p, id) PROVE RulesInv' /\ RulesKept
    <2>0. packs[p] \in Pack /\ packs[p].rules \in Seq(Rule) /\ NamedIn(packs[p])
        BY DEF TypeOK, Pack, RulesInv, RulesNamed
    <2>1. PICK rules : /\ packs' = [packs EXCEPT ![p].rules = rules]
                       /\ \A r \in ToSet(rules) : r.id \in ToSet(r.from)
        <3>1. packs' = [packs EXCEPT ![p].rules = Without(packs[p].rules, Defining(id, packs[p].rules))]
            BY <1>21 DEF RemoveRule
        <3>2. ToSet(Without(packs[p].rules, Defining(id, packs[p].rules))) \subseteq ToSet(packs[p].rules)
            BY <2>0, WithoutFacts
        <3>. QED
            BY <2>0, <3>1, <3>2 DEF NamedIn
    <2>2. /\ pc' = pc /\ overlapped' = overlapped \cup Overtaken(p)
          /\ touched' = touched \cup {p}
        BY <1>21 DEF RemoveRule
    <2>3. \A q : q # p => EntrySame(q)
        BY <2>1, <2>2 DEF EntrySame
    <2>4. NamedIn(packs'[p])
        BY <2>0, <2>1 DEF NamedIn, Pack
    <2>5. \A d \in Client : OvertakenAt(d, p)
        BY <2>2 DEF OvertakenAt, Overtaken
    <2>6. \A i : Excused(p, i)
        BY <2>2 DEF Excused
    <2>. QED
        BY <2>2, <2>3, <2>4, <2>5, <2>6, PackReplaced
<1>22. ASSUME NEW a \in Agent, BuildView(a) PROVE RulesInv' /\ RulesKept
    <2>1. UNCHANGED <<packs, pc, touched, overlapped>>
        BY <1>22 DEF BuildView
    <2>. QED
        BY <2>1, PacksSame
<1>23. ASSUME Restart PROVE RulesInv' /\ RulesKept
    <2>1. \A d \in Client : pc'[d].at = "idle"
        BY <1>23, IdleFacts DEF Restart
    <2>2. \A p \in DOMAIN packs' : NamedIn(packs'[p]) /\ SaysItsText(packs'[p])
        BY <1>23, BootedMade DEF Restart
    <2>3. RulesInv'
        BY <2>1, <2>2 DEF RulesInv, RulesNamed, SourceKept, ReadAll, HasRead, NamedIn, SaysItsText, Compile
    <2>4. used'.boots # used.boots
        BY <1>23 DEF Restart, Spent, TypeOK
    <2>. QED
        BY <2>3, <2>4 DEF RulesKept, Excused
<1>24. CASE UNCHANGED vars
    <2>1. UNCHANGED <<packs, pc, touched, overlapped>>
        BY <1>24 DEF vars
    <2>. QED
        BY <2>1, PacksSame
<1>25. Sources \subseteq Source
    BY SourcesTyped
<1>26. ASSUME NEW c \in Client, NEW p \in DOMAIN AskedText, NEW text \in AskedText[p],
              ConfigPack(c, p, text) PROVE RulesInv' /\ RulesKept
    <2>1. /\ text \in Text /\ pc[c].at = "config" /\ pc'[c].at \in {"store", "config"}
          /\ pc'[c].op = pc[c].op /\ pc'[c].pack = p
          /\ pc'[c].left = pc[c].left \ {p} /\ p \in pc[c].left
          /\ \A d \in Client : d # c => pc'[d] = pc[d]
          /\ packs' = With(packs, p, Labelled(text)) /\ touched' = touched \ {p}
        BY <1>26, ConfigPut DEF TypeOK
    <2>2. overlapped' = overlapped \cup Overtaken(p) /\ pc[c].op = "config"
        BY <1>26, <2>1 DEF ConfigPack, WorkInv, StorableText
    <2>3. HasRead(c)' /\ \A d \in Client : d # c => OvertakenAt(d, p)
        BY <2>1, <2>2 DEF HasRead, OvertakenAt, Overtaken
    <2>4. NamedIn(packs'[p]) /\ SaysItsText(packs'[p]) /\ \A q : q # p => EntrySame(q)
        <3>1. NamedIn(Labelled(text)) /\ SaysItsText(Labelled(text))
            BY <2>1, MadeOfText
        <3>. QED
            BY <2>1, <3>1 DEF With, EntrySame
    <2>5. \A id : Excused(p, id)
        <3>1. pc'[c] # pc[c]
            BY <2>1
        <3>. QED
            BY <2>1, <2>2, <3>1 DEF Excused
    <2>. QED
        BY <2>3, <2>4, <2>5, PackReplaced
<1>27. ASSUME NEW c \in Client, NEW p, NEW text, ConfigRefused(c, p, text) PROVE RulesInv' /\ RulesKept
    <2>1. UNCHANGED <<packs, touched, overlapped>>
        BY <1>27 DEF ConfigRefused
    <2>2. pc'[c].at = "idle" /\ \A d \in Client : d # c => pc'[d] = pc[d]
        BY <1>27, EndsFacts, IdleFacts DEF ConfigRefused, TypeOK
    <2>3. HasRead(c)'
        BY <2>2 DEF HasRead
    <2>. QED
        BY <2>1, <2>2, <2>3, PacksSame
<1>28. ASSUME NEW r \in Reloader, Read(r) PROVE RulesInv' /\ RulesKept
    <2>1. UNCHANGED <<packs, pc, touched, overlapped>>
        BY <1>28 DEF Read
    <2>. QED
        BY <2>1, PacksSame
<1>29. ASSUME NEW r \in Reloader, Install(r) PROVE RulesInv' /\ RulesKept
    <2>1. PICK text \in Text : text = reload[r].text
        BY ReloadFacts DEF Progress
    <2>2. PICK pack \in {Inline(text), Labelled(text)} : packs' = With(packs, Default, pack)
        BY <1>29, <2>1 DEF Install
    <2>3. /\ pc' = pc /\ touched' = touched \ {Default}
          /\ overlapped' = overlapped \cup Overtaken(Default)
        BY <1>29 DEF Install
    <2>4. \A a \in Agent : AgentPack[a] # Default
        BY DEF AdminAssumption
    <2>5. \A d \in Client : OvertakenAt(d, Default)
        BY <2>3 DEF OvertakenAt, Overtaken
    <2>6. /\ NamedIn(packs'[Default]) /\ SaysItsText(packs'[Default])
          /\ \A q : q # Default => EntrySame(q)
        <3>1. NamedIn(pack) /\ SaysItsText(pack)
            BY MadeOfText
        <3>. QED
            BY <2>2, <2>3, <3>1 DEF With, EntrySame
    <2>. QED
        BY <2>4, <2>5, <2>6, PackReplaced
<1>30. ASSUME NEW r \in Reloader, Installed(r) PROVE RulesInv' /\ RulesKept
    <2>1. UNCHANGED <<packs, pc, touched, overlapped>>
        BY <1>30 DEF Installed
    <2>. QED
        BY <2>1, PacksSame
<1>31. ASSUME NEW r \in Reloader, Refuse(r) PROVE RulesInv' /\ RulesKept
    <2>1. UNCHANGED <<packs, pc, touched, overlapped>>
        BY <1>31 DEF Refuse
    <2>. QED
        BY <2>1, PacksSame
<1>32. ASSUME NEW c \in Client, NEW done, BindingRaises(c, done) PROVE RulesInv' /\ RulesKept
    <2>1. UNCHANGED <<packs, touched, overlapped>>
        BY <1>32 DEF BindingRaises
    <2>2. pc'[c].at = "idle" /\ \A d \in Client : d # c => pc'[d] = pc[d]
        BY <1>32, EndsFacts, IdleFacts DEF BindingRaises, TypeOK
    <2>3. HasRead(c)'
        BY <2>2 DEF HasRead
    <2>. QED
        BY <2>1, <2>2, <2>3, PacksSame
<1>33. ASSUME KeepView PROVE RulesInv' /\ RulesKept
    <2>1. UNCHANGED <<packs, pc, touched, overlapped>>
        BY <1>33 DEF KeepView
    <2>. QED
        BY <2>1, PacksSame
<1>. QED
    BY <1>1, <1>2, <1>3, <1>4, <1>5, <1>6, <1>7, <1>8, <1>9, <1>10, <1>11, <1>12, <1>13, <1>14,
       <1>15, <1>16, <1>17, <1>18, <1>19, <1>20, <1>21, <1>22, <1>23, <1>24, <1>25, <1>26, <1>27,
       <1>28, <1>29, <1>30, <1>31, <1>32, <1>33 DEF Next, Request, Watching, Reloader

\* No rule of an agent's pack is lost but by a request that deletes it, a put or
\* removal of the whole pack, a restart, a change rule by rule, or two who met.
THEOREM RulesSurvive == Spec => AgentRulesSurvive
<1>. DEFINE Inv == TypeOK /\ WorkInv /\ RulesInv
<1>1. Init => Inv
    BY AdminAssumption, TypeInit, StoreInit, RulesInit DEF StoreInv
<1>2. Inv /\ [Next]_vars => Inv' /\ [RulesKept]_vars
    BY AdminAssumption, TypeStep, WorkStep, RulesStep
<1>. QED
    <2>. HIDE DEF Inv
    <2>. QED
        BY <1>1, <1>2, PTL DEF Spec, AgentRulesSurvive

=============================================================================
