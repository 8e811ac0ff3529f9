--------------------------- MODULE GenerateProofs ---------------------------
(***************************************************************************)
(* The safety of ch generate for every project: of the walk, its           *)
(* dispatcher and its workers, and of the goroutines that render what they *)
(* found. The paths of a project are a tree: first what that gives.        *)
(***************************************************************************)
EXTENDS Generate, FiniteSetTheorems, SequenceTheorems, TLAPS

-----------------------------------------------------------------------------
(* The branches of a tree.                                                 *)

\* Everything that lists what is in S is in S.
Above(t, S) == \A d \in DOMAIN t : Range(t[d]) \cap S # {} => d \in S

\* A directory lists its entries in an order.
LEMMA EntriesAre ==
    ASSUME NEW t \in Trees, NEW d \in DOMAIN t
    PROVE  /\ t[d] \in Seq(Range(t[d]))
           /\ Len(t[d]) \in Nat /\ DOMAIN t[d] = 1 .. Len(t[d])
           /\ \A x : x \in Range(t[d]) <=> \E i \in 1 .. Len(t[d]) : t[d][i] = x
  <1>1. t[d] \in Seq(Range(t[d]))
    BY DiscoveryAssumption
  <1>2. Len(t[d]) \in Nat /\ DOMAIN t[d] = 1 .. Len(t[d])
    BY <1>1
  <1> QED BY <1>1, <1>2 DEF Range

\* Chain is the least set of its kind.
LEMMA ChainIs ==
    ASSUME NEW t \in Trees, NEW e
    PROVE  /\ e \in Chain(t, e) /\ Chain(t, e) \subseteq DOMAIN t \cup {e}
           /\ Above(t, Chain(t, e))
           /\ \A S : e \in S /\ Above(t, S) => Chain(t, e) \subseteq S
  <1> DEFINE all == DOMAIN t \cup {e}
             C == {x \in all : \A S \in SUBSET all : e \in S /\ Above(t, S) => x \in S}
  <1>1. Chain(t, e) = C
    BY DEF Chain, Above
  <1>2. e \in C /\ C \subseteq all
    OBVIOUS
  <1>3. Above(t, C)
    <2> SUFFICES ASSUME NEW d \in DOMAIN t, NEW x \in Range(t[d]), x \in C,
                        NEW S \in SUBSET all, e \in S, Above(t, S)
                 PROVE  d \in S
      BY DEF Above
    <2>1. x \in S
      OBVIOUS
    <2> QED BY <2>1 DEF Above
  <1>4. ASSUME NEW S, e \in S, Above(t, S) PROVE C \subseteq S
    <2>1. S \cap all \in SUBSET all /\ e \in S \cap all /\ Above(t, S \cap all)
      BY <1>4 DEF Above
    <2> HIDE DEF all
    <2> QED BY <2>1
  <1> HIDE DEF C
  <1> QED BY <1>1, <1>2, <1>3, <1>4

\* Below a directory the chain is that of the directory and the entry.
LEMMA ChainBelow ==
    ASSUME NEW t \in Trees, NEW d \in DOMAIN t, NEW e \in Range(t[d])
    PROVE  Chain(t, e) = {e} \cup Chain(t, d)
  <1>1. Above(t, {e} \cup Chain(t, d))
    <2> SUFFICES ASSUME NEW o \in DOMAIN t, NEW x \in Range(t[o]), x \in {e} \cup Chain(t, d)
                 PROVE  o \in Chain(t, d)
      BY DEF Above
    <2>1. CASE x \in Chain(t, d)
      BY <2>1, ChainIs DEF Above
    <2>2. CASE x = e
      <3>1. PICK i \in 1 .. Len(t[d]), j \in 1 .. Len(t[o]) : t[d][i] = e /\ t[o][j] = e
        BY <2>2, EntriesAre
      <3>2. i \in DOMAIN t[d] /\ j \in DOMAIN t[o]
        BY EntriesAre
      <3>3. o = d
        BY <3>1, <3>2, DiscoveryAssumption
      <3> QED BY <3>3, ChainIs
    <2> QED BY <2>1, <2>2
  <1>2. Chain(t, e) \subseteq {e} \cup Chain(t, d)
    BY <1>1, ChainIs
  <1>3. d \in Chain(t, e) /\ e \in Chain(t, e)
    BY ChainIs DEF Above
  <1>4. Chain(t, d) \subseteq Chain(t, e)
    BY <1>3, ChainIs
  <1> QED BY <1>2, <1>3, <1>4

\* A directory of a chain that is not its end lists the next one of it.
LEMMA ChainGoesOn ==
    ASSUME NEW t \in Trees, NEW e, NEW d \in Chain(t, e), d # e
    PROVE  d \in DOMAIN t /\ \E x \in Range(t[d]) : x \in Chain(t, e)
  <1>1. d \in DOMAIN t
    BY ChainIs
  <1>2. ASSUME \A x \in Range(t[d]) : x \notin Chain(t, e) PROVE FALSE
    <2>1. Above(t, Chain(t, e) \ {d})
      BY <1>2, ChainIs DEF Above
    <2>2. e \in Chain(t, e) \ {d}
      BY ChainIs
    <2>3. Chain(t, e) \subseteq Chain(t, e) \ {d}
      BY <2>1, <2>2, ChainIs
    <2> QED BY <2>3
  <1> QED BY <1>1, <1>2

\* An entry the walk comes to: below Root, with no rootfs directory above it, and
\* in each directory above it no config comes before its branch.
Open(t, e) ==
    /\ Root \in Chain(t, e)
    /\ (Chain(t, e) \ {e}) \cap RootfsDirs = {}
    /\ \A d \in Chain(t, e) \cap DOMAIN t : \A i \in DOMAIN t[d] :
          t[d][i] \in Chain(t, e) => \A j \in 1 .. (i - 1) : t[d][j] \notin Configs

\* The walk starts where it may.
LEMMA RootIsOpen ==
    ASSUME NEW t \in Trees PROVE Open(t, Root) /\ Chain(t, Root) = {Root}
  <1>1. Above(t, {Root})
    BY DiscoveryAssumption DEF Above
  <1>2. Chain(t, Root) = {Root}
    BY <1>1, ChainIs
  <1>3. ASSUME NEW d \in DOMAIN t, NEW i \in DOMAIN t[d] PROVE t[d][i] # Root
    <2>1. Root \notin Range(t[d])
      BY DiscoveryAssumption
    <2>2. t[d][i] \in Range(t[d])
      BY DEF Range
    <2> QED BY <2>1, <2>2
  <1> QED BY <1>2, <1>3 DEF Open

\* The first config of an open directory, and what comes before it, is open.
LEMMA OpenBelow ==
    ASSUME NEW t \in Trees, NEW d \in DOMAIN t, Open(t, d), d \notin RootfsDirs,
           NEW k \in DOMAIN t[d], \A j \in 1 .. (k - 1) : t[d][j] \notin Configs
    PROVE  Open(t, t[d][k])
  <1> DEFINE e == t[d][k]
  <1>1. e \in Range(t[d])
    BY DEF Range
  <1> HIDE DEF e
  <1>2. Chain(t, e) = {e} \cup Chain(t, d)
    BY <1>1, ChainBelow
  <1>3. Root \in Chain(t, e) /\ (Chain(t, e) \ {e}) \cap RootfsDirs = {}
    BY <1>2 DEF Open
  <1>4. ASSUME NEW o \in DOMAIN t, NEW i \in DOMAIN t[o], t[o][i] \in Chain(t, e)
        PROVE  \A j \in 1 .. (i - 1) : t[o][j] \notin Configs
    <2>1. CASE t[o][i] = e
      BY <2>1, DiscoveryAssumption DEF e
    <2>2. CASE t[o][i] \in Chain(t, d)
      <3>1. o \in Chain(t, d)
        BY <2>2, ChainIs DEF Above, Range
      <3> QED BY <2>2, <3>1 DEF Open
    <2> QED BY <1>2, <1>4, <2>1, <2>2
  <1> QED BY <1>3, <1>4 DEF Open, e

\* The configs that are visible are those that are open.
LEMMA VisibleIsOpen ==
    ASSUME NEW t \in Trees, NEW c PROVE c \in Defining[t] <=> c \in Configs /\ Open(t, c)
  <1>1. c \in Defining[t] <=>
           /\ c \in Configs
           /\ Root \in Chain(t, c) /\ Chain(t, c) \cap RootfsDirs = {}
           /\ \A d \in Chain(t, c) \cap DOMAIN t : \A i \in DOMAIN t[d] :
                 t[d][i] \in Chain(t, c) => \A j \in 1 .. (i - 1) : t[d][j] \notin Configs
    BY DEF Defining
  <1>2. c \in Configs => c \notin RootfsDirs
    BY DiscoveryAssumption
  <1> QED BY <1>1, <1>2 DEF Open
-----------------------------------------------------------------------------
(* The walk.                                                               *)

\* Putting a directory on the stack of the walk.
LEMMA PushIs ==
    ASSUME NEW X, NEW q \in Seq(X), NEW s \in X
    PROVE  <<s>> \o q \in Seq(X) /\ <<s>> \o q # <<>> /\ Range(<<s>> \o q) = {s} \cup Range(q)
  <1> DEFINE p == <<s>> \o q
  <1>1. /\ p \in Seq(X) /\ Len(q) \in Nat /\ Len(p) = Len(q) + 1 /\ p[1] = s
        /\ \A i \in 1 .. Len(q) : p[i + 1] = q[i]
        /\ DOMAIN p = 1 .. Len(p) /\ DOMAIN q = 1 .. Len(q)
    OBVIOUS
  <1> HIDE DEF p
  <1>2. \A i \in 1 .. Len(p) : i = 1 \/ \E j \in 1 .. Len(q) : i = j + 1
    <2>1. ASSUME NEW i \in 1 .. Len(p), i # 1
          PROVE  i - 1 \in 1 .. Len(q) /\ i = (i - 1) + 1
      BY <1>1, <2>1
    <2> QED BY <2>1
  <1>3. Range(p) = {s} \cup Range(q)
    <2>1. \A i \in 1 .. Len(p) : p[i] = s \/ \E j \in 1 .. Len(q) : p[i] = q[j]
      BY <1>1, <1>2
    <2>2. 1 \in 1 .. Len(p) /\ \A j \in 1 .. Len(q) : j + 1 \in 1 .. Len(p)
      BY <1>1
    <2>3. Range(p) = {p[i] : i \in 1 .. Len(p)} /\ Range(q) = {q[i] : i \in 1 .. Len(q)}
      BY <1>1 DEF Range
    <2>4. p[1] = s /\ \A j \in 1 .. Len(q) : p[j + 1] = q[j]
      BY <1>1
    <2>5. \A x : x \in Range(p) => x \in {s} \cup Range(q)
      BY <2>1, <2>3
    <2>6. \A x : x \in {s} \cup Range(q) => x \in Range(p)
      BY <2>2, <2>3, <2>4
    <2> QED BY <2>5, <2>6
  <1>4. p # <<>>
    BY <1>1
  <1> QED BY <1>1, <1>3, <1>4 DEF p

\* Taking a directory from it.
LEMMA PopIs ==
    ASSUME NEW X, NEW q \in Seq(X), q # <<>>
    PROVE  /\ Head(q) \in X /\ Tail(q) \in Seq(X)
           /\ Head(q) = q[1] /\ Len(q) \in Nat \ {0} /\ Len(Tail(q)) = Len(q) - 1
           /\ \A i \in 1 .. Len(Tail(q)) : Tail(q)[i] = q[i + 1]
           /\ Range(q) = {Head(q)} \cup Range(Tail(q))
  <1> DEFINE p == Tail(q)
  <1>1. /\ p \in Seq(X) /\ Len(q) \in Nat \ {0} /\ Len(p) = Len(q) - 1 /\ Head(q) = q[1]
        /\ Head(q) \in X
        /\ \A i \in 1 .. Len(p) : p[i] = q[i + 1]
        /\ DOMAIN p = 1 .. Len(p) /\ DOMAIN q = 1 .. Len(q)
    OBVIOUS
  <1> HIDE DEF p
  <1>2. Range(q) = {Head(q)} \cup Range(p)
    <2>1. ASSUME NEW i \in 1 .. Len(q), i # 1
          PROVE  i - 1 \in 1 .. Len(p) /\ q[i] = p[i - 1]
      <3>1. i - 1 \in 1 .. Len(p) /\ (i - 1) + 1 = i
        BY <1>1, <2>1
      <3> QED BY <1>1, <3>1
    <2>2. 1 \in 1 .. Len(q) /\ \A j \in 1 .. Len(p) : j + 1 \in 1 .. Len(q)
      BY <1>1
    <2>3. Range(p) = {p[i] : i \in 1 .. Len(p)} /\ Range(q) = {q[i] : i \in 1 .. Len(q)}
      BY <1>1 DEF Range
    <2>4. q[1] = Head(q) /\ \A j \in 1 .. Len(p) : p[j] = q[j + 1]
      BY <1>1
    <2>5. \A x : x \in Range(q) => x \in {Head(q)} \cup Range(p)
      BY <2>1, <2>3, <2>4
    <2>6. \A x : x \in {Head(q)} \cup Range(p) => x \in Range(q)
      BY <2>2, <2>3, <2>4
    <2> QED BY <2>5, <2>6
  <1> QED BY <1>1, <1>2 DEF p

\* What is left of a directory: its entries from the k-th on, with no config
\* before them.
Left(t, s) ==
    \/ s \in {<<>>, <<Root>>}
    \/ \E d \in DOMAIN t : \E k \in Nat \ {0} :
          /\ Open(t, d) /\ d \notin RootfsDirs
          /\ k + Len(s) = Len(t[d]) + 1
          /\ \A i \in 1 .. Len(s) : s[i] = t[d][k + i - 1]
          /\ \A j \in 1 .. (k - 1) : t[d][j] \notin Configs

Anything(t) == Entries(t) \cup {Root}

\* What holds of the entries left of a directory holds of the first of them.
LEMMA LeftHead ==
    ASSUME NEW t \in Trees, NEW s \in Seq(Anything(t)), Left(t, s), s # <<>>
    PROVE  Open(t, Head(s)) /\ (Head(s) \notin Configs => Left(t, Tail(s)))
  <1>1. Root \notin Configs
    BY DiscoveryAssumption
  <1>2. CASE s = <<Root>>
    <2>1. Head(s) = Root /\ Tail(s) = <<>>
      BY <1>2
    <2> QED BY <2>1, RootIsOpen DEF Left
  <1>3. CASE s # <<Root>>
    <2>1. PICK d \in DOMAIN t, k \in Nat \ {0} :
             /\ Open(t, d) /\ d \notin RootfsDirs
             /\ k + Len(s) = Len(t[d]) + 1
             /\ \A i \in 1 .. Len(s) : s[i] = t[d][k + i - 1]
             /\ \A j \in 1 .. (k - 1) : t[d][j] \notin Configs
      BY <1>3 DEF Left
    <2>2. /\ Len(s) \in Nat \ {0} /\ Head(s) = s[1]
          /\ Len(Tail(s)) = Len(s) - 1
          /\ \A i \in 1 .. Len(Tail(s)) : Tail(s)[i] = s[i + 1]
      BY PopIs
    <2>3. Len(t[d]) \in Nat /\ DOMAIN t[d] = 1 .. Len(t[d])
      BY EntriesAre
    <2>4. Head(s) = t[d][k] /\ k \in DOMAIN t[d]
      <3>1. 1 \in 1 .. Len(s) /\ k + 1 - 1 = k /\ k \in 1 .. Len(t[d])
        BY <2>1, <2>2, <2>3
      <3> QED BY <2>1, <2>2, <2>3, <3>1
    <2>5. Open(t, Head(s))
      BY <2>1, <2>4, OpenBelow
    <2>6. ASSUME Head(s) \notin Configs PROVE Left(t, Tail(s))
      <3>1. k + 1 \in Nat \ {0} /\ (k + 1) + Len(Tail(s)) = Len(t[d]) + 1
        BY <2>1, <2>2, <2>3
      <3>2. ASSUME NEW i \in 1 .. Len(Tail(s)) PROVE Tail(s)[i] = t[d][(k + 1) + i - 1]
        <4>1. i + 1 \in 1 .. Len(s) /\ k + (i + 1) - 1 = (k + 1) + i - 1
          BY <2>2
        <4> QED BY <2>1, <2>2, <4>1
      <3>3. \A j \in 1 .. ((k + 1) - 1) : t[d][j] \notin Configs
        <4>1. \A j \in 1 .. ((k + 1) - 1) : j \in 1 .. (k - 1) \/ j = k
          OBVIOUS
        <4> QED BY <2>1, <2>4, <2>6, <4>1
      <3> QED BY <2>1, <3>1, <3>2, <3>3 DEF Left
    <2> QED BY <2>5, <2>6
  <1> QED BY <1>2, <1>3

\* A config hides what comes after it in its directory.
LEMMA ConfigHidesRest ==
    ASSUME NEW t \in Trees, NEW s \in Seq(Anything(t)), Left(t, s), s # <<>>, Head(s) \in Configs,
           NEW c \in Defining[t], NEW x \in Range(s), x \in Chain(t, c)
    PROVE  c = Head(s)
  <1>1. Root \notin Configs /\ Head(s) \notin DOMAIN t /\ c \in Configs /\ Open(t, c)
    BY VisibleIsOpen, DiscoveryAssumption
  <1>2. CASE x = Head(s)
    BY <1>1, <1>2, ChainIs
  <1>3. CASE x # Head(s)
    <2>1. s # <<Root>>
      BY <1>1
    <2>2. PICK d \in DOMAIN t, k \in Nat \ {0} :
             /\ Open(t, d) /\ d \notin RootfsDirs
             /\ k + Len(s) = Len(t[d]) + 1
             /\ \A i \in 1 .. Len(s) : s[i] = t[d][k + i - 1]
             /\ \A j \in 1 .. (k - 1) : t[d][j] \notin Configs
      BY <2>1 DEF Left
    <2>3. Len(s) \in Nat \ {0} /\ Head(s) = s[1] /\ DOMAIN s = 1 .. Len(s)
      BY PopIs
    <2>4. Len(t[d]) \in Nat /\ DOMAIN t[d] = 1 .. Len(t[d])
      BY EntriesAre
    <2>5. PICK i \in 1 .. Len(s) : s[i] = x
      BY <2>3 DEF Range
    <2>6. /\ x = t[d][k + i - 1] /\ k + i - 1 \in DOMAIN t[d] /\ k \in 1 .. ((k + i - 1) - 1)
          /\ Head(s) = t[d][k]
      <3>1. i # 1
        BY <1>3, <2>3, <2>5
      <3>2. 1 \in 1 .. Len(s) /\ k + 1 - 1 = k
        BY <2>3
      <3>3. k + i - 1 \in 1 .. Len(t[d]) /\ k \in 1 .. ((k + i - 1) - 1)
        BY <2>2, <2>3, <2>4, <3>1
      <3> QED BY <2>2, <2>3, <2>4, <2>5, <3>2, <3>3
    <2>7. x \in Range(t[d])
      BY <2>6 DEF Range
    <2>8. d \in Chain(t, c)
      BY <2>7, ChainIs DEF Above
    <2> QED BY <1>1, <2>6, <2>8 DEF Open
  <1> QED BY <1>2, <1>3

\* A directory as a whole.
LEMMA AllIsLeft ==
    ASSUME NEW t \in Trees, NEW d \in DOMAIN t, Open(t, d), d \notin RootfsDirs
    PROVE  Left(t, t[d]) /\ t[d] \in Seq(Anything(t))
  <1>1. Len(t[d]) \in Nat /\ t[d] \in Seq(Range(t[d]))
    BY EntriesAre
  <1>2. Range(t[d]) \subseteq Anything(t)
    BY DEF Entries, Anything
  <1>3. 1 \in Nat \ {0} /\ 1 + Len(t[d]) = Len(t[d]) + 1 /\ 1 .. (1 - 1) = {}
        /\ \A i \in 1 .. Len(t[d]) : 1 + i - 1 = i
    BY <1>1
  <1> QED BY <1>1, <1>2, <1>3, SeqMonotonic DEF Left
-----------------------------------------------------------------------------
(* The discovery.                                                          *)

WalkInvariant ==
    /\ tree \in Trees /\ definition \in Definitions /\ unreadable \subseteq Dirs
    /\ stack \in Seq(Seq(Anything(tree)))
    /\ \A s \in Range(stack) : Left(tree, s)
    /\ walker \in {"walk", "list", "send", "error", "closed"}
    /\ walker \in {"list", "send"} => stack # <<>> /\ Head(stack) # <<>>
    /\ walker = "list" => Current \in Dirs \ RootfsDirs
    /\ walker = "send" => Current \in Configs
    /\ walker \in {"error", "closed"} => stack = <<>>

Handed(c) == c \in inbox \/ worker[c] # "none"

\* Unless something ends it early, the walk has handed over every visible config
\* or has a part of its branch ahead.
NoneIsPassed ==
    (~failed /\ ~interrupted /\ walker # "error") =>
        \A c \in Defining[tree] :
            Handed(c) \/ \E s \in Range(stack) : Range(s) \cap Chain(tree, c) # {}

GroupInvariant ==
    /\ inbox = {} \/ \E c \in Defining[tree] : inbox = {c}
    /\ dispatcher \in {"receive", "start", "done"}
    /\ dispatcher # "start" => inbox = {}
    /\ dispatcher = "done" => walker = "closed"
    /\ worker \in [Configs -> {"none", "parse", "store", "done"}]
    /\ \A c \in Configs :
          /\ worker[c] # "none" => c \in Defining[tree]
          /\ worker[c] = "store" => Valid(c)
          /\ worker[c] = "done" => c \in images \/ failed
    /\ \A c \in images : c \in Defining[tree] /\ Valid(c)
    /\ failed \in BOOLEAN /\ interrupted \in BOOLEAN
    /\ discovery \in {"running", "found", "failed"}
    /\ discovery = "found" => ~failed
    /\ DiscoveryIsQuiet

DiscoveryInvariant == WalkInvariant /\ NoneIsPassed /\ GroupInvariant

\* Before the first entry is visited, every visible config is ahead.
LEMMA DiscoveryStarts == DiscoveryInit => DiscoveryInvariant
  <1> SUFFICES ASSUME DiscoveryInit PROVE DiscoveryInvariant
    OBVIOUS
  <1>1. tree \in Trees /\ definition \in Definitions /\ unreadable \subseteq Dirs
    BY DEF DiscoveryInit
  <1>2. stack = << <<Root>> >> /\ Range(stack) = {<<Root>>} /\ Range(<<Root>>) = {Root}
    BY DEF DiscoveryInit, Range
  <1>3. stack \in Seq(Seq(Anything(tree)))
    BY <1>2 DEF Anything
  <1>4. WalkInvariant
    BY <1>1, <1>2, <1>3 DEF DiscoveryInit, WalkInvariant, Left
  <1>5. NoneIsPassed
    <2>1. \A c \in Defining[tree] : Root \in Chain(tree, c)
      BY <1>1, VisibleIsOpen DEF Open
    <2> QED BY <1>2, <2>1 DEF NoneIsPassed
  <1>6. GroupInvariant
    BY DEF DiscoveryInit, GroupInvariant, DiscoveryIsQuiet
  <1> QED BY <1>4, <1>5, <1>6 DEF DiscoveryInvariant

\* A step of the walk: the top of the stack is replaced by q and the rest of it.
LEMMA WalkStep ==
    ASSUME DiscoveryInvariant, stack # <<>>,
           UNCHANGED <<project, dispatch, worker, images, group>>,
           NEW P \in SUBSET Seq(Anything(tree)),
           stack' \in Seq(Seq(Anything(tree))), Range(stack') = P \cup Range(Tail(stack)),
           \A s \in P : Left(tree, s),
           walker' \in {"walk", "list", "send"},
           walker' \in {"list", "send"} =>
               stack' # <<>> /\ Head(stack') # <<>> /\ UNCHANGED stack,
           walker' = "list" => Current \in Dirs \ RootfsDirs,
           walker' = "send" => Current \in Configs,
           walker # "closed",
           \A c \in Defining[tree] :
               Range(Head(stack)) \cap Chain(tree, c) # {} /\ ~Cancelled =>
                   \E s \in P : Range(s) \cap Chain(tree, c) # {}
    PROVE  DiscoveryInvariant'
  <1>1. UNCHANGED <<tree, definition, unreadable, dispatcher, inbox, worker, images, failed,
                    interrupted, discovery>>
    BY DEF project, dispatch, group
  <1>2. stack \in Seq(Seq(Anything(tree))) /\ Range(stack) = {Head(stack)} \cup Range(Tail(stack))
    <2>1. stack \in Seq(Seq(Anything(tree)))
      BY DEF DiscoveryInvariant, WalkInvariant
    <2> QED BY <2>1, PopIs
  <1>3. WalkInvariant'
    <2>1. \A s \in Range(stack') : Left(tree, s)
      BY <1>2 DEF DiscoveryInvariant, WalkInvariant
    <2>2. walker' \in {"list", "send"} => Current' = Current
      BY DEF Current
    <2> QED BY <1>1, <2>1, <2>2 DEF DiscoveryInvariant, WalkInvariant, Dirs
  <1>4. NoneIsPassed'
    <2> SUFFICES ASSUME ~failed, ~interrupted, NEW c \in Defining[tree], ~Handed(c)
                 PROVE  \E s \in Range(stack') : Range(s) \cap Chain(tree, c) # {}
      BY <1>1 DEF NoneIsPassed, Handed
    <2>1. walker # "error"
      BY DEF DiscoveryInvariant, WalkInvariant
    <2>2. PICK s \in Range(stack) : Range(s) \cap Chain(tree, c) # {}
      BY <2>1 DEF DiscoveryInvariant, NoneIsPassed
    <2> QED BY <1>2, <2>2 DEF Cancelled
  <1>5. GroupInvariant'
    <2>1. \A c : Valid(c)' = Valid(c)
      BY <1>1 DEF Valid
    <2>2. dispatcher # "done"
      BY DEF DiscoveryInvariant, GroupInvariant
    <2>3. discovery = "running"
      BY <2>2 DEF DiscoveryInvariant, GroupInvariant, DiscoveryIsQuiet
    <2> QED BY <1>1, <2>1, <2>2, <2>3 DEF DiscoveryInvariant, GroupInvariant, DiscoveryIsQuiet
  <1> QED BY <1>3, <1>4, <1>5 DEF DiscoveryInvariant

\* What is on top of the stack.
LEMMA TopIs ==
    ASSUME DiscoveryInvariant, stack # <<>>, Head(stack) # <<>>
    PROVE  /\ tree \in Trees
           /\ stack \in Seq(Seq(Anything(tree)))
           /\ Head(stack) \in Seq(Anything(tree)) /\ Tail(Head(stack)) \in Seq(Anything(tree))
           /\ Left(tree, Head(stack)) /\ Open(tree, Current)
           /\ Range(Head(stack)) = {Current} \cup Range(Tail(Head(stack)))
           /\ Current \notin Configs => Left(tree, Tail(Head(stack)))
           /\ Skip \in Seq(Seq(Anything(tree)))
           /\ Range(Skip) = {Tail(Head(stack))} \cup Range(Tail(stack))
           /\ Skip # <<>>
           /\ Range(stack) = {Head(stack)} \cup Range(Tail(stack))
  <1>1. tree \in Trees /\ stack \in Seq(Seq(Anything(tree))) /\ \A s \in Range(stack) : Left(tree, s)
    BY DEF DiscoveryInvariant, WalkInvariant
  <1>2. Head(stack) \in Seq(Anything(tree)) /\ Tail(stack) \in Seq(Seq(Anything(tree)))
        /\ Range(stack) = {Head(stack)} \cup Range(Tail(stack))
    BY <1>1, PopIs
  <1>3. Tail(Head(stack)) \in Seq(Anything(tree))
        /\ Range(Head(stack)) = {Current} \cup Range(Tail(Head(stack)))
    BY <1>2, PopIs DEF Current
  <1>4. Left(tree, Head(stack))
    BY <1>1, <1>2
  <1>5. Open(tree, Current) /\ (Current \notin Configs => Left(tree, Tail(Head(stack))))
    <2>1. PICK s : s = Head(stack)
      OBVIOUS
    <2>2. s \in Seq(Anything(tree)) /\ Left(tree, s) /\ s # <<>>
      BY <1>2, <1>4, <2>1
    <2>3. Open(tree, Head(s)) /\ (Head(s) \notin Configs => Left(tree, Tail(s)))
      BY <1>1, <2>2, LeftHead
    <2> QED BY <2>1, <2>3 DEF Current
  <1>6. Skip \in Seq(Seq(Anything(tree))) /\ Skip # <<>>
        /\ Range(Skip) = {Tail(Head(stack))} \cup Range(Tail(stack))
    <2>1. PICK q : q = Tail(stack)
      OBVIOUS
    <2>2. PICK s : s = Tail(Head(stack))
      OBVIOUS
    <2>3. PICK X : X = Seq(Anything(tree))
      OBVIOUS
    <2>4. s \in X /\ q \in Seq(X)
      BY <1>2, <1>3, <2>1, <2>2, <2>3
    <2>5. <<s>> \o q \in Seq(X) /\ <<s>> \o q # <<>> /\ Range(<<s>> \o q) = {s} \cup Range(q)
      BY <2>4, PushIs, Zenon
    <2>6. Skip = <<s>> \o q
      BY <2>1, <2>2 DEF Skip
    <2> QED BY <2>1, <2>2, <2>3, <2>5, <2>6
  <1> QED BY <1>1, <1>2, <1>3, <1>4, <1>5, <1>6

\* A directory is entered, or passed over because it is a rootfs.
LEMMA VisitDirStep ==
    ASSUME DiscoveryInvariant, VisitDir PROVE DiscoveryInvariant'
  <1>1. /\ walker = "walk" /\ stack # <<>> /\ Head(stack) # <<>> /\ Current \in Dirs
        /\ UNCHANGED <<project, dispatch, worker, images, group>>
    BY DEF VisitDir, Visiting
  <1>2. CASE Cancelled \/ Current \in RootfsDirs
    <2>1. stack' = Skip /\ walker' = "walk"
      BY <1>1, <1>2 DEF VisitDir, Visiting
    <2>2. Current \notin Configs
      BY <1>1, TopIs, DiscoveryAssumption DEF Dirs
    <2>3. ASSUME NEW c \in Defining[tree], Range(Head(stack)) \cap Chain(tree, c) # {}, ~Cancelled
          PROVE  Range(Tail(Head(stack))) \cap Chain(tree, c) # {}
      <3>1. Open(tree, c) /\ c \in Configs
        BY <1>1, TopIs, VisibleIsOpen
      <3>2. Current \notin Chain(tree, c)
        BY <1>2, <2>2, <2>3, <3>1 DEF Open
      <3> QED BY <1>1, <2>3, <3>2, TopIs
    <2> DEFINE P == {Tail(Head(stack))}
    <2>4. P \in SUBSET Seq(Anything(tree)) /\ \A s \in P : Left(tree, s)
      BY <1>1, <2>2, TopIs
    <2>5. Range(stack') = P \cup Range(Tail(stack)) /\ stack' \in Seq(Seq(Anything(tree)))
      BY <1>1, <2>1, TopIs
    <2>6. \A c \in Defining[tree] :
             Range(Head(stack)) \cap Chain(tree, c) # {} /\ ~Cancelled =>
                 \E s \in P : Range(s) \cap Chain(tree, c) # {}
      BY <2>3
    <2> HIDE DEF P
    <2> QED BY <1>1, <2>1, <2>4, <2>5, <2>6, WalkStep
  <1>3. CASE ~(Cancelled \/ Current \in RootfsDirs)
    <2>1. walker' = "list" /\ UNCHANGED stack
      BY <1>1, <1>3 DEF VisitDir, Visiting
    <2> DEFINE P == {Head(stack)}
    <2>2. P \in SUBSET Seq(Anything(tree)) /\ \A s \in P : Left(tree, s)
      BY <1>1, TopIs
    <2>3. Range(stack') = P \cup Range(Tail(stack)) /\ stack' \in Seq(Seq(Anything(tree)))
      BY <1>1, <2>1, TopIs
    <2>4. \A c \in Defining[tree] :
             Range(Head(stack)) \cap Chain(tree, c) # {} /\ ~Cancelled =>
                 \E s \in P : Range(s) \cap Chain(tree, c) # {}
      OBVIOUS
    <2> HIDE DEF P
    <2> QED BY <1>1, <1>3, <2>1, <2>2, <2>3, <2>4, WalkStep
  <1> QED BY <1>2, <1>3

\* A file is sent, or passed over.
LEMMA VisitFileStep ==
    ASSUME DiscoveryInvariant, VisitFile PROVE DiscoveryInvariant'
  <1>1. /\ walker = "walk" /\ stack # <<>> /\ Head(stack) # <<>> /\ Current \notin Dirs
        /\ UNCHANGED <<project, dispatch, worker, images, group>>
    BY DEF VisitFile, Visiting
  <1>2. CASE Cancelled
    <2>1. stack' = Tail(stack) /\ walker' = "walk"
      BY <1>1, <1>2 DEF VisitFile, Visiting, SkipDir
    <2> DEFINE P == {}
    <2>2. Range(stack') = P \cup Range(Tail(stack)) /\ stack' \in Seq(Seq(Anything(tree)))
      BY <1>1, <2>1, TopIs, PopIs
    <2>3. P \in SUBSET Seq(Anything(tree)) /\ \A s \in P : Left(tree, s)
      OBVIOUS
    <2> HIDE DEF P
    <2> QED BY <1>1, <1>2, <2>1, <2>2, <2>3, WalkStep
  <1>3. CASE ~Cancelled /\ Current \notin Configs
    <2>1. stack' = Skip /\ walker' = "walk"
      BY <1>1, <1>3 DEF VisitFile, Visiting
    <2>2. ASSUME NEW c \in Defining[tree], Range(Head(stack)) \cap Chain(tree, c) # {}
          PROVE  Range(Tail(Head(stack))) \cap Chain(tree, c) # {}
      <3>1. c \in Configs
        BY <1>1, TopIs, VisibleIsOpen
      <3>2. Current \notin Chain(tree, c)
        BY <1>1, <1>3, <3>1, TopIs, ChainIs DEF Dirs
      <3> QED BY <1>1, <2>2, <3>2, TopIs
    <2> DEFINE P == {Tail(Head(stack))}
    <2>3. P \in SUBSET Seq(Anything(tree)) /\ \A s \in P : Left(tree, s)
      BY <1>1, <1>3, TopIs
    <2>4. Range(stack') = P \cup Range(Tail(stack)) /\ stack' \in Seq(Seq(Anything(tree)))
      BY <1>1, <2>1, TopIs
    <2>5. \A c \in Defining[tree] :
             Range(Head(stack)) \cap Chain(tree, c) # {} /\ ~Cancelled =>
                 \E s \in P : Range(s) \cap Chain(tree, c) # {}
      BY <2>2
    <2> HIDE DEF P
    <2> QED BY <1>1, <2>1, <2>3, <2>4, <2>5, WalkStep
  <1>4. CASE ~Cancelled /\ Current \in Configs
    <2>1. walker' = "send" /\ UNCHANGED stack
      BY <1>1, <1>4 DEF VisitFile, Visiting
    <2> DEFINE P == {Head(stack)}
    <2>2. P \in SUBSET Seq(Anything(tree)) /\ \A s \in P : Left(tree, s)
      BY <1>1, TopIs
    <2>3. Range(stack') = P \cup Range(Tail(stack)) /\ stack' \in Seq(Seq(Anything(tree)))
      BY <1>1, <2>1, TopIs
    <2>4. \A c \in Defining[tree] :
             Range(Head(stack)) \cap Chain(tree, c) # {} /\ ~Cancelled =>
                 \E s \in P : Range(s) \cap Chain(tree, c) # {}
      OBVIOUS
    <2> HIDE DEF P
    <2> QED BY <1>1, <1>4, <2>1, <2>2, <2>3, <2>4, WalkStep
  <1> QED BY <1>2, <1>3, <1>4

\* A directory without entries left.
LEMMA LeaveDirStep ==
    ASSUME DiscoveryInvariant, LeaveDir PROVE DiscoveryInvariant'
  <1>1. /\ walker = "walk" /\ stack # <<>> /\ Head(stack) = <<>>
        /\ stack' = Tail(stack) /\ walker' = walker
        /\ UNCHANGED <<project, dispatch, worker, images, group>>
    BY DEF LeaveDir, SkipDir
  <1> DEFINE P == {}
  <1>2. Range(stack') = P \cup Range(Tail(stack)) /\ stack' \in Seq(Seq(Anything(tree)))
    BY <1>1, PopIs DEF DiscoveryInvariant, WalkInvariant
  <1>3. P \in SUBSET Seq(Anything(tree)) /\ \A s \in P : Left(tree, s)
    OBVIOUS
  <1>4. Range(Head(stack)) = {}
    BY <1>1 DEF Range
  <1> HIDE DEF P
  <1> QED BY <1>1, <1>2, <1>3, <1>4, WalkStep

\* What is in a directory takes its place.
LEMMA ListDirStep ==
    ASSUME DiscoveryInvariant, ListDir PROVE DiscoveryInvariant'
  <1>1. /\ walker = "list" /\ stack # <<>> /\ Head(stack) # <<>>
        /\ Current \in DOMAIN tree /\ Current \notin RootfsDirs
        /\ UNCHANGED <<project, dispatch, worker, images, group>>
    BY DEF ListDir, DiscoveryInvariant, WalkInvariant, Dirs
  <1>2. tree \in Trees /\ Current \notin Configs /\ Open(tree, Current)
    BY <1>1, TopIs, DiscoveryAssumption
  <1>3. CASE Current \notin unreadable
    <2>1. stack' = <<tree[Current]>> \o Skip /\ walker' = "walk"
      BY <1>1, <1>3 DEF ListDir
    <2>2. Left(tree, tree[Current]) /\ tree[Current] \in Seq(Anything(tree))
      BY <1>1, <1>2, AllIsLeft
    <2> DEFINE P == {tree[Current], Tail(Head(stack))}
    <2>3. P \in SUBSET Seq(Anything(tree)) /\ \A s \in P : Left(tree, s)
      BY <1>1, <1>2, <2>2, TopIs
    <2>4. stack' \in Seq(Seq(Anything(tree))) /\ Range(stack') = {tree[Current]} \cup Range(Skip)
      BY <1>1, <2>1, <2>2, TopIs, PushIs
    <2>5. Range(stack') = P \cup Range(Tail(stack))
      BY <1>1, <2>4, TopIs
    <2>6. ASSUME NEW c \in Defining[tree], Range(Head(stack)) \cap Chain(tree, c) # {}
          PROVE  \E s \in P : Range(s) \cap Chain(tree, c) # {}
      <3>1. CASE Current \in Chain(tree, c)
        <4>1. c \in Configs
          BY <1>2, VisibleIsOpen
        <4>2. \E x \in Range(tree[Current]) : x \in Chain(tree, c)
          BY <1>2, <3>1, <4>1, ChainGoesOn
        <4> QED BY <4>2
      <3>2. CASE Current \notin Chain(tree, c)
        BY <1>1, <2>6, <3>2, TopIs
      <3> QED BY <3>1, <3>2
    <2> HIDE DEF P
    <2> QED BY <1>1, <2>1, <2>3, <2>4, <2>5, <2>6, WalkStep
  <1>4. CASE Current \in unreadable /\ Cancelled
    <2>1. stack' = Skip /\ walker' = "walk"
      BY <1>1, <1>4 DEF ListDir
    <2> DEFINE P == {Tail(Head(stack))}
    <2>2. P \in SUBSET Seq(Anything(tree)) /\ \A s \in P : Left(tree, s)
      BY <1>1, <1>2, TopIs
    <2>3. Range(stack') = P \cup Range(Tail(stack)) /\ stack' \in Seq(Seq(Anything(tree)))
      BY <1>1, <2>1, TopIs
    <2> HIDE DEF P
    <2> QED BY <1>1, <1>4, <2>1, <2>2, <2>3, WalkStep
  <1>5. CASE Current \in unreadable /\ ~Cancelled
    <2>1. stack' = <<>> /\ walker' = "error"
      BY <1>1, <1>5 DEF ListDir
    <2>2. UNCHANGED <<tree, definition, unreadable, dispatcher, inbox, worker, images, failed,
                      interrupted, discovery>>
      BY <1>1 DEF project, dispatch, group
    <2>3. Range(stack') = {} /\ stack' \in Seq(Seq(Anything(tree)))
      BY <2>1 DEF Range
    <2>4. WalkInvariant'
      BY <2>1, <2>2, <2>3 DEF DiscoveryInvariant, WalkInvariant, Dirs
    <2>5. NoneIsPassed'
      BY <2>1 DEF NoneIsPassed
    <2>6. GroupInvariant'
      <3>1. \A c : Valid(c)' = Valid(c)
        BY <2>2 DEF Valid
      <3>2. dispatcher # "done" /\ discovery = "running"
        BY <1>1 DEF DiscoveryInvariant, GroupInvariant, DiscoveryIsQuiet
      <3> QED BY <2>1, <2>2, <3>1, <3>2 DEF DiscoveryInvariant, GroupInvariant, DiscoveryIsQuiet
    <2> QED BY <2>4, <2>5, <2>6 DEF DiscoveryInvariant
  <1> QED BY <1>3, <1>4, <1>5

\* The channel is closed.
LEMMA EndWalkStep ==
    ASSUME DiscoveryInvariant, EndWalk PROVE DiscoveryInvariant'
  <1>1. /\ walker \in {"walk", "error"} /\ stack = <<>> /\ walker' = "closed"
        /\ failed' = (failed \/ walker = "error")
        /\ UNCHANGED <<tree, definition, unreadable, stack, dispatcher, inbox, worker, images,
                       interrupted, discovery>>
    BY DEF EndWalk, project, dispatch
  <1>2. failed' \in BOOLEAN /\ (failed => failed')
    BY <1>1 DEF DiscoveryInvariant, GroupInvariant
  <1>3. WalkInvariant'
    BY <1>1 DEF DiscoveryInvariant, WalkInvariant, Dirs
  <1>4. NoneIsPassed'
    BY <1>1 DEF DiscoveryInvariant, NoneIsPassed, Handed
  <1>5. GroupInvariant'
    <2>1. \A c : Valid(c)' = Valid(c)
      BY <1>1 DEF Valid
    <2>2. discovery = "running" /\ dispatcher # "done"
      BY <1>1 DEF DiscoveryInvariant, GroupInvariant, DiscoveryIsQuiet
    <2> QED BY <1>1, <1>2, <2>1, <2>2 DEF DiscoveryInvariant, GroupInvariant, DiscoveryIsQuiet
  <1> QED BY <1>3, <1>4, <1>5 DEF DiscoveryInvariant

\* The config on top goes to the dispatcher; the rest of its directory, which it
\* hides, is left.
LEMMA ReceiveStep ==
    ASSUME DiscoveryInvariant, Receive PROVE DiscoveryInvariant'
  <1>1. /\ walker = "send" /\ dispatcher = "receive" /\ stack # <<>> /\ Head(stack) # <<>>
        /\ Current \in Configs
        /\ inbox' = {Current} /\ dispatcher' = "start" /\ stack' = Tail(stack) /\ walker' = "walk"
        /\ UNCHANGED <<tree, definition, unreadable, worker, images, failed, interrupted, discovery>>
    BY DEF Receive, SkipDir, project, group, DiscoveryInvariant, WalkInvariant
  <1>2. Current \in Defining[tree] /\ inbox = {}
    <2>1. Open(tree, Current) /\ tree \in Trees
      BY <1>1, TopIs
    <2> QED BY <1>1, <2>1, VisibleIsOpen DEF DiscoveryInvariant, GroupInvariant
  <1>3. /\ stack \in Seq(Seq(Anything(tree))) /\ stack' \in Seq(Seq(Anything(tree)))
        /\ Range(stack) = {Head(stack)} \cup Range(stack')
    BY <1>1, PopIs DEF DiscoveryInvariant, WalkInvariant
  <1>4. WalkInvariant'
    BY <1>1, <1>3 DEF DiscoveryInvariant, WalkInvariant, Dirs
  <1>5. NoneIsPassed'
    <2> SUFFICES ASSUME ~failed, ~interrupted, NEW c \in Defining[tree], c # Current,
                        worker[c] = "none"
                 PROVE  \E s \in Range(stack') : Range(s) \cap Chain(tree, c) # {}
      BY <1>1 DEF NoneIsPassed, Handed
    <2>1. PICK s \in Range(stack) : Range(s) \cap Chain(tree, c) # {}
      BY <1>1, <1>2 DEF DiscoveryInvariant, NoneIsPassed, Handed
    <2>2. s # Head(stack)
      <3>1. /\ tree \in Trees /\ Head(stack) \in Seq(Anything(tree)) /\ Left(tree, Head(stack))
            /\ Head(Head(stack)) \in Configs /\ c # Head(Head(stack))
        BY <1>1, TopIs DEF Current
      <3> QED BY <1>1, <2>1, <3>1, ConfigHidesRest
    <2> QED BY <1>3, <2>1, <2>2
  <1>6. GroupInvariant'
    <2>1. \A c : Valid(c)' = Valid(c)
      BY <1>1 DEF Valid
    <2>2. discovery = "running"
      BY <1>1 DEF DiscoveryInvariant, GroupInvariant, DiscoveryIsQuiet
    <2> QED BY <1>1, <1>2, <2>1, <2>2 DEF DiscoveryInvariant, GroupInvariant, DiscoveryIsQuiet
  <1> QED BY <1>4, <1>5, <1>6 DEF DiscoveryInvariant

\* The dispatcher starts a worker, or ends.
LEMMA DispatchSteps ==
    ASSUME DiscoveryInvariant, StartWorker \/ EndDispatch PROVE DiscoveryInvariant'
  <1>1. UNCHANGED <<tree, definition, unreadable, walker, stack, images, failed, interrupted, discovery>>
        /\ dispatcher # "done"
    BY DEF StartWorker, EndDispatch, project, walk, group
  <1>2. WalkInvariant'
    BY <1>1 DEF DiscoveryInvariant, WalkInvariant, Dirs, Current
  <1>3. discovery = "running" /\ worker \in [Configs -> {"none", "parse", "store", "done"}]
        /\ inbox \subseteq Configs
    BY <1>1, VisibleIsOpen DEF DiscoveryInvariant, GroupInvariant, DiscoveryIsQuiet, WalkInvariant
  <1>4. /\ inbox' = {}
        /\ worker' = [c \in Configs |-> IF c \in inbox THEN "parse" ELSE worker[c]]
        /\ dispatcher' \in {"receive", "done"} /\ (dispatcher' = "done" => walker = "closed")
    <2>1. CASE StartWorker
      BY <2>1 DEF StartWorker
    <2>2. CASE EndDispatch
      <3>1. inbox = {} /\ UNCHANGED <<inbox, worker>>
        BY <2>2 DEF EndDispatch, DiscoveryInvariant, GroupInvariant
      <3>2. worker = [c \in Configs |-> worker[c]]
        BY <1>3
      <3> QED BY <2>2, <3>1, <3>2 DEF EndDispatch
    <2> QED BY <2>1, <2>2
  <1>5. NoneIsPassed'
    <2>1. \A c \in Defining[tree] : Handed(c) => worker'[c] # "none"
      <3>1. \A c \in Defining[tree] : c \in Configs
        BY VisibleIsOpen DEF DiscoveryInvariant, WalkInvariant
      <3> QED BY <1>4, <3>1 DEF Handed
    <2> QED BY <1>1, <2>1 DEF DiscoveryInvariant, NoneIsPassed, Handed
  <1>6. GroupInvariant'
    <2>1. \A c : Valid(c)' = Valid(c)
      BY <1>1 DEF Valid
    <2> QED BY <1>1, <1>3, <1>4, <2>1 DEF DiscoveryInvariant, GroupInvariant, DiscoveryIsQuiet
  <1> QED BY <1>2, <1>5, <1>6 DEF DiscoveryInvariant

\* Visible configs are in different directories.
LEMMA OneConfigPerDir ==
    ASSUME tree \in Trees, NEW c \in Defining[tree], NEW x \in Defining[tree], DirOf(c) = DirOf(x)
    PROVE  c = x
  <1>1. ASSUME NEW y \in Defining[tree]
        PROVE  /\ y \in Entries(tree) /\ Open(tree, y) /\ y \in Configs
               /\ DirOf(y) \in DOMAIN tree /\ y \in Range(tree[DirOf(y)])
    <2>1. Open(tree, y) /\ y \in Configs /\ y # Root
      BY VisibleIsOpen, DiscoveryAssumption
    <2>2. Root \in Chain(tree, y)
      BY <2>1 DEF Open
    <2>3. \E d \in DOMAIN tree : y \in Range(tree[d])
      <3>1. ASSUME \A d \in DOMAIN tree : y \notin Range(tree[d]) PROVE FALSE
        <4>1. Above(tree, {y})
          BY <3>1 DEF Above
        <4>2. Chain(tree, y) \subseteq {y}
          BY <4>1, ChainIs
        <4> QED BY <2>1, <2>2, <4>2
      <3> QED BY <3>1
    <2>4. y \in Entries(tree)
      BY <2>3 DEF Entries
    <2>5. DirOf(y) = CHOOSE d \in DOMAIN tree : y \in Range(tree[d])
      BY <2>4 DEF DirOf, ParentDirs
    <2> QED BY <2>1, <2>3, <2>4, <2>5
  <1> DEFINE d == DirOf(c)
  <1>2. PICK i \in DOMAIN tree[d], j \in DOMAIN tree[d] : tree[d][i] = c /\ tree[d][j] = x
    BY <1>1 DEF Range
  <1>3. DOMAIN tree[d] = 1 .. Len(tree[d]) /\ Len(tree[d]) \in Nat
    BY <1>1, EntriesAre
  <1>4. ASSUME NEW y \in Defining[tree], NEW k \in DOMAIN tree[d], tree[d][k] = y
        PROVE  \A l \in 1 .. (k - 1) : tree[d][l] \notin Configs
    <2>1. y \in Range(tree[d]) /\ y \in Chain(tree, y) /\ d \in DOMAIN tree
      BY <1>1, <1>4, ChainIs DEF Range
    <2>2. d \in Chain(tree, y)
      BY <2>1, ChainIs DEF Above
    <2> QED BY <1>1, <1>4, <2>1, <2>2 DEF Open
  <1> HIDE DEF d
  <1>5. ~ i < j /\ ~ j < i
    <2>1. i < j => i \in 1 .. (j - 1)
      BY <1>2, <1>3
    <2>2. j < i => j \in 1 .. (i - 1)
      BY <1>2, <1>3
    <2>3. c \in Configs /\ x \in Configs
      BY <1>1
    <2> QED BY <1>2, <1>4, <2>1, <2>2, <2>3
  <1>6. i = j
    BY <1>2, <1>3, <1>5
  <1> QED BY <1>2, <1>6

\* A worker parses its config, or stores it: it replaces no other one.
LEMMA WorkerSteps ==
    ASSUME DiscoveryInvariant, NEW c \in Configs, Parse(c) \/ Store(c) PROVE DiscoveryInvariant'
  <1>1. /\ UNCHANGED <<tree, definition, unreadable, walker, stack, dispatcher, inbox, interrupted,
                       discovery>>
        /\ worker[c] \in {"parse", "store"}
    BY DEF Parse, Store, project, walk, dispatch, group
  <1>2. /\ discovery = "running" /\ tree \in Trees
        /\ worker \in [Configs -> {"none", "parse", "store", "done"}]
    BY <1>1 DEF DiscoveryInvariant, GroupInvariant, DiscoveryIsQuiet, WalkInvariant
  <1>3. \A x : Valid(x)' = Valid(x)
    BY <1>1 DEF Valid
  <1>4. WalkInvariant'
    BY <1>1 DEF DiscoveryInvariant, WalkInvariant, Dirs, Current
  <1>5. /\ \E w \in {"store", "done"} : worker' = [worker EXCEPT ![c] = w]
        /\ failed => failed'
        /\ failed' \in BOOLEAN
    BY DEF Parse, Store, group, DiscoveryInvariant, GroupInvariant
  <1>6. NoneIsPassed'
    <2>1. \A x \in Configs : worker[x] # "none" => worker'[x] # "none"
      BY <1>2, <1>5
    <2>2. \A x \in Defining[tree] : x \in Configs
      BY <1>2, VisibleIsOpen
    <2> QED BY <1>1, <1>5, <2>1, <2>2 DEF DiscoveryInvariant, NoneIsPassed, Handed
  <1>7. CASE Parse(c)
    <2>1. /\ worker' = [worker EXCEPT ![c] = IF Valid(c) THEN "store" ELSE "done"]
          /\ failed' = (failed \/ ~ Valid(c)) /\ UNCHANGED images
      BY <1>7 DEF Parse
    <2>2. \A x \in Configs :
             /\ worker'[x] # "none" => x \in Defining[tree]
             /\ worker'[x] = "store" => Valid(x)
             /\ worker'[x] = "done" => x \in images \/ failed'
      BY <1>1, <1>2, <2>1 DEF DiscoveryInvariant, GroupInvariant
    <2>3. GroupInvariant'
      BY <1>1, <1>2, <1>3, <1>5, <2>1, <2>2 DEF DiscoveryInvariant, GroupInvariant, DiscoveryIsQuiet
    <2> QED BY <1>4, <1>6, <2>3 DEF DiscoveryInvariant
  <1>8. CASE Store(c)
    <2>1. /\ worker' = [worker EXCEPT ![c] = "done"] /\ UNCHANGED failed /\ worker[c] = "store"
          /\ images' = {x \in images : DirOf(x) # DirOf(c)} \cup {c}
      BY <1>8 DEF Store, group
    <2>2. c \in Defining[tree] /\ Valid(c) /\ \A x \in images : x \in Defining[tree] /\ Valid(x)
      BY <2>1 DEF DiscoveryInvariant, GroupInvariant
    <2>3. \A x \in images : x \in images'
      BY <1>2, <2>1, <2>2, OneConfigPerDir
    <2>4. \A x \in Configs :
             /\ worker'[x] # "none" => x \in Defining[tree]
             /\ worker'[x] = "store" => Valid(x)
             /\ worker'[x] = "done" => x \in images' \/ failed'
      BY <1>1, <1>2, <2>1, <2>3 DEF DiscoveryInvariant, GroupInvariant
    <2>5. \A x \in images' : x \in Defining[tree] /\ Valid(x)
      BY <2>1, <2>2
    <2>6. GroupInvariant'
      BY <1>1, <1>2, <1>3, <1>5, <2>1, <2>4, <2>5 DEF DiscoveryInvariant, GroupInvariant, DiscoveryIsQuiet
    <2> QED BY <1>4, <1>6, <2>6 DEF DiscoveryInvariant
  <1> QED BY <1>7, <1>8

\* What eg.Wait and an interrupt leave as it is.
LEMMA DiscoveryKept ==
    ASSUME DiscoveryInvariant, UNCHANGED <<project, walk, dispatch, worker, images, failed>>,
           interrupted => interrupted', interrupted' \in BOOLEAN,
           discovery' \in {"running", "found", "failed"},
           discovery' = "found" => ~failed, DiscoveryIsQuiet'
    PROVE  DiscoveryInvariant'
  <1>1. UNCHANGED <<tree, definition, unreadable, walker, stack, dispatcher, inbox, worker, images,
                    failed>>
    BY DEF project, walk, dispatch
  <1>2. \A x : Valid(x)' = Valid(x)
    BY <1>1 DEF Valid
  <1>3. WalkInvariant'
    BY <1>1 DEF DiscoveryInvariant, WalkInvariant, Dirs, Current
  <1>4. NoneIsPassed'
    BY <1>1 DEF DiscoveryInvariant, NoneIsPassed, Handed
  <1>5. GroupInvariant'
    BY <1>1, <1>2 DEF DiscoveryInvariant, GroupInvariant
  <1> QED BY <1>3, <1>4, <1>5 DEF DiscoveryInvariant

\* Every step of the discovery.
LEMMA DiscoveryStep ==
    ASSUME DiscoveryInvariant, DiscoveryNext \/ UNCHANGED discoveryVars PROVE DiscoveryInvariant'
  <1>1. CASE VisitDir \/ ListDir \/ VisitFile \/ LeaveDir \/ EndWalk
    BY <1>1, VisitDirStep, ListDirStep, VisitFileStep, LeaveDirStep, EndWalkStep
  <1>2. CASE Receive \/ StartWorker \/ EndDispatch
    BY <1>2, ReceiveStep, DispatchSteps
  <1>3. CASE \E c \in Configs : Parse(c) \/ Store(c)
    BY <1>3, WorkerSteps
  <1>4. CASE Wait
    <2>1. /\ UNCHANGED <<project, walk, dispatch, worker, images, failed, interrupted>>
          /\ walker' = "closed" /\ dispatcher' = "done"
          /\ \A c \in Configs : worker'[c] \in {"none", "done"}
          /\ discovery' = IF failed THEN "failed" ELSE "found"
      BY <1>4 DEF Wait, walk, dispatch
    <2>2. DiscoveryIsQuiet' /\ interrupted' \in BOOLEAN
      BY <2>1 DEF DiscoveryIsQuiet, DiscoveryInvariant, GroupInvariant
    <2> QED BY <2>1, <2>2, DiscoveryKept
  <1>5. CASE Interrupt
    <2>1. /\ UNCHANGED <<project, walk, dispatch, worker, images, failed, discovery>>
          /\ discovery = "running" /\ ~interrupted /\ interrupted' = TRUE
      BY <1>5 DEF Interrupt
    <2>2. DiscoveryIsQuiet' /\ interrupted \in BOOLEAN
      BY <2>1 DEF DiscoveryIsQuiet, DiscoveryInvariant, GroupInvariant
    <2> QED BY <2>1, <2>2, DiscoveryKept
  <1>6. CASE UNCHANGED discoveryVars
    <2>1. UNCHANGED <<project, walk, dispatch, worker, images, failed, interrupted, discovery>>
      BY <1>6 DEF discoveryVars, group
    <2>2. DiscoveryIsQuiet' /\ interrupted \in BOOLEAN
          /\ discovery \in {"running", "found", "failed"} /\ (discovery = "found" => ~failed)
      BY <2>1 DEF DiscoveryIsQuiet, DiscoveryInvariant, GroupInvariant, walk, dispatch
    <2> QED BY <2>1, <2>2, DiscoveryKept
  <1> QED BY <1>1, <1>2, <1>3, <1>4, <1>5, <1>6 DEF DiscoveryNext

\* What the invariant says of a discovery that has ended.
LEMMA DiscoveryGives ==
    ASSUME DiscoveryInvariant PROVE DiscoveryTypeOK /\ DiscoveryIsQuiet /\ DiscoveryIsExact
  <1>1. \A c \in Defining[tree] : c \in Configs
    BY VisibleIsOpen DEF DiscoveryInvariant, WalkInvariant
  <1>2. DiscoveryTypeOK
    <2>1. inbox \subseteq Configs /\ Cardinality(inbox) <= 1
      <3>1. inbox = {} \/ \E c \in Configs : inbox = {c}
        BY <1>1 DEF DiscoveryInvariant, GroupInvariant
      <3>2. Cardinality({}) = 0 /\ \A c : Cardinality({c}) = 1
        BY FS_EmptySet, FS_Singleton
      <3>3. Cardinality(inbox) = 0 \/ Cardinality(inbox) = 1
        BY <3>1, <3>2
      <3> QED BY <3>1, <3>3
    <2>2. images \subseteq Configs
      BY <1>1 DEF DiscoveryInvariant, GroupInvariant
    <2> QED BY <2>1, <2>2 DEF DiscoveryInvariant, WalkInvariant, GroupInvariant, DiscoveryTypeOK
  <1>3. DiscoveryIsQuiet
    BY DEF DiscoveryInvariant, GroupInvariant
  <1>4. DiscoveryIsExact
    <2> SUFFICES ASSUME discovery = "found", ~interrupted
                 PROVE  images = Visible /\ \A c \in images : Valid(c)
      BY DEF DiscoveryIsExact
    <2>1. ~failed /\ walker = "closed" /\ dispatcher = "done" /\ inbox = {} /\ stack = <<>>
          /\ \A c \in Configs : worker[c] \in {"none", "done"}
      BY <1>3 DEF DiscoveryIsQuiet, DiscoveryInvariant, GroupInvariant, WalkInvariant
    <2>2. Range(stack) = {}
      BY <2>1 DEF Range
    <2>3. \A c \in Defining[tree] : c \in images
      BY <1>1, <2>1, <2>2 DEF DiscoveryInvariant, NoneIsPassed, Handed, GroupInvariant
    <2> QED BY <2>3 DEF DiscoveryInvariant, GroupInvariant, Visible
  <1> QED BY <1>2, <1>3, <1>4
-----------------------------------------------------------------------------
(* The steps of a unit.                                                    *)

Base(u) == <<u[1], u[2], "">>

\* A unit is a base, or a variant of one.
LEMMA UnitsAre ==
    /\ \A u \in Units : /\ u[1] \in Configs /\ u[2] \in Tags[u[1]]
                        /\ u[3] = "" \/ u[3] \in Variants[u[1]]
                        /\ u = <<u[1], u[2], u[3]>>
                        /\ Base(u) \in Bases /\ Base(u)[1] = u[1]
                        /\ (u \in Bases <=> ~IsVariant(u)) /\ (u \in Bases <=> u = Base(u))
    /\ Bases \subseteq Units
    /\ \A b \in Bases : \A s \in Variants[b[1]] :
          /\ <<b[1], b[2], s>> \in Units /\ IsVariant(<<b[1], b[2], s>>)
          /\ Base(<<b[1], b[2], s>>) = b
  <1> DEFINE Is(u, c, t, s) == u = <<c, t, s>>
  <1>0. \A u, c, t, s : Is(u, c, t, s) => u[1] = c /\ u[2] = t /\ u[3] = s
    OBVIOUS
  <1>1. ASSUME NEW u \in Bases
        PROVE  /\ u[1] \in Configs /\ u[2] \in Tags[u[1]] /\ u[3] = ""
               /\ u = <<u[1], u[2], u[3]>>
    <2>0. PICK c \in Configs : u \in {<<c, t, "">> : t \in Tags[c]}
      BY DEF Bases
    <2>1. PICK t \in Tags[c] : Is(u, c, t, "")
      BY <2>0
    <2>2. u[1] = c /\ u[2] = t /\ u[3] = ""
      BY <1>0, <2>1
    <2> QED BY <2>1, <2>2
  <1>2. ASSUME NEW u \in Units \ Bases
        PROVE  /\ u[1] \in Configs /\ u[2] \in Tags[u[1]] /\ u[3] \in Variants[u[1]]
               /\ u = <<u[1], u[2], u[3]>>
    <2>1. PICK c \in Configs : u \in {<<c, t, s>> : t \in Tags[c], s \in Variants[c]}
      BY DEF Units
    <2>2. PICK t \in Tags[c], s \in Variants[c] : Is(u, c, t, s)
      BY <2>1
    <2>3. u[1] = c /\ u[2] = t /\ u[3] = s
      BY <1>0, <2>2
    <2> QED BY <2>2, <2>3
  <1>3. \A c \in Configs : \A t \in Tags[c] : <<c, t, "">> \in Bases
    BY DEF Bases
  <1>4. \A c \in Configs : \A t \in Tags[c] : \A s \in Variants[c] : <<c, t, s>> \in Units
    BY DEF Units
  <1>5. Bases \subseteq Units
    BY DEF Units
  <1>6. ASSUME NEW u \in Units
        PROVE  /\ u[1] \in Configs /\ u[2] \in Tags[u[1]]
               /\ u[3] = "" \/ u[3] \in Variants[u[1]]
               /\ u = <<u[1], u[2], u[3]>>
               /\ Base(u) \in Bases /\ Base(u)[1] = u[1]
               /\ (u \in Bases <=> ~IsVariant(u)) /\ (u \in Bases <=> u = Base(u))
    <2>1. Base(u)[1] = u[1] /\ Base(u)[3] = ""
      BY DEF Base
    <2>2. CASE u \in Bases
      <3>1. /\ u[1] \in Configs /\ u[2] \in Tags[u[1]] /\ u[3] = ""
            /\ u = <<u[1], u[2], u[3]>>
        BY <1>1, <2>2
      <3>2. u = Base(u)
        BY <3>1 DEF Base
      <3> QED BY <2>1, <2>2, <3>1, <3>2 DEF IsVariant
    <2>3. CASE u \notin Bases
      <3>1. /\ u[1] \in Configs /\ u[2] \in Tags[u[1]] /\ u[3] \in Variants[u[1]]
            /\ u = <<u[1], u[2], u[3]>>
        BY <1>2, <2>3
      <3>2. u[3] # ""
        BY <3>1, GenerateAssumption
      <3>3. Base(u) \in Bases
        BY <1>3, <3>1 DEF Base
      <3> QED BY <2>1, <2>3, <3>1, <3>2, <3>3 DEF IsVariant
    <2> QED BY <2>2, <2>3
  <1>7. ASSUME NEW b \in Bases, NEW s \in Variants[b[1]]
        PROVE  /\ <<b[1], b[2], s>> \in Units /\ IsVariant(<<b[1], b[2], s>>)
               /\ Base(<<b[1], b[2], s>>) = b
    BY <1>1, <1>4, GenerateAssumption DEF Base, IsVariant
  <1> QED BY <1>5, <1>6, <1>7

StepNames == {"mkdir", "entrypoint", "parent", "rootfs", "overlay", "tests"}

\* How many of each optional step a unit has.
Parents(u) == IF IsVariant(u) THEN 1 ELSE 0
Rootfs(u) == IF <<u[1], "">> \in WithRootfs THEN 1 ELSE 0
Overlays(u) == IF IsVariant(u) /\ <<u[1], u[3]>> \in WithRootfs THEN 1 ELSE 0

\* An optional step is taken once or not at all.
LEMMA OptionalIs ==
    ASSUME NEW x \in StepNames, NEW b
    PROVE  /\ b => Optional(x, b) \in Seq(StepNames) /\ Len(Optional(x, b)) = 1 /\ Optional(x, b)[1] = x
           /\ ~b => Optional(x, b) \in Seq(StepNames) /\ Len(Optional(x, b)) = 0
  <1>1. CASE b
    <2>1. Optional(x, b) = <<x>>
      BY <1>1 DEF Optional
    <2>2. <<x>> \in Seq(StepNames) /\ Len(<<x>>) = 1 /\ <<x>>[1] = x
      OBVIOUS
    <2> QED BY <1>1, <2>1, <2>2
  <1>2. CASE ~b
    <2>1. Optional(x, b) = <<>>
      BY <1>2 DEF Optional
    <2>2. <<>> \in Seq(StepNames) /\ Len(<<>>) = 0
      OBVIOUS
    <2> QED BY <1>2, <2>1, <2>2
  <1> QED BY <1>1, <1>2

\* The steps, in their order.
Ordered(s, p, r, o) ==
    /\ s \in Seq(StepNames) /\ Len(s) = 3 + p + r + o
    /\ s[1] = "mkdir" /\ s[2] = "entrypoint"
    /\ p = 1 => s[3] = "parent"
    /\ r = 1 => s[3 + p] = "rootfs"
    /\ o = 1 => s[3 + p + r] = "overlay"
    /\ s[3 + p + r + o] = "tests"

\* Adding at most one step to others.
LEMMA Concat ==
    ASSUME NEW s \in Seq(StepNames), NEW t \in Seq(StepNames), Len(t) \in 0 .. 1
    PROVE  /\ s \o t \in Seq(StepNames) /\ Len(s \o t) = Len(s) + Len(t)
           /\ \A i \in 1 .. Len(s) : (s \o t)[i] = s[i]
           /\ Len(t) = 1 => (s \o t)[Len(s) + 1] = t[1]
           /\ Len(s) \in Nat /\ Len(t) \in Nat
  OBVIOUS

\* The steps of a unit, given those of the optional ones that it takes.
LEMMA Joined ==
    ASSUME NEW a \in Seq(StepNames), NEW b \in Seq(StepNames), NEW c \in Seq(StepNames),
           Len(a) \in 0 .. 1, Len(b) \in 0 .. 1, Len(c) \in 0 .. 1,
           Len(a) = 1 => a[1] = "parent",
           Len(b) = 1 => b[1] = "rootfs",
           Len(c) = 1 => c[1] = "overlay"
    PROVE  Ordered(<<"mkdir", "entrypoint">> \o a \o b \o c \o <<"tests">>, Len(a), Len(b), Len(c))
  <1> DEFINE s2 == <<"mkdir", "entrypoint">>
             s3 == s2 \o a
             s4 == s3 \o b
             s5 == s4 \o c
             t == <<"tests">>
             s == s5 \o t
  <1>1. s2 \in Seq(StepNames) /\ Len(s2) = 2 /\ s2[1] = "mkdir" /\ s2[2] = "entrypoint"
    BY DEF StepNames
  <1>2. t \in Seq(StepNames) /\ Len(t) = 1 /\ t[1] = "tests"
    BY DEF StepNames
  <1> HIDE DEF s2, t
  <1>3. /\ s3 \in Seq(StepNames) /\ Len(s3) = 2 + Len(a)
        /\ s3[1] = "mkdir" /\ s3[2] = "entrypoint" /\ (Len(a) = 1 => s3[3] = "parent")
    <2>1. /\ s3 \in Seq(StepNames) /\ Len(s3) = Len(s2) + Len(a)
          /\ \A i \in 1 .. Len(s2) : s3[i] = s2[i]
          /\ Len(a) = 1 => s3[Len(s2) + 1] = a[1]
      BY <1>1, Concat
    <2>2. 1 \in 1 .. Len(s2) /\ 2 \in 1 .. Len(s2) /\ Len(s2) + 1 = 3
      BY <1>1
    <2> HIDE DEF s3
    <2> QED BY <1>1, <2>1, <2>2
  <1> HIDE DEF s3
  <1>4. /\ s4 \in Seq(StepNames) /\ Len(s4) = Len(s3) + Len(b)
        /\ \A i \in 1 .. Len(s3) : s4[i] = s3[i]
        /\ Len(b) = 1 => s4[Len(s3) + 1] = "rootfs"
    BY <1>3, Concat
  <1> HIDE DEF s4
  <1>5. /\ s5 \in Seq(StepNames) /\ Len(s5) = Len(s4) + Len(c)
        /\ \A i \in 1 .. Len(s4) : s5[i] = s4[i]
        /\ Len(c) = 1 => s5[Len(s4) + 1] = "overlay"
    BY <1>4, Concat
  <1> HIDE DEF s5
  <1>6. /\ s \in Seq(StepNames) /\ Len(s) = Len(s5) + 1
        /\ \A i \in 1 .. Len(s5) : s[i] = s5[i]
        /\ s[Len(s5) + 1] = "tests"
    <2>1. Len(t) \in 0 .. 1
      BY <1>2
    <2>2. /\ s \in Seq(StepNames) /\ Len(s) = Len(s5) + Len(t)
          /\ \A i \in 1 .. Len(s5) : s[i] = s5[i]
          /\ Len(t) = 1 => s[Len(s5) + 1] = t[1]
      BY <1>2, <1>5, <2>1, Concat
    <2> HIDE DEF s
    <2> QED BY <1>2, <2>2
  <1> HIDE DEF s
  <1>7. Ordered(s, Len(a), Len(b), Len(c))
    <2>1. Len(s3) \in 2 .. 3 /\ Len(s4) \in Len(s3) .. 4 /\ Len(s5) \in Len(s4) .. 5
      <3>1. Len(a) \in 0 .. 1 /\ Len(b) \in 0 .. 1 /\ Len(c) \in 0 .. 1
        OBVIOUS
      <3> HIDE DEF s3, s4, s5
      <3>2. \A x \in 0 .. 1 : \A l : l = 2 + x => l \in 2 .. 3
        OBVIOUS
      <3>3. \A l \in 2 .. 3, y \in 0 .. 1 : \A m : m = l + y => m \in l .. 4
        OBVIOUS
      <3>4. \A l \in 2 .. 3 : \A m \in l .. 4, z \in 0 .. 1 : \A n : n = m + z => n \in m .. 5
        OBVIOUS
      <3>5. Len(s3) \in 2 .. 3
        BY <1>3, <3>1, <3>2, Zenon
      <3>6. Len(s4) \in Len(s3) .. 4
        BY <1>4, <3>1, <3>3, <3>5, Zenon
      <3> QED BY <1>5, <3>1, <3>4, <3>5, <3>6, Zenon
    <2>2. \A i \in 1 .. Len(s3) : s[i] = s3[i]
      BY <1>4, <1>5, <1>6, <2>1
    <2>3. \A i \in 1 .. Len(s4) : s[i] = s4[i]
      BY <1>5, <1>6, <2>1
    <2>4. s[1] = "mkdir" /\ s[2] = "entrypoint" /\ (Len(a) = 1 => s[3] = "parent")
      BY <1>3, <2>2
    <2>5. Len(b) = 1 => s[3 + Len(a)] = "rootfs"
      BY <1>3, <1>4, <2>3
    <2>6. Len(c) = 1 => s[3 + Len(a) + Len(b)] = "overlay"
      <3>1. Len(s4) + 1 = 3 + Len(a) + Len(b)
        BY <1>3, <1>4
      <3>2. Len(c) = 1 => Len(s4) + 1 \in 1 .. Len(s5)
        BY <1>5, <2>1
      <3> QED BY <1>5, <1>6, <3>1, <3>2
    <2>7. Len(s) = 3 + Len(a) + Len(b) + Len(c) /\ s[3 + Len(a) + Len(b) + Len(c)] = "tests"
      <3>1. Len(s4) = 2 + Len(a) + Len(b)
        BY <1>3, <1>4
      <3>2. Len(s5) + 1 = 3 + Len(a) + Len(b) + Len(c)
        BY <1>5, <3>1
      <3> QED BY <1>6, <3>2
    <2> QED BY <1>6, <2>4, <2>5, <2>6, <2>7 DEF Ordered
  <1> QED BY <1>7 DEF s, s5, s4, s3, s2, t

\* Every unit takes its steps in this order.
LEMMA StepsAreOrdered ==
    ASSUME NEW u
    PROVE  /\ Parents(u) \in 0 .. 1 /\ Rootfs(u) \in 0 .. 1 /\ Overlays(u) \in 0 .. 1
           /\ Ordered(Steps(u), Parents(u), Rootfs(u), Overlays(u))
           /\ Len(Steps(u)) \in 3 .. 6
  <1>1. Parents(u) \in 0 .. 1 /\ Rootfs(u) \in 0 .. 1 /\ Overlays(u) \in 0 .. 1
    BY DEF Parents, Rootfs, Overlays
  <1> DEFINE a == Optional("parent", IsVariant(u))
             b == Optional("rootfs", <<u[1], "">> \in WithRootfs)
             c == Optional("overlay", IsVariant(u) /\ <<u[1], u[3]>> \in WithRootfs)
  <1>2. a \in Seq(StepNames) /\ Len(a) = Parents(u) /\ (Len(a) = 1 => a[1] = "parent")
    <2>1. "parent" \in StepNames
      BY DEF StepNames
    <2>2. CASE IsVariant(u)
      <3>1. Parents(u) = 1
        BY <2>2 DEF Parents
      <3>2. a \in Seq(StepNames) /\ Len(a) = 1 /\ a[1] = "parent"
        BY <2>1, <2>2, OptionalIs, Zenon
      <3> QED BY <3>1, <3>2
    <2>3. CASE ~IsVariant(u)
      <3>1. Parents(u) = 0
        BY <2>3 DEF Parents
      <3>2. a \in Seq(StepNames) /\ Len(a) = 0
        BY <2>1, <2>3, OptionalIs, Zenon
      <3> HIDE DEF a
      <3> QED BY <3>1, <3>2
    <2> QED BY <2>2, <2>3, Zenon
  <1>3. b \in Seq(StepNames) /\ Len(b) = Rootfs(u) /\ (Len(b) = 1 => b[1] = "rootfs")
    <2>1. "rootfs" \in StepNames
      BY DEF StepNames
    <2>2. CASE <<u[1], "">> \in WithRootfs
      <3>1. Rootfs(u) = 1
        BY <2>2 DEF Rootfs
      <3>2. b \in Seq(StepNames) /\ Len(b) = 1 /\ b[1] = "rootfs"
        BY <2>1, <2>2, OptionalIs, Zenon
      <3> QED BY <3>1, <3>2
    <2>3. CASE ~(<<u[1], "">> \in WithRootfs)
      <3>1. Rootfs(u) = 0
        BY <2>3 DEF Rootfs
      <3>2. b \in Seq(StepNames) /\ Len(b) = 0
        BY <2>1, <2>3, OptionalIs, Zenon
      <3> HIDE DEF b
      <3> QED BY <3>1, <3>2
    <2> QED BY <2>2, <2>3, Zenon
  <1>4. c \in Seq(StepNames) /\ Len(c) = Overlays(u) /\ (Len(c) = 1 => c[1] = "overlay")
    <2>1. "overlay" \in StepNames
      BY DEF StepNames
    <2>2. CASE (IsVariant(u) /\ <<u[1], u[3]>> \in WithRootfs)
      <3>1. Overlays(u) = 1
        BY <2>2 DEF Overlays
      <3>2. c \in Seq(StepNames) /\ Len(c) = 1 /\ c[1] = "overlay"
        BY <2>1, <2>2, OptionalIs, Zenon
      <3> QED BY <3>1, <3>2
    <2>3. CASE ~(IsVariant(u) /\ <<u[1], u[3]>> \in WithRootfs)
      <3>1. Overlays(u) = 0
        BY <2>3 DEF Overlays
      <3>2. c \in Seq(StepNames) /\ Len(c) = 0
        BY <2>1, <2>3, OptionalIs, Zenon
      <3> HIDE DEF c
      <3> QED BY <3>1, <3>2
    <2> QED BY <2>2, <2>3, Zenon
  <1>5. Steps(u) = <<"mkdir", "entrypoint">> \o a \o b \o c \o <<"tests">>
    BY DEF Steps
  <1> HIDE DEF a, b, c
  <1>6. Ordered(Steps(u), Parents(u), Rootfs(u), Overlays(u))
    BY <1>1, <1>2, <1>3, <1>4, <1>5, Joined
  <1> QED BY <1>1, <1>6 DEF Ordered

\* The rootfs of a unit before its k-th step.
PartialRootfs(u, k, old) ==
    LET base == IF Rootfs(u) = 1 /\ k > 3 + Parents(u) THEN Append(old, <<u[1], "">>) ELSE old
    IN  IF Overlays(u) = 1 /\ k > 3 + Parents(u) + Rootfs(u)
        THEN Append(base, <<u[1], u[3]>>) ELSE base

\* The files of a unit before its k-th step, when nobody else writes them.
Partial(u, k, old) ==
    [entrypoint |-> IF k <= 2 THEN old.entrypoint
                    ELSE IF Parents(u) = 1 /\ k = 3 THEN {<<u, FALSE>>} ELSE {<<u, TRUE>>},
     rootfs |-> PartialRootfs(u, k, old.rootfs),
     tests |-> IF k > Len(Steps(u)) THEN {u} ELSE old.tests]

\* A unit starts with what is in its directory.
LEMMA PartialBegins ==
    ASSUME NEW u, NEW p PROVE Partial(u, 1, Before(p)) = Before(p)
  <1> DEFINE old == Before(p)
  <1>1. /\ Parents(u) \in 0 .. 1 /\ Rootfs(u) \in 0 .. 1 /\ Len(Steps(u)) \in 3 .. 6
    BY StepsAreOrdered
  <1>2. /\ 1 <= 2 /\ ~ 1 > 3 + Parents(u) + Rootfs(u) /\ ~ 1 > 3 + Parents(u)
        /\ ~ 1 > Len(Steps(u))
    BY <1>1
  <1>3. old = [entrypoint |-> old.entrypoint, rootfs |-> old.rootfs, tests |-> old.tests]
    BY DEF Before, NoFiles, OldFiles
  <1> HIDE DEF old
  <1>4. PartialRootfs(u, 1, old.rootfs) = old.rootfs
    BY <1>2, Zenon DEF PartialRootfs
  <1>5. Partial(u, 1, old) = old
    BY <1>2, <1>3, <1>4, Zenon DEF Partial
  <1> QED BY <1>5 DEF old

\* What a step does to one of the three kinds of files.
LEMMA FilesChange ==
    ASSUME NEW e, NEW r, NEW t, NEW x
    PROVE  LET f == [entrypoint |-> e, rootfs |-> r, tests |-> t]
           IN  /\ f.entrypoint = e
               /\ f.rootfs = r
               /\ [f EXCEPT !.entrypoint = x] = [entrypoint |-> x, rootfs |-> r, tests |-> t]
               /\ [f EXCEPT !.rootfs = x] = [entrypoint |-> e, rootfs |-> x, tests |-> t]
               /\ [f EXCEPT !.tests = x] = [entrypoint |-> e, rootfs |-> r, tests |-> x]
  OBVIOUS

\* Each step leads from one such state of the files to the next one.
LEMMA PartialGoesOn ==
    ASSUME NEW u, NEW k \in 1 .. Len(Steps(u)), NEW old
    PROVE  After(Steps(u)[k], u, Partial(u, k, old)) = Partial(u, k + 1, old)
  <1> DEFINE p == Parents(u)
             r == Rootfs(u)
             o == Overlays(u)
             s == Steps(u)
             F(e, x, t) == [entrypoint |-> e, rootfs |-> x, tests |-> t]
             E(i) == IF i <= 2 THEN old.entrypoint
                     ELSE IF p = 1 /\ i = 3 THEN {<<u, FALSE>>} ELSE {<<u, TRUE>>}
             B(i) == IF r = 1 /\ i > 3 + p THEN Append(old.rootfs, <<u[1], "">>) ELSE old.rootfs
             R(i) == IF o = 1 /\ i > 3 + p + r THEN Append(B(i), <<u[1], u[3]>>) ELSE B(i)
             T(i) == IF i > Len(s) THEN {u} ELSE old.tests
  <1>1. /\ p \in 0 .. 1 /\ r \in 0 .. 1 /\ o \in 0 .. 1 /\ Len(s) = 3 + p + r + o
        /\ s[1] = "mkdir" /\ s[2] = "entrypoint" /\ (p = 1 => s[3] = "parent")
        /\ (r = 1 => s[3 + p] = "rootfs") /\ (o = 1 => s[3 + p + r] = "overlay")
        /\ s[3 + p + r + o] = "tests"
        /\ k \in 1 .. Len(s)
    BY StepsAreOrdered DEF Ordered
  <1>2. \A i : Partial(u, i, old) = F(E(i), R(i), T(i))
    BY DEF Partial, PartialRootfs
  <1>3. p = 1 <=> IsVariant(u)
    BY DEF Parents
  <1> HIDE DEF p, r, o, s
  <1>4. /\ k \in Int
        /\ \/ k = 1
           \/ k = 2
           \/ k = 3 /\ p = 1
           \/ k = 3 + p /\ r = 1
           \/ k = 3 + p + r /\ o = 1
           \/ k = 3 + p + r + o
    BY <1>1
  <1>5. /\ Len(s) \in Int /\ p \in Int /\ r \in Int /\ o \in Int
    BY <1>1
  <1>6. After(s[k], u, F(E(k), R(k), T(k))) = F(E(k + 1), R(k + 1), T(k + 1))
    <2>1. CASE k = 1
      <3>1. E(k) = E(k + 1) /\ R(k) = R(k + 1) /\ T(k) = T(k + 1)
        <4>1. /\ k <= 2 /\ k + 1 <= 2 /\ ~ k > 3 + p + r /\ ~ k + 1 > 3 + p + r
              /\ ~ k > 3 + p /\ ~ k + 1 > 3 + p /\ ~ k > Len(s) /\ ~ k + 1 > Len(s)
          BY <1>1, <1>5, <2>1
        <4> QED BY <4>1, <2>1, Zenon
      <3> HIDE DEF E, R, T, F
      <3> QED BY <1>1, <2>1, <3>1 DEF After
    <2>2. CASE k = 2
      <3>1. R(k) = R(k + 1) /\ T(k) = T(k + 1)
        <4>1. /\ ~ k > 3 + p + r /\ ~ k + 1 > 3 + p + r
              /\ ~ k > 3 + p /\ ~ k + 1 > 3 + p /\ ~ k > Len(s) /\ ~ k + 1 > Len(s)
          BY <1>1, <1>5, <2>2
        <4> QED BY <4>1, <2>2, Zenon
      <3>2. E(k + 1) = IF p = 1 THEN {<<u, FALSE>>} ELSE {<<u, TRUE>>}
        BY <2>2
      <3>3. After("entrypoint", u, F(E(k), R(k), T(k))) = F({<<u, ~ IsVariant(u)>>}, R(k), T(k))
        BY FilesChange DEF After
      <3>4. {<<u, ~ IsVariant(u)>>} = E(k + 1)
        <4>1. CASE p = 1
          <5>1. (~ IsVariant(u)) = FALSE
            BY <1>3, <4>1, Zenon
          <5> HIDE DEF E
          <5> QED BY <3>2, <4>1, <5>1, Zenon
        <4>2. CASE p # 1
          <5>1. (~ IsVariant(u)) = TRUE
            BY <1>3, <4>2, Zenon DEF IsVariant
          <5> HIDE DEF E
          <5> QED BY <3>2, <4>2, <5>1, Zenon
        <4> QED BY <4>1, <4>2
      <3>5. s[k] = "entrypoint"
        BY <1>1, <2>2
      <3> HIDE DEF E, R, T, F
      <3> QED BY <3>1, <3>3, <3>4, <3>5, Zenon
    <2>3. CASE k = 3 /\ p = 1
      <3>1. R(k) = R(k + 1) /\ T(k) = T(k + 1)
        BY <1>1, <2>3
      <3>2. E(k) = {<<u, FALSE>>} /\ E(k + 1) = {<<u, TRUE>>}
        BY <2>3
      <3>3. After("parent", u, F(E(k), R(k), T(k))) = F({<<e[1], TRUE>> : e \in E(k)}, R(k), T(k))
        BY FilesChange DEF After
      <3>4. {<<e[1], TRUE>> : e \in {<<u, FALSE>>}} = {<<u, TRUE>>}
        <4>1. <<u, FALSE>>[1] = u
          OBVIOUS
        <4> QED BY <4>1, Zenon
      <3>5. s[k] = "parent"
        BY <1>1, <2>3
      <3> HIDE DEF E, R, T, F
      <3> QED BY <3>1, <3>2, <3>3, <3>4, <3>5, Zenon
    <2>4. CASE k = 3 + p /\ r = 1
      <3>1. E(k) = E(k + 1) /\ T(k) = T(k + 1)
        BY <1>1, <2>4
      <3>2. R(k + 1) = Append(R(k), <<u[1], "">>)
        <4>1. /\ k + 1 > 3 + p /\ ~ k + 1 > 3 + p + r /\ r = 1
              /\ ~ k > 3 + p /\ ~ k > 3 + p + r
          BY <1>1, <1>5, <2>4
        <4>2. R(k + 1) = Append(old.rootfs, <<u[1], "">>)
          BY <4>1, Zenon
        <4>3. R(k) = old.rootfs
          BY <4>1, Zenon
        <4> HIDE DEF R
        <4> QED BY <4>2, <4>3, Zenon
      <3>3. After("rootfs", u, F(E(k), R(k), T(k))) = F(E(k), Append(R(k), <<u[1], "">>), T(k))
        BY FilesChange DEF After
      <3>4. s[k] = "rootfs"
        BY <1>1, <2>4
      <3> HIDE DEF E, R, T, F
      <3> QED BY <3>1, <3>2, <3>3, <3>4, Zenon
    <2>5. CASE k = 3 + p + r /\ o = 1
      <3>1. E(k) = E(k + 1) /\ T(k) = T(k + 1)
        BY <1>1, <2>5
      <3>2. R(k + 1) = Append(R(k), <<u[1], u[3]>>)
        <4>1. /\ k + 1 > 3 + p + r /\ ~ k > 3 + p + r /\ o = 1
              /\ r = 1 => k > 3 + p /\ k + 1 > 3 + p
          BY <1>1, <1>5, <2>5
        <4>2. B(k + 1) = B(k)
          BY <4>1, Zenon
        <4> HIDE DEF B
        <4>3. R(k + 1) = Append(B(k + 1), <<u[1], u[3]>>)
          BY <4>1, Zenon
        <4>4. R(k) = B(k)
          BY <4>1, Zenon
        <4> HIDE DEF R
        <4> QED BY <4>2, <4>3, <4>4, Zenon
      <3>3. After("overlay", u, F(E(k), R(k), T(k))) = F(E(k), Append(R(k), <<u[1], u[3]>>), T(k))
        BY FilesChange DEF After
      <3>4. s[k] = "overlay"
        BY <1>1, <2>5
      <3> HIDE DEF E, R, T, F
      <3> QED BY <3>1, <3>2, <3>3, <3>4, Zenon
    <2>6. CASE k = 3 + p + r + o
      <3>1. E(k) = E(k + 1) /\ R(k) = R(k + 1)
        <4>1. /\ ~ k <= 2 /\ ~ k + 1 <= 2 /\ ~ (p = 1 /\ k = 3) /\ ~ (p = 1 /\ k + 1 = 3)
              /\ (o = 1 => k > 3 + p + r /\ k + 1 > 3 + p + r)
              /\ (r = 1 => k > 3 + p /\ k + 1 > 3 + p)
          BY <1>1, <1>5, <2>6
        <4> QED BY <4>1, Zenon
      <3>2. T(k + 1) = {u}
        BY <1>1, <2>6
      <3>3. After("tests", u, F(E(k), R(k), T(k))) = F(E(k), R(k), {u})
        BY FilesChange DEF After
      <3>4. s[k] = "tests"
        BY <1>1, <2>6
      <3> HIDE DEF E, R, T, F
      <3> QED BY <3>1, <3>2, <3>3, <3>4, Zenon
    <2> QED BY <1>4, <2>1, <2>2, <2>3, <2>4, <2>5, <2>6
  <1> HIDE DEF E, R, T, F
  <1>7. After(s[k], u, Partial(u, k, old)) = Partial(u, k + 1, old)
    BY <1>2, <1>6, Zenon
  <1> QED BY <1>7 DEF s

\* After the last one the directory is as the definition says.
LEMMA PartialEnds ==
    ASSUME NEW u \in Units
    PROVE  Partial(u, Len(Steps(u)) + 1, Before(Path(u))) = Rendered(u)
  <1> DEFINE p == Parents(u)
             r == Rootfs(u)
             o == Overlays(u)
             n == Len(Steps(u)) + 1
             old == Before(Path(u))
             base == IF r = 1 THEN Append(old.rootfs, <<u[1], "">>) ELSE old.rootfs
             rootfs == IF o = 1 THEN Append(base, <<u[1], u[3]>>) ELSE base
  <1>1. p \in 0 .. 1 /\ r \in 0 .. 1 /\ o \in 0 .. 1 /\ Len(Steps(u)) = 3 + p + r + o
    BY StepsAreOrdered DEF Ordered
  <1>2. /\ ~ n <= 2 /\ ~ (p = 1 /\ n = 3) /\ n > Len(Steps(u))
        /\ (o = 1 => n > 3 + p + r) /\ (r = 1 => n > 3 + p)
    BY <1>1
  <1>3. r = 1 <=> <<u[1], "">> \in WithRootfs
    <2>1. 0 # 1
      OBVIOUS
    <2> QED BY <2>1, Zenon DEF Rootfs
  <1>4. o = 1 <=> IsVariant(u) /\ <<u[1], u[3]>> \in WithRootfs
    BY DEF Overlays
  <1>5. Rendered(u) = [entrypoint |-> {<<u, TRUE>>}, rootfs |-> rootfs, tests |-> {u}]
    <2> HIDE DEF r, o
    <2> QED BY <1>3, <1>4, Zenon DEF Rendered
  <1>6. PartialRootfs(u, n, old.rootfs) = rootfs
    <2> HIDE DEF n, p, r, o, old
    <2> QED BY <1>2, Zenon DEF PartialRootfs, p, r, o
  <1>7. Partial(u, n, old) = [entrypoint |-> {<<u, TRUE>>}, rootfs |-> rootfs, tests |-> {u}]
    <2> HIDE DEF n, p, r, o, old, rootfs
    <2> QED BY <1>2, <1>6, Zenon DEF Partial, p, r, o
  <1> HIDE DEF rootfs
  <1> QED BY <1>5, <1>7, Zenon DEF n, old
-----------------------------------------------------------------------------
(* The rendering.                                                          *)

UnitOK(u) ==
    /\ at[u] \in 1 .. Len(Steps(u))
    /\ unit[u] = "none" => at[u] = 1
    /\ unit[u] # "none" => u[1] \in images
    /\ IsVariant(u) => (unit[u] # "none" <=> unit[Base(u)] = "done")

UnitInvariant ==
    /\ unit \in [Units -> {"none", "running", "done", "failed"}]
    /\ at \in [Units -> 1 .. 6]
    /\ \A u \in Units : UnitOK(u)

\* A name whose goroutine has not been started has no unit that has been.
BaseOK(b) ==
    /\ Name(b[1]) \in names => unit[b] = "none"
    /\ render \in {"names", "ok"} => Name(b[1]) \in names \/ unit[b] # "none"

PhaseInvariant ==
    /\ render \in {"waiting", "names", "ok", "failed"}
    /\ left \subseteq Earlier /\ noDir \in BOOLEAN
    /\ names \subseteq Names
    /\ render = "waiting" =>
          /\ names = {} /\ noDir = FALSE
          /\ dist = [p \in left |-> OldFiles]
          /\ \A u \in Units : unit[u] = "none"
    /\ render # "waiting" => discovery = "found"
    /\ RenderIsQuiet
    /\ render = "ok" => names = {} /\ \A u \in Units : unit[u] \in {"none", "done"}

Apart ==
    \A u, v \in Units : u[1] \in images /\ v[1] \in images /\ Path(u) = Path(v) => u = v

FilesOK(u) ==
    /\ unit[u] = "none" => Files(Path(u)) = Before(Path(u))
    /\ unit[u] = "running" => Files(Path(u)) = Partial(u, at[u], Before(Path(u)))
    /\ unit[u] = "done" => Path(u) \in DOMAIN dist /\ dist[Path(u)] = Rendered(u)

DirsInvariant ==
    /\ left \subseteq DOMAIN dist
    /\ \A p \in DOMAIN dist :
        /\ DOMAIN dist[p] = DOMAIN NoFiles
        /\ p \in left \/ \E u \in Units : u[1] \in images /\ p = Path(u)

FilesInvariant == Apart => \A u \in Units : u[1] \in images => FilesOK(u)

BasesInvariant == \A b \in Bases : b[1] \in images => BaseOK(b)

RenderInvariant ==
    UnitInvariant /\ BasesInvariant /\ PhaseInvariant /\ DirsInvariant /\ FilesInvariant

\* There is a first step, and there are at most six.
LEMMA FirstStep == \A u : 1 \in 1 .. Len(Steps(u)) /\ 1 \in 1 .. 6 /\ Len(Steps(u)) \in 3 .. 6
  <1>1. \A n \in 3 .. 6 : 1 \in 1 .. n
    OBVIOUS
  <1> QED BY <1>1, StepsAreOrdered

\* No step adds or removes a kind of files.
LEMMA KindsStay ==
    ASSUME NEW s \in StepNames, NEW u, NEW f PROVE DOMAIN After(s, u, f) = DOMAIN f
  BY DEF After, StepNames

\* Paths depend on the project alone.
LEMMA PathKept ==
    ASSUME tree' = tree
    PROVE  /\ \A c : Name(c)' = Name(c)
           /\ \A u : Path(u)' = Path(u)
           /\ images' = images => Names' = Names /\ (Apart' <=> Apart)
  <1>1. \A c : Name(c)' = Name(c)
    BY DEF Name, DirOf
  <1>2. \A u : Path(u)' = Path(u)
    BY <1>1 DEF Path
  <1>3. images' = images => Names' = Names
    BY <1>1 DEF Names
  <1>4. images' = images => (Apart' <=> Apart)
    BY <1>2 DEF Apart
  <1> QED BY <1>1, <1>2, <1>3, <1>4

\* What a step of the rendering leaves alone.
LEMMA Frozen ==
    ASSUME UNCHANGED discoveryVars
    PROVE  /\ tree' = tree /\ images' = images /\ discovery' = discovery
           /\ \A c : Name(c)' = Name(c)
           /\ \A u : Path(u)' = Path(u)
           /\ Names' = Names /\ (Apart' <=> Apart)
  <1>1. tree' = tree /\ images' = images /\ discovery' = discovery
    BY DEF discoveryVars, project, group
  <1> QED BY <1>1, PathKept

\* At first dist/ is what an earlier rendering left.
LEMMA StartingFiles ==
    ASSUME dist = [p \in left |-> OldFiles]
    PROVE  (\A p : Files(p) = Before(p)) /\ DirsInvariant
  <1>1. \A p : Files(p) = Before(p)
    BY DEF Files, Before
  <1>2. DOMAIN OldFiles = DOMAIN NoFiles
    BY DEF OldFiles, NoFiles
  <1> QED BY <1>1, <1>2 DEF DirsInvariant

\* What was there before a unit does not change with the discovery.
LEMMA BeforeKept ==
    ASSUME UNCHANGED discoveryVars, left' = left
    PROVE  /\ \A p : Before(p)' = Before(p)
           /\ \A u : Before(Path(u))' = Before(Path(u))
           /\ \A u : Rendered(u)' = Rendered(u)
  <1>1. \A p : Before(p)' = Before(p)
    BY DEF Before
  <1>2. \A u : Before(Path(u))' = Before(Path(u))
    BY <1>1, Frozen DEF Before
  <1>3. \A u : Rendered(u)' = Rendered(u)
    BY <1>2 DEF Rendered
  <1> QED BY <1>1, <1>2, <1>3

\* What holds as long as no unit has been started.
LEMMA NothingRendered ==
    ASSUME unit = [u \in Units |-> "none"], at = [u \in Units |-> 1],
           names = {}, left \subseteq Earlier, noDir = FALSE, render = "waiting",
           dist = [p \in left |-> OldFiles]
    PROVE  RenderInvariant
  <1>1. UnitInvariant
    <2>1. \A u \in Units : Base(u) \in Units
      BY UnitsAre
    <2>2. \A u \in Units : unit[u] = "none" /\ at[u] = 1
      OBVIOUS
    <2>3. \A u \in Units : UnitOK(u)
      BY <2>1, <2>2, FirstStep DEF UnitOK
    <2>4. /\ unit \in [Units -> {"none", "running", "done", "failed"}]
          /\ at \in [Units -> 1 .. 6]
      BY FirstStep
    <2> QED BY <2>3, <2>4 DEF UnitInvariant
  <1>2. BasesInvariant
    BY DEF BasesInvariant, BaseOK
  <1>3. PhaseInvariant
    BY DEF PhaseInvariant, RenderIsQuiet
  <1>4. DirsInvariant
    BY StartingFiles
  <1>5. FilesInvariant
    <2>1. \A p : Files(p) = Before(p)
      BY StartingFiles
    <2> QED BY <2>1 DEF FilesInvariant, FilesOK
  <1> QED BY <1>1, <1>2, <1>3, <1>4, <1>5 DEF RenderInvariant

\* Nothing of the discovery is left to do when the rendering has started.
LEMMA DiscoveryHasEnded ==
    ASSUME DiscoveryInvariant, DiscoveryNext PROVE discovery = "running"
  <1> SUFFICES ASSUME discovery # "running" PROVE FALSE
    OBVIOUS
  <1>1. /\ walker = "closed" /\ dispatcher = "done"
        /\ \A c \in Configs : worker[c] \in {"none", "done"}
    BY DEF DiscoveryInvariant, GroupInvariant, DiscoveryIsQuiet
  <1>2. CASE VisitDir \/ ListDir \/ VisitFile \/ LeaveDir \/ EndWalk
    BY <1>1, <1>2 DEF VisitDir, ListDir, VisitFile, LeaveDir, EndWalk, Visiting
  <1>3. CASE Receive \/ StartWorker \/ EndDispatch
    BY <1>1, <1>3 DEF Receive, StartWorker, EndDispatch
  <1>4. CASE \E c \in Configs : Parse(c) \/ Store(c)
    BY <1>1, <1>4 DEF Parse, Store
  <1>5. CASE Wait \/ Interrupt
    BY <1>5 DEF Wait, Interrupt
  <1> QED BY <1>2, <1>3, <1>4, <1>5 DEF DiscoveryNext

\* The discovery, which is over when the rendering starts, does not touch dist/.
LEMMA DiscoveryRenders ==
    ASSUME DiscoveryInvariant, RenderInvariant, DiscoveryNext, UNCHANGED rendering
    PROVE  RenderInvariant'
  <1>1. discovery = "running"
    BY DiscoveryHasEnded
  <1>2. /\ dist' = dist /\ left' = left /\ render' = render /\ names' = names
        /\ unit' = unit /\ at' = at /\ noDir' = noDir
    BY DEF rendering
  <1>3. render = "waiting"
    BY <1>1 DEF RenderInvariant, PhaseInvariant
  <1>4. /\ names = {} /\ left \subseteq Earlier /\ noDir = FALSE
        /\ dist = [p \in left |-> OldFiles]
        /\ \A u \in Units : unit[u] = "none"
    BY <1>3 DEF RenderInvariant, PhaseInvariant
  <1>5. \A u \in Units : at[u] = 1
    BY <1>4 DEF RenderInvariant, UnitInvariant, UnitOK
  <1>6. /\ unit \in [Units -> {"none", "running", "done", "failed"}]
        /\ at \in [Units -> 1 .. 6]
    BY DEF RenderInvariant, UnitInvariant
  <1>7. unit = [u \in Units |-> "none"] /\ at = [u \in Units |-> 1]
    BY <1>4, <1>5, <1>6
  <1>8. /\ (unit = [u \in Units |-> "none"])' /\ (at = [u \in Units |-> 1])'
        /\ (names = {})' /\ (left \subseteq Earlier)' /\ (noDir = FALSE)' /\ (render = "waiting")'
        /\ (dist = [p \in left |-> OldFiles])'
    BY <1>2, <1>3, <1>4, <1>7
  <1> QED BY <1>8, NothingRendered, PTL

\* Any of the directories in dist/ are removed, and the names are waiting.
LEMMA StartRenderStep ==
    ASSUME RenderInvariant, StartRender PROVE RenderInvariant'
  <1>1. /\ discovery = "found" /\ render = "waiting" /\ names' = Names
        /\ render' \in {"names", "failed"} /\ left' \in SUBSET Earlier
        /\ dist' = [p \in left' |-> OldFiles]
        /\ unit' = unit /\ at' = at /\ noDir' = noDir /\ UNCHANGED discoveryVars
    BY DEF StartRender
  <1>2. /\ noDir = FALSE
        /\ \A u \in Units : unit[u] = "none"
    BY <1>1 DEF RenderInvariant, PhaseInvariant
  <1>3. /\ images' = images /\ discovery' = discovery
        /\ \A c : Name(c)' = Name(c)
        /\ Names' = Names
    BY <1>1, Frozen
  <1>4. UnitInvariant'
    BY <1>1, <1>3 DEF RenderInvariant, UnitInvariant, UnitOK
  <1>5. BasesInvariant'
    <2>1. ASSUME NEW b \in Bases, b[1] \in images PROVE BaseOK(b)'
      <3>1. unit'[b] = "none"
        BY <1>1, <1>2, UnitsAre
      <3>2. Name(b[1])' \in names'
        BY <1>1, <1>3, <2>1 DEF Names
      <3> QED BY <3>1, <3>2 DEF BaseOK
    <2> QED BY <1>3, <2>1 DEF BasesInvariant
  <1>6. PhaseInvariant'
    <2>1. RenderIsQuiet'
      BY <1>1, <1>2 DEF RenderIsQuiet
    <2>2. names' \subseteq Names' /\ noDir' \in BOOLEAN /\ discovery' = "found"
      BY <1>1, <1>2, <1>3
    <2> QED BY <1>1, <2>1, <2>2 DEF PhaseInvariant
  <1>7. (\A p : Files(p) = Before(p))' /\ DirsInvariant'
    <2>1. (dist = [p \in left |-> OldFiles])'
      BY <1>1
    <2> QED BY <2>1, StartingFiles, PTL
  <1>8. FilesInvariant'
    <2>1. \A u : Files(Path(u))' = Before(Path(u))'
      BY <1>7
    <2>2. \A u \in Units : FilesOK(u)'
      BY <1>1, <1>2, <2>1 DEF FilesOK
    <2> QED BY <2>2 DEF FilesInvariant
  <1> QED BY <1>4, <1>5, <1>6, <1>7, <1>8 DEF RenderInvariant

\* The invariants of dist/ hold after a step that does not write to it and that
\* starts or fails units at their first step.
LEMMA FilesStay ==
    ASSUME FilesInvariant, UNCHANGED discoveryVars, dist' = dist, left' = left, at' = at,
           \A u \in Units : \/ unit'[u] = unit[u] \/ unit'[u] = "failed"
                            \/ unit[u] = "none" /\ at[u] = 1 /\ unit'[u] = "running"
    PROVE  FilesInvariant'
  <1> SUFFICES ASSUME Apart', NEW u \in Units, u[1] \in images' PROVE FilesOK(u)'
    BY DEF FilesInvariant
  <1>1. Apart /\ u[1] \in images /\ Path(u)' = Path(u)
    BY Frozen
  <1>2. FilesOK(u)
    BY <1>1 DEF FilesInvariant
  <1>3. Files(Path(u))' = Files(Path(u))
    BY <1>1 DEF Files
  <1>4. Partial(u, 1, Before(Path(u))) = Before(Path(u))
    BY PartialBegins
  <1>5. /\ Before(Path(u))' = Before(Path(u)) /\ Rendered(u)' = Rendered(u)
        /\ \A k, old : Partial(u, k, old)' = Partial(u, k, old)
    BY BeforeKept DEF Partial
  <1> QED BY <1>1, <1>2, <1>3, <1>4, <1>5 DEF FilesOK

\* The same of the directories of dist/.
LEMMA DirsStay ==
    ASSUME DirsInvariant, UNCHANGED discoveryVars, dist' = dist, left' = left
    PROVE  DirsInvariant'
  BY Frozen DEF DirsInvariant

\* The bases of a name are started.
LEMMA StartNameStep ==
    ASSUME RenderInvariant, NEW n \in Names, StartName(n) PROVE RenderInvariant'
  <1>1. /\ render = "names" /\ n \in names /\ names' = names \ {n}
        /\ unit' = [u \in Units |->
                      IF u \in Bases /\ u[1] \in images /\ Name(u[1]) = n
                      THEN "running" ELSE unit[u]]
        /\ UNCHANGED discoveryVars
        /\ dist' = dist /\ left' = left /\ render' = render /\ at' = at /\ noDir' = noDir
    BY DEF StartName
  <1>2. /\ images' = images /\ discovery' = discovery
        /\ \A c : Name(c)' = Name(c)
        /\ Names' = Names
    BY <1>1, Frozen
  <1>3. /\ UnitInvariant /\ BasesInvariant /\ PhaseInvariant
        /\ \A u \in Units : UnitOK(u)
    BY DEF RenderInvariant, UnitInvariant
  <1> DEFINE Starts(u) == u \in Bases /\ u[1] \in images /\ Name(u[1]) = n
  <1>4. \A u \in Units : /\ Starts(u) => unit[u] = "none" /\ unit'[u] = "running"
                         /\ ~Starts(u) => unit'[u] = unit[u]
    BY <1>1, <1>3 DEF BasesInvariant, BaseOK
  <1>5. \A u \in Units : Starts(u) => u \in Bases /\ u[1] \in images
    OBVIOUS
  <1>6. unit' \in [Units -> {"none", "running", "done", "failed"}]
    BY <1>1, <1>3 DEF UnitInvariant
  <1>7. \A b \in Bases : b[1] \in images /\ ~Starts(b) => Name(b[1]) # n
    OBVIOUS
  <1> HIDE DEF Starts
  <1>8. UnitInvariant'
    <2>1. ASSUME NEW u \in Units PROVE UnitOK(u)'
      <3>1. UnitOK(u) /\ Base(u) \in Units /\ (IsVariant(u) => u \notin Bases)
        BY <1>3, UnitsAre
      <3>2. /\ unit'[u] = "none" => unit[u] = "none"
            /\ unit'[u] # "none" => u[1] \in images
            /\ IsVariant(u) => unit'[u] = unit[u]
            /\ unit'[Base(u)] = "done" <=> unit[Base(u)] = "done"
        BY <1>4, <1>5, <3>1 DEF UnitOK
      <3> QED BY <1>1, <1>2, <3>1, <3>2 DEF UnitOK
    <2> QED BY <1>1, <1>3, <1>6, <2>1 DEF UnitInvariant
  <1>9. BasesInvariant'
    <2>1. ASSUME NEW b \in Bases, b[1] \in images PROVE BaseOK(b)'
      <3>1. BaseOK(b) /\ b \in Units
        BY <1>3, <2>1, UnitsAre DEF BasesInvariant
      <3>2. CASE Starts(b)
        <4>1. Name(b[1]) = n
          BY <3>2 DEF Starts
        <4> QED BY <1>1, <1>2, <1>4, <3>1, <3>2, <4>1 DEF BaseOK
      <3>3. CASE ~Starts(b)
        BY <1>1, <1>2, <1>4, <1>7, <2>1, <3>1, <3>3 DEF BaseOK
      <3> QED BY <3>2, <3>3
    <2> QED BY <1>2, <2>1 DEF BasesInvariant
  <1>10. PhaseInvariant'
    BY <1>1, <1>2, <1>3 DEF PhaseInvariant, RenderIsQuiet
  <1>11. DirsInvariant'
    BY <1>1, DirsStay DEF RenderInvariant
  <1>12. FilesInvariant'
    BY <1>1, <1>3, <1>4, FilesStay DEF RenderInvariant, UnitOK
  <1> QED BY <1>8, <1>9, <1>10, <1>11, <1>12 DEF RenderInvariant

\* The one early return.
LEMMA NameDirFailsStep ==
    ASSUME RenderInvariant, NameDirFails PROVE RenderInvariant'
  <1>1. /\ render = "names" /\ render' = "failed" /\ noDir' = TRUE
        /\ UNCHANGED discoveryVars /\ dist' = dist /\ left' = left
        /\ names' = names /\ unit' = unit /\ at' = at
    BY DEF NameDirFails
  <1>2. /\ images' = images /\ discovery' = discovery
        /\ \A c : Name(c)' = Name(c)
        /\ Names' = Names
    BY <1>1, Frozen
  <1>3. UnitInvariant'
    BY <1>1, <1>2 DEF RenderInvariant, UnitInvariant, UnitOK
  <1>4. BasesInvariant'
    BY <1>1, <1>2 DEF RenderInvariant, BasesInvariant, BaseOK
  <1>5. PhaseInvariant'
    BY <1>1, <1>2 DEF RenderInvariant, PhaseInvariant, RenderIsQuiet
  <1>6. DirsInvariant'
    BY <1>1, DirsStay DEF RenderInvariant
  <1>7. FilesInvariant'
    BY <1>1, FilesStay DEF RenderInvariant
  <1> QED BY <1>3, <1>4, <1>5, <1>6, <1>7 DEF RenderInvariant

\* A unit fails: nothing is known of its files, and its variants are not started.
LEMMA FailStep ==
    ASSUME RenderInvariant, NEW u \in Units, Fail(u) PROVE RenderInvariant'
  <1>1. /\ unit[u] = "running" /\ unit' = [unit EXCEPT ![u] = "failed"]
        /\ UNCHANGED discoveryVars /\ dist' = dist /\ left' = left
        /\ render' = render /\ names' = names /\ at' = at /\ noDir' = noDir
    BY DEF Fail
  <1>2. /\ images' = images /\ discovery' = discovery
        /\ \A c : Name(c)' = Name(c)
        /\ Names' = Names
    BY <1>1, Frozen
  <1>3. /\ UnitInvariant /\ BasesInvariant /\ PhaseInvariant
        /\ unit \in [Units -> {"none", "running", "done", "failed"}]
        /\ \A v \in Units : UnitOK(v)
    BY DEF RenderInvariant, UnitInvariant
  <1>4. /\ unit'[u] = "failed" /\ \A v \in Units \ {u} : unit'[v] = unit[v]
        /\ unit' \in [Units -> {"none", "running", "done", "failed"}]
    BY <1>1, <1>3
  <1>5. UnitInvariant'
    <2>1. ASSUME NEW v \in Units PROVE UnitOK(v)'
      <3>1. UnitOK(v) /\ Base(v) \in Units
        BY <1>3, UnitsAre
      <3>2. /\ unit'[v] = "none" <=> unit[v] = "none"
            /\ unit'[Base(v)] = "done" <=> unit[Base(v)] = "done"
        BY <1>1, <1>4, <3>1
      <3> QED BY <1>1, <1>2, <3>1, <3>2 DEF UnitOK
    <2> QED BY <1>1, <1>3, <1>4, <2>1 DEF UnitInvariant
  <1>6. BasesInvariant'
    <2>1. ASSUME NEW b \in Bases, b[1] \in images PROVE BaseOK(b)'
      <3>1. BaseOK(b) /\ b \in Units
        BY <1>3, <2>1, UnitsAre DEF BasesInvariant
      <3>2. unit'[b] = "none" <=> unit[b] = "none"
        BY <1>1, <1>4, <3>1
      <3> QED BY <1>1, <1>2, <3>1, <3>2 DEF BaseOK
    <2> QED BY <1>2, <2>1 DEF BasesInvariant
  <1>7. render # "waiting" /\ render # "ok"
    BY <1>1, <1>3 DEF PhaseInvariant
  <1>8. PhaseInvariant'
    BY <1>1, <1>2, <1>3, <1>4, <1>7 DEF PhaseInvariant, RenderIsQuiet
  <1>9. DirsInvariant'
    BY <1>1, DirsStay DEF RenderInvariant
  <1>10. FilesInvariant'
    <2>1. \A v \in Units : unit'[v] = unit[v] \/ unit'[v] = "failed"
      BY <1>4
    <2> QED BY <1>1, <2>1, FilesStay DEF RenderInvariant
  <1> QED BY <1>5, <1>6, <1>8, <1>9, <1>10 DEF RenderInvariant

\* All goroutines have ended.
LEMMA EndRenderStep ==
    ASSUME RenderInvariant, EndRender PROVE RenderInvariant'
  <1>1. /\ render = "names" /\ names = {} /\ \A u \in Units : unit[u] # "running"
        /\ render' = IF \E u \in Units : unit[u] = "failed" THEN "failed" ELSE "ok"
        /\ UNCHANGED discoveryVars /\ dist' = dist /\ left' = left
        /\ names' = names /\ unit' = unit /\ at' = at /\ noDir' = noDir
    BY DEF EndRender
  <1>2. /\ images' = images /\ discovery' = discovery
        /\ \A c : Name(c)' = Name(c)
        /\ Names' = Names
    BY <1>1, Frozen
  <1>3. UnitInvariant'
    BY <1>1, <1>2 DEF RenderInvariant, UnitInvariant, UnitOK
  <1>4. BasesInvariant'
    BY <1>1, <1>2 DEF RenderInvariant, BasesInvariant, BaseOK
  <1>5. PhaseInvariant'
    <2>1. render' \in {"failed", "ok"}
      BY <1>1
    <2>2. render' = "ok" => \A u \in Units : unit[u] \in {"none", "done"}
      BY <1>1 DEF RenderInvariant, UnitInvariant
    <2> QED BY <1>1, <1>2, <2>1, <2>2 DEF RenderInvariant, PhaseInvariant, RenderIsQuiet
  <1>6. DirsInvariant'
    BY <1>1, DirsStay DEF RenderInvariant
  <1>7. FilesInvariant'
    BY <1>1, FilesStay DEF RenderInvariant
  <1> QED BY <1>3, <1>4, <1>5, <1>6, <1>7 DEF RenderInvariant

\* A unit takes a step: nobody else writes to its directory when paths are apart,
\* and after its last one a base starts its variants.
LEMMA DoStep ==
    ASSUME RenderInvariant, NEW u \in Units, Do(u) PROVE RenderInvariant'
  <1> DEFINE p == Path(u)
             last == at[u] = Len(Steps(u))
             begun == IF last /\ ~ IsVariant(u)
                      THEN {<<u[1], u[2], s>> : s \in Variants[u[1]]} ELSE {}
             after == After(Steps(u)[at[u]], u, Files(p))
  <1>1. /\ unit[u] = "running"
        /\ dist' = [q \in DOMAIN dist \cup {p} |-> IF q = p THEN after ELSE dist[q]]
        /\ at' = [at EXCEPT ![u] = IF last THEN @ ELSE @ + 1]
        /\ unit' = [v \in Units |-> IF v = u /\ last THEN "done"
                                    ELSE IF v \in begun THEN "running" ELSE unit[v]]
        /\ UNCHANGED discoveryVars /\ left' = left
        /\ render' = render /\ names' = names /\ noDir' = noDir
    BY DEF Do
  <1>2. /\ images' = images /\ discovery' = discovery
        /\ \A c : Name(c)' = Name(c)
        /\ \A v : Path(v)' = Path(v)
        /\ Names' = Names /\ (Apart' <=> Apart)
    BY <1>1, Frozen
  <1>3. /\ UnitInvariant /\ BasesInvariant /\ PhaseInvariant /\ DirsInvariant /\ FilesInvariant
        /\ unit \in [Units -> {"none", "running", "done", "failed"}]
        /\ at \in [Units -> 1 .. 6]
        /\ \A v \in Units : UnitOK(v)
    BY DEF RenderInvariant, UnitInvariant
  <1>4. u[1] \in images /\ at[u] \in 1 .. Len(Steps(u)) /\ Len(Steps(u)) \in 3 .. 6
    BY <1>1, <1>3, StepsAreOrdered DEF UnitOK
  \* The variants of a base are started by nobody else.
  <1>5. ASSUME NEW v \in begun
        PROVE  /\ v \in Units /\ IsVariant(v) /\ Base(v) = u /\ v # u /\ v \notin Bases
               /\ v[1] \in images /\ unit[v] = "none" /\ at[v] = 1
               /\ ~IsVariant(u) /\ last
    <2>1. ~IsVariant(u) /\ last /\ \E s \in Variants[u[1]] : v = <<u[1], u[2], s>>
      BY DEF begun
    <2>2. u \in Bases
      BY <2>1, UnitsAre
    <2>3. v \in Units /\ IsVariant(v) /\ Base(v) = u
      <3>1. PICK s \in Variants[u[1]] : v = <<u[1], u[2], s>>
        BY <2>1
      <3>2. /\ <<u[1], u[2], s>> \in Units /\ IsVariant(<<u[1], u[2], s>>)
            /\ Base(<<u[1], u[2], s>>) = u
        BY <2>2, UnitsAre, Zenon
      <3> QED BY <3>1, <3>2, Zenon
    <2>4. v # u /\ v \notin Bases /\ v[1] = u[1]
      BY <2>1, <2>3, UnitsAre
    <2>5. unit[v] = "none" /\ at[v] = 1
      BY <1>1, <1>3, <2>3 DEF UnitOK
    <2> QED BY <1>4, <2>1, <2>3, <2>4, <2>5
  <1>6. \A v \in Units : IsVariant(v) /\ Base(v) = u /\ last => v \in begun
    <2>1. ASSUME NEW v \in Units, IsVariant(v), Base(v) = u, last PROVE v \in begun
      <3>1. u \in Bases /\ ~IsVariant(u)
        BY <2>1, UnitsAre
      <3>2. v = <<u[1], u[2], v[3]>> /\ v[3] \in Variants[u[1]]
        <4>1. v = <<v[1], v[2], v[3]>> /\ Base(v)[1] = v[1]
          BY UnitsAre
        <4>2. Base(v)[1] = v[1] /\ Base(v)[2] = v[2]
          BY DEF Base
        <4>3. v[3] \in Variants[v[1]]
          BY <2>1, UnitsAre DEF IsVariant
        <4> QED BY <2>1, <4>1, <4>2, <4>3
      <3> QED BY <2>1, <3>1, <3>2
    <2> QED BY <2>1
  <1>7. /\ unit'[u] = IF last THEN "done" ELSE "running"
        /\ \A v \in Units : /\ v \in begun => unit'[v] = "running"
                            /\ v # u /\ v \notin begun => unit'[v] = unit[v]
        /\ unit' \in [Units -> {"none", "running", "done", "failed"}]
    <2>1. u \notin begun
      BY <1>5
    <2>2. \A v \in begun : v # u
      BY <1>5
    <2> HIDE DEF begun, last
    <2> QED BY <1>1, <1>3, <2>1, <2>2
  <1>8. /\ at'[u] = IF last THEN at[u] ELSE at[u] + 1
        /\ \A v \in Units : v # u => at'[v] = at[v]
        /\ at' \in [Units -> 1 .. 6] /\ at'[u] \in 1 .. Len(Steps(u))
    <2>1. (~last => at[u] + 1 \in 1 .. Len(Steps(u))) /\ \A x \in 1 .. Len(Steps(u)) : x \in 1 .. 6
      <3>1. \A n \in 3 .. 6 : /\ \A k \in 1 .. n : k # n => k + 1 \in 1 .. n
                              /\ \A x \in 1 .. n : x \in 1 .. 6
        OBVIOUS
      <3> QED BY <1>4, <3>1, Zenon
    <2>2. at'[u] = IF last THEN at[u] ELSE at[u] + 1
      BY <1>1, <1>3
    <2>3. at'[u] \in 1 .. Len(Steps(u))
      BY <1>4, <2>1, <2>2
    <2>4. \A v \in Units : v # u => at'[v] = at[v]
      BY <1>1, <1>3
    <2>5. DOMAIN at' = Units /\ at' = [v \in Units |-> at'[v]]
      BY <1>1, <1>3
    <2>6. \A v \in Units : at'[v] \in 1 .. 6
      BY <1>3, <2>1, <2>3, <2>4
    <2>7. at' \in [Units -> 1 .. 6]
      BY <2>5, <2>6
    <2> QED BY <2>2, <2>3, <2>4, <2>7
  <1>9. p \in DOMAIN dist' /\ dist'[p] = after /\ Files(p)' = after
    <2>1. Files(p)' = IF p \in DOMAIN dist' THEN dist'[p] ELSE NoFiles
      BY <1>2 DEF Files
    <2> HIDE DEF p, after
    <2> QED BY <1>1, <2>1
  <1>10. \A q : q # p => (q \in DOMAIN dist' <=> q \in DOMAIN dist) /\ (q \in DOMAIN dist => dist'[q] = dist[q])
    <2> HIDE DEF p, after
    <2> QED BY <1>1
  <1>11. UnitInvariant'
    <2>1. ASSUME NEW v \in Units PROVE UnitOK(v)'
      <3>1. UnitOK(v) /\ Base(v) \in Units /\ Base(v) \in Bases /\ (u \in Bases <=> ~IsVariant(u))
        BY <1>3, UnitsAre
      <3>2. at'[v] \in 1 .. Len(Steps(v))
        BY <1>8, <3>1 DEF UnitOK
      <3>3. (unit'[v] = "none" => at'[v] = 1) /\ (unit'[v] # "none" => v[1] \in images)
        <4>1. CASE v = u
          BY <1>4, <1>7, <4>1
        <4>2. CASE v \in begun
          BY <1>5, <1>7, <4>2
        <4>3. CASE v # u /\ v \notin begun
          BY <1>7, <1>8, <3>1, <4>3 DEF UnitOK
        <4> HIDE DEF begun
        <4> QED BY <4>1, <4>2, <4>3
      <3>4. ASSUME IsVariant(v) PROVE unit'[v] # "none" <=> unit'[Base(v)] = "done"
        <4>1. unit[v] # "none" <=> unit[Base(v)] = "done"
          BY <3>1, <3>4 DEF UnitOK
        <4>2. CASE v = u
          <5>1. Base(v) # u /\ Base(v) \notin begun
            BY <1>5, <3>1, <3>4, <4>2
          <5> HIDE DEF begun
          <5> QED BY <1>1, <1>7, <3>1, <4>1, <4>2, <5>1
        <4>3. CASE v \in begun
          BY <1>5, <1>7, <4>3
        <4>4. CASE v # u /\ v \notin begun
          <5>1. unit'[v] = unit[v] /\ Base(v) \notin begun /\ ~(last /\ Base(v) = u)
            BY <1>5, <1>6, <1>7, <3>1, <3>4, <4>4
          <5> HIDE DEF begun, last
          <5>2. CASE Base(v) = u
            BY <1>1, <1>7, <4>1, <5>1, <5>2
          <5>3. CASE Base(v) # u
            BY <1>7, <3>1, <4>1, <5>1, <5>3
          <5> QED BY <5>2, <5>3
        <4> HIDE DEF begun
        <4> QED BY <4>2, <4>3, <4>4
      <3> QED BY <1>2, <3>2, <3>3, <3>4 DEF UnitOK
    <2> QED BY <1>7, <1>8, <2>1 DEF UnitInvariant
  <1>12. BasesInvariant'
    <2>1. ASSUME NEW b \in Bases, b[1] \in images PROVE BaseOK(b)'
      <3>1. BaseOK(b) /\ b \in Units /\ b \notin begun
        BY <1>3, <1>5, <2>1, UnitsAre DEF BasesInvariant
      <3>2. unit'[b] = "none" <=> unit[b] = "none"
        <4> HIDE DEF begun, last
        <4> QED BY <1>1, <1>7, <3>1
      <3> HIDE DEF begun, last
      <3> QED BY <1>1, <1>2, <3>1, <3>2 DEF BaseOK
    <2> QED BY <1>2, <2>1 DEF BasesInvariant
  <1>13. render # "waiting" /\ render # "ok"
    BY <1>1, <1>3 DEF PhaseInvariant
  <1>14. PhaseInvariant'
    <2> HIDE DEF begun, last, p, after
    <2> QED BY <1>1, <1>2, <1>3, <1>13 DEF PhaseInvariant, RenderIsQuiet
  <1>15. DirsInvariant'
    <2>1. ASSUME NEW q \in DOMAIN dist'
          PROVE  /\ DOMAIN dist'[q] = DOMAIN NoFiles
                 /\ q \in left \/ \E v \in Units : v[1] \in images /\ q = Path(v)
      <3>1. CASE q = p
        <4>1. Steps(u)[at[u]] \in StepNames
          BY <1>4, StepsAreOrdered DEF Ordered
        <4>2. DOMAIN after = DOMAIN Files(p)
          BY <4>1, KindsStay
        <4>3. DOMAIN Files(p) = DOMAIN NoFiles
          BY <1>3 DEF Files, DirsInvariant
        <4> HIDE DEF after
        <4> QED BY <1>4, <1>9, <3>1, <4>2, <4>3
      <3>2. CASE q # p
        <4> HIDE DEF p
        <4> QED BY <1>3, <1>10, <2>1, <3>2 DEF DirsInvariant
      <3> QED BY <3>1, <3>2
    <2> HIDE DEF p, after, begun, last
    <2>2. left' = left /\ left \subseteq DOMAIN dist'
      BY <1>1, <1>2, <1>3, <1>10, <1>9 DEF DirsInvariant
    <2>3. \A q \in DOMAIN dist' :
              /\ DOMAIN dist'[q] = DOMAIN NoFiles
              /\ q \in left' \/ \E v \in Units : v[1] \in images' /\ q = Path(v)'
      BY <1>2, <2>1, <2>2
    <2> QED BY <2>2, <2>3 DEF DirsInvariant
  <1>16. /\ \A q : Before(q)' = Before(q)
         /\ \A v : Before(Path(v))' = Before(Path(v)) /\ Rendered(v)' = Rendered(v)
         /\ \A v, k, old : Partial(v, k, old)' = Partial(v, k, old)
    BY <1>1, BeforeKept DEF Partial
  <1>17. FilesInvariant'
    <2> SUFFICES ASSUME Apart, NEW v \in Units, v[1] \in images PROVE FilesOK(v)'
      BY <1>2 DEF FilesInvariant
    <2>1. FilesOK(v) /\ FilesOK(u)
      BY <1>3, <1>4 DEF FilesInvariant
    <2>2. CASE v = u
      <3>1. after = Partial(u, at[u] + 1, Before(p))
        <4>1. Files(p) = Partial(u, at[u], Before(p))
          BY <1>1, <2>1 DEF FilesOK
        <4> HIDE DEF p
        <4> QED BY <1>4, <4>1, PartialGoesOn
      <3>2. last => after = Rendered(u)
        <4> HIDE DEF after
        <4> QED BY <3>1, PartialEnds
      <3>3. Path(v)' = p
        BY <1>2, <2>2
      <3>4. Files(Path(v))' = after
        BY <1>9, <2>2
      <3>5. /\ Before(Path(v))' = Before(p) /\ Rendered(v)' = Rendered(u)
            /\ unit'[v] = IF last THEN "done" ELSE "running"
            /\ at'[v] = IF last THEN at[u] ELSE at[u] + 1
        BY <1>7, <1>8, <1>16, <2>2
      <3>6. Partial(v, at[v], Before(Path(v)))' = Partial(u, at'[v], Before(p))
        <4>1. Partial(v, at[v], Before(Path(v)))' = Partial(v, at'[v], Before(Path(v))')
          BY DEF Partial, PartialRootfs
        <4> HIDE DEF p, after
        <4> QED BY <2>2, <3>5, <4>1
      <3> HIDE DEF after, p, last
      <3> QED BY <1>9, <3>1, <3>2, <3>3, <3>4, <3>5, <3>6 DEF FilesOK
    <2>3. CASE v # u
      <3>1. Path(v) # p /\ Path(v)' = Path(v)
        BY <1>2, <1>4, <2>3 DEF Apart
      <3>2. Files(Path(v))' = Files(Path(v))
        <4> HIDE DEF p
        <4> QED BY <1>10, <3>1 DEF Files
      <3>3. Partial(v, 1, Before(Path(v))) = Before(Path(v))
        BY PartialBegins
      <3>4. at'[v] = at[v] /\ (v \in begun => unit'[v] = "running" /\ unit[v] = "none" /\ at[v] = 1)
            /\ (v \notin begun => unit'[v] = unit[v])
        BY <1>5, <1>7, <1>8, <2>3
      <3> HIDE DEF begun, p
      <3> QED BY <1>10, <1>16, <2>1, <3>1, <3>2, <3>3, <3>4 DEF FilesOK
    <2> QED BY <2>2, <2>3
  <1> QED BY <1>11, <1>12, <1>14, <1>15, <1>17 DEF RenderInvariant

-----------------------------------------------------------------------------

\* The inductive invariant of both phases.
GenerateInductive == DiscoveryInvariant /\ RenderInvariant

\* It holds at first,
LEMMA GenerateStarts == Init => GenerateInductive
  <1> SUFFICES ASSUME Init PROVE GenerateInductive
    OBVIOUS
  <1>1. DiscoveryInvariant
    BY DiscoveryStarts DEF Init
  <1>2. RenderInvariant
    BY NothingRendered DEF Init
  <1> QED BY <1>1, <1>2 DEF GenerateInductive

\* and after every step,
LEMMA GenerateStep ==
    ASSUME GenerateInductive, Next \/ UNCHANGED vars PROVE GenerateInductive'
  <1> USE DEF GenerateInductive
  <1>1. CASE DiscoveryNext /\ UNCHANGED rendering
    BY <1>1, DiscoveryStep, DiscoveryRenders
  <1>2. ASSUME UNCHANGED discoveryVars PROVE DiscoveryInvariant'
    BY <1>2, DiscoveryStep
  <1>3. CASE StartRender
    BY <1>2, <1>3, StartRenderStep DEF StartRender
  <1>4. CASE \E c \in images : StartName(Name(c))
    <2>1. PICK c \in images : StartName(Name(c))
      BY <1>4
    <2>2. Name(c) \in Names
      BY DEF Names
    <2>3. UNCHANGED discoveryVars
      BY <2>1 DEF StartName
    <2> QED BY <1>2, <2>1, <2>2, <2>3, StartNameStep
  <1>5. CASE NameDirFails
    BY <1>2, <1>5, NameDirFailsStep DEF NameDirFails
  <1>6. CASE \E u \in Units : Do(u) \/ Fail(u)
    <2>1. PICK u \in Units : Do(u) \/ Fail(u)
      BY <1>6
    <2>2. UNCHANGED discoveryVars
      BY <2>1 DEF Do, Fail
    <2> QED BY <1>2, <2>1, <2>2, DoStep, FailStep
  <1>7. CASE EndRender
    BY <1>2, <1>7, EndRenderStep DEF EndRender
  <1>8. CASE UNCHANGED vars
    <2>1. UNCHANGED discoveryVars /\ UNCHANGED rendering
      BY <1>8 DEF vars
    <2>2. /\ dist' = dist /\ left' = left /\ render' = render /\ names' = names
          /\ unit' = unit /\ at' = at /\ noDir' = noDir
      BY <2>1 DEF rendering
    <2>3. /\ images' = images /\ discovery' = discovery
          /\ \A c : Name(c)' = Name(c)
          /\ Names' = Names
      BY <2>1, Frozen
    <2>4. UnitInvariant'
      BY <2>2, <2>3 DEF RenderInvariant, UnitInvariant, UnitOK
    <2>5. BasesInvariant'
      BY <2>2, <2>3 DEF RenderInvariant, BasesInvariant, BaseOK
    <2>6. PhaseInvariant'
      BY <2>2, <2>3 DEF RenderInvariant, PhaseInvariant, RenderIsQuiet
    <2>7. DirsInvariant'
      BY <2>1, <2>2, DirsStay DEF RenderInvariant
    <2>8. FilesInvariant'
      BY <2>1, <2>2, FilesStay DEF RenderInvariant
    <2> QED BY <1>2, <2>1, <2>4, <2>5, <2>6, <2>7, <2>8 DEF RenderInvariant
  <1>9. CASE Exit
    BY <1>8, <1>9 DEF Exit
  <1> QED BY <1>1, <1>3, <1>4, <1>5, <1>6, <1>7, <1>8, <1>9 DEF Next

\* and so always.
LEMMA GenerateIsInductive == Spec => []GenerateInductive
  <1>1. GenerateInductive /\ [Next]_vars => GenerateInductive'
    BY GenerateStep
  <1> QED BY <1>1, GenerateStarts, PTL DEF Spec

\* What it says of the two phases.
LEMMA GenerateGives ==
    ASSUME GenerateInductive PROVE GenerateInvariant /\ GeneratedIsComplete
  <1>1. DiscoveryTypeOK /\ DiscoveryIsQuiet /\ DiscoveryIsExact
    BY DiscoveryGives DEF GenerateInductive
  <1>2. UnitInvariant /\ BasesInvariant /\ PhaseInvariant /\ DirsInvariant /\ FilesInvariant
    BY DEF GenerateInductive, RenderInvariant
  <1>3. TypeOK
    <2>1. \A p \in DOMAIN dist :
              /\ p \in left \/ \E u \in Units : u[1] \in images /\ p = Path(u)
              /\ DOMAIN dist[p] = DOMAIN NoFiles
      BY <1>2 DEF DirsInvariant
    <2> QED BY <1>1, <1>2, <2>1 DEF TypeOK, UnitInvariant, PhaseInvariant
  <1>4. GenerateInvariant
    BY <1>1, <1>2, <1>3 DEF GenerateInvariant, PhaseInvariant
  <1>5. GeneratedIsComplete
    <2> DEFINE visible == {u \in Units : u[1] \in Visible}
    <2> SUFFICES ASSUME render = "ok", ~interrupted,
                        \A u, v \in visible : Path(u) = Path(v) => u = v
                 PROVE  /\ \A u \in visible : Path(u) \in DOMAIN dist /\ dist[Path(u)] = Rendered(u)
                        /\ DOMAIN dist = {Path(u) : u \in visible} \cup left
      BY DEF GeneratedIsComplete
    <2>1. images = Visible
      BY <1>1, <1>2 DEF DiscoveryIsExact, PhaseInvariant
    <2>2. Apart
      BY <2>1 DEF Apart
    <2>3. names = {} /\ \A u \in Units : unit[u] \in {"none", "done"}
      BY <1>2 DEF PhaseInvariant
    <2>4. \A b \in Bases : b[1] \in images => unit[b] = "done"
      BY <1>2, <2>3, UnitsAre DEF BasesInvariant, BaseOK
    <2>5. \A u \in Units : u[1] \in images => unit[u] = "done"
      <3>1. ASSUME NEW u \in Units, u[1] \in images PROVE unit[u] = "done"
        <4>1. Base(u) \in Bases /\ Base(u)[1] \in images /\ (IsVariant(u) \/ u \in Bases)
          BY <3>1, UnitsAre
        <4>2. CASE u \in Bases
          BY <2>4, <3>1, <4>2
        <4>3. CASE IsVariant(u)
          BY <1>2, <2>3, <2>4, <4>1, <4>3 DEF UnitInvariant, UnitOK
        <4> QED BY <4>1, <4>2, <4>3
      <3> QED BY <3>1
    <2>6. \A u \in visible : Path(u) \in DOMAIN dist /\ dist[Path(u)] = Rendered(u)
      BY <1>2, <2>1, <2>2, <2>5 DEF FilesInvariant, FilesOK
    <2>7. DOMAIN dist = {Path(u) : u \in visible} \cup left
      <3>1. left \subseteq DOMAIN dist /\ \A q \in DOMAIN dist \ left : \E u \in visible : q = Path(u)
        BY <1>2, <2>1 DEF DirsInvariant
      <3>2. \A u \in visible : Path(u) \in DOMAIN dist
        BY <2>6
      <3>3. \A q \in DOMAIN dist \ left : \E u \in visible : q = Path(u)
        BY <3>1
      <3> HIDE DEF visible
      <3> QED BY <3>1, <3>2, <3>3
    <2> QED BY <2>6, <2>7
  <1> QED BY <1>4, <1>5

\* At every step of ch generate the goroutines of the discovery and of the
\* rendering keep to their types; the map the discovery returns is complete
\* unless there was an error or an interrupt; and none of the goroutines runs
\* after the phase it belongs to, unless the directory of a name failed.
THEOREM GenerateIsSound == Spec => []GenerateInvariant
  BY GenerateIsInductive, GenerateGives, PTL

\* When ch generate succeeds, dist/ holds every unit of every image config that
\* is not hidden, each as its own definition says, whatever the order in which
\* the names, the tags and the variants were rendered.
THEOREM GenerateIsComplete == Spec => []GeneratedIsComplete
  BY GenerateIsInductive, GenerateGives, PTL
=============================================================================
